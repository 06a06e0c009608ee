----------------------------- MODULE Directory -----------------------------
(***************************************************************************)
(* What the service promises its D-Bus clients about devices (API.txt,     *)
(* "GetDevices", "FoundDevice" and "LostDevice"): the answer of GetDevices *)
(* is at every moment what a client gathers from the two signals.  A path  *)
(* is announced at most once, withdrawn at most once and only after it was *)
(* announced, and is never used again.                                     *)
(***************************************************************************)
EXTENDS Sequences

CONSTANT Path           \* the object paths of devices

VARIABLES
    listed,             \* the paths GetDevices answers
    signals,            \* signals[p]: the signals sent about p, in order
    serving             \* the service has not stopped

vars == <<listed, signals, serving>>

Init ==
    /\ listed = {}
    /\ signals = [p \in Path |-> <<>>]
    /\ serving = TRUE

Found(p) ==
    /\ serving
    /\ signals[p] = <<>>
    /\ listed' = listed \cup {p}
    /\ signals' = [signals EXCEPT ![p] = <<"FoundDevice">>]
    /\ UNCHANGED serving

Lost(p) ==
    /\ serving
    /\ p \in listed
    /\ listed' = listed \ {p}
    /\ signals' = [signals EXCEPT ![p] = Append(@, "LostDevice")]
    /\ UNCHANGED serving

\* A client learns of this from the bus: no signal is sent.
Shutdown ==
    /\ serving
    /\ listed' = {}
    /\ serving' = FALSE
    /\ UNCHANGED signals

Next == (\E p \in Path : Found(p) \/ Lost(p)) \/ Shutdown

Spec == Init /\ [][Next]_vars
=============================================================================
