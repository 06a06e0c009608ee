---------------------------- MODULE Invocations ----------------------------
(***************************************************************************)
(* What the service promises the D-Bus clients that call it: a call is     *)
(* answered exactly once, with a result or with an error, and the calls a  *)
(* client makes on one object are answered in the order it made them.      *)
(* Cancelling them, releasing the service and losing the device or the     *)
(* client may answer several calls early but never out of order.           *)
(***************************************************************************)
EXTENDS Integers, Sequences

CONSTANTS Session,      \* pairs of a client and an object it calls
          Call          \* the invocations

VARIABLES outstanding,  \* outstanding[s]: calls without an answer, in order
          answered      \* the calls that had their one answer

vars == <<outstanding, answered>>

Init ==
    /\ outstanding = [s \in Session |-> <<>>]
    /\ answered = {}

Pending == UNION {{outstanding[s][i] : i \in DOMAIN outstanding[s]} : s \in Session}

Fresh == Call \ (answered \cup Pending)

Accept(s, c) ==
    /\ outstanding' = [outstanding EXCEPT ![s] = Append(@, c)]
    /\ UNCHANGED answered

Refuse(c) ==
    /\ answered' = answered \cup {c}
    /\ UNCHANGED outstanding

\* A step answers the first n calls of every session, n being often zero.
Answer ==
    /\ DOMAIN outstanding' = Session
    /\ \A s \in Session : \E n \in 0..Len(outstanding[s]) :
          outstanding'[s] = SubSeq(outstanding[s], n + 1, Len(outstanding[s]))
    /\ answered' = answered \cup (Pending \ Pending')

Next ==
    \/ \E c \in Fresh : Refuse(c) \/ \E s \in Session : Accept(s, c)
    \/ Answer

Spec == Init /\ [][Next]_vars
=============================================================================
