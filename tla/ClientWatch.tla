----------------------------- MODULE ClientWatch -----------------------------
(***************************************************************************)
(* The clients of the service (server.c): prv_add_task has the connector   *)
(* watch every client that calls and counts the watched ones; the service  *)
(* quits when the count comes back to zero, unless it is set never to.     *)
(***************************************************************************)
EXTENDS Integers, FiniteSets

CONSTANTS
    Client,           \* the bus names of clients, which are never reused
    CounterSize,      \* watchers is a guint: it counts modulo this
    UnwatchedRelease  \* a client that is not watched can call Release

ASSUME ClientAssumption ==
    /\ IsFiniteSet(Client)
    /\ CounterSize \in Nat
    /\ Cardinality(Client) < CounterSize
    /\ UnwatchedRelease \in BOOLEAN

VARIABLES
    connected,   \* the clients on the bus
    watched,     \* those the connector watches
    watchers,
    never_quit,  \* the NeverQuit setting
    quitting     \* the task processor was told to quit

clientVars == <<connected, watched, watchers, never_quit, quitting>>

ClientInit ==
    /\ connected = Client
    /\ watched = {}
    /\ watchers = 0
    /\ never_quit \in BOOLEAN
    /\ quitting = FALSE

-----------------------------------------------------------------------------
\* Seeded fault: every call counts, also one of a client already watched.
WatchClientEachCall(c) ==
    /\ c \in connected
    /\ watched' = watched \cup {c}
    /\ watchers' = (watchers + 1) % CounterSize
    /\ UNCHANGED <<connected, never_quit, quitting>>

\* What prv_add_task does about the caller.
WatchClient(c) ==
    /\ c \in connected
    /\ watched' = watched \cup {c}
    /\ watchers' = IF c \in watched THEN watchers
                                    ELSE (watchers + 1) % CounterSize
    /\ UNCHANGED <<connected, never_quit, quitting>>

\* Seeded fault: the count is compared before it is decremented.
RemoveClientEarly(c) ==
    /\ watched' = watched \ {c}
    /\ quitting' = (quitting \/ (watchers = 0 /\ ~never_quit))
    /\ watchers' = (watchers - 1) % CounterSize
    /\ UNCHANGED never_quit

RemoveClient(c) ==
    /\ watched' = watched \ {c}
    /\ watchers' = (watchers - 1) % CounterSize
    /\ quitting' = (quitting \/ (watchers' = 0 /\ ~never_quit))
    /\ UNCHANGED never_quit

\* The call Release of the manager object.
ReleaseClient(c) ==
    /\ c \in connected
    /\ c \in watched \/ UnwatchedRelease
    /\ RemoveClient(c)
    /\ UNCHANGED connected

\* A client leaves the bus; prv_lost_client is told if it was watched.
LostClient(c) ==
    /\ c \in connected
    /\ connected' = connected \ {c}
    /\ \/ c \in watched /\ RemoveClient(c)
       \/ /\ c \notin watched
          /\ UNCHANGED <<watched, watchers, never_quit, quitting>>

\* A task of a client sets the NeverQuit property of the manager.  The tasks
\* of a client that is not watched have been removed.
SetNeverQuit(c) ==
    /\ c \in watched
    /\ never_quit' \in BOOLEAN
    /\ UNCHANGED <<connected, watched, watchers, quitting>>

ClientNext ==
    \E c \in Client : \/ WatchClient(c)
                      \/ ReleaseClient(c)
                      \/ LostClient(c)
                      \/ SetNeverQuit(c)

ClientSpec == ClientInit /\ [][ClientNext]_clientVars

-----------------------------------------------------------------------------
\* Properties.

\* The count is the number of clients watched, each on the bus, however calls,
\* releases and losses of clients interleave: it neither wraps nor leaks.
WatchersCount ==
    /\ watched \subseteq connected
    /\ connected \subseteq Client
    /\ watchers = Cardinality(watched)

\* Unless it is never to quit, the service decides to quit in the very step
\* in which its last client releases it or is lost, and in no other: "It
\* automatically shuts down when the last of its clients quits or releases
\* its connection" (API.txt:5-6).
QuitsWithLastClient ==
    [][~quitting /\ ~never_quit
         => (quitting' <=> watched # {} /\ watched' = {})]_clientVars
=============================================================================
