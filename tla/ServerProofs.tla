---------------------------- MODULE ServerProofs ----------------------------
(***************************************************************************)
(* Theorems about Server.tla and the ClientWatch.tla it extends, for any   *)
(* number of clients, devices and calls: the counter of watched clients,   *)
(* then the tasks and their queues, by the inductive invariant SInv, which *)
(* ties every task to the queue that holds it and to what may still happen *)
(* to it, and last that Server implements Invocations.                     *)
(***************************************************************************)
EXTENDS Server, DataFacts, FiniteSetTheorems

-----------------------------------------------------------------------------
\* The counter of watched clients, where only watched clients release: it never
\* wraps, and quitting is decided with the last client.

ClientInv ==
    /\ WatchersCount
    /\ quitting \in BOOLEAN
    /\ never_quit \in BOOLEAN

\* How many clients are watched, and that one more or one less does not wrap.
LEMMA WatchedCardinality ==
    ASSUME ClientInv
    PROVE  /\ IsFiniteSet(watched)
           /\ Cardinality(watched) \in Nat
           /\ Cardinality(watched) < CounterSize
           /\ \A c \in watched :
                 (Cardinality(watched) - 1) % CounterSize
                     = Cardinality(watched) - 1
           /\ \A c \in Client \ watched :
                 (Cardinality(watched) + 1) % CounterSize
                     = Cardinality(watched) + 1
<1>1. IsFiniteSet(Client) /\ watched \subseteq Client
    BY ClientAssumption DEF ClientInv, WatchersCount
<1>2. /\ IsFiniteSet(watched)
      /\ Cardinality(watched) <= Cardinality(Client)
    BY <1>1, FS_Subset
<1>3. Cardinality(watched) \in Nat /\ Cardinality(Client) \in Nat
    BY <1>1, <1>2, FS_CardinalityType
<1>4. \A c \in watched : Cardinality(watched) # 0
    BY <1>2, FS_EmptySet
<1>5. \A c \in Client \ watched : watched # Client /\ Cardinality(watched) < Cardinality(Client)
    BY <1>1, <1>2, <1>3, FS_Subset
<1> QED BY <1>2, <1>3, <1>4, <1>5, ClientAssumption

\* What prv_remove_client does for a watched client.
LEMMA RemoveClientCounts ==
    ASSUME ClientInv, NEW c \in watched, RemoveClient(c)
    PROVE  /\ watchers' = Cardinality(watched')
           /\ quitting' = (quitting \/ (watched' = {} /\ ~never_quit))
           /\ never_quit' = never_quit
           /\ watched' = watched \ {c}
           /\ watched # {}
<1>1. watchers' = Cardinality(watched) - 1
    BY WatchedCardinality DEF RemoveClient, ClientInv, WatchersCount
<1>2. /\ IsFiniteSet(watched \ {c})
      /\ Cardinality(watched \ {c}) = Cardinality(watched) - 1
    BY WatchedCardinality, FS_RemoveElement
<1>3. (Cardinality(watched \ {c}) = 0) <=> (watched \ {c} = {})
    BY <1>2, FS_EmptySet
<1> QED BY <1>1, <1>2, <1>3 DEF RemoveClient

\* One step, of whatever handler, keeps the invariant and quits only with the
\* last client.
LEMMA ClientStep ==
    ASSUME ClientInv, ~UnwatchedRelease, [ClientNext]_clientVars
    PROVE  /\ ClientInv'
           /\ ~quitting /\ ~never_quit
                 => (quitting' <=> watched # {} /\ watched' = {})
<1> USE DEF ClientInv, WatchersCount
<1>1. ASSUME NEW c \in Client, WatchClient(c)
      PROVE  /\ ClientInv'
             /\ quitting' = quitting
             /\ watched' # {}
    <2>1. CASE c \in watched
        <3>1. watched' = watched BY <2>1, <1>1 DEF WatchClient
        <3> QED BY <2>1, <3>1, <1>1 DEF WatchClient
    <2>2. CASE c \notin watched
        <3>1. Cardinality(watched \cup {c}) = Cardinality(watched) + 1
            BY <2>2, WatchedCardinality, FS_AddElement
        <3>2. watchers' = Cardinality(watched) + 1
            BY <2>2, <1>1, WatchedCardinality DEF WatchClient
        <3> QED BY <3>1, <3>2, <1>1 DEF WatchClient
    <2> QED BY <2>1, <2>2
<1>2. ASSUME NEW c \in Client, ReleaseClient(c)
      PROVE  /\ ClientInv'
             /\ ~quitting /\ ~never_quit
                   => (quitting' <=> watched # {} /\ watched' = {})
    <2>1. c \in watched /\ RemoveClient(c) /\ connected' = connected
        BY <1>2 DEF ReleaseClient
    <2> QED BY <2>1, RemoveClientCounts
<1>3. ASSUME NEW c \in Client, LostClient(c)
      PROVE  /\ ClientInv'
             /\ ~quitting /\ ~never_quit
                   => (quitting' <=> watched # {} /\ watched' = {})
    <2>1. connected' = connected \ {c} BY <1>3 DEF LostClient
    <2>2. CASE c \in watched /\ RemoveClient(c)
        BY <2>1, <2>2, RemoveClientCounts
    <2>3. CASE /\ c \notin watched
               /\ UNCHANGED <<watched, watchers, never_quit, quitting>>
        BY <2>1, <2>3
    <2> QED BY <1>3, <2>2, <2>3 DEF LostClient
<1>4. ASSUME NEW c \in Client, SetNeverQuit(c)
      PROVE  /\ ClientInv'
             /\ quitting' = quitting
             /\ watched' # {}
    BY <1>4 DEF SetNeverQuit
<1>5. CASE UNCHANGED clientVars
    BY <1>5 DEF clientVars
<1> QED BY <1>1, <1>2, <1>3, <1>4, <1>5 DEF ClientNext

\* The count is the number of watched clients, at all times.
THEOREM WatchersCounted ==
    ASSUME ~UnwatchedRelease
    PROVE  ClientSpec => []WatchersCount
<1>1. ClientInit => ClientInv
    BY FS_EmptySet DEF ClientInit, ClientInv, WatchersCount
<1>2. ClientInv /\ [ClientNext]_clientVars => ClientInv'
    BY ClientStep
<1>3. ClientInv => WatchersCount
    BY DEF ClientInv
<1> QED BY <1>1, <1>2, <1>3, PTL DEF ClientSpec

\* The service decides to quit with its last client and not before.
THEOREM QuitsThen ==
    ASSUME ~UnwatchedRelease
    PROVE  ClientSpec => QuitsWithLastClient
<1>1. ClientInit => ClientInv
    BY FS_EmptySet DEF ClientInit, ClientInv, WatchersCount
<1>2. ClientInv /\ [ClientNext]_clientVars => ClientInv'
    BY ClientStep
<1>3. ClientInv /\ [ClientNext]_clientVars =>
          [~quitting /\ ~never_quit
              => (quitting' <=> watched # {} /\ watched' = {})]_clientVars
    BY ClientStep
<1> QED BY <1>1, <1>2, <1>3, PTL DEF ClientSpec, QuitsWithLastClient

-----------------------------------------------------------------------------
\* Tasks, queues and answers.

\* A task that waits, and one that is or was processed.
Fresh(r) ==
    /\ r.invocation = TRUE
    /\ r.cancellable = "null"
    /\ r.connected = FALSE
    /\ r.in_flight = FALSE
    /\ r.completions = 0

Begun(r) ==
    /\ r.cancellable # "null"
    /\ r.completions \in {0, 1}
    /\ r.in_flight = TRUE => /\ r.connected = TRUE
                             /\ r.cancellable = "new"
                             /\ r.invocation = TRUE
                             /\ r.completions = 0
    /\ r.connected = TRUE /\ r.cancellable = "new" => r.completions = 0
    /\ r.completions = 1 \/ (r.connected = TRUE /\ r.cancellable = "new")

\* A call that has a task is in the place its queue says, has no answer while
\* it can get one, and has its device listed and its client watched.
CallOK(t) ==
    /\ t > made => task[t] = None /\ replies[t] = 0
    /\ task[t] # None =>
         LET r == task[t]
             s == task[t].session
         IN  /\ \/ t = queue[s].current /\ Begun(r)
                \/ t \in ToSet(queue[s].tasks) /\ Fresh(r)
             /\ r.invocation = TRUE => replies[t] = 0
             /\ r.in_flight = TRUE /\ s[2] \in Device => s[2] \in listed
             /\ r.invocation = TRUE /\ queue[s].defer_remove = FALSE
                  => s[1] \in watched
             /\ r.kind = "icon" => s[2] \in Device

\* A queue holds tasks of its own, each once, and is that of a listed device or
\* of the manager, unless it is being removed and its last task about to end.
QueueOK(s) ==
    /\ IsInjective(queue[s].tasks)
    /\ \A t \in ToSet(queue[s].tasks) : /\ t # queue[s].current
                                        /\ task[t] # None
                                        /\ task[t].session = s
    /\ queue[s].current # None => /\ task[queue[s].current] # None
                                  /\ task[queue[s].current].session = s
    /\ queue[s].defer_remove = TRUE => /\ queue[s].current # None
                                       /\ task[queue[s].current].completions = 1
                                       /\ task[queue[s].current].invocation = FALSE
    /\ (queue[s].tasks # <<>> \/ queue[s].current # None)
         => (queue[s].defer_remove = FALSE /\ s[2] \in Device => s[2] \in listed)

SInv ==
    /\ ServerTypeOK
    /\ \A t \in Call : CallOK(t)
    /\ \A s \in Session : QueueOK(s)

-----------------------------------------------------------------------------
\* What the steps of a task make of it.

LEMMA CancelledTask ==
    ASSUME NEW r \in Tasks, Fresh(r) \/ Begun(r)
    PROVE  /\ Cancel(r) \in Tasks
           /\ Cancel(r).session = r.session
           /\ Cancel(r).kind = r.kind
           /\ Cancel(r).invocation = FALSE
           /\ Begun(r) => /\ Begun(Cancel(r))
                          /\ Cancel(r).in_flight = FALSE
                          /\ Cancel(r).completions = 1
<1> DEFINE fires == r.cancellable = "new" /\ r.connected
           n == Cancel(r)
<1>1. /\ n.session = r.session
      /\ n.kind = r.kind
      /\ n.invocation = FALSE
      /\ n.connected = r.connected
      /\ n.cancellable = IF r.cancellable = "new" THEN "cancelled"
                                                  ELSE r.cancellable
      /\ n.completions = IF fires THEN r.completions + 1 ELSE r.completions
  BY DEF Cancel, Tasks
<1>2. n.in_flight = FALSE /\ n \in Tasks
  <2>1. CASE fires
    <3>1. n = [r EXCEPT !.invocation = FALSE, !.cancellable = "cancelled",
                        !.in_flight = FALSE, !.completions = @ + 1]
      BY <2>1 DEF Cancel, Tasks
    <3>2. r.completions + 1 \in Nat
      BY DEF Tasks
    <3> QED
      BY <3>1, <3>2 DEF Tasks
  <2>2. CASE ~fires
    <3>1. r.in_flight = FALSE
      BY <2>2 DEF Fresh, Begun, Tasks
    <3>2. \/ n = [r EXCEPT !.invocation = FALSE, !.cancellable = "cancelled"]
          \/ n = [r EXCEPT !.invocation = FALSE]
      BY <2>2, <3>1 DEF Cancel, Tasks
    <3>3. CASE n = [r EXCEPT !.invocation = FALSE, !.cancellable = "cancelled"]
      BY <3>1, <3>3 DEF Tasks
    <3>4. CASE n = [r EXCEPT !.invocation = FALSE]
      BY <3>1, <3>4 DEF Tasks
    <3> QED
      BY <3>2, <3>3, <3>4
  <2> QED
    BY <2>1, <2>2
<1>3. /\ r.cancellable \in {"null", "new", "cancelled"}
      /\ r.completions \in Nat
  BY DEF Tasks
<1>4. Begun(r) => Begun(n) /\ n.completions = 1
  <2> HAVE Begun(r)
  <2>1. n.completions = 1
    <3>1. fires => r.completions = 0
      BY DEF Begun, Tasks
    <3>2. ~fires => r.completions = 1
      BY DEF Begun, Tasks
    <3> QED
      BY <1>1, <3>1, <3>2
  <2>2. n.cancellable # "null" /\ n.cancellable # "new"
    BY <1>1, <1>3 DEF Begun
  <2> QED
    BY <1>2, <2>1, <2>2 DEF Begun
<1> QED
  BY <1>1, <1>2, <1>4

LEMMA StartedTask ==
    ASSUME NEW r \in Tasks, Fresh(r), r.session \in Session, NEW n \in Started(r)
    PROVE  /\ n \in Tasks
           /\ n.session = r.session
           /\ n.kind = r.kind
           /\ n.invocation = TRUE
           /\ Begun(n)
           /\ n.in_flight = TRUE => r.session[2] \in listed
<1>1. /\ Idle(r) = [r EXCEPT !.cancellable = "new", !.completions = 1]
      /\ Idle(r) \in Tasks
      /\ Idle(r).session = r.session /\ Idle(r).kind = r.kind
      /\ Idle(r).invocation = TRUE /\ Idle(r).in_flight = FALSE
      /\ Begun(Idle(r))
  BY DEF Idle, Tasks, Fresh, Begun
<1>2. /\ Begin(r) \in Tasks
      /\ Begin(r).session = r.session /\ Begin(r).kind = r.kind
      /\ Begin(r).invocation = TRUE
      /\ Begun(Begin(r))
  BY DEF Begin, Tasks, Fresh, Begun
<1>3. \/ n = Idle(r)
      \/ n = Begin(r) /\ r.session[2] \in listed
  <2>1. CASE r.kind = "local" \/ r.session[2] \notin listed
    <3>1. Started(r) = {Idle(r)}
      BY <2>1 DEF Started
    <3> QED
      BY <3>1
  <2>2. CASE ~(r.kind = "local" \/ r.session[2] \notin listed)
    <3>1. Started(r) \in {{Idle(r)}, {Begin(r)}, {Idle(r), Begin(r)}}
      BY <2>2 DEF Started, IconStarted
    <3> QED
      BY <2>2, <3>1
  <2> QED
    BY <2>1, <2>2
<1> QED
  BY <1>1, <1>2, <1>3

-----------------------------------------------------------------------------
\* What the invariant says of one queue and of one call.

LEMMA QueueWith ==
    ASSUME NEW q \in Queue, NEW tasks \in Seq(Call)
    PROVE  LET n == [q EXCEPT !.tasks = tasks]
           IN  /\ n \in Queue
               /\ n.tasks = tasks
               /\ n.current = q.current
               /\ n.defer_remove = q.defer_remove
  BY DEF Queue

LEMMA QueueFacts ==
    ASSUME SInv, NEW s \in Session
    PROVE  /\ queue[s] \in Queue
           /\ queue[s].tasks \in Seq(Call)
           /\ ToSet(queue[s].tasks) \subseteq Call
           /\ queue[s].current \in Call \cup {None}
           /\ queue[s].defer_remove \in BOOLEAN
           /\ queue[s] = [tasks |-> queue[s].tasks, current |-> queue[s].current,
                          defer_remove |-> queue[s].defer_remove]
<1>1. queue[s] \in Queue
  BY DEF SInv, ServerTypeOK
<1> QED
  BY <1>1, EmptyInjective DEF Queue

LEMMA TaskFacts ==
    ASSUME SInv, NEW t \in Call, task[t] # None
    PROVE  /\ task[t] \in Tasks
           /\ task[t].session \in Session
           /\ Fresh(task[t]) \/ Begun(task[t])
           /\ t <= made
<1>1. task[t] \in Tasks
  BY DEF SInv, ServerTypeOK
<1>2. CallOK(t) /\ made \in Nat /\ t \in Nat
  BY ServerAssumption DEF SInv, ServerTypeOK, Call
<1>3. Fresh(task[t]) \/ Begun(task[t])
  BY <1>2 DEF CallOK
<1>4. t <= made
  BY <1>2 DEF CallOK
<1> QED
  BY <1>1, <1>3, <1>4 DEF Tasks

\* A call is in process, or waits, in its own queue and in no other.
LEMMA Places ==
    ASSUME SInv, NEW t \in Call, NEW K \in SUBSET Session
    PROVE  /\ t \in Current(K) <=> /\ task[t] # None
                                   /\ task[t].session \in K
                                   /\ t = queue[task[t].session].current
           /\ t \in Waiting(K) <=> /\ task[t] # None
                                   /\ task[t].session \in K
                                   /\ t \in ToSet(queue[task[t].session].tasks)
<1>1. t # None
  BY ServerAssumption
<1>2. \A s \in Session : t = queue[s].current => task[t] # None /\ task[t].session = s
  BY <1>1 DEF SInv, QueueOK
<1>3. \A s \in Session : t \in ToSet(queue[s].tasks)
                            => task[t] # None /\ task[t].session = s
  BY DEF SInv, QueueOK
<1>4. t \in Current(K) <=> \E s \in K : t = queue[s].current
  BY <1>1 DEF Current
<1>5. t \in Waiting(K) <=> \E s \in K : t \in ToSet(queue[s].tasks)
  BY DEF Waiting
<1> QED
  BY <1>2, <1>3, <1>4, <1>5

LEMMA PlaceKinds ==
    ASSUME SInv, NEW t \in Call, NEW K \in SUBSET Session
    PROVE  /\ t \in Current(K) => Begun(task[t]) /\ t \notin Waiting(Session)
           /\ t \in Waiting(K) => Fresh(task[t]) /\ t \notin Current(Session)
<1>1. ASSUME NEW L \in SUBSET Session, t \in Current(L)
      PROVE  t \notin Waiting(Session)
  <2> DEFINE s == task[t].session
  <2>1. s \in Session /\ t = queue[s].current
    BY <1>1, Places
  <2>2. t \notin ToSet(queue[s].tasks)
    BY <2>1 DEF SInv, QueueOK
  <2> QED
    BY <2>2, Places
<1>2. task[t] # None => LET s == task[t].session IN
         \/ t = queue[s].current /\ Begun(task[t])
         \/ t \in ToSet(queue[s].tasks) /\ Fresh(task[t])
  BY DEF SInv, CallOK
<1>3. task[t] # None => task[t].session \in Session
  BY TaskFacts
<1>4. ASSUME t \in Current(K) PROVE Begun(task[t])
  BY <1>1, <1>2, <1>3, <1>4, Places
<1>5. ASSUME t \in Waiting(K) PROVE Fresh(task[t]) /\ t \notin Current(Session)
  <2>1. t \in Waiting(Session)
    BY <1>5 DEF Waiting
  <2> QED
    BY <1>1, <1>2, <1>3, <1>5, <2>1, Places
<1> QED
  BY <1>1, <1>4, <1>5

-----------------------------------------------------------------------------
\* The steps.

LEMMA InitOK == ServerInit => SInv
<1> SUFFICES ASSUME ServerInit PROVE SInv
  OBVIOUS
<1>1. NoQueue \in Queue /\ NoQueue.tasks = <<>> /\ NoQueue.current = None
      /\ NoQueue.defer_remove = FALSE
  BY EmptyInjective DEF NoQueue, Queue
<1>2. ServerTypeOK
  BY <1>1, ServerAssumption DEF ServerInit, ServerTypeOK
<1>3. ASSUME NEW t \in Call PROVE CallOK(t)
  BY DEF ServerInit, CallOK
<1>4. ASSUME NEW s \in Session PROVE QueueOK(s)
  BY <1>1, EmptyInjective DEF ServerInit, QueueOK
<1> QED
  BY <1>2, <1>3, <1>4 DEF SInv

\* Cancelling what queues K process and dropping what waits in G, a part of
\* them, while the rest of K is removed when its task has ended.
Drop(K, G) ==
    /\ Reply(Current(K) \cup Waiting(G))
    /\ task' = [t \in Call |-> IF t \in Current(K) THEN Cancel(task[t])
                              ELSE IF t \in Waiting(G) THEN None
                              ELSE task[t]]
    /\ queue' \in [Session -> Queue]
    /\ \A s \in Session :
          /\ queue'[s].current = queue[s].current
          /\ queue'[s].tasks = IF s \in G THEN <<>> ELSE queue[s].tasks
          /\ s \notin K => queue'[s].defer_remove = queue[s].defer_remove
    /\ \A s \in K : queue'[s].defer_remove = TRUE => queue[s].current # None
    /\ \A s \in K : queue'[s].defer_remove = FALSE =>
          queue[s].current = None \/ (queue[s].defer_remove = FALSE /\ listed' = listed)
    /\ \A s \in K \ G : queue'[s].defer_remove = TRUE
    /\ made' = made

LEMMA DropOK ==
    ASSUME SInv, NEW K \in SUBSET Session, NEW G \in SUBSET K, Drop(K, G),
           \A s \in Session \ K :
              /\ s[2] \in listed => s[2] \in listed'
              /\ s[1] \in watched => s[1] \in watched',
           UNCHANGED icons,
           listed' \subseteq found', found' \subseteq Device
    PROVE  SInv'
<1> USE DEF Drop
<1>1. ASSUME NEW t \in Call
      PROVE  /\ task'[t] = IF t \in Current(K) THEN Cancel(task[t])
                           ELSE IF t \in Waiting(G) THEN None ELSE task[t]
             /\ replies'[t] = IF t \in Current(K) \cup Waiting(G)
                                 /\ task[t].invocation
                              THEN replies[t] + 1 ELSE replies[t]
  BY DEF Reply
<1>2. ASSUME NEW t \in Call
      PROVE  /\ t \in Current(K) => /\ Begun(task[t])
                                   /\ t \notin Waiting(G)
                                   /\ task[t] # None
                                   /\ t = queue[task[t].session].current
             /\ t \in Waiting(G) => Fresh(task[t]) /\ task[t] # None
  <2>1. G \in SUBSET Session /\ (t \in Waiting(G) => t \in Waiting(Session))
    BY DEF Waiting
  <2> QED
    BY <2>1, Places, PlaceKinds
<1>3. ASSUME NEW t \in Call, t \in Current(K)
      PROVE  /\ task'[t] \in Tasks /\ task'[t] # None
             /\ task'[t].session = task[t].session
             /\ task'[t].kind = task[t].kind
             /\ task'[t].invocation = FALSE /\ task'[t].in_flight = FALSE
             /\ Begun(task'[t])
  <2>1. task'[t] = Cancel(task[t])
    BY <1>1, <1>3
  <2>2. task[t] \in Tasks /\ Begun(task[t])
    BY <1>2, <1>3, TaskFacts
  <2> DEFINE n == Cancel(task[t])
  <2>3. /\ n \in Tasks
        /\ n.session = task[t].session
        /\ n.kind = task[t].kind
        /\ n.invocation = FALSE /\ n.in_flight = FALSE
        /\ Begun(n)
    BY <2>2, CancelledTask
  <2> HIDE DEF n
  <2>4. n # None
    BY <2>3, TaskAssumption
  <2> QED
    BY <2>1, <2>3, <2>4 DEF n
<1>4. ServerTypeOK'
  <2>1. ASSUME NEW t \in Call PROVE task'[t] \in Tasks \cup {None}
    BY <1>1, <1>3 DEF SInv, ServerTypeOK
  <2>2. ASSUME NEW t \in Call PROVE replies'[t] \in 0..1
    <3>1. replies[t] \in 0..1
      BY DEF SInv, ServerTypeOK
    <3>2. CASE t \in Current(K) \cup Waiting(G) /\ task[t].invocation
      <4>1. task[t] # None /\ task[t].invocation = TRUE
        BY <1>2, <3>2, TaskFacts DEF Tasks
      <4>2. replies[t] = 0
        BY <4>1 DEF SInv, CallOK
      <4> QED
        BY <1>1, <3>2, <4>2
    <3>3. CASE ~(t \in Current(K) \cup Waiting(G) /\ task[t].invocation)
      BY <1>1, <3>1, <3>3
    <3> QED
      BY <3>2, <3>3
  <2>3. /\ task' = [t \in Call |-> task'[t]]
        /\ replies' = [t \in Call |-> replies'[t]]
    BY DEF Reply
  <2> QED
    BY <2>1, <2>2, <2>3 DEF SInv, ServerTypeOK
<1>5. ASSUME NEW t \in Call PROVE CallOK(t)'
  <2>0. task[t] # None => t <= made /\ task[t].session \in Session
    BY TaskFacts
  <2>1. CASE t \in Current(K)
    <3>1. task[t] # None /\ t <= made
      BY <1>2, <2>0, <2>1
    <3>2. ~(t > made) /\ made' = made
      BY <3>1, ServerAssumption DEF SInv, ServerTypeOK, Call
    <3>3. task'[t].session \in Session /\ task'[t].session = task[t].session
      BY <1>3, <2>0, <2>1, <3>1
    <3>4. t = queue'[task'[t].session].current
      BY <1>2, <2>1, <3>3
    <3>5. task'[t].kind = "icon" => task'[t].session[2] \in Device
      BY <1>3, <2>1, <3>1, <3>3 DEF SInv, CallOK
    <3>6. Begun(task'[t]) /\ task'[t].invocation = FALSE /\ task'[t].in_flight = FALSE
      BY <1>3, <2>1
    <3> QED
      BY <3>2, <3>4, <3>5, <3>6 DEF CallOK
  <2>2. CASE t \in Waiting(G)
    <3>1. task'[t] = None
      BY <1>1, <1>2, <2>2
    <3>2. ~(t > made) /\ made' = made
      BY <1>2, <2>0, <2>2, ServerAssumption DEF SInv, ServerTypeOK, Call
    <3> QED
      BY <3>1, <3>2 DEF CallOK
  <2>3. CASE t \notin Current(K) \cup Waiting(G)
    <3>1. task'[t] = task[t] /\ replies'[t] = replies[t] /\ made' = made
      BY <1>1, <2>3
    <3>2. CallOK(t)
      BY DEF SInv
    <3>3. CASE task[t] = None
      BY <3>1, <3>2, <3>3 DEF CallOK
    <3>4. CASE task[t] # None /\ task[t].session \notin K
      <4> DEFINE s == task[t].session
      <4>1. /\ s \in Session \ K /\ s \notin G
            /\ queue'[s].current = queue[s].current
            /\ queue'[s].tasks = queue[s].tasks
            /\ queue'[s].defer_remove = queue[s].defer_remove
            /\ s[2] \in listed => s[2] \in listed'
            /\ s[1] \in watched => s[1] \in watched'
        BY <2>0, <3>4
      <4> QED
        BY <3>1, <3>2, <3>4, <4>1 DEF CallOK
    <3>5. CASE task[t] # None /\ task[t].session \in K
      <4> DEFINE s == task[t].session
      <4>1. s \in Session /\ t # queue[s].current /\ s \notin G
        BY <2>0, <2>3, <3>2, <3>5, Places DEF CallOK
      <4>2. /\ queue'[s].tasks = queue[s].tasks
            /\ queue'[s].defer_remove = TRUE
        BY <3>5, <4>1
      <4>3. t \in ToSet(queue[s].tasks) /\ Fresh(task[t])
        BY <3>2, <3>5, <4>1 DEF CallOK
      <4> QED
        BY <3>1, <3>2, <3>5, <4>2, <4>3 DEF CallOK, Fresh
    <3> QED
      BY <3>3, <3>4, <3>5
  <2> QED
    BY <2>1, <2>2, <2>3
<1>6. ASSUME NEW s \in Session PROVE QueueOK(s)'
  <2>1. QueueOK(s)
    BY DEF SInv
  <2>2. /\ queue'[s].current = queue[s].current
        /\ queue'[s].tasks = IF s \in G THEN <<>> ELSE queue[s].tasks
    OBVIOUS
  <2>3. ASSUME NEW t \in ToSet(queue'[s].tasks)
        PROVE  /\ t # queue'[s].current
               /\ task'[t] # None
               /\ task'[t].session = s
    <3>1. s \notin G /\ t \in ToSet(queue[s].tasks)
      BY <2>2, <2>3, EmptyInjective
    <3>2. t \in Call /\ task[t] # None /\ task[t].session = s
      BY <2>1, <3>1, QueueFacts DEF QueueOK
    <3>3. t \notin Waiting(G) /\ t # queue[s].current
      BY <2>1, <3>1, <3>2, Places DEF QueueOK
    <3>4. t \notin Current(K)
      BY <3>2, <3>3, Places
    <3> QED
      BY <1>1, <2>2, <3>2, <3>3, <3>4
  <2>4. queue'[s].current # None => /\ task'[queue'[s].current] # None
                                   /\ task'[queue'[s].current].session = s
    <3> HAVE queue'[s].current # None
    <3> DEFINE t == queue[s].current
    <3>1. t \in Call /\ task[t] # None /\ task[t].session = s
      BY <2>1, <2>2, QueueFacts DEF QueueOK
    <3>2. t \notin Waiting(G)
      BY <2>1, <3>1, Places DEF QueueOK
    <3>3. CASE t \in Current(K)
      BY <1>3, <2>2, <3>1, <3>3
    <3>4. CASE t \notin Current(K)
      BY <1>1, <2>2, <3>1, <3>2, <3>4
    <3> QED
      BY <3>3, <3>4
  <2>5. IsInjective(queue'[s].tasks)
    BY <2>1, <2>2, EmptyInjective DEF QueueOK
  <2>6. ASSUME queue'[s].defer_remove = TRUE
        PROVE  /\ queue'[s].current # None
               /\ task'[queue'[s].current].completions = 1
               /\ task'[queue'[s].current].invocation = FALSE
    <3>1. queue[s].current # None
      BY <2>1, <2>6 DEF QueueOK
    <3> DEFINE t == queue[s].current
    <3>2. t \in Call /\ task[t] # None /\ task[t].session = s
      BY <2>1, <3>1, QueueFacts DEF QueueOK
    <3>3. CASE s \in K
      <4>1. t \in Current(K)
        BY <3>2, <3>3, Places
      <4>2. task'[t] = Cancel(task[t])
        BY <1>1, <3>2, <4>1
      <4>3. Begun(task[t]) /\ task[t] \in Tasks
        BY <1>2, <3>2, <4>1, TaskFacts
      <4>4. Cancel(task[t]).completions = 1 /\ Cancel(task[t]).invocation = FALSE
        BY <4>3, CancelledTask
      <4>5. queue'[s].current = t
        BY <2>2
      <4> HIDE DEF t
      <4> QED
        BY <3>2, <4>2, <4>4, <4>5, ServerAssumption
    <3>4. CASE s \notin K
      <4>1. queue[s].defer_remove = TRUE
        BY <2>6, <3>4
      <4>2. t \notin Current(K) /\ t \notin Waiting(G)
        BY <3>2, <3>4, Places
      <4>3. task'[t] = task[t]
        BY <1>1, <3>2, <4>2
      <4> QED
        BY <2>1, <2>2, <4>1, <4>3 DEF QueueOK
    <3> QED
      BY <3>3, <3>4
  <2>7. ASSUME queue'[s].tasks # <<>> \/ queue'[s].current # None,
               queue'[s].defer_remove = FALSE,
               s[2] \in Device
        PROVE  s[2] \in listed'
    <3>1. CASE s \in K
      <4>1. s \in G
        BY <2>7, <3>1
      <4>2. queue[s].current # None
        BY <2>2, <2>7, <4>1
      <4>3. queue[s].defer_remove = FALSE /\ listed' = listed
        BY <2>7, <3>1, <4>2
      <4> QED
        BY <2>1, <2>7, <4>2, <4>3 DEF QueueOK
    <3>2. CASE s \notin K
      <4>1. s \notin G /\ queue'[s].defer_remove = queue[s].defer_remove
        BY <3>2
      <4>2. s[2] \in listed => s[2] \in listed'
        BY <3>2
      <4> QED
        BY <2>1, <2>2, <2>7, <4>1, <4>2 DEF QueueOK
    <3> QED
      BY <3>1, <3>2
  <2> QED
    BY <2>3, <2>4, <2>5, <2>6, <2>7 DEF QueueOK
<1> QED
  BY <1>4, <1>5, <1>6 DEF SInv

LEMMA RemoveQueuesDrops ==
    ASSUME SInv, NEW S \in SUBSET Session, RemoveQueues(S)
    PROVE  \E G \in SUBSET S : Drop(S, G)
<1> DEFINE busy == {s \in S : queue[s].current # None}
<1>1. PICK kept \in {{}, busy} :
         /\ Reply(Current(busy) \cup Waiting(S \ kept))
         /\ task' = [t \in Call |-> CASE t \in Current(busy) -> Cancel(task[t])
                                      [] t \in Waiting(S \ kept) -> None
                                      [] OTHER -> task[t]]
         /\ queue' = [s \in Session |-> IF s \notin S THEN queue[s] ELSE
                [tasks |-> IF s \in kept THEN queue[s].tasks ELSE <<>>,
                 current |-> queue[s].current,
                 defer_remove |-> s \in busy]]
         /\ UNCHANGED made
  BY DEF RemoveQueues
<1> DEFINE G == S \ kept
<1>2. Current(busy) = Current(S)
  BY DEF Current
<1>3. G \in SUBSET S /\ G \in SUBSET Session
  OBVIOUS
<1>4. ASSUME NEW t \in Call
      PROVE  task'[t] = IF t \in Current(S) THEN Cancel(task[t])
                        ELSE IF t \in Waiting(G) THEN None ELSE task[t]
  <2>1. ~(t \in Current(S) /\ t \in Waiting(G))
    BY <1>3, PlaceKinds DEF Waiting
  <2> QED
    BY <1>1, <1>2, <2>1
<1>5. task' = [t \in Call |-> IF t \in Current(S) THEN Cancel(task[t])
                             ELSE IF t \in Waiting(G) THEN None ELSE task[t]]
  BY <1>1, <1>4
<1>6. ASSUME NEW s \in Session
      PROVE  /\ queue'[s] \in Queue
             /\ queue'[s].current = queue[s].current
             /\ queue'[s].tasks = IF s \in G THEN <<>> ELSE queue[s].tasks
             /\ s \notin S => queue'[s].defer_remove = queue[s].defer_remove
  <2>1. CASE s \notin S
    BY <1>1, <2>1, QueueFacts
  <2>2. CASE s \in S
    <3>1. queue'[s] = [tasks |-> IF s \in kept THEN queue[s].tasks ELSE <<>>,
                       current |-> queue[s].current,
                       defer_remove |-> s \in busy]
      BY <1>1, <2>2
    <3>2. (IF s \in kept THEN queue[s].tasks ELSE <<>>) \in Seq(Call)
      BY QueueFacts, EmptyInjective
    <3>3. queue'[s] \in Queue
      <4> DEFINE w == IF s \in kept THEN queue[s].tasks ELSE <<>>
      <4>0. w \in Seq(Call) /\ queue[s].current \in Call \cup {None}
        BY <3>2, QueueFacts
      <4> HIDE DEF w, busy
      <4>1. CASE s \in busy
        <5>1. (s \in busy) = TRUE
          BY <4>1
        <5>2. queue'[s] = [tasks |-> w, current |-> queue[s].current,
                           defer_remove |-> TRUE]
          BY <3>1, <5>1, Zenon DEF w
        <5> QED
          BY <4>0, <5>2 DEF Queue
      <4>2. CASE s \notin busy
        <5>1. (s \in busy) = FALSE
          BY <4>2
        <5>2. queue'[s] = [tasks |-> w, current |-> queue[s].current,
                           defer_remove |-> FALSE]
          BY <3>1, <5>1, Zenon DEF w
        <5> QED
          BY <4>0, <5>2 DEF Queue
      <4> QED
        BY <4>1, <4>2
    <3> QED
      BY <2>2, <3>1, <3>3
  <2> QED
    BY <2>1, <2>2
<1>7. /\ \A s \in S : queue'[s].defer_remove = TRUE => queue[s].current # None
      /\ \A s \in S : queue'[s].defer_remove = FALSE => queue[s].current = None
      /\ \A s \in S \ G : queue'[s].defer_remove = TRUE
  BY <1>1
<1>8. queue' \in [Session -> Queue]
  BY <1>1, <1>6
<1>9. Drop(S, G)
  BY <1>1, <1>2, <1>5, <1>6, <1>7, <1>8 DEF Drop
<1> QED
  BY <1>3, <1>9

LEMMA RemoveQueuesOK ==
    ASSUME SInv, NEW S \in SUBSET Session, RemoveQueues(S),
           \A s \in Session \ S :
              /\ s[2] \in listed => s[2] \in listed'
              /\ s[1] \in watched => s[1] \in watched',
           UNCHANGED icons,
           listed' \subseteq found', found' \subseteq Device
    PROVE  SInv'
  BY RemoveQueuesDrops, DropOK

LEMMA CancelQueueDrops ==
    ASSUME SInv, NEW s \in Session, CancelQueue(s), UNCHANGED listed
    PROVE  Drop({s}, {s})
<1> DEFINE K == {s}
<1>1. ASSUME NEW t \in Call
      PROVE  task'[t] = IF t \in Current(K) THEN Cancel(task[t])
                        ELSE IF t \in Waiting(K) THEN None ELSE task[t]
  <2>1. ~(t \in Current(K) /\ t \in Waiting(K))
    BY PlaceKinds DEF Waiting
  <2> QED
    BY <2>1 DEF CancelQueue
<1>2. task' = [t \in Call |-> IF t \in Current(K) THEN Cancel(task[t])
                             ELSE IF t \in Waiting(K) THEN None ELSE task[t]]
  BY <1>1 DEF CancelQueue
<1>3. ASSUME NEW q \in Session
      PROVE  /\ queue'[q] \in Queue
             /\ queue'[q].current = queue[q].current
             /\ queue'[q].tasks = IF q \in K THEN <<>> ELSE queue[q].tasks
             /\ queue'[q].defer_remove = queue[q].defer_remove
  <2>1. CASE q # s
    BY <2>1, QueueFacts DEF CancelQueue, SInv, ServerTypeOK
  <2>2. CASE q = s
    <3>1. queue[q] \in Queue /\ queue'[q] = [queue[q] EXCEPT !.tasks = <<>>]
      BY <2>2, QueueFacts DEF CancelQueue, SInv, ServerTypeOK
    <3>2. <<>> \in Seq(Call)
      BY EmptyInjective
    <3> QED
      BY <2>2, <3>1, <3>2 DEF Queue
  <2> QED
    BY <2>1, <2>2
<1>4. queue' \in [Session -> Queue]
  BY <1>3 DEF CancelQueue, SInv, ServerTypeOK
<1>5. /\ K \in SUBSET Session /\ K \ K = {}
      /\ \A q \in K : queue'[q].defer_remove = TRUE => queue[q].current # None
      /\ \A q \in K : queue'[q].defer_remove = FALSE
                         => queue[q].defer_remove = FALSE /\ listed' = listed
  BY <1>3 DEF SInv, QueueOK
<1>6. Reply(Current(K) \cup Waiting(K)) /\ UNCHANGED made
  BY DEF CancelQueue
<1> HIDE DEF K
<1>7. Drop(K, K)
  BY <1>2, <1>3, <1>4, <1>5, <1>6 DEF Drop
<1> QED
  BY <1>7 DEF K

LEMMA CancelQueueOK ==
    ASSUME SInv, NEW s \in Session, CancelQueue(s),
           UNCHANGED <<deviceVars, icons, clientVars>>
    PROVE  SInv'
<1>1. UNCHANGED <<icons, listed, found, watched>>
  BY DEF deviceVars, clientVars
<1>2. listed' \subseteq found' /\ found' \subseteq Device
  BY <1>1 DEF SInv, ServerTypeOK
<1> DEFINE K == {s}
<1>3. K \in SUBSET Session /\ Drop(K, K)
  BY <1>1, CancelQueueDrops
<1> HIDE DEF K
<1> QED
  BY <1>1, <1>2, <1>3, DropOK

\* A step that changes nothing of a task but how far its processing has come.
LEMMA UpdateOK ==
    ASSUME SInv,
           UNCHANGED <<queue, replies, made, watched>>,
           task' \in [Call -> Tasks \cup {None}],
           \A t \in Call : task'[t] # task[t] =>
              /\ task[t] # None /\ Begun(task[t])
              /\ task'[t] # None /\ Begun(task'[t])
              /\ task'[t].session = task[t].session
              /\ task'[t].kind = task[t].kind
              /\ task'[t].invocation = task[t].invocation
              /\ task'[t].in_flight = TRUE => task[t].in_flight = TRUE
              /\ task[t].completions = 1 => task'[t].completions = 1,
           listed \subseteq listed',
           listed' \subseteq found', found' \subseteq Device,
           icons' \subseteq Device
    PROVE  SInv'
<1>1. ServerTypeOK'
  BY DEF SInv, ServerTypeOK
<1>2. ASSUME NEW t \in Call PROVE CallOK(t)'
  <2>1. CallOK(t) /\ (task[t] # None => task[t].session \in Session)
    BY TaskFacts DEF SInv
  <2>2. CASE task'[t] = task[t]
    BY <2>1, <2>2 DEF CallOK
  <2>3. CASE task'[t] # task[t]
    <3>1. ~Fresh(task[t])
      BY <2>3 DEF Fresh, Begun
    <3> QED
      BY <2>1, <2>3, <3>1 DEF CallOK
  <2> QED
    BY <2>2, <2>3
<1>3. ASSUME NEW s \in Session PROVE QueueOK(s)'
  <2>1. QueueOK(s) /\ ToSet(queue[s].tasks) \subseteq Call
                   /\ queue[s].current \in Call \cup {None}
    BY QueueFacts DEF SInv
  <2>2. \A t \in Call : task[t] # None /\ task[t].session = s
                         => task'[t] # None /\ task'[t].session = s
    OBVIOUS
  <2>3. \A t \in Call : task[t].completions = 1 /\ task[t].invocation = FALSE
                         => task'[t].completions = 1 /\ task'[t].invocation = FALSE
    OBVIOUS
  <2> QED
    BY <2>1, <2>2, <2>3 DEF QueueOK
<1> QED
  BY <1>1, <1>2, <1>3 DEF SInv

LEMMA AddTaskOK ==
    ASSUME SInv, NEW c \in Client, NEW sink \in Sink, NEW kind \in Kinds(sink),
           sink \in Device => sink \in listed,
           AddTask(c, sink, kind)
    PROVE  SInv'
<1> DEFINE s == <<c, sink>>
           t == made + 1
<1>1. /\ s \in Session /\ t \in Call /\ t > made
      /\ kind \in Kind
      /\ kind = "icon" => sink \in Device
  BY ServerAssumption
     DEF AddTask, SInv, ServerTypeOK, Session, Call, Kind, Kinds, Sink
<1>2. /\ task[t] = None /\ replies[t] = 0
  BY <1>1 DEF SInv, CallOK
<1>3. /\ NewTask(s, kind) \in Tasks
      /\ NewTask(s, kind) # None
      /\ NewTask(s, kind).session = s
      /\ NewTask(s, kind).kind = kind
      /\ NewTask(s, kind).in_flight = FALSE
      /\ Fresh(NewTask(s, kind))
  <2> HIDE DEF s
  <2>1. NewTask(s, kind) \in Tasks
    BY <1>1 DEF NewTask, Tasks
  <2>2. NewTask(s, kind) # None
    BY <2>1, TaskAssumption
  <2> QED
    BY <2>1, <2>2 DEF NewTask, Fresh
<1>4. /\ \A u \in Call : task'[u] = IF u = t THEN NewTask(s, kind) ELSE task[u]
      /\ task' \in [Call -> Tasks \cup {None}]
      /\ made' = t
      /\ UNCHANGED <<replies, listed, found, icons>>
      /\ c \in watched' /\ watched \subseteq watched'
  BY <1>1, <1>3 DEF AddTask, WatchClient, SInv, ServerTypeOK, deviceVars
<1>5. /\ queue[s].tasks \in Seq(Call)
      /\ t \notin ToSet(queue[s].tasks)
      /\ IsInjective(queue[s].tasks)
  BY <1>1, <1>2, QueueFacts DEF SInv, QueueOK
<1>6. /\ Append(queue[s].tasks, t) \in Seq(Call)
      /\ Append(queue[s].tasks, t) # <<>>
      /\ IsInjective(Append(queue[s].tasks, t))
      /\ ToSet(Append(queue[s].tasks, t)) = ToSet(queue[s].tasks) \cup {t}
  BY <1>1, <1>5, AppendInjectiveSet
<1>7. ASSUME NEW q \in Session
      PROVE  /\ queue'[q] \in Queue
             /\ queue'[q].current = queue[q].current
             /\ queue'[q].defer_remove = queue[q].defer_remove
             /\ q # s => queue'[q].tasks = queue[q].tasks
             /\ q = s => queue'[q].tasks = Append(queue[q].tasks, t)
  <2>1. queue[q] \in Queue /\ queue' = [queue EXCEPT ![s].tasks = Append(@, t)]
    BY QueueFacts DEF AddTask
  <2> HIDE DEF s, t
  <2>2. CASE q # s
    BY <2>1, <2>2 DEF SInv, ServerTypeOK
  <2>3. CASE q = s
    <3> DEFINE tasks == Append(queue[q].tasks, t)
    <3>1. queue'[q] = [queue[q] EXCEPT !.tasks = tasks]
      BY <2>1, <2>3 DEF SInv, ServerTypeOK
    <3>2. tasks \in Seq(Call)
      BY <1>6, <2>3
    <3> DEFINE old == queue[q]
               new == queue'[q]
    <3>3. old \in Queue
      BY <2>1
    <3> HIDE DEF tasks, old, new
    <3>4. new = [old EXCEPT !.tasks = tasks]
      BY <3>1 DEF old, new
    <3>5. /\ new.tasks = tasks
          /\ new.current = old.current
          /\ new.defer_remove = old.defer_remove
          /\ new \in Queue
      BY <3>2, <3>3, <3>4, QueueWith
    <3> QED
      BY <2>3, <3>5 DEF tasks, old, new
  <2> QED
    BY <2>2, <2>3
<1>8. ServerTypeOK'
  <2>1. queue' \in [Session -> Queue]
    BY <1>7 DEF AddTask, SInv, ServerTypeOK
  <2>2. made' \in 0..MaxCalls
    BY <1>1, <1>4, ServerAssumption DEF Call
  <2> QED
    BY <1>4, <2>1, <2>2 DEF SInv, ServerTypeOK
<1>9. ASSUME NEW u \in Call PROVE CallOK(u)'
  <2>1. CASE u = t
    <3>1. t \in ToSet(queue'[s].tasks)
      BY <1>1, <1>6, <1>7
    <3>2. ~(u > made')
      BY <1>1, <1>4, <2>1 DEF Call
    <3>3. s[1] = c /\ s[2] = sink
      OBVIOUS
    <3> HIDE DEF s
    <3> QED
      BY <1>1, <1>2, <1>3, <1>4, <2>1, <3>1, <3>2, <3>3 DEF CallOK
  <2>2. CASE u # t
    <3>1. CallOK(u) /\ task'[u] = task[u] /\ (u > made' => u > made)
      BY <1>1, <1>4, <2>2, ServerAssumption DEF SInv, ServerTypeOK, Call
    <3>2. task[u] # None => task[u].session \in Session
      BY TaskFacts
    <3>3. \A q \in Session : u \in ToSet(queue[q].tasks) => u \in ToSet(queue'[q].tasks)
      BY <1>6, <1>7
    <3> QED
      BY <1>4, <1>7, <3>1, <3>2, <3>3 DEF CallOK
  <2> QED
    BY <2>1, <2>2
<1>10. ASSUME NEW q \in Session PROVE QueueOK(q)'
  <2>1. QueueOK(q)
    BY DEF SInv
  <2>2. \A u \in Call : task[u] # None => task'[u] = task[u]
    BY <1>2, <1>4
  <2>3. queue[q].current \in Call \cup {None} /\ ToSet(queue[q].tasks) \subseteq Call
    BY QueueFacts
  <2>4. CASE q # s
    BY <1>4, <1>7, <2>1, <2>2, <2>3, <2>4 DEF QueueOK
  <2>5. CASE q = s
    <3>1. task'[t] # None /\ task'[t].session = s /\ t # queue[s].current
      BY <1>1, <1>2, <1>3, <1>4, <2>1, <2>5, ServerAssumption DEF QueueOK
    <3>2. s[2] \in Device => s[2] \in listed'
      BY <1>4
    <3>3. /\ ToSet(queue'[s].tasks) = ToSet(queue[s].tasks) \cup {t}
          /\ IsInjective(queue'[s].tasks)
          /\ queue'[s].current = queue[s].current
          /\ queue'[s].defer_remove = queue[s].defer_remove
      BY <1>1, <1>6, <1>7
    <3> HIDE DEF s, t
    <3> QED
      BY <2>1, <2>2, <2>3, <2>5, <3>1, <3>2, <3>3 DEF QueueOK
  <2> QED
    BY <2>4, <2>5
<1> QED
  BY <1>8, <1>9, <1>10 DEF SInv

LEMMA RefuseOK ==
    ASSUME SInv, NEW c \in Client, Refuse(c)
    PROVE  SInv'
<1> DEFINE t == made + 1
<1>1. /\ t \in Call /\ made' = t
      /\ UNCHANGED <<queue, task, listed, found, icons, watched>>
      /\ \A u \in Call : replies'[u] = IF u = t THEN 1 ELSE replies[u]
      /\ replies' \in [Call -> 0..1]
  BY ServerAssumption
     DEF Refuse, SInv, ServerTypeOK, Call, deviceVars, clientVars
<1>2. ServerTypeOK'
  BY <1>1, ServerAssumption DEF SInv, ServerTypeOK, Call
<1>3. ASSUME NEW u \in Call PROVE CallOK(u)'
  <2>1. CallOK(u) /\ made \in Nat
    BY ServerAssumption DEF SInv, ServerTypeOK
  <2>2. CASE u = t
    BY <1>1, <2>1, <2>2 DEF CallOK, Call
  <2>3. CASE u # t
    BY <1>1, <2>1, <2>3 DEF CallOK, Call
  <2> QED
    BY <2>2, <2>3
<1>4. ASSUME NEW s \in Session PROVE QueueOK(s)'
  BY <1>1 DEF SInv, QueueOK
<1> QED
  BY <1>2, <1>3, <1>4 DEF SInv

LEMMA FoundDeviceOK ==
    ASSUME SInv, NEW d \in Device, FoundDevice(d)
    PROVE  SInv'
<1>1. /\ UNCHANGED <<queue, task, replies, made, watched, icons>>
      /\ listed \subseteq listed'
      /\ listed' \subseteq found' /\ found' \subseteq Device
      /\ task \in [Call -> Tasks \cup {None}] /\ icons \subseteq Device
  BY DEF FoundDevice, SInv, ServerTypeOK, taskVars, clientVars
<1> QED
  BY <1>1, UpdateOK

LEMMA AnswerOK ==
    ASSUME SInv, NEW t \in Call, Answer(t)
    PROVE  SInv'
<1> DEFINE r == task[t]
           n == [r EXCEPT !.in_flight = FALSE, !.connected = FALSE,
                          !.completions = @ + 1]
<1>1. /\ r # None /\ r \in Tasks /\ r.in_flight = TRUE /\ CallOK(t)
      /\ task \in [Call -> Tasks \cup {None}]
  BY TaskFacts DEF Answer, Tasks, SInv, ServerTypeOK
<1>2. Begun(r) /\ r.completions = 0
  BY <1>1, TaskFacts DEF Fresh, Begun
<1>3. /\ n \in Tasks
      /\ n.session = r.session /\ n.kind = r.kind /\ n.invocation = r.invocation
      /\ n.in_flight = FALSE
      /\ Begun(n)
  <2>1. r.completions + 1 \in Nat /\ r.completions + 1 = 1
    BY <1>2
  <2>2. n \in Tasks
    BY <1>1, <2>1 DEF Tasks
  <2>3. /\ n.session = r.session /\ n.kind = r.kind /\ n.invocation = r.invocation
        /\ n.in_flight = FALSE /\ n.connected = FALSE
        /\ n.cancellable = r.cancellable /\ n.completions = 1
    BY <1>1, <2>1 DEF Tasks
  <2> HIDE DEF n
  <2> QED
    BY <1>2, <2>2, <2>3 DEF Begun
<1>4. \A u \in Call : task'[u] = IF u = t THEN n ELSE task[u]
  BY <1>1 DEF Answer
<1>5. task' \in [Call -> Tasks \cup {None}]
  BY <1>1, <1>3 DEF Answer
<1>6. icons' \subseteq Device
  BY <1>1 DEF Answer, KeepIcon, CallOK, SInv, ServerTypeOK
<1>7. /\ UNCHANGED <<queue, replies, made, listed, found, watched>>
      /\ listed \subseteq found /\ found \subseteq Device
  BY DEF Answer, SInv, ServerTypeOK, deviceVars, clientVars
<1>8. n # None
  BY <1>3, TaskAssumption
<1> HIDE DEF n, r
<1>9. \A u \in Call : task'[u] # task[u] =>
         /\ task[u] # None /\ Begun(task[u])
         /\ task'[u] # None /\ Begun(task'[u])
         /\ task'[u].session = task[u].session
         /\ task'[u].kind = task[u].kind
         /\ task'[u].invocation = task[u].invocation
         /\ task'[u].in_flight = TRUE => task[u].in_flight = TRUE
         /\ task[u].completions = 1 => task'[u].completions = 1
  BY <1>1, <1>2, <1>3, <1>4, <1>8 DEF r
<1> QED
  BY <1>5, <1>6, <1>7, <1>9, UpdateOK

LEMMA ContextLostOK ==
    ASSUME SInv, NEW d \in Device, ContextLost(d)
    PROVE  SInv'
<1>1. PICK T \in SUBSET {t \in Current(Client \X {d}) :
                            task[t].in_flight /\ task[t].kind = "action"} :
         task' = [t \in Call |-> IF t \in T
                                THEN [task[t] EXCEPT !.in_flight = FALSE]
                                ELSE task[t]]
  BY DEF ContextLost
<1>2. Client \X {d} \in SUBSET Session
  BY DEF Session, Sink
<1>3. ASSUME NEW t \in Call, t \in T
      PROVE  LET n == [task[t] EXCEPT !.in_flight = FALSE] IN
             /\ task[t] # None /\ Begun(task[t])
             /\ task'[t] # None /\ Begun(task'[t])
             /\ task'[t] \in Tasks
             /\ task'[t].session = task[t].session
             /\ task'[t].kind = task[t].kind
             /\ task'[t].invocation = task[t].invocation
             /\ task'[t].in_flight = TRUE => task[t].in_flight = TRUE
             /\ task'[t].completions = task[t].completions
  <2>1. task[t] # None /\ Begun(task[t])
    BY <1>2, <1>3, Places, PlaceKinds
  <2>2. task[t] \in Tasks
    BY <2>1, TaskFacts
  <2> DEFINE r == task[t]
             n == [r EXCEPT !.in_flight = FALSE]
  <2>3. task'[t] = n
    BY <1>1, <1>3
  <2>4. /\ n \in Tasks /\ n.session = r.session /\ n.kind = r.kind
        /\ n.invocation = r.invocation /\ n.in_flight = FALSE
        /\ n.completions = r.completions
        /\ Begun(n)
    BY <2>1, <2>2 DEF Tasks, Begun
  <2>5. n # None
    BY <2>4, TaskAssumption
  <2> HIDE DEF n
  <2> QED
    BY <2>1, <2>3, <2>4, <2>5
<1>4. ASSUME NEW t \in Call, t \notin T PROVE task'[t] = task[t]
  BY <1>1, <1>4
<1>5. task' \in [Call -> Tasks \cup {None}]
  <2>1. \A t \in Call : task'[t] \in Tasks \cup {None}
    BY <1>3, <1>4 DEF SInv, ServerTypeOK
  <2> QED
    BY <1>1, <2>1
<1>6. /\ UNCHANGED <<queue, replies, made, listed, found, icons, watched>>
      /\ listed \subseteq found /\ found \subseteq Device /\ icons \subseteq Device
  BY DEF ContextLost, SInv, ServerTypeOK, deviceVars, clientVars
<1>7. \A u \in Call : task'[u] # task[u] =>
         /\ task[u] # None /\ Begun(task[u])
         /\ task'[u] # None /\ Begun(task'[u])
         /\ task'[u].session = task[u].session
         /\ task'[u].kind = task[u].kind
         /\ task'[u].invocation = task[u].invocation
         /\ task'[u].in_flight = TRUE => task[u].in_flight = TRUE
         /\ task[u].completions = 1 => task'[u].completions = 1
  BY <1>3, <1>4
<1> QED
  BY <1>5, <1>6, <1>7, UpdateOK

-----------------------------------------------------------------------------
\* Processing takes the first task of a queue, and completing one ends it.

LEMMA HeadFacts ==
    ASSUME SInv, NEW s \in Session, queue[s].current = None,
           queue[s].tasks # <<>>
    PROVE  LET t == Head(queue[s].tasks) IN
           /\ t \in Call /\ task[t] # None /\ task[t].session = s
           /\ Fresh(task[t]) /\ CallOK(t) /\ t <= made
           /\ queue[s].defer_remove = FALSE
           /\ Tail(queue[s].tasks) \in Seq(Call)
           /\ IsInjective(Tail(queue[s].tasks))
           /\ ToSet(Tail(queue[s].tasks)) = ToSet(queue[s].tasks) \ {t}
           /\ \A q \in Session \ {s} : t \notin ToSet(queue[q].tasks)
           /\ \A q \in Session : t # queue[q].current
<1> DEFINE t == Head(queue[s].tasks)
<1>1. /\ t \in ToSet(queue[s].tasks) /\ t \in Call
      /\ Tail(queue[s].tasks) \in Seq(Call)
      /\ IsInjective(Tail(queue[s].tasks))
      /\ ToSet(Tail(queue[s].tasks)) = ToSet(queue[s].tasks) \ {t}
  BY QueueFacts, TailInjective DEF SInv, QueueOK
<1>2. task[t] # None /\ task[t].session = s
  BY <1>1 DEF SInv, QueueOK
<1>3. \A q \in Session \ {s} : t \notin ToSet(queue[q].tasks)
  BY <1>1, <1>2 DEF SInv, QueueOK
<1>4. \A q \in Session : t # queue[q].current
  BY <1>1, <1>2, ServerAssumption DEF SInv, QueueOK
<1>5. CallOK(t) /\ Fresh(task[t])
  BY <1>1, <1>2, <1>4 DEF SInv, CallOK
<1>6. queue[s].defer_remove = FALSE
  BY QueueFacts DEF SInv, QueueOK
<1> QED
  BY <1>1, <1>2, <1>3, <1>4, <1>5, <1>6, TaskFacts

LEMMA ProcessSyncOK ==
    ASSUME SInv, NEW s \in Session, Process(s),
           ProcessSync(s, Head(queue[s].tasks))
    PROVE  SInv'
<1> DEFINE t == Head(queue[s].tasks)
           rest == Tail(queue[s].tasks)
<1>1. queue[s].current = None /\ queue[s].tasks # <<>>
  BY DEF Process
<1>2. /\ t \in Call /\ task[t] # None /\ task[t].session = s
      /\ Fresh(task[t]) /\ CallOK(t) /\ t <= made
      /\ queue[s].defer_remove = FALSE
      /\ rest \in Seq(Call)
      /\ IsInjective(rest)
      /\ ToSet(rest) = ToSet(queue[s].tasks) \ {t}
      /\ \A q \in Session \ {s} : t \notin ToSet(queue[q].tasks)
      /\ \A q \in Session : t # queue[q].current
  BY <1>1, HeadFacts
<1>3. /\ UNCHANGED <<made, listed, found, icons, watched>>
      /\ queue' = [queue EXCEPT ![s].tasks = rest]
      /\ task' = [task EXCEPT ![t] = None]
      /\ Reply({t})
  BY DEF ProcessSync, deviceVars, clientVars
<1> HIDE DEF t, rest
<1>4. /\ \A u \in Call : task'[u] = IF u = t THEN None ELSE task[u]
      /\ task' \in [Call -> Tasks \cup {None}]
  BY <1>2, <1>3 DEF SInv, ServerTypeOK
<1>5. /\ \A u \in Call : u # t => replies'[u] = replies[u]
      /\ replies' \in [Call -> 0..1]
  <2>1. replies[t] = 0
    BY <1>2 DEF CallOK, Fresh
  <2>2. \A u \in Call : replies[u] \in 0..1
    BY DEF SInv, ServerTypeOK
  <2> QED
    BY <1>2, <1>3, <2>1, <2>2 DEF Reply
<1>6. ASSUME NEW q \in Session
      PROVE  /\ queue'[q] \in Queue
             /\ queue'[q].current = queue[q].current
             /\ queue'[q].defer_remove = queue[q].defer_remove
             /\ q # s => queue'[q].tasks = queue[q].tasks
             /\ q = s => queue'[q].tasks = rest
  <2>1. CASE q # s
    BY <1>3, <2>1, QueueFacts DEF SInv, ServerTypeOK
  <2>2. CASE q = s
    <3>1. queue[q] \in Queue /\ queue'[q] = [queue[q] EXCEPT !.tasks = rest]
      BY <1>3, <2>2, QueueFacts DEF SInv, ServerTypeOK
    <3> QED
      BY <1>2, <2>2, <3>1 DEF Queue
  <2> QED
    BY <2>1, <2>2
<1>7. ServerTypeOK'
  <2>1. queue' \in [Session -> Queue]
    BY <1>3, <1>6 DEF SInv, ServerTypeOK
  <2> QED
    BY <1>3, <1>4, <1>5, <2>1 DEF SInv, ServerTypeOK
<1>8. ASSUME NEW u \in Call PROVE CallOK(u)'
  <2>1. CASE u = t
    BY <1>2, <1>3, <1>4, <2>1, ServerAssumption
       DEF CallOK, SInv, ServerTypeOK, Call
  <2>2. CASE u # t
    <3>1. CallOK(u) /\ task'[u] = task[u] /\ replies'[u] = replies[u]
      BY <1>4, <1>5, <2>2 DEF SInv
    <3>2. task[u] # None => task[u].session \in Session
      BY TaskFacts
    <3>3. \A q \in Session : u \in ToSet(queue[q].tasks) => u \in ToSet(queue'[q].tasks)
      BY <1>2, <1>6, <2>2
    <3> QED
      BY <1>3, <1>6, <3>1, <3>2, <3>3 DEF CallOK
  <2> QED
    BY <2>1, <2>2
<1>9. ASSUME NEW q \in Session PROVE QueueOK(q)'
  <2>1. QueueOK(q) /\ queue[q].current \in Call \cup {None}
                   /\ ToSet(queue[q].tasks) \subseteq Call
    BY QueueFacts DEF SInv
  <2>2. \A u \in Call : u # t => task'[u] = task[u]
    BY <1>4
  <2>3. CASE q # s
    BY <1>2, <1>3, <1>6, <2>1, <2>2, <2>3 DEF QueueOK
  <2>4. CASE q = s
    <3>1. queue[s].tasks # <<>>
      BY <1>1
    <3> QED
      BY <1>2, <1>3, <1>6, <2>1, <2>2, <2>4, <3>1 DEF QueueOK
  <2> QED
    BY <2>3, <2>4
<1> QED
  BY <1>7, <1>8, <1>9 DEF SInv

LEMMA ProcessAsyncOK ==
    ASSUME SInv, NEW s \in Session, Process(s),
           ProcessAsync(s, Head(queue[s].tasks))
    PROVE  SInv'
<1> DEFINE t == Head(queue[s].tasks)
           rest == Tail(queue[s].tasks)
<1>1. queue[s].current = None /\ queue[s].tasks # <<>>
  BY DEF Process
<1>2. /\ t \in Call /\ task[t] # None /\ task[t].session = s
      /\ Fresh(task[t]) /\ CallOK(t) /\ t <= made
      /\ queue[s].defer_remove = FALSE
      /\ rest \in Seq(Call)
      /\ IsInjective(rest)
      /\ ToSet(rest) = ToSet(queue[s].tasks) \ {t}
      /\ \A q \in Session \ {s} : t \notin ToSet(queue[q].tasks)
      /\ \A q \in Session : t # queue[q].current
  BY <1>1, HeadFacts
<1>3. /\ UNCHANGED <<replies, made, listed, found, icons, watched>>
      /\ queue' = [queue EXCEPT ![s].tasks = rest, ![s].current = t]
  BY DEF ProcessAsync, deviceVars, clientVars, SetNeverQuit
<1>4. PICK n \in Started(task[t]) : task' = [task EXCEPT ![t] = n]
  BY DEF ProcessAsync
<1> HIDE DEF t, rest
<1>5. /\ n \in Tasks /\ n # None
      /\ n.session = s /\ n.kind = task[t].kind
      /\ n.invocation = TRUE
      /\ Begun(n)
      /\ n.in_flight = TRUE => s[2] \in listed
  BY <1>2, StartedTask, TaskFacts, TaskAssumption
<1>6. /\ \A u \in Call : task'[u] = IF u = t THEN n ELSE task[u]
      /\ task' \in [Call -> Tasks \cup {None}]
  BY <1>2, <1>4, <1>5 DEF SInv, ServerTypeOK
<1>7. ASSUME NEW q \in Session
      PROVE  /\ queue'[q] \in Queue
             /\ queue'[q].defer_remove = queue[q].defer_remove
             /\ q # s => queue'[q] = queue[q]
             /\ q = s => queue'[q].tasks = rest /\ queue'[q].current = t
  <2>1. CASE q # s
    BY <1>3, <2>1, QueueFacts DEF SInv, ServerTypeOK
  <2>2. CASE q = s
    <3>1. queue[q] \in Queue
          /\ queue'[q] = [queue[q] EXCEPT !.tasks = rest, !.current = t]
      BY <1>3, <2>2, QueueFacts DEF SInv, ServerTypeOK, Queue
    <3> QED
      BY <1>2, <2>2, <3>1 DEF Queue
  <2> QED
    BY <2>1, <2>2
<1>8. ServerTypeOK'
  <2>1. queue' \in [Session -> Queue]
    BY <1>3, <1>7 DEF SInv, ServerTypeOK
  <2> QED
    BY <1>3, <1>6, <2>1 DEF SInv, ServerTypeOK
<1>9. ASSUME NEW u \in Call PROVE CallOK(u)'
  <2>1. CASE u = t
    <3>1. u = queue'[s].current /\ task'[u] = n /\ ~(u > made)
      BY <1>2, <1>6, <1>7, <2>1, ServerAssumption
         DEF SInv, ServerTypeOK, Call
    <3>2. task[t].invocation = TRUE
      BY <1>2 DEF Fresh
    <3> QED
      BY <1>2, <1>3, <1>5, <1>7, <2>1, <3>1, <3>2 DEF CallOK
  <2>2. CASE u # t
    <3>1. CallOK(u) /\ task'[u] = task[u]
      BY <1>6, <2>2 DEF SInv
    <3>2. task[u] # None => task[u].session \in Session /\ u # None
      BY TaskFacts, ServerAssumption
    <3>3. \A q \in Session :
             /\ u \in ToSet(queue[q].tasks) => u \in ToSet(queue'[q].tasks)
             /\ u = queue[q].current => u = queue'[q].current
      BY <1>1, <1>2, <1>7, <2>2, ServerAssumption
    <3> QED
      BY <1>3, <1>7, <3>1, <3>2, <3>3 DEF CallOK
  <2> QED
    BY <2>1, <2>2
<1>10. ASSUME NEW q \in Session PROVE QueueOK(q)'
  <2>1. QueueOK(q) /\ queue[q].current \in Call \cup {None}
                   /\ ToSet(queue[q].tasks) \subseteq Call
    BY QueueFacts DEF SInv
  <2>2. \A u \in Call : u # t => task'[u] = task[u]
    BY <1>6
  <2>3. CASE q # s
    <3>1. /\ queue'[q] = queue[q] /\ t # queue[q].current
          /\ t \notin ToSet(queue[q].tasks) /\ listed' = listed
      BY <1>2, <1>3, <1>7, <2>3
    <3> QED
      BY <2>1, <2>2, <3>1 DEF QueueOK
  <2>4. CASE q = s
    <3>1. task'[t] # None /\ task'[t].session = s /\ t # None
      BY <1>2, <1>5, <1>6, ServerAssumption
    <3>2. /\ queue'[s].current = t
          /\ queue'[s].tasks = rest
          /\ queue'[s].defer_remove = FALSE
          /\ s[2] \in Device => s[2] \in listed'
      BY <1>1, <1>2, <1>3, <1>7, <2>1, <2>4 DEF QueueOK
    <3>3. \A u \in ToSet(rest) : u # t /\ task'[u] # None /\ task'[u].session = s
      BY <1>2, <2>1, <2>2, <2>4 DEF QueueOK
    <3> QED
      BY <1>2, <2>4, <3>1, <3>2, <3>3 DEF QueueOK
  <2> QED
    BY <2>3, <2>4
<1> QED
  BY <1>8, <1>9, <1>10 DEF SInv

LEMMA CompleteOK ==
    ASSUME SInv, NEW t \in Call, Complete(t)
    PROVE  SInv'
<1> DEFINE s == task[t].session
           gone == IF queue[s].defer_remove THEN Waiting({s}) ELSE {}
           T == {t} \cup gone
<1>1. task[t] # None /\ task[t].completions > 0
  BY DEF Complete
<1>2. s \in Session /\ Begun(task[t]) /\ t = queue[s].current /\ t <= made
  <2>1. s \in Session /\ (Fresh(task[t]) \/ Begun(task[t])) /\ t <= made
    BY <1>1, TaskFacts
  <2>2. ~Fresh(task[t])
    BY <1>1 DEF Fresh
  <2> QED
    BY <1>1, <2>1, <2>2 DEF SInv, CallOK
<1>3. /\ Reply(T) /\ queue' = Ended(s)
      /\ task' = [u \in Call |-> IF u \in T THEN None ELSE task[u]]
      /\ UNCHANGED <<made, listed, found, icons, watched>>
  BY DEF Complete, deviceVars, clientVars
<1>4. ASSUME NEW u \in Call
      PROVE  /\ u \in T => task[u] # None /\ task[u].session = s /\ u <= made
             /\ u \in gone <=> /\ task[u] # None /\ task[u].session = s
                              /\ u \in ToSet(queue[s].tasks)
                              /\ queue[s].defer_remove = TRUE
  <2>1. queue[s].defer_remove \in BOOLEAN /\ {s} \in SUBSET Session
    BY <1>2, QueueFacts
  <2>2. u \in gone <=> /\ task[u] # None /\ task[u].session = s
                       /\ u \in ToSet(queue[s].tasks)
                       /\ queue[s].defer_remove = TRUE
    BY <2>1, Places
  <2> QED
    BY <1>1, <1>2, <2>2, TaskFacts
<1>5. ASSUME NEW q \in Session, q # s
      PROVE  queue'[q] = queue[q]
  BY <1>3, <1>5 DEF Ended, SInv, ServerTypeOK
<1>6. /\ queue'[s] \in Queue
      /\ queue'[s].current = None
      /\ queue'[s].defer_remove = FALSE
      /\ queue[s].defer_remove = TRUE => queue'[s].tasks = <<>>
      /\ queue[s].defer_remove = FALSE => queue'[s].tasks = queue[s].tasks
  <2>1. queue[s] \in Queue /\ queue[s].defer_remove \in BOOLEAN
    BY <1>2, QueueFacts
  <2>2. CASE queue[s].defer_remove = TRUE
    <3>1. queue'[s] = NoQueue
      BY <1>2, <1>3, <2>2 DEF Ended, SInv, ServerTypeOK
    <3> QED
      BY <2>2, <3>1, EmptyInjective DEF NoQueue, Queue
  <2>3. CASE queue[s].defer_remove = FALSE
    <3>1. queue'[s] = [queue[s] EXCEPT !.current = None]
      BY <1>2, <1>3, <2>3 DEF Ended, SInv, ServerTypeOK
    <3> QED
      BY <2>1, <2>3, <3>1 DEF Queue
  <2> QED
    BY <2>1, <2>2, <2>3
<1> HIDE DEF gone, T, s
<1>7. ServerTypeOK'
  <2>1. queue' \in [Session -> Queue]
    <3>1. \A q \in Session : queue'[q] \in Queue
      BY <1>5, <1>6, QueueFacts
    <3> QED
      BY <1>3, <3>1 DEF Ended, SInv, ServerTypeOK
  <2>2. task' \in [Call -> Tasks \cup {None}]
    BY <1>3 DEF SInv, ServerTypeOK
  <2>3. replies' \in [Call -> 0..1]
    <3>1. ASSUME NEW u \in Call
          PROVE  (IF u \in T /\ task[u].invocation
                    THEN replies[u] + 1 ELSE replies[u]) \in 0..1
      <4>1. replies[u] \in 0..1
        BY DEF SInv, ServerTypeOK
      <4>2. CASE u \in T /\ task[u].invocation
        <5>1. task[u] # None /\ task[u].invocation = TRUE
          BY <1>4, <4>2, TaskFacts DEF Tasks
        <5>2. replies[u] = 0
          BY <5>1 DEF SInv, CallOK
        <5> QED
          BY <4>2, <5>2
      <4>3. CASE ~(u \in T /\ task[u].invocation)
        BY <4>1, <4>3
      <4> QED
        BY <4>2, <4>3
    <3> QED
      BY <1>3, <3>1 DEF Reply
  <2> QED
    BY <1>3, <2>1, <2>2, <2>3 DEF SInv, ServerTypeOK
<1>8. ASSUME NEW u \in Call PROVE CallOK(u)'
  <2>1. CASE u \in T
    <3>1. u <= made /\ made' = made
      BY <1>3, <1>4, <2>1
    <3>2. u \in Nat /\ made \in Nat
      BY ServerAssumption DEF SInv, ServerTypeOK, Call
    <3>3. task'[u] = None
      BY <1>3, <2>1
    <3> QED
      BY <3>1, <3>2, <3>3 DEF CallOK
  <2>2. CASE u \notin T
    <3>1. CallOK(u) /\ task'[u] = task[u] /\ replies'[u] = replies[u]
      BY <1>3, <2>2 DEF SInv, Reply
    <3>2. task[u] # None => task[u].session \in Session
      BY TaskFacts
    <3>3. CASE task[u] # None /\ task[u].session # s
      BY <1>3, <1>5, <3>1, <3>2, <3>3 DEF CallOK
    <3>4. CASE task[u] # None /\ task[u].session = s
      <4>1. u # queue[s].current /\ u \notin gone
        BY <1>2, <2>2 DEF T
      <4>2. u \in ToSet(queue[s].tasks) /\ Fresh(task[u])
        BY <3>1, <3>4, <4>1 DEF CallOK
      <4>3. queue[s].defer_remove = FALSE
        BY <1>2, <1>4, <3>4, <4>1, <4>2, QueueFacts
      <4> QED
        BY <1>3, <1>6, <3>1, <3>4, <4>2, <4>3 DEF CallOK
    <3> QED
      BY <1>3, <3>1, <3>3, <3>4 DEF CallOK
  <2> QED
    BY <2>1, <2>2
<1>9. ASSUME NEW q \in Session PROVE QueueOK(q)'
  <2>1. QueueOK(q) /\ queue[q].current \in Call \cup {None}
                   /\ ToSet(queue[q].tasks) \subseteq Call
    BY QueueFacts DEF SInv
  <2>2. \A u \in Call : u \notin T => task'[u] = task[u]
    BY <1>3
  <2>3. CASE q # s
    <3>1. queue'[q] = queue[q] /\ listed' = listed
      BY <1>3, <1>5, <2>3
    <3>2. \A u \in Call : task[u].session = q => u \notin T
      BY <1>4, <2>3
    <3> QED
      BY <2>1, <2>2, <3>1, <3>2 DEF QueueOK
  <2>4. CASE q = s /\ queue[s].defer_remove = TRUE
    BY <1>6, <2>4, EmptyInjective DEF QueueOK
  <2>5. CASE q = s /\ queue[s].defer_remove = FALSE
    <3>1. \A u \in ToSet(queue[s].tasks) : u \notin T
      BY <1>2, <1>4, <2>1, <2>5 DEF QueueOK, T
    <3> QED
      BY <1>3, <1>6, <2>1, <2>2, <2>5, <3>1, ServerAssumption DEF QueueOK
  <2> QED
    BY <1>2, <2>3, <2>4, <2>5, QueueFacts
<1> QED
  BY <1>7, <1>8, <1>9 DEF SInv

\* Every step keeps the invariant.
LEMMA StepOK ==
    ASSUME SInv, [ServerNext]_serverVars
    PROVE  SInv'
<1>1. /\ listed \subseteq found /\ found \subseteq Device
      /\ icons \subseteq Device
      /\ task \in [Call -> Tasks \cup {None}]
  BY DEF SInv, ServerTypeOK
<1>2. ASSUME NEW c \in Client, CallManager(c) PROVE SInv'
  <2>1. PICK sink \in {Root, Manager} :
           \E kind \in Kinds(sink) : AddTask(c, sink, kind)
    BY <1>2 DEF CallManager
  <2>2. sink \in Sink /\ sink \notin Device
    BY ServerAssumption DEF Sink
  <2> QED
    BY <2>1, <2>2, AddTaskOK
<1>3. ASSUME NEW c \in Client, Release(c) PROVE SInv'
  <2> DEFINE S == {c} \X Sink
  <2>1. S \in SUBSET Session /\ \A s \in Session \ S : s[1] # c
    BY DEF Session
  <2>2. RemoveQueues(S) /\ UNCHANGED <<listed, found, icons>>
        /\ watched' = watched \ {c}
    BY <1>3 DEF Release, ReleaseClient, RemoveClient, deviceVars
  <2> QED
    BY <1>1, <2>1, <2>2, RemoveQueuesOK
<1>4. ASSUME NEW c \in Client, ClientLost(c) PROVE SInv'
  <2> DEFINE S == {c} \X Sink
  <2>1. S \in SUBSET Session /\ \A s \in Session \ S : s[1] # c
    BY DEF Session
  <2>2. UNCHANGED <<listed, found, icons>>
    BY <1>4 DEF ClientLost, deviceVars
  <2>3. CASE c \in watched
    <3>1. RemoveQueues(S) /\ watched' = watched \ {c}
      BY <1>4, <2>3 DEF ClientLost, LostClient, RemoveClient
    <3> QED
      BY <1>1, <2>1, <2>2, <3>1, RemoveQueuesOK
  <2>4. CASE c \notin watched
    <3>1. UNCHANGED <<queue, task, replies, made, watched>>
      BY <1>4, <2>4 DEF ClientLost, LostClient, taskVars
    <3> QED
      BY <1>1, <2>2, <3>1, UpdateOK
  <2> QED
    BY <2>3, <2>4
<1>5. ASSUME NEW c \in Client, NEW d \in Device, CallDevice(c, d) PROVE SInv'
  BY <1>5, AddTaskOK, RefuseOK DEF CallDevice, Sink
<1>6. ASSUME NEW c \in Client, NEW d \in Device, CancelCall(c, d) PROVE SInv'
  BY <1>6, CancelQueueOK DEF CancelCall, Session, Sink
<1>7. ASSUME NEW d \in Device, LostDevice(d) PROVE SInv'
  <2> DEFINE S == Client \X {d}
  <2>1. S \in SUBSET Session /\ \A s \in Session \ S : s[2] # d
    BY DEF Session, Sink
  <2>2. RemoveQueues(S) /\ UNCHANGED <<found, icons, watched>>
        /\ listed' = listed \ {d}
    BY <1>7 DEF LostDevice, clientVars
  <2> QED
    BY <1>1, <2>1, <2>2, RemoveQueuesOK
<1>8. ASSUME NEW s \in Session, Process(s) PROVE SInv'
  BY <1>8, ProcessSyncOK, ProcessAsyncOK DEF Process
<1>9. CASE UNCHANGED serverVars
  <2>1. UNCHANGED <<queue, task, replies, made, listed, found, icons, watched>>
    BY <1>9 DEF serverVars, taskVars, deviceVars, clientVars
  <2> QED
    BY <1>1, <2>1, UpdateOK
<1> QED
  BY <1>2, <1>3, <1>4, <1>5, <1>6, <1>7, <1>8, <1>9,
     FoundDeviceOK, ContextLostOK, AnswerOK, CompleteOK DEF ServerNext

THEOREM ServerInvariant == ServerSpec => []SInv
  BY InitOK, StepOK, PTL DEF ServerSpec

-----------------------------------------------------------------------------
\* What the invariant gives.

\* Every task and queue is in a state that the code can be in, and no call is
\* answered twice (dld_task_complete and the others test the invocation).
THEOREM ServerTypeCorrect == ServerSpec => []ServerTypeOK
<1>1. SInv => ServerTypeOK
  BY DEF SInv
<1> QED
  BY <1>1, ServerInvariant, PTL

\* No task is completed twice: what may still touch a task concerns the one
\* that its queue is processing (prv_async_task_complete), wherever answers,
\* cancellations and losses come.
THEOREM TasksCompleteOnce == ServerSpec => []CompletedOnce
<1>1. SInv => CompletedOnce
  <2> SUFFICES ASSUME SInv, NEW t \in Call, task[t] # None
               PROVE  LET r == task[t] IN
                      /\ r.in_flight \/ r.completions > 0
                           => queue[r.session].current = t
                      /\ r.completions <= 1
                      /\ r.completions = 1 => ~r.in_flight
                      /\ r.in_flight => /\ r.connected
                                        /\ r.cancellable = "new"
                                        /\ r.invocation
    BY DEF CompletedOnce
  <2> DEFINE r == task[t]
  <2>1. r \in Tasks /\ CallOK(t)
    BY TaskFacts DEF SInv
  <2>2. r.in_flight \in BOOLEAN /\ r.completions \in Nat
    BY <2>1 DEF Tasks
  <2>3. CASE t = queue[r.session].current /\ Begun(r)
    BY <2>2, <2>3 DEF Begun
  <2>4. CASE Fresh(r)
    BY <2>2, <2>4 DEF Fresh
  <2> QED
    BY <2>1, <2>3, <2>4 DEF CallOK
<1> QED
  BY <1>1, ServerInvariant, PTL

\* What may write to a device (prv_get_icon_session_cb), or waits to be
\* processed on it, does so while the device is listed.
THEOREM DevicesOutliveTasks == ServerSpec => []DeviceOutlivesTasks
<1>1. SInv => DeviceOutlivesTasks
  <2> SUFFICES ASSUME SInv, NEW s \in Session, s[2] \in Device
               PROVE  /\ \A t \in Current({s}) :
                            task[t].in_flight => s[2] \in listed
                      /\ queue[s].tasks # <<>> /\ ~queue[s].defer_remove
                           => s[2] \in listed
    BY DEF DeviceOutlivesTasks
  <2>1. QueueOK(s) /\ queue[s].defer_remove \in BOOLEAN
    BY QueueFacts DEF SInv
  <2>2. ASSUME NEW t \in Current({s}), task[t].in_flight
        PROVE  s[2] \in listed
    <3>1. t \in Call
      BY QueueFacts DEF Current
    <3>2. task[t] # None /\ task[t].session = s
      BY <3>1, Places
    <3>3. task[t].in_flight = TRUE
      BY <2>2, <3>1, <3>2, TaskFacts DEF Tasks
    <3> QED
      BY <3>1, <3>2, <3>3 DEF SInv, CallOK
  <2> QED
    BY <2>1, <2>2 DEF QueueOK
<1> QED
  BY <1>1, ServerInvariant, PTL

\* Outside the queues that are being removed, the client of every call that
\* waits for its answer is watched: prv_remove_client decides to quit when
\* there is none left.
THEOREM CallersStayWatched == ServerSpec => []CallersAreWatched
<1>1. SInv => CallersAreWatched
  <2> SUFFICES ASSUME SInv, NEW s \in Session,
                      NEW t \in Current({s}) \cup Waiting({s}),
                      task[t].invocation, ~queue[s].defer_remove
               PROVE  s[1] \in watched
    BY DEF CallersAreWatched
  <2>1. t \in Call
    BY QueueFacts DEF Current, Waiting
  <2>2. task[t] # None /\ task[t].session = s
    BY <2>1, Places
  <2>3. task[t].invocation = TRUE /\ queue[s].defer_remove = FALSE
    BY <2>1, <2>2, TaskFacts, QueueFacts DEF Tasks
  <2> QED
    BY <2>1, <2>2, <2>3 DEF SInv, CallOK
<1> QED
  BY <1>1, ServerInvariant, PTL

\* No queue waits for nothing: a task in process has its completion pending, or
\* a cancellation that has not come yet would complete it, even when the proxy
\* of its action has gone (async.c:49-73).
THEOREM CurrentTasksCanEnd == ServerSpec => []CurrentCanEnd
<1>1. SInv => CurrentCanEnd
  <2> SUFFICES ASSUME SInv, NEW s \in Session, NEW t \in Current({s})
               PROVE  \/ task[t].completions = 1
                      \/ task[t].connected /\ task[t].cancellable = "new"
    BY DEF CurrentCanEnd
  <2>1. t \in Call
    BY QueueFacts DEF Current
  <2> QED
    BY <2>1, PlaceKinds DEF Begun
<1> QED
  BY <1>1, ServerInvariant, PTL

\* The completion of the task of a queue that is being removed is pending, and
\* no other queue on a lost device holds a task: every call that was waiting
\* behind a lost client or device goes with that one callback (server.c:574, 867).
THEOREM RemovedQueuesEnd == ServerSpec => []RemovedQueuesDrain
<1>1. SInv => RemovedQueuesDrain
  <2> SUFFICES ASSUME SInv, NEW s \in Session
               PROVE  /\ queue[s].defer_remove =>
                           \E t \in Current({s}) :
                              task[t].completions = 1 /\ ~task[t].invocation
                      /\ s[2] \in found \ listed
                           => queue[s] = NoQueue \/ queue[s].defer_remove
    BY DEF RemovedQueuesDrain
  <2>1. QueueOK(s) /\ queue[s].defer_remove \in BOOLEAN
    BY QueueFacts DEF SInv
  <2>2. ASSUME queue[s].defer_remove
        PROVE  \E t \in Current({s}) :
                  task[t].completions = 1 /\ ~task[t].invocation
    <3>1. /\ queue[s].current # None
          /\ task[queue[s].current].completions = 1
          /\ task[queue[s].current].invocation = FALSE
      BY <2>1, <2>2 DEF QueueOK
    <3>2. queue[s].current \in Current({s})
      BY <3>1 DEF Current
    <3> QED
      BY <3>1, <3>2
  <2>3. ASSUME s[2] \in found \ listed, ~queue[s].defer_remove
        PROVE  queue[s] = NoQueue
    <3>1. s[2] \in Device /\ queue[s].defer_remove = FALSE
      BY <2>1, <2>3 DEF SInv, ServerTypeOK
    <3>2. queue[s].tasks = <<>> /\ queue[s].current = None
      BY <2>1, <2>3, <3>1 DEF QueueOK
    <3> QED
      BY <3>1, <3>2, QueueFacts DEF NoQueue
  <2> QED
    BY <2>2, <2>3
<1> QED
  BY <1>1, ServerInvariant, PTL

-----------------------------------------------------------------------------
\* Server implements Invocations: every call is answered exactly once, and those
\* of a client on one object in the order it made them.

\* The calls that wait for their answer.
Live == {t \in Call : task[t] # None /\ task[t].invocation = TRUE}

\* What is left of queue q when its first calls are answered.
Suffix(p, q) == \E n \in 0..Len(q) : p = SubSeq(q, n + 1, Len(q))

LEMMA SuffixFacts ==
    ASSUME NEW S, NEW q \in Seq(S)
    PROVE  /\ Suffix(q, q)
           /\ Suffix(<<>>, q)
           /\ q # <<>> => Suffix(Tail(q), q)
<1>1. Len(q) \in Nat
  BY LenProperties
<1>2. Suffix(q, q)
  <2>1. 0 \in 0..Len(q) /\ 0 + 1 = 1
    BY <1>1
  <2>2. SubSeq(q, 0 + 1, Len(q)) = q
    BY <2>1, SubSeqFull
  <2> QED
    BY <2>1, <2>2 DEF Suffix
<1>3. Suffix(<<>>, q)
  <2>1. SubSeq(q, Len(q) + 1, Len(q)) = <<>> /\ Len(q) \in 0..Len(q)
    BY <1>1, SubSeqEmpty
  <2> QED
    BY <2>1 DEF Suffix
<1>4. q # <<>> => Suffix(Tail(q), q)
  <2> HAVE q # <<>>
  <2>1. 1 \in 0..Len(q) /\ 1 + 1 = 2
    BY <1>1, EmptySeq
  <2>2. Tail(q) = SubSeq(q, 1 + 1, Len(q))
    BY <2>1, TailIsSubSeq
  <2> QED
    BY <2>1, <2>2 DEF Suffix
<1> QED
  BY <1>2, <1>3, <1>4

-----------------------------------------------------------------------------
\* What the calls outstanding are.

OutstandingShape ==
    \A s \in Session :
        /\ queue[s].current \in Live
             => Outstanding(s) = <<queue[s].current>> \o queue[s].tasks
        /\ queue[s].current \notin Live => Outstanding(s) = queue[s].tasks

LEMMA OutstandingCases == SInv => OutstandingShape
<1> SUFFICES ASSUME SInv, NEW s \in Session
             PROVE  /\ queue[s].current \in Live
                         => Outstanding(s) = <<queue[s].current>> \o queue[s].tasks
                    /\ queue[s].current \notin Live
                         => Outstanding(s) = queue[s].tasks
  BY DEF OutstandingShape
<1>1. queue[s].current # None
         => /\ queue[s].current \in Call
            /\ task[queue[s].current] # None
            /\ task[queue[s].current].invocation \in BOOLEAN
  BY QueueFacts, TaskFacts DEF SInv, QueueOK, Tasks
<1>2. None \notin Live
  BY ServerAssumption DEF Live
<1> QED
  BY <1>1, <1>2 DEF Outstanding, Live

LEMMA OutstandingCasesNext == SInv' => OutstandingShape'
  BY OutstandingCases, PTL

LEMMA OutstandingFacts ==
    ASSUME SInv, NEW s \in Session
    PROVE  /\ Outstanding(s) \in Seq(Call)
           /\ ToSet(Outstanding(s)) = {t \in Live : task[t].session = s}
<1>1. /\ queue[s].tasks \in Seq(Call) /\ QueueOK(s)
      /\ ToSet(queue[s].tasks) \subseteq Call
  BY QueueFacts DEF SInv
<1>2. ASSUME NEW t \in ToSet(queue[s].tasks)
      PROVE  t \in Live /\ task[t].session = s
  <2>1. t \in Call /\ task[t] # None /\ task[t].session = s
        /\ t # queue[s].current
    BY <1>1 DEF QueueOK
  <2> QED
    BY <2>1 DEF SInv, CallOK, Fresh, Live
<1>3. ASSUME NEW t \in Live, task[t].session = s
      PROVE  t = queue[s].current \/ t \in ToSet(queue[s].tasks)
  BY <1>3 DEF SInv, CallOK, Live
<1>4. queue[s].current \in Live => task[queue[s].current].session = s
  BY <1>1, ServerAssumption DEF QueueOK, Live
<1>5. CASE queue[s].current \in Live
  <2>1. queue[s].current \in Call
    BY <1>5 DEF Live
  <2>2. /\ Outstanding(s) \in Seq(Call)
        /\ ToSet(Outstanding(s)) = {queue[s].current} \cup ToSet(queue[s].tasks)
    <3>1. Outstanding(s) = <<queue[s].current>> \o queue[s].tasks
      BY <1>5, OutstandingCases DEF OutstandingShape
    <3> QED
      BY <1>1, <2>1, <3>1, ConsFacts
  <2> QED
    BY <1>2, <1>3, <1>4, <1>5, <2>2
<1>6. CASE queue[s].current \notin Live
  BY <1>1, <1>2, <1>3, <1>6, OutstandingCases DEF OutstandingShape
<1> QED
  BY <1>5, <1>6

LEMMA PendingIsLive == SInv => Promised!Pending = Live
<1> SUFFICES ASSUME SInv PROVE Promised!Pending = Live
  OBVIOUS
<1>1. Promised!Pending = UNION {ToSet(Outstanding(s)) : s \in Session}
  BY DEF Promised!Pending, ToSet
<1>2. \A t \in Live : task[t].session \in Session
  BY TaskFacts DEF Live
<1> QED
  BY <1>1, <1>2, OutstandingFacts

LEMMA PendingIsLiveNext == SInv' => (Promised!Pending = Live)'
  BY PendingIsLive, PTL

\* A step that answers the calls T.
LEMMA AnswerStep ==
    ASSUME SInv, SInv', NEW T \in SUBSET Call, Reply(T),
           \A t \in T : task[t] # None /\ t \notin Live',
           \A t \in Call \ T : t \in Live' <=> t \in Live,
           \A s \in Session : Suffix(Outstanding(s)', Outstanding(s))
    PROVE  Promised!Answer
<1>1. Promised!Pending = Live /\ Promised!Pending' = Live'
  BY PendingIsLive, PendingIsLiveNext
<1>2. ASSUME NEW t \in Call
      PROVE  replies'[t] > 0 <=> replies[t] > 0 \/ t \in Live \ Live'
  <2>1. replies[t] \in 0..1
    BY DEF SInv, ServerTypeOK
  <2>2. task[t] # None => task[t].invocation \in BOOLEAN
    BY TaskFacts DEF Tasks
  <2>3. CASE t \in T
    BY <2>1, <2>2, <2>3 DEF Reply, Live
  <2>4. CASE t \notin T
    BY <2>1, <2>4 DEF Reply
  <2> QED
    BY <2>3, <2>4
<1>3. Live \subseteq Call
  BY DEF Live
<1> QED
  BY <1>1, <1>2, <1>3 DEF Promised!Answer, Suffix

-----------------------------------------------------------------------------
\* Every step of Server maps to a step of Invocations, or to none.

\* The two ways the calls outstanding on one object can be answered.
LEMMA OutstandingAnswered ==
    ASSUME SInv, SInv', NEW s \in Session
    PROVE  /\ /\ queue'[s].tasks = queue[s].tasks
              /\ queue'[s].current \notin Live'
              => Suffix(Outstanding(s)', Outstanding(s))
           /\ /\ queue'[s].tasks = <<>>
              /\ queue'[s].current \notin Live'
              => Suffix(Outstanding(s)', Outstanding(s))
           /\ /\ queue'[s].tasks = queue[s].tasks
              /\ queue'[s].current = queue[s].current
              /\ queue[s].current \in Live' <=> queue[s].current \in Live
              => /\ Outstanding(s)' = Outstanding(s)
                 /\ Suffix(Outstanding(s)', Outstanding(s))
<1> DEFINE p == Outstanding(s)
           q == queue[s].tasks
           c == queue[s].current
<1>1. /\ c \in Live => p = <<c>> \o q
      /\ c \notin Live => p = q
  BY OutstandingCases DEF OutstandingShape
<1>2. /\ queue'[s].current \in Live'
           => p' = <<queue'[s].current>> \o queue'[s].tasks
      /\ queue'[s].current \notin Live' => p' = queue'[s].tasks
  BY OutstandingCasesNext DEF OutstandingShape
<1>3. p \in Seq(Call) /\ q \in Seq(Call) /\ Live \subseteq Call
  BY OutstandingFacts, QueueFacts DEF Live
<1> HIDE DEF p, q, c
<1>4. Suffix(p, p) /\ Suffix(<<>>, p)
  BY <1>3, SuffixFacts
<1>5. Suffix(q, p)
  <2>1. CASE c \in Live
    <3>1. Tail(p) = q /\ p # <<>>
      BY <1>1, <1>3, <2>1, ConsFacts, EmptySeq, LenProperties
    <3> QED
      BY <1>3, <3>1, SuffixFacts
  <2>2. CASE c \notin Live
    BY <1>1, <1>4, <2>2
  <2> QED
    BY <2>1, <2>2
<1> QED
  BY <1>1, <1>2, <1>4, <1>5 DEF p, q, c

LEMMA DropAnswers ==
    ASSUME SInv, SInv', NEW K \in SUBSET Session, NEW G \in SUBSET K, Drop(K, G)
    PROVE  Promised!Answer
<1> DEFINE T == Current(K) \cup Waiting(G)
<1>1. G \in SUBSET Session
  OBVIOUS
<1>2. ASSUME NEW t \in Call
      PROVE  /\ t \in T => task[t] # None /\ t \notin Live'
             /\ t \notin T => (t \in Live' <=> t \in Live)
  <2>1. t \in T => task[t] # None
    BY <1>1, Places
  <2>2. CASE t \in Current(K)
    <3>1. task'[t] = Cancel(task[t])
      BY <2>2 DEF Drop
    <3>2. Cancel(task[t]).invocation = FALSE
      BY <2>1, <2>2, TaskFacts, CancelledTask
    <3> QED
      BY <2>1, <2>2, <3>1, <3>2 DEF Live
  <2>3. CASE t \notin Current(K)
    BY <2>1, <2>3 DEF Live, Drop
  <2> QED
    BY <2>2, <2>3
<1>3. T \in SUBSET Call /\ None \notin Live'
  <2>1. Current(K) \subseteq Call
    BY QueueFacts DEF Current
  <2>2. Waiting(G) \subseteq Call
    BY <1>1, QueueFacts DEF Waiting
  <2>3. None \notin Live'
    BY ServerAssumption DEF Live
  <2> QED
    BY <2>1, <2>2, <2>3
<1>4. ASSUME NEW s \in Session
      PROVE  Suffix(Outstanding(s)', Outstanding(s))
  <2>1. /\ queue'[s].current = queue[s].current
        /\ queue'[s].tasks = IF s \in G THEN <<>> ELSE queue[s].tasks
    BY DEF Drop
  <2>2. queue[s].current # None
          => /\ queue[s].current \in Call
             /\ task[queue[s].current].session = s
             /\ queue[s].current \notin ToSet(queue[s].tasks)
    BY QueueFacts DEF SInv, QueueOK
  <2>3. CASE s \in K
    <3>1. queue[s].current \notin Live'
      BY <1>2, <1>3, <2>3 DEF Current
    <3> QED
      BY <2>1, <3>1, OutstandingAnswered
  <2>4. CASE s \notin K
    <3>1. queue[s].current # None => queue[s].current \notin T
      BY <1>1, <2>2, <2>4, Places
    <3>2. queue[s].current \in Live' <=> queue[s].current \in Live
      BY <1>2, <1>3, <2>2, <3>1, ServerAssumption DEF Live
    <3> QED
      BY <2>1, <2>4, <3>2, OutstandingAnswered
  <2> QED
    BY <2>3, <2>4
<1>5. Reply(T)
  BY DEF Drop
<1> QED
  BY <1>2, <1>3, <1>4, <1>5, AnswerStep

\* A call that becomes a task is accepted.
LEMMA AddTaskAccepts ==
    ASSUME SInv, SInv', NEW c \in Client, NEW sink \in Sink,
           NEW kind \in Kinds(sink), AddTask(c, sink, kind)
    PROVE  Promised!Next
<1> DEFINE s == <<c, sink>>
           t == made + 1
<1>1. /\ s \in Session /\ t \in Call /\ t > made
  BY ServerAssumption DEF AddTask, SInv, ServerTypeOK, Session, Call
<1>2. task[t] = None /\ replies[t] = 0
  BY <1>1 DEF SInv, CallOK
<1>3. NewTask(s, kind).invocation = TRUE
  BY DEF NewTask
<1>4. /\ queue' = [queue EXCEPT ![s].tasks = Append(@, t)]
      /\ task' = [task EXCEPT ![t] = NewTask(s, kind)]
      /\ replies' = replies
      /\ queue \in [Session -> Queue] /\ task \in [Call -> Tasks \cup {None}]
  BY DEF AddTask, SInv, ServerTypeOK
<1> HIDE DEF s, t
<1>5. /\ \A q \in Session \ {s} : queue'[q] = queue[q]
      /\ queue'[s].current = queue[s].current
      /\ queue'[s].tasks = Append(queue[s].tasks, t)
  BY <1>1, <1>4 DEF Queue
<1>6. /\ \A u \in Call \ {t} : u \in Live' <=> u \in Live
      /\ \A q \in Session : queue[q].current # t
  <2>1. \A u \in Call \ {t} : task'[u] = task[u]
    BY <1>4
  <2> QED
    BY <1>1, <1>2, <2>1, ServerAssumption DEF Live, SInv, QueueOK
<1>7. ASSUME NEW q \in Session
      PROVE  queue[q].current \in Live' <=> queue[q].current \in Live
  <2>1. queue[q].current \in Call \/ queue[q].current = None
    BY QueueFacts
  <2> QED
    BY <1>6, <2>1, ServerAssumption DEF Live
<1>8. ASSUME NEW q \in Session, q # s
      PROVE  Outstanding(q)' = Outstanding(q)
  BY <1>5, <1>7, <1>8, OutstandingAnswered
<1>9. Outstanding(s)' = Append(Outstanding(s), t)
  <2>1. queue[s].tasks \in Seq(Call)
    BY <1>1, QueueFacts
  <2>2. CASE queue[s].current \in Live
    <3>1. Outstanding(s) = <<queue[s].current>> \o queue[s].tasks
          /\ queue[s].current \in Call
      BY <1>1, <2>2, OutstandingCases DEF OutstandingShape, Live
    <3>2. Outstanding(s)' = <<queue[s].current>> \o Append(queue[s].tasks, t)
      BY <1>1, <1>5, <1>7, <2>2, OutstandingCasesNext DEF OutstandingShape
    <3>3. Append(<<queue[s].current>> \o queue[s].tasks, t)
            = <<queue[s].current>> \o Append(queue[s].tasks, t)
      <4> DEFINE a == queue[s].current
                 q == queue[s].tasks
      <4>1. q \in Seq(Call) /\ a \in Call /\ t \in Call
        BY <1>1, <2>1, <3>1
      <4> HIDE DEF a, q
      <4>2. Append(<<a>> \o q, t) = <<a>> \o Append(q, t)
        BY <4>1, ConsFacts
      <4> QED
        BY <4>2 DEF a, q
    <3> QED
      BY <3>1, <3>2, <3>3
  <2>3. CASE queue[s].current \notin Live
    <3>1. Outstanding(s) = queue[s].tasks
      BY <1>1, <2>3, OutstandingCases DEF OutstandingShape
    <3>2. Outstanding(s)' = Append(queue[s].tasks, t)
      BY <1>1, <1>5, <1>7, <2>3, OutstandingCasesNext DEF OutstandingShape
    <3> QED
      BY <3>1, <3>2
  <2> QED
    BY <2>2, <2>3
<1>10. t \in Promised!Fresh
  BY <1>1, <1>2, PendingIsLive DEF Promised!Fresh, Live
<1>11. Promised!Accept(s, t)
  BY <1>1, <1>4, <1>8, <1>9 DEF Promised!Accept
<1> QED
  BY <1>1, <1>10, <1>11 DEF Promised!Next

LEMMA RefuseRefuses ==
    ASSUME SInv, SInv', NEW c \in Client, Refuse(c)
    PROVE  Promised!Next
<1> DEFINE t == made + 1
<1>1. t \in Call /\ t > made /\ queue' = queue /\ task' = task
  BY ServerAssumption DEF Refuse, SInv, ServerTypeOK, Call
<1>2. task[t] = None /\ replies[t] = 0
  BY <1>1 DEF SInv, CallOK
<1>3. \A u \in Call : replies'[u] = IF u = t THEN 1 ELSE replies[u]
  BY DEF Refuse, SInv, ServerTypeOK
<1> HIDE DEF t
<1>4. t \in Promised!Fresh
  BY <1>1, <1>2, PendingIsLive DEF Promised!Fresh, Live
<1>5. \A s \in Session : Outstanding(s)' = Outstanding(s)
  BY <1>1 DEF Outstanding
<1>6. {u \in Call : replies'[u] > 0} = {u \in Call : replies[u] > 0} \cup {t}
  BY <1>1, <1>3
<1>7. \E u \in Promised!Fresh : Promised!Refuse(u)
  BY <1>4, <1>5, <1>6 DEF Promised!Refuse
<1> QED
  BY <1>7 DEF Promised!Next

\* Steps that answer nothing.
LEMMA QuietStep ==
    ASSUME SInv, SInv', replies' = replies,
           \A s \in Session : Outstanding(s)' = Outstanding(s)
    PROVE  UNCHANGED Promised!vars
  BY DEF Promised!vars

LEMMA ProcessAsyncQuiet ==
    ASSUME SInv, SInv', NEW s \in Session, Process(s),
           ProcessAsync(s, Head(queue[s].tasks))
    PROVE  UNCHANGED Promised!vars
<1> DEFINE t == Head(queue[s].tasks)
           rest == Tail(queue[s].tasks)
<1>1. queue[s].current = None /\ queue[s].tasks # <<>>
  BY DEF Process
<1>2. /\ t \in Call /\ task[t] # None /\ Fresh(task[t])
      /\ task[t].session = s
      /\ \A q \in Session : t # queue[q].current
  BY <1>1, HeadFacts
<1>3. /\ queue' = [queue EXCEPT ![s].tasks = rest, ![s].current = t]
      /\ replies' = replies
      /\ queue \in [Session -> Queue] /\ task \in [Call -> Tasks \cup {None}]
  BY DEF ProcessAsync, SInv, ServerTypeOK
<1>4. PICK n \in Started(task[t]) : task' = [task EXCEPT ![t] = n]
  BY DEF ProcessAsync
<1>5. n # None /\ n.invocation = TRUE
  BY <1>2, StartedTask, TaskFacts, TaskAssumption
<1>6. queue[s].tasks \in Seq(Call)
      /\ <<t>> \o rest = queue[s].tasks
  <2>1. queue[s].tasks \in Seq(Call)
    BY QueueFacts
  <2> QED
    BY <1>1, <2>1
<1> HIDE DEF t, rest
<1>7. /\ \A q \in Session \ {s} : queue'[q] = queue[q]
      /\ queue'[s].current = t
      /\ queue'[s].tasks = rest
  BY <1>3 DEF Queue
<1>8. \A u \in Call : u \in Live' <=> u \in Live
  <2>1. \A u \in Call : task'[u] = IF u = t THEN n ELSE task[u]
    BY <1>2, <1>3, <1>4
  <2> QED
    BY <1>2, <1>5, <2>1 DEF Live, Fresh
<1>9. ASSUME NEW q \in Session PROVE Outstanding(q)' = Outstanding(q)
  <2>1. CASE q # s
    <3>1. queue[q].current \in Live' <=> queue[q].current \in Live
      BY <1>8 DEF Live
    <3> QED
      BY <1>7, <2>1, <3>1, OutstandingAnswered
  <2>2. CASE q = s
    <3>1. queue[s].current \notin Live /\ t \in Live'
      BY <1>1, <1>2, <1>8, ServerAssumption DEF Live, Fresh
    <3>2. Outstanding(s) = queue[s].tasks
      BY <3>1, OutstandingCases DEF OutstandingShape
    <3>3. Outstanding(s)' = <<t>> \o rest
      BY <1>7, <3>1, OutstandingCasesNext DEF OutstandingShape
    <3> QED
      BY <1>6, <2>2, <3>2, <3>3
  <2> QED
    BY <2>1, <2>2
<1> QED
  BY <1>3, <1>9, QuietStep

\* A step that moves no task of a queue and answers none.
LEMMA UpdateQuiet ==
    ASSUME SInv, SInv', UNCHANGED <<queue, replies>>,
           \A t \in Call : t \in Live' <=> t \in Live
    PROVE  UNCHANGED Promised!vars
<1>1. ASSUME NEW s \in Session PROVE Outstanding(s)' = Outstanding(s)
  <2>1. queue[s].current \in Live' <=> queue[s].current \in Live
    BY DEF Live
  <2> QED
    BY <2>1, OutstandingAnswered
<1> QED
  BY <1>1, QuietStep

LEMMA ProcessSyncAnswers ==
    ASSUME SInv, SInv', NEW s \in Session, Process(s),
           ProcessSync(s, Head(queue[s].tasks))
    PROVE  Promised!Answer
<1> DEFINE t == Head(queue[s].tasks)
           rest == Tail(queue[s].tasks)
           T == {t}
<1>1. queue[s].current = None /\ queue[s].tasks # <<>>
  BY DEF Process
<1>2. /\ t \in Call /\ task[t] # None
      /\ \A q \in Session : t # queue[q].current
      /\ queue[s].tasks \in Seq(Call)
  BY <1>1, HeadFacts, QueueFacts
<1>3. /\ queue' = [queue EXCEPT ![s].tasks = rest]
      /\ task' = [task EXCEPT ![t] = None]
      /\ Reply(T)
      /\ queue \in [Session -> Queue] /\ task \in [Call -> Tasks \cup {None}]
  BY DEF ProcessSync, SInv, ServerTypeOK
<1>4. Suffix(rest, queue[s].tasks)
  BY <1>1, <1>2, SuffixFacts
<1> HIDE DEF t, rest
<1>5. /\ \A q \in Session \ {s} : queue'[q] = queue[q]
      /\ queue'[s].current = None
      /\ queue'[s].tasks = rest
  BY <1>1, <1>3 DEF Queue
<1>6. /\ t \notin Live'
      /\ \A u \in Call \ {t} : u \in Live' <=> u \in Live
  <2>1. \A u \in Call : task'[u] = IF u = t THEN None ELSE task[u]
    BY <1>2, <1>3
  <2> QED
    BY <1>2, <2>1 DEF Live
<1>7. ASSUME NEW q \in Session
      PROVE  Suffix(Outstanding(q)', Outstanding(q))
  <2>1. CASE q # s
    <3>1. queue[q].current \in Live' <=> queue[q].current \in Live
      BY <1>2, <1>6 DEF Live
    <3> QED
      BY <1>5, <2>1, <3>1, OutstandingAnswered
  <2>2. CASE q = s
    <3>1. None \notin Live /\ None \notin Live'
      BY ServerAssumption DEF Live
    <3>2. Outstanding(s) = queue[s].tasks /\ Outstanding(s)' = rest
      BY <1>1, <1>5, <3>1, OutstandingCases, OutstandingCasesNext
         DEF OutstandingShape
    <3> QED
      BY <1>4, <2>2, <3>2
  <2> QED
    BY <2>1, <2>2
<1>8. T \in SUBSET Call /\ \A u \in T : u = t
  BY <1>2
<1> HIDE DEF T
<1> QED
  <2>1. \A u \in T : task[u] # None /\ u \notin Live'
    BY <1>2, <1>6, <1>8
  <2>2. \A u \in Call \ T : u \in Live' <=> u \in Live
    BY <1>6 DEF T
  <2> QED
    BY <1>3, <1>7, <1>8, <2>1, <2>2, AnswerStep

LEMMA CompleteAnswers ==
    ASSUME SInv, SInv', NEW t \in Call, Complete(t)
    PROVE  Promised!Answer
<1> DEFINE s == task[t].session
           gone == IF queue[s].defer_remove THEN Waiting({s}) ELSE {}
           T == {t} \cup gone
<1>1. task[t] # None /\ task[t].completions > 0
  BY DEF Complete
<1>2. s \in Session /\ t = queue[s].current
  <2>1. s \in Session
    BY <1>1, TaskFacts
  <2>2. ~Fresh(task[t])
    BY <1>1 DEF Fresh
  <2> QED
    BY <1>1, <2>1, <2>2 DEF SInv, CallOK
<1>3. /\ Reply(T) /\ queue' = Ended(s)
      /\ task' = [u \in Call |-> IF u \in T THEN None ELSE task[u]]
      /\ queue \in [Session -> Queue]
  BY DEF Complete, SInv, ServerTypeOK
<1>4. /\ T \in SUBSET Call
      /\ \A u \in T : task[u] # None /\ task[u].session = s
  <2>1. {s} \in SUBSET Session
    BY <1>2
  <2>2. Waiting({s}) \subseteq Call
    <3>1. ToSet(queue[s].tasks) \subseteq Call
      BY <1>2, QueueFacts
    <3>2. Waiting({s}) = ToSet(queue[s].tasks)
      BY DEF Waiting
    <3> QED
      BY <3>1, <3>2
  <2>3. ASSUME NEW u \in Waiting({s})
        PROVE  task[u] # None /\ task[u].session = s
    <3>1. u \in Call
      BY <2>2
    <3> QED
      BY <2>1, <3>1, Places
  <2> QED
    BY <1>1, <2>2, <2>3
<1>5. /\ \A q \in Session \ {s} : queue'[q] = queue[q]
      /\ queue'[s].current = None
      /\ queue'[s].tasks \in {<<>>, queue[s].tasks}
  <2>1. CASE queue[s].defer_remove
    BY <1>2, <1>3, <2>1 DEF Ended, NoQueue
  <2>2. CASE ~queue[s].defer_remove
    BY <1>2, <1>3, <2>2 DEF Ended, Queue
  <2> QED
    BY <2>1, <2>2
<1> HIDE DEF gone, T, s
<1>6. /\ \A u \in T : u \notin Live'
      /\ \A u \in Call \ T : u \in Live' <=> u \in Live
  BY <1>3 DEF Live
<1>7. ASSUME NEW q \in Session
      PROVE  Suffix(Outstanding(q)', Outstanding(q))
  <2>1. CASE q # s
    <3>1. queue[q].current \in Live' <=> queue[q].current \in Live
      <4>1. queue[q].current # None => queue[q].current \notin T
        BY <1>4, <2>1 DEF SInv, QueueOK
      <4>2. None \notin Call
        BY ServerAssumption
      <4> QED
        BY <1>6, <4>1, <4>2 DEF Live
    <3> QED
      BY <1>5, <2>1, <3>1, OutstandingAnswered
  <2>2. CASE q = s
    <3>1. None \notin Live'
      BY ServerAssumption DEF Live
    <3> QED
      BY <1>2, <1>5, <2>2, <3>1, OutstandingAnswered
  <2> QED
    BY <2>1, <2>2
<1> QED
  BY <1>3, <1>4, <1>6, <1>7, AnswerStep

\* The initial state and every step.
LEMMA InitMapsToInit == ServerInit => Promised!Init
<1> SUFFICES ASSUME ServerInit PROVE Promised!Init
  OBVIOUS
<1>1. \A s \in Session : Outstanding(s) = <<>>
  BY DEF ServerInit, Outstanding, NoQueue
<1>2. {t \in Call : replies[t] > 0} = {}
  BY DEF ServerInit
<1> QED
  BY <1>1, <1>2 DEF Promised!Init

LEMMA StepMapsToStep ==
    ASSUME SInv, SInv', [ServerNext]_serverVars
    PROVE  Promised!Next \/ UNCHANGED Promised!vars
<1>1. ASSUME NEW S \in SUBSET Session, RemoveQueues(S) PROVE Promised!Answer
  BY <1>1, RemoveQueuesDrops, DropAnswers
<1>2. ASSUME NEW c \in Client, CallManager(c) PROVE Promised!Next
  BY <1>2, AddTaskAccepts DEF CallManager, Sink
<1>3. ASSUME NEW c \in Client, NEW d \in Device, CallDevice(c, d)
      PROVE  Promised!Next
  BY <1>3, AddTaskAccepts, RefuseRefuses DEF CallDevice, Sink
<1>4. ASSUME NEW c \in Client, NEW d \in Device, CancelCall(c, d)
      PROVE  Promised!Answer
  <2> DEFINE s == <<c, d>>
             K == {s}
  <2>1. s \in Session /\ CancelQueue(s) /\ UNCHANGED listed
    BY <1>4 DEF CancelCall, Session, Sink, deviceVars
  <2>2. Drop(K, K) /\ K \in SUBSET Session /\ K \in SUBSET K
    BY <2>1, CancelQueueDrops
  <2> HIDE DEF K
  <2> QED
    BY <2>2, DropAnswers
<1>5. ASSUME NEW c \in Client, Release(c) PROVE Promised!Answer
  <2>1. {c} \X Sink \in SUBSET Session
    BY DEF Session
  <2> QED
    BY <1>1, <1>5, <2>1 DEF Release
<1>6. ASSUME NEW c \in Client, ClientLost(c)
      PROVE  Promised!Answer \/ UNCHANGED Promised!vars
  <2>1. {c} \X Sink \in SUBSET Session
    BY DEF Session
  <2>2. CASE c \in watched
    BY <1>1, <1>6, <2>1, <2>2 DEF ClientLost
  <2>3. CASE c \notin watched
    BY <1>6, <2>3, UpdateQuiet DEF ClientLost, taskVars, Live
  <2> QED
    BY <2>2, <2>3
<1>7. ASSUME NEW d \in Device, LostDevice(d) PROVE Promised!Answer
  <2>1. Client \X {d} \in SUBSET Session
    BY DEF Session, Sink
  <2> QED
    BY <1>1, <1>7, <2>1 DEF LostDevice
<1>8. ASSUME NEW d \in Device, FoundDevice(d) PROVE UNCHANGED Promised!vars
  BY <1>8, UpdateQuiet DEF FoundDevice, taskVars, Live
<1>9. ASSUME NEW d \in Device, ContextLost(d) PROVE UNCHANGED Promised!vars
  <2>1. PICK T \in SUBSET Current(Client \X {d}) :
           task' = [t \in Call |-> IF t \in T
                                  THEN [task[t] EXCEPT !.in_flight = FALSE]
                                  ELSE task[t]]
    BY <1>9 DEF ContextLost
  <2>2. Client \X {d} \in SUBSET Session
    BY DEF Session, Sink
  <2>3. ASSUME NEW t \in Call PROVE t \in Live' <=> t \in Live
    <3>1. CASE t \in T
      <4>1. task[t] # None /\ task[t] \in Tasks
        BY <2>2, <3>1, Places, TaskFacts
      <4>2. /\ task'[t] = [task[t] EXCEPT !.in_flight = FALSE]
            /\ task'[t] \in Tasks
            /\ task'[t].invocation = task[t].invocation
        BY <2>1, <3>1, <4>1 DEF Tasks
      <4>3. task'[t] # None
        BY <4>2, TaskAssumption
      <4> QED
        BY <4>1, <4>2, <4>3 DEF Live
    <3>2. CASE t \notin T
      BY <2>1, <3>2 DEF Live
    <3> QED
      BY <3>1, <3>2
  <2>4. UNCHANGED <<queue, replies>>
    BY <1>9 DEF ContextLost
  <2> QED
    BY <2>3, <2>4, UpdateQuiet
<1>10. ASSUME NEW s \in Session, Process(s)
       PROVE  Promised!Answer \/ UNCHANGED Promised!vars
  BY <1>10, ProcessSyncAnswers, ProcessAsyncQuiet DEF Process
<1>11. ASSUME NEW t \in Call, Answer(t) PROVE UNCHANGED Promised!vars
  <2> DEFINE n == [task[t] EXCEPT !.in_flight = FALSE, !.connected = FALSE,
                                  !.completions = @ + 1]
  <2>1. /\ task[t] # None /\ task[t] \in Tasks /\ UNCHANGED <<queue, replies>>
        /\ task' = [task EXCEPT ![t] = n]
        /\ task \in [Call -> Tasks \cup {None}]
    BY <1>11, TaskFacts DEF Answer, SInv, ServerTypeOK
  <2>2. n.invocation = task[t].invocation
    BY <2>1 DEF Tasks
  <2>3. n # None
    <3>1. task[t].completions + 1 \in Nat
      BY <2>1 DEF Tasks
    <3>2. n \in Tasks
      BY <2>1, <3>1 DEF Tasks
    <3> QED
      BY <3>2, TaskAssumption
  <2> HIDE DEF n
  <2>4. \A u \in Call : u \in Live' <=> u \in Live
    BY <2>1, <2>2, <2>3 DEF Live
  <2> QED
    BY <2>1, <2>4, UpdateQuiet
<1>12. ASSUME NEW t \in Call, Complete(t) PROVE Promised!Answer
  BY <1>12, CompleteAnswers
<1>13. CASE UNCHANGED serverVars
  BY <1>13, UpdateQuiet DEF serverVars, taskVars, Live
<1>14. Promised!Answer => Promised!Next
  BY DEF Promised!Next
<1> QED
  BY <1>2, <1>3, <1>4, <1>5, <1>6, <1>7, <1>8, <1>9, <1>10, <1>11, <1>12,
     <1>13, <1>14 DEF ServerNext

\* The service keeps its promise to the clients: every call is answered exactly
\* once (dld_task_complete, fail, cancel and delete), and the calls on one
\* object in their order, whatever is cancelled, released or lost meanwhile.
THEOREM ServerKeepsPromise == ServerSpec => ImplementsInvocations
<1>1. SInv /\ SInv' /\ [ServerNext]_serverVars => [Promised!Next]_Promised!vars
  BY StepMapsToStep
<1> QED
  BY <1>1, InitMapsToInit, ServerInvariant, PTL
     DEF ServerSpec, ImplementsInvocations, Promised!Spec
=============================================================================
