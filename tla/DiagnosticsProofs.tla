------------------------- MODULE DiagnosticsProofs -------------------------
(***************************************************************************)
(* Theorems about Diagnostics.tla, for any number of devices, networks,    *)
(* clients and calls: the service as a whole is Upnp.tla to the networks   *)
(* and Server.tla to the clients; by the invariant DInv, actions and stuck *)
(* calls have their device; and, by ServerProofs, what is proved of Server *)
(* holds of the service.                                                   *)
(***************************************************************************)
EXTENDS Diagnostics, UpnpProofs

TaskTable == task = [t \in S!Call |-> task[t]]

\* What the calls see of the device tables.
SameListing == ListedPaths' = ListedPaths /\ Announced' = Announced

-----------------------------------------------------------------------------
\* The tables.

\* The service does to the device tables what Upnp does (prv_add_device,
\* prv_remove_device): the calls of clients change none of them.
THEOREM TablesAreUpnp == ServiceSpec => Spec
<1>1. ServiceInit => Init
  BY DEF ServiceInit
<1>2. ASSUME ServiceNext PROVE [Next]_vars
  <2>1. CASE Network
    BY <2>1 DEF Network, Next
  <2>2. ASSUME NEW u \in UDN, NEW ip \in IP, Withdraw(u, ip) PROVE Next
    BY <2>2 DEF Withdraw, Next
  <2>3. CASE ClientStep \/ (\E s \in S!Session : Serve(s))
               \/ (\E t \in S!Call : Finish(t))
    BY <2>3 DEF ClientStep, Serve, Finish
  <2> QED
    BY <1>2, <2>1, <2>2, <2>3 DEF ServiceNext
<1>3. UNCHANGED serviceVars => UNCHANGED vars
  BY DEF serviceVars
<1> QED
  BY <1>1, <1>2, <1>3, PTL DEF ServiceSpec, Spec

LEMMA Unlisted ==
    ASSUME UNCHANGED <<device_udn_map, signals>>
    PROVE  SameListing
  BY DEF SameListing, ListedPaths, Announced

LEMMA PromiseStutters ==
    ASSUME UNCHANGED Promise!vars
    PROVE  SameListing
  BY DEF Promise!vars, SameListing, Announced

\* A path is listed in the step that announces it, and was never before.
LEMMA FoundListing ==
    ASSUME IInv, NEW p \in Path, Promise!Found(p)
    PROVE  /\ p \notin Announced
           /\ ListedPaths' = ListedPaths \cup {p}
           /\ Announced' = Announced \cup {p}
<1>1. /\ signals[p] = <<>>
      /\ ListedPaths' = ListedPaths \cup {p}
      /\ signals' = [signals EXCEPT ![p] = <<"FoundDevice">>]
  BY DEF Promise!Found
<1>2. \A q \in Path : signals'[q] = IF q = p THEN <<"FoundDevice">> ELSE signals[q]
  BY <1>1 DEF IInv, TypeOK
<1>3. <<"FoundDevice">> # <<>>
  OBVIOUS
<1> QED
  BY <1>1, <1>2, <1>3 DEF Announced

LEMMA LostListing ==
    ASSUME IInv, NEW p \in ListedPaths, Promise!Lost(p)
    PROVE  ListedPaths' = ListedPaths \ {p} /\ Announced' = Announced
<1>1. /\ ListedPaths' = ListedPaths \ {p}
      /\ signals' = [signals EXCEPT ![p] = Append(signals[p], "LostDevice")]
  BY DEF Promise!Lost
<1>2. p \in Path /\ signals[p] = <<"FoundDevice">>
  BY ListedDevice
<1>3. signals[p] # <<>> /\ Append(signals[p], "LostDevice") # <<>>
  BY <1>2
<1>4. \A q \in Path : signals'[q] = IF q = p THEN Append(signals[p], "LostDevice")
                                             ELSE signals[q]
  BY <1>1, <1>2 DEF IInv, TypeOK
<1> QED
  BY <1>1, <1>2, <1>3, <1>4 DEF Announced

LEMMA UnavailableListing ==
    ASSUME IInv, NEW u \in UDN, NEW ip \in IP, Unavailable(u, ip)
    PROVE  \/ SameListing
           \/ /\ device_udn_map[u] \in ListedPaths
              /\ ListedPaths' = ListedPaths \ {device_udn_map[u]}
              /\ Announced' = Announced
<1>1. running /\ running'
  BY DEF Unavailable
<1>2. CASE RemoveUnknown(u, ip)
  BY <1>2, Unlisted DEF RemoveUnknown
<1>3. CASE RemoveKnown(u, ip)
  <2> DEFINE old == device[Lookup(u)]
             dev == RemoveContext(old, ip)
  <2>1. HasContext(u, ip) /\ Lookup(u) # None
    BY <1>3 DEF RemoveKnown, HasContext
  <2>2. CASE ~UnderConstruction(u) /\ RemovePublished(u)
    <3>1. device_udn_map[u] # None
      BY <2>1, <2>2, LookupCases
    <3>2. device_udn_map[u] \in ListedPaths /\ Promise!Lost(device_udn_map[u])
      BY <1>1, <2>2, <3>1, RemovePublishedPromised
    <3> QED
      BY <3>2, LostListing
  <2>3. CASE UnderConstruction(u) /\ RemoveConstructing(u)
    <3>1. UNCHANGED Promise!vars
      BY <1>1, <2>1, <2>3, LookupCases, ChainEndPromised DEF RemoveConstructing
    <3> QED
      BY <3>1, PromiseStutters
  <2>4. CASE SwitchContext(u, dev)
    BY <2>4, Unlisted DEF SwitchContext
  <2>5. CASE DropContext(u, dev, old.bms[ip].subscribed)
    BY <2>5, Unlisted DEF DropContext
  <2> QED
    BY <1>3, <2>2, <2>3, <2>4, <2>5 DEF RemoveKnown
<1> QED
  BY <1>2, <1>3 DEF Unavailable

LEMMA ListedAreLive == IInv => ListedPaths \subseteq live
  BY ListedDevice

LEMMA ListedAreLiveNext == IInv' => (ListedPaths \subseteq live)'
  BY ListedAreLive, PTL

-----------------------------------------------------------------------------
\* The calls.

LEMMA NothingServed ==
    ASSUME SameListing, UNCHANGED callVars
    PROVE  UNCHANGED S!serverVars
  BY DEF SameListing, callVars, S!serverVars, S!taskVars, S!deviceVars,
         S!clientVars

\* The networks and the timers list a device, in the step that announces it,
\* or leave the lists alone.
LEMMA NetworkListing ==
    ASSUME IInv, Network
    PROVE  SameListing \/ \E p \in Path : Promise!Found(p)
<1>1. ASSUME NEW u \in UDN, RunSubscribe(u) PROVE SameListing
  BY <1>1, Unlisted DEF RunSubscribe
<1>2. ASSUME NEW u \in UDN, NEW ip \in IP, Available(u, ip) PROVE SameListing
  BY <1>2, Unlisted DEF Available
<1>3. ASSUME NEW p \in Path, DeviceTimer(p) PROVE SameListing
  BY <1>3, Unlisted DEF DeviceTimer, OnlyDeviceChanges
<1>4. ASSUME NEW u \in UDN, RunDeclare(u)
      PROVE  SameListing \/ \E p \in Path : Promise!Found(p)
  BY <1>4, ChainEndPromised, PromiseStutters DEF RunDeclare
<1> QED
  BY <1>1, <1>2, <1>3, <1>4 DEF Network, RunTask

\* An announcement of a device is all that the networks mean to the calls,
\* but for what they withdraw.
LEMMA NetworkServes ==
    ASSUME IInv, Network
    PROVE  [S!ServerNext]_S!serverVars
<1>1. ASSUME NEW p \in Path, Promise!Found(p) PROVE S!FoundDevice(p)
  BY <1>1, FoundListing
     DEF Network, callVars, S!FoundDevice, S!taskVars, S!clientVars
<1> QED
  BY <1>1, NetworkListing, NothingServed DEF Network, S!ServerNext

LEMMA WithdrawServes ==
    ASSUME IInv, TaskTable, NEW u \in UDN, NEW ip \in IP, Withdraw(u, ip)
    PROVE  [S!ServerNext]_S!serverVars
<1> DEFINE p == device_udn_map[u]
<1>1. /\ UNCHANGED <<icons, connected, watched, watchers, never_quit, quitting,
                     proxy>>
      /\ \/ p = None /\ UNCHANGED <<queue, task, replies, made>>
         \/ p # None /\ p \notin ListedPaths' /\ S!RemoveQueues(Client \X {p})
         \/ p # None /\ p \in ListedPaths' /\ ForgetActions(Orphans(p, ip))
      /\ Unavailable(u, ip)
  BY DEF Withdraw
<1>2. \/ SameListing
      \/ /\ p \in ListedPaths
         /\ ListedPaths' = ListedPaths \ {p}
         /\ Announced' = Announced
  BY <1>1, UnavailableListing
<1>3. p # None => p \in Path /\ p \in ListedPaths
  BY DEF IInv, TypeOK, ListedPaths
<1>4. None \notin ListedPaths
  BY DEF ListedPaths
<1> HIDE DEF p
<1>5. CASE p = None
  <2>1. SameListing /\ UNCHANGED callVars
    BY <1>1, <1>2, <1>4, <1>5 DEF callVars
  <2> QED
    BY <2>1, NothingServed
<1>6. CASE p # None /\ p \notin ListedPaths' /\ S!RemoveQueues(Client \X {p})
  <2>1. S!LostDevice(p)
    BY <1>1, <1>2, <1>3, <1>6 DEF S!LostDevice, S!clientVars, SameListing
  <2> QED
    BY <1>3, <1>6, <2>1 DEF S!ServerNext
<1>7. CASE p # None /\ p \in ListedPaths' /\ ForgetActions(Orphans(p, ip))
  <2> DEFINE T == Orphans(p, ip)
  <2>1. /\ SameListing
        /\ task' = [t \in S!Call |->
              IF t \in T THEN [task[t] EXCEPT !.in_flight = FALSE] ELSE task[t]]
        /\ UNCHANGED <<queue, replies, made>>
    BY <1>2, <1>7 DEF ForgetActions
  <2>2. T \in SUBSET {t \in S!Current(Client \X {p}) :
                        task[t].in_flight /\ task[t].kind = "action"}
    BY DEF Orphans
  <2> HIDE DEF T
  <2>3. CASE T = {}
    <3>1. task' = task
      BY <2>1, <2>3 DEF TaskTable
    <3> QED
      BY <1>1, <2>1, <3>1, NothingServed DEF callVars
  <2>4. CASE T # {}
    <3>1. S!ContextLost(p)
      BY <1>1, <2>1, <2>2, <2>4
         DEF S!ContextLost, S!deviceVars, S!clientVars, SameListing
    <3> QED
      BY <1>3, <1>7, <3>1 DEF S!ServerNext
  <2> QED
    BY <2>3, <2>4
<1> QED
  BY <1>1, <1>5, <1>6, <1>7

LEMMA StepServes ==
    ASSUME IInv, TaskTable, [ServiceNext]_serviceVars
    PROVE  [S!ServerNext]_S!serverVars
<1>1. CASE Network
  BY <1>1, NetworkServes
<1>2. ASSUME NEW u \in UDN, NEW ip \in IP, Withdraw(u, ip)
      PROVE  [S!ServerNext]_S!serverVars
  BY <1>2, WithdrawServes
<1>3. CASE ClientStep
  <2>1. Announced \subseteq Path
    BY DEF Announced
  <2> QED
    BY <1>3, <2>1 DEF ClientStep, S!ServerNext
<1>4. ASSUME NEW s \in S!Session, Serve(s) PROVE S!ServerNext
  BY <1>4 DEF Serve, S!ServerNext
<1>5. ASSUME NEW t \in S!Call, Finish(t) PROVE S!ServerNext
  BY <1>5 DEF Finish, S!ServerNext
<1>6. CASE UNCHANGED serviceVars
  <2>1. SameListing /\ UNCHANGED callVars
    BY <1>6, Unlisted DEF serviceVars, vars
  <2> QED
    BY <2>1, NothingServed
<1> QED
  BY <1>1, <1>2, <1>3, <1>4, <1>5, <1>6 DEF ServiceNext

\* The calls keep their table of tasks, one entry for each call.
LEMMA TaskTableKept ==
    ASSUME TaskTable, [ServiceNext]_serviceVars
    PROVE  TaskTable'
<1>1. ASSUME NEW S1, S!RemoveQueues(S1) PROVE TaskTable'
  BY <1>1 DEF S!RemoveQueues, TaskTable
<1>2. ASSUME NEW t, NEW r, task' = [task EXCEPT ![t] = r] PROVE TaskTable'
  BY <1>2 DEF TaskTable
<1>3. ASSUME task' = task PROVE TaskTable'
  BY <1>3 DEF TaskTable
<1>4. CASE Network
  BY <1>3, <1>4 DEF Network, callVars
<1>5. ASSUME NEW u \in UDN, NEW ip \in IP, Withdraw(u, ip) PROVE TaskTable'
  BY <1>1, <1>3, <1>5 DEF Withdraw, ForgetActions, TaskTable
<1>6. CASE ClientStep
  <2>1. PICK c \in Client : \/ S!Release(c)
                            \/ S!ClientLost(c)
                            \/ \E p \in Announced : S!CallDevice(c, p) \/ S!CancelCall(c, p)
    BY <1>6 DEF ClientStep
  <2>2. CASE S!Release(c)
    BY <1>1, <2>2 DEF S!Release
  <2>3. CASE S!ClientLost(c)
    BY <1>1, <1>3, <2>3 DEF S!ClientLost, S!taskVars
  <2>4. ASSUME NEW p, S!CallDevice(c, p) PROVE TaskTable'
    BY <1>2, <1>3, <2>4 DEF S!CallDevice, S!AddTask, S!Refuse
  <2>5. ASSUME NEW p, S!CancelCall(c, p) PROVE TaskTable'
    BY <2>5 DEF S!CancelCall, S!CancelQueue, TaskTable
  <2> QED
    BY <2>1, <2>2, <2>3, <2>4, <2>5
<1>7. ASSUME NEW s \in S!Session, Serve(s) PROVE TaskTable'
  BY <1>2, <1>7 DEF Serve, S!Process, S!ProcessSync, S!ProcessAsync
<1>8. ASSUME NEW t \in S!Call, Finish(t) PROVE TaskTable'
  <2>1. CASE S!Answer(t)
    BY <2>1 DEF S!Answer, TaskTable
  <2>2. CASE S!Complete(t)
    BY <2>2 DEF S!Complete, TaskTable
  <2> QED
    BY <1>8, <2>1, <2>2 DEF Finish
<1>9. CASE UNCHANGED serviceVars
  BY <1>3, <1>9 DEF serviceVars, callVars
<1> QED
  BY <1>4, <1>5, <1>6, <1>7, <1>8, <1>9 DEF ServiceNext

\* The clients see a server as Server.tla describes it: prv_found_diagnostics_device
\* and prv_lost_diagnostics_device reach it once per path, the queues of a
\* device go in the callback that withdraws it, and actions vanish only with a
\* proxy of a device that stays.
THEOREM ServiceIsServer == ServiceSpec => ImplementsServer
<1>1. ServiceSpec => []IInv
  BY TablesAreUpnp, Invariance, PTL
<1>2. ServiceInit => TaskTable
  BY DEF ServiceInit, S!ServerInit, TaskTable
<1>3. ServiceSpec => []TaskTable
  BY <1>2, TaskTableKept, PTL DEF ServiceSpec
<1>4. ServiceInit => S!ServerInit
  BY DEF ServiceInit
<1>5. IInv /\ TaskTable /\ [ServiceNext]_serviceVars => [S!ServerNext]_S!serverVars
  BY StepServes
<1> QED
  BY <1>1, <1>3, <1>4, <1>5, PTL DEF ServiceSpec, ImplementsServer, S!ServerSpec

-----------------------------------------------------------------------------
\* The calls and the proxies their actions run on.

\* A task that waits in the queue of s, and one that the queue processes.
Waits(r, s) ==
    /\ r.session = s
    /\ r.connected = FALSE
    /\ r.in_flight = FALSE
    /\ r.completions = 0

Runs(r, s) ==
    /\ r.session = s
    /\ r.in_flight = TRUE => r.connected = TRUE /\ r.completions = 0
    /\ r.connected = TRUE /\ r.completions = 0 => r.cancellable = "new"

\* Until a completion is pending the device is listed, and while an action of
\* its own runs the device has the context ip whose proxy runs it.
Grounded(r, s, ip) ==
    /\ r.connected = TRUE /\ r.completions = 0 => s[2] \in ListedPaths
    /\ r.in_flight = TRUE /\ r.kind = "action" => ip \in Contexts(device[s[2]])

SessionOK(s) ==
    /\ IsInjective(queue[s].tasks)
    /\ \A t \in ToSet(queue[s].tasks) :
         /\ t <= made
         /\ t # queue[s].current
         /\ task[t] \in S!Tasks
         /\ Waits(task[t], s)
    /\ queue[s].current # None =>
         LET t == queue[s].current
         IN  /\ t <= made
             /\ task[t] \in S!Tasks
             /\ Runs(task[t], s)
             /\ Grounded(task[t], s, proxy[t])

CallTypes ==
    /\ queue \in [S!Session -> S!Queue]
    /\ task \in [S!Call -> S!Tasks \cup {None}]
    /\ made \in 0..MaxCalls

DInv ==
    /\ CallTypes
    /\ \A s \in S!Session : SessionOK(s)

\* What is known of the task that a queue processes, and of those that wait.
LEMMA SessionFacts ==
    ASSUME DInv, NEW s \in S!Session
    PROVE  /\ queue[s] \in S!Queue
           /\ queue[s].tasks \in Seq(S!Call)
           /\ ToSet(queue[s].tasks) \subseteq S!Call
           /\ queue[s].current \in S!Call \cup {None}
           /\ SessionOK(s)
<1>1. queue[s] \in S!Queue /\ SessionOK(s)
  BY DEF DInv, CallTypes
<1> QED
  BY <1>1, EmptyInjective DEF S!Queue

\* A call is in process, or waits, in its own queue and in no other.
LEMMA CallPlaces ==
    ASSUME DInv, NEW s \in S!Session, NEW K \in SUBSET S!Session
    PROVE  /\ \A t \in ToSet(queue[s].tasks) : /\ t \in S!Waiting(K) <=> s \in K
                                               /\ t \notin S!Current(K)
           /\ queue[s].current # None =>
                /\ queue[s].current \in S!Current(K) <=> s \in K
                /\ queue[s].current \notin S!Waiting(K)
<1>1. \A q \in S!Session : \A t \in ToSet(queue[q].tasks) :
         t # queue[q].current /\ task[t].session = q
  BY SessionFacts DEF SessionOK, Waits
<1>2. \A q \in S!Session : queue[q].current # None
         => task[queue[q].current].session = q
  BY SessionFacts DEF SessionOK, Runs
<1>3. \A t : t \in S!Current(K) <=> t # None /\ \E q \in K : t = queue[q].current
  BY DEF S!Current
<1>4. \A t : t \in S!Waiting(K) <=> \E q \in K : t \in ToSet(queue[q].tasks)
  BY DEF S!Waiting, S!ToSet, ToSet
<1> QED
  BY <1>1, <1>2, <1>3, <1>4

LEMMA CurrentOrWaiting ==
    ASSUME DInv, NEW K \in SUBSET S!Session, NEW G \in SUBSET S!Session
    PROVE  \A t \in S!Current(K) : t \notin S!Waiting(G)
<1>1. \A t \in S!Current(K) : \E s \in K : t = queue[s].current /\ t # None
  BY DEF S!Current
<1> QED
  BY <1>1, CallPlaces

\* A task that is as before, or no longer runs what it ran.
Milder(n, r) ==
    /\ n.session = r.session
    /\ n.kind = r.kind
    /\ n.connected = TRUE /\ n.completions = 0 =>
         r.connected = TRUE /\ r.completions = 0 /\ n.cancellable = r.cancellable
    /\ n.in_flight = TRUE =>
         r.in_flight = TRUE /\ n.connected = r.connected
                            /\ n.completions = r.completions

LEMMA CancelledTask ==
    ASSUME NEW r \in S!Tasks, NEW s, Runs(r, s)
    PROVE  /\ S!Cancel(r) \in S!Tasks
           /\ Milder(S!Cancel(r), r)
           /\ S!Cancel(r).in_flight = FALSE
           /\ ~(S!Cancel(r).connected = TRUE /\ S!Cancel(r).completions = 0)
<1> DEFINE n == S!Cancel(r)
           fires == r.cancellable = "new" /\ r.connected
<1>1. /\ r.completions \in Nat
      /\ r.cancellable \in {"null", "new", "cancelled"}
      /\ r.connected \in BOOLEAN /\ r.in_flight \in BOOLEAN
  BY DEF S!Tasks
<1>2. CASE fires
  <2>1. n = [r EXCEPT !.invocation = FALSE, !.cancellable = "cancelled",
                      !.in_flight = FALSE, !.completions = @ + 1]
    BY <1>2 DEF S!Cancel, S!Tasks
  <2>2. r.completions + 1 \in Nat /\ r.completions + 1 # 0
    BY <1>1
  <2> QED
    BY <2>1, <2>2 DEF S!Tasks, Milder
<1>3. CASE ~fires
  <2>1. r.in_flight = FALSE /\ ~(r.connected = TRUE /\ r.completions = 0)
    BY <1>1, <1>3 DEF Runs
  <2>2. \/ n = [r EXCEPT !.invocation = FALSE, !.cancellable = "cancelled"]
        \/ n = [r EXCEPT !.invocation = FALSE]
    BY <1>3, <2>1 DEF S!Cancel, S!Tasks
  <2>3. CASE n = [r EXCEPT !.invocation = FALSE, !.cancellable = "cancelled"]
    BY <2>1, <2>3 DEF S!Tasks, Milder
  <2>4. CASE n = [r EXCEPT !.invocation = FALSE]
    BY <2>1, <2>4 DEF S!Tasks, Milder
  <2> QED
    BY <2>2, <2>3, <2>4
<1> QED
  BY <1>2, <1>3

\* A callback leaves the queue of s as it is or empties it, and starts nothing.
Quiet(s) ==
    /\ queue'[s].current \in {queue[s].current, None}
    /\ queue'[s].tasks \in {queue[s].tasks, <<>>}
    /\ \A t \in ToSet(queue'[s].tasks) : task'[t] = task[t]
    /\ queue'[s].current # None =>
         LET t == queue[s].current
         IN  task'[t] \in S!Tasks /\ Milder(task'[t], task[t])

\* The device of s stays listed if it was, with all its contexts.
DeviceStays(s) ==
    s[2] \in ListedPaths =>
        /\ s[2] \in ListedPaths'
        /\ Contexts(device[s[2]]) \subseteq Contexts(device'[s[2]])

LEMMA QuietGrounded ==
    ASSUME DInv, NEW s \in S!Session, Quiet(s), made' \in Nat, made <= made',
           \A t \in S!Call : t = queue'[s].current
                              => Grounded(task[t], s, proxy[t])'
    PROVE  SessionOK(s)'
<1>1. SessionOK(s) /\ ToSet(queue[s].tasks) \subseteq S!Call
                   /\ queue[s].current \in S!Call \cup {None} /\ made \in Nat
  BY SessionFacts, ServiceAssumption DEF DInv, CallTypes
<1>2. \A t \in S!Call : t \in Nat
  BY ServiceAssumption DEF S!Call
<1>3. /\ ToSet(queue'[s].tasks) \subseteq ToSet(queue[s].tasks)
      /\ IsInjective(queue'[s].tasks)
  BY <1>1, EmptyInjective DEF Quiet, SessionOK
<1>4. ASSUME NEW t \in ToSet(queue'[s].tasks)
      PROVE  /\ t <= made'
             /\ t # queue'[s].current
             /\ task'[t] \in S!Tasks
             /\ Waits(task'[t], s)
  <2>1. /\ t \in ToSet(queue[s].tasks) /\ task'[t] = task[t]
        /\ t \in S!Call
    BY <1>1, <1>3 DEF Quiet
  <2>2. t # None
    BY <2>1, ServiceAssumption
  <2> QED
    BY <1>1, <1>2, <2>1, <2>2 DEF SessionOK, Quiet
<1>5. ASSUME queue'[s].current # None
      PROVE  (LET t == queue[s].current
              IN  /\ t <= made
                  /\ task[t] \in S!Tasks
                  /\ Runs(task[t], s)
                  /\ Grounded(task[t], s, proxy[t]))'
  <2> DEFINE t == queue[s].current
  <2>1. queue'[s].current = t /\ t \in S!Call
    BY <1>1, <1>5 DEF Quiet
  <2>2. t <= made' /\ task'[t] \in S!Tasks /\ Milder(task'[t], task[t])
    BY <1>1, <1>2, <1>5, <2>1 DEF Quiet, SessionOK
  <2>3. Runs(task[t], s)
    BY <1>1, <1>5, <2>1 DEF Quiet, SessionOK
  <2>4. Runs(task'[t], s)
    BY <2>2, <2>3 DEF Runs, Milder
  <2> QED
    BY <1>5, <2>1, <2>2, <2>4
<1> QED
  BY <1>3, <1>4, <1>5 DEF SessionOK

\* A session whose device stays keeps what is known of it.
LEMMA SessionQuiet ==
    ASSUME DInv, NEW s \in S!Session, Quiet(s), made' \in Nat, made <= made',
           DeviceStays(s),
           \A t \in S!Call : t = queue'[s].current => proxy'[t] = proxy[t]
    PROVE  SessionOK(s)'
<1>1. ASSUME NEW t \in S!Call, t = queue'[s].current
      PROVE  Grounded(task[t], s, proxy[t])'
  <2>1. t = queue[s].current /\ t # None
    BY <1>1, ServiceAssumption DEF Quiet
  <2>2. /\ Runs(task[t], s) /\ Grounded(task[t], s, proxy[t])
        /\ Milder(task'[t], task[t])
    BY <1>1, <2>1, SessionFacts DEF Quiet, SessionOK
  <2>3. proxy'[t] = proxy[t]
    BY <1>1
  <2> QED
    BY <2>2, <2>3 DEF Milder, Runs, Grounded, DeviceStays
<1> QED
  BY <1>1, QuietGrounded

\* RemoveQueues and CancelQueue cancel the task that a queue of K processes and
\* delete, in some queues of K, those that wait.
LEMMA DropQuiet ==
    ASSUME DInv, NEW K \in SUBSET S!Session, NEW G \in SUBSET K,
           queue' \in [S!Session -> S!Queue],
           \A s \in S!Session :
              /\ queue'[s].current = queue[s].current
              /\ queue'[s].tasks = IF s \in G THEN <<>> ELSE queue[s].tasks,
           task' = [t \in S!Call |->
              IF t \in S!Current(K) THEN S!Cancel(task[t])
              ELSE IF t \in S!Waiting(G) THEN None ELSE task[t]],
           UNCHANGED made
    PROVE  /\ CallTypes'
           /\ \A s \in S!Session : Quiet(s)
           /\ \A s \in K : queue[s].current # None =>
                task'[queue[s].current] = S!Cancel(task[queue[s].current])
<1>1. ASSUME NEW t \in S!Current(K)
      PROVE  /\ t \in S!Call
             /\ task'[t] = S!Cancel(task[t])
             /\ task'[t] \in S!Tasks
             /\ Milder(task'[t], task[t])
  <2>1. PICK s \in K : t = queue[s].current /\ t # None
    BY DEF S!Current
  <2>2. t \in S!Call /\ task[t] \in S!Tasks /\ Runs(task[t], s)
    BY <2>1, SessionFacts DEF SessionOK
  <2>3. task'[t] = S!Cancel(task[t])
    BY <2>2
  <2> QED
    BY <2>2, <2>3, CancelledTask
<1>2. ASSUME NEW t \in S!Call, t \notin S!Current(K)
      PROVE  task'[t] = IF t \in S!Waiting(G) THEN None ELSE task[t]
  BY <1>2
<1>3. CallTypes'
  <2>1. \A t \in S!Call : task'[t] \in S!Tasks \cup {None}
    BY <1>1, <1>2 DEF DInv, CallTypes
  <2>2. task' = [t \in S!Call |-> task'[t]]
    OBVIOUS
  <2> QED
    BY <2>1, <2>2 DEF DInv, CallTypes
<1>4. ASSUME NEW s \in S!Session PROVE Quiet(s)
  <2>1. ASSUME NEW t \in ToSet(queue'[s].tasks) PROVE task'[t] = task[t]
    <3>1. s \notin G /\ t \in ToSet(queue[s].tasks) /\ t \in S!Call
      BY <2>1, EmptyInjective, SessionFacts
    <3>2. t \notin S!Current(K) /\ t \notin S!Waiting(G)
      BY <3>1, CallPlaces
    <3> QED
      BY <1>2, <3>1, <3>2
  <2>2. ASSUME queue[s].current # None
        PROVE  LET t == queue[s].current
               IN  task'[t] \in S!Tasks /\ Milder(task'[t], task[t])
    <3> DEFINE t == queue[s].current
    <3>1. t \in S!Call /\ t \notin S!Waiting(G) /\ task[t] \in S!Tasks
      BY <2>2, CallPlaces, SessionFacts DEF SessionOK
    <3>2. CASE t \in S!Current(K)
      BY <1>1, <3>2
    <3>3. CASE t \notin S!Current(K)
      <4>1. task'[t] = task[t]
        BY <1>2, <3>1, <3>3
      <4> QED
        BY <3>1, <4>1 DEF Milder
    <3> QED
      BY <3>2, <3>3
  <2> QED
    BY <2>1, <2>2 DEF Quiet
<1>5. ASSUME NEW s \in K, queue[s].current # None
      PROVE  task'[queue[s].current] = S!Cancel(task[queue[s].current])
  BY <1>1, <1>5, CallPlaces
<1> QED
  BY <1>3, <1>4, <1>5

LEMMA RemoveQueuesQuiet ==
    ASSUME DInv, NEW K \in SUBSET S!Session, S!RemoveQueues(K)
    PROVE  /\ CallTypes' /\ UNCHANGED made
           /\ \A s \in S!Session : Quiet(s)
           /\ \A s \in K : queue[s].current # None =>
                task'[queue[s].current] = S!Cancel(task[queue[s].current])
<1> DEFINE busy == {s \in K : queue[s].current # None}
<1>1. PICK kept \in {{}, busy} :
         /\ task' = [t \in S!Call |->
               CASE t \in S!Current(busy) -> S!Cancel(task[t])
                 [] t \in S!Waiting(K \ kept) -> None
                 [] OTHER -> task[t]]
         /\ queue' = [s \in S!Session |-> IF s \notin K THEN queue[s] ELSE
                [tasks |-> IF s \in kept THEN queue[s].tasks ELSE <<>>,
                 current |-> queue[s].current,
                 defer_remove |-> s \in busy]]
         /\ UNCHANGED made
  BY DEF S!RemoveQueues
<1> DEFINE G == K \ kept
<1>2. S!Current(busy) = S!Current(K)
  BY DEF S!Current
<1>3. ASSUME NEW s \in S!Session
      PROVE  /\ queue'[s] \in S!Queue
             /\ queue'[s].current = queue[s].current
             /\ queue'[s].tasks = IF s \in G THEN <<>> ELSE queue[s].tasks
  <2>1. CASE s \notin K
    BY <1>1, <2>1, SessionFacts
  <2>2. CASE s \in K
    <3> DEFINE w == IF s \in kept THEN queue[s].tasks ELSE <<>>
    <3>1. queue'[s] = [tasks |-> w, current |-> queue[s].current,
                       defer_remove |-> s \in busy]
      BY <1>1, <2>2
    <3>2. w \in Seq(S!Call) /\ queue[s].current \in S!Call \cup {None}
      BY SessionFacts, EmptyInjective
    <3>3. w = IF s \in G THEN <<>> ELSE queue[s].tasks
      BY <2>2
    <3> HIDE DEF w, busy, G
    <3>4. PICK b \in BOOLEAN : queue'[s] = [tasks |-> w, current |-> queue[s].current,
                                           defer_remove |-> b]
      <4>1. CASE s \in busy
        <5>1. (s \in busy) = TRUE
          BY <4>1
        <5> QED
          BY <3>1, <5>1, Zenon
      <4>2. CASE s \notin busy
        <5>1. (s \in busy) = FALSE
          BY <4>2
        <5> QED
          BY <3>1, <5>1, Zenon
      <4> QED
        BY <4>1, <4>2
    <3> QED
      BY <3>2, <3>3, <3>4 DEF S!Queue
  <2> QED
    BY <2>1, <2>2
<1>4. queue' \in [S!Session -> S!Queue]
  BY <1>1, <1>3
<1>5. G \in SUBSET K /\ UNCHANGED made
  BY <1>1
<1>6. task' = [t \in S!Call |->
         IF t \in S!Current(K) THEN S!Cancel(task[t])
         ELSE IF t \in S!Waiting(G) THEN None ELSE task[t]]
  <2>1. \A t \in S!Current(K) : t \notin S!Waiting(G)
    BY <1>5, CurrentOrWaiting
  <2>2. ASSUME NEW t \in S!Call
        PROVE  task'[t] = IF t \in S!Current(K) THEN S!Cancel(task[t])
                          ELSE IF t \in S!Waiting(G) THEN None ELSE task[t]
    BY <1>1, <1>2, <2>1
  <2> QED
    BY <1>1, <2>2
<1> HIDE DEF G
<1> QED
  BY <1>3, <1>4, <1>5, <1>6, DropQuiet

LEMMA CancelQueueQuiet ==
    ASSUME DInv, NEW s \in S!Session, S!CancelQueue(s)
    PROVE  CallTypes' /\ UNCHANGED made /\ \A q \in S!Session : Quiet(q)
<1> DEFINE K == {s}
<1>1. ASSUME NEW q \in S!Session
      PROVE  /\ queue'[q] \in S!Queue
             /\ queue'[q].current = queue[q].current
             /\ queue'[q].tasks = IF q \in K THEN <<>> ELSE queue[q].tasks
  <2>1. queue[q] \in S!Queue /\ <<>> \in Seq(S!Call)
    BY SessionFacts, EmptyInjective
  <2>2. queue'[q] = IF q = s THEN [queue[q] EXCEPT !.tasks = <<>>] ELSE queue[q]
    BY DEF S!CancelQueue, DInv, CallTypes
  <2> QED
    BY <2>1, <2>2 DEF S!Queue
<1>2. queue' \in [S!Session -> S!Queue]
  BY <1>1 DEF S!CancelQueue, DInv, CallTypes
<1>3. K \in SUBSET S!Session /\ K \in SUBSET K /\ UNCHANGED made
  BY DEF S!CancelQueue
<1>4. task' = [t \in S!Call |->
         IF t \in S!Current(K) THEN S!Cancel(task[t])
         ELSE IF t \in S!Waiting(K) THEN None ELSE task[t]]
  <2>1. \A t \in S!Current(K) : t \notin S!Waiting(K)
    BY <1>3, CurrentOrWaiting
  <2> QED
    BY <2>1 DEF S!CancelQueue
<1> HIDE DEF K
<1> QED
  BY <1>1, <1>2, <1>3, <1>4, DropQuiet

-----------------------------------------------------------------------------
\* The steps of the calls.

SameDevices == UNCHANGED <<device, device_udn_map>>

LEMMA DevicesStay ==
    ASSUME SameDevices
    PROVE  \A s : DeviceStays(s)
  BY DEF SameDevices, DeviceStays, ListedPaths

\* A step that leaves every queue quiet.
LEMMA AllQuiet ==
    ASSUME DInv, CallTypes', made <= made', SameDevices, UNCHANGED proxy,
           \A s \in S!Session : Quiet(s)
    PROVE  DInv'
<1>1. made' \in Nat
  BY ServiceAssumption DEF CallTypes
<1> QED
  BY <1>1, DevicesStay, SessionQuiet DEF DInv

LEMMA RemoveQueuesOK ==
    ASSUME DInv, NEW K \in SUBSET S!Session, S!RemoveQueues(K), SameDevices,
           UNCHANGED proxy
    PROVE  DInv'
<1>1. made <= made'
  BY RemoveQueuesQuiet, ServiceAssumption DEF DInv, CallTypes
<1> QED
  BY <1>1, RemoveQueuesQuiet, AllQuiet

LEMMA CancelQueueOK ==
    ASSUME DInv, NEW s \in S!Session, S!CancelQueue(s), SameDevices,
           UNCHANGED proxy
    PROVE  DInv'
<1>1. made <= made'
  BY CancelQueueQuiet, ServiceAssumption DEF DInv, CallTypes
<1> QED
  BY <1>1, CancelQueueQuiet, AllQuiet

\* Nothing of any call changes but how far one task has come.
LEMMA TaskStepQuiet ==
    ASSUME DInv, UNCHANGED <<queue, made>>, NEW T \in SUBSET S!Call,
           \A t \in T : \A s \in S!Session : t \notin ToSet(queue[s].tasks),
           \A t \in T : task'[t] \in S!Tasks /\ Milder(task'[t], task[t]),
           \A t \in S!Call \ T : task'[t] = task[t],
           task' = [t \in S!Call |-> task'[t]]
    PROVE  CallTypes' /\ \A s \in S!Session : Quiet(s)
<1>1. \A t \in S!Call : task'[t] \in S!Tasks \cup {None}
  BY DEF DInv, CallTypes
<1>2. CallTypes'
  BY <1>1 DEF DInv, CallTypes
<1>3. ASSUME NEW s \in S!Session PROVE Quiet(s)
  <2>1. \A t \in ToSet(queue[s].tasks) : t \in S!Call \ T
    BY SessionFacts
  <2>2. ASSUME queue[s].current # None
        PROVE  LET t == queue[s].current
               IN  task'[t] \in S!Tasks /\ Milder(task'[t], task[t])
    <3> DEFINE t == queue[s].current
    <3>1. t \in S!Call /\ task[t] \in S!Tasks /\ Milder(task[t], task[t])
      BY <2>2, SessionFacts DEF SessionOK, Milder
    <3> QED
      BY <3>1
  <2> QED
    BY <2>1, <2>2 DEF Quiet
<1> QED
  BY <1>2, <1>3

LEMMA AnswerOK ==
    ASSUME DInv, NEW t \in S!Call, S!Answer(t), SameDevices, UNCHANGED proxy
    PROVE  DInv'
<1> DEFINE n == [task[t] EXCEPT !.in_flight = FALSE, !.connected = FALSE,
                                !.completions = @ + 1]
<1>1. /\ task[t] \in S!Tasks /\ task[t].in_flight
      /\ task' = [task EXCEPT ![t] = n]
      /\ UNCHANGED <<queue, made>>
  BY DEF S!Answer, DInv, CallTypes
<1>2. n \in S!Tasks /\ Milder(n, task[t])
  <2>1. task[t].completions + 1 \in Nat
    BY <1>1 DEF S!Tasks
  <2>2. n \in S!Tasks
    BY <1>1, <2>1 DEF S!Tasks
  <2>3. /\ n.session = task[t].session /\ n.kind = task[t].kind
        /\ n.connected = FALSE /\ n.in_flight = FALSE
    BY <1>1 DEF S!Tasks
  <2> QED
    BY <2>2, <2>3 DEF Milder
<1> HIDE DEF n
<1>3. \A s \in S!Session : t \notin ToSet(queue[s].tasks)
  BY <1>1, SessionFacts DEF SessionOK, Waits
<1>4. /\ task'[t] = n
      /\ \A u \in S!Call \ {t} : task'[u] = task[u]
      /\ task' = [u \in S!Call |-> task'[u]]
  BY <1>1 DEF DInv, CallTypes
<1> DEFINE T == {t}
<1>5. /\ T \in SUBSET S!Call
      /\ \A u \in T : u = t
      /\ \A u \in S!Call \ T : task'[u] = task[u]
  BY <1>4
<1> HIDE DEF T
<1>6. CallTypes' /\ \A s \in S!Session : Quiet(s)
  <2>1. /\ \A u \in T : \A s \in S!Session : u \notin ToSet(queue[s].tasks)
        /\ \A u \in T : task'[u] \in S!Tasks /\ Milder(task'[u], task[u])
    BY <1>2, <1>3, <1>4, <1>5
  <2>2. task' = [u \in S!Call |-> task'[u]]
    BY <1>4
  <2> QED
    BY <1>1, <1>5, <2>1, <2>2, TaskStepQuiet
<1>7. made <= made'
  BY <1>1, ServiceAssumption DEF DInv, CallTypes
<1> QED
  BY <1>6, <1>7, AllQuiet

LEMMA CompleteOK ==
    ASSUME DInv, NEW t \in S!Call, S!Complete(t), SameDevices, UNCHANGED proxy
    PROVE  DInv'
<1> DEFINE s == task[t].session
           gone == IF queue[s].defer_remove THEN S!Waiting({s}) ELSE {}
<1>1. /\ task[t] \in S!Tasks /\ task[t].completions > 0
      /\ task' = [u \in S!Call |-> IF u \in {t} \cup gone THEN None ELSE task[u]]
      /\ queue' = [queue EXCEPT ![s] = IF queue[s].defer_remove THEN S!NoQueue
                                       ELSE [queue[s] EXCEPT !.current = None]]
      /\ UNCHANGED made
  BY DEF S!Complete, S!Ended, DInv, CallTypes
<1>2. s \in S!Session /\ task[t].completions # 0
  BY <1>1 DEF S!Tasks
<1>3. /\ S!NoQueue \in S!Queue /\ S!NoQueue.current = None
      /\ S!NoQueue.tasks = <<>>
  BY EmptyInjective DEF S!NoQueue, S!Queue
<1>4. /\ queue'[s] \in S!Queue /\ queue'[s].current = None
      /\ queue'[s].tasks = IF queue[s].defer_remove THEN <<>> ELSE queue[s].tasks
      /\ \A q \in S!Session \ {s} : queue'[q] = queue[q]
  BY <1>1, <1>2, <1>3, SessionFacts DEF DInv, CallTypes, S!Queue
<1>5. CallTypes'
  <2>1. queue' \in [S!Session -> S!Queue]
    BY <1>1, <1>4, SessionFacts DEF DInv, CallTypes
  <2>2. task' \in [S!Call -> S!Tasks \cup {None}]
    BY <1>1 DEF DInv, CallTypes
  <2> QED
    BY <1>1, <2>1, <2>2 DEF DInv, CallTypes
<1>6. \A q \in S!Session : t \notin ToSet(queue[q].tasks)
  BY <1>2, SessionFacts DEF SessionOK, Waits
<1> DEFINE K == {s}
<1>7. K \in SUBSET S!Session /\ \A q : q \in K <=> q = s
  BY <1>2
<1>8. gone \subseteq S!Waiting(K)
  OBVIOUS
<1>9. ~queue[s].defer_remove => gone = {}
  OBVIOUS
<1> HIDE DEF K, gone
<1>10. ASSUME NEW q \in S!Session PROVE Quiet(q)
  <2>1. CASE q = s
    <3>1. ASSUME NEW u \in ToSet(queue'[q].tasks) PROVE task'[u] = task[u]
      <4>1. ~queue[s].defer_remove /\ u \in ToSet(queue[q].tasks) /\ u \in S!Call
        BY <1>4, <2>1, <3>1, EmptyInjective, SessionFacts
      <4>2. u # t /\ u \notin gone
        BY <1>6, <1>9, <4>1
      <4> QED
        BY <1>1, <4>1, <4>2
    <3> QED
      BY <1>4, <2>1, <3>1 DEF Quiet
  <2>2. CASE q # s
    <3>1. ASSUME NEW u \in ToSet(queue[q].tasks) PROVE task'[u] = task[u]
      <4>1. u \in S!Call /\ u # t /\ u \notin gone
        BY <1>6, <1>7, <1>8, <2>2, CallPlaces, SessionFacts
      <4> QED
        BY <1>1, <4>1
    <3>2. ASSUME queue[q].current # None
          PROVE  LET u == queue[q].current
                 IN  task'[u] \in S!Tasks /\ Milder(task'[u], task[u])
      <4> DEFINE u == queue[q].current
      <4>1. u \in S!Call /\ task[u] \in S!Tasks /\ task[u].session = q
        BY <3>2, SessionFacts DEF SessionOK, Runs
      <4>2. u # t /\ u \notin gone
        BY <1>7, <1>8, <2>2, <3>2, <4>1, CallPlaces
      <4>3. task'[u] = task[u]
        BY <1>1, <4>1, <4>2
      <4> QED
        BY <4>1, <4>3 DEF Milder
    <3> QED
      BY <1>4, <2>2, <3>1, <3>2 DEF Quiet
  <2> QED
    BY <2>1, <2>2
<1>11. made <= made'
  BY <1>1, ServiceAssumption DEF DInv, CallTypes
<1> QED
  BY <1>5, <1>10, <1>11, AllQuiet

\* A call on a device that is listed, or not.
LEMMA AddTaskOK ==
    ASSUME DInv, NEW c \in Client, NEW sink \in S!Sink,
           NEW kind \in S!Kinds(sink), S!AddTask(c, sink, kind), SameDevices,
           UNCHANGED proxy
    PROVE  DInv'
<1> DEFINE s == <<c, sink>>
           t == made + 1
           n == S!NewTask(s, kind)
<1>1. /\ s \in S!Session /\ kind \in S!Kind
      /\ t \in S!Call /\ made \in Nat /\ made' = t /\ t \in 0..MaxCalls
      /\ task' = [task EXCEPT ![t] = n]
      /\ queue' = [queue EXCEPT ![s].tasks = Append(queue[s].tasks, t)]
  BY ServiceAssumption
     DEF S!AddTask, S!Session, S!Kind, S!Call, DInv, CallTypes
<1>2. n \in S!Tasks /\ Waits(n, s)
  <2> HIDE DEF s
  <2> QED
    BY <1>1 DEF S!NewTask, S!Tasks, Waits
<1> HIDE DEF n, s
<1>3. /\ task'[t] = n
      /\ \A u \in S!Call \ {t} : task'[u] = task[u]
      /\ task' \in [S!Call -> S!Tasks \cup {None}]
  BY <1>1, <1>2 DEF DInv, CallTypes
<1>4. ASSUME NEW q \in S!Session
      PROVE  /\ \A u \in ToSet(queue[q].tasks) : u \in S!Call /\ u <= made /\ u # t
             /\ queue[q].current # None =>
                  /\ queue[q].current \in S!Call
                  /\ queue[q].current <= made /\ queue[q].current # t
  BY <1>1, SessionFacts, ServiceAssumption DEF SessionOK, S!Call
<1>5. /\ queue[s].tasks \in Seq(S!Call) /\ t \notin ToSet(queue[s].tasks)
      /\ IsInjective(queue[s].tasks) /\ queue[s] \in S!Queue
  BY <1>1, <1>4, SessionFacts DEF SessionOK
<1> DEFINE tasks == Append(queue[s].tasks, t)
<1>6. /\ tasks \in Seq(S!Call) /\ IsInjective(tasks)
      /\ ToSet(tasks) = ToSet(queue[s].tasks) \cup {t}
  BY <1>1, <1>5, AppendInjectiveSet
<1>7. queue' = [queue EXCEPT ![s].tasks = tasks]
  BY <1>1
<1> HIDE DEF tasks, t
<1>8. /\ queue'[s] \in S!Queue /\ queue'[s].tasks = tasks
      /\ queue'[s].current = queue[s].current
      /\ \A q \in S!Session \ {s} : queue'[q] = queue[q]
  BY <1>1, <1>5, <1>6, <1>7 DEF DInv, CallTypes, S!Queue
<1>9. CallTypes'
  <2>1. queue' \in [S!Session -> S!Queue]
    BY <1>7, <1>8, SessionFacts DEF DInv, CallTypes
  <2> QED
    BY <1>1, <1>3, <2>1 DEF CallTypes
<1>10. made <= made' /\ made' \in Nat
  BY <1>1 DEF t
<1>11. ASSUME NEW q \in S!Session, q # s PROVE SessionOK(q)'
  <2>1. queue'[q] = queue[q]
    BY <1>8, <1>11
  <2>2. ASSUME queue[q].current # None
        PROVE  LET u == queue[q].current
               IN  task'[u] \in S!Tasks /\ Milder(task'[u], task[u])
    <3> DEFINE u == queue[q].current
    <3>1. u \in S!Call /\ task[u] \in S!Tasks /\ task'[u] = task[u]
      BY <1>3, <1>4, <2>2, SessionFacts DEF SessionOK
    <3> QED
      BY <3>1 DEF Milder
  <2>3. Quiet(q)
    BY <1>3, <1>4, <2>1, <2>2 DEF Quiet
  <2> QED
    BY <1>10, <2>3, DevicesStay, SessionQuiet
<1>12. SessionOK(s)'
  <2>1. SessionOK(s)
    BY <1>1, SessionFacts
  <2>2. ASSUME NEW u \in ToSet(tasks)
        PROVE  /\ u <= made' /\ u # queue'[s].current
               /\ task'[u] \in S!Tasks /\ Waits(task'[u], s)
    <3>1. CASE u = t
      BY <1>1, <1>2, <1>3, <1>4, <1>8, <3>1, ServiceAssumption DEF S!Call
    <3>2. CASE u # t
      <4>1. /\ u \in ToSet(queue[s].tasks) /\ u \in S!Call /\ u \in Nat
            /\ u <= made /\ task'[u] = task[u]
        BY <1>1, <1>3, <1>4, <1>6, <2>2, <3>2, ServiceAssumption DEF S!Call
      <4> QED
        BY <1>1, <1>8, <1>10, <2>1, <4>1 DEF SessionOK
    <3> QED
      BY <3>1, <3>2
  <2>3. ASSUME NEW u \in S!Call, u = queue[s].current, u # None
        PROVE  /\ u <= made' /\ task'[u] \in S!Tasks
               /\ Runs(task'[u], s) /\ Grounded(task[u], s, proxy[u])'
    <3>1. u \in Nat /\ u <= made /\ task'[u] = task[u]
      BY <1>1, <1>3, <1>4, <2>3, ServiceAssumption DEF S!Call
    <3>2. /\ task[u] \in S!Tasks /\ Runs(task[u], s)
          /\ Grounded(task[u], s, proxy[u])
      BY <2>1, <2>3 DEF SessionOK
    <3>3. Grounded(task[u], s, proxy[u])'
      BY <3>1, <3>2 DEF Grounded, SameDevices, ListedPaths
    <3> QED
      BY <1>1, <1>10, <3>1, <3>2, <3>3
  <2>4. queue[s].current \in S!Call \cup {None}
    BY <1>1, SessionFacts
  <2> QED
    BY <1>6, <1>8, <2>2, <2>3, <2>4 DEF SessionOK
<1> QED
  BY <1>9, <1>11, <1>12 DEF DInv

LEMMA RefuseOK ==
    ASSUME DInv, NEW c, S!Refuse(c), SameDevices, UNCHANGED proxy
    PROVE  DInv'
<1>1. /\ UNCHANGED <<queue, task>> /\ made' = made + 1 /\ made < MaxCalls
      /\ made \in Nat
  BY ServiceAssumption DEF S!Refuse, DInv, CallTypes
<1>2. CallTypes' /\ made <= made'
  BY <1>1, ServiceAssumption DEF DInv, CallTypes
<1>3. ASSUME NEW s \in S!Session PROVE Quiet(s)
  <2>1. SessionOK(s)
    BY SessionFacts
  <2> QED
    BY <1>1, <2>1 DEF Quiet, SessionOK, Milder
<1> QED
  BY <1>2, <1>3, AllQuiet

\* An idle callback of the task processor: an action runs on the proxy of a
\* context that its device has (dld_device_get_context).
LEMMA StartedGrounded ==
    ASSUME IInv, NEW s \in S!Session, NEW r \in S!Tasks, Waits(r, s),
           NEW n \in S!Started(r)
    PROVE  /\ n \in S!Tasks
           /\ Runs(n, s)
           /\ n.kind = r.kind
           /\ n.connected = TRUE /\ n.completions = 0 => s[2] \in ListedPaths
           /\ n.in_flight = TRUE =>
                GetContext(device[s[2]]) \in Contexts(device[s[2]])
<1>1. /\ S!Idle(r) \in S!Tasks /\ Runs(S!Idle(r), s)
      /\ S!Idle(r).kind = r.kind
      /\ S!Idle(r).completions = 1 /\ S!Idle(r).in_flight = FALSE
  BY DEF S!Idle, S!Tasks, Waits, Runs
<1>2. /\ S!Begin(r) \in S!Tasks /\ Runs(S!Begin(r), s)
      /\ S!Begin(r).kind = r.kind
  BY DEF S!Begin, S!Tasks, Waits, Runs
<1>3. \/ n = S!Idle(r)
      \/ n = S!Begin(r) /\ s[2] \in ListedPaths
  <2>1. r.session = s
    BY DEF Waits
  <2>2. CASE r.kind = "local" \/ s[2] \notin ListedPaths
    BY <2>1, <2>2 DEF S!Started
  <2>3. CASE ~(r.kind = "local" \/ s[2] \notin ListedPaths)
    <3>1. S!Started(r) \in {{S!Begin(r)}, {S!Idle(r)}, {S!Idle(r), S!Begin(r)}}
      BY <2>1, <2>3 DEF S!Started, S!IconStarted
    <3> QED
      BY <2>3, <3>1
  <2> QED
    BY <2>2, <2>3
<1>4. s[2] \in ListedPaths => GetContext(device[s[2]]) \in Contexts(device[s[2]])
  BY ListedDevice, GetContextIsContext DEF DeviceOK
<1> QED
  BY <1>1, <1>2, <1>3, <1>4

LEMMA ServeOK ==
    ASSUME IInv, DInv, NEW s \in S!Session, Serve(s)
    PROVE  DInv'
<1>1a. PICK t : t = Head(queue[s].tasks)
  OBVIOUS
<1>1b. PICK n : n = task'[t]
  OBVIOUS
<1>1. /\ queue[s].current = None /\ queue[s].tasks # <<>>
      /\ S!ProcessSync(s, t) \/ S!ProcessAsync(s, t)
      /\ proxy' = [u \in S!Call |->
            IF /\ task[u] # None /\ task[u].kind = "action"
               /\ task'[u] # None /\ task'[u].in_flight /\ ~task[u].in_flight
            THEN GetContext(device[s[2]]) ELSE proxy[u]]
      /\ SameDevices
  BY <1>1a DEF Serve, S!Process, SameDevices, vars
<1>2. /\ SessionOK(s) /\ queue[s] \in S!Queue /\ queue[s].tasks \in Seq(S!Call)
      /\ IsInjective(queue[s].tasks)
      /\ \A q \in S!Session : q # s => t \notin ToSet(queue[q].tasks)
                                       /\ t # queue[q].current
  <2>1. SessionOK(s) /\ queue[s] \in S!Queue /\ queue[s].tasks \in Seq(S!Call)
    BY SessionFacts
  <2>2. t \in ToSet(queue[s].tasks) /\ t \in S!Call
    BY <1>1, <1>1a, <2>1, TailInjective DEF SessionOK
  <2>3. task[t].session = s /\ t # None
    BY <2>1, <2>2, ServiceAssumption DEF SessionOK, Waits
  <2>4. \A q \in S!Session :
           /\ \A u \in ToSet(queue[q].tasks) : task[u].session = q
           /\ queue[q].current # None => task[queue[q].current].session = q
    BY SessionFacts DEF SessionOK, Waits, Runs
  <2> QED
    BY <2>1, <2>3, <2>4 DEF SessionOK
<1> DEFINE rest == Tail(queue[s].tasks)
<1>3. /\ t \in S!Call /\ t \in ToSet(queue[s].tasks)
      /\ rest \in Seq(S!Call) /\ IsInjective(rest)
      /\ ToSet(rest) = ToSet(queue[s].tasks) \ {t}
  BY <1>1, <1>2, <1>1a, TailInjective
<1>4. /\ task[t] \in S!Tasks /\ Waits(task[t], s) /\ t <= made /\ t # None
  BY <1>2, <1>3, ServiceAssumption DEF SessionOK
<1> HIDE DEF rest
<1>5. /\ n \in S!Tasks \cup {None}
      /\ task' = [task EXCEPT ![t] = n]
      /\ queue'[s].tasks = rest /\ queue'[s] \in S!Queue
      /\ \A q \in S!Session \ {s} : queue'[q] = queue[q]
      /\ queue' \in [S!Session -> S!Queue]
      /\ UNCHANGED made
      /\ \/ queue'[s].current = None
         \/ /\ queue'[s].current = t /\ n \in S!Tasks /\ Runs(n, s)
            /\ n.kind = task[t].kind
            /\ n.connected = TRUE /\ n.completions = 0 => s[2] \in ListedPaths
            /\ n.in_flight = TRUE =>
                 GetContext(device[s[2]]) \in Contexts(device[s[2]])
  <2>1. CASE S!ProcessSync(s, t)
    <3>1. /\ task' = [task EXCEPT ![t] = None]
          /\ queue' = [queue EXCEPT ![s].tasks = rest] /\ UNCHANGED made
      BY <2>1 DEF S!ProcessSync, rest
    <3>2. n = None /\ queue'[s] = [queue[s] EXCEPT !.tasks = rest]
      BY <1>3, <1>1b, <3>1 DEF DInv, CallTypes
    <3> QED
      BY <1>1, <1>2, <1>3, <3>1, <3>2 DEF DInv, CallTypes, S!Queue
  <2>2. CASE S!ProcessAsync(s, t)
    <3>1. PICK r \in S!Started(task[t]) : task' = [task EXCEPT ![t] = r]
      BY <2>2 DEF S!ProcessAsync
    <3>2. n = r
      BY <1>3, <1>1b, <3>1 DEF DInv, CallTypes
    <3>3. /\ queue' = [queue EXCEPT ![s].tasks = rest, ![s].current = t]
          /\ UNCHANGED made
      BY <2>2 DEF S!ProcessAsync, rest
    <3>4. queue'[s] = [queue[s] EXCEPT !.tasks = rest, !.current = t]
      BY <3>3 DEF DInv, CallTypes
    <3>5. /\ queue'[s].tasks = rest /\ queue'[s].current = t
          /\ queue'[s] \in S!Queue
      BY <1>2, <1>3, <3>4 DEF S!Queue
    <3>6. /\ \A q \in S!Session \ {s} : queue'[q] = queue[q]
          /\ queue' \in [S!Session -> S!Queue]
      BY <3>3, <3>5 DEF DInv, CallTypes
    <3>7. /\ r \in S!Tasks /\ Runs(r, s) /\ r.kind = task[t].kind
          /\ r.connected = TRUE /\ r.completions = 0 => s[2] \in ListedPaths
          /\ r.in_flight = TRUE =>
               GetContext(device[s[2]]) \in Contexts(device[s[2]])
      BY <1>4, StartedGrounded
    <3> QED
      BY <3>1, <3>2, <3>3, <3>5, <3>6, <3>7
  <2> QED
    BY <1>1, <2>1, <2>2
<1>6. \A u \in S!Call \ {t} : task'[u] = task[u]
  BY <1>5 DEF DInv, CallTypes
<1>7. CallTypes'
  BY <1>5, <1>3 DEF DInv, CallTypes
<1>8. made' \in Nat /\ made <= made'
  BY <1>5, ServiceAssumption DEF DInv, CallTypes
<1>9. ASSUME NEW q \in S!Session, q # s PROVE SessionOK(q)'
  <2>1. /\ queue'[q] = queue[q] /\ SessionOK(q)
        /\ ToSet(queue[q].tasks) \subseteq S!Call
        /\ queue[q].current \in S!Call \cup {None}
    BY <1>5, <1>9, SessionFacts
  <2>2. ASSUME NEW u \in S!Call, u = queue[q].current
        PROVE  task'[u] = task[u] /\ proxy'[u] = proxy[u]
    <3>1. task'[u] = task[u]
      BY <1>2, <1>6, <1>9, <2>2
    <3> QED
      BY <1>1, <3>1
  <2>3. \A u \in ToSet(queue[q].tasks) : task'[u] = task[u]
    BY <1>2, <1>6, <1>9, <2>1
  <2>4. Quiet(q)
    BY <2>1, <2>2, <2>3 DEF Quiet, SessionOK, Milder
  <2> QED
    BY <1>1, <1>8, <2>1, <2>2, <2>4, DevicesStay, SessionQuiet
<1>10. SessionOK(s)'
  <2>1. ASSUME NEW u \in ToSet(rest)
        PROVE  /\ u <= made' /\ u # queue'[s].current
               /\ task'[u] \in S!Tasks /\ Waits(task'[u], s)
    <3>1. /\ u \in ToSet(queue[s].tasks) /\ u # t /\ u \in S!Call /\ u # None
          /\ task'[u] = task[u]
      BY <1>3, <1>6, SessionFacts, ServiceAssumption
    <3> QED
      BY <1>2, <1>5, <3>1 DEF SessionOK
  <2>2. ASSUME queue'[s].current = t
        PROVE  Grounded(task[t], s, proxy[t])'
    <3>1. /\ n.kind = task[t].kind
          /\ n.connected = TRUE /\ n.completions = 0 => s[2] \in ListedPaths
          /\ n.in_flight = TRUE =>
               GetContext(device[s[2]]) \in Contexts(device[s[2]])
          /\ n # None
      BY <1>4, <1>5, <2>2, ServiceAssumption
    <3>2. task[t].in_flight = FALSE /\ task[t] # None
      BY <1>4, ServiceAssumption DEF Waits
    <3>3. n.in_flight = TRUE /\ n.kind = "action"
             => proxy'[t] = GetContext(device[s[2]])
      BY <1>1, <1>3, <1>1b, <3>1, <3>2
    <3>4. n.in_flight = TRUE => n.connected = TRUE /\ n.completions = 0
      BY <1>4, <1>5, <2>2 DEF Runs
    <3>5. /\ s[2] \in ListedPaths => s[2] \in ListedPaths'
          /\ Contexts(device[s[2]]) = Contexts(device'[s[2]])
      BY <1>1 DEF SameDevices, ListedPaths
    <3> QED
      BY <1>3, <1>1b, <3>1, <3>3, <3>4, <3>5 DEF Grounded
  <2>3. ASSUME queue'[s].current # None
        PROVE  /\ queue'[s].current = t /\ t <= made'
               /\ task'[t] \in S!Tasks /\ Runs(task'[t], s)
    BY <1>4, <1>5, <1>1b, <2>3
  <2> QED
    BY <1>3, <1>5, <2>1, <2>2, <2>3 DEF SessionOK
<1> QED
  BY <1>7, <1>9, <1>10 DEF DInv

-----------------------------------------------------------------------------
\* The steps of the networks.

\* What is announced leaves every listed device its contexts.
LEMMA NetworkStays ==
    ASSUME IInv, IInv', Network, NEW s
    PROVE  DeviceStays(s)
<1> SUFFICES ASSUME s[2] \in ListedPaths
             PROVE  /\ s[2] \in ListedPaths'
                    /\ Contexts(device[s[2]]) \subseteq Contexts(device'[s[2]])
  BY DEF DeviceStays
<1>1. s[2] \in ListedPaths'
  BY NetworkListing, FoundListing DEF SameListing
<1>2. KeepsContexts(s[2])
  BY AvailableKeeps, OthersKeep DEF Network
<1>3. s[2] \in live'
  BY <1>1, ListedAreLiveNext
<1> QED
  BY <1>1, <1>2, <1>3 DEF KeepsContexts

LEMMA NetworkOK ==
    ASSUME IInv, IInv', DInv, Network
    PROVE  DInv'
<1>1. UNCHANGED <<queue, task, made, proxy>>
  BY DEF Network, callVars
<1>2. CallTypes' /\ made' \in Nat /\ made <= made'
  BY <1>1, ServiceAssumption DEF DInv, CallTypes
<1>3. ASSUME NEW s \in S!Session PROVE SessionOK(s)'
  <2>1. SessionOK(s)
    BY SessionFacts
  <2>2. Quiet(s)
    BY <1>1, <2>1 DEF Quiet, SessionOK, Milder
  <2> QED
    BY <1>1, <1>2, <2>2, NetworkStays, SessionQuiet
<1> QED
  BY <1>2, <1>3 DEF DInv

\* A withdrawal touches one device, that of the UDN.
LEMMA UnavailableTouches ==
    ASSUME IInv, NEW u \in UDN, NEW ip \in IP, Unavailable(u, ip),
           NEW p \in Path, p # Lookup(u)
    PROVE  device'[p] = device[p]
<1>1. ASSUME NEW q, NEW dev, Update(q, dev), q # p PROVE device'[p] = device[p]
  BY <1>1 DEF Update, IInv, TypeOK
<1>2. CASE RemoveUnknown(u, ip)
  BY <1>2 DEF RemoveUnknown
<1>3. CASE RemoveKnown(u, ip)
  <2> DEFINE old == device[Lookup(u)]
             dev == RemoveContext(old, ip)
  <2>1. HasContext(u, ip) /\ Lookup(u) # None
    BY <1>3 DEF RemoveKnown, HasContext
  <2>2. CASE ~UnderConstruction(u) /\ RemovePublished(u)
    BY <1>1, <2>1, <2>2, LookupCases DEF RemovePublished, Delete
  <2>3. CASE UnderConstruction(u) /\ RemoveConstructing(u)
    BY <1>1, <2>1, <2>3, LookupCases DEF RemoveConstructing, ChainEnd, Delete
  <2>4. CASE UnderConstruction(u) /\ SwitchContext(u, dev)
    BY <1>1, <2>1, <2>4, LookupCases DEF SwitchContext
  <2>5. CASE DropContext(u, dev, old.bms[ip].subscribed)
    BY <1>1, <2>5 DEF DropContext
  <2> QED
    BY <1>3, <2>2, <2>3, <2>4, <2>5 DEF RemoveKnown
<1> QED
  BY <1>2, <1>3 DEF Unavailable

\* A listed device that stays listed loses at most the context withdrawn, and
\* only if it is the device of the UDN.
LEMMA UnavailableLeaves ==
    ASSUME IInv, IInv', NEW u \in UDN, NEW ip \in IP, Unavailable(u, ip),
           NEW p \in ListedPaths, p \in ListedPaths'
    PROVE  /\ Contexts(device[p]) \ {ip} \subseteq Contexts(device'[p])
           /\ p # device_udn_map[u]
                => Contexts(device[p]) \subseteq Contexts(device'[p])
<1>1. p \in live'
  BY ListedAreLiveNext
<1>2. Contexts(device[p]) \ {ip} \subseteq Contexts(device'[p])
  BY <1>1, UnavailableHandsOver DEF KeepsContexts
<1>3. ASSUME p # device_udn_map[u] PROVE device'[p] = device[p]
  <2>1. p \in Path /\ p # None
    BY ListedDevice, UpnpAssumption
  <2>2. p # Lookup(u)
    BY <1>3, <2>1, ListedDevice DEF Lookup
  <2> QED
    BY <2>1, <2>2, UnavailableTouches
<1> QED
  BY <1>2, <1>3

LEMMA WithdrawOK ==
    ASSUME IInv, IInv', DInv, NEW u \in UDN, NEW ip \in IP, Withdraw(u, ip)
    PROVE  DInv'
<1>1. PICK p : p = device_udn_map[u]
  OBVIOUS
<1>2. /\ Unavailable(u, ip) /\ UNCHANGED proxy
      /\ \/ p = None /\ UNCHANGED <<queue, task, replies, made>>
         \/ p # None /\ p \notin ListedPaths' /\ S!RemoveQueues(Client \X {p})
         \/ p # None /\ p \in ListedPaths' /\ ForgetActions(Orphans(p, ip))
  BY <1>1 DEF Withdraw
<1>3. ListedPaths \ {p} \subseteq ListedPaths' /\ ListedPaths' \subseteq ListedPaths
  BY <1>1, <1>2, UnavailableListing DEF SameListing
<1>4. ASSUME NEW s, s[2] # p PROVE DeviceStays(s)
  BY <1>1, <1>2, <1>3, <1>4, UnavailableLeaves DEF DeviceStays
<1>5. CASE p = None
  <2>1. UNCHANGED <<queue, task, made>>
    BY <1>2, <1>5, <1>3 DEF ListedPaths
  <2>2. CallTypes' /\ made' \in Nat /\ made <= made'
    BY <2>1, ServiceAssumption DEF DInv, CallTypes
  <2>3. ASSUME NEW s \in S!Session PROVE SessionOK(s)'
    <3>1. SessionOK(s)
      BY SessionFacts
    <3>2. Quiet(s)
      BY <2>1, <3>1 DEF Quiet, SessionOK, Milder
    <3>3. DeviceStays(s)
      BY <1>4, <1>5 DEF DeviceStays, ListedPaths
    <3> QED
      BY <1>2, <2>1, <2>2, <3>2, <3>3, SessionQuiet
  <2> QED
    BY <2>2, <2>3 DEF DInv
<1>6. CASE p # None /\ p \notin ListedPaths' /\ S!RemoveQueues(Client \X {p})
  <2> DEFINE K == Client \X {p}
  <2>1. p \in Path
    BY <1>1, <1>6 DEF IInv, TypeOK
  <2>2. K \in SUBSET S!Session
    BY <2>1 DEF S!Session, S!Sink
  <2>3. \A s \in S!Session : s \in K <=> s[2] = p
    BY DEF S!Session
  <2>4. S!RemoveQueues(K)
    BY <1>6
  <2> HIDE DEF K
  <2>5. /\ CallTypes' /\ UNCHANGED made
        /\ \A s \in S!Session : Quiet(s)
        /\ \A s \in K : queue[s].current # None =>
             task'[queue[s].current] = S!Cancel(task[queue[s].current])
    BY <2>2, <2>4, RemoveQueuesQuiet
  <2>6. made' \in Nat /\ made <= made'
    BY <2>5, ServiceAssumption DEF DInv, CallTypes
  <2>7. ASSUME NEW s \in S!Session, s \in K PROVE SessionOK(s)'
    <3>1. ASSUME NEW t \in S!Call, t = queue'[s].current
          PROVE  Grounded(task[t], s, proxy[t])'
      <4>1. t = queue[s].current /\ t # None
        BY <2>5, <3>1, ServiceAssumption DEF Quiet
      <4>2. /\ task'[t] = S!Cancel(task[t])
            /\ task[t] \in S!Tasks /\ Runs(task[t], s)
        BY <2>5, <2>7, <4>1, SessionFacts DEF SessionOK
      <4>3. /\ task'[t].in_flight = FALSE
            /\ ~(task'[t].connected = TRUE /\ task'[t].completions = 0)
        BY <4>2, CancelledTask
      <4> QED
        BY <4>3 DEF Grounded
    <3> QED
      BY <2>5, <2>6, <3>1, QuietGrounded
  <2>8. ASSUME NEW s \in S!Session, s \notin K PROVE SessionOK(s)'
    BY <1>2, <1>4, <2>3, <2>5, <2>6, <2>8, SessionQuiet
  <2> QED
    BY <2>5, <2>7, <2>8 DEF DInv
<1>7. CASE p # None /\ p \in ListedPaths' /\ ForgetActions(Orphans(p, ip))
  <2>1. PICK T : T = Orphans(p, ip)
    OBVIOUS
  <2>2. /\ task' = [t \in S!Call |->
              IF t \in T THEN [task[t] EXCEPT !.in_flight = FALSE] ELSE task[t]]
        /\ UNCHANGED <<queue, made>>
    BY <1>7, <2>1 DEF ForgetActions
  <2>3. p \in Path /\ p \in ListedPaths
    BY <1>3, <1>7, ListedDevice
  <2>4. \A t : t \in T <=> /\ \E s \in Client \X {p} : t = queue[s].current
                           /\ t # None /\ task[t].in_flight
                           /\ task[t].kind = "action" /\ proxy[t] = ip
    BY <2>1 DEF Orphans, S!Current
  <2>5. ASSUME NEW t \in T
        PROVE  /\ t \in S!Call /\ task[t] \in S!Tasks
               /\ \A s \in S!Session : t \notin ToSet(queue[s].tasks)
    <3>1. PICK s \in Client \X {p} : t = queue[s].current /\ t # None
      BY <2>4
    <3>2. s \in S!Session
      BY <2>3 DEF S!Session, S!Sink
    <3>3. t \in S!Call /\ task[t] \in S!Tasks /\ task[t].in_flight
      BY <2>4, <3>1, <3>2, SessionFacts DEF SessionOK
    <3>4. \A q \in S!Session : t \notin ToSet(queue[q].tasks)
      BY <3>3, SessionFacts DEF SessionOK, Waits
    <3> QED
      BY <3>3, <3>4
  <2>6. ASSUME NEW t \in T
        PROVE  /\ task'[t] \in S!Tasks /\ Milder(task'[t], task[t])
               /\ task'[t].in_flight = FALSE
    <3>1. task'[t] = [task[t] EXCEPT !.in_flight = FALSE] /\ task[t] \in S!Tasks
      BY <2>2, <2>5
    <3> QED
      BY <3>1 DEF S!Tasks, Milder
  <2>7. \A t \in S!Call \ T : task'[t] = task[t]
    BY <2>2
  <2>8. T \in SUBSET S!Call /\ task' = [t \in S!Call |-> task'[t]]
    BY <2>2, <2>5
  <2>9. CallTypes' /\ \A s \in S!Session : Quiet(s)
    BY <2>2, <2>5, <2>6, <2>7, <2>8, TaskStepQuiet
  <2>10. made' \in Nat /\ made <= made'
    BY <2>2, ServiceAssumption DEF DInv, CallTypes
  <2>11. ASSUME NEW s \in S!Session, s[2] = p PROVE SessionOK(s)'
    <3>1. ASSUME NEW t \in S!Call, t = queue'[s].current
          PROVE  Grounded(task[t], s, proxy[t])'
      <4>1. t = queue[s].current /\ t # None /\ proxy'[t] = proxy[t]
        BY <1>2, <2>2, <3>1, ServiceAssumption
      <4>2. /\ task[t] \in S!Tasks /\ Runs(task[t], s)
            /\ Grounded(task[t], s, proxy[t])
        BY <4>1, SessionFacts DEF SessionOK
      <4>3. s \in Client \X {p}
        BY <2>11 DEF S!Session
      <4>4. Contexts(device[p]) \ {ip} \subseteq Contexts(device'[p])
        BY <1>2, <1>7, <2>3, UnavailableLeaves
      <4>5. CASE t \in T
        BY <1>7, <2>6, <2>11, <4>5 DEF Grounded
      <4>6. CASE t \notin T
        <5>1. task'[t] = task[t]
          BY <2>7, <4>6
        <5>2. task[t].in_flight = TRUE /\ task[t].kind = "action" => proxy[t] # ip
          BY <2>4, <4>1, <4>3, <4>6
        <5> QED
          BY <1>7, <2>11, <4>1, <4>2, <4>4, <5>1, <5>2 DEF Grounded
      <4> QED
        BY <4>5, <4>6
    <3> QED
      BY <2>9, <2>10, <3>1, QuietGrounded
  <2>12. ASSUME NEW s \in S!Session, s[2] # p PROVE SessionOK(s)'
    BY <1>2, <1>4, <2>9, <2>10, <2>12, SessionQuiet
  <2> QED
    BY <2>9, <2>11, <2>12 DEF DInv
<1> QED
  BY <1>2, <1>5, <1>6, <1>7

-----------------------------------------------------------------------------
LEMMA DInvInit == ServiceInit => DInv
<1> SUFFICES ASSUME ServiceInit PROVE DInv
  OBVIOUS
<1>1. /\ queue = [s \in S!Session |-> S!NoQueue]
      /\ task = [t \in S!Call |-> None] /\ made = 0
  BY DEF ServiceInit, S!ServerInit
<1>2. /\ S!NoQueue \in S!Queue /\ S!NoQueue.current = None
      /\ S!NoQueue.tasks = <<>>
  BY EmptyInjective DEF S!NoQueue, S!Queue
<1>3. CallTypes
  BY <1>1, <1>2, ServiceAssumption DEF CallTypes
<1>4. \A s \in S!Session : SessionOK(s)
  BY <1>1, <1>2, EmptyInjective DEF SessionOK
<1> QED
  BY <1>3, <1>4 DEF DInv

LEMMA DInvNext == IInv /\ IInv' /\ DInv /\ [ServiceNext]_serviceVars => DInv'
<1> SUFFICES ASSUME IInv, IInv', DInv, [ServiceNext]_serviceVars PROVE DInv'
  OBVIOUS
<1>1. CASE Network
  BY <1>1, NetworkOK
<1>2. ASSUME NEW u \in UDN, NEW ip \in IP, Withdraw(u, ip) PROVE DInv'
  BY <1>2, WithdrawOK
<1>3. CASE ClientStep
  <2>1. SameDevices /\ UNCHANGED proxy
    BY <1>3 DEF ClientStep, SameDevices, vars
  <2>2. PICK c \in Client : \/ S!Release(c)
                            \/ S!ClientLost(c)
                            \/ \E p \in Announced : S!CallDevice(c, p) \/ S!CancelCall(c, p)
    BY <1>3 DEF ClientStep
  <2>3. {c} \X S!Sink \in SUBSET S!Session
    BY DEF S!Session
  <2>4. CASE UNCHANGED S!taskVars
    <3>1. CallTypes' /\ made <= made'
      BY <2>4, ServiceAssumption DEF S!taskVars, DInv, CallTypes
    <3>2. \A s \in S!Session : Quiet(s)
      BY <2>4, SessionFacts DEF S!taskVars, Quiet, SessionOK, Milder
    <3> QED
      BY <2>1, <3>1, <3>2, AllQuiet
  <2>5. CASE S!RemoveQueues({c} \X S!Sink)
    BY <2>1, <2>3, <2>5, RemoveQueuesOK
  <2>6. CASE S!Release(c) \/ S!ClientLost(c)
    BY <2>4, <2>5, <2>6 DEF S!Release, S!ClientLost
  <2>7. ASSUME NEW p \in Announced, S!CallDevice(c, p) PROVE DInv'
    <3>1. p \in S!Sink
      BY DEF Announced, S!Sink
    <3> QED
      BY <2>1, <2>7, <3>1, AddTaskOK, RefuseOK DEF S!CallDevice
  <2>8. ASSUME NEW p \in Announced, S!CancelCall(c, p) PROVE DInv'
    <3>1. <<c, p>> \in S!Session /\ S!CancelQueue(<<c, p>>)
      BY <2>8 DEF Announced, S!Session, S!Sink, S!CancelCall
    <3> QED
      BY <2>1, <3>1, CancelQueueOK
  <2> QED
    BY <2>2, <2>6, <2>7, <2>8
<1>4. ASSUME NEW s \in S!Session, Serve(s) PROVE DInv'
  BY <1>4, ServeOK
<1>5. ASSUME NEW t \in S!Call, Finish(t) PROVE DInv'
  BY <1>5, AnswerOK, CompleteOK DEF Finish, SameDevices, vars
<1>6. CASE UNCHANGED serviceVars
  <2>1. /\ SameDevices /\ UNCHANGED <<queue, task, made, proxy>>
    BY <1>6 DEF serviceVars, callVars, vars, SameDevices
  <2>2. CallTypes' /\ made <= made'
    BY <2>1, ServiceAssumption DEF DInv, CallTypes
  <2>3. \A s \in S!Session : Quiet(s)
    BY <2>1, SessionFacts DEF Quiet, SessionOK, Milder
  <2> QED
    BY <2>1, <2>2, <2>3, AllQuiet
<1> QED
  BY <1>1, <1>2, <1>3, <1>4, <1>5, <1>6 DEF ServiceNext

LEMMA CallsInvariance == ServiceSpec => []DInv
<1>1. ServiceSpec => []IInv
  BY TablesAreUpnp, Invariance, PTL
<1> QED
  BY <1>1, DInvInit, DInvNext, PTL DEF ServiceSpec

\* An action that may still call back finds its device listed and the proxy it
\* runs on among the device's contexts, however networks and devices come and
\* go between its beginning and its end (device.c:989).
THEOREM ActionsFindProxies == ServiceSpec => []ActionsHaveProxies
<1>1. DInv => ActionsHaveProxies
  <2> SUFFICES ASSUME DInv, NEW s \in S!Session, NEW t \in S!Current({s}),
                      task[t].in_flight, task[t].kind = "action"
               PROVE  /\ s[2] \in ListedPaths
                      /\ proxy[t] \in Contexts(device[s[2]])
    BY DEF ActionsHaveProxies
  <2>1. t = queue[s].current /\ t # None
    BY DEF S!Current
  <2>2. Runs(task[t], s) /\ Grounded(task[t], s, proxy[t]) /\ task[t] \in S!Tasks
    BY <2>1, SessionFacts DEF SessionOK
  <2>3. task[t].in_flight = TRUE
    BY <2>2 DEF S!Tasks
  <2> QED
    BY <2>2, <2>3 DEF Runs, Grounded
<1> QED
  BY <1>1, CallsInvariance, PTL

\* A client can always cancel a call whose proxy went: the device that Cancel
\* looks up is still listed.
THEOREM StalledCallsCanBeCancelled == ServiceSpec => []StalledCanBeCancelled
<1>1. DInv => StalledCanBeCancelled
  <2> SUFFICES ASSUME DInv, NEW s \in S!Session, S!Stalled(s)
               PROVE  s[2] \in ListedPaths
    BY DEF StalledCanBeCancelled
  <2>1. PICK t \in S!Current({s}) :
           task[t].connected /\ ~task[t].in_flight /\ task[t].completions = 0
    BY DEF S!Stalled
  <2>2. t = queue[s].current /\ t # None
    BY DEF S!Current
  <2>3. Grounded(task[t], s, proxy[t]) /\ task[t] \in S!Tasks
    BY <2>2, SessionFacts DEF SessionOK
  <2>4. task[t].connected = TRUE
    BY <2>1, <2>3 DEF S!Tasks
  <2> QED
    BY <2>1, <2>3, <2>4 DEF Grounded
<1> QED
  BY <1>1, CallsInvariance, PTL
-----------------------------------------------------------------------------
\* What ServerProofs proves of every server holds of the calls of the service.

SP == INSTANCE ServerProofs WITH Device <- Path, listed <- ListedPaths,
                                 found <- Announced

\* The theorems speak of the server of Diagnostics.tla.
LEMMA SameInit == S!ServerInit <=> SP!ServerInit
  BY DEF S!ServerInit, SP!ServerInit, S!ClientInit, SP!ClientInit, S!NoQueue,
         SP!NoQueue, S!Sink, SP!Sink, S!Session, SP!Session, S!Call, SP!Call

LEMMA SameNext ==
    [S!ServerNext]_(S!serverVars) <=> [SP!ServerNext]_(SP!serverVars)
  BY DEF S!serverVars, SP!serverVars, S!taskVars, SP!taskVars, S!deviceVars,
         SP!deviceVars, S!clientVars, SP!clientVars, S!ServerNext,
         SP!ServerNext, S!CallManager, SP!CallManager, S!CallDevice,
         SP!CallDevice, S!CancelCall, SP!CancelCall, S!Release, SP!Release,
         S!ClientLost, SP!ClientLost, S!FoundDevice, SP!FoundDevice,
         S!LostDevice, SP!LostDevice, S!ContextLost, SP!ContextLost, S!Process,
         SP!Process, S!ProcessSync, SP!ProcessSync, S!ProcessAsync,
         SP!ProcessAsync, S!Answer, SP!Answer, S!Complete, SP!Complete,
         S!AddTask, SP!AddTask, S!Refuse, SP!Refuse, S!NewTask, SP!NewTask,
         S!Kinds, SP!Kinds, S!CancelQueue, SP!CancelQueue, S!RemoveQueues,
         SP!RemoveQueues, S!Cancel, SP!Cancel, S!Reply, SP!Reply, S!Current,
         SP!Current, S!Waiting, SP!Waiting, S!Started, SP!Started,
         S!IconStarted, SP!IconStarted, S!Idle, SP!Idle, S!Begin, SP!Begin,
         S!KeepIcon, SP!KeepIcon, S!Ended, SP!Ended, S!NoQueue, SP!NoQueue,
         S!ToSet, SP!ToSet, S!WatchClient, SP!WatchClient, S!ReleaseClient,
         SP!ReleaseClient, S!LostClient, SP!LostClient, S!RemoveClient,
         SP!RemoveClient, S!SetNeverQuit, SP!SetNeverQuit, S!Cardinality,
         SP!Cardinality, S!Sink, SP!Sink, S!Session, SP!Session, S!Call,
         SP!Call

LEMMA SameServer == S!ServerSpec <=> SP!ServerSpec
  BY SameInit, SameNext, PTL DEF S!ServerSpec, SP!ServerSpec

LEMMA SamePromise == SP!ImplementsInvocations <=> S!ImplementsInvocations
<1>1. SP!Promised!Init <=> S!Promised!Init
  BY DEF S!Promised!Init, SP!Promised!Init, S!Outstanding, SP!Outstanding,
         S!Sink, SP!Sink, S!Session, SP!Session, S!Call, SP!Call
<1>2. [SP!Promised!Next]_(SP!Promised!vars)
        <=> [S!Promised!Next]_(S!Promised!vars)
  BY DEF S!Promised!Next, SP!Promised!Next, S!Promised!Fresh,
         SP!Promised!Fresh, S!Promised!Refuse, SP!Promised!Refuse,
         S!Promised!Accept, SP!Promised!Accept, S!Promised!Answer,
         SP!Promised!Answer, S!Promised!Pending, SP!Promised!Pending,
         S!Promised!vars, SP!Promised!vars, S!Outstanding, SP!Outstanding,
         S!Sink, SP!Sink, S!Session, SP!Session, S!Call, SP!Call
<1> QED
  BY <1>1, <1>2, PTL
     DEF S!Promised!Spec, SP!Promised!Spec, S!ImplementsInvocations,
         SP!ImplementsInvocations

\* Its assumptions are those of the service.
LEMMA SameAssumptions ==
    /\ IsFiniteSet(Client) <=> SP!IsFiniteSet(Client)
    /\ Cardinality(Client) = SP!Cardinality(Client)
    /\ S!Call = SP!Call
    /\ S!Tasks = SP!Tasks
  BY DEF IsFiniteSet, SP!IsFiniteSet, Cardinality, SP!Cardinality,
         S!Tasks, SP!Tasks, S!Kind, SP!Kind, S!Kinds, SP!Kinds, S!Sink,
         SP!Sink, S!Session, SP!Session, S!Call, SP!Call

LEMMA ServerAssumptions ==
    /\ SP!IsFiniteSet(Client)
    /\ CounterSize \in Nat
    /\ SP!Cardinality(Client) < CounterSize
    /\ UnwatchedRelease \in BOOLEAN
    /\ MaxCalls \in Nat
    /\ None \notin SP!Call
    /\ Root # Manager
    /\ Path \cap {Root, Manager} = {}
    /\ None \notin SP!Tasks
  BY SameAssumptions, ServiceAssumption, CallersAssumption

\* Whatever the networks do to the devices under them, calls are completed
\* once, end while their device is listed, have a watched client and something
\* that can end them, and leave nothing behind on a device that is lost.
THEOREM ServiceServesCalls ==
    ServiceSpec => [](/\ S!ServerTypeOK
                      /\ S!CompletedOnce
                      /\ S!DeviceOutlivesTasks
                      /\ S!CallersAreWatched
                      /\ S!CurrentCanEnd
                      /\ S!RemovedQueuesDrain)
<1> DEFINE Serves == /\ SP!ServerTypeOK
                     /\ SP!CompletedOnce
                     /\ SP!DeviceOutlivesTasks
                     /\ SP!CallersAreWatched
                     /\ SP!CurrentCanEnd
                     /\ SP!RemovedQueuesDrain
<1>1. Serves => /\ S!ServerTypeOK
                /\ S!CompletedOnce
                /\ S!DeviceOutlivesTasks
                /\ S!CallersAreWatched
                /\ S!CurrentCanEnd
                /\ S!RemovedQueuesDrain
  BY DEF S!ServerTypeOK, SP!ServerTypeOK, S!CompletedOnce, SP!CompletedOnce,
         S!DeviceOutlivesTasks, SP!DeviceOutlivesTasks, S!CallersAreWatched,
         SP!CallersAreWatched, S!CurrentCanEnd, SP!CurrentCanEnd,
         S!RemovedQueuesDrain, SP!RemovedQueuesDrain, S!Current, SP!Current,
         S!Waiting, SP!Waiting, S!NoQueue, SP!NoQueue, S!ToSet, SP!ToSet,
         S!Queue, SP!Queue, S!Tasks, SP!Tasks, S!Kind, SP!Kind, S!Kinds,
         SP!Kinds, S!Sink, SP!Sink, S!Session, SP!Session, S!Call, SP!Call
<1>2. ServiceSpec => SP!ServerSpec
  BY ServiceIsServer, SameServer, PTL DEF ImplementsServer
<1>3. SP!ServerSpec => []SP!ServerTypeOK
  BY SP!ServerTypeCorrect, ServerAssumptions
<1>4. SP!ServerSpec => []SP!CompletedOnce
  BY SP!TasksCompleteOnce, ServerAssumptions
<1>5. SP!ServerSpec => []SP!DeviceOutlivesTasks
  BY SP!DevicesOutliveTasks, ServerAssumptions
<1>6. SP!ServerSpec => []SP!CallersAreWatched
  BY SP!CallersStayWatched, ServerAssumptions
<1>7. SP!ServerSpec => []SP!CurrentCanEnd
  BY SP!CurrentTasksCanEnd, ServerAssumptions
<1>8. SP!ServerSpec => []SP!RemovedQueuesDrain
  BY SP!RemovedQueuesEnd, ServerAssumptions
<1> QED
  BY <1>1, <1>2, <1>3, <1>4, <1>5, <1>6, <1>7, <1>8, PTL

\* To the clients that call it the service keeps the promise of Invocations,
\* every call is answered once and in its order, and to those that listen to it
\* that of Directory, every device is announced once and lost once.
THEOREM ServiceKeepsPromises ==
    ServiceSpec => S!ImplementsInvocations /\ ImplementsDirectory
<1>1. ServiceSpec => SP!ServerSpec
  BY ServiceIsServer, SameServer, PTL DEF ImplementsServer
<1>2. SP!ServerSpec => SP!ImplementsInvocations
  BY SP!ServerKeepsPromise, ServerAssumptions
<1> QED
  BY <1>1, <1>2, SamePromise, TablesAreUpnp, DirectoryImplemented, PTL
=============================================================================
