------------------------------- MODULE Server -------------------------------
(***************************************************************************)
(* The calls of D-Bus clients (server.c, task.c, async.c, and the parts of *)
(* upnp.c, manager.c and device.c that start and end a task).  Each client *)
(* has a queue of tasks per object it calls.  The first task of a queue is *)
(* processed alone: it answers at once, in an idle callback, or when a     *)
(* UPnP action or a download ends; Cancel, Release, and the loss of the    *)
(* client, the device or the network can come at any point of that.        *)
(*                                                                         *)
(* An action is one callback of the main loop.                             *)
(***************************************************************************)
EXTENDS ClientWatch, SequencesExt

CONSTANTS
    Root,      \* the sink of the manager's methods
    Manager,   \* the sink of the manager's properties
    Device,    \* the paths of devices, sinks as well
    MaxCalls,  \* bound: how many calls that can become a task are made
    None

Sink == {Root, Manager} \cup Device
Session == Client \X Sink
Call == 1..MaxCalls

ASSUME ServerAssumption ==
    /\ MaxCalls \in Nat
    /\ None \notin Call
    /\ Root # Manager
    /\ Device \cap {Root, Manager} = {}

VARIABLES
    queue,    \* queue[s]: the task queue of a client and a sink
    task,     \* task[t]: the dld_task_t of call t while it is allocated
    replies,  \* replies[t]: how often call t was answered
    made,     \* calls made so far
    listed,   \* the devices in device_udn_map
    found,    \* the devices that were ever in it
    icons     \* the devices with their icon in memory

taskVars == <<queue, task, replies, made>>
deviceVars == <<listed, found>>
serverVars == <<taskVars, deviceVars, icons, clientVars>>

\* The methods, by how their task is processed: in place, in an idle
\* callback, by a UPnP action or by a download.
Kinds(sink) == CASE sink = Root -> {"sync"}
                 [] sink = Manager -> {"local"}
                 [] OTHER -> {"local", "action", "icon"}

Kind == UNION {Kinds(sink) : sink \in Sink}

Queue == [tasks : Seq(Call), current : Call \cup {None},
          defer_remove : BOOLEAN]

NoQueue == [tasks |-> <<>>, current |-> None, defer_remove |-> FALSE]

\* dld_async_task_t.  in_flight: the action or download may still call back;
\* connected: the task listens to its cancellable; completions: the idle
\* callbacks pending that end it.
Tasks == [session : Session, kind : Kind, invocation : BOOLEAN,
          cancellable : {"null", "new", "cancelled"}, connected : BOOLEAN,
          in_flight : BOOLEAN, completions : Nat]

ASSUME TaskAssumption == None \notin Tasks

NewTask(s, kind) ==
    [session |-> s, kind |-> kind, invocation |-> TRUE, cancellable |-> "null",
     connected |-> FALSE, in_flight |-> FALSE, completions |-> 0]

ServerInit ==
    /\ ClientInit
    /\ queue = [s \in Session |-> NoQueue]
    /\ task = [t \in Call |-> None]
    /\ replies = [t \in Call |-> 0]
    /\ made = 0
    /\ listed = {}
    /\ found = {}
    /\ icons = {}

Current(S) == {queue[s].current : s \in S} \ {None}
Waiting(S) == UNION {ToSet(queue[s].tasks) : s \in S}

\* dld_task_complete, fail, cancel and delete answer unless one of them did.
Reply(T) ==
    replies' = [t \in Call |->
        IF t \in T /\ task[t].invocation THEN replies[t] + 1 ELSE replies[t]]

-----------------------------------------------------------------------------
\* Cancelling a task.

\* Seeded fault: the answer sent does not use up the invocation.
CancelKeepsInvocation(r) ==
    LET fires == r.cancellable = "new" /\ r.connected IN
    [r EXCEPT !.cancellable = IF @ = "new" THEN "cancelled" ELSE @,
              !.in_flight = @ /\ ~fires,
              !.completions = IF fires THEN @ + 1 ELSE @]

\* Seeded fault: without a proxy the handler returns before its last line.
CancelNeedsProxy(r) ==
    LET fires == r.cancellable = "new" /\ r.connected IN
    [r EXCEPT !.invocation = FALSE,
              !.cancellable = IF @ = "new" THEN "cancelled" ELSE @,
              !.in_flight = @ /\ ~fires,
              !.completions = IF fires /\ r.in_flight THEN @ + 1 ELSE @]

\* dld_task_cancel and, when the cancellable fires for the first time, the
\* handler: the action or download is stopped and the task completed.
Cancel(r) ==
    LET fires == r.cancellable = "new" /\ r.connected IN
    [r EXCEPT !.invocation = FALSE,
              !.cancellable = IF @ = "new" THEN "cancelled" ELSE @,
              !.in_flight = @ /\ ~fires,
              !.completions = IF fires THEN @ + 1 ELSE @]

\* The task processor, for prv_cancel_task and prv_delete_task: it cancels a
\* task that is processed, and cancels and deletes those that wait.
CancelQueue(s) ==
    /\ Reply(Current({s}) \cup Waiting({s}))
    /\ task' = [t \in Call |-> CASE t \in Current({s}) -> Cancel(task[t])
                                 [] t \in Waiting({s}) -> None
                                 [] OTHER -> task[t]]
    /\ queue' = [queue EXCEPT ![s].tasks = <<>>]
    /\ UNCHANGED made

\* A queue with a task in process is removed when that task has ended; the
\* tasks that wait behind it go then or, which is left open, now.
RemoveQueues(S) ==
    LET busy == {s \in S : queue[s].current # None} IN
    \E kept \in {{}, busy} :
        LET gone == Waiting(S \ kept) IN
        /\ Reply(Current(busy) \cup gone)
        /\ task' = [t \in Call |-> CASE t \in Current(busy) -> Cancel(task[t])
                                     [] t \in gone -> None
                                     [] OTHER -> task[t]]
        /\ queue' = [s \in Session |-> IF s \notin S THEN queue[s] ELSE
               [tasks |-> IF s \in kept THEN queue[s].tasks ELSE <<>>,
                current |-> queue[s].current,
                defer_remove |-> s \in busy]]
        /\ UNCHANGED made

-----------------------------------------------------------------------------
\* Calls.

AddTask(c, sink, kind) ==
    LET s == <<c, sink>> t == made + 1 IN
    /\ made < MaxCalls
    /\ made' = t
    /\ WatchClient(c)
    /\ task' = [task EXCEPT ![t] = NewTask(s, kind)]
    /\ queue' = [queue EXCEPT ![s].tasks = Append(@, t)]
    /\ UNCHANGED <<replies, deviceVars, icons>>

\* The device is not found: an error is returned and no task is made.
Refuse(c) ==
    /\ c \in connected
    /\ made < MaxCalls
    /\ made' = made + 1
    /\ replies' = [replies EXCEPT ![made + 1] = 1]
    /\ UNCHANGED <<queue, task, deviceVars, icons, clientVars>>

CallManager(c) ==
    \E sink \in {Root, Manager} : \E kind \in Kinds(sink) :
        AddTask(c, sink, kind)

CallDevice(c, d) ==
    \/ d \in listed /\ \E kind \in Kinds(d) : AddTask(c, d, kind)
    \/ d \notin listed /\ Refuse(c)

\* The device method Cancel, which is answered itself in the same step.
CancelCall(c, d) ==
    /\ c \in connected
    /\ d \in listed
    /\ CancelQueue(<<c, d>>)
    /\ UNCHANGED <<deviceVars, icons, clientVars>>

\* Seeded fault: the client is no longer watched but keeps its queues.
ReleaseKeepsQueues(c) ==
    /\ ReleaseClient(c)
    /\ UNCHANGED <<taskVars, deviceVars, icons>>

Release(c) ==
    /\ ReleaseClient(c)
    /\ RemoveQueues({c} \X Sink)
    /\ UNCHANGED <<deviceVars, icons>>

ClientLost(c) ==
    /\ LostClient(c)
    /\ IF c \in watched THEN RemoveQueues({c} \X Sink) ELSE UNCHANGED taskVars
    /\ UNCHANGED <<deviceVars, icons>>

\* A path is never used again, as Directory promises.
FoundDevice(d) ==
    /\ d \notin found
    /\ listed' = listed \cup {d}
    /\ found' = found \cup {d}
    /\ UNCHANGED <<taskVars, icons, clientVars>>

\* Seeded fault: the queues of a device that is lost are kept.
LostDeviceKeepsQueues(d) ==
    /\ d \in listed
    /\ listed' = listed \ {d}
    /\ UNCHANGED <<taskVars, found, icons, clientVars>>

LostDevice(d) ==
    /\ d \in listed
    /\ listed' = listed \ {d}
    /\ RemoveQueues(Client \X {d})
    /\ UNCHANGED <<found, icons, clientVars>>

-----------------------------------------------------------------------------
\* Processing.

Ended(s) ==
    [queue EXCEPT ![s] = IF @.defer_remove THEN NoQueue
                                           ELSE [@ EXCEPT !.current = None]]

\* A task that is processed in place is answered and deleted at once.
ProcessSync(s, t) ==
    /\ task[t].kind = "sync"
    /\ Reply({t})
    /\ task' = [task EXCEPT ![t] = None]
    /\ queue' = [queue EXCEPT ![s].tasks = Tail(@)]
    /\ UNCHANGED <<made, deviceVars, icons, clientVars>>

\* The result or the error is there at once, and an idle callback returns it.
Idle(r) == [r EXCEPT !.cancellable = "new", !.completions = 1]

Begin(r) ==
    [r EXCEPT !.cancellable = "new", !.connected = TRUE, !.in_flight = TRUE]

\* Seeded fault: the icon in memory is returned without an idle callback.
IconStartedForgets(r) ==
    IF r.session[2] \in icons THEN {[r EXCEPT !.cancellable = "new"]}
                              ELSE {Idle(r), Begin(r)}

\* Seeded fault: a second caller waits for the download of the first, which
\* does not know of it.
IconStartedShares(r) ==
    IF \E u \in Call : /\ task[u] # None
                       /\ task[u].in_flight
                       /\ task[u].kind = "icon"
                       /\ task[u].session[2] = r.session[2]
    THEN {[r EXCEPT !.cancellable = "new"]}
    ELSE {Idle(r), Begin(r)}

\* A device can have no icon, or one with a URL that cannot be used.
IconStarted(r) ==
    IF r.session[2] \in icons THEN {Idle(r)} ELSE {Idle(r), Begin(r)}

Started(r) ==
    IF r.kind = "local" \/ r.session[2] \notin listed THEN {Idle(r)}
    ELSE IF r.kind = "action" THEN {Begin(r)} ELSE IconStarted(r)

\* A property of the manager may be the NeverQuit setting.
ProcessAsync(s, t) ==
    /\ task[t].kind # "sync"
    /\ \E r \in Started(task[t]) : task' = [task EXCEPT ![t] = r]
    /\ queue' = [queue EXCEPT ![s].tasks = Tail(@), ![s].current = t]
    /\ \/ UNCHANGED clientVars
       \/ s[2] = Manager /\ SetNeverQuit(s[1])
    /\ UNCHANGED <<replies, made, deviceVars, icons>>

\* The idle callback of the task processor.
Process(s) ==
    /\ queue[s].current = None
    /\ queue[s].tasks # <<>>
    /\ LET t == Head(queue[s].tasks) IN ProcessSync(s, t) \/ ProcessAsync(s, t)

\* An icon that was downloaded is kept unless it is empty.
KeepIcon(t) ==
    \/ UNCHANGED icons
    \/ task[t].kind = "icon" /\ icons' = icons \cup {task[t].session[2]}

\* Seeded fault: the task goes on listening to its cancellable.
AnswerStaysConnected(t) ==
    /\ task[t] # None
    /\ task[t].in_flight
    /\ task' = [task EXCEPT ![t].in_flight = FALSE, ![t].completions = @ + 1]
    /\ KeepIcon(t)
    /\ UNCHANGED <<queue, replies, made, deviceVars, clientVars>>

\* The action or the download ends, well or badly.
Answer(t) ==
    /\ task[t] # None
    /\ task[t].in_flight
    /\ task' = [task EXCEPT ![t].in_flight = FALSE, ![t].connected = FALSE,
                            ![t].completions = @ + 1]
    /\ KeepIcon(t)
    /\ UNCHANGED <<queue, replies, made, deviceVars, clientVars>>

\* A context is removed from a device that has others: the actions that run
\* on its proxy are forgotten and never call back.
ContextLost(d) ==
    \E T \in SUBSET {t \in Current(Client \X {d}) : /\ task[t].in_flight
                                                   /\ task[t].kind = "action"} :
        /\ T # {}
        /\ task' = [t \in Call |->
               IF t \in T THEN [task[t] EXCEPT !.in_flight = FALSE] ELSE task[t]]
        /\ UNCHANGED <<queue, replies, made, deviceVars, icons, clientVars>>

\* dld_async_task_complete, from the idle callback, up to the deletion of the
\* task and, if that was deferred, of its queue.
Complete(t) ==
    /\ task[t] # None
    /\ task[t].completions > 0
    /\ LET s == task[t].session
           gone == IF queue[s].defer_remove THEN Waiting({s}) ELSE {}
       IN /\ Reply({t} \cup gone)
          /\ task' = [u \in Call |-> IF u \in {t} \cup gone THEN None
                                                            ELSE task[u]]
          /\ queue' = Ended(s)
    /\ UNCHANGED <<made, deviceVars, icons, clientVars>>

ServerNext ==
    \/ \E c \in Client : \/ CallManager(c)
                         \/ Release(c)
                         \/ ClientLost(c)
                         \/ \E d \in Device : CallDevice(c, d) \/ CancelCall(c, d)
    \/ \E d \in Device : FoundDevice(d) \/ LostDevice(d) \/ ContextLost(d)
    \/ \E s \in Session : Process(s)
    \/ \E t \in Call : Answer(t) \/ Complete(t)

ServerSpec == ServerInit /\ [][ServerNext]_serverVars

\* The main loop runs every idle callback, and GUPnP and libsoup end every
\* action and download, with an error if need be.
FairServerSpec ==
    /\ ServerSpec
    /\ \A s \in Session : WF_serverVars(Process(s))
    /\ \A t \in Call : WF_serverVars(Answer(t)) /\ WF_serverVars(Complete(t))

-----------------------------------------------------------------------------
\* Properties.

\* The state of every task and queue is one that the code can be in, and no
\* call is answered twice.
ServerTypeOK ==
    /\ queue \in [Session -> Queue]
    /\ task \in [Call -> Tasks \cup {None}]
    /\ replies \in [Call -> 0..1]
    /\ made \in 0..MaxCalls
    /\ listed \subseteq found
    /\ found \subseteq Device
    /\ icons \subseteq Device

\* What can still touch a task concerns the task its queue is processing, and
\* that one alone: one pending completion, or else an action that runs and can
\* be cancelled.  prv_async_task_complete tells the queue, not the task.
CompletedOnce ==
    \A t \in Call : task[t] # None =>
        LET r == task[t] IN
        /\ r.in_flight \/ r.completions > 0 => queue[r.session].current = t
        /\ r.completions <= 1
        /\ r.completions = 1 => ~r.in_flight
        /\ r.in_flight => r.connected /\ r.cancellable = "new" /\ r.invocation

\* An action or a download that may call back, which can write to its device,
\* and a task that waits for its turn, concern a device that is still listed.
DeviceOutlivesTasks ==
    \A s \in Session : s[2] \in Device =>
        /\ \A t \in Current({s}) : task[t].in_flight => s[2] \in listed
        /\ queue[s].tasks # <<>> /\ ~queue[s].defer_remove => s[2] \in listed

\* The service watches every client that has calls to answer: except in the
\* queues it is removing, none of them is outstanding when the last client
\* is gone and it decides to quit.
CallersAreWatched ==
    \A s \in Session : \A t \in Current({s}) \cup Waiting({s}) :
        task[t].invocation /\ ~queue[s].defer_remove => s[1] \in watched

\* The calls of a queue without an answer; a task that waits never has one.
Outstanding(s) ==
    LET q == queue[s] IN
    IF q.current # None /\ task[q.current].invocation THEN <<q.current>> \o q.tasks
                                                      ELSE q.tasks

Promised == INSTANCE Invocations WITH
                outstanding <- [s \in Session |-> Outstanding(s)],
                answered <- {t \in Call : replies[t] > 0}

\* Every call is answered exactly once and those on one object in their order,
\* wherever a cancellation or a loss comes.
ImplementsInvocations == Promised!Spec

\* The proxy under the task in process has gone and nobody has cancelled it.
Stalled(s) ==
    \E t \in Current({s}) :
        task[t].connected /\ ~task[t].in_flight /\ task[t].completions = 0

\* A task in process always has what ends it: its completion is pending, or a
\* cancellation, which has not come yet, would complete it.  No queue waits for
\* nothing, not even when the proxy of its task has gone (async.c:49-73).
CurrentCanEnd ==
    \A s \in Session : \A t \in Current({s}) :
        \/ task[t].completions = 1
        \/ task[t].connected /\ task[t].cancellable = "new"

\* A queue that is being removed is one idle callback from its end, whatever its
\* client queues meanwhile, and nothing else is left of the queues of a device
\* that was lost: the path will never be called again (server.c:574, 867).
RemovedQueuesDrain ==
    \A s \in Session :
        /\ queue[s].defer_remove =>
             \E t \in Current({s}) : task[t].completions = 1 /\ ~task[t].invocation
        /\ s[2] \in found \ listed => queue[s] = NoQueue \/ queue[s].defer_remove

\* A call is answered in the end, unless the task before it, or its own, lost
\* its proxy: that blocks the queue until it is cancelled.
Answered ==
    \A t \in Call :
        (task[t] # None /\ task[t].invocation)
            ~> (replies[t] = 1 \/ (task[t] # None /\ Stalled(task[t].session)))

\* A task that was cancelled leaves its queue, one that lost its proxy too.
CancelledEnds ==
    \A t \in Call :
        (task[t] # None /\ task[t].cancellable = "cancelled") ~> task[t] = None
=============================================================================
