# A verification project for dleyna-diagnostics

dleyna-diagnostics is a D-Bus service that finds the UPnP devices with a
Basic Management service (BMS) on the local networks, publishes each as a D-Bus
object, and runs diagnostic tests (ping, name lookup, traceroute) on them for
its clients. It is a single-threaded C program around one GLib main loop: all
its concurrency is the order in which the callbacks of that loop run.

This directory holds TLA+ modules that model it, configurations that check them
with TLC, and proofs that TLAPS checks. `PROJECT.json` is the index: components,
runs, seeded faults, source lines of each definition, findings, hazards,
theorems. Paths below are relative to `src/libdleyna/diagnostics/`.

    tlc -config MCUpnp.cfg MCUpnp.tla         # a run
    tlapm UpnpProofs.tla                      # a proof module

## Inventory

| Component | Code | State | Operations | What is hard |
|---|---|---|---|---|
| Device object | `device.c` 60-544 | contexts (one per network address), per context a BMS proxy with `subscribed` and a timer, the device timer, `construct_step`, published interface ids | append and remove a context, subscribe, unsubscribe, lose a subscription, the two construction tasks, delete | a subscription follows the *preferred* context while contexts come and go; timers hold pointers to what may be freed |
| Device tables | `upnp.c` 41-610 | `device_udn_map` (published), `device_uc_map` (under construction), `counter` | announcement and withdrawal of a device on an address, end or replacement of a construction chain, GetDevices, stop | a withdrawal between any two construction tasks; publication that fails; one device in one table |
| Sub-devices | `upnp.c` 203-275, 426-497 | none | two recursive walks over a device's tree, to add and to remove | the two walks must reach the same services, each once |
| Client watch | `server.c` 572-646 | `watchers` | first call of a client, Release, loss of a client | counting; when to quit |
| Method calls and tasks | `server.c` 435-868, `task.c`, `async.c` | per client and object a task queue; per task an invocation, a cancellable, a pending action | method calls, Cancel, processing, answer, completion, removal of queues | a cancellation or a loss at any point of a task's life; one answer, one completion |
| Icon | `device.c` 835-967 | the downloaded icon | GetIcon, end of the download, its cancellation | two downloads at a time; the device goes meanwhile |
| Diagnostic actions | `device.c` 969-1739, `xml-util.c` | none | begin an action, decode its result | sentinels for missing values, XML results |
| Properties and signals | `device.c` 142-183, 546-833 | the `props` table | initial properties, three event handlers, Get, GetAll | events before publication; answers that a signal overtakes; decoding of lists |
| Manager properties | `manager.c` | settings (dleyna-core), white list (GUPnP) | Get, GetAll, Set | a write of the settings that fails; values of another type |
| Start and stop | `server.c` 589-623, 889-957, `../../server/daemon.c` | `g_context` | start, stop | devices under construction at the stop |

How they interact. GUPnP's signals call `prv_device_available_cb` and
`prv_device_unavailable_cb`, which edit the tables and devices. A new device
gets a queue of two service tasks, `prv_subscribe` and `prv_declare`, which the
dleyna-core task processor runs one per turn of the loop; the end of that queue
publishes the device in the table and emits FoundDevice. D-Bus calls become
tasks in queues keyed by client and object (`prv_add_task`, which also has the
client watched); when a device is lost, `prv_lost_diagnostics_device` emits
LostDevice and removes the queues on that device *before* the tables free it.
A task that runs a UPnP action uses the proxy of the preferred context, which
can go while the device stays.

What makes each component correct:

- Device: its events come through the preferred context and no other; a context
  marked subscribed is served by GUPnP; no timer outlives its object.
- Tables: an allocated device is in exactly one table; a listed one is complete
  and reachable; GetDevices and the two signals agree; what stays on the network
  is listed in the end.
- Client watch: the count is the number of watched clients, and the service
  quits with the last and only then.
- Tasks: every call has one answer, in order per client and object; no task is
  completed twice; nothing still runs on a device that has been freed.
- Sub-devices: what one walk adds the other removes.
- Properties: a client that reads once and follows the signals is never wrong; a
  refused call of Set changes nothing; the white list follows the settings.
- Results: what a client is answered is what the device sent, or an error.

## Modules

| Module | Models | Extends |
|---|---|---|
| `Device` | `device.c`: operators from device record to device record, one per function | community modules |
| `Upnp` | `upnp.c`: the state machine of the tables over `Device` | `Device` |
| `Directory` | abstract: what GetDevices, FoundDevice and LostDevice promise together | |
| `DataFacts` | lemmas about sequences, recursive functions and induction | community modules |
| `DeviceProofs`, `UpnpProofs` | proofs about `Upnp` | `Upnp`, `DataFacts` |
| `ClientWatch` | `server.c`: the watchers count and the decision to quit | |
| `Server` | `server.c`, `task.c`, `async.c`, and where tasks start and end in `upnp.c`, `manager.c`, `device.c` | `ClientWatch` |
| `Invocations` | abstract: one answer per call, in order per session | |
| `ServerProofs` | proofs about `ClientWatch` and `Server` | `Server`, `DataFacts` |
| `Diagnostics` | the whole service: the tables of `Upnp` under the calls of `Server` | `Upnp`, an instance of `Server` |
| `DiagnosticsProofs` | proofs about `Diagnostics` | `Diagnostics`, `UpnpProofs`, an instance of `ServerProofs` |
| `SubDevices` | `upnp.c`: the two walks over the tree of a description | community modules |
| `SubDevicesProofs` | proofs about `SubDevices` | `SubDevices`, `DataFacts` |
| `Properties` | `manager.c` and `device.c`: the properties of the manager and of a device, their table, events and signals | community modules |
| `PropertiesProofs` | proofs about `Properties` | `Properties` |
| `Results` | `device.c`, `xml-util.c`: what is answered of a diagnostic action | community modules |
| `ResultsProofs` | proofs about `Results` | `Results`, `DataFacts` |
| `MC*` | model values for TLC | |

An operator whose comment begins "Seeded fault" is a plausible bug in the
definition that follows it. It is used by no specification: a run with the
definition replaced by it shows that the property named in `PROJECT.json`
notices.

### Device and Upnp

One action is one callback of the main loop.

| Action | Code |
|---|---|
| `Available(u, ip)` | `prv_device_available_cb`, `prv_add_device` |
| `Unavailable(u, ip)` | `prv_device_unavailable_cb`, `prv_remove_device` with its five branches: `RemoveUnknown`, `RemovePublished`, `RemoveConstructing`, `SwitchContext`, `DropContext` |
| `RunSubscribe(u)`, `RunDeclare(u)` | the tasks of a construction chain, and `prv_device_chain_end` |
| `DeviceTimer(p)` | `prv_subscribe_to_service_changes` (`upnp.c`), one second after a subscribed context went |
| `SubscriptionLost(p, ip)` | `prv_bms_subscription_lost_cb`, once per connected handler |
| `ReEnable(p, ip)` | `prv_re_enable_bms_subscription`, ten seconds later |
| `Stop` | `dld_upnp_unsubscribe`, `dld_upnp_delete` |

Data is abstracted: a path is the value of `counter`, an address is a model
value of which some are loopback, a timer is the fact that it is armed, time is
not modelled (a timer may fire at any moment after it is armed, which covers
every timing), and the strings of a device are left out. What the proxy does in
GUPnP is part of the record: whether it is subscribed, how often notification
was asked for, how many "subscription-lost" handlers are connected. A lost
subscription runs each handler in turn, in the same action. `SubscriptionCanLapse`
says whether GUPnP may lose subscriptions; finding 2 takes such a loss.

A device in the model is one that carries the BMS service; the tree walks that
look for it are a component of their own.

### ClientWatch

`WatchClient` is the first half of `prv_add_task`. The connector (dleyna-core)
watches a name once and reports its loss once. Bus names are never reused.
`UnwatchedRelease` says whether Release can come from a client that is not
watched; D-Bus does nothing to prevent it, so the finding below is about the
value TRUE, and the value FALSE gives what the code does get right.

### Server

A session is a client and a sink (the manager's methods, its properties, or a
device), and each has a queue. `Process` takes the head of a queue: a task of the
manager's methods is answered in place (`ProcessSync`); a property is
answered from an idle callback; a diagnostic action or an icon download begins
(`Begin`) and ends with `Answer`; `Complete` is `dld_async_task_complete`, which
returns the answer and frees the task. The record of a task keeps what decides
about double answers and double completions: whether the invocation is still to
be answered, the state of its cancellable, whether the task is connected to it,
whether the action can still call back, how many completions are pending.
`ContextLost` removes the proxy under a running action: GUPnP forgets the
action and the weak pointer in the task becomes NULL.

External behaviour, modelled from its use:

- the dleyna-core task processor: a queue processes one task at a time,
  cancelling a queue cancels the current task and drops the waiting ones with
  `prv_cancel_task`, and a queue that is removed while a task is in process goes
  when that task has completed (`defer_remove`). Whether the tasks that wait are
  dropped at the removal or at that completion is left open.
- GUPnP: `gupnp_service_proxy_cancel_action` keeps the callback from being
  called, and so does the disposal of the proxy; remove_notify undoes one
  add_notify.
- libsoup: a cancelled download calls back within the call that cancels it.
- GLib: connecting to, disconnecting from and triggering a cancellable.

`FoundDevice` and `LostDevice` are the callbacks that the tables call. A path is
never used twice, which is proved of `Upnp`; `found` remembers those that were
used.

### Diagnostics

The composition. `Upnp` runs as it is; the variables of `Server` are those of an
instance in which a device is a path and `listed` and `found` are read from the
tables. `proxy` remembers on which context an action runs: `Serve` takes the
preferred one, and `Withdraw`, the withdrawal of an announcement, removes the
queues of a device that is lost and forgets the actions that ran on the proxy of
a context that goes. `Network` is every other callback of `Upnp`, and leaves the
calls alone. The property `ImplementsServer` says that what was checked of
`Server`, whose devices come and go as they like, holds of the service.

### SubDevices

A description is a forest: `parent` gives for each device the one it is embedded
in, and `bms` and `named` say which offer the service and which have a UDN. The
walks are recursive functions (`Walk`) that return the calls made and the service
they return to their caller, as the code does. In the code they are two functions, copies of
each other but for the calls they make, so that both are `Walk` here; should one
of them be changed, its definition has to follow (the seeded fault
`RemoveSubDevicesShallow` is such a change, and `ContextsMatchTrees` notices it).
Each function calls again for a child when the walk below it returned a service,
which never happens: what a walk returns is in the end what the walk of a device
without children returns, NULL. `CalledOnce` would notice otherwise. `SubDevice` is what is done about
one child, and `Visit` goes through the children of a device. `contexts` is what the calls amount to
in the tables; what they do there is `Upnp`'s.

### Properties

`settings`, `white_list` and `props` are the three tables behind the properties.
`Event` is a state variable that arrives, whose value is decoded, put into the
table and signalled; it can come before `Publish`. A call is made, processed
and answered in three steps. `ProcessRead` takes the values, and `Complete` brings
them to the client. `ProcessSet` has four outcomes: refused, unneeded, failed and
done.

`heard` is what a client knows. It is a client that reads and follows the
signals, and, a rule of this model that no document states, that lets a signal which came after its call win over the answer:
the answer was computed when the call was processed, and a client cannot tell
whether that was before the signal. No client in the repository does anything
else with the two. The identifiers of tests are numbers, and `Atoi` is the C
function on a system whose long is wider than an int: strtol stops at the largest
long, and the conversion to int and from there to the unsigned type of D-Bus
keeps the low bits. Where a long has 32 bits, the identifiers from 2^31 on all
become 2^31 - 1; the module does not model that build.

A client has one call at a time here; several calls, and their cancellation, are
`Server`'s subject. A settings file that cannot be written is assumed to keep its
old value, since dleyna-core writes it before it changes the value it caches.

### Results

One action of a client: `Reply` is the answer of the device, with any parameter
missing or of any value, or a failure; `Answer` is the callback that checks and
converts it. The six kinds of action differ in their parameters only and are
records of `Shape`. `Decode` reads the XML of an NSLookup, its
`result_list` being the loop over the elements, each of which `Add` prepends. Strings are model values: what tells them apart is whether
they are too long, which number `Atoi` reads in them and into what `Split` cuts
them at the commas.

## Runs

| Run | Instance | States | Shows |
|---|---|---|---|
| `upnp_safety` | 2 devices, 3 addresses (1 loopback), 4 arrivals, publication may fail, subscriptions may lapse | 141 417 | `TypeOK`, `StraysGaveUp`, `NotifiedWhileSubscribed`, `DevicesTracked`, `ConstructionOnTrack`, `ListedIsComplete`, `NoDanglingTimer`, `SubscriptionHandedOver`, `ArmedUntilSubscribed`, `ImplementsDirectory` |
| `upnp_network` | 2 devices, 2 addresses, 4 arrivals, publication succeeds | 83 365 | `ContextsMirrorNetwork`, `SeenIsListed`, `Resubscribed`, `ConstructionKept` |
| `upnp_events` | 1 device, 2 addresses | | finding 1 |
| `upnp_lapse` | 1 device, 3 addresses (1 loopback), 4 arrivals, subscriptions may lapse | | finding 2 |
| `client_release` | 4 clients, a counter of size 8, Release by anyone | | finding 3 |
| `server_calls` | 1 client, 1 device, 3 calls, fairness | 11 933 | `ServerTypeOK`, `CompletedOnce`, `ImplementsInvocations`, `CurrentCanEnd`, `CancelledEnds` |
| `server_clients` | 2 clients, 1 device, 3 calls, Release by watched clients, fairness | 288 964 | `DeviceOutlivesTasks`, `CallersAreWatched`, `RemovedQueuesDrain`, `WatchersCount`, `QuitsWithLastClient`, `Answered` |
| `diagnostics` | 1 device, 2 addresses (1 loopback), 1 client, fairness; see `MCDiagnostics.cfg` | 123 250 | `ActionsHaveProxies`, `StalledCanBeCancelled`, `ImplementsServer`, `LostDeviceIsQuiet` |
| `properties` | 1 client that reads and 1 that sets, 1 white list entry, 3 lists of identifiers of 2 bits, 2 changes | 5 001 928 | `PropertiesTypeOK`, `WhiteListFollowsSettings`, `FollowersAreCurrent`, `TestsAsEvented`, `RefusedSetChangesNothing` |
| `properties_mandatory` | 1 client that reads | | finding 4 |
| `sub_devices` | every forest of 4 devices, 2 addresses | 282 338 | `SubDevicesTypeOK`, `ContextsMatchTrees`, `CalledOnce` |
| `results` | every reply over 2 or 3 texts and numbers, and small documents | 66 748 | `ResultsTypeOK`, `AnswersAreReplies`, `LookupsNewestFirst` |

Why the bounds are enough to be interesting. Four arrivals allow a device to
have three contexts and come back once, or two devices to be constructed at the
same time with a context switch each; three addresses are the least with which
the preferred context can change both ways (a loopback context is appended, the
first context goes) while another stays. Three calls of one client are a task in
process, one that waits behind it and one made after a Release or Cancel;
with a second client the calls on a lost device come from both, two icon
downloads of one device can run at a time, which the one queue of a single client
keeps apart, and the last client to go is not always the same. A wrapped
counter needs a counter larger than the number of clients and no more, since
each client adds at most one.

Two networks are enough for `Diagnostics` to lose the context an action runs on
while the device stays, and one client since the queues of two never meet there.
Four devices give a tree of depth four and a child with siblings and children of
its own, and every way in which devices without the service or without a UDN lie
between those that have them. Two bits for an identifier put 2 and 3 on the side
of the sign and 5 out of range. Two changes overtake each other, and with the
one client that sets them every order of a change, a signal, a reading and its
answer occurs.

Deadlock is checked of `sub_devices` only: elsewhere the bounds on arrivals and on calls stop the models,
and a service whose network and clients are silent has nothing to do.

### Fairness

- `Upnp`: weak fairness of `RunTask(u)` and `DeviceTimer(p)`. The first is an
  idle source of the task processor and the second a timeout source, and the
  main loop serves every source. Nothing is assumed of the network, of
  subscriptions or of the stop: `SeenIsListed` holds although contexts may come
  and go and replace the chain each time, because arrivals are bounded and
  every replacement keeps the steps done.
- `Server`: weak fairness of `Process(s)` and `Complete(t)`, idle sources,
  and of `Answer(t)`: GUPnP and libsoup end every action and download, if need be
  with an error. `Answered` has an explicit exception, a task whose
  proxy went (`Stalled`): the code has no path that ends it but a cancellation,
  and `CancelledEnds` says that cancellation works there too. No client is
  assumed to cancel.
- `Diagnostics`: the same of the queues and tasks, and nothing of the tables;
  `LostDeviceIsQuiet` is about what is left behind when a device has gone.

## Findings

1. `upnp_events` (`upnp.c:388`). A device whose construction context goes
   between `prv_subscribe` and `prv_declare` is published with no
   subscription and no timer, so its PropertiesChanged signals never come
   (`API.txt`, "A org.freedesktop.DBus.Properties.PropertiesChanged signal is
   emitted when these properties change"). The branch that switches the context
   excludes, by `else if`, the one that arms the resubscription timer.
2. `upnp_lapse` (`device.c:312`). The device timer subscribes without asking
   whether the preferred context is subscribed already, so that one context can
   have two notifications and two handlers of "subscription-lost". A loss runs both:
   the first subscribes again, the second takes this for a second loss and
   forgets the subscription without ending it. When a loopback context comes
   next, the forgotten one is not unsubscribed, and every event arrives, and is
   signalled, twice. The code means to switch (`device.c:244-248`, "Subscription
   switch from <%s> to <%s>"), and `API.txt:190-193` has a signal emitted "when
   these properties change". Without losses it does not happen, which is the theorem
   `EventsFollowPreference`; with them, `StraysGaveUp` says that there is no other
   way to it.
3. `client_release` (`server.c:577`). A Release counts down whether or not its
   sender was counted up, so that a second Release of one client
   makes the service quit under another, or wraps the counter. Release is
   documented to decrease a count that the connection of a client increased.
4. `properties_mandatory` (`device.c:651`). The documentation of a device's
   properties has Status and StatusChangedDate as mandatory; the code provides
   StatusInfo only, and Get answers that Status is not defined.

## What is proved

Every safety property of the runs that pass, invariant or action property, and
both refinements of an abstract specification are theorems. They hold for every
value of the constants that satisfies the named assumptions of the modules: any
number of devices, networks, clients, calls and announcements, trees of any depth
and documents of any length. Where a theorem has a hypothesis besides, its run makes
it too (`~UnwatchedRelease`, `~PublishCanFail`, `IdSize <= LongMax`); only
`EventsFollowPreference` has one, `~SubscriptionCanLapse`, that the run of its
property does not make, to show what comes of losses.

### The tables

`UpnpProofs` proves `Spec => []IInv` for every set of devices and addresses and
every bound on arrivals, from the assumptions of `Device` and `Upnp`
(`Loopback` is a subset of `IP`; `None` is not a path or a chain). IInv is
inductive and says more than the invariants that are checked:

- `DevicesOK`: every device satisfies `DeviceOK` (`DeviceProofs`): distinct
  contexts, services of other addresses empty, a subscribed context is the
  preferred one and is notified and served, timers only where there is a
  context, and GUPnP subscribed on a context without the mark only where a loss
  ran several handlers (`ServiceOK`); and nothing is left of a device that was freed. Each operator of
  `Device` preserves `DeviceOK`, which is a lemma per operator; the number of
  handlers run at a loss is unbounded, so that lemma is about any number.
- `TablesOK`, `LiveOK`: an allocated device is the entry of exactly one UDN.
- `FreshOK`: paths beyond `counter` have never been used. Needed to show that a
  new device does not inherit signals, hence for the refinement of `Directory`.
- `ConstructionOnTrack`: the tasks left in a chain are those of the step reached;
  needed for `ListedOK`, that a listed device has gone through both steps.

The theorems: `TypeCorrect`, `OnlyLossesLeaveStrays`, `EventsFollowPreference`,
`SubscriptionsAreServed`, `TimersAreRemoved`, `ConstructionStaysOnTrack`,
`OnlyCompleteDevicesListed`, `EveryDeviceIsTracked`, `SubscriptionIsHandedOver`
and `TimersStayArmed` (action properties) and `DirectoryImplemented` (every step
of `Upnp` is a step of `Directory` or leaves its variables alone).
`EventsFollowPreference` assumes that no subscription is lost: then a context on
which GUPnP is subscribed has its mark, hence is the preferred one. `ContextsMirror` assumes that
publishing cannot fail and proves from IInv that the contexts of a device are the
networks that announce it; here a failure is excluded because the device that
could not be published is dropped while its network still announces it.
`ConstructionIsKept`, an action property, has the same hypothesis for the same
reason.

Two of these are what the liveness properties of the tables owe to the code, as
against its scheduling. `Resubscribed` needs that a timer which is to move a
subscription is never disarmed before it has done so (`TimersStayArmed`: a new
or a lost context, a lapse or the next context switch leave it alone, subscribe
at once or free the device); that it then fires is the fairness of
`DeviceTimer`. `SeenIsListed` needs that a chain which is replaced goes on with
the same object and never with more tasks than were left (`ConstructionIsKept`);
that the tasks then run is the fairness of `RunTask`.

### Clients and calls

`ServerProofs` begins with `ClientWatch`: `WatchersCounted` and `QuitsThen` hold
for any finite number of clients smaller than the size of the counter, assuming
that only watched clients release. The inductive invariant is `WatchersCount`
with the types of the two flags; it carries the argument that the count does not
wrap.

It then proves `ServerSpec => []SInv` for any sets of clients, devices and
calls, from the assumptions of `Server`. SInv ties a task to the queue that
holds it, in both directions, which none of the invariants that are checked does:

- `CallOK`: a task is the current one of its queue and `Begun`, or waits in it
  and is `Fresh`; while it has an invocation it has no answer and, unless its
  queue is being removed, its client is watched; in flight, its device is
  listed. A task that has begun has its completion pending, or still listens to
  a cancellable that nobody has used.
- `QueueOK`: the tasks of a queue are distinct, are tasks of its session, and do
  not contain the current one. A queue whose removal is deferred has a current
  task, cancelled and about to be completed; the device of any other queue that
  holds a task is listed.

Cancelling, releasing and losing a device all amount to dropping tasks that wait
from a set of queues and cancelling the current ones, so one lemma (`DropOK`)
carries those three. The theorems are `ServerTypeCorrect`, `TasksCompleteOnce`,
`DevicesOutliveTasks`, `CallersStayWatched`, `CurrentTasksCanEnd` and
`RemovedQueuesEnd`. The last two are the part of the liveness properties
`Answered`, `CancelledEnds` and `LostDeviceIsQuiet` that does not need fairness:
whatever happened, the step that ends a call in process is pending, or would be
after an answer or a cancellation.

`ServerKeepsPromise`: `Server` implements `Invocations`. The calls an abstract
session has outstanding are the current one, if its invocation is left, and those
that wait; `PendingIsLive` shows from SInv that these are the tasks with an
invocation, and each action is then shown to accept a call, refuse one, answer
the first calls of some sessions, or change nothing of this.

### The service

`DiagnosticsProofs` proves of the composition that its tables behave as `Upnp`
(`TablesAreUpnp`) and its calls as `Server` (`ServiceIsServer`, which is
`ImplementsServer`), for any networks, clients and calls. A step of the tables is
shown to find a path, to lose one or to leave the listing alone, by the lemmas
behind `DirectoryImplemented`; a withdrawal loses at most the path whose queues it
removes. `TaskTable`, that the tasks are a function on the calls, is needed to
see that a withdrawal under which no action runs leaves them as they are.

`ActionsFindProxies` and `StalledCallsCanBeCancelled` relate the calls to the
contexts of the tables. Their inductive invariant is DInv: a task in process that
is not being completed is on a listed device, and its action on a proxy of a
context that this device still has (`Grounded`). No task that waits has begun
anything, no task that runs is also one that waits, and an action in flight is
always connected (`Runs`, `Waits`, `SessionOK`); without these a withdrawal could
not be shown to find every action on the proxy that it takes away. `Quiet` says
what a step may do to a queue without endangering that, so that a lemma per action
says whether the step is quiet for a session and whether the device of the session
keeps its contexts (`DeviceStays`).

`ServiceServesCalls` and `ServiceKeepsPromises` are what the parts add up to: the
safety properties of `Server` and the promises of `Invocations` and of `Directory`
hold of the service as a whole. They cite the theorems of `ServerProofs` through an
instance, `SP`; the lemmas `SameInit`, `SameNext` and `SamePromise` say that the
definitions of the two instances of `Server` are the same, and `ServerAssumptions`
that the service assumes what `Server` does (`ServiceAssumption` and
`CallersAssumption`).

### Trees, documents and properties

`SubDevicesProofs` and `ResultsProofs` are about recursive definitions, over trees
and over sequences, and `DataFacts` has what they need. A recursive function of
TLA+ is a CHOOSE, so that its equation has to be proved: `RecursionExists` shows
that a function exists when the value at each argument depends on the values at
arguments of a smaller measure only (`Recursive`). Induction is by the least
counterexample (`MeasureInduction`), since the induction theorems of the library,
whose parameter is an operator, are of no use to the provers.

`SubDevicesProofs` proves `Spec => []SubInv`: the forest is one in which a parent
comes before its children, only roots are announced, the contexts are those of
their trees, and the last walk called for no device twice. `Up` gives the ancestors of a device, and `Ahead`, what a walk still has
to go through, is the measure by which `Walk` is a function. `WalkFacts` says what
a walk calls for: the devices it reaches (`Reached`), each once; `WalkedTree`
applies this to the two walks from a root, which therefore add and remove the same
contexts. The theorems are `SubDevicesTypeCorrect`, `ContextsFollowTrees` and
`EachCalledOnce`.

`ResultsProofs` proves `Spec => []ResultsInv`, that what was answered is the
conversion of what the device replied, and from it `ResultsTypeCorrect`,
`OnlyRepliesAnswered` and `LookupsInOrder`. The last rests on `DecodeFacts`, by
induction over the loop that reads the elements: after each one the list holds the
complete lookups read so far, each once and the latest first.

`PropertiesProofs` proves `Spec => []PInv` for any clients, entries, lists of
identifiers and calls of Set. PInv says:

- `SettingsOK`: the settings have their types and the white list is theirs.
- `TableOK`: the table holds of each evented variable the decoding of what the
  device sent last.
- `CallOK`: the values that a call in process has taken are those of the moment,
  except those that a signal has passed since. This is what the promise to
  clients rests on: `Complete` brings the other ones only.
- `HeardOK`: what a client has heard is what the tables hold.

The theorems: `PropertiesTypeCorrect`, `WhiteListFollows`, `FollowersKnow`,
`RefusedSetIsQuiet` (an action property), and `TestsAreKnown`, which assumes that
a long is wider than an identifier (`IdSize <= LongMax`).

### Only model-checked

The five liveness properties: `SeenIsListed`, `Resubscribed`, `Answered`,
`CancelledEnds` and `LostDeviceIsQuiet`. Fairness and ENABLED are beyond these
provers; the safety they rest on is
proved: for the first two see The tables; for the calls, that the task of every
queue has something left that ends it (`CurrentCanEnd`) and that nothing else is
left of a lost device than a queue one callback from its end
(`RemovedQueuesDrain`). The four properties of the runs that
expect a violation are false there; that of `upnp_lapse` is proved where no
subscription is lost, and that of `client_release` where only watched clients
release.

## What is not modelled

- The daemon's option parsing and signal handlers (`daemon.c`): no state of its
  own. The scripts under `test/` are interactive clients.
- Introspection, publication of the manager object, logging, and what is freed
  when: the record of a task or a device exists or does not.
- `xml_util_get_child_string_list_content_by_name`, which nothing calls.
- Rescan, beyond its task: it asks GUPnP to search, and what is found arrives
  as announcements, which come at any time in the models.
- The bytes and the type of an icon.
- Properties that a description leaves out, where the table would hold a NULL:
  what GLib makes of it is not visible in this code.
- Whether the service sees a client that calls again while it quits: the main
  loop is dleyna-core's.
