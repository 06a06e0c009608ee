-------------------------------- MODULE Upnp --------------------------------
(***************************************************************************)
(* The UPnP side of dleyna-diagnostics (upnp.c over device.c): devices     *)
(* that appear on and vanish from networks, the chain of service tasks     *)
(* that constructs the object of each, the subscription that follows the   *)
(* preferred context, and the two signals sent to D-Bus clients.           *)
(*                                                                         *)
(* Everything runs in one main loop.  An action is one callback of that    *)
(* loop: a GUPnP signal, an idle task, a timer or the end of the service.  *)
(***************************************************************************)
EXTENDS Device, FiniteSets

CONSTANTS
    UDN,                   \* the unique names of the devices on the networks
    None,                  \* no entry in a hash table
    MaxArrivals,           \* bound: how often a device can become available
    PublishCanFail         \* publish_object can fail

\* device->path is the server's path followed by the value of the counter.
Path == 0..(MaxArrivals - 1)

Task == {"prv_subscribe", "prv_declare"}

\* prv_device_new_ct_t with the tasks left in its queue.
Chain == [device : Path, ip_address : IP, tasks : Seq(Task)]

ASSUME UpnpAssumption ==
    /\ MaxArrivals \in Nat
    /\ None \notin Path
    /\ None \notin Chain
    /\ PublishCanFail \in BOOLEAN

VARIABLES
    device,          \* device[p]: the dld_device_t of path p
    live,            \* the paths whose dld_device_t is allocated
    device_udn_map,  \* UDN to published device
    device_uc_map,   \* UDN to construction chain
    counter,         \* the next path
    seen,            \* the pairs of UDN and address GUPnP has announced
    signals,         \* signals[p]: the D-Bus signals sent about p, in order
    running,         \* the service has not been stopped
    arrivals         \* how many announcements there have been

vars == <<device, live, device_udn_map, device_uc_map, counter, seen, signals,
          running, arrivals>>

Init ==
    /\ device = [p \in Path |-> NoDevice]
    /\ live = {}
    /\ device_udn_map = [u \in UDN |-> None]
    /\ device_uc_map = [u \in UDN |-> None]
    /\ counter = 0
    /\ seen = {}
    /\ signals = [p \in Path |-> <<>>]
    /\ running = TRUE
    /\ arrivals = 0

-----------------------------------------------------------------------------
\* Parts of several callbacks.

UnderConstruction(u) == device_udn_map[u] = None /\ device_uc_map[u] # None

\* Seeded fault: devices under construction are not looked for.
LookupPublished(u) == device_udn_map[u]

\* The path of the device both prv_add_device and prv_remove_device find.
Lookup(u) ==
    IF device_udn_map[u] # None THEN device_udn_map[u]
    ELSE IF device_uc_map[u] # None THEN device_uc_map[u].device
    ELSE None

\* Seeded fault: only the preferred context is compared.
HasPreferredContext(u, ip) ==
    Lookup(u) # None /\ ip = GetContext(device[Lookup(u)])

HasContext(u, ip) == Lookup(u) # None /\ ip \in Contexts(device[Lookup(u)])

\* Seeded fault: construction starts again from the beginning.
NewChainFromStart(p, dev, ip) ==
    [device |-> p, ip_address |-> ip, tasks |-> ConstructTasks(0)]

NewChain(p, dev, ip) ==
    [device |-> p, ip_address |-> ip,
     tasks |-> ConstructTasks(dev.construct_step)]

Update(p, dev) == device' = [device EXCEPT ![p] = dev]

Delete(p) == Update(p, DeviceDelete(device[p])) /\ live' = live \ {p}

Signal(p, name) == signals' = [signals EXCEPT ![p] = Append(@, name)]

\* Seeded fault: the device is listed although its chain was cancelled.
ChainEndIgnoresCancel(u, dev, cancelled) ==
    LET p == device_uc_map[u].device
    IN  /\ device_uc_map' = [device_uc_map EXCEPT ![u] = None]
        /\ device_udn_map' = [device_udn_map EXCEPT ![u] = p]
        /\ Signal(p, "FoundDevice")
        /\ Update(p, dev)
        /\ UNCHANGED live

\* prv_device_chain_end: the device left by the last task is published, or,
\* if the queue was cancelled, deleted.
ChainEnd(u, dev, cancelled) ==
    LET p == device_uc_map[u].device
    IN  /\ device_uc_map' = [device_uc_map EXCEPT ![u] = None]
        /\ \/ /\ ~cancelled
              /\ device_udn_map' = [device_udn_map EXCEPT ![u] = p]
              /\ Signal(p, "FoundDevice")
              /\ Update(p, dev)
              /\ UNCHANGED live
           \/ /\ cancelled
              /\ Delete(p)
              /\ UNCHANGED <<device_udn_map, signals>>

-----------------------------------------------------------------------------
\* A device becomes available (prv_device_available_cb, prv_add_device).

AddDevice(u, ip) ==
    /\ Lookup(u) = None
    /\ Update(counter, DeviceNew(ip))
    /\ live' = live \cup {counter}
    /\ device_uc_map' =
         [device_uc_map EXCEPT ![u] = NewChain(counter, DeviceNew(ip), ip)]
    /\ counter' = counter + 1

AddContext(u, ip) ==
    /\ Lookup(u) # None
    /\ ~HasContext(u, ip)
    /\ Update(Lookup(u), AppendNewContext(device[Lookup(u)], ip))
    /\ UNCHANGED <<live, device_uc_map, counter>>

KnownContext(u, ip) ==
    /\ HasContext(u, ip)
    /\ UNCHANGED <<device, live, device_uc_map, counter>>

Available(u, ip) ==
    /\ running
    /\ arrivals < MaxArrivals
    /\ arrivals' = arrivals + 1
    /\ seen' = seen \cup {<<u, ip>>}
    /\ AddDevice(u, ip) \/ AddContext(u, ip) \/ KnownContext(u, ip)
    /\ UNCHANGED <<device_udn_map, signals, running>>

-----------------------------------------------------------------------------
\* A device becomes unavailable (prv_device_unavailable_cb,
\* prv_remove_device).

RemoveUnknown(u, ip) ==
    /\ ~HasContext(u, ip)
    /\ UNCHANGED <<device, live, device_udn_map, device_uc_map, signals>>

\* Seeded fault: clients are not told.
RemovePublishedSilently(u) ==
    /\ device_udn_map' = [device_udn_map EXCEPT ![u] = None]
    /\ Delete(device_udn_map[u])
    /\ UNCHANGED <<device_uc_map, signals>>

\* The last context of a published device: LostDevice, then the table entry
\* and with it the device.
RemovePublished(u) ==
    LET p == device_udn_map[u]
    IN  /\ Signal(p, "LostDevice")
        /\ device_udn_map' = [device_udn_map EXCEPT ![u] = None]
        /\ Delete(p)
        /\ UNCHANGED device_uc_map

\* The last context of a device under construction: the queue is cancelled.
RemoveConstructing(u) == ChainEnd(u, device[device_uc_map[u].device], TRUE)

\* Seeded fault: the old queue is cancelled before its finally function is
\* replaced, and no new chain is created.
SwitchContextCancels(u, dev) == RemoveConstructing(u)

\* The construction context: a new chain continues from the step reached,
\* on the context now preferred.
SwitchContext(u, dev) ==
    LET p == device_uc_map[u].device
    IN  /\ Update(p, dev)
        /\ device_uc_map' =
             [device_uc_map EXCEPT ![u] = NewChain(p, dev, GetContext(dev))]
        /\ UNCHANGED <<live, device_udn_map, signals>>

\* Seeded fault: the subscribed flag is read after the context is freed.
DropContextReadsLate(u, dev, subscribed) ==
    /\ Update(Lookup(u), dev)
    /\ UNCHANGED <<live, device_udn_map, device_uc_map, signals>>

\* Seeded fault: a timer already armed is forgotten.
DropContextRearms(u, dev, subscribed) ==
    /\ Update(Lookup(u), [dev EXCEPT !.timeout_id = subscribed])
    /\ UNCHANGED <<live, device_udn_map, device_uc_map, signals>>

\* Another context: if the subscription went with it the timer is armed, and
\* left as it is otherwise.
DropContext(u, dev, subscribed) ==
    /\ Update(Lookup(u), [dev EXCEPT !.timeout_id = @ \/ subscribed])
    /\ UNCHANGED <<live, device_udn_map, device_uc_map, signals>>

RemoveKnown(u, ip) ==
    LET old          == device[Lookup(u)]
        dev          == RemoveContext(old, ip)
        last         == dev.contexts = <<>>
        construction == UnderConstruction(u)
                          /\ device_uc_map[u].ip_address = ip
    IN  /\ HasContext(u, ip)
        /\ \/ last /\ ~UnderConstruction(u) /\ RemovePublished(u)
           \/ last /\ UnderConstruction(u) /\ RemoveConstructing(u)
           \/ ~last /\ construction /\ SwitchContext(u, dev)
           \/ ~last /\ ~construction
                /\ DropContext(u, dev, old.bms[ip].subscribed)

Unavailable(u, ip) ==
    /\ running
    /\ <<u, ip>> \in seen
    /\ seen' = seen \ {<<u, ip>>}
    /\ RemoveUnknown(u, ip) \/ RemoveKnown(u, ip)
    /\ UNCHANGED <<counter, running, arrivals>>

-----------------------------------------------------------------------------
\* The tasks of a construction chain, run one per turn of the main loop.

RunSubscribe(u) ==
    LET p == device_uc_map[u].device
    IN  /\ running
        /\ device_uc_map[u] # None
        /\ Head(device_uc_map[u].tasks) = "prv_subscribe"
        /\ Update(p, Subscribe(device[p]))
        /\ device_uc_map' = [device_uc_map EXCEPT ![u].tasks = Tail(@)]
        /\ UNCHANGED <<live, device_udn_map, counter, seen, signals, running,
                       arrivals>>

\* The last task: its queue ends with it, cancelled if publishing failed.
RunDeclare(u) ==
    /\ running
    /\ device_uc_map[u] # None
    /\ Head(device_uc_map[u].tasks) = "prv_declare"
    /\ \E published \in 0..InterfaceInfoMax :
         /\ published < InterfaceInfoMax => PublishCanFail
         /\ ChainEnd(u, Declare(device[device_uc_map[u].device], published),
                     published < InterfaceInfoMax)
    /\ UNCHANGED <<counter, seen, running, arrivals>>

RunTask(u) == RunSubscribe(u) \/ RunDeclare(u)

-----------------------------------------------------------------------------
\* Timers and GUPnP's notice of a lost subscription.

OnlyDeviceChanges ==
    /\ running
    /\ UNCHANGED <<live, device_udn_map, device_uc_map, counter, seen, signals,
                   running, arrivals>>

DeviceTimer(p) ==
    /\ device[p].timeout_id
    /\ Update(p, SubscribeTimeout(device[p]))
    /\ OnlyDeviceChanges

UpdateService(p, ip, Op(_)) ==
    Update(p, [device[p] EXCEPT !.bms[ip] = Op(@)]) /\ OnlyDeviceChanges

SubscriptionLost(p, ip) ==
    /\ SubscriptionCanLapse
    /\ device[p].bms[ip].proxy_on
    /\ UpdateService(p, ip, SubscriptionLostCb)

ReEnable(p, ip) ==
    /\ device[p].bms[ip].timeout_id
    /\ UpdateService(p, ip, ReEnableSubscription)

-----------------------------------------------------------------------------
\* dld_upnp_unsubscribe and dld_upnp_delete: the published devices are
\* deleted with their table, the others are not.

Stop ==
    LET published == {p \in Path : \E u \in UDN : device_udn_map[u] = p}
    IN  /\ running
        /\ running' = FALSE
        /\ device' = [p \in Path |-> IF p \in published
                                     THEN DeviceDelete(device[p])
                                     ELSE device[p]]
        /\ live' = live \ published
        /\ device_udn_map' = [u \in UDN |-> None]
        /\ device_uc_map' = [u \in UDN |-> None]
        /\ UNCHANGED <<counter, seen, signals, arrivals>>

Next ==
    \/ \E u \in UDN, ip \in IP : Available(u, ip) \/ Unavailable(u, ip)
    \/ \E u \in UDN : RunTask(u)
    \/ \E p \in Path : DeviceTimer(p)
    \/ \E p \in Path, ip \in IP : SubscriptionLost(p, ip) \/ ReEnable(p, ip)
    \/ Stop

Spec == Init /\ [][Next]_vars

\* A queued task and an armed timer are sources of the main loop, which
\* serves every source; nothing obliges the network to do anything.
Fairness ==
    /\ \A u \in UDN : WF_vars(RunTask(u))
    /\ \A p \in Path : WF_vars(DeviceTimer(p))

FairSpec == Spec /\ Fairness

-----------------------------------------------------------------------------
\* Properties.

ListedPaths == {device_udn_map[u] : u \in UDN} \ {None}

\* Every variable has its type, and no context of a device is there twice: a
\* context is looked up by address before one is added (upnp.c:188-198).
TypeOK ==
    /\ device \in [Path -> Devices]
    /\ \A p \in Path : IsInjective(device[p].contexts)
    /\ live \subseteq Path
    /\ device_udn_map \in [UDN -> Path \cup {None}]
    /\ device_uc_map \in [UDN -> Chain \cup {None}]
    /\ counter \in 0..arrivals
    /\ seen \subseteq UDN \X IP
    /\ signals \in [Path -> Seq({"FoundDevice", "LostDevice"})]
    /\ running \in BOOLEAN
    /\ arrivals \in 0..MaxArrivals

\* Whatever contexts come and go, and whenever the timer fires, the events of a
\* listed device reach the service through its preferred context only, so that
\* a change is never signalled on behalf of two contexts (device.c:235-253).  It
\* is so where no subscription is lost (device.c:312-338).
EventsThroughPreferred ==
    \A p \in ListedPaths, ip \in IP :
        LET b == device[p].bms[ip]
        IN  b.proxy_on /\ b.notifies > 0 => ip = GetContext(device[p])

\* Only the preferred context is ever marked as subscribed, and GUPnP is
\* subscribed on another context only if losses run several handlers there, one
\* of which subscribed again before the next gave up (device.c:312-338).
StraysGaveUp ==
    \A p \in Path, ip \in IP :
        LET b == device[p].bms[ip]
        IN  b.proxy_on \/ b.subscribed =>
                /\ ip \in Contexts(device[p])
                /\ \/ ip = GetContext(device[p])
                   \/ ~b.subscribed /\ b.handlers > 1

\* A subscribed context has a subscription in GUPnP and a notification for
\* its events: neither a switch, nor a retry, nor a second loss that gives
\* up leaves the flag set without them (device.c:96-124, 312-373).
NotifiedWhileSubscribed ==
    \A p \in Path, ip \in IP :
        LET b == device[p].bms[ip]
        IN  b.subscribed => b.proxy_on /\ b.notifies > 0 /\ b.handlers > 0

\* While the service runs every allocated device is the value of exactly one
\* entry of one of the two tables, and every entry holds an allocated
\* device: none is leaked, freed under a table or listed twice, through
\* publishing, failing to publish, and losing the device in either table.
DevicesTracked ==
    LET InUdn(p) == {u \in UDN : device_udn_map[u] = p}
        InUc(p)  == {u \in UDN : /\ device_uc_map[u] # None
                                 /\ device_uc_map[u].device = p}
    IN  running =>
          /\ \A p \in Path : Cardinality(InUdn(p)) + Cardinality(InUc(p))
                               = (IF p \in live THEN 1 ELSE 0)
          /\ \A u \in UDN :
               device_udn_map[u] = None \/ device_uc_map[u] = None

\* A chain under construction works on a context its device still has, has
\* exactly the tasks the device has not been through, and its device is
\* neither published nor announced, even after the chain was replaced
\* because its context went (upnp.c:388-409).
ConstructionOnTrack ==
    \A u \in UDN :
        device_uc_map[u] # None =>
            LET chain == device_uc_map[u]
                dev   == device[chain.device]
            IN  /\ chain.ip_address \in Contexts(dev)
                /\ chain.tasks = ConstructTasks(dev.construct_step)
                /\ chain.tasks # <<>>
                /\ dev.ids = 0
                /\ signals[chain.device] = <<>>

\* A listed device is reachable, is constructed, and has all its interfaces on
\* the bus: one whose publication failed half way is never listed.
ListedIsComplete ==
    \A p \in ListedPaths :
        /\ device[p].contexts # <<>>
        /\ device[p].construct_step = 2
        /\ device[p].ids = InterfaceInfoMax

\* A timer never outlives what its callback dereferences: the device timer
\* its device, the retry timer of a context that context.
NoDanglingTimer ==
    \A p \in Path :
        /\ device[p].timeout_id => p \in live /\ device[p].contexts # <<>>
        /\ \A ip \in IP :
             device[p].bms[ip].timeout_id => ip \in Contexts(device[p])

\* Where publishing cannot fail, the contexts of the object of a UDN are at
\* every moment the networks that announced it and have not withdrawn it.
ContextsMirrorNetwork ==
    running => \A u \in UDN :
        {ip \in IP : <<u, ip>> \in seen}
          = IF Lookup(u) = None THEN {} ELSE Contexts(device[Lookup(u)])

\* A published device that loses its subscribed context but keeps another
\* always has the timer armed that will subscribe again (upnp.c:410-416).
SubscriptionHandedOver ==
    [][\A p \in ListedPaths :
         LET ip == GetContext(device[p])
         IN  /\ device[p].bms[ip].subscribed
             /\ ip \notin Contexts(device'[p])
             /\ p \in live'
             => device'[p].timeout_id]_vars

\* An armed timer is not disarmed, by whatever happens to the contexts
\* meanwhile, before the device is freed or subscribed through the context
\* preferred by then (upnp.c:311-326, 410-416).
ArmedUntilSubscribed ==
    [][\A p \in Path :
         device[p].timeout_id /\ ~device'[p].timeout_id
           => \/ p \notin live'
              \/ device'[p].bms[GetContext(device'[p])].subscribed]_vars

\* Where publishing cannot fail, the construction of a device is never undone:
\* as long as some network announces it, it goes on with the same object and
\* never with more tasks than were left, though its chain is replaced whenever
\* the context it works on goes (upnp.c:388-409), and ends with it listed.
ConstructionKept ==
    [][\A u \in UDN :
         LET chain == device_uc_map[u]
         IN  chain # None /\ running' /\ (\E ip \in IP : <<u, ip>> \in seen')
             => \/ device_udn_map'[u] = chain.device
                \/ /\ device_uc_map'[u] # None
                   /\ device_uc_map'[u].device = chain.device
                   /\ Len(device_uc_map'[u].tasks) <= Len(chain.tasks)]_vars

\* What GetDevices answers and what the signals told agree at every moment,
\* and a path is announced once and withdrawn once, in that order.
Promise == INSTANCE Directory WITH listed  <- ListedPaths,
                                   signals <- signals,
                                   serving <- running

ImplementsDirectory == Promise!Spec

\* Where publishing cannot fail, a device that stays on some network is
\* eventually listed, though contexts that come and go replace its chain.
SeenIsListed ==
    \A u \in UDN :
        (running /\ \E ip \in IP : <<u, ip>> \in seen)
          ~> (\/ ~running
              \/ device_udn_map[u] # None
              \/ \A ip \in IP : <<u, ip>> \notin seen)

\* A device whose timer is armed is subscribed again, if it is still there.
Resubscribed ==
    \A p \in Path :
        device[p].timeout_id
          ~> (\/ ~running
              \/ p \notin live
              \/ device[p].bms[GetContext(device[p])].subscribed)

\* A listed device whose subscription GUPnP has not lost has events enabled,
\* or is about to: otherwise no PropertiesChanged signal is sent when its
\* Status, TestIDs or ActiveTestIDs change, as API.txt:190-193 promises.
ListedIsSubscribed ==
    \A p \in ListedPaths :
        \/ device[p].timeout_id
        \/ device[p].bms[GetContext(device[p])].subscribed
=============================================================================
