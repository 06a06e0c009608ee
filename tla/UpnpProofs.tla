----------------------------- MODULE UpnpProofs -----------------------------
(***************************************************************************)
(* Theorems about Upnp.tla, for any number of devices, addresses and       *)
(* arrivals.  They all follow from one inductive invariant, IInv.          *)
(***************************************************************************)
EXTENDS Upnp, DeviceProofs, FiniteSetTheorems

\* p is the device of u, published or under construction.
Holds(u, p) ==
    \/ device_udn_map[u] = p
    \/ device_uc_map[u] # None /\ device_uc_map[u].device = p

\* Every device is consistent, and nothing is left of one that was freed.
DevicesOK ==
    \A p \in Path : /\ DeviceOK(device[p])
                    /\ p \in live \/ device[p] = NoDevice

\* The tables hold allocated devices, each once, and a UDN is in one table.
TablesOK ==
    /\ \A u \in UDN, p \in Path : Holds(u, p) => p \in live
    /\ \A u, v \in UDN, p \in Path : Holds(u, p) /\ Holds(v, p) => u = v
    /\ \A u \in UDN : device_udn_map[u] = None \/ device_uc_map[u] = None

\* Paths the counter has not reached are unused.
FreshOK ==
    \A p \in Path : p >= counter => p \notin live /\ signals[p] = <<>>

ListedOK ==
    \A u \in UDN :
        LET p == device_udn_map[u]
        IN  p # None => /\ device[p].contexts # <<>>
                        /\ device[p].construct_step = 2
                        /\ device[p].ids = InterfaceInfoMax
                        /\ signals[p] = <<"FoundDevice">>

LiveOK == running => \A p \in live : \E u \in UDN : Holds(u, p)

IInv ==
    /\ TypeOK
    /\ DevicesOK
    /\ TablesOK
    /\ FreshOK
    /\ ConstructionOnTrack
    /\ ListedOK
    /\ LiveOK

-----------------------------------------------------------------------------
LEMMA InitOK == Init => IInv
<1> SUFFICES ASSUME Init PROVE IInv
  OBVIOUS
<1>1. \A p \in Path : device[p] = NoDevice /\ signals[p] = <<>>
  BY DEF Init
<1>2. DevicesOK
  BY <1>1, NoDeviceOK DEF DevicesOK
<1>3. TypeOK
  <2>1. NoDevice \in Devices /\ IsInjective(NoDevice.contexts)
    BY NoDeviceOK DEF DeviceOK, ContextsDistinct
  <2>2. device \in [Path -> Devices] /\ \A p \in Path : IsInjective(device[p].contexts)
    BY <2>1 DEF Init
  <2> QED
    BY <2>2, UpnpAssumption DEF Init, TypeOK
<1>4. TablesOK
  BY UpnpAssumption DEF Init, TablesOK, Holds
<1>5. FreshOK
  BY <1>1 DEF Init, FreshOK
<1>6. ConstructionOnTrack /\ ListedOK /\ LiveOK
  BY DEF Init, ConstructionOnTrack, ListedOK, LiveOK
<1> QED
  BY <1>2, <1>3, <1>4, <1>5, <1>6 DEF IInv

-----------------------------------------------------------------------------
\* A device keeps its place in the tables, its step and its interfaces, and
\* stays reachable through the context it is constructed on.
LEMMA EditDevice ==
    ASSUME IInv, NEW p \in Path, p \in live, NEW dev, Update(p, dev),
           DeviceOK(dev),
           dev.contexts # <<>>,
           dev.construct_step = device[p].construct_step,
           dev.ids = device[p].ids,
           \A u \in UDN : device_uc_map[u] # None /\ device_uc_map[u].device = p
                           => device_uc_map[u].ip_address \in Contexts(dev),
           seen' \subseteq UDN \X IP, arrivals' \in 0..MaxArrivals,
           arrivals' >= arrivals,
           UNCHANGED <<live, device_udn_map, device_uc_map, counter, signals,
                       running>>
    PROVE  IInv'
<1>1. device' = [device EXCEPT ![p] = dev] /\ device \in [Path -> Devices]
  BY DEF Update, IInv, TypeOK
<1>2. device' \in [Path -> Devices]
  BY <1>1 DEF DeviceOK
<1>3. \A q \in Path : device'[q] = IF q = p THEN dev ELSE device[q]
  BY <1>1
<1>4. TypeOK'
  <2>1. \A q \in Path : IsInjective(device'[q].contexts)
    BY <1>3 DEF DeviceOK, ContextsDistinct, IInv, TypeOK
  <2>2. counter' \in 0..arrivals'
    BY UpnpAssumption DEF IInv, TypeOK
  <2> QED
    BY <1>2, <2>1, <2>2 DEF IInv, TypeOK
<1>5. DevicesOK'
  BY <1>3 DEF IInv, DevicesOK
<1>6. TablesOK' /\ FreshOK' /\ LiveOK'
  BY DEF IInv, TablesOK, FreshOK, LiveOK, Holds
<1>7. ConstructionOnTrack'
  <2> SUFFICES ASSUME NEW u \in UDN, device_uc_map[u] # None
               PROVE  LET chain == device_uc_map[u]
                          d     == device'[chain.device]
                      IN  /\ chain.ip_address \in Contexts(d)
                          /\ chain.tasks = ConstructTasks(d.construct_step)
                          /\ chain.tasks # <<>>
                          /\ d.ids = 0
                          /\ signals[chain.device] = <<>>
    BY DEF ConstructionOnTrack
  <2>1. device_uc_map[u].device \in Path
    BY DEF IInv, TypeOK, Chain
  <2> QED
    BY <1>3, <2>1 DEF IInv, ConstructionOnTrack
<1>8. ListedOK'
  <2>1. \A u \in UDN : device_udn_map[u] # None => device_udn_map[u] \in Path
    BY DEF IInv, TypeOK
  <2> QED
    BY <1>3, <2>1 DEF IInv, ListedOK
<1> QED
  BY <1>4, <1>5, <1>6, <1>7, <1>8 DEF IInv

\* The device of u is freed and leaves the table it was in.
LEMMA DeleteDevice ==
    ASSUME IInv, NEW u \in UDN, NEW p \in Path, Holds(u, p), Delete(p),
           device_udn_map' = [device_udn_map EXCEPT ![u] = None],
           device_uc_map' = [device_uc_map EXCEPT ![u] = None],
           signals' \in [Path -> Seq({"FoundDevice", "LostDevice"})],
           \A q \in Path : q # p => signals'[q] = signals[q],
           seen' \subseteq UDN \X IP,
           UNCHANGED <<counter, running, arrivals>>
    PROVE  IInv'
<1>1. /\ device \in [Path -> Devices]
      /\ device_udn_map \in [UDN -> Path \cup {None}]
      /\ device_uc_map \in [UDN -> Chain \cup {None}]
  BY DEF IInv, TypeOK
<1>2. DeviceDelete(device[p]) = NoDevice
  BY <1>1, DeviceDeleteOK
<1>3. /\ device' = [device EXCEPT ![p] = NoDevice]
      /\ live' = live \ {p}
  BY <1>2 DEF Delete, Update
<1>4. \A q \in Path : device'[q] = IF q = p THEN NoDevice ELSE device[q]
  BY <1>1, <1>3
<1>5. \A v \in UDN :
        /\ device_udn_map'[v] = IF v = u THEN None ELSE device_udn_map[v]
        /\ device_uc_map'[v] = IF v = u THEN None ELSE device_uc_map[v]
  BY <1>1
<1>6. \A v \in UDN : v # u => ~Holds(v, p)
  BY DEF IInv, TablesOK
<1>7. TypeOK'
  <2>1. NoDevice \in Devices /\ IsInjective(NoDevice.contexts)
    BY NoDeviceOK DEF DeviceOK, ContextsDistinct
  <2>2. device' \in [Path -> Devices]
    BY <1>1, <1>3, <2>1
  <2>3. \A q \in Path : IsInjective(device'[q].contexts)
    BY <1>4, <2>1 DEF IInv, TypeOK
  <2> QED
    BY <1>1, <1>3, <2>2, <2>3 DEF IInv, TypeOK
<1>8. DevicesOK'
  BY <1>3, <1>4, NoDeviceOK DEF IInv, DevicesOK
<1>9. \A v \in UDN, q \in Path : Holds(v, q)' <=> v # u /\ Holds(v, q)
  BY <1>5, UpnpAssumption DEF Holds
<1>10. TablesOK'
  BY <1>3, <1>5, <1>6, <1>9 DEF IInv, TablesOK
<1>11. p < counter
  BY DEF IInv, TablesOK, FreshOK, TypeOK, Path
<1>12. FreshOK'
  BY <1>3, <1>11 DEF IInv, FreshOK, TypeOK, Path
<1>13. ASSUME NEW v \in UDN, device_uc_map'[v] # None
       PROVE  /\ v # u /\ device_uc_map'[v] = device_uc_map[v]
              /\ device_uc_map[v].device \in Path
              /\ device_uc_map[v].device # p
  BY <1>1, <1>5, <1>6, <1>13 DEF Holds, Chain
<1>14. ConstructionOnTrack'
  BY <1>4, <1>13 DEF IInv, ConstructionOnTrack
<1>15. ASSUME NEW v \in UDN, device_udn_map'[v] # None
       PROVE  /\ v # u /\ device_udn_map'[v] = device_udn_map[v]
              /\ device_udn_map[v] \in Path
              /\ device_udn_map[v] # p
  BY <1>1, <1>5, <1>6, <1>15 DEF Holds
<1>16. ListedOK'
  <2> SUFFICES ASSUME NEW v \in UDN, device_udn_map'[v] # None
               PROVE  LET q == device_udn_map'[v]
                      IN  /\ device'[q].contexts # <<>>
                          /\ device'[q].construct_step = 2
                          /\ device'[q].ids = InterfaceInfoMax
                          /\ signals'[q] = <<"FoundDevice">>
    BY DEF ListedOK
  <2> DEFINE q == device_udn_map[v]
  <2>1. q \in Path /\ q # p /\ q # None /\ device_udn_map'[v] = q
    BY <1>15, UpnpAssumption
  <2>2. device'[q] = device[q] /\ signals'[q] = signals[q]
    BY <1>4, <2>1
  <2>3. /\ device[q].contexts # <<>>
        /\ device[q].construct_step = 2
        /\ device[q].ids = InterfaceInfoMax
        /\ signals[q] = <<"FoundDevice">>
    BY <2>1 DEF IInv, ListedOK
  <2> QED
    BY <2>1, <2>2, <2>3
<1>17. LiveOK'
  <2> SUFFICES ASSUME running, NEW q \in live, q # p
               PROVE  \E v \in UDN : Holds(v, q)'
    BY <1>3 DEF LiveOK
  <2>1. q \in Path
    BY DEF IInv, TypeOK
  <2>2. PICK v \in UDN : Holds(v, q)
    BY DEF IInv, LiveOK
  <2>3. v # u
    <3>1. ~Holds(u, q)
      BY <1>1, <2>1, UpnpAssumption DEF Holds, IInv, TablesOK
    <3> QED
      BY <2>2, <3>1
  <2> QED
    BY <1>9, <2>1, <2>2, <2>3
<1> QED
  BY <1>7, <1>8, <1>10, <1>12, <1>14, <1>16, <1>17 DEF IInv

\* A device under construction changes together with its chain.
LEMMA EditChain ==
    ASSUME IInv, NEW u \in UDN, device_uc_map[u] # None,
           NEW p \in Path, p = device_uc_map[u].device, NEW dev, Update(p, dev),
           NEW chain \in Chain,
           device_uc_map' = [device_uc_map EXCEPT ![u] = chain],
           chain.device = p, chain.ip_address \in Contexts(dev),
           chain.tasks = ConstructTasks(dev.construct_step),
           chain.tasks # <<>>,
           DeviceOK(dev), dev.ids = 0, seen' \subseteq UDN \X IP,
           UNCHANGED <<live, device_udn_map, counter, signals, running,
                       arrivals>>
    PROVE  IInv'
<1>1. /\ device' = [device EXCEPT ![p] = dev] /\ device \in [Path -> Devices]
      /\ device_udn_map \in [UDN -> Path \cup {None}]
      /\ device_uc_map \in [UDN -> Chain \cup {None}]
      /\ chain # None
  BY UpnpAssumption DEF Update, IInv, TypeOK
<1>2. /\ \A q \in Path : device'[q] = IF q = p THEN dev ELSE device[q]
      /\ \A v \in UDN : device_uc_map'[v] = IF v = u THEN chain
                                             ELSE device_uc_map[v]
  BY <1>1
<1>3. Holds(u, p) /\ p \in live
  BY DEF Holds, IInv, TablesOK
<1>4. TypeOK'
  <2>1. device' \in [Path -> Devices]
    BY <1>1 DEF DeviceOK
  <2>2. \A q \in Path : IsInjective(device'[q].contexts)
    BY <1>2 DEF DeviceOK, ContextsDistinct, IInv, TypeOK
  <2>3. device_uc_map' \in [UDN -> Chain \cup {None}]
    BY <1>1
  <2> QED
    BY <2>1, <2>2, <2>3 DEF IInv, TypeOK
<1>5. DevicesOK'
  BY <1>2, <1>3 DEF IInv, DevicesOK
<1>6. \A v \in UDN, q \in Path : Holds(v, q)' <=> Holds(v, q)
  BY <1>1, <1>2, <1>3 DEF Holds
<1>7. TablesOK'
  <2>1. device_udn_map[u] = None
    BY DEF IInv, TablesOK
  <2> QED
    BY <1>2, <1>6, <2>1 DEF IInv, TablesOK
<1>8. FreshOK'
  BY DEF IInv, FreshOK
<1>9. LiveOK'
  <2>1. live \subseteq Path
    BY DEF IInv, TypeOK
  <2> QED
    BY <1>6, <2>1 DEF IInv, LiveOK
<1>10. ConstructionOnTrack'
  <2> SUFFICES ASSUME NEW v \in UDN, device_uc_map'[v] # None
               PROVE  LET c == device_uc_map'[v]
                          d == device'[c.device]
                      IN  /\ c.ip_address \in Contexts(d)
                          /\ c.tasks = ConstructTasks(d.construct_step)
                          /\ c.tasks # <<>>
                          /\ d.ids = 0
                          /\ signals'[c.device] = <<>>
    BY DEF ConstructionOnTrack
  <2>1. CASE v = u
    BY <1>2, <2>1 DEF IInv, ConstructionOnTrack
  <2>2. CASE v # u
    <3> DEFINE c == device_uc_map[v]
    <3>1. c # None /\ device_uc_map'[v] = c /\ c.device \in Path
      BY <1>1, <1>2, <2>2 DEF Chain
    <3>2. c.device # p
      BY <1>3, <2>2, <3>1 DEF Holds, IInv, TablesOK
    <3> QED
      BY <1>2, <3>1, <3>2 DEF IInv, ConstructionOnTrack
  <2> QED
    BY <2>1, <2>2
<1>11. ListedOK'
  <2> SUFFICES ASSUME NEW v \in UDN, device_udn_map[v] # None
               PROVE  LET q == device_udn_map[v]
                      IN  /\ device'[q].contexts # <<>>
                          /\ device'[q].construct_step = 2
                          /\ device'[q].ids = InterfaceInfoMax
                          /\ signals[q] = <<"FoundDevice">>
    BY DEF ListedOK
  <2>1. device_udn_map[v] \in Path /\ device_udn_map[v] # p
    <3>1. v # u
      BY DEF IInv, TablesOK
    <3> QED
      BY <1>1, <1>3, <3>1 DEF Holds, IInv, TablesOK
  <2> QED
    BY <1>2, <2>1 DEF IInv, ListedOK
<1> QED
  BY <1>4, <1>5, <1>7, <1>8, <1>9, <1>10, <1>11 DEF IInv

-----------------------------------------------------------------------------
\* One lemma per callback.

\* What the device found for u is, and that it can be worked on.
LEMMA LookupFinds ==
    ASSUME IInv, NEW u \in UDN, Lookup(u) # None
    PROVE  /\ Lookup(u) \in Path /\ Holds(u, Lookup(u))
           /\ Lookup(u) \in live
           /\ DeviceOK(device[Lookup(u)])
           /\ device[Lookup(u)].contexts # <<>>
           /\ \A v \in UDN, p \in Path : Holds(v, p) /\ p = Lookup(u) => v = u
<1>1. /\ device_udn_map \in [UDN -> Path \cup {None}]
      /\ device_uc_map \in [UDN -> Chain \cup {None}]
  BY DEF IInv, TypeOK
<1>2. Lookup(u) \in Path /\ Holds(u, Lookup(u))
  BY <1>1 DEF Lookup, Holds, Chain
<1>3. Lookup(u) \in live /\ DeviceOK(device[Lookup(u)])
  BY <1>2 DEF IInv, TablesOK, DevicesOK
<1>4. device[Lookup(u)].contexts # <<>>
  <2>1. CASE device_udn_map[u] # None
    BY <2>1 DEF Lookup, IInv, ListedOK
  <2>2. CASE device_udn_map[u] = None
    <3>1. device_uc_map[u] # None /\ Lookup(u) = device_uc_map[u].device
      BY <2>2 DEF Lookup
    <3>2. device_uc_map[u].ip_address \in Contexts(device[Lookup(u)])
      BY <3>1 DEF IInv, ConstructionOnTrack
    <3> QED
      BY <3>2 DEF Contexts
  <2> QED
    BY <2>1, <2>2
<1> QED
  BY <1>2, <1>3, <1>4 DEF IInv, TablesOK

\* A device under construction is held by one UDN alone.
LEMMA ChainOfLookup ==
    ASSUME IInv, NEW u \in UDN, Lookup(u) # None,
           NEW v \in UDN, device_uc_map[v] # None,
           device_uc_map[v].device = Lookup(u)
    PROVE  v = u /\ device_udn_map[u] = None
<1>1. Holds(v, Lookup(u)) /\ Lookup(u) \in Path
  BY LookupFinds DEF Holds
<1>2. v = u
  BY <1>1, LookupFinds
<1> QED
  BY <1>2 DEF IInv, TablesOK

LEMMA AddContextOK ==
    ASSUME IInv, NEW u \in UDN, NEW ip \in IP, Available(u, ip),
           AddContext(u, ip)
    PROVE  IInv'
<1> DEFINE p == Lookup(u)
           dev == AppendNewContext(device[p], ip)
<1>1. /\ p \in Path /\ p \in live /\ DeviceOK(device[p])
      /\ Update(p, dev) /\ ip \notin Contexts(device[p])
  BY LookupFinds DEF AddContext, HasContext
<1>2. /\ DeviceOK(dev) /\ dev.contexts # <<>>
      /\ Contexts(dev) = Contexts(device[p]) \cup {ip}
      /\ dev.construct_step = device[p].construct_step
      /\ dev.ids = device[p].ids
  BY <1>1, AppendNewContextOK, AppendNewContextProgress DEF SameProgress
<1>3. \A v \in UDN : device_uc_map[v] # None /\ device_uc_map[v].device = p
                       => device_uc_map[v].ip_address \in Contexts(dev)
  BY <1>2 DEF IInv, ConstructionOnTrack
<1>4. /\ seen' \subseteq UDN \X IP /\ arrivals' \in 0..MaxArrivals
      /\ arrivals' >= arrivals
      /\ UNCHANGED <<live, device_udn_map, device_uc_map, counter, signals,
                     running>>
  BY UpnpAssumption DEF Available, AddContext, IInv, TypeOK
<1> HIDE DEF p, dev
<1> QED
  BY <1>1, <1>2, <1>3, <1>4, EditDevice

LEMMA KnownContextOK ==
    ASSUME IInv, NEW u \in UDN, NEW ip \in IP, Available(u, ip),
           KnownContext(u, ip)
    PROVE  IInv'
<1>1. /\ UNCHANGED <<device, live, device_udn_map, device_uc_map, counter,
                     signals, running>>
      /\ seen' \subseteq UDN \X IP /\ arrivals' \in 0..MaxArrivals
      /\ counter' \in 0..arrivals'
  BY UpnpAssumption DEF Available, KnownContext, IInv, TypeOK
<1>2. TypeOK'
  BY <1>1 DEF IInv, TypeOK
<1> QED
  BY <1>1, <1>2 DEF IInv, DevicesOK, TablesOK, Holds, FreshOK,
                    ConstructionOnTrack, ListedOK, LiveOK

LEMMA AddDeviceOK ==
    ASSUME IInv, NEW u \in UDN, NEW ip \in IP, Available(u, ip),
           AddDevice(u, ip)
    PROVE  IInv'
<1> DEFINE p == counter
           dev == DeviceNew(ip)
           chain == NewChain(p, dev, ip)
<1>1. p \in Path /\ p \notin live /\ signals[p] = <<>>
  BY UpnpAssumption DEF Available, IInv, TypeOK, FreshOK, Path
<1>2. /\ dev \in Devices /\ DeviceOK(dev) /\ Contexts(dev) = {ip}
      /\ dev.construct_step = 0 /\ dev.ids = 0
  BY DeviceNewOK DEF DeviceOK, DeviceNew, AppendContext, NoDevice
<1>3. /\ ConstructTasks(0) \in Seq(Task)
      /\ ConstructTasks(0) # <<>>
  BY ConstructTasksSteps DEF Task
<1>4. /\ chain \in Chain /\ chain.device = p /\ chain.ip_address = ip
      /\ chain.tasks = ConstructTasks(0) /\ chain.tasks # <<>>
      /\ chain # None
  <2>1. chain = [device |-> p, ip_address |-> ip, tasks |-> ConstructTasks(0)]
    BY <1>2 DEF NewChain
  <2> HIDE DEF chain, dev
  <2>2. chain \in Chain
    BY <1>1, <1>3, <2>1 DEF Chain
  <2> QED
    BY <1>3, <2>1, <2>2, UpnpAssumption
<1>5. /\ device' = [device EXCEPT ![p] = dev]
      /\ live' = live \cup {p}
      /\ device_uc_map' = [device_uc_map EXCEPT ![u] = chain]
      /\ counter' = counter + 1
      /\ arrivals' = arrivals + 1
      /\ seen' = seen \cup {<<u, ip>>}
      /\ UNCHANGED <<device_udn_map, signals, running>>
  BY DEF Available, AddDevice, Update
<1>6. device_udn_map[u] = None /\ device_uc_map[u] = None
  BY UpnpAssumption DEF AddDevice, Lookup, IInv, TypeOK, Chain
<1> HIDE DEF p, dev, chain
<1>7. /\ device \in [Path -> Devices]
      /\ device_udn_map \in [UDN -> Path \cup {None}]
      /\ device_uc_map \in [UDN -> Chain \cup {None}]
      /\ live \subseteq Path
  BY DEF IInv, TypeOK
<1>8. /\ \A q \in Path : device'[q] = IF q = p THEN dev ELSE device[q]
      /\ \A v \in UDN : device_uc_map'[v] = IF v = u THEN chain
                                             ELSE device_uc_map[v]
  BY <1>5, <1>7
<1>9. TypeOK'
  <2>1. device' \in [Path -> Devices]
    BY <1>2, <1>5, <1>7
  <2>2. \A q \in Path : IsInjective(device'[q].contexts)
    BY <1>2, <1>8 DEF IInv, TypeOK, DeviceOK, ContextsDistinct
  <2>3. device_uc_map' \in [UDN -> Chain \cup {None}]
    BY <1>4, <1>5, <1>7
  <2>4. arrivals' \in 0..MaxArrivals /\ counter' \in 0..arrivals'
    BY <1>5, UpnpAssumption DEF Available, IInv, TypeOK
  <2> QED
    BY <1>1, <1>5, <2>1, <2>2, <2>3, <2>4 DEF IInv, TypeOK
<1>10. DevicesOK'
  BY <1>2, <1>5, <1>8 DEF IInv, DevicesOK
<1>11. \A v \in UDN, q \in Path :
         Holds(v, q)' <=> (v = u /\ q = p) \/ Holds(v, q)
  BY <1>4, <1>5, <1>6, <1>8, UpnpAssumption DEF Holds
<1>12. \A v \in UDN : ~Holds(v, p)
  BY <1>1 DEF IInv, TablesOK
<1>13. TablesOK'
  <2>1. \A v \in UDN, q \in Path : Holds(v, q)' => q \in live'
    BY <1>5, <1>11 DEF IInv, TablesOK
  <2>2. \A v, w \in UDN, q \in Path : Holds(v, q)' /\ Holds(w, q)' => v = w
    BY <1>11, <1>12 DEF IInv, TablesOK
  <2>3. \A v \in UDN : device_udn_map'[v] = None \/ device_uc_map'[v] = None
    BY <1>5, <1>6, <1>8 DEF IInv, TablesOK
  <2> QED
    BY <2>1, <2>2, <2>3 DEF TablesOK
<1>14. FreshOK'
  <2>1. \A q \in Path : q >= counter + 1 => q >= counter /\ q # p
    BY DEF IInv, TypeOK, Path, p
  <2> QED
    BY <1>5, <2>1 DEF IInv, FreshOK
<1>15. ConstructionOnTrack'
  <2> SUFFICES ASSUME NEW v \in UDN, device_uc_map'[v] # None
               PROVE  LET c == device_uc_map'[v]
                          d == device'[c.device]
                      IN  /\ c.ip_address \in Contexts(d)
                          /\ c.tasks = ConstructTasks(d.construct_step)
                          /\ c.tasks # <<>>
                          /\ d.ids = 0
                          /\ signals'[c.device] = <<>>
    BY DEF ConstructionOnTrack
  <2>1. CASE v = u
    BY <1>1, <1>2, <1>4, <1>5, <1>8, <2>1
  <2>2. CASE v # u
    <3> DEFINE c == device_uc_map[v]
    <3>1. c # None /\ device_uc_map'[v] = c /\ c.device \in Path
      BY <1>7, <1>8, <2>2 DEF Chain
    <3>2. device'[c.device] = device[c.device] /\ signals' = signals
      BY <1>5, <1>8, <1>12, <3>1 DEF Holds
    <3> QED
      BY <3>1, <3>2 DEF IInv, ConstructionOnTrack
  <2> QED
    BY <2>1, <2>2
<1>16. ListedOK'
  <2> SUFFICES ASSUME NEW v \in UDN, device_udn_map[v] # None
               PROVE  LET q == device_udn_map[v]
                      IN  /\ device'[q].contexts # <<>>
                          /\ device'[q].construct_step = 2
                          /\ device'[q].ids = InterfaceInfoMax
                          /\ signals[q] = <<"FoundDevice">>
    BY <1>5 DEF ListedOK
  <2>1. device_udn_map[v] \in Path /\ device_udn_map[v] # p
    BY <1>7, <1>12 DEF Holds
  <2> QED
    BY <1>8, <2>1 DEF IInv, ListedOK
<1>17. LiveOK'
  BY <1>1, <1>5, <1>7, <1>11 DEF IInv, LiveOK
<1> QED
  BY <1>9, <1>10, <1>13, <1>14, <1>15, <1>16, <1>17 DEF IInv

\* What callbacks that leave the variables of the invariant alone preserve.
LEMMA QuietOK ==
    ASSUME IInv, seen' \subseteq UDN \X IP,
           UNCHANGED <<device, live, device_udn_map, device_uc_map, counter,
                       signals, running, arrivals>>
    PROVE  IInv'
<1>1. TypeOK'
  BY DEF IInv, TypeOK
<1> QED
  BY <1>1 DEF IInv, DevicesOK, TablesOK, Holds, FreshOK, ConstructionOnTrack,
              ListedOK, LiveOK

LEMMA RemovePublishedOK ==
    ASSUME IInv, NEW u \in UDN, device_udn_map[u] # None, RemovePublished(u),
           seen' \subseteq UDN \X IP, UNCHANGED <<counter, running, arrivals>>
    PROVE  IInv'
<1> DEFINE p == device_udn_map[u]
<1>1. p \in Path /\ Holds(u, p)
  BY DEF IInv, TypeOK, Holds
<1>2. /\ Delete(p)
      /\ device_udn_map' = [device_udn_map EXCEPT ![u] = None]
      /\ signals' = [signals EXCEPT ![p] = Append(signals[p], "LostDevice")]
  BY DEF RemovePublished, Signal
<1>3. device_uc_map' = [device_uc_map EXCEPT ![u] = None]
  <2>1. device_uc_map[u] = None /\ device_uc_map' = device_uc_map
    BY DEF RemovePublished, IInv, TablesOK
  <2> QED
    BY <2>1 DEF IInv, TypeOK
<1> HIDE DEF p
<1>4. /\ signals' \in [Path -> Seq({"FoundDevice", "LostDevice"})]
      /\ \A q \in Path : q # p => signals'[q] = signals[q]
  <2>1. signals \in [Path -> Seq({"FoundDevice", "LostDevice"})]
    BY DEF IInv, TypeOK
  <2>2. Append(signals[p], "LostDevice") \in Seq({"FoundDevice", "LostDevice"})
    BY <1>1, <2>1
  <2> QED
    BY <1>2, <2>1, <2>2
<1> QED
  BY <1>1, <1>2, <1>3, <1>4, DeleteDevice

\* The queue of u is cancelled, or ends so.
LEMMA ChainCancelledOK ==
    ASSUME IInv, NEW u \in UDN, device_uc_map[u] # None, NEW dev,
           ChainEnd(u, dev, TRUE), seen' \subseteq UDN \X IP,
           UNCHANGED <<counter, running, arrivals>>
    PROVE  IInv'
<1> DEFINE p == device_uc_map[u].device
<1>1. p \in Path /\ Holds(u, p)
  BY DEF IInv, TypeOK, Holds, Chain
<1>2. /\ Delete(p) /\ UNCHANGED <<device_udn_map, signals>>
      /\ device_uc_map' = [device_uc_map EXCEPT ![u] = None]
  BY DEF ChainEnd
<1>3. device_udn_map' = [device_udn_map EXCEPT ![u] = None]
  <2>1. device_udn_map[u] = None
    BY DEF IInv, TablesOK
  <2> QED
    BY <1>2, <2>1 DEF IInv, TypeOK
<1>4. signals' \in [Path -> Seq({"FoundDevice", "LostDevice"})]
  BY <1>2 DEF IInv, TypeOK
<1> HIDE DEF p
<1> QED
  BY <1>1, <1>2, <1>3, <1>4, DeleteDevice

\* Where the device of a UDN is when it is found.
LEMMA LookupCases ==
    ASSUME IInv, NEW u \in UDN, Lookup(u) # None
    PROVE  /\ UnderConstruction(u) =>
                /\ device_uc_map[u] # None
                /\ Lookup(u) = device_uc_map[u].device
           /\ ~UnderConstruction(u) =>
                /\ device_udn_map[u] # None
                /\ Lookup(u) = device_udn_map[u]
  BY DEF Lookup, UnderConstruction

\* The chain a device under construction needs next.
LEMMA NewChainOK ==
    ASSUME NEW p \in Path, NEW dev, NEW ip \in IP, dev.construct_step \in 0..1
    PROVE  LET chain == NewChain(p, dev, ip)
           IN  /\ chain \in Chain /\ chain.device = p /\ chain.ip_address = ip
               /\ chain.tasks = ConstructTasks(dev.construct_step)
               /\ chain.tasks # <<>>
<1> DEFINE tasks == ConstructTasks(dev.construct_step)
<1>1. dev.construct_step = 0 \/ dev.construct_step = 1
  OBVIOUS
<1>2. tasks \in Seq(Task) /\ tasks # <<>>
  <2>1. \/ tasks = <<"prv_subscribe", "prv_declare">>
        \/ tasks = <<"prv_declare">>
    BY <1>1, ConstructTasksSteps
  <2>2. /\ <<"prv_subscribe", "prv_declare">> \in Seq(Task)
        /\ <<"prv_subscribe", "prv_declare">> # <<>>
    BY DEF Task
  <2>3. <<"prv_declare">> \in Seq(Task) /\ <<"prv_declare">> # <<>>
    BY DEF Task
  <2> QED
    BY <2>1, <2>2, <2>3, Zenon
<1> HIDE DEF tasks
<1>3. NewChain(p, dev, ip) = [device |-> p, ip_address |-> ip, tasks |-> tasks]
  BY DEF NewChain, tasks
<1>4. NewChain(p, dev, ip) \in Chain
  BY <1>2, <1>3 DEF Chain
<1> QED
  BY <1>2, <1>3, <1>4 DEF tasks

\* The step a chain has reached.
LEMMA ChainStep ==
    ASSUME IInv, NEW u \in UDN, device_uc_map[u] # None
    PROVE  LET p == device_uc_map[u].device
           IN  /\ p \in Path /\ Holds(u, p) /\ p \in live
               /\ DeviceOK(device[p]) /\ device[p].contexts # <<>>
               /\ device[p].ids = 0 /\ signals[p] = <<>>
               /\ device_uc_map[u].ip_address \in Contexts(device[p])
               /\ \/ /\ device[p].construct_step = 0
                     /\ device_uc_map[u].tasks
                          = <<"prv_subscribe", "prv_declare">>
                  \/ /\ device[p].construct_step = 1
                     /\ device_uc_map[u].tasks = <<"prv_declare">>
<1> DEFINE p == device_uc_map[u].device
<1>1. p \in Path /\ Holds(u, p)
  BY DEF IInv, TypeOK, Holds, Chain
<1>2. p \in live /\ DeviceOK(device[p])
  BY <1>1 DEF IInv, TablesOK, DevicesOK
<1>3. /\ device_uc_map[u].ip_address \in Contexts(device[p])
      /\ device_uc_map[u].tasks = ConstructTasks(device[p].construct_step)
      /\ device_uc_map[u].tasks # <<>>
      /\ device[p].ids = 0 /\ signals[p] = <<>>
  BY DEF IInv, ConstructionOnTrack
<1>4. device[p].contexts # <<>>
  BY <1>3 DEF Contexts
<1>5. device[p].construct_step \in 0..2
  BY <1>2 DEF DeviceOK, Devices
<1>6. device[p].construct_step = 0 \/ device[p].construct_step = 1
  BY <1>3, <1>5, ConstructTasksSteps
<1> QED
  BY <1>1, <1>2, <1>3, <1>4, <1>6, ConstructTasksSteps

\* What is left when a device loses one of several contexts.
LEMMA DropContextOK ==
    ASSUME IInv, NEW u \in UDN, NEW ip \in IP, HasContext(u, ip),
           RemoveContext(device[Lookup(u)], ip).contexts # <<>>,
           ~(UnderConstruction(u) /\ device_uc_map[u].ip_address = ip),
           NEW subscribed \in BOOLEAN,
           DropContext(u, RemoveContext(device[Lookup(u)], ip), subscribed),
           seen' \subseteq UDN \X IP, UNCHANGED <<counter, running, arrivals>>
    PROVE  IInv'
<1> DEFINE p == Lookup(u)
           mid == RemoveContext(device[p], ip)
           timeout == mid.timeout_id \/ subscribed
           dev == [mid EXCEPT !.timeout_id = timeout]
<1>1. p # None /\ ip \in Contexts(device[p])
  BY DEF HasContext
<1>2. /\ p \in Path /\ p \in live /\ DeviceOK(device[p])
      /\ \A v \in UDN : Holds(v, p) => v = u
  BY <1>1, LookupFinds
<1>3. /\ DeviceOK(mid) /\ mid.contexts # <<>>
      /\ Contexts(mid) = Contexts(device[p]) \ {ip}
      /\ mid.construct_step = device[p].construct_step
      /\ mid.ids = device[p].ids
  BY <1>1, <1>2, RemoveContextOK, RemoveContextProgress DEF SameProgress
<1>4. /\ Update(p, dev)
      /\ UNCHANGED <<live, device_udn_map, device_uc_map, signals>>
  BY DEF DropContext
<1> HIDE DEF mid
<1>5. timeout \in BOOLEAN
  OBVIOUS
<1> HIDE DEF timeout
<1>6. /\ DeviceOK(dev) /\ dev.contexts # <<>>
      /\ Contexts(dev) = Contexts(device[p]) \ {ip}
      /\ dev.construct_step = device[p].construct_step
      /\ dev.ids = device[p].ids
  BY <1>3, <1>5, SetTimeoutOK, SameContexts
<1>7. ASSUME NEW v \in UDN, device_uc_map[v] # None,
             device_uc_map[v].device = p
      PROVE  device_uc_map[v].ip_address \in Contexts(dev)
  <2>1. v = u /\ device_udn_map[u] = None
    BY <1>1, <1>7, ChainOfLookup
  <2>2. device_uc_map[u].ip_address # ip
    BY <1>7, <2>1 DEF UnderConstruction
  <2> QED
    BY <1>6, <1>7, <2>1, <2>2 DEF IInv, ConstructionOnTrack
<1>8. arrivals' \in 0..MaxArrivals /\ arrivals' >= arrivals
  BY UpnpAssumption DEF IInv, TypeOK
<1> HIDE DEF p, dev
<1> QED
  BY <1>2, <1>4, <1>6, <1>7, <1>8, EditDevice

LEMMA SwitchContextOK ==
    ASSUME IInv, NEW u \in UDN, NEW ip \in IP, HasContext(u, ip),
           RemoveContext(device[Lookup(u)], ip).contexts # <<>>,
           UnderConstruction(u),
           SwitchContext(u, RemoveContext(device[Lookup(u)], ip)),
           seen' \subseteq UDN \X IP, UNCHANGED <<counter, running, arrivals>>
    PROVE  IInv'
<1> DEFINE p == device_uc_map[u].device
           dev == RemoveContext(device[p], ip)
           chain == NewChain(p, dev, GetContext(dev))
<1>1. /\ Lookup(u) = p /\ device_uc_map[u] # None
      /\ ip \in Contexts(device[p])
  BY LookupCases DEF HasContext
<1>2. /\ p \in Path /\ DeviceOK(device[p]) /\ device[p].ids = 0
      /\ device[p].construct_step \in 0..1
  BY <1>1, ChainStep
<1>3. /\ DeviceOK(dev) /\ dev.contexts # <<>>
      /\ dev.construct_step = device[p].construct_step
      /\ dev.ids = device[p].ids
  BY <1>1, <1>2, RemoveContextOK, RemoveContextProgress DEF SameProgress
<1>4. GetContext(dev) \in Contexts(dev) /\ GetContext(dev) \in IP
  <2> HIDE DEF dev
  <2> QED
    BY <1>3, GetContextIsContext DEF DeviceOK
<1>5. /\ Update(p, dev)
      /\ device_uc_map' = [device_uc_map EXCEPT ![u] = chain]
      /\ UNCHANGED <<live, device_udn_map, signals>>
  BY <1>1 DEF SwitchContext
<1>6. /\ chain \in Chain /\ chain.device = p
      /\ chain.ip_address = GetContext(dev)
      /\ chain.tasks = ConstructTasks(dev.construct_step)
      /\ chain.tasks # <<>>
  <2> HIDE DEF dev, p
  <2> QED
    BY <1>2, <1>3, <1>4, NewChainOK
<1>7. p = device_uc_map[u].device
  OBVIOUS
<1> HIDE DEF p, dev, chain
<1> QED
  BY <1>1, <1>2, <1>3, <1>4, <1>5, <1>6, <1>7, EditChain

LEMMA RunSubscribeOK ==
    ASSUME IInv, NEW u \in UDN, RunSubscribe(u)
    PROVE  IInv'
<1> DEFINE chain == device_uc_map[u]
           p == chain.device
           dev == Subscribe(device[p])
           left == [chain EXCEPT !.tasks = Tail(chain.tasks)]
<1>1. /\ chain # None /\ Update(p, dev)
      /\ Head(chain.tasks) = "prv_subscribe"
      /\ device_uc_map' = [device_uc_map EXCEPT ![u] = left]
      /\ UNCHANGED <<live, device_udn_map, counter, seen, signals, running,
                     arrivals>>
  BY DEF RunSubscribe
<1>2. /\ p \in Path /\ DeviceOK(device[p]) /\ device[p].contexts # <<>>
      /\ device[p].ids = 0
      /\ chain.ip_address \in Contexts(device[p])
  BY <1>1, ChainStep
<1>3. /\ device[p].construct_step = 0
      /\ chain.tasks = <<"prv_subscribe", "prv_declare">>
  BY <1>1, ChainStep
<1>4. /\ DeviceOK(dev) /\ dev.ids = 0 /\ dev.construct_step = 1
      /\ Contexts(dev) = Contexts(device[p])
  BY <1>2, <1>3, SubscribeOK, SameContexts
<1>5. chain \in Chain
  BY <1>1 DEF IInv, TypeOK
<1>6. /\ left \in Chain /\ left.device = p
      /\ left.ip_address = chain.ip_address
      /\ left.tasks = ConstructTasks(dev.construct_step)
      /\ left.tasks # <<>>
  <2>1. Tail(chain.tasks) = <<"prv_declare">>
    BY <1>3
  <2>2. <<"prv_declare">> \in Seq(Task) /\ <<"prv_declare">> # <<>>
    BY DEF Task
  <2>3. ConstructTasks(dev.construct_step) = <<"prv_declare">>
    BY <1>4, ConstructTasksSteps
  <2> HIDE DEF dev
  <2>4. left.tasks = <<"prv_declare">>
    BY <1>5, <2>1 DEF Chain
  <2>5. left \in Chain /\ left.device = p /\ left.ip_address = chain.ip_address
    BY <1>5, <2>1, <2>2 DEF Chain
  <2> QED
    BY <2>2, <2>3, <2>4, <2>5
<1>7. p = device_uc_map[u].device /\ seen' \subseteq UDN \X IP
  BY <1>1 DEF IInv, TypeOK
<1>8. left.ip_address \in Contexts(dev)
  BY <1>2, <1>4, <1>6
<1>9. device_uc_map[u] # None
  BY <1>1
<1> HIDE DEF p, dev, left, chain
<1> QED
  BY <1>1, <1>2, <1>4, <1>6, <1>7, <1>8, <1>9, EditChain

\* The chain of u ends with its device constructed: it changes tables.
LEMMA ChainPublishedOK ==
    ASSUME IInv, NEW u \in UDN, device_uc_map[u] # None, NEW dev,
           DeviceOK(dev), dev.contexts # <<>>, dev.construct_step = 2,
           dev.ids = InterfaceInfoMax,
           ChainEnd(u, dev, FALSE), UNCHANGED <<counter, seen, running, arrivals>>
    PROVE  IInv'
<1> DEFINE p == device_uc_map[u].device
<1>1. /\ p \in Path /\ Holds(u, p) /\ p \in live /\ signals[p] = <<>>
  BY ChainStep
<1>2. /\ device_uc_map' = [device_uc_map EXCEPT ![u] = None]
      /\ device_udn_map' = [device_udn_map EXCEPT ![u] = p]
      /\ signals' = [signals EXCEPT ![p] = Append(signals[p], "FoundDevice")]
      /\ device' = [device EXCEPT ![p] = dev]
      /\ UNCHANGED live
  BY DEF ChainEnd, Signal, Update
<1>3. device_udn_map[u] = None
  BY DEF IInv, TablesOK
<1> HIDE DEF p
<1>4. /\ device \in [Path -> Devices]
      /\ device_udn_map \in [UDN -> Path \cup {None}]
      /\ device_uc_map \in [UDN -> Chain \cup {None}]
      /\ signals \in [Path -> Seq({"FoundDevice", "LostDevice"})]
  BY DEF IInv, TypeOK
<1>5. Append(signals[p], "FoundDevice") = <<"FoundDevice">>
  BY <1>1
<1>6. /\ \A q \in Path : device'[q] = IF q = p THEN dev ELSE device[q]
      /\ \A q \in Path : signals'[q] = IF q = p THEN <<"FoundDevice">>
                                                ELSE signals[q]
      /\ \A v \in UDN :
           /\ device_udn_map'[v] = IF v = u THEN p ELSE device_udn_map[v]
           /\ device_uc_map'[v] = IF v = u THEN None ELSE device_uc_map[v]
  BY <1>2, <1>4, <1>5
<1>7. TypeOK'
  <2>1. device' \in [Path -> Devices]
    BY <1>2, <1>4 DEF DeviceOK
  <2>2. \A q \in Path : IsInjective(device'[q].contexts)
    BY <1>6 DEF DeviceOK, ContextsDistinct, IInv, TypeOK
  <2>3. /\ device_udn_map' \in [UDN -> Path \cup {None}]
        /\ device_uc_map' \in [UDN -> Chain \cup {None}]
    BY <1>1, <1>2, <1>4
  <2>4. signals' \in [Path -> Seq({"FoundDevice", "LostDevice"})]
    BY <1>1, <1>2, <1>4, <1>5
  <2> QED
    BY <1>2, <2>1, <2>2, <2>3, <2>4 DEF IInv, TypeOK
<1>8. DevicesOK'
  BY <1>1, <1>2, <1>6 DEF IInv, DevicesOK
<1>9. \A v \in UDN, q \in Path : Holds(v, q)' <=> Holds(v, q)
  <2> SUFFICES ASSUME NEW v \in UDN, NEW q \in Path
               PROVE  Holds(v, q)' <=> Holds(v, q)
    OBVIOUS
  <2>1. CASE v = u
    BY <1>3, <1>6, <2>1, UpnpAssumption DEF Holds, p
  <2>2. CASE v # u
    BY <1>6, <2>2 DEF Holds
  <2> QED
    BY <2>1, <2>2
<1>10. TablesOK'
  BY <1>2, <1>6, <1>9 DEF IInv, TablesOK
<1>11. FreshOK'
  BY <1>1, <1>2, <1>6 DEF IInv, FreshOK
<1>12. LiveOK'
  <2>1. live \subseteq Path
    BY DEF IInv, TypeOK
  <2> QED
    BY <1>2, <1>9, <2>1 DEF IInv, LiveOK
<1>13. ConstructionOnTrack'
  <2> SUFFICES ASSUME NEW v \in UDN, device_uc_map'[v] # None
               PROVE  LET c == device_uc_map'[v]
                          d == device'[c.device]
                      IN  /\ c.ip_address \in Contexts(d)
                          /\ c.tasks = ConstructTasks(d.construct_step)
                          /\ c.tasks # <<>>
                          /\ d.ids = 0
                          /\ signals'[c.device] = <<>>
    BY DEF ConstructionOnTrack
  <2> DEFINE c == device_uc_map[v]
  <2>1. v # u /\ c # None /\ device_uc_map'[v] = c /\ c.device \in Path
    BY <1>4, <1>6 DEF Chain
  <2>2. c.device # p
    BY <1>1, <2>1 DEF Holds, IInv, TablesOK
  <2> QED
    BY <1>6, <2>1, <2>2 DEF IInv, ConstructionOnTrack
<1>14. ListedOK'
  <2> SUFFICES ASSUME NEW v \in UDN, device_udn_map'[v] # None
               PROVE  LET q == device_udn_map'[v]
                      IN  /\ device'[q].contexts # <<>>
                          /\ device'[q].construct_step = 2
                          /\ device'[q].ids = InterfaceInfoMax
                          /\ signals'[q] = <<"FoundDevice">>
    BY DEF ListedOK
  <2>1. CASE v = u
    BY <1>1, <1>6, <2>1
  <2>2. CASE v # u
    <3>1. /\ device_udn_map'[v] = device_udn_map[v]
          /\ device_udn_map[v] # None /\ device_udn_map[v] \in Path
      BY <1>4, <1>6, <2>2
    <3>2. device_udn_map[v] # p
      BY <1>1, <2>2, <3>1 DEF Holds, IInv, TablesOK
    <3> QED
      BY <1>6, <3>1, <3>2 DEF IInv, ListedOK
  <2> QED
    BY <2>1, <2>2
<1> QED
  BY <1>7, <1>8, <1>10, <1>11, <1>12, <1>13, <1>14 DEF IInv

LEMMA RunDeclareOK ==
    ASSUME IInv, NEW u \in UDN, RunDeclare(u)
    PROVE  IInv'
<1> DEFINE p == device_uc_map[u].device
<1>1. /\ device_uc_map[u] # None
      /\ Head(device_uc_map[u].tasks) = "prv_declare"
      /\ UNCHANGED <<counter, seen, running, arrivals>>
  BY DEF RunDeclare
<1>2. PICK published \in 0..InterfaceInfoMax :
        ChainEnd(u, Declare(device[p], published),
                 published < InterfaceInfoMax)
  BY DEF RunDeclare
<1>3. /\ DeviceOK(device[p]) /\ device[p].contexts # <<>>
      /\ device[p].construct_step = 1
  BY <1>1, ChainStep
<1> DEFINE dev == Declare(device[p], published)
<1>4. /\ DeviceOK(dev) /\ dev.contexts # <<>> /\ dev.construct_step = 2
      /\ dev.ids = published
  BY <1>3, DeclareOK
<1>5. seen' \subseteq UDN \X IP
  BY <1>1 DEF IInv, TypeOK
<1> HIDE DEF dev, p
<1>6. CASE published < InterfaceInfoMax
  <2>1. ChainEnd(u, dev, TRUE)
    BY <1>2, <1>6 DEF ChainEnd, dev, p
  <2> QED
    BY <1>1, <1>5, <2>1, ChainCancelledOK
<1>7. CASE ~(published < InterfaceInfoMax)
  <2>1. ChainEnd(u, dev, FALSE)
    BY <1>2, <1>7 DEF ChainEnd, dev, p
  <2>2. published = InterfaceInfoMax
    BY <1>7 DEF InterfaceInfoMax
  <2> QED
    BY <1>1, <1>4, <2>1, <2>2, ChainPublishedOK
<1> QED
  BY <1>6, <1>7

\* A callback that changes one device and none of its contexts.
LEMMA OnlyDeviceOK ==
    ASSUME IInv, NEW p \in Path, p \in live, NEW dev, Update(p, dev),
           OnlyDeviceChanges, DeviceOK(dev), dev.contexts = device[p].contexts,
           dev.contexts # <<>>,
           dev.construct_step = device[p].construct_step,
           dev.ids = device[p].ids
    PROVE  IInv'
<1>1. Contexts(dev) = Contexts(device[p])
  BY SameContexts
<1>2. \A u \in UDN : device_uc_map[u] # None /\ device_uc_map[u].device = p
                       => device_uc_map[u].ip_address \in Contexts(dev)
  BY <1>1 DEF IInv, ConstructionOnTrack
<1>3. /\ seen' \subseteq UDN \X IP /\ arrivals' \in 0..MaxArrivals
      /\ arrivals' >= arrivals
      /\ UNCHANGED <<live, device_udn_map, device_uc_map, counter, signals,
                     running>>
  BY UpnpAssumption DEF OnlyDeviceChanges, IInv, TypeOK
<1> QED
  BY <1>2, <1>3, EditDevice

LEMMA DeviceTimerOK ==
    ASSUME IInv, NEW p \in Path, DeviceTimer(p)
    PROVE  IInv'
<1> DEFINE dev == SubscribeTimeout(device[p])
<1>1. /\ device[p].timeout_id /\ Update(p, dev) /\ OnlyDeviceChanges
  BY DEF DeviceTimer
<1>2. DeviceOK(device[p])
  BY DEF IInv, DevicesOK
<1>3. device[p] # NoDevice /\ device[p].contexts # <<>>
  BY <1>1, <1>2 DEF NoDevice, DeviceOK, NothingDangling
<1>4. p \in live
  BY <1>3 DEF IInv, DevicesOK
<1>5. /\ DeviceOK(dev) /\ dev.contexts = device[p].contexts
      /\ dev.construct_step = device[p].construct_step
      /\ dev.ids = device[p].ids
  BY <1>1, <1>2, SubscribeTimeoutOK
<1> HIDE DEF dev
<1> QED
  BY <1>1, <1>3, <1>4, <1>5, OnlyDeviceOK

\* A service that is in use belongs to a context of an allocated device.
LEMMA UsedService ==
    ASSUME IInv, NEW p \in Path, NEW ip \in IP, device[p].bms[ip] # NoService
    PROVE  /\ DeviceOK(device[p]) /\ p \in live
           /\ ip \in Contexts(device[p]) /\ device[p].contexts # <<>>
<1>1. DeviceOK(device[p])
  BY DEF IInv, DevicesOK
<1>2. p \in live
  BY DEF NoDevice, IInv, DevicesOK
<1>3. ip \in Contexts(device[p])
  BY <1>1 DEF DeviceOK, NothingDangling
<1> QED
  BY <1>1, <1>2, <1>3 DEF Contexts

\* A callback that changes one service and subscribes no other context.
LEMMA ServiceStepOK ==
    ASSUME IInv, NEW p \in Path, NEW ip \in IP, device[p].bms[ip] # NoService,
           NEW b \in Service, ServiceOK(b),
           b.subscribed => device[p].bms[ip].subscribed,
           Update(p, [device[p] EXCEPT !.bms[ip] = b]), OnlyDeviceChanges
    PROVE  IInv'
<1> DEFINE dev == [device[p] EXCEPT !.bms[ip] = b]
<1>1. /\ DeviceOK(device[p]) /\ p \in live
      /\ ip \in Contexts(device[p]) /\ device[p].contexts # <<>>
  BY UsedService
<1>2. DeviceOK(dev)
  BY <1>1, UpdateServiceOK DEF DeviceOK, PreferredOnly
<1>3. /\ dev.contexts = device[p].contexts
      /\ dev.construct_step = device[p].construct_step
      /\ dev.ids = device[p].ids
  BY <1>1 DEF DeviceOK, Devices
<1> HIDE DEF dev
<1>4. Update(p, dev)
  BY DEF dev
<1> QED
  BY <1>1, <1>2, <1>3, <1>4, OnlyDeviceOK

LEMMA SubscriptionLostOK ==
    ASSUME IInv, NEW p \in Path, NEW ip \in IP, SubscriptionLost(p, ip)
    PROVE  IInv'
<1> DEFINE b == device[p].bms[ip]
<1>1. b # NoService
  BY DEF SubscriptionLost, NoService
<1>2. b \in Service /\ ServiceOK(b)
  BY <1>1, UsedService DEF DeviceOK, Devices
<1>3. /\ SubscriptionLostCb(b) \in Service
      /\ ServiceOK(SubscriptionLostCb(b))
      /\ SubscriptionLostCb(b).subscribed => b.subscribed
  BY <1>2, SubscriptionLostServed DEF SubscriptionLost
<1>4. /\ Update(p, [device[p] EXCEPT !.bms[ip] = SubscriptionLostCb(b)])
      /\ OnlyDeviceChanges
  BY DEF SubscriptionLost, UpdateService
<1> QED
  BY <1>1, <1>3, <1>4, ServiceStepOK

LEMMA ReEnableOK ==
    ASSUME IInv, NEW p \in Path, NEW ip \in IP, ReEnable(p, ip)
    PROVE  IInv'
<1> DEFINE b == device[p].bms[ip]
<1>1. b # NoService
  BY DEF ReEnable, NoService
<1>2. b \in Service /\ ServiceOK(b)
  BY <1>1, UsedService DEF DeviceOK, Devices
<1>3. /\ ReEnableSubscription(b) \in Service
      /\ ServiceOK(ReEnableSubscription(b))
      /\ ReEnableSubscription(b).subscribed => b.subscribed
  BY <1>2 DEF ReEnableSubscription, Service, ServiceOK
<1>4. /\ Update(p, [device[p] EXCEPT !.bms[ip] = ReEnableSubscription(b)])
      /\ OnlyDeviceChanges
  BY DEF ReEnable, UpdateService
<1> QED
  BY <1>1, <1>3, <1>4, ServiceStepOK

LEMMA StopOK ==
    ASSUME IInv, Stop
    PROVE  IInv'
<1> DEFINE published == {p \in Path : \E u \in UDN : device_udn_map[u] = p}
<1>1. \A p \in Path : DeviceOK(device[p])
  BY DEF IInv, DevicesOK
<1>2. \A p \in Path : DeviceDelete(device[p]) = NoDevice
  BY <1>1, DeviceDeleteOK DEF DeviceOK
<1>3. /\ \A p \in Path : device'[p] = IF p \in published THEN NoDevice
                                                          ELSE device[p]
      /\ device' = [p \in Path |-> device'[p]]
      /\ live' = live \ published
      /\ device_udn_map' = [u \in UDN |-> None]
      /\ device_uc_map' = [u \in UDN |-> None]
      /\ ~running'
      /\ UNCHANGED <<counter, seen, signals, arrivals>>
  BY <1>2 DEF Stop
<1>4. DevicesOK'
  BY <1>3, NoDeviceOK DEF IInv, DevicesOK
<1>5. TypeOK'
  <2>1. \A p \in Path : device'[p] \in Devices /\ IsInjective(device'[p].contexts)
    BY <1>4 DEF DevicesOK, DeviceOK, ContextsDistinct
  <2>2. device' \in [Path -> Devices]
    BY <1>3, <2>1
  <2>3. running' \in BOOLEAN
    BY DEF Stop
  <2> QED
    BY <1>3, <2>1, <2>2, <2>3 DEF IInv, TypeOK
<1>6. \A u \in UDN : device_udn_map'[u] = None /\ device_uc_map'[u] = None
  BY <1>3
<1>7. TablesOK'
  BY <1>6, UpnpAssumption DEF TablesOK, Holds
<1>8. FreshOK' /\ LiveOK'
  BY <1>3 DEF IInv, FreshOK, LiveOK
<1>9. ConstructionOnTrack' /\ ListedOK'
  BY <1>6 DEF ConstructionOnTrack, ListedOK
<1> QED
  BY <1>4, <1>5, <1>7, <1>8, <1>9 DEF IInv

LEMMA AvailableOK ==
    ASSUME IInv, NEW u \in UDN, NEW ip \in IP, Available(u, ip)
    PROVE  IInv'
  BY AddDeviceOK, AddContextOK, KnownContextOK DEF Available

LEMMA UnavailableOK ==
    ASSUME IInv, NEW u \in UDN, NEW ip \in IP, Unavailable(u, ip)
    PROVE  IInv'
<1>1. /\ seen' \subseteq UDN \X IP
      /\ UNCHANGED <<counter, running, arrivals>>
      /\ RemoveUnknown(u, ip) \/ RemoveKnown(u, ip)
  BY DEF Unavailable, IInv, TypeOK
<1>2. CASE RemoveUnknown(u, ip)
  BY <1>1, <1>2, QuietOK DEF RemoveUnknown
<1>3. CASE RemoveKnown(u, ip)
  <2> DEFINE old == device[Lookup(u)]
             dev == RemoveContext(old, ip)
  <2>1. HasContext(u, ip) /\ Lookup(u) # None
    BY <1>3 DEF RemoveKnown, HasContext
  <2>2. CASE ~UnderConstruction(u) /\ RemovePublished(u)
    BY <1>1, <2>1, <2>2, LookupCases, RemovePublishedOK
  <2>3. CASE UnderConstruction(u) /\ RemoveConstructing(u)
    BY <1>1, <2>1, <2>3, LookupCases, ChainCancelledOK DEF RemoveConstructing
  <2>4. CASE /\ dev.contexts # <<>> /\ UnderConstruction(u)
             /\ SwitchContext(u, dev)
    BY <1>1, <2>1, <2>4, SwitchContextOK
  <2>5. CASE /\ dev.contexts # <<>>
             /\ ~(UnderConstruction(u) /\ device_uc_map[u].ip_address = ip)
             /\ DropContext(u, dev, old.bms[ip].subscribed)
    <3>1. ip \in IP /\ old \in Devices
      BY <2>1, LookupFinds DEF DeviceOK
    <3>2. old.bms[ip].subscribed \in BOOLEAN
      BY <3>1 DEF Devices, Service
    <3> QED
      BY <1>1, <2>1, <2>5, <3>2, DropContextOK
  <2> QED
    BY <1>3, <2>2, <2>3, <2>4, <2>5 DEF RemoveKnown
<1> QED
  BY <1>1, <1>2, <1>3

\* IInv is inductive.
LEMMA NextOK == IInv /\ [Next]_vars => IInv'
<1> SUFFICES ASSUME IInv, [Next]_vars PROVE IInv'
  OBVIOUS
<1>1. ASSUME NEW u \in UDN, NEW ip \in IP, Available(u, ip) PROVE IInv'
  BY <1>1, AvailableOK
<1>2. ASSUME NEW u \in UDN, NEW ip \in IP, Unavailable(u, ip) PROVE IInv'
  BY <1>2, UnavailableOK
<1>3. ASSUME NEW u \in UDN, RunTask(u) PROVE IInv'
  BY <1>3, RunSubscribeOK, RunDeclareOK DEF RunTask
<1>4. ASSUME NEW p \in Path, DeviceTimer(p) PROVE IInv'
  BY <1>4, DeviceTimerOK
<1>5. ASSUME NEW p \in Path, NEW ip \in IP, SubscriptionLost(p, ip) PROVE IInv'
  BY <1>5, SubscriptionLostOK
<1>6. ASSUME NEW p \in Path, NEW ip \in IP, ReEnable(p, ip) PROVE IInv'
  BY <1>6, ReEnableOK
<1>7. CASE Stop
  BY <1>7, StopOK
<1>8. CASE UNCHANGED vars
  <2>1. seen' \subseteq UDN \X IP
    BY <1>8 DEF vars, IInv, TypeOK
  <2> QED
    BY <1>8, <2>1, QuietOK DEF vars
<1> QED
  BY <1>1, <1>2, <1>3, <1>4, <1>5, <1>6, <1>7, <1>8 DEF Next

\* The invariant the theorems below follow from.
THEOREM Invariance == Spec => []IInv
<1> QED
  BY InitOK, NextOK, PTL DEF Spec

-----------------------------------------------------------------------------
\* The invariants of Upnp.tla.

\* Every variable keeps its type, and no address is twice among the contexts
\* of a device: upnp.c adds a context only when it finds none with its address.
THEOREM TypeCorrect == Spec => []TypeOK
<1>1. IInv => TypeOK
  BY DEF IInv
<1> QED
  BY <1>1, Invariance, PTL

\* GUPnP is subscribed on no other context than the preferred one, but for
\* what several handlers of one loss left: whatever the order in which contexts
\* come and go and timers fire, nothing else takes the mark off a context
\* without ending its subscription.
THEOREM OnlyLossesLeaveStrays == Spec => []StraysGaveUp
<1>1. IInv => StraysGaveUp
  <2> SUFFICES ASSUME IInv, NEW p \in Path, NEW ip \in IP,
                      \/ device[p].bms[ip].proxy_on
                      \/ device[p].bms[ip].subscribed
               PROVE  LET b == device[p].bms[ip]
                      IN  /\ ip \in Contexts(device[p])
                          /\ \/ ip = GetContext(device[p])
                             \/ ~b.subscribed /\ b.handlers > 1
    BY DEF StraysGaveUp
  <2>1. device[p].bms[ip] # NoService
    BY DEF NoService
  <2>2. DeviceOK(device[p]) /\ ip \in Contexts(device[p])
    BY <2>1, UsedService
  <2> QED
    BY <2>2 DEF DeviceOK, PreferredOnly, ServiceOK
<1> QED
  BY <1>1, Invariance, PTL

\* Where GUPnP loses no subscription, events come through the preferred context
\* only: every switch ends the subscription it finds, and none is left that it
\* does not find, though the timer may have subscribed a context twice.
THEOREM EventsFollowPreference ==
    ASSUME ~SubscriptionCanLapse
    PROVE  Spec => []EventsThroughPreferred
<1>1. IInv => EventsThroughPreferred
  <2> SUFFICES ASSUME IInv, NEW p \in ListedPaths, NEW ip \in IP,
                      device[p].bms[ip].proxy_on
               PROVE  ip = GetContext(device[p])
    BY DEF EventsThroughPreferred
  <2>1. p \in Path
    BY DEF ListedPaths, IInv, TypeOK
  <2>2. DeviceOK(device[p])
    BY <2>1 DEF IInv, DevicesOK
  <2> QED
    BY <2>2 DEF DeviceOK, PreferredOnly, ServiceOK
<1> QED
  BY <1>1, Invariance, PTL

\* The subscribed flag of a context is never set without a subscription and a
\* notification in GUPnP, whatever the number of handlers a loss runs.
THEOREM SubscriptionsAreServed == Spec => []NotifiedWhileSubscribed
<1>1. IInv => NotifiedWhileSubscribed
  BY DEF IInv, DevicesOK, DeviceOK, ServiceOK, NotifiedWhileSubscribed
<1> QED
  BY <1>1, Invariance, PTL

\* No timer is left behind by a device or a context that has been freed.
THEOREM TimersAreRemoved == Spec => []NoDanglingTimer
<1>1. IInv => NoDanglingTimer
  <2> SUFFICES ASSUME IInv, NEW p \in Path
               PROVE  /\ device[p].timeout_id =>
                           p \in live /\ device[p].contexts # <<>>
                      /\ \A ip \in IP : device[p].bms[ip].timeout_id =>
                           ip \in Contexts(device[p])
    BY DEF NoDanglingTimer
  <2>1. DeviceOK(device[p]) /\ (p \in live \/ device[p] = NoDevice)
    BY DEF IInv, DevicesOK
  <2>2. device[p].timeout_id => p \in live /\ device[p].contexts # <<>>
    BY <2>1 DEF DeviceOK, NothingDangling, NoDevice
  <2>3. \A ip \in IP : device[p].bms[ip].timeout_id =>
                         ip \in Contexts(device[p])
    BY <2>1 DEF DeviceOK, NothingDangling, NoService
  <2> QED
    BY <2>2, <2>3
<1> QED
  BY <1>1, Invariance, PTL

\* A chain of construction tasks continues from the step its device has
\* reached, on a context the device has, also after it was replaced.
THEOREM ConstructionStaysOnTrack == Spec => []ConstructionOnTrack
<1>1. IInv => ConstructionOnTrack
  BY DEF IInv
<1> QED
  BY <1>1, Invariance, PTL

\* Clients are never offered a device that is not fully published.
THEOREM OnlyCompleteDevicesListed == Spec => []ListedIsComplete
<1>1. IInv => ListedIsComplete
  BY DEF IInv, ListedOK, ListedIsComplete, ListedPaths
<1> QED
  BY <1>1, Invariance, PTL

\* No device is leaked, freed while a table holds it, or held twice: a
\* device is in exactly one entry of one table from the callback that creates
\* it to the one that frees it.
THEOREM EveryDeviceIsTracked == Spec => []DevicesTracked
<1>1. IInv => DevicesTracked
  <2> SUFFICES ASSUME IInv, running, NEW p \in Path
               PROVE  LET InUdn == {u \in UDN : device_udn_map[u] = p}
                          InUc  == {u \in UDN : /\ device_uc_map[u] # None
                                                /\ device_uc_map[u].device = p}
                      IN  Cardinality(InUdn) + Cardinality(InUc)
                            = (IF p \in live THEN 1 ELSE 0)
    BY DEF DevicesTracked, IInv, TablesOK
  <2> DEFINE InUdn == {u \in UDN : device_udn_map[u] = p}
             InUc  == {u \in UDN : /\ device_uc_map[u] # None
                                   /\ device_uc_map[u].device = p}
  <2>1. \A u \in UDN : Holds(u, p) <=> u \in InUdn \/ u \in InUc
    BY DEF Holds
  <2>2. ASSUME p \notin live
        PROVE  Cardinality(InUdn) + Cardinality(InUc) = 0
    <3>1. InUdn = {} /\ InUc = {}
      BY <2>1, <2>2 DEF IInv, TablesOK
    <3> HIDE DEF InUdn, InUc
    <3> QED
      BY <3>1, FS_EmptySet
  <2>3. ASSUME p \in live
        PROVE  Cardinality(InUdn) + Cardinality(InUc) = 1
    <3>1. PICK u \in UDN : Holds(u, p)
      BY <2>3 DEF IInv, LiveOK
    <3>2. \A v \in UDN : Holds(v, p) => v = u
      BY <3>1 DEF IInv, TablesOK
    <3>3. \/ InUdn = {u} /\ InUc = {}
          \/ InUdn = {} /\ InUc = {u}
      <4>1. device_udn_map[u] = None \/ device_uc_map[u] = None
        BY DEF IInv, TablesOK
      <4>2. ~(u \in InUdn /\ u \in InUc)
        BY <4>1, UpnpAssumption
      <4>3. InUdn \subseteq UDN /\ InUc \subseteq UDN
        OBVIOUS
      <4> HIDE DEF InUdn, InUc
      <4> QED
        BY <2>1, <3>1, <3>2, <4>2, <4>3
    <3>4. Cardinality({u}) = 1 /\ Cardinality({}) = 0
      BY FS_EmptySet, FS_Singleton
    <3> HIDE DEF InUdn, InUc
    <3> QED
      BY <3>3, <3>4
  <2> HIDE DEF InUdn, InUc
  <2>4. Cardinality(InUdn) + Cardinality(InUc) = (IF p \in live THEN 1 ELSE 0)
    BY <2>2, <2>3
  <2> QED
    BY <2>4 DEF InUdn, InUc
<1> QED
  BY <1>1, Invariance, PTL

-----------------------------------------------------------------------------
\* The action property and the refinement.

\* What is known of a listed device.
LEMMA ListedDevice ==
    ASSUME IInv, NEW p \in ListedPaths
    PROVE  /\ p \in Path /\ p \in live /\ DeviceOK(device[p])
           /\ device[p].contexts # <<>>
           /\ signals[p] = <<"FoundDevice">>
           /\ p # counter
           /\ \A v \in UDN : device_uc_map[v] # None
                               => device_uc_map[v].device # p
<1>1. PICK u \in UDN : device_udn_map[u] = p /\ p # None
  BY DEF ListedPaths
<1>2. p \in Path
  BY <1>1 DEF IInv, TypeOK
<1>3. Holds(u, p)
  BY <1>1 DEF Holds
<1>4. p \in live /\ DeviceOK(device[p])
  BY <1>2, <1>3 DEF IInv, TablesOK, DevicesOK
<1>5. device[p].contexts # <<>> /\ signals[p] = <<"FoundDevice">>
  BY <1>1 DEF IInv, ListedOK
<1>6. p # counter
  BY <1>2, <1>4 DEF IInv, FreshOK, TypeOK, Path
<1>7. ASSUME NEW v \in UDN, device_uc_map[v] # None, device_uc_map[v].device = p
      PROVE  FALSE
  <2>1. Holds(v, p)
    BY <1>7 DEF Holds
  <2>2. v = u
    BY <1>2, <1>3, <2>1 DEF IInv, TablesOK
  <2> QED
    BY <1>1, <1>7, <2>2 DEF IInv, TablesOK
<1> QED
  BY <1>2, <1>4, <1>5, <1>6, <1>7

\* A step after which p has every context it had, if it still exists.
KeepsContexts(p) ==
    p \in live' => Contexts(device[p]) \subseteq Contexts(device'[p])

\* An update of another device, or one that removes no context.
LEMMA UpdateKeeps ==
    ASSUME IInv, NEW p \in Path, NEW q \in Path, NEW dev, Update(q, dev),
           q = p => Contexts(device[p]) \subseteq Contexts(dev)
    PROVE  KeepsContexts(p)
<1>1. device'[p] = IF p = q THEN dev ELSE device[p]
  BY DEF Update, IInv, TypeOK
<1> QED
  BY <1>1 DEF KeepsContexts

LEMMA ChainEndKeeps ==
    ASSUME IInv, NEW p \in ListedPaths, NEW u \in UDN, device_uc_map[u] # None,
           NEW dev, NEW cancelled, ChainEnd(u, dev, cancelled)
    PROVE  KeepsContexts(p)
<1>1. /\ p \in Path /\ device_uc_map[u].device # p
      /\ device_uc_map[u].device \in Path
  BY ListedDevice DEF IInv, TypeOK, Chain
<1>2. \/ Update(device_uc_map[u].device, dev)
      \/ Update(device_uc_map[u].device,
                DeviceDelete(device[device_uc_map[u].device]))
  BY DEF ChainEnd, Delete
<1> QED
  BY <1>1, <1>2, UpdateKeeps

LEMMA AvailableKeeps ==
    ASSUME IInv, NEW p \in ListedPaths, NEW u \in UDN, NEW ip \in IP,
           Available(u, ip)
    PROVE  KeepsContexts(p)
<1>1. p \in Path /\ p # counter
  BY ListedDevice
<1>2. CASE AddDevice(u, ip)
  <2>1. Update(counter, DeviceNew(ip)) /\ counter \in Path
    BY <1>2, UpnpAssumption DEF AddDevice, Available, IInv, TypeOK, Path
  <2> QED
    BY <1>1, <2>1, UpdateKeeps
<1>3. CASE AddContext(u, ip)
  <2> DEFINE q == Lookup(u)
             dev == AppendNewContext(device[q], ip)
  <2>1. /\ q \in Path /\ DeviceOK(device[q]) /\ Update(q, dev)
        /\ ip \notin Contexts(device[q])
    BY <1>3, LookupFinds DEF AddContext, HasContext
  <2>2. Contexts(device[q]) \subseteq Contexts(dev)
    BY <2>1, AppendNewContextOK
  <2> HIDE DEF q, dev
  <2> QED
    BY <1>1, <2>1, <2>2, UpdateKeeps
<1>4. CASE KnownContext(u, ip)
  BY <1>4 DEF KnownContext, KeepsContexts
<1> QED
  BY <1>2, <1>3, <1>4 DEF Available

LEMMA UnavailableHandsOver ==
    ASSUME IInv, NEW p \in ListedPaths, NEW u \in UDN, NEW ip \in IP,
           Unavailable(u, ip)
    PROVE  \/ KeepsContexts(p)
           \/ /\ Contexts(device'[p]) = Contexts(device[p]) \ {ip}
              /\ device[p].bms[ip].subscribed => device'[p].timeout_id
<1>1. p \in Path /\ DeviceOK(device[p])
  BY ListedDevice
<1>2. CASE RemoveUnknown(u, ip)
  BY <1>2 DEF RemoveUnknown, KeepsContexts
<1>3. CASE RemoveKnown(u, ip)
  <2> DEFINE q == Lookup(u)
             mid == RemoveContext(device[q], ip)
             subscribed == device[q].bms[ip].subscribed
             timeout == mid.timeout_id \/ subscribed
             dev == [mid EXCEPT !.timeout_id = timeout]
  <2>1. HasContext(u, ip) /\ q # None
    BY <1>3 DEF RemoveKnown, HasContext
  <2>2. /\ q \in Path /\ DeviceOK(device[q]) /\ ip \in Contexts(device[q])
    BY <2>1, LookupFinds DEF HasContext
  <2>3. CASE ~UnderConstruction(u) /\ RemovePublished(u)
    <3>1. device_udn_map[u] \in Path /\ Delete(device_udn_map[u])
      BY <2>1, <2>3, LookupCases DEF RemovePublished, IInv, TypeOK
    <3>2. CASE device_udn_map[u] = p
      BY <3>1, <3>2 DEF Delete, KeepsContexts
    <3>3. CASE device_udn_map[u] # p
      BY <1>1, <3>1, <3>3, UpdateKeeps DEF Delete
    <3> QED
      BY <3>2, <3>3
  <2>4. CASE UnderConstruction(u) /\ RemoveConstructing(u)
    BY <2>1, <2>4, LookupCases, ChainEndKeeps DEF RemoveConstructing
  <2>5. CASE UnderConstruction(u) /\ SwitchContext(u, mid)
    <3>1. Update(q, mid) /\ q # p
      BY <2>1, <2>5, LookupCases, ListedDevice DEF SwitchContext
    <3> HIDE DEF q, mid
    <3> QED
      BY <1>1, <2>2, <3>1, UpdateKeeps
  <2>6. CASE mid.contexts # <<>> /\ DropContext(u, mid, subscribed)
    <3>1. Update(q, dev)
      BY <2>6 DEF DropContext
    <3>2. DeviceOK(mid) /\ Contexts(mid) = Contexts(device[q]) \ {ip}
      BY <2>2, <2>6, RemoveContextOK
    <3> HIDE DEF mid
    <3>3. timeout \in BOOLEAN /\ (subscribed => timeout)
      OBVIOUS
    <3> HIDE DEF timeout
    <3>4. Contexts(dev) = Contexts(mid)
      BY <2>6, <3>2, <3>3, SetTimeoutOK, SameContexts
    <3>5. dev.timeout_id = timeout
      BY <3>2 DEF DeviceOK, Devices
    <3> HIDE DEF dev
    <3>6. CASE q # p
      <4> HIDE DEF q
      <4> QED
        BY <1>1, <2>2, <3>1, <3>6, UpdateKeeps
    <3>7. CASE q = p
      <4>1. device'[p] = dev
        BY <1>1, <3>1, <3>7 DEF Update, IInv, TypeOK
      <4> QED
        BY <3>2, <3>3, <3>4, <3>5, <3>7, <4>1
    <3> QED
      BY <3>6, <3>7
  <2> QED
    BY <1>3, <2>3, <2>4, <2>5, <2>6 DEF RemoveKnown
<1> QED
  BY <1>2, <1>3 DEF Unavailable

LEMMA OthersKeep ==
    ASSUME IInv, NEW p \in ListedPaths,
           \/ \E u \in UDN : RunTask(u)
           \/ \E q \in Path : DeviceTimer(q)
           \/ \E q \in Path, ip \in IP :
                SubscriptionLost(q, ip) \/ ReEnable(q, ip)
           \/ Stop
           \/ UNCHANGED vars
    PROVE  KeepsContexts(p)
<1>1. p \in Path /\ p \in live
  BY ListedDevice
<1>2. ASSUME NEW u \in UDN, RunSubscribe(u) PROVE KeepsContexts(p)
  <2> DEFINE q == device_uc_map[u].device
             dev == Subscribe(device[q])
  <2>1. device_uc_map[u] # None /\ Update(q, dev)
    BY <1>2 DEF RunSubscribe
  <2>2. q \in Path /\ q # p
    BY <2>1, ChainStep, ListedDevice
  <2> HIDE DEF q, dev
  <2> QED
    BY <1>1, <2>1, <2>2, UpdateKeeps
<1>3. ASSUME NEW u \in UDN, RunDeclare(u) PROVE KeepsContexts(p)
  BY <1>3, ChainEndKeeps DEF RunDeclare
<1>4. ASSUME NEW q \in Path, DeviceTimer(q) PROVE KeepsContexts(p)
  <2> DEFINE dev == SubscribeTimeout(device[q])
  <2>1. Update(q, dev) /\ device[q].timeout_id /\ DeviceOK(device[q])
    BY <1>4 DEF DeviceTimer, IInv, DevicesOK
  <2>2. Contexts(dev) = Contexts(device[q])
    BY <2>1, SubscribeTimeoutOK, SameContexts
  <2> HIDE DEF dev
  <2> QED
    BY <1>1, <2>1, <2>2, UpdateKeeps
<1>5. ASSUME NEW q \in Path, NEW ip \in IP, NEW b,
             Update(q, [device[q] EXCEPT !.bms[ip] = b])
      PROVE  KeepsContexts(p)
  <2> DEFINE dev == [device[q] EXCEPT !.bms[ip] = b]
  <2>1. dev.contexts = device[q].contexts
    BY DEF IInv, TypeOK, Devices
  <2>2. Contexts(dev) = Contexts(device[q])
    BY <2>1, SameContexts
  <2>3. Update(q, dev)
    BY <1>5
  <2> HIDE DEF dev
  <2> QED
    BY <1>1, <2>2, <2>3, UpdateKeeps
<1>6. ASSUME NEW q \in Path, NEW ip \in IP, SubscriptionLost(q, ip)
      PROVE  KeepsContexts(p)
  BY <1>5, <1>6 DEF SubscriptionLost, UpdateService
<1>7. ASSUME NEW q \in Path, NEW ip \in IP, ReEnable(q, ip)
      PROVE  KeepsContexts(p)
  BY <1>5, <1>7 DEF ReEnable, UpdateService
<1>8. CASE Stop
  <2>1. \E u \in UDN : device_udn_map[u] = p
    BY DEF ListedPaths
  <2>2. p \notin live'
    BY <1>1, <1>8, <2>1 DEF Stop
  <2> QED
    BY <2>2 DEF KeepsContexts
<1>9. CASE UNCHANGED vars
  BY <1>9 DEF vars, KeepsContexts
<1> QED
  BY <1>2, <1>3, <1>4, <1>6, <1>7, <1>8, <1>9 DEF RunTask

\* A listed device that loses its subscribed context and not its last one
\* has its timer armed in the same callback.
THEOREM SubscriptionIsHandedOver == Spec => SubscriptionHandedOver
<1> DEFINE HandsOver ==
        \A p \in ListedPaths :
          LET ip == GetContext(device[p])
          IN  /\ device[p].bms[ip].subscribed
              /\ ip \notin Contexts(device'[p])
              /\ p \in live'
              => device'[p].timeout_id
<1>1. IInv /\ [Next]_vars => HandsOver
  <2> SUFFICES ASSUME IInv, [Next]_vars, NEW p \in ListedPaths, p \in live',
                      device[p].bms[GetContext(device[p])].subscribed,
                      GetContext(device[p]) \notin Contexts(device'[p])
               PROVE  device'[p].timeout_id
    BY DEF HandsOver
  <2> DEFINE ip == GetContext(device[p])
  <2>1. ip \in Contexts(device[p])
    BY ListedDevice, GetContextIsContext DEF DeviceOK
  <2>2. ~KeepsContexts(p)
    BY <2>1 DEF KeepsContexts
  <2>3. PICK u \in UDN, removed \in IP : Unavailable(u, removed)
    BY <2>2, AvailableKeeps, OthersKeep DEF Next
  <2>4. /\ Contexts(device'[p]) = Contexts(device[p]) \ {removed}
        /\ device[p].bms[removed].subscribed => device'[p].timeout_id
    BY <2>2, <2>3, UnavailableHandsOver
  <2>5. removed = ip
    BY <2>1, <2>4
  <2> QED
    BY <2>4, <2>5
<1>2. IInv /\ [Next]_vars => [HandsOver]_vars
  BY <1>1
<1> QED
  BY <1>2, Invariance, PTL DEF Spec, SubscriptionHandedOver, HandsOver

\* A timer that is armed stays armed, unless its device is freed or subscribed.
StaysArmed(p) ==
    device[p].timeout_id /\ ~device'[p].timeout_id
      => p \notin live' \/ device'[p].bms[GetContext(device'[p])].subscribed

LEMMA ArmedDevice ==
    ASSUME IInv, NEW p \in Path, device[p].timeout_id
    PROVE  p \in live /\ DeviceOK(device[p]) /\ p # counter
<1>1. DeviceOK(device[p])
  BY DEF IInv, DevicesOK
<1>2. p \in live
  <2>1. p \in live \/ device[p] = NoDevice
    BY DEF IInv, DevicesOK
  <2>2. NoDevice.timeout_id = FALSE
    BY DEF NoDevice
  <2> QED
    BY <2>1, <2>2
<1>3. p # counter
  BY <1>2 DEF IInv, FreshOK, TypeOK, Path
<1> QED
  BY <1>1, <1>2, <1>3

LEMMA UpdateStaysArmed ==
    ASSUME IInv, NEW p \in Path, NEW q \in Path, NEW dev, Update(q, dev),
           q = p => \/ dev.timeout_id = device[p].timeout_id
                    \/ dev.bms[GetContext(dev)].subscribed
                    \/ p \notin live'
    PROVE  StaysArmed(p)
<1>1. device'[p] = IF p = q THEN dev ELSE device[p]
  BY DEF Update, IInv, TypeOK
<1>2. CASE p = q
  <2>1. device'[p] = dev
    BY <1>1, <1>2
  <2> QED
    BY <1>2, <2>1 DEF StaysArmed
<1>3. CASE p # q
  <2>1. device'[p] = device[p]
    BY <1>1, <1>3
  <2> QED
    BY <2>1 DEF StaysArmed
<1> QED
  BY <1>2, <1>3

LEMMA ChainEndStaysArmed ==
    ASSUME IInv, NEW p \in Path, NEW u \in UDN, device_uc_map[u] # None,
           NEW dev, dev.timeout_id = device[device_uc_map[u].device].timeout_id,
           NEW cancelled, ChainEnd(u, dev, cancelled)
    PROVE  StaysArmed(p)
<1> DEFINE q == device_uc_map[u].device
<1>1. q \in Path
  BY DEF IInv, TypeOK, Chain
<1>2. CASE Update(q, dev)
  BY <1>1, <1>2, UpdateStaysArmed
<1>3. CASE Update(q, DeviceDelete(device[q])) /\ live' = live \ {q}
  BY <1>1, <1>3, UpdateStaysArmed
<1> QED
  BY <1>2, <1>3 DEF ChainEnd, Delete

LEMMA AvailableStaysArmed ==
    ASSUME IInv, NEW p \in Path, device[p].timeout_id,
           NEW u \in UDN, NEW ip \in IP, Available(u, ip)
    PROVE  StaysArmed(p)
<1>1. p # counter
  BY ArmedDevice
<1>2. CASE AddDevice(u, ip)
  <2>1. Update(counter, DeviceNew(ip)) /\ counter \in Path
    BY <1>2, UpnpAssumption DEF AddDevice, Available, IInv, TypeOK, Path
  <2> QED
    BY <1>1, <2>1, UpdateStaysArmed
<1>3. CASE AddContext(u, ip)
  <2> DEFINE q == Lookup(u)
             dev == AppendNewContext(device[q], ip)
  <2>1. /\ q \in Path /\ DeviceOK(device[q]) /\ Update(q, dev)
        /\ ip \notin Contexts(device[q])
    BY <1>3, LookupFinds DEF AddContext, HasContext
  <2>2. dev.timeout_id = device[q].timeout_id
    BY <2>1, AppendNewContextProgress DEF SameProgress
  <2> HIDE DEF q, dev
  <2> QED
    BY <2>1, <2>2, UpdateStaysArmed
<1>4. CASE KnownContext(u, ip)
  BY <1>4 DEF KnownContext, StaysArmed
<1> QED
  BY <1>2, <1>3, <1>4 DEF Available

LEMMA UnavailableStaysArmed ==
    ASSUME IInv, NEW p \in Path, NEW u \in UDN, NEW ip \in IP,
           Unavailable(u, ip)
    PROVE  StaysArmed(p)
<1>1. CASE RemoveUnknown(u, ip)
  BY <1>1 DEF RemoveUnknown, StaysArmed
<1>2. CASE RemoveKnown(u, ip)
  <2> DEFINE q == Lookup(u)
             mid == RemoveContext(device[q], ip)
             subscribed == device[q].bms[ip].subscribed
             timeout == mid.timeout_id \/ subscribed
             dev == [mid EXCEPT !.timeout_id = timeout]
  <2>1. HasContext(u, ip) /\ q # None
    BY <1>2 DEF RemoveKnown, HasContext
  <2>2. /\ q \in Path /\ DeviceOK(device[q]) /\ ip \in Contexts(device[q])
    BY <2>1, LookupFinds DEF HasContext
  <2>3. mid.timeout_id = device[q].timeout_id
    BY <2>2, RemoveContextProgress DEF SameProgress
  <2>4. CASE ~UnderConstruction(u) /\ RemovePublished(u)
    <3>1. /\ device_udn_map[u] \in Path
          /\ Update(device_udn_map[u], DeviceDelete(device[device_udn_map[u]]))
          /\ live' = live \ {device_udn_map[u]}
      BY <2>1, <2>4, LookupCases DEF RemovePublished, Delete, IInv, TypeOK
    <3> QED
      BY <3>1, UpdateStaysArmed
  <2>5. CASE UnderConstruction(u) /\ RemoveConstructing(u)
    BY <2>1, <2>5, LookupCases, ChainEndStaysArmed DEF RemoveConstructing
  <2>6. CASE UnderConstruction(u) /\ SwitchContext(u, mid)
    <3>1. Update(q, mid)
      BY <2>1, <2>6, LookupCases DEF SwitchContext
    <3> HIDE DEF q, mid
    <3> QED
      BY <2>2, <2>3, <3>1, UpdateStaysArmed
  <2>7. CASE mid.contexts # <<>> /\ DropContext(u, mid, subscribed)
    <3>1. Update(q, dev)
      BY <2>7 DEF DropContext
    <3>2. mid \in Devices
      BY <2>2, <2>7, RemoveContextOK DEF DeviceOK
    <3> HIDE DEF mid
    <3>3. device[q].timeout_id => timeout
      BY <2>3
    <3>4. timeout \in BOOLEAN
      OBVIOUS
    <3> HIDE DEF timeout
    <3>5. dev.timeout_id = timeout
      BY <3>2 DEF Devices
    <3> HIDE DEF dev
    <3>6. CASE q # p
      <4> HIDE DEF q
      <4> QED
        BY <2>2, <3>1, <3>6, UpdateStaysArmed
    <3>7. CASE q = p
      <4>1. device'[p] = dev
        BY <2>2, <3>1, <3>7 DEF Update, IInv, TypeOK
      <4> QED
        BY <3>3, <3>5, <3>7, <4>1 DEF StaysArmed
    <3> QED
      BY <3>6, <3>7
  <2> QED
    BY <1>2, <2>4, <2>5, <2>6, <2>7 DEF RemoveKnown
<1> QED
  BY <1>1, <1>2 DEF Unavailable

LEMMA OthersStayArmed ==
    ASSUME IInv, NEW p \in Path,
           \/ \E u \in UDN : RunTask(u)
           \/ \E q \in Path : DeviceTimer(q)
           \/ \E q \in Path, ip \in IP :
                SubscriptionLost(q, ip) \/ ReEnable(q, ip)
           \/ Stop
           \/ UNCHANGED vars
    PROVE  StaysArmed(p)
<1>1. ASSUME NEW u \in UDN, RunSubscribe(u) PROVE StaysArmed(p)
  <2> DEFINE q == device_uc_map[u].device
             dev == Subscribe(device[q])
  <2>1. device_uc_map[u] # None /\ Update(q, dev)
    BY <1>1 DEF RunSubscribe
  <2>2. /\ q \in Path /\ DeviceOK(device[q]) /\ device[q].contexts # <<>>
        /\ device[q].construct_step < 2
    BY <2>1, ChainStep
  <2>3. dev.timeout_id = device[q].timeout_id
    BY <2>2, SubscribeOK
  <2> HIDE DEF q, dev
  <2> QED
    BY <2>1, <2>2, <2>3, UpdateStaysArmed
<1>2. ASSUME NEW u \in UDN, RunDeclare(u) PROVE StaysArmed(p)
  <2> DEFINE q == device_uc_map[u].device
  <2>1. device_uc_map[u] # None
    BY <1>2 DEF RunDeclare
  <2>2. PICK published \in 0..InterfaceInfoMax :
           ChainEnd(u, Declare(device[q], published), published < InterfaceInfoMax)
    BY <1>2 DEF RunDeclare
  <2>3. DeviceOK(device[q]) /\ device[q].construct_step < 2
    BY <2>1, ChainStep
  <2>4. Declare(device[q], published).timeout_id = device[q].timeout_id
    BY <2>3, DeclareOK
  <2> DEFINE dev == Declare(device[q], published)
             cancelled == published < InterfaceInfoMax
  <2>5. ChainEnd(u, dev, cancelled) /\ dev.timeout_id = device[q].timeout_id
    BY <2>2, <2>4
  <2> HIDE DEF dev, cancelled
  <2> QED
    BY <2>1, <2>5, ChainEndStaysArmed
<1>3. ASSUME NEW q \in Path, DeviceTimer(q) PROVE StaysArmed(p)
  <2> DEFINE dev == SubscribeTimeout(device[q])
  <2>1. Update(q, dev) /\ device[q].timeout_id /\ DeviceOK(device[q])
    BY <1>3 DEF DeviceTimer, IInv, DevicesOK
  <2>2. dev.bms[GetContext(dev)].subscribed
    BY <2>1, SubscribeTimeoutSubscribes
  <2> HIDE DEF dev
  <2> QED
    BY <2>1, <2>2, UpdateStaysArmed
<1>4. ASSUME NEW q \in Path, NEW ip \in IP, NEW b,
             Update(q, [device[q] EXCEPT !.bms[ip] = b])
      PROVE  StaysArmed(p)
  <2> DEFINE dev == [device[q] EXCEPT !.bms[ip] = b]
  <2>1. dev.timeout_id = device[q].timeout_id
    BY DEF IInv, TypeOK, Devices
  <2>2. Update(q, dev)
    BY <1>4
  <2> HIDE DEF dev
  <2> QED
    BY <2>1, <2>2, UpdateStaysArmed
<1>5. ASSUME NEW q \in Path, NEW ip \in IP, SubscriptionLost(q, ip)
      PROVE  StaysArmed(p)
  BY <1>4, <1>5 DEF SubscriptionLost, UpdateService
<1>6. ASSUME NEW q \in Path, NEW ip \in IP, ReEnable(q, ip)
      PROVE  StaysArmed(p)
  BY <1>4, <1>6 DEF ReEnable, UpdateService
<1>7. CASE Stop
  <2>1. CASE \E u \in UDN : device_udn_map[u] = p
    BY <1>7, <2>1 DEF Stop, StaysArmed
  <2>2. CASE ~\E u \in UDN : device_udn_map[u] = p
    <3>1. device'[p] = device[p]
      BY <1>7, <2>2 DEF Stop
    <3> QED
      BY <3>1 DEF StaysArmed
  <2> QED
    BY <2>1, <2>2
<1>8. CASE UNCHANGED vars
  BY <1>8 DEF vars, StaysArmed
<1> QED
  BY <1>1, <1>2, <1>3, <1>5, <1>6, <1>7, <1>8 DEF RunTask

\* The timer that moves the subscription is never disarmed before it has done
\* its work: each callback that touches the device leaves it alone, subscribes
\* the device, or frees it.
THEOREM TimersStayArmed == Spec => ArmedUntilSubscribed
<1> DEFINE Stays ==
        \A p \in Path :
          device[p].timeout_id /\ ~device'[p].timeout_id
            => \/ p \notin live'
               \/ device'[p].bms[GetContext(device'[p])].subscribed
<1>1. IInv /\ [Next]_vars => Stays
  <2> SUFFICES ASSUME IInv, [Next]_vars, NEW p \in Path, device[p].timeout_id
               PROVE  StaysArmed(p)
    BY DEF StaysArmed
  <2> QED
    BY AvailableStaysArmed, UnavailableStaysArmed, OthersStayArmed DEF Next
<1>2. IInv /\ [Next]_vars => [Stays]_vars
  BY <1>1
<1> QED
  BY <1>2, Invariance, PTL DEF Spec, ArmedUntilSubscribed, Stays

\* What a step that publishes and withdraws nothing is to the clients.
LEMMA NothingListed ==
    ASSUME UNCHANGED <<device_udn_map, signals, running>>
    PROVE  UNCHANGED Promise!vars
  BY DEF Promise!vars, ListedPaths

LEMMA ChainEndPromised ==
    ASSUME IInv, NEW u \in UDN, device_uc_map[u] # None, NEW dev,
           NEW cancelled, ChainEnd(u, dev, cancelled), running, running'
    PROVE  \/ ~cancelled /\ \E p \in Path : Promise!Found(p)
           \/ UNCHANGED Promise!vars
<1> DEFINE p == device_uc_map[u].device
<1>1. CASE UNCHANGED <<device_udn_map, signals>>
  BY <1>1, NothingListed
<1>2. CASE /\ ~cancelled
           /\ device_udn_map' = [device_udn_map EXCEPT ![u] = p]
           /\ Signal(p, "FoundDevice")
  <2>1. p \in Path /\ signals[p] = <<>> /\ device_udn_map[u] = None
    BY ChainStep DEF IInv, TablesOK
  <2> HIDE DEF p
  <2>2. \A v \in UDN : device_udn_map'[v] = IF v = u THEN p
                                             ELSE device_udn_map[v]
    BY <1>2 DEF IInv, TypeOK
  <2>3. ListedPaths' = ListedPaths \cup {p}
    BY <2>1, <2>2, UpnpAssumption DEF ListedPaths
  <2>4. signals' = [signals EXCEPT ![p] = <<"FoundDevice">>]
    <3>1. Append(signals[p], "FoundDevice") = <<"FoundDevice">>
      BY <2>1
    <3> QED
      BY <1>2, <3>1 DEF Signal
  <2>5. Promise!Found(p)
    BY <2>1, <2>3, <2>4 DEF Promise!Found, IInv, TypeOK
  <2> QED
    BY <1>2, <2>1, <2>5
<1> QED
  BY <1>1, <1>2 DEF ChainEnd

LEMMA RemovePublishedPromised ==
    ASSUME IInv, NEW u \in UDN, device_udn_map[u] # None, RemovePublished(u),
           running, running'
    PROVE  device_udn_map[u] \in ListedPaths /\ Promise!Lost(device_udn_map[u])
<1> DEFINE p == device_udn_map[u]
<1>1. p \in Path /\ p # None /\ p \in ListedPaths
  BY DEF IInv, TypeOK, ListedPaths
<1>2. /\ device_udn_map' = [device_udn_map EXCEPT ![u] = None]
      /\ signals' = [signals EXCEPT ![p] = Append(signals[p], "LostDevice")]
  BY DEF RemovePublished, Signal
<1>3. \A v \in UDN : v # u => device_udn_map[v] # p
  BY <1>1 DEF IInv, TablesOK, Holds
<1>4. \A v \in UDN : device_udn_map'[v] = IF v = u THEN None
                                           ELSE device_udn_map[v]
  BY <1>2 DEF IInv, TypeOK
<1>5. device_udn_map[u] = p
  OBVIOUS
<1> HIDE DEF p
<1>6. ListedPaths' = ListedPaths \ {p}
  BY <1>1, <1>3, <1>4, <1>5 DEF ListedPaths
<1>7. Promise!Lost(p)
  BY <1>1, <1>2, <1>6 DEF Promise!Lost, IInv, TypeOK
<1> QED
  BY <1>1, <1>5, <1>7

\* To its clients the service is a directory whose listing and signals never
\* disagree, and which announces and withdraws each path at most once.
THEOREM DirectoryImplemented == Spec => ImplementsDirectory
<1>1. Init => Promise!Init
  <2> SUFFICES ASSUME Init PROVE Promise!Init
    OBVIOUS
  <2>1. ListedPaths = {}
    BY DEF Init, ListedPaths
  <2> QED
    BY <2>1 DEF Init, Promise!Init
<1>2. IInv /\ [Next]_vars => [Promise!Next]_Promise!vars
  <2> SUFFICES ASSUME IInv, [Next]_vars PROVE [Promise!Next]_Promise!vars
    OBVIOUS
  <2>1. ASSUME NEW u \in UDN, NEW ip \in IP, Available(u, ip)
        PROVE  [Promise!Next]_Promise!vars
    BY <2>1, NothingListed DEF Available
  <2>2. ASSUME NEW u \in UDN, NEW ip \in IP, Unavailable(u, ip)
        PROVE  [Promise!Next]_Promise!vars
    <3>1. running /\ running'
      BY <2>2 DEF Unavailable
    <3>2. CASE RemoveUnknown(u, ip)
      BY <2>2, <3>2, NothingListed DEF RemoveUnknown, Unavailable
    <3>3. CASE RemoveKnown(u, ip)
      <4> DEFINE old == device[Lookup(u)]
                 dev == RemoveContext(old, ip)
      <4>1. HasContext(u, ip) /\ Lookup(u) # None
        BY <3>3 DEF RemoveKnown, HasContext
      <4>2. CASE ~UnderConstruction(u) /\ RemovePublished(u)
        <5>1. device_udn_map[u] # None /\ device_udn_map[u] \in Path
          BY <4>1, <4>2, LookupCases DEF IInv, TypeOK
        <5> QED
          BY <3>1, <4>2, <5>1, RemovePublishedPromised DEF Promise!Next
      <4>3. CASE UnderConstruction(u) /\ RemoveConstructing(u)
        BY <3>1, <4>1, <4>3, LookupCases, ChainEndPromised
           DEF RemoveConstructing, Promise!Next
      <4>4. CASE SwitchContext(u, dev)
        BY <2>2, <4>4, NothingListed DEF SwitchContext, Unavailable
      <4>5. CASE DropContext(u, dev, old.bms[ip].subscribed)
        BY <2>2, <4>5, NothingListed DEF DropContext, Unavailable
      <4> QED
        BY <3>3, <4>2, <4>3, <4>4, <4>5 DEF RemoveKnown
    <3> QED
      BY <2>2, <3>2, <3>3 DEF Unavailable
  <2>3. ASSUME NEW u \in UDN, RunTask(u) PROVE [Promise!Next]_Promise!vars
    <3>1. CASE RunSubscribe(u)
      BY <3>1, NothingListed DEF RunSubscribe
    <3>2. CASE RunDeclare(u)
      BY <3>2, ChainEndPromised DEF RunDeclare, Promise!Next
    <3> QED
      BY <2>3, <3>1, <3>2 DEF RunTask
  <2>4. ASSUME OnlyDeviceChanges PROVE [Promise!Next]_Promise!vars
    BY <2>4, NothingListed DEF OnlyDeviceChanges
  <2>5. ASSUME NEW p \in Path, NEW ip \in IP,
               DeviceTimer(p) \/ SubscriptionLost(p, ip) \/ ReEnable(p, ip)
        PROVE  [Promise!Next]_Promise!vars
    BY <2>4, <2>5 DEF DeviceTimer, SubscriptionLost, ReEnable, UpdateService
  <2>6. ASSUME NEW p \in Path, DeviceTimer(p)
        PROVE  [Promise!Next]_Promise!vars
    BY <2>4, <2>6 DEF DeviceTimer
  <2>7. CASE Stop
    <3>1. \A u \in UDN : device_udn_map'[u] = None
      BY <2>7 DEF Stop
    <3>2. ListedPaths' = {}
      BY <3>1 DEF ListedPaths
    <3>3. Promise!Shutdown
      BY <2>7, <3>2 DEF Stop, Promise!Shutdown
    <3> QED
      BY <3>3 DEF Promise!Next
  <2>8. CASE UNCHANGED vars
    BY <2>8, NothingListed DEF vars
  <2> QED
    BY <2>1, <2>2, <2>3, <2>5, <2>6, <2>7, <2>8 DEF Next
<1> QED
  BY <1>1, <1>2, Invariance, PTL DEF Spec, ImplementsDirectory, Promise!Spec

-----------------------------------------------------------------------------
\* The contexts of a device and the networks that announced it.

Announcing(u) == {ip \in IP : <<u, ip>> \in seen}

Reach(u) == IF Lookup(u) = None THEN {} ELSE Contexts(device[Lookup(u)])

\* The context a device loses last is the only one it had.
LEMMA RemoveLast ==
    ASSUME NEW dev, DeviceOK(dev), NEW ip \in Contexts(dev),
           RemoveContext(dev, ip).contexts = <<>>
    PROVE  Contexts(dev) = {ip}
<1> DEFINE s == dev.contexts
           i == ContextIndex(dev, ip)
<1>1. s \in Seq(IP) /\ DOMAIN s = 1..Len(s) /\ Len(s) \in Nat /\ dev \in Devices
  BY DEF DeviceOK, Devices
<1>2. i \in 1..Len(s) /\ s[i] = ip
  BY <1>1 DEF Contexts, ContextIndex
<1>3. RemoveContext(dev, ip).contexts = RemoveAt(s, i)
  BY <1>1 DEF RemoveContext, Devices
<1> HIDE DEF i
<1>4. Len(RemoveAt(s, i)) = Len(s) - 1
  <2> HIDE DEF s
  <2> QED
    BY <1>1, <1>2, RemoveAtProperties
<1>5. Len(RemoveAt(s, i)) = 0
  BY <1>3
<1>6. Len(s) = 1
  <2>1. \A n \in Nat : n - 1 = 0 => n = 1
    OBVIOUS
  <2>2. Len(s) \in Nat
    BY <1>1
  <2>3. Len(s) - 1 = 0
    BY <1>4, <1>5
  <2> HIDE DEF s
  <2> QED
    BY <2>1, <2>2, <2>3
<1> QED
  BY <1>1, <1>2, <1>6 DEF Contexts

\* The device of a UDN whose entries a step changes is still found by it, if it
\* is still allocated.
LEMMA StillFound ==
    ASSUME IInv, IInv', running', NEW u \in UDN, NEW p \in Path, p \in live',
           \A v \in UDN \ {u} : /\ ~Holds(v, p)
                                /\ device_udn_map'[v] = device_udn_map[v]
                                /\ device_uc_map'[v] = device_uc_map[v]
    PROVE  Lookup(u)' = p
<1>1. PICK v \in UDN : Holds(v, p)'
  BY DEF IInv, LiveOK
<1>2. v = u
  BY <1>1 DEF Holds
<1>3. device_udn_map'[u] = None \/ device_uc_map'[u] = None
  BY DEF IInv, TablesOK
<1>4. p # None
  BY UpnpAssumption
<1> QED
  BY <1>1, <1>2, <1>3, <1>4 DEF Holds, Lookup

\* A step that concerns one UDN and one path does not disturb the others.
LEMMA MirrorOne ==
    ASSUME IInv, ContextsMirrorNetwork, running, NEW u \in UDN,
           NEW p \in Path, p = Lookup(u) \/ p = counter,
           \A q \in Path \ {p} : device'[q] = device[q],
           \A v \in UDN \ {u} : /\ device_udn_map'[v] = device_udn_map[v]
                                /\ device_uc_map'[v] = device_uc_map[v]
                                /\ \A ip \in IP : <<v, ip>> \in seen'
                                                    <=> <<v, ip>> \in seen,
           Announcing(u)' = Reach(u)'
    PROVE  ContextsMirrorNetwork'
<1> SUFFICES ASSUME NEW v \in UDN \ {u} PROVE Announcing(v)' = Reach(v)'
  BY DEF ContextsMirrorNetwork, Announcing, Reach
<1>1. Announcing(v)' = Announcing(v) /\ Announcing(v) = Reach(v)
  BY DEF ContextsMirrorNetwork, Announcing, Reach
<1>2. Lookup(v)' = Lookup(v)
  BY DEF Lookup
<1>3. CASE Lookup(v) = None
  BY <1>1, <1>2, <1>3 DEF Reach
<1>4. CASE Lookup(v) # None
  <2>1. /\ Lookup(v) \in Path /\ Holds(v, Lookup(v)) /\ Lookup(v) \in live
        /\ \A w \in UDN, q \in Path : Holds(w, q) /\ q = Lookup(v) => w = v
    BY <1>4, LookupFinds
  <2>2. Lookup(v) # counter
    BY <2>1 DEF IInv, FreshOK, TypeOK, Path
  <2>3. Lookup(v) # Lookup(u)
    <3>1. CASE Lookup(u) = None
      BY <1>4, <3>1
    <3>2. CASE Lookup(u) # None
      BY <2>1, <3>2, LookupFinds
    <3> QED
      BY <3>1, <3>2
  <2>4. device'[Lookup(v)] = device[Lookup(v)]
    BY <2>1, <2>2, <2>3
  <2> QED
    BY <1>1, <1>2, <1>4, <2>4 DEF Reach, Contexts
<1> QED
  BY <1>3, <1>4

\* A step that changes no context.
LEMMA MirrorSame ==
    ASSUME IInv, ContextsMirrorNetwork, running, UNCHANGED seen,
           \A v \in UDN : Lookup(v)' = Lookup(v),
           \A p \in Path : Contexts(device'[p]) = Contexts(device[p])
    PROVE  ContextsMirrorNetwork'
<1> SUFFICES ASSUME NEW v \in UDN PROVE Announcing(v)' = Reach(v)'
  BY DEF ContextsMirrorNetwork, Announcing, Reach
<1>1. Announcing(v)' = Announcing(v) /\ Announcing(v) = Reach(v)
  BY DEF ContextsMirrorNetwork, Announcing, Reach
<1>2. Lookup(v) # None => Lookup(v) \in Path
  BY LookupFinds
<1>3. Reach(v)' = IF Lookup(v)' = None THEN {} ELSE Contexts(device'[Lookup(v)'])
  BY DEF Reach, Contexts
<1> QED
  BY <1>1, <1>2, <1>3 DEF Reach

LEMMA AvailableMirrors ==
    ASSUME IInv, IInv', ContextsMirrorNetwork, NEW u \in UDN, NEW ip \in IP,
           Available(u, ip)
    PROVE  ContextsMirrorNetwork'
<1>1. /\ running /\ running'
      /\ seen' = seen \cup {<<u, ip>>}
      /\ UNCHANGED device_udn_map
  BY DEF Available
<1>2. /\ Announcing(u)' = Announcing(u) \cup {ip}
      /\ \A v \in UDN \ {u}, x \in IP : <<v, x>> \in seen' <=> <<v, x>> \in seen
  BY <1>1 DEF Announcing
<1>3. Announcing(u) = Reach(u)
  BY <1>1 DEF ContextsMirrorNetwork, Announcing, Reach
<1>4. CASE AddDevice(u, ip)
  <2> DEFINE p == counter
             dev == DeviceNew(ip)
  <2>1. p \in Path /\ Contexts(dev) = {ip} /\ p \notin live
    BY <1>4, UpnpAssumption, DeviceNewOK
       DEF Available, IInv, TypeOK, Path, FreshOK
  <2>2. /\ device' = [device EXCEPT ![p] = dev]
        /\ live' = live \cup {p}
        /\ device_uc_map' = [device_uc_map EXCEPT ![u] = NewChain(p, dev, ip)]
        /\ Lookup(u) = None
    BY <1>4 DEF AddDevice, Update
  <2> HIDE DEF p, dev
  <2>3. /\ device'[p] = dev /\ \A q \in Path \ {p} : device'[q] = device[q]
        /\ \A v \in UDN \ {u} : device_uc_map'[v] = device_uc_map[v]
    BY <2>1, <2>2 DEF IInv, TypeOK
  <2>4. \A v \in UDN \ {u} : ~Holds(v, p)
    BY <2>1 DEF IInv, TablesOK
  <2>5. Lookup(u)' = p /\ p # None
    BY <1>1, <2>1, <2>2, <2>3, <2>4, StillFound, UpnpAssumption
  <2>6. Announcing(u)' = Reach(u)'
    BY <1>2, <1>3, <2>1, <2>2, <2>3, <2>5 DEF Reach, Contexts
  <2> QED
    BY <1>1, <1>2, <2>1, <2>3, <2>6, MirrorOne DEF p
<1>5. CASE AddContext(u, ip)
  <2> DEFINE p == Lookup(u)
             dev == AppendNewContext(device[p], ip)
  <2>1. /\ p # None /\ p \in Path /\ DeviceOK(device[p])
        /\ ip \notin Contexts(device[p])
        /\ device' = [device EXCEPT ![p] = dev]
        /\ UNCHANGED device_uc_map
    BY <1>5, LookupFinds DEF AddContext, HasContext, Update
  <2>2. Contexts(dev) = Contexts(device[p]) \cup {ip}
    BY <2>1, AppendNewContextOK
  <2>3. Lookup(u)' = p
    BY <1>1, <2>1 DEF Lookup
  <2>4. Reach(u) = Contexts(device[p])
    BY <2>1 DEF Reach
  <2> HIDE DEF p, dev
  <2>5. device'[p] = dev /\ \A q \in Path \ {p} : device'[q] = device[q]
    BY <2>1 DEF IInv, TypeOK
  <2>6. Announcing(u)' = Reach(u)'
    <3>1. Reach(u)' = Contexts(dev)
      BY <2>1, <2>3, <2>5 DEF Reach, Contexts
    <3> QED
      BY <1>2, <1>3, <2>2, <2>4, <3>1
  <2> QED
    BY <1>1, <1>2, <2>1, <2>5, <2>6, MirrorOne DEF p
<1>6. CASE KnownContext(u, ip)
  <2>1. ip \in Reach(u) /\ UNCHANGED <<device, device_udn_map, device_uc_map>>
    BY <1>1, <1>6 DEF KnownContext, HasContext, Reach
  <2>2. <<u, ip>> \in seen
    BY <1>3, <2>1 DEF Announcing
  <2>3. UNCHANGED seen
    BY <1>1, <2>2
  <2>4. \A v \in UDN : Lookup(v)' = Lookup(v)
    BY <2>1 DEF Lookup
  <2> QED
    BY <1>1, <2>1, <2>3, <2>4, MirrorSame
<1> QED
  BY <1>4, <1>5, <1>6 DEF Available

LEMMA UnavailableMirrors ==
    ASSUME IInv, IInv', ContextsMirrorNetwork, NEW u \in UDN, NEW ip \in IP,
           Unavailable(u, ip)
    PROVE  ContextsMirrorNetwork'
<1>1. /\ running /\ running'
      /\ <<u, ip>> \in seen
      /\ seen' = seen \ {<<u, ip>>}
  BY DEF Unavailable
<1>2. /\ Announcing(u)' = Announcing(u) \ {ip}
      /\ ip \in Announcing(u)
      /\ \A v \in UDN \ {u}, x \in IP : <<v, x>> \in seen' <=> <<v, x>> \in seen
  BY <1>1 DEF Announcing
<1>3. Announcing(u) = Reach(u)
  BY <1>1 DEF ContextsMirrorNetwork, Announcing, Reach
<1>4. HasContext(u, ip) /\ RemoveKnown(u, ip)
  BY <1>2, <1>3 DEF Unavailable, RemoveUnknown, HasContext, Reach
<1> DEFINE p == Lookup(u)
           mid == RemoveContext(device[p], ip)
           subscribed == device[p].bms[ip].subscribed
           timeout == mid.timeout_id \/ subscribed
<1>5. /\ p # None /\ p \in Path /\ p \in live /\ DeviceOK(device[p])
      /\ ip \in Contexts(device[p])
      /\ \A v \in UDN \ {u} : ~Holds(v, p)
  BY <1>4, LookupFinds DEF HasContext
<1>6. Announcing(u)' = Contexts(device[p]) \ {ip}
  BY <1>2, <1>3, <1>5 DEF Reach
\* The step frees the device, and u finds nothing.
<1>7. ASSUME mid.contexts = <<>>,
             NEW dev, device' = [device EXCEPT ![p] = dev],
             device_udn_map' = [device_udn_map EXCEPT ![u] = None],
             device_uc_map' = [device_uc_map EXCEPT ![u] = None]
      PROVE  ContextsMirrorNetwork'
  <2>1. Contexts(device[p]) = {ip}
    BY <1>5, <1>7, RemoveLast
  <2>2. /\ \A q \in Path \ {p} : device'[q] = device[q]
        /\ device_udn_map'[u] = None /\ device_uc_map'[u] = None
        /\ \A v \in UDN \ {u} : /\ device_udn_map'[v] = device_udn_map[v]
                                /\ device_uc_map'[v] = device_uc_map[v]
    BY <1>7 DEF IInv, TypeOK
  <2>3. Announcing(u)' = Reach(u)'
    BY <1>6, <2>1, <2>2 DEF Reach, Lookup
  <2> QED
    BY <1>1, <1>2, <1>5, <2>2, <2>3, MirrorOne
\* The step keeps the device without the context.
<1>8. ASSUME NEW dev, device' = [device EXCEPT ![p] = dev],
             Contexts(dev) = Contexts(device[p]) \ {ip},
             UNCHANGED <<live, device_udn_map>>,
             \A v \in UDN \ {u} : device_uc_map'[v] = device_uc_map[v]
      PROVE  ContextsMirrorNetwork'
  <2>1. Lookup(u)' = p
    BY <1>1, <1>5, <1>8, StillFound
  <2> HIDE DEF p
  <2>2. device'[p] = dev /\ \A q \in Path \ {p} : device'[q] = device[q]
    BY <1>5, <1>8 DEF IInv, TypeOK
  <2>3. Announcing(u)' = Reach(u)'
    BY <1>5, <1>6, <1>8, <2>1, <2>2 DEF Reach, Contexts
  <2> QED
    BY <1>1, <1>2, <1>5, <1>8, <2>2, <2>3, MirrorOne DEF p
<1>9. CASE mid.contexts = <<>> /\ ~UnderConstruction(u) /\ RemovePublished(u)
  <2>1. p = device_udn_map[u] /\ device_udn_map[u] # None
    BY <1>5, <1>9, LookupCases
  <2>2. device_uc_map' = [device_uc_map EXCEPT ![u] = None]
    BY <1>9, <2>1 DEF RemovePublished, IInv, TablesOK, TypeOK
  <2> QED
    BY <1>7, <1>9, <2>1, <2>2 DEF RemovePublished, Delete, Update
<1>10. CASE mid.contexts = <<>> /\ UnderConstruction(u) /\ RemoveConstructing(u)
  <2>1. p = device_uc_map[u].device /\ device_udn_map[u] = None
    BY <1>5, <1>10, LookupCases DEF UnderConstruction
  <2>2. device_udn_map' = [device_udn_map EXCEPT ![u] = None]
    BY <1>10, <2>1 DEF RemoveConstructing, ChainEnd, IInv, TypeOK
  <2> QED
    BY <1>7, <1>10, <2>1, <2>2 DEF RemoveConstructing, ChainEnd, Delete, Update
<1>11. mid.contexts # <<>> => /\ DeviceOK(mid)
                              /\ Contexts(mid) = Contexts(device[p]) \ {ip}
  BY <1>5, RemoveContextOK
<1>12. CASE mid.contexts # <<>> /\ UnderConstruction(u) /\ SwitchContext(u, mid)
  <2>1. p = device_uc_map[u].device
    BY <1>5, <1>12, LookupCases
  <2>2. /\ device' = [device EXCEPT ![p] = mid]
        /\ UNCHANGED <<live, device_udn_map>>
        /\ \A v \in UDN \ {u} : device_uc_map'[v] = device_uc_map[v]
    BY <1>12, <2>1 DEF SwitchContext, Update, IInv, TypeOK
  <2> HIDE DEF mid, p
  <2> QED
    BY <1>8, <1>11, <1>12, <2>2
<1>13. CASE mid.contexts # <<>> /\ DropContext(u, mid, subscribed)
  <2> DEFINE dev == [mid EXCEPT !.timeout_id = timeout]
  <2>1. /\ device' = [device EXCEPT ![p] = dev]
        /\ UNCHANGED <<live, device_udn_map, device_uc_map>>
    BY <1>13 DEF DropContext, Update
  <2>2. timeout \in BOOLEAN
    OBVIOUS
  <2> HIDE DEF timeout, mid
  <2>3. Contexts(dev) = Contexts(mid)
    BY <1>11, <1>13, <2>2, SetTimeoutOK, SameContexts
  <2> HIDE DEF dev, p
  <2> QED
    BY <1>8, <1>11, <1>13, <2>1, <2>3
<1> QED
  BY <1>4, <1>9, <1>10, <1>12, <1>13 DEF RemoveKnown

LEMMA RunTaskMirrors ==
    ASSUME IInv, IInv', ~PublishCanFail, ContextsMirrorNetwork,
           NEW u \in UDN, RunTask(u)
    PROVE  ContextsMirrorNetwork'
<1> DEFINE p == device_uc_map[u].device
<1>1. running /\ running' /\ device_uc_map[u] # None /\ UNCHANGED seen
  BY DEF RunTask, RunSubscribe, RunDeclare
<1>2. /\ p \in Path /\ Holds(u, p) /\ p \in live /\ DeviceOK(device[p])
      /\ device[p].contexts # <<>> /\ device[p].construct_step \in 0..1
      /\ Head(device_uc_map[u].tasks) = "prv_declare"
           => device[p].construct_step = 1
      /\ Head(device_uc_map[u].tasks) = "prv_subscribe"
           => device[p].construct_step = 0
  BY <1>1, ChainStep
<1>3. device_udn_map[u] = None /\ Lookup(u) = p
  BY <1>1 DEF IInv, TablesOK, Lookup
<1>4. \A v \in UDN \ {u} : ~Holds(v, p)
  BY <1>2 DEF IInv, TablesOK
<1>5. ASSUME NEW dev, device' = [device EXCEPT ![p] = dev],
             dev.contexts = device[p].contexts, UNCHANGED live,
             \A v \in UDN \ {u} : /\ device_udn_map'[v] = device_udn_map[v]
                                  /\ device_uc_map'[v] = device_uc_map[v]
      PROVE  ContextsMirrorNetwork'
  <2>1. Lookup(u)' = p /\ p # None
    BY <1>1, <1>2, <1>4, <1>5, StillFound, UpnpAssumption
  <2>2. Announcing(u)' = Contexts(device[p])
    BY <1>1, <1>3, <2>1 DEF ContextsMirrorNetwork, Announcing
  <2>3. Contexts(dev) = Contexts(device[p])
    BY <1>5, SameContexts
  <2> HIDE DEF p
  <2>4. device'[p] = dev /\ \A q \in Path \ {p} : device'[q] = device[q]
    BY <1>2, <1>5 DEF IInv, TypeOK
  <2>5. Reach(u)' = Contexts(device'[p])
    BY <2>1 DEF Reach
  <2>6. Announcing(u)' = Reach(u)'
    BY <2>2, <2>3, <2>4, <2>5
  <2> QED
    BY <1>1, <1>2, <1>3, <1>5, <2>4, <2>6, MirrorOne
<1>6. CASE RunSubscribe(u)
  <2>1. /\ device' = [device EXCEPT ![p] = Subscribe(device[p])]
        /\ UNCHANGED <<live, device_udn_map>>
        /\ \A v \in UDN \ {u} : device_uc_map'[v] = device_uc_map[v]
        /\ device[p].construct_step < 2
    BY <1>2, <1>6 DEF RunSubscribe, Update, IInv, TypeOK
  <2>2. Subscribe(device[p]).contexts = device[p].contexts
    BY <1>2, <2>1, SubscribeOK
  <2> QED
    BY <1>5, <2>1, <2>2
<1>7. CASE RunDeclare(u)
  <2>1. PICK published \in 0..InterfaceInfoMax :
          /\ ~(published < InterfaceInfoMax)
          /\ ChainEnd(u, Declare(device[p], published),
                      published < InterfaceInfoMax)
    BY <1>7 DEF RunDeclare
  <2>2. Declare(device[p], published).contexts = device[p].contexts
    BY <1>2, DeclareOK
  <2>3. /\ device' = [device EXCEPT ![p] = Declare(device[p], published)]
        /\ UNCHANGED live
        /\ \A v \in UDN \ {u} : /\ device_udn_map'[v] = device_udn_map[v]
                                /\ device_uc_map'[v] = device_uc_map[v]
    BY <2>1 DEF ChainEnd, Update, IInv, TypeOK
  <2> QED
    BY <1>5, <2>2, <2>3
<1> QED
  BY <1>6, <1>7 DEF RunTask

\* A timer or GUPnP's notice moves a subscription and no context.
LEMMA OnlyDeviceMirrors ==
    ASSUME IInv, ContextsMirrorNetwork, OnlyDeviceChanges, NEW p \in Path,
           NEW dev, Update(p, dev), Contexts(dev) = Contexts(device[p])
    PROVE  ContextsMirrorNetwork'
<1>1. /\ running /\ UNCHANGED seen
      /\ \A v \in UDN : Lookup(v)' = Lookup(v)
  BY DEF OnlyDeviceChanges, Lookup
<1>2. \A q \in Path : device'[q] = IF q = p THEN dev ELSE device[q]
  BY DEF Update, IInv, TypeOK
<1>3. \A q \in Path : Contexts(device'[q]) = Contexts(device[q])
  BY <1>2
<1> QED
  BY <1>1, <1>3, MirrorSame

LEMMA StepMirrors ==
    ASSUME IInv, IInv', ~PublishCanFail, ContextsMirrorNetwork, [Next]_vars
    PROVE  ContextsMirrorNetwork'
<1>1. ASSUME NEW u \in UDN, NEW ip \in IP, Available(u, ip) \/ Unavailable(u, ip)
      PROVE  ContextsMirrorNetwork'
  BY <1>1, AvailableMirrors, UnavailableMirrors
<1>2. ASSUME NEW u \in UDN, RunTask(u) PROVE ContextsMirrorNetwork'
  BY <1>2, RunTaskMirrors
<1>3. ASSUME NEW p \in Path, DeviceTimer(p) PROVE ContextsMirrorNetwork'
  <2> DEFINE dev == SubscribeTimeout(device[p])
  <2>1. /\ Update(p, dev) /\ OnlyDeviceChanges
        /\ DeviceOK(device[p]) /\ device[p].timeout_id
    BY <1>3 DEF DeviceTimer, IInv, DevicesOK
  <2>2. Contexts(dev) = Contexts(device[p])
    BY <2>1, SubscribeTimeoutOK, SameContexts
  <2> HIDE DEF dev
  <2> QED
    BY <2>1, <2>2, OnlyDeviceMirrors
<1>4. ASSUME NEW p \in Path, NEW ip \in IP, NEW b, OnlyDeviceChanges,
             Update(p, [device[p] EXCEPT !.bms[ip] = b])
      PROVE  ContextsMirrorNetwork'
  <2> DEFINE dev == [device[p] EXCEPT !.bms[ip] = b]
  <2>1. dev.contexts = device[p].contexts
    BY DEF IInv, TypeOK, Devices
  <2>2. Contexts(dev) = Contexts(device[p]) /\ Update(p, dev)
    BY <1>4, <2>1, SameContexts
  <2> HIDE DEF dev
  <2> QED
    BY <1>4, <2>2, OnlyDeviceMirrors
<1>5. ASSUME NEW p \in Path, NEW ip \in IP, SubscriptionLost(p, ip) \/ ReEnable(p, ip)
      PROVE  ContextsMirrorNetwork'
  BY <1>4, <1>5 DEF SubscriptionLost, ReEnable, UpdateService
<1>6. CASE Stop
  BY <1>6 DEF Stop, ContextsMirrorNetwork
<1>7. CASE UNCHANGED vars
  BY <1>7 DEF vars, ContextsMirrorNetwork, Lookup
<1> QED
  BY <1>1, <1>2, <1>3, <1>5, <1>6, <1>7 DEF Next

\* Where publishing cannot fail, the contexts of a device are the networks that
\* announced it and have not withdrawn it (prv_add_device, prv_remove_device).
THEOREM ContextsMirror ==
    ASSUME ~PublishCanFail
    PROVE  Spec => []ContextsMirrorNetwork
<1>1. Init => ContextsMirrorNetwork
  BY DEF Init, ContextsMirrorNetwork, Lookup
<1>2. IInv /\ IInv' /\ ContextsMirrorNetwork /\ [Next]_vars
        => ContextsMirrorNetwork'
  BY StepMirrors
<1> QED
  BY <1>1, <1>2, Invariance, PTL DEF Spec

-----------------------------------------------------------------------------
\* The progress of a construction.

\* After the step the device under construction for u is listed, or still under
\* construction with no more tasks than before.
GoesOn(u) ==
    \/ device_udn_map'[u] = device_uc_map[u].device
    \/ /\ device_uc_map'[u] # None
       /\ device_uc_map'[u].device = device_uc_map[u].device
       /\ Len(device_uc_map'[u].tasks) <= Len(device_uc_map[u].tasks)

\* A device whose last context is removed is found no more.
LEMMA SeenIsFound ==
    ASSUME ContextsMirrorNetwork', running', NEW u \in UDN,
           \E ip \in IP : <<u, ip>> \in seen'
    PROVE  device_udn_map'[u] # None \/ device_uc_map'[u] # None
<1>1. Lookup(u)' # None
  BY DEF ContextsMirrorNetwork
<1> QED
  BY <1>1 DEF Lookup

LEMMA SameChain ==
    ASSUME IInv, NEW u \in UDN, device_uc_map[u] # None,
           device_uc_map'[u] = device_uc_map[u]
    PROVE  GoesOn(u)
<1>1. device_uc_map[u].tasks \in Seq(Task)
  BY DEF IInv, TypeOK, Chain
<1>2. Len(device_uc_map[u].tasks) \in Nat
  BY <1>1, LenProperties
<1> QED
  BY <1>2 DEF GoesOn

LEMMA AvailableGoesOn ==
    ASSUME IInv, NEW u \in UDN, device_uc_map[u] # None,
           NEW v \in UDN, NEW ip \in IP, Available(v, ip)
    PROVE  GoesOn(u)
<1>1. CASE AddDevice(v, ip)
  <2>1. Lookup(v) = None
    BY <1>1 DEF AddDevice
  <2>2. v # u
    <3>1. Lookup(u) # None
      BY UpnpAssumption DEF Lookup, IInv, TypeOK, Chain
    <3> QED
      BY <2>1, <3>1
  <2>3. device_uc_map'[u] = device_uc_map[u]
    BY <1>1, <2>2 DEF AddDevice, IInv, TypeOK
  <2> QED
    BY <2>3, SameChain
<1>2. CASE AddContext(v, ip) \/ KnownContext(v, ip)
  BY <1>2, SameChain DEF AddContext, KnownContext
<1> QED
  BY <1>1, <1>2 DEF Available

LEMMA UnavailableGoesOn ==
    ASSUME IInv, NEW u \in UDN, device_uc_map[u] # None,
           device_udn_map'[u] # None \/ device_uc_map'[u] # None,
           NEW v \in UDN, NEW ip \in IP, Unavailable(v, ip)
    PROVE  GoesOn(u)
<1> DEFINE p == device_uc_map[u].device
           mid == RemoveContext(device[p], ip)
<1>1. device_udn_map[u] = None /\ UnderConstruction(u) /\ Lookup(u) = p
  BY DEF IInv, TablesOK, UnderConstruction, Lookup
<1>2. CASE device_uc_map'[u] = device_uc_map[u]
  BY <1>2, SameChain
<1>3. CASE v = u /\ RemoveConstructing(u)
  <2>1. device_udn_map'[u] = None /\ device_uc_map'[u] = None
    BY <1>1, <1>3 DEF RemoveConstructing, ChainEnd, IInv, TypeOK
  <2> QED
    BY <2>1
<1>4. CASE v = u /\ SwitchContext(u, mid)
  <2>1. device_uc_map'[u] = NewChain(p, mid, GetContext(mid))
    BY <1>4 DEF SwitchContext, IInv, TypeOK
  <2>2. mid.construct_step = device[p].construct_step
    BY ChainStep, RemoveContextProgress DEF SameProgress
  <2>3. device_uc_map[u].tasks = ConstructTasks(device[p].construct_step)
    BY DEF IInv, ConstructionOnTrack
  <2>4. /\ device_uc_map'[u].device = p
        /\ device_uc_map'[u].tasks = device_uc_map[u].tasks
    BY <2>1, <2>2, <2>3 DEF NewChain
  <2>5. device_uc_map'[u] # None
    BY <1>4, <1>1 DEF SwitchContext
  <2>6. Len(device_uc_map[u].tasks) \in Nat
    BY LenProperties DEF IInv, TypeOK, Chain
  <2> QED
    BY <2>4, <2>5, <2>6 DEF GoesOn
<1>5. CASE v # u
  <2>1. \/ device_uc_map' = device_uc_map
        \/ device_uc_map' = [device_uc_map EXCEPT ![v] = None]
        \/ \E chain : device_uc_map' = [device_uc_map EXCEPT ![v] = chain]
    BY DEF Unavailable, RemoveUnknown, RemoveKnown, RemovePublished,
           RemoveConstructing, ChainEnd, SwitchContext, DropContext
  <2>2. device_uc_map'[u] = device_uc_map[u]
    BY <1>5, <2>1 DEF IInv, TypeOK
  <2> QED
    BY <2>2, SameChain
<1>6. CASE v = u /\ RemoveKnown(u, ip)
  <2>1. \/ RemoveConstructing(u)
        \/ SwitchContext(u, mid)
        \/ device_uc_map' = device_uc_map
    BY <1>1, <1>6 DEF RemoveKnown, DropContext
  <2> QED
    BY <1>2, <1>3, <1>4, <1>6, <2>1
<1>7. CASE v = u /\ RemoveUnknown(u, ip)
  BY <1>2, <1>7 DEF RemoveUnknown
<1> QED
  BY <1>5, <1>6, <1>7 DEF Unavailable

LEMMA RunTaskGoesOn ==
    ASSUME IInv, ~PublishCanFail, NEW u \in UDN, device_uc_map[u] # None,
           NEW v \in UDN, RunTask(v)
    PROVE  GoesOn(u)
<1> DEFINE p == device_uc_map[u].device
           tasks == device_uc_map[u].tasks
<1>1. CASE v # u
  <2>1. \/ device_uc_map' = [device_uc_map EXCEPT ![v].tasks = Tail(@)]
        \/ device_uc_map' = [device_uc_map EXCEPT ![v] = None]
    BY DEF RunTask, RunSubscribe, RunDeclare, ChainEnd
  <2>2. device_uc_map'[u] = device_uc_map[u]
    BY <1>1, <2>1 DEF IInv, TypeOK
  <2> QED
    BY <2>2, SameChain
<1>2. CASE v = u /\ RunSubscribe(u)
  <2>1. /\ device_uc_map[u] \in Chain
        /\ device_uc_map' = [device_uc_map EXCEPT ![u].tasks = Tail(@)]
        /\ device_uc_map'[u] = [device_uc_map[u] EXCEPT !.tasks = Tail(@)]
    BY <1>2 DEF RunSubscribe, IInv, TypeOK
  <2>2. /\ device_uc_map'[u].device = p
        /\ device_uc_map'[u].tasks = Tail(tasks)
    BY <2>1 DEF Chain
  <2>3. tasks = <<"prv_subscribe", "prv_declare">>
    <3>1. Head(tasks) = "prv_subscribe"
      BY <1>2 DEF RunSubscribe
    <3>2. Head(<<"prv_declare">>) = "prv_declare"
      OBVIOUS
    <3> HIDE DEF tasks
    <3>3. tasks = <<"prv_subscribe", "prv_declare">> \/ tasks = <<"prv_declare">>
      BY ChainStep DEF tasks
    <3> QED
      BY <3>1, <3>2, <3>3
  <2>4. Len(Tail(tasks)) <= Len(tasks)
    BY <2>3
  <2>5. device_uc_map'[u] # None
    <3>1. Tail(tasks) \in Seq(Task)
      <4>1. Tail(tasks) = <<"prv_declare">>
        BY <2>3
      <4>2. <<"prv_declare">> \in Seq(Task)
        BY DEF Task
      <4> HIDE DEF tasks
      <4> QED
        BY <4>1, <4>2, Zenon
    <3> HIDE DEF tasks
    <3>2. device_uc_map'[u] \in Chain
      BY <2>1, <3>1 DEF Chain, tasks
    <3> QED
      BY <3>2, UpnpAssumption
  <2> HIDE DEF p, tasks
  <2> QED
    BY <2>2, <2>4, <2>5 DEF GoesOn, p, tasks
<1>3. CASE v = u /\ RunDeclare(u)
  <2>1. PICK published \in 0..InterfaceInfoMax :
           /\ published < InterfaceInfoMax => PublishCanFail
           /\ ChainEnd(u, Declare(device[p], published),
                       published < InterfaceInfoMax)
    BY <1>3 DEF RunDeclare
  <2>2. ~(published < InterfaceInfoMax)
    BY <2>1
  <2>3. device_udn_map' = [device_udn_map EXCEPT ![u] = p]
    BY <2>1, <2>2 DEF ChainEnd
  <2>4. device_udn_map'[u] = p
    BY <2>3 DEF IInv, TypeOK
  <2> QED
    BY <2>4 DEF GoesOn
<1> QED
  BY <1>1, <1>2, <1>3 DEF RunTask

\* Where publishing cannot fail, the construction of a device that some network
\* announces is never undone: the object stays, the tasks left only become
\* fewer, and the last of them lists it (prv_remove_device).
THEOREM ConstructionIsKept ==
    ASSUME ~PublishCanFail
    PROVE  Spec => ConstructionKept
<1> DEFINE Kept ==
        \A u \in UDN :
          LET chain == device_uc_map[u]
          IN  chain # None /\ running' /\ (\E ip \in IP : <<u, ip>> \in seen')
              => \/ device_udn_map'[u] = chain.device
                 \/ /\ device_uc_map'[u] # None
                    /\ device_uc_map'[u].device = chain.device
                    /\ Len(device_uc_map'[u].tasks) <= Len(chain.tasks)
<1>1. IInv /\ ContextsMirrorNetwork' /\ [Next]_vars => Kept
  <2> SUFFICES ASSUME IInv, ContextsMirrorNetwork', [Next]_vars, running',
                      NEW u \in UDN, device_uc_map[u] # None,
                      \E ip \in IP : <<u, ip>> \in seen'
               PROVE  GoesOn(u)
    BY DEF GoesOn
  <2>1. device_udn_map'[u] # None \/ device_uc_map'[u] # None
    BY SeenIsFound
  <2>2. ASSUME NEW v \in UDN, NEW ip \in IP, Available(v, ip) PROVE GoesOn(u)
    BY <2>2, AvailableGoesOn
  <2>3. ASSUME NEW v \in UDN, NEW ip \in IP, Unavailable(v, ip) PROVE GoesOn(u)
    BY <2>1, <2>3, UnavailableGoesOn
  <2>4. ASSUME NEW v \in UDN, RunTask(v) PROVE GoesOn(u)
    BY <2>4, RunTaskGoesOn
  <2>5. CASE UNCHANGED device_uc_map
    BY <2>5, SameChain
  <2>6. ~Stop
    BY DEF Stop
  <2> QED
    BY <2>2, <2>3, <2>4, <2>5, <2>6
       DEF Next, vars, DeviceTimer, SubscriptionLost, ReEnable, UpdateService,
           OnlyDeviceChanges
<1>2. IInv /\ ContextsMirrorNetwork' /\ [Next]_vars => [Kept]_vars
  BY <1>1
<1> QED
  BY <1>2, Invariance, ContextsMirror, PTL DEF Spec, ConstructionKept, Kept
=============================================================================
