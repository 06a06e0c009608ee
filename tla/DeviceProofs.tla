---------------------------- MODULE DeviceProofs ----------------------------
(***************************************************************************)
(* What the operations of Device.tla preserve, for every set of addresses. *)
(* DeviceOK collects what is true of every device between two callbacks;   *)
(* there is one lemma per operation.                                       *)
(***************************************************************************)
EXTENDS Device, DataFacts

\* No two contexts of a device have the same address.
ContextsDistinct(dev) == IsInjective(dev.contexts)

\* Only the preferred context is subscribed.
PreferredOnly(dev) ==
    \A ip \in IP : dev.bms[ip].subscribed => ip = GetContext(dev)

\* A subscribed context is served by GUPnP, and one that GUPnP serves without
\* being marked as subscribed has been through a loss that ran several handlers.
ServiceOK(b) ==
    /\ b.subscribed => b.proxy_on /\ b.notifies > 0 /\ b.handlers > 0
    /\ b.proxy_on => b.subscribed \/ (SubscriptionCanLapse /\ b.handlers > 1)

\* Nothing is left of an address that is no context, and only a reachable
\* device has its timer armed.
NothingDangling(dev) ==
    /\ \A ip \in IP : ip \in Contexts(dev) \/ dev.bms[ip] = NoService
    /\ dev.timeout_id => dev.contexts # <<>>

DeviceOK(dev) ==
    /\ dev \in Devices
    /\ ContextsDistinct(dev)
    /\ PreferredOnly(dev)
    /\ \A ip \in IP : ServiceOK(dev.bms[ip])
    /\ NothingDangling(dev)

\* k is the index of the preferred context among the contexts s.
PreferredIndex(s, k) ==
    /\ k \in 1..Len(s)
    /\ \/ k = 1 /\ \A i \in 1..Len(s) : s[i] \notin Loopback
       \/ s[k] \in Loopback /\ \A i \in 1..(k - 1) : s[i] \notin Loopback

-----------------------------------------------------------------------------
\* The preferred context is the one at the preferred index, which is unique.
LEMMA PreferredIndexUnique ==
    ASSUME NEW dev \in Devices, NEW k, PreferredIndex(dev.contexts, k)
    PROVE  GetContext(dev) = dev.contexts[k]
<1> DEFINE s == dev.contexts
           Local == {i \in DOMAIN s : s[i] \in Loopback}
<1>1. s \in Seq(IP) /\ DOMAIN s = 1..Len(s) /\ Len(s) \in Nat
  BY DEF Devices
<1>2. Local \in SUBSET Nat
  BY <1>1
<1>3. CASE Local = {}
  <2>1. k = 1
    BY <1>1, <1>3 DEF PreferredIndex
  <2> QED
    BY <2>1, <1>3 DEF GetContext
<1>4. CASE Local # {}
  <2>1. Min(Local) \in Local /\ \A x \in Local : Min(Local) <= x
    BY <1>2, <1>4, MinProperty
  <2>2. s[k] \in Loopback /\ \A i \in 1..(k - 1) : s[i] \notin Loopback
    BY <1>1, <1>4 DEF PreferredIndex
  <2>3. k \in Local
    BY <1>1, <2>2 DEF PreferredIndex
  <2>4. \A m \in Local : (\A x \in Local : m <= x) => m = k
    <3> SUFFICES ASSUME NEW m \in Local, \A x \in Local : m <= x
                 PROVE  m = k
      OBVIOUS
    <3>1. m \in 1..Len(s) /\ s[m] \in Loopback /\ m <= k
      BY <1>1, <2>3
    <3>2. ~(m < k)
      BY <1>1, <2>2, <3>1 DEF PreferredIndex
    <3> QED
      BY <1>1, <3>1, <3>2 DEF PreferredIndex
  <2>5. Min(Local) = k
    BY <2>1, <2>4
  <2> QED
    BY <2>5, <1>4 DEF GetContext
<1> QED
  BY <1>3, <1>4

LEMMA PreferredIndexExists ==
    ASSUME NEW dev \in Devices, dev.contexts # <<>>
    PROVE  \E k : PreferredIndex(dev.contexts, k)
<1> DEFINE s == dev.contexts
           Local == {i \in DOMAIN s : s[i] \in Loopback}
<1>1. s \in Seq(IP) /\ DOMAIN s = 1..Len(s) /\ Len(s) \in Nat /\ Len(s) > 0
  BY DEF Devices
<1>2. Local \in SUBSET Nat
  BY <1>1
<1>3. CASE Local = {}
  BY <1>1, <1>3 DEF PreferredIndex
<1>4. CASE Local # {}
  <2>1. PICK m \in Local : \A x \in Local : m <= x
    BY <1>2, <1>4, MinProperty
  <2>2. \A i \in 1..(m - 1) : s[i] \notin Loopback
    BY <1>1, <2>1
  <2> QED
    BY <1>1, <2>1, <2>2 DEF PreferredIndex
<1> QED
  BY <1>3, <1>4

\* A device with contexts has a preferred one, which is one of them.
LEMMA GetContextIsContext ==
    ASSUME NEW dev \in Devices, dev.contexts # <<>>
    PROVE  GetContext(dev) \in Contexts(dev) /\ GetContext(dev) \in IP
<1>1. PICK k : PreferredIndex(dev.contexts, k)
  BY PreferredIndexExists
<1>2. GetContext(dev) = dev.contexts[k]
  BY <1>1, PreferredIndexUnique
<1>3. dev.contexts \in Seq(IP) /\ k \in DOMAIN dev.contexts
  BY <1>1 DEF Devices, PreferredIndex
<1> QED
  BY <1>2, <1>3 DEF Contexts

-----------------------------------------------------------------------------
\* The service proxy of a context.

LEMMA ServiceTypes ==
    ASSUME NEW b \in Service
    PROVE  /\ NoService \in Service
           /\ ContextUnsubscribe(b) \in Service
           /\ ~ContextUnsubscribe(b).subscribed
           /\ ServiceOK(b) => ServiceOK(ContextUnsubscribe(b))
           /\ ContextDelete(b) = NoService
           /\ ServiceSubscribe(b) \in Service
           /\ ServiceOK(ServiceSubscribe(b))
           /\ ReEnableSubscription(b) \in Service
<1>1. NoService \in Service
  BY DEF NoService, Service
<1>2. RemoveNotify(b.notifies, 1) \in Nat
  BY DEF Service, RemoveNotify
<1>3. ContextUnsubscribe(b) \in Service
  BY <1>2 DEF ContextUnsubscribe, Service
<1>4. ContextUnsubscribe(b).subscribed = FALSE
  <2>1. CASE b.subscribed = TRUE
    BY <2>1 DEF ContextUnsubscribe, Service
  <2>2. CASE b.subscribed = FALSE
    BY <2>2 DEF ContextUnsubscribe, Service
  <2> QED
    BY <2>1, <2>2 DEF Service
<1>5. ContextDelete(b) = NoService
  <2>1. ContextUnsubscribe(b).timeout_id = FALSE
    BY DEF ContextUnsubscribe, Service
  <2>2. NoService.timeout_id = FALSE
    BY DEF NoService
  <2>3. \A t : t = NoService.timeout_id
                => [NoService EXCEPT !.timeout_id = t] = NoService
    BY <1>1, Zenon DEF Service
  <2> QED
    BY <2>1, <2>2, <2>3 DEF ContextDelete
<1>6. ServiceSubscribe(b) \in Service
  <2>1. b.notifies + 1 \in Nat /\ b.handlers + 1 \in Nat
    BY DEF Service
  <2>2. \A n, m \in Nat :
            [b EXCEPT !.subscribed = TRUE, !.proxy_on = TRUE,
                      !.notifies = n, !.handlers = m] \in Service
    BY Zenon DEF Service
  <2> QED
    BY <2>1, <2>2 DEF ServiceSubscribe
<1>7. ServiceOK(ServiceSubscribe(b))
  BY DEF ServiceSubscribe, Service, ServiceOK
<1>8. ReEnableSubscription(b) \in Service
  BY DEF ReEnableSubscription, Service
<1>9. ServiceOK(b) => ServiceOK(ContextUnsubscribe(b))
  <2> SUFFICES ASSUME ServiceOK(b) PROVE ServiceOK(ContextUnsubscribe(b))
    OBVIOUS
  <2>1. CASE b.subscribed
    <3>1. ContextUnsubscribe(b).proxy_on = FALSE
      BY <2>1 DEF ContextUnsubscribe, Service
    <3> QED
      BY <1>4, <3>1 DEF ServiceOK
  <2>2. CASE ~b.subscribed
    <3>1. /\ ContextUnsubscribe(b).proxy_on = b.proxy_on
          /\ ContextUnsubscribe(b).handlers = b.handlers
      BY <2>2 DEF ContextUnsubscribe, Service
    <3> QED
      BY <1>4, <2>2, <3>1 DEF ServiceOK
  <2> QED
    BY <2>1, <2>2
<1> QED
  BY <1>1, <1>3, <1>4, <1>5, <1>6, <1>7, <1>8, <1>9

\* However many handlers run, and whatever the timer, a context that is still
\* marked as subscribed afterwards has been subscribed again, and one that was
\* subscribed again without the mark had a second handler to give up.
LEMMA SubscriptionLostServed ==
    ASSUME NEW b \in Service, ServiceOK(b), b.proxy_on, SubscriptionCanLapse
    PROVE  /\ SubscriptionLostCb(b) \in Service
           /\ ServiceOK(SubscriptionLostCb(b))
           /\ SubscriptionLostCb(b).subscribed => b.subscribed
<1> DEFINE n == b.handlers
           giveups == IF b.timeout_id THEN (n + 1) \div 2 ELSE n \div 2
           on == n > giveups
           timer == IF n % 2 = 0 THEN b.timeout_id ELSE ~b.timeout_id
           left == RemoveNotify(b.notifies, giveups)
           still == b.subscribed /\ giveups = 0
           new == [b EXCEPT !.proxy_on = on, !.timeout_id = timer,
                            !.notifies = left, !.subscribed = still]
<1>1. n \in Nat /\ giveups \in Nat
  BY DEF Service
<1>2. left \in Nat
  BY <1>1 DEF Service, RemoveNotify
<1>3. on \in BOOLEAN /\ timer \in BOOLEAN /\ still \in BOOLEAN
  <2>1. on \in BOOLEAN /\ still \in BOOLEAN
    OBVIOUS
  <2>2. timer \in BOOLEAN
    BY Zenon DEF Service
  <2> QED
    BY <2>1, <2>2
<1>4. still => on /\ left > 0 /\ n > 0 /\ b.subscribed
  BY <1>1 DEF Service, ServiceOK, RemoveNotify
<1>7. on => still \/ n > 1
  <2>1. CASE giveups = 0
    BY <2>1 DEF ServiceOK
  <2>2. CASE giveups # 0
    BY <1>1, <2>2
  <2> QED
    BY <2>1, <2>2
<1>5. SubscriptionLostCb(b) = new
  BY DEF SubscriptionLostCb
<1> HIDE DEF on, timer, left, still, giveups
<1>6. /\ new \in Service
      /\ new.proxy_on = on /\ new.notifies = left
      /\ new.handlers = n /\ new.subscribed = still
  BY <1>2, <1>3 DEF Service
<1> QED
  BY <1>4, <1>5, <1>6, <1>7 DEF ServiceOK

-----------------------------------------------------------------------------
\* Devices.

\* The preferred context depends on the contexts alone.
LEMMA SameContexts ==
    ASSUME NEW dev, NEW other, dev.contexts = other.contexts
    PROVE  GetContext(dev) = GetContext(other) /\ Contexts(dev) = Contexts(other)
  BY DEF GetContext, Contexts

LEMMA NoDeviceOK == DeviceOK(NoDevice)
<1>1. NoDevice \in Devices
  BY DEF NoDevice, Devices, NoService, Service, InterfaceInfoMax
<1>2. ContextsDistinct(NoDevice)
  BY DEF NoDevice, ContextsDistinct, IsInjective
<1> QED
  BY <1>1, <1>2 DEF DeviceOK, PreferredOnly, ServiceOK, NothingDangling,
                    NoDevice, NoService

LEMMA DeviceDeleteOK ==
    ASSUME NEW dev \in Devices
    PROVE  DeviceDelete(dev) = NoDevice
<1>1. \A ip \in IP : ContextDelete(dev.bms[ip]) = NoService
  BY ServiceTypes DEF Devices
<1>2. [ip \in IP |-> ContextDelete(dev.bms[ip])] = [ip \in IP |-> NoService]
  BY <1>1
<1>3. NoDevice \in Devices /\ NoDevice.bms = [ip \in IP |-> NoService]
  BY NoDeviceOK DEF DeviceOK, NoDevice
<1>4. \A t : t = NoDevice.bms => [NoDevice EXCEPT !.bms = t] = NoDevice
  BY <1>3, Zenon DEF Devices
<1> QED
  BY <1>2, <1>3, <1>4 DEF DeviceDelete

\* An update of the service of the preferred context, or of one that the
\* update leaves unsubscribed.
LEMMA UpdateServiceOK ==
    ASSUME NEW dev, DeviceOK(dev), NEW ip \in Contexts(dev),
           NEW b \in Service, ServiceOK(b),
           b.subscribed => ip = GetContext(dev)
    PROVE  DeviceOK([dev EXCEPT !.bms[ip] = b])
<1> DEFINE new == [dev EXCEPT !.bms[ip] = b]
<1>1. dev \in Devices /\ ip \in IP
  BY DEF DeviceOK, Devices, Contexts
<1>2. new \in Devices
  BY <1>1 DEF Devices
<1>3. new.contexts = dev.contexts /\ new.timeout_id = dev.timeout_id
  BY <1>1 DEF Devices
<1>4. \A other \in IP : new.bms[other] = IF other = ip THEN b ELSE dev.bms[other]
  BY <1>1 DEF Devices
<1>5. GetContext(new) = GetContext(dev) /\ Contexts(new) = Contexts(dev)
  BY <1>3, SameContexts
<1> HIDE DEF new
<1>6. ContextsDistinct(new)
  BY <1>3 DEF DeviceOK, ContextsDistinct
<1>7. PreferredOnly(new)
  BY <1>4, <1>5 DEF DeviceOK, PreferredOnly
<1>8. \A other \in IP : ServiceOK(new.bms[other])
  BY <1>4 DEF DeviceOK
<1>9. NothingDangling(new)
  BY <1>3, <1>4, <1>5 DEF DeviceOK, NothingDangling
<1>10. DeviceOK(new)
  BY <1>2, <1>6, <1>7, <1>8, <1>9 DEF DeviceOK
<1> QED
  BY <1>10 DEF new

LEMMA SubscribeToServiceChangesOK ==
    ASSUME NEW dev, DeviceOK(dev), dev.contexts # <<>>
    PROVE  /\ DeviceOK(SubscribeToServiceChanges(dev))
           /\ SubscribeToServiceChanges(dev).contexts = dev.contexts
<1> DEFINE ip == GetContext(dev)
           b == ServiceSubscribe(dev.bms[ip])
<1>1. ip \in Contexts(dev) /\ ip \in IP
  BY GetContextIsContext DEF DeviceOK
<1>2. dev.bms[ip] \in Service
  BY <1>1 DEF DeviceOK, Devices
<1>3. b \in Service /\ ServiceOK(b)
  BY <1>2, ServiceTypes
<1>4. SubscribeToServiceChanges(dev) = [dev EXCEPT !.bms[ip] = b]
  BY DEF SubscribeToServiceChanges
<1>5. [dev EXCEPT !.bms[ip] = b].contexts = dev.contexts
  BY DEF DeviceOK, Devices
<1> HIDE DEF ip, b
<1>6. DeviceOK([dev EXCEPT !.bms[ip] = b])
  BY <1>1, <1>3, UpdateServiceOK DEF ip
<1> QED
  BY <1>4, <1>5, <1>6

\* What holds between a change of the contexts and the switch of the
\* subscription that follows: the subscribed context need not be preferred.
DeviceSound(dev) ==
    /\ dev \in Devices
    /\ ContextsDistinct(dev)
    /\ \A ip, other \in IP :
         dev.bms[ip].subscribed /\ dev.bms[other].subscribed => ip = other
    /\ \A ip \in IP : ServiceOK(dev.bms[ip])
    /\ NothingDangling(dev)

LEMMA DeviceOKSound ==
    ASSUME NEW dev, DeviceOK(dev)
    PROVE  DeviceSound(dev)
  BY DEF DeviceOK, DeviceSound, PreferredOnly

LEMMA SubscribedContextIs ==
    ASSUME NEW dev, DeviceSound(dev)
    PROVE  GetSubscribedContext(dev) = {ip \in IP : dev.bms[ip].subscribed}
<1> DEFINE s == dev.contexts
<1>1. s \in Seq(IP) /\ DOMAIN s = 1..Len(s) /\ Len(s) \in Nat
  BY DEF DeviceSound, Devices
<1>2. ASSUME NEW ip \in IP, dev.bms[ip].subscribed
      PROVE  ip \in GetSubscribedContext(dev)
  <2>1. dev.bms[ip] # NoService
    BY <1>2 DEF NoService
  <2>2. PICK j \in DOMAIN s : s[j] = ip
    BY <2>1 DEF DeviceSound, NothingDangling, Contexts
  <2>3. \A k \in 1..(j - 1) : ~dev.bms[s[k]].subscribed
    <3> SUFFICES ASSUME NEW k \in 1..(j - 1), dev.bms[s[k]].subscribed
                 PROVE  FALSE
      OBVIOUS
    <3>1. k \in DOMAIN s /\ k # j
      BY <1>1
    <3>2. s[k] \in IP
      BY <1>1, <3>1
    <3>3. s[k] = s[j]
      BY <1>2, <2>2, <3>2 DEF DeviceSound
    <3> QED
      BY <3>1, <3>3 DEF DeviceSound, ContextsDistinct, IsInjective
  <2> QED
    BY <1>2, <2>2, <2>3 DEF GetSubscribedContext
<1>3. ASSUME NEW ip \in GetSubscribedContext(dev)
      PROVE  ip \in IP /\ dev.bms[ip].subscribed
  BY <1>1, <1>3 DEF GetSubscribedContext
<1> QED
  BY <1>2, <1>3

\* The switch of the subscription leaves only the preferred context subscribed.
LEMMA DeviceSubscribeContextOK ==
    ASSUME NEW dev, DeviceSound(dev), dev.contexts # <<>>
    PROVE  /\ DeviceOK(DeviceSubscribeContext(dev))
           /\ DeviceSubscribeContext(dev).contexts = dev.contexts
<1> DEFINE old == GetSubscribedContext(dev)
           bms == [ip \in IP |-> IF ip \in old
                                  THEN ContextUnsubscribe(dev.bms[ip])
                                  ELSE dev.bms[ip]]
           mid == [dev EXCEPT !.bms = bms]
<1>1. old = {ip \in IP : dev.bms[ip].subscribed}
  BY SubscribedContextIs
<1>2. CASE old = {GetContext(dev)}
  <2>1. DeviceSubscribeContext(dev) = dev
    BY <1>2 DEF DeviceSubscribeContext
  <2>2. PreferredOnly(dev)
    BY <1>1, <1>2 DEF PreferredOnly
  <2> QED
    BY <2>1, <2>2 DEF DeviceSound, DeviceOK
<1>3. CASE old # {GetContext(dev)}
  <2>1. \A ip \in IP : /\ dev.bms[ip] \in Service
                        /\ bms[ip] \in Service
                        /\ ~bms[ip].subscribed
                        /\ ServiceOK(bms[ip])
    BY <1>1, ServiceTypes DEF DeviceSound, Devices
  <2>2. mid \in Devices
    BY <2>1 DEF DeviceSound, Devices
  <2>3. /\ mid.contexts = dev.contexts /\ mid.timeout_id = dev.timeout_id
        /\ mid.bms = bms
    BY DEF DeviceSound, Devices
  <2>4. Contexts(mid) = Contexts(dev)
    BY <2>3, SameContexts
  <2>5. \A ip \in IP : dev.bms[ip] = NoService => bms[ip] = NoService
    BY <1>1 DEF NoService
  <2> HIDE DEF mid, bms
  <2>6. DeviceOK(mid)
    BY <2>1, <2>2, <2>3, <2>4, <2>5
       DEF DeviceOK, DeviceSound, PreferredOnly, NothingDangling,
           ContextsDistinct
  <2>7. DeviceSubscribeContext(dev) = SubscribeToServiceChanges(mid)
    BY <1>3 DEF DeviceSubscribeContext, mid, bms
  <2> QED
    BY <2>3, <2>6, <2>7, SubscribeToServiceChangesOK
<1> QED
  BY <1>2, <1>3

\* A new context is neither subscribed nor known.
LEMMA AppendContextSound ==
    ASSUME NEW dev, DeviceOK(dev), NEW ip \in IP, ip \notin Contexts(dev)
    PROVE  /\ DeviceSound(AppendContext(dev, ip))
           /\ AppendContext(dev, ip).contexts # <<>>
           /\ Contexts(AppendContext(dev, ip)) = Contexts(dev) \cup {ip}
<1> DEFINE s == dev.contexts
           new == AppendContext(dev, ip)
           bms == [dev.bms EXCEPT ![ip] = NoService]
<1>1. s \in Seq(IP) /\ dev.bms \in [IP -> Service] /\ dev \in Devices
  BY DEF DeviceOK, Devices
<1>2. NoService \in Service
  BY DEF NoService, Service
<1>3. new \in Devices /\ new.contexts = Append(s, ip) /\ new.bms = bms
        /\ new.timeout_id = dev.timeout_id
  <2>1. Append(s, ip) \in Seq(IP) /\ bms \in [IP -> Service]
    BY <1>1, <1>2
  <2>2. \A c \in Seq(IP), f \in [IP -> Service] :
          LET d == [dev EXCEPT !.contexts = c, !.bms = f]
          IN  /\ d \in Devices /\ d.contexts = c /\ d.bms = f
              /\ d.timeout_id = dev.timeout_id
    BY <1>1, Zenon DEF Devices
  <2>3. new = [dev EXCEPT !.contexts = Append(s, ip), !.bms = bms]
    BY Zenon DEF AppendContext
  <2> HIDE DEF new, bms, s
  <2> QED
    BY <2>1, <2>2, <2>3, Zenon
<1>4. /\ DOMAIN s = 1..Len(s) /\ Len(s) \in Nat
      /\ DOMAIN Append(s, ip) = 1..(Len(s) + 1)
      /\ \A i \in 1..Len(s) : Append(s, ip)[i] = s[i]
      /\ Append(s, ip)[Len(s) + 1] = ip
      /\ Append(s, ip) # <<>>
  BY <1>1
<1>5. \A i \in 1..Len(s) : s[i] # ip
  BY <1>4 DEF Contexts
<1> HIDE DEF new, bms
<1>6. ContextsDistinct(new)
  BY <1>3, <1>4, <1>5 DEF DeviceOK, ContextsDistinct, IsInjective
<1>7. Contexts(new) = Contexts(dev) \cup {ip}
  BY <1>3, <1>4 DEF Contexts
<1>8. \A other \in IP :
        bms[other] = IF other = ip THEN NoService ELSE dev.bms[other]
  BY <1>1 DEF bms
<1>9. ~NoService.subscribed /\ ServiceOK(NoService)
  BY DEF NoService, ServiceOK
<1>10. DeviceSound(new)
  <2>1. \A x, y \in IP : new.bms[x].subscribed /\ new.bms[y].subscribed => x = y
    BY <1>3, <1>8, <1>9 DEF DeviceOK, PreferredOnly
  <2>2. \A x \in IP : ServiceOK(new.bms[x])
    BY <1>3, <1>8, <1>9 DEF DeviceOK
  <2>3. NothingDangling(new)
    <3>1. \A x \in IP : x \in Contexts(new) \/ new.bms[x] = NoService
      BY <1>3, <1>7, <1>8 DEF DeviceOK, NothingDangling
    <3>2. new.contexts # <<>>
      BY <1>3, <1>4
    <3> QED
      BY <3>1, <3>2 DEF NothingDangling
  <2> QED
    BY <1>3, <1>6, <2>1, <2>2, <2>3 DEF DeviceSound
<1>11. new.contexts # <<>>
  BY <1>3, <1>4
<1> QED
  BY <1>7, <1>10, <1>11 DEF new

LEMMA AppendNewContextOK ==
    ASSUME NEW dev, DeviceOK(dev), NEW ip \in IP, ip \notin Contexts(dev)
    PROVE  /\ DeviceOK(AppendNewContext(dev, ip))
           /\ Contexts(AppendNewContext(dev, ip)) = Contexts(dev) \cup {ip}
           /\ AppendNewContext(dev, ip).contexts # <<>>
  BY AppendContextSound, DeviceSubscribeContextOK, SameContexts
     DEF AppendNewContext

LEMMA DeviceNewOK ==
    ASSUME NEW ip \in IP
    PROVE  DeviceOK(DeviceNew(ip)) /\ Contexts(DeviceNew(ip)) = {ip}
<1> DEFINE new == AppendContext(NoDevice, ip)
<1>1. Contexts(NoDevice) = {}
  BY DEF Contexts, NoDevice
<1>2. DeviceSound(new) /\ Contexts(new) = {ip}
  BY <1>1, NoDeviceOK, AppendContextSound
<1>3. \A x \in IP : new.bms[x] = NoService
  BY DEF AppendContext, NoDevice
<1>4. PreferredOnly(new)
  BY <1>3 DEF PreferredOnly, NoService
<1> QED
  BY <1>2, <1>4 DEF DeviceNew, DeviceSound, DeviceOK

\* Removing a context that is not preferred leaves the preferred one as it is.
LEMMA PreferredSurvives ==
    ASSUME NEW s \in Seq(IP), NEW i \in 1..Len(s),
           NEW k, PreferredIndex(s, k), k # i
    PROVE  LET m == IF k < i THEN k ELSE k - 1
           IN  /\ PreferredIndex(RemoveAt(s, i), m)
               /\ RemoveAt(s, i)[m] = s[k]
<1> DEFINE t == RemoveAt(s, i)
           m == IF k < i THEN k ELSE k - 1
<1>1. /\ Len(s) \in Nat /\ Len(t) = Len(s) - 1
      /\ \A j \in 1..Len(t) : t[j] = IF j < i THEN s[j] ELSE s[j + 1]
  BY RemoveAtProperties, LenProperties
<1> HIDE DEF t
<1>2. m \in 1..Len(t) /\ t[m] = s[k]
  BY <1>1 DEF PreferredIndex
<1>3. CASE k = 1 /\ \A j \in 1..Len(s) : s[j] \notin Loopback
  <2>1. m = 1
    BY <1>1, <1>3
  <2>2. \A j \in 1..Len(t) : t[j] \notin Loopback
    BY <1>1, <1>3
  <2> QED
    BY <1>2, <2>1, <2>2 DEF PreferredIndex, t
<1>4. CASE s[k] \in Loopback /\ \A j \in 1..(k - 1) : s[j] \notin Loopback
  <2>1. \A j \in 1..(m - 1) : t[j] \notin Loopback
    <3> SUFFICES ASSUME NEW j \in 1..(m - 1)
                 PROVE  t[j] \notin Loopback
      OBVIOUS
    <3>1. k \in 1..Len(s) /\ j \in 1..Len(t)
      BY <1>1, <1>2 DEF PreferredIndex
    <3>2. t[j] = IF j < i THEN s[j] ELSE s[j + 1]
      BY <1>1, <3>1
    <3>3. CASE j < i
      BY <1>1, <1>4, <3>1, <3>2, <3>3
    <3>4. CASE ~(j < i)
      <4>1. j + 1 \in 1..(k - 1)
        BY <1>1, <3>1, <3>4
      <4> QED
        BY <1>4, <3>2, <3>4, <4>1
    <3> QED
      BY <3>3, <3>4
  <2> QED
    BY <1>2, <1>4, <2>1 DEF PreferredIndex, t
<1> QED
  BY <1>3, <1>4 DEF PreferredIndex

LEMMA RemoveContextOK ==
    ASSUME NEW dev, DeviceOK(dev), NEW ip \in Contexts(dev),
           RemoveContext(dev, ip).contexts # <<>>
    PROVE  /\ DeviceOK(RemoveContext(dev, ip))
           /\ Contexts(RemoveContext(dev, ip)) = Contexts(dev) \ {ip}
<1> DEFINE s == dev.contexts
           i == ContextIndex(dev, ip)
           t == RemoveAt(s, i)
           bms == [dev.bms EXCEPT ![ip] = ContextDelete(dev.bms[ip])]
           new == RemoveContext(dev, ip)
<1>1. s \in Seq(IP) /\ dev.bms \in [IP -> Service] /\ dev \in Devices
        /\ DOMAIN s = 1..Len(s) /\ Len(s) \in Nat
  BY DEF DeviceOK, Devices
<1>2. i \in 1..Len(s) /\ s[i] = ip
  BY <1>1 DEF Contexts, ContextIndex
<1> HIDE DEF i
<1>3. ip \in IP
  BY <1>1, <1>2
<1>4. /\ t \in Seq(IP) /\ Len(t) = Len(s) - 1 /\ DOMAIN t = 1..Len(t)
      /\ \A j \in 1..Len(t) : t[j] = IF j < i THEN s[j] ELSE s[j + 1]
  <2>1. /\ t \in Seq(IP) /\ Len(t) = Len(s) - 1
        /\ \A j \in 1..(Len(s) - 1) : t[j] = IF j < i THEN s[j] ELSE s[j + 1]
    <3> HIDE DEF s
    <3> QED
      BY <1>1, <1>2, RemoveAtProperties
  <2> HIDE DEF t, s
  <2> QED
    BY <2>1
<1>5. bms \in [IP -> Service]
  BY <1>1, <1>3, ServiceTypes
<1>6. \A x \in IP : bms[x] = IF x = ip THEN NoService ELSE dev.bms[x]
  BY <1>1, <1>3, ServiceTypes
<1>7. new \in Devices /\ new.contexts = t /\ new.bms = bms
        /\ new.timeout_id = dev.timeout_id
  <2>1. \A c \in Seq(IP), f \in [IP -> Service] :
          LET d == [dev EXCEPT !.contexts = c, !.bms = f]
          IN  /\ d \in Devices /\ d.contexts = c /\ d.bms = f
              /\ d.timeout_id = dev.timeout_id
    BY <1>1, Zenon DEF Devices
  <2>2. new = [dev EXCEPT !.contexts = t, !.bms = bms]
    BY Zenon DEF RemoveContext, i
  <2> HIDE DEF new, bms, t
  <2> QED
    BY <1>4, <1>5, <2>1, <2>2, Zenon
<1> HIDE DEF new, bms, t, i
<1>8. IsInjective(s)
  BY DEF DeviceOK, ContextsDistinct
<1>9. ContextsDistinct(new)
  <2> SUFFICES ASSUME NEW x \in 1..Len(t), NEW y \in 1..Len(t), t[x] = t[y]
               PROVE  x = y
    BY <1>4, <1>7 DEF ContextsDistinct, IsInjective
  <2> DEFINE from(j) == IF j < i THEN j ELSE j + 1
  <2>1. from(x) \in DOMAIN s /\ from(y) \in DOMAIN s
    BY <1>1, <1>2, <1>4
  <2>2. s[from(x)] = s[from(y)]
    BY <1>4
  <2>3. from(x) = from(y)
    BY <1>8, <2>1, <2>2 DEF IsInjective
  <2> QED
    BY <1>1, <1>2, <1>4, <2>3
<1>10. Contexts(new) = Contexts(dev) \ {ip}
  <2>1. ASSUME NEW j \in DOMAIN t
        PROVE  t[j] \in Contexts(dev) /\ t[j] # ip
    <3> DEFINE k == IF j < i THEN j ELSE j + 1
    <3>1. k \in DOMAIN s /\ k # i /\ t[j] = s[k]
      BY <1>1, <1>2, <1>4
    <3> QED
      BY <1>1, <1>2, <1>8, <3>1 DEF Contexts, IsInjective
  <2>2. ASSUME NEW x \in Contexts(dev), x # ip
        PROVE  \E j \in DOMAIN t : t[j] = x
    <3>1. PICK k \in DOMAIN s : s[k] = x
      BY DEF Contexts
    <3>2. CASE k < i
      <4>1. k \in 1..Len(t) /\ t[k] = s[k]
        BY <1>1, <1>2, <1>4, <3>2
      <4> QED
        BY <1>4, <3>1, <4>1
    <3>3. CASE k > i
      <4>1. k - 1 \in 1..Len(t) /\ t[k - 1] = s[k]
        BY <1>1, <1>2, <1>4, <3>3
      <4> QED
        BY <1>4, <3>1, <4>1
    <3> QED
      BY <1>1, <1>2, <2>2, <3>1, <3>2, <3>3
  <2> QED
    BY <1>7, <2>1, <2>2 DEF Contexts
<1>11. PreferredOnly(new)
  <2> SUFFICES ASSUME NEW x \in IP, new.bms[x].subscribed
               PROVE  x = GetContext(new)
    BY DEF PreferredOnly
  <2>1. x # ip /\ dev.bms[x].subscribed
    BY <1>6, <1>7 DEF NoService
  <2>2. x = GetContext(dev)
    BY <2>1 DEF DeviceOK, PreferredOnly
  <2>3. s # <<>>
    BY <1>1, <1>2
  <2>4. PICK k : PreferredIndex(s, k)
    BY <1>1, <2>3, PreferredIndexExists
  <2>5. s[k] = x
    BY <1>1, <2>2, <2>4, PreferredIndexUnique
  <2>6. k # i
    BY <1>2, <2>1, <2>5
  <2>7. PICK m : PreferredIndex(t, m) /\ t[m] = x
    BY <1>1, <1>2, <2>4, <2>5, <2>6, PreferredSurvives DEF t
  <2> QED
    BY <1>7, <2>7, PreferredIndexUnique
<1>12. \A x \in IP : ServiceOK(new.bms[x])
  <2>1. ServiceOK(NoService)
    BY DEF ServiceOK, NoService
  <2> QED
    BY <1>6, <1>7, <2>1 DEF DeviceOK
<1>13. NothingDangling(new)
  <2>1. new.contexts # <<>>
    BY DEF new
  <2> QED
    BY <1>6, <1>7, <1>10, <2>1 DEF DeviceOK, NothingDangling
<1> QED
  BY <1>7, <1>9, <1>10, <1>11, <1>12, <1>13 DEF DeviceOK, new

-----------------------------------------------------------------------------
\* Changes of contexts and subscriptions do not touch the rest of the device.

SameProgress(dev, other) ==
    /\ dev.construct_step = other.construct_step
    /\ dev.ids = other.ids
    /\ dev.timeout_id = other.timeout_id

LEMMA SubscribeProgress ==
    ASSUME NEW dev \in Devices
    PROVE  SameProgress(SubscribeToServiceChanges(dev), dev)
  BY DEF SubscribeToServiceChanges, SameProgress, Devices

LEMMA DeviceSubscribeContextProgress ==
    ASSUME NEW dev, DeviceSound(dev)
    PROVE  SameProgress(DeviceSubscribeContext(dev), dev)
<1> DEFINE old == GetSubscribedContext(dev)
           bms == [ip \in IP |-> IF ip \in old
                                  THEN ContextUnsubscribe(dev.bms[ip])
                                  ELSE dev.bms[ip]]
           mid == [dev EXCEPT !.bms = bms]
<1>1. CASE old = {GetContext(dev)}
  BY <1>1 DEF DeviceSubscribeContext, SameProgress
<1>2. CASE old # {GetContext(dev)}
  <2>1. bms \in [IP -> Service]
    BY ServiceTypes DEF DeviceSound, Devices
  <2>2. mid \in Devices /\ SameProgress(mid, dev)
    BY <2>1 DEF DeviceSound, Devices, SameProgress
  <2>3. DeviceSubscribeContext(dev) = SubscribeToServiceChanges(mid)
    BY <1>2 DEF DeviceSubscribeContext
  <2> HIDE DEF mid
  <2> QED
    BY <2>2, <2>3, SubscribeProgress DEF SameProgress
<1> QED
  BY <1>1, <1>2

LEMMA AppendNewContextProgress ==
    ASSUME NEW dev, DeviceOK(dev), NEW ip \in IP, ip \notin Contexts(dev)
    PROVE  SameProgress(AppendNewContext(dev, ip), dev)
<1>1. SameProgress(AppendContext(dev, ip), dev)
  BY DEF AppendContext, SameProgress, DeviceOK, Devices
<1>2. DeviceSound(AppendContext(dev, ip))
  BY AppendContextSound
<1> QED
  BY <1>1, <1>2, DeviceSubscribeContextProgress
     DEF AppendNewContext, SameProgress

LEMMA RemoveContextProgress ==
    ASSUME NEW dev, DeviceOK(dev), NEW ip
    PROVE  SameProgress(RemoveContext(dev, ip), dev)
  BY DEF RemoveContext, SameProgress, DeviceOK, Devices

\* The tasks left at each step.
LEMMA ConstructTasksSteps ==
    /\ ConstructTasks(0) = <<"prv_subscribe", "prv_declare">>
    /\ ConstructTasks(1) = <<"prv_declare">>
    /\ ConstructTasks(2) = <<>>
<1> DEFINE all == <<"prv_subscribe", "prv_declare">>
           one == <<"prv_declare">>
           Names == {"prv_subscribe", "prv_declare"}
<1>1. all \in Seq(Names) /\ Len(all) = 2 /\ all[2] = "prv_declare"
  OBVIOUS
<1>2. one \in Seq(Names) /\ Len(one) = 1 /\ one[1] = "prv_declare"
  OBVIOUS
<1> HIDE DEF all, one, Names
<1>3. SubSeq(all, 1, 2) = all
  BY <1>1, SubSeqFull
<1>4. SubSeq(all, 2, 2) = one
  <2>1. SubSeq(all, 2, 2) \in Seq(Names) /\ Len(SubSeq(all, 2, 2)) = 1
          /\ SubSeq(all, 2, 2)[1] = all[2]
    <3>1. \A i \in 2 .. 2 : all[i] \in Names
      <4>1. \A i \in 2 .. 2 : i = 2
        OBVIOUS
      <4>2. all[2] \in Names
        BY <1>1
      <4> QED
        BY <4>1, <4>2
    <3>2. /\ SubSeq(all, 2, 2) \in Seq(Names)
          /\ Len(SubSeq(all, 2, 2)) = IF 2 <= 2 THEN 2 - 2 + 1 ELSE 0
          /\ \A i \in 1 .. 2 - 2 + 1 : SubSeq(all, 2, 2)[i] = all[2 + i - 1]
      BY <3>1, SubSeqProperties
    <3> QED
      BY <3>2
  <2>2. \A i \in 1..1 : i = 1
    OBVIOUS
  <2> QED
    BY <1>1, <1>2, <2>1, <2>2, SeqEqual
<1>5. SubSeq(all, 3, 2) = <<>>
  BY <1>1
<1> QED
  BY <1>3, <1>4, <1>5 DEF ConstructTasks, all, one

\* The two construction tasks and the timer callback.
LEMMA SubscribeOK ==
    ASSUME NEW dev, DeviceOK(dev), dev.contexts # <<>>, dev.construct_step < 2
    PROVE  /\ DeviceOK(Subscribe(dev))
           /\ Subscribe(dev).contexts = dev.contexts
           /\ Subscribe(dev).construct_step = dev.construct_step + 1
           /\ Subscribe(dev).ids = dev.ids
           /\ Subscribe(dev).timeout_id = dev.timeout_id
<1> DEFINE mid == [dev EXCEPT !.construct_step = @ + 1]
<1>1. mid \in Devices
  BY DEF DeviceOK, Devices
<1>2. /\ mid.contexts = dev.contexts /\ mid.bms = dev.bms
      /\ mid.timeout_id = dev.timeout_id /\ mid.ids = dev.ids
      /\ mid.construct_step = dev.construct_step + 1
  BY DEF DeviceOK, Devices
<1>3. Subscribe(dev) = DeviceSubscribeContext(mid)
  BY DEF Subscribe
<1> HIDE DEF mid
<1>4. DeviceSound(dev) /\ Contexts(mid) = Contexts(dev)
  BY <1>2, DeviceOKSound, SameContexts
<1>5. DeviceSound(mid)
  BY <1>1, <1>2, <1>4 DEF DeviceSound, ContextsDistinct, NothingDangling
<1> QED
  BY <1>2, <1>3, <1>5, DeviceSubscribeContextOK, DeviceSubscribeContextProgress
     DEF SameProgress

LEMMA DeclareOK ==
    ASSUME NEW dev, DeviceOK(dev), dev.construct_step < 2,
           NEW published \in 0..InterfaceInfoMax
    PROVE  /\ DeviceOK(Declare(dev, published))
           /\ Declare(dev, published).contexts = dev.contexts
           /\ Declare(dev, published).construct_step = dev.construct_step + 1
           /\ Declare(dev, published).ids = published
           /\ Declare(dev, published).timeout_id = dev.timeout_id
<1> DEFINE new == Declare(dev, published)
<1>1. new \in Devices
  <2>1. dev.construct_step + 1 \in 0..2
    BY DEF DeviceOK, Devices
  <2>2. \A step \in 0..2 :
          [dev EXCEPT !.construct_step = step, !.ids = published] \in Devices
    BY Zenon DEF DeviceOK, Devices
  <2> QED
    BY <2>1, <2>2 DEF Declare
<1>2. /\ new.contexts = dev.contexts /\ new.bms = dev.bms
      /\ new.timeout_id = dev.timeout_id /\ new.ids = published
      /\ new.construct_step = dev.construct_step + 1
  BY DEF Declare, DeviceOK, Devices
<1> HIDE DEF new
<1>3. GetContext(new) = GetContext(dev) /\ Contexts(new) = Contexts(dev)
  BY <1>2, SameContexts
<1>4. DeviceOK(new)
  BY <1>1, <1>2, <1>3
     DEF DeviceOK, PreferredOnly, NothingDangling, ContextsDistinct
<1> QED
  BY <1>2, <1>4 DEF new

LEMMA SetTimeoutOK ==
    ASSUME NEW dev, DeviceOK(dev), NEW timeout \in BOOLEAN, dev.contexts # <<>>
    PROVE  LET new == [dev EXCEPT !.timeout_id = timeout]
           IN  /\ DeviceOK(new)
               /\ new.contexts = dev.contexts
               /\ new.construct_step = dev.construct_step
               /\ new.ids = dev.ids
<1> DEFINE new == [dev EXCEPT !.timeout_id = timeout]
<1>1. new \in Devices
  BY DEF DeviceOK, Devices
<1>2. /\ new.contexts = dev.contexts /\ new.bms = dev.bms
      /\ new.construct_step = dev.construct_step /\ new.ids = dev.ids
  BY DEF DeviceOK, Devices
<1> HIDE DEF new
<1>3. GetContext(new) = GetContext(dev) /\ Contexts(new) = Contexts(dev)
  BY <1>2, SameContexts
<1>4. DeviceOK(new)
  BY <1>1, <1>2, <1>3
     DEF DeviceOK, PreferredOnly, NothingDangling, ContextsDistinct
<1> QED
  BY <1>2, <1>4 DEF new

LEMMA SubscribeTimeoutOK ==
    ASSUME NEW dev, DeviceOK(dev), dev.timeout_id
    PROVE  /\ DeviceOK(SubscribeTimeout(dev))
           /\ SubscribeTimeout(dev).contexts = dev.contexts
           /\ SubscribeTimeout(dev).construct_step = dev.construct_step
           /\ SubscribeTimeout(dev).ids = dev.ids
<1> DEFINE mid == [dev EXCEPT !.timeout_id = FALSE]
<1>1. dev.contexts # <<>>
  BY DEF DeviceOK, NothingDangling
<1>2. /\ DeviceOK(mid) /\ mid.contexts = dev.contexts
      /\ mid.construct_step = dev.construct_step /\ mid.ids = dev.ids
  BY <1>1, SetTimeoutOK
<1>3. SubscribeTimeout(dev) = SubscribeToServiceChanges(mid)
  BY DEF SubscribeTimeout
<1> HIDE DEF mid
<1> QED
  BY <1>1, <1>2, <1>3, SubscribeToServiceChangesOK, SubscribeProgress
     DEF DeviceOK, SameProgress

\* The timer's callback leaves the device subscribed.
LEMMA SubscribeTimeoutSubscribes ==
    ASSUME NEW dev, DeviceOK(dev), dev.timeout_id
    PROVE  LET new == SubscribeTimeout(dev)
           IN  new.bms[GetContext(new)].subscribed
<1> DEFINE mid == [dev EXCEPT !.timeout_id = FALSE]
           new == SubscribeTimeout(dev)
           ip == GetContext(mid)
           b == ServiceSubscribe(mid.bms[ip])
<1>1. dev.contexts # <<>>
  BY DEF DeviceOK, NothingDangling
<1>2. DeviceOK(mid) /\ mid.contexts = dev.contexts
  BY <1>1, SetTimeoutOK
<1>3. new = [mid EXCEPT !.bms[ip] = b]
  BY DEF SubscribeTimeout, SubscribeToServiceChanges
<1>4. new.contexts = dev.contexts
  BY SubscribeTimeoutOK
<1> HIDE DEF mid, new
<1>5. GetContext(new) = ip
  BY <1>2, <1>4, SameContexts
<1>6. ip \in IP
  BY <1>1, <1>2, GetContextIsContext DEF DeviceOK
<1>7. mid.bms[ip] \in Service
  BY <1>2, <1>6 DEF DeviceOK, Devices
<1>8. b.subscribed
  BY <1>7 DEF ServiceSubscribe, Service
<1> HIDE DEF ip, b
<1>9. new.bms[ip] = b
  BY <1>2, <1>3, <1>6 DEF DeviceOK, Devices
<1> QED
  BY <1>5, <1>8, <1>9 DEF new
=============================================================================
