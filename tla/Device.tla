------------------------------- MODULE Device -------------------------------
(***************************************************************************)
(* A diagnostics device and its network contexts (device.c, device.h).     *)
(*                                                                         *)
(* A device reachable on several networks has one context per IP address.  *)
(* Events of its Basic Management service are received through one of      *)
(* them, the preferred one: the first loopback context if there is one,    *)
(* the first context otherwise.  This module gives each function of        *)
(* device.c that changes a dld_device_t as an operator from device record  *)
(* to device record; Upnp.tla composes them.                               *)
(***************************************************************************)
EXTENDS Integers, SequencesExt

CONSTANTS
    IP,        \* the addresses contexts can have
    Loopback,  \* those dld_device_get_context recognises as loopback
    SubscriptionCanLapse   \* GUPnP can lose a subscription

ASSUME LoopbackAssumption == Loopback \subseteq IP

ASSUME LapseAssumption == SubscriptionCanLapse \in BOOLEAN

\* DLD_INTERFACE_INFO_MAX: the D-Bus interfaces published per device.
InterfaceInfoMax == 2

(***************************************************************************)
(* The Basic Management proxy of a context (dls_service_t).  The last      *)
(* three fields are the proxy's own state in GUPnP: whether it is          *)
(* subscribed, how many times each of the three state variables has been   *)
(* registered for notification, and how many "subscription-lost" handlers  *)
(* are connected.                                                          *)
(***************************************************************************)
Service == [subscribed : BOOLEAN,
            timeout_id : BOOLEAN,
            proxy_on   : BOOLEAN,
            notifies   : Nat,
            handlers   : Nat]

NoService == [subscribed |-> FALSE, timeout_id |-> FALSE, proxy_on |-> FALSE,
              notifies |-> 0, handlers |-> 0]

(***************************************************************************)
(* dld_device_t: contexts lists the addresses of the contexts in order,    *)
(* bms gives the service proxy of each, timeout_id says that the one       *)
(* second resubscription timer is pending, ids counts the interfaces       *)
(* published.  bms of an address with no context is NoService, unless its  *)
(* timer source has survived the context it points to.                     *)
(***************************************************************************)
Devices == [contexts       : Seq(IP),
            bms            : [IP -> Service],
            timeout_id     : BOOLEAN,
            construct_step : 0..2,
            ids            : 0..InterfaceInfoMax]

NoDevice == [contexts |-> <<>>, bms |-> [ip \in IP |-> NoService],
             timeout_id |-> FALSE, construct_step |-> 0, ids |-> 0]

Contexts(dev) == {dev.contexts[i] : i \in DOMAIN dev.contexts}

-----------------------------------------------------------------------------
\* The service proxy of one context.

\* gupnp_service_proxy_remove_notify undoes one add_notify, if there is one.
RemoveNotify(n, times) == IF n < times THEN 0 ELSE n - times

\* Seeded fault: the retry timer is not removed.
ContextUnsubscribeKeepsTimer(b) ==
    [b EXCEPT !.subscribed = FALSE, !.proxy_on = FALSE, !.notifies = 0]

ContextUnsubscribe(b) ==
    IF b.subscribed
    THEN [b EXCEPT !.timeout_id = FALSE, !.subscribed = FALSE,
                   !.proxy_on = FALSE, !.notifies = RemoveNotify(@, 1)]
    ELSE [b EXCEPT !.timeout_id = FALSE]

\* What is left of a context's service when the context is freed: nothing
\* but a timer source that was not removed.
ContextDelete(b) ==
    [NoService EXCEPT !.timeout_id = ContextUnsubscribe(b).timeout_id]

ServiceSubscribe(b) ==
    [b EXCEPT !.subscribed = TRUE, !.proxy_on = TRUE,
              !.notifies = @ + 1, !.handlers = @ + 1]

\* Seeded fault: giving up leaves the context marked as subscribed.
SubscriptionLostCbStaysSubscribed(b) ==
    IF b.timeout_id
    THEN [b EXCEPT !.proxy_on = FALSE, !.timeout_id = FALSE, !.notifies = 0]
    ELSE [b EXCEPT !.timeout_id = TRUE]

\* GUPnP gives up the subscription and runs every connected handler.  A
\* handler that finds no timer subscribes again and starts the ten second
\* timer; one that finds it gives up and removes it, so handlers alternate.
SubscriptionLostCb(b) ==
    LET n       == b.handlers
        giveups == IF b.timeout_id THEN (n + 1) \div 2 ELSE n \div 2
    IN  [b EXCEPT !.proxy_on   = n > giveups,
                  !.timeout_id = IF n % 2 = 0 THEN @ ELSE ~@,
                  !.notifies   = RemoveNotify(@, giveups),
                  !.subscribed = @ /\ giveups = 0]

ReEnableSubscription(b) == [b EXCEPT !.timeout_id = FALSE]

-----------------------------------------------------------------------------
\* The contexts of a device.

\* The preferred context.
GetContext(dev) ==
    LET Local == {i \in DOMAIN dev.contexts : dev.contexts[i] \in Loopback}
    IN  dev.contexts[IF Local = {} THEN 1 ELSE Min(Local)]

\* The first subscribed context, as a set of at most one address.
GetSubscribedContext(dev) ==
    LET Subscribed(i) == dev.bms[dev.contexts[i]].subscribed
    IN  {dev.contexts[i] : i \in {j \in DOMAIN dev.contexts :
             Subscribed(j) /\ \A k \in 1..(j - 1) : ~Subscribed(k)}}

SubscribeToServiceChanges(dev) ==
    [dev EXCEPT !.bms[GetContext(dev)] = ServiceSubscribe(@)]

\* Seeded fault: the old context stays subscribed when another is preferred.
DeviceSubscribeContextTwice(dev) ==
    IF GetSubscribedContext(dev) = {GetContext(dev)}
    THEN dev
    ELSE SubscribeToServiceChanges(dev)

\* Move the subscription to the preferred context, if it is not there.
DeviceSubscribeContext(dev) ==
    LET old == GetSubscribedContext(dev)
    IN  IF old = {GetContext(dev)}
        THEN dev
        ELSE SubscribeToServiceChanges(
               [dev EXCEPT !.bms = [ip \in IP |->
                   IF ip \in old THEN ContextUnsubscribe(@[ip]) ELSE @[ip]]])

AppendContext(dev, ip) ==
    [dev EXCEPT !.contexts = Append(@, ip), !.bms[ip] = NoService]

AppendNewContext(dev, ip) == DeviceSubscribeContext(AppendContext(dev, ip))

ContextIndex(dev, ip) ==
    CHOOSE i \in DOMAIN dev.contexts : dev.contexts[i] = ip

\* Seeded fault: the first context is removed, whichever was lost.
RemoveContextFirst(dev, ip) ==
    [dev EXCEPT !.contexts = Tail(@),
                !.bms[Head(dev.contexts)] = ContextDelete(@)]

\* g_ptr_array_remove_index of the context found for ip, which keeps the order
\* of the others and frees the context.
RemoveContext(dev, ip) ==
    [dev EXCEPT !.contexts = RemoveAt(@, ContextIndex(dev, ip)),
                !.bms[ip] = ContextDelete(@)]

-----------------------------------------------------------------------------
\* The life of a device.

\* The service tasks dld_device_construct queues: those past the step reached.
ConstructTasks(step) == SubSeq(<<"prv_subscribe", "prv_declare">>, step + 1, 2)

DeviceNew(ip) == AppendContext(NoDevice, ip)

\* The task prv_subscribe.
Subscribe(dev) ==
    DeviceSubscribeContext([dev EXCEPT !.construct_step = @ + 1])

\* The task prv_declare, which publishes the interfaces until one fails.
Declare(dev, published) ==
    [dev EXCEPT !.construct_step = @ + 1, !.ids = published]

\* Everything the device owns is released; what is left points to it.
DeviceDelete(dev) ==
    [NoDevice EXCEPT !.bms = [ip \in IP |-> ContextDelete(dev.bms[ip])]]

\* Seeded fault: the timer ends without subscribing.
SubscribeTimeoutIdle(dev) == [dev EXCEPT !.timeout_id = FALSE]

\* The timer callback prv_subscribe_to_service_changes of upnp.c.
SubscribeTimeout(dev) ==
    SubscribeToServiceChanges([dev EXCEPT !.timeout_id = FALSE])
=============================================================================
