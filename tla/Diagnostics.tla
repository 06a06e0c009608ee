---------------------------- MODULE Diagnostics ----------------------------
(***************************************************************************)
(* The service as a whole: the device tables of Upnp.tla under the calls   *)
(* of Server.tla (server.c over upnp.c).  They meet where a call looks its *)
(* device up, where an action takes the proxy of the preferred context,    *)
(* and where a device or one of its contexts goes under the calls on it.   *)
(***************************************************************************)
EXTENDS Upnp

CONSTANTS Client, CounterSize, UnwatchedRelease, Root, Manager, MaxCalls

VARIABLES
    connected, watched, watchers, never_quit, quitting,
    queue, task, replies, made, icons,
    proxy    \* proxy[t]: the context whose proxy runs the action of call t

Announced == {p \in Path : signals[p] # <<>>}

\* The lookup of the server is in the table of published devices.
S == INSTANCE Server WITH Device <- Path, listed <- ListedPaths,
                          found <- Announced

\* What Server.tla assumes of its calls and tasks.
ASSUME ServiceAssumption ==
    /\ MaxCalls \in Nat
    /\ None \notin S!Call
    /\ None \notin S!Tasks

\* What it, and ClientWatch.tla, assume of the clients and of what they call.
ASSUME CallersAssumption ==
    /\ IsFiniteSet(Client)
    /\ CounterSize \in Nat
    /\ Cardinality(Client) < CounterSize
    /\ UnwatchedRelease \in BOOLEAN
    /\ Root # Manager
    /\ Path \cap {Root, Manager} = {}

callVars == <<queue, task, replies, made, icons, connected, watched, watchers,
              never_quit, quitting, proxy>>

ServiceInit ==
    /\ Init
    /\ S!ServerInit
    /\ proxy = [t \in S!Call |-> None]

-----------------------------------------------------------------------------
\* Seeded fault: the actions on the other contexts are forgotten instead.
OrphansAll(p, ip) ==
    {t \in S!Current(Client \X {p}) : /\ task[t].in_flight
                                     /\ task[t].kind = "action"
                                     /\ proxy[t] # ip}

\* The actions that run on the proxy a context owns.
Orphans(p, ip) ==
    {t \in S!Current(Client \X {p}) : /\ task[t].in_flight
                                     /\ task[t].kind = "action"
                                     /\ proxy[t] = ip}

\* GUPnP cancels them when it disposes of the proxy, without a callback.
ForgetActions(T) ==
    /\ task' = [t \in S!Call |->
           IF t \in T THEN [task[t] EXCEPT !.in_flight = FALSE] ELSE task[t]]
    /\ UNCHANGED <<queue, replies, made>>

\* Seeded fault: the queues of a device outlive it.
WithdrawKeepsQueues(u, ip) ==
    LET p == device_udn_map[u] IN
    /\ Unavailable(u, ip)
    /\ IF p = None \/ p \notin ListedPaths'
       THEN UNCHANGED <<queue, task, replies, made>>
       ELSE ForgetActions(Orphans(p, ip))
    /\ UNCHANGED <<icons, connected, watched, watchers, never_quit, quitting,
                   proxy>>

\* prv_device_unavailable_cb: a device that is lost takes its queues with it,
\* through prv_lost_diagnostics_device, a context the actions on its proxy.  A
\* lost device frees its last context first, which forgets the actions that
\* the removal of the queues would cancel; the outcome is the same.
Withdraw(u, ip) ==
    LET p == device_udn_map[u] IN
    /\ Unavailable(u, ip)
    /\ \/ p = None /\ UNCHANGED <<queue, task, replies, made>>
       \/ p # None /\ p \notin ListedPaths' /\ S!RemoveQueues(Client \X {p})
       \/ p # None /\ p \in ListedPaths' /\ ForgetActions(Orphans(p, ip))
    /\ UNCHANGED <<icons, connected, watched, watchers, never_quit, quitting,
                   proxy>>

\* What the networks and the timers do otherwise does not touch any call.
Network ==
    /\ \/ \E u \in UDN : RunTask(u) \/ \E ip \in IP : Available(u, ip)
       \/ \E p \in Path : DeviceTimer(p)
    /\ UNCHANGED callVars

\* A client knows the paths that were announced.
ClientStep ==
    /\ UNCHANGED <<vars, proxy>>
    /\ \E c \in Client :
          \/ S!Release(c)
          \/ S!ClientLost(c)
          \/ \E p \in Announced : S!CallDevice(c, p) \/ S!CancelCall(c, p)

\* The task of a client and an object is processed; an action runs on the
\* proxy of the context that is preferred then.
Serve(s) ==
    /\ UNCHANGED vars
    /\ S!Process(s)
    /\ proxy' = [t \in S!Call |->
           IF /\ task[t] # None /\ task[t].kind = "action"
              /\ task'[t] # None /\ task'[t].in_flight /\ ~task[t].in_flight
           THEN GetContext(device[s[2]]) ELSE proxy[t]]

Finish(t) == UNCHANGED <<vars, proxy>> /\ (S!Answer(t) \/ S!Complete(t))

ServiceNext ==
    \/ Network
    \/ \E u \in UDN, ip \in IP : Withdraw(u, ip)
    \/ ClientStep
    \/ \E s \in S!Session : Serve(s)
    \/ \E t \in S!Call : Finish(t)

serviceVars == <<vars, callVars>>

ServiceSpec == ServiceInit /\ [][ServiceNext]_serviceVars

\* The main loop serves the queues and the idle callbacks whatever the
\* networks and the clients do.
FairServiceSpec ==
    /\ ServiceSpec
    /\ \A s \in S!Session : WF_serviceVars(Serve(s))
    /\ \A t \in S!Call : WF_serviceVars(UNCHANGED <<vars, proxy>> /\ S!Answer(t))
                      /\ WF_serviceVars(UNCHANGED <<vars, proxy>> /\ S!Complete(t))

-----------------------------------------------------------------------------
\* Properties.

\* The calls see of the device tables what Server.tla lets an environment do:
\* paths are listed once and lost once with their queues, and actions vanish
\* only from devices that stay.  What is checked of Server.tla holds here.
ImplementsServer == S!ServerSpec

\* An action that may call back runs on the proxy of a context its device
\* still has, and its device is listed: whatever networks come and go between
\* its beginning and its end, the callback finds both (device.c:989).
ActionsHaveProxies ==
    \A s \in S!Session : \A t \in S!Current({s}) :
        task[t].in_flight /\ task[t].kind = "action" =>
            /\ s[2] \in ListedPaths
            /\ proxy[t] \in Contexts(device[s[2]])

\* A call whose proxy went is stuck until the client cancels it, and Cancel
\* looks the device up: the device of a stuck call is always listed.
StalledCanBeCancelled ==
    \A s \in S!Session : S!Stalled(s) => s[2] \in ListedPaths

\* Once a device is lost the queues of its path drain and stay empty: no task
\* is left behind on a path that will never be used again.
LostDeviceIsQuiet ==
    \A p \in Path, c \in Client :
        (p \in Announced \ ListedPaths) ~> [](queue[<<c, p>>] = S!NoQueue)
=============================================================================
