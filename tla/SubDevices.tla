----------------------------- MODULE SubDevices -----------------------------
(***************************************************************************)
(* Root devices and the devices embedded in them (upnp.c).  GUPnP          *)
(* announces and withdraws root devices only.  For each of them upnp.c     *)
(* walks the tree of its description and calls prv_add_device or           *)
(* prv_remove_device for those that offer BasicManagement; Upnp.tla models *)
(* what these two do.  Both walks return a service to their caller.        *)
(***************************************************************************)
EXTENDS Integers, SequencesExt, FiniteSets

CONSTANTS
    Size,   \* bound: how many devices the descriptions have
    IP      \* the addresses of the networks

Node == 1..Size

ASSUME SubDevicesAssumption == Size \in Nat

\* The descriptions, which are the environment's, and the service's state.
VARIABLES
    parent,     \* parent[n]: the device n is embedded in, 0 for a root device
    bms,        \* the devices that offer BasicManagement
    named,      \* the devices whose description has a UDN
    announced,  \* the pairs of root device and address that are announced
    contexts,   \* the pairs of device and address that have a context
    calls       \* the devices the last callback called for, in order

vars == <<parent, bms, named, announced, contexts, calls>>

Init ==
    /\ parent \in {p \in [Node -> 0..Size] : \A n \in Node : p[n] < n}
    /\ bms \in SUBSET Node
    /\ named \in SUBSET Node
    /\ announced = {}
    /\ contexts = {}
    /\ calls = <<>>

\* Seeded fault: a sub-device is taken without a UDN.
SubDeviceUnnamed(service, n) == IF service THEN <<n>> ELSE <<>>

\* prv_add_sub_device and prv_remove_sub_device, called where there is a service,
\* leave out a device without a UDN.
SubDevice(service, n) == IF service /\ n \in named THEN <<n>> ELSE <<>>

\* Seeded fault: a child's own service is returned to the caller.
VisitOwnService(before, child, below) ==
    [calls   |-> before.calls \o SubDevice(child \in bms, child)
                   \o below.calls \o SubDevice(below.service, child),
     service |-> child \in bms]

\* One turn of the loop over the children: a child is called for if it has the
\* service, and again if the walk below it returns one.  What a walk returns is
\* what the walk of its last child returned.
Visit(before, child, below) ==
    [calls   |-> before.calls \o SubDevice(child \in bms, child)
                   \o below.calls \o SubDevice(below.service, child),
     service |-> below.service]

\* The loop over the children of n, when it has come past the device i.
Walk[x \in Node \X (0..Size)] ==
    LET n == x[1]
        i == x[2]
    IN  IF i = 0 THEN [calls |-> <<>>, service |-> FALSE]
        ELSE IF parent[i] # n THEN Walk[<<n, i - 1>>]
        ELSE Visit(Walk[<<n, i - 1>>], i, Walk[<<i, Size>>])

\* prv_add_bm_service_sub_devices
AddSubDevices(root) == Walk[<<root, Size>>].calls

\* Seeded fault: this walk, a copy of the other, does not go down.
RemoveSubDevicesShallow(root) ==
    SelectSeq([i \in Node |-> i],
              LAMBDA i : parent[i] = root /\ i \in bms \cap named)

\* prv_remove_bm_service_sub_devices, a copy of that walk with other calls.
RemoveSubDevices(root) == Walk[<<root, Size>>].calls

\* Without the UDN of the root device neither callback does anything.
Available(root, ip) ==
    /\ parent[root] = 0
    /\ <<root, ip>> \notin announced
    /\ announced' = announced \cup {<<root, ip>>}
    /\ calls' = IF root \notin named THEN <<>>
                ELSE SubDevice(root \in bms, root) \o AddSubDevices(root)
    /\ contexts' = contexts \cup (ToSet(calls') \X {ip})
    /\ UNCHANGED <<parent, bms, named>>

\* The root device comes last, and is not asked for its service.
Unavailable(root, ip) ==
    /\ <<root, ip>> \in announced
    /\ announced' = announced \ {<<root, ip>>}
    /\ calls' = IF root \notin named THEN <<>>
                ELSE RemoveSubDevices(root) \o <<root>>
    /\ contexts' = contexts \ (ToSet(calls') \X {ip})
    /\ UNCHANGED <<parent, bms, named>>

Next == \E root \in Node, ip \in IP : Available(root, ip) \/ Unavailable(root, ip)

Spec == Init /\ [][Next]_vars

-----------------------------------------------------------------------------
\* Properties.

\* Every variable has its type, and only a device that has a UDN to be listed
\* under gets a context.
SubDevicesTypeOK ==
    /\ bms \subseteq Node
    /\ announced \subseteq Node \X IP
    /\ contexts \subseteq (bms \cap named) \X IP
    /\ calls \in Seq(Node)

\* The root device of the tree that n is in.
Root[n \in Node] == IF parent[n] = 0 THEN n ELSE Root[parent[n]]

\* The contexts are at every moment those of the devices that offer the service
\* in the trees announced, at any depth and below devices that offer nothing:
\* what an announcement adds its withdrawal removes (upnp.c:229-275, 451-497).
ContextsMatchTrees ==
    \A n \in Node, ip \in IP :
        <<n, ip>> \in contexts
            <=> n \in bms \cap named /\ Root[n] \in named /\ <<Root[n], ip>> \in announced

\* No callback calls for a device twice: the service that a walk returns leads
\* to no second call for the device it was not found on (upnp.c:258-266).
CalledOnce == IsInjective(calls)
=============================================================================
