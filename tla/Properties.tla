----------------------------- MODULE Properties -----------------------------
(***************************************************************************)
(* The D-Bus properties of the manager (manager.c) and of one device       *)
(* (device.c): the settings and the white list behind the first, the table *)
(* filled by UPnP events behind the second.  Clients read and write them   *)
(* by calls and follow them by PropertiesChanged signals.  A call is       *)
(* processed in one callback and answered in a later one, and signals can  *)
(* be sent in between.                                                     *)
(***************************************************************************)
EXTENDS Integers, SequencesExt

CONSTANTS
    Client,      \* each has at most one call outstanding here
    Requests,    \* Requests[c]: the calls client c makes
    Entry,       \* what a white list can have as entries
    Statuses,    \* values of the state variable DeviceStatus, as lists
    IdLists,     \* values of TestIDs and ActiveTestIDs: sequences of naturals
    IdSize,      \* 2^32, the size of an unsigned int
    LongMax,     \* the largest long, where strtol stops
    MaxChanges,  \* bound: events and properties set
    None

ManagerProp == {"NeverQuit", "WhiteListEnabled", "WhiteListEntries"}
IdProp == {"TestIDs", "ActiveTestIDs"}
Evented == {"StatusInfo"} \cup IdProp

\* FriendlyName stands for the properties read from the description of the
\* device, Status for what is documented and never provided.
DeviceProp == {"FriendlyName", "Status"} \cup Evented

\* What the method Set carries: its type is the client's choice.
Variant == [type : {"b"}, value : BOOLEAN]
             \cup [type : {"as"}, value : SUBSET Entry]

Request ==
    [object : {"manager"}, op : {"Get"}, known : BOOLEAN, prop : ManagerProp]
      \cup [object : {"device"}, op : {"Get"}, known : BOOLEAN, prop : DeviceProp]
      \cup [object : {"manager", "device"}, op : {"GetAll"}, known : BOOLEAN]
      \cup [object : {"manager"}, op : {"Set"}, known : BOOLEAN,
            prop : ManagerProp \cup {"Other"}, variant : Variant]

ASSUME PropertiesAssumption ==
    /\ Requests \in [Client -> SUBSET Request]
    /\ IdSize \in Nat \ {0}
    /\ LongMax \in Nat
    /\ IdLists \subseteq Seq(Nat)
    /\ MaxChanges \in Nat

ASSUME NoneAssumption ==
    /\ None \notin {"UnknownInterface", "UnknownProperty", "BadQuery", "Settings"}
    /\ \A entries \in SUBSET Entry : entries # None

VARIABLES
    settings,    \* the settings file
    white_list,  \* the white list of the context manager of GUPnP
    props,       \* the table device->props
    evented,     \* what the device sent last of each state variable
    published,   \* the device is published
    call,        \* call[c]: the call of a client, None if it has none
    heard,       \* heard[c]: the values client c knows, by answer or signal
    changes

vars == <<settings, white_list, props, evented, published, call, heard, changes>>

\* prv_white_list_init brings the white list in line with the settings.
Init ==
    /\ settings \in [NeverQuit : BOOLEAN, WhiteListEnabled : BOOLEAN,
                     WhiteListEntries : {None} \cup SUBSET Entry]
    /\ white_list = [enabled |-> settings.WhiteListEnabled,
                     entries |-> IF settings.WhiteListEntries = None THEN {}
                                 ELSE settings.WhiteListEntries]
    /\ props = [p \in {"FriendlyName"} |-> "given"]
    /\ evented = <<>>
    /\ published = FALSE
    /\ call = [c \in Client |-> None]
    /\ heard = [c \in Client |-> <<>>]
    /\ changes = 0

\* A settings file without entries counts as an empty list.
ManagerProps ==
    [settings EXCEPT !.WhiteListEntries = IF @ = None THEN {} ELSE @]

Table(object) == IF object = "manager" THEN ManagerProps ELSE props

-----------------------------------------------------------------------------
\* Signals and events.

\* A table after g_hash_table_insert.
With(table, p, value) ==
    [q \in {p} \cup DOMAIN table |-> IF q = p THEN value ELSE table[q]]

\* prv_emit_signal_properties_changed and prv_wl_notify_prop: every client
\* hears the signal, also while a call of its own is open.
Tell(p, value) == heard' = [c \in Client |-> With(heard[c], p, value)]

Passed(p) ==
    [c \in Client |->
        IF call[c] = None THEN None ELSE [call[c] EXCEPT !.passed = @ \cup {p}]]

\* Seeded fault: the number saturates at the largest int.
AtoiSaturates(n) == IF n < IdSize \div 2 THEN n ELSE IdSize \div 2 - 1

\* Seeded fault: the number is not narrowed to an int.
AtoiKeeps(n) == IF n < LongMax THEN n ELSE LongMax

\* atoi as an unsigned: strtol stops at the largest long, the conversions to
\* int and to unsigned keep the low bits.
Atoi(n) == (IF n < LongMax THEN n ELSE LongMax) % IdSize

\* The value of a property for that of its state variable.
Decode(v, raw) == IF v \in IdProp THEN [i \in DOMAIN raw |-> Atoi(raw[i])] ELSE raw

\* Seeded fault: the table is changed but no signal is sent.
EventSilent(v, raw) ==
    /\ changes < MaxChanges
    /\ changes' = changes + 1
    /\ props' = With(props, v, Decode(v, raw))
    /\ evented' = With(evented, v, raw)
    /\ UNCHANGED <<settings, white_list, published, call, heard>>

\* An event of the device, which can come before the device is published.
Event(v, raw) ==
    /\ changes < MaxChanges
    /\ changes' = changes + 1
    /\ props' = With(props, v, Decode(v, raw))
    /\ evented' = With(evented, v, raw)
    /\ Tell(v, props'[v])
    /\ call' = Passed(v)
    /\ UNCHANGED <<settings, white_list, published>>

Publish ==
    /\ ~published
    /\ published' = TRUE
    /\ UNCHANGED <<settings, white_list, props, evented, call, heard, changes>>

-----------------------------------------------------------------------------
\* Calls.

Call(c, request) ==
    /\ call[c] = None
    /\ request.object = "device" => published
    /\ call' = [call EXCEPT ![c] =
           [request |-> request, error |-> None, values |-> None, passed |-> {}]]
    /\ UNCHANGED <<settings, white_list, props, evented, published, heard, changes>>

Waiting(c) == call[c] # None /\ call[c].error = None /\ call[c].values = None

Processed(c) == call[c] # None /\ ~Waiting(c)

Succeed(c, values) == call' = [call EXCEPT ![c].values = values]
Fail(c, error) == call' = [call EXCEPT ![c].error = error]

\* The error of a request that names something unknown, or None.
Unknown(r) ==
    IF ~r.known THEN "UnknownInterface"
    ELSE IF r.op # "GetAll" /\ r.prop \notin DOMAIN Table(r.object)
    THEN "UnknownProperty" ELSE None

\* Get and GetAll take the values now and answer with them later.
ProcessRead(c) ==
    LET r == call[c].request
        t == Table(r.object)
    IN  /\ Waiting(c)
        /\ r.op \in {"Get", "GetAll"}
        /\ IF Unknown(r) # None THEN Fail(c, Unknown(r))
           ELSE Succeed(c, IF r.op = "GetAll" THEN t
                           ELSE [p \in {r.prop} |-> t[p]])
        /\ UNCHANGED <<settings, white_list, props, evented, published, heard,
                       changes>>

\* g_variant_get_boolean gives FALSE for a value of another type.
NewValue(r) ==
    IF r.prop = "WhiteListEntries" THEN r.variant.value
    ELSE r.variant.type = "b" /\ r.variant.value

\* A boolean that is set already; entries are written in any case.
Unneeded(r) == r.prop # "WhiteListEntries" /\ settings[r.prop] = NewValue(r)

\* The error of a call of Set that is refused, or None.
Refusal(r) ==
    IF Unknown(r) = None /\ r.prop = "WhiteListEntries" /\ r.variant.type # "as"
    THEN "BadQuery" ELSE Unknown(r)

\* Seeded fault: new entries are added to the old ones.
WhiteListWithAdds(p, value) ==
    CASE p = "WhiteListEnabled" -> [white_list EXCEPT !.enabled = value]
      [] p = "WhiteListEntries" -> [white_list EXCEPT !.entries = @ \cup value]
      [] OTHER -> white_list

\* The white list after a property of the manager is set.
WhiteListWith(p, value) ==
    CASE p = "WhiteListEnabled" -> [white_list EXCEPT !.enabled = value]
      [] p = "WhiteListEntries" -> [white_list EXCEPT !.entries = value]
      [] OTHER -> white_list

SetRefused(c, r) ==
    /\ Refusal(r) # None
    /\ Fail(c, Refusal(r))
    /\ UNCHANGED <<settings, white_list, heard, changes>>

SetUnneeded(c, r) ==
    /\ Refusal(r) = None
    /\ Unneeded(r)
    /\ Succeed(c, <<>>)
    /\ UNCHANGED <<settings, white_list, heard, changes>>

Writes(r) == Refusal(r) = None /\ ~Unneeded(r)

\* Seeded fault: the signal does not wait for the settings to be written.
SetFailsLoudly(c, r) ==
    /\ Writes(r)
    /\ Tell(r.prop, NewValue(r))
    /\ Fail(c, "Settings")
    /\ UNCHANGED <<settings, white_list, changes>>

\* The settings file cannot be written, and keeps its old value.
SetFails(c, r) ==
    /\ Writes(r)
    /\ Fail(c, "Settings")
    /\ UNCHANGED <<settings, white_list, heard, changes>>

SetDone(c, r) ==
    LET value == NewValue(r) IN
    /\ Writes(r)
    /\ changes < MaxChanges
    /\ changes' = changes + 1
    /\ settings' = [settings EXCEPT ![r.prop] = value]
    /\ white_list' = WhiteListWith(r.prop, value)
    /\ Tell(r.prop, value)
    /\ call' = [Passed(r.prop) EXCEPT ![c].values = <<>>]

ProcessSet(c) ==
    LET r == call[c].request IN
    /\ Waiting(c)
    /\ r.op = "Set"
    /\ SetRefused(c, r) \/ SetUnneeded(c, r) \/ SetFails(c, r) \/ SetDone(c, r)
    /\ UNCHANGED <<props, evented, published>>

\* The idle callback that answers.  A client takes what a signal told it since
\* its call for newer than the answer.
Complete(c) ==
    /\ Processed(c)
    /\ LET values == IF call[c].error = None THEN call[c].values ELSE <<>>
           fresh  == DOMAIN values \ call[c].passed
       IN  heard' = [heard EXCEPT ![c] = [p \in fresh \cup DOMAIN @ |->
                                            IF p \in fresh THEN values[p] ELSE @[p]]]
    /\ call' = [call EXCEPT ![c] = None]
    /\ UNCHANGED <<settings, white_list, props, evented, published, changes>>

Next ==
    \/ \E raw \in Statuses : Event("StatusInfo", raw)
    \/ \E v \in IdProp, raw \in IdLists : Event(v, raw)
    \/ Publish
    \/ \E c \in Client : \/ \E request \in Requests[c] : Call(c, request)
                         \/ ProcessRead(c)
                         \/ ProcessSet(c)
                         \/ Complete(c)

Spec == Init /\ [][Next]_vars

-----------------------------------------------------------------------------
\* Properties.

\* Every variable has its type.
PropertiesTypeOK ==
    /\ settings \in [NeverQuit : BOOLEAN, WhiteListEnabled : BOOLEAN,
                     WhiteListEntries : {None} \cup SUBSET Entry]
    /\ white_list \in [enabled : BOOLEAN, entries : SUBSET Entry]
    /\ DOMAIN props \subseteq DeviceProp \ {"Status"}
    /\ DOMAIN evented \subseteq Evented
    /\ \A v \in DOMAIN props \cap IdProp : props[v] \in Seq(0..(IdSize - 1))
    /\ \A c \in Client :
         /\ DOMAIN heard[c] \subseteq ManagerProp \cup DeviceProp
         /\ call[c] # None => /\ call[c].request \in Requests[c]
                              /\ call[c].passed \subseteq ManagerProp \cup Evented

\* The filter GUPnP applies is always the one the settings describe, through
\* refused, failed, repeated and overlapping calls of Set (manager.c:254-313).
WhiteListFollowsSettings ==
    /\ white_list.enabled = ManagerProps.WhiteListEnabled
    /\ white_list.entries = ManagerProps.WhiteListEntries

\* A client that reads properties once and follows the signals knows their
\* values at every moment, even when signals and the answers of calls overlap:
\* whatever changes a property is signalled (API.txt:96-97, 190-193).
FollowersAreCurrent ==
    \A c \in Client : \A p \in DOMAIN heard[c] :
        heard[c][p] = Table(IF p \in ManagerProp THEN "manager" ELSE "device")[p]

\* A call of Set that ends in an error has changed neither the settings nor the
\* white list, and no client has heard otherwise.
RefusedSetChangesNothing ==
    [][\A c \in Client :
         Waiting(c) /\ call'[c] # None /\ call'[c].error # None
           => UNCHANGED <<settings, white_list, heard>>]_vars

\* What a client knows of the tests of a device is what the device sent last:
\* the same identifiers in the same order, none from an empty list, up to the
\* largest UPnP can send.
TestsAsEvented ==
    \A c \in Client : \A v \in DOMAIN heard[c] \cap IdProp :
        (\A i \in DOMAIN evented[v] : evented[v][i] < IdSize)
          => heard[c][v] = evented[v]

\* A mandatory property of a device is one that Get finds.  API.txt marks
\* Status with "m" in its table of the device's properties (API.txt:178).
MandatoryIsProvided ==
    \A c \in Client :
        call[c] # None /\ call[c].request.object = "device"
          /\ call[c].request.op = "Get"
          /\ call[c].request.prop \in {"FriendlyName", "Status"}
          => call[c].error # "UnknownProperty"
=============================================================================
