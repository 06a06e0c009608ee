-------------------------- MODULE PropertiesProofs --------------------------
(***************************************************************************)
(* Theorems about Properties.tla, for any number of clients and calls and  *)
(* any values of the settings, state variables and identifiers.            *)
(***************************************************************************)
EXTENDS Properties, TLAPS

SettingsType == [NeverQuit : BOOLEAN, WhiteListEnabled : BOOLEAN,
                 WhiteListEntries : {None} \cup SUBSET Entry]

\* The values property p of the manager can be set to.
PropType(p) == IF p = "WhiteListEntries" THEN SUBSET Entry ELSE BOOLEAN

Names == ManagerProp \cup DOMAIN props

\* The values of all properties now.
Values == [p \in Names |-> IF p \in ManagerProp THEN ManagerProps[p] ELSE props[p]]

\* The settings and the white list that follows them.
SettingsOK ==
    /\ settings \in SettingsType
    /\ white_list \in [enabled : BOOLEAN, entries : SUBSET Entry]
    /\ WhiteListFollowsSettings

\* The table has what the device sent last of each list of identifiers.
TableOK ==
    /\ DOMAIN props \subseteq DeviceProp \ {"Status"}
    /\ DOMAIN evented \subseteq Evented
    /\ \A v \in DOMAIN props \cap IdProp : /\ v \in DOMAIN evented
                                           /\ evented[v] \in IdLists
                                           /\ props[v] = Decode(v, evented[v])

\* A call is a record, and the values it took are current but for those that a
\* signal was sent of since.
CallOK(c) ==
    call[c] # None =>
        /\ DOMAIN call[c] = {"request", "error", "values", "passed"}
        /\ call[c].request \in Requests[c]
        /\ call[c].passed \subseteq ManagerProp \cup Evented
        /\ call[c].values # None =>
             /\ DOMAIN call[c].values \subseteq Names
             /\ \A p \in DOMAIN call[c].values \ call[c].passed :
                  call[c].values[p] = Values[p]

HeardOK(c) ==
    /\ DOMAIN heard[c] \subseteq Names
    /\ \A p \in DOMAIN heard[c] : heard[c][p] = Values[p]

PInv ==
    /\ DOMAIN call = Client
    /\ DOMAIN heard = Client
    /\ SettingsOK
    /\ TableOK
    /\ \A c \in Client : CallOK(c) /\ HeardOK(c)

-----------------------------------------------------------------------------
\* The operators.

LEMMA ManagerPropsFacts ==
    ASSUME settings \in SettingsType
    PROVE  /\ DOMAIN ManagerProps = ManagerProp
           /\ ManagerProps["NeverQuit"] = settings.NeverQuit
           /\ ManagerProps["WhiteListEnabled"] = settings.WhiteListEnabled
           /\ ManagerProps["WhiteListEntries"] =
                IF settings.WhiteListEntries = None THEN {}
                ELSE settings.WhiteListEntries
BY DEF ManagerProps, ManagerProp, SettingsType

\* Setting a property changes its value and that of no other.
LEMMA SettingOK ==
    ASSUME settings \in SettingsType,
           NEW p \in ManagerProp, NEW value \in PropType(p),
           settings' = [settings EXCEPT ![p] = value]
    PROVE  /\ settings' \in SettingsType
           /\ ManagerProps'[p] = value
           /\ \A q \in ManagerProp \ {p} : ManagerProps'[q] = ManagerProps[q]
<1>1. settings' \in SettingsType
  <2>1. CASE p = "NeverQuit"
    BY <2>1 DEF PropType, SettingsType
  <2>2. CASE p = "WhiteListEnabled"
    BY <2>2 DEF PropType, SettingsType
  <2>3. CASE p = "WhiteListEntries"
    BY <2>3 DEF PropType, SettingsType
  <2> QED
    BY <2>1, <2>2, <2>3 DEF ManagerProp
<1>2. /\ settings'[p] = value
      /\ \A q \in ManagerProp \ {p} : settings'[q] = settings[q]
  BY DEF ManagerProp, SettingsType
<1>3. /\ ManagerProps'["NeverQuit"] = settings'.NeverQuit
      /\ ManagerProps'["WhiteListEnabled"] = settings'.WhiteListEnabled
      /\ ManagerProps'["WhiteListEntries"] =
           IF settings'.WhiteListEntries = None THEN {}
           ELSE settings'.WhiteListEntries
  BY <1>1 DEF ManagerProps, ManagerProp, SettingsType
<1>4. p = "WhiteListEntries" => value # None
  BY NoneAssumption DEF PropType
<1> QED
  BY <1>1, <1>2, <1>3, <1>4, ManagerPropsFacts DEF ManagerProp

LEMMA AtoiFacts ==
    ASSUME NEW n \in Nat
    PROVE  /\ Atoi(n) \in 0..(IdSize - 1)
           /\ IdSize <= LongMax /\ n < IdSize => Atoi(n) = n
<1>1. /\ IdSize \in Nat \ {0} /\ LongMax \in Nat
  BY PropertiesAssumption
<1>2. \A m \in Nat : m % IdSize \in 0..(IdSize - 1)
  BY <1>1
<1>3. \A m \in Nat : m < IdSize => m % IdSize = m
  BY <1>1, SMTT(30)
<1> QED
  BY <1>1, <1>2, <1>3 DEF Atoi

\* A list of identifiers is decoded to one of the same length, and to itself if
\* its numbers are those UPnP can send.
LEMMA DecodeFacts ==
    ASSUME NEW v \in IdProp, NEW raw \in IdLists
    PROVE  /\ Decode(v, raw) \in Seq(0..(IdSize - 1))
           /\ IdSize <= LongMax /\ (\A i \in DOMAIN raw : raw[i] < IdSize)
                => Decode(v, raw) = raw
<1>1. /\ raw \in Seq(Nat)
      /\ Len(raw) \in Nat
      /\ DOMAIN raw = 1..Len(raw)
      /\ \A i \in DOMAIN raw : raw[i] \in Nat
  BY PropertiesAssumption
<1>2. Decode(v, raw) = [i \in 1..Len(raw) |-> Atoi(raw[i])]
  BY <1>1 DEF Decode
<1>3. \A i \in 1..Len(raw) : Atoi(raw[i]) \in 0..(IdSize - 1)
  BY <1>1, AtoiFacts
<1>4. Decode(v, raw) \in Seq(0..(IdSize - 1))
  BY <1>1, <1>2, <1>3
<1>5. ASSUME IdSize <= LongMax, \A i \in DOMAIN raw : raw[i] < IdSize
      PROVE  Decode(v, raw) = raw
  <2>1. \A i \in 1..Len(raw) : Atoi(raw[i]) = raw[i]
    BY <1>1, <1>5, AtoiFacts
  <2>2. raw = [i \in 1..Len(raw) |-> raw[i]]
    BY <1>1
  <2> QED
    BY <1>2, <2>1, <2>2
<1> QED
  BY <1>4, <1>5

-----------------------------------------------------------------------------
\* The steps.

LEMMA InitOK == Init => PInv
<1> SUFFICES ASSUME Init PROVE PInv
  OBVIOUS
<1>1. settings \in SettingsType
  BY DEF Init, SettingsType
<1>2. SettingsOK
  BY <1>1, ManagerPropsFacts
     DEF Init, SettingsType, SettingsOK, WhiteListFollowsSettings
<1>3. TableOK
  BY DEF Init, TableOK, DeviceProp, IdProp, Evented
<1>4. \A c \in Client : CallOK(c) /\ HeardOK(c)
  BY DEF Init, CallOK, HeardOK
<1> QED
  BY <1>2, <1>3, <1>4 DEF Init, PInv

\* What a step does to the calls when it tells of property p: it counts as
\* passed for those that are open.
LEMMA PassedFacts ==
    ASSUME NEW c \in Client, CallOK(c), NEW p
    PROVE  /\ call[c] = None => Passed(p)[c] = None
           /\ call[c] # None =>
                /\ DOMAIN Passed(p)[c] = {"request", "error", "values", "passed"}
                /\ Passed(p)[c].request = call[c].request
                /\ Passed(p)[c].error = call[c].error
                /\ Passed(p)[c].values = call[c].values
                /\ Passed(p)[c].passed = call[c].passed \cup {p}
BY DEF Passed, CallOK

\* A step that changes one value and tells it to everyone.  The calls that are
\* open remember it, one of them may be answered with nothing.
LEMMA ToldOK ==
    ASSUME PInv, SettingsOK', TableOK', DOMAIN call' = Client,
           NEW p \in ManagerProp \cup Evented, Names' = Names \cup {p},
           \A q \in Names \ {p} : Values'[q] = Values[q],
           NEW value, Values'[p] = value, Tell(p, value),
           \A c \in Client : \/ call'[c] = Passed(p)[c]
                             \/ /\ call[c] # None
                                /\ call'[c] = [Passed(p)[c] EXCEPT !.values = <<>>]
    PROVE  PInv'
<1> SUFFICES ASSUME NEW c \in Client PROVE CallOK(c)' /\ HeardOK(c)'
  BY DEF PInv, Tell
<1>1. CallOK(c) /\ HeardOK(c)
  BY DEF PInv
<1>2. HeardOK(c)'
  <2>1. heard'[c] = With(heard[c], p, value)
    BY DEF Tell
  <2>2. /\ DOMAIN heard'[c] = {p} \cup DOMAIN heard[c]
        /\ heard'[c][p] = value
        /\ \A q \in DOMAIN heard[c] \ {p} : heard'[c][q] = heard[c][q]
    BY <2>1 DEF With
  <2>3. ASSUME NEW q \in DOMAIN heard'[c] PROVE heard'[c][q] = Values'[q]
    <3>1. CASE q = p
      BY <2>2, <3>1
    <3>2. CASE q # p
      <4>1. q \in DOMAIN heard[c] \ {p} /\ q \in Names \ {p}
        BY <1>1, <2>2, <3>2 DEF HeardOK
      <4> QED
        BY <1>1, <2>2, <4>1 DEF HeardOK
    <3> QED
      BY <3>1, <3>2
  <2> QED
    BY <1>1, <2>2, <2>3 DEF HeardOK
<1>3. CallOK(c)'
  <2>1. CASE call'[c] = Passed(p)[c]
    BY <1>1, <2>1, PassedFacts DEF CallOK
  <2>2. CASE call[c] # None /\ call'[c] = [Passed(p)[c] EXCEPT !.values = <<>>]
    <3>1. /\ DOMAIN call'[c] = {"request", "error", "values", "passed"}
          /\ call'[c].request = call[c].request
          /\ call'[c].passed = call[c].passed \cup {p}
          /\ call'[c].values = <<>>
      BY <1>1, <2>2, PassedFacts
    <3>2. DOMAIN <<>> = {}
      OBVIOUS
    <3> QED
      BY <1>1, <2>2, <3>1, <3>2 DEF CallOK
  <2> QED
    BY <2>1, <2>2
<1> QED
  BY <1>2, <1>3

LEMMA EventOK ==
    ASSUME PInv, NEW v \in Evented, NEW raw, v \in IdProp => raw \in IdLists,
           Event(v, raw)
    PROVE  PInv'
<1>1. /\ UNCHANGED <<settings, white_list>>
      /\ props' = With(props, v, Decode(v, raw))
      /\ evented' = With(evented, v, raw)
      /\ Tell(v, props'[v])
      /\ call' = Passed(v)
  BY DEF Event
<1>2. /\ DOMAIN props' = {v} \cup DOMAIN props
      /\ props'[v] = Decode(v, raw)
      /\ \A q \in DOMAIN props \ {v} : props'[q] = props[q]
      /\ DOMAIN evented' = {v} \cup DOMAIN evented
      /\ evented'[v] = raw
      /\ \A q \in DOMAIN evented \ {v} : evented'[q] = evented[q]
  BY <1>1 DEF With
<1>3. SettingsOK' /\ ManagerProps' = ManagerProps
  BY <1>1 DEF PInv, SettingsOK, WhiteListFollowsSettings, ManagerProps
<1>4. TableOK'
  <2>1. DOMAIN props' \subseteq DeviceProp \ {"Status"} /\ DOMAIN evented' \subseteq Evented
    BY <1>2 DEF PInv, TableOK, DeviceProp, Evented, IdProp
  <2>2. ASSUME NEW q \in DOMAIN props' \cap IdProp
        PROVE  /\ q \in DOMAIN evented'
               /\ evented'[q] \in IdLists
               /\ props'[q] = Decode(q, evented'[q])
    <3>1. CASE q = v
      BY <1>2, <3>1
    <3>2. CASE q # v
      BY <1>2, <2>2, <3>2 DEF PInv, TableOK
    <3> QED
      BY <3>1, <3>2
  <2> QED
    BY <2>1, <2>2 DEF TableOK
<1>5. v \notin ManagerProp
  BY DEF Evented, IdProp, ManagerProp
<1>6. Names' = Names \cup {v}
  BY <1>2 DEF Names
<1>7. \A q \in Names \ {v} : Values'[q] = Values[q]
  BY <1>2, <1>3, <1>6 DEF Values, Names
<1>8. Values'[v] = props'[v]
  BY <1>5, <1>6 DEF Values
<1>9. DOMAIN call' = Client /\ \A c \in Client : call'[c] = Passed(v)[c]
  BY <1>1 DEF Passed
<1> QED
  BY <1>1, <1>3, <1>4, <1>6, <1>7, <1>8, <1>9, ToldOK

\* Steps that change no property.
Still == UNCHANGED <<settings, white_list, props, evented>>

LEMMA StillFacts ==
    ASSUME PInv, Still
    PROVE  SettingsOK' /\ TableOK' /\ Names' = Names /\ Values' = Values
<1>1. SettingsOK' /\ ManagerProps' = ManagerProps
  BY DEF Still, PInv, SettingsOK, WhiteListFollowsSettings, ManagerProps
<1>2. TableOK'
  BY DEF Still, PInv, TableOK
<1>3. Names' = Names
  BY DEF Still, Names
<1> QED
  BY <1>1, <1>2, <1>3 DEF Values, Still

LEMMA OneClientOK ==
    ASSUME PInv, Still, NEW c \in Client,
           DOMAIN call' = Client, DOMAIN heard' = Client,
           \A d \in Client \ {c} : call'[d] = call[d] /\ heard'[d] = heard[d],
           CallOK(c)', HeardOK(c)'
    PROVE  PInv'
<1> SUFFICES ASSUME NEW d \in Client \ {c} PROVE CallOK(d)' /\ HeardOK(d)'
  BY StillFacts DEF PInv
<1>1. CallOK(d) /\ HeardOK(d)
  BY DEF PInv
<1> QED
  BY <1>1, StillFacts DEF CallOK, HeardOK

LEMMA QuietOK == PInv /\ Still /\ UNCHANGED <<call, heard>> => PInv'
<1> SUFFICES ASSUME PInv, Still, UNCHANGED <<call, heard>>, NEW c \in Client
             PROVE  CallOK(c)' /\ HeardOK(c)'
  BY StillFacts DEF PInv
<1>1. CallOK(c) /\ HeardOK(c)
  BY DEF PInv
<1> QED
  BY <1>1, StillFacts DEF CallOK, HeardOK

LEMMA CallStepOK ==
    ASSUME PInv, NEW c \in Client, NEW request \in Requests[c], Call(c, request)
    PROVE  PInv'
<1>1. /\ Still
      /\ heard' = heard
      /\ call' = [call EXCEPT ![c] = [request |-> request, error |-> None,
                                      values |-> None, passed |-> {}]]
  BY DEF Call, Still
<1>2. /\ DOMAIN call' = Client
      /\ call'[c] = [request |-> request, error |-> None, values |-> None,
                     passed |-> {}]
      /\ \A d \in Client \ {c} : call'[d] = call[d]
  BY <1>1 DEF PInv
<1>3. CallOK(c)'
  BY <1>2 DEF CallOK
<1>4. HeardOK(c)' /\ DOMAIN heard' = Client
  BY <1>1, StillFacts DEF PInv, HeardOK
<1> QED
  BY <1>1, <1>2, <1>3, <1>4, OneClientOK

LEMMA FailOK ==
    ASSUME PInv, Still, heard' = heard, NEW c \in Client, Waiting(c),
           NEW error, Fail(c, error)
    PROVE  PInv'
<1>1. CallOK(c)
  BY DEF PInv
<1>2. /\ DOMAIN call' = Client
      /\ call'[c] = [call[c] EXCEPT !.error = error]
      /\ \A d \in Client \ {c} : call'[d] = call[d]
  BY DEF Fail, PInv
<1>3. /\ DOMAIN call'[c] = {"request", "error", "values", "passed"}
      /\ call'[c].request = call[c].request
      /\ call'[c].values = call[c].values
      /\ call'[c].passed = call[c].passed
  BY <1>1, <1>2 DEF Waiting, CallOK
<1>4. CallOK(c)'
  BY <1>1, <1>3, StillFacts DEF CallOK, Waiting
<1>5. HeardOK(c)' /\ DOMAIN heard' = Client
  BY StillFacts DEF PInv, HeardOK
<1> QED
  BY <1>2, <1>4, <1>5, OneClientOK

LEMMA SucceedOK ==
    ASSUME PInv, Still, heard' = heard, NEW c \in Client, Waiting(c),
           NEW values, DOMAIN values \subseteq Names,
           \A p \in DOMAIN values : values[p] = Values[p],
           Succeed(c, values)
    PROVE  PInv'
<1>1. CallOK(c)
  BY DEF PInv
<1>2. /\ DOMAIN call' = Client
      /\ call'[c] = [call[c] EXCEPT !.values = values]
      /\ \A d \in Client \ {c} : call'[d] = call[d]
  BY DEF Succeed, PInv
<1>3. /\ DOMAIN call'[c] = {"request", "error", "values", "passed"}
      /\ call'[c].request = call[c].request
      /\ call'[c].values = values
      /\ call'[c].passed = call[c].passed
  BY <1>1, <1>2 DEF Waiting, CallOK
<1>4. CallOK(c)'
  BY <1>1, <1>3, StillFacts DEF CallOK, Waiting
<1>5. HeardOK(c)' /\ DOMAIN heard' = Client
  BY StillFacts DEF PInv, HeardOK
<1> QED
  BY <1>2, <1>4, <1>5, OneClientOK

\* The tables of the two objects are the values of the properties they have.
LEMMA TableFacts ==
    ASSUME PInv, NEW object \in {"manager", "device"}
    PROVE  /\ DOMAIN Table(object) \subseteq Names
           /\ \A p \in DOMAIN Table(object) : Table(object)[p] = Values[p]
           /\ object = "manager" => DOMAIN Table(object) = ManagerProp
<1>1. settings \in SettingsType /\ DOMAIN props \subseteq DeviceProp
  BY DEF PInv, SettingsOK, TableOK
<1>2. CASE object = "manager"
  <2>1. Table(object) = ManagerProps /\ DOMAIN ManagerProps = ManagerProp
    BY <1>1, <1>2, ManagerPropsFacts DEF Table
  <2> QED
    BY <2>1 DEF Values, Names
<1>3. CASE object = "device"
  <2>1. Table(object) = props /\ DOMAIN props \cap ManagerProp = {}
    BY <1>1, <1>3 DEF Table, DeviceProp, Evented, IdProp, ManagerProp
  <2> QED
    BY <1>3, <2>1 DEF Values, Names
<1> QED
  BY <1>2, <1>3

\* What a client asks has the form of a request.
LEMMA RequestFacts ==
    ASSUME PInv, NEW c \in Client, Waiting(c)
    PROVE  /\ call[c].request \in Request
           /\ call[c].request.object \in {"manager", "device"}
           /\ call[c].request.op \in {"Get", "GetAll", "Set"}
<1>1. call[c].request \in Requests[c] /\ Requests[c] \subseteq Request
  BY PropertiesAssumption DEF PInv, Waiting, CallOK
<1> QED
  BY <1>1 DEF Request

LEMMA KnownFacts ==
    ASSUME NEW r, Unknown(r) = None
    PROVE  r.op # "GetAll" => r.prop \in DOMAIN Table(r.object)
BY NoneAssumption DEF Unknown

LEMMA ProcessReadOK ==
    ASSUME PInv, NEW c \in Client, ProcessRead(c)
    PROVE  PInv'
<1> DEFINE r == call[c].request
           t == Table(r.object)
           values == IF r.op = "GetAll" THEN t ELSE [p \in {r.prop} |-> t[p]]
<1>1. /\ Waiting(c)
      /\ Still
      /\ heard' = heard
      /\ IF Unknown(r) # None THEN Fail(c, Unknown(r)) ELSE Succeed(c, values)
  BY DEF ProcessRead, Still
<1>2. r.object \in {"manager", "device"}
  BY <1>1, RequestFacts
<1>3. /\ DOMAIN t \subseteq Names
      /\ \A p \in DOMAIN t : t[p] = Values[p]
  BY <1>2, TableFacts
<1>4. Unknown(r) = None /\ r.op # "GetAll" => r.prop \in DOMAIN t
  BY KnownFacts
<1> HIDE DEF r, t
<1>5. CASE Unknown(r) # None
  BY <1>1, <1>5, FailOK
<1>6. CASE Unknown(r) = None
  <2>1. /\ DOMAIN values \subseteq Names
        /\ \A p \in DOMAIN values : values[p] = Values[p]
    BY <1>3, <1>4, <1>6
  <2>2. Succeed(c, values)
    BY <1>1, <1>6
  <2> HIDE DEF values
  <2> QED
    BY <1>1, <2>1, <2>2, SucceedOK
<1> QED
  BY <1>5, <1>6

LEMMA NewValueFacts ==
    ASSUME PInv, NEW c \in Client, Waiting(c), call[c].request.op = "Set",
           Refusal(call[c].request) = None
    PROVE  /\ call[c].request.prop \in ManagerProp
           /\ NewValue(call[c].request) \in PropType(call[c].request.prop)
<1> DEFINE r == call[c].request
<1>1. r \in Request /\ r.op = "Set"
  BY RequestFacts
<1>2. r.object = "manager" /\ r.variant \in Variant
  BY <1>1 DEF Request
<1>3. /\ Unknown(r) = None
      /\ r.prop = "WhiteListEntries" => r.variant.type = "as"
  BY NoneAssumption DEF Refusal
<1>4. r.prop \in ManagerProp
  BY <1>1, <1>2, <1>3, KnownFacts, TableFacts
<1> HIDE DEF r
<1>5. NewValue(r) \in PropType(r.prop)
  <2>1. CASE r.prop = "WhiteListEntries"
    BY <1>2, <1>3, <2>1 DEF NewValue, PropType, Variant
  <2>2. CASE r.prop # "WhiteListEntries"
    BY <2>2 DEF NewValue, PropType
  <2> QED
    BY <2>1, <2>2
<1> QED
  BY <1>4, <1>5 DEF r

\* Setting a property of the manager keeps the white list with the settings.
LEMMA SetSettingsOK ==
    ASSUME PInv, NEW p \in ManagerProp, NEW value \in PropType(p),
           settings' = [settings EXCEPT ![p] = value],
           white_list' = WhiteListWith(p, value)
    PROVE  /\ SettingsOK'
           /\ ManagerProps'[p] = value
           /\ \A q \in ManagerProp \ {p} : ManagerProps'[q] = ManagerProps[q]
<1>1. /\ settings \in SettingsType
      /\ white_list \in [enabled : BOOLEAN, entries : SUBSET Entry]
      /\ white_list.enabled = ManagerProps["WhiteListEnabled"]
      /\ white_list.entries = ManagerProps["WhiteListEntries"]
  BY DEF PInv, SettingsOK, WhiteListFollowsSettings
<1>2. /\ settings' \in SettingsType
      /\ ManagerProps'[p] = value
      /\ \A q \in ManagerProp \ {p} : ManagerProps'[q] = ManagerProps[q]
  BY <1>1, SettingOK
<1>3. /\ white_list' \in [enabled : BOOLEAN, entries : SUBSET Entry]
      /\ white_list'.enabled = ManagerProps'["WhiteListEnabled"]
      /\ white_list'.entries = ManagerProps'["WhiteListEntries"]
  <2>1. CASE p = "WhiteListEnabled"
    <3>1. white_list' = [white_list EXCEPT !.enabled = value] /\ value \in BOOLEAN
      BY <2>1 DEF WhiteListWith, PropType
    <3> QED
      BY <1>1, <1>2, <2>1, <3>1 DEF ManagerProp
  <2>2. CASE p = "WhiteListEntries"
    <3>1. /\ white_list' = [white_list EXCEPT !.entries = value]
          /\ value \in SUBSET Entry
      BY <2>2 DEF WhiteListWith, PropType
    <3> QED
      BY <1>1, <1>2, <2>2, <3>1 DEF ManagerProp
  <2>3. CASE p = "NeverQuit"
    <3>1. white_list' = white_list
      BY <2>3 DEF WhiteListWith
    <3> QED
      BY <1>1, <1>2, <2>3, <3>1 DEF ManagerProp
  <2> QED
    BY <2>1, <2>2, <2>3 DEF ManagerProp
<1> QED
  BY <1>2, <1>3 DEF SettingsOK, WhiteListFollowsSettings

LEMMA ProcessSetOK ==
    ASSUME PInv, NEW c \in Client, ProcessSet(c)
    PROVE  PInv'
<1> DEFINE r == call[c].request
<1>1. /\ Waiting(c) /\ r.op = "Set"
      /\ UNCHANGED <<props, evented>>
      /\ SetRefused(c, r) \/ SetUnneeded(c, r) \/ SetFails(c, r) \/ SetDone(c, r)
  BY DEF ProcessSet
<1>2. CASE SetRefused(c, r)
  <2>1. Still /\ heard' = heard /\ Fail(c, Refusal(r))
    BY <1>1, <1>2 DEF SetRefused, Still
  <2> QED
    BY <1>1, <2>1, FailOK
<1>3. CASE SetUnneeded(c, r)
  <2>1. Still /\ heard' = heard /\ Succeed(c, <<>>)
    BY <1>1, <1>3 DEF SetUnneeded, Still
  <2>2. DOMAIN <<>> = {}
    OBVIOUS
  <2> QED
    BY <1>1, <2>1, <2>2, SucceedOK
<1>4. CASE SetFails(c, r)
  <2>1. Still /\ heard' = heard /\ Fail(c, "Settings")
    BY <1>1, <1>4 DEF SetFails, Still
  <2> QED
    BY <1>1, <2>1, FailOK
<1>5. CASE SetDone(c, r)
  <2> DEFINE p == r.prop
             value == NewValue(r)
  <2>1. /\ Refusal(r) = None
        /\ settings' = [settings EXCEPT ![p] = value]
        /\ white_list' = WhiteListWith(p, value)
        /\ Tell(p, value)
        /\ call' = [Passed(p) EXCEPT ![c].values = <<>>]
    BY <1>5 DEF SetDone, Writes
  <2>2. p \in ManagerProp /\ value \in PropType(p)
    BY <1>1, <2>1, NewValueFacts
  <2> HIDE DEF r, p, value
  <2>3. /\ SettingsOK'
        /\ ManagerProps'[p] = value
        /\ \A q \in ManagerProp \ {p} : ManagerProps'[q] = ManagerProps[q]
    BY <2>1, <2>2, SetSettingsOK
  <2>4. TableOK' /\ Names' = Names /\ p \in Names
    BY <1>1, <2>2 DEF PInv, TableOK, Names
  <2>5. Values'[p] = value /\ \A q \in Names \ {p} : Values'[q] = Values[q]
    BY <1>1, <2>2, <2>3, <2>4 DEF Values
  <2>6. /\ DOMAIN call' = Client
        /\ call'[c] = [Passed(p)[c] EXCEPT !.values = <<>>]
        /\ \A d \in Client \ {c} : call'[d] = Passed(p)[d]
    BY <2>1 DEF Passed
  <2>7. call[c] # None
    BY <1>1 DEF Waiting
  <2>8. \A d \in Client : \/ call'[d] = Passed(p)[d]
                           \/ /\ call[d] # None
                              /\ call'[d] = [Passed(p)[d] EXCEPT !.values = <<>>]
    BY <2>6, <2>7
  <2>9. Names' = Names \cup {p} /\ p \in ManagerProp \cup Evented
    BY <2>2, <2>4
  <2> QED
    BY <2>1, <2>3, <2>4, <2>5, <2>6, <2>8, <2>9, ToldOK
<1> QED
  BY <1>1, <1>2, <1>3, <1>4, <1>5

LEMMA CompleteOK ==
    ASSUME PInv, NEW c \in Client, Complete(c)
    PROVE  PInv'
<1> DEFINE values == IF call[c].error = None THEN call[c].values ELSE <<>>
           fresh  == DOMAIN values \ call[c].passed
<1>1. /\ Processed(c)
      /\ Still
      /\ heard' = [heard EXCEPT ![c] = [p \in fresh \cup DOMAIN heard[c] |->
                      IF p \in fresh THEN values[p] ELSE heard[c][p]]]
      /\ call' = [call EXCEPT ![c] = None]
  BY DEF Complete, Still
<1>2. /\ DOMAIN call' = Client /\ DOMAIN heard' = Client
      /\ call'[c] = None
      /\ \A d \in Client \ {c} : call'[d] = call[d] /\ heard'[d] = heard[d]
      /\ heard'[c] = [p \in fresh \cup DOMAIN heard[c] |->
                        IF p \in fresh THEN values[p] ELSE heard[c][p]]
  BY <1>1 DEF PInv
<1>3. CallOK(c) /\ HeardOK(c)
  BY DEF PInv
<1>4. fresh \subseteq Names /\ \A p \in fresh : values[p] = Values[p]
  <2>1. CASE call[c].error = None
    <3>1. values = call[c].values /\ call[c].values # None /\ call[c] # None
      BY <1>1, <2>1 DEF Processed, Waiting
    <3> QED
      BY <1>3, <3>1 DEF CallOK
  <2>2. CASE call[c].error # None
    <3>1. values = <<>> /\ DOMAIN <<>> = {}
      BY <2>2
    <3> QED
      BY <3>1
  <2> QED
    BY <2>1, <2>2
<1> HIDE DEF values, fresh
<1>5. HeardOK(c)'
  BY <1>1, <1>2, <1>3, <1>4, StillFacts DEF HeardOK
<1>6. CallOK(c)'
  BY <1>2 DEF CallOK
<1> QED
  BY <1>1, <1>2, <1>5, <1>6, OneClientOK

LEMMA StepOK == PInv /\ [Next]_vars => PInv'
<1> SUFFICES ASSUME PInv, [Next]_vars PROVE PInv'
  OBVIOUS
<1>1. ASSUME NEW raw \in Statuses, Event("StatusInfo", raw) PROVE PInv'
  BY <1>1, EventOK DEF Evented, IdProp
<1>2. ASSUME NEW v \in IdProp, NEW raw \in IdLists, Event(v, raw) PROVE PInv'
  BY <1>2, EventOK DEF Evented
<1>3. CASE Publish
  BY <1>3, QuietOK DEF Publish, Still
<1>4. ASSUME NEW c \in Client, NEW request \in Requests[c], Call(c, request)
      PROVE  PInv'
  BY <1>4, CallStepOK
<1>5. ASSUME NEW c \in Client, ProcessRead(c) PROVE PInv'
  BY <1>5, ProcessReadOK
<1>6. ASSUME NEW c \in Client, ProcessSet(c) PROVE PInv'
  BY <1>6, ProcessSetOK
<1>7. ASSUME NEW c \in Client, Complete(c) PROVE PInv'
  BY <1>7, CompleteOK
<1>8. CASE UNCHANGED vars
  BY <1>8, QuietOK DEF vars, Still
<1> QED
  BY <1>1, <1>2, <1>3, <1>4, <1>5, <1>6, <1>7, <1>8 DEF Next

THEOREM PropertiesInvariant == Spec => []PInv
  BY InitOK, StepOK, PTL DEF Spec

-----------------------------------------------------------------------------
\* What the invariant gives.

\* Settings, tables, calls and what clients know keep their types.
THEOREM PropertiesTypeCorrect == Spec => []PropertiesTypeOK
<1>1. PInv => PropertiesTypeOK
  <2> SUFFICES ASSUME PInv PROVE PropertiesTypeOK
    OBVIOUS
  <2>1. SettingsOK /\ TableOK
    BY DEF PInv
  <2>2. \A v \in DOMAIN props \cap IdProp : props[v] \in Seq(0..(IdSize - 1))
    BY <2>1, DecodeFacts DEF TableOK
  <2>3. \A c \in Client : DOMAIN heard[c] \subseteq ManagerProp \cup DeviceProp
    BY <2>1 DEF PInv, HeardOK, TableOK, Names
  <2>4. \A c \in Client : call[c] # None =>
            /\ call[c].request \in Requests[c]
            /\ call[c].passed \subseteq ManagerProp \cup Evented
    BY DEF PInv, CallOK
  <2> QED
    BY <2>1, <2>2, <2>3, <2>4 DEF PropertiesTypeOK, SettingsOK, SettingsType, TableOK
<1> QED
  BY <1>1, PropertiesInvariant, PTL

\* The filter of GUPnP is the one the settings describe (prv_set_prop_wl_enabled
\* and prv_set_prop_wl_entries), for any entries and any calls of Set.
THEOREM WhiteListFollows == Spec => []WhiteListFollowsSettings
<1>1. PInv => WhiteListFollowsSettings
  BY DEF PInv, SettingsOK
<1> QED
  BY <1>1, PropertiesInvariant, PTL

\* A client that reads and follows the signals knows the values of the moment
\* (prv_emit_signal_properties_changed, prv_wl_notify_prop): signals are told
\* before an answer that was prepared earlier, and count as newer than it.
THEOREM FollowersKnow == Spec => []FollowersAreCurrent
<1>1. PInv => FollowersAreCurrent
  <2> SUFFICES ASSUME PInv, NEW c \in Client, NEW p \in DOMAIN heard[c]
               PROVE  heard[c][p] =
                        Table(IF p \in ManagerProp THEN "manager" ELSE "device")[p]
    BY DEF FollowersAreCurrent
  <2>1. p \in Names /\ heard[c][p] = Values[p]
    BY DEF PInv, HeardOK
  <2> QED
    BY <2>1 DEF Values, Table
<1> QED
  BY <1>1, PropertiesInvariant, PTL

\* Where a long is longer than an int, clients know the tests of a device as it
\* sent them (prv_bm_test_ids_prop_change).
THEOREM TestsAreKnown ==
    ASSUME IdSize <= LongMax
    PROVE  Spec => []TestsAsEvented
<1>1. PInv => TestsAsEvented
  <2> SUFFICES ASSUME PInv, NEW c \in Client, NEW v \in DOMAIN heard[c] \cap IdProp,
                      \A i \in DOMAIN evented[v] : evented[v][i] < IdSize
               PROVE  heard[c][v] = evented[v]
    BY DEF TestsAsEvented
  <2>1. v \in Names /\ heard[c][v] = Values[v]
    BY DEF PInv, HeardOK
  <2>2. v \in DOMAIN props /\ Values[v] = props[v]
    BY <2>1 DEF Values, Names, IdProp, ManagerProp
  <2>3. evented[v] \in IdLists /\ props[v] = Decode(v, evented[v])
    BY <2>2 DEF PInv, TableOK
  <2> QED
    BY <2>1, <2>2, <2>3, DecodeFacts
<1> QED
  BY <1>1, PropertiesInvariant, PTL

\* The answer that a step gives to an open call is an error only if the step
\* changed nothing else.
LEMMA RefusalIsQuiet ==
    ASSUME PInv, [Next]_vars, NEW c \in Client, Waiting(c),
           call'[c] # None, call'[c].error # None
    PROVE  UNCHANGED <<settings, white_list, heard>>
<1>1. CallOK(c) /\ DOMAIN call = Client
  BY DEF PInv
<1>2. ASSUME NEW p PROVE Passed(p)[c].error = None
  BY <1>1, PassedFacts DEF Waiting
<1>3. ASSUME NEW v, NEW raw, Event(v, raw) PROVE FALSE
  BY <1>2, <1>3 DEF Event
<1>4. CASE Publish
  BY <1>4 DEF Publish
<1>5. ASSUME NEW d \in Client, NEW request \in Requests[d], Call(d, request)
      PROVE  UNCHANGED <<settings, white_list, heard>>
  BY <1>5 DEF Call
<1>6. ASSUME NEW d \in Client, ProcessRead(d)
      PROVE  UNCHANGED <<settings, white_list, heard>>
  BY <1>6 DEF ProcessRead
<1>7. ASSUME NEW d \in Client, ProcessSet(d)
      PROVE  UNCHANGED <<settings, white_list, heard>>
  <2> DEFINE r == call[d].request
  <2>1. SetRefused(d, r) \/ SetUnneeded(d, r) \/ SetFails(d, r) \/ SetDone(d, r)
    BY <1>7 DEF ProcessSet
  <2>2. CASE SetDone(d, r)
    <3>1. call'[c] = IF c = d THEN [Passed(r.prop)[c] EXCEPT !.values = <<>>]
                     ELSE Passed(r.prop)[c]
      BY <2>2 DEF SetDone, Passed
    <3>2. DOMAIN Passed(r.prop)[c] = {"request", "error", "values", "passed"}
      BY <1>1, PassedFacts DEF Waiting
    <3>3. call'[c].error = Passed(r.prop)[c].error
      BY <3>1, <3>2
    <3> QED
      BY <1>2, <3>3
  <2> QED
    BY <2>1, <2>2 DEF SetRefused, SetUnneeded, SetFails
<1>8. ASSUME NEW d \in Client, Complete(d)
      PROVE  FALSE
  <2>1. d # c
    BY <1>8 DEF Complete, Processed
  <2>2. call'[c] = call[c]
    BY <1>1, <1>8, <2>1 DEF Complete
  <2> QED
    BY <2>2 DEF Waiting
<1>9. CASE UNCHANGED vars
  BY <1>9 DEF vars
<1> QED
  BY <1>3, <1>4, <1>5, <1>6, <1>7, <1>8, <1>9 DEF Next

\* A call of Set that ends in an error has changed nothing: prv_set_prop_wl_enabled
\* and its like emit the signal and apply the white list only once the settings
\* are written.
THEOREM RefusedSetIsQuiet == Spec => RefusedSetChangesNothing
<1>1. PInv /\ [Next]_vars =>
        [\A c \in Client :
           Waiting(c) /\ call'[c] # None /\ call'[c].error # None
             => UNCHANGED <<settings, white_list, heard>>]_vars
  BY RefusalIsQuiet
<1> QED
  BY <1>1, PropertiesInvariant, PTL DEF Spec, RefusedSetChangesNothing
=============================================================================
