------------------------------ MODULE Results ------------------------------
(***************************************************************************)
(* What a client is answered of a diagnostic action (device.c:999-1739):   *)
(* the out parameters of the reply are checked, missing ones being told by *)
(* a value put there before, and the XML of an NSLookup is decoded.  When  *)
(* an action begins and ends, and what cancels it, is in Server.tla.       *)
(***************************************************************************)
EXTENDS Integers, SequencesExt, FiniteSets

CONSTANTS
    Text,       \* strings, in parameters and in XML
    TooLong,    \* a string of more than 256 bytes
    UInt,       \* the values of an unsigned int
    MaxUInt,    \* the largest, G_MAXUINT32
    Atoi(_),    \* the number a string is read as
    Split(_),   \* the strings between the commas of a string
    Documents,  \* the XML an NSLookup can return
    None

Field == {"Status", "AnswerType", "HostNameReturned", "IPAddresses",
          "DNSServerIP", "ResponseTime"}

\* The children of the root element.  A document is valid if it can be parsed
\* and its root is an NSLookupResult.
Child == [name : {"Result", "Other"},
          elements : Seq([name : Field, content : Text])]

ASSUME ResultsAssumption ==
    /\ Documents \subseteq [valid : BOOLEAN, children : Seq(Child)]
    /\ UInt \subseteq Nat
    /\ MaxUInt \in UInt
    /\ TooLong \in Text
    /\ None \notin Text

VARIABLES
    op,      \* the action that runs
    reply,   \* how it ended, with its out parameters
    answer   \* what the client is answered

vars == <<op, reply, answer>>

-----------------------------------------------------------------------------
\* The XML of an NSLookup.

\* xml_util_get_child_string_content_by_name: the first child of this name.
Content(elements, name) ==
    LET i == SelectInSeq(elements, LAMBDA e : e.name = name)
    IN  IF i = 0 THEN None ELSE elements[i].content

\* Seeded fault: the length of the fields is all that counts.
IsCompletePartly(fields) ==
    TooLong \notin {fields["HostNameReturned"], fields["IPAddresses"]}

\* The two fields with a length of their own are checked for it.
IsComplete(fields) ==
    /\ \A f \in Field : fields[f] # None
    /\ TooLong \notin {fields["HostNameReturned"], fields["IPAddresses"]}

\* prv_extract_nslookup_result, an empty sequence if the element is left out.
Extract(child) ==
    LET fields == [f \in Field |-> Content(child.elements, f)]
    IN  IF child.name = "Result" /\ IsComplete(fields) THEN <<fields>> ELSE <<>>

\* Seeded fault: the results are appended.
AddAppends(list, child) == list \o Extract(child)

\* One turn of the loop over the children: a result is prepended to the list.
Add(list, child) == Extract(child) \o list

\* prv_nslookup_result_decode
Decode(doc) ==
    LET result_list[i \in 0..Len(doc.children)] ==
          IF i = 0 THEN <<>> ELSE Add(result_list[i - 1], doc.children[i])
    IN  IF doc.valid THEN result_list[Len(doc.children)] ELSE <<>>

\* prv_results_list_add_result
Lookup(fields) ==
    [f \in Field |-> CASE f = "IPAddresses"  -> Split(fields[f])
                       [] f = "ResponseTime" -> Atoi(fields[f])
                       [] OTHER              -> fields[f]]

ResultsListBuild(doc) == [i \in DOMAIN Decode(doc) |-> Lookup(Decode(doc)[i])]

-----------------------------------------------------------------------------
\* The out parameters of each action, by type; at most one is neither a string
\* nor a number as it is.  Ping, NSLookup and Traceroute only give a TestID.
Shape(text, uint, rest) == [text |-> text, uint |-> uint, rest |-> rest]

TestInfo == Shape({"Type", "State"}, {}, {})
Cancelled == Shape({}, {}, {})
Requested == Shape({}, {"TestID"}, {})

PingResult ==
    Shape({"Status", "AdditionalInfo"},
          {"SuccessCount", "FailureCount", "AverageResponseTime",
           "MinimumResponseTime", "MaximumResponseTime"}, {})

NSLookupResult ==
    Shape({"Status", "AdditionalInfo"}, {"SuccessCount"}, {"Result"})

TracerouteResult ==
    Shape({"Status", "AdditionalInfo"}, {"ResponseTime"}, {"HopHosts"})

Actions == {TestInfo, Cancelled, Requested, PingResult, NSLookupResult,
            TracerouteResult}

\* The replies to an action.  Without success there are no parameters.
Replies(a) ==
    LET Optional(names, values) == [names -> values \cup {None}]
        structured == IF a = NSLookupResult THEN Documents ELSE Text
    IN  [ended : {TRUE}, text : Optional(a.text, Text),
         uint : Optional(a.uint, UInt), rest : Optional(a.rest, structured)]
          \cup [ended : {FALSE}, text : Optional(a.text, {}),
                uint : Optional(a.uint, {}), rest : Optional(a.rest, {})]

\* A number that is missing keeps the value its variable had.
Number(n) == IF n = None THEN MaxUInt ELSE n

\* Seeded fault: numbers are not checked.
IsFailureOfText(r) ==
    \/ ~r.ended
    \/ \E p \in DOMAIN r.text : r.text[p] = None
    \/ \E p \in DOMAIN r.rest : r.rest[p] = None

IsFailure(r) ==
    \/ ~r.ended
    \/ \E p \in DOMAIN r.text : r.text[p] = None
    \/ \E p \in DOMAIN r.uint : Number(r.uint[p]) = MaxUInt
    \/ \E p \in DOMAIN r.rest : r.rest[p] = None

Success(r) ==
    [error |-> FALSE,
     text  |-> r.text,
     uint  |-> [p \in DOMAIN r.uint |-> Number(r.uint[p])],
     rest  |-> [p \in DOMAIN r.rest |->
                  IF p = "Result" THEN ResultsListBuild(r.rest[p])
                                  ELSE Split(r.rest[p])]]

Failure == [error |-> TRUE]

Init ==
    /\ op \in Actions
    /\ reply = None
    /\ answer = None

\* The device replies, or GUPnP gives up.
Reply ==
    /\ reply = None
    /\ reply' \in Replies(op)
    /\ UNCHANGED <<op, answer>>

\* The callback of the action.
Answer ==
    /\ reply # None
    /\ answer = None
    /\ answer' = IF IsFailure(reply) THEN Failure ELSE Success(reply)
    /\ UNCHANGED <<op, reply>>

Next == Reply \/ Answer

Spec == Init /\ [][Next]_vars

-----------------------------------------------------------------------------
\* Properties.

Answered == answer # None
Successful == Answered /\ ~answer.error

\* A successful answer has all its values, those of every lookup included.
ResultsTypeOK ==
    Successful =>
        /\ answer.text \in [op.text -> Text]
        /\ answer.uint \in [op.uint -> UInt]
        /\ DOMAIN answer.rest = op.rest
        /\ op = NSLookupResult =>
             \A l \in ToSet(answer.rest["Result"]) :
                 \A f \in Field \ {"IPAddresses", "ResponseTime"} : l[f] \in Text

\* A client is never answered a number or a string that the device has not
\* sent, and is answered an error only if the action failed or the reply lacks
\* a parameter or has the largest number there is in one (device.c:1116-1124).
AnswersAreReplies ==
    Answered =>
        \/ /\ Successful
           /\ reply.ended
           /\ \A p \in op.text : answer.text[p] = reply.text[p]
           /\ \A p \in op.uint : answer.uint[p] = reply.uint[p]
        \/ /\ answer.error
           /\ \/ ~reply.ended
              \/ \E p \in op.text : reply.text[p] = None
              \/ \E p \in op.uint : reply.uint[p] \in {None, MaxUInt}
              \/ \E p \in op.rest : reply.rest[p] = None

\* The element gives this content for the field: its first child of that name.
Gives(child, f, content) ==
    \E j \in DOMAIN child.elements :
        /\ child.elements[j] = [name |-> f, content |-> content]
        /\ \A k \in 1..(j - 1) : child.elements[k].name # f

\* The lookups answered are those of the document that have all their fields,
\* each exactly once and the last one first (device.c:1443-1449).
LookupsNewestFirst ==
    Successful /\ op = NSLookupResult =>
        LET doc     == reply.rest["Result"]
            lookups == answer.rest["Result"]
            Good(i) ==
                /\ doc.valid
                /\ doc.children[i].name = "Result"
                /\ \A f \in Field : \E t \in Text :
                     /\ Gives(doc.children[i], f, t)
                     /\ f \in {"HostNameReturned", "IPAddresses"} => t # TooLong
            good  == {i \in DOMAIN doc.children : Good(i)}
            Place(i) == 1 + Cardinality({j \in good : j > i})
        IN  /\ Len(lookups) = Cardinality(good)
            /\ \A i \in good :
                 /\ Gives(doc.children[i], "Status", lookups[Place(i)]["Status"])
                 /\ \E t \in Text :
                      /\ Gives(doc.children[i], "IPAddresses", t)
                      /\ lookups[Place(i)]["IPAddresses"] = Split(t)
=============================================================================
