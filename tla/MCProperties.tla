--------------------------- MODULE MCProperties ---------------------------
\* Properties for TLC.  Identifiers have two bits instead of 32, and the list
\* <<5>> has one that is out of their range.  One client reads, one writes.
EXTENDS Properties, TLC

CONSTANTS c1, c2, eth0

MCClient == {c1, c2}
MCOneClient == {c1}
MCEntry == {eth0}
MCStatuses == {<<"OK">>}
MCIdLists == {<<>>, <<1, 3>>, <<5>>}

Get(object, prop) == [object |-> object, op |-> "Get", known |-> TRUE, prop |-> prop]
GetAll(object, known) == [object |-> object, op |-> "GetAll", known |-> known]
Set(known, prop, type, value) ==
    [object |-> "manager", op |-> "Set", known |-> known, prop |-> prop,
     variant |-> [type |-> type, value |-> value]]

Reads ==
    {Get("device", "StatusInfo"), Get("manager", "WhiteListEntries"),
     GetAll("manager", TRUE), GetAll("device", TRUE), GetAll("device", FALSE)}

Sets ==
    {Set(FALSE, "NeverQuit", "b", TRUE), Set(TRUE, "Other", "b", TRUE),
     Set(TRUE, "NeverQuit", "as", {}),
     Set(TRUE, "WhiteListEnabled", "b", TRUE),
     Set(TRUE, "WhiteListEntries", "b", TRUE),
     Set(TRUE, "WhiteListEntries", "as", {}),
     Set(TRUE, "WhiteListEntries", "as", {eth0})}

MCRequests == (c1 :> Reads) @@ (c2 :> Sets)

MCOneRequest == (c1 :> {GetAll("device", TRUE), Get("device", "FriendlyName"),
                        Get("device", "Status")})
=============================================================================
