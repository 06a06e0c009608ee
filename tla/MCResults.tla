----------------------------- MODULE MCResults -----------------------------
\* Results for TLC: documents of up to three children, complete or not.
EXTENDS Results, TLC

CONSTANTS s1, s2, long

MCText == {s1, s2, long}
MCAtoi(t) == IF t = s1 THEN 1 ELSE 0
MCSplit(t) == IF t = s2 THEN <<>> ELSE <<t>>

Names == <<"Status", "AnswerType", "HostNameReturned", "IPAddresses",
           "DNSServerIP", "ResponseTime">>

Lookup1(t) == [i \in 1..6 |-> [name |-> Names[i], content |-> t]]
HostNames(t) == <<[name |-> "HostNameReturned", content |-> t]>>

Samples ==
    {[name |-> "Result", elements |-> Lookup1(s1)],
     [name |-> "Result", elements |-> Lookup1(s2)],
     [name |-> "Result", elements |-> Tail(Lookup1(s1))],
     [name |-> "Result", elements |-> HostNames(long) \o Lookup1(s1)],
     [name |-> "Result", elements |-> Lookup1(s2) \o HostNames(long)],
     [name |-> "Other", elements |-> Lookup1(s1)]}

MCDocuments ==
    [valid : {TRUE}, children : SeqOf(Samples, 3)]
      \cup [valid : {FALSE}, children : {<<>>}]
=============================================================================
