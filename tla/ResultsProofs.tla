---------------------------- MODULE ResultsProofs ----------------------------
(***************************************************************************)
(* Theorems about Results.tla, for every reply and every NSLookup document *)
(* of any length: what the client is answered is what the device sent.     *)
(***************************************************************************)
EXTENDS Results, DataFacts, FiniteSetTheorems

-----------------------------------------------------------------------------
\* The elements of a document.

LEMMA ChildType ==
    ASSUME NEW child \in Child
    PROVE  /\ child.elements \in Seq([name : Field, content : Text])
           /\ child.name \in {"Result", "Other"}
BY DEF Child

\* The content read for a field is the one that the element gives it.
LEMMA ContentFacts ==
    ASSUME NEW child \in Child, NEW f \in Field
    PROVE  /\ Content(child.elements, f) \in Text \cup {None}
           /\ \A t \in Text : Gives(child, f, t) <=> Content(child.elements, f) = t
<1> DEFINE q == child.elements
           I == {i \in 1..Len(q) : q[i].name = f}
<1>1. /\ q \in Seq([name : Field, content : Text])
      /\ Len(q) \in Nat /\ DOMAIN q = 1..Len(q)
      /\ \A i \in 1..Len(q) : q[i] \in [name : Field, content : Text]
  BY ChildType, LenProperties, ElementOfSeq
<1>2. SelectInSeq(q, LAMBDA e : e.name = f) = IF I # {} THEN Min(I) ELSE 0
  BY DEF SelectInSeq
<1>3. \A t : Gives(child, f, t) <=>
             \E j \in DOMAIN q : /\ q[j] = [name |-> f, content |-> t]
                                 /\ \A k \in 1..(j - 1) : q[k].name # f
  BY DEF Gives
<1>4. CASE I = {}
  <2>1. Content(q, f) = None
    BY <1>2, <1>4 DEF Content
  <2>2. \A t : ~Gives(child, f, t)
    <3> SUFFICES ASSUME NEW t, Gives(child, f, t) PROVE FALSE
      OBVIOUS
    <3>1. PICK j \in DOMAIN q : q[j] = [name |-> f, content |-> t]
      BY <1>3
    <3>2. j \in I
      BY <1>1, <3>1
    <3> QED
      BY <1>4, <3>2
  <2> QED
    BY <2>1, <2>2, ResultsAssumption
<1>5. CASE I # {}
  <2> DEFINE m == Min(I)
  <2>1. m \in I /\ \A i \in I : m <= i
    <3>1. I \in SUBSET Nat
      OBVIOUS
    <3> QED
      BY <1>5, <3>1, MinProperty
  <2> HIDE DEF m
  <2>2. m \in 1..Len(q) /\ q[m].name = f /\ m # 0
    BY <2>1
  <2>3. Content(q, f) = q[m].content
    BY <1>2, <1>5, <2>2 DEF Content, m
  <2>4. q[m].content \in Text /\ q[m] = [name |-> f, content |-> q[m].content]
    BY <1>1, <2>2
  <2>5. \A k \in 1..(m - 1) : q[k].name # f
    <3> SUFFICES ASSUME NEW k \in 1..(m - 1), q[k].name = f PROVE FALSE
      OBVIOUS
    <3>1. k \in I
      BY <1>1, <2>2
    <3> QED
      BY <1>1, <2>1, <2>2, <3>1
  <2>6. Gives(child, f, q[m].content)
    BY <1>1, <1>3, <2>2, <2>4, <2>5
  <2>7. ASSUME NEW t \in Text, Gives(child, f, t) PROVE t = q[m].content
    <3>1. PICK j \in DOMAIN q : /\ q[j] = [name |-> f, content |-> t]
                                /\ \A k \in 1..(j - 1) : q[k].name # f
      BY <1>3, <2>7
    <3>2. j \in I /\ m <= j
      BY <1>1, <2>1, <3>1
    <3>3. ~(m < j)
      BY <1>1, <2>2, <3>1
    <3>4. m = j
      BY <1>1, <2>2, <3>2, <3>3
    <3> QED
      BY <3>1, <3>4
  <2> QED
    BY <2>3, <2>4, <2>6, <2>7
<1> QED
  BY <1>4, <1>5

\* The lookups that count: those with all their fields, none of them too long.
Complete(child) ==
    /\ child.name = "Result"
    /\ \A f \in Field : \E t \in Text :
         /\ Gives(child, f, t)
         /\ f \in {"HostNameReturned", "IPAddresses"} => t # TooLong

Fields(child) == [f \in Field |-> Content(child.elements, f)]

LEMMA ExtractFacts ==
    ASSUME NEW child \in Child
    PROVE  /\ Complete(child) => /\ Extract(child) = <<Fields(child)>>
                                 /\ Fields(child) \in [Field -> Text]
           /\ ~Complete(child) => Extract(child) = <<>>
<1> DEFINE fields == Fields(child)
<1>1. \A f \in Field : /\ fields[f] = Content(child.elements, f)
                       /\ fields[f] \in Text \cup {None}
                       /\ \A t \in Text : Gives(child, f, t) <=> fields[f] = t
  BY ContentFacts DEF Fields
<1>2. Extract(child) = IF child.name = "Result" /\ IsComplete(fields)
                       THEN <<fields>> ELSE <<>>
  BY DEF Extract, Fields
<1>3. DOMAIN fields = Field /\ fields = [f \in Field |-> fields[f]]
  BY DEF Fields
<1> HIDE DEF fields
<1>4. "HostNameReturned" \in Field /\ "IPAddresses" \in Field
  BY DEF Field
<1>5. Complete(child) => child.name = "Result" /\ IsComplete(fields)
  <2> SUFFICES ASSUME Complete(child) PROVE child.name = "Result" /\ IsComplete(fields)
    OBVIOUS
  <2>1. \A f \in Field : fields[f] \in Text
                         /\ (f \in {"HostNameReturned", "IPAddresses"} => fields[f] # TooLong)
    BY <1>1 DEF Complete
  <2> QED
    BY <1>4, <2>1, ResultsAssumption DEF Complete, IsComplete
<1>6. child.name = "Result" /\ IsComplete(fields) => Complete(child)
  <2> SUFFICES ASSUME child.name = "Result", IsComplete(fields),
                      NEW f \in Field
               PROVE  \E t \in Text :
                        /\ Gives(child, f, t)
                        /\ f \in {"HostNameReturned", "IPAddresses"} => t # TooLong
    BY DEF Complete
  <2>1. fields[f] \in Text /\ Gives(child, f, fields[f])
    BY <1>1 DEF IsComplete
  <2>2. f \in {"HostNameReturned", "IPAddresses"} => fields[f] # TooLong
    BY DEF IsComplete
  <2> QED
    BY <2>1, <2>2
<1>7. Complete(child) => fields \in [Field -> Text]
  BY <1>1, <1>3 DEF Complete
<1> QED
  BY <1>2, <1>5, <1>6, <1>7 DEF fields

-----------------------------------------------------------------------------
\* The list that a document is decoded to.

\* The lookups that count among the first n children, and how many of them
\* come after the i-th child.
Good(children, n) == {i \in 1..n : Complete(children[i])}
After(children, n, i) == Cardinality({j \in Good(children, n) : j > i})

\* The list holds these lookups, the last one first.
Holds(list, children, n) ==
    /\ list \in Seq([Field -> Text])
    /\ Len(list) = Cardinality(Good(children, n))
    /\ \A i \in Good(children, n) :
          /\ 1 + After(children, n, i) \in 1..Len(list)
          /\ list[1 + After(children, n, i)] = Fields(children[i])

\* How the lookups that count grow with the next child.
LEMMA GoodFacts ==
    ASSUME NEW children \in Seq(Child), NEW n \in 1..Len(children)
    PROVE  /\ ~Complete(children[n]) =>
                /\ Good(children, n) = Good(children, n - 1)
                /\ \A i \in Good(children, n) :
                      After(children, n, i) = After(children, n - 1, i)
           /\ Complete(children[n]) =>
                /\ Good(children, n) = Good(children, n - 1) \cup {n}
                /\ n \notin Good(children, n - 1)
                /\ Cardinality(Good(children, n))
                     = Cardinality(Good(children, n - 1)) + 1
                /\ After(children, n, n) = 0
                /\ \A i \in Good(children, n - 1) :
                      After(children, n, i) = After(children, n - 1, i) + 1
           /\ \A i \in Good(children, n - 1) : After(children, n - 1, i) \in Nat
           /\ Cardinality(Good(children, n - 1)) \in Nat
<1>1. n \in Nat /\ 1..n = (1..(n - 1)) \cup {n} /\ n \notin 1..(n - 1)
  BY LenProperties
<1>2. IsFiniteSet(Good(children, n - 1))
  <2>1. IsFiniteSet(1..(n - 1))
    BY <1>1, FS_Interval
  <2>2. Good(children, n - 1) \in SUBSET (1..(n - 1))
    BY DEF Good
  <2> QED
    BY <2>1, <2>2, FS_Subset
<1>3. ASSUME NEW i
      PROVE  /\ IsFiniteSet({j \in Good(children, n - 1) : j > i})
             /\ After(children, n - 1, i) \in Nat
  <2>1. {j \in Good(children, n - 1) : j > i} \in SUBSET Good(children, n - 1)
    OBVIOUS
  <2>2. IsFiniteSet({j \in Good(children, n - 1) : j > i})
    BY <1>2, <2>1, FS_Subset
  <2> QED
    BY <2>2, FS_CardinalityType DEF After
<1>4. CASE ~Complete(children[n])
  <2>1. Good(children, n) = Good(children, n - 1)
    BY <1>1, <1>4 DEF Good
  <2>2. \A i : After(children, n, i) = After(children, n - 1, i)
    BY <2>1 DEF After
  <2> QED
    BY <1>2, <1>3, <1>4, <2>1, <2>2, FS_CardinalityType
<1>5. CASE Complete(children[n])
  <2>1. /\ Good(children, n) = Good(children, n - 1) \cup {n}
        /\ n \notin Good(children, n - 1)
    BY <1>1, <1>5 DEF Good
  <2>2. Cardinality(Good(children, n)) = Cardinality(Good(children, n - 1)) + 1
    BY <1>2, <2>1, FS_AddElement
  <2>3. \A i \in Good(children, n - 1) : i \in Nat /\ i < n
    BY <1>1 DEF Good
  <2>4. After(children, n, n) = 0
    <3>1. {j \in Good(children, n) : j > n} = {}
      BY <1>1, <2>1, <2>3
    <3> QED
      BY <3>1, FS_EmptySet DEF After
  <2>5. ASSUME NEW i \in Good(children, n - 1)
        PROVE  After(children, n, i) = After(children, n - 1, i) + 1
    <3> DEFINE later == {j \in Good(children, n - 1) : j > i}
    <3>1. {j \in Good(children, n) : j > i} = later \cup {n}
      BY <1>1, <2>1, <2>3
    <3>2. n \notin later /\ IsFiniteSet(later)
      BY <1>3, <2>1
    <3>3. Cardinality(later \cup {n}) = Cardinality(later) + 1
      BY <3>2, FS_AddElement
    <3> QED
      BY <3>1, <3>3 DEF After
  <2> QED
    BY <1>2, <1>3, <1>5, <2>1, <2>2, <2>4, <2>5, FS_CardinalityType
<1> QED
  BY <1>4, <1>5

LEMMA AddFacts ==
    ASSUME NEW children \in Seq(Child), NEW n \in 1..Len(children),
           NEW list, Holds(list, children, n - 1)
    PROVE  Holds(Add(list, children[n]), children, n)
<1> DEFINE child == children[n]
<1>1. child \in Child
  BY ElementOfSeq
<1>2. list \in Seq([Field -> Text]) /\ Len(list) \in Nat
  BY LenProperties DEF Holds
<1>3. CASE ~Complete(child)
  <2>1. Add(list, child) = list
    <3>1. Extract(child) = <<>>
      BY <1>1, <1>3, ExtractFacts
    <3> QED
      BY <1>2, <3>1, ConcatEmptySeq DEF Add
  <2> QED
    BY <1>3, <2>1, GoodFacts DEF Holds
<1>4. CASE Complete(child)
  <2> DEFINE new == <<Fields(child)>> \o list
  <2>1. Fields(child) \in [Field -> Text] /\ Add(list, child) = new
    BY <1>1, <1>4, ExtractFacts DEF Add
  <2>2. /\ new \in Seq([Field -> Text])
        /\ Len(new) = Len(list) + 1
        /\ new[1] = Fields(child)
        /\ \A k \in 1..Len(list) : new[1 + k] = list[k]
    BY <1>2, <2>1
  <2> HIDE DEF new
  <2>3. Len(new) = Cardinality(Good(children, n))
    BY <1>4, <2>2, GoodFacts DEF Holds
  <2>4. ASSUME NEW i \in Good(children, n)
        PROVE  /\ 1 + After(children, n, i) \in 1..Len(new)
               /\ new[1 + After(children, n, i)] = Fields(children[i])
    <3>1. CASE i = n
      <4>1. After(children, n, i) = 0
        BY <1>4, <3>1, GoodFacts
      <4> QED
        BY <1>2, <2>2, <3>1, <4>1
    <3>2. CASE i # n
      <4>1. i \in Good(children, n - 1)
        BY <1>4, <3>2, GoodFacts
      <4> DEFINE k == 1 + After(children, n - 1, i)
      <4>2. k \in 1..Len(list) /\ list[k] = Fields(children[i])
        BY <4>1 DEF Holds
      <4>3. 1 + After(children, n, i) = 1 + k
        BY <1>4, <4>1, GoodFacts
      <4> HIDE DEF k
      <4> QED
        BY <1>2, <2>2, <4>2, <4>3
    <3> QED
      BY <3>1, <3>2
  <2> QED
    BY <2>1, <2>2, <2>3, <2>4 DEF Holds
<1> QED
  BY <1>3, <1>4

\* A valid document is decoded to the lookups that count, the last one first.
LEMMA DecodeFacts ==
    ASSUME NEW doc \in Documents
    PROVE  /\ doc.children \in Seq(Child)
           /\ doc.valid => Holds(Decode(doc), doc.children, Len(doc.children))
           /\ ~doc.valid => Decode(doc) = <<>>
<1> DEFINE children == doc.children
           D == 0..Len(children)
           R == [Field -> Text]
           V == Seq(R)
           E(g) == [i \in D |-> IF i = 0 THEN <<>> ELSE Add(g[i - 1], children[i])]
           m == [i \in D |-> i]
           F == [g \in [D -> V] |-> E(g)]
<1>1. children \in Seq(Child) /\ Len(children) \in Nat
  BY ResultsAssumption, LenProperties
<1>2. ASSUME NEW i \in D, i # 0
      PROVE  /\ i \in 1..Len(children) /\ i - 1 \in D
             /\ i - 1 < i
             /\ children[i] \in Child
  BY <1>1, <1>2, ElementOfSeq
<1> HIDE DEF children
<1>3. m \in [D -> Nat]
  BY <1>1
<1>4. ASSUME NEW list \in V, NEW child \in Child PROVE Add(list, child) \in V
  <2>1. Extract(child) = <<>> \/ \E fields \in R : Extract(child) = <<fields>>
    BY ExtractFacts
  <2> HIDE DEF R
  <2>2. Extract(child) \in V
    <3>1. CASE Extract(child) = <<>>
      BY <3>1
    <3>2. ASSUME NEW fields \in R, Extract(child) = <<fields>> PROVE Extract(child) \in V
      <4>1. <<fields>> \in V
        OBVIOUS
      <4> HIDE DEF V
      <4> QED
        BY <3>2, <4>1
    <3> QED
      BY <2>1, <3>1, <3>2
  <2> QED
    BY <2>2, ConcatProperties DEF Add
<1>5. <<>> \in V
  OBVIOUS
<1>6. ASSUME NEW g \in [D -> V] PROVE E(g) \in [D -> V] /\ F[g] = E(g)
  <2> HIDE DEF V
  <2>1. ASSUME NEW i \in D
        PROVE  (IF i = 0 THEN <<>> ELSE Add(g[i - 1], children[i])) \in V
    BY <1>2, <1>4, <1>5
  <2> HIDE DEF D
  <2> QED
    BY <2>1
<1>7. F \in [[D -> V] -> [D -> V]]
  <2> HIDE DEF V, E, D
  <2> QED
    BY <1>6
<1>8. Recursive(F, D, V, m)
  <2> SUFFICES ASSUME NEW i \in D, NEW g \in [D -> V], NEW h \in [D -> V],
                      \A k \in D : m[k] < m[i] => g[k] = h[k]
               PROVE  F[g][i] = F[h][i]
    BY <1>7 DEF Recursive
  <2>1. i # 0 => g[i - 1] = h[i - 1]
    BY <1>2
  <2>2. E(g)[i] = E(h)[i]
    BY <2>1
  <2> HIDE DEF E, V, D
  <2> QED
    BY <1>6, <2>2
<1>9. \E w : w = E(w)
  <2> HIDE DEF D, V, F, m
  <2>1. PICK w \in [D -> V] : w = F[w]
    BY <1>3, <1>5, <1>8, RecursionExists
  <2> HIDE DEF E
  <2>2. w = E(w)
    BY <1>6, <2>1
  <2> QED
    BY <2>2
<1> DEFINE result_list == CHOOSE w : w = E(w)
<1>10. result_list = E(result_list)
  BY <1>9
<1> HIDE DEF result_list
<1>11. Decode(doc) = IF doc.valid THEN result_list[Len(children)] ELSE <<>>
  BY DEF Decode, children, result_list
<1>12. \A i \in D : result_list[i] = IF i = 0 THEN <<>>
                                     ELSE Add(result_list[i - 1], children[i])
  BY <1>10
<1>13. ASSUME NEW i \in D,
              \A k \in D : m[k] < m[i] => Holds(result_list[k], children, k)
       PROVE  Holds(result_list[i], children, i)
  <2>1. CASE i = 0
    <3>1. Good(children, i) = {}
      BY <2>1 DEF Good
    <3>2. Cardinality(Good(children, i)) = 0
      BY <3>1, FS_EmptySet
    <3>3. result_list[i] = <<>>
      BY <1>12, <2>1
    <3> QED
      BY <3>1, <3>2, <3>3 DEF Holds
  <2>2. CASE i # 0
    <3>1. Holds(result_list[i - 1], children, i - 1)
      BY <1>2, <1>13, <2>2
    <3>2. Holds(Add(result_list[i - 1], children[i]), children, i)
      BY <1>1, <1>2, <2>2, <3>1, AddFacts
    <3> QED
      BY <1>12, <2>2, <3>2
  <2> QED
    BY <2>1, <2>2
<1>14. \A i \in D : Holds(result_list[i], children, i)
  <2> DEFINE P == {i \in D : Holds(result_list[i], children, i)}
  <2>1. \A i \in D : (\A k \in D : m[k] < m[i] => k \in P) => i \in P
    BY <1>13
  <2> HIDE DEF P, D, m
  <2>2. \A i \in D : i \in P
    BY <1>3, <2>1, MeasureInduction
  <2> QED
    BY <2>2 DEF P
<1>15. Len(children) \in D
  BY <1>1
<1> QED
  BY <1>1, <1>11, <1>14, <1>15 DEF children

\* The lookups answered are the entries of this list.
LEMMA ListFacts ==
    ASSUME NEW doc \in Documents
    PROVE  LET children == doc.children
               lookups == ResultsListBuild(doc)
               good == IF doc.valid THEN Good(children, Len(children)) ELSE {}
               Place(i) == 1 + Cardinality({j \in good : j > i})
           IN  /\ Len(lookups) = Cardinality(good)
               /\ ToSet(lookups) \subseteq {Lookup(fields) : fields \in [Field -> Text]}
               /\ \A i \in good : lookups[Place(i)] = Lookup(Fields(children[i]))
<1> DEFINE children == doc.children
           lookups == ResultsListBuild(doc)
           list == Decode(doc)
           good == IF doc.valid THEN Good(children, Len(children)) ELSE {}
           S == {Lookup(fields) : fields \in [Field -> Text]}
<1>1. /\ list \in Seq([Field -> Text])
      /\ Len(list) = Cardinality(good)
      /\ \A i \in good :
            LET p == 1 + Cardinality({j \in good : j > i})
            IN  p \in 1..Len(list) /\ list[p] = Fields(children[i])
  <2>1. CASE doc.valid
    BY <2>1, DecodeFacts DEF Holds, After
  <2>2. CASE ~doc.valid
    BY <2>2, DecodeFacts, FS_EmptySet, EmptySeq
  <2> QED
    BY <2>1, <2>2
<1> HIDE DEF list, good
<1>2. /\ Len(list) \in Nat /\ DOMAIN list = 1..Len(list)
      /\ \A k \in 1..Len(list) : list[k] \in [Field -> Text]
  BY <1>1, LenProperties, ElementOfSeq
<1>3. lookups = [k \in 1..Len(list) |-> Lookup(list[k])]
  BY <1>2 DEF ResultsListBuild, list
<1>4. \A k \in 1..Len(list) : lookups[k] = Lookup(list[k]) /\ lookups[k] \in S
  BY <1>2, <1>3
<1>5. lookups \in Seq(S) /\ Len(lookups) = Len(list)
  <2>1. lookups \in [1..Len(list) -> S]
    BY <1>3, <1>4
  <2>2. lookups \in Seq(S)
    BY <1>2, <2>1
  <2>3. DOMAIN lookups = 1..Len(list)
    BY <2>1
  <2> HIDE DEF lookups
  <2> QED
    BY <1>2, <2>2, <2>3
<1>6. ToSet(lookups) \subseteq S
  <2>1. DOMAIN lookups = 1..Len(list)
    BY <1>3
  <2> QED
    BY <1>4, <2>1 DEF ToSet
<1>7. \A i \in good : lookups[1 + Cardinality({j \in good : j > i})]
                        = Lookup(Fields(children[i]))
  BY <1>1, <1>4
<1> QED
  BY <1>1, <1>5, <1>6, <1>7 DEF good

-----------------------------------------------------------------------------
\* The inductive invariant.

ResultsInv ==
    /\ op \in Actions
    /\ reply = None => answer = None
    /\ reply # None => reply \in Replies(op)
    /\ answer # None =>
         answer = IF IsFailure(reply) THEN Failure ELSE Success(reply)

LEMMA ResultsStep == ResultsInv /\ [Next]_vars => ResultsInv'
<1> SUFFICES ASSUME ResultsInv, [Next]_vars PROVE ResultsInv'
  OBVIOUS
<1>1. CASE Reply
  BY <1>1 DEF ResultsInv, Reply
<1>2. CASE Answer
  BY <1>2 DEF ResultsInv, Answer
<1>3. CASE UNCHANGED vars
  BY <1>3 DEF ResultsInv, vars
<1> QED
  BY <1>1, <1>2, <1>3 DEF Next

\* What the client is answered follows from what the device replied.
THEOREM ResultsInvariance == Spec => []ResultsInv
<1>1. Init => ResultsInv
  BY DEF Init, ResultsInv
<1> QED
  BY <1>1, ResultsStep, PTL DEF Spec

\* The parameters of a reply by type; None stands for a missing one.
LEMMA ReplyType ==
    ASSUME NEW r \in Replies(op)
    PROVE  /\ DOMAIN r.text = op.text /\ DOMAIN r.uint = op.uint
           /\ DOMAIN r.rest = op.rest
           /\ r.ended =>
                /\ \A p \in op.text : r.text[p] \in Text \cup {None}
                /\ \A p \in op.uint : r.uint[p] \in UInt \cup {None}
                /\ op = NSLookupResult =>
                     \A p \in op.rest : r.rest[p] \in Documents \cup {None}
BY DEF Replies

\* A reply that is not taken for a failure, and its answer.
LEMMA SuccessFacts ==
    ASSUME ResultsInv, Successful
    PROVE  /\ reply \in Replies(op) /\ ~IsFailure(reply)
           /\ answer.text = reply.text
           /\ answer.uint = [p \in op.uint |-> Number(reply.uint[p])]
           /\ DOMAIN answer.rest = op.rest
           /\ op = NSLookupResult =>
                /\ reply.rest["Result"] \in Documents
                /\ answer.rest["Result"] = ResultsListBuild(reply.rest["Result"])
<1>1. reply \in Replies(op)
  BY DEF ResultsInv, Successful, Answered
<1>2. ~IsFailure(reply)
  BY DEF ResultsInv, Successful, Answered, Failure
<1>3. answer = Success(reply)
  BY <1>2 DEF ResultsInv, Successful, Answered
<1>4. /\ answer.text = reply.text
      /\ answer.uint = [p \in DOMAIN reply.uint |-> Number(reply.uint[p])]
      /\ answer.rest = [p \in DOMAIN reply.rest |->
                          IF p = "Result" THEN ResultsListBuild(reply.rest[p])
                                          ELSE Split(reply.rest[p])]
  BY <1>3 DEF Success
<1>5. DOMAIN reply.uint = op.uint /\ DOMAIN reply.rest = op.rest
  BY <1>1, ReplyType
<1>6. ASSUME op = NSLookupResult
      PROVE  /\ reply.rest["Result"] \in Documents
             /\ answer.rest["Result"] = ResultsListBuild(reply.rest["Result"])
  <2>1. "Result" \in op.rest
    BY <1>6 DEF NSLookupResult, Shape
  <2>2. reply.ended /\ reply.rest["Result"] # None
    BY <1>2, <1>5, <2>1 DEF IsFailure
  <2> QED
    BY <1>1, <1>4, <1>5, <1>6, <2>1, <2>2, ReplyType
<1> QED
  BY <1>1, <1>2, <1>4, <1>5, <1>6

\* A successful answer has all its values, those of every lookup included:
\* missing parameters are told by the values put there before (device.c:1207,
\* 1228, 1549), and fields by the pointers that stay NULL (device.c:1385).
THEOREM ResultsTypeCorrect == Spec => []ResultsTypeOK
<1>1. ASSUME ResultsInv PROVE ResultsTypeOK
  <2> SUFFICES ASSUME Successful
               PROVE  /\ answer.text \in [op.text -> Text]
                      /\ answer.uint \in [op.uint -> UInt]
                      /\ DOMAIN answer.rest = op.rest
                      /\ op = NSLookupResult =>
                           \A l \in ToSet(answer.rest["Result"]) :
                               \A f \in Field \ {"IPAddresses", "ResponseTime"} :
                                   l[f] \in Text
    BY DEF ResultsTypeOK
  <2>1. /\ reply \in Replies(op) /\ ~IsFailure(reply)
        /\ answer.text = reply.text
        /\ answer.uint = [p \in op.uint |-> Number(reply.uint[p])]
        /\ DOMAIN answer.rest = op.rest
    BY <1>1, SuccessFacts
  <2>2. /\ DOMAIN reply.text = op.text /\ DOMAIN reply.uint = op.uint
        /\ \A p \in op.text : reply.text[p] \in Text
        /\ \A p \in op.uint : reply.uint[p] \in UInt \cup {None}
    BY <2>1, ReplyType DEF IsFailure
  <2>3. answer.text \in [op.text -> Text]
    <3>1. reply.text = [p \in op.text |-> reply.text[p]]
      BY <2>1, <2>2 DEF Replies
    <3> QED
      BY <2>1, <2>2, <3>1
  <2>4. answer.uint \in [op.uint -> UInt]
    BY <2>1, <2>2, ResultsAssumption DEF Number
  <2>5. ASSUME op = NSLookupResult,
               NEW l \in ToSet(answer.rest["Result"]),
               NEW f \in Field \ {"IPAddresses", "ResponseTime"}
        PROVE  l[f] \in Text
    <3>1. /\ reply.rest["Result"] \in Documents
          /\ answer.rest["Result"] = ResultsListBuild(reply.rest["Result"])
      BY <1>1, <2>5, SuccessFacts
    <3>2. PICK fields \in [Field -> Text] : l = Lookup(fields)
      BY <2>5, <3>1, ListFacts
    <3>3. l[f] = fields[f]
      BY <3>2 DEF Lookup
    <3> QED
      BY <3>2, <3>3
  <2> QED
    BY <2>1, <2>3, <2>4, <2>5
<1> QED
  BY <1>1, ResultsInvariance, PTL

\* Nothing the device has not sent is answered, and an error only where the
\* action failed or a parameter is missing or the largest number there is
\* (device.c:1116-1124).
THEOREM OnlyRepliesAnswered == Spec => []AnswersAreReplies
<1>1. ASSUME ResultsInv PROVE AnswersAreReplies
  <2> SUFFICES ASSUME Answered PROVE AnswersAreReplies
    BY DEF AnswersAreReplies
  <2>1. /\ reply \in Replies(op)
        /\ answer = IF IsFailure(reply) THEN Failure ELSE Success(reply)
    BY <1>1 DEF ResultsInv, Answered
  <2>2. /\ DOMAIN reply.text = op.text /\ DOMAIN reply.uint = op.uint
        /\ DOMAIN reply.rest = op.rest
    BY <2>1, ReplyType
  <2>3. CASE IsFailure(reply)
    <3>1. answer.error
      BY <2>1, <2>3 DEF Failure
    <3>2. \/ ~reply.ended
          \/ \E p \in op.text : reply.text[p] = None
          \/ \E p \in op.uint : reply.uint[p] \in {None, MaxUInt}
          \/ \E p \in op.rest : reply.rest[p] = None
      BY <2>2, <2>3 DEF IsFailure, Number
    <3> QED
      BY <3>1, <3>2 DEF AnswersAreReplies
  <2>4. CASE ~IsFailure(reply)
    <3>1. ~answer.error
      BY <2>1, <2>4 DEF Success
    <3>2. Successful
      BY <3>1 DEF Successful
    <3>3. /\ answer.text = reply.text
          /\ answer.uint = [p \in op.uint |-> Number(reply.uint[p])]
      BY <1>1, <3>2, SuccessFacts
    <3>4. reply.ended
      BY <2>4 DEF IsFailure
    <3>5. ASSUME NEW p \in op.uint PROVE answer.uint[p] = reply.uint[p]
      <4>1. Number(reply.uint[p]) # MaxUInt
        BY <2>2, <2>4 DEF IsFailure
      <4> QED
        BY <3>3, <4>1 DEF Number
    <3> QED
      BY <3>2, <3>3, <3>4, <3>5 DEF AnswersAreReplies
  <2> QED
    BY <2>3, <2>4
<1> QED
  BY <1>1, ResultsInvariance, PTL

\* For documents of any length: the lookups answered are those that have all
\* their fields, each exactly once and the last one first (device.c:1443-1449).
THEOREM LookupsInOrder == Spec => []LookupsNewestFirst
<1>1. ASSUME ResultsInv PROVE LookupsNewestFirst
  <2> SUFFICES ASSUME Successful, op = NSLookupResult PROVE LookupsNewestFirst
    BY DEF LookupsNewestFirst
  <2> DEFINE doc == reply.rest["Result"]
             lookups == answer.rest["Result"]
             children == doc.children
             good == IF doc.valid THEN Good(children, Len(children)) ELSE {}
             Place(i) == 1 + Cardinality({j \in good : j > i})
  <2>1. doc \in Documents /\ lookups = ResultsListBuild(doc)
    BY <1>1, SuccessFacts
  <2>2. /\ Len(lookups) = Cardinality(good)
        /\ \A i \in good : lookups[Place(i)] = Lookup(Fields(children[i]))
    BY <2>1, ListFacts
  <2>3. /\ children \in Seq(Child)
        /\ Len(children) \in Nat /\ DOMAIN children = 1..Len(children)
    BY <2>1, DecodeFacts, LenProperties
  <2>4. good = {i \in DOMAIN children : doc.valid /\ Complete(children[i])}
    BY <2>3 DEF Good
  <2>5. ASSUME NEW i \in good
        PROVE  /\ Gives(children[i], "Status", lookups[Place(i)]["Status"])
               /\ \E t \in Text :
                    /\ Gives(children[i], "IPAddresses", t)
                    /\ lookups[Place(i)]["IPAddresses"] = Split(t)
    <3> DEFINE fields == Fields(children[i])
    <3>1. children[i] \in Child /\ Complete(children[i])
      BY <2>3, <2>4, ElementOfSeq
    <3>2. fields \in [Field -> Text]
      BY <3>1, ExtractFacts
    <3>3. \A f \in Field : fields[f] \in Text /\ Gives(children[i], f, fields[f])
      BY <3>1, <3>2, ContentFacts DEF Fields
    <3> HIDE DEF fields
    <3>4. "Status" \in Field /\ "IPAddresses" \in Field
      BY DEF Field
    <3>5. lookups[Place(i)] = Lookup(fields)
      BY <2>2 DEF fields
    <3>6. /\ lookups[Place(i)]["Status"] = fields["Status"]
          /\ lookups[Place(i)]["IPAddresses"] = Split(fields["IPAddresses"])
      BY <3>4, <3>5 DEF Lookup
    <3> QED
      BY <3>3, <3>4, <3>6
  <2> QED
    BY <2>2, <2>4, <2>5 DEF LookupsNewestFirst, Complete
<1> QED
  BY <1>1, ResultsInvariance, PTL
=============================================================================
