------------------------------ MODULE DataFacts ------------------------------
(***************************************************************************)
(* What the proofs of several components need of naturals, of recursive    *)
(* definitions and of sequences.                                           *)
(***************************************************************************)
EXTENDS Integers, SequencesExt, SequenceTheorems, WellFoundedInduction, TLAPS

\* Sets of naturals have a least element, which Min chooses.
LEMMA MinProperty ==
    ASSUME NEW S \in SUBSET Nat, S # {}
    PROVE  Min(S) \in S /\ \A x \in S : Min(S) <= x
<1>1. \E x \in S : \A y \in S : ~(<<y, x>> \in OpToRel(<, Nat))
  <2>1. IsWellFoundedOn(OpToRel(<, Nat), Nat)
    BY NatLessThanWellFounded
  <2> QED
    BY <2>1, WFMin, Zenon
<1>2. \E x \in S : \A y \in S : x <= y
  <2>1. PICK x \in S : \A y \in S : ~(<<y, x>> \in OpToRel(<, Nat))
    BY <1>1
  <2>2. \A y \in S : ~(y < x)
    BY <2>1 DEF OpToRel
  <2> QED
    BY <2>2
<1> QED
  BY <1>2 DEF Min

-----------------------------------------------------------------------------
\* Recursion.

\* What holds of x when it holds of all that is smaller holds of everything:
\* otherwise there would be a smallest counterexample.
LEMMA MeasureInduction ==
    ASSUME NEW D, NEW m \in [D -> Nat], NEW P,
           \A x \in D : (\A y \in D : m[y] < m[x] => y \in P) => x \in P
    PROVE  \A x \in D : x \in P
<1> DEFINE C == {m[x] : x \in {y \in D : y \notin P}}
<1>1. SUFFICES ASSUME NEW x \in D, x \notin P PROVE FALSE
  OBVIOUS
<1>2. C \in SUBSET Nat /\ C # {}
  BY <1>1
<1>3. PICK least \in C : \A k \in C : least <= k
  BY <1>2, MinProperty
<1>4. PICK y \in D : y \notin P /\ m[y] = least
  BY <1>3
<1>5. \A z \in D : m[z] < m[y] => z \in P
  <2> SUFFICES ASSUME NEW z \in D, m[z] < m[y], z \notin P PROVE FALSE
    OBVIOUS
  <2>1. m[z] \in C /\ m[z] \in Nat /\ m[y] \in Nat
    OBVIOUS
  <2> QED
    BY <1>3, <1>4, <2>1
<1> QED
  BY <1>4, <1>5

\* F defines a function on D by recursion: the value at x depends on the values
\* at what is smaller only.
Recursive(F, D, V, m) ==
    /\ F \in [[D -> V] -> [D -> V]]
    /\ \A x \in D : \A g, h \in [D -> V] :
          (\A y \in D : m[y] < m[x] => g[y] = h[y]) => F[g][x] = F[h][x]

LEMMA RecursionExists ==
    ASSUME NEW D, NEW V, V # {}, NEW m \in [D -> Nat], NEW F, Recursive(F, D, V, m)
    PROVE  \E w \in [D -> V] : w = F[w]
<1> USE DEF Recursive
<1> DEFINE Good(k, w) == \A x \in D : m[x] < k => w[x] = F[w][x]
           P == {k \in Nat : \E w \in [D -> V] : Good(k, w)}
<1>1. 0 \in P
  <2>1. PICK v \in V : TRUE
    OBVIOUS
  <2>2. [x \in D |-> v] \in [D -> V]
    OBVIOUS
  <2>3. \A x \in D : ~(m[x] < 0)
    OBVIOUS
  <2> QED
    BY <2>2, <2>3
<1>2. ASSUME NEW k \in Nat, k \in P PROVE k + 1 \in P
  <2>1. PICK w \in [D -> V] : Good(k, w)
    BY <1>2
  <2> DEFINE n == [x \in D |-> F[w][x]]
  <2>2. F[w] \in [D -> V] /\ n \in [D -> V]
    OBVIOUS
  <2>3. ASSUME NEW x \in D, m[x] < k + 1 PROVE n[x] = F[n][x]
    <3>1. ASSUME NEW y \in D, m[y] < m[x] PROVE w[y] = n[y]
      <4>1. m[y] < k
        BY <2>3, <3>1
      <4> QED
        BY <2>1, <4>1
    <3>2. F[w][x] = F[n][x]
      BY <2>2, <3>1
    <3> QED
      BY <3>2
  <2> QED
    BY <2>2, <2>3
<1>3. \A k \in Nat : k \in P
  <2> DEFINE id == [k \in Nat |-> k]
  <2>1. id \in [Nat -> Nat]
    OBVIOUS
  <2> HIDE DEF P
  <2>2. ASSUME NEW k \in Nat, \A y \in Nat : id[y] < id[k] => y \in P
        PROVE  k \in P
    <3>1. CASE k = 0
      BY <1>1, <3>1
    <3>2. CASE k # 0
      <4>1. k - 1 \in Nat /\ id[k - 1] < id[k] /\ (k - 1) + 1 = k
        BY <3>2
      <4>2. k - 1 \in P
        BY <2>2, <4>1
      <4> QED
        BY <1>2, <4>1, <4>2
    <3> QED
      BY <3>1, <3>2
  <2> HIDE DEF id
  <2> QED
    BY <2>1, <2>2, MeasureInduction
<1>4. \A k \in Nat : \E w \in [D -> V] : Good(k, w)
  BY <1>3
<1> DEFINE W == [x \in D |-> F[CHOOSE w \in [D -> V] : Good(m[x], w)][x]]
<1>5. ASSUME NEW x \in D
      PROVE  \E w \in [D -> V] : Good(m[x], w) /\ W[x] = F[w][x]
  <2> DEFINE w == CHOOSE v \in [D -> V] : Good(m[x], v)
  <2>1. m[x] \in Nat
    OBVIOUS
  <2>2. \E v \in [D -> V] : Good(m[x], v)
    BY <1>4, <2>1
  <2>3. w \in [D -> V] /\ Good(m[x], w)
    BY <2>2
  <2>4. W[x] = F[w][x]
    OBVIOUS
  <2> QED
    BY <2>3, <2>4
<1>6. W \in [D -> V]
  <2>1. \A x \in D : W[x] \in V
    BY <1>5
  <2> QED
    BY <2>1
\* Below k, all that are good below k agree with W.
<1>7. ASSUME NEW k \in Nat, NEW w \in [D -> V], Good(k, w)
      PROVE  \A x \in D : m[x] < k => w[x] = W[x]
  <2> DEFINE Q == {y \in D : \A g \in [D -> V], j \in Nat :
                        Good(j, g) /\ m[y] < j => g[y] = W[y]}
  <2>1. ASSUME NEW y \in D, \A z \in D : m[z] < m[y] => z \in Q PROVE y \in Q
    <3> SUFFICES ASSUME NEW g \in [D -> V], NEW j \in Nat, Good(j, g), m[y] < j
                 PROVE  g[y] = W[y]
      OBVIOUS
    <3> HIDE DEF W
    <3>1. PICK v \in [D -> V] : Good(m[y], v) /\ W[y] = F[v][y]
      BY <1>5
    <3>2. ASSUME NEW z \in D, m[z] < m[y] PROVE v[z] = g[z]
      <4>1. m[z] \in Nat /\ m[y] \in Nat /\ m[z] < j
        BY <3>2
      <4>2. z \in Q
        BY <2>1, <3>2
      <4>3. v[z] = W[z]
        BY <3>1, <3>2, <4>1, <4>2
      <4>4. g[z] = W[z]
        BY <4>1, <4>2
      <4> QED
        BY <4>3, <4>4
    <3>3. F[v][y] = F[g][y]
      BY <3>2
    <3>4. g[y] = F[g][y]
      OBVIOUS
    <3> QED
      BY <3>1, <3>3, <3>4
  <2> HIDE DEF Q
  <2>2. \A y \in D : y \in Q
    BY <2>1, MeasureInduction
  <2> SUFFICES ASSUME NEW x \in D, m[x] < k PROVE w[x] = W[x]
    OBVIOUS
  <2>3. x \in Q
    BY <2>2
  <2> HIDE DEF W
  <2> QED
    BY <2>3, <1>7 DEF Q
<1>8. ASSUME NEW x \in D PROVE W[x] = F[W][x]
  <2> HIDE DEF W
  <2>1. PICK v \in [D -> V] : Good(m[x], v) /\ W[x] = F[v][x]
    BY <1>5
  <2>2. m[x] \in Nat
    OBVIOUS
  <2>3. \A y \in D : m[y] < m[x] => v[y] = W[y]
    BY <1>7, <2>1, <2>2
  <2>4. F[v][x] = F[W][x]
    BY <1>6, <2>3
  <2> QED
    BY <2>1, <2>4
<1> HIDE DEF W
<1>9. F[W] \in [D -> V]
  BY <1>6
<1>10. W = F[W]
  BY <1>6, <1>8, <1>9
<1> QED
  BY <1>6, <1>10

-----------------------------------------------------------------------------
\* Sequences without repetitions.

LEMMA TailInjective ==
    ASSUME NEW S, NEW q \in Seq(S), q # <<>>, IsInjective(q)
    PROVE  /\ Head(q) \in ToSet(q)
           /\ Head(q) \in S
           /\ Tail(q) \in Seq(S)
           /\ IsInjective(Tail(q))
           /\ ToSet(Tail(q)) = ToSet(q) \ {Head(q)}
<1>1. /\ Len(q) \in Nat /\ Len(q) > 0
      /\ DOMAIN q = 1..Len(q)
      /\ \A i \in DOMAIN q : q[i] \in S
  BY LenProperties, EmptySeq, ElementOfSeq
<1>2. /\ Head(q) = q[1]
      /\ Tail(q) \in Seq(S)
      /\ Len(Tail(q)) = Len(q) - 1
      /\ \A i \in 1..Len(Tail(q)) : Tail(q)[i] = q[i + 1]
  BY HeadTailProperties
<1>3. DOMAIN Tail(q) = 1..(Len(q) - 1)
  BY <1>2, LenProperties
<1>4. IsInjective(Tail(q))
  BY <1>1, <1>2, <1>3 DEF IsInjective
<1>5. ASSUME NEW t \in ToSet(Tail(q)) PROVE t \in ToSet(q) /\ t # Head(q)
  BY <1>1, <1>2, <1>3, <1>5 DEF ToSet, IsInjective
<1>6. ASSUME NEW t \in ToSet(q), t # Head(q) PROVE t \in ToSet(Tail(q))
  <2>1. PICK i \in DOMAIN q : t = q[i]
    BY DEF ToSet
  <2>2. i # 1 /\ i - 1 \in DOMAIN Tail(q) /\ Tail(q)[i - 1] = t
    BY <1>1, <1>2, <1>3, <1>6, <2>1
  <2> QED
    BY <2>2 DEF ToSet
<1>7. Head(q) \in ToSet(q) /\ Head(q) \in S
  BY <1>1, <1>2 DEF ToSet
<1>8. ToSet(Tail(q)) = ToSet(q) \ {Head(q)}
  BY <1>5, <1>6
<1> QED
  BY <1>2, <1>4, <1>7, <1>8

LEMMA AppendInjectiveSet ==
    ASSUME NEW S, NEW q \in Seq(S), NEW t \in S, t \notin ToSet(q), IsInjective(q)
    PROVE  /\ Append(q, t) \in Seq(S)
           /\ Append(q, t) # <<>>
           /\ IsInjective(Append(q, t))
           /\ ToSet(Append(q, t)) = ToSet(q) \cup {t}
<1>1. /\ Append(q, t) \in Seq(S)
      /\ Append(q, t) # <<>>
      /\ Len(Append(q, t)) = Len(q) + 1
      /\ \A i \in 1..Len(q) : Append(q, t)[i] = q[i]
      /\ Append(q, t)[Len(q) + 1] = t
  BY AppendProperties
<1>2. Len(q) \in Nat /\ DOMAIN q = 1..Len(q)
      /\ DOMAIN Append(q, t) = 1..(Len(q) + 1)
  BY <1>1, LenProperties
<1>3. \A i \in 1..Len(q) : q[i] # t
  BY <1>2 DEF ToSet
<1>4. IsInjective(Append(q, t))
  BY <1>1, <1>2, <1>3 DEF IsInjective
<1>5. ToSet(Append(q, t)) = ToSet(q) \cup {t}
  <2>1. ASSUME NEW i \in 1..(Len(q) + 1)
        PROVE  Append(q, t)[i] \in ToSet(q) \cup {t}
    BY <1>1, <1>2 DEF ToSet
  <2>2. ASSUME NEW i \in 1..Len(q) PROVE q[i] \in ToSet(Append(q, t))
    BY <1>1, <1>2 DEF ToSet
  <2>3. t \in ToSet(Append(q, t))
    BY <1>1, <1>2 DEF ToSet
  <2> QED
    BY <1>2, <2>1, <2>2, <2>3 DEF ToSet
<1> QED
  BY <1>1, <1>4, <1>5

LEMMA EmptyInjective ==
    /\ IsInjective(<<>>)
    /\ ToSet(<<>>) = {}
    /\ \A S : <<>> \in Seq(S)
    /\ \A S : \A q \in Seq(S) : ToSet(q) \subseteq S /\ (ToSet(q) = {} => q = <<>>)
<1>1. \A S : <<>> \in Seq(S) /\ \A q \in Seq(S) : (q = <<>>) <=> (Len(q) = 0)
  BY EmptySeq
<1>2. \A S : \A q \in Seq(S) : Len(q) \in Nat /\ DOMAIN q = 1..Len(q)
  BY LenProperties
<1>3. DOMAIN <<>> = {}
  OBVIOUS
<1>4. ASSUME NEW S, NEW q \in Seq(S)
      PROVE  ToSet(q) \subseteq S /\ (ToSet(q) = {} => q = <<>>)
  <2>1. \A i \in 1..Len(q) : q[i] \in S
    BY ElementOfSeq
  <2>2. q # <<>> => 1 \in 1..Len(q)
    BY <1>1, <1>2
  <2> QED
    BY <1>2, <2>1, <2>2 DEF ToSet
<1> QED
  BY <1>1, <1>3, <1>4 DEF IsInjective, ToSet

\* A sequence with one more element in front.
LEMMA ConsFacts ==
    ASSUME NEW S, NEW q \in Seq(S), NEW a \in S, NEW b \in S
    PROVE  /\ <<a>> \o q \in Seq(S)
           /\ Len(<<a>> \o q) = Len(q) + 1
           /\ ToSet(<<a>> \o q) = {a} \cup ToSet(q)
           /\ Append(<<a>> \o q, b) = <<a>> \o Append(q, b)
           /\ Head(<<a>> \o q) = a
           /\ Tail(<<a>> \o q) = q
<1> DEFINE p == <<a>> \o q
<1>1. <<a>> \in Seq(S) /\ <<b>> \in Seq(S) /\ Len(<<a>>) = 1 /\ <<a>>[1] = a
  OBVIOUS
<1>2. /\ p \in Seq(S)
      /\ Len(p) = 1 + Len(q)
      /\ \A i \in 1..(1 + Len(q)) : p[i] = IF i <= 1 THEN <<a>>[i] ELSE q[i - 1]
  BY <1>1, ConcatProperties
<1>3. /\ Len(q) \in Nat /\ DOMAIN q = 1..Len(q)
      /\ DOMAIN p = 1..(1 + Len(q))
  BY <1>2, LenProperties
<1> HIDE DEF p
<1>4. p[1] = a /\ \A i \in 1..Len(q) : p[i + 1] = q[i]
  BY <1>1, <1>2, <1>3
<1>5. p # <<>>
  BY <1>2, <1>3, EmptySeq
<1>6. Head(p) = a
  BY <1>2, <1>4, <1>5, HeadTailProperties
<1>7. Tail(p) = q
  <2>1. /\ Tail(p) \in Seq(S) /\ Len(Tail(p)) = Len(q)
        /\ \A i \in 1..Len(Tail(p)) : Tail(p)[i] = p[i + 1]
    BY <1>2, <1>3, <1>5, HeadTailProperties
  <2> QED
    BY <1>4, <2>1, SeqEqual
<1>8. ToSet(p) = {a} \cup ToSet(q)
  <2>1. ASSUME NEW i \in DOMAIN p PROVE p[i] \in {a} \cup ToSet(q)
    <3>1. CASE i = 1
      BY <1>4, <3>1
    <3>2. CASE i # 1
      <4>1. i - 1 \in 1..Len(q) /\ p[i] = q[i - 1]
        BY <1>2, <1>3, <3>2
      <4> QED
        BY <1>3, <4>1 DEF ToSet
    <3> QED
      BY <3>1, <3>2
  <2>2. ASSUME NEW i \in DOMAIN q PROVE q[i] \in ToSet(p)
    <3>1. i + 1 \in DOMAIN p /\ p[i + 1] = q[i]
      BY <1>3, <1>4
    <3> QED
      BY <3>1 DEF ToSet
  <2>3. a \in ToSet(p)
    BY <1>3, <1>4 DEF ToSet
  <2> QED
    BY <2>1, <2>2, <2>3 DEF ToSet
<1>9. Append(p, b) = <<a>> \o Append(q, b)
  BY <1>1, <1>2, ConcatAssociative, AppendIsConcat DEF p
<1> QED
  BY <1>2, <1>3, <1>6, <1>7, <1>8, <1>9 DEF p

\* A sequence without its i-th element.
LEMMA RemoveAtProperties ==
    ASSUME NEW S, NEW s \in Seq(S), NEW i \in 1..Len(s)
    PROVE  /\ RemoveAt(s, i) \in Seq(S)
           /\ Len(RemoveAt(s, i)) = Len(s) - 1
           /\ \A j \in 1..(Len(s) - 1) :
                RemoveAt(s, i)[j] = IF j < i THEN s[j] ELSE s[j + 1]
<1> DEFINE a == SubSeq(s, 1, i - 1)
           b == SubSeq(s, i + 1, Len(s))
<1>1. Len(s) \in Nat /\ i \in Nat
  BY LenProperties
<1>2. /\ a \in Seq(S) /\ Len(a) = i - 1
      /\ \A j \in 1..(i - 1) : a[j] = s[j]
  BY <1>1
<1>3. /\ b \in Seq(S) /\ Len(b) = Len(s) - i
      /\ \A j \in 1..(Len(s) - i) : b[j] = s[i + j]
  BY <1>1
<1>4. RemoveAt(s, i) = a \o b
  BY DEF RemoveAt
<1> HIDE DEF a, b
<1>5. a \o b \in Seq(S) /\ Len(a \o b) = Len(s) - 1
  <2>1. a \o b \in Seq(S) /\ Len(a \o b) = Len(a) + Len(b)
    BY <1>2, <1>3, ConcatProperties
  <2> QED
    BY <1>1, <1>2, <1>3, <2>1
<1>6. ASSUME NEW j \in 1..(Len(s) - 1)
      PROVE  (a \o b)[j] = IF j < i THEN s[j] ELSE s[j + 1]
  <2>1. (a \o b)[j] = IF j <= Len(a) THEN a[j] ELSE b[j - Len(a)]
    BY <1>1, <1>2, <1>3, ConcatProperties
  <2>2. CASE j < i
    BY <1>1, <1>2, <2>1, <2>2
  <2>3. CASE ~(j < i)
    BY <1>1, <1>2, <1>3, <2>1, <2>3
  <2> QED
    BY <2>2, <2>3
<1> QED
  BY <1>4, <1>5, <1>6

\* Two sequences in a row.
LEMMA ConcatSet ==
    ASSUME NEW S, NEW q \in Seq(S), NEW r \in Seq(S)
    PROVE  /\ q \o r \in Seq(S)
           /\ ToSet(q \o r) = ToSet(q) \cup ToSet(r)
<1>1. /\ q \o r \in Seq(S)
      /\ Len(q \o r) = Len(q) + Len(r)
      /\ \A i \in 1..(Len(q) + Len(r)) :
            (q \o r)[i] = IF i <= Len(q) THEN q[i] ELSE r[i - Len(q)]
  BY ConcatProperties
<1>2. /\ Len(q) \in Nat /\ Len(r) \in Nat
      /\ DOMAIN q = 1..Len(q) /\ DOMAIN r = 1..Len(r)
      /\ DOMAIN (q \o r) = 1..(Len(q) + Len(r))
  BY <1>1, LenProperties
<1>3. ASSUME NEW i \in DOMAIN (q \o r) PROVE (q \o r)[i] \in ToSet(q) \cup ToSet(r)
  <2>1. CASE i <= Len(q)
    BY <1>1, <1>2, <2>1 DEF ToSet
  <2>2. CASE ~(i <= Len(q))
    <3>1. i - Len(q) \in DOMAIN r /\ (q \o r)[i] = r[i - Len(q)]
      BY <1>1, <1>2, <2>2
    <3> QED
      BY <3>1 DEF ToSet
  <2> QED
    BY <2>1, <2>2
<1>4. ASSUME NEW i \in DOMAIN q PROVE q[i] \in ToSet(q \o r)
  BY <1>1, <1>2 DEF ToSet
<1>5. ASSUME NEW i \in DOMAIN r PROVE r[i] \in ToSet(q \o r)
  <2>1. /\ i + Len(q) \in DOMAIN (q \o r)
        /\ (q \o r)[i + Len(q)] = r[i]
    BY <1>1, <1>2
  <2> QED
    BY <2>1 DEF ToSet
<1> QED
  BY <1>1, <1>3, <1>4, <1>5 DEF ToSet

\* Two sequences without repetitions that have nothing in common.
LEMMA ConcatInjective ==
    ASSUME NEW S, NEW q \in Seq(S), NEW r \in Seq(S),
           IsInjective(q), IsInjective(r), ToSet(q) \cap ToSet(r) = {}
    PROVE  /\ q \o r \in Seq(S)
           /\ IsInjective(q \o r)
<1>1. /\ q \o r \in Seq(S)
      /\ Len(q \o r) = Len(q) + Len(r)
      /\ \A i \in 1..(Len(q) + Len(r)) :
            (q \o r)[i] = IF i <= Len(q) THEN q[i] ELSE r[i - Len(q)]
  BY ConcatProperties
<1>2. /\ Len(q) \in Nat /\ Len(r) \in Nat
      /\ DOMAIN q = 1..Len(q) /\ DOMAIN r = 1..Len(r)
      /\ DOMAIN (q \o r) = 1..(Len(q) + Len(r))
  BY <1>1, LenProperties
<1>3. ASSUME NEW i \in 1..Len(q), NEW j \in 1..Len(r) PROVE q[i] # r[j]
  BY <1>2 DEF ToSet
<1>4. ASSUME NEW i \in DOMAIN (q \o r), NEW j \in DOMAIN (q \o r),
             (q \o r)[i] = (q \o r)[j]
      PROVE  i = j
  <2>1. CASE i <= Len(q) /\ j <= Len(q)
    BY <1>1, <1>2, <1>4, <2>1 DEF IsInjective
  <2>2. CASE i <= Len(q) /\ ~(j <= Len(q))
    BY <1>1, <1>2, <1>3, <1>4, <2>2
  <2>3. CASE ~(i <= Len(q)) /\ j <= Len(q)
    BY <1>1, <1>2, <1>3, <1>4, <2>3
  <2>4. CASE ~(i <= Len(q)) /\ ~(j <= Len(q))
    <3>1. i - Len(q) \in DOMAIN r /\ j - Len(q) \in DOMAIN r
      BY <1>2, <2>4
    <3>2. r[i - Len(q)] = r[j - Len(q)]
      BY <1>1, <1>2, <1>4, <2>4
    <3>3. i - Len(q) = j - Len(q)
      BY <3>1, <3>2 DEF IsInjective
    <3> QED
      BY <1>2, <3>3
  <2> QED
    BY <2>1, <2>2, <2>3, <2>4
<1> QED
  BY <1>1, <1>4 DEF IsInjective
=============================================================================
