-------------------------- MODULE SubDevicesProofs --------------------------
(***************************************************************************)
(* Theorems about SubDevices.tla, for trees of any size and depth.         *)
(***************************************************************************)
EXTENDS SubDevices, DataFacts

Forest ==
    /\ parent \in [Node -> 0..Size]
    /\ \A n \in Node : parent[n] < n
    /\ bms \subseteq Node
    /\ named \subseteq Node

-----------------------------------------------------------------------------
\* Recursive definitions over the trees define functions.

\* The device itself and those it is embedded in.
Up[n \in Node] == {n} \cup (IF parent[n] = 0 THEN {} ELSE Up[parent[n]])

LEMMA UpRecursion ==
    ASSUME Forest
    PROVE  /\ Up \in [Node -> SUBSET Node]
           /\ \A n \in Node :
                 Up[n] = {n} \cup (IF parent[n] = 0 THEN {} ELSE Up[parent[n]])
<1> DEFINE V == SUBSET Node
           E(g) == [n \in Node |-> {n} \cup (IF parent[n] = 0 THEN {} ELSE g[parent[n]])]
           m == [n \in Node |-> n]
           F == [g \in [Node -> V] |-> E(g)]
<1>1. m \in [Node -> Nat]
  BY DEF Node
<1>2. \A n \in Node : parent[n] # 0 => parent[n] \in Node /\ m[parent[n]] < m[n]
  BY SubDevicesAssumption DEF Forest, Node
<1>3. \A g \in [Node -> V] : E(g) \in [Node -> V] /\ F[g] = E(g)
  BY <1>2
<1>4. F \in [[Node -> V] -> [Node -> V]]
  BY <1>3
<1>5. Recursive(F, Node, V, m)
  <2> SUFFICES ASSUME NEW n \in Node, NEW g \in [Node -> V], NEW h \in [Node -> V],
                      \A k \in Node : m[k] < m[n] => g[k] = h[k]
               PROVE  F[g][n] = F[h][n]
    BY <1>4 DEF Recursive
  <2>1. E(g)[n] = E(h)[n]
    BY <1>2
  <2> QED
    BY <1>3, <2>1
<1>6. {} \in V
  OBVIOUS
<1>7. \E w : w = E(w)
  <2> HIDE DEF V, F, m
  <2>1. PICK w \in [Node -> V] : w = F[w]
    BY <1>1, <1>5, <1>6, RecursionExists
  <2> HIDE DEF E
  <2>2. w = E(w)
    BY <1>3, <2>1
  <2> QED
    BY <2>2
<1>8. Up = E(Up)
  BY <1>7 DEF Up
<1>9. \A n \in Node :
         Up[n] = {n} \cup (IF parent[n] = 0 THEN {} ELSE Up[parent[n]])
  BY <1>8
<1>10. ASSUME NEW n \in Node, \A k \in Node : m[k] < m[n] => Up[k] \in V
       PROVE  Up[n] \in V
  <2>1. CASE parent[n] = 0
    BY <1>9, <2>1
  <2>2. CASE parent[n] # 0
    <3>1. Up[parent[n]] \in V
      BY <1>2, <1>10, <2>2
    <3> QED
      BY <1>9, <2>2, <3>1
  <2> QED
    BY <2>1, <2>2
<1>11. \A n \in Node : Up[n] \in V
  <2> DEFINE P == {n \in Node : Up[n] \in V}
  <2>1. \A n \in Node : (\A k \in Node : m[k] < m[n] => k \in P) => n \in P
    BY <1>10
  <2> HIDE DEF P, m
  <2>2. \A n \in Node : n \in P
    BY <1>1, <2>1, MeasureInduction
  <2> QED
    BY <2>2 DEF P
<1>12. Up \in [Node -> V]
  BY <1>8, <1>11
<1> QED
  BY <1>9, <1>12

LEMMA RootRecursion ==
    ASSUME Forest
    PROVE  \A n \in Node : Root[n] = IF parent[n] = 0 THEN n ELSE Root[parent[n]]
<1> DEFINE V == Nat
           E(g) == [n \in Node |-> IF parent[n] = 0 THEN n ELSE g[parent[n]]]
           m == [n \in Node |-> n]
           F == [g \in [Node -> V] |-> E(g)]
<1>1. m \in [Node -> Nat]
  BY DEF Node
<1>2. \A n \in Node : parent[n] # 0 => parent[n] \in Node /\ m[parent[n]] < m[n]
  BY SubDevicesAssumption DEF Forest, Node
<1>3. \A g \in [Node -> V] : E(g) \in [Node -> V] /\ F[g] = E(g)
  <2>1. \A n \in Node : n \in Nat
    BY DEF Node
  <2> QED
    BY <1>2, <2>1
<1>4. F \in [[Node -> V] -> [Node -> V]]
  BY <1>3
<1>5. Recursive(F, Node, V, m)
  <2> SUFFICES ASSUME NEW n \in Node, NEW g \in [Node -> V], NEW h \in [Node -> V],
                      \A k \in Node : m[k] < m[n] => g[k] = h[k]
               PROVE  F[g][n] = F[h][n]
    BY <1>4 DEF Recursive
  <2>1. E(g)[n] = E(h)[n]
    BY <1>2
  <2> QED
    BY <1>3, <2>1
<1>6. V # {}
  OBVIOUS
<1>7. \E w : w = E(w)
  <2> HIDE DEF V, F, m
  <2>1. PICK w \in [Node -> V] : w = F[w]
    BY <1>1, <1>5, <1>6, RecursionExists
  <2> HIDE DEF E
  <2>2. w = E(w)
    BY <1>3, <2>1
  <2> QED
    BY <2>2
<1>8. Root = E(Root)
  BY <1>7 DEF Root
<1> QED
  BY <1>8

\* A walk looks at fewer devices that are still to come, or comes past fewer.
Places == Node \X (0..Size)
Ahead == [x \in Places |-> (Size - x[1]) * (Size + 1) + x[2]]

LEMMA AheadFacts ==
    ASSUME Forest
    PROVE  /\ Ahead \in [Places -> Nat]
           /\ \A n \in Node, i \in Node :
                 /\ <<n, i>> \in Places
                 /\ <<n, i - 1>> \in Places
                 /\ Ahead[<<n, i - 1>>] < Ahead[<<n, i>>]
                 /\ parent[i] = n => Ahead[<<i, Size>>] < Ahead[<<n, i>>]
           /\ \A n \in Node : <<n, Size>> \in Places
<1> USE SubDevicesAssumption DEF Node
<1>1. \A a, b \in Nat : a * b \in Nat
  OBVIOUS
<1>2. ASSUME NEW x \in Places PROVE (Size - x[1]) * (Size + 1) + x[2] \in Nat
  <2>1. Size - x[1] \in Nat /\ Size + 1 \in Nat /\ x[2] \in Nat
    BY DEF Places
  <2>2. (Size - x[1]) * (Size + 1) \in Nat
    BY <1>1, <2>1
  <2> QED
    BY <2>1, <2>2
<1>3. Ahead \in [Places -> Nat]
  BY <1>2 DEF Ahead
<1>4. \A n \in Node : <<n, Size>> \in Places
  BY DEF Places
<1>5. ASSUME NEW n \in Node, NEW i \in Node
      PROVE  /\ <<n, i>> \in Places
             /\ <<n, i - 1>> \in Places
             /\ Ahead[<<n, i - 1>>] < Ahead[<<n, i>>]
             /\ parent[i] = n => Ahead[<<i, Size>>] < Ahead[<<n, i>>]
  <2>1. <<n, i>> \in Places /\ <<n, i - 1>> \in Places /\ <<i, Size>> \in Places
    BY DEF Places
  <2> DEFINE A(j) == (Size - j) * (Size + 1)
  <2>2. /\ Ahead[<<n, i>>] = A(n) + i
        /\ Ahead[<<n, i - 1>>] = A(n) + (i - 1)
        /\ Ahead[<<i, Size>>] = A(i) + Size
    BY <2>1 DEF Ahead
  <2>3. A(n) \in Nat /\ A(i) \in Nat
    BY <1>1
  <2>4. n < i => A(i) + (Size + 1) <= A(n)
    <3> SUFFICES ASSUME n < i PROVE A(i) + (Size + 1) <= A(n)
      OBVIOUS
    <3>1. PICK k \in Nat : Size - n = (Size - i) + 1 + k
      <4>1. (i - n) - 1 \in Nat /\ Size - n = (Size - i) + 1 + ((i - n) - 1)
        OBVIOUS
      <4> QED
        BY <4>1
    <3>2. A(n) = A(i) + (Size + 1) + k * (Size + 1)
      <4>1. \A a, b, c \in Int : (a + 1 + b) * c = a * c + c + b * c
        OBVIOUS
      <4> QED
        BY <3>1, <4>1
    <3>3. k * (Size + 1) \in Nat
      BY <1>1
    <3> QED
      BY <2>3, <3>2, <3>3
  <2>5. parent[i] = n => n < i
    BY DEF Forest
  <2> HIDE DEF A
  <2>6. Ahead[<<n, i - 1>>] < Ahead[<<n, i>>]
    BY <2>2, <2>3
  <2>7. parent[i] = n => Ahead[<<i, Size>>] < Ahead[<<n, i>>]
    BY <2>2, <2>3, <2>4, <2>5
  <2> QED
    BY <2>1, <2>6, <2>7
<1> QED
  BY <1>3, <1>4, <1>5

LEMMA WalkRecursion ==
    ASSUME Forest
    PROVE  /\ Walk \in [Places -> [calls : Seq(Node), service : BOOLEAN]]
           /\ \A n \in Node : Walk[<<n, 0>>] = [calls |-> <<>>, service |-> FALSE]
           /\ \A n, i \in Node :
                 Walk[<<n, i>>] = IF parent[i] # n THEN Walk[<<n, i - 1>>]
                                  ELSE Visit(Walk[<<n, i - 1>>], i, Walk[<<i, Size>>])
<1> DEFINE V == [calls : Seq(Node), service : BOOLEAN]
           none == [calls |-> <<>>, service |-> FALSE]
           E(g) == [x \in Places |->
                      LET n == x[1]
                          i == x[2]
                      IN  IF i = 0 THEN [calls |-> <<>>, service |-> FALSE]
                          ELSE IF parent[i] # n THEN g[<<n, i - 1>>]
                          ELSE Visit(g[<<n, i - 1>>], i, g[<<i, Size>>])]
           F == [g \in [Places -> V] |-> E(g)]
<1>1. Ahead \in [Places -> Nat]
  BY AheadFacts
<1>2. ASSUME NEW x \in Places
      PROVE  \/ x = <<x[1], 0>> /\ x[1] \in Node /\ x[2] = 0
             \/ /\ x = <<x[1], x[2]>> /\ x[1] \in Node /\ x[2] \in Node /\ x[2] # 0
                /\ <<x[1], x[2] - 1>> \in Places
                /\ Ahead[<<x[1], x[2] - 1>>] < Ahead[x]
                /\ <<x[2], Size>> \in Places
                /\ parent[x[2]] = x[1] => Ahead[<<x[2], Size>>] < Ahead[x]
  <2>1. x = <<x[1], x[2]>> /\ x[1] \in Node /\ x[2] \in 0..Size
    BY DEF Places
  <2>2. x[2] = 0 \/ (x[2] \in Node /\ x[2] # 0)
    BY <2>1, SubDevicesAssumption DEF Node
  <2> QED
    BY <2>1, <2>2, AheadFacts
<1>3. ASSUME NEW u \in V, NEW i \in Node, NEW v \in V
      PROVE  Visit(u, i, v) \in V
  <2>1. \A c : SubDevice(c, i) \in Seq(Node)
    BY DEF SubDevice
  <2>2. \A q, r \in Seq(Node) : q \o r \in Seq(Node)
    BY ConcatProperties
  <2> QED
    BY <2>1, <2>2 DEF Visit
<1>4. none \in V
  OBVIOUS
<1>5. ASSUME NEW g \in [Places -> V]
      PROVE  E(g) \in [Places -> V] /\ F[g] = E(g)
  <2>1. ASSUME NEW x \in Places PROVE E(g)[x] \in V
    <3> HIDE DEF V
    <3>1. CASE x[2] = 0
      BY <1>4, <3>1
    <3>2. CASE x[2] # 0
      BY <1>2, <1>3, <3>2
    <3> QED
      BY <3>1, <3>2
  <2> HIDE DEF V
  <2> QED
    BY <2>1
<1>6. F \in [[Places -> V] -> [Places -> V]]
  BY <1>5
<1>7. Recursive(F, Places, V, Ahead)
  <2> SUFFICES ASSUME NEW x \in Places, NEW g \in [Places -> V], NEW h \in [Places -> V],
                      \A y \in Places : Ahead[y] < Ahead[x] => g[y] = h[y]
               PROVE  F[g][x] = F[h][x]
    BY <1>6 DEF Recursive
  <2> HIDE DEF V
  <2>1. E(g)[x] = E(h)[x]
    BY <1>2
  <2> QED
    BY <1>5, <2>1
<1>8. \E w : w = E(w)
  <2> HIDE DEF V, F
  <2>1. V # {}
    BY <1>4
  <2>2. PICK w \in [Places -> V] : w = F[w]
    BY <1>1, <1>7, <2>1, RecursionExists
  <2> HIDE DEF E
  <2>3. w = E(w)
    BY <1>5, <2>2
  <2> QED
    BY <2>3
<1>9. Walk = E(Walk)
  BY <1>8 DEF Walk, Places
<1>10. \A x \in Places : Walk[x] = E(Walk)[x]
  BY <1>9
<1>11. ASSUME NEW x \in Places,
              \A y \in Places : Ahead[y] < Ahead[x] => Walk[y] \in V
       PROVE  Walk[x] \in V
  <2> HIDE DEF V
  <2>1. CASE x[2] = 0
    BY <1>4, <1>10, <2>1
  <2>2. CASE x[2] # 0
    <3> DEFINE n == x[1]
               i == x[2]
    <3>1. /\ i \in Node
          /\ Walk[<<n, i - 1>>] \in V
          /\ parent[i] = n => Walk[<<i, Size>>] \in V
      BY <1>2, <1>11, <2>2
    <3>2. Walk[x] = IF parent[i] # n THEN Walk[<<n, i - 1>>]
                    ELSE Visit(Walk[<<n, i - 1>>], i, Walk[<<i, Size>>])
      BY <1>10, <2>2
    <3> HIDE DEF n, i
    <3> QED
      BY <1>3, <3>1, <3>2
  <2> QED
    BY <2>1, <2>2
<1>12. \A x \in Places : Walk[x] \in V
  <2> DEFINE P == {x \in Places : Walk[x] \in V}
  <2>1. \A x \in Places : (\A y \in Places : Ahead[y] < Ahead[x] => y \in P) => x \in P
    BY <1>11
  <2> HIDE DEF P
  <2>2. \A x \in Places : x \in P
    BY <1>1, <2>1, MeasureInduction
  <2> QED
    BY <2>2 DEF P
<1>13. Walk \in [Places -> V]
  BY <1>9, <1>12
<1>14. ASSUME NEW n \in Node
       PROVE  Walk[<<n, 0>>] = [calls |-> <<>>, service |-> FALSE]
  <2>1. <<n, 0>> \in Places
    BY SubDevicesAssumption DEF Places
  <2> QED
    BY <1>10, <2>1
<1>15. ASSUME NEW n \in Node, NEW i \in Node
       PROVE  Walk[<<n, i>>] = IF parent[i] # n THEN Walk[<<n, i - 1>>]
                               ELSE Visit(Walk[<<n, i - 1>>], i, Walk[<<i, Size>>])
  <2>1. <<n, i>> \in Places
    BY AheadFacts
  <2>2. i # 0
    BY DEF Node
  <2> QED
    BY <1>10, <2>1, <2>2
<1> QED
  BY <1>13, <1>14, <1>15

-----------------------------------------------------------------------------
\* Trees: what is above a device is a chain from it to its root device.

LEMMA UpFacts ==
    ASSUME Forest, NEW d \in Node
    PROVE  /\ Up[d] \subseteq Node
           /\ d \in Up[d]
           /\ \A c \in Up[d] :
                 /\ c <= d
                 /\ parent[c] # 0 => parent[c] \in Up[d]
                 /\ c # d => \E e \in Up[d] : parent[e] = c
                 /\ \A e \in Up[d] : parent[c] = parent[e] => c = e
           /\ Root[d] \in Up[d]
           /\ parent[Root[d]] = 0
<1> DEFINE Chain(k) == /\ \A c \in Up[k] :
                             /\ c <= k
                             /\ parent[c] # 0 => parent[c] \in Up[k]
                             /\ c # k => \E e \in Up[k] : parent[e] = c
                             /\ \A e \in Up[k] : parent[c] = parent[e] => c = e
                       /\ Root[k] \in Up[k]
                       /\ parent[Root[k]] = 0
           P == {k \in Node : Chain(k)}
           m == [k \in Node |-> k]
<1>1. m \in [Node -> Nat]
  BY DEF Node
<1>2. \A k \in Node : /\ Up[k] \subseteq Node
                      /\ k \in Up[k]
  BY UpRecursion
<1>3. ASSUME NEW k \in Node, \A j \in Node : m[j] < m[k] => j \in P
      PROVE  k \in P
  <2>1. CASE parent[k] = 0
    <3>1. Up[k] = {k} /\ Root[k] = k
      BY <2>1, UpRecursion, RootRecursion
    <3>2. k <= k
      BY DEF Node
    <3> QED
      BY <2>1, <3>1, <3>2
  <2>2. CASE parent[k] # 0
    <3> DEFINE p == parent[k]
    <3>1. p \in Node /\ p < k
      BY <2>2, SubDevicesAssumption DEF Forest, Node
    <3>2. Chain(p)
      BY <1>3, <3>1
    <3>3. Up[k] = {k} \cup Up[p] /\ Root[k] = Root[p]
      BY <2>2, UpRecursion, RootRecursion
    <3>4. \A c \in Up[p] : c \in Node /\ c <= p /\ c < k /\ parent[c] < p
      <4>1. ASSUME NEW c \in Up[p] PROVE c \in Node /\ c <= p /\ parent[c] < c
        BY <1>2, <3>1, <3>2 DEF Forest
      <4>2. ASSUME NEW c \in Up[p] PROVE parent[c] \in 0..Size /\ c \in Int /\ p \in Int /\ k \in Int
        BY <3>1, <4>1 DEF Forest, Node
      <4> QED
        BY <3>1, <4>1, <4>2
    <3>5. ASSUME NEW c \in Up[k] PROVE c <= k
      BY <3>3, <3>4 DEF Node
    <3>6. ASSUME NEW c \in Up[k], parent[c] # 0 PROVE parent[c] \in Up[k]
      BY <1>2, <3>1, <3>2, <3>3, <3>6
    <3>7. ASSUME NEW c \in Up[k], c # k PROVE \E e \in Up[k] : parent[e] = c
      <4>1. CASE c = p
        BY <3>3, <4>1
      <4>2. CASE c # p
        BY <3>2, <3>3, <3>7, <4>2
      <4> QED
        BY <4>1, <4>2
    <3>8. ASSUME NEW c \in Up[k], NEW e \in Up[k], parent[c] = parent[e]
          PROVE  c = e
      <4>1. \A b \in Up[p] : parent[b] # p
        BY <3>1, <3>4 DEF Node
      <4> QED
        BY <3>2, <3>3, <3>8, <4>1
    <3> QED
      BY <3>2, <3>3, <3>5, <3>6, <3>7, <3>8
  <2> QED
    BY <2>1, <2>2
<1> HIDE DEF P
<1>4. \A k \in Node : k \in P
  <2> HIDE DEF m
  <2> QED
    BY <1>1, <1>3, MeasureInduction
<1>5. Chain(d)
  BY <1>4 DEF P
<1> QED
  BY <1>2, <1>5

\* The devices of a tree are those with its root device above them.
LEMMA TreeFacts ==
    ASSUME Forest, NEW d \in Node, NEW r \in Node, parent[r] = 0
    PROVE  r \in Up[d] <=> Root[d] = r
BY UpFacts

-----------------------------------------------------------------------------
\* What a walk calls for.

\* The devices to be called for below the children of n up to i.
Reached(n, i) ==
    {d \in bms \cap named : \E c \in 1..i : parent[c] = n /\ c \in Up[d]}

LEMMA SubDeviceFacts ==
    ASSUME NEW n \in Node
    PROVE  /\ SubDevice(n \in bms, n) \in Seq(Node)
           /\ IsInjective(SubDevice(n \in bms, n))
           /\ ToSet(SubDevice(n \in bms, n)) = bms \cap named \cap {n}
<1>1. CASE n \in bms /\ n \in named
  <2>1. SubDevice(n \in bms, n) = <<n>>
    BY <1>1 DEF SubDevice
  <2>2. <<n>> \in Seq(Node) /\ DOMAIN <<n>> = {1} /\ <<n>>[1] = n
    OBVIOUS
  <2>3. ToSet(<<n>>) = {n} /\ IsInjective(<<n>>)
    BY <2>2 DEF ToSet, IsInjective
  <2> QED
    BY <1>1, <2>1, <2>2, <2>3
<1>2. CASE ~(n \in bms /\ n \in named)
  <2>1. SubDevice(n \in bms, n) = <<>>
    BY <1>2 DEF SubDevice
  <2>2. bms \cap named \cap {n} = {}
    BY <1>2
  <2>3. <<>> \in Seq(Node) /\ IsInjective(<<>>) /\ ToSet(<<>>) = {}
    BY EmptyInjective
  <2> QED
    BY <2>1, <2>2, <2>3
<1> QED
  BY <1>1, <1>2

LEMMA ReachedFacts ==
    ASSUME Forest, NEW n \in Node, NEW i \in Node
    PROVE  /\ parent[i] # n => Reached(n, i) = Reached(n, i - 1)
           /\ parent[i] = n =>
                 /\ Reached(n, i) = Reached(n, i - 1) \cup (bms \cap named \cap {i})
                                      \cup Reached(i, Size)
                 /\ i \notin Reached(n, i - 1)
                 /\ i \notin Reached(i, Size)
                 /\ Reached(n, i - 1) \cap Reached(i, Size) = {}
<1>1. 1..i = (1..(i - 1)) \cup {i} /\ i \notin 1..(i - 1) /\ 1..i \subseteq Node
  BY SubDevicesAssumption DEF Node
<1>2. parent[i] # n => Reached(n, i) = Reached(n, i - 1)
  BY <1>1 DEF Reached
<1>3. \A d \in bms \cap named : i \in Up[d] <=> d = i \/ d \in Reached(i, Size)
  <2> SUFFICES ASSUME NEW d \in bms \cap named
               PROVE  i \in Up[d] <=> d = i \/ d \in Reached(i, Size)
    OBVIOUS
  <2>1. d \in Node
    BY DEF Forest
  <2>2. d = i => i \in Up[d]
    BY <2>1, UpFacts
  <2>3. d \in Reached(i, Size) => i \in Up[d]
    <3>1. i # 0
      BY DEF Node
    <3> QED
      BY <2>1, <3>1, UpFacts DEF Reached
  <2>4. i \in Up[d] /\ d # i => d \in Reached(i, Size)
    <3> SUFFICES ASSUME i \in Up[d], d # i PROVE d \in Reached(i, Size)
      OBVIOUS
    <3>1. PICK e \in Up[d] : parent[e] = i
      BY <2>1, UpFacts
    <3>2. e \in 1..Size
      BY <2>1, UpFacts DEF Node
    <3> QED
      BY <3>1, <3>2 DEF Reached
  <2> QED
    BY <2>2, <2>3, <2>4
<1>4. i \notin Reached(i, Size)
  <2>1. \A c \in Up[i] : parent[c] # i
    <3> SUFFICES ASSUME NEW c \in Up[i], parent[c] = i PROVE FALSE
      OBVIOUS
    <3>1. c \in Node /\ c <= i /\ i < c
      BY UpFacts DEF Forest
    <3> QED
      BY <3>1 DEF Node
  <2> QED
    BY <2>1 DEF Reached
<1>5. ASSUME parent[i] = n, NEW d \in Reached(n, i - 1)
      PROVE  i \notin Up[d]
  <2>1. d \in Node
    BY DEF Reached, Forest
  <2>2. PICK c \in 1..(i - 1) : parent[c] = n /\ c \in Up[d]
    BY DEF Reached
  <2>3. c # i
    BY <1>1, <2>2
  <2> QED
    BY <1>5, <2>1, <2>2, <2>3, UpFacts
<1>6. ASSUME parent[i] = n
      PROVE  Reached(n, i) = Reached(n, i - 1) \cup {d \in bms \cap named : i \in Up[d]}
  BY <1>1, <1>6 DEF Reached
<1>7. i \in Up[i]
  BY UpFacts
<1>8. Reached(i, Size) \subseteq bms \cap named
  BY DEF Reached
<1>9. {d \in bms \cap named : i \in Up[d]} = (bms \cap named \cap {i}) \cup Reached(i, Size)
  BY <1>3, <1>8
<1>10. parent[i] = n => Reached(n, i - 1) \cap Reached(i, Size) = {}
  BY <1>3, <1>5, <1>8
<1> QED
  BY <1>2, <1>4, <1>5, <1>6, <1>7, <1>9, <1>10

\* A walk calls once for every device with the service and a UDN that it comes
\* past, whatever its depth, and returns no service.
LEMMA WalkFacts ==
    ASSUME Forest, NEW n \in Node, NEW i \in 0..Size
    PROVE  /\ Walk[<<n, i>>].calls \in Seq(Node)
           /\ Walk[<<n, i>>].service = FALSE
           /\ IsInjective(Walk[<<n, i>>].calls)
           /\ ToSet(Walk[<<n, i>>].calls) = Reached(n, i)
<1> DEFINE Right(x) == /\ Walk[x].calls \in Seq(Node)
                       /\ Walk[x].service = FALSE
                       /\ IsInjective(Walk[x].calls)
                       /\ ToSet(Walk[x].calls) = Reached(x[1], x[2])
           P == {x \in Places : Right(x)}
<1>1. ASSUME NEW x \in Places, \A y \in Places : Ahead[y] < Ahead[x] => y \in P
      PROVE  x \in P
  <2>1. PICK k \in Node, j \in 0..Size : x = <<k, j>>
    BY DEF Places
  <2>2. CASE j = 0
    <3>1. Walk[x] = [calls |-> <<>>, service |-> FALSE]
      BY <2>1, <2>2, WalkRecursion
    <3>2. Reached(k, 0) = {}
      BY DEF Reached
    <3>3. Reached(x[1], x[2]) = {}
      BY <2>1, <2>2, <3>2
    <3>4. Walk[x].calls = <<>> /\ Walk[x].service = FALSE
      BY <3>1
    <3>5. <<>> \in Seq(Node) /\ IsInjective(<<>>) /\ ToSet(<<>>) = {}
      BY EmptyInjective
    <3> QED
      BY <3>3, <3>4, <3>5
  <2>3. CASE j # 0 /\ parent[j] # k
    <3>1. j \in Node
      BY <2>3, SubDevicesAssumption DEF Node
    <3>2. Walk[x] = Walk[<<k, j - 1>>] /\ <<k, j - 1>> \in P
      BY <1>1, <2>1, <2>3, <3>1, WalkRecursion, AheadFacts
    <3>3. Reached(k, j) = Reached(k, j - 1)
      BY <2>3, <3>1, ReachedFacts
    <3> QED
      BY <2>1, <3>2, <3>3
  <2>4. CASE j # 0 /\ parent[j] = k
    <3> DEFINE before == Walk[<<k, j - 1>>]
               below == Walk[<<j, Size>>]
    <3>1. j \in Node
      BY <2>4, SubDevicesAssumption DEF Node
    <3>2. <<k, j - 1>> \in P /\ <<j, Size>> \in P
      BY <1>1, <2>1, <2>4, <3>1, AheadFacts
    <3>3. Walk[x] = Visit(before, j, below)
      BY <2>1, <2>4, <3>1, WalkRecursion
    <3>4. /\ before.calls \in Seq(Node)
          /\ IsInjective(before.calls)
          /\ ToSet(before.calls) = Reached(k, j - 1)
          /\ below.calls \in Seq(Node)
          /\ below.service = FALSE
          /\ IsInjective(below.calls)
          /\ ToSet(below.calls) = Reached(j, Size)
      BY <3>2
    <3>5. /\ Reached(k, j) = Reached(k, j - 1) \cup (bms \cap named \cap {j})
                               \cup Reached(j, Size)
          /\ j \notin Reached(k, j - 1)
          /\ j \notin Reached(j, Size)
          /\ Reached(k, j - 1) \cap Reached(j, Size) = {}
      BY <2>4, <3>1, ReachedFacts
    <3> HIDE DEF before, below
    <3> DEFINE own == SubDevice(j \in bms, j)
               first == before.calls \o own
    <3>6. /\ own \in Seq(Node) /\ IsInjective(own)
          /\ ToSet(own) = bms \cap named \cap {j}
      BY <3>1, SubDeviceFacts
    <3>7. SubDevice(below.service, j) = <<>>
      BY <3>4 DEF SubDevice
    <3> HIDE DEF own
    <3>8. /\ first \in Seq(Node)
          /\ IsInjective(first)
          /\ ToSet(first) = Reached(k, j - 1) \cup (bms \cap named \cap {j})
      <4>1. ToSet(before.calls) \cap ToSet(own) = {}
        BY <3>4, <3>5, <3>6
      <4> QED
        BY <3>4, <3>6, <4>1, ConcatSet, ConcatInjective
    <3> HIDE DEF first
    <3>9. /\ first \o below.calls \in Seq(Node)
          /\ IsInjective(first \o below.calls)
          /\ ToSet(first \o below.calls) = Reached(k, j)
      <4>1. ToSet(first) \cap ToSet(below.calls) = {}
        BY <3>4, <3>5, <3>8
      <4> QED
        BY <3>4, <3>5, <3>8, <4>1, ConcatSet, ConcatInjective
    <3>10. Walk[x].calls = first \o below.calls /\ Walk[x].service = FALSE
      <4>1. Walk[x].calls = (first \o below.calls) \o SubDevice(below.service, j)
        <5>1. Visit(before, j, below).calls = (first \o below.calls) \o SubDevice(below.service, j)
          BY DEF Visit, first, own
        <5> QED
          BY <3>3, <5>1
      <4>2. Walk[x].service = FALSE
        BY <3>3, <3>4 DEF Visit
      <4>3. (first \o below.calls) \o <<>> = first \o below.calls
        BY <3>9, ConcatEmptySeq
      <4> QED
        BY <3>7, <4>1, <4>2, <4>3
    <3> QED
      BY <2>1, <3>9, <3>10
  <2> QED
    BY <2>2, <2>3, <2>4
<1>2. \A x \in Places : x \in P
  <2> HIDE DEF P
  <2>1. Ahead \in [Places -> Nat]
    BY AheadFacts
  <2> QED
    BY <1>1, <2>1, MeasureInduction
<1>3. <<n, i>> \in Places
  BY DEF Places
<1>4. Right(<<n, i>>)
  BY <1>2, <1>3
<1> QED
  BY <1>4

-----------------------------------------------------------------------------
\* The inductive invariant.

SubInv ==
    /\ SubDevicesTypeOK
    /\ Forest
    /\ \A x \in announced : parent[x[1]] = 0
    /\ ContextsMatchTrees
    /\ CalledOnce

LEMMA SubInit == Init => SubInv
<1> SUFFICES ASSUME Init PROVE SubInv
  OBVIOUS
<1>1. Forest
  BY DEF Init, Forest
<1>2. IsInjective(<<>>) /\ <<>> \in Seq(Node)
  BY EmptyInjective
<1> QED
  BY <1>1, <1>2 DEF Init, SubInv, SubDevicesTypeOK, ContextsMatchTrees, CalledOnce

\* What both callbacks call for below a root device with a UDN.
LEMMA WalkedTree ==
    ASSUME SubInv, NEW root \in Node, parent[root] = 0
    PROVE  LET walked == Walk[<<root, Size>>].calls
           IN  /\ walked \in Seq(Node)
               /\ IsInjective(walked)
               /\ ToSet(walked) = {d \in bms \cap named : Root[d] = root} \ {root}
<1> DEFINE walked == Walk[<<root, Size>>].calls
<1>1. Forest /\ Size \in 0..Size
  BY SubDevicesAssumption DEF SubInv
<1>2. /\ walked \in Seq(Node)
      /\ IsInjective(walked)
      /\ ToSet(walked) = Reached(root, Size)
  BY <1>1, WalkFacts
<1>3. ASSUME NEW d \in bms \cap named
      PROVE  d \in Reached(root, Size) <=> Root[d] = root /\ d # root
  <2>1. d \in Node /\ root # 0
    BY <1>1 DEF Forest, Node
  <2>2. root \in Up[d] <=> Root[d] = root
    BY <1>1, <2>1, TreeFacts
  <2>3. root \in Up[d] /\ d # root => d \in Reached(root, Size)
    <3> SUFFICES ASSUME root \in Up[d], d # root PROVE d \in Reached(root, Size)
      OBVIOUS
    <3>1. PICK e \in Up[d] : parent[e] = root
      BY <1>1, <2>1, UpFacts
    <3>2. e \in 1..Size
      BY <1>1, <2>1, UpFacts DEF Node
    <3> QED
      BY <3>1, <3>2 DEF Reached
  <2>4. d \in Reached(root, Size) => root \in Up[d] /\ d # root
    <3> SUFFICES ASSUME d \in Reached(root, Size) PROVE root \in Up[d] /\ d # root
      OBVIOUS
    <3>1. PICK c \in 1..Size : parent[c] = root /\ c \in Up[d]
      BY DEF Reached
    <3>2. root \in Up[d]
      BY <1>1, <2>1, <3>1, UpFacts
    <3>3. c <= d /\ root < c /\ c \in Node
      BY <1>1, <2>1, <3>1, UpFacts DEF Forest, Node
    <3> QED
      BY <3>2, <3>3 DEF Node
  <2> QED
    BY <2>2, <2>3, <2>4
<1>4. Reached(root, Size) \subseteq bms \cap named
  BY DEF Reached
<1>5. ToSet(walked) = {d \in bms \cap named : Root[d] = root} \ {root}
  BY <1>2, <1>3, <1>4
<1> QED
  BY <1>2, <1>5

\* The trees stay as they are, and with them what is derived from them.
LEMMA TreesStay ==
    ASSUME UNCHANGED <<parent, bms, named>>
    PROVE  /\ Root' = Root
           /\ Forest => Forest'
<1>1. Root' = Root
  BY DEF Root
<1>2. Forest => Forest'
  BY DEF Forest
<1> QED
  BY <1>1, <1>2

LEMMA SubAvailable ==
    ASSUME SubInv, NEW root \in Node, NEW ip \in IP, Available(root, ip)
    PROVE  SubInv'
<1> DEFINE walked == Walk[<<root, Size>>].calls
           own == SubDevice(root \in bms, root)
           tree == {d \in bms \cap named : Root[d] = root}
<1>1. /\ parent[root] = 0
      /\ announced' = announced \cup {<<root, ip>>}
      /\ calls' = IF root \notin named THEN <<>> ELSE own \o walked
      /\ contexts' = contexts \cup (ToSet(calls') \X {ip})
      /\ UNCHANGED <<parent, bms, named>>
  BY DEF Available, AddSubDevices
<1>2. /\ walked \in Seq(Node) /\ IsInjective(walked)
      /\ ToSet(walked) = tree \ {root}
  BY <1>1, WalkedTree
<1>3. /\ own \in Seq(Node) /\ IsInjective(own)
      /\ ToSet(own) = bms \cap named \cap {root}
  BY SubDeviceFacts
<1>4. Root[root] = root
  BY <1>1, RootRecursion DEF SubInv
<1>5. root \in bms \cap named => root \in tree
  BY <1>4
<1> HIDE DEF walked, own
<1>6. /\ calls' \in Seq(Node)
      /\ IsInjective(calls')
      /\ ToSet(calls') = IF root \in named THEN tree ELSE {}
  <2>1. CASE root \notin named
    <3>1. calls' = <<>>
      BY <1>1, <2>1
    <3> QED
      BY <2>1, <3>1, EmptyInjective
  <2>2. CASE root \in named
    <3>1. calls' = own \o walked
      BY <1>1, <2>2
    <3>2. ToSet(own) \cap ToSet(walked) = {}
      BY <1>2, <1>3
    <3>3. own \o walked \in Seq(Node) /\ IsInjective(own \o walked)
      BY <1>2, <1>3, <3>2, ConcatInjective
    <3>4. ToSet(own \o walked) = ToSet(own) \cup ToSet(walked)
      BY <1>2, <1>3, ConcatSet
    <3>5. ToSet(own) \cup ToSet(walked) = tree
      BY <1>2, <1>3, <1>5
    <3> QED
      BY <2>2, <3>1, <3>3, <3>4, <3>5
  <2> QED
    BY <2>1, <2>2
<1>7. Root' = Root /\ Forest'
  BY <1>1, TreesStay DEF SubInv
<1>8. SubDevicesTypeOK'
  <2>1. ToSet(calls') \subseteq bms \cap named
    BY <1>6
  <2> QED
    BY <1>1, <1>6, <2>1 DEF SubInv, SubDevicesTypeOK
<1>9. \A x \in announced' : parent'[x[1]] = 0
  BY <1>1 DEF SubInv
<1>10. ContextsMatchTrees'
  <2> SUFFICES ASSUME NEW n \in Node, NEW a \in IP
               PROVE  <<n, a>> \in contexts'
                        <=> n \in bms \cap named /\ Root[n] \in named
                            /\ <<Root[n], a>> \in announced'
    BY <1>1, <1>7 DEF ContextsMatchTrees
  <2>1. <<n, a>> \in contexts
          <=> n \in bms \cap named /\ Root[n] \in named /\ <<Root[n], a>> \in announced
    BY DEF SubInv, ContextsMatchTrees
  <2>2. <<n, a>> \in contexts' <=> <<n, a>> \in contexts \/ (n \in ToSet(calls') /\ a = ip)
    BY <1>1
  <2>3. n \in ToSet(calls') <=> root \in named /\ n \in bms \cap named /\ Root[n] = root
    BY <1>6
  <2>4. <<Root[n], a>> \in announced'
          <=> <<Root[n], a>> \in announced \/ (Root[n] = root /\ a = ip)
    BY <1>1
  <2> QED
    BY <2>1, <2>2, <2>3, <2>4
<1>11. CalledOnce'
  BY <1>6 DEF CalledOnce
<1> QED
  BY <1>7, <1>8, <1>9, <1>10, <1>11 DEF SubInv

LEMMA SubUnavailable ==
    ASSUME SubInv, NEW root \in Node, NEW ip \in IP, Unavailable(root, ip)
    PROVE  SubInv'
<1> DEFINE walked == Walk[<<root, Size>>].calls
           tree == {d \in bms \cap named : Root[d] = root}
<1>1. /\ parent[root] = 0
      /\ announced' = announced \ {<<root, ip>>}
      /\ calls' = IF root \notin named THEN <<>> ELSE walked \o <<root>>
      /\ contexts' = contexts \ (ToSet(calls') \X {ip})
      /\ UNCHANGED <<parent, bms, named>>
  BY DEF Unavailable, RemoveSubDevices, SubInv
<1>2. /\ walked \in Seq(Node) /\ IsInjective(walked)
      /\ ToSet(walked) = tree \ {root}
  BY <1>1, WalkedTree
<1> HIDE DEF walked
<1>3. /\ calls' \in Seq(Node)
      /\ IsInjective(calls')
      /\ ToSet(calls') = IF root \in named THEN tree \cup {root} ELSE {}
  <2>1. CASE root \notin named
    <3>1. calls' = <<>>
      BY <1>1, <2>1
    <3> QED
      BY <2>1, <3>1, EmptyInjective
  <2>2. CASE root \in named
    <3>1. calls' = Append(walked, root)
      BY <1>1, <1>2, <2>2, AppendIsConcat
    <3>2. root \notin ToSet(walked)
      BY <1>2
    <3>3. /\ Append(walked, root) \in Seq(Node)
          /\ IsInjective(Append(walked, root))
          /\ ToSet(Append(walked, root)) = ToSet(walked) \cup {root}
      BY <1>2, <3>2, AppendInjectiveSet
    <3> QED
      BY <1>2, <2>2, <3>1, <3>3
  <2> QED
    BY <2>1, <2>2
<1>4. Root' = Root /\ Forest'
  BY <1>1, TreesStay DEF SubInv
<1>5. Root[root] = root
  BY <1>1, RootRecursion DEF SubInv
<1>6. SubDevicesTypeOK'
  BY <1>1, <1>3 DEF SubInv, SubDevicesTypeOK
<1>7. \A x \in announced' : parent'[x[1]] = 0
  BY <1>1 DEF SubInv
<1>8. ContextsMatchTrees'
  <2> SUFFICES ASSUME NEW n \in Node, NEW a \in IP
               PROVE  <<n, a>> \in contexts'
                        <=> n \in bms \cap named /\ Root[n] \in named
                            /\ <<Root[n], a>> \in announced'
    BY <1>1, <1>4 DEF ContextsMatchTrees
  <2>1. <<n, a>> \in contexts
          <=> n \in bms \cap named /\ Root[n] \in named /\ <<Root[n], a>> \in announced
    BY DEF SubInv, ContextsMatchTrees
  <2>2. <<n, a>> \in contexts' <=> <<n, a>> \in contexts /\ ~(n \in ToSet(calls') /\ a = ip)
    BY <1>1
  <2>3. n \in bms \cap named =>
          (n \in ToSet(calls') <=> root \in named /\ Root[n] = root)
    BY <1>3, <1>5
  <2>4. <<Root[n], a>> \in announced'
          <=> <<Root[n], a>> \in announced /\ ~(Root[n] = root /\ a = ip)
    BY <1>1
  <2> QED
    BY <2>1, <2>2, <2>3, <2>4
<1>9. CalledOnce'
  BY <1>3 DEF CalledOnce
<1> QED
  BY <1>4, <1>6, <1>7, <1>8, <1>9 DEF SubInv

LEMMA SubStep == SubInv /\ [Next]_vars => SubInv'
<1> SUFFICES ASSUME SubInv, [Next]_vars PROVE SubInv'
  OBVIOUS
<1>1. ASSUME NEW root \in Node, NEW ip \in IP, Available(root, ip) PROVE SubInv'
  BY <1>1, SubAvailable
<1>2. ASSUME NEW root \in Node, NEW ip \in IP, Unavailable(root, ip) PROVE SubInv'
  BY <1>2, SubUnavailable
<1>3. CASE UNCHANGED vars
  <2>1. Root' = Root /\ Forest'
    BY <1>3, TreesStay DEF vars, SubInv
  <2> QED
    BY <1>3, <2>1 DEF vars, SubInv, SubDevicesTypeOK, ContextsMatchTrees, CalledOnce
<1> QED
  BY <1>1, <1>2, <1>3 DEF Next

THEOREM SubInvariance == Spec => []SubInv
BY SubInit, SubStep, PTL DEF Spec

\* Type correctness, with no context for a device that has no UDN or does not
\* offer the service (upnp.c:204-228), for trees of any size.
THEOREM SubDevicesTypeCorrect == Spec => []SubDevicesTypeOK
<1>1. SubInv => SubDevicesTypeOK
  BY DEF SubInv
<1> QED
  BY <1>1, SubInvariance, PTL

\* Whatever the trees, at any depth: the two walks of upnp.c reach the same
\* devices, so that the contexts are always those of the trees announced
\* (upnp.c:229-275, 451-497).
THEOREM ContextsFollowTrees == Spec => []ContextsMatchTrees
<1>1. SubInv => ContextsMatchTrees
  BY DEF SubInv
<1> QED
  BY <1>1, SubInvariance, PTL

\* No walk calls for a device twice, although every walk hands its caller a
\* service to call for (upnp.c:258-266).
THEOREM EachCalledOnce == Spec => []CalledOnce
<1>1. SubInv => CalledOnce
  BY DEF SubInv
<1> QED
  BY <1>1, SubInvariance, PTL
=============================================================================
