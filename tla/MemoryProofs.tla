---------------------------- MODULE MemoryProofs ----------------------------
(***************************************************************************)
(* Proofs about the memory of the machine: the buddy allocator, for a      *)
(* range of any size, any requests and any reserved ranges, and the page   *)
(* tables, for any number of entries and levels and any ranges.            *)
(***************************************************************************)
EXTENDS Buddy, PageTable, CommonTheorems, FiniteSetTheorems, TLAPS

-----------------------------------------------------------------------------
(* Powers of two.                                                          *)

LEMMA PowerEquation ==
  power \in [Nat -> Nat] /\ power[0] = 1 /\ \A n \in Nat : power[n + 1] = 2 * power[n]
<1>1. PICK S : S = [x \in Nat |-> 2 * x]
  OBVIOUS
<1>2. PICK f : f \in [Nat -> Nat] /\ f[0] = 1 /\ \A n \in Nat : f[n + 1] = S[f[n]]
  <2>1. 1 \in Nat /\ S \in [Nat -> Nat]
    BY <1>1
  <2>2. PICK T, b : T = Nat /\ b = 1
    OBVIOUS
  <2>3. \E f : Iteration(f, T, b, S)
    BY <2>1, <2>2, Recursion
  <2> QED  BY <2>2, <2>3 DEF Iteration
<1>3. ASSUME NEW n \in Nat PROVE f[n] = IF n = 0 THEN 1 ELSE 2 * f[n - 1]
  <2>1. CASE n = 0
    BY <1>2, <2>1
  <2>2. CASE n # 0
    <3>1. n - 1 \in Nat /\ (n - 1) + 1 = n
      BY <2>2
    <3> QED  BY <1>1, <1>2, <2>2, <3>1
  <2> QED  BY <2>1, <2>2
<1>4. f = [n \in Nat |-> IF n = 0 THEN 1 ELSE 2 * f[n - 1]]
  BY <1>2, <1>3
<1>5. PICK g : g = power
  OBVIOUS
<1>6. g = [n \in Nat |-> IF n = 0 THEN 1 ELSE 2 * g[n - 1]]
  BY <1>4, <1>5 DEF power
<1> DEFINE value(n) == IF n = 0 THEN 1 ELSE 2 * g[n - 1]
<1>7. g = [n \in Nat |-> value(n)]
  BY <1>6
<1>8. \A n \in Nat : g[n] = value(n)
  <2> HIDE DEF value
  <2> QED  BY <1>7
<1>9. g[0] = 1 /\ \A n \in Nat : g[n + 1] = 2 * g[n]
  <2>1. g[0] = 1
    BY <1>8
  <2>2. ASSUME NEW n \in Nat PROVE g[n + 1] = 2 * g[n]
    <3>1. n + 1 \in Nat /\ n + 1 # 0 /\ (n + 1) - 1 = n
      OBVIOUS
    <3> QED  BY <1>8, <3>1
  <2> QED  BY <2>1, <2>2
<1>10. \A n \in Nat : g[n] \in Nat
  <2> DEFINE N == {n \in Nat : g[n] \in Nat}
  <2>1. 0 \in N
    BY <1>9
  <2>2. ASSUME NEW n \in N PROVE n + 1 \in N
    BY <1>9
  <2>3. N \in SUBSET Nat
    OBVIOUS
  <2> HIDE DEF N
  <2>4. \A n \in Nat : n \in N
    BY <2>1, <2>2, <2>3, SetInduction
  <2> QED  BY <2>4 DEF N
<1>11. g \in [Nat -> Nat]
  <2> HIDE DEF value
  <2>1. g = [n \in Nat |-> g[n]]
    BY <1>7, <1>8
  <2> QED  BY <1>10, <2>1
<1> QED  BY <1>5, <1>9, <1>11

LEMMA PowerGrows == \A n \in Nat : power[n] \in Nat /\ power[n] > n
<1> DEFINE N == {n \in Nat : power[n] \in Nat /\ power[n] > n}
<1>1. 0 \in N
  BY PowerEquation
<1>2. ASSUME NEW n \in N PROVE n + 1 \in N
  BY PowerEquation
<1>3. N \in SUBSET Nat
  OBVIOUS
<1> HIDE DEF N
<1>4. \A n \in Nat : n \in N
  BY <1>1, <1>2, <1>3, SetInduction
<1> QED  BY <1>4 DEF N

\* A power is at least twice every smaller one.
LEMMA PowerDoubles == \A i, j \in Nat : i < j => 2 * power[i] <= power[j]
<1> SUFFICES ASSUME NEW i \in Nat PROVE \A j \in Nat : i < j => 2 * power[i] <= power[j]
  OBVIOUS
<1> DEFINE N == {j \in Nat : i < j => 2 * power[i] <= power[j]}
<1>1. 0 \in N
  OBVIOUS
<1>2. ASSUME NEW j \in N PROVE j + 1 \in N
  <2>1. j \in Nat /\ power[j] \in Nat /\ power[j + 1] = 2 * power[j] /\ power[i] \in Nat
    BY PowerGrows, PowerEquation
  <2>2. CASE i < j
    BY <2>1, <2>2
  <2>3. CASE i = j
    BY <2>1, <2>3
  <2>4. CASE j < i
    BY <2>1, <2>4
  <2> QED  BY <2>1, <2>2, <2>3, <2>4
<1>3. N \in SUBSET Nat
  OBVIOUS
<1> HIDE DEF N
<1>4. \A j \in Nat : j \in N
  BY <1>1, <1>2, <1>3, SetInduction
<1> QED  BY <1>4 DEF N

LEMMA NextPower ==
  ASSUME NEW n \in Nat \ {0}
  PROVE  \E i \in Nat : /\ next_power_of_two(n) = power[i] /\ power[i] >= n
                        /\ \A j \in 0 .. n : power[j] >= n => power[i] <= power[j]
<1>1. PICK T : T = {p \in {power[i] : i \in 0 .. n} : p >= n}
  OBVIOUS
<1>2. T \in SUBSET Nat /\ power[n] \in T
  BY <1>1, PowerGrows
<1>3. PICK p \in T : \A q \in T : p <= q
  BY <1>2, LeastNumber
<1>4. PICK i \in 0 .. n : p = power[i]
  BY <1>1, <1>3
<1>5. /\ p \in {power[k] : k \in 0 .. n}
      /\ p >= n /\ \A j \in 0 .. n : power[j] >= n => p <= power[j]
  BY <1>1, <1>3
<1>6. PICK x : x = next_power_of_two(n)
  OBVIOUS
<1>7. /\ x \in {power[k] : k \in 0 .. n}
      /\ x >= n /\ \A j \in 0 .. n : power[j] >= n => x <= power[j]
  BY <1>5, <1>6 DEF next_power_of_two
<1>8. PICK k \in 0 .. n : x = power[k]
  BY <1>7
<1> QED  BY <1>6, <1>7, <1>8

LEMMA NextPowerIs ==
  ASSUME NEW n \in Nat \ {0}, NEW i \in Nat, n <= power[i], power[i] \div 2 < n
  PROVE  next_power_of_two(n) = power[i]
<1>1. PICK j \in Nat : /\ next_power_of_two(n) = power[j] /\ power[j] >= n
                       /\ \A k \in 0 .. n : power[k] >= n => power[j] <= power[k]
  BY NextPower
<1>2. power[i] \in Nat /\ power[j] \in Nat /\ power[n] \in Nat /\ power[n] > n
  BY PowerGrows
<1>3. CASE j < i
  <2>1. 2 * power[j] <= power[i]
    BY <1>3, PowerDoubles
  <2> QED  BY <1>1, <1>2, <2>1
<1>4. CASE i < j
  <2>1. 2 * power[i] <= power[j]
    BY <1>4, PowerDoubles
  <2>2. i \in 0 .. n
    <3>1. SUFFICES ASSUME i > n PROVE FALSE
      OBVIOUS
    <3>2. 2 * power[n] <= power[i]
      BY <3>1, PowerDoubles
    <3> QED  BY <1>2, <3>2
  <2> QED  BY <1>1, <1>2, <2>1, <2>2
<1> QED  BY <1>1, <1>3, <1>4

-----------------------------------------------------------------------------
(* The tree.                                                               *)

Root == root_node_size
Inner == 1 .. Root - 1

LEMMA RootPower == Root \in Nat \ {0} /\ SIZE \in Nat \ {0} /\ SIZE <= Root /\ \E i \in Nat : Root = power[i]
<1>1. SIZE \in Nat \ {0}
  BY BuddyAssumption
<1>2. PICK i \in Nat : next_power_of_two(SIZE) = power[i] /\ power[i] >= SIZE
  BY <1>1, NextPower
<1> QED  BY <1>1, <1>2, PowerGrows DEF Root, root_node_size

LEMMA Parents ==
  /\ Node = 1 .. 2 * Root - 1 /\ Inner \subseteq Node /\ 1 \in Node
  /\ \A n \in Inner : 2 * n \in Node /\ 2 * n + 1 \in Node
  /\ \A n \in Node \ {1} : n \div 2 \in Inner /\ n \div 2 < n /\ (n = 2 * (n \div 2) \/ n = 2 * (n \div 2) + 1)
  BY RootPower DEF Node, Inner, Root

LEMMA Numbers ==
  /\ \A n \in Node : n \in Nat /\ n >= 1 /\ (n \in Inner <=> n < Root)
  /\ \A n \in Inner : n \in Node /\ n \in Nat /\ n >= 1 /\ n < Root
  BY RootPower DEF Node, Inner, Root

LEMMA Above ==
  \A n \in Node \ {1} : /\ n \div 2 \in Inner /\ n \div 2 \in Node /\ n \div 2 \in 1 .. n - 1
                        /\ n \div 2 < n /\ (n = 2 * (n \div 2) \/ n = 2 * (n \div 2) + 1)
  BY Parents, Numbers

LEMMA ChildParents ==
  \A n \in Inner : /\ 2 * n # 1 /\ (2 * n) \div 2 = n /\ (2 * n) % 2 = 0
                   /\ 2 * n + 1 # 1 /\ (2 * n + 1) \div 2 = n /\ (2 * n + 1) % 2 = 1
  BY RootPower DEF Inner

\* Functions that go down the tree from the root.
GoesDown(f, V, b, G) ==
  f \in [Node -> V] /\ f = [n \in Node |-> IF n = 1 THEN b ELSE G[<<n, f[n \div 2]>>]]

LEMMA FromRoot ==
  ASSUME NEW V, NEW b, b \in V, NEW G, G \in [Node \X V -> V]
  PROVE  \E f : GoesDown(f, V, b, G)
<1> DEFINE S == [f \in [Node -> V] |-> [n \in Node |-> IF n = 1 THEN b ELSE G[<<n, f[n \div 2]>>]]]
           rank == [n \in Node |-> n]
<1>1. \A n \in Node : n # 1 => n \div 2 \in Node /\ n \div 2 < n
  BY Parents
<1>2. S \in [[Node -> V] -> [Node -> V]]
  BY <1>1
<1>3. 2 * Root - 1 \in Nat /\ rank \in [Node -> 0 .. 2 * Root - 1]
  BY Parents, RootPower
<1>4. Determined(S, Node, V, rank)
  BY <1>1 DEF Determined
<1>5. \E f : IsFixedPoint(f, S, Node, V)
  <2> HIDE DEF S, rank
  <2>1. PICK K : K = 2 * Root - 1
    OBVIOUS
  <2> QED  BY <1>2, <1>3, <1>4, <2>1, FixedPoint
<1> QED  BY <1>5 DEF IsFixedPoint, GoesDown

LEMMA NodeSizes ==
  /\ node_size \in [Node -> Nat]
  /\ node_size[1] = Root
  /\ \A n \in Node \ {1} : node_size[n] = node_size[n \div 2] \div 2
<1>1. PICK G : G = [p \in Node \X Nat |-> p[2] \div 2]
  OBVIOUS
<1>2. G \in [Node \X Nat -> Nat]
  BY <1>1
<1>3. PICK f : GoesDown(f, Nat, Root, G)
  BY <1>2, RootPower, FromRoot
<1>4. \A n \in Node : n # 1 => n \div 2 \in Node
  BY Parents
<1>5. f = [n \in Node |-> IF n = 1 THEN root_node_size ELSE f[n \div 2] \div 2]
  <2>1. ASSUME NEW n \in Node, n # 1 PROVE G[<<n, f[n \div 2]>>] = f[n \div 2] \div 2
    BY <1>1, <1>3, <1>4, <2>1 DEF GoesDown
  <2> QED  BY <1>3, <2>1 DEF GoesDown, Root
<1>6. PICK g : g = node_size
  OBVIOUS
<1>7. g = [n \in Node |-> IF n = 1 THEN root_node_size ELSE g[n \div 2] \div 2]
  BY <1>5, <1>6 DEF node_size
<1> DEFINE value(n) == IF n = 1 THEN root_node_size ELSE g[n \div 2] \div 2
<1>8. g = [n \in Node |-> value(n)]
  BY <1>7
<1>9. DOMAIN g = Node /\ \A n \in Node : g[n] = value(n)
  <2> HIDE DEF value
  <2> QED  BY <1>8
<1>10. g[1] = Root /\ \A n \in Node \ {1} : g[n] = g[n \div 2] \div 2
  BY <1>9, Parents DEF Root
<1>11. \A n \in Node : g[n] \in Nat
  <2> DEFINE N == {n \in Node : g[n] \in Nat}
  <2>1. ASSUME NEW n \in 1 .. 2 * Root - 1, \A m \in 1 .. n - 1 : m \in N PROVE n \in N
    <3>1. CASE n = 1
      BY <1>10, <3>1, RootPower, Parents
    <3>2. CASE n # 1
      <4>1. n \div 2 \in 1 .. n - 1 /\ n \in Node
        BY <3>2, Above, Parents
      <4>2. g[n \div 2] \in Nat
        BY <2>1, <4>1
      <4> QED  BY <1>10, <3>2, <4>1, <4>2
    <3> QED  BY <3>1, <3>2
  <2>2. N \in SUBSET (1 .. 2 * Root - 1) /\ 2 * Root - 1 \in Nat
    BY Parents, RootPower
  <2> HIDE DEF N
  <2>3. \A n \in 1 .. 2 * Root - 1 : n \in N
    BY <2>1, <2>2, UpInduction
  <2> QED  BY <2>3, Parents DEF N
<1>12. g = [n \in Node |-> g[n]]
  <2> HIDE DEF value
  <2> QED  BY <1>8, <1>9
<1> QED  BY <1>6, <1>10, <1>11, <1>12

LEMMA Offsets ==
  /\ offset \in [Node -> Nat]
  /\ offset[1] = 0
  /\ \A n \in Node \ {1} : offset[n] = offset[n \div 2] + IF n % 2 = 0 THEN 0 ELSE node_size[n]
<1>1. PICK G : G = [p \in Node \X Nat |-> p[2] + IF p[1] % 2 = 0 THEN 0 ELSE node_size[p[1]]]
  OBVIOUS
<1>2. G \in [Node \X Nat -> Nat]
  BY <1>1, NodeSizes
<1>3. PICK f : GoesDown(f, Nat, 0, G)
  <2>1. 0 \in Nat
    OBVIOUS
  <2> QED  BY <1>2, <2>1, FromRoot
<1>4. \A n \in Node : n # 1 => n \div 2 \in Node
  BY Parents
<1>5. f = [n \in Node |-> IF n = 1 THEN 0 ELSE f[n \div 2] + IF n % 2 = 0 THEN 0 ELSE node_size[n]]
  <2>1. ASSUME NEW n \in Node, n # 1
        PROVE  G[<<n, f[n \div 2]>>] = f[n \div 2] + IF n % 2 = 0 THEN 0 ELSE node_size[n]
    BY <1>1, <1>3, <1>4, <2>1 DEF GoesDown
  <2> QED  BY <1>3, <2>1 DEF GoesDown
<1>6. PICK g : g = offset
  OBVIOUS
<1>7. g = [n \in Node |-> IF n = 1 THEN 0 ELSE g[n \div 2] + IF n % 2 = 0 THEN 0 ELSE node_size[n]]
  BY <1>5, <1>6 DEF offset
<1> DEFINE value(n) == IF n = 1 THEN 0 ELSE g[n \div 2] + IF n % 2 = 0 THEN 0 ELSE node_size[n]
<1>8. g = [n \in Node |-> value(n)]
  BY <1>7
<1>9. DOMAIN g = Node /\ \A n \in Node : g[n] = value(n)
  <2> HIDE DEF value
  <2> QED  BY <1>8
<1>10. g[1] = 0 /\ \A n \in Node \ {1} : g[n] = g[n \div 2] + IF n % 2 = 0 THEN 0 ELSE node_size[n]
  BY <1>9, Parents
<1>11. \A n \in Node : g[n] \in Nat
  <2> DEFINE N == {n \in Node : g[n] \in Nat}
  <2>1. ASSUME NEW n \in 1 .. 2 * Root - 1, \A m \in 1 .. n - 1 : m \in N PROVE n \in N
    <3>1. CASE n = 1
      BY <1>10, <3>1, RootPower, Parents
    <3>2. CASE n # 1
      <4>1. n \div 2 \in 1 .. n - 1 /\ n \in Node
        BY <3>2, Above, Parents
      <4>2. g[n \div 2] \in Nat /\ node_size[n] \in Nat
        BY <2>1, <4>1, NodeSizes
      <4> QED  BY <1>10, <3>2, <4>1, <4>2
    <3> QED  BY <3>1, <3>2
  <2>2. N \in SUBSET (1 .. 2 * Root - 1) /\ 2 * Root - 1 \in Nat
    BY Parents, RootPower
  <2> HIDE DEF N
  <2>3. \A n \in 1 .. 2 * Root - 1 : n \in N
    BY <2>1, <2>2, UpInduction
  <2> QED  BY <2>3, Parents DEF N
<1>12. g = [n \in Node |-> g[n]]
  <2> HIDE DEF value
  <2> QED  BY <1>8, <1>9
<1> QED  BY <1>6, <1>10, <1>11, <1>12

LEMMA Ancestors ==
  /\ ancestors[1] = {}
  /\ \A n \in Node \ {1} : ancestors[n] = ancestors[n \div 2] \cup {n \div 2}
<1>1. PICK G : G = [p \in Node \X SUBSET Node |-> p[2] \cup ({p[1] \div 2} \cap Node)]
  OBVIOUS
<1>2. G \in [Node \X SUBSET Node -> SUBSET Node]
  BY <1>1
<1>3. PICK f : GoesDown(f, SUBSET Node, {}, G)
  <2>1. {} \in SUBSET Node
    OBVIOUS
  <2>2. PICK V, b : V = SUBSET Node /\ b = {}
    OBVIOUS
  <2>3. \E f : GoesDown(f, V, b, G)
    BY <1>2, <2>1, <2>2, FromRoot
  <2> QED  BY <2>2, <2>3
<1>4. \A n \in Node : n # 1 => n \div 2 \in Node
  BY Parents
<1>5. f = [n \in Node |-> IF n = 1 THEN {} ELSE f[n \div 2] \cup {n \div 2}]
  <2>1. ASSUME NEW n \in Node, n # 1
        PROVE  G[<<n, f[n \div 2]>>] = f[n \div 2] \cup {n \div 2}
    <3>1. f[n \div 2] \in SUBSET Node
      BY <1>3, <1>4, <2>1 DEF GoesDown
    <3>2. {n \div 2} \cap Node = {n \div 2}
      BY <1>4, <2>1
    <3> QED  BY <1>1, <3>1, <3>2
  <2> QED  BY <1>3, <2>1 DEF GoesDown
<1>6. PICK g : g = ancestors
  OBVIOUS
<1>7. g = [n \in Node |-> IF n = 1 THEN {} ELSE g[n \div 2] \cup {n \div 2}]
  BY <1>5, <1>6 DEF ancestors
<1> DEFINE value(n) == IF n = 1 THEN {} ELSE g[n \div 2] \cup {n \div 2}
<1>8. g = [n \in Node |-> value(n)]
  BY <1>7
<1>9. \A n \in Node : g[n] = value(n)
  <2> HIDE DEF value
  <2> QED  BY <1>8
<1> QED  BY <1>6, <1>9, Parents

\* Every node is a power of two in size, its size divides the range into as
\* many nodes as there are on its level, and its place follows from its number.
Placed(n, i, L) ==
  /\ i \in Nat /\ node_size[n] = power[i]
  /\ L \in Nat \ {0} /\ L * node_size[n] = Root /\ L <= n /\ n < 2 * L
  /\ offset[n] = (n - L) * node_size[n]

LEMMA HalfPower == ASSUME NEW i \in Nat, power[i] > 1 PROVE \E j \in Nat : power[i] = 2 * power[j]
<1>1. i # 0
  BY PowerEquation
<1>2. i - 1 \in Nat /\ (i - 1) + 1 = i
  BY <1>1
<1> QED  BY <1>2, PowerEquation

LEMMA Places == \A n \in Node : \E i, L : Placed(n, i, L)
<1> DEFINE N == {n \in Node : \E i, L : Placed(n, i, L)}
<1>1. ASSUME NEW n \in 1 .. 2 * Root - 1, \A m \in 1 .. n - 1 : m \in N PROVE n \in N
  <2>1. CASE n = 1
    <3>1. PICK i \in Nat : Root = power[i]
      BY RootPower
    <3>2. Placed(1, i, 1)
      BY <3>1, NodeSizes, Offsets, RootPower DEF Placed
    <3> QED  BY <2>1, <3>2, Parents
  <2>2. CASE n # 1
    <3>1. PICK m : m = n \div 2
      OBVIOUS
    <3>2. n \in Node /\ m \in Inner /\ m \in Node /\ m \in 1 .. n - 1 /\ (n = 2 * m \/ n = 2 * m + 1)
      <4>1. n \in Node \ {1}
        BY <2>2, Parents
      <4> QED  BY <3>1, <4>1, Above
    <3>3. PICK i, L : Placed(m, i, L)
      BY <1>1, <3>2
    <3>4. PICK s, o : s = node_size[m] /\ o = offset[m]
      OBVIOUS
    <3>5. s = power[i] /\ s \in Nat /\ s > 0 /\ L \in Nat \ {0} /\ L * s = Root /\ L <= m /\ m < 2 * L /\ o = (m - L) * s
      BY <3>3, <3>4, PowerGrows DEF Placed
    <3>6. s # 1
      BY <3>2, <3>5, RootPower DEF Inner
    <3>7. PICK j \in Nat : s = 2 * power[j]
      BY <3>3, <3>5, <3>6, HalfPower DEF Placed
    <3>8. PICK t : t = power[j]
      OBVIOUS
    <3>9. t \in Nat /\ s = 2 * t /\ node_size[n] = t
      <4>1. t \in Nat /\ s = 2 * t
        BY <3>7, <3>8, PowerGrows
      <4>2. node_size[n] = s \div 2
        BY <2>2, <3>1, <3>2, <3>4, NodeSizes
      <4> QED  BY <4>1, <4>2
    <3>10. PICK M : M = 2 * L
      OBVIOUS
    <3>11. M \in Nat \ {0} /\ M * t = Root /\ M <= n /\ n < 2 * M
      <4>1. M * t = L * s
        BY <3>5, <3>9, <3>10
      <4> QED  BY <3>2, <3>5, <3>10, <4>1
    <3>12. offset[n] = (n - M) * t
      <4>1. o = (2 * m - M) * t
        BY <3>2, <3>5, <3>9, <3>10 DEF Inner
      <4>2. CASE n = 2 * m
        <5>1. n % 2 = 0
          BY <3>2, <4>2
        <5>2. offset[n] = o
          BY <2>2, <3>1, <3>2, <3>4, <5>1, Offsets
        <5> QED  BY <4>1, <4>2, <5>2
      <4>3. CASE n = 2 * m + 1
        <5>1. n % 2 = 1
          BY <3>2, <4>3
        <5>2. offset[n] = o + t
          BY <2>2, <3>1, <3>2, <3>4, <3>9, <5>1, Offsets
        <5>3. n - M = (2 * m - M) + 1
          BY <3>2, <3>11, <4>3
        <5>4. PICK k : k = 2 * m - M
          OBVIOUS
        <5>5. k \in Int /\ (k + 1) * t = k * t + t
          BY <3>2, <3>9, <3>11, <5>4
        <5> QED  BY <4>1, <5>2, <5>3, <5>4, <5>5
      <4> QED  BY <3>2, <4>2, <4>3
    <3>13. Placed(n, j, M)
      BY <3>8, <3>9, <3>11, <3>12 DEF Placed
    <3> QED  BY <3>2, <3>13
  <2> QED  BY <2>1, <2>2
<1>2. N \in SUBSET (1 .. 2 * Root - 1) /\ 2 * Root - 1 \in Nat
  BY Parents, RootPower
<1> HIDE DEF N
<1>3. \A n \in 1 .. 2 * Root - 1 : n \in N
  BY <1>1, <1>2, UpInduction
<1> QED  BY <1>3, Parents DEF N

LEMMA Sizes ==
  \A n \in Node : /\ node_size[n] \in Nat \ {0} /\ \E i \in Nat : node_size[n] = power[i]
                  /\ offset[n] \in Nat /\ end(n) \in Nat /\ end(n) <= Root /\ node_size[n] <= Root
                  /\ offset[n] < end(n) /\ end(n) = offset[n] + node_size[n]
<1> SUFFICES ASSUME NEW n \in Node
             PROVE  /\ node_size[n] \in Nat \ {0} /\ \E i \in Nat : node_size[n] = power[i]
                    /\ offset[n] \in Nat /\ end(n) \in Nat /\ end(n) <= Root /\ node_size[n] <= Root
                    /\ offset[n] < end(n) /\ end(n) = offset[n] + node_size[n]
  OBVIOUS
<1>1. PICK i, L : Placed(n, i, L)
  BY Places
<1>2. PICK s, o : s = node_size[n] /\ o = offset[n]
  OBVIOUS
<1>3. n \in Nat /\ o \in Nat
  BY <1>2, Numbers, Offsets
<1>4. s = power[i] /\ s \in Nat /\ s > 0 /\ L \in Nat \ {0} /\ L * s = Root /\ L <= n /\ n < 2 * L /\ o = (n - L) * s
  BY <1>1, <1>2, PowerGrows DEF Placed
<1>5. o + s <= Root
  <2>1. PICK k : k = n - L
    OBVIOUS
  <2>2. k \in Nat /\ k + 1 <= L /\ o = k * s
    BY <1>3, <1>4, <2>1
  <2>3. PICK d \in Nat : L = k + 1 + d
    <3>1. L - (k + 1) \in Nat /\ L = k + 1 + (L - (k + 1))
      BY <1>4, <2>2
    <3> QED  BY <3>1
  <2>4. L * s = k * s + s + d * s /\ d * s >= 0
    BY <1>4, <2>2, <2>3
  <2> QED  BY <1>3, <1>4, <2>2, <2>4, RootPower
<1>6. i \in Nat /\ end(n) = o + s
  BY <1>1, <1>2 DEF Placed, end
<1> QED  BY <1>2, <1>3, <1>4, <1>5, <1>6, RootPower

\* The two halves of a node.
LEMMA Halves ==
  \A n \in Inner :
    /\ half(n) \in Nat \ {0} /\ node_size[n] = 2 * half(n) /\ half(n) < node_size[n]
    /\ node_size[2 * n] = half(n) /\ node_size[2 * n + 1] = half(n)
    /\ offset[2 * n] = offset[n] /\ offset[2 * n + 1] = offset[n] + half(n)
    /\ end(2 * n) = offset[n] + half(n) /\ end(2 * n + 1) = end(n)
    /\ ancestors[2 * n] = ancestors[n] \cup {n} /\ ancestors[2 * n + 1] = ancestors[n] \cup {n}
<1> SUFFICES ASSUME NEW n \in Inner
             PROVE  /\ half(n) \in Nat \ {0} /\ node_size[n] = 2 * half(n) /\ half(n) < node_size[n]
                    /\ node_size[2 * n] = half(n) /\ node_size[2 * n + 1] = half(n)
                    /\ offset[2 * n] = offset[n] /\ offset[2 * n + 1] = offset[n] + half(n)
                    /\ end(2 * n) = offset[n] + half(n) /\ end(2 * n + 1) = end(n)
                    /\ ancestors[2 * n] = ancestors[n] \cup {n} /\ ancestors[2 * n + 1] = ancestors[n] \cup {n}
  OBVIOUS
<1>1. n \in Node /\ 2 * n \in Node \ {1} /\ 2 * n + 1 \in Node \ {1}
  BY Parents, ChildParents
<1>2. (2 * n) \div 2 = n /\ (2 * n) % 2 = 0 /\ (2 * n + 1) \div 2 = n /\ (2 * n + 1) % 2 = 1
  BY ChildParents
<1>3. PICK i, L : Placed(n, i, L)
  BY <1>1, Places
<1>4. node_size[n] # 1 /\ node_size[n] = power[i] /\ i \in Nat
  BY <1>1, <1>3, RootPower DEF Placed, Inner
<1>5. node_size[n] > 1
  BY <1>1, <1>4, Sizes
<1>6. PICK j \in Nat : node_size[n] = 2 * power[j]
  BY <1>4, <1>5, HalfPower
<1>7. PICK t : t = power[j]
  OBVIOUS
<1>8. half(n) = t /\ t \in Nat \ {0} /\ node_size[n] = 2 * t
  BY <1>5, <1>6, <1>7, PowerGrows DEF half
<1>9. node_size[2 * n] = half(n) /\ node_size[2 * n + 1] = half(n)
  BY <1>1, <1>2, NodeSizes DEF half
<1>10. offset[2 * n] = offset[n] /\ offset[2 * n + 1] = offset[n] + half(n) /\ offset[n] \in Nat
  BY <1>1, <1>2, <1>9, Offsets
<1>11. end(2 * n) = offset[n] + half(n) /\ end(2 * n + 1) = end(n)
  BY <1>8, <1>9, <1>10 DEF end
<1>12. ancestors[2 * n] = ancestors[n] \cup {n} /\ ancestors[2 * n + 1] = ancestors[n] \cup {n}
  BY <1>1, <1>2, Ancestors
<1> QED  BY <1>8, <1>9, <1>10, <1>11, <1>12

LEMMA Units == \A n \in Node \ Inner : node_size[n] = 1 /\ half(n) = 0 /\ offset[n] = n - Root
<1> SUFFICES ASSUME NEW n \in Node \ Inner PROVE node_size[n] = 1 /\ half(n) = 0 /\ offset[n] = n - Root
  OBVIOUS
<1>1. PICK i, L : Placed(n, i, L)
  BY Places
<1>2. PICK s : s = node_size[n]
  OBVIOUS
<1>3. /\ s \in Nat \ {0} /\ L \in Nat \ {0} /\ L * s = Root /\ n < 2 * L
      /\ n >= Root /\ n \in Nat /\ offset[n] = (n - L) * s
  <2>1. n \in Nat /\ n >= Root
    BY Numbers, RootPower
  <2>2. node_size[n] \in Nat \ {0}
    BY Sizes
  <2> QED  BY <1>1, <1>2, <2>1, <2>2 DEF Placed
<1>4. s = 1
  <2>1. SUFFICES ASSUME s # 1 PROVE FALSE
    OBVIOUS
  <2>2. PICK d \in Nat : s = d + 2
    <3>1. s - 2 \in Nat /\ s = (s - 2) + 2
      BY <1>3, <2>1
    <3> QED  BY <3>1
  <2>3. L * s = L * d + 2 * L /\ L * d >= 0
    BY <1>3, <2>2
  <2> QED  BY <1>3, <2>3, RootPower
<1> QED  BY <1>2, <1>3, <1>4 DEF half

\* The node m is the node n or one above it.
Over(m, n) == m = n \/ m \in ancestors[n]

\* A node above another one holds it in one of its halves.
LEMMA Nested ==
  \A n \in Node : \A m \in ancestors[n] :
    /\ m \in Inner /\ m < n /\ ancestors[m] \subseteq ancestors[n]
    /\ \/ Over(2 * m, n) /\ offset[m] <= offset[n] /\ end(n) <= offset[m] + half(m)
       \/ Over(2 * m + 1, n) /\ offset[m] + half(m) <= offset[n] /\ end(n) <= end(m)
    /\ node_size[n] <= half(m)
<1> DEFINE Holds(m, n) ==
      /\ m \in Inner /\ m < n /\ ancestors[m] \subseteq ancestors[n]
      /\ \/ Over(2 * m, n) /\ offset[m] <= offset[n] /\ end(n) <= offset[m] + half(m)
         \/ Over(2 * m + 1, n) /\ offset[m] + half(m) <= offset[n] /\ end(n) <= end(m)
      /\ node_size[n] <= half(m)
    N == {n \in Node : \A m \in ancestors[n] : Holds(m, n)}
<1>1. ASSUME NEW n \in 1 .. 2 * Root - 1, \A m \in 1 .. n - 1 : m \in N PROVE n \in N
  <2>1. CASE n = 1
    BY <2>1, Ancestors, Parents
  <2>2. CASE n # 1
    <3>1. PICK p : p = n \div 2
      OBVIOUS
    <3>2. n \in Node \ {1}
      BY <2>2, Parents
    <3>3. p \in Inner /\ p < n /\ (n = 2 * p \/ n = 2 * p + 1) /\ ancestors[n] = ancestors[p] \cup {p}
      BY <3>1, <3>2, Parents, Ancestors
    <3>4. p \in N /\ p \in Node
      BY <1>1, <3>1, <3>2, Above
    <3>5. /\ offset[p] \in Nat /\ offset[n] \in Nat /\ end(p) \in Nat /\ end(n) \in Nat
          /\ node_size[n] \in Nat /\ node_size[p] \in Nat
          /\ half(p) \in Nat /\ node_size[p] = 2 * half(p) /\ end(p) = offset[p] + node_size[p]
      BY <3>2, <3>3, <3>4, Sizes, Halves
    <3>6. /\ node_size[n] = half(p)
          /\ \/ n = 2 * p /\ offset[n] = offset[p] /\ end(n) = offset[p] + half(p)
             \/ n = 2 * p + 1 /\ offset[n] = offset[p] + half(p) /\ end(n) = end(p)
      BY <3>3, Halves
    <3>7. ASSUME NEW m \in ancestors[n] PROVE Holds(m, n)
      <4>1. CASE m = p
        BY <3>3, <3>5, <3>6, <4>1 DEF Over
      <4>2. CASE m \in ancestors[p]
        <5>1. Holds(m, p)
          BY <3>4, <4>2
        <5>2. m \in Node /\ m < n /\ ancestors[m] \subseteq ancestors[n]
          <6>1. m \in Inner /\ m < p /\ ancestors[m] \subseteq ancestors[p]
            BY <5>1
          <6>2. m \in Nat /\ p \in Nat /\ n \in Nat
            BY <3>2, <3>4, <6>1, Numbers
          <6> QED  BY <3>3, <6>1, <6>2, Numbers
        <5>3. offset[m] \in Nat /\ end(m) \in Nat /\ half(m) \in Nat
          BY <5>1, <5>2, Sizes, Halves
        <5>4. offset[p] <= offset[n] /\ end(n) <= end(p) /\ node_size[n] <= node_size[p]
          BY <3>5, <3>6
        <5>5. /\ Over(2 * m, p) => Over(2 * m, n)
              /\ Over(2 * m + 1, p) => Over(2 * m + 1, n)
          BY <3>3 DEF Over
        <5>6. node_size[n] <= half(m)
          BY <3>5, <5>1, <5>3, <5>4
        <5>7. CASE Over(2 * m, p) /\ offset[m] <= offset[p] /\ end(p) <= offset[m] + half(m)
          BY <3>5, <5>1, <5>2, <5>3, <5>4, <5>5, <5>6, <5>7
        <5>8. CASE Over(2 * m + 1, p) /\ offset[m] + half(m) <= offset[p] /\ end(p) <= end(m)
          BY <3>5, <5>1, <5>2, <5>3, <5>4, <5>5, <5>6, <5>8
        <5> QED  BY <5>1, <5>7, <5>8
      <4> QED  BY <3>3, <4>1, <4>2
    <3> QED  BY <3>2, <3>7
  <2> QED  BY <2>1, <2>2
<1>2. N \in SUBSET (1 .. 2 * Root - 1) /\ 2 * Root - 1 \in Nat
  BY Parents, RootPower
<1> HIDE DEF N
<1>3. \A n \in 1 .. 2 * Root - 1 : n \in N
  BY <1>1, <1>2, UpInduction
<1> QED  BY <1>3, Parents DEF N

LEMMA OverTransitive ==
  ASSUME NEW a, NEW b \in Node, NEW c \in Node, Over(a, b), Over(b, c)
  PROVE  Over(a, c)
<1>1. CASE b \in ancestors[c]
  BY <1>1, Nested DEF Over
<1>2. CASE b = c
  BY <1>2
<1> QED  BY <1>1, <1>2 DEF Over

LEMMA OverParent ==
  ASSUME NEW m, NEW n \in Node \ {1}
  PROVE  Over(m, n) <=> m = n \/ Over(m, n \div 2)
  BY Ancestors DEF Over

LEMMA OverNode ==
  ASSUME NEW n \in Node, NEW m, Over(m, n)
  PROVE  /\ m \in Node /\ m <= n /\ offset[m] <= offset[n] /\ end(n) <= end(m)
         /\ node_size[n] <= node_size[m]
         /\ m # n => m \in Inner /\ (Over(2 * m, n) \/ Over(2 * m + 1, n)) /\ node_size[n] <= half(m)
<1>1. CASE m = n
  BY <1>1, Sizes, Numbers
<1>2. CASE m # n
  <2>1. /\ m \in Inner /\ m < n
        /\ \/ Over(2 * m, n) /\ offset[m] <= offset[n] /\ end(n) <= offset[m] + half(m)
           \/ Over(2 * m + 1, n) /\ offset[m] + half(m) <= offset[n] /\ end(n) <= end(m)
        /\ node_size[n] <= half(m)
    BY <1>2, Nested DEF Over
  <2>2. m \in Node /\ half(m) \in Nat /\ half(m) < node_size[m] /\ node_size[m] = 2 * half(m)
    BY <2>1, Numbers, Halves
  <2>3. /\ offset[m] \in Nat /\ end(m) \in Nat /\ end(m) = offset[m] + node_size[m] /\ node_size[m] \in Nat
        /\ offset[n] \in Nat /\ end(n) \in Nat /\ node_size[n] \in Nat /\ m \in Nat /\ n \in Nat
    BY <2>2, Sizes, Numbers
  <2> QED  BY <2>1, <2>2, <2>3
<1> QED  BY <1>1, <1>2

LEMMA OverRoot == \A n \in Node : Over(1, n)
<1> DEFINE N == {n \in Node : Over(1, n)}
<1>1. ASSUME NEW n \in 1 .. 2 * Root - 1, \A m \in 1 .. n - 1 : m \in N PROVE n \in N
  <2>1. n \in Node
    BY Parents
  <2>2. CASE n = 1
    BY <2>1, <2>2 DEF Over
  <2>3. CASE n # 1
    <3>1. n \div 2 \in 1 .. n - 1
      BY <2>1, <2>3, Above
    <3>2. Over(1, n \div 2)
      BY <1>1, <3>1
    <3> QED  BY <2>1, <2>3, <3>2, OverParent
  <2> QED  BY <2>2, <2>3
<1>2. N \in SUBSET (1 .. 2 * Root - 1) /\ 2 * Root - 1 \in Nat
  BY Parents, RootPower
<1> HIDE DEF N
<1>3. \A n \in 1 .. 2 * Root - 1 : n \in N
  BY <1>1, <1>2, UpInduction
<1> QED  BY <1>3, Parents DEF N

\* Two nodes lie one in the other or side by side.
Beside(m, n) == end(m) <= offset[n] \/ end(n) <= offset[m]

LEMMA NestedOrBeside == \A m \in Node, n \in Node : Over(m, n) \/ Over(n, m) \/ Beside(m, n)
<1> SUFFICES ASSUME NEW n \in Node PROVE \A m \in Node : Over(m, n) \/ Over(n, m) \/ Beside(m, n)
  OBVIOUS
<1> DEFINE N == {m \in Node : Over(m, n) \/ Over(n, m) \/ Beside(m, n)}
<1>1. ASSUME NEW m \in 1 .. 2 * Root - 1, \A l \in 1 .. m - 1 : l \in N PROVE m \in N
  <2>1. m \in Node
    BY Parents
  <2>2. CASE m = 1
    BY <2>1, <2>2, OverRoot
  <2>3. CASE m # 1
    <3>1. PICK p : p = m \div 2
      OBVIOUS
    <3>2. p \in 1 .. m - 1 /\ p \in Inner /\ p \in Node /\ (m = 2 * p \/ m = 2 * p + 1)
      BY <2>1, <2>3, <3>1, Above
    <3>3. Over(p, m)
      BY <2>1, <2>3, <3>1, OverParent DEF Over
    <3>4. /\ offset[p] \in Nat /\ offset[m] \in Nat /\ offset[n] \in Nat
          /\ end(p) \in Nat /\ end(m) \in Nat /\ end(n) \in Nat /\ half(p) \in Nat
      BY <2>1, <3>2, Sizes, Halves
    <3>5. CASE Over(p, n) /\ p # n
      <4>1. \/ Over(2 * p, n) /\ offset[p] <= offset[n] /\ end(n) <= offset[p] + half(p)
            \/ Over(2 * p + 1, n) /\ offset[p] + half(p) <= offset[n] /\ end(n) <= end(p)
        BY <3>5, Nested DEF Over
      <4>2. /\ offset[2 * p] = offset[p] /\ offset[2 * p + 1] = offset[p] + half(p)
            /\ end(2 * p) = offset[p] + half(p) /\ end(2 * p + 1) = end(p)
        BY <3>2, Halves
      <4>3. CASE m = 2 * p
        BY <2>1, <3>4, <4>1, <4>2, <4>3 DEF Beside
      <4>4. CASE m = 2 * p + 1
        BY <2>1, <3>4, <4>1, <4>2, <4>4 DEF Beside
      <4> QED  BY <3>2, <4>3, <4>4
    <3>6. CASE Over(n, p)
      BY <2>1, <3>2, <3>3, <3>6, OverTransitive
    <3>7. CASE Beside(p, n)
      <4>1. offset[p] <= offset[m] /\ end(m) <= end(p)
        BY <2>1, <3>3, OverNode
      <4> QED  BY <2>1, <3>4, <3>7, <4>1 DEF Beside
    <3>8. p \in N
      BY <1>1, <3>2
    <3> QED  BY <3>5, <3>6, <3>7, <3>8 DEF Over
  <2> QED  BY <2>2, <2>3
<1>2. N \in SUBSET (1 .. 2 * Root - 1) /\ 2 * Root - 1 \in Nat
  BY Parents, RootPower
<1> HIDE DEF N
<1>3. \A m \in 1 .. 2 * Root - 1 : m \in N
  BY <1>1, <1>2, UpInduction
<1> QED  BY <1>3, Parents DEF N

\* The node that holds the one address x.
Unit(x) == Root + x

LEMMA UnitUnder ==
  ASSUME NEW x \in 0 .. Root - 1
  PROVE  /\ Unit(x) \in Node \ Inner /\ offset[Unit(x)] = x /\ end(Unit(x)) = x + 1
         /\ \A n \in Node : offset[n] <= x /\ x < end(n) => Over(n, Unit(x))
<1>1. PICK u : u = Unit(x)
  OBVIOUS
<1>2. u \in Node \ Inner /\ u \in Nat /\ u - Root = x
  BY <1>1, RootPower DEF Node, Root, Inner, Unit
<1>3. offset[u] = x /\ end(u) = x + 1
  BY <1>2, Units DEF end
<1>4. ASSUME NEW n \in Node, offset[n] <= x, x < end(n) PROVE Over(n, u)
  <2>1. ~Beside(n, u)
    BY <1>3, <1>4, Sizes DEF Beside
  <2>2. Over(u, n) => u = n
    BY <1>2, OverNode
  <2> QED  BY <1>2, <2>1, <2>2, NestedOrBeside DEF Over
<1> QED  BY <1>1, <1>2, <1>3, <1>4

-----------------------------------------------------------------------------
(* What the nodes have available.                                          *)

LEMMA Maximum ==
  ASSUME NEW a \in Int, NEW b \in Int
  PROVE  Max({a, b}) = (IF a >= b THEN a ELSE b) /\ Min({a, b}) = (IF a <= b THEN a ELSE b)
  BY DEF Max, Min

LEMMA Update ==
  ASSUME NEW n \in Inner, NEW l \in Nat, NEW r \in Nat
  PROVE  /\ update(n, l, r) \in Nat
         /\ l = half(n) /\ r = half(n) => update(n, l, r) = node_size[n]
         /\ ~(l = half(n) /\ r = half(n)) => update(n, l, r) = IF l >= r THEN l ELSE r
<1>1. node_size[n] \in Nat
  BY Numbers, Sizes
<1>2. Max({l, r}) = IF l >= r THEN l ELSE r
  BY Maximum
<1> QED  BY <1>1, <1>2 DEF update

\* The value of a node follows from those of its halves, unless it is blocked.
Settled(A, B, n) ==
  A[n] = IF n \in B THEN 0 ELSE IF n \in Inner THEN update(n, A[2 * n], A[2 * n + 1]) ELSE 1

Exact(A, B) == A \in [Node -> Nat] /\ \A n \in Node : Settled(A, B, n)

\* No node has more than its size, and one that has more than half has all.
LEMMA Bounded ==
  ASSUME NEW A, NEW B, Exact(A, B)
  PROVE  \A n \in Node : A[n] \in Nat /\ A[n] <= node_size[n] /\ (A[n] > half(n) => A[n] = node_size[n])
<1> DEFINE N == {n \in Node : A[n] <= node_size[n] /\ (A[n] > half(n) => A[n] = node_size[n])}
<1>0. \A n \in Node : A[n] \in Nat
  BY DEF Exact
<1>1. ASSUME NEW n \in 1 .. 2 * Root - 1, \A m \in n + 1 .. 2 * Root - 1 : m \in N PROVE n \in N
  <2>1. n \in Node /\ node_size[n] \in Nat \ {0} /\ Settled(A, B, n) /\ A[n] \in Nat
    BY <1>0, Parents, Sizes DEF Exact
  <2>2. CASE n \in B
    <3>1. A[n] = 0 /\ half(n) \in Nat
      <4>1. half(n) \in Nat
        BY <2>1, Halves, Units
      <4> QED  BY <2>1, <2>2, <4>1 DEF Settled
    <3> QED  BY <2>1, <3>1
  <2>3. CASE n \notin B /\ n \in Inner
    <3>1. 2 * n \in N /\ 2 * n + 1 \in N
      <4>1. n \in Nat /\ n >= 1 /\ 2 * n \in Node /\ 2 * n + 1 \in Node
        BY <2>3, Numbers, Parents
      <4>2. 2 * n \in n + 1 .. 2 * Root - 1 /\ 2 * n + 1 \in n + 1 .. 2 * Root - 1
        BY <4>1, Parents
      <4> QED  BY <1>1, <4>2
    <3>2. PICK l, r : l = A[2 * n] /\ r = A[2 * n + 1]
      OBVIOUS
    <3>3. l \in Nat /\ r \in Nat /\ l <= half(n) /\ r <= half(n) /\ half(n) \in Nat /\ half(n) < node_size[n]
      <4>1. 2 * n \in Node /\ 2 * n + 1 \in Node /\ node_size[2 * n] = half(n) /\ node_size[2 * n + 1] = half(n)
        BY <2>3, Halves, Parents
      <4>2. half(n) \in Nat /\ half(n) < node_size[n]
        BY <2>3, Halves
      <4> QED  BY <1>0, <3>1, <3>2, <4>1, <4>2
    <3>4. A[n] = update(n, l, r)
      BY <2>1, <2>3, <3>2 DEF Settled
    <3>5. /\ l = half(n) /\ r = half(n) => A[n] = node_size[n]
          /\ ~(l = half(n) /\ r = half(n)) => A[n] = IF l >= r THEN l ELSE r
      BY <2>3, <3>3, <3>4, Update
    <3> QED  BY <2>1, <3>3, <3>5
  <2>4. CASE n \notin B /\ n \notin Inner
    BY <2>1, <2>4, Units DEF Settled
  <2> QED  BY <2>2, <2>3, <2>4
<1>2. N \in SUBSET (1 .. 2 * Root - 1) /\ 2 * Root - 1 \in Nat
  BY Parents, RootPower
<1> HIDE DEF N
<1>3. \A n \in 1 .. 2 * Root - 1 : n \in N
  BY <1>1, <1>2, DownInduction
<1> QED  BY <1>0, <1>3, Parents DEF N

\* The values of the halves of a node that is not blocked.
LEMMA HalfValues ==
  ASSUME NEW A, NEW B, Exact(A, B), NEW n \in Inner, n \notin B
  PROVE  /\ A[2 * n] \in Nat /\ A[2 * n] <= half(n) /\ A[2 * n + 1] \in Nat /\ A[2 * n + 1] <= half(n)
         /\ \/ A[2 * n] = half(n) /\ A[2 * n + 1] = half(n) /\ A[n] = node_size[n]
            \/ ~(A[2 * n] = half(n) /\ A[2 * n + 1] = half(n))
               /\ A[n] = IF A[2 * n] >= A[2 * n + 1] THEN A[2 * n] ELSE A[2 * n + 1]
<1>1. 2 * n \in Node /\ 2 * n + 1 \in Node /\ node_size[2 * n] = half(n) /\ node_size[2 * n + 1] = half(n)
  BY Halves, Parents
<1>2. PICK l, r : l = A[2 * n] /\ r = A[2 * n + 1]
  OBVIOUS
<1>3. l \in Nat /\ r \in Nat /\ l <= half(n) /\ r <= half(n)
  BY <1>1, <1>2, Bounded
<1>4. A[n] = update(n, l, r)
  BY <1>2, Numbers DEF Exact, Settled
<1>5. /\ l = half(n) /\ r = half(n) => A[n] = node_size[n]
      /\ ~(l = half(n) /\ r = half(n)) => A[n] = IF l >= r THEN l ELSE r
  BY <1>3, <1>4, Update
<1> QED  BY <1>2, <1>3, <1>5

\* A node that has all of its size has no blocked node in it,
LEMMA FullDown ==
  ASSUME NEW A, NEW B, Exact(A, B), NEW n \in Node, A[n] = node_size[n]
  PROVE  \A m \in Node : Over(n, m) => m \notin B /\ A[m] = node_size[m]
<1> DEFINE N == {m \in Node : Over(n, m) => A[m] = node_size[m]}
<1>0. \A m \in Node : A[m] = node_size[m] => m \notin B
  <2> SUFFICES ASSUME NEW m \in Node, A[m] = node_size[m], m \in B PROVE FALSE
    OBVIOUS
  <2>1. A[m] = 0
    BY DEF Exact, Settled
  <2> QED  BY <2>1, Sizes
<1>1. ASSUME NEW m \in 1 .. 2 * Root - 1, \A l \in 1 .. m - 1 : l \in N PROVE m \in N
  <2>1. m \in Node
    BY Parents
  <2>2. CASE m = n
    BY <2>1, <2>2
  <2>3. CASE m # n /\ Over(n, m)
    <3>1. m # 1
      <4>1. SUFFICES ASSUME m = 1 PROVE FALSE
        OBVIOUS
      <4> QED  BY <2>3, <4>1, Ancestors DEF Over
    <3>2. PICK p : p = m \div 2
      OBVIOUS
    <3>3. p \in 1 .. m - 1 /\ p \in Inner /\ p \in Node /\ (m = 2 * p \/ m = 2 * p + 1)
      BY <2>1, <3>1, <3>2, Above
    <3>4. A[p] = node_size[p] /\ p \notin B
      <4>1. Over(n, p)
        BY <2>1, <2>3, <3>1, <3>2, OverParent
      <4> QED  BY <1>0, <1>1, <3>3, <4>1
    <3>5. A[2 * p] = half(p) /\ A[2 * p + 1] = half(p)
      <4>1. half(p) \in Nat /\ half(p) < node_size[p]
        BY <3>3, Halves
      <4> QED  BY <3>3, <3>4, <4>1, HalfValues
    <3> QED  BY <2>1, <3>3, <3>5, Halves
  <2> QED  BY <2>1, <2>2, <2>3
<1>2. N \in SUBSET (1 .. 2 * Root - 1) /\ 2 * Root - 1 \in Nat
  BY Parents, RootPower
<1> HIDE DEF N
<1>3. \A m \in 1 .. 2 * Root - 1 : m \in N
  BY <1>1, <1>2, UpInduction
<1> QED  BY <1>0, <1>3, Parents DEF N

\* and the other way round.
LEMMA FullUp ==
  ASSUME NEW A, NEW B, Exact(A, B)
  PROVE  \A n \in Node : (\A m \in Node : Over(n, m) => m \notin B) => A[n] = node_size[n]
<1> DEFINE Free(n) == \A m \in Node : Over(n, m) => m \notin B
           N == {n \in Node : Free(n) => A[n] = node_size[n]}
<1>1. ASSUME NEW n \in 1 .. 2 * Root - 1, \A m \in n + 1 .. 2 * Root - 1 : m \in N PROVE n \in N
  <2>1. n \in Node /\ Settled(A, B, n)
    BY Parents DEF Exact
  <2>2. SUFFICES ASSUME Free(n) PROVE A[n] = node_size[n]
    BY <2>1
  <2>3. n \notin B
    BY <2>1, <2>2 DEF Over
  <2>4. CASE n \in Inner
    <3>1. 2 * n \in N /\ 2 * n + 1 \in N /\ 2 * n \in Node /\ 2 * n + 1 \in Node
      <4>1. n \in Nat /\ n >= 1 /\ 2 * n \in Node /\ 2 * n + 1 \in Node
        BY <2>4, Numbers, Parents
      <4>2. 2 * n \in n + 1 .. 2 * Root - 1 /\ 2 * n + 1 \in n + 1 .. 2 * Root - 1
        BY <4>1, Parents
      <4> QED  BY <1>1, <4>1, <4>2
    <3>2. Over(n, 2 * n) /\ Over(n, 2 * n + 1)
      BY <2>4, Halves DEF Over
    <3>3. Free(2 * n) /\ Free(2 * n + 1)
      BY <2>1, <2>2, <3>1, <3>2, OverTransitive
    <3>4. A[2 * n] = half(n) /\ A[2 * n + 1] = half(n)
      BY <2>4, <3>1, <3>3, Halves
    <3> QED  BY <2>3, <2>4, <3>4, HalfValues
  <2>5. CASE n \notin Inner
    BY <2>1, <2>3, <2>5, Units DEF Settled
  <2> QED  BY <2>4, <2>5
<1>2. N \in SUBSET (1 .. 2 * Root - 1) /\ 2 * Root - 1 \in Nat
  BY Parents, RootPower
<1> HIDE DEF N
<1>3. \A n \in 1 .. 2 * Root - 1 : n \in N
  BY <1>1, <1>2, DownInduction
<1> QED  BY <1>3, Parents DEF N

\* A function on the nodes that is computed from the bottom up: what S makes of
\* it at a node depends on its values below alone.
BottomUp(S, V) ==
  \A f, g \in [Node -> V], n \in Node : (\A m \in Node : m > n => f[m] = g[m]) => S[f][n] = S[g][n]

LEMMA FromBelow ==
  ASSUME NEW V, NEW b, b \in V, NEW S, S \in [[Node -> V] -> [Node -> V]], BottomUp(S, V)
  PROVE  \E f : IsFixedPoint(f, S, Node, V)
<1>1. PICK K, rank : K = 2 * Root - 1 /\ rank = [n \in Node |-> K - n]
  OBVIOUS
<1>2. K \in Nat /\ rank \in [Node -> 0 .. K]
  <2>1. K \in Nat /\ Node = 1 .. K
    BY <1>1, Parents, RootPower
  <2>2. \A n \in Node : K - n \in 0 .. K
    BY <2>1
  <2> QED  BY <1>1, <2>1, <2>2
<1>3. \A m, n \in Node : m > n => rank[m] < rank[n]
  BY <1>1, <1>2, Numbers
<1>4. Determined(S, Node, V, rank)
  BY <1>3 DEF Determined, BottomUp
<1> QED  BY <1>2, <1>4, FixedPoint

LEMMA Refreshed ==
  ASSUME NEW G, G \in [Node -> Nat], NEW U, U \subseteq Inner
  PROVE  /\ refreshed(G, U) \in [Node -> Nat]
         /\ \A n \in U : refreshed(G, U)[n] = update(n, refreshed(G, U)[2 * n], refreshed(G, U)[2 * n + 1])
         /\ \A n \in Node \ U : refreshed(G, U)[n] = G[n]
<1> DEFINE S == [f \in [Node -> Nat] |->
                  [n \in Node |-> IF n \in U THEN update(n, f[2 * n], f[2 * n + 1]) ELSE G[n]]]
<1>1. ASSUME NEW f \in [Node -> Nat], NEW n \in U PROVE update(n, f[2 * n], f[2 * n + 1]) \in Nat
  <2>1. n \in Inner /\ 2 * n \in Node /\ 2 * n + 1 \in Node
    BY Parents
  <2>2. f[2 * n] \in Nat /\ f[2 * n + 1] \in Nat
    BY <2>1
  <2> QED  BY <2>1, <2>2, Update
<1>2. S \in [[Node -> Nat] -> [Node -> Nat]]
  BY <1>1
<1>3. BottomUp(S, Nat)
  <2> SUFFICES ASSUME NEW f \in [Node -> Nat], NEW g \in [Node -> Nat], NEW n \in Node,
                      \A m \in Node : m > n => f[m] = g[m]
               PROVE  S[f][n] = S[g][n]
    BY DEF BottomUp
  <2>1. CASE n \in U
    <3>1. 2 * n \in Node /\ 2 * n + 1 \in Node /\ 2 * n > n /\ 2 * n + 1 > n
      BY <2>1, Parents, Numbers
    <3> QED  BY <3>1
  <2>2. CASE n \notin U
    BY <2>2
  <2> QED  BY <2>1, <2>2
<1>4. PICK f : IsFixedPoint(f, S, Node, Nat)
  <2> HIDE DEF S
  <2>1. 0 \in Nat
    OBVIOUS
  <2> QED  BY <1>2, <1>3, <2>1, FromBelow
<1>5. f = [n \in Node |-> IF n \in U THEN update(n, f[2 * n], f[2 * n + 1]) ELSE G[n]]
  BY <1>4 DEF IsFixedPoint
<1>6. PICK g : g = refreshed(G, U)
  OBVIOUS
<1>7. g = [n \in Node |-> IF n \in U THEN update(n, g[2 * n], g[2 * n + 1]) ELSE G[n]]
  BY <1>5, <1>6 DEF refreshed
<1> DEFINE value(n) == IF n \in U THEN update(n, g[2 * n], g[2 * n + 1]) ELSE G[n]
<1>8. g = [n \in Node |-> value(n)]
  BY <1>7
<1>9. \A n \in Node : g[n] = value(n)
  <2> HIDE DEF value
  <2> QED  BY <1>8
<1>10. \A n \in Node : g[n] \in Nat
  <2> DEFINE N == {n \in Node : g[n] \in Nat}
  <2>1. ASSUME NEW n \in 1 .. 2 * Root - 1, \A m \in n + 1 .. 2 * Root - 1 : m \in N PROVE n \in N
    <3>1. n \in Node
      BY Parents
    <3>2. CASE n \in U
      <4>1. n \in Inner /\ n \in Nat /\ n >= 1 /\ 2 * n \in Node /\ 2 * n + 1 \in Node
        BY <3>2, Numbers, Parents
      <4>2. 2 * n \in n + 1 .. 2 * Root - 1 /\ 2 * n + 1 \in n + 1 .. 2 * Root - 1
        BY <4>1, Parents
      <4>3. g[2 * n] \in Nat /\ g[2 * n + 1] \in Nat
        BY <2>1, <4>2
      <4>4. update(n, g[2 * n], g[2 * n + 1]) \in Nat
        BY <4>1, <4>3, Update
      <4> QED  BY <1>9, <3>1, <3>2, <4>4
    <3>3. CASE n \notin U
      BY <1>9, <3>1, <3>3
    <3> QED  BY <3>2, <3>3
  <2>2. N \in SUBSET (1 .. 2 * Root - 1) /\ 2 * Root - 1 \in Nat
    BY Parents, RootPower
  <2> HIDE DEF N
  <2>3. \A n \in 1 .. 2 * Root - 1 : n \in N
    BY <2>1, <2>2, DownInduction
  <2> QED  BY <2>3, Parents DEF N
<1>11. g = [n \in Node |-> g[n]]
  <2> HIDE DEF value
  <2> QED  BY <1>8, <1>9
<1>12. /\ \A n \in U : g[n] = update(n, g[2 * n], g[2 * n + 1])
       /\ \A n \in Node \ U : g[n] = G[n]
  BY <1>9, Numbers
<1> QED  BY <1>6, <1>10, <1>11, <1>12

\* Values that are right but for some nodes are right once these are updated.
LEMMA RefreshedExact ==
  ASSUME NEW G, G \in [Node -> Nat], NEW U, U \subseteq Inner, NEW B, U \cap B = {},
         \A n \in Inner \ U : 2 * n \notin U /\ 2 * n + 1 \notin U,
         \A n \in Node \ U : Settled(G, B, n)
  PROVE  Exact(refreshed(G, U), B)
<1>1. PICK A : A = refreshed(G, U)
  OBVIOUS
<1>2. /\ A \in [Node -> Nat]
      /\ \A n \in U : A[n] = update(n, A[2 * n], A[2 * n + 1])
      /\ \A n \in Node \ U : A[n] = G[n]
  BY <1>1, Refreshed
<1>3. ASSUME NEW n \in Node PROVE Settled(A, B, n)
  <2>1. CASE n \in U
    BY <1>2, <2>1 DEF Settled
  <2>2. CASE n \notin U /\ n \in Inner
    <3>1. 2 * n \in Node \ U /\ 2 * n + 1 \in Node \ U
      BY <2>2, Parents
    <3>2. A[n] = G[n] /\ A[2 * n] = G[2 * n] /\ A[2 * n + 1] = G[2 * n + 1]
      BY <1>2, <2>2, <3>1
    <3> QED  BY <2>2, <3>2 DEF Settled
  <2>3. CASE n \notin U /\ n \notin Inner
    BY <1>2, <2>3 DEF Settled
  <2> QED  BY <2>1, <2>2, <2>3
<1> QED  BY <1>1, <1>2, <1>3 DEF Exact

\* The nodes above a node are updated with it.
LEMMA Upwards ==
  ASSUME NEW t \in Node
  PROVE  /\ ancestors[t] \subseteq Inner /\ t \notin ancestors[t]
         /\ \A n \in Inner : n \notin ancestors[t] =>
              /\ 2 * n \notin ancestors[t] /\ 2 * n + 1 \notin ancestors[t]
              /\ 2 * n # t /\ 2 * n + 1 # t
         /\ t \in Inner => 2 * t \notin ancestors[t] /\ 2 * t + 1 \notin ancestors[t] /\ 2 * t # t /\ 2 * t + 1 # t
<1>1. ancestors[t] \subseteq Inner /\ t \notin ancestors[t]
  BY Nested, Numbers
<1>2. ASSUME NEW n \in Inner
      PROVE  Over(2 * n, t) \/ Over(2 * n + 1, t) => n \in ancestors[t]
  <2>1. n \in Node /\ n \in Nat /\ n >= 1 /\ 2 * n \in Node /\ 2 * n + 1 \in Node
    BY Numbers, Parents
  <2>2. Over(n, 2 * n) /\ Over(n, 2 * n + 1)
    BY Halves DEF Over
  <2>3. SUFFICES ASSUME Over(2 * n, t) \/ Over(2 * n + 1, t) PROVE n \in ancestors[t]
    OBVIOUS
  <2>4. Over(n, t)
    BY <2>1, <2>2, <2>3, OverTransitive
  <2>5. n # t
    BY <2>1, <2>3, OverNode
  <2> QED  BY <2>4, <2>5 DEF Over
<1>3. ASSUME t \in Inner PROVE 2 * t \notin ancestors[t] /\ 2 * t + 1 \notin ancestors[t] /\ 2 * t # t /\ 2 * t + 1 # t
  <2>1. \A m \in ancestors[t] : m < t
    BY Nested
  <2>2. t \in Nat /\ t >= 1 /\ ~(2 * t < t) /\ ~(2 * t + 1 < t)
    BY Numbers
  <2> QED  BY <2>1, <2>2
<1> QED  BY <1>1, <1>2, <1>3 DEF Over

-----------------------------------------------------------------------------
(* The ways down.                                                          *)

\* Two nodes over the same one lie one in the other.
LEMMA OverChain ==
  ASSUME NEW t \in Node, NEW a \in Node, NEW b \in Node, Over(a, t), Over(b, t)
  PROVE  Over(a, b) \/ Over(b, a)
<1>1. offset[a] <= offset[t] /\ end(t) <= end(a) /\ offset[b] <= offset[t] /\ end(t) <= end(b)
  BY OverNode
<1>2. /\ offset[a] \in Nat /\ offset[b] \in Nat /\ offset[t] \in Nat /\ offset[t] < end(t)
      /\ end(a) \in Nat /\ end(b) \in Nat /\ end(t) \in Nat
  BY Sizes
<1>3. ~Beside(a, b)
  BY <1>1, <1>2 DEF Beside
<1> QED  BY <1>3, NestedOrBeside

\* A search that goes from a node to one of its halves, or stops.
WaysDown(f, stop, child) ==
  /\ f \in [Node -> Node]
  /\ \A n \in Node : f[n] = IF n \in stop THEN n ELSE f[child[n]]

LEMMA WayDown ==
  ASSUME NEW stop, NEW child, \A n \in Node \ stop : n \in Inner /\ child[n] \in {2 * n, 2 * n + 1},
         NEW f, f = CHOOSE g : g = [n \in Node |-> IF n \in stop THEN n ELSE g[child[n]]]
  PROVE  WaysDown(f, stop, child)
<1> DEFINE S == [g \in [Node -> Node] |-> [n \in Node |-> IF n \in stop THEN n ELSE g[child[n]]]]
<1>1. ASSUME NEW n \in Node \ stop PROVE child[n] \in Node /\ child[n] > n
  <2>1. n \in Inner /\ (child[n] = 2 * n \/ child[n] = 2 * n + 1)
    OBVIOUS
  <2>2. n \in Nat /\ n >= 1 /\ 2 * n \in Node /\ 2 * n + 1 \in Node
    BY <2>1, Numbers, Parents
  <2> QED  BY <2>1, <2>2
<1>2. S \in [[Node -> Node] -> [Node -> Node]]
  BY <1>1
<1>3. BottomUp(S, Node)
  BY <1>1 DEF BottomUp
<1>4. PICK g : IsFixedPoint(g, S, Node, Node)
  <2> HIDE DEF S
  <2>1. 1 \in Node
    BY Parents
  <2> QED  BY <1>2, <1>3, <2>1, FromBelow
<1>5. g = [n \in Node |-> IF n \in stop THEN n ELSE g[child[n]]]
  BY <1>4 DEF IsFixedPoint
<1>6. f = [n \in Node |-> IF n \in stop THEN n ELSE f[child[n]]]
  BY <1>5
<1> DEFINE value(n) == IF n \in stop THEN n ELSE f[child[n]]
<1>7. f = [n \in Node |-> value(n)]
  BY <1>6
<1>8. \A n \in Node : f[n] = value(n)
  <2> HIDE DEF value
  <2> QED  BY <1>7
<1>9. \A n \in Node : f[n] \in Node
  <2> DEFINE N == {n \in Node : f[n] \in Node}
  <2>1. ASSUME NEW n \in 1 .. 2 * Root - 1, \A m \in n + 1 .. 2 * Root - 1 : m \in N PROVE n \in N
    <3>1. n \in Node
      BY Parents
    <3>2. CASE n \in stop
      BY <1>8, <3>1, <3>2
    <3>3. CASE n \notin stop
      <4>1. child[n] \in n + 1 .. 2 * Root - 1
        BY <1>1, <3>1, <3>3, Parents
      <4>2. f[child[n]] \in Node
        BY <2>1, <4>1
      <4> QED  BY <1>8, <3>1, <3>3, <4>2
    <3> QED  BY <3>2, <3>3
  <2>2. N \in SUBSET (1 .. 2 * Root - 1) /\ 2 * Root - 1 \in Nat
    BY Parents, RootPower
  <2> HIDE DEF N
  <2>3. \A n \in 1 .. 2 * Root - 1 : n \in N
    BY <2>1, <2>2, DownInduction
  <2> QED  BY <2>3, Parents DEF N
<1>10. f = [n \in Node |-> f[n]]
  <2> HIDE DEF value
  <2> QED  BY <1>7, <1>8
<1>11. f \in [Node -> Node]
  BY <1>9, <1>10
<1> QED  BY <1>8, <1>11 DEF WaysDown

LEMMA AllocSearch ==
  ASSUME NEW req \in Nat \ {0}
  PROVE  /\ alloc_search(req) \in [Node -> Node]
         /\ \A n \in Node : alloc_search(req)[n] = IF req > half(n) THEN n ELSE alloc_search(req)[best_fit(n, req)]
<1> DEFINE stop == {n \in Node : req > half(n)}
           child == [n \in Node |-> best_fit(n, req)]
<1>1. PICK f : f = alloc_search(req)
  OBVIOUS
<1>2. f = CHOOSE g : g = [n \in Node |-> IF req > half(n) THEN n ELSE g[best_fit(n, req)]]
  BY <1>1 DEF alloc_search
<1>3. \A g : [n \in Node |-> IF req > half(n) THEN n ELSE g[best_fit(n, req)]]
               = [n \in Node |-> IF n \in stop THEN n ELSE g[child[n]]]
  OBVIOUS
<1>4. f = CHOOSE g : g = [n \in Node |-> IF n \in stop THEN n ELSE g[child[n]]]
  <2> HIDE DEF stop, child
  <2> QED  BY <1>2, <1>3, Zenon
<1>5. \A n \in Node \ stop : n \in Inner /\ child[n] \in {2 * n, 2 * n + 1}
  <2> SUFFICES ASSUME NEW n \in Node \ stop PROVE n \in Inner /\ child[n] \in {2 * n, 2 * n + 1}
    OBVIOUS
  <2>1. n \in Inner
    BY Units
  <2>2. best_fit(n, req) \in {2 * n, 2 * n + 1}
    BY DEF best_fit
  <2> QED  BY <2>1, <2>2
<1>6. WaysDown(f, stop, child)
  <2> HIDE DEF stop, child
  <2> QED  BY <1>4, <1>5, WayDown
<1> QED  BY <1>1, <1>6 DEF WaysDown

LEMMA DeallocSearch ==
  ASSUME children \subseteq Inner, NEW ptr, NEW req
  PROVE  /\ dealloc_search(ptr, req) \in [Node -> Node]
         /\ \A n \in Node : dealloc_search(ptr, req)[n] =
              IF stands_for(n, ptr, req) \/ n \notin children THEN n
              ELSE dealloc_search(ptr, req)[IF ptr < offset[n] + half(n) THEN 2 * n ELSE 2 * n + 1]
<1> DEFINE stop == {n \in Node : stands_for(n, ptr, req) \/ n \notin children}
           child == [n \in Node |-> IF ptr < offset[n] + half(n) THEN 2 * n ELSE 2 * n + 1]
<1>1. PICK f : f = dealloc_search(ptr, req)
  OBVIOUS
<1>2. f = CHOOSE g : g = [n \in Node |-> IF stands_for(n, ptr, req) \/ n \notin children THEN n
                                         ELSE g[IF ptr < offset[n] + half(n) THEN 2 * n ELSE 2 * n + 1]]
  BY <1>1 DEF dealloc_search
<1>3. \A g : [n \in Node |-> IF stands_for(n, ptr, req) \/ n \notin children THEN n
                             ELSE g[IF ptr < offset[n] + half(n) THEN 2 * n ELSE 2 * n + 1]]
               = [n \in Node |-> IF n \in stop THEN n ELSE g[child[n]]]
  OBVIOUS
<1>4. f = CHOOSE g : g = [n \in Node |-> IF n \in stop THEN n ELSE g[child[n]]]
  <2> HIDE DEF stop, child
  <2> QED  BY <1>2, <1>3, Zenon
<1>5. \A n \in Node \ stop : n \in Inner /\ child[n] \in {2 * n, 2 * n + 1}
  OBVIOUS
<1>6. WaysDown(f, stop, child)
  <2> HIDE DEF stop, child
  <2> QED  BY <1>4, <1>5, WayDown
<1> QED  BY <1>1, <1>6 DEF WaysDown

-----------------------------------------------------------------------------
(* The invariant.                                                          *)

\* The nodes that can give nothing: those handed out, those that make up the
\* reserved ranges, and those beyond the end of the range.
Taken == {n \in Node : allocated[n] # 0}
Withheld == UNION {whole(r) : r \in reserved}
Outside == {n \in Node : offset[n] >= SIZE}
Blocked == Taken \cup Withheld \cup Outside

\* A node is handed out to a request that needs more than half of it, and lies
\* beside all other nodes that can give nothing.
Fits(n) ==
  /\ allocated[n] \in Requests /\ half(n) < allocated[n] /\ allocated[n] <= node_size[n]
  /\ offset[n] + allocated[n] <= SIZE /\ ancestors[n] \subseteq children
Alone(n) ==
  /\ n \notin Withheld \cup Outside
  /\ \A m \in Blocked : m # n => ~Over(m, n) /\ ~Over(n, m)

ValuesInv == Exact(max_available, Blocked)
TakenInv == allocated \in [Node -> Nat] /\ \A n \in Taken : Fits(n) /\ Alone(n)

BlockOf(n) == [start |-> offset[n], end |-> offset[n] + allocated[n]]
LiveInv == live = {BlockOf(n) : n \in Taken}

\* At boot, before anything is handed out, ranges are reserved side by side.
ReservedInv ==
  /\ reserved \subseteq Reservable /\ \A r, q \in reserved : r # q => ~overlaps(r, q)
  /\ booting \in BOOLEAN /\ (booting => Taken = {})

BuddyInv == ValuesInv /\ TakenInv /\ LiveInv /\ ReservedInv /\ children \subseteq Inner /\ panicked = FALSE

-----------------------------------------------------------------------------
(* What the searches find.                                                 *)

\* The search of alloc goes to a node that has room in all of it, past nodes
\* that have enough.
Reaches(A, req, n, t) ==
  /\ t \in Node /\ Over(n, t) /\ req > half(t) /\ A[t] >= req
  /\ \A m \in ancestors[t] : Over(n, m) => A[m] >= req

LEMMA BestFit ==
  ASSUME NEW B, Exact(max_available, B), NEW req \in Nat \ {0}, NEW n \in Inner,
         req <= half(n), max_available[n] >= req
  PROVE  /\ best_fit(n, req) \in Node /\ best_fit(n, req) > n /\ n \in ancestors[best_fit(n, req)]
         /\ max_available[best_fit(n, req)] >= req
<1>1. n \notin B
  BY Numbers DEF Exact, Settled
<1>2. PICK l, r : l = max_available[2 * n] /\ r = max_available[2 * n + 1]
  OBVIOUS
<1>3. /\ l \in Nat /\ r \in Nat /\ half(n) \in Nat
      /\ \/ l = half(n) /\ r = half(n)
         \/ max_available[n] = IF l >= r THEN l ELSE r
  BY <1>1, <1>2, HalfValues, Halves
<1>4. l >= req \/ r >= req
  BY <1>3
<1>5. /\ n \in Nat /\ n >= 1 /\ 2 * n \in Node /\ 2 * n + 1 \in Node
      /\ n \in ancestors[2 * n] /\ n \in ancestors[2 * n + 1]
  BY Numbers, Parents, Halves
<1>6. CASE best_fit(n, req) = 2 * n /\ l >= req
  BY <1>2, <1>5, <1>6
<1>7. CASE best_fit(n, req) = 2 * n + 1 /\ r >= req
  BY <1>2, <1>5, <1>7
<1> QED  BY <1>2, <1>3, <1>4, <1>6, <1>7 DEF best_fit

LEMMA AllocFinds ==
  ASSUME NEW B, Exact(max_available, B), NEW req \in Nat \ {0}, req <= max_available[1]
  PROVE  Reaches(max_available, req, 1, alloc_target(req))
<1>1. PICK T : T = alloc_search(req)
  OBVIOUS
<1>2. \A n \in Node : T[n] = IF req > half(n) THEN n ELSE T[best_fit(n, req)]
  BY <1>1, AllocSearch
<1> DEFINE N == {n \in Node : max_available[n] >= req => Reaches(max_available, req, n, T[n])}
<1>3. ASSUME NEW n \in 1 .. 2 * Root - 1, \A m \in n + 1 .. 2 * Root - 1 : m \in N PROVE n \in N
  <2>1. n \in Node
    BY Parents
  <2>2. SUFFICES ASSUME max_available[n] >= req PROVE Reaches(max_available, req, n, T[n])
    BY <2>1
  <2>3. CASE req > half(n)
    <3>1. T[n] = n
      BY <1>2, <2>1, <2>3
    <3>2. \A m \in ancestors[n] : ~Over(n, m)
      <4>1. SUFFICES ASSUME NEW m \in ancestors[n], Over(n, m) PROVE FALSE
        OBVIOUS
      <4>2. m \in Node /\ m < n /\ m \in Nat /\ n \in Nat
        BY <2>1, Nested, Numbers
      <4>3. n <= m
        BY <4>1, <4>2, OverNode
      <4> QED  BY <4>2, <4>3
    <3> QED  BY <2>1, <2>2, <2>3, <3>1, <3>2 DEF Reaches, Over
  <2>4. CASE ~(req > half(n))
    <3>1. n \in Inner
      BY <2>1, <2>4, Units
    <3>2. PICK c : c = best_fit(n, req)
      OBVIOUS
    <3>3. c \in Node /\ c > n /\ n \in ancestors[c] /\ max_available[c] >= req
      <4>1. req <= half(n)
        BY <2>4, <3>1, Halves
      <4> QED  BY <2>2, <3>1, <3>2, <4>1, BestFit
    <3>4. PICK t : t = T[n]
      OBVIOUS
    <3>5. t = T[c]
      BY <1>2, <2>1, <2>4, <3>2, <3>4
    <3>6. Reaches(max_available, req, c, t)
      <4>1. c \in n + 1 .. 2 * Root - 1
        BY <2>1, <3>3, Parents, Numbers
      <4>2. c \in N
        BY <1>3, <4>1
      <4> QED  BY <3>3, <3>5, <4>2
    <3>7. t \in Node /\ Over(n, c) /\ Over(c, t)
      BY <3>3, <3>6 DEF Reaches, Over
    <3>8. Over(n, t)
      BY <2>1, <3>3, <3>7, OverTransitive
    <3>9. ASSUME NEW m \in ancestors[t], Over(n, m) PROVE max_available[m] >= req
      <4>1. m \in Node
        BY <3>7, Nested, Numbers
      <4>2. CASE Over(c, m)
        BY <3>6, <4>2 DEF Reaches
      <4>3. CASE Over(m, c)
        <5>1. CASE m = n
          BY <2>2, <5>1
        <5>2. CASE m # n
          <6>1. n < m /\ n \in Nat /\ m \in Nat
            BY <2>1, <3>9, <4>1, <5>2, OverNode, Numbers
          <6>2. c \in Node \ {1} /\ c \div 2 = n
            BY <3>2, <3>1, <3>3, ChildParents, Numbers DEF best_fit
          <6>3. m = c \/ Over(m, n)
            BY <4>3, <6>2, OverParent
          <6>4. Over(m, n) => m <= n
            BY <2>1, OverNode
          <6>5. m = c
            BY <6>1, <6>3, <6>4
          <6> QED  BY <3>3, <6>5
        <5> QED  BY <5>1, <5>2
      <4>4. Over(m, t)
        BY DEF Over
      <4> QED  BY <3>3, <3>7, <4>1, <4>2, <4>3, <4>4, OverChain
    <3> QED  BY <3>4, <3>6, <3>8, <3>9 DEF Reaches
  <2> QED  BY <2>3, <2>4
<1>4. N \in SUBSET (1 .. 2 * Root - 1) /\ 2 * Root - 1 \in Nat
  BY Parents, RootPower
<1> HIDE DEF N
<1>5. \A n \in 1 .. 2 * Root - 1 : n \in N
  BY <1>3, <1>4, DownInduction
<1>6. 1 \in N
  BY <1>5, Parents
<1>7. Reaches(max_available, req, 1, T[1])
  BY <1>6 DEF N
<1> QED  BY <1>1, <1>7 DEF alloc_target

\* The search of dealloc goes to the node the block was allocated at.
LEMMA DeallocFinds ==
  ASSUME children \subseteq Inner, NEW k \in Node, ancestors[k] \subseteq children,
         NEW req \in Nat, half(k) < req, req <= node_size[k]
  PROVE  dealloc_target(offset[k], req) = k
<1>1. PICK T : T = dealloc_search(offset[k], req)
  OBVIOUS
<1>2. \A n \in Node : T[n] = IF stands_for(n, offset[k], req) \/ n \notin children THEN n
                             ELSE T[IF offset[k] < offset[n] + half(n) THEN 2 * n ELSE 2 * n + 1]
  BY <1>1, DeallocSearch
<1>3. /\ offset[k] \in Nat /\ end(k) \in Nat /\ offset[k] < end(k) /\ node_size[k] \in Nat
  BY Sizes
<1> DEFINE N == {n \in Node : Over(n, k) => T[n] = k}
<1>4. ASSUME NEW n \in 1 .. 2 * Root - 1, \A m \in n + 1 .. 2 * Root - 1 : m \in N PROVE n \in N
  <2>1. n \in Node
    BY Parents
  <2>2. SUFFICES ASSUME Over(n, k) PROVE T[n] = k
    BY <2>1
  <2>3. CASE n = k
    <3>1. stands_for(n, offset[k], req)
      BY <2>3 DEF stands_for
    <3> QED  BY <1>2, <2>1, <2>3, <3>1
  <2>4. CASE n # k
    <3>1. n \in ancestors[k] /\ n \in children /\ n \in Inner
      BY <2>2, <2>4 DEF Over
    <3>2. /\ node_size[k] <= half(n) /\ half(n) \in Nat /\ offset[n] \in Nat
          /\ \/ Over(2 * n, k) /\ offset[n] <= offset[k] /\ end(k) <= offset[n] + half(n)
             \/ Over(2 * n + 1, k) /\ offset[n] + half(n) <= offset[k] /\ end(k) <= end(n)
      BY <2>1, <3>1, Nested, Halves, Sizes
    <3>3. ~stands_for(n, offset[k], req)
      BY <1>3, <3>2 DEF stands_for
    <3>4. T[n] = T[IF offset[k] < offset[n] + half(n) THEN 2 * n ELSE 2 * n + 1]
      BY <1>2, <2>1, <3>1, <3>3
    <3>5. 2 * n \in N /\ 2 * n + 1 \in N
      <4>1. n \in Nat /\ n >= 1 /\ 2 * n \in Node /\ 2 * n + 1 \in Node
        BY <3>1, Numbers, Parents
      <4>2. 2 * n \in n + 1 .. 2 * Root - 1 /\ 2 * n + 1 \in n + 1 .. 2 * Root - 1
        BY <4>1, Parents
      <4> QED  BY <1>4, <4>2
    <3>6. CASE Over(2 * n, k) /\ end(k) <= offset[n] + half(n)
      BY <1>3, <3>2, <3>4, <3>5, <3>6
    <3>7. CASE Over(2 * n + 1, k) /\ offset[n] + half(n) <= offset[k]
      BY <1>3, <3>2, <3>4, <3>5, <3>7
    <3> QED  BY <3>2, <3>6, <3>7
  <2> QED  BY <2>3, <2>4
<1>5. N \in SUBSET (1 .. 2 * Root - 1) /\ 2 * Root - 1 \in Nat
  BY Parents, RootPower
<1> HIDE DEF N
<1>6. \A n \in 1 .. 2 * Root - 1 : n \in N
  BY <1>4, <1>5, DownInduction
<1>7. T[1] = k
  BY <1>6, Parents, OverRoot DEF N
<1> QED  BY <1>1, <1>7 DEF dealloc_target

-----------------------------------------------------------------------------
(* The new allocator.                                                      *)

LEMMA SizeIn ==
  \A n \in Node : /\ size_in(n) \in Nat
                  /\ offset[n] >= SIZE => size_in(n) = 0
                  /\ end(n) <= SIZE => size_in(n) = node_size[n]
                  /\ n \in cut <=> offset[n] < SIZE /\ SIZE < end(n)
<1> SUFFICES ASSUME NEW n \in Node
             PROVE  /\ size_in(n) \in Nat
                    /\ offset[n] >= SIZE => size_in(n) = 0
                    /\ end(n) <= SIZE => size_in(n) = node_size[n]
                    /\ n \in cut <=> offset[n] < SIZE /\ SIZE < end(n)
  OBVIOUS
<1>1. /\ SIZE \in Nat /\ offset[n] \in Nat /\ node_size[n] \in Nat \ {0}
      /\ end(n) = offset[n] + node_size[n]
  BY RootPower, Sizes
<1>2. PICK a, s : a = SIZE - offset[n] /\ s = node_size[n]
  OBVIOUS
<1>3. PICK m : m = IF a <= s THEN a ELSE s
  OBVIOUS
<1>4. a \in Int /\ s \in Int /\ m \in Int
  BY <1>1, <1>2, <1>3
<1>5. Min({a, s}) = m /\ Max({0, m}) = IF 0 >= m THEN 0 ELSE m
  BY <1>3, <1>4, Maximum
<1>6. size_in(n) = IF 0 >= m THEN 0 ELSE m
  BY <1>2, <1>5 DEF size_in
<1>7. n \in cut <=> size_in(n) # 0 /\ size_in(n) # s
  BY <1>2 DEF cut
<1> QED  BY <1>1, <1>2, <1>3, <1>6, <1>7

LEMMA Cut == cut \subseteq Inner /\ \A n \in Inner \ cut : 2 * n \notin cut /\ 2 * n + 1 \notin cut
<1>1. ASSUME NEW n \in cut PROVE n \in Inner
  <2>1. n \in Node
    BY DEF cut
  <2>2. offset[n] < SIZE /\ SIZE < end(n) /\ offset[n] \in Nat /\ end(n) = offset[n] + node_size[n] /\ SIZE \in Nat
    BY <2>1, SizeIn, Sizes, RootPower
  <2>3. node_size[n] # 1
    BY <2>2
  <2> QED  BY <2>1, <2>3, Units
<1>2. ASSUME NEW n \in Inner PROVE 2 * n \in cut \/ 2 * n + 1 \in cut => n \in cut
  <2>1. n \in Node /\ 2 * n \in Node /\ 2 * n + 1 \in Node
    BY Numbers, Parents
  <2>2. /\ offset[2 * n] = offset[n] /\ offset[2 * n + 1] = offset[n] + half(n)
        /\ end(2 * n) = offset[n] + half(n) /\ end(2 * n + 1) = end(n)
        /\ half(n) \in Nat /\ node_size[n] = 2 * half(n)
    BY Halves
  <2>3. offset[n] \in Nat /\ end(n) = offset[n] + node_size[n] /\ SIZE \in Nat
    BY <2>1, Sizes, RootPower
  <2>4. /\ n \in cut <=> offset[n] < SIZE /\ SIZE < end(n)
        /\ 2 * n \in cut <=> offset[n] < SIZE /\ SIZE < offset[n] + half(n)
        /\ 2 * n + 1 \in cut <=> offset[n] + half(n) < SIZE /\ SIZE < end(n)
    BY <2>1, <2>2, SizeIn
  <2> QED  BY <2>2, <2>3, <2>4
<1> QED  BY <1>1, <1>2

LEMMA NewExact == Exact(new, Outside)
<1>1. PICK G : G = [n \in Node |-> size_in(n)]
  OBVIOUS
<1>2. G \in [Node -> Nat]
  BY <1>1, SizeIn
<1>3. cut \cap Outside = {}
  <2> SUFFICES ASSUME NEW n \in Node, n \in cut, n \in Outside PROVE FALSE
    BY DEF Outside
  <2>1. offset[n] < SIZE /\ offset[n] >= SIZE /\ offset[n] \in Nat /\ SIZE \in Nat
    BY SizeIn, Sizes, RootPower DEF Outside
  <2> QED  BY <2>1
<1>4. ASSUME NEW n \in Node \ cut PROVE Settled(G, Outside, n)
  <2>1. /\ offset[n] \in Nat /\ end(n) \in Nat /\ SIZE \in Nat /\ node_size[n] \in Nat \ {0}
        /\ end(n) = offset[n] + node_size[n]
    BY Sizes, RootPower
  <2>2. CASE n \in Outside
    <3>1. G[n] = 0
      BY <1>1, <2>2, SizeIn DEF Outside
    <3> QED  BY <2>2, <3>1 DEF Settled
  <2>3. CASE n \notin Outside
    <3>1. end(n) <= SIZE
      <4>1. ~(offset[n] >= SIZE) /\ ~(offset[n] < SIZE /\ SIZE < end(n))
        BY <2>3, SizeIn DEF Outside
      <4> QED  BY <2>1, <4>1
    <3>2. G[n] = node_size[n]
      BY <1>1, <3>1, SizeIn
    <3>3. CASE n \in Inner
      <4>1. 2 * n \in Node /\ 2 * n + 1 \in Node
        BY <3>3, Parents
      <4>2. /\ end(2 * n) = offset[n] + half(n) /\ end(2 * n + 1) = end(n)
            /\ half(n) \in Nat /\ node_size[n] = 2 * half(n)
            /\ node_size[2 * n] = half(n) /\ node_size[2 * n + 1] = half(n)
        BY <3>3, Halves
      <4>3. end(2 * n) <= SIZE /\ end(2 * n + 1) <= SIZE
        BY <2>1, <3>1, <4>2
      <4>4. G[2 * n] = half(n) /\ G[2 * n + 1] = half(n)
        BY <1>1, <4>1, <4>2, <4>3, SizeIn
      <4>5. update(n, G[2 * n], G[2 * n + 1]) = node_size[n]
        BY <4>4 DEF update
      <4> QED  BY <2>3, <3>2, <3>3, <4>5 DEF Settled
    <3>4. CASE n \notin Inner
      BY <2>3, <3>2, <3>4, Units DEF Settled
    <3> QED  BY <3>3, <3>4
  <2> QED  BY <2>2, <2>3
<1>5. Exact(refreshed(G, cut), Outside)
  BY <1>2, <1>3, <1>4, Cut, RefreshedExact
<1> QED  BY <1>1, <1>5 DEF new

LEMMA InitInv == Init => BuddyInv
<1> SUFFICES ASSUME Init PROVE BuddyInv
  OBVIOUS
<1>1. Taken = {} /\ Withheld = {} /\ Blocked = Outside
  <2>1. Taken = {}
    BY DEF Init, Taken
  <2>2. Withheld = {}
    BY DEF Init, Withheld
  <2> QED  BY <2>1, <2>2 DEF Blocked
<1>2. ValuesInv
  BY <1>1, NewExact DEF Init, ValuesInv
<1>3. TakenInv
  BY <1>1 DEF Init, TakenInv
<1>4. LiveInv
  BY <1>1 DEF Init, LiveInv
<1>5. ReservedInv
  BY <1>1 DEF Init, ReservedInv
<1> QED  BY <1>2, <1>3, <1>4, <1>5, Cut DEF Init, BuddyInv

-----------------------------------------------------------------------------
(* The steps.                                                              *)

\* A node gets a new value, and those above it, none of them blocked, follow.
LEMMA StoreExact ==
  ASSUME NEW A, NEW B, Exact(A, B), NEW t \in Node, NEW v \in Nat, NEW C,
         \A n \in Node : n # t => (n \in C <=> n \in B),
         ancestors[t] \cap B = {}, Settled([A EXCEPT ![t] = v], C, t)
  PROVE  Exact(refreshed([A EXCEPT ![t] = v], ancestors[t]), C)
<1>1. PICK G : G = [A EXCEPT ![t] = v]
  OBVIOUS
<1>2. G \in [Node -> Nat] /\ \A n \in Node : n # t => G[n] = A[n]
  BY <1>1 DEF Exact
<1>3. ancestors[t] \subseteq Inner /\ t \notin ancestors[t]
  BY Upwards
<1>4. ancestors[t] \cap C = {}
  BY <1>3, Numbers
<1>5. ASSUME NEW n \in Node \ ancestors[t] PROVE Settled(G, C, n)
  <2>1. CASE n = t
    BY <1>1, <2>1
  <2>2. CASE n # t /\ n \in Inner
    <3>1. 2 * n \in Node /\ 2 * n + 1 \in Node /\ 2 * n # t /\ 2 * n + 1 # t
      BY <2>2, Parents, Upwards
    <3>2. G[n] = A[n] /\ G[2 * n] = A[2 * n] /\ G[2 * n + 1] = A[2 * n + 1]
      BY <1>2, <2>2, <3>1
    <3> QED  BY <2>2, <3>2 DEF Exact, Settled
  <2>3. CASE n # t /\ n \notin Inner
    BY <1>2, <2>3 DEF Exact, Settled
  <2> QED  BY <2>1, <2>2, <2>3
<1>6. \A n \in Inner \ ancestors[t] : 2 * n \notin ancestors[t] /\ 2 * n + 1 \notin ancestors[t]
  BY Upwards
<1>7. Exact(refreshed(G, ancestors[t]), C)
  BY <1>2, <1>3, <1>4, <1>5, <1>6, RefreshedExact
<1> QED  BY <1>1, <1>7

LEMMA BlockedNodes == Blocked \subseteq Node /\ Taken \subseteq Node /\ Withheld \subseteq Node /\ Outside \subseteq Node
  BY DEF Blocked, Taken, Withheld, Outside, whole

LEMMA BlockedEmpty == ASSUME NEW A, NEW B, Exact(A, B), NEW n \in Node, n \in B PROVE A[n] = 0
  BY DEF Exact, Settled

\* What alloc finds is free, all of it and all above it, and lies in the range.
LEMMA AllocFree ==
  ASSUME BuddyInv, NEW req \in Requests, req <= max_available[1], NEW t, t = alloc_target(req)
  PROVE  /\ t \in Node /\ req > half(t) /\ req <= node_size[t] /\ max_available[t] = node_size[t]
         /\ offset[t] + req <= SIZE
         /\ \A m \in ancestors[t] : max_available[m] >= req
         /\ \A m \in Blocked : ~Over(m, t) /\ ~Over(t, m)
<1>1. req \in Nat \ {0}
  BY BuddyAssumption
<1>2. Exact(max_available, Blocked)
  BY DEF BuddyInv, ValuesInv
<1>3. Reaches(max_available, req, 1, t)
  BY <1>1, <1>2, AllocFinds
<1>4. t \in Node /\ req > half(t) /\ max_available[t] >= req
  BY <1>3 DEF Reaches
<1>5. max_available[t] = node_size[t] /\ req <= node_size[t]
  <2>1. half(t) \in Nat
    BY <1>4, Halves, Units
  <2>2. max_available[t] \in Nat /\ (max_available[t] > half(t) => max_available[t] = node_size[t])
    BY <1>2, <1>4, Bounded
  <2> QED  BY <1>1, <1>4, <2>1, <2>2
<1>6. ASSUME NEW m \in ancestors[t] PROVE max_available[m] >= req
  <2>1. m \in Node
    BY <1>4, Nested, Numbers
  <2> QED  BY <1>3, <2>1, OverRoot DEF Reaches
<1>7. ASSUME NEW m \in Blocked PROVE ~Over(m, t) /\ ~Over(t, m)
  <2>1. m \in Node /\ max_available[m] = 0
    BY <1>2, BlockedNodes, BlockedEmpty
  <2>2. ~Over(t, m)
    BY <1>2, <1>4, <1>5, <2>1, FullDown
  <2>3. m \notin ancestors[t]
    BY <1>1, <1>6, <2>1
  <2> QED  BY <2>2, <2>3 DEF Over
<1>8. offset[t] + req <= SIZE
  <2>1. SUFFICES ASSUME ~(offset[t] + req <= SIZE) PROVE FALSE
    OBVIOUS
  <2>2. /\ SIZE \in Nat /\ offset[t] \in Nat /\ end(t) = offset[t] + node_size[t] /\ end(t) \in Nat
        /\ node_size[t] \in Nat /\ end(t) <= Root /\ Root \in Nat
    BY <1>4, RootPower, Sizes
  <2>3. ~(offset[t] >= SIZE)
    BY <1>4, <1>7 DEF Blocked, Outside, Over
  <2>4. SIZE \in 0 .. Root - 1 /\ offset[t] <= SIZE /\ SIZE < end(t)
    BY <1>1, <1>5, <2>1, <2>2, <2>3
  <2>5. Unit(SIZE) \in Node /\ offset[Unit(SIZE)] = SIZE /\ Over(t, Unit(SIZE))
    BY <1>4, <2>4, UnitUnder
  <2>6. Unit(SIZE) \in Blocked
    BY <2>2, <2>5 DEF Blocked, Outside
  <2> QED  BY <1>7, <2>5, <2>6
<1> QED  BY <1>4, <1>5, <1>6, <1>7, <1>8

LEMMA AllocInv == ASSUME BuddyInv, NEW req \in Requests, alloc(req) PROVE BuddyInv'
<1>1. PICK t : t = alloc_target(req)
  OBVIOUS
<1>2. req \in Nat \ {0} /\ req <= max_available[1]
  BY BuddyAssumption DEF alloc
<1>3. /\ t \in Node /\ req > half(t) /\ req <= node_size[t] /\ max_available[t] = node_size[t]
      /\ offset[t] + req <= SIZE
      /\ \A m \in ancestors[t] : max_available[m] >= req
      /\ \A m \in Blocked : ~Over(m, t) /\ ~Over(t, m)
  BY <1>1, <1>2, AllocFree
<1>4. ~ \/ \E n \in ancestors[t] \ {1} : max_available[n] < req
        \/ max_available[t] # node_size[t]
        \/ offset[t] + req > SIZE
  <2>1. SIZE \in Nat /\ offset[t] \in Nat
    BY <1>3, RootPower, Sizes
  <2>2. \A n \in ancestors[t] : n \in Node /\ max_available[n] \in Nat
    BY <1>3, Nested, Numbers DEF BuddyInv, ValuesInv, Exact
  <2> QED  BY <1>2, <1>3, <2>1, <2>2
<1>5. /\ store(t, 0, req)
      /\ live' = live \cup {[start |-> offset[t], end |-> offset[t] + req]}
  BY <1>1, <1>4 DEF alloc, taken, recorded
<1>6. /\ max_available' = refreshed([max_available EXCEPT ![t] = 0], ancestors[t])
      /\ allocated' = [allocated EXCEPT ![t] = req]
      /\ children' = children \cup ancestors[t]
      /\ booting' = FALSE
      /\ reserved' = reserved /\ panicked' = panicked
  BY <1>5 DEF store
<1>7. /\ Exact(max_available, Blocked) /\ allocated \in [Node -> Nat] /\ children \subseteq Inner
      /\ \A n \in Taken : Fits(n) /\ Alone(n)
  BY DEF BuddyInv, ValuesInv, TakenInv
<1>8. allocated'[t] = req /\ \A n \in Node : n # t => allocated'[n] = allocated[n]
  BY <1>3, <1>6, <1>7
<1>9. t \notin Blocked
  BY <1>3 DEF Over
<1>10. Taken' = Taken \cup {t} /\ Withheld' = Withheld /\ Outside' = Outside /\ Blocked' = Blocked \cup {t}
  <2>1. Taken' = Taken \cup {t}
    BY <1>2, <1>3, <1>8 DEF Taken
  <2>2. Withheld' = Withheld /\ Outside' = Outside
    BY <1>6 DEF Withheld, Outside
  <2> QED  BY <2>1, <2>2 DEF Blocked
<1>11. ValuesInv'
  <2>1. PICK C : C = Blocked \cup {t}
    OBVIOUS
  <2>2. ancestors[t] \cap Blocked = {}
    BY <1>3 DEF Over
  <2>3. Settled([max_available EXCEPT ![t] = 0], C, t)
    BY <1>3, <1>7, <2>1 DEF Settled, Exact
  <2>4. \A n \in Node : n # t => (n \in C <=> n \in Blocked)
    BY <2>1
  <2>5. Exact(refreshed([max_available EXCEPT ![t] = 0], ancestors[t]), C)
    BY <1>3, <1>7, <2>2, <2>3, <2>4, StoreExact
  <2> QED  BY <1>6, <1>10, <2>1, <2>5 DEF ValuesInv
<1>12. TakenInv'
  <2>1. allocated' \in [Node -> Nat]
    BY <1>2, <1>6, <1>7
  <2>2. ASSUME NEW n \in Taken' PROVE Fits(n)'
    <3>1. CASE n = t
      BY <1>3, <1>6, <1>8, <3>1 DEF Fits
    <3>2. CASE n # t
      <4>1. n \in Taken /\ n \in Node
        BY <1>10, <3>2, BlockedNodes
      <4>2. allocated'[n] = allocated[n] /\ children \subseteq children'
        BY <1>6, <1>8, <3>2, <4>1
      <4> QED  BY <1>7, <4>1, <4>2 DEF Fits
    <3> QED  BY <3>1, <3>2
  <2>3. ASSUME NEW n \in Taken' PROVE Alone(n)'
    <3>1. CASE n = t
      <4>1. t \notin Withheld \cup Outside
        BY <1>9 DEF Blocked
      <4> QED  BY <1>3, <1>10, <3>1, <4>1 DEF Alone
    <3>2. CASE n # t
      <4>1. n \in Taken /\ n \in Blocked /\ Alone(n)
        BY <1>7, <1>10, <3>2 DEF Blocked
      <4>2. ~Over(n, t) /\ ~Over(t, n)
        BY <1>3, <4>1
      <4> QED  BY <1>10, <4>1, <4>2 DEF Alone
    <3> QED  BY <3>1, <3>2
  <2> QED  BY <2>1, <2>2, <2>3 DEF TakenInv
<1>13. LiveInv'
  <2>1. t \notin Taken
    BY <1>9 DEF Blocked
  <2>2. \A n \in Taken : BlockOf(n)' = BlockOf(n)
    BY <1>8, <2>1, BlockedNodes DEF BlockOf
  <2>3. BlockOf(t)' = [start |-> offset[t], end |-> offset[t] + req]
    BY <1>8 DEF BlockOf
  <2>4. live = {BlockOf(n) : n \in Taken}
    BY DEF BuddyInv, LiveInv
  <2> QED  BY <1>5, <1>10, <2>2, <2>3, <2>4 DEF LiveInv
<1>14. ReservedInv'
  BY <1>6 DEF BuddyInv, ReservedInv
<1>15. children' \subseteq Inner
  BY <1>3, <1>6, <1>7, Upwards
<1> QED  BY <1>6, <1>11, <1>12, <1>13, <1>14, <1>15 DEF BuddyInv

\* Nodes handed out have different places.
LEMMA TakenBeside ==
  ASSUME BuddyInv, NEW m \in Taken, NEW n \in Taken, m # n
  PROVE  Beside(m, n) /\ offset[m] # offset[n]
<1>1. m \in Node /\ n \in Node /\ m \in Blocked /\ Alone(n)
  BY BlockedNodes DEF BuddyInv, TakenInv, Blocked
<1>2. ~Over(m, n) /\ ~Over(n, m)
  BY <1>1 DEF Alone
<1>3. Beside(m, n)
  BY <1>1, <1>2, NestedOrBeside
<1>4. offset[m] \in Nat /\ offset[n] \in Nat /\ end(m) \in Nat /\ end(n) \in Nat /\ offset[m] < end(m) /\ offset[n] < end(n)
  BY <1>1, Sizes
<1> QED  BY <1>3, <1>4 DEF Beside

LEMMA DeallocInv == ASSUME BuddyInv, NEW block \in live, dealloc(block) PROVE BuddyInv'
<1>1. /\ Exact(max_available, Blocked) /\ allocated \in [Node -> Nat] /\ children \subseteq Inner
      /\ \A n \in Taken : Fits(n) /\ Alone(n)
      /\ live = {BlockOf(n) : n \in Taken}
  BY DEF BuddyInv, ValuesInv, TakenInv, LiveInv
<1>2. PICK t \in Taken : block = BlockOf(t)
  BY <1>1
<1>3. PICK req : req = allocated[t]
  OBVIOUS
<1>4. t \in Node /\ t \in Blocked /\ req \in Nat /\ offset[t] \in Nat /\ node_size[t] \in Nat \ {0}
  BY <1>1, <1>3, BlockedNodes, Sizes DEF Blocked
<1>5. half(t) < req /\ req <= node_size[t] /\ ancestors[t] \subseteq children
  BY <1>1, <1>3 DEF Fits
<1>6. /\ t \notin Withheld \cup Outside
      /\ \A m \in Blocked : m # t => ~Over(m, t) /\ ~Over(t, m)
  BY <1>1 DEF Alone
<1>7. block.start = offset[t] /\ block.end - block.start = req
  BY <1>2, <1>3, <1>4 DEF BlockOf
<1>8. dealloc_target(offset[t], req) = t
  BY <1>1, <1>4, <1>5, DeallocFinds
<1>9. stands_for(t, offset[t], req) /\ max_available[t] = 0
  BY <1>1, <1>4, <1>5, BlockedEmpty DEF stands_for
<1>10. store(t, node_size[t], 0) /\ live' = live \ {block}
  BY <1>3, <1>7, <1>8, <1>9 DEF dealloc
<1>11. /\ max_available' = refreshed([max_available EXCEPT ![t] = node_size[t]], ancestors[t])
       /\ allocated' = [allocated EXCEPT ![t] = 0]
       /\ children' = children \cup ancestors[t]
       /\ booting' = FALSE
       /\ reserved' = reserved /\ panicked' = panicked
  BY <1>10 DEF store
<1>12. allocated'[t] = 0 /\ \A n \in Node : n # t => allocated'[n] = allocated[n]
  BY <1>1, <1>4, <1>11
<1>13. Taken' = Taken \ {t} /\ Withheld' = Withheld /\ Outside' = Outside /\ Blocked' = Blocked \ {t}
  <2>1. Taken' = Taken \ {t}
    BY <1>12 DEF Taken
  <2>2. Withheld' = Withheld /\ Outside' = Outside
    BY <1>11 DEF Withheld, Outside
  <2> QED  BY <1>6, <2>1, <2>2 DEF Blocked
<1>14. ValuesInv'
  <2>1. PICK C, G : C = Blocked \ {t} /\ G = [max_available EXCEPT ![t] = node_size[t]]
    OBVIOUS
  <2>2. ancestors[t] \cap Blocked = {}
    <3>1. t \notin ancestors[t]
      BY <1>4, Upwards
    <3> QED  BY <1>6, <3>1 DEF Over
  <2>3. Settled(G, C, t)
    <3>1. G[t] = node_size[t] /\ t \notin C /\ \A n \in Node : n # t => G[n] = max_available[n]
      BY <1>1, <1>4, <2>1 DEF Exact
    <3>2. CASE t \in Inner
      <4>1. 2 * t \in Node /\ 2 * t + 1 \in Node /\ 2 * t # t /\ 2 * t + 1 # t
        BY <1>4, <3>2, Parents, Upwards
      <4>2. Over(t, 2 * t) /\ Over(t, 2 * t + 1)
        BY <3>2, Halves DEF Over
      <4>3. \A m \in Node : Over(2 * t, m) \/ Over(2 * t + 1, m) => Over(t, m) /\ m # t
        <5> SUFFICES ASSUME NEW m \in Node, Over(2 * t, m) \/ Over(2 * t + 1, m) PROVE Over(t, m) /\ m # t
          OBVIOUS
        <5>1. Over(t, m)
          BY <1>4, <4>1, <4>2, OverTransitive
        <5>2. (2 * t <= m \/ 2 * t + 1 <= m) /\ t \in Nat /\ t >= 1
          BY <1>4, OverNode, Numbers
        <5> QED  BY <5>1, <5>2
      <4>4. \A m \in Node : Over(2 * t, m) \/ Over(2 * t + 1, m) => m \notin Blocked
        BY <1>6, <4>3
      <4>5. max_available[2 * t] = node_size[2 * t] /\ max_available[2 * t + 1] = node_size[2 * t + 1]
        BY <1>1, <4>1, <4>4, FullUp
      <4>6. G[2 * t] = half(t) /\ G[2 * t + 1] = half(t)
        BY <3>1, <3>2, <4>1, <4>5, Halves
      <4>7. update(t, G[2 * t], G[2 * t + 1]) = node_size[t]
        BY <4>6 DEF update
      <4> QED  BY <3>1, <3>2, <4>7 DEF Settled
    <3>3. CASE t \notin Inner
      BY <1>4, <3>1, <3>3, Units DEF Settled
    <3> QED  BY <3>2, <3>3
  <2>4. \A n \in Node : n # t => (n \in C <=> n \in Blocked)
    BY <2>1
  <2>5. node_size[t] \in Nat
    BY <1>4
  <2>6. Exact(refreshed([max_available EXCEPT ![t] = node_size[t]], ancestors[t]), C)
    BY <1>1, <1>4, <2>1, <2>2, <2>3, <2>4, <2>5, StoreExact
  <2> QED  BY <1>11, <1>13, <2>1, <2>6 DEF ValuesInv
<1>15. TakenInv'
  <2>1. allocated' \in [Node -> Nat]
    BY <1>1, <1>11
  <2>2. ASSUME NEW n \in Taken' PROVE Fits(n)' /\ Alone(n)'
    <3>1. n \in Taken /\ n # t /\ n \in Node /\ Fits(n) /\ Alone(n)
      BY <1>1, <1>13, BlockedNodes
    <3>2. allocated'[n] = allocated[n] /\ children \subseteq children'
      BY <1>11, <1>12, <3>1
    <3>3. Fits(n)'
      BY <3>1, <3>2 DEF Fits
    <3>4. Alone(n)'
      BY <1>13, <3>1 DEF Alone
    <3> QED  BY <3>3, <3>4
  <2> QED  BY <2>1, <2>2 DEF TakenInv
<1>16. LiveInv'
  <2>1. ASSUME NEW n \in Taken, n # t PROVE BlockOf(n)' = BlockOf(n) /\ BlockOf(n) # block
    <3>1. offset[n] # offset[t]
      BY <2>1, TakenBeside
    <3>2. allocated'[n] = allocated[n]
      BY <1>12, <2>1, BlockedNodes
    <3> QED  BY <1>2, <3>1, <3>2 DEF BlockOf
  <2>2. live' = {BlockOf(n) : n \in Taken \ {t}}
    BY <1>1, <1>2, <1>10, <2>1
  <2> QED  BY <1>13, <2>1, <2>2 DEF LiveInv
<1>17. ReservedInv'
  BY <1>11 DEF BuddyInv, ReservedInv
<1>18. children' \subseteq Inner
  BY <1>1, <1>4, <1>11, Upwards
<1> QED  BY <1>11, <1>14, <1>15, <1>16, <1>17, <1>18 DEF BuddyInv

\* The nodes a range is made up of, and those it lies in.
LEMMA RangeNodes ==
  ASSUME NEW r \in Reservable, NEW n \in Node
  PROVE  /\ r.start \in Nat /\ r.end \in Nat /\ r.start < r.end /\ r.end <= SIZE
         /\ n \in touched(r) <=> /\ offset[n] < r.end /\ r.start < end(n)
                                 /\ ~(r.start <= offset[n] /\ end(n) <= r.end)
         /\ n \in whole(r) => r.start <= offset[n] /\ end(n) <= r.end /\ (n = 1 \/ n \div 2 \in touched(r))
<1>1. r.start \in Nat /\ r.end \in r.start + 1 .. SIZE /\ SIZE \in Nat
  BY BuddyAssumption
<1>2. n \in touched(r) <=> /\ offset[n] < r.end /\ r.start < end(n)
                           /\ ~(r.start <= offset[n] /\ end(n) <= r.end)
  BY DEF touched, touches, overlaps, inside
<1>3. n \in whole(r) => r.start <= offset[n] /\ end(n) <= r.end /\ (n = 1 \/ n \div 2 \in touched(r))
  BY DEF whole, inside
<1> QED  BY <1>1, <1>2, <1>3

LEMMA Touched ==
  ASSUME NEW r \in Reservable
  PROVE  /\ touched(r) \subseteq Inner
         /\ \A n \in Inner \ touched(r) : 2 * n \notin touched(r) /\ 2 * n + 1 \notin touched(r)
<1>1. ASSUME NEW n \in touched(r) PROVE n \in Inner
  <2>1. n \in Node
    BY DEF touched
  <2>2. /\ r.start \in Nat /\ r.end \in Nat /\ offset[n] < r.end /\ r.start < end(n)
        /\ ~(r.start <= offset[n] /\ end(n) <= r.end)
    BY <2>1, RangeNodes
  <2>3. offset[n] \in Nat /\ end(n) = offset[n] + node_size[n]
    BY <2>1, Sizes
  <2>4. node_size[n] # 1
    BY <2>2, <2>3
  <2> QED  BY <2>1, <2>4, Units
<1>2. ASSUME NEW n \in Inner PROVE 2 * n \in touched(r) \/ 2 * n + 1 \in touched(r) => n \in touched(r)
  <2>1. n \in Node /\ 2 * n \in Node /\ 2 * n + 1 \in Node
    BY Numbers, Parents
  <2>2. /\ offset[2 * n] = offset[n] /\ offset[2 * n + 1] = offset[n] + half(n)
        /\ end(2 * n) = offset[n] + half(n) /\ end(2 * n + 1) = end(n)
        /\ half(n) \in Nat /\ node_size[n] = 2 * half(n)
    BY Halves
  <2>3. offset[n] \in Nat /\ end(n) = offset[n] + node_size[n]
    BY <2>1, Sizes
  <2>4. /\ n \in touched(r) <=> /\ offset[n] < r.end /\ r.start < end(n)
                                /\ ~(r.start <= offset[n] /\ end(n) <= r.end)
        /\ 2 * n \in touched(r) <=> /\ offset[n] < r.end /\ r.start < offset[n] + half(n)
                                    /\ ~(r.start <= offset[n] /\ offset[n] + half(n) <= r.end)
        /\ 2 * n + 1 \in touched(r) <=> /\ offset[n] + half(n) < r.end /\ r.start < end(n)
                                        /\ ~(r.start <= offset[n] + half(n) /\ end(n) <= r.end)
        /\ r.start \in Nat /\ r.end \in Nat
    BY <2>1, <2>2, RangeNodes
  <2> QED  BY <2>2, <2>3, <2>4
<1> QED  BY <1>1, <1>2

\* What overlaps no reserved range, lies in the range and holds nothing that is
\* handed out is not blocked.
LEMMA NotBlocked ==
  ASSUME BuddyInv, booting, NEW r \in Reservable, \A q \in reserved : ~overlaps(q, r),
         NEW n \in Node, offset[n] < r.end, r.start < end(n)
  PROVE  n \notin Blocked
<1>1. Taken = {} /\ reserved \subseteq Reservable
  BY DEF BuddyInv, ReservedInv
<1>2. /\ r.start \in Nat /\ r.end \in Nat /\ r.end <= SIZE /\ SIZE \in Nat
      /\ offset[n] \in Nat /\ end(n) \in Nat /\ offset[n] < end(n)
  BY RangeNodes, RootPower, Sizes
<1>3. n \notin Outside
  BY <1>2 DEF Outside
<1>4. ASSUME NEW q \in reserved, n \in whole(q) PROVE FALSE
  <2>1. q \in Reservable
    BY <1>1
  <2>2. q.start \in Nat /\ q.end \in Nat /\ q.start <= offset[n] /\ end(n) <= q.end
    BY <1>4, <2>1, RangeNodes
  <2>3. overlaps(q, r)
    BY <1>2, <2>2 DEF overlaps
  <2> QED  BY <2>3
<1> QED  BY <1>1, <1>3, <1>4 DEF Blocked, Withheld

LEMMA ReserveInv == ASSUME BuddyInv, NEW range \in Reservable, reserve_range(range) PROVE BuddyInv'
<1>1. booting /\ \A q \in reserved : ~overlaps(q, range)
  BY DEF reserve_range
<1>2. /\ Exact(max_available, Blocked) /\ Taken = {} /\ reserved \subseteq Reservable
      /\ children \subseteq Inner
  BY <1>1 DEF BuddyInv, ValuesInv, ReservedInv
<1>3. ASSUME NEW n \in whole(range) PROVE max_available[n] = node_size[n]
  <2>1. n \in Node
    BY DEF whole
  <2>2. /\ range.start \in Nat /\ range.end \in Nat
        /\ range.start <= offset[n] /\ end(n) <= range.end
    BY <2>1, RangeNodes
  <2>3. ASSUME NEW m \in Node, Over(n, m) PROVE m \notin Blocked
    <3>1. offset[n] <= offset[m] /\ end(m) <= end(n)
      BY <2>1, <2>3, OverNode
    <3>2. /\ offset[m] \in Nat /\ end(m) \in Nat /\ offset[m] < end(m)
          /\ offset[n] \in Nat /\ end(n) \in Nat
      BY <2>1, Sizes
    <3>3. offset[m] < range.end /\ range.start < end(m)
      BY <2>2, <3>1, <3>2
    <3> QED  BY <1>1, <3>3, NotBlocked
  <2> QED  BY <1>2, <2>1, <2>3, FullUp
<1>4. PICK G : G = [n \in Node |-> IF n \in whole(range) THEN 0 ELSE max_available[n]]
  OBVIOUS
<1>5. /\ max_available' = refreshed(G, touched(range))
      /\ children' = children \cup touched(range)
      /\ reserved' = reserved \cup {range}
      /\ allocated' = allocated /\ live' = live /\ booting' = booting /\ panicked' = panicked
  BY <1>3, <1>4 DEF reserve_range
<1>6. PICK C : C = Blocked \cup whole(range)
  OBVIOUS
<1>7. Taken' = Taken /\ Outside' = Outside /\ Withheld' = Withheld \cup whole(range) /\ Blocked' = C
  <2>1. Taken' = Taken /\ Outside' = Outside
    BY <1>5 DEF Taken, Outside
  <2>2. Withheld' = Withheld \cup whole(range)
    BY <1>5 DEF Withheld
  <2> QED  BY <1>6, <2>1, <2>2 DEF Blocked
<1>8. ValuesInv'
  <2>1. G \in [Node -> Nat]
    BY <1>2, <1>4 DEF Exact
  <2>2. touched(range) \cap C = {}
    <3> SUFFICES ASSUME NEW n \in touched(range) PROVE n \notin C
      OBVIOUS
    <3>1. n \in Node
      BY DEF touched
    <3>2. /\ offset[n] < range.end /\ range.start < end(n)
          /\ ~(range.start <= offset[n] /\ end(n) <= range.end)
      BY <3>1, RangeNodes
    <3>3. n \notin Blocked
      BY <1>1, <3>1, <3>2, NotBlocked
    <3>4. n \notin whole(range)
      BY <3>1, <3>2, RangeNodes
    <3> QED  BY <1>6, <3>3, <3>4
  <2>3. ASSUME NEW n \in Node \ touched(range) PROVE Settled(G, C, n)
    <3>1. Settled(max_available, Blocked, n)
      BY <1>2 DEF Exact
    <3>2. CASE n \in whole(range)
      BY <1>4, <1>6, <3>2 DEF Settled
    <3>3. CASE n \notin whole(range) /\ n \in Inner
      <4>1. /\ 2 * n \in Node /\ 2 * n + 1 \in Node /\ 2 * n # 1 /\ 2 * n + 1 # 1
            /\ (2 * n) \div 2 = n /\ (2 * n + 1) \div 2 = n
        BY <3>3, Parents, ChildParents
      <4>2. 2 * n \notin whole(range) /\ 2 * n + 1 \notin whole(range)
        BY <4>1, RangeNodes
      <4>3. G[n] = max_available[n] /\ G[2 * n] = max_available[2 * n] /\ G[2 * n + 1] = max_available[2 * n + 1]
        BY <1>4, <3>3, <4>1, <4>2
      <4> QED  BY <1>6, <3>1, <3>3, <4>3 DEF Settled
    <3>4. CASE n \notin whole(range) /\ n \notin Inner
      BY <1>4, <1>6, <3>1, <3>4 DEF Settled
    <3> QED  BY <3>2, <3>3, <3>4
  <2>4. Exact(refreshed(G, touched(range)), C)
    BY <2>1, <2>2, <2>3, Touched, RefreshedExact
  <2> QED  BY <1>5, <1>7, <2>4 DEF ValuesInv
<1>9. TakenInv' /\ LiveInv'
  BY <1>2, <1>5, <1>7 DEF BuddyInv, TakenInv, LiveInv
<1>10. ReservedInv'
  <2>1. ASSUME NEW r \in reserved', NEW q \in reserved', r # q PROVE ~overlaps(r, q)
    <3>1. CASE r \in reserved /\ q \in reserved
      BY <2>1, <3>1 DEF BuddyInv, ReservedInv
    <3>2. CASE r \in reserved /\ q = range
      BY <1>1, <3>2
    <3>3. CASE r = range /\ q \in reserved
      BY <1>1, <3>3 DEF overlaps
    <3> QED  BY <1>5, <2>1, <3>1, <3>2, <3>3
  <2>2. reserved' \subseteq Reservable /\ booting' \in BOOLEAN /\ Taken' = {}
    BY <1>2, <1>5, <1>7 DEF BuddyInv, ReservedInv
  <2> QED  BY <2>1, <2>2 DEF ReservedInv
<1>11. children' \subseteq Inner
  BY <1>2, <1>5, Touched
<1> QED  BY <1>5, <1>8, <1>9, <1>10, <1>11 DEF BuddyInv

\* The inductive invariant of the allocator: what alloc, dealloc and
\* reserve_range leave in the tree, whatever they are asked.
THEOREM InductiveInv == Spec => []BuddyInv
<1>1. ASSUME BuddyInv, UNCHANGED vars PROVE BuddyInv'
  BY <1>1 DEF vars, BuddyInv, ValuesInv, TakenInv, LiveInv, ReservedInv, Taken, Withheld, Outside, Blocked,
              Fits, Alone, BlockOf
<1>2. ASSUME BuddyInv, [Next]_vars PROVE BuddyInv'
  <2>1. CASE \E range \in Reservable : reserve_range(range)
    BY <1>2, <2>1, ReserveInv
  <2>2. CASE \E req_size \in Requests : alloc(req_size)
    BY <1>2, <2>2, AllocInv
  <2>3. CASE \E req_size \in Requests : alloc_fails(req_size)
    BY <1>1, <1>2, <2>3 DEF alloc_fails
  <2>4. CASE \E block \in live : dealloc(block)
    BY <1>2, <2>4, DeallocInv
  <2> QED  BY <1>1, <1>2, <2>1, <2>2, <2>3, <2>4 DEF Next
<1> QED  BY <1>2, InitInv, PTL DEF Spec

-----------------------------------------------------------------------------
(* The properties.                                                         *)

LEMMA Multiple == ASSUME NEW k \in Nat, NEW s \in Nat \ {0} PROVE (k * s) % s = 0
  OBVIOUS

\* The end of a node that is handed out is that of what the block takes.
LEMMA Rounded ==
  ASSUME NEW n \in Node, NEW req \in Nat \ {0}, half(n) < req, req <= node_size[n]
  PROVE  next_power_of_two(req) = node_size[n] /\ offset[n] % node_size[n] = 0
<1>1. PICK i, L : Placed(n, i, L)
  BY Places
<1>2. i \in Nat /\ node_size[n] = power[i]
  BY <1>1 DEF Placed
<1>3. next_power_of_two(req) = node_size[n]
  BY <1>2, NextPowerIs DEF half
<1>4. PICK k, s : k = n - L /\ s = node_size[n]
  OBVIOUS
<1>5. k \in Nat /\ s \in Nat \ {0} /\ offset[n] = k * s
  BY <1>1, <1>4, Numbers, Sizes DEF Placed
<1>6. (k * s) % s = 0
  BY <1>5, Multiple
<1> QED  BY <1>3, <1>4, <1>5, <1>6

\* Every address of a range lies in a node the range is made up of.
LEMMA WholeCovers ==
  ASSUME NEW r \in Reservable, NEW x \in Nat, r.start <= x, x < r.end
  PROVE  x \in 0 .. Root - 1 /\ \E n \in whole(r) : Over(n, Unit(x))
<1>1. r.start \in Nat /\ r.end \in Nat /\ r.end <= SIZE /\ SIZE \in Nat /\ SIZE <= Root /\ Root \in Nat
  BY BuddyAssumption, RootPower
<1>2. x \in 0 .. Root - 1
  BY <1>1
<1>3. PICK u : u = Unit(x)
  OBVIOUS
<1>4. u \in Node /\ offset[u] = x /\ end(u) = x + 1
  BY <1>2, <1>3, UnitUnder
<1>5. PICK T : T = {n \in Node : Over(n, u) /\ inside(n, r)}
  OBVIOUS
<1>6. u \in T /\ T \in SUBSET Nat
  BY <1>1, <1>4, <1>5, Numbers DEF Over, inside
<1>7. PICK n \in T : \A m \in T : n <= m
  BY <1>6, LeastNumber
<1>8. n \in Node /\ Over(n, u) /\ inside(n, r)
  BY <1>5, <1>7
<1>9. ASSUME n # 1 PROVE n \div 2 \in touched(r)
  <2>1. PICK p : p = n \div 2
    OBVIOUS
  <2>2. p \in Node /\ p < n /\ p \in Nat /\ n \in Nat
    BY <1>8, <1>9, <2>1, Above, Numbers
  <2>3. Over(p, n)
    BY <1>8, <1>9, <2>1, OverParent DEF Over
  <2>4. Over(p, u)
    BY <1>4, <1>8, <2>2, <2>3, OverTransitive
  <2>5. ~inside(p, r)
    BY <1>5, <1>7, <2>2, <2>4
  <2>6. offset[p] <= x /\ x + 1 <= end(p) /\ offset[p] \in Nat /\ end(p) \in Nat
    BY <1>4, <2>2, <2>4, OverNode, Sizes
  <2>7. offset[p] < r.end /\ r.start < end(p)
    BY <1>1, <2>6
  <2> QED  BY <2>1, <2>2, <2>5, <2>7 DEF touched, touches, overlaps
<1>10. n \in whole(r)
  BY <1>8, <1>9 DEF whole
<1> QED  BY <1>2, <1>3, <1>8, <1>10

\* A node that meets a reserved range meets one that is withheld.
LEMMA MeetsWithheld ==
  ASSUME BuddyInv, NEW r \in reserved, NEW n \in Node, NEW x \in Nat,
         offset[n] <= x, x < end(n), r.start <= x, x < r.end
  PROVE  \E m \in Withheld : Over(m, n) \/ Over(n, m)
<1>1. r \in Reservable
  BY DEF BuddyInv, ReservedInv
<1>2. x \in 0 .. Root - 1
  BY <1>1, WholeCovers
<1>3. PICK m \in whole(r) : Over(m, Unit(x))
  BY <1>1, WholeCovers
<1>4. m \in Withheld /\ m \in Node
  BY <1>3 DEF Withheld, whole
<1>5. Over(n, Unit(x)) /\ Unit(x) \in Node
  BY <1>2, UnitUnder
<1> QED  BY <1>3, <1>4, <1>5, OverChain

LEMMA SeparateInv == BuddyInv => BlocksSeparate
<1> SUFFICES ASSUME BuddyInv, NEW b \in live
             PROVE  /\ b.end <= SIZE
                    /\ b.start % next_power_of_two(b.end - b.start) = 0
                    /\ \A r \in reserved : ~overlaps(b, r)
                    /\ \A other \in live \ {b} : ~overlaps(b, other)
  BY DEF BlocksSeparate
<1>1. PICK t \in Taken : b = BlockOf(t)
  BY DEF BuddyInv, LiveInv
<1>2. PICK req : req = allocated[t]
  OBVIOUS
<1>3. t \in Node /\ Fits(t) /\ Alone(t)
  BY BlockedNodes DEF BuddyInv, TakenInv
<1>4. /\ req \in Nat \ {0} /\ half(t) < req /\ req <= node_size[t] /\ offset[t] + req <= SIZE
  BY <1>2, <1>3, BuddyAssumption DEF Fits
<1>5. /\ offset[t] \in Nat /\ node_size[t] \in Nat /\ end(t) = offset[t] + node_size[t] /\ SIZE \in Nat
  BY <1>3, Sizes, RootPower
<1>6. b.start = offset[t] /\ b.end = offset[t] + req /\ b.end - b.start = req
  BY <1>1, <1>2, <1>4, <1>5 DEF BlockOf
<1>7. b.start % next_power_of_two(b.end - b.start) = 0
  BY <1>3, <1>4, <1>6, Rounded
<1>8. ASSUME NEW r \in reserved PROVE ~overlaps(b, r)
  <2>1. SUFFICES ASSUME overlaps(b, r) PROVE FALSE
    OBVIOUS
  <2>2. r \in Reservable
    BY DEF BuddyInv, ReservedInv
  <2>3. r.start \in Nat /\ r.end \in Nat /\ r.start < r.end
    BY <1>3, <2>2, RangeNodes
  <2>4. PICK x : x = IF offset[t] >= r.start THEN offset[t] ELSE r.start
    OBVIOUS
  <2>5. x \in Nat /\ offset[t] <= x /\ x < end(t) /\ r.start <= x /\ x < r.end
    BY <1>4, <1>5, <1>6, <2>1, <2>3, <2>4 DEF overlaps
  <2>6. PICK m \in Withheld : Over(m, t) \/ Over(t, m)
    BY <1>3, <2>5, MeetsWithheld
  <2> QED  BY <1>3, <2>6 DEF Alone, Blocked
<1>9. ASSUME NEW other \in live \ {b} PROVE ~overlaps(b, other)
  <2>1. PICK n \in Taken : other = BlockOf(n)
    BY DEF BuddyInv, LiveInv
  <2>2. n # t /\ n \in Node /\ Fits(n)
    BY <1>1, <2>1, BlockedNodes DEF BuddyInv, TakenInv
  <2>3. Beside(t, n)
    BY <2>2, TakenBeside
  <2>4. PICK q : q = allocated[n]
    OBVIOUS
  <2>5. /\ q \in Nat /\ q <= node_size[n] /\ offset[n] \in Nat /\ node_size[n] \in Nat
        /\ end(n) = offset[n] + node_size[n]
    BY <2>2, <2>4, Sizes, BuddyAssumption DEF Fits
  <2>6. other.start = offset[n] /\ other.end = offset[n] + q
    BY <2>1, <2>4 DEF BlockOf
  <2> QED  BY <1>4, <1>5, <1>6, <2>3, <2>5, <2>6 DEF Beside, overlaps
<1> QED  BY <1>4, <1>6, <1>7, <1>8, <1>9

\* No memory is handed out twice, none that is reserved and none beyond the end,
\* and every block is aligned: Node::alloc, Node::dealloc and
\* Node::reserve_range, in any order, for any range and any requests.
THEOREM BlocksStaySeparate == Spec => []BlocksSeparate
  BY InductiveInv, SeparateInv, PTL

LEMMA AssertionsInv == BuddyInv => AssertionsHold
<1> SUFFICES ASSUME BuddyInv PROVE AssertionsHold
  OBVIOUS
<1>1. max_available \in [Node -> 0 .. root_node_size]
  <2>1. ASSUME NEW n \in Node PROVE max_available[n] \in 0 .. root_node_size
    <3>1. max_available[n] \in Nat /\ max_available[n] <= node_size[n]
      BY Bounded DEF BuddyInv, ValuesInv
    <3>2. node_size[n] \in Nat /\ node_size[n] <= root_node_size /\ root_node_size \in Nat
      BY Sizes, RootPower DEF Root
    <3> QED  BY <3>1, <3>2
  <2> QED  BY <2>1 DEF BuddyInv, ValuesInv, Exact
<1>2. allocated \in [Node -> Requests \cup {0}]
  <2>1. ASSUME NEW n \in Node PROVE allocated[n] \in Requests \cup {0}
    BY DEF BuddyInv, TakenInv, Taken, Fits
  <2> QED  BY <2>1 DEF BuddyInv, TakenInv
<1>3. children \subseteq Node /\ reserved \subseteq Reservable /\ booting \in BOOLEAN /\ panicked \in BOOLEAN /\ ~panicked
  BY Numbers DEF BuddyInv, ReservedInv
<1>4. ASSUME NEW b \in live PROVE b.start \in 0 .. SIZE - 1 /\ b.end - b.start \in Requests
  <2>1. PICK t \in Taken : b = BlockOf(t)
    BY DEF BuddyInv, LiveInv
  <2>2. PICK req : req = allocated[t]
    OBVIOUS
  <2>3. t \in Node /\ req \in Requests /\ req \in Nat \ {0} /\ offset[t] + req <= SIZE
    BY <2>2, BlockedNodes, BuddyAssumption DEF BuddyInv, TakenInv, Fits
  <2>4. offset[t] \in Nat /\ SIZE \in Nat
    BY <2>3, Sizes, RootPower
  <2>5. b.start = offset[t] /\ b.end = offset[t] + req
    BY <2>1, <2>2 DEF BlockOf
  <2>6. b.end - b.start = req
    BY <2>3, <2>4, <2>5
  <2> QED  BY <2>3, <2>4, <2>5, <2>6
<1> QED  BY <1>1, <1>2, <1>3, <1>4 DEF AssertionsHold, TypeOK

\* No sequence of requests makes one of the allocator's assertions fail: the
\* search of alloc ends at a node that is free in all of its size, that of
\* dealloc at the node the block came from, and reserve_range meets no node
\* that is in use.
THEOREM NoAssertionFails == Spec => []AssertionsHold
  BY InductiveInv, AssertionsInv, PTL

-----------------------------------------------------------------------------
(* What can still be had.                                                  *)

LEMMA FreeNodes ==
  ASSUME BuddyInv, NEW n \in Node
  PROVE  n \in FreeBlocks <=> \A m \in Blocked : ~Over(m, n) /\ ~Over(n, m)
<1>1. offset[n] \in Nat /\ end(n) \in Nat /\ offset[n] < end(n) /\ SIZE \in Nat /\ end(n) <= Root /\ Root \in Nat
  BY Sizes, RootPower
<1>2. \A m \in Node : Beside(m, n) => ~Over(m, n) /\ ~Over(n, m)
  <2> SUFFICES ASSUME NEW m \in Node, Beside(m, n) PROVE ~Over(m, n) /\ ~Over(n, m)
    OBVIOUS
  <2>1. offset[m] \in Nat /\ end(m) \in Nat /\ offset[m] < end(m)
    BY Sizes
  <2>2. Over(m, n) => offset[m] <= offset[n] /\ end(n) <= end(m)
    BY OverNode
  <2>3. Over(n, m) => offset[n] <= offset[m] /\ end(m) <= end(n)
    BY OverNode
  <2> QED  BY <1>1, <2>1, <2>2, <2>3 DEF Beside
<1>3. ASSUME NEW t \in Taken
      PROVE  /\ BlockOf(t) \in live /\ t \in Node
             /\ Extent(BlockOf(t)) = [start |-> offset[t], end |-> end(t)]
             /\ touches(n, Extent(BlockOf(t))) <=> ~Beside(t, n)
  <2>1. PICK req : req = allocated[t]
    OBVIOUS
  <2>2. t \in Node /\ req \in Nat \ {0} /\ half(t) < req /\ req <= node_size[t]
    BY <2>1, BlockedNodes, BuddyAssumption DEF BuddyInv, TakenInv, Fits
  <2>3. offset[t] \in Nat /\ end(t) \in Nat /\ end(t) = offset[t] + node_size[t]
    BY <2>2, Sizes
  <2>4. BlockOf(t).start = offset[t] /\ BlockOf(t).end - BlockOf(t).start = req
    BY <2>1, <2>2, <2>3 DEF BlockOf
  <2>5. next_power_of_two(req) = node_size[t]
    BY <2>2, Rounded
  <2>6. Extent(BlockOf(t)) = [start |-> offset[t], end |-> end(t)]
    BY <2>3, <2>4, <2>5 DEF Extent
  <2>7. touches(n, Extent(BlockOf(t))) <=> ~Beside(t, n)
    BY <1>1, <2>3, <2>6 DEF touches, overlaps, Beside
  <2>8. BlockOf(t) \in live
    BY DEF BuddyInv, LiveInv
  <2> QED  BY <2>2, <2>6, <2>7, <2>8
<1>4. ASSUME n \in FreeBlocks, NEW m \in Blocked PROVE ~Over(m, n) /\ ~Over(n, m)
  <2>1. m \in Node /\ offset[m] \in Nat /\ end(m) \in Nat /\ offset[m] < end(m)
    BY BlockedNodes, Sizes
  <2>2. end(n) <= SIZE /\ (\A r \in reserved : ~touches(n, r)) /\ \A b \in live : ~touches(n, Extent(b))
    BY <1>4 DEF FreeBlocks
  <2>3. CASE m \in Taken
    <3>1. Beside(m, n)
      BY <1>3, <2>2, <2>3
    <3> QED  BY <1>2, <2>1, <3>1
  <2>4. CASE m \in Withheld
    <3>1. PICK r \in reserved : m \in whole(r)
      BY <2>4 DEF Withheld
    <3>2. r \in Reservable
      BY DEF BuddyInv, ReservedInv
    <3>3. r.start \in Nat /\ r.end \in Nat /\ r.start <= offset[m] /\ end(m) <= r.end
      BY <2>1, <3>1, <3>2, RangeNodes
    <3>4. ~(offset[n] < r.end /\ r.start < end(n))
      BY <2>2 DEF touches, overlaps
    <3>5. Beside(m, n)
      BY <1>1, <2>1, <3>3, <3>4 DEF Beside
    <3> QED  BY <1>2, <2>1, <3>5
  <2>5. CASE m \in Outside
    <3>1. offset[m] >= SIZE
      BY <2>5 DEF Outside
    <3>2. Beside(m, n)
      BY <1>1, <2>1, <2>2, <3>1 DEF Beside
    <3> QED  BY <1>2, <2>1, <3>2
  <2> QED  BY <2>3, <2>4, <2>5 DEF Blocked
<1>5. ASSUME \A m \in Blocked : ~Over(m, n) /\ ~Over(n, m) PROVE n \in FreeBlocks
  <2>1. end(n) <= SIZE
    <3>1. SUFFICES ASSUME ~(end(n) <= SIZE) PROVE FALSE
      OBVIOUS
    <3>2. CASE offset[n] >= SIZE
      <4>1. n \in Blocked
        BY <3>2 DEF Blocked, Outside
      <4> QED  BY <1>5, <4>1 DEF Over
    <3>3. CASE ~(offset[n] >= SIZE)
      <4>1. SIZE \in 0 .. Root - 1 /\ offset[n] <= SIZE /\ SIZE < end(n)
        BY <1>1, <3>1, <3>3
      <4>2. Unit(SIZE) \in Node /\ offset[Unit(SIZE)] = SIZE /\ Over(n, Unit(SIZE))
        BY <4>1, UnitUnder
      <4>3. Unit(SIZE) \in Blocked
        BY <1>1, <4>2 DEF Blocked, Outside
      <4> QED  BY <1>5, <4>2, <4>3
    <3> QED  BY <3>2, <3>3
  <2>2. ASSUME NEW r \in reserved PROVE ~touches(n, r)
    <3>1. SUFFICES ASSUME touches(n, r) PROVE FALSE
      OBVIOUS
    <3>2. r \in Reservable
      BY DEF BuddyInv, ReservedInv
    <3>3. r.start \in Nat /\ r.end \in Nat /\ r.start < r.end
      BY <3>2, RangeNodes
    <3>4. offset[n] < r.end /\ r.start < end(n)
      BY <3>1 DEF touches, overlaps
    <3>5. PICK x : x = IF offset[n] >= r.start THEN offset[n] ELSE r.start
      OBVIOUS
    <3>6. x \in Nat /\ offset[n] <= x /\ x < end(n) /\ r.start <= x /\ x < r.end
      BY <1>1, <3>3, <3>4, <3>5
    <3>7. PICK m \in Withheld : Over(m, n) \/ Over(n, m)
      BY <3>6, MeetsWithheld
    <3> QED  BY <1>5, <3>7 DEF Blocked
  <2>3. ASSUME NEW b \in live PROVE ~touches(n, Extent(b))
    <3>1. PICK t \in Taken : b = BlockOf(t)
      BY DEF BuddyInv, LiveInv
    <3>2. t \in Blocked /\ t \in Node
      BY BlockedNodes DEF Blocked
    <3>3. Beside(t, n)
      BY <1>5, <3>2, NestedOrBeside
    <3> QED  BY <1>3, <3>1, <3>3
  <2> QED  BY <2>1, <2>2, <2>3 DEF FreeBlocks
<1> QED  BY <1>4, <1>5

\* What a node has, the ones above it have too, if none of them is blocked.
LEMMA HadAbove ==
  ASSUME NEW A, NEW B, Exact(A, B), NEW t \in Node, \A m \in ancestors[t] : m \notin B
  PROVE  A[1] >= A[t]
<1> DEFINE N == {n \in Node : Over(n, t) => A[n] >= A[t]}
<1>1. \A n \in Node : A[n] \in Nat
  BY DEF Exact
<1>2. ASSUME NEW n \in 1 .. 2 * Root - 1, \A m \in n + 1 .. 2 * Root - 1 : m \in N PROVE n \in N
  <2>1. n \in Node
    BY Parents
  <2>2. SUFFICES ASSUME Over(n, t) PROVE A[n] >= A[t]
    BY <2>1
  <2>3. CASE n = t
    BY <1>1, <2>3
  <2>4. CASE n # t
    <3>1. n \in Inner /\ n \notin B /\ (Over(2 * n, t) \/ Over(2 * n + 1, t))
      BY <2>2, <2>4, OverNode DEF Over
    <3>2. 2 * n \in N /\ 2 * n + 1 \in N
      <4>1. n \in Nat /\ n >= 1 /\ 2 * n \in Node /\ 2 * n + 1 \in Node
        BY <3>1, Numbers, Parents
      <4>2. 2 * n \in n + 1 .. 2 * Root - 1 /\ 2 * n + 1 \in n + 1 .. 2 * Root - 1
        BY <4>1, Parents
      <4> QED  BY <1>2, <4>2
    <3>3. A[2 * n] >= A[t] \/ A[2 * n + 1] >= A[t]
      BY <3>1, <3>2
    <3>4. /\ A[2 * n] \in Nat /\ A[2 * n + 1] \in Nat /\ half(n) \in Nat /\ half(n) < node_size[n]
          /\ node_size[n] = 2 * half(n)
          /\ \/ A[2 * n] = half(n) /\ A[2 * n + 1] = half(n) /\ A[n] = node_size[n]
             \/ A[n] = IF A[2 * n] >= A[2 * n + 1] THEN A[2 * n] ELSE A[2 * n + 1]
      BY <3>1, HalfValues, Halves
    <3> QED  BY <1>1, <2>1, <3>3, <3>4
  <2> QED  BY <2>3, <2>4
<1>3. N \in SUBSET (1 .. 2 * Root - 1) /\ 2 * Root - 1 \in Nat
  BY Parents, RootPower
<1> HIDE DEF N
<1>4. \A n \in 1 .. 2 * Root - 1 : n \in N
  BY <1>2, <1>3, DownInduction
<1>5. 1 \in N
  BY <1>4, Parents
<1> QED  BY <1>5, OverRoot DEF N

LEMMA Greatest ==
  ASSUME NEW S \in SUBSET Int, NEW x \in S, \A y \in S : x >= y
  PROVE  Max(S) = x
<1>1. PICK z : z = Max(S)
  OBVIOUS
<1>2. z \in S /\ \A y \in S : z >= y
  BY <1>1 DEF Max
<1> QED  BY <1>1, <1>2

LEMMA FullInv == BuddyInv => FailsOnlyWhenFull
<1> SUFFICES ASSUME BuddyInv PROVE FailsOnlyWhenFull
  OBVIOUS
<1>1. Exact(max_available, Blocked)
  BY DEF BuddyInv, ValuesInv
<1>2. PICK a : a = max_available[1]
  OBVIOUS
<1>3. a \in Nat
  BY <1>1, <1>2, Parents DEF Exact
<1>4. ASSUME NEW n \in FreeBlocks PROVE node_size[n] \in Nat /\ a >= node_size[n]
  <2>1. n \in Node
    BY DEF FreeBlocks
  <2>2. \A m \in Blocked : ~Over(m, n) /\ ~Over(n, m)
    BY <2>1, FreeNodes
  <2>3. max_available[n] = node_size[n]
    BY <1>1, <2>1, <2>2, FullUp
  <2>4. \A m \in ancestors[n] : m \notin Blocked
    BY <2>2 DEF Over
  <2> QED  BY <1>1, <1>2, <2>1, <2>3, <2>4, HadAbove, Sizes
<1>5. ASSUME a # 0 PROVE \E n \in FreeBlocks : node_size[n] = a
  <2>1. PICK t : t = alloc_target(a)
    OBVIOUS
  <2>2. a \in Nat \ {0}
    BY <1>3, <1>5
  <2>3. Reaches(max_available, a, 1, t)
    BY <1>1, <1>2, <1>3, <2>1, <2>2, AllocFinds
  <2>4. t \in Node /\ a > half(t) /\ max_available[t] >= a
    BY <2>3 DEF Reaches
  <2>5. max_available[t] = node_size[t] /\ a <= node_size[t] /\ node_size[t] \in Nat
    <3>1. half(t) \in Nat
      BY <2>4, Halves, Units
    <3>2. max_available[t] \in Nat /\ (max_available[t] > half(t) => max_available[t] = node_size[t])
      BY <1>1, <2>4, Bounded
    <3> QED  BY <2>2, <2>4, <3>1, <3>2
  <2>6. ASSUME NEW m \in Blocked PROVE ~Over(m, t) /\ ~Over(t, m)
    <3>1. m \in Node /\ max_available[m] = 0
      BY <1>1, BlockedNodes, BlockedEmpty
    <3>2. ~Over(t, m)
      BY <1>1, <2>4, <2>5, <3>1, FullDown
    <3>3. m \in ancestors[t] => max_available[m] >= a
      BY <2>3, <3>1, OverRoot DEF Reaches
    <3>4. m \notin ancestors[t]
      BY <2>2, <3>1, <3>3
    <3> QED  BY <3>2, <3>4 DEF Over
  <2>7. t \in FreeBlocks
    BY <2>4, <2>6, FreeNodes
  <2>8. a >= node_size[t]
    BY <1>4, <2>7
  <2> QED  BY <1>3, <2>5, <2>7, <2>8
<1>6. PICK S : S = {0} \cup {node_size[n] : n \in FreeBlocks}
  OBVIOUS
<1>7. S \in SUBSET Int /\ a \in S /\ \A y \in S : a >= y
  BY <1>3, <1>4, <1>5, <1>6
<1>8. Max(S) = a
  BY <1>7, Greatest
<1> QED  BY <1>2, <1>6, <1>8 DEF FailsOnlyWhenFull

\* A request is refused only when no free block is large enough: what
\* Node::update stores at the root on the way back from alloc and dealloc is
\* the largest of the aligned blocks that nothing taken overlaps, so that freed
\* buddies have been merged, and nothing that could be given is lost.
THEOREM RequestsFailOnlyWhenFull == Spec => []FailsOnlyWhenFull
  BY InductiveInv, FullInv, PTL

-----------------------------------------------------------------------------
(* Sums over finite sets.                                                  *)

LEMMA OneLess ==
  ASSUME NEW s, IsFiniteSet(s), NEW x \in s
  PROVE  /\ Cardinality(s) \in Nat /\ IsFiniteSet(s \ {x}) /\ Cardinality(s \ {x}) \in Nat
         /\ Cardinality(s) = Cardinality(s \ {x}) + 1
<1>1. IsFiniteSet(s \ {x}) /\ Cardinality(s \ {x}) = Cardinality(s) - 1
  BY FS_RemoveElement
<1>2. Cardinality(s) \in Nat /\ Cardinality(s \ {x}) \in Nat
  BY <1>1, FS_CardinalityType
<1> QED  BY <1>1, <1>2

LEMMA SubsetInduction ==
  ASSUME NEW S, IsFiniteSet(S), NEW Q, {} \in Q,
         \A s \in SUBSET S, x \in S : s \in Q /\ x \notin s => s \cup {x} \in Q
  PROVE  \A s \in SUBSET S : s \in Q
<1> DEFINE N == {k \in Nat : \A s \in SUBSET S : Cardinality(s) = k => s \in Q}
<1>1. \A s \in SUBSET S : IsFiniteSet(s) /\ Cardinality(s) \in Nat /\ (Cardinality(s) = 0 <=> s = {})
  BY FS_Subset, FS_CardinalityType, FS_EmptySet
<1>2. 0 \in N
  BY <1>1
<1>3. ASSUME NEW k \in N PROVE k + 1 \in N
  <2>1. ASSUME NEW s \in SUBSET S, Cardinality(s) = k + 1 PROVE s \in Q
    <3>1. k \in Nat /\ k + 1 # 0
      OBVIOUS
    <3>2. PICK x : x \in s
      BY <1>1, <2>1, <3>1
    <3>3. PICK t : t = s \ {x}
      OBVIOUS
    <3>4. t \in SUBSET S /\ x \in S /\ x \notin t /\ s = t \cup {x}
      BY <3>2, <3>3
    <3>5. Cardinality(t) = k
      <4>1. Cardinality(t) \in Nat /\ Cardinality(s) = Cardinality(t) + 1
        BY <1>1, <3>2, <3>3, OneLess
      <4> QED  BY <2>1, <3>1, <4>1
    <3> QED  BY <3>4, <3>5
  <2> QED  BY <2>1
<1>4. N \in SUBSET Nat
  OBVIOUS
<1> HIDE DEF N
<1>5. \A k \in Nat : k \in N
  BY <1>2, <1>3, <1>4, SetInduction
<1> QED  BY <1>1, <1>5 DEF N

\* The function g adds up w over the subsets of S, in any order.
Adds(g, w, S) ==
  /\ g \in [SUBSET S -> Nat] /\ g[{}] = 0
  /\ \A s \in SUBSET S, x \in S : x \notin s => g[s \cup {x}] = w[x] + g[s]

TotalOf(w, S) == MapThenSumSet(LAMBDA x : w[x], S)

\* What the recursion of MapThenSumSet computes when it takes elements away in
\* the order of c.
Takes(h, c, w, S) ==
  \A s \in SUBSET S : h[s] = IF s = {} THEN 0 ELSE w[c[s]] + h[s \ {c[s]}]

LEMMA AnyOrder ==
  ASSUME NEW S, IsFiniteSet(S), NEW w, w \in [S -> Nat], NEW c, \A s \in SUBSET S : s # {} => c[s] \in s,
         NEW h, Takes(h, c, w, S), h = [s \in SUBSET S |-> h[s]]
  PROVE  Adds(h, w, S)
<1> DEFINE Right(s) == h[s] \in Nat /\ \A x \in s : h[s] = w[x] + h[s \ {x}]
           N == {k \in Nat : \A s \in SUBSET S : Cardinality(s) <= k => Right(s)}
<1>1. \A s \in SUBSET S : IsFiniteSet(s) /\ Cardinality(s) \in Nat /\ (Cardinality(s) = 0 <=> s = {})
  BY FS_Subset, FS_CardinalityType, FS_EmptySet
<1>2. h[{}] = 0
  BY DEF Takes
<1>0. ASSUME NEW k \in N, NEW s \in SUBSET S, Cardinality(s) <= k PROVE Right(s)
  <2> HIDE DEF Right
  <2> QED  BY <1>0
<1>3. 0 \in N
  <2>1. \A s \in SUBSET S : Cardinality(s) <= 0 => s = {}
    BY <1>1
  <2>2. Right({})
    BY <1>2
  <2> QED  BY <2>1, <2>2
<1>4. ASSUME NEW k \in N PROVE k + 1 \in N
  <2>1. ASSUME NEW s \in SUBSET S, Cardinality(s) = k + 1 PROVE Right(s)
    <3>1. k \in Nat /\ k + 1 # 0 /\ s # {}
      BY <1>1, <2>1
    <3>2. PICK y : y = c[s]
      OBVIOUS
    <3>3. y \in s /\ h[s] = w[y] + h[s \ {y}]
      BY <3>1, <3>2 DEF Takes
    <3>4. ASSUME NEW x \in s
          PROVE  s \ {x} \in SUBSET S /\ Cardinality(s \ {x}) = k /\ Right(s \ {x}) /\ w[x] \in Nat
      <4>1. s \ {x} \in SUBSET S /\ x \in S
        OBVIOUS
      <4>2. Cardinality(s \ {x}) = k
        <5>1. Cardinality(s \ {x}) \in Nat /\ Cardinality(s) = Cardinality(s \ {x}) + 1
          BY <1>1, OneLess
        <5> QED  BY <2>1, <3>1, <5>1
      <4>3. Right(s \ {x})
        <5>1. Cardinality(s \ {x}) <= k
          BY <3>1, <4>2
        <5> QED  BY <1>0, <4>1, <5>1
      <4> QED  BY <4>1, <4>2, <4>3
    <3>5. h[s] \in Nat
      <4>1. h[s \ {y}] \in Nat /\ w[y] \in Nat
        BY <3>3, <3>4
      <4> QED  BY <3>3, <4>1
    <3>6. ASSUME NEW x \in s, x # y PROVE h[s] = w[x] + h[s \ {x}]
      <4>1. PICK a, b, r : a = s \ {x} /\ b = s \ {y} /\ r = (s \ {x}) \ {y}
        OBVIOUS
      <4>2. Right(a) /\ Right(b) /\ w[x] \in Nat /\ w[y] \in Nat /\ b \in SUBSET S /\ Cardinality(b) = k
        BY <3>3, <3>4, <4>1
      <4>3. y \in a /\ x \in b /\ a \ {y} = r /\ b \ {x} = r /\ r \in SUBSET S
        BY <3>3, <3>6, <4>1
      <4>4. h[a] = w[y] + h[r] /\ h[b] = w[x] + h[r]
        BY <4>2, <4>3
      <4>5. h[s] = w[y] + h[b]
        BY <3>3, <4>1
      <4>6. Right(r)
        <5>1. Cardinality(r) \in Nat /\ Cardinality(b) = Cardinality(r) + 1
          BY <1>1, <4>2, <4>3, OneLess
        <5>2. Cardinality(r) <= k
          BY <3>1, <4>2, <5>1
        <5> QED  BY <1>0, <4>3, <5>2
      <4>7. PICK i, j, m, u, v : i = h[a] /\ j = h[b] /\ m = h[r] /\ u = w[x] /\ v = w[y]
        OBVIOUS
      <4>8. m \in Nat /\ u \in Nat /\ v \in Nat /\ i = v + m /\ j = u + m /\ h[s] = v + j
        BY <4>2, <4>4, <4>5, <4>6, <4>7
      <4>9. h[s] = u + i
        BY <4>8
      <4> QED  BY <4>1, <4>7, <4>9
    <3> QED  BY <3>3, <3>5, <3>6
  <2>2. ASSUME NEW s \in SUBSET S, Cardinality(s) <= k + 1 PROVE Right(s)
    <3>1. k \in Nat /\ (Cardinality(s) <= k \/ Cardinality(s) = k + 1)
      BY <1>1, <2>2
    <3>2. CASE Cardinality(s) <= k
      BY <1>0, <3>2
    <3> QED  BY <2>1, <2>2, <3>1, <3>2
  <2>3. k + 1 \in Nat
    OBVIOUS
  <2> HIDE DEF Right
  <2> QED  BY <2>2, <2>3
<1>5. N \in SUBSET Nat
  OBVIOUS
<1>6. \A s \in SUBSET S : Right(s)
  <2> HIDE DEF N
  <2>1. \A k \in Nat : k \in N
    BY <1>3, <1>4, <1>5, SetInduction
  <2>2. ASSUME NEW s \in SUBSET S PROVE Right(s)
    <3>1. Cardinality(s) \in Nat /\ Cardinality(s) <= Cardinality(s)
      BY <1>1
    <3> QED  BY <2>1, <3>1 DEF N
  <2> QED  BY <2>2
<1>7. h \in [SUBSET S -> Nat]
  BY <1>6
<1>8. ASSUME NEW s \in SUBSET S, NEW x \in S, x \notin s PROVE h[s \cup {x}] = w[x] + h[s]
  <2>1. PICK t : t = s \cup {x}
    OBVIOUS
  <2>2. t \in SUBSET S /\ x \in t /\ t \ {x} = s
    BY <1>8, <2>1
  <2>3. \A y \in t : h[t] = w[y] + h[t \ {y}]
    BY <1>6, <2>2
  <2> QED  BY <2>1, <2>2, <2>3
<1> QED  BY <1>2, <1>7, <1>8 DEF Adds

LEMMA TotalIs ==
  ASSUME NEW S, IsFiniteSet(S), NEW w, w \in [S -> Nat]
  PROVE  \E g : Adds(g, w, S) /\ TotalOf(w, S) = g[S]
<1>1. PICK c : c = [s \in SUBSET S |-> CHOOSE x \in s : TRUE]
  OBVIOUS
<1>2. \A s \in SUBSET S : s # {} => c[s] \in s /\ c[s] = CHOOSE x \in s : TRUE
  BY <1>1
<1>3. PICK D : D = SUBSET S
  OBVIOUS
<1> DEFINE value(h, s) == IF s = {} THEN 0 ELSE w[c[s]] + h[s \ {c[s]}]
           F == [h \in [D -> Nat] |-> [s \in D |-> value(h, s)]]
           rank == [s \in D |-> Cardinality(s)]
<1>4. \A s \in D : /\ IsFiniteSet(s) /\ Cardinality(s) \in 0 .. Cardinality(S)
                   /\ s # {} => /\ s \ {c[s]} \in D /\ Cardinality(s \ {c[s]}) < Cardinality(s)
                                /\ w[c[s]] \in Nat
  <2> SUFFICES ASSUME NEW s \in D
               PROVE  /\ IsFiniteSet(s) /\ Cardinality(s) \in 0 .. Cardinality(S)
                      /\ s # {} => /\ s \ {c[s]} \in D /\ Cardinality(s \ {c[s]}) < Cardinality(s)
                                   /\ w[c[s]] \in Nat
    OBVIOUS
  <2>1. s \in SUBSET S
    BY <1>3
  <2>2. IsFiniteSet(s) /\ Cardinality(s) <= Cardinality(S) /\ Cardinality(s) \in Nat /\ Cardinality(S) \in Nat
    BY <2>1, FS_Subset, FS_CardinalityType
  <2>3. ASSUME s # {} PROVE s \ {c[s]} \in D /\ Cardinality(s \ {c[s]}) < Cardinality(s) /\ w[c[s]] \in Nat
    <3>1. c[s] \in s
      BY <1>2, <2>1, <2>3
    <3>2. Cardinality(s \ {c[s]}) < Cardinality(s)
      <4>1. Cardinality(s \ {c[s]}) \in Nat /\ Cardinality(s) = Cardinality(s \ {c[s]}) + 1
        BY <2>2, <3>1, OneLess
      <4> QED  BY <4>1
    <3> QED  BY <1>3, <2>1, <2>2, <3>1, <3>2
  <2> QED  BY <2>2, <2>3
<1>5. F \in [[D -> Nat] -> [D -> Nat]]
  <2>1. ASSUME NEW h \in [D -> Nat], NEW s \in D PROVE value(h, s) \in Nat
    <3>1. CASE s # {}
      <4>1. PICK m : m = s \ {c[s]}
        OBVIOUS
      <4>2. m \in D /\ w[c[s]] \in Nat
        BY <1>4, <3>1, <4>1
      <4>3. h[m] \in Nat
        BY <4>2
      <4> QED  BY <3>1, <4>1, <4>2, <4>3
    <3> QED  BY <3>1
  <2> HIDE DEF value
  <2> QED  BY <2>1
<1>6. Determined(F, D, Nat, rank)
  <2> SUFFICES ASSUME NEW f \in [D -> Nat], NEW g \in [D -> Nat], NEW n \in D,
                      \A m \in D : rank[m] < rank[n] => f[m] = g[m]
               PROVE  F[f][n] = F[g][n]
    BY DEF Determined
  <2>1. CASE n = {}
    BY <2>1
  <2>2. CASE n # {}
    <3>1. PICK m : m = n \ {c[n]}
      OBVIOUS
    <3>2. m \in D /\ rank[m] < rank[n]
      BY <1>4, <2>2, <3>1
    <3>3. f[m] = g[m]
      BY <3>2
    <3> QED  BY <2>2, <3>1, <3>3
  <2> QED  BY <2>1, <2>2
<1>7. PICK g : IsFixedPoint(g, F, D, Nat)
  <2>1. PICK K : K = Cardinality(S)
    OBVIOUS
  <2>2. K \in Nat /\ 0 \in Nat
    BY <2>1, FS_CardinalityType
  <2>3. rank \in [D -> 0 .. K]
    BY <1>4, <2>1
  <2> HIDE DEF F, rank
  <2> QED  BY <1>5, <1>6, <2>2, <2>3, FixedPoint
<1>8. PICK h : h = CHOOSE f : f = [s \in SUBSET S |-> IF s = {} THEN 0
                                                    ELSE w[CHOOSE x \in s : TRUE] + f[s \ {CHOOSE x \in s : TRUE}]]
  OBVIOUS
<1>9. TotalOf(w, S) = h[S]
  BY <1>8 DEF TotalOf, MapThenSumSet, MapThenFoldSet
<1>10. \A f : [s \in SUBSET S |-> IF s = {} THEN 0
                                  ELSE w[CHOOSE x \in s : TRUE] + f[s \ {CHOOSE x \in s : TRUE}]]
                = [s \in D |-> value(f, s)]
  <2> SUFFICES ASSUME NEW f
               PROVE  [s \in SUBSET S |-> IF s = {} THEN 0
                                         ELSE w[CHOOSE x \in s : TRUE] + f[s \ {CHOOSE x \in s : TRUE}]]
                        = [s \in D |-> value(f, s)]
    OBVIOUS
  <2> DEFINE first(s) == CHOOSE x \in s : TRUE
             taking(s) == IF s = {} THEN 0 ELSE w[first(s)] + f[s \ {first(s)}]
  <2>1. ASSUME NEW s \in SUBSET S PROVE taking(s) = value(f, s)
    <3>1. CASE s # {}
      <4>1. first(s) = c[s]
        BY <1>2, <3>1
      <4> HIDE DEF first
      <4> QED  BY <3>1, <4>1
    <3> HIDE DEF first
    <3> QED  BY <3>1
  <2>2. [s \in SUBSET S |-> taking(s)] = [s \in D |-> value(f, s)]
    <3> HIDE DEF taking, value
    <3> QED  BY <1>3, <2>1
  <2> QED  BY <2>2
<1>11. g = [s \in D |-> value(g, s)]
  BY <1>7 DEF IsFixedPoint
<1>12. h = [s \in D |-> value(h, s)]
  <2>1. h = CHOOSE f : f = [s \in D |-> value(f, s)]
    <3> HIDE DEF value
    <3> QED  BY <1>8, <1>10, Zenon
  <2> HIDE DEF value
  <2> QED  BY <1>11, <2>1
<1>13. \A s \in D : h[s] = value(h, s)
  <2> HIDE DEF value
  <2> QED  BY <1>12
<1>14. h = [s \in D |-> h[s]]
  <2> HIDE DEF value
  <2> QED  BY <1>12, <1>13
<1>15. Takes(h, c, w, S) /\ h = [s \in SUBSET S |-> h[s]]
  BY <1>3, <1>13, <1>14 DEF Takes
<1>16. Adds(h, w, S)
  BY <1>2, <1>15, AnyOrder
<1> QED  BY <1>9, <1>16

LEMMA TotalZero ==
  ASSUME NEW S, IsFiniteSet(S), NEW w, w \in [S -> Nat], \A x \in S : w[x] = 0
  PROVE  TotalOf(w, S) = 0
<1>1. PICK g : Adds(g, w, S) /\ TotalOf(w, S) = g[S]
  BY TotalIs
<1> DEFINE Q == {s \in SUBSET S : g[s] = 0}
<1>2. {} \in Q
  BY <1>1 DEF Adds
<1>3. \A s \in SUBSET S, x \in S : s \in Q /\ x \notin s => s \cup {x} \in Q
  BY <1>1 DEF Adds
<1> HIDE DEF Q
<1>4. S \in Q
  BY <1>2, <1>3, SubsetInduction
<1> QED  BY <1>1, <1>4 DEF Q

\* Only one element counts.
LEMMA TotalOne ==
  ASSUME NEW S, IsFiniteSet(S), NEW w, w \in [S -> Nat], NEW z \in S, \A x \in S : x # z => w[x] = 0
  PROVE  TotalOf(w, S) = w[z]
<1>1. PICK g : Adds(g, w, S) /\ TotalOf(w, S) = g[S]
  BY TotalIs
<1> DEFINE Q == {s \in SUBSET S : g[s] = IF z \in s THEN w[z] ELSE 0}
<1>2. {} \in Q
  BY <1>1 DEF Adds
<1>3. ASSUME NEW s \in SUBSET S, NEW x \in S, s \in Q, x \notin s PROVE s \cup {x} \in Q
  <2>1. PICK t : t = s \cup {x}
    OBVIOUS
  <2>2. g[t] = w[x] + g[s] /\ t \in SUBSET S /\ g[s] = IF z \in s THEN w[z] ELSE 0
    BY <1>1, <1>3, <2>1 DEF Adds
  <2>3. w[x] \in Nat /\ w[z] \in Nat
    OBVIOUS
  <2>4. CASE x = z
    BY <1>3, <2>1, <2>2, <2>3, <2>4
  <2>5. CASE x # z
    BY <2>1, <2>2, <2>3, <2>5
  <2> QED  BY <2>1, <2>4, <2>5
<1> HIDE DEF Q
<1>4. S \in Q
  BY <1>2, <1>3, SubsetInduction
<1> QED  BY <1>1, <1>4 DEF Q

LEMMA TotalSum ==
  ASSUME NEW S, IsFiniteSet(S), NEW u, u \in [S -> Nat], NEW v, v \in [S -> Nat], NEW w, w \in [S -> Nat],
         \A x \in S : w[x] = u[x] + v[x]
  PROVE  TotalOf(w, S) = TotalOf(u, S) + TotalOf(v, S) /\ TotalOf(u, S) \in Nat /\ TotalOf(v, S) \in Nat
<1>1. PICK f : Adds(f, u, S) /\ TotalOf(u, S) = f[S]
  BY TotalIs
<1>2. PICK g : Adds(g, v, S) /\ TotalOf(v, S) = g[S]
  BY TotalIs
<1>3. PICK h : Adds(h, w, S) /\ TotalOf(w, S) = h[S]
  BY TotalIs
<1>4. f \in [SUBSET S -> Nat] /\ g \in [SUBSET S -> Nat]
  BY <1>1, <1>2 DEF Adds
<1> DEFINE Q == {s \in SUBSET S : h[s] = f[s] + g[s]}
<1>5. {} \in Q
  BY <1>1, <1>2, <1>3 DEF Adds
<1>6. ASSUME NEW s \in SUBSET S, NEW x \in S, s \in Q, x \notin s PROVE s \cup {x} \in Q
  <2>1. PICK t : t = s \cup {x}
    OBVIOUS
  <2>2. f[t] = u[x] + f[s] /\ g[t] = v[x] + g[s] /\ h[t] = w[x] + h[s] /\ h[s] = f[s] + g[s]
    BY <1>1, <1>2, <1>3, <1>6, <2>1 DEF Adds
  <2>3. f[s] \in Nat /\ g[s] \in Nat /\ u[x] \in Nat /\ v[x] \in Nat /\ w[x] = u[x] + v[x]
    BY <1>4
  <2>4. h[t] = f[t] + g[t]
    BY <2>2, <2>3
  <2> QED  BY <2>1, <2>4
<1> HIDE DEF Q
<1>7. S \in Q
  BY <1>5, <1>6, SubsetInduction
<1>8. h[S] = f[S] + g[S] /\ f[S] \in Nat /\ g[S] \in Nat
  BY <1>4, <1>7 DEF Q
<1> QED  BY <1>1, <1>2, <1>3, <1>8

\* The bytes of some ranges.
Bytes(S) == MapThenSumSet(LAMBDA r : r.end - r.start, S)

LEMMA BytesAre ==
  ASSUME NEW S, NEW w, \A x \in S : w[x] = x.end - x.start
  PROVE  Bytes(S) = TotalOf(w, S)
<1> DEFINE first(s) == CHOOSE x \in s : TRUE
           one(f, s) == IF s = {} THEN 0 ELSE (first(s).end - first(s).start) + f[s \ {first(s)}]
           two(f, s) == IF s = {} THEN 0 ELSE w[first(s)] + f[s \ {first(s)}]
<1>1. Bytes(S) = (CHOOSE f : f = [s \in SUBSET S |-> one(f, s)])[S]
  BY DEF Bytes, MapThenSumSet, MapThenFoldSet
<1>2. TotalOf(w, S) = (CHOOSE f : f = [s \in SUBSET S |-> two(f, s)])[S]
  BY DEF TotalOf, MapThenSumSet, MapThenFoldSet
<1>3. \A f : [s \in SUBSET S |-> one(f, s)] = [s \in SUBSET S |-> two(f, s)]
  <2> SUFFICES ASSUME NEW f PROVE [s \in SUBSET S |-> one(f, s)] = [s \in SUBSET S |-> two(f, s)]
    OBVIOUS
  <2>1. ASSUME NEW s \in SUBSET S PROVE one(f, s) = two(f, s)
    <3>1. CASE s # {}
      <4>1. first(s) \in S
        BY <3>1
      <4> HIDE DEF first
      <4> QED  BY <3>1, <4>1
    <3> HIDE DEF first
    <3> QED  BY <3>1
  <2> HIDE DEF one, two
  <2> QED  BY <2>1
<1>4. (CHOOSE f : f = [s \in SUBSET S |-> one(f, s)]) = (CHOOSE f : f = [s \in SUBSET S |-> two(f, s)])
  <2> HIDE DEF one, two
  <2> QED  BY <1>3, Zenon
<1> HIDE DEF one, two
<1> QED  BY <1>1, <1>2, <1>4

-----------------------------------------------------------------------------
(* What a node and a range of addresses have in common.                    *)

Low(n, e) == IF offset[n] >= e.start THEN offset[n] ELSE e.start
High(n, e) == IF end(n) <= e.end THEN end(n) ELSE e.end
Common(n, e) == IF Low(n, e) < High(n, e) THEN High(n, e) - Low(n, e) ELSE 0

LEMMA CommonIs ==
  ASSUME NEW n \in Node, NEW e, e.start \in Nat, e.end \in Nat
  PROVE  /\ Common(n, e) \in Nat
         /\ e.end <= offset[n] \/ end(n) <= e.start => Common(n, e) = 0
         /\ e.start <= offset[n] /\ end(n) <= e.end => Common(n, e) = node_size[n]
         /\ offset[n] <= e.start /\ e.start <= e.end /\ e.end <= end(n) => Common(n, e) = e.end - e.start
<1>1. PICK a, b, s, t : a = offset[n] /\ b = end(n) /\ s = e.start /\ t = e.end
  OBVIOUS
<1>2. /\ a \in Nat /\ b \in Nat /\ s \in Nat /\ t \in Nat /\ a < b /\ node_size[n] = b - a
  BY <1>1, Sizes
<1>3. Low(n, e) = (IF a >= s THEN a ELSE s) /\ High(n, e) = (IF b <= t THEN b ELSE t)
  BY <1>1 DEF Low, High
<1>4. PICK l, h : l = Low(n, e) /\ h = High(n, e)
  OBVIOUS
<1>5. Common(n, e) = IF l < h THEN h - l ELSE 0
  BY <1>4 DEF Common
<1> QED  BY <1>1, <1>2, <1>3, <1>4, <1>5

LEMMA CommonSplit ==
  ASSUME NEW n \in Inner, NEW e, e.start \in Nat, e.end \in Nat
  PROVE  Common(n, e) = Common(2 * n, e) + Common(2 * n + 1, e)
<1>1. PICK a, b, s, t, d : a = offset[n] /\ b = end(n) /\ s = e.start /\ t = e.end /\ d = half(n)
  OBVIOUS
<1>2. /\ a \in Nat /\ b \in Nat /\ s \in Nat /\ t \in Nat /\ d \in Nat /\ b = a + 2 * d
  BY <1>1, Sizes, Halves, Numbers
<1>3. /\ offset[2 * n] = a /\ end(2 * n) = a + d /\ offset[2 * n + 1] = a + d /\ end(2 * n + 1) = b
  BY <1>1, Halves
<1>4. PICK l1, h1, l2, h2, l, h :
        /\ l = Low(n, e) /\ h = High(n, e)
        /\ l1 = Low(2 * n, e) /\ h1 = High(2 * n, e) /\ l2 = Low(2 * n + 1, e) /\ h2 = High(2 * n + 1, e)
  OBVIOUS
<1>5. /\ l = (IF a >= s THEN a ELSE s) /\ h = (IF b <= t THEN b ELSE t)
      /\ l1 = (IF a >= s THEN a ELSE s) /\ h1 = (IF a + d <= t THEN a + d ELSE t)
      /\ l2 = (IF a + d >= s THEN a + d ELSE s) /\ h2 = (IF b <= t THEN b ELSE t)
  BY <1>1, <1>3, <1>4 DEF Low, High
<1>6. /\ Common(n, e) = (IF l < h THEN h - l ELSE 0)
      /\ Common(2 * n, e) = (IF l1 < h1 THEN h1 - l1 ELSE 0)
      /\ Common(2 * n + 1, e) = (IF l2 < h2 THEN h2 - l2 ELSE 0)
  BY <1>4 DEF Common
<1> QED  BY <1>2, <1>5, <1>6

LEMMA SizeSplit == \A n \in Inner : size_in(n) = size_in(2 * n) + size_in(2 * n + 1)
<1> SUFFICES ASSUME NEW n \in Inner PROVE size_in(n) = size_in(2 * n) + size_in(2 * n + 1)
  OBVIOUS
<1>1. n \in Node /\ 2 * n \in Node /\ 2 * n + 1 \in Node
  BY Numbers, Parents
<1>2. PICK e : e = [start |-> 0, end |-> SIZE]
  OBVIOUS
<1>3. e.start = 0 /\ e.end = SIZE /\ SIZE \in Nat /\ e.start \in Nat /\ e.end \in Nat
  BY <1>2, RootPower
<1>4. ASSUME NEW m \in Node PROVE size_in(m) = Common(m, e)
  <2>1. PICK a, s : a = SIZE - offset[m] /\ s = node_size[m]
    OBVIOUS
  <2>2. offset[m] \in Nat /\ s \in Nat \ {0} /\ a \in Int /\ end(m) = offset[m] + s
    BY <1>3, <2>1, Sizes
  <2>3. PICK q : q = IF a <= s THEN a ELSE s
    OBVIOUS
  <2>4. a \in Int /\ s \in Int /\ q \in Int
    BY <2>2, <2>3
  <2>9. Min({a, s}) = q /\ Max({0, q}) = IF 0 >= q THEN 0 ELSE q
    BY <2>3, <2>4, Maximum
  <2>5. size_in(m) = IF 0 >= q THEN 0 ELSE q
    BY <2>1, <2>9 DEF size_in
  <2>6. Low(m, e) = offset[m] /\ High(m, e) = IF end(m) <= SIZE THEN end(m) ELSE SIZE
    BY <1>3, <2>2 DEF Low, High
  <2>7. PICK h : h = High(m, e)
    OBVIOUS
  <2>8. Common(m, e) = IF offset[m] < h THEN h - offset[m] ELSE 0
    BY <2>6, <2>7 DEF Common
  <2> QED  BY <1>3, <2>1, <2>2, <2>3, <2>4, <2>5, <2>6, <2>7, <2>8
<1> QED  BY <1>1, <1>3, <1>4, CommonSplit

-----------------------------------------------------------------------------
(* What Node::stats computes.                                              *)

Count == [alloc : Nat, free : Nat]
Both(l, r) == [alloc |-> l.alloc + r.alloc, free |-> l.free + r.free]

Counts(f) ==
  /\ f \in [Node -> Count]
  /\ \A n \in Node : f[n] = IF allocated[n] # 0 THEN [alloc |-> allocated[n], free |-> 0]
                            ELSE IF n \in children THEN Both(f[2 * n], f[2 * n + 1])
                            ELSE [alloc |-> 0, free |-> max_available[n]]

LEMMA StatsCount ==
  ASSUME children \subseteq Inner, allocated \in [Node -> Nat], max_available \in [Node -> Nat]
  PROVE  \E f : Counts(f) /\ stats = f[1]
<1> DEFINE value(f, n) == IF allocated[n] # 0 THEN [alloc |-> allocated[n], free |-> 0]
                          ELSE IF n \in children THEN Both(f[2 * n], f[2 * n + 1])
                          ELSE [alloc |-> 0, free |-> max_available[n]]
           S == [f \in [Node -> Count] |-> [n \in Node |-> value(f, n)]]
<1>1. \A n \in children : 2 * n \in Node /\ 2 * n + 1 \in Node /\ 2 * n > n /\ 2 * n + 1 > n
  BY Parents, Numbers
<1>2. ASSUME NEW f \in [Node -> Count], NEW n \in Node PROVE value(f, n) \in Count
  <2>1. CASE n \in children /\ allocated[n] = 0
    <3>1. f[2 * n] \in Count /\ f[2 * n + 1] \in Count
      BY <1>1, <2>1
    <3>2. Both(f[2 * n], f[2 * n + 1]) \in Count
      BY <3>1 DEF Count, Both
    <3> QED  BY <2>1, <3>2
  <2>2. CASE ~(n \in children /\ allocated[n] = 0)
    BY <2>2 DEF Count
  <2> QED  BY <2>1, <2>2
<1>3. S \in [[Node -> Count] -> [Node -> Count]]
  <2> HIDE DEF value
  <2> QED  BY <1>2
<1>4. BottomUp(S, Count)
  <2> SUFFICES ASSUME NEW f \in [Node -> Count], NEW g \in [Node -> Count], NEW n \in Node,
                      \A m \in Node : m > n => f[m] = g[m]
               PROVE  S[f][n] = S[g][n]
    BY DEF BottomUp
  <2>1. CASE n \in children
    <3>1. f[2 * n] = g[2 * n] /\ f[2 * n + 1] = g[2 * n + 1]
      BY <1>1, <2>1
    <3> QED  BY <3>1
  <2>2. CASE n \notin children
    BY <2>2
  <2> QED  BY <2>1, <2>2
<1>5. PICK f : IsFixedPoint(f, S, Node, Count)
  <2> HIDE DEF S
  <2>1. PICK V, b : V = Count /\ b = [alloc |-> 0, free |-> 0]
    OBVIOUS
  <2>2. b \in V
    BY <2>1 DEF Count
  <2> QED  BY <1>3, <1>4, <2>1, <2>2, FromBelow
<1>6. PICK g : g = CHOOSE h : h = [n \in Node |->
        IF allocated[n] # 0 THEN [alloc |-> allocated[n], free |-> 0]
        ELSE IF n \in children
        THEN LET left == h[2 * n]
                 right == h[2 * n + 1]
             IN  [alloc |-> left.alloc + right.alloc, free |-> left.free + right.free]
        ELSE [alloc |-> 0, free |-> max_available[n]]]
  OBVIOUS
<1>7. stats = g[1]
  BY <1>6 DEF stats
<1>8. g = CHOOSE h : h = [n \in Node |-> value(h, n)]
  BY <1>6 DEF Both
<1>9. f = [n \in Node |-> value(f, n)]
  BY <1>5 DEF IsFixedPoint
<1>10. g = [n \in Node |-> value(g, n)]
  <2> HIDE DEF value
  <2> QED  BY <1>8, <1>9
<1>11. \A n \in Node : g[n] = value(g, n)
  <2> HIDE DEF value
  <2> QED  BY <1>10
<1>12. \A n \in Node : g[n] \in Count
  <2> DEFINE N == {n \in Node : g[n] \in Count}
  <2>1. ASSUME NEW n \in 1 .. 2 * Root - 1, \A m \in n + 1 .. 2 * Root - 1 : m \in N PROVE n \in N
    <3>1. n \in Node
      BY Parents
    <3>2. CASE n \in children
      <4>1. 2 * n \in n + 1 .. 2 * Root - 1 /\ 2 * n + 1 \in n + 1 .. 2 * Root - 1
        <5>1. 2 * n \in Node /\ 2 * n + 1 \in Node /\ 2 * n > n /\ 2 * n + 1 > n
          BY <1>1, <3>2
        <5> QED  BY <5>1, Parents
      <4>2. g[2 * n] \in Count /\ g[2 * n + 1] \in Count
        BY <2>1, <4>1
      <4>3. Both(g[2 * n], g[2 * n + 1]) \in Count
        BY <4>2 DEF Count, Both
      <4>4. CASE allocated[n] = 0
        BY <1>11, <3>1, <3>2, <4>3, <4>4
      <4>5. CASE allocated[n] # 0
        <5>1. g[n] = [alloc |-> allocated[n], free |-> 0]
          BY <1>11, <3>1, <4>5
        <5>2. allocated[n] \in Nat
          BY <3>1
        <5> QED  BY <3>1, <5>1, <5>2 DEF Count
      <4> QED  BY <4>4, <4>5
    <3>3. CASE n \notin children
      <4>1. \/ g[n] = [alloc |-> allocated[n], free |-> 0]
            \/ g[n] = [alloc |-> 0, free |-> max_available[n]]
        BY <1>11, <3>1, <3>3
      <4>2. allocated[n] \in Nat /\ max_available[n] \in Nat
        BY <3>1
      <4> QED  BY <3>1, <4>1, <4>2 DEF Count
    <3> QED  BY <3>2, <3>3
  <2>2. N \in SUBSET (1 .. 2 * Root - 1) /\ 2 * Root - 1 \in Nat
    BY Parents, RootPower
  <2> HIDE DEF N
  <2>3. \A n \in 1 .. 2 * Root - 1 : n \in N
    BY <2>1, <2>2, DownInduction
  <2> QED  BY <2>3, Parents DEF N
<1>13. g = [n \in Node |-> g[n]]
  <2> HIDE DEF value
  <2> QED  BY <1>10, <1>11
<1>14. Counts(g)
  BY <1>11, <1>12, <1>13 DEF Counts
<1> QED  BY <1>7, <1>14

-----------------------------------------------------------------------------
(* Which nodes have children.                                              *)

\* Those a reserved range or the end of the range cuts through have, those that
\* are withheld or outside have not.
ChildrenInv ==
  /\ IsFiniteSet(reserved) /\ cut \subseteq children
  /\ \A r \in reserved : touched(r) \subseteq children
  /\ children \cap (Withheld \cup Outside) = {}
  /\ booting => children \subseteq cut \cup UNION {touched(r) : r \in reserved}

LEMMA ChildrenInit == Init => ChildrenInv
<1> SUFFICES ASSUME Init PROVE ChildrenInv
  OBVIOUS
<1>1. reserved = {} /\ children = cut
  BY DEF Init
<1>2. Withheld = {} /\ IsFiniteSet(reserved)
  BY <1>1, FS_EmptySet DEF Withheld
<1>3. ASSUME NEW n \in cut, n \in Outside PROVE FALSE
  <2>1. n \in Node /\ offset[n] >= SIZE /\ offset[n] < SIZE /\ offset[n] \in Nat /\ SIZE \in Nat
    BY <1>3, SizeIn, Sizes, RootPower DEF Outside
  <2> QED  BY <2>1
<1> QED  BY <1>1, <1>2, <1>3 DEF ChildrenInv

\* A step of alloc or dealloc that gives children to nodes that can have some.
LEMMA StoreChildren ==
  ASSUME ChildrenInv, reserved' = reserved, NEW t, ancestors[t] \cap (Withheld \cup Outside) = {},
         children' = children \cup ancestors[t], booting' = FALSE
  PROVE  ChildrenInv'
<1>1. Withheld' = Withheld /\ Outside' = Outside
  BY DEF Withheld, Outside
<1>2. IsFiniteSet(reserved)' /\ (cut \subseteq children)'
  BY DEF ChildrenInv
<1> QED  BY <1>1, <1>2 DEF ChildrenInv

LEMMA PanicChildren == ASSUME ChildrenInv, panic PROVE ChildrenInv'
<1>1. reserved' = reserved /\ children' = children /\ booting' = booting
  BY DEF panic
<1> QED  BY <1>1 DEF ChildrenInv, Withheld, Outside

LEMMA AllocChildren ==
  ASSUME BuddyInv, ChildrenInv, NEW req \in Requests, alloc(req)
  PROVE  ChildrenInv'
<1>1. PICK t : t = alloc_target(req)
  OBVIOUS
<1>2. panic \/ store(t, taken(t), recorded(t, req))
  BY <1>1 DEF alloc
<1>3. CASE store(t, taken(t), recorded(t, req))
  <2>1. req <= max_available[1]
    BY DEF alloc
  <2>2. \A m \in Blocked : ~Over(m, t)
    BY <1>1, <2>1, AllocFree
  <2>3. ancestors[t] \cap (Withheld \cup Outside) = {}
    BY <2>2 DEF Over, Blocked
  <2> QED  BY <1>3, <2>3, StoreChildren DEF store
<1> QED  BY <1>2, <1>3, PanicChildren

LEMMA DeallocChildren ==
  ASSUME BuddyInv, ChildrenInv, NEW block \in live, dealloc(block)
  PROVE  ChildrenInv'
<1>1. /\ allocated \in [Node -> Nat] /\ children \subseteq Inner
      /\ \A n \in Taken : Fits(n)
      /\ live = {BlockOf(n) : n \in Taken}
  BY DEF BuddyInv, TakenInv, LiveInv
<1>2. PICK t \in Taken : block = BlockOf(t)
  BY <1>1
<1>3. PICK req : req = allocated[t]
  OBVIOUS
<1>4. t \in Node /\ req \in Nat /\ offset[t] \in Nat
  BY <1>1, <1>3, BlockedNodes, Sizes
<1>5. half(t) < req /\ req <= node_size[t] /\ ancestors[t] \subseteq children
  BY <1>1, <1>3 DEF Fits
<1>6. block.start = offset[t] /\ block.end - block.start = req
  BY <1>2, <1>3, <1>4 DEF BlockOf
<1>7. dealloc_target(block.start, block.end - block.start) = t
  BY <1>1, <1>4, <1>5, <1>6, DeallocFinds
<1>8. panic \/ store(t, node_size[t], 0)
  BY <1>7 DEF dealloc
<1>9. CASE store(t, node_size[t], 0)
  <2>1. ancestors[t] \cap (Withheld \cup Outside) = {}
    BY <1>5 DEF ChildrenInv
  <2> QED  BY <1>9, <2>1, StoreChildren DEF store
<1> QED  BY <1>8, <1>9, PanicChildren

LEMMA ReserveChildren ==
  ASSUME BuddyInv, ChildrenInv, NEW range \in Reservable, reserve_range(range)
  PROVE  ChildrenInv'
<1>1. booting /\ \A q \in reserved : ~overlaps(q, range)
  BY DEF reserve_range
<1>2. panic \/ (/\ children' = children \cup touched(range) /\ reserved' = reserved \cup {range}
                /\ booting' = booting)
  BY DEF reserve_range
<1>3. CASE /\ children' = children \cup touched(range) /\ reserved' = reserved \cup {range}
           /\ booting' = booting
  <2>1. Outside' = Outside /\ Withheld' = Withheld \cup whole(range)
    BY <1>3 DEF Outside, Withheld
  <2>2. IsFiniteSet(reserved')
    BY <1>3, FS_AddElement DEF ChildrenInv
  <2>3. cut \subseteq children' /\ \A r \in reserved' : touched(r) \subseteq children'
    BY <1>3 DEF ChildrenInv
  <2>4. ASSUME NEW n \in touched(range) PROVE n \notin Withheld \cup Outside \cup whole(range)
    <3>1. n \in Node
      BY DEF touched
    <3>2. /\ offset[n] < range.end /\ range.start < end(n)
          /\ ~(range.start <= offset[n] /\ end(n) <= range.end)
      BY <3>1, RangeNodes
    <3>3. n \notin Blocked
      BY <1>1, <3>1, <3>2, NotBlocked
    <3>4. n \notin whole(range)
      BY <3>1, <3>2, RangeNodes
    <3> QED  BY <3>3, <3>4 DEF Blocked
  <2>5. ASSUME NEW n \in children, n \in whole(range) PROVE FALSE
    <3>1. n \in Node /\ offset[n] \in Nat /\ end(n) \in Nat /\ offset[n] < end(n) /\ SIZE \in Nat
      BY <2>5, Sizes, RootPower DEF whole
    <3>2. /\ range.start \in Nat /\ range.end \in Nat /\ range.end <= SIZE
          /\ range.start <= offset[n] /\ end(n) <= range.end
      BY <2>5, <3>1, RangeNodes
    <3>3. n \notin cut
      BY <3>1, <3>2, SizeIn
    <3>4. PICK q \in reserved : n \in touched(q)
      BY <1>1, <3>3 DEF ChildrenInv
    <3>5. q \in Reservable
      BY DEF BuddyInv, ReservedInv
    <3>6. q.start \in Nat /\ q.end \in Nat /\ offset[n] < q.end /\ q.start < end(n)
      BY <3>1, <3>4, <3>5, RangeNodes
    <3>7. overlaps(q, range)
      BY <3>1, <3>2, <3>6 DEF overlaps
    <3> QED  BY <1>1, <3>7
  <2>6. children' \cap (Withheld \cup Outside \cup whole(range)) = {}
    BY <1>3, <2>4, <2>5 DEF ChildrenInv
  <2>7. booting' => children' \subseteq cut \cup UNION {touched(r) : r \in reserved'}
    BY <1>1, <1>3 DEF ChildrenInv
  <2> QED  BY <2>1, <2>2, <2>3, <2>6, <2>7 DEF ChildrenInv
<1> QED  BY <1>2, <1>3, PanicChildren

\* What Node::stats relies on, whatever alloc, dealloc and reserve_range are asked:
\* get_children() has been called for every node that a reserved range or the end
\* of the range cuts through, and for none that gives nothing for good.
THEOREM ChildrenInductive == Spec => []ChildrenInv
<1>1. ASSUME ChildrenInv, UNCHANGED vars PROVE ChildrenInv'
  BY <1>1 DEF vars, ChildrenInv, Withheld, Outside
<1>2. ASSUME BuddyInv, ChildrenInv, [Next]_vars PROVE ChildrenInv'
  <2>1. CASE \E range \in Reservable : reserve_range(range)
    BY <1>2, <2>1, ReserveChildren
  <2>2. CASE \E req_size \in Requests : alloc(req_size)
    BY <1>2, <2>2, AllocChildren
  <2>3. CASE \E req_size \in Requests : alloc_fails(req_size)
    BY <1>1, <1>2, <2>3 DEF alloc_fails
  <2>4. CASE \E block \in live : dealloc(block)
    BY <1>2, <2>4, DeallocChildren
  <2> QED  BY <1>1, <1>2, <2>1, <2>2, <2>3, <2>4 DEF Next
<1> QED  BY <1>2, ChildrenInit, InductiveInv, PTL DEF Spec

-----------------------------------------------------------------------------
(* What stats reports.                                                     *)

NodeRange(m) == [start |-> offset[m], end |-> end(m)]
Extents == {Extent(b) : b \in live}

LEMMA ExtentsAre == BuddyInv => Extents = {NodeRange(m) : m \in Taken}
<1> SUFFICES ASSUME BuddyInv PROVE Extents = {NodeRange(m) : m \in Taken}
  OBVIOUS
<1>1. live = {BlockOf(m) : m \in Taken} /\ \A m \in Taken : Fits(m)
  BY DEF BuddyInv, LiveInv, TakenInv
<1>2. ASSUME NEW m \in Taken PROVE Extent(BlockOf(m)) = NodeRange(m)
  <2>1. PICK req : req = allocated[m]
    OBVIOUS
  <2>2. m \in Node /\ req \in Nat \ {0} /\ half(m) < req /\ req <= node_size[m]
    BY <1>1, <2>1, BlockedNodes, BuddyAssumption DEF Fits
  <2>3. next_power_of_two(req) = node_size[m]
    BY <2>2, Rounded
  <2>4. offset[m] \in Nat /\ end(m) = offset[m] + node_size[m]
    BY <2>2, Sizes
  <2>5. BlockOf(m).start = offset[m] /\ BlockOf(m).end - BlockOf(m).start = req
    BY <2>1, <2>2, <2>4 DEF BlockOf
  <2> QED  BY <2>3, <2>4, <2>5 DEF Extent, NodeRange
<1> QED  BY <1>1, <1>2 DEF Extents

\* A block begins in a node.
Has(n, b) == offset[n] <= b.start /\ b.start < end(n)

OfReserved(n) == [r \in reserved |-> Common(n, r)]
OfExtents(n) == [e \in Extents |-> Common(n, e)]
OfLive(n) == [b \in live |-> IF Has(n, b) THEN b.end - b.start ELSE 0]

\* What is counted in a node is what is there.
Accounted(f, n) ==
  /\ f[n].free + TotalOf(OfReserved(n), reserved) + TotalOf(OfExtents(n), Extents) = size_in(n)
  /\ f[n].alloc = TotalOf(OfLive(n), live)

LEMMA CountTypes ==
  ASSUME BuddyInv, ChildrenInv
  PROVE  /\ IsFiniteSet(reserved) /\ IsFiniteSet(Extents) /\ IsFiniteSet(live)
         /\ \A r \in reserved : r.start \in Nat /\ r.end \in Nat /\ r.end <= SIZE /\ r.start < r.end
         /\ \A e \in Extents : e.start \in Nat /\ e.end \in Nat /\ e.start < e.end /\ e.end <= Root
         /\ \A b \in live : b.start \in Nat /\ b.end - b.start \in Nat /\ b.start < Root
         /\ \A n \in Node : /\ OfReserved(n) \in [reserved -> Nat] /\ OfExtents(n) \in [Extents -> Nat]
                            /\ OfLive(n) \in [live -> Nat]
<1>1. /\ live = {BlockOf(m) : m \in Taken} /\ Extents = {NodeRange(m) : m \in Taken}
      /\ \A m \in Taken : Fits(m)
  BY ExtentsAre DEF BuddyInv, LiveInv, TakenInv
<1>2. IsFiniteSet(Taken)
  <2>1. IsFiniteSet(1 .. 2 * Root - 1)
    BY RootPower, FS_Interval
  <2>2. Taken \subseteq 1 .. 2 * Root - 1
    BY Parents, BlockedNodes
  <2> QED  BY <2>1, <2>2, FS_Subset
<1>3. IsFiniteSet(live) /\ IsFiniteSet(Extents)
  <2>1. PICK T, F, G : T = Taken /\ F = [m \in Taken |-> BlockOf(m)] /\ G = [m \in Taken |-> NodeRange(m)]
    OBVIOUS
  <2>2. live = {F[m] : m \in T} /\ Extents = {G[m] : m \in T} /\ IsFiniteSet(T)
    BY <1>1, <1>2, <2>1
  <2>3. F \in [T -> live] /\ G \in [T -> Extents]
    BY <1>1, <2>1
  <2>4. F \in Surjection(T, live) /\ G \in Surjection(T, Extents)
    BY <2>2, <2>3 DEF Surjection
  <2> QED  BY <2>2, <2>4, FS_Surjection
<1>4. \A r \in reserved : r.start \in Nat /\ r.end \in Nat /\ r.end <= SIZE /\ r.start < r.end
  <2>1. reserved \subseteq Reservable
    BY DEF BuddyInv, ReservedInv
  <2> QED  BY <2>1, BuddyAssumption
<1>5. \A e \in Extents : e.start \in Nat /\ e.end \in Nat /\ e.start < e.end /\ e.end <= Root
  <2>1. ASSUME NEW m \in Taken
        PROVE  /\ NodeRange(m).start \in Nat /\ NodeRange(m).end \in Nat
               /\ NodeRange(m).start < NodeRange(m).end /\ NodeRange(m).end <= Root
    BY BlockedNodes, Sizes DEF NodeRange
  <2> QED  BY <1>1, <2>1
<1>6. \A b \in live : b.start \in Nat /\ b.end - b.start \in Nat /\ b.start < Root
  <2>1. ASSUME NEW m \in Taken
        PROVE  BlockOf(m).start \in Nat /\ BlockOf(m).end - BlockOf(m).start \in Nat /\ BlockOf(m).start < Root
    <3>1. PICK req : req = allocated[m]
      OBVIOUS
    <3>2. req \in Nat \ {0} /\ m \in Node
      BY <1>1, <3>1, BuddyAssumption, BlockedNodes DEF Fits
    <3>3. offset[m] \in Nat /\ end(m) \in Nat /\ offset[m] < end(m) /\ end(m) <= Root /\ Root \in Nat
      BY <3>2, Sizes, RootPower
    <3>4. BlockOf(m).start = offset[m] /\ BlockOf(m).end = offset[m] + req
      BY <3>1 DEF BlockOf
    <3> QED  BY <3>2, <3>3, <3>4
  <2> QED  BY <1>1, <2>1
<1>7. ASSUME NEW n \in Node
      PROVE  OfReserved(n) \in [reserved -> Nat] /\ OfExtents(n) \in [Extents -> Nat] /\ OfLive(n) \in [live -> Nat]
  <2>1. OfReserved(n) \in [reserved -> Nat] /\ OfExtents(n) \in [Extents -> Nat]
    BY <1>4, <1>5, CommonIs DEF OfReserved, OfExtents
  <2>2. OfLive(n) \in [live -> Nat]
    BY <1>6 DEF OfLive
  <2> QED  BY <2>1, <2>2
<1>8. IsFiniteSet(reserved)
  BY DEF ChildrenInv
<1> QED  BY <1>3, <1>4, <1>5, <1>6, <1>7, <1>8

\* The halves of a node are counted together.
LEMMA CountSplit ==
  ASSUME BuddyInv, ChildrenInv, NEW f \in [Node -> Count], NEW n \in Inner,
         f[n] = Both(f[2 * n], f[2 * n + 1]), Accounted(f, 2 * n), Accounted(f, 2 * n + 1)
  PROVE  Accounted(f, n)
<1>1. n \in Node /\ 2 * n \in Node /\ 2 * n + 1 \in Node
  BY Numbers, Parents
<1>2. /\ TotalOf(OfReserved(n), reserved)
           = TotalOf(OfReserved(2 * n), reserved) + TotalOf(OfReserved(2 * n + 1), reserved)
      /\ TotalOf(OfReserved(2 * n), reserved) \in Nat /\ TotalOf(OfReserved(2 * n + 1), reserved) \in Nat
  <2>1. ASSUME NEW r \in reserved PROVE OfReserved(n)[r] = OfReserved(2 * n)[r] + OfReserved(2 * n + 1)[r]
    <3>1. r.start \in Nat /\ r.end \in Nat
      BY CountTypes
    <3>2. Common(n, r) = Common(2 * n, r) + Common(2 * n + 1, r)
      BY <3>1, CommonSplit
    <3> QED  BY <3>2 DEF OfReserved
  <2>2. PICK u, v, w : u = OfReserved(2 * n) /\ v = OfReserved(2 * n + 1) /\ w = OfReserved(n)
    OBVIOUS
  <2>3. /\ u \in [reserved -> Nat] /\ v \in [reserved -> Nat] /\ w \in [reserved -> Nat]
        /\ IsFiniteSet(reserved) /\ \A r \in reserved : w[r] = u[r] + v[r]
    BY <1>1, <2>1, <2>2, CountTypes
  <2>4. TotalOf(w, reserved) = TotalOf(u, reserved) + TotalOf(v, reserved)
        /\ TotalOf(u, reserved) \in Nat /\ TotalOf(v, reserved) \in Nat
    BY <2>3, TotalSum
  <2> QED  BY <2>2, <2>4
<1>3. /\ TotalOf(OfExtents(n), Extents)
           = TotalOf(OfExtents(2 * n), Extents) + TotalOf(OfExtents(2 * n + 1), Extents)
      /\ TotalOf(OfExtents(2 * n), Extents) \in Nat /\ TotalOf(OfExtents(2 * n + 1), Extents) \in Nat
  <2>1. ASSUME NEW e \in Extents PROVE OfExtents(n)[e] = OfExtents(2 * n)[e] + OfExtents(2 * n + 1)[e]
    <3>1. e.start \in Nat /\ e.end \in Nat
      BY CountTypes
    <3>2. Common(n, e) = Common(2 * n, e) + Common(2 * n + 1, e)
      BY <3>1, CommonSplit
    <3> QED  BY <3>2 DEF OfExtents
  <2>2. PICK u, v, w, E : u = OfExtents(2 * n) /\ v = OfExtents(2 * n + 1) /\ w = OfExtents(n) /\ E = Extents
    OBVIOUS
  <2>3. /\ u \in [E -> Nat] /\ v \in [E -> Nat] /\ w \in [E -> Nat]
        /\ IsFiniteSet(E) /\ \A e \in E : w[e] = u[e] + v[e]
    BY <1>1, <2>1, <2>2, CountTypes
  <2>4. TotalOf(w, E) = TotalOf(u, E) + TotalOf(v, E) /\ TotalOf(u, E) \in Nat /\ TotalOf(v, E) \in Nat
    BY <2>3, TotalSum
  <2> QED  BY <2>2, <2>4
<1>4. /\ TotalOf(OfLive(n), live) = TotalOf(OfLive(2 * n), live) + TotalOf(OfLive(2 * n + 1), live)
  <2>1. ASSUME NEW b \in live PROVE OfLive(n)[b] = OfLive(2 * n)[b] + OfLive(2 * n + 1)[b]
    <3>1. b.start \in Nat /\ b.end - b.start \in Nat
      BY CountTypes
    <3>2. /\ offset[2 * n] = offset[n] /\ end(2 * n) = offset[n] + half(n)
          /\ offset[2 * n + 1] = offset[n] + half(n) /\ end(2 * n + 1) = end(n)
          /\ half(n) \in Nat /\ offset[n] \in Nat /\ end(n) = offset[n] + 2 * half(n)
      BY <1>1, Halves, Sizes
    <3>3. Has(n, b) <=> Has(2 * n, b) \/ Has(2 * n + 1, b)
      BY <3>1, <3>2 DEF Has
    <3>4. ~(Has(2 * n, b) /\ Has(2 * n + 1, b))
      BY <3>1, <3>2 DEF Has
    <3>5. PICK d : d = b.end - b.start
      OBVIOUS
    <3>6. /\ OfLive(n)[b] = (IF Has(n, b) THEN d ELSE 0)
          /\ OfLive(2 * n)[b] = (IF Has(2 * n, b) THEN d ELSE 0)
          /\ OfLive(2 * n + 1)[b] = (IF Has(2 * n + 1, b) THEN d ELSE 0)
      BY <3>5 DEF OfLive
    <3> QED  BY <3>1, <3>3, <3>4, <3>5, <3>6
  <2>2. PICK u, v, w : u = OfLive(2 * n) /\ v = OfLive(2 * n + 1) /\ w = OfLive(n)
    OBVIOUS
  <2>3. /\ u \in [live -> Nat] /\ v \in [live -> Nat] /\ w \in [live -> Nat]
        /\ IsFiniteSet(live) /\ \A b \in live : w[b] = u[b] + v[b]
    BY <1>1, <2>1, <2>2, CountTypes
  <2>4. TotalOf(w, live) = TotalOf(u, live) + TotalOf(v, live)
    BY <2>3, TotalSum
  <2> QED  BY <2>2, <2>4
<1>5. /\ f[2 * n].free \in Nat /\ f[2 * n + 1].free \in Nat
      /\ f[n].free = f[2 * n].free + f[2 * n + 1].free
      /\ f[n].alloc = f[2 * n].alloc + f[2 * n + 1].alloc
  <2>1. f[2 * n] \in Count /\ f[2 * n + 1] \in Count
    BY <1>1
  <2> QED  BY <2>1 DEF Both, Count
<1>6. PICK a, b, c, d, x, y : /\ a = TotalOf(OfReserved(2 * n), reserved) /\ b = TotalOf(OfReserved(2 * n + 1), reserved)
                              /\ c = TotalOf(OfExtents(2 * n), Extents) /\ d = TotalOf(OfExtents(2 * n + 1), Extents)
                              /\ x = f[2 * n].free /\ y = f[2 * n + 1].free
  OBVIOUS
<1>7. /\ a \in Nat /\ b \in Nat /\ c \in Nat /\ d \in Nat /\ x \in Nat /\ y \in Nat
      /\ x + a + c = size_in(2 * n) /\ y + b + d = size_in(2 * n + 1)
  BY <1>2, <1>3, <1>5, <1>6 DEF Accounted
<1>8. size_in(n) = size_in(2 * n) + size_in(2 * n + 1)
  BY SizeSplit
<1>9. (x + y) + (a + b) + (c + d) = size_in(n)
  BY <1>7, <1>8
<1> QED  BY <1>2, <1>3, <1>4, <1>5, <1>6, <1>9 DEF Accounted

\* A node has nothing in common with a reserved range none of whose nodes it
\* lies in or holds,
LEMMA ReservedApart ==
  ASSUME NEW r \in Reservable, NEW n \in Node, \A m \in whole(r) : ~Over(m, n) /\ ~Over(n, m)
  PROVE  Common(n, r) = 0
<1>1. PICK a, b, s, t : a = offset[n] /\ b = end(n) /\ s = r.start /\ t = r.end
  OBVIOUS
<1>2. a \in Nat /\ b \in Nat /\ a < b /\ s \in Nat /\ t \in Nat /\ s < t
  BY <1>1, Sizes, RangeNodes
<1>3. SUFFICES ASSUME ~(t <= a) /\ ~(b <= s) PROVE FALSE
  BY <1>1, <1>2, CommonIs
<1>4. PICK x : x = IF a >= s THEN a ELSE s
  OBVIOUS
<1>5. x \in Nat /\ a <= x /\ x < b /\ s <= x /\ x < t
  BY <1>2, <1>3, <1>4
<1>6. x \in 0 .. Root - 1 /\ \E m \in whole(r) : Over(m, Unit(x))
  BY <1>1, <1>5, WholeCovers
<1>7. PICK m \in whole(r) : Over(m, Unit(x))
  BY <1>6
<1>8. Over(n, Unit(x)) /\ Unit(x) \in Node /\ m \in Node
  BY <1>1, <1>5, <1>6, UnitUnder DEF whole
<1> QED  BY <1>7, <1>8, OverChain

\* nor with a block beside it.
LEMMA ExtentApart ==
  ASSUME NEW m \in Node, NEW n \in Node, Beside(m, n)
  PROVE  Common(n, NodeRange(m)) = 0 /\ ~Has(n, BlockOf(m))
<1>1. /\ offset[m] \in Nat /\ end(m) \in Nat /\ offset[m] < end(m)
      /\ offset[n] \in Nat /\ end(n) \in Nat /\ offset[n] < end(n)
  BY Sizes
<1>2. NodeRange(m).start = offset[m] /\ NodeRange(m).end = end(m) /\ BlockOf(m).start = offset[m]
  BY DEF NodeRange, BlockOf
<1>3. Common(n, NodeRange(m)) = 0
  BY <1>1, <1>2, CommonIs DEF Beside
<1> QED  BY <1>1, <1>2, <1>3 DEF Beside, Has

LEMMA NoneReserved ==
  ASSUME BuddyInv, ChildrenInv, NEW n \in Node, \A m \in Withheld : ~Over(m, n) /\ ~Over(n, m)
  PROVE  TotalOf(OfReserved(n), reserved) = 0
<1>1. ASSUME NEW r \in reserved PROVE OfReserved(n)[r] = 0
  <2>1. r \in Reservable /\ \A m \in whole(r) : m \in Withheld
    BY DEF BuddyInv, ReservedInv, Withheld
  <2> QED  BY <2>1, ReservedApart DEF OfReserved
<1>2. PICK w : w = OfReserved(n)
  OBVIOUS
<1>3. w \in [reserved -> Nat] /\ IsFiniteSet(reserved) /\ \A r \in reserved : w[r] = 0
  BY <1>1, <1>2, CountTypes
<1> QED  BY <1>2, <1>3, TotalZero

LEMMA NoneTaken ==
  ASSUME BuddyInv, ChildrenInv, NEW n \in Node, \A m \in Taken : ~Over(m, n) /\ ~Over(n, m)
  PROVE  TotalOf(OfExtents(n), Extents) = 0 /\ TotalOf(OfLive(n), live) = 0
<1>1. ASSUME NEW m \in Taken PROVE Common(n, NodeRange(m)) = 0 /\ ~Has(n, BlockOf(m))
  <2>1. m \in Node /\ Beside(m, n)
    BY BlockedNodes, NestedOrBeside
  <2> QED  BY <2>1, ExtentApart
<1>2. live = {BlockOf(m) : m \in Taken} /\ Extents = {NodeRange(m) : m \in Taken}
  BY ExtentsAre DEF BuddyInv, LiveInv
<1>3. PICK u, v, E : u = OfExtents(n) /\ v = OfLive(n) /\ E = Extents
  OBVIOUS
<1>4. /\ u \in [E -> Nat] /\ v \in [live -> Nat] /\ IsFiniteSet(E) /\ IsFiniteSet(live)
  BY <1>3, CountTypes
<1>5. \A e \in E : u[e] = 0
  BY <1>1, <1>2, <1>3 DEF OfExtents
<1>6. \A b \in live : v[b] = 0
  BY <1>1, <1>2, <1>3 DEF OfLive
<1> QED  BY <1>3, <1>4, <1>5, <1>6, TotalZero

\* A node that is handed out,
LEMMA CountTaken ==
  ASSUME BuddyInv, ChildrenInv, NEW n \in Taken, NEW f, f[n] = [alloc |-> allocated[n], free |-> 0]
  PROVE  Accounted(f, n)
<1>1. /\ n \in Node /\ Fits(n) /\ n \notin Withheld \cup Outside
      /\ \A m \in Blocked : m # n => ~Over(m, n) /\ ~Over(n, m)
  BY BlockedNodes DEF BuddyInv, TakenInv, Alone
<1>2. TotalOf(OfReserved(n), reserved) = 0
  <2>1. \A m \in Withheld : ~Over(m, n) /\ ~Over(n, m)
    BY <1>1 DEF Blocked
  <2> QED  BY <1>1, <2>1, NoneReserved
<1>3. live = {BlockOf(m) : m \in Taken} /\ Extents = {NodeRange(m) : m \in Taken}
  BY ExtentsAre DEF BuddyInv, LiveInv
<1>4. ASSUME NEW m \in Taken, m # n PROVE Common(n, NodeRange(m)) = 0 /\ ~Has(n, BlockOf(m))
  <2>1. m \in Node /\ Beside(m, n)
    BY <1>4, TakenBeside, BlockedNodes
  <2> QED  BY <1>1, <2>1, ExtentApart
<1>5. Common(n, NodeRange(n)) = node_size[n]
  <2>1. NodeRange(n).start = offset[n] /\ NodeRange(n).end = end(n)
    BY DEF NodeRange
  <2>2. offset[n] \in Nat /\ end(n) \in Nat
    BY <1>1, Sizes
  <2> QED  BY <1>1, <2>1, <2>2, CommonIs
<1>6. TotalOf(OfExtents(n), Extents) = node_size[n]
  <2>1. PICK w, E, z : w = OfExtents(n) /\ E = Extents /\ z = NodeRange(n)
    OBVIOUS
  <2>2. w \in [E -> Nat] /\ IsFiniteSet(E) /\ z \in E /\ w[z] = node_size[n]
    BY <1>1, <1>3, <1>5, <2>1, CountTypes DEF OfExtents
  <2>3. ASSUME NEW e \in E, e # z PROVE w[e] = 0
    <3>1. PICK m \in Taken : e = NodeRange(m)
      BY <1>3, <2>1
    <3>2. m # n
      BY <2>1, <2>3, <3>1
    <3> QED  BY <1>4, <2>1, <3>1, <3>2 DEF OfExtents
  <2>4. TotalOf(w, E) = w[z]
    BY <2>2, <2>3, TotalOne
  <2> QED  BY <2>1, <2>2, <2>4
<1>7. TotalOf(OfLive(n), live) = allocated[n]
  <2>1. PICK w, z, req : w = OfLive(n) /\ z = BlockOf(n) /\ req = allocated[n]
    OBVIOUS
  <2>2. req \in Nat \ {0} /\ offset[n] \in Nat /\ end(n) \in Nat /\ offset[n] < end(n)
    BY <1>1, <2>1, BuddyAssumption, Sizes DEF Fits
  <2>3. z.start = offset[n] /\ z.end - z.start = req
    BY <2>1, <2>2 DEF BlockOf
  <2>4. Has(n, z)
    BY <2>2, <2>3 DEF Has
  <2>5. w \in [live -> Nat] /\ IsFiniteSet(live) /\ z \in live
    BY <1>1, <1>3, <2>1, CountTypes
  <2>6. w[z] = req
    BY <2>1, <2>3, <2>4, <2>5 DEF OfLive
  <2>7. ASSUME NEW b \in live, b # z PROVE w[b] = 0
    <3>1. PICK m \in Taken : b = BlockOf(m)
      BY <1>3
    <3>2. m # n
      BY <2>1, <2>7, <3>1
    <3> QED  BY <1>4, <2>1, <3>1, <3>2 DEF OfLive
  <2>8. TotalOf(w, live) = w[z]
    BY <2>5, <2>7, TotalOne
  <2> QED  BY <2>1, <2>6, <2>8
<1>8. size_in(n) = node_size[n] /\ node_size[n] \in Nat
  <2>1. /\ SIZE \in Nat /\ offset[n] \in Nat /\ end(n) \in Nat /\ offset[n] < end(n)
        /\ end(n) <= Root /\ Root \in Nat /\ node_size[n] \in Nat
    BY <1>1, RootPower, Sizes
  <2>2. end(n) <= SIZE
    <3>1. SUFFICES ASSUME ~(end(n) <= SIZE) PROVE FALSE
      OBVIOUS
    <3>2. ~(offset[n] >= SIZE)
      BY <1>1 DEF Outside
    <3>3. SIZE \in 0 .. Root - 1 /\ offset[n] <= SIZE /\ SIZE < end(n)
      BY <2>1, <3>1, <3>2
    <3>4. Unit(SIZE) \in Node /\ offset[Unit(SIZE)] = SIZE /\ Over(n, Unit(SIZE))
      BY <1>1, <3>3, UnitUnder
    <3>5. Unit(SIZE) \in Outside
      BY <2>1, <3>4 DEF Outside
    <3> QED  BY <1>1, <3>4, <3>5 DEF Blocked
  <2> QED  BY <1>1, <2>1, <2>2, SizeIn
<1>9. f[n].alloc = allocated[n] /\ f[n].free = 0
  OBVIOUS
<1> QED  BY <1>2, <1>6, <1>7, <1>8, <1>9 DEF Accounted

\* one that a reserved range takes,
LEMMA CountWithheld ==
  ASSUME BuddyInv, ChildrenInv, NEW n \in Withheld, NEW f, f[n] = [alloc |-> 0, free |-> 0]
  PROVE  Accounted(f, n)
<1>1. PICK r \in reserved : n \in whole(r)
  BY DEF Withheld
<1>2. n \in Node /\ n \in Blocked /\ r \in Reservable
  BY BlockedNodes DEF Blocked, BuddyInv, ReservedInv
<1>3. /\ r.start \in Nat /\ r.end \in Nat /\ r.end <= SIZE /\ r.start <= offset[n] /\ end(n) <= r.end
      /\ SIZE \in Nat /\ offset[n] \in Nat /\ end(n) \in Nat /\ offset[n] < end(n) /\ node_size[n] \in Nat
  BY <1>1, <1>2, RangeNodes, Sizes, RootPower
<1>4. \A m \in Taken : ~Over(m, n) /\ ~Over(n, m)
  <2> SUFFICES ASSUME NEW m \in Taken PROVE ~Over(m, n) /\ ~Over(n, m)
    OBVIOUS
  <2>1. Alone(m)
    BY DEF BuddyInv, TakenInv
  <2> QED  BY <1>2, <2>1 DEF Alone
<1>5. TotalOf(OfExtents(n), Extents) = 0 /\ TotalOf(OfLive(n), live) = 0
  BY <1>2, <1>4, NoneTaken
<1>6. TotalOf(OfReserved(n), reserved) = node_size[n]
  <2>1. PICK w : w = OfReserved(n)
    OBVIOUS
  <2>2. w \in [reserved -> Nat] /\ IsFiniteSet(reserved)
    BY <1>2, <2>1, CountTypes
  <2>3. w[r] = node_size[n]
    BY <1>2, <1>3, <2>1, CommonIs DEF OfReserved
  <2>4. ASSUME NEW q \in reserved, q # r PROVE w[q] = 0
    <3>1. ~overlaps(q, r) /\ q.start \in Nat /\ q.end \in Nat
      BY <2>4, CountTypes DEF BuddyInv, ReservedInv
    <3>2. q.end <= offset[n] \/ end(n) <= q.start
      BY <1>3, <3>1 DEF overlaps
    <3> QED  BY <1>2, <2>1, <3>1, <3>2, CommonIs DEF OfReserved
  <2>5. TotalOf(w, reserved) = w[r]
    BY <2>2, <2>4, TotalOne
  <2> QED  BY <2>1, <2>3, <2>5
<1>7. size_in(n) = node_size[n]
  BY <1>2, <1>3, SizeIn
<1>8. f[n].alloc = 0 /\ f[n].free = 0
  OBVIOUS
<1> QED  BY <1>3, <1>5, <1>6, <1>7, <1>8 DEF Accounted

\* one beyond the end,
LEMMA CountOutside ==
  ASSUME BuddyInv, ChildrenInv, NEW n \in Outside, NEW f, f[n] = [alloc |-> 0, free |-> 0]
  PROVE  Accounted(f, n)
<1>1. n \in Node /\ n \in Blocked /\ offset[n] >= SIZE /\ size_in(n) = 0 /\ offset[n] \in Nat /\ SIZE \in Nat
  BY SizeIn, Sizes, RootPower DEF Blocked, Outside
<1>2. \A m \in Taken : ~Over(m, n) /\ ~Over(n, m)
  <2> SUFFICES ASSUME NEW m \in Taken PROVE ~Over(m, n) /\ ~Over(n, m)
    OBVIOUS
  <2>1. Alone(m)
    BY DEF BuddyInv, TakenInv
  <2> QED  BY <1>1, <2>1 DEF Alone
<1>3. TotalOf(OfExtents(n), Extents) = 0 /\ TotalOf(OfLive(n), live) = 0
  BY <1>1, <1>2, NoneTaken
<1>4. TotalOf(OfReserved(n), reserved) = 0
  <2>1. PICK w : w = OfReserved(n)
    OBVIOUS
  <2>2. w \in [reserved -> Nat] /\ IsFiniteSet(reserved)
    BY <1>1, <2>1, CountTypes
  <2>3. ASSUME NEW q \in reserved PROVE w[q] = 0
    <3>1. q.start \in Nat /\ q.end \in Nat /\ q.end <= SIZE
      BY CountTypes
    <3>2. q.end <= offset[n]
      BY <1>1, <3>1
    <3> QED  BY <1>1, <2>1, <3>1, <3>2, CommonIs DEF OfReserved
  <2> QED  BY <2>1, <2>2, <2>3, TotalZero
<1>5. f[n].alloc = 0 /\ f[n].free = 0
  OBVIOUS
<1> QED  BY <1>1, <1>3, <1>4, <1>5 DEF Accounted

\* and one that is free and in one piece.
LEMMA CountFree ==
  ASSUME BuddyInv, ChildrenInv, NEW n \in Node \ children, n \notin Blocked,
         \A m \in ancestors[n] : m \notin Blocked,
         NEW f, f[n] = [alloc |-> 0, free |-> max_available[n]]
  PROVE  Accounted(f, n)
<1>1. /\ SIZE \in Nat /\ offset[n] \in Nat /\ end(n) \in Nat /\ offset[n] < end(n) /\ node_size[n] \in Nat
  BY RootPower, Sizes
<1>2. ASSUME NEW m \in Blocked, Over(n, m) PROVE FALSE
  <2>1. m # n /\ n \in ancestors[m] /\ m \in Node
    BY <1>2, BlockedNodes DEF Over
  <2>2. /\ offset[n] <= offset[m] /\ end(m) <= end(n)
        /\ offset[m] \in Nat /\ end(m) \in Nat /\ offset[m] < end(m)
    BY <1>2, <2>1, OverNode, Sizes
  <2>3. CASE m \in Taken
    BY <2>1, <2>3 DEF BuddyInv, TakenInv, Fits
  <2>4. CASE m \in Outside
    <3>1. offset[n] < SIZE /\ SIZE < end(n)
      BY <1>1, <2>2, <2>4 DEF Blocked, Outside
    <3> QED  BY <3>1, SizeIn DEF ChildrenInv
  <2>5. CASE m \in Withheld
    <3>1. PICK r \in reserved : m \in whole(r)
      BY <2>5 DEF Withheld
    <3>2. r \in Reservable
      BY DEF BuddyInv, ReservedInv
    <3>3. /\ r.start \in Nat /\ r.end \in Nat /\ r.start <= offset[m] /\ end(m) <= r.end
          /\ m = 1 \/ m \div 2 \in touched(r)
      BY <2>1, <3>1, <3>2, RangeNodes
    <3>4. m # 1
      BY <2>1, Ancestors
    <3>5. PICK p : p = m \div 2
      OBVIOUS
    <3>6. p \in Node /\ p \in touched(r) /\ Over(n, p)
      BY <2>1, <3>3, <3>4, <3>5, Above, OverParent, <1>2
    <3>7. /\ offset[n] <= offset[p] /\ end(p) <= end(n) /\ offset[p] \in Nat /\ end(p) \in Nat
          /\ offset[p] < r.end /\ r.start < end(p) /\ ~(r.start <= offset[p] /\ end(p) <= r.end)
      BY <3>2, <3>6, OverNode, Sizes, RangeNodes
    <3>8. /\ offset[n] < r.end /\ r.start < end(n) /\ ~(r.start <= offset[n] /\ end(n) <= r.end)
      BY <1>1, <3>3, <3>7
    <3>9. n \in touched(r)
      BY <3>2, <3>8, RangeNodes
    <3> QED  BY <3>9 DEF ChildrenInv
  <2> QED  BY <2>3, <2>4, <2>5 DEF Blocked
<1>3. ASSUME NEW m \in Blocked, Over(m, n) PROVE FALSE
  BY <1>3 DEF Over
<1>4. max_available[n] = node_size[n]
  <2>1. Exact(max_available, Blocked)
    BY DEF BuddyInv, ValuesInv
  <2>2. \A m \in Node : Over(n, m) => m \notin Blocked
    BY <1>2
  <2> QED  BY <2>1, <2>2, FullUp
<1>5. size_in(n) = node_size[n]
  <2>1. offset[n] < SIZE
    BY <1>1 DEF Blocked, Outside
  <2>2. n \notin cut
    BY DEF ChildrenInv
  <2>3. end(n) <= SIZE
    BY <1>1, <2>1, <2>2, SizeIn
  <2> QED  BY <2>3, SizeIn
<1>6. TotalOf(OfReserved(n), reserved) = 0
  BY <1>2, <1>3, NoneReserved DEF Blocked
<1>7. TotalOf(OfExtents(n), Extents) = 0 /\ TotalOf(OfLive(n), live) = 0
  BY <1>2, <1>3, NoneTaken DEF Blocked
<1>8. f[n].alloc = 0 /\ f[n].free = node_size[n]
  BY <1>4
<1> QED  BY <1>1, <1>5, <1>6, <1>7, <1>8 DEF Accounted

\* Every node below which nothing is missing is counted right.
LEMMA CountInv ==
  ASSUME BuddyInv, ChildrenInv, NEW f, Counts(f)
  PROVE  Accounted(f, 1)
<1>1. /\ Exact(max_available, Blocked) /\ children \subseteq Inner
      /\ children \cap (Withheld \cup Outside) = {}
  BY DEF BuddyInv, ValuesInv, ChildrenInv
<1>2. f \in [Node -> Count]
  BY DEF Counts
<1> DEFINE N == {n \in Node : (\A m \in ancestors[n] : m \notin Blocked) => Accounted(f, n)}
<1>3. ASSUME NEW n \in 1 .. 2 * Root - 1, \A m \in n + 1 .. 2 * Root - 1 : m \in N PROVE n \in N
  <2>1. n \in Node
    BY Parents
  <2>2. SUFFICES ASSUME \A m \in ancestors[n] : m \notin Blocked PROVE Accounted(f, n)
    BY <2>1
  <2>3. CASE n \in Taken
    <3>1. f[n] = [alloc |-> allocated[n], free |-> 0]
      BY <2>1, <2>3 DEF Counts, Taken
    <3> QED  BY <2>3, <3>1, CountTaken
  <2>4. CASE n \notin Taken /\ n \in children
    <3>1. f[n] = Both(f[2 * n], f[2 * n + 1])
      BY <2>1, <2>4 DEF Counts, Taken
    <3>2. n \in Inner /\ n \notin Blocked
      BY <1>1, <2>4 DEF Blocked
    <3>3. /\ 2 * n \in n + 1 .. 2 * Root - 1 /\ 2 * n + 1 \in n + 1 .. 2 * Root - 1
      <4>1. n \in Nat /\ n >= 1 /\ 2 * n \in Node /\ 2 * n + 1 \in Node
        BY <3>2, Numbers, Parents
      <4> QED  BY <4>1, Parents
    <3>4. ancestors[2 * n] = ancestors[n] \cup {n} /\ ancestors[2 * n + 1] = ancestors[n] \cup {n}
      BY <3>2, Halves
    <3>5. Accounted(f, 2 * n) /\ Accounted(f, 2 * n + 1)
      <4>1. 2 * n \in N /\ 2 * n + 1 \in N
        BY <1>3, <3>3
      <4> QED  BY <2>2, <3>2, <3>4, <4>1
    <3> QED  BY <1>2, <3>1, <3>2, <3>5, CountSplit
  <2>5. CASE n \notin Taken /\ n \notin children
    <3>1. f[n] = [alloc |-> 0, free |-> max_available[n]]
      BY <2>1, <2>5 DEF Counts, Taken
    <3>2. n \in Blocked => max_available[n] = 0
      BY <1>1, <2>1, BlockedEmpty
    <3>3. CASE n \in Withheld
      <4>1. f[n] = [alloc |-> 0, free |-> 0]
        BY <3>1, <3>2, <3>3 DEF Blocked
      <4> QED  BY <3>3, <4>1, CountWithheld
    <3>4. CASE n \in Outside
      <4>1. f[n] = [alloc |-> 0, free |-> 0]
        BY <3>1, <3>2, <3>4 DEF Blocked
      <4> QED  BY <3>4, <4>1, CountOutside
    <3>5. CASE n \notin Blocked
      BY <2>1, <2>2, <2>5, <3>1, <3>5, CountFree
    <3> QED  BY <2>5, <3>3, <3>4, <3>5 DEF Blocked
  <2> QED  BY <2>3, <2>4, <2>5
<1>4. N \in SUBSET (1 .. 2 * Root - 1) /\ 2 * Root - 1 \in Nat
  BY Parents, RootPower
<1> HIDE DEF N
<1>5. \A n \in 1 .. 2 * Root - 1 : n \in N
  BY <1>3, <1>4, DownInduction
<1>6. 1 \in N
  BY <1>5, Parents
<1> QED  BY <1>6, Ancestors DEF N

LEMMA StatsInv == BuddyInv /\ ChildrenInv => StatsExact
<1> SUFFICES ASSUME BuddyInv, ChildrenInv PROVE StatsExact
  OBVIOUS
<1>1. PICK f : Counts(f) /\ stats = f[1]
  BY StatsCount DEF BuddyInv, ValuesInv, Exact, TakenInv
<1>2. Accounted(f, 1)
  BY <1>1, CountInv
<1>3. 1 \in Node /\ offset[1] = 0 /\ end(1) = Root /\ node_size[1] = Root /\ Root \in Nat /\ SIZE \in Nat /\ SIZE <= Root
  BY Parents, Offsets, NodeSizes, RootPower DEF end
<1>4. Bytes(reserved) = TotalOf(OfReserved(1), reserved)
  <2>1. ASSUME NEW r \in reserved PROVE OfReserved(1)[r] = r.end - r.start
    <3>1. r.start \in Nat /\ r.end \in Nat /\ r.end <= SIZE /\ r.start < r.end
      BY CountTypes
    <3>2. offset[1] <= r.start /\ r.start <= r.end /\ r.end <= end(1)
      BY <1>3, <3>1
    <3> QED  BY <1>3, <3>1, <3>2, CommonIs DEF OfReserved
  <2> QED  BY <2>1, BytesAre
<1>5. Bytes(Extents) = TotalOf(OfExtents(1), Extents)
  <2>1. ASSUME NEW e \in Extents PROVE OfExtents(1)[e] = e.end - e.start
    <3>1. e.start \in Nat /\ e.end \in Nat /\ e.end <= Root /\ e.start < e.end
      BY CountTypes
    <3>2. offset[1] <= e.start /\ e.start <= e.end /\ e.end <= end(1)
      BY <1>3, <3>1
    <3> QED  BY <1>3, <3>1, <3>2, CommonIs DEF OfExtents
  <2>2. PICK w, E : w = OfExtents(1) /\ E = Extents
    OBVIOUS
  <2>3. \A e \in E : w[e] = e.end - e.start
    BY <2>1, <2>2
  <2>4. Bytes(E) = TotalOf(w, E)
    BY <2>3, BytesAre
  <2> QED  BY <2>2, <2>4
<1>6. Bytes(live) = TotalOf(OfLive(1), live)
  <2>1. ASSUME NEW b \in live PROVE OfLive(1)[b] = b.end - b.start
    <3>1. b.start \in Nat /\ b.start < Root
      BY CountTypes
    <3>2. Has(1, b)
      BY <1>3, <3>1 DEF Has
    <3> QED  BY <3>2 DEF OfLive
  <2> QED  BY <2>1, BytesAre
<1>7. size_in(1) = SIZE
  <2>1. PICK a, s : a = SIZE - offset[1] /\ s = node_size[1]
    OBVIOUS
  <2>2. a = SIZE /\ s = Root
    BY <1>3, <2>1
  <2>3. SIZE \in Int /\ Root \in Int /\ 0 \in Int
    BY <1>3
  <2>4. Min({SIZE, Root}) = SIZE /\ Max({0, SIZE}) = SIZE
    BY <1>3, <2>3, Maximum
  <2> QED  BY <2>1, <2>2, <2>4 DEF size_in
<1>8. stats.alloc = Bytes(live) /\ stats.free + Bytes(reserved) + Bytes(Extents) = SIZE
  BY <1>1, <1>2, <1>4, <1>5, <1>6, <1>7 DEF Accounted
<1>9. stats.free \in Nat /\ Bytes(reserved) \in Nat /\ Bytes(Extents) \in Nat
  <2>1. f[1] \in Count
    BY <1>1, <1>3 DEF Counts
  <2>2. PICK u, v, E : u = OfReserved(1) /\ v = OfExtents(1) /\ E = Extents
    OBVIOUS
  <2>3. u \in [reserved -> Nat] /\ v \in [E -> Nat] /\ IsFiniteSet(reserved) /\ IsFiniteSet(E)
    BY <1>3, <2>2, CountTypes
  <2>4. PICK z, y : z = [r \in reserved |-> 0] /\ y = [e \in E |-> 0]
    OBVIOUS
  <2>5. /\ z \in [reserved -> Nat] /\ \A r \in reserved : u[r] = u[r] + z[r]
        /\ y \in [E -> Nat] /\ \A e \in E : v[e] = v[e] + y[e]
    BY <2>3, <2>4
  <2>6. TotalOf(u, reserved) \in Nat
    BY <2>3, <2>5, TotalSum
  <2>7. TotalOf(v, E) \in Nat
    BY <2>3, <2>5, TotalSum
  <2> QED  BY <1>1, <1>4, <1>5, <2>1, <2>2, <2>6, <2>7 DEF Count
<1>10. stats.free = SIZE - Bytes(reserved) - Bytes(Extents)
  BY <1>3, <1>8, <1>9
<1> QED  BY <1>8, <1>10 DEF StatsExact, Bytes, Extents

\* The accounts of the allocator agree with what its callers hold, after any
\* sequence of reserve_range, alloc and dealloc: a request is refused only when no
\* free block is large enough, Node::stats reports as allocated exactly the bytes
\* asked for, and as free exactly what neither the reserved ranges nor the blocks
\* handed out, rounded up, take.
THEOREM AccountsStayExact == Spec => []AccountsExact
<1>1. BuddyInv /\ ChildrenInv => AccountsExact
  BY FullInv, StatsInv DEF AccountsExact
<1> QED  BY <1>1, InductiveInv, ChildrenInductive, PTL

-----------------------------------------------------------------------------
(* Multiples.                                                              *)

\* Of two multiples one is larger by one multiple or more.
LEMMA NextMultiple ==
  ASSUME NEW p \in Nat \ {0}, NEW x \in Nat, NEW y \in Nat, x % p = 0, y % p = 0, x < y
  PROVE  x + p <= y
<1>1. PICK a, b : a = x \div p /\ b = y \div p
  OBVIOUS
<1>2. a \in Nat /\ b \in Nat /\ x = p * a /\ y = p * b
  BY <1>1, DivMod
<1>3. CASE b <= a
  <2>1. PICK c \in Nat : a = b + c
    BY <1>2, <1>3
  <2>2. p * (b + c) = p * b + p * c /\ p * c >= 0
    BY <1>2
  <2> QED  BY <1>2, <2>1, <2>2
<1>4. CASE a < b
  <2>1. PICK c \in Nat : b = (a + c) + 1
    <3>1. b - a - 1 \in Nat /\ b = (a + (b - a - 1)) + 1
      BY <1>2, <1>4
    <3> QED  BY <3>1
  <2>2. p * ((a + c) + 1) = p * a + p * c + p /\ p * c >= 0
    BY <1>2
  <2> QED  BY <1>2, <2>1, <2>2
<1> QED  BY <1>2, <1>3, <1>4

\* Adding a multiple changes no remainder.
LEMMA AddMultiple ==
  ASSUME NEW p \in Nat \ {0}, NEW x \in Nat, NEW y \in Nat, x % p = 0
  PROVE  (x + y) % p = y % p /\ (x + y) \div p = x \div p + y \div p
<1>1. PICK a, b, r : a = x \div p /\ b = y \div p /\ r = y % p
  OBVIOUS
<1>2. a \in Nat /\ b \in Nat /\ r \in 0 .. p - 1 /\ x = p * a /\ y = p * b + r
  <2>1. a \in Nat /\ x = p * a + (x % p)
    BY <1>1, DivMod
  <2>2. p * a \in Int
    BY <2>1
  <2>3. b \in Nat /\ r \in 0 .. p - 1 /\ y = p * b + r
    BY <1>1, DivMod
  <2> QED  BY <2>1, <2>2, <2>3
<1>3. p * a + p * b = p * (a + b)
  BY <1>2
<1>4. PICK n, k \in Nat : n = x + y /\ k = a + b
  BY <1>2
<1>5. n = p * k + r
  BY <1>2, <1>3, <1>4
<1>6. n \div p = k /\ n % p = r
  BY <1>2, <1>4, <1>5, DivUnique
<1> QED  BY <1>1, <1>4, <1>6

\* Dividing twice.
LEMMA DivDiv ==
  ASSUME NEW p \in Nat \ {0}, NEW e \in Nat \ {0}, NEW q, q = p * e, NEW v \in Nat
  PROVE  q \in Nat \ {0} /\ v \div q = (v \div p) \div e
<1>1. PICK a, r : a = v \div p /\ r = v % p
  OBVIOUS
<1>2. a \in Nat /\ r \in 0 .. p - 1 /\ v = p * a + r
  BY <1>1, DivMod
<1>3. PICK b, s : b = a \div e /\ s = a % e
  OBVIOUS
<1>4. b \in Nat /\ s \in 0 .. e - 1 /\ a = e * b + s
  BY <1>2, <1>3, DivMod
<1>5. PICK t \in Nat : t = (e - 1) - s
  BY <1>4
<1>6. p * (e * b + s) = (p * e) * b + p * s
  BY <1>4
<1>7. p * ((s + t) + 1) = p * s + p * t + p /\ p * t >= 0 /\ p * s >= 0
  BY <1>4, <1>5
<1>8. e = (s + t) + 1
  BY <1>4, <1>5
<1>9. q \in Nat \ {0} /\ q = p * s + p * t + p
  BY <1>7, <1>8, <1>4, <1>5
<1>10. PICK z : z = p * s + r
  OBVIOUS
<1>11. z \in 0 .. q - 1
  BY <1>2, <1>4, <1>5, <1>7, <1>9, <1>10
<1>12. v = q * b + z
  BY <1>2, <1>4, <1>6, <1>10
<1>13. v \div q = b
  BY <1>4, <1>9, <1>11, <1>12, DivUnique
<1> QED  BY <1>1, <1>3, <1>9, <1>13

LEMMA Rounding ==
  ASSUME NEW p \in Nat \ {0}, NEW v \in Nat, NEW b, b = v - (v % p)
  PROVE  b \in Nat /\ b % p = 0 /\ b <= v /\ v < b + p /\ b \div p = v \div p
<1>1. PICK a, r : a = v \div p /\ r = v % p
  OBVIOUS
<1>2. a \in Nat /\ r \in 0 .. p - 1 /\ v = p * a + r
  BY <1>1, DivMod
<1>3. b = p * a + 0 /\ b \in Nat
  BY <1>1, <1>2
<1>4. 0 \in 0 .. p - 1 /\ a \in Nat
  BY <1>2
<1>5. b \div p = a /\ b % p = 0
  BY <1>3, <1>4, DivUnique
<1> QED  BY <1>1, <1>2, <1>3, <1>5

\* The numbers from a multiple up to the next have its quotient.
LEMMA InMultiple ==
  ASSUME NEW p \in Nat \ {0}, NEW x \in Nat, NEW y \in Nat, x % p = 0, x <= y, y < x + p
  PROVE  y \div p = x \div p /\ y - (y % p) = x
<1>1. PICK a : a = x \div p
  OBVIOUS
<1>2. a \in Nat /\ x = p * a
  BY <1>1, DivMod
<1>3. PICK r \in 0 .. p - 1 : y = x + r
  <2>1. y - x \in 0 .. p - 1 /\ y = x + (y - x)
    OBVIOUS
  <2> QED  BY <2>1
<1>4. y = p * a + r
  BY <1>2, <1>3
<1>5. y \div p = a /\ y % p = r
  BY <1>2, <1>4, DivUnique
<1> QED  BY <1>1, <1>3, <1>5

LEMMA NextMultipleIs ==
  ASSUME NEW p \in Nat \ {0}, NEW n \in Nat, NEW x, x = NextMultipleOf(n, p)
  PROVE  x \in Nat /\ x % p = 0 /\ n <= x /\ x < n + p
<1>1. PICK y \in Nat : y = n + p - 1
  OBVIOUS
<1>2. PICK a, r : a = y \div p /\ r = y % p
  OBVIOUS
<1>3. a \in Nat /\ r \in 0 .. p - 1 /\ y = p * a + r
  BY <1>1, <1>2, DivMod
<1>4. a * p = p * a
  BY <1>3
<1>5. x = p * a
  BY <1>1, <1>2, <1>4 DEF NextMultipleOf
<1>6. x = p * a + 0 /\ x \in Nat /\ 0 \in 0 .. p - 1
  BY <1>3, <1>5
<1>7. x % p = 0
  BY <1>3, <1>6, DivUnique
<1> QED  BY <1>1, <1>3, <1>5, <1>6, <1>7

LEMMA LastMultipleIs ==
  ASSUME NEW p \in Nat \ {0}, NEW n \in Nat, NEW x, x = (n \div p) * p
  PROVE  x \in Nat /\ x % p = 0 /\ x <= n /\ n < x + p
<1>1. PICK a, r : a = n \div p /\ r = n % p
  OBVIOUS
<1>2. a \in Nat /\ r \in 0 .. p - 1 /\ n = p * a + r
  BY <1>1, DivMod
<1>3. a * p = p * a
  BY <1>2
<1>4. x = p * a + 0 /\ x \in Nat /\ 0 \in 0 .. p - 1
  BY <1>1, <1>2, <1>3
<1>5. x % p = 0
  BY <1>2, <1>4, DivUnique
<1> QED  BY <1>2, <1>4, <1>5

-----------------------------------------------------------------------------
(* The parts of the address space.                                         *)

LEMMA PageSizes ==
  page_size \in [Nat -> Nat] /\ page_size[0] = 1 /\ \A n \in Nat : page_size[n + 1] = ENTRIES * page_size[n]
<1>0. ENTRIES \in Nat
  BY TableAssumption
<1>1. PICK S : S = [x \in Nat |-> ENTRIES * x]
  OBVIOUS
<1>2. PICK f : f \in [Nat -> Nat] /\ f[0] = 1 /\ \A n \in Nat : f[n + 1] = S[f[n]]
  <2>1. 1 \in Nat /\ S \in [Nat -> Nat]
    BY <1>0, <1>1
  <2>2. PICK T, b : T = Nat /\ b = 1
    OBVIOUS
  <2>3. \E f : Iteration(f, T, b, S)
    BY <2>1, <2>2, Recursion
  <2> QED  BY <2>2, <2>3 DEF Iteration
<1>3. ASSUME NEW n \in Nat PROVE f[n] = IF n = 0 THEN 1 ELSE ENTRIES * f[n - 1]
  <2>1. CASE n = 0
    BY <1>2, <2>1
  <2>2. CASE n # 0
    <3>1. n - 1 \in Nat /\ (n - 1) + 1 = n
      BY <2>2
    <3> QED  BY <1>1, <1>2, <2>2, <3>1
  <2> QED  BY <2>1, <2>2
<1>4. f = [n \in Nat |-> IF n = 0 THEN 1 ELSE ENTRIES * f[n - 1]]
  BY <1>2, <1>3
<1>5. PICK g : g = page_size
  OBVIOUS
<1>6. g = [n \in Nat |-> IF n = 0 THEN 1 ELSE ENTRIES * g[n - 1]]
  BY <1>4, <1>5 DEF page_size
<1> DEFINE value(n) == IF n = 0 THEN 1 ELSE ENTRIES * g[n - 1]
<1>7. g = [n \in Nat |-> value(n)]
  BY <1>6
<1>8. \A n \in Nat : g[n] = value(n)
  <2> HIDE DEF value
  <2> QED  BY <1>7
<1>9. g[0] = 1 /\ \A n \in Nat : g[n + 1] = ENTRIES * g[n]
  <2>1. g[0] = 1
    BY <1>8
  <2>2. ASSUME NEW n \in Nat PROVE g[n + 1] = ENTRIES * g[n]
    <3>1. n + 1 \in Nat /\ n + 1 # 0 /\ (n + 1) - 1 = n
      OBVIOUS
    <3> QED  BY <1>8, <3>1
  <2> QED  BY <2>1, <2>2
<1>10. \A n \in Nat : g[n] \in Nat
  <2> DEFINE N == {n \in Nat : g[n] \in Nat}
  <2>1. 0 \in N
    BY <1>9
  <2>2. ASSUME NEW n \in N PROVE n + 1 \in N
    <3>1. PICK x \in Nat : x = g[n]
      OBVIOUS
    <3>2. g[n + 1] = ENTRIES * x
      BY <1>9, <3>1
    <3> QED  BY <1>0, <3>1, <3>2
  <2>3. N \in SUBSET Nat
    OBVIOUS
  <2> HIDE DEF N
  <2>4. \A n \in Nat : n \in N
    BY <2>1, <2>2, <2>3, SetInduction
  <2> QED  BY <2>4 DEF N
<1>11. g \in [Nat -> Nat]
  <2> HIDE DEF value
  <2>1. g = [n \in Nat |-> g[n]]
    BY <1>7, <1>8
  <2> QED  BY <1>10, <2>1
<1> QED  BY <1>5, <1>9, <1>11

LEMMA SizePositive == \A l \in Nat : PageSize(l) \in Nat \ {0}
<1> DEFINE N == {l \in Nat : page_size[l] \in Nat \ {0}}
<1>1. 0 \in N
  BY PageSizes
<1>2. ASSUME NEW l \in N PROVE l + 1 \in N
  <2>1. PICK x \in Nat \ {0} : x = page_size[l]
    OBVIOUS
  <2>2. page_size[l + 1] = ENTRIES * x
    BY <2>1, PageSizes
  <2>3. ENTRIES \in Nat \ {0}
    BY TableAssumption
  <2>4. PICK e \in Nat : ENTRIES = e + 1
    <3>1. ENTRIES - 1 \in Nat /\ ENTRIES = (ENTRIES - 1) + 1
      BY <2>3
    <3> QED  BY <3>1
  <2>5. (e + 1) * x = e * x + x /\ e * x \in Nat
    OBVIOUS
  <2> QED  BY <2>2, <2>4, <2>5
<1>3. N \in SUBSET Nat
  OBVIOUS
<1> HIDE DEF N
<1>4. \A n \in Nat : n \in N
  BY <1>1, <1>2, <1>3, SetInduction
<1> QED  BY <1>4 DEF N, PageSize

\* Pages that one entry of a level covers, and where they begin.
Same(v, w, level) == v \div PageSize(level) = w \div PageSize(level)
Base(v, level) == v - (v % PageSize(level))

LEMMA Bases ==
  ASSUME NEW l \in Nat, NEW v \in Nat
  PROVE  /\ PageSize(l) \in Nat \ {0}
         /\ Base(v, l) \in Nat /\ Base(v, l) % PageSize(l) = 0 /\ Base(v, l) <= v /\ v < Base(v, l) + PageSize(l)
         /\ v = Base(v, l) + (v % PageSize(l)) /\ v % PageSize(l) \in Nat
         /\ Same(Base(v, l), v, l)
<1>1. PICK p : p = PageSize(l)
  OBVIOUS
<1>2. p \in Nat \ {0}
  BY <1>1, SizePositive
<1>3. PICK b : b = v - (v % p)
  OBVIOUS
<1>4. b \in Nat /\ b % p = 0 /\ b <= v /\ v < b + p /\ b \div p = v \div p
  BY <1>2, <1>3, Rounding
<1>5. v % p \in Nat
  BY <1>2
<1> QED  BY <1>1, <1>2, <1>3, <1>4, <1>5 DEF Base, Same

LEMMA InBlock ==
  ASSUME NEW l \in Nat, NEW v \in Nat, NEW w \in Nat
  PROVE  /\ v % PageSize(l) = 0 /\ v <= w /\ w < v + PageSize(l) => Same(v, w, l) /\ Base(w, l) = v
         /\ v % PageSize(l) = 0 => Base(v, l) = v
<1>1. PICK p : p = PageSize(l)
  OBVIOUS
<1>2. p \in Nat \ {0}
  BY <1>1, SizePositive
<1>3. ASSUME v % p = 0, v <= w, w < v + p PROVE w \div p = v \div p /\ w - (w % p) = v
  BY <1>2, <1>3, InMultiple
<1> QED  BY <1>1, <1>3 DEF Same, Base

LEMMA SameBase ==
  ASSUME NEW l \in Nat, NEW v \in Nat, NEW w \in Nat
  PROVE  Same(v, w, l) <=> Base(v, l) = Base(w, l)
<1>1. PICK p : p = PageSize(l)
  OBVIOUS
<1>2. p \in Nat \ {0}
  BY <1>1, SizePositive
<1>3. PICK a, b, r, s : a = v \div p /\ r = v % p /\ b = w \div p /\ s = w % p
  OBVIOUS
<1>4. a \in Nat /\ r \in 0 .. p - 1 /\ v = p * a + r
  BY <1>2, <1>3, DivMod
<1>5. b \in Nat /\ s \in 0 .. p - 1 /\ w = p * b + s
  BY <1>2, <1>3, DivMod
<1>6. ASSUME v - r = w - s PROVE a = b
  <2>1. p * a = p * b
    BY <1>2, <1>4, <1>5, <1>6
  <2>2. PICK n \in Nat : n = p * a
    BY <1>2, <1>4
  <2>3. n = p * a + 0 /\ n = p * b + 0 /\ 0 \in 0 .. p - 1
    BY <1>2, <2>1, <2>2
  <2>4. n \div p = a
    BY <1>2, <1>4, <2>3, DivUnique
  <2>5. n \div p = b
    BY <1>2, <1>5, <2>3, DivUnique
  <2> QED  BY <2>4, <2>5
<1>7. ASSUME a = b PROVE v - r = w - s
  BY <1>2, <1>4, <1>5, <1>7
<1> QED  BY <1>1, <1>3, <1>6, <1>7 DEF Same, Base

LEMMA SameAbove1 ==
  ASSUME NEW l \in Nat, NEW v \in Nat
  PROVE  v \div PageSize(l + 1) = (v \div PageSize(l)) \div ENTRIES
<1>1. PICK p, q : p = PageSize(l) /\ q = PageSize(l + 1)
  OBVIOUS
<1>2. p \in Nat \ {0} /\ ENTRIES \in Nat \ {0} /\ q = ENTRIES * p
  BY <1>1, SizePositive, PageSizes, TableAssumption DEF PageSize
<1>3. q = p * ENTRIES
  BY <1>2
<1> QED  BY <1>1, <1>2, <1>3, DivDiv

LEMMA SameAbove ==
  ASSUME NEW v \in Nat, NEW w \in Nat
  PROVE  \A l, k \in Nat : l <= k /\ Same(v, w, l) => Same(v, w, k)
<1> SUFFICES ASSUME NEW l \in Nat, Same(v, w, l) PROVE \A k \in Nat : l <= k => Same(v, w, k)
  OBVIOUS
<1> DEFINE N == {k \in Nat : l <= k => Same(v, w, k)}
<1>1. 0 \in N
  BY DEF Same
<1>2. ASSUME NEW k \in N PROVE k + 1 \in N
  <2>1. CASE l <= k
    BY <2>1, SameAbove1 DEF Same
  <2>2. CASE l = k + 1
    BY <2>2
  <2> QED  BY <2>1, <2>2
<1>3. N \in SUBSET Nat
  OBVIOUS
<1> HIDE DEF N
<1>4. \A n \in Nat : n \in N
  BY <1>1, <1>2, <1>3, SetInduction
<1> QED  BY <1>4 DEF N

LEMMA Levels == LEVELS \in Nat \ {0} /\ TOP \in Nat /\ TOP + 1 = LEVELS /\ Level = 0 .. TOP /\ Level \subseteq 0 .. LEVELS
  BY TableAssumption DEF TOP, Level

LEMMA Addresses == VIRT_END \in Nat \ {0} /\ VirtPage = 0 .. VIRT_END - 1 /\ VIRT_END = PageSize(LEVELS)
  BY Levels, SizePositive DEF VIRT_END, VirtPage

LEMMA BottomSame ==
  ASSUME NEW v \in Nat, NEW w \in Nat
  PROVE  PageSize(0) = 1 /\ Base(v, 0) = v /\ (Same(v, w, 0) <=> v = w)
  BY PageSizes DEF PageSize, Base, Same

LEMMA TopSame == \A v, w \in VirtPage : Same(v, w, LEVELS) /\ ~Same(v, VIRT_END, LEVELS)
<1>1. PICK p : p = VIRT_END
  OBVIOUS
<1>2. p \in Nat \ {0} /\ VirtPage = 0 .. p - 1 /\ PageSize(LEVELS) = p
  BY <1>1, Addresses
<1>3. ASSUME NEW v \in VirtPage PROVE v \div p = 0
  <2>1. v \in Nat /\ v \in 0 .. p - 1 /\ 0 \in Nat /\ v = p * 0 + v
    BY <1>2
  <2> QED  BY <1>2, <2>1, DivUnique
<1>4. p \div p = 1
  <2>1. 1 \in Nat /\ 0 \in 0 .. p - 1 /\ p = p * 1 + 0 /\ p \in Nat
    BY <1>2
  <2> QED  BY <1>2, <2>1, DivUnique
<1>5. ASSUME NEW v \in VirtPage, NEW w \in VirtPage PROVE Same(v, w, LEVELS) /\ ~Same(v, VIRT_END, LEVELS)
  BY <1>1, <1>2, <1>3, <1>4, <1>5 DEF Same
<1> QED  BY <1>5

\* The blocks of a level make up the address space.
LEMMA Blocks ==
  ASSUME NEW l \in 0 .. LEVELS
  PROVE  /\ \A v \in VirtPage : Base(v, l) \in VirtPage /\ Base(v, l) + PageSize(l) <= VIRT_END
         /\ VIRT_END % PageSize(l) = 0
<1>1. VIRT_END \in Nat \ {0} /\ VirtPage = 0 .. VIRT_END - 1 /\ l \in Nat /\ LEVELS \in Nat /\ l <= LEVELS
  BY Addresses, Levels
<1>2. ASSUME NEW v \in VirtPage PROVE ~Same(v, VIRT_END, l)
  <2>1. v \in Nat
    BY <1>1
  <2> QED  BY <1>1, <2>1, SameAbove, TopSame
<1>3. ASSUME NEW v \in VirtPage PROVE Base(v, l) \in VirtPage /\ Base(v, l) + PageSize(l) <= VIRT_END
  <2>1. PICK b, p : b = Base(v, l) /\ p = PageSize(l)
    OBVIOUS
  <2>2. p \in Nat \ {0} /\ b \in Nat /\ b % p = 0 /\ b <= v /\ v < b + p
    BY <1>1, <2>1, Bases
  <2>3. b \in VirtPage
    BY <1>1, <2>2
  <2>4. ~(b <= VIRT_END /\ VIRT_END < b + p)
    BY <1>1, <1>2, <2>1, <2>2, <2>3, InBlock
  <2> QED  BY <1>1, <2>1, <2>2, <2>3, <2>4
<1>4. VIRT_END % PageSize(l) = 0
  <2>1. PICK b, r : b = Base(VIRT_END, l) /\ r = VIRT_END % PageSize(l)
    OBVIOUS
  <2>2. b \in Nat /\ r \in Nat /\ VIRT_END = b + r /\ Same(b, VIRT_END, l)
    BY <1>1, <2>1, Bases
  <2>3. b \notin VirtPage
    BY <1>2, <2>2
  <2> QED  BY <1>1, <2>1, <2>2, <2>3
<1> QED  BY <1>3, <1>4

LEMMA Slots ==
  /\ \A v \in VirtPage, l \in Level : SlotOf(v, l) \in Slot
  /\ \A s \in Slot : \E v \in VirtPage, l \in Level : s = SlotOf(v, l)
  /\ \A v, w \in VirtPage, l, k \in Level : SlotOf(v, l) = SlotOf(w, k) <=> l = k /\ Same(v, w, l)
<1>1. ASSUME NEW v \in VirtPage, NEW l \in Level PROVE SlotOf(v, l) \in Slot
  <2>1. PICK p, V : p = PageSize(l) /\ V = VIRT_END
    OBVIOUS
  <2>2. p \in Nat \ {0} /\ V \in Nat \ {0} /\ V % p = 0 /\ v \in Nat /\ v < V
    <3>1. l \in Nat /\ l \in 0 .. LEVELS
      BY Levels
    <3>2. p \in Nat \ {0} /\ V % p = 0
      BY <2>1, <3>1, SizePositive, Blocks
    <3> QED  BY <2>1, <3>2, Addresses
  <2>3. PICK a, k, r : a = v \div p /\ k = V \div p /\ r = v % p
    OBVIOUS
  <2>4. a \in Nat /\ r \in 0 .. p - 1 /\ v = p * a + r
    BY <2>2, <2>3, DivMod
  <2>5. k \in Nat /\ V = p * k + (V % p)
    BY <2>2, <2>3, DivMod
  <2>6. ASSUME a >= k PROVE FALSE
    <3>1. PICK c \in Nat : a = k + c
      <4>1. a - k \in Nat /\ a = k + (a - k)
        BY <2>4, <2>5, <2>6
      <4> QED  BY <4>1
    <3>2. p * (k + c) = p * k + p * c /\ p * c >= 0
      BY <2>2, <2>5
    <3> QED  BY <2>2, <2>4, <2>5, <3>1, <3>2
  <2>7. a \in 0 .. k - 1
    BY <2>4, <2>5, <2>6
  <2> QED  BY <2>1, <2>3, <2>7 DEF Slot, SlotOf
<1>2. ASSUME NEW s \in Slot PROVE \E v \in VirtPage, l \in Level : s = SlotOf(v, l)
  <2>0. PICK l \in Level : s \in {<<l, i>> : i \in 0 .. VIRT_END \div PageSize(l) - 1}
    BY DEF Slot
  <2>1. PICK i \in 0 .. VIRT_END \div PageSize(l) - 1 : s = <<l, i>>
    BY <2>0
  <2>2. PICK p, V : p = PageSize(l) /\ V = VIRT_END
    OBVIOUS
  <2>3. p \in Nat \ {0} /\ V \in Nat \ {0} /\ V % p = 0 /\ VirtPage = 0 .. V - 1
    <3>1. l \in Nat /\ l \in 0 .. LEVELS
      BY Levels
    <3>2. p \in Nat \ {0} /\ V % p = 0
      BY <2>2, <3>1, SizePositive, Blocks
    <3> QED  BY <2>2, <3>2, Addresses
  <2>4. PICK k : k = V \div p
    OBVIOUS
  <2>5. k \in Nat /\ V = p * k + (V % p)
    BY <2>3, <2>4, DivMod
  <2>6. i \in Nat /\ i < k
    BY <2>1, <2>2, <2>4, <2>5
  <2>7. PICK v : v = p * i
    OBVIOUS
  <2>8. v \in Nat /\ v = p * i + 0 /\ 0 \in 0 .. p - 1
    BY <2>3, <2>6, <2>7
  <2>9. v \div p = i
    BY <2>3, <2>6, <2>8, DivUnique
  <2>10. PICK c \in Nat : k = (i + c) + 1
    <3>1. k - i - 1 \in Nat /\ k = (i + (k - i - 1)) + 1
      BY <2>5, <2>6
    <3> QED  BY <3>1
  <2>11. p * ((i + c) + 1) = p * i + p * c + p /\ p * c >= 0
    BY <2>3, <2>6, <2>10
  <2>12. v < V
    BY <2>3, <2>5, <2>7, <2>8, <2>10, <2>11
  <2>13. v \in VirtPage /\ s = SlotOf(v, l)
    BY <2>1, <2>2, <2>3, <2>8, <2>9, <2>12 DEF SlotOf
  <2> QED  BY <2>13
<1>3. ASSUME NEW v \in VirtPage, NEW w \in VirtPage, NEW l \in Level, NEW k \in Level
      PROVE  SlotOf(v, l) = SlotOf(w, k) <=> l = k /\ Same(v, w, l)
  BY DEF SlotOf, Same
<1> QED  BY <1>1, <1>2, <1>3

\* The entries of the table that an entry leads to.
LEMMA ChildSlots ==
  ASSUME NEW v \in VirtPage, NEW l \in Level, l + 1 \in Level
  PROVE  /\ \A w \in VirtPage : Same(v, w, l + 1) => SlotOf(w, l) \in Children(SlotOf(v, l + 1))
         /\ \A s \in Children(SlotOf(v, l + 1)) :
              \E w \in VirtPage : s = SlotOf(w, l) /\ Same(v, w, l + 1)
<1>0. l \in Nat /\ v \in Nat /\ VirtPage \subseteq Nat /\ Level \subseteq Nat
  BY Levels, Addresses
<1>1. ASSUME NEW w \in VirtPage, Same(v, w, l + 1) PROVE SlotOf(w, l) \in Children(SlotOf(v, l + 1))
  <2>1. SlotOf(w, l) \in Slot
    BY Slots
  <2>2. (w \div PageSize(l)) \div ENTRIES = v \div PageSize(l + 1)
    BY <1>0, <1>1, SameAbove1 DEF Same
  <2> QED  BY <2>1, <2>2 DEF Children, SlotOf
<1>2. ASSUME NEW s \in Children(SlotOf(v, l + 1))
      PROVE  \E w \in VirtPage : s = SlotOf(w, l) /\ Same(v, w, l + 1)
  <2>1. s \in Slot /\ s[1] + 1 = l + 1 /\ s[2] \div ENTRIES = v \div PageSize(l + 1)
    BY DEF Children, SlotOf
  <2>2. PICK w \in VirtPage, k \in Level : s = SlotOf(w, k)
    BY <2>1, Slots
  <2>3. k = l
    BY <1>0, <2>1, <2>2 DEF SlotOf
  <2>4. w \div PageSize(l + 1) = (w \div PageSize(l)) \div ENTRIES
    BY <1>0, SameAbove1
  <2>5. Same(v, w, l + 1)
    BY <2>1, <2>2, <2>3, <2>4 DEF Same, SlotOf
  <2> QED  BY <2>2, <2>3, <2>5
<1> QED  BY <1>1, <1>2

-----------------------------------------------------------------------------
(* The leaves of a mapping: at each of its pages the largest block that    *)
(* lies in the mapping and is led to aligned frames.                       *)

FitsIn(m, v, level) ==
  /\ \A w \in VirtPage : Same(v, w, level) => w \in PagesOf(m)
  /\ FrameOf(m, Base(v, level)) % PageSize(level) = 0

Touches(m, v, level) == \E w \in PagesOf(m) : Same(v, w, level)

\* Whether the page's entry of a level is a leaf of the mapping, or leads to one.
Ends(m, v, level) == FitsIn(m, v, level) /\ \A k \in level + 1 .. TOP : ~FitsIn(m, v, k)
Through(m, v, level) == Touches(m, v, level) /\ \A k \in level .. TOP : ~FitsIn(m, v, k)

LEMMA MappingType ==
  ASSUME NEW m \in Mapping
  PROVE  /\ m.virt \in Nat /\ m.phys \in Nat /\ m.size \in Nat /\ m.virt \in PagesOf(m)
         /\ PagesOf(m) \subseteq VirtPage /\ PagesOf(m) = m.virt .. m.virt + m.size - 1
         /\ m.virt + m.size \in 0 .. VIRT_END
         /\ \A v \in PagesOf(m) : FrameOf(m, v) \in PhysPage /\ FrameOf(m, v) \in Nat
         /\ PhysPage \subseteq Nat /\ VirtPage \subseteq Nat
  BY Addresses, TableAssumption DEF Mapping, PagesOf, PhysPage, FrameOf, VirtPage

LEMMA FitsSame ==
  ASSUME NEW m, NEW v \in VirtPage, NEW w \in VirtPage, NEW l \in Level, Same(v, w, l)
  PROVE  FitsIn(m, v, l) <=> FitsIn(m, w, l)
<1>1. Base(v, l) = Base(w, l)
  BY SameBase, Levels, Addresses
<1>2. \A u : Same(v, u, l) <=> Same(w, u, l)
  BY DEF Same
<1> QED  BY <1>1, <1>2 DEF FitsIn

LEMMA FitsAbove ==
  ASSUME NEW m, NEW v \in VirtPage, NEW w \in VirtPage, NEW l \in Level, Same(v, w, l)
  PROVE  \A k \in l .. TOP : Same(v, w, k) /\ k \in Level /\ (FitsIn(m, v, k) <=> FitsIn(m, w, k))
<1>1. l \in Nat /\ v \in Nat /\ w \in Nat /\ \A k \in l .. TOP : k \in Level /\ k \in Nat /\ l <= k
  BY Levels, Addresses
<1>2. \A k \in l .. TOP : Same(v, w, k)
  BY <1>1, SameAbove
<1> QED  BY <1>1, <1>2, FitsSame

LEMMA EndsSame ==
  ASSUME NEW m, NEW v \in VirtPage, NEW w \in VirtPage, NEW l \in Level, Same(v, w, l)
  PROVE  /\ Ends(m, v, l) <=> Ends(m, w, l)
         /\ Through(m, v, l) <=> Through(m, w, l)
<1>1. \A k \in l .. TOP : FitsIn(m, v, k) <=> FitsIn(m, w, k)
  BY FitsAbove
<1>2. \A k \in l + 1 .. TOP : k \in l .. TOP
  BY Levels
<1>3. l \in l .. TOP
  BY Levels
<1>4. Touches(m, v, l) <=> Touches(m, w, l)
  BY DEF Touches, Same
<1> QED  BY <1>1, <1>2, <1>3, <1>4 DEF Ends, Through

LEMMA FitsPages ==
  ASSUME NEW m \in Mapping, NEW v \in VirtPage, NEW l \in Level
  PROVE  /\ FitsIn(m, v, l) => v \in PagesOf(m) /\ \A w \in VirtPage : Same(v, w, l) => w \in PagesOf(m)
         /\ v \in PagesOf(m) => FitsIn(m, v, 0) /\ Touches(m, v, l)
<1>1. v \in Nat /\ Same(v, v, l)
  BY Addresses DEF Same
<1>2. ASSUME v \in PagesOf(m) PROVE FitsIn(m, v, 0)
  <2>1. \A w \in VirtPage : Same(v, w, 0) => w = v
    <3>1. VirtPage \subseteq Nat
      BY Addresses
    <3> QED  BY <1>1, <3>1, BottomSame
  <2>2. PageSize(0) = 1 /\ FrameOf(m, Base(v, 0)) \in Nat
    BY <1>1, <1>2, BottomSame, MappingType
  <2> QED  BY <1>2, <2>1, <2>2 DEF FitsIn
<1> QED  BY <1>1, <1>2 DEF FitsIn, Touches

\* Every page of a mapping has exactly one leaf of it.
LEMMA LeafLevel ==
  ASSUME NEW m \in Mapping, NEW v \in PagesOf(m)
  PROVE  \E l \in Level : Ends(m, v, l) /\ \A k \in l + 1 .. TOP : Through(m, v, k)
<1>1. v \in VirtPage /\ LEVELS \in Nat /\ TOP \in Nat /\ TOP + 1 = LEVELS /\ Level = 0 .. TOP
  BY MappingType, Levels
<1>2. PICK T : T = {n \in 1 .. LEVELS : FitsIn(m, v, n - 1)}
  OBVIOUS
<1>3. 1 \in T
  <2>1. 0 \in Level /\ 1 \in 1 .. LEVELS /\ 1 - 1 = 0
    BY <1>1
  <2> QED  BY <1>1, <1>2, <2>1, FitsPages
<1>4. PICK n \in T : \A y \in T : y <= n
  <2>1. T \in SUBSET (1 .. LEVELS) /\ T # {}
    BY <1>2, <1>3
  <2> QED  BY <1>1, <2>1, GreatestNumber
<1>5. PICK l : l = n - 1
  OBVIOUS
<1>6. l \in Level /\ FitsIn(m, v, l) /\ n \in Nat /\ n = l + 1
  BY <1>1, <1>2, <1>4, <1>5
<1>7. ASSUME NEW k \in l + 1 .. TOP PROVE ~FitsIn(m, v, k)
  <2>1. k + 1 \in 1 .. LEVELS /\ (k + 1) - 1 = k /\ k + 1 > n
    BY <1>1, <1>6
  <2>2. k + 1 \notin T
    BY <1>1, <1>2, <1>4, <1>6, <2>1
  <2> QED  BY <1>2, <2>1, <2>2
<1>8. ASSUME NEW k \in l + 1 .. TOP PROVE Through(m, v, k)
  <2>1. k \in Level /\ \A j \in k .. TOP : j \in l + 1 .. TOP
    BY <1>1, <1>6
  <2> QED  BY <1>1, <1>7, <2>1, FitsPages DEF Through
<1> QED  BY <1>6, <1>7, <1>8 DEF Ends

LEMMA EndsNotThrough ==
  ASSUME NEW m, NEW v, NEW l \in Level
  PROVE  ~(Ends(m, v, l) /\ Through(m, v, l))
<1>1. l \in l .. TOP
  BY Levels
<1> QED  BY <1>1 DEF Ends, Through

-----------------------------------------------------------------------------
(* Where the walk of a mapping goes.                                       *)

Cuts(w) == align_by(w, PageSize(w.level))
Ranges(m, w) ==
  {Cuts(w).prefix, Cuts(w).suffix} \cup
  (IF LeavesFit(m, Cuts(w).aligned, w.level) THEN {}
   ELSE {Interval(v, v + PageSize(w.level)) : v \in Steps(Cuts(w).aligned, PageSize(w.level))})
OwnLeaves(m, w) ==
  IF LeavesFit(m, Cuts(w).aligned, w.level)
    THEN {LeafAt(m, v, w.level) : v \in Steps(Cuts(w).aligned, PageSize(w.level))} ELSE {}

Walk(range, level) == [start |-> range.start, end |-> range.end, level |-> level]
SubWalks(m, w) == {Walk(r, w.level - 1) : r \in {r \in Ranges(m, w) : r.start < r.end}}

\* The leaves from a level down, as the code finds them.
LeavesFrom(m, f, w) == OwnLeaves(m, w) \cup UNION {f[x] : x \in SubWalks(m, w)}

LeafData == [level : Level, virt : 0 .. VIRT_END, phys : Int]

LEMMA WalkType ==
  ASSUME NEW w \in Walks
  PROVE  /\ w.start \in Nat /\ w.end \in Nat /\ w.end <= VIRT_END /\ w.level \in Level /\ w.level \in Nat
         /\ w.level \in 0 .. LEVELS /\ PageSize(w.level) \in Nat \ {0}
         /\ VirtPage = 0 .. VIRT_END - 1 /\ VIRT_END \in Nat /\ w.start <= VIRT_END
         /\ w.level + 1 \in 0 .. LEVELS
<1>1. w.start \in 0 .. VIRT_END /\ w.end \in 0 .. VIRT_END /\ w.level \in Level
  BY DEF Walks
<1>2. w.level \in Nat /\ w.level \in 0 .. LEVELS /\ w.level + 1 \in 0 .. LEVELS
  BY <1>1, Levels
<1>3. PageSize(w.level) \in Nat \ {0}
  BY <1>2, SizePositive
<1> QED  BY <1>1, <1>2, <1>3, Addresses

\* Where the range of a walk is cut: at the first and the last multiple in it.
CutAt(w, a, b) ==
  /\ a \in Nat /\ a % PageSize(w.level) = 0 /\ w.start <= a /\ a < w.start + PageSize(w.level)
  /\ a >= w.end => /\ Cuts(w).prefix = w
                   /\ Cuts(w).aligned = Interval(0, 0) /\ Cuts(w).suffix = Interval(w.end, w.end)
  /\ a < w.end => /\ b \in Nat /\ b % PageSize(w.level) = 0
                  /\ a <= b /\ b <= w.end /\ w.end < b + PageSize(w.level)
                  /\ Cuts(w).prefix = Interval(w.start, a)
                  /\ Cuts(w).aligned = Interval(a, b) /\ Cuts(w).suffix = Interval(b, w.end)

LEMMA CutIs ==
  ASSUME NEW w \in Walks
  PROVE  \E a, b : CutAt(w, a, b)
<1>1. PICK p, s, e : p = PageSize(w.level) /\ s = w.start /\ e = w.end
  OBVIOUS
<1>2. p \in Nat \ {0} /\ s \in Nat /\ e \in Nat
  BY <1>1, WalkType
<1>3. PICK a : a = NextMultipleOf(s, p)
  OBVIOUS
<1>4. a \in Nat /\ a % p = 0 /\ s <= a /\ a < s + p
  BY <1>2, <1>3, NextMultipleIs
<1>5. PICK b : b = (e \div p) * p
  OBVIOUS
<1>6. b \in Nat /\ b % p = 0 /\ b <= e /\ e < b + p
  BY <1>2, <1>5, LastMultipleIs
<1>7. ASSUME a < e PROVE a <= b
  <2>1. b < a => b + p <= a
    BY <1>2, <1>4, <1>6, NextMultiple
  <2> QED  BY <1>2, <1>4, <1>6, <1>7, <2>1
<1>8. Cuts(w) = IF a >= e
                THEN [prefix |-> w, aligned |-> Interval(0, 0), suffix |-> Interval(e, e)]
                ELSE [prefix |-> Interval(s, a), aligned |-> Interval(a, b), suffix |-> Interval(b, e)]
  BY <1>1, <1>3, <1>5 DEF Cuts, align_by
<1>9. CutAt(w, a, b)
  BY <1>1, <1>2, <1>4, <1>6, <1>7, <1>8 DEF CutAt
<1> QED  BY <1>9

LEMMA IntervalEnds == \A a, b : Interval(a, b).start = a /\ Interval(a, b).end = b
  BY DEF Interval

\* The blocks of the aligned part.
LEMMA StepPages ==
  ASSUME NEW w \in Walks, NEW a, NEW b, CutAt(w, a, b), NEW v \in Steps(Cuts(w).aligned, PageSize(w.level))
  PROVE  /\ a < w.end /\ v \in Nat /\ v % PageSize(w.level) = 0 /\ a <= v /\ v + PageSize(w.level) <= b
         /\ v < v + PageSize(w.level) /\ v + PageSize(w.level) <= w.end
<1>1. PICK p : p = PageSize(w.level)
  OBVIOUS
<1>2. p \in Nat \ {0} /\ w.start \in Nat /\ w.end \in Nat
  BY <1>1, WalkType
<1>3. v \in Cuts(w).aligned.start .. Cuts(w).aligned.end - 1 /\ v % p = 0
  BY <1>1 DEF Steps
<1>4. CASE a >= w.end
  <2>1. Cuts(w).aligned.start = 0 /\ Cuts(w).aligned.end = 0
    BY <1>4, IntervalEnds DEF CutAt
  <2> QED  BY <1>3, <2>1
<1>5. CASE a < w.end
  <2>1. Cuts(w).aligned.start = a /\ Cuts(w).aligned.end = b
    BY <1>5, IntervalEnds DEF CutAt
  <2>2. a \in Nat /\ b \in Nat /\ b % p = 0 /\ b <= w.end
    BY <1>1, <1>5 DEF CutAt
  <2>3. v \in Nat /\ a <= v /\ v < b
    BY <1>3, <2>1, <2>2
  <2>4. v + p <= b
    BY <1>2, <1>3, <2>2, <2>3, NextMultiple
  <2> QED  BY <1>1, <1>2, <1>3, <1>5, <2>2, <2>3, <2>4
<1>6. a \in Nat
  BY DEF CutAt
<1> QED  BY <1>2, <1>4, <1>5, <1>6

LEMMA SubWalkType ==
  ASSUME NEW m \in Mapping, NEW w \in Walks, NEW x \in SubWalks(m, w)
  PROVE  x \in Walks /\ w.level # 0 /\ x.level = w.level - 1 /\ x.level < w.level
<1>1. PICK a, b : CutAt(w, a, b)
  BY CutIs
<1>2. PICK r \in Ranges(m, w) : r.start < r.end /\ x = Walk(r, w.level - 1)
  BY DEF SubWalks
<1>3. PICK p, s, e, l : p = PageSize(w.level) /\ s = w.start /\ e = w.end /\ l = w.level
  OBVIOUS
<1>4. p \in Nat \ {0} /\ s \in Nat /\ e \in Nat /\ e <= VIRT_END /\ VIRT_END \in Nat /\ l \in Level /\ l \in Nat
  BY <1>3, WalkType
<1>5. ASSUME l = 0 PROVE p = 1 /\ a = s /\ (a < e => b = e)
  <2>1. p = 1
    BY <1>3, <1>5, BottomSame
  <2> QED  BY <1>1, <1>3, <1>4, <2>1 DEF CutAt
<1>6. CASE r = Cuts(w).prefix
  <2>1. CASE a >= e
    <3>1. r = w
      BY <1>1, <1>3, <1>6, <2>1 DEF CutAt
    <3>2. s < e
      BY <1>2, <1>3, <3>1
    <3>3. l # 0
      BY <1>4, <1>5, <2>1, <3>2
    <3>4. x = [start |-> s, end |-> e, level |-> l - 1]
      BY <1>2, <1>3, <3>1 DEF Walk
    <3>5. s \in 0 .. VIRT_END /\ e \in 0 .. VIRT_END /\ l - 1 \in Level
      BY <1>4, <3>2, <3>3, Levels
    <3> QED  BY <1>3, <1>4, <3>3, <3>4, <3>5 DEF Walks
  <2>2. CASE a < e
    <3>1. r = Interval(s, a) /\ a \in Nat
      BY <1>1, <1>3, <1>6, <2>2 DEF CutAt
    <3>2. r.start = s /\ r.end = a
      BY <3>1, IntervalEnds
    <3>3. l # 0
      BY <1>2, <1>4, <1>5, <3>1, <3>2
    <3>4. x = [start |-> s, end |-> a, level |-> l - 1]
      BY <1>2, <1>3, <3>2 DEF Walk
    <3>5. s \in 0 .. VIRT_END /\ a \in 0 .. VIRT_END /\ l - 1 \in Level
      BY <1>2, <1>4, <2>2, <3>1, <3>2, <3>3, Levels
    <3> QED  BY <1>3, <1>4, <3>3, <3>4, <3>5 DEF Walks
  <2>3. a \in Nat
    BY <1>1 DEF CutAt
  <2> QED  BY <1>4, <2>1, <2>2, <2>3
<1>7. CASE r = Cuts(w).suffix
  <2>1. CASE a >= e
    <3>1. r = Interval(e, e)
      BY <1>1, <1>3, <1>7, <2>1 DEF CutAt
    <3> QED  BY <1>2, <1>4, <3>1, IntervalEnds
  <2>2. CASE a < e
    <3>1. r = Interval(b, e) /\ b \in Nat /\ b <= e
      BY <1>1, <1>3, <1>7, <2>2 DEF CutAt
    <3>2. r.start = b /\ r.end = e
      BY <3>1, IntervalEnds
    <3>3. l # 0
      BY <1>2, <1>4, <1>5, <2>2, <3>1, <3>2
    <3>4. x = [start |-> b, end |-> e, level |-> l - 1]
      BY <1>2, <1>3, <3>2 DEF Walk
    <3>5. b \in 0 .. VIRT_END /\ e \in 0 .. VIRT_END /\ l - 1 \in Level
      BY <1>2, <1>4, <3>1, <3>2, <3>3, Levels
    <3> QED  BY <1>3, <1>4, <3>3, <3>4, <3>5 DEF Walks
  <2>3. a \in Nat
    BY <1>1 DEF CutAt
  <2> QED  BY <1>4, <2>1, <2>2, <2>3
<1>8. CASE /\ ~LeavesFit(m, Cuts(w).aligned, w.level)
           /\ \E v \in Steps(Cuts(w).aligned, PageSize(w.level)) : r = Interval(v, v + PageSize(w.level))
  <2>1. PICK v \in Steps(Cuts(w).aligned, PageSize(w.level)) : r = Interval(v, v + p)
    BY <1>3, <1>8
  <2>2. a < e /\ v \in Nat /\ a <= v /\ v + p <= e
    BY <1>1, <1>3, StepPages
  <2>3. r.start = v /\ r.end = v + p
    BY <2>1, IntervalEnds
  <2>4. l # 0
    <3>1. SUFFICES ASSUME l = 0 PROVE FALSE
      OBVIOUS
    <3>2. p = 1 /\ a \in Nat /\ Cuts(w).aligned.start = a
      BY <1>1, <1>3, <1>5, <2>2, <3>1, IntervalEnds DEF CutAt
    <3>3. FrameOf(m, a) \in Int
      BY <3>2, MappingType DEF FrameOf
    <3>4. FrameOf(m, a) % 1 = 0
      BY <3>3
    <3> QED  BY <1>3, <1>8, <3>2, <3>4 DEF LeavesFit
  <2>5. x = [start |-> v, end |-> v + p, level |-> l - 1]
    BY <1>2, <1>3, <2>3 DEF Walk
  <2>6. v \in 0 .. VIRT_END /\ v + p \in 0 .. VIRT_END /\ l - 1 \in Level
    BY <1>4, <2>2, <2>4, Levels
  <2> QED  BY <1>3, <1>4, <2>4, <2>5, <2>6 DEF Walks
<1> QED  BY <1>6, <1>7, <1>8 DEF Ranges

LEMMA OwnLeavesType ==
  ASSUME NEW m \in Mapping, NEW w \in Walks
  PROVE  OwnLeaves(m, w) \in SUBSET LeafData
<1>1. PICK a, b : CutAt(w, a, b)
  BY CutIs
<1>2. ASSUME NEW v \in Steps(Cuts(w).aligned, PageSize(w.level)) PROVE LeafAt(m, v, w.level) \in LeafData
  <2>1. v \in Nat /\ v < v + PageSize(w.level) /\ v + PageSize(w.level) <= w.end
    BY <1>1, StepPages
  <2>2. v \in 0 .. VIRT_END /\ w.level \in Level
    BY <2>1, WalkType
  <2>3. FrameOf(m, v) \in Int
    BY <2>1, MappingType DEF FrameOf
  <2> QED  BY <2>2, <2>3 DEF LeafAt, LeafData
<1> QED  BY <1>2 DEF OwnLeaves

LEMMA RangesType ==
  ASSUME NEW m \in Mapping, NEW w \in Walks, NEW r \in Ranges(m, w)
  PROVE  r.start \in Nat /\ r.end \in Nat
<1>1. PICK a, b : CutAt(w, a, b)
  BY CutIs
<1>2. w.start \in Nat /\ w.end \in Nat /\ a \in Nat
  BY <1>1, WalkType DEF CutAt
<1>3. CASE r \in {Cuts(w).prefix, Cuts(w).suffix}
  <2>1. CASE a >= w.end
    BY <1>1, <1>2, <1>3, <2>1, IntervalEnds DEF CutAt
  <2>2. CASE a < w.end
    <3>1. b \in Nat /\ r \in {Interval(w.start, a), Interval(b, w.end)}
      BY <1>1, <1>3, <2>2 DEF CutAt
    <3> QED  BY <1>2, <3>1, IntervalEnds
  <2> QED  BY <1>2, <2>1, <2>2
<1>4. CASE \E v \in Steps(Cuts(w).aligned, PageSize(w.level)) : r = Interval(v, v + PageSize(w.level))
  <2>1. PICK v \in Steps(Cuts(w).aligned, PageSize(w.level)) : r = Interval(v, v + PageSize(w.level))
    BY <1>4
  <2>2. v \in Nat /\ PageSize(w.level) \in Nat
    BY <1>1, StepPages, WalkType
  <2> QED  BY <2>1, <2>2, IntervalEnds
<1> QED  BY <1>3, <1>4 DEF Ranges

LEMMA ImplIs ==
  ASSUME NEW m \in Mapping, NEW w \in Walks, NEW f
  PROVE  impl(m, f, w) = LeavesFrom(m, f, w)
<1>1. ASSUME NEW r \in Ranges(m, w)
      PROVE  Below(f, w, r) = IF r.start < r.end THEN f[Walk(r, w.level - 1)] ELSE {}
  BY RangesType DEF Below, Walk
<1>2. ASSUME NEW y PROVE y \in UNION {f[x] : x \in SubWalks(m, w)} <=> \E r \in Ranges(m, w) : y \in Below(f, w, r)
  <2>1. ASSUME NEW r \in Ranges(m, w), y \in Below(f, w, r) PROVE y \in UNION {f[x] : x \in SubWalks(m, w)}
    <3>1. r.start < r.end /\ y \in f[Walk(r, w.level - 1)]
      BY <1>1, <2>1
    <3>2. Walk(r, w.level - 1) \in SubWalks(m, w)
      BY <3>1 DEF SubWalks
    <3> QED  BY <3>1, <3>2
  <2>2. ASSUME NEW x \in SubWalks(m, w), y \in f[x] PROVE \E r \in Ranges(m, w) : y \in Below(f, w, r)
    <3>1. PICK r \in Ranges(m, w) : r.start < r.end /\ x = Walk(r, w.level - 1)
      BY DEF SubWalks
    <3> QED  BY <1>1, <2>2, <3>1
  <2> QED  BY <2>1, <2>2
<1>4. CASE LeavesFit(m, Cuts(w).aligned, w.level)
  <2>1. impl(m, f, w) = Below(f, w, Cuts(w).prefix) \cup OwnLeaves(m, w) \cup Below(f, w, Cuts(w).suffix)
    BY <1>4 DEF impl, OwnLeaves, Cuts
  <2>2. Ranges(m, w) = {Cuts(w).prefix, Cuts(w).suffix}
    BY <1>4 DEF Ranges
  <2>3. ASSUME NEW y PROVE y \in impl(m, f, w) <=> y \in LeavesFrom(m, f, w)
    <3>1. y \in LeavesFrom(m, f, w) <=> y \in OwnLeaves(m, w) \/ \E r \in Ranges(m, w) : y \in Below(f, w, r)
      BY <1>2 DEF LeavesFrom
    <3> QED  BY <2>1, <2>2, <3>1
  <2> QED  BY <2>3
<1>5. CASE ~LeavesFit(m, Cuts(w).aligned, w.level)
  <2>1. PICK steps, size : steps = Steps(Cuts(w).aligned, size) /\ size = PageSize(w.level)
    OBVIOUS
  <2>2. PICK M : M = UNION {Below(f, w, Interval(v, v + size)) : v \in steps}
    OBVIOUS
  <2>3. impl(m, f, w) = Below(f, w, Cuts(w).prefix) \cup M \cup Below(f, w, Cuts(w).suffix)
    <3>1. M = UNION {Below(f, w, Interval(v, v + PageSize(w.level))) : v \in Steps(Cuts(w).aligned, PageSize(w.level))}
      BY <2>1, <2>2, Zenon
    <3> QED  BY <1>5, <3>1 DEF impl, Cuts
  <2>4. Ranges(m, w) = {Cuts(w).prefix, Cuts(w).suffix} \cup {Interval(v, v + size) : v \in steps}
    BY <1>5, <2>1 DEF Ranges
  <2>5. OwnLeaves(m, w) = {}
    BY <1>5 DEF OwnLeaves
  <2>6. ASSUME NEW y PROVE y \in impl(m, f, w) <=> y \in LeavesFrom(m, f, w)
    <3>1. y \in LeavesFrom(m, f, w) <=> \E r \in Ranges(m, w) : y \in Below(f, w, r)
      BY <1>2, <2>5 DEF LeavesFrom
    <3>2. y \in M <=> \E v \in steps : y \in Below(f, w, Interval(v, v + size))
      BY <2>2
    <3>3. (\E r \in Ranges(m, w) : y \in Below(f, w, r)) <=>
             \/ y \in Below(f, w, Cuts(w).prefix) \/ y \in Below(f, w, Cuts(w).suffix)
             \/ \E v \in steps : y \in Below(f, w, Interval(v, v + size))
      BY <2>4
    <3> QED  BY <2>3, <3>1, <3>2, <3>3
  <2> QED  BY <2>6
<1> QED  BY <1>4, <1>5

LEMMA LeavesExist ==
  ASSUME NEW m \in Mapping
  PROVE  \E f : f = [w \in Walks |-> LeavesFrom(m, f, w)]
<1> DEFINE V == SUBSET LeafData
           S == [f \in [Walks -> V] |-> [w \in Walks |-> LeavesFrom(m, f, w)]]
           rank == [w \in Walks |-> w.level]
<1>1. ASSUME NEW f \in [Walks -> V], NEW w \in Walks PROVE LeavesFrom(m, f, w) \in V
  <2>1. ASSUME NEW x \in SubWalks(m, w) PROVE f[x] \in V
    BY SubWalkType
  <2>2. OwnLeaves(m, w) \in V
    BY OwnLeavesType
  <2> QED  BY <2>1, <2>2 DEF LeavesFrom
<1>2. S \in [[Walks -> V] -> [Walks -> V]]
  BY <1>1
<1>3. TOP \in Nat /\ rank \in [Walks -> 0 .. TOP]
  BY Levels DEF Walks
<1>4. Determined(S, Walks, V, rank)
  <2> SUFFICES ASSUME NEW f \in [Walks -> V], NEW g \in [Walks -> V], NEW w \in Walks,
                      \A x \in Walks : rank[x] < rank[w] => f[x] = g[x]
               PROVE  LeavesFrom(m, f, w) = LeavesFrom(m, g, w)
    BY DEF Determined
  <2>1. ASSUME NEW x \in SubWalks(m, w) PROVE f[x] = g[x]
    <3>1. x \in Walks /\ x.level < w.level
      BY SubWalkType
    <3> QED  BY <3>1
  <2>2. {f[x] : x \in SubWalks(m, w)} = {g[x] : x \in SubWalks(m, w)}
    BY <2>1
  <2> QED  BY <2>2 DEF LeavesFrom
<1>5. {} \in V
  OBVIOUS
<1>6. \E f : IsFixedPoint(f, S, Walks, V)
  <2>1. PICK T, F, k, b : T = V /\ F = S /\ k = rank /\ b = {}
    OBVIOUS
  <2> HIDE DEF S, rank, V
  <2>2. b \in T /\ F \in [[Walks -> T] -> [Walks -> T]] /\ k \in [Walks -> 0 .. TOP] /\ Determined(F, Walks, T, k)
    BY <1>2, <1>3, <1>4, <1>5, <2>1
  <2>3. \E f : IsFixedPoint(f, F, Walks, T)
    BY <1>3, <2>2, FixedPoint
  <2> QED  BY <2>1, <2>3
<1> QED  BY <1>6 DEF IsFixedPoint

LEMMA LeavesEquation ==
  ASSUME NEW m \in Mapping, NEW w \in Walks
  PROVE  LeavesIn(m)[w] = LeavesFrom(m, LeavesIn(m), w)
<1>1. PICK f : f = [x \in Walks |-> LeavesFrom(m, f, x)]
  BY LeavesExist
<1>2. f = [x \in Walks |-> impl(m, f, x)]
  BY <1>1, ImplIs
<1>3. PICK g : g = LeavesIn(m)
  OBVIOUS
<1>4. g = [x \in Walks |-> impl(m, g, x)]
  BY <1>2, <1>3 DEF LeavesIn
<1>5. g[w] = impl(m, g, w)
  BY <1>4
<1> QED  BY <1>3, <1>5, ImplIs

-----------------------------------------------------------------------------
(* The walk finds the blocks of the mapping.                               *)

\* The walks that are made: they cover what the mapping has in one block of
\* the level above, and nothing there fits into a leaf of a level above.
Inside(w, u) == u \in VirtPage /\ w.start <= u /\ u < w.end
Good(m, w) ==
  /\ w \in Walks /\ w.start < w.end
  /\ \A u \in VirtPage : Inside(w, u) <=> u \in PagesOf(m) /\ Same(w.start, u, w.level + 1)
  /\ \A u \in VirtPage : Inside(w, u) => \A k \in w.level + 1 .. TOP : ~FitsIn(m, u, k)

LEMMA GoodStart ==
  ASSUME NEW m \in Mapping, NEW w, Good(m, w)
  PROVE  w.start \in VirtPage /\ Inside(w, w.start) /\ w.start \in PagesOf(m)
<1>1. w.start \in Nat /\ w.end \in Nat /\ w.end <= VIRT_END /\ w.start < w.end /\ VIRT_END \in Nat
  BY WalkType DEF Good
<1>2. w.start \in VirtPage
  BY <1>1, Addresses
<1>3. Inside(w, w.start)
  BY <1>1, <1>2 DEF Inside
<1> QED  BY <1>2, <1>3 DEF Good

\* The pages of a good walk's range are those near any of them.
LEMMA GoodNear ==
  ASSUME NEW m \in Mapping, NEW w, Good(m, w), NEW v, Inside(w, v), NEW u \in VirtPage,
         Same(v, u, w.level)
  PROVE  Inside(w, u) <=> u \in PagesOf(m)
<1>1. w \in Walks /\ v \in VirtPage /\ Same(w.start, v, w.level + 1)
  BY DEF Good, Inside
<1>2. w.level \in Nat /\ v \in Nat /\ u \in Nat
  BY <1>1, WalkType, Addresses
<1>3. Same(v, u, w.level + 1)
  BY <1>2, SameAbove
<1>4. Same(w.start, u, w.level + 1)
  BY <1>1, <1>3 DEF Same
<1> QED  BY <1>4 DEF Good

\* When a part of a good walk is a good walk.
LEMMA GoodPart ==
  ASSUME NEW m \in Mapping, NEW w, Good(m, w), NEW x \in Walks,
         w.level # 0, x.level = w.level - 1, x.start < x.end, w.start <= x.start, x.end <= w.end,
         \A u \in VirtPage : Inside(w, u) => (Inside(x, u) <=> Same(x.start, u, w.level)),
         ~FitsIn(m, x.start, w.level)
  PROVE  Good(m, x)
<1>1. w \in Walks /\ x.level + 1 = w.level /\ w.level \in Nat /\ w.level \in Level
  BY WalkType DEF Good
<1>2. x.start \in Nat /\ x.end \in Nat /\ w.start \in Nat /\ w.end \in Nat /\ w.end <= VIRT_END /\ VIRT_END \in Nat
  BY <1>1, WalkType
<1>3. x.start \in VirtPage /\ Inside(w, x.start)
  <2>1. x.start \in VirtPage
    BY <1>2, Addresses
  <2> QED  BY <1>2, <2>1 DEF Inside
<1>4. ASSUME NEW u \in VirtPage, Inside(x, u) PROVE Inside(w, u)
  <2>1. u \in Nat
    BY Addresses
  <2> QED  BY <1>2, <1>4, <2>1 DEF Inside
<1>5. ASSUME NEW u \in VirtPage PROVE Inside(x, u) <=> u \in PagesOf(m) /\ Same(x.start, u, w.level)
  <2>1. ASSUME Inside(x, u) PROVE u \in PagesOf(m) /\ Same(x.start, u, w.level)
    BY <1>4, <2>1 DEF Good
  <2>2. ASSUME u \in PagesOf(m), Same(x.start, u, w.level) PROVE Inside(x, u)
    <3>1. Inside(w, u)
      BY <1>3, <2>2, GoodNear
    <3> QED  BY <2>2, <3>1
  <2> QED  BY <2>1, <2>2
<1>6. ASSUME NEW u \in VirtPage, Inside(x, u), NEW k \in w.level .. TOP PROVE ~FitsIn(m, u, k)
  <2>1. CASE k = w.level
    BY <1>1, <1>3, <1>5, <1>6, <2>1, FitsSame
  <2>2. CASE k # w.level
    <3>1. k \in w.level + 1 .. TOP
      BY <1>1, <2>2, Levels
    <3> QED  BY <1>4, <1>6, <3>1 DEF Good
  <2> QED  BY <2>1, <2>2
<1> QED  BY <1>1, <1>5, <1>6 DEF Good

\* What is left below the first multiple.
LEMMA GoodPrefix ==
  ASSUME NEW m \in Mapping, NEW w, Good(m, w), NEW a, NEW b, CutAt(w, a, b), NEW x \in Walks,
         w.level # 0, x.level = w.level - 1, x.start < x.end, x.start = w.start,
         x.end = IF a >= w.end THEN w.end ELSE a
  PROVE  Good(m, x)
<1>1. PICK p, s, e, l : p = PageSize(w.level) /\ s = w.start /\ e = w.end /\ l = w.level
  OBVIOUS
<1>2. w \in Walks
  BY DEF Good
<1>3. p \in Nat \ {0} /\ s \in Nat /\ e \in Nat /\ l \in Nat /\ l \in 0 .. LEVELS
  BY <1>1, <1>2, WalkType
<1>4. a \in Nat /\ a % p = 0 /\ s <= a /\ a < s + p
  BY <1>1 DEF CutAt
<1>5. PICK t : t = x.end
  OBVIOUS
<1>6. t \in Nat /\ s < t /\ t <= a /\ t <= e /\ (t = a \/ t = e)
  BY <1>1, <1>3, <1>4, <1>5
<1>7. PICK c : c = Base(s, l)
  OBVIOUS
<1>8. c \in Nat /\ c % p = 0 /\ c <= s /\ s < c + p /\ Same(c, s, l)
  BY <1>1, <1>3, <1>7, Bases
<1>9. c < s
  <2>1. SUFFICES ASSUME c = s PROVE FALSE
    BY <1>3, <1>8
  <2>2. s % p = 0 /\ s < a
    BY <1>3, <1>4, <1>6, <1>8, <2>1
  <2>3. s + p <= a
    BY <1>3, <1>4, <2>2, NextMultiple
  <2> QED  BY <1>3, <1>4, <2>3
<1>10. a = c + p
  <2>0. c < a
    BY <1>3, <1>4, <1>8, <1>9
  <2>1. c + p <= a
    BY <1>3, <1>4, <1>8, <2>0, NextMultiple
  <2>2. SUFFICES ASSUME c + p < a PROVE FALSE
    BY <1>3, <1>4, <1>8, <2>1
  <2>3. (c + p) % p = 0
    <3>1. p % p = 0
      <4>1. p = p * 1 + 0 /\ 1 \in Nat /\ 0 \in 0 .. p - 1 /\ p \in Nat
        BY <1>3
      <4> QED  BY <1>3, <4>1, DivUnique
    <3> QED  BY <1>3, <1>8, <3>1, AddMultiple
  <2>4. PICK d \in Nat : d = c + p
    BY <1>3, <1>8
  <2>5. d + p <= a
    BY <1>3, <1>4, <2>2, <2>3, <2>4, NextMultiple
  <2> QED  BY <1>3, <1>4, <1>8, <2>4, <2>5
<1>11. ASSUME NEW u \in VirtPage, Inside(w, u) PROVE Inside(x, u) <=> Same(s, u, l)
  <2>1. u \in Nat /\ s <= u /\ u < e
    BY <1>1, <1>11, Addresses DEF Inside
  <2>2. Inside(x, u) <=> u < t
    BY <1>1, <1>5, <2>1 DEF Inside
  <2>3. u < t <=> u < c + p
    BY <1>3, <1>6, <1>10, <2>1
  <2>4. ASSUME u < c + p PROVE Same(s, u, l)
    <3>1. Same(c, u, l)
      BY <1>1, <1>3, <1>8, <2>1, <2>4, InBlock
    <3> QED  BY <1>8, <3>1 DEF Same
  <2>5. ASSUME Same(s, u, l) PROVE u < c + p
    <3>1. Base(u, l) = c
      BY <1>3, <1>7, <2>1, <2>5, SameBase
    <3> QED  BY <1>1, <1>3, <2>1, <3>1, Bases
  <2> QED  BY <2>2, <2>3, <2>4, <2>5
<1>12. ~FitsIn(m, s, l)
  <2>1. Inside(w, s) /\ s \in VirtPage
    BY <1>1, GoodStart
  <2>2. c \in VirtPage
    BY <1>3, <1>7, <2>1, Blocks
  <2>3. Same(s, c, l)
    BY <1>8 DEF Same
  <2>4. ~Inside(w, c)
    BY <1>1, <1>3, <1>8, <1>9 DEF Inside
  <2>5. c \notin PagesOf(m)
    BY <1>1, <2>1, <2>2, <2>3, <2>4, GoodNear
  <2> QED  BY <2>2, <2>3, <2>5 DEF FitsIn
<1>13. w.start <= x.start /\ x.end <= w.end
  BY <1>1, <1>3, <1>5, <1>6
<1> QED  BY <1>1, <1>11, <1>12, <1>13, GoodPart

\* What is left above the last multiple.
LEMMA GoodSuffix ==
  ASSUME NEW m \in Mapping, NEW w, Good(m, w), NEW a, NEW b, CutAt(w, a, b), NEW x \in Walks,
         w.level # 0, x.level = w.level - 1, x.start < x.end, a < w.end, x.start = b, x.end = w.end
  PROVE  Good(m, x)
<1>1. PICK p, s, e, l : p = PageSize(w.level) /\ s = w.start /\ e = w.end /\ l = w.level
  OBVIOUS
<1>2. w \in Walks
  BY DEF Good
<1>3. p \in Nat \ {0} /\ s \in Nat /\ e \in Nat /\ l \in Nat /\ l \in 0 .. LEVELS /\ l + 1 \in Nat
  BY <1>1, <1>2, WalkType
<1>4. a \in Nat /\ s <= a /\ a <= b /\ b \in Nat /\ b % p = 0 /\ b < e /\ e < b + p
  BY <1>1 DEF CutAt
<1>5. b \in VirtPage /\ Inside(w, b)
  <2>1. e <= VIRT_END /\ VIRT_END \in Nat
    BY <1>1, <1>2, WalkType
  <2>2. b \in VirtPage
    BY <1>3, <1>4, <2>1, Addresses
  <2>3. w.start <= b /\ b < w.end
    BY <1>1, <1>3, <1>4
  <2> QED  BY <2>2, <2>3 DEF Inside
<1>6. ASSUME NEW u \in VirtPage, Inside(w, u) PROVE Inside(x, u) <=> Same(b, u, l)
  <2>1. u \in Nat /\ s <= u /\ u < e
    BY <1>1, <1>6, Addresses DEF Inside
  <2>2. Inside(x, u) <=> b <= u
    BY <1>1, <2>1 DEF Inside
  <2>3. ASSUME b <= u PROVE Same(b, u, l)
    <3>1. u < b + p
      BY <1>3, <1>4, <2>1
    <3> QED  BY <1>1, <1>3, <1>4, <2>1, <2>3, <3>1, InBlock
  <2>4. ASSUME Same(b, u, l) PROVE b <= u
    <3>1. Base(b, l) = b
      BY <1>1, <1>3, <1>4, InBlock
    <3>2. Base(u, l) = b
      BY <1>3, <1>4, <2>1, <2>4, <3>1, SameBase
    <3> QED  BY <1>3, <2>1, <3>2, Bases
  <2> QED  BY <2>2, <2>3, <2>4
<1>7. ~FitsIn(m, b, l)
  <2>1. Same(b, e, l)
    <3>1. b <= e
      BY <1>3, <1>4
    <3> QED  BY <1>1, <1>3, <1>4, <3>1, InBlock
  <2>2. e \in VirtPage
    <3>1. e <= VIRT_END /\ VIRT_END \in Nat
      BY <1>1, <1>2, WalkType
    <3>2. SUFFICES ASSUME e = VIRT_END PROVE FALSE
      BY <1>3, <3>1, Addresses
    <3>3. e % p = 0
      BY <1>1, <1>3, <3>2, Blocks
    <3>4. b + p <= e
      BY <1>3, <1>4, <3>3, NextMultiple
    <3> QED  BY <1>3, <1>4, <3>4
  <2>3. ~Inside(w, e)
    BY <1>1, <1>3 DEF Inside
  <2>4. e \notin PagesOf(m)
    BY <1>1, <1>5, <2>1, <2>2, <2>3, GoodNear
  <2> QED  BY <2>1, <2>2, <2>4 DEF FitsIn
<1>8. w.start <= x.start /\ x.end <= w.end
  BY <1>1, <1>3, <1>4
<1> QED  BY <1>1, <1>6, <1>7, <1>8, GoodPart

\* The frames of the blocks of a walk are aligned or not together.
LEMMA BlockFrame ==
  ASSUME NEW m \in Mapping, NEW w, Good(m, w), NEW a, NEW b, CutAt(w, a, b),
         NEW v \in Nat, v % PageSize(w.level) = 0, a <= v, a < w.end
  PROVE  FrameOf(m, v) % PageSize(w.level) = 0 <=> LeavesFit(m, Cuts(w).aligned, w.level)
<1>1. PICK p : p = PageSize(w.level)
  OBVIOUS
<1>2. w \in Walks
  BY DEF Good
<1>3. p \in Nat \ {0} /\ w.start \in Nat /\ w.end \in Nat /\ w.end <= VIRT_END /\ VIRT_END \in Nat
  BY <1>1, <1>2, WalkType
<1>4. a \in Nat /\ a % p = 0 /\ w.start <= a
  BY <1>1 DEF CutAt
<1>5. Inside(w, a)
  <2>1. a \in VirtPage
    BY <1>3, <1>4, Addresses
  <2> QED  BY <1>4, <2>1 DEF Inside
<1>6. a \in PagesOf(m)
  BY <1>5 DEF Good, Inside
<1>7. PICK d \in Nat : v = a + d
  <2>1. v - a \in Nat /\ v = a + (v - a)
    BY <1>4
  <2> QED  BY <2>1
<1>8. d % p = 0
  <2>1. (a + d) % p = d % p
    BY <1>3, <1>4, AddMultiple
  <2> QED  BY <1>1, <1>7, <2>1
<1>9. PICK f \in Nat : f = FrameOf(m, a)
  BY <1>6, MappingType
<1>10. FrameOf(m, v) = d + f
  BY <1>4, <1>7, <1>9, MappingType DEF FrameOf
<1>11. (d + f) % p = f % p
  BY <1>3, <1>8, AddMultiple
<1>12. Cuts(w).aligned.start = a
  BY IntervalEnds DEF CutAt
<1> QED  BY <1>1, <1>9, <1>10, <1>11, <1>12 DEF LeavesFit

\* A block whose frames are not aligned.
LEMMA GoodMiddle ==
  ASSUME NEW m \in Mapping, NEW w, Good(m, w), NEW a, NEW b, CutAt(w, a, b), NEW x \in Walks,
         w.level # 0, x.level = w.level - 1,
         NEW v \in Steps(Cuts(w).aligned, PageSize(w.level)), x.start = v, x.end = v + PageSize(w.level),
         ~LeavesFit(m, Cuts(w).aligned, w.level)
  PROVE  Good(m, x)
<1>1. PICK p, s, e, l : p = PageSize(w.level) /\ s = w.start /\ e = w.end /\ l = w.level
  OBVIOUS
<1>2. w \in Walks
  BY DEF Good
<1>3. p \in Nat \ {0} /\ s \in Nat /\ e \in Nat /\ l \in Nat
  BY <1>1, <1>2, WalkType
<1>4. a < e /\ v \in Nat /\ v % p = 0 /\ a <= v /\ v + p <= e /\ v < v + p
  BY <1>1, <1>2, StepPages
<1>5. a \in Nat /\ s <= a
  BY <1>1 DEF CutAt
<1>6. ASSUME NEW u \in VirtPage, Inside(w, u) PROVE Inside(x, u) <=> Same(v, u, l)
  <2>1. u \in Nat
    BY Addresses
  <2>2. Inside(x, u) <=> v <= u /\ u < v + p
    BY <1>1 DEF Inside
  <2>3. ASSUME v <= u, u < v + p PROVE Same(v, u, l)
    BY <1>1, <1>3, <1>4, <2>1, <2>3, InBlock
  <2>4. ASSUME Same(v, u, l) PROVE v <= u /\ u < v + p
    <3>1. Base(v, l) = v
      BY <1>1, <1>3, <1>4, InBlock
    <3>2. Base(u, l) = v
      BY <1>3, <1>4, <2>1, <2>4, <3>1, SameBase
    <3>3. Base(u, l) <= u /\ u < Base(u, l) + PageSize(l)
      BY <1>3, <2>1, Bases
    <3> QED  BY <1>1, <3>2, <3>3
  <2> QED  BY <2>2, <2>3, <2>4
<1>7. ~FitsIn(m, v, l)
  <2>1. FrameOf(m, v) % p # 0
    BY <1>1, <1>4, BlockFrame
  <2>2. Base(v, l) = v
    BY <1>1, <1>3, <1>4, InBlock
  <2> QED  BY <1>1, <2>1, <2>2 DEF FitsIn
<1>8. w.start <= x.start /\ x.end <= w.end /\ x.start < x.end
  BY <1>1, <1>3, <1>4, <1>5
<1> QED  BY <1>1, <1>6, <1>7, <1>8, GoodPart

\* All the walks below a good one are good.
LEMMA GoodBelow ==
  ASSUME NEW m \in Mapping, NEW w, Good(m, w), NEW x \in SubWalks(m, w)
  PROVE  Good(m, x) /\ \A u : Inside(x, u) => Inside(w, u)
<1>1. w \in Walks
  BY DEF Good
<1>2. PICK a, b : CutAt(w, a, b)
  BY <1>1, CutIs
<1>3. x \in Walks /\ w.level # 0 /\ x.level = w.level - 1
  BY <1>1, SubWalkType
<1>4. PICK r \in Ranges(m, w) : r.start < r.end /\ x = Walk(r, w.level - 1)
  BY DEF SubWalks
<1>5. x.start = r.start /\ x.end = r.end /\ x.start < x.end
  BY <1>4 DEF Walk
<1>6. w.start \in Nat /\ w.end \in Nat /\ a \in Nat /\ w.start <= a /\ w.start < w.end
      /\ VirtPage \subseteq Nat /\ PageSize(w.level) \in Nat
  BY <1>1, <1>2, WalkType, Addresses DEF CutAt, Good
<1>7. CASE r = Cuts(w).prefix
  <2>1. x.start = w.start /\ x.end = IF a >= w.end THEN w.end ELSE a
    BY <1>2, <1>5, <1>6, <1>7, IntervalEnds DEF CutAt
  <2>2. \A u : Inside(x, u) => Inside(w, u)
    BY <1>6, <2>1 DEF Inside
  <2> QED  BY <1>2, <1>3, <1>5, <2>1, <2>2, GoodPrefix
<1>8. CASE r = Cuts(w).suffix
  <2>1. a < w.end
    <3>1. SUFFICES ASSUME a >= w.end PROVE FALSE
      BY <1>6
    <3> QED  BY <1>2, <1>5, <1>6, <1>8, <3>1, IntervalEnds DEF CutAt
  <2>2. x.start = b /\ x.end = w.end /\ b \in Nat /\ a <= b
    BY <1>2, <1>5, <1>8, <2>1, IntervalEnds DEF CutAt
  <2>3. \A u : Inside(x, u) => Inside(w, u)
    BY <1>6, <2>2 DEF Inside
  <2> QED  BY <1>2, <1>3, <1>5, <2>1, <2>2, <2>3, GoodSuffix
<1>9. CASE /\ ~LeavesFit(m, Cuts(w).aligned, w.level)
           /\ \E v \in Steps(Cuts(w).aligned, PageSize(w.level)) : r = Interval(v, v + PageSize(w.level))
  <2>1. PICK v \in Steps(Cuts(w).aligned, PageSize(w.level)) : r = Interval(v, v + PageSize(w.level))
    BY <1>9
  <2>2. x.start = v /\ x.end = v + PageSize(w.level)
    BY <1>5, <2>1, IntervalEnds
  <2>3. v \in Nat /\ a <= v /\ v + PageSize(w.level) <= w.end
    BY <1>1, <1>2, StepPages
  <2>4. \A u : Inside(x, u) => Inside(w, u)
    BY <1>6, <2>2, <2>3 DEF Inside
  <2> QED  BY <1>2, <1>3, <1>9, <2>1, <2>2, <2>4, GoodMiddle
<1> QED  BY <1>7, <1>8, <1>9 DEF Ranges

\* The leaves a good walk makes itself are the blocks of its level that fit.
LEMMA OwnLeavesAre ==
  ASSUME NEW m \in Mapping, NEW w, Good(m, w)
  PROVE  OwnLeaves(m, w) = {LeafAt(m, v, w.level) : v \in
           {v \in VirtPage : Inside(w, v) /\ Base(v, w.level) = v /\ FitsIn(m, v, w.level)}}
<1>0. PICK p, s, e, l : p = PageSize(w.level) /\ s = w.start /\ e = w.end /\ l = w.level
  OBVIOUS
<1>1. w \in Walks
  BY DEF Good
<1>2. p \in Nat \ {0} /\ s \in Nat /\ e \in Nat /\ l \in Nat /\ l \in 0 .. LEVELS /\ e <= VIRT_END
      /\ VIRT_END \in Nat /\ VirtPage = 0 .. VIRT_END - 1
  BY <1>0, <1>1, WalkType
<1>3. PICK a, b : CutAt(w, a, b)
  BY <1>1, CutIs
<1>4. a \in Nat /\ a % p = 0 /\ s <= a /\ a < s + p
  BY <1>0, <1>3 DEF CutAt
<1>5. PICK T : T = Steps(Cuts(w).aligned, p)
  OBVIOUS
<1>6. ASSUME NEW v \in T
      PROVE  v \in VirtPage /\ Inside(w, v) /\ v % p = 0 /\ Base(v, l) = v /\ a <= v /\ a < e /\ v \in Nat
  <2>1. a < e /\ v \in Nat /\ v % p = 0 /\ a <= v /\ v < v + p /\ v + p <= e
    BY <1>0, <1>1, <1>3, <1>5, StepPages
  <2>2. v \in VirtPage /\ s <= v /\ v < e
    BY <1>2, <1>4, <2>1
  <2>3. Base(v, l) = v
    BY <1>0, <1>2, <2>1, InBlock
  <2> QED  BY <1>0, <2>1, <2>2, <2>3 DEF Inside
<1>7. ASSUME NEW v \in T PROVE FitsIn(m, v, l) <=> LeavesFit(m, Cuts(w).aligned, w.level)
  <2>1. \A u \in VirtPage : Same(v, u, l) => u \in PagesOf(m)
    <3>1. SUFFICES ASSUME NEW u \in VirtPage, Same(v, u, l) PROVE Inside(w, u)
      BY DEF Good
    <3>2. u \in Nat /\ v \in Nat
      BY <1>2, <1>6
    <3>3. Base(u, l) = v
      BY <1>2, <1>6, <3>1, <3>2, SameBase
    <3>4. v <= u /\ u < v + p
      <4>1. Base(u, l) <= u /\ u < Base(u, l) + PageSize(l)
        BY <1>2, <3>2, Bases
      <4> QED  BY <1>0, <3>3, <4>1
    <3>5. v + p <= e /\ a <= v
      BY <1>0, <1>1, <1>3, <1>5, StepPages
    <3>6. s <= u /\ u < e
      BY <1>2, <1>4, <3>2, <3>4, <3>5
    <3> QED  BY <1>0, <3>6 DEF Inside
  <2>2. FrameOf(m, v) % p = 0 <=> LeavesFit(m, Cuts(w).aligned, w.level)
    BY <1>0, <1>3, <1>6, BlockFrame
  <2>3. Base(v, l) = v
    BY <1>6
  <2> QED  BY <1>0, <2>1, <2>2, <2>3 DEF FitsIn
<1>8. ASSUME NEW v \in VirtPage, Inside(w, v), Base(v, l) = v, FitsIn(m, v, l) PROVE v \in T
  <2>1. v \in Nat /\ s <= v /\ v < e
    BY <1>0, <1>2, <1>8 DEF Inside
  <2>2. v % p = 0
    <3>1. Base(v, l) % PageSize(l) = 0
      BY <1>2, <2>1, Bases
    <3> QED  BY <1>0, <1>8, <3>1
  <2>3. a <= v
    <3>1. SUFFICES ASSUME v < a PROVE FALSE
      BY <1>4, <2>1
    <3>2. v + p <= a
      BY <1>2, <1>4, <2>1, <2>2, <3>1, NextMultiple
    <3> QED  BY <1>2, <1>4, <2>1, <3>2
  <2>4. b \in Nat /\ b % p = 0 /\ a < e /\ b <= e /\ e < b + p
    <3>1. a < e
      BY <1>2, <1>4, <2>1, <2>3
    <3> QED  BY <1>0, <1>3, <3>1 DEF CutAt
  <2>5. v + p <= e
    <3>1. v + p <= VIRT_END
      BY <1>0, <1>2, <1>8, Blocks
    <3>2. PICK u \in Nat : u + 1 = v + p
      <4>1. v + p - 1 \in Nat /\ (v + p - 1) + 1 = v + p
        BY <1>2, <2>1
      <4> QED  BY <4>1
    <3>3. u \in VirtPage /\ v <= u /\ u < v + p
      BY <1>2, <2>1, <3>1, <3>2
    <3>4. Same(v, u, l)
      BY <1>0, <1>2, <2>1, <2>2, <3>3, InBlock
    <3>5. u \in PagesOf(m)
      BY <1>8, <3>3, <3>4 DEF FitsIn
    <3>6. Inside(w, u)
      BY <1>0, <1>8, <3>3, <3>4, <3>5, GoodNear
    <3> QED  BY <1>0, <1>2, <2>1, <3>2, <3>6 DEF Inside
  <2>6. v < b
    <3>1. SUFFICES ASSUME b <= v PROVE FALSE
      BY <2>1, <2>4
    <3> QED  BY <1>2, <2>1, <2>4, <2>5, <3>1
  <2>7. Cuts(w).aligned.start = a /\ Cuts(w).aligned.end = b
    BY <1>0, <1>3, <2>4, IntervalEnds DEF CutAt
  <2>8. v \in a .. b - 1
    BY <1>4, <2>1, <2>3, <2>4, <2>6
  <2> QED  BY <1>5, <2>2, <2>7, <2>8 DEF Steps
<1>9. OwnLeaves(m, w) = IF LeavesFit(m, Cuts(w).aligned, w.level) THEN {LeafAt(m, v, w.level) : v \in T} ELSE {}
  BY <1>0, <1>5 DEF OwnLeaves
<1>10. PICK F : F = {v \in VirtPage : Inside(w, v) /\ Base(v, l) = v /\ FitsIn(m, v, l)}
  OBVIOUS
<1>11. F = IF LeavesFit(m, Cuts(w).aligned, w.level) THEN T ELSE {}
  <2>1. \A v : v \in F <=> v \in T /\ LeavesFit(m, Cuts(w).aligned, w.level)
    BY <1>6, <1>7, <1>8, <1>10
  <2> QED  BY <2>1
<1>12. OwnLeaves(m, w) = {LeafAt(m, v, w.level) : v \in F}
  BY <1>9, <1>11
<1> QED  BY <1>0, <1>10, <1>12

\* A page for which there is no block of the level is in a walk below.
LEMMA Covered ==
  ASSUME NEW m \in Mapping, NEW w, Good(m, w), NEW v \in VirtPage, Inside(w, v), ~FitsIn(m, v, w.level)
  PROVE  \E x \in SubWalks(m, w) : Inside(x, v)
<1>0. PICK p, s, e, l : p = PageSize(w.level) /\ s = w.start /\ e = w.end /\ l = w.level
  OBVIOUS
<1>1. w \in Walks
  BY DEF Good
<1>2. p \in Nat \ {0} /\ s \in Nat /\ e \in Nat /\ l \in Nat /\ l \in 0 .. LEVELS /\ VirtPage \subseteq Nat
  BY <1>0, <1>1, WalkType, Addresses
<1>3. PICK a, b : CutAt(w, a, b)
  BY <1>1, CutIs
<1>4. v \in Nat /\ s <= v /\ v < e
  BY <1>0, <1>2 DEF Inside
<1>5. a \in Nat /\ a % p = 0 /\ s <= a
  BY <1>0, <1>3 DEF CutAt
<1>6. ASSUME NEW r \in Ranges(m, w), r.start <= v, v < r.end PROVE \E x \in SubWalks(m, w) : Inside(x, v)
  <2>1. r.start < r.end
    BY <1>1, <1>4, <1>6, RangesType
  <2>2. Walk(r, w.level - 1) \in SubWalks(m, w)
    BY <2>1 DEF SubWalks
  <2>3. Inside(Walk(r, w.level - 1), v)
    BY <1>6 DEF Inside, Walk
  <2> QED  BY <2>2, <2>3
<1>7. CASE v < a
  <2>1. Cuts(w).prefix.start <= v /\ v < Cuts(w).prefix.end
    BY <1>0, <1>2, <1>3, <1>4, <1>5, <1>7, IntervalEnds DEF CutAt
  <2>2. Cuts(w).prefix \in Ranges(m, w)
    BY DEF Ranges
  <2> QED  BY <1>6, <2>1, <2>2
<1>8. CASE a <= v
  <2>1. a < e /\ b \in Nat /\ b % p = 0
    <3>1. a < e
      BY <1>2, <1>4, <1>5, <1>8
    <3> QED  BY <1>0, <1>3, <3>1 DEF CutAt
  <2>2. Cuts(w).suffix = Interval(b, e) /\ Cuts(w).aligned.start = a /\ Cuts(w).aligned.end = b
    BY <1>0, <1>3, <2>1, IntervalEnds DEF CutAt
  <2>3. CASE b <= v
    <3>1. Cuts(w).suffix \in Ranges(m, w)
      BY DEF Ranges
    <3>2. Cuts(w).suffix.start <= v /\ v < Cuts(w).suffix.end
      BY <1>4, <2>2, <2>3, IntervalEnds
    <3> QED  BY <1>6, <3>1, <3>2
  <2>4. CASE v < b
    <3>1. PICK c : c = Base(v, l)
      OBVIOUS
    <3>2. c \in Nat /\ c % p = 0 /\ c <= v /\ v < c + p /\ c \in VirtPage /\ Same(c, v, l)
      BY <1>0, <1>2, <1>4, <3>1, Bases, Blocks
    <3>3. a <= c
      <4>1. SUFFICES ASSUME c < a PROVE FALSE
        BY <1>5, <3>2
      <4>2. c + p <= a
        BY <1>2, <1>5, <3>2, <4>1, NextMultiple
      <4> QED  BY <1>2, <1>4, <1>5, <1>8, <3>2, <4>2
    <3>4. c \in a .. b - 1
      BY <1>2, <1>4, <1>5, <2>1, <2>4, <3>2, <3>3
    <3>5. c \in Steps(Cuts(w).aligned, p)
      BY <2>2, <3>2, <3>4 DEF Steps
    <3>6. CASE LeavesFit(m, Cuts(w).aligned, w.level)
      <4>1. LeafAt(m, c, w.level) \in OwnLeaves(m, w)
        BY <1>0, <3>5, <3>6 DEF OwnLeaves
      <4>2. PICK u \in VirtPage : LeafAt(m, c, w.level) = LeafAt(m, u, w.level) /\ FitsIn(m, u, w.level)
        BY <4>1, OwnLeavesAre
      <4>3. u = c
        BY <4>2 DEF LeafAt
      <4>4. FitsIn(m, v, l)
        <5>1. l \in Level
          BY <1>0, <1>1, WalkType
        <5> QED  BY <1>0, <3>2, <4>2, <4>3, <5>1, FitsSame
      <4> QED  BY <1>0, <4>4
    <3>7. CASE ~LeavesFit(m, Cuts(w).aligned, w.level)
      <4>1. Interval(c, c + p) \in Ranges(m, w)
        BY <1>0, <3>5, <3>7 DEF Ranges
      <4> QED  BY <1>6, <3>2, <4>1, IntervalEnds
    <3> QED  BY <3>6, <3>7
  <2> QED  BY <1>4, <2>1, <2>3, <2>4
<1> QED  BY <1>4, <1>5, <1>7, <1>8

\* A leaf of the mapping at a page of the walk.
Found(m, w, y) == \E v \in VirtPage, l \in 0 .. w.level :
                    Inside(w, v) /\ Base(v, l) = v /\ Ends(m, v, l) /\ y = LeafAt(m, v, l)

LEMMA FoundHere ==
  ASSUME NEW m \in Mapping, NEW w, Good(m, w), NEW v \in VirtPage, Inside(w, v), NEW l \in 0 .. w.level,
         Ends(m, v, l)
  PROVE  IF l = w.level THEN FitsIn(m, v, w.level)
         ELSE \E x \in SubWalks(m, w) : Inside(x, v) /\ l \in 0 .. x.level
<1>1. w \in Walks /\ w.level \in Nat /\ w.level \in Level /\ l \in Nat
  BY WalkType DEF Good
<1>2. CASE l = w.level
  BY <1>2 DEF Ends
<1>3. CASE l # w.level
  <2>1. w.level \in l + 1 .. TOP
    BY <1>1, <1>3, Levels
  <2>2. ~FitsIn(m, v, w.level)
    BY <2>1 DEF Ends
  <2>3. PICK x \in SubWalks(m, w) : Inside(x, v)
    BY <2>2, Covered
  <2>4. x.level = w.level - 1
    BY <1>1, SubWalkType
  <2>5. l \in 0 .. x.level
    BY <1>1, <1>3, <2>4
  <2> QED  BY <1>3, <2>3, <2>5
<1> QED  BY <1>2, <1>3

LEMMA LeavesFound ==
  ASSUME NEW m \in Mapping
  PROVE  \A w : Good(m, w) => \A y : y \in LeavesIn(m)[w] <=> Found(m, w, y)
<1> DEFINE Right(w) == \A y : y \in LeavesIn(m)[w] <=> Found(m, w, y)
           N == {n \in Nat : \A w \in Walks : Good(m, w) /\ w.level <= n => Right(w)}
<1>1. ASSUME NEW w \in Walks, Good(m, w), \A x \in SubWalks(m, w) : Right(x) PROVE Right(w)
  <2> USE DEF Right
  <2>1. LeavesIn(m)[w] = OwnLeaves(m, w) \cup UNION {LeavesIn(m)[x] : x \in SubWalks(m, w)}
    BY LeavesEquation DEF LeavesFrom
  <2>2. w.level \in Nat /\ w.level \in Level
    BY WalkType
  <2>3. ASSUME NEW y, y \in OwnLeaves(m, w) PROVE Found(m, w, y)
    <3>1. PICK v \in VirtPage : /\ Inside(w, v) /\ Base(v, w.level) = v /\ FitsIn(m, v, w.level)
                                /\ y = LeafAt(m, v, w.level)
      BY <1>1, <2>3, OwnLeavesAre
    <3>2. Ends(m, v, w.level)
      BY <1>1, <3>1 DEF Good, Ends
    <3>3. w.level \in 0 .. w.level
      BY <2>2
    <3> QED  BY <3>1, <3>2, <3>3 DEF Found
  <2>4. ASSUME NEW y, NEW x \in SubWalks(m, w), y \in LeavesIn(m)[x] PROVE Found(m, w, y)
    <3>1. PICK v \in VirtPage, l \in 0 .. x.level :
            Inside(x, v) /\ Base(v, l) = v /\ Ends(m, v, l) /\ y = LeafAt(m, v, l)
      BY <1>1, <2>4 DEF Found
    <3>2. Inside(w, v)
      BY <1>1, <3>1, GoodBelow
    <3>3. x.level = w.level - 1
      BY SubWalkType
    <3>4. l \in 0 .. w.level
      BY <2>2, <3>3
    <3> QED  BY <3>1, <3>2, <3>4 DEF Found
  <2>5. ASSUME NEW y, Found(m, w, y) PROVE y \in LeavesIn(m)[w]
    <3>1. PICK v \in VirtPage, l \in 0 .. w.level :
            Inside(w, v) /\ Base(v, l) = v /\ Ends(m, v, l) /\ y = LeafAt(m, v, l)
      BY <2>5 DEF Found
    <3>2. IF l = w.level THEN FitsIn(m, v, w.level)
          ELSE \E x \in SubWalks(m, w) : Inside(x, v) /\ l \in 0 .. x.level
      BY <1>1, <3>1, FoundHere
    <3>3. CASE l = w.level
      <4>1. y \in OwnLeaves(m, w)
        BY <1>1, <3>1, <3>2, <3>3, OwnLeavesAre
      <4> QED  BY <2>1, <4>1
    <3>4. CASE l # w.level
      <4>1. PICK x \in SubWalks(m, w) : Inside(x, v) /\ l \in 0 .. x.level
        BY <3>2, <3>4
      <4>2. Found(m, x, y)
        BY <3>1, <4>1 DEF Found
      <4>3. y \in LeavesIn(m)[x]
        BY <1>1, <4>2
      <4> QED  BY <2>1, <4>3
    <3> QED  BY <3>3, <3>4
  <2> QED  BY <2>1, <2>3, <2>4, <2>5
<1> HIDE DEF Right
<1>2. 0 \in N
  <2>1. ASSUME NEW w \in Walks, Good(m, w), w.level <= 0 PROVE Right(w)
    <3>1. w.level = 0
      BY <2>1, WalkType
    <3>2. \A x \in SubWalks(m, w) : FALSE
      BY <3>1, SubWalkType
    <3> QED  BY <1>1, <2>1, <3>2
  <2> QED  BY <2>1
<1>3. ASSUME NEW n \in N PROVE n + 1 \in N
  <2>1. ASSUME NEW w \in Walks, Good(m, w), w.level <= n + 1 PROVE Right(w)
    <3>1. ASSUME NEW x \in SubWalks(m, w) PROVE Right(x)
      <4>1. x \in Walks /\ x.level = w.level - 1 /\ Good(m, x)
        BY <2>1, SubWalkType, GoodBelow
      <4>2. x.level <= n
        BY <2>1, <4>1, WalkType
      <4> QED  BY <4>1, <4>2
    <3> QED  BY <1>1, <2>1, <3>1
  <2> QED  BY <2>1
<1>4. N \in SUBSET Nat
  OBVIOUS
<1>5. ASSUME NEW w, Good(m, w) PROVE Right(w)
  <2>1. w \in Walks /\ w.level \in Nat
    BY <1>5, WalkType DEF Good
  <2>2. w.level \in N
    <3> HIDE DEF N
    <3>1. \A n \in Nat : n \in N
      BY <1>2, <1>3, <1>4, SetInduction
    <3> QED  BY <2>1, <3>1
  <2> QED  BY <1>5, <2>1, <2>2
<1> QED  BY <1>5 DEF Right

\* The leaves of a mapping, whatever the cuts were.
LEMMA LeavesOfAre ==
  ASSUME NEW m \in Mapping
  PROVE  \A y : y \in LeavesOf[m] <=>
                \E v \in VirtPage, l \in Level : Base(v, l) = v /\ Ends(m, v, l) /\ y = LeafAt(m, v, l)
<1>1. PICK w : w = [start |-> m.virt, end |-> m.virt + m.size, level |-> TOP]
  OBVIOUS
<1>2. LeavesOf[m] = LeavesIn(m)[w]
  BY <1>1 DEF LeavesOf
<1>3. w \in Walks /\ w.start < w.end /\ w.start \in VirtPage
  <2>1. m.virt \in 0 .. VIRT_END /\ m.virt + m.size \in 0 .. VIRT_END /\ TOP \in Level
        /\ m.virt < m.virt + m.size /\ m.virt \in VirtPage
    BY MappingType, Levels, Addresses DEF Mapping
  <2> QED  BY <1>1, <2>1 DEF Walks
<1>4. ASSUME NEW u \in VirtPage PROVE Inside(w, u) <=> u \in PagesOf(m)
  <2>1. u \in Nat
    BY Addresses
  <2>2. w.start = m.virt /\ w.end = m.virt + m.size
    BY <1>1
  <2>3. u \in PagesOf(m) <=> m.virt <= u /\ u < m.virt + m.size
    <3>1. m.virt \in Nat /\ m.size \in Nat
      BY MappingType
    <3>2. PICK a, d \in Nat : a = m.virt /\ d = m.size
      BY <3>1
    <3>3. PagesOf(m) = a .. a + d - 1
      BY <3>2 DEF PagesOf
    <3> QED  BY <2>1, <3>2, <3>3
  <2> QED  BY <2>2, <2>3 DEF Inside
<1>5. ASSUME NEW u \in VirtPage PROVE Same(w.start, u, w.level + 1)
  BY <1>1, <1>3, Levels, TopSame
<1>6. w.level + 1 .. TOP = {}
  BY <1>1, Levels
<1>7. Good(m, w)
  BY <1>3, <1>4, <1>5, <1>6 DEF Good
<1>8. 0 .. w.level = Level
  BY <1>1, Levels
<1>9. ASSUME NEW v \in VirtPage, NEW l \in Level, Ends(m, v, l) PROVE Inside(w, v)
  BY <1>4, <1>9, FitsPages DEF Ends
<1>10. \A y : y \in LeavesOf[m] <=> Found(m, w, y)
  BY <1>2, <1>7, LeavesFound
<1>11. ASSUME NEW y
       PROVE  Found(m, w, y) <=>
                \E v \in VirtPage, l \in Level : Base(v, l) = v /\ Ends(m, v, l) /\ y = LeafAt(m, v, l)
  BY <1>8, <1>9 DEF Found
<1> QED  BY <1>10, <1>11

-----------------------------------------------------------------------------
(* The entries that mappings need.                                         *)

Gathers(leaves, M) == \A y : y \in leaves <=> \E m \in M : y \in LeavesOf[m]

\* A leaf that is gathered, and the mapping, the page and the level it is of.
LEMMA LeafOrigin ==
  ASSUME NEW M \in SUBSET Mapping, NEW leaves, Gathers(leaves, M), NEW y \in leaves
  PROVE  \E m \in M, v \in VirtPage, l \in Level :
           /\ Base(v, l) = v /\ Ends(m, v, l)
           /\ y.virt = v /\ y.level = l /\ y.phys = FrameOf(m, v)
<1>1. PICK m \in M : y \in LeavesOf[m]
  BY DEF Gathers
<1>2. PICK v \in VirtPage, l \in Level : Base(v, l) = v /\ Ends(m, v, l) /\ y = LeafAt(m, v, l)
  BY <1>1, LeavesOfAre
<1>3. y.virt = v /\ y.level = l /\ y.phys = FrameOf(m, v)
  BY <1>2 DEF LeafAt
<1> QED  BY <1>2, <1>3

LEMMA LeafOfBlock ==
  ASSUME NEW M \in SUBSET Mapping, NEW leaves, Gathers(leaves, M), NEW m \in M,
         NEW v \in VirtPage, NEW l \in Level, Ends(m, v, l)
  PROVE  \E y \in leaves : y.virt = Base(v, l) /\ y.level = l
<1>1. PICK b : b = Base(v, l)
  OBVIOUS
<1>2. l \in Nat /\ l \in 0 .. LEVELS /\ v \in Nat
  BY Levels, Addresses
<1>3. b \in VirtPage /\ b \in Nat /\ Same(b, v, l) /\ b % PageSize(l) = 0
  BY <1>1, <1>2, Blocks, Bases
<1>4. Base(b, l) = b
  BY <1>2, <1>3, InBlock
<1>5. Ends(m, b, l)
  BY <1>3, EndsSame
<1>6. LeafAt(m, b, l) \in LeavesOf[m]
  BY <1>3, <1>4, <1>5, LeavesOfAre
<1>7. LeafAt(m, b, l) \in leaves
  BY <1>6 DEF Gathers
<1> QED  BY <1>1, <1>7 DEF LeafAt

LEMMA LeafSlotsAre ==
  ASSUME NEW M \in SUBSET Mapping, NEW leaves, Gathers(leaves, M),
         NEW v \in VirtPage, NEW l \in Level
  PROVE  SlotOf(v, l) \in LeafSlots(leaves) <=> \E m \in M : Ends(m, v, l)
<1>1. ASSUME NEW m \in M, Ends(m, v, l) PROVE SlotOf(v, l) \in LeafSlots(leaves)
  <2>1. PICK y \in leaves : y.virt = Base(v, l) /\ y.level = l
    BY <1>1, LeafOfBlock
  <2>2. l \in Nat /\ l \in 0 .. LEVELS /\ v \in Nat
    BY Levels, Addresses
  <2>3. Base(v, l) \in VirtPage /\ Same(Base(v, l), v, l)
    BY <2>2, Blocks, Bases
  <2>4. SlotOf(y.virt, y.level) = SlotOf(v, l)
    BY <2>1, <2>3, Slots
  <2> QED  BY <2>4 DEF LeafSlots
<1>2. ASSUME SlotOf(v, l) \in LeafSlots(leaves) PROVE \E m \in M : Ends(m, v, l)
  <2>1. PICK y \in leaves : SlotOf(v, l) = SlotOf(y.virt, y.level)
    BY <1>2 DEF LeafSlots
  <2>2. PICK m \in M, u \in VirtPage, k \in Level : Ends(m, u, k) /\ y.virt = u /\ y.level = k
    BY LeafOrigin
  <2>3. k = l /\ Same(v, u, l)
    BY <2>1, <2>2, Slots
  <2> QED  BY <2>2, <2>3, EndsSame
<1> QED  BY <1>1, <1>2

LEMMA PathIs ==
  ASSUME NEW M \in SUBSET Mapping, NEW leaves, Gathers(leaves, M),
         NEW v \in VirtPage, NEW l \in Level
  PROVE  SlotOf(v, l) \in Path(leaves) <=> \E m \in M : Through(m, v, l)
<1>0. l \in Nat /\ v \in Nat /\ TOP \in Nat /\ Level = 0 .. TOP /\ VirtPage \subseteq Nat
  BY Levels, Addresses
<1>1. ASSUME NEW m \in M, Through(m, v, l) PROVE SlotOf(v, l) \in Path(leaves)
  <2>1. PICK u \in PagesOf(m) : Same(v, u, l)
    BY <1>1 DEF Through, Touches
  <2>2. u \in VirtPage
    BY MappingType
  <2>3. PICK k \in Level : Ends(m, u, k)
    BY LeafLevel
  <2>4. k < l
    <3>1. SUFFICES ASSUME k >= l PROVE FALSE
      BY <1>0
    <3>2. k \in l .. TOP
      BY <1>0, <3>1
    <3>3. FitsIn(m, v, k) <=> FitsIn(m, u, k)
      BY <2>1, <2>2, <3>2, FitsAbove
    <3> QED  BY <1>1, <2>3, <3>2, <3>3 DEF Through, Ends
  <2>5. PICK y \in leaves : y.virt = Base(u, k) /\ y.level = k
    BY <2>2, <2>3, LeafOfBlock
  <2>6. PICK b : b = Base(u, k)
    OBVIOUS
  <2>7. k \in Nat /\ k \in 0 .. LEVELS /\ u \in Nat
    BY <1>0, <2>2, Levels
  <2>8. b \in VirtPage /\ b \in Nat /\ Same(b, u, k)
    BY <2>2, <2>6, <2>7, Blocks, Bases
  <2>9. Same(b, u, l)
    BY <1>0, <2>4, <2>7, <2>8, SameAbove
  <2>10. SlotOf(v, l) = SlotOf(b, l)
    BY <2>1, <2>8, <2>9, Slots DEF Same
  <2>11. l \in k + 1 .. TOP
    BY <1>0, <2>4, <2>7
  <2>12. SlotOf(v, l) \in {SlotOf(y.virt, above) : above \in y.level + 1 .. TOP}
    BY <2>5, <2>6, <2>10, <2>11
  <2> QED  BY <2>12 DEF Path
<1>2. ASSUME SlotOf(v, l) \in Path(leaves) PROVE \E m \in M : Through(m, v, l)
  <2>1. PICK y \in leaves : SlotOf(v, l) \in {SlotOf(y.virt, above) : above \in y.level + 1 .. TOP}
    BY <1>2 DEF Path
  <2>2. PICK m \in M, u \in VirtPage, k \in Level : Ends(m, u, k) /\ y.virt = u /\ y.level = k
    BY LeafOrigin
  <2>3. PICK above \in k + 1 .. TOP : SlotOf(v, l) = SlotOf(u, above)
    BY <2>1, <2>2
  <2>4. above \in Level
    BY <1>0
  <2>5. above = l /\ Same(v, u, l)
    BY <2>3, <2>4, Slots
  <2>6. \A j \in l .. TOP : ~FitsIn(m, u, j)
    BY <1>0, <2>2, <2>5 DEF Ends
  <2>7. u \in PagesOf(m)
    BY <2>2, FitsPages DEF Ends
  <2>8. Through(m, u, l)
    BY <2>6, <2>7, FitsPages DEF Through
  <2> QED  BY <2>5, <2>8, EndsSame
<1> QED  BY <1>1, <1>2

\* The entries of leaves and on the way to them are entries of tables.
LEMMA SlotsOfLeaves ==
  ASSUME NEW M \in SUBSET Mapping, NEW leaves, Gathers(leaves, M), NEW s \in LeafSlots(leaves) \cup Path(leaves)
  PROVE  s \in Slot
<1>1. CASE s \in LeafSlots(leaves)
  <2>1. PICK y \in leaves : s = SlotOf(y.virt, y.level)
    BY <1>1 DEF LeafSlots
  <2>2. y.virt \in VirtPage /\ y.level \in Level
    BY LeafOrigin
  <2> QED  BY <2>1, <2>2, Slots
<1>2. CASE s \in Path(leaves)
  <2>1. PICK y \in leaves : s \in {SlotOf(y.virt, above) : above \in y.level + 1 .. TOP}
    BY <1>2 DEF Path
  <2>2. PICK above \in y.level + 1 .. TOP : s = SlotOf(y.virt, above)
    BY <2>1
  <2>3. y.virt \in VirtPage /\ y.level \in Level
    BY LeafOrigin
  <2>4. above \in Level
    BY <2>3, Levels
  <2> QED  BY <2>2, <2>3, <2>4, Slots
<1> QED  BY <1>1, <1>2

LEMMA GatherOne == \A m \in Mapping : {m} \in SUBSET Mapping /\ Gathers(LeavesOf[m], {m})
  BY DEF Gathers

LEMMA GatherAll == \A M \in SUBSET Mapping : Gathers(UNION {LeavesOf[m] : m \in M}, M)
  BY DEF Gathers

-----------------------------------------------------------------------------
(* The entries of disjoint mappings.                                       *)

Disjoint(M) == \A m, n \in M : m = n \/ PagesOf(m) \cap PagesOf(n) = {}

\* What the entry of a page and a level is when the mappings are M.
Right(table, M, v, l) ==
  /\ (\E m \in M : Through(m, v, l)) => table[SlotOf(v, l)] = Indirect
  /\ \A m \in M : Ends(m, v, l) => table[SlotOf(v, l)] = Leaf(FrameOf(m, Base(v, l)))
  /\ (\A m \in M : ~Through(m, v, l) /\ ~Ends(m, v, l)) => table[SlotOf(v, l)] = Invalid

ExactFor(table, M) == \A v \in VirtPage, l \in Level : Right(table, M, v, l)

\* A leaf of one mapping is no entry that another one needs.
LEMMA Conflict ==
  ASSUME NEW M \in SUBSET Mapping, Disjoint(M), NEW m \in M, NEW n \in M,
         NEW v \in VirtPage, NEW l \in Level, Ends(m, v, l)
  PROVE  /\ ~Through(n, v, l)
         /\ Ends(n, v, l) => m = n
<1>1. ASSUME Through(n, v, l) PROVE FALSE
  <2>1. PICK w \in PagesOf(n) : Same(v, w, l)
    BY <1>1 DEF Through, Touches
  <2>2. w \in PagesOf(m)
    BY <2>1, MappingType DEF Ends, FitsIn
  <2>3. m = n
    BY <2>1, <2>2 DEF Disjoint
  <2> QED  BY <1>1, <2>3, EndsNotThrough
<1>2. ASSUME Ends(n, v, l) PROVE m = n
  <2>1. v \in PagesOf(m) /\ v \in PagesOf(n)
    BY <1>2, FitsPages DEF Ends
  <2> QED  BY <2>1 DEF Disjoint
<1> QED  BY <1>1, <1>2

\* All leaves in an entry lead to the same frames.
LEMMA LeafFrames ==
  ASSUME NEW M \in SUBSET Mapping, Disjoint(M), NEW leaves, Gathers(leaves, M), NEW m \in M,
         NEW v \in VirtPage, NEW l \in Level, Ends(m, v, l)
  PROVE  /\ SlotOf(v, l) \in LeafSlots(leaves)
         /\ (CHOOSE y \in leaves : SlotOf(v, l) = SlotOf(y.virt, y.level)).phys = FrameOf(m, Base(v, l))
<1>1. SlotOf(v, l) \in LeafSlots(leaves)
  BY LeafSlotsAre
<1>2. PICK y : y = CHOOSE z \in leaves : SlotOf(v, l) = SlotOf(z.virt, z.level)
  OBVIOUS
<1>3. y \in leaves /\ SlotOf(v, l) = SlotOf(y.virt, y.level)
  BY <1>1, <1>2 DEF LeafSlots
<1>4. PICK n \in M, u \in VirtPage, k \in Level :
        Base(u, k) = u /\ Ends(n, u, k) /\ y.virt = u /\ y.level = k /\ y.phys = FrameOf(n, u)
  BY <1>3, LeafOrigin
<1>5. k = l /\ Same(v, u, l)
  BY <1>3, <1>4, Slots
<1>6. Ends(n, v, l)
  BY <1>4, <1>5, EndsSame
<1>7. m = n
  BY <1>6, Conflict
<1>8. Base(v, l) = u
  <2>1. v \in Nat /\ u \in Nat /\ l \in Nat
    BY Addresses, Levels
  <2> QED  BY <1>4, <1>5, <2>1, SameBase
<1> QED  BY <1>1, <1>2, <1>4, <1>7, <1>8

LEMMA Kinds ==
  /\ Indirect.kind = "indirect" /\ Invalid.kind = "invalid" /\ Indirect # Invalid
  /\ \A p : Leaf(p).kind = "leaf" /\ Leaf(p).phys = p /\ Leaf(p) # Indirect /\ Leaf(p) # Invalid
<1>1. Indirect.kind = "indirect" /\ Invalid.kind = "invalid"
  BY DEF Indirect, Invalid
<1>2. \A p : Leaf(p).kind = "leaf" /\ Leaf(p).phys = p
  BY DEF Leaf
<1> QED  BY <1>1, <1>2

\* Where a mapping that is disjoint from the others finds what.
LEMMA FreeEntries ==
  ASSUME NEW M \in SUBSET Mapping, NEW m \in Mapping, Disjoint(M \cup {m}), m \notin M, NEW table, ExactFor(table, M),
         NEW v \in VirtPage, NEW l \in Level
  PROVE  /\ Through(m, v, l) => table[SlotOf(v, l)] \in {Indirect, Invalid}
         /\ Ends(m, v, l) => table[SlotOf(v, l)] = Invalid
<1>1. PICK N : N = M \cup {m}
  OBVIOUS
<1>2. N \in SUBSET Mapping /\ Disjoint(N) /\ m \in N /\ M \subseteq N
  BY <1>1
<1>3. Right(table, M, v, l)
  BY DEF ExactFor
<1>4. ASSUME Through(m, v, l) PROVE table[SlotOf(v, l)] \in {Indirect, Invalid}
  <2>1. \A n \in M : ~Ends(n, v, l)
    BY <1>2, <1>4, Conflict
  <2> QED  BY <1>3, <2>1 DEF Right
<1>5. ASSUME Ends(m, v, l) PROVE table[SlotOf(v, l)] = Invalid
  <2>1. ASSUME NEW n \in M PROVE ~Ends(n, v, l) /\ ~Through(n, v, l)
    <3>1. n \in N /\ n # m
      BY <1>2
    <3> QED  BY <1>2, <1>5, <3>1, Conflict
  <2> QED  BY <1>3, <2>1 DEF Right
<1> QED  BY <1>4, <1>5

\* map() meets what it expects, and makes the entries that are needed then.
LEMMA MapKeepsExact ==
  ASSUME NEW M \in SUBSET Mapping, NEW m \in Mapping, Disjoint(M \cup {m}), m \notin M, ExactFor(entries, M)
  PROVE  MapAsserts(LeavesOf[m]) /\ ExactFor(MapLeaves(LeavesOf[m]), M \cup {m})
<1>1. PICK leaves, O, N : leaves = LeavesOf[m] /\ O = {m} /\ N = M \cup {m}
  OBVIOUS
<1>2. O \in SUBSET Mapping /\ Gathers(leaves, O) /\ Disjoint(O) /\ m \in O
  BY <1>1, GatherOne DEF Disjoint
<1>3. N \in SUBSET Mapping /\ Disjoint(N) /\ m \in N /\ M \subseteq N
  BY <1>1
<1>4. \A v \in VirtPage, l \in Level : /\ SlotOf(v, l) \in LeafSlots(leaves) <=> Ends(m, v, l)
                                       /\ SlotOf(v, l) \in Path(leaves) <=> Through(m, v, l)
  BY <1>1, <1>2, LeafSlotsAre, PathIs
<1>5. MapAsserts(leaves)
  <2>1. ASSUME NEW s \in Path(leaves) PROVE entries[s].kind # "leaf"
    <3>1. s \in Slot
      BY <1>2, SlotsOfLeaves
    <3>2. PICK v \in VirtPage, l \in Level : s = SlotOf(v, l)
      BY <3>1, Slots
    <3>3. entries[s] \in {Indirect, Invalid}
      BY <1>4, <2>1, <3>2, FreeEntries
    <3> QED  BY <3>3, Kinds
  <2>2. ASSUME NEW s \in LeafSlots(leaves) PROVE entries[s] = Invalid
    <3>1. s \in Slot
      BY <1>2, SlotsOfLeaves
    <3>2. PICK v \in VirtPage, l \in Level : s = SlotOf(v, l)
      BY <3>1, Slots
    <3> QED  BY <1>4, <2>2, <3>2, FreeEntries
  <2> QED  BY <2>1, <2>2 DEF MapAsserts
<1>6. ASSUME NEW v \in VirtPage, NEW l \in Level PROVE Right(MapLeaves(leaves), N, v, l)
  <2>1. PICK s, e : s = SlotOf(v, l) /\ e = MapLeaves(leaves)[SlotOf(v, l)]
    OBVIOUS
  <2>2. s \in Slot
    BY <2>1, Slots
  <2>3. e = IF s \in Path(leaves) THEN Indirect
            ELSE IF s \in LeafSlots(leaves) THEN Leaf((CHOOSE y \in leaves : s = SlotOf(y.virt, y.level)).phys)
            ELSE entries[s]
    BY <2>1, <2>2 DEF MapLeaves
  <2>4. CASE Through(m, v, l)
    <3>1. e = Indirect
      BY <1>4, <2>1, <2>3, <2>4
    <3>2. \A n \in N : ~Ends(n, v, l)
      BY <1>3, <2>4, Conflict
    <3> QED  BY <1>3, <2>1, <2>4, <3>1, <3>2 DEF Right
  <2>5. CASE Ends(m, v, l)
    <3>1. e = Leaf(FrameOf(m, Base(v, l)))
      <4>1. s \notin Path(leaves) /\ s \in LeafSlots(leaves)
        BY <1>4, <2>1, <2>5, EndsNotThrough
      <4>2. (CHOOSE y \in leaves : s = SlotOf(y.virt, y.level)).phys = FrameOf(m, Base(v, l))
        BY <1>2, <2>1, <2>5, LeafFrames
      <4> QED  BY <2>3, <4>1, <4>2
    <3>2. \A n \in N : ~Through(n, v, l) /\ (Ends(n, v, l) => n = m)
      BY <1>3, <2>5, Conflict
    <3> QED  BY <1>3, <2>1, <2>5, <3>1, <3>2 DEF Right
  <2>6. CASE ~Through(m, v, l) /\ ~Ends(m, v, l)
    <3>1. e = entries[s]
      BY <1>4, <2>1, <2>3, <2>6
    <3>2. Right(entries, M, v, l)
      BY DEF ExactFor
    <3> QED  BY <1>1, <2>1, <2>6, <3>1, <3>2 DEF Right
  <2> QED  BY <2>4, <2>5, <2>6
<1> QED  BY <1>1, <1>5, <1>6 DEF ExactFor

-----------------------------------------------------------------------------
(* The tables that are left when a mapping goes.                           *)

LEMMA SweptType ==
  ASSUME NEW leaves, entries \in [Slot -> Entry],
         NEW f \in [Level -> [Slot -> Entry]], NEW l \in Level
  PROVE  Swept(leaves, f, l) \in [Slot -> Entry]
<1>1. Invalid \in Entry
  BY DEF Entry
<1>2. CASE l = 0
  BY <1>1, <1>2 DEF Swept
<1>3. CASE l # 0
  <2>1. l - 1 \in Level
    BY <1>3, Levels
  <2>2. PICK g \in [Slot -> Entry] : g = f[l - 1]
    BY <2>1
  <2>3. Swept(leaves, f, l) = [s \in Slot |-> IF /\ s \in Path(leaves) /\ s[1] = l
                                                 /\ is_completely_unmapped(s, g)
                                                THEN Invalid ELSE g[s]]
    BY <1>3, <2>2 DEF Swept
  <2> QED  BY <1>1, <2>2, <2>3
<1> QED  BY <1>2, <1>3

LEMMA SweepExists ==
  ASSUME NEW leaves, entries \in [Slot -> Entry]
  PROVE  \E f : f \in [Level -> [Slot -> Entry]] /\ f = [l \in Level |-> Swept(leaves, f, l)]
<1> DEFINE V == [Slot -> Entry]
           S == [f \in [Level -> V] |-> [l \in Level |-> Swept(leaves, f, l)]]
           rank == [l \in Level |-> l]
<1>1. S \in [[Level -> V] -> [Level -> V]]
  BY SweptType
<1>2. TOP \in Nat /\ rank \in [Level -> 0 .. TOP]
  BY Levels
<1>3. Determined(S, Level, V, rank)
  <2> SUFFICES ASSUME NEW f \in [Level -> V], NEW g \in [Level -> V], NEW l \in Level,
                      \A k \in Level : rank[k] < rank[l] => f[k] = g[k]
               PROVE  Swept(leaves, f, l) = Swept(leaves, g, l)
    BY DEF Determined
  <2>1. CASE l = 0
    BY <2>1 DEF Swept
  <2>2. CASE l # 0
    <3>1. l - 1 \in Level /\ l - 1 < l
      BY <2>2, Levels
    <3>2. f[l - 1] = g[l - 1]
      BY <3>1
    <3> QED  BY <2>2, <3>2 DEF Swept
  <2> QED  BY <2>1, <2>2
<1>4. [s \in Slot |-> Invalid] \in V
  BY DEF Entry
<1>5. \E f : IsFixedPoint(f, S, Level, V)
  <2>1. PICK D, T, F, k, b : D = Level /\ T = V /\ F = S /\ k = rank /\ b = [s \in Slot |-> Invalid]
    OBVIOUS
  <2> HIDE DEF S, rank, V
  <2>2. b \in T /\ F \in [[D -> T] -> [D -> T]] /\ k \in [D -> 0 .. TOP] /\ Determined(F, D, T, k)
    BY <1>1, <1>2, <1>3, <1>4, <2>1
  <2>3. \E f : IsFixedPoint(f, F, D, T)
    BY <1>2, <2>2, FixedPoint
  <2> QED  BY <2>1, <2>3
<1> QED  BY <1>5 DEF IsFixedPoint

LEMMA ReclaimedIs ==
  ASSUME NEW leaves, entries \in [Slot -> Entry]
  PROVE  /\ Reclaimed(leaves) \in [Level -> [Slot -> Entry]]
         /\ \A l \in Level : Reclaimed(leaves)[l] = Swept(leaves, Reclaimed(leaves), l)
<1>1. PICK f : f \in [Level -> [Slot -> Entry]] /\ f = [l \in Level |-> Swept(leaves, f, l)]
  BY SweepExists
<1>2. PICK g : g = Reclaimed(leaves)
  OBVIOUS
<1>3. g = [l \in Level |-> Swept(leaves, g, l)]
  <2>1. f = [l \in Level |-> Swept(leaves, f, l)]
    BY <1>1
  <2> QED  BY <1>2, <2>1 DEF Reclaimed
<1>4. \A l \in Level : g[l] = Swept(leaves, g, l)
  BY <1>3
<1>5. g \in [Level -> [Slot -> Entry]]
  <2> DEFINE N == {n \in Nat : \A l \in Level : l <= n => g[l] \in [Slot -> Entry]}
  <2>1. \A l \in Level : l \in Nat
    BY Levels
  <2>2. ASSUME NEW l \in Level, \A k \in Level : k < l => g[k] \in [Slot -> Entry] PROVE g[l] \in [Slot -> Entry]
    <3>1. PICK h : h = [k \in Level |-> IF k < l THEN g[k] ELSE f[k]]
      OBVIOUS
    <3>2. h \in [Level -> [Slot -> Entry]]
      BY <1>1, <2>2, <3>1
    <3>3. Swept(leaves, h, l) = Swept(leaves, g, l)
      <4>1. CASE l = 0
        BY <4>1 DEF Swept
      <4>2. CASE l # 0
        <5>1. l - 1 \in Level /\ l - 1 < l
          BY <4>2, Levels
        <5>2. h[l - 1] = g[l - 1]
          BY <3>1, <5>1
        <5> QED  BY <4>2, <5>2 DEF Swept
      <4> QED  BY <4>1, <4>2
    <3>4. Swept(leaves, h, l) \in [Slot -> Entry]
      BY <3>2, SweptType
    <3>5. g[l] = Swept(leaves, h, l)
      BY <1>4, <3>3
    <3> QED  BY <3>4, <3>5
  <2>3. 0 \in N
    <3>1. ASSUME NEW l \in Level, l <= 0 PROVE g[l] \in [Slot -> Entry]
      <4>1. \A k \in Level : ~(k < l)
        BY <2>1, <3>1
      <4> QED  BY <2>2, <4>1
    <3> QED  BY <3>1
  <2>4. ASSUME NEW n \in N PROVE n + 1 \in N
    <3>1. ASSUME NEW l \in Level, l <= n + 1 PROVE g[l] \in [Slot -> Entry]
      <4>1. \A k \in Level : k < l => k <= n
        BY <2>1, <3>1
      <4>2. \A k \in Level : k < l => g[k] \in [Slot -> Entry]
        BY <4>1
      <4> QED  BY <2>2, <4>2
    <3> QED  BY <3>1
  <2>5. N \in SUBSET Nat
    OBVIOUS
  <2>6. \A l \in Level : l \in N
    <3> HIDE DEF N
    <3>1. \A n \in Nat : n \in N
      BY <2>3, <2>4, <2>5, SetInduction
    <3> QED  BY <2>1, <3>1
  <2>7. \A l \in Level : g[l] \in [Slot -> Entry]
    BY <2>1, <2>6
  <2>8. g = [l \in Level |-> g[l]]
    BY <1>3, <1>4
  <2> QED  BY <2>7, <2>8
<1> QED  BY <1>2, <1>4, <1>5

\* A table is needed when one of its entries is, and the other way round.
LEMMA NeededAbove ==
  ASSUME NEW m \in Mapping, NEW v \in VirtPage, NEW l \in Level, l + 1 \in Level
  PROVE  Through(m, v, l + 1) <=>
           \E w \in VirtPage : Same(v, w, l + 1) /\ ~FitsIn(m, v, l + 1) /\ (Ends(m, w, l) \/ Through(m, w, l))
<1>0. l \in Nat /\ v \in Nat /\ TOP \in Nat /\ Level = 0 .. TOP /\ VirtPage \subseteq Nat
  BY Levels, Addresses
<1>1. ASSUME Through(m, v, l + 1)
      PROVE  \E w \in VirtPage : Same(v, w, l + 1) /\ ~FitsIn(m, v, l + 1) /\ (Ends(m, w, l) \/ Through(m, w, l))
  <2>1. PICK w \in PagesOf(m) : Same(v, w, l + 1)
    BY <1>1 DEF Through, Touches
  <2>2. w \in VirtPage
    BY MappingType
  <2>3. l + 1 \in l + 1 .. TOP
    BY <1>0
  <2>4. ~FitsIn(m, v, l + 1)
    BY <1>1, <2>3 DEF Through
  <2>5. \A k \in l + 1 .. TOP : ~FitsIn(m, w, k)
    BY <1>1, <2>1, <2>2, FitsAbove DEF Through
  <2>6. CASE FitsIn(m, w, l)
    <3>1. Ends(m, w, l)
      BY <2>5, <2>6 DEF Ends
    <3> QED  BY <2>1, <2>2, <2>4, <3>1
  <2>7. CASE ~FitsIn(m, w, l)
    <3>1. \A k \in l .. TOP : k = l \/ k \in l + 1 .. TOP
      BY <1>0
    <3>2. Through(m, w, l)
      BY <2>2, <2>5, <2>7, <3>1, FitsPages DEF Through
    <3> QED  BY <2>1, <2>2, <2>4, <3>2
  <2> QED  BY <2>6, <2>7
<1>2. ASSUME NEW w \in VirtPage, Same(v, w, l + 1), Ends(m, w, l) \/ Through(m, w, l) PROVE Through(m, v, l + 1)
  <2>1. \A k \in l + 1 .. TOP : ~FitsIn(m, w, k)
    <3>1. \A k \in l + 1 .. TOP : k \in l .. TOP
      BY <1>0
    <3> QED  BY <1>2, <3>1 DEF Ends, Through
  <2>2. Touches(m, w, l + 1)
    <3>1. CASE Ends(m, w, l)
      BY <3>1, FitsPages DEF Ends
    <3>2. CASE Through(m, w, l)
      <4>1. PICK u \in PagesOf(m) : Same(w, u, l)
        BY <3>2 DEF Through, Touches
      <4>2. u \in VirtPage
        BY MappingType
      <4>3. Same(w, u, l + 1)
        BY <1>0, <4>1, <4>2, SameAbove
      <4> QED  BY <4>3 DEF Touches
    <3> QED  BY <1>2, <3>1, <3>2
  <2>3. Through(m, w, l + 1)
    BY <2>1, <2>2 DEF Through
  <2> QED  BY <1>2, <2>3, EndsSame
<1> QED  BY <1>1, <1>2

LEMMA NoTableBelow ==
  ASSUME NEW m \in Mapping, NEW v \in VirtPage
  PROVE  ~Through(m, v, 0)
<1>1. SUFFICES ASSUME Through(m, v, 0) PROVE FALSE
  OBVIOUS
<1>2. PICK w \in PagesOf(m) : Same(v, w, 0)
  BY <1>1 DEF Through, Touches
<1>3. w \in VirtPage /\ v \in Nat /\ w \in Nat /\ 0 \in 0 .. TOP
  BY MappingType, Addresses, Levels
<1>4. v = w
  BY <1>2, <1>3, BottomSame
<1>5. FitsIn(m, v, 0)
  BY <1>4, Levels, FitsPages
<1> QED  BY <1>1, <1>3, <1>5 DEF Through

\* An entry once the tables up to a level have been gone over.
SweptEntry(M, m, v, l, k) ==
  IF Ends(m, v, l) \/ (Through(m, v, l) /\ l <= k /\ \A n \in M \ {m} : ~Through(n, v, l))
    THEN Invalid ELSE entries[SlotOf(v, l)]

\* Whether a table below is empty, with the entries of a level gone over.
LEMMA EmptyTable ==
  ASSUME NEW M \in SUBSET Mapping, Disjoint(M), ExactFor(entries, M), NEW m \in M,
         NEW k \in Level, k + 1 \in Level, NEW table,
         \A w \in VirtPage : table[SlotOf(w, k)] = SweptEntry(M, m, w, k, k),
         NEW v \in VirtPage, Through(m, v, k + 1)
  PROVE  is_completely_unmapped(SlotOf(v, k + 1), table) <=> \A n \in M \ {m} : ~Through(n, v, k + 1)
<1>0. k \in Nat /\ k <= k
  BY Levels
<1>1. is_completely_unmapped(SlotOf(v, k + 1), table) <=>
        \A w \in VirtPage : Same(v, w, k + 1) => SweptEntry(M, m, w, k, k) = Invalid
  <2>1. is_completely_unmapped(SlotOf(v, k + 1), table) <=>
          \A s \in Children(SlotOf(v, k + 1)) : table[s] = Invalid
    BY DEF is_completely_unmapped
  <2>2. ASSUME NEW s \in Children(SlotOf(v, k + 1))
        PROVE  \E w \in VirtPage : s = SlotOf(w, k) /\ Same(v, w, k + 1)
    BY ChildSlots
  <2>3. ASSUME NEW w \in VirtPage, Same(v, w, k + 1) PROVE SlotOf(w, k) \in Children(SlotOf(v, k + 1))
    BY <2>3, ChildSlots
  <2>4. ASSUME \A s \in Children(SlotOf(v, k + 1)) : table[s] = Invalid,
               NEW w \in VirtPage, Same(v, w, k + 1)
        PROVE  SweptEntry(M, m, w, k, k) = Invalid
    BY <2>3, <2>4
  <2>5. ASSUME \A w \in VirtPage : Same(v, w, k + 1) => SweptEntry(M, m, w, k, k) = Invalid,
               NEW s \in Children(SlotOf(v, k + 1))
        PROVE  table[s] = Invalid
    BY <2>2, <2>5
  <2> QED  BY <2>1, <2>4, <2>5
<1>2. ASSUME \A n \in M \ {m} : ~Through(n, v, k + 1), NEW w \in VirtPage, Same(v, w, k + 1)
      PROVE  SweptEntry(M, m, w, k, k) = Invalid
  <2>1. \A n \in M \ {m} : ~FitsIn(n, v, k + 1) => ~Ends(n, w, k) /\ ~Through(n, w, k)
    BY <1>2, NeededAbove
  <2>2. ASSUME NEW n \in M \ {m} PROVE ~Ends(n, w, k) /\ ~Through(n, w, k)
    <3>1. ASSUME FitsIn(n, v, k + 1) PROVE FALSE
      <4>1. PICK u \in PagesOf(m) : Same(v, u, k + 1)
        BY DEF Through, Touches
      <4>2. u \in PagesOf(n)
        BY <3>1, <4>1, MappingType DEF FitsIn
      <4> QED  BY <4>1, <4>2 DEF Disjoint
    <3> QED  BY <2>1, <3>1
  <2>3. CASE Ends(m, w, k)
    BY <2>3 DEF SweptEntry
  <2>4. CASE Through(m, w, k)
    BY <1>0, <2>2, <2>4 DEF SweptEntry
  <2>5. CASE ~Ends(m, w, k) /\ ~Through(m, w, k)
    <3>1. \A n \in M : ~Through(n, w, k) /\ ~Ends(n, w, k)
      BY <2>2, <2>5
    <3>2. entries[SlotOf(w, k)] = Invalid
      BY <3>1 DEF ExactFor, Right
    <3> QED  BY <3>2 DEF SweptEntry
  <2> QED  BY <2>3, <2>4, <2>5
<1>3. ASSUME NEW n \in M \ {m}, Through(n, v, k + 1)
      PROVE  \E w \in VirtPage : Same(v, w, k + 1) /\ SweptEntry(M, m, w, k, k) # Invalid
  <2>1. PICK w \in VirtPage : Same(v, w, k + 1) /\ (Ends(n, w, k) \/ Through(n, w, k))
    BY <1>3, NeededAbove
  <2>2. Right(entries, M, w, k)
    BY DEF ExactFor
  <2>3. CASE Ends(n, w, k)
    <3>1. ~Ends(m, w, k) /\ ~Through(m, w, k)
      BY <2>3, Conflict
    <3>2. entries[SlotOf(w, k)] # Invalid
      BY <2>2, <2>3, Kinds DEF Right
    <3> QED  BY <2>1, <3>1, <3>2 DEF SweptEntry
  <2>4. CASE Through(n, w, k)
    <3>1. ~Ends(m, w, k)
      BY <2>4, Conflict
    <3>2. entries[SlotOf(w, k)] # Invalid
      BY <2>2, <2>4, Kinds DEF Right
    <3> QED  BY <2>1, <2>4, <3>1, <3>2 DEF SweptEntry
  <2> QED  BY <2>1, <2>3, <2>4
<1> QED  BY <1>1, <1>2, <1>3

LEMMA ReclaimedAre ==
  ASSUME NEW M \in SUBSET Mapping, Disjoint(M), entries \in [Slot -> Entry], ExactFor(entries, M), NEW m \in M
  PROVE  \A k \in Level, v \in VirtPage, l \in Level :
           Reclaimed(LeavesOf[m])[k][SlotOf(v, l)] = SweptEntry(M, m, v, l, k)
<1>1. PICK leaves, R : leaves = LeavesOf[m] /\ R = Reclaimed(leaves)
  OBVIOUS
<1>2. R \in [Level -> [Slot -> Entry]] /\ \A l \in Level : R[l] = Swept(leaves, R, l)
  BY <1>1, ReclaimedIs
<1>3. \A v \in VirtPage, l \in Level : /\ SlotOf(v, l) \in LeafSlots(leaves) <=> Ends(m, v, l)
                                       /\ SlotOf(v, l) \in Path(leaves) <=> Through(m, v, l)
  <2>1. PICK O : O = {m}
    OBVIOUS
  <2>2. O \in SUBSET Mapping /\ Gathers(leaves, O)
    BY <1>1, <2>1, GatherOne
  <2> QED  BY <2>1, <2>2, LeafSlotsAre, PathIs
<1> DEFINE Done(k) == \A v \in VirtPage, l \in Level : R[k][SlotOf(v, l)] = SweptEntry(M, m, v, l, k)
<1>4. Done(0)
  <2>1. ASSUME NEW v \in VirtPage, NEW l \in Level PROVE R[0][SlotOf(v, l)] = SweptEntry(M, m, v, l, 0)
    <3>1. 0 \in Level /\ SlotOf(v, l) \in Slot /\ (l <= 0 => l = 0)
      BY Levels, Slots
    <3>2. R[0] = [s \in Slot |-> IF s \in LeafSlots(leaves) THEN Invalid ELSE entries[s]]
      BY <1>2, <3>1 DEF Swept
    <3>3. R[0][SlotOf(v, l)] = IF Ends(m, v, l) THEN Invalid ELSE entries[SlotOf(v, l)]
      BY <1>3, <3>1, <3>2
    <3>4. ~(Through(m, v, l) /\ l <= 0)
      BY <3>1, NoTableBelow
    <3> QED  BY <3>3, <3>4 DEF SweptEntry
  <2> QED  BY <2>1
<1>5. ASSUME NEW k \in Level, k + 1 \in Level, Done(k) PROVE Done(k + 1)
  <2>1. ASSUME NEW v \in VirtPage, NEW l \in Level
        PROVE  R[k + 1][SlotOf(v, l)] = SweptEntry(M, m, v, l, k + 1)
    <3>1. k \in Nat /\ l \in Nat /\ k + 1 # 0 /\ (k + 1) - 1 = k /\ SlotOf(v, l) \in Slot /\ SlotOf(v, l)[1] = l
      BY Levels, Slots DEF SlotOf
    <3>2. R[k + 1] = [s \in Slot |-> IF /\ s \in Path(leaves) /\ s[1] = k + 1
                                        /\ is_completely_unmapped(s, R[k])
                                       THEN Invalid ELSE R[k][s]]
      BY <1>2, <1>5, <3>1 DEF Swept
    <3>3. R[k + 1][SlotOf(v, l)] =
            IF Through(m, v, l) /\ l = k + 1 /\ is_completely_unmapped(SlotOf(v, l), R[k])
              THEN Invalid ELSE R[k][SlotOf(v, l)]
      BY <1>3, <3>1, <3>2
    <3>4. R[k][SlotOf(v, l)] = SweptEntry(M, m, v, l, k)
      BY <1>5
    <3>5. CASE l = k + 1
      <4>1. Through(m, v, l) => (is_completely_unmapped(SlotOf(v, l), R[k]) <=>
                                   \A n \in M \ {m} : ~Through(n, v, l))
        BY <1>5, <3>5, EmptyTable
      <4>2. l <= k + 1 /\ ~(l <= k)
        BY <3>1, <3>5
      <4> QED  BY <3>3, <3>4, <3>5, <4>1, <4>2 DEF SweptEntry
    <3>6. CASE l # k + 1
      <4>1. l <= k + 1 <=> l <= k
        BY <3>1, <3>6
      <4> QED  BY <3>3, <3>4, <3>6, <4>1 DEF SweptEntry
    <3> QED  BY <3>5, <3>6
  <2> QED  BY <2>1
<1> DEFINE N == {n \in Nat : n \in Level => Done(n)}
<1> HIDE DEF Done
<1>6. 0 \in N
  BY <1>4
<1>7. ASSUME NEW n \in N PROVE n + 1 \in N
  <2>1. n + 1 \in Level => n \in Level
    BY Levels
  <2> QED  BY <1>5, <2>1
<1>8. N \in SUBSET Nat
  OBVIOUS
<1>9. \A k \in Level : Done(k)
  <2>1. \A n \in Nat : n \in N
    <3> HIDE DEF N
    <3> QED  BY <1>6, <1>7, <1>8, SetInduction
  <2> QED  BY <2>1, Levels
<1> QED  BY <1>1, <1>9 DEF Done

\* unmap() meets what was mapped, and leaves what the other mappings need.
LEMMA UnmapKeepsExact ==
  ASSUME NEW M \in SUBSET Mapping, Disjoint(M), entries \in [Slot -> Entry], ExactFor(entries, M), NEW m \in M
  PROVE  /\ UnmapAsserts(LeavesOf[m])
         /\ Unmapped(LeavesOf[m]) \in [Slot -> Entry] /\ ExactFor(Unmapped(LeavesOf[m]), M \ {m})
<1>1. PICK leaves, O : leaves = LeavesOf[m] /\ O = {m}
  OBVIOUS
<1>2. O \in SUBSET Mapping /\ Gathers(leaves, O)
  BY <1>1, GatherOne
<1>3. ASSUME NEW v \in VirtPage, NEW l \in Level PROVE Right(entries, M, v, l)
  BY DEF ExactFor
<1>4. UnmapAsserts(leaves)
  <2>1. ASSUME NEW s \in Path(leaves) PROVE entries[s] = Indirect
    <3>1. s \in Slot
      BY <1>2, SlotsOfLeaves
    <3>2. PICK v \in VirtPage, l \in Level : s = SlotOf(v, l)
      BY <3>1, Slots
    <3>3. Through(m, v, l)
      BY <1>1, <1>2, <2>1, <3>2, PathIs
    <3> QED  BY <1>3, <3>2, <3>3 DEF Right
  <2>2. ASSUME NEW y \in leaves PROVE entries[SlotOf(y.virt, y.level)] = Leaf(y.phys)
    <3>1. PICK v \in VirtPage, l \in Level :
            Base(v, l) = v /\ Ends(m, v, l) /\ y.virt = v /\ y.level = l /\ y.phys = FrameOf(m, v)
      <4>1. PICK n \in O, v \in VirtPage, l \in Level :
              Base(v, l) = v /\ Ends(n, v, l) /\ y.virt = v /\ y.level = l /\ y.phys = FrameOf(n, v)
        BY <1>2, LeafOrigin
      <4> QED  BY <1>1, <4>1
    <3>2. entries[SlotOf(v, l)] = Leaf(FrameOf(m, Base(v, l)))
      BY <1>3, <3>1 DEF Right
    <3> QED  BY <3>1, <3>2
  <2> QED  BY <2>1, <2>2 DEF UnmapAsserts
<1>5. Unmapped(leaves) \in [Slot -> Entry]
  BY ReclaimedIs, Levels DEF Unmapped
<1>6. ASSUME NEW v \in VirtPage, NEW l \in Level PROVE Right(Unmapped(leaves), M \ {m}, v, l)
  <2>1. PICK e, N : e = Unmapped(leaves)[SlotOf(v, l)] /\ N = M \ {m}
    OBVIOUS
  <2>2. e = IF Ends(m, v, l) \/ (Through(m, v, l) /\ \A n \in N : ~Through(n, v, l))
              THEN Invalid ELSE entries[SlotOf(v, l)]
    <3>1. TOP \in Level /\ l <= TOP
      BY Levels
    <3>2. e = SweptEntry(M, m, v, l, TOP)
      BY <1>1, <2>1, <3>1, ReclaimedAre DEF Unmapped
    <3> QED  BY <2>1, <3>1, <3>2 DEF SweptEntry
  <2>3. N \subseteq M /\ m \notin N /\ M = N \cup {m}
    BY <2>1
  <2>4. CASE Ends(m, v, l)
    <3>1. \A n \in N : ~Through(n, v, l) /\ ~Ends(n, v, l)
      BY <2>3, <2>4, Conflict
    <3> QED  BY <2>1, <2>2, <2>4, <3>1 DEF Right
  <2>5. CASE Through(m, v, l)
    <3>1. \A n \in N : ~Ends(n, v, l)
      BY <2>3, <2>5, Conflict
    <3>2. ~Ends(m, v, l)
      BY <2>5, EndsNotThrough
    <3>3. entries[SlotOf(v, l)] = Indirect
      BY <1>3, <2>5 DEF Right
    <3> QED  BY <2>1, <2>2, <2>5, <3>1, <3>2, <3>3 DEF Right
  <2>6. CASE ~Ends(m, v, l) /\ ~Through(m, v, l)
    <3>1. e = entries[SlotOf(v, l)]
      BY <2>2, <2>6
    <3>2. Right(entries, M, v, l)
      BY <1>3
    <3> QED  BY <2>1, <2>3, <2>6, <3>1, <3>2 DEF Right
  <2> QED  BY <2>4, <2>5, <2>6
<1> QED  BY <1>1, <1>4, <1>5, <1>6 DEF ExactFor

-----------------------------------------------------------------------------
(* Looking pages up.                                                       *)

LEMMA EntryCases ==
  ASSUME NEW e \in Entry
  PROVE  e = Invalid \/ e = Indirect \/ (e.kind = "leaf" /\ \E p \in PhysPage : e = Leaf(p))
  BY Kinds DEF Entry

LEMMA LookupType ==
  ASSUME NEW table \in [Slot -> Entry], NEW v \in VirtPage, table[SlotOf(v, 0)].kind # "indirect",
         NEW l \in Level, NEW f \in [Level -> Nat \cup {None}]
  PROVE  lookup(table, v, f, l) \in Nat \cup {None}
<1>1. PICK e : e = table[SlotOf(v, l)]
  OBVIOUS
<1>2. e \in Entry
  BY <1>1, Slots
<1>3. CASE e = Indirect
  <2>1. l # 0 /\ e.kind = "indirect"
    BY <1>1, <1>3, Kinds
  <2>2. l - 1 \in Level
    BY <2>1, Levels
  <2>3. lookup(table, v, f, l) = f[l - 1]
    BY <1>1, <2>1 DEF lookup
  <2> QED  BY <2>2, <2>3
<1>4. CASE e = Invalid
  BY <1>1, <1>4, Kinds DEF lookup
<1>5. CASE \E p \in PhysPage : e = Leaf(p)
  <2>1. PICK p \in PhysPage : e = Leaf(p)
    BY <1>5
  <2>2. e.kind = "leaf" /\ e.phys = p
    BY <2>1, Kinds
  <2>3. lookup(table, v, f, l) = IF p % PageSize(l) = 0 THEN p + (v % PageSize(l)) ELSE None
    BY <1>1, <2>2 DEF lookup
  <2>4. v % PageSize(l) \in Nat
    <3>1. v \in Nat /\ l \in Nat
      BY Levels, Addresses
    <3> QED  BY <3>1, Bases
  <2>5. p \in Nat
    BY TableAssumption DEF PhysPage
  <2>6. p + (v % PageSize(l)) \in Nat
    BY <2>4, <2>5
  <2> QED  BY <2>3, <2>6
<1> QED  BY <1>2, <1>3, <1>4, <1>5, EntryCases

LEMMA LookupBelow ==
  ASSUME NEW table \in [Slot -> Entry], NEW v \in VirtPage, table[SlotOf(v, 0)].kind # "indirect",
         NEW l \in Level, NEW f, NEW g, l - 1 \in Level => f[l - 1] = g[l - 1]
  PROVE  lookup(table, v, f, l) = lookup(table, v, g, l)
<1>1. CASE l = 0
  BY <1>1 DEF lookup
<1>2. CASE l # 0
  <2>1. l - 1 \in Level
    BY <1>2, Levels
  <2> QED  BY <2>1 DEF lookup
<1> QED  BY <1>1, <1>2

LEMMA WalkExists ==
  ASSUME NEW table \in [Slot -> Entry], NEW v \in VirtPage, table[SlotOf(v, 0)].kind # "indirect"
  PROVE  \E f : f = [l \in Level |-> lookup(table, v, f, l)]
<1> DEFINE V == Nat \cup {None}
           S == [f \in [Level -> V] |-> [l \in Level |-> lookup(table, v, f, l)]]
           rank == [l \in Level |-> l]
<1>1. S \in [[Level -> V] -> [Level -> V]]
  BY LookupType
<1>2. TOP \in Nat /\ rank \in [Level -> 0 .. TOP]
  BY Levels
<1>3. Determined(S, Level, V, rank)
  <2> SUFFICES ASSUME NEW f \in [Level -> V], NEW g \in [Level -> V], NEW l \in Level,
                      \A k \in Level : rank[k] < rank[l] => f[k] = g[k]
               PROVE  lookup(table, v, f, l) = lookup(table, v, g, l)
    BY DEF Determined
  <2>1. l - 1 \in Level => l - 1 < l
    BY Levels
  <2>2. l - 1 \in Level => f[l - 1] = g[l - 1]
    BY <2>1
  <2> QED  BY <2>2, LookupBelow
<1>4. \E f : IsFixedPoint(f, S, Level, V)
  <2>1. PICK D, T, F, k, b : D = Level /\ T = V /\ F = S /\ k = rank /\ b = None
    OBVIOUS
  <2>2. None \in V
    OBVIOUS
  <2> HIDE DEF S, rank, V
  <2>3. b \in T /\ F \in [[D -> T] -> [D -> T]] /\ k \in [D -> 0 .. TOP] /\ Determined(F, D, T, k)
    BY <1>1, <1>2, <1>3, <2>1, <2>2
  <2>4. \E f : IsFixedPoint(f, F, D, T)
    BY <1>2, <2>3, FixedPoint
  <2> QED  BY <2>1, <2>4
<1> QED  BY <1>4 DEF IsFixedPoint

LEMMA WalkIs ==
  ASSUME NEW table \in [Slot -> Entry], NEW v \in VirtPage, table[SlotOf(v, 0)].kind # "indirect"
  PROVE  \A l \in Level : walk(table, v)[l] = lookup(table, v, walk(table, v), l)
<1>1. PICK f : f = [l \in Level |-> lookup(table, v, f, l)]
  BY WalkExists
<1>2. PICK g : g = walk(table, v)
  OBVIOUS
<1>3. g = [l \in Level |-> lookup(table, v, g, l)]
  BY <1>1, <1>2 DEF walk
<1>4. \A l \in Level : g[l] = lookup(table, v, g, l)
  BY <1>3
<1> QED  BY <1>2, <1>4

\* Looking a page up finds the frame that its mapping gives it.
LEMMA Translates ==
  ASSUME NEW M \in SUBSET Mapping, Disjoint(M), NEW table \in [Slot -> Entry], ExactFor(table, M),
         NEW v \in VirtPage
  PROVE  /\ \A m \in M : v \in PagesOf(m) => walk(table, v)[TOP] = FrameOf(m, v)
         /\ (\A m \in M : v \notin PagesOf(m)) => walk(table, v)[TOP] = None
<1>0. TOP \in Nat /\ Level = 0 .. TOP /\ 0 \in Level /\ TOP \in Level /\ v \in Nat
  BY Levels, Addresses
<1>1. table[SlotOf(v, 0)].kind # "indirect"
  <2>1. Right(table, M, v, 0)
    BY <1>0 DEF ExactFor
  <2>2. \A m \in M : ~Through(m, v, 0)
    BY NoTableBelow
  <2> QED  BY <2>1, <2>2, Kinds DEF Right
<1>2. PICK f : f = walk(table, v)
  OBVIOUS
<1>3. \A l \in Level : f[l] = lookup(table, v, f, l)
  BY <1>1, <1>2, WalkIs
<1>4. \A l \in Level : table[SlotOf(v, l)] = Indirect => f[l] = f[l - 1]
  BY <1>3, Kinds DEF lookup
<1>5. \A l \in Level : table[SlotOf(v, l)] = Invalid => f[l] = None
  BY <1>3, Kinds DEF lookup
<1>6. ASSUME NEW m \in M, v \in PagesOf(m) PROVE f[TOP] = FrameOf(m, v)
  <2>1. PICK l \in Level : Ends(m, v, l) /\ \A k \in l + 1 .. TOP : Through(m, v, k)
    BY <1>6, LeafLevel
  <2>2. PICK b, r, p : b = Base(v, l) /\ r = v % PageSize(l) /\ p = PageSize(l)
    OBVIOUS
  <2>3. b \in Nat /\ r \in Nat /\ v = b + r /\ l \in Nat
    BY <1>0, <2>2, Bases
  <2>4. table[SlotOf(v, l)] = Leaf(FrameOf(m, b))
    BY <2>1, <2>2 DEF ExactFor, Right
  <2>5. FrameOf(m, b) % p = 0
    BY <2>1, <2>2 DEF Ends, FitsIn
  <2>6. f[l] = FrameOf(m, b) + r
    BY <1>3, <2>2, <2>4, <2>5, Kinds DEF lookup
  <2>7. FrameOf(m, b) + r = FrameOf(m, v)
    BY <2>3, MappingType DEF FrameOf
  <2> DEFINE N == {n \in Nat : l <= n /\ n <= TOP => f[n] = FrameOf(m, v)}
  <2>8. 0 \in N
    BY <2>3, <2>6, <2>7
  <2>9. ASSUME NEW n \in N PROVE n + 1 \in N
    <3>1. SUFFICES ASSUME l <= n + 1, n + 1 <= TOP PROVE f[n + 1] = FrameOf(m, v)
      OBVIOUS
    <3>2. CASE l = n + 1
      BY <2>6, <2>7, <3>2
    <3>3. CASE l # n + 1
      <4>1. l <= n /\ n <= TOP /\ n + 1 \in Level /\ n + 1 \in l + 1 .. TOP /\ (n + 1) - 1 = n
        BY <1>0, <2>3, <3>1, <3>3
      <4>2. table[SlotOf(v, n + 1)] = Indirect
        BY <2>1, <4>1 DEF ExactFor, Right
      <4> QED  BY <1>4, <4>1, <4>2
    <3> QED  BY <3>2, <3>3
  <2>10. N \in SUBSET Nat
    OBVIOUS
  <2>11. TOP \in N
    <3> HIDE DEF N
    <3>1. \A n \in Nat : n \in N
      BY <2>8, <2>9, <2>10, SetInduction
    <3> QED  BY <1>0, <3>1
  <2> QED  BY <1>0, <2>11
<1>7. ASSUME \A m \in M : v \notin PagesOf(m) PROVE f[TOP] = None
  <2>1. ASSUME NEW l \in Level PROVE table[SlotOf(v, l)] \in {Indirect, Invalid}
    <3>1. \A m \in M : ~Ends(m, v, l)
      BY <1>7, FitsPages DEF Ends
    <3>2. Right(table, M, v, l)
      BY DEF ExactFor
    <3> QED  BY <3>1, <3>2 DEF Right
  <2> DEFINE N == {n \in Nat : n <= TOP => f[n] = None}
  <2>2. 0 \in N
    <3>1. table[SlotOf(v, 0)] = Invalid
      BY <1>0, <1>1, <2>1, Kinds
    <3> QED  BY <1>0, <1>5, <3>1
  <2>3. ASSUME NEW n \in N PROVE n + 1 \in N
    <3>1. SUFFICES ASSUME n + 1 <= TOP PROVE f[n + 1] = None
      OBVIOUS
    <3>2. n <= TOP /\ n + 1 \in Level /\ (n + 1) - 1 = n
      BY <1>0, <3>1
    <3> QED  BY <1>4, <1>5, <2>1, <3>2
  <2>4. N \in SUBSET Nat
    OBVIOUS
  <2>5. TOP \in N
    <3> HIDE DEF N
    <3>1. \A n \in Nat : n \in N
      BY <2>2, <2>3, <2>4, SetInduction
    <3> QED  BY <1>0, <3>1
  <2> QED  BY <1>0, <2>5
<1> QED  BY <1>2, <1>6, <1>7

-----------------------------------------------------------------------------
(* The invariant.                                                          *)

TableInv ==
  /\ TableTypeOK /\ IsFiniteSet(mappings)
  /\ NeverPanics
  /\ Disjoint(mappings)
  /\ ExactFor(entries, mappings)

LEMMA TableInitially == TableInit => TableInv
<1> SUFFICES ASSUME TableInit PROVE TableInv
  OBVIOUS
<1>1. entries = [s \in Slot |-> Invalid] /\ mappings = {} /\ assert_failed = FALSE
  BY DEF TableInit
<1>2. TableTypeOK /\ IsFiniteSet(mappings)
  <2>1. Invalid \in Entry /\ MAX_LIVE \in Nat
    BY TableAssumption DEF Entry
  <2>2. IsFiniteSet({}) /\ Cardinality({}) = 0
    BY FS_EmptySet
  <2>3. entries \in [Slot -> Entry]
    BY <1>1, <2>1
  <2>4. mappings \subseteq Mapping /\ assert_failed \in BOOLEAN
    BY <1>1
  <2>5. Cardinality(mappings) <= MAX_LIVE /\ IsFiniteSet(mappings)
    BY <1>1, <2>1, <2>2
  <2> QED  BY <2>3, <2>4, <2>5 DEF TableTypeOK
<1>3. ExactFor(entries, mappings)
  BY <1>1, Slots DEF ExactFor, Right
<1> QED  BY <1>1, <1>2, <1>3 DEF TableInv, NeverPanics, Disjoint

LEMMA MapType ==
  ASSUME NEW m \in Mapping, entries \in [Slot -> Entry]
  PROVE  MapLeaves(LeavesOf[m]) \in [Slot -> Entry]
<1>1. PICK leaves, O : leaves = LeavesOf[m] /\ O = {m}
  OBVIOUS
<1>2. O \in SUBSET Mapping /\ Gathers(leaves, O)
  BY <1>1, GatherOne
<1>3. ASSUME NEW y \in leaves PROVE Leaf(y.phys) \in Entry
  <2>1. PICK v \in VirtPage, l \in Level : Ends(m, v, l) /\ y.phys = FrameOf(m, v)
    BY <1>1, <1>2, LeafOrigin
  <2>2. y.phys \in PhysPage
    BY <2>1, FitsPages, MappingType DEF Ends
  <2> QED  BY <2>2 DEF Entry
<1>4. ASSUME NEW s \in LeafSlots(leaves)
      PROVE  Leaf((CHOOSE y \in leaves : s = SlotOf(y.virt, y.level)).phys) \in Entry
  <2>1. PICK y : y = CHOOSE z \in leaves : s = SlotOf(z.virt, z.level)
    OBVIOUS
  <2>2. y \in leaves
    BY <2>1 DEF LeafSlots
  <2> QED  BY <1>3, <2>1, <2>2
<1>5. Indirect \in Entry
  BY DEF Entry
<1> DEFINE e(s) == IF s \in Path(leaves) THEN Indirect
                   ELSE IF s \in LeafSlots(leaves) THEN Leaf((CHOOSE y \in leaves : s = SlotOf(y.virt, y.level)).phys)
                   ELSE entries[s]
<1>6. \A s \in Slot : e(s) \in Entry
  BY <1>4, <1>5
<1>7. MapLeaves(leaves) = [s \in Slot |-> e(s)]
  BY DEF MapLeaves
<1> HIDE DEF e
<1> QED  BY <1>1, <1>6, <1>7

\* What a mapping does to what the callers have.
LEMMA MapStep ==
  ASSUME TableInv, NEW m \in Mapping, \A other \in mappings : PagesOf(m) \cap PagesOf(other) = {},
         Cardinality(mappings) < MAX_LIVE, map(m)
  PROVE  TableInv' /\ mappings' = mappings \cup {m} /\ m \notin mappings
<1>1. /\ mappings \in SUBSET Mapping /\ entries \in [Slot -> Entry] /\ IsFiniteSet(mappings)
      /\ Disjoint(mappings) /\ ExactFor(entries, mappings) /\ assert_failed = FALSE
  BY DEF TableInv, TableTypeOK, NeverPanics
<1>2. m \notin mappings
  BY MappingType
<1>3. Disjoint(mappings \cup {m})
  BY <1>1 DEF Disjoint
<1>4. PICK M : M = mappings
  OBVIOUS
<1>5. MapAsserts(LeavesOf[m]) /\ ExactFor(MapLeaves(LeavesOf[m]), M \cup {m})
  BY <1>1, <1>2, <1>3, <1>4, MapKeepsExact
<1>6. entries' = MapLeaves(LeavesOf[m]) /\ mappings' = mappings \cup {m} /\ assert_failed' = assert_failed
  BY <1>5 DEF map
<1>7. IsFiniteSet(mappings') /\ Cardinality(mappings') <= MAX_LIVE
  <2>1. IsFiniteSet(mappings \cup {m}) /\ Cardinality(mappings \cup {m}) = Cardinality(mappings) + 1
    BY <1>1, <1>2, FS_AddElement
  <2>2. Cardinality(mappings) \in Nat /\ MAX_LIVE \in Nat
    BY <1>1, FS_CardinalityType, TableAssumption
  <2> QED  BY <1>6, <2>1, <2>2
<1>8. TableTypeOK'
  <2>1. entries' \in [Slot -> Entry]
    BY <1>1, <1>6, MapType
  <2> QED  BY <1>1, <1>6, <1>7, <2>1 DEF TableTypeOK
<1>9. Disjoint(mappings)' /\ ExactFor(entries, mappings)'
  BY <1>3, <1>4, <1>5, <1>6
<1> QED  BY <1>1, <1>2, <1>6, <1>7, <1>8, <1>9 DEF TableInv, NeverPanics

LEMMA UnmapStep ==
  ASSUME TableInv, NEW m \in mappings, unmap(m)
  PROVE  TableInv' /\ mappings' = mappings \ {m}
<1>1. /\ mappings \in SUBSET Mapping /\ entries \in [Slot -> Entry] /\ IsFiniteSet(mappings)
      /\ Disjoint(mappings) /\ ExactFor(entries, mappings) /\ assert_failed = FALSE
      /\ Cardinality(mappings) <= MAX_LIVE
  BY DEF TableInv, TableTypeOK, NeverPanics
<1>2. PICK M : M = mappings
  OBVIOUS
<1>3. /\ UnmapAsserts(LeavesOf[m])
      /\ Unmapped(LeavesOf[m]) \in [Slot -> Entry] /\ ExactFor(Unmapped(LeavesOf[m]), M \ {m})
  BY <1>1, <1>2, UnmapKeepsExact
<1>4. entries' = Unmapped(LeavesOf[m]) /\ mappings' = mappings \ {m} /\ assert_failed' = assert_failed
  BY <1>3 DEF unmap
<1>5. IsFiniteSet(mappings') /\ Cardinality(mappings') <= MAX_LIVE
  <2>1. IsFiniteSet(mappings \ {m}) /\ Cardinality(mappings \ {m}) = Cardinality(mappings) - 1
    BY <1>1, FS_RemoveElement
  <2>2. Cardinality(mappings) \in Nat /\ MAX_LIVE \in Nat
    BY <1>1, FS_CardinalityType, TableAssumption
  <2> QED  BY <1>1, <1>4, <2>1, <2>2
<1>6. TableTypeOK'
  BY <1>1, <1>3, <1>4, <1>5 DEF TableTypeOK
<1>7. Disjoint(mappings)'
  BY <1>1, <1>4 DEF Disjoint
<1>8. ExactFor(entries, mappings)'
  BY <1>2, <1>3, <1>4
<1> QED  BY <1>1, <1>4, <1>5, <1>6, <1>7, <1>8 DEF TableInv, NeverPanics

LEMMA TableStep == TableInv /\ [TableNext]_table_vars => TableInv'
<1> SUFFICES ASSUME TableInv, [TableNext]_table_vars PROVE TableInv'
  OBVIOUS
<1>1. CASE MapFree
  <2>1. PICK m \in Mapping : /\ \A other \in mappings : PagesOf(m) \cap PagesOf(other) = {}
                             /\ Cardinality(mappings) < MAX_LIVE
                             /\ map(m)
    BY <1>1 DEF MapFree
  <2> QED  BY <2>1, MapStep
<1>2. CASE UnmapLive
  <2>1. PICK m \in mappings : unmap(m)
    BY <1>2 DEF UnmapLive
  <2> QED  BY <2>1, UnmapStep
<1>3. CASE UNCHANGED table_vars
  BY <1>3 DEF table_vars, TableInv, TableTypeOK, NeverPanics
<1> QED  BY <1>1, <1>2, <1>3 DEF TableNext

\* The mappings of the callers share no page, no assertion of map(), unmap()
\* and the helpers in page/table.rs has failed, and at each level the entry of
\* a page is what the largest blocks that the mappings are cut into need.
THEOREM TableInductive == TableSpec => []TableInv
BY TableInitially, TableStep, PTL DEF TableSpec

LEMMA InvExact == TableInv => EntriesExact
<1> SUFFICES ASSUME TableInv, NEW s \in Slot PROVE
      LET leaves == UNION {LeavesOf[m] : m \in mappings}
      IN  entries[s] = IF s \in Path(leaves) THEN Indirect
                       ELSE IF \E l \in leaves : s = SlotOf(l.virt, l.level)
                         THEN Leaf((CHOOSE l \in leaves : s = SlotOf(l.virt, l.level)).phys)
                         ELSE Invalid
  BY DEF EntriesExact
<1>1. /\ mappings \in SUBSET Mapping /\ Disjoint(mappings) /\ ExactFor(entries, mappings)
  BY DEF TableInv, TableTypeOK
<1>2. PICK leaves, M : leaves = UNION {LeavesOf[m] : m \in mappings} /\ M = mappings
  OBVIOUS
<1>3. Gathers(leaves, M)
  BY <1>1, <1>2, GatherAll
<1>4. M \in SUBSET Mapping /\ Disjoint(M) /\ ExactFor(entries, M)
  BY <1>1, <1>2
<1>5. PICK v \in VirtPage, l \in Level : s = SlotOf(v, l)
  BY Slots
<1>6. Right(entries, M, v, l)
  BY <1>4 DEF ExactFor
<1>7. (\E y \in leaves : s = SlotOf(y.virt, y.level)) <=> s \in LeafSlots(leaves)
  BY DEF LeafSlots
<1>8. CASE s \in Path(leaves)
  <2>1. entries[s] = Indirect
    BY <1>3, <1>4, <1>5, <1>6, <1>8, PathIs DEF Right
  <2> QED  BY <1>2, <1>8, <2>1
<1>9. CASE s \notin Path(leaves) /\ s \in LeafSlots(leaves)
  <2>1. PICK m \in M : Ends(m, v, l)
    BY <1>3, <1>4, <1>5, <1>9, LeafSlotsAre
  <2>2. entries[s] = Leaf(FrameOf(m, Base(v, l)))
    BY <1>5, <1>6, <2>1 DEF Right
  <2>3. (CHOOSE y \in leaves : s = SlotOf(y.virt, y.level)).phys = FrameOf(m, Base(v, l))
    BY <1>3, <1>4, <1>5, <2>1, LeafFrames
  <2> QED  BY <1>2, <1>7, <1>9, <2>2, <2>3
<1>10. CASE s \notin Path(leaves) /\ s \notin LeafSlots(leaves)
  <2>1. \A m \in M : ~Ends(m, v, l) /\ ~Through(m, v, l)
    BY <1>3, <1>4, <1>5, <1>10, LeafSlotsAre, PathIs
  <2>2. entries[s] = Invalid
    BY <1>5, <1>6, <2>1 DEF Right
  <2> QED  BY <1>2, <1>7, <1>10, <2>2
<1> QED  BY <1>8, <1>9, <1>10

\* However ranges are mapped and unmapped, and whatever the size of the tables
\* and their number of levels: the tables are exactly those the mappings that
\* are left need, and no assertion on the way fails.
THEOREM TablesStayExact == TableSpec => []TablesExact
<1>1. TableInv => TablesExact
  BY InvExact DEF TableInv, TablesExact
<1> QED  BY <1>1, TableInductive, PTL

-----------------------------------------------------------------------------
(* The refinement.                                                         *)

LEMMA FramesOf ==
  ASSUME NEW M \in SUBSET Mapping, Disjoint(M), NEW table \in [Slot -> Entry], ExactFor(table, M),
         NEW F, F = [v \in VirtPage |-> walk(table, v)[TOP]]
  PROVE  /\ DOMAIN F = VirtPage
         /\ \A m \in M : \A v \in PagesOf(m) : F[v] = m.phys + (v - m.virt)
         /\ \A v \in VirtPage : (\A m \in M : v \notin PagesOf(m)) => F[v] = None
<1>1. \A v \in VirtPage : F[v] = walk(table, v)[TOP]
  OBVIOUS
<1>2. ASSUME NEW m \in M, NEW v \in PagesOf(m) PROVE F[v] = m.phys + (v - m.virt)
  <2>1. v \in VirtPage
    BY MappingType
  <2>2. F[v] = FrameOf(m, v)
    BY <1>1, <2>1, Translates
  <2> QED  BY <2>2 DEF FrameOf
<1>3. ASSUME NEW v \in VirtPage, \A m \in M : v \notin PagesOf(m) PROVE F[v] = None
  BY <1>1, <1>3, Translates
<1> QED  BY <1>2, <1>3

\* What the pages lead to when m comes or goes.
LEMMA FramesChange ==
  ASSUME NEW M \in SUBSET Mapping, NEW m \in M, NEW f, NEW g, Disjoint(M),
         \A n \in M : \A v \in PagesOf(n) : g[v] = n.phys + (v - n.virt),
         \A v \in VirtPage : (\A n \in M : v \notin PagesOf(n)) => g[v] = None,
         \A n \in M \ {m} : \A v \in PagesOf(n) : f[v] = n.phys + (v - n.virt),
         \A v \in VirtPage : (\A n \in M \ {m} : v \notin PagesOf(n)) => f[v] = None
  PROVE  /\ \A v \in PagesOf(m) : f[v] = None /\ g[v] = m.phys + (v - m.virt)
         /\ \A v \in VirtPage : v \notin PagesOf(m) => f[v] = g[v]
<1>1. ASSUME NEW v \in PagesOf(m) PROVE f[v] = None /\ g[v] = m.phys + (v - m.virt)
  <2>1. v \in VirtPage
    BY MappingType
  <2>2. \A n \in M \ {m} : v \notin PagesOf(n)
    BY DEF Disjoint
  <2> QED  BY <2>1, <2>2
<1>2. ASSUME NEW v \in VirtPage, v \notin PagesOf(m) PROVE f[v] = g[v]
  <2>1. CASE \E n \in M : v \in PagesOf(n)
    <3>1. PICK n \in M : v \in PagesOf(n)
      BY <2>1
    <3>2. n \in M \ {m}
      BY <1>2, <3>1
    <3>3. f[v] = n.phys + (v - n.virt)
      BY <3>1, <3>2
    <3>4. g[v] = n.phys + (v - n.virt)
      BY <3>1
    <3> QED  BY <3>3, <3>4
  <2>2. CASE \A n \in M : v \notin PagesOf(n)
    BY <1>2, <2>2
  <2> QED  BY <2>1, <2>2
<1> QED  BY <1>1, <1>2

\* The range of a mapping is one that may be mapped.
LEMMA RangeOf ==
  ASSUME NEW m \in Mapping
  PROVE  /\ m.virt \in VirtPage /\ m.phys \in PhysPage /\ m.size \in {v + 1 : v \in VirtPage}
         /\ Abstract!Range(m.virt, m.size) = PagesOf(m) /\ PagesOf(m) \subseteq VirtPage
         /\ Abstract!Range(m.phys, m.size) \subseteq PhysPage
<1>1. m.virt \in VirtPage /\ m.phys \in PhysPage /\ m.size \in 1 .. VIRT_END
      /\ m.virt + m.size <= VIRT_END /\ m.phys + m.size <= PHYS_END
  BY DEF Mapping
<1>2. m.size \in {v + 1 : v \in VirtPage}
  <2>1. m.size - 1 \in VirtPage /\ m.size = (m.size - 1) + 1
    BY <1>1, Addresses
  <2> QED  BY <2>1
<1>3. Abstract!Range(m.virt, m.size) = PagesOf(m)
  BY DEF Abstract!Range, PagesOf
<1>4. Abstract!Range(m.phys, m.size) \subseteq PhysPage
  <2>1. PICK a, d, e : a = m.phys /\ d = m.size /\ e = PHYS_END
    OBVIOUS
  <2>2. a \in Nat /\ d \in Nat /\ e \in Nat /\ a + d <= e
    BY <1>1, <2>1, MappingType, TableAssumption
  <2>3. Abstract!Range(m.phys, m.size) = a .. a + d - 1 /\ PhysPage = 0 .. e - 1
    BY <2>1 DEF Abstract!Range, PhysPage
  <2> QED  BY <2>2, <2>3
<1> QED  BY <1>1, <1>2, <1>3, <1>4, MappingType

LEMMA InitRefines == TableInit => Abstract!Init
<1> SUFFICES ASSUME TableInit PROVE Abstract!Init
  OBVIOUS
<1>1. TableInv /\ mappings = {}
  BY TableInitially DEF TableInit
<1>2. PICK F : F = [v \in VirtPage |-> walk(entries, v)[TOP]]
  OBVIOUS
<1>3. /\ mappings \in SUBSET Mapping /\ Disjoint(mappings)
      /\ entries \in [Slot -> Entry] /\ ExactFor(entries, mappings)
  BY <1>1 DEF TableInv, TableTypeOK
<1>4. \A v \in VirtPage : F[v] = None
  BY <1>1, <1>2, <1>3, FramesOf
<1>5. F = [v \in VirtPage |-> None]
  BY <1>2, <1>4
<1>6. F = [v \in VirtPage |-> translate(v)]
  BY <1>2 DEF translate
<1> QED  BY <1>5, <1>6 DEF Abstract!Init

LEMMA StepRefines == TableInv /\ [TableNext]_table_vars => [Abstract!Next]_([v \in VirtPage |-> translate(v)])
<1> SUFFICES ASSUME TableInv, [TableNext]_table_vars
             PROVE  [Abstract!Next]_([v \in VirtPage |-> translate(v)])
  OBVIOUS
<1>1. PICK f, g : f = [v \in VirtPage |-> walk(entries, v)[TOP]] /\ g = [v \in VirtPage |-> walk(entries', v)[TOP]]
  OBVIOUS
<1>2. f = [v \in VirtPage |-> translate(v)]
  BY <1>1 DEF translate
<1>3. g = [v \in VirtPage |-> translate(v)]'
  BY <1>1 DEF translate
<1>4. /\ mappings \in SUBSET Mapping /\ Disjoint(mappings)
      /\ entries \in [Slot -> Entry] /\ ExactFor(entries, mappings)
  BY DEF TableInv, TableTypeOK
<1>5. /\ mappings' \in SUBSET Mapping /\ Disjoint(mappings')
      /\ entries' \in [Slot -> Entry] /\ ExactFor(entries', mappings')
  BY TableStep DEF TableInv, TableTypeOK
<1>6. /\ \A n \in mappings : \A v \in PagesOf(n) : f[v] = n.phys + (v - n.virt)
      /\ \A v \in VirtPage : (\A n \in mappings : v \notin PagesOf(n)) => f[v] = None
  BY <1>1, <1>4, FramesOf
<1>7. /\ \A n \in mappings' : \A v \in PagesOf(n) : g[v] = n.phys + (v - n.virt)
      /\ \A v \in VirtPage : (\A n \in mappings' : v \notin PagesOf(n)) => g[v] = None
  BY <1>1, <1>5, FramesOf
<1>8. DOMAIN g = VirtPage
  BY <1>1
<1>9. CASE MapFree
  <2>1. PICK m \in Mapping : /\ \A other \in mappings : PagesOf(m) \cap PagesOf(other) = {}
                             /\ Cardinality(mappings) < MAX_LIVE
                             /\ map(m)
    BY <1>9 DEF MapFree
  <2>2. mappings' = mappings \cup {m} /\ m \notin mappings
    BY <2>1, MapStep
  <2>3. PICK M : M = mappings'
    OBVIOUS
  <2>4. M \in SUBSET Mapping /\ m \in M /\ Disjoint(M) /\ M \ {m} = mappings
    BY <1>5, <2>2, <2>3
  <2>5. /\ \A v \in PagesOf(m) : f[v] = None /\ g[v] = m.phys + (v - m.virt)
        /\ \A v \in VirtPage : v \notin PagesOf(m) => f[v] = g[v]
    BY <1>6, <1>7, <2>3, <2>4, FramesChange
  <2>6. Abstract!map(m.virt, m.phys, m.size)
    BY <1>2, <1>3, <2>5, RangeOf DEF Abstract!map
  <2>7. Abstract!Next
    <3>1. PICK v, p, n : v = m.virt /\ p = m.phys /\ n = m.size
      OBVIOUS
    <3>2. /\ v \in VirtPage /\ p \in PhysPage /\ n \in {u + 1 : u \in VirtPage}
          /\ Abstract!Range(v, n) \subseteq VirtPage /\ Abstract!Range(p, n) \subseteq PhysPage
      BY <3>1, RangeOf
    <3> QED  BY <1>3, <1>8, <2>6, <3>1, <3>2 DEF Abstract!Next
  <2> QED  BY <2>7
<1>10. CASE UnmapLive
  <2>1. PICK m \in mappings : unmap(m)
    BY <1>10 DEF UnmapLive
  <2>2. mappings' = mappings \ {m} /\ m \in Mapping
    BY <1>4, <2>1, UnmapStep
  <2>3. /\ \A v \in PagesOf(m) : g[v] = None /\ f[v] = m.phys + (v - m.virt)
        /\ \A v \in VirtPage : v \notin PagesOf(m) => f[v] = g[v]
    <3>1. PICK M : M = mappings
      OBVIOUS
    <3>2. M \in SUBSET Mapping /\ m \in M /\ Disjoint(M) /\ M \ {m} = mappings'
      BY <1>4, <2>2, <3>1
    <3> QED  BY <1>6, <1>7, <3>1, <3>2, FramesChange
  <2>4. Abstract!unmap(m.virt, m.phys, m.size)
    BY <1>2, <1>3, <2>2, <2>3, RangeOf DEF Abstract!unmap
  <2>5. Abstract!Next
    <3>1. PICK v, p, n : v = m.virt /\ p = m.phys /\ n = m.size
      OBVIOUS
    <3>2. /\ v \in VirtPage /\ p \in PhysPage /\ n \in {u + 1 : u \in VirtPage}
          /\ Abstract!Range(v, n) \subseteq VirtPage /\ Abstract!Range(p, n) \subseteq PhysPage
      BY <2>2, <3>1, RangeOf
    <3> QED  BY <1>3, <1>8, <2>4, <3>1, <3>2 DEF Abstract!Next
  <2> QED  BY <2>5
<1>11. CASE UNCHANGED table_vars
  <2>1. entries' = entries
    BY <1>11 DEF table_vars
  <2>2. f = g
    BY <1>1, <2>1
  <2> QED  BY <1>2, <1>3, <2>2
<1> QED  BY <1>9, <1>10, <1>11 DEF TableNext

\* The nested tables, walked as the hardware and is_mapped() do, are the map
\* from pages to frames that the callers of map() and unmap() have in mind: a
\* step changes the pages of its range as it says, and no other page.
THEOREM TablesRefineMap == TableSpec => ImplementsPageMap
BY InitRefines, StepRefines, TableInductive, PTL DEF TableSpec, ImplementsPageMap, Abstract!Spec

=============================================================================
