---------------------------- MODULE CommonTheorems ----------------------------
(***************************************************************************)
(* Indices that only count up, and the slot of a ring of q slots each of   *)
(* them falls in: what the proofs about queues and ring buffers share.     *)
(* Also division, and the least and the greatest element of a set.         *)
(***************************************************************************)
EXTENDS Integers, Sequences, WellFoundedInduction, TLAPS

LEMMA DivMod == 
  ASSUME NEW q \in Nat \ {0}, NEW n \in Nat
  PROVE /\ n % q \in 0 .. q - 1 /\ n \div q \in Nat
        /\ n = q * (n \div q) + (n % q)
  OBVIOUS

\* A multiple of q between -q and q is 0.
LEMMA SmallMultiple ==
  ASSUME NEW q \in Nat \ {0}, NEW d \in Int, q * d < q, -q < q * d
  PROVE  d = 0
<1>1. CASE d >= 1
  <2>1. PICK e \in Nat : d = e + 1
    BY <1>1
  <2>2. q * (e + 1) = q * e + q /\ q * e >= 0
    OBVIOUS
  <2> QED BY <2>1, <2>2
<1>2. CASE d <= -1
  <2>1. PICK e \in Nat : d = -(e + 1)
    BY <1>2
  <2>2. q * (-(e + 1)) = -(q * e) - q /\ q * e >= 0
    OBVIOUS
  <2> QED BY <2>1, <2>2
<1> QED BY <1>1, <1>2

\* The quotient and the remainder are the only ones there are.
LEMMA DivUnique ==
  ASSUME NEW p \in Nat \ {0}, NEW n \in Nat, NEW k \in Nat, NEW r \in 0 .. p - 1, n = p * k + r
  PROVE  n \div p = k /\ n % p = r
<1>1. PICK a, b : a = n \div p /\ b = n % p
  OBVIOUS
<1>2. a \in Nat /\ b \in 0 .. p - 1 /\ n = p * a + b
  BY <1>1, DivMod
<1>3. PICK d \in Int : d = a - k
  BY <1>2
<1>4. p * a - p * k = p * (a - k)
  BY <1>2
<1>5. p * d = r - b
  BY <1>2, <1>3, <1>4
<1>6. p * d < p /\ -p < p * d
  BY <1>2, <1>5
<1>7. d = 0
  BY <1>6, SmallMultiple
<1> QED  BY <1>1, <1>2, <1>3, <1>5, <1>7

\* Two indices less than a ring apart fall in different slots.
LEMMA ModInjective ==
  ASSUME NEW q \in Nat \ {0}, NEW n \in Nat, NEW m \in Nat,
         n % q = m % q, n - m < q, m - n < q
  PROVE  n = m
<1>1. PICK a, b, r : a = n \div q /\ b = m \div q /\ r = n % q
  OBVIOUS
<1>2. /\ a \in Nat /\ b \in Nat /\ r \in 0 .. q - 1
      /\ n = q * a + r /\ m = q * b + r
  BY <1>1, DivMod
<1>3. q * (a - b) = n - m
  BY <1>2
<1>4. a - b = 0
  BY <1>2, <1>3, SmallMultiple
<1> QED BY <1>3, <1>4

\* An index one ring further falls in the same slot.
LEMMA ModShift ==
  ASSUME NEW q \in Nat \ {0}, NEW n \in Nat
  PROVE  (n + q) % q = n % q
<1>0. PICK m \in Nat : m = n + q
  OBVIOUS
<1>1. PICK a, b, r, s : a = n \div q /\ b = m \div q /\ r = n % q /\ s = m % q
  OBVIOUS
<1>2. a \in Nat /\ r \in 0 .. q - 1 /\ n = q * a + r
  BY <1>1, DivMod
<1>3. b \in Nat /\ s \in 0 .. q - 1 /\ m = q * b + s
  BY <1>1, DivMod
<1>4. q * (b - a - 1) = r - s
  BY <1>0, <1>2, <1>3
<1>5. b - a - 1 = 0
  BY <1>2, <1>3, <1>4, SmallMultiple
<1>6. r = s
  BY <1>2, <1>3, <1>4, <1>5
<1> QED BY <1>0, <1>1, <1>6

-----------------------------------------------------------------------------
(* What lies between two indices of a ring, as a sequence.                 *)

IsRing(ring, q, S) == ring \in [0 .. q - 1 -> S]
Window(ring, first, end, q) == [i \in 1 .. end - first |-> ring[(first + i - 1) % q]]

LEMMA WindowType ==
  ASSUME NEW q \in Nat \ {0}, NEW S, NEW ring, IsRing(ring, q, S),
         NEW first \in Nat, NEW end \in Nat, first <= end
  PROVE  Window(ring, first, end, q) \in Seq(S) /\ Len(Window(ring, first, end, q)) = end - first
<1>1. ASSUME NEW i \in 1 .. end - first PROVE ring[(first + i - 1) % q] \in S
  <2>1. first + i - 1 \in Nat
    OBVIOUS
  <2> QED BY <2>1, DivMod DEF IsRing
<1>2. end - first \in Nat
  OBVIOUS
<1> QED BY <1>1, <1>2 DEF Window

\* Rings that agree between the two indices have the same contents there.
LEMMA WindowSame ==
  ASSUME NEW q \in Nat \ {0}, NEW ring, NEW other, NEW first \in Nat, NEW end \in Nat,
         \A k \in first .. end - 1 : ring[k % q] = other[k % q]
  PROVE  Window(ring, first, end, q) = Window(other, first, end, q)
<1>1. ASSUME NEW i \in 1 .. end - first
      PROVE  ring[(first + i - 1) % q] = other[(first + i - 1) % q]
  <2>1. first + i - 1 \in first .. end - 1
    OBVIOUS
  <2> QED BY <2>1
<1> QED BY <1>1 DEF Window

LEMMA WindowAppend ==
  ASSUME NEW q \in Nat \ {0}, NEW S, NEW ring, IsRing(ring, q, S),
         NEW first \in Nat, NEW end \in Nat, first <= end
  PROVE  Window(ring, first, end + 1, q) = Append(Window(ring, first, end, q), ring[end % q])
<1>0. PICK n, w, v : n = end - first /\ w = Window(ring, first, end, q) /\ v = Window(ring, first, end + 1, q)
  OBVIOUS
<1>1. n \in Nat /\ w \in Seq(S) /\ Len(w) = n /\ (end + 1) - first = n + 1
  <2>1. n \in Nat /\ (end + 1) - first = n + 1
    BY <1>0
  <2>2. Window(ring, first, end, q) \in Seq(S) /\ Len(Window(ring, first, end, q)) = end - first
    BY WindowType, ZenonT(30)
  <2> QED BY <1>0, <2>1, <2>2
<1>2. \A i \in 1 .. n : w[i] = ring[(first + i - 1) % q]
  BY <1>0 DEF Window
<1>3. v = [i \in 1 .. n + 1 |-> ring[(first + i - 1) % q]]
  BY <1>0, <1>1 DEF Window
<1>4. first + (n + 1) - 1 = end
  BY <1>0
<1>5. \A i \in 1 .. n + 1 : v[i] = Append(w, ring[end % q])[i]
  <2>1. ASSUME NEW i \in 1 .. n + 1 PROVE v[i] = Append(w, ring[end % q])[i]
    <3>1. CASE i \in 1 .. n
      BY <1>1, <1>2, <1>3, <3>1
    <3>2. CASE i = n + 1
      <4>1. n + 1 \in 1 .. n + 1
        BY <1>1
      <4>2. v[n + 1] = ring[end % q]
        BY <1>3, <1>4, <4>1
      <4>3. Append(w, ring[end % q])[n + 1] = ring[end % q]
        BY <1>1
      <4> QED BY <3>2, <4>2, <4>3
    <3> QED BY <1>1, <3>1, <3>2
  <2> QED BY <2>1
<1>6. Append(w, ring[end % q]) = [i \in 1 .. n + 1 |-> Append(w, ring[end % q])[i]]
  BY <1>1
<1> QED BY <1>0, <1>3, <1>5, <1>6

LEMMA WindowTail ==
  ASSUME NEW q \in Nat \ {0}, NEW S, NEW ring, IsRing(ring, q, S),
         NEW first \in Nat, NEW end \in Nat, first < end
  PROVE  /\ Window(ring, first, end, q) # <<>>
         /\ Head(Window(ring, first, end, q)) = ring[first % q]
         /\ Tail(Window(ring, first, end, q)) = Window(ring, first + 1, end, q)
<1>0. PICK n, w, v : n = end - first /\ w = Window(ring, first, end, q) /\ v = Window(ring, first + 1, end, q)
  OBVIOUS
<1>1. n \in Nat \ {0} /\ w \in Seq(S) /\ Len(w) = n /\ end - (first + 1) = n - 1
  <2>1. n \in Nat \ {0} /\ end - (first + 1) = n - 1
    BY <1>0
  <2>0. first <= end
    OBVIOUS
  <2>2. Window(ring, first, end, q) \in Seq(S) /\ Len(Window(ring, first, end, q)) = end - first
    BY <2>0, WindowType, ZenonT(30)
  <2> QED BY <1>0, <2>1, <2>2
<1>2. \A i \in 1 .. n : w[i] = ring[(first + i - 1) % q]
  BY <1>0 DEF Window
<1>3. v = [i \in 1 .. n - 1 |-> ring[(first + 1 + i - 1) % q]]
  BY <1>0, <1>1 DEF Window
<1>4. w # <<>> /\ Head(w) = w[1]
  BY <1>1
<1>5. w[1] = ring[first % q]
  <2>1. 1 \in 1 .. n /\ first + 1 - 1 = first
    BY <1>1
  <2> QED BY <1>2, <2>1
<1>6. ASSUME NEW i \in 1 .. n - 1 PROVE v[i] = Tail(w)[i]
  <2>1. i + 1 \in 1 .. n /\ first + 1 + i - 1 = first + (i + 1) - 1
    BY <1>1
  <2>2. Tail(w)[i] = w[i + 1]
    BY <1>1
  <2> QED BY <1>2, <1>3, <2>1, <2>2
<1>7. Tail(w) = [i \in 1 .. n - 1 |-> Tail(w)[i]]
  <2>1. PICK t : t = Tail(w)
    OBVIOUS
  <2>2. t \in Seq(S) /\ Len(t) = n - 1
    BY <1>1, <2>1
  <2>3. t = [i \in 1 .. n - 1 |-> t[i]]
    BY <2>2
  <2> QED BY <2>1, <2>3
<1> QED BY <1>0, <1>3, <1>4, <1>5, <1>6, <1>7

-----------------------------------------------------------------------------
(* Two queues in a row.                                                    *)

LEMMA AppendConcat ==
  ASSUME NEW S, NEW front \in Seq(S), NEW back \in Seq(S), NEW value \in S
  PROVE  front \o Append(back, value) = Append(front \o back, value)
  OBVIOUS

LEMMA MoveConcat ==
  ASSUME NEW S, NEW front \in Seq(S), NEW back \in Seq(S), back # <<>>
  PROVE  Append(front, Head(back)) \o Tail(back) = front \o back
  OBVIOUS

LEMMA TailConcat ==
  ASSUME NEW S, NEW front \in Seq(S), NEW back \in Seq(S), front # <<>>
  PROVE  /\ front \o back # <<>> /\ Head(front \o back) = Head(front)
         /\ Tail(front \o back) = Tail(front) \o back
  OBVIOUS
-----------------------------------------------------------------------------
(* Least and greatest numbers.                                             *)

\* Every set of numbers that is not empty has a least one.
LEMMA LeastNumber ==
  ASSUME NEW T \in SUBSET Nat, T # {}
  PROVE  \E x \in T : \A y \in T : x <= y
<1>1. PICK R : R = OpToRel(<, Nat)
  BY Zenon
<1>2. IsWellFoundedOn(R, Nat)
  BY <1>1, NatLessThanWellFounded, Zenon
<1>3. PICK x \in T : \A y \in T : ~(<<y, x>> \in R)
  BY <1>2, WFMin, Zenon
<1>4. ASSUME NEW y \in T, y < x PROVE FALSE
  <2>1. <<y, x>> \in R
    BY <1>1, <1>4 DEF OpToRel
  <2> QED  BY <1>3, <2>1
<1> QED  BY <1>3, <1>4

LEMMA GreatestNumber ==
  ASSUME NEW n \in Nat, NEW T \in SUBSET (1 .. n), T # {}
  PROVE  \E x \in T : \A y \in T : y <= x
<1>1. PICK U : U = {k \in Nat : n - k \in T}
  OBVIOUS
<1>2. U \in SUBSET Nat /\ U # {}
  <2>1. PICK x \in T : x \in 1 .. n
    OBVIOUS
  <2>2. n - x \in Nat /\ n - (n - x) = x
    BY <2>1
  <2>3. n - x \in U
    BY <1>1, <2>2
  <2> QED  BY <1>1, <2>3
<1>3. PICK u \in U : \A v \in U : u <= v
  BY <1>2, LeastNumber
<1>4. PICK x \in T : x = n - u /\ x \in 1 .. n /\ u \in Nat
  BY <1>1
<1>5. ASSUME NEW y \in T PROVE y <= x
  <2>1. y \in 1 .. n /\ n - y \in Nat /\ n - (n - y) = y
    OBVIOUS
  <2>2. n - y \in U
    BY <1>1, <2>1
  <2> QED  BY <1>3, <1>4, <2>1, <2>2
<1> QED  BY <1>5

-----------------------------------------------------------------------------
(* Induction and recursion over numbers.  The theorems of the library take *)
(* an operator for the property or the recursion; here they are about sets *)
(* and functions, which any prover can instantiate.                        *)

LEMMA SetInduction ==
  ASSUME NEW S \in SUBSET Nat, 0 \in S, \A n \in S : n + 1 \in S
  PROVE  \A n \in Nat : n \in S
<1> SUFFICES ASSUME Nat \ S # {} PROVE FALSE
  OBVIOUS
<1>1. PICK x \in Nat \ S : \A y \in Nat \ S : x <= y
  <2>1. Nat \ S \in SUBSET Nat
    OBVIOUS
  <2> QED  BY <2>1, LeastNumber
<1>2. x - 1 \in Nat /\ x - 1 \in S
  <2>1. x # 0
    BY <1>1
  <2>2. x - 1 \in Nat /\ ~(x <= x - 1)
    BY <2>1
  <2> QED  BY <1>1, <2>2
<1>3. (x - 1) + 1 = x
  OBVIOUS
<1> QED  BY <1>2, <1>3

\* The first m steps of a recursion from b by the function S.
FirstSteps(T, b, S, m) ==
  {g \in [0 .. m -> T] : g[0] = b /\ \A n \in 0 .. m - 1 : g[n + 1] = S[g[n]]}

LEMMA FirstStepsExist ==
  ASSUME NEW T, NEW b \in T, NEW S \in [T -> T], NEW m \in Nat
  PROVE  FirstSteps(T, b, S, m) # {}
<1> DEFINE N == {k \in Nat : FirstSteps(T, b, S, k) # {}}
<1>1. 0 \in N
  <2>1. [n \in 0 .. 0 |-> b] \in FirstSteps(T, b, S, 0)
    BY DEF FirstSteps
  <2> QED  BY <2>1
<1>2. ASSUME NEW k \in N PROVE k + 1 \in N
  <2>0. k \in Nat
    OBVIOUS
  <2>1. PICK g \in FirstSteps(T, b, S, k) : TRUE
    OBVIOUS
  <2>2. g \in [0 .. k -> T] /\ g[0] = b /\ \A n \in 0 .. k - 1 : g[n + 1] = S[g[n]]
    BY <2>1 DEF FirstSteps
  <2>3. PICK h : h = [n \in 0 .. k + 1 |-> IF n = k + 1 THEN S[g[k]] ELSE g[n]]
    OBVIOUS
  <2>4. S[g[k]] \in T
    BY <2>0, <2>2
  <2>5. h \in [0 .. k + 1 -> T]
    BY <2>0, <2>2, <2>3, <2>4
  <2>6. h[0] = b
    BY <2>0, <2>2, <2>3
  <2>7. ASSUME NEW n \in 0 .. (k + 1) - 1 PROVE h[n + 1] = S[h[n]]
    <3>1. CASE n = k
      BY <2>0, <2>3, <3>1
    <3>2. CASE n \in 0 .. k - 1
      BY <2>0, <2>2, <2>3, <3>2
    <3> QED  BY <2>0, <3>1, <3>2
  <2>8. h \in FirstSteps(T, b, S, k + 1)
    BY <2>5, <2>6, <2>7 DEF FirstSteps
  <2> QED  BY <2>0, <2>8
<1>3. N \in SUBSET Nat
  OBVIOUS
<1> HIDE DEF N
<1>4. m \in N
  BY <1>1, <1>2, <1>3, SetInduction
<1> QED  BY <1>4 DEF N

LEMMA FirstStepsAgree ==
  ASSUME NEW T, NEW b \in T, NEW S \in [T -> T], NEW l \in Nat, NEW m \in Nat,
         NEW g \in FirstSteps(T, b, S, l), NEW h \in FirstSteps(T, b, S, m)
  PROVE  \A n \in Nat : n <= l /\ n <= m => g[n] = h[n]
<1> DEFINE N == {n \in Nat : n <= l /\ n <= m => g[n] = h[n]}
<1>1. 0 \in N
  BY DEF FirstSteps
<1>2. ASSUME NEW n \in N PROVE n + 1 \in N
  <2>1. SUFFICES ASSUME n + 1 <= l, n + 1 <= m PROVE g[n + 1] = h[n + 1]
    OBVIOUS
  <2>2. n \in Nat /\ n \in 0 .. l - 1 /\ n \in 0 .. m - 1 /\ g[n] = h[n]
    BY <2>1
  <2> QED  BY <2>2 DEF FirstSteps
<1>3. N \in SUBSET Nat
  OBVIOUS
<1> HIDE DEF N
<1>4. \A n \in Nat : n \in N
  BY <1>1, <1>2, <1>3, SetInduction
<1> QED  BY <1>4 DEF N

\* A sequence in which each value follows from the one before.
Iteration(f, T, b, S) ==
  f \in [Nat -> T] /\ f[0] = b /\ \A n \in Nat : f[n + 1] = S[f[n]]

LEMMA Recursion ==
  ASSUME NEW T, NEW b, NEW S, b \in T, S \in [T -> T]
  PROVE  \E f : Iteration(f, T, b, S)
<1> DEFINE G(m) == CHOOSE g : g \in FirstSteps(T, b, S, m)
           f == [m \in Nat |-> G(m)[m]]
<1>1. ASSUME NEW m \in Nat PROVE G(m) \in FirstSteps(T, b, S, m)
  BY FirstStepsExist
<1> HIDE DEF G
<1>2. ASSUME NEW m \in Nat
      PROVE  G(m)[m] \in T /\ G(m)[0] = b /\ G(m + 1)[m + 1] = S[G(m + 1)[m]] /\ G(m + 1)[m] = G(m)[m]
  <2>1. G(m) \in FirstSteps(T, b, S, m) /\ G(m + 1) \in FirstSteps(T, b, S, m + 1) /\ m + 1 \in Nat
    BY <1>1
  <2>2. G(m + 1)[m] = G(m)[m]
    BY <2>1, FirstStepsAgree
  <2>3. m \in 0 .. (m + 1) - 1 /\ m \in 0 .. m
    OBVIOUS
  <2> QED  BY <2>1, <2>2, <2>3 DEF FirstSteps
<1>3. f \in [Nat -> T] /\ f[0] = b
  BY <1>2
<1>4. ASSUME NEW n \in Nat PROVE f[n + 1] = S[f[n]]
  BY <1>2
<1> QED  BY <1>3, <1>4 DEF Iteration

-----------------------------------------------------------------------------
(* Recursion over any set whose elements are ranked by numbers.            *)

\* What S makes of a function at n depends on its values at lower ranks alone.
Determined(S, D, V, rank) ==
  \A f, g \in [D -> V], n \in D :
    (\A m \in D : rank[m] < rank[n] => f[m] = g[m]) => S[f][n] = S[g][n]

IsFixedPoint(f, S, D, V) == f \in [D -> V] /\ f = S[f]

LEMMA FixedPoint ==
  ASSUME NEW D, NEW V, NEW K \in Nat, NEW rank, rank \in [D -> 0 .. K],
         NEW S, S \in [[D -> V] -> [D -> V]], Determined(S, D, V, rank),
         NEW start, start \in V
  PROVE  \E f : IsFixedPoint(f, S, D, V)
<1>1. PICK q : q \in [Nat -> [D -> V]] /\ \A n \in Nat : q[n + 1] = S[q[n]]
  <2>1. PICK T, b : T = [D -> V] /\ b = [n \in D |-> start]
    OBVIOUS
  <2>2. b \in T
    BY <2>1
  <2>3. \E q : Iteration(q, T, b, S)
    BY <2>1, <2>2, Recursion
  <2> QED  BY <2>1, <2>3 DEF Iteration
<1> DEFINE N == {k \in Nat : \A n \in D : rank[n] < k => q[k + 1][n] = q[k][n]}
<1>2. 0 \in N
  OBVIOUS
<1>3. ASSUME NEW k \in N PROVE k + 1 \in N
  <2>1. k \in Nat /\ k + 1 \in Nat /\ \A n \in D : rank[n] < k => q[k + 1][n] = q[k][n]
    OBVIOUS
  <2>2. PICK f, g : f = q[k] /\ g = q[k + 1]
    OBVIOUS
  <2>3. f \in [D -> V] /\ g \in [D -> V] /\ q[k + 1] = S[f] /\ q[(k + 1) + 1] = S[g]
    BY <1>1, <2>1, <2>2
  <2>4. ASSUME NEW n \in D, rank[n] < k + 1 PROVE S[g][n] = S[f][n]
    <3>1. ASSUME NEW m \in D, rank[m] < rank[n] PROVE g[m] = f[m]
      <4>1. rank[m] < k
        BY <2>1, <2>4, <3>1
      <4> QED  BY <2>1, <2>2, <4>1
    <3> QED  BY <2>3, <3>1 DEF Determined
  <2> QED  BY <2>1, <2>3, <2>4
<1>4. N \in SUBSET Nat
  OBVIOUS
<1>5. \A k \in Nat : k \in N
  <2> HIDE DEF N
  <2> QED  BY <1>2, <1>3, <1>4, SetInduction
<1>6. PICK f : f = q[K + 1]
  OBVIOUS
<1>7. f \in [D -> V] /\ S[f] \in [D -> V] /\ q[(K + 1) + 1] = S[f]
  <2>1. K + 1 \in Nat
    OBVIOUS
  <2> QED  BY <1>1, <1>6, <2>1
<1>8. ASSUME NEW n \in D PROVE S[f][n] = f[n]
  <2>1. K + 1 \in Nat /\ rank[n] < K + 1 /\ K + 1 \in N
    BY <1>5
  <2> QED  BY <1>6, <1>7, <2>1
<1> HIDE DEF N
<1> QED  BY <1>7, <1>8 DEF IsFixedPoint

\* Induction upwards and downwards in an interval.
LEMMA UpInduction ==
  ASSUME NEW M \in Nat, NEW N \in SUBSET (1 .. M),
         \A n \in 1 .. M : (\A m \in 1 .. n - 1 : m \in N) => n \in N
  PROVE  \A n \in 1 .. M : n \in N
<1> SUFFICES ASSUME NEW z \in 1 .. M, z \notin N PROVE FALSE
  OBVIOUS
<1>1. PICK T : T = (1 .. M) \ N
  OBVIOUS
<1>2. T \in SUBSET Nat /\ T # {}
  BY <1>1
<1>3. PICK x \in T : \A y \in T : x <= y
  BY <1>2, LeastNumber
<1>4. ASSUME NEW m \in 1 .. x - 1 PROVE m \in N
  BY <1>1, <1>3
<1> QED  BY <1>1, <1>3, <1>4

LEMMA DownInduction ==
  ASSUME NEW M \in Nat, NEW N \in SUBSET (1 .. M),
         \A n \in 1 .. M : (\A m \in n + 1 .. M : m \in N) => n \in N
  PROVE  \A n \in 1 .. M : n \in N
<1> SUFFICES ASSUME NEW z \in 1 .. M, z \notin N PROVE FALSE
  OBVIOUS
<1>1. PICK T : T = (1 .. M) \ N
  OBVIOUS
<1>2. T \in SUBSET (1 .. M) /\ T # {}
  BY <1>1
<1>3. PICK x \in T : \A y \in T : y <= x
  BY <1>2, GreatestNumber
<1>4. ASSUME NEW m \in x + 1 .. M PROVE m \in N
  BY <1>1, <1>3
<1> QED  BY <1>1, <1>3, <1>4

=============================================================================
