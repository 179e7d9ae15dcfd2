--------------------------- MODULE OrderingProofs ---------------------------
(***************************************************************************)
(* Proofs about the slice algorithms and the tree of boxes of MCEngine:    *)
(* quick_sort and radix_sort sort, binary_search finds, the prefix sums    *)
(* add up, and build_lbvh builds one tree whose boxes enclose its leaves.  *)
(***************************************************************************)
EXTENDS MCEngine, SequenceTheorems, FunctionTheorems, FiniteSetTheorems, TLAPS

-----------------------------------------------------------------------------
(* Slices in another order *)

\* The elements of t are those of s in another order.
Rearranged(s, t) ==
  /\ Len(t) = Len(s)
  /\ \E p \in Bijection(1 .. Len(s), 1 .. Len(s)) :
       \A k \in 1 .. Len(s) : t[k] = s[p[k]]

LEMMA RearrangedItself ==
  ASSUME NEW Vals, NEW s \in Seq(Vals)
  PROVE  Rearranged(s, s)
<1>1. PICK p : p = [k \in 1 .. Len(s) |-> k]
  OBVIOUS
<1>2. p \in Bijection(1 .. Len(s), 1 .. Len(s))
  BY <1>1, Fun_IsBij
<1>3. QED
  BY <1>1, <1>2 DEF Rearranged

LEMMA RearrangedAgain ==
  ASSUME NEW s, NEW t, NEW u, Len(s) \in Nat, Rearranged(s, t), Rearranged(t, u)
  PROVE  Rearranged(s, u)
<1>1. PICK n \in Nat : n = Len(s) /\ n = Len(t) /\ n = Len(u)
  BY DEF Rearranged
<1>2. PICK p \in Bijection(1 .. n, 1 .. n) : \A k \in 1 .. n : t[k] = s[p[k]]
  BY <1>1 DEF Rearranged
<1>3. PICK q \in Bijection(1 .. n, 1 .. n) : \A k \in 1 .. n : u[k] = t[q[k]]
  BY <1>1 DEF Rearranged
<1>4. PICK r : r = [k \in 1 .. n |-> p[q[k]]]
  OBVIOUS
<1>5. r \in Bijection(1 .. n, 1 .. n)
  BY <1>4, Fun_BijTransitive
<1>6. \A k \in 1 .. n : q[k] \in 1 .. n
  BY <1>3 DEF Bijection, Injection
<1>7. \A k \in 1 .. n : u[k] = s[r[k]]
  BY <1>2, <1>3, <1>4, <1>6
<1>8. QED
  BY <1>1, <1>5, <1>7 DEF Rearranged

LEMMA SwapRearranges ==
  ASSUME NEW Vals, NEW s \in Seq(Vals), NEW i \in 1 .. Len(s), NEW j \in 1 .. Len(s)
  PROVE  /\ S!SwapAt(s, i, j) \in Seq(Vals)
         /\ Len(S!SwapAt(s, i, j)) = Len(s)
         /\ \A k \in 1 .. Len(s) :
              S!SwapAt(s, i, j)[k] = s[IF k = i THEN j ELSE IF k = j THEN i ELSE k]
         /\ Rearranged(s, S!SwapAt(s, i, j))
<1>1. PICK t : t = [s EXCEPT ![i] = s[j]]
  OBVIOUS
<1>2. t \in Seq(Vals) /\ Len(t) = Len(s)
      /\ \A k \in 1 .. Len(s) : t[k] = IF k = i THEN s[j] ELSE s[k]
  <2>1. s[j] \in Vals
    BY ElementOfSeq
  <2>2. QED
    BY <1>1, <2>1, ExceptSeq
<1>3. PICK u : u = [t EXCEPT ![j] = s[i]]
  OBVIOUS
<1>4. u \in Seq(Vals) /\ Len(u) = Len(s)
      /\ \A k \in 1 .. Len(s) : u[k] = IF k = j THEN s[i] ELSE t[k]
  <2>1. s[i] \in Vals
    BY ElementOfSeq
  <2>2. QED
    BY <1>2, <1>3, <2>1, ExceptSeq
<1>5. S!SwapAt(s, i, j) = u
  BY <1>1, <1>3 DEF S!SwapAt
<1>6. PICK p : p = [k \in 1 .. Len(s) |-> IF k = i THEN j ELSE IF k = j THEN i ELSE k]
  OBVIOUS
<1>7. p \in Bijection(1 .. Len(s), 1 .. Len(s))
  <2>1. p \in [1 .. Len(s) -> 1 .. Len(s)]
    BY <1>6
  <2>2. \A a \in 1 .. Len(s) : p[p[a]] = a
    BY <1>6
  <2>3. \A a, b \in 1 .. Len(s) : p[a] = p[b] => a = b
    BY <2>2
  <2>4. \A a \in 1 .. Len(s) : \E b \in 1 .. Len(s) : p[b] = a
    BY <2>1, <2>2
  <2>5. QED
    BY <2>1, <2>3, <2>4, Fun_IsBij
<1>8. \A k \in 1 .. Len(s) : u[k] = s[p[k]]
  BY <1>2, <1>4, <1>6
<1>9. QED
  BY <1>4, <1>5, <1>6, <1>7, <1>8 DEF Rearranged

\* Cardinality as Sorting and SpatialIndex know it.
LEMMA SliceCardinality == ASSUME NEW s PROVE S!Cardinality(s) = Cardinality(s)
BY DEF S!Cardinality, S!IsFiniteSet, Cardinality, IsFiniteSet

LEMMA TreeCardinality == ASSUME NEW s PROVE T!Cardinality(s) = Cardinality(s)
BY DEF T!Cardinality, T!IsFiniteSet, Cardinality, IsFiniteSet

\* Another order has as many of each value.
LEMMA SameCounts ==
  ASSUME NEW Vals, NEW s \in Seq(Vals), NEW t \in Seq(Vals), Rearranged(s, t), NEW v
  PROVE  S!Count(t, v) = S!Count(s, v)
<1>1. PICK n \in Nat : n = Len(s) /\ n = Len(t)
  BY DEF Rearranged
<1>2. PICK p \in Bijection(1 .. n, 1 .. n) : \A k \in 1 .. n : t[k] = s[p[k]]
  BY <1>1 DEF Rearranged
<1>3. PICK A, B : A = {k \in 1 .. n : s[k] = v} /\ B = {k \in 1 .. n : t[k] = v}
  OBVIOUS
<1>4. /\ p \in [1 .. n -> 1 .. n]
      /\ \A a, b \in 1 .. n : p[a] = p[b] => a = b
      /\ \A a \in 1 .. n : \E b \in 1 .. n : p[b] = a
  BY <1>2 DEF Bijection, Injection, IsInjective, Surjection
<1>5. PICK q : q = [k \in B |-> p[k]]
  OBVIOUS
<1>6. q \in Bijection(B, A)
  <2>1. q \in [B -> A]
    BY <1>2, <1>3, <1>4, <1>5
  <2>2. \A a, b \in B : q[a] = q[b] => a = b
    BY <1>3, <1>4, <1>5
  <2>3. ASSUME NEW a \in A PROVE \E b \in B : q[b] = a
    <3>1. PICK b \in 1 .. n : p[b] = a
      BY <1>3, <1>4
    <3>2. b \in B
      BY <1>2, <1>3, <3>1
    <3>3. QED
      BY <1>5, <3>1, <3>2
  <2>4. QED
    BY <2>1, <2>2, <2>3, Fun_IsBij
<1>7. IsFiniteSet(B)
  <2>1. IsFiniteSet(1 .. n)
    BY FS_Interval
  <2>2. QED
    BY <1>3, <2>1, FS_Subset
<1>8. Cardinality(A) = Cardinality(B)
  BY <1>6, <1>7, FS_Bijection DEF ExistsBijection
<1>9. DOMAIN s = 1 .. n /\ DOMAIN t = 1 .. n
  BY <1>1, LenProperties
<1>10. S!Count(s, v) = Cardinality(A) /\ S!Count(t, v) = Cardinality(B)
  BY <1>3, <1>9, SliceCardinality DEF S!Count
<1>11. QED
  BY <1>8, <1>10

-----------------------------------------------------------------------------
LEMMA Distributes ==
  ASSUME NEW a \in Int, NEW b \in Int, NEW c \in Int
  PROVE  a * (b + c) = (a * b) + (a * c) /\ a * (b * c) = (a * b) * c
OBVIOUS

LEMMA DivMod ==
  ASSUME NEW v \in Nat, NEW m \in Nat \ {0}
  PROVE  /\ v \div m \in Nat /\ v % m \in 0 .. m - 1
         /\ v = (m * (v \div m)) + (v % m)
OBVIOUS

LEMMA MulMono ==
  ASSUME NEW a \in Nat, NEW b \in Nat, NEW m \in Nat \ {0}, a < b
  PROVE  m * a + m <= m * b
OBVIOUS

LEMMA Remainder ==
  ASSUME NEW v \in Nat, NEW m \in Nat \ {0}, NEW q \in Nat, NEW r \in 0 .. m - 1,
         v = m * q + r
  PROVE  v % m = r
<1>1. PICK c \in Nat, s \in 0 .. m - 1 : c = v \div m /\ s = v % m /\ v = m * c + s
  BY DivMod
<1>2. ~(c < q)
  <2>1. SUFFICES ASSUME c < q PROVE FALSE
    OBVIOUS
  <2>2. m * c + m <= m * q
    BY <2>1, MulMono
  <2>3. QED
    BY <1>1, <2>2
<1>3. ~(q < c)
  <2>1. SUFFICES ASSUME q < c PROVE FALSE
    OBVIOUS
  <2>2. m * q + m <= m * c
    BY <2>1, MulMono
  <2>3. QED
    BY <1>1, <2>2
<1>4. QED
  BY <1>1, <1>2, <1>3

LEMMA IntMod ==
  ASSUME NEW m \in Nat \ {0}, NEW a \in 0 .. m - 1, NEW x \in 0 .. m - 1
  PROVE  (((a + x) % m) - a) % m = x
OBVIOUS

LEMMA DigitAdded ==
  ASSUME NEW v \in Nat, NEW w \in Nat \ {0}, NEW b \in Nat \ {0}
  PROVE  v % (w * b) = (w * ((v \div w) % b)) + (v % w)
<1>1. PICK q \in Nat, r \in 0 .. w - 1 : q = v \div w /\ r = v % w /\ v = (w * q) + r
  BY DivMod
<1>2. PICK c \in Nat, d \in 0 .. b - 1 : c = q \div b /\ d = q % b /\ q = (b * c) + d
  BY DivMod
<1>3. PICK m : m = w * b
  OBVIOUS
<1>4. m \in Nat \ {0} /\ w * d \in Nat /\ w * d + w <= m
  <2>1. m \in Nat \ {0} /\ w * d \in Nat
    BY <1>2, <1>3
  <2>2. w * d + w <= w * b
    BY <1>2, MulMono
  <2>3. QED
    BY <1>3, <2>1, <2>2
<1>5. w * d + r \in 0 .. m - 1
  BY <1>1, <1>4
<1>6. v = m * c + (w * d + r)
  <2>1. w * ((b * c) + d) = (w * (b * c)) + (w * d)
    BY <1>2, Distributes
  <2>2. w * (b * c) = (w * b) * c
    BY <1>2
  <2>3. w * (b * c) \in Int /\ w * d \in Int
    BY <1>2
  <2>4. w * q = (w * (b * c)) + (w * d)
    BY <1>2, <2>1, Zenon
  <2>5. v = (w * (b * c)) + (w * d) + r
    BY <1>1, <2>4, Zenon
  <2>6. w * (b * c) = m * c
    BY <1>3, <2>2
  <2>7. QED
    BY <1>1, <2>3, <2>5, <2>6
<1>7. v % m = w * d + r
  BY <1>4, <1>5, <1>6, Remainder
<1>8. QED
  BY <1>1, <1>2, <1>3, <1>7


-----------------------------------------------------------------------------
\* How many of n keys come no later than the one at i, equal keys in their order.
Upto(n, key, i) == {j \in 1 .. n : key[j] < key[i] \/ (key[j] = key[i] /\ j <= i)}

LEMMA UptoFinite ==
  ASSUME NEW n \in Nat, NEW key, NEW i
  PROVE  /\ IsFiniteSet(Upto(n, key, i)) /\ Cardinality(Upto(n, key, i)) \in Nat
         /\ Cardinality(Upto(n, key, i)) <= n
<1>1. IsFiniteSet(1 .. n) /\ Cardinality(1 .. n) = n
  BY FS_Interval
<1>2. Upto(n, key, i) \in SUBSET (1 .. n)
  BY DEF Upto
<1>3. QED
  BY <1>1, <1>2, FS_Subset, FS_CardinalityType

LEMMA EarlierHasLess ==
  ASSUME NEW n \in Nat, NEW key \in [1 .. n -> Int], NEW i \in 1 .. n, NEW j \in 1 .. n,
         key[i] < key[j] \/ (key[i] = key[j] /\ i < j)
  PROVE  Cardinality(Upto(n, key, i)) < Cardinality(Upto(n, key, j))
<1>1. PICK A, B : A = Upto(n, key, i) /\ B = Upto(n, key, j)
  OBVIOUS
<1>2. A \in SUBSET B
  BY <1>1 DEF Upto
<1>3. j \in B /\ j \notin A
  BY <1>1 DEF Upto
<1>4. IsFiniteSet(A) /\ IsFiniteSet(B) /\ Cardinality(A) \in Nat /\ Cardinality(B) \in Nat
  BY <1>1, UptoFinite
<1>5. Cardinality(A) <= Cardinality(B) /\ Cardinality(A) # Cardinality(B)
  BY <1>2, <1>3, <1>4, FS_Subset
<1>6. QED
  BY <1>1, <1>4, <1>5

Rank(n, key) == [i \in 1 .. n |-> Cardinality(Upto(n, key, i))]
Place(n, key) == [k \in 1 .. n |-> CHOOSE i \in 1 .. n : Cardinality(Upto(n, key, i)) = k]

\* Positions are given out once each, in the order of the keys.
LEMMA PositionsAreOnce ==
  ASSUME NEW n \in Nat, NEW key \in [1 .. n -> Int], NEW rank, rank = Rank(n, key)
  PROVE  /\ rank \in Bijection(1 .. n, 1 .. n)
         /\ \A i, j \in 1 .. n :
              rank[i] < rank[j] => key[i] < key[j] \/ (key[i] = key[j] /\ i < j)
<1>1. ASSUME NEW i \in 1 .. n
      PROVE  rank[i] = Cardinality(Upto(n, key, i)) /\ rank[i] \in 1 .. n
  <2>1. i \in Upto(n, key, i)
    BY DEF Upto
  <2>2. Cardinality(Upto(n, key, i)) # 0
    BY <2>1, UptoFinite, FS_EmptySet
  <2>3. rank[i] = Cardinality(Upto(n, key, i))
    BY DEF Rank
  <2>4. QED
    BY <2>2, <2>3, UptoFinite
<1>2. ASSUME NEW i \in 1 .. n, NEW j \in 1 .. n, i # j, rank[i] <= rank[j]
      PROVE  key[i] < key[j] \/ (key[i] = key[j] /\ i < j)
  <2>1. key[i] \in Int /\ key[j] \in Int
    OBVIOUS
  <2>2. SUFFICES ASSUME key[j] < key[i] \/ (key[j] = key[i] /\ j < i)
                 PROVE  FALSE
    BY <1>2, <2>1
  <2>3. Cardinality(Upto(n, key, j)) < Cardinality(Upto(n, key, i))
    BY <2>2, EarlierHasLess
  <2>4. QED
    BY <1>1, <1>2, <2>3
<1>3. rank \in Injection(1 .. n, 1 .. n)
  <2>1. rank \in [1 .. n -> 1 .. n]
    BY <1>1 DEF Rank
  <2>2. ASSUME NEW i \in 1 .. n, NEW j \in 1 .. n, rank[i] = rank[j], i # j PROVE FALSE
    <3>1. rank[i] \in Nat /\ rank[i] <= rank[j] /\ rank[j] <= rank[i]
      BY <1>1, <2>2
    <3>2. /\ key[i] < key[j] \/ (key[i] = key[j] /\ i < j)
          /\ key[j] < key[i] \/ (key[j] = key[i] /\ j < i)
      BY <1>2, <2>2, <3>1
    <3>3. key[i] \in Int /\ key[j] \in Int
      OBVIOUS
    <3>4. QED
      BY <3>2, <3>3
  <2>3. QED
    BY <2>1, <2>2, Fun_IsInj
<1>4. rank \in Surjection(1 .. n, 1 .. n)
  BY <1>3, FS_Interval, FS_Injection
<1>5. ASSUME NEW i \in 1 .. n, NEW j \in 1 .. n, rank[i] < rank[j]
      PROVE  key[i] < key[j] \/ (key[i] = key[j] /\ i < j)
  <2>1. i # j /\ rank[i] <= rank[j]
    BY <1>1, <1>5
  <2>2. QED
    BY <1>2, <2>1
<1>6. QED
  BY <1>3, <1>4, <1>5 DEF Bijection

LEMMA PlacesOfPositions ==
  ASSUME NEW n \in Nat, NEW key \in [1 .. n -> Int]
  PROVE  /\ Place(n, key) \in Bijection(1 .. n, 1 .. n)
         /\ \A k, m \in 1 .. n : k < m =>
              \/ key[Place(n, key)[k]] < key[Place(n, key)[m]]
              \/ /\ key[Place(n, key)[k]] = key[Place(n, key)[m]]
                 /\ Place(n, key)[k] < Place(n, key)[m]
<1>0. PICK place : place = Place(n, key)
  OBVIOUS
<1>1. PICK rank : rank = Rank(n, key)
  OBVIOUS
<1>2. /\ rank \in Bijection(1 .. n, 1 .. n)
      /\ \A i, j \in 1 .. n :
           rank[i] < rank[j] => key[i] < key[j] \/ (key[i] = key[j] /\ i < j)
  BY <1>1, PositionsAreOnce
<1>3. ASSUME NEW k \in 1 .. n PROVE place[k] \in 1 .. n /\ rank[place[k]] = k
  <2>1. \E i \in 1 .. n : rank[i] = k
    BY <1>2 DEF Bijection, Surjection
  <2>2. \E i \in 1 .. n : Cardinality(Upto(n, key, i)) = k
    BY <1>1, <2>1 DEF Rank
  <2>3. QED
    BY <1>0, <1>1, <2>2 DEF Rank, Place
<1>4. place \in Bijection(1 .. n, 1 .. n)
  <2>1. place \in [1 .. n -> 1 .. n]
    BY <1>0, <1>3 DEF Place
  <2>2. \A k, m \in 1 .. n : place[k] = place[m] => k = m
    BY <1>3
  <2>3. ASSUME NEW i \in 1 .. n PROVE \E k \in 1 .. n : place[k] = i
    <3>1. rank[i] \in 1 .. n
      BY <1>2 DEF Bijection, Surjection
    <3>2. rank[place[rank[i]]] = rank[i] /\ place[rank[i]] \in 1 .. n
      BY <1>3, <3>1
    <3>3. place[rank[i]] = i
      BY <1>2, <3>2 DEF Bijection, Injection, IsInjective
    <3>4. QED
      BY <3>1, <3>3
  <2>4. QED
    BY <2>1, <2>2, <2>3, Fun_IsBij
<1>5. ASSUME NEW k \in 1 .. n, NEW m \in 1 .. n, k < m
      PROVE  \/ key[place[k]] < key[place[m]]
             \/ key[place[k]] = key[place[m]] /\ place[k] < place[m]
  <2>1. rank[place[k]] < rank[place[m]]
    BY <1>3, <1>5
  <2>2. QED
    BY <1>2, <1>3, <2>1
<1>6. QED
  BY <1>0, <1>4, <1>5

LEMMA DigitIsNat ==
  ASSUME NEW v \in Nat, NEW w \in Nat \ {0}, Base \in Nat \ {0}
  PROVE  S!DigitOf(v, w) \in Nat
BY DivMod DEF S!DigitOf

InPassOrder(s, w, u, v) ==
  \/ S!DigitOf(u, w) < S!DigitOf(v, w)
  \/ /\ S!DigitOf(u, w) = S!DigitOf(v, w)
     /\ \E i, j \in 1 .. Len(s) : i < j /\ u = s[i] /\ v = s[j]

\* A counting pass orders by the digit and keeps the order of equal digits.
LEMMA PassOrders ==
  ASSUME NEW s \in Seq(Nat), NEW w \in Nat \ {0}, Base \in Nat \ {0}
  PROVE  /\ S!CountingPass(s, w) \in Seq(Nat)
         /\ Rearranged(s, S!CountingPass(s, w))
         /\ \A k, m \in 1 .. Len(s) : k < m =>
              InPassOrder(s, w, S!CountingPass(s, w)[k], S!CountingPass(s, w)[m])
<1>1. PICK n \in Nat : n = Len(s) /\ DOMAIN s = 1 .. n
  BY LenProperties
<1>2. PICK key : key = [i \in 1 .. n |-> S!DigitOf(s[i], w)]
  OBVIOUS
<1>3. \A i \in 1 .. n : s[i] \in Nat
  BY <1>1, ElementOfSeq
<1>4. key \in [1 .. n -> Nat] /\ key \in [1 .. n -> Int]
  <2>1. \A i \in 1 .. n : S!DigitOf(s[i], w) \in Nat
    BY <1>3, DigitIsNat
  <2>2. \A i \in 1 .. n : S!DigitOf(s[i], w) \in Int
    BY <2>1
  <2>3. QED
    BY <1>2, <2>1, <2>2
<1>5. PICK place : place = Place(n, key)
  OBVIOUS
<1>6. /\ place \in Bijection(1 .. n, 1 .. n)
      /\ \A k, m \in 1 .. n : k < m =>
           \/ key[place[k]] < key[place[m]]
           \/ key[place[k]] = key[place[m]] /\ place[k] < place[m]
  <2>1. n \in Nat
    BY <1>1
  <2>2. /\ Place(n, key) \in Bijection(1 .. n, 1 .. n)
        /\ \A k, m \in 1 .. n : k < m =>
             \/ key[Place(n, key)[k]] < key[Place(n, key)[m]]
             \/ /\ key[Place(n, key)[k]] = key[Place(n, key)[m]]
                /\ Place(n, key)[k] < Place(n, key)[m]
    BY <2>1, <1>4, PlacesOfPositions, Zenon
  <2>3. QED
    BY <1>5, <2>2, Zenon
<1>7. \A i \in 1 .. n : S!Target(s, w, i) = Cardinality(Upto(n, key, i))
  <2>1. ASSUME NEW i \in 1 .. n PROVE S!Target(s, w, i) = Cardinality(Upto(n, key, i))
    <3>1. \A j \in 1 .. n : key[j] = S!DigitOf(s[j], w)
      BY <1>2
    <3>2. {j \in DOMAIN s : \/ S!DigitOf(s[j], w) < S!DigitOf(s[i], w)
                            \/ (S!DigitOf(s[j], w) = S!DigitOf(s[i], w) /\ j <= i)}
          = Upto(n, key, i)
      BY <1>1, <3>1 DEF Upto
    <3>3. QED
      BY <3>2, SliceCardinality DEF S!Target
  <2>2. QED
    BY <2>1
<1>8. PICK t : t = S!CountingPass(s, w)
  OBVIOUS
<1>9. t = [k \in 1 .. n |-> s[place[k]]]
  <2>1. \A k \in 1 .. n : (CHOOSE i \in 1 .. n : S!Target(s, w, i) = k)
                          = (CHOOSE i \in 1 .. n : Cardinality(Upto(n, key, i)) = k)
    BY <1>7
  <2>2. t = [k \in 1 .. n |-> s[CHOOSE i \in 1 .. n : S!Target(s, w, i) = k]]
    BY <1>1, <1>8 DEF S!CountingPass
  <2>3. \A k \in 1 .. n : place[k] = CHOOSE i \in 1 .. n : S!Target(s, w, i) = k
    BY <1>5, <2>1 DEF Place
  <2>4. \A k \in 1 .. n : s[place[k]] = s[CHOOSE i \in 1 .. n : S!Target(s, w, i) = k]
    BY <2>3
  <2>5. QED
    BY <2>2, <2>4, Zenon
<1>10. \A k \in 1 .. n : place[k] \in 1 .. n
  BY <1>6 DEF Bijection, Injection
<1>11. t \in Seq(Nat) /\ Len(t) = n
  BY <1>3, <1>9, <1>10
<1>12. Rearranged(s, t)
  BY <1>1, <1>6, <1>9, <1>11 DEF Rearranged
<1>13. ASSUME NEW k \in 1 .. n, NEW m \in 1 .. n, k < m
       PROVE  InPassOrder(s, w, t[k], t[m])
  <2>1. t[k] = s[place[k]] /\ t[m] = s[place[m]]
        /\ key[place[k]] = S!DigitOf(t[k], w) /\ key[place[m]] = S!DigitOf(t[m], w)
    BY <1>2, <1>9, <1>10
  <2>2. QED
    BY <1>1, <1>6, <1>10, <1>13, <2>1 DEF InPassOrder
<1>14. QED
  BY <1>1, <1>8, <1>11, <1>12, <1>13

\* Elements in the order of their lower digits are, after a pass, in the order
\* of one digit more.
LEMMA PassOrdersMore ==
  ASSUME NEW s \in Seq(Nat), NEW w \in Nat \ {0}, Base \in Nat \ {0},
         \A i, j \in 1 .. Len(s) : i < j => s[i] % w <= s[j] % w
  PROVE  LET t == S!CountingPass(s, w)
         IN  \A k, m \in 1 .. Len(s) : k < m => t[k] % (w * Base) <= t[m] % (w * Base)
<1>1. PICK t : t = S!CountingPass(s, w)
  OBVIOUS
<1>2. t \in Seq(Nat) /\ Len(t) = Len(s)
  BY <1>1, PassOrders DEF Rearranged
<1>3. SUFFICES ASSUME NEW k \in 1 .. Len(s), NEW m \in 1 .. Len(s), k < m
               PROVE  t[k] % (w * Base) <= t[m] % (w * Base)
  BY <1>1
<1>4. PICK u \in Nat, v \in Nat : u = t[k] /\ v = t[m]
  BY <1>2, ElementOfSeq
<1>5. PICK a, b, c, d :
        a = S!DigitOf(u, w) /\ b = S!DigitOf(v, w) /\ c = u % w /\ d = v % w
  OBVIOUS
<1>6. a \in Nat /\ b \in Nat /\ c \in 0 .. w - 1 /\ d \in 0 .. w - 1
  BY <1>5, DigitIsNat, DivMod
<1>7. PICK x, y : x = u % (w * Base) /\ y = v % (w * Base)
  OBVIOUS
<1>14. x = (w * a) + c /\ y = (w * b) + d
  BY <1>5, <1>7, DigitAdded DEF S!DigitOf
<1>15. SUFFICES x <= y
  BY <1>4, <1>7
<1>8. a < b \/ (a = b /\ \E i, j \in 1 .. Len(s) : i < j /\ u = s[i] /\ v = s[j])
  <2>1. InPassOrder(s, w, u, v)
    BY <1>1, <1>3, <1>4, PassOrders
  <2>2. QED
    BY <1>5, <2>1 DEF InPassOrder
<1>9. a < b \/ (a = b /\ c <= d)
  BY <1>5, <1>8
<1>10. PICK p \in Nat, q \in Nat : p = w * a /\ q = w * b
  BY <1>6
<1>16. p \in Nat /\ q \in Nat /\ x = p + c /\ y = q + d
  BY <1>10, <1>14
<1>11. CASE a < b
  <2>1. (w * a) + w <= w * b
    BY <1>6, <1>11, MulMono
  <2>2. p + w <= q
    BY <1>10, <2>1
  <2>3. QED
    BY <1>6, <1>16, <2>2
<1>12. CASE a = b /\ c <= d
  <2>1. p = q
    BY <1>10, <1>12
  <2>2. QED
    BY <1>6, <1>12, <1>16, <2>1
<1>13. QED
  BY <1>9, <1>11, <1>12

-----------------------------------------------------------------------------
(* quick_sort *)

Pairs == Nat \X Nat
Walks == [lo : Nat, hi : Nat, front : Nat, next : Nat]
Active(w) == w.next <= w.hi

\* The ranges on the stack lie apart, with two elements each and one between.
RangesApart(r, n) ==
  /\ r \in Seq(Pairs)
  /\ \A k \in 1 .. Len(r) :
       3 * k - 2 <= r[k][1] /\ r[k][1] < r[k][2] /\ r[k][2] <= n
  /\ \A k, m \in 1 .. Len(r) : k < m => r[k][2] < r[m][1]

\* The range that is partitioned lies behind them; its elements up to the next
\* are those at most the pivot, then the others.
WalkInside(w, r, s) ==
  /\ w \in Walks
  /\ Active(w) =>
       /\ 3 * Len(r) + 1 <= w.lo /\ w.lo < w.hi /\ w.hi <= Len(s)
       /\ w.lo <= w.front /\ w.front <= w.next
       /\ \A k \in 1 .. Len(r) : r[k][2] < w.lo
       /\ \A i \in w.lo .. w.front - 1 : S!AtMost(s[i], s[w.hi])
       /\ \A i \in w.front .. w.next - 1 : ~S!AtMost(s[i], s[w.hi])

\* Two elements that may still be in the wrong order are in one range.
Together(r, w, i, j) ==
  \/ \E k \in 1 .. Len(r) : r[k][1] <= i /\ j <= r[k][2]
  \/ Active(w) /\ w.lo <= i /\ j <= w.hi
OrderedElsewhere(s, r, w) ==
  \A i, j \in 1 .. Len(s) : i < j => Together(r, w, i, j) \/ S!AtMost(s[i], s[j])

LEMMA PairFacts ==
  ASSUME NEW r \in Seq(Pairs)
  PROVE  /\ Len(r) \in Nat
         /\ \A k \in 1 .. Len(r) : r[k] \in Pairs /\ r[k][1] \in Nat /\ r[k][2] \in Nat
<1>1. \A k \in 1 .. Len(r) : r[k] \in Nat \X Nat
  BY ElementOfSeq DEF Pairs
<1>2. QED
  BY <1>1, LenProperties DEF Pairs

LEMMA WalkFacts ==
  ASSUME NEW w \in Walks
  PROVE  w.lo \in Nat /\ w.hi \in Nat /\ w.front \in Nat /\ w.next \in Nat
BY DEF Walks

LEMMA NoWalkIdle == S!NoWalk \in Walks /\ ~Active(S!NoWalk)
BY DEF S!NoWalk, Walks, Active

\* A range behind the others may be pushed.
LEMMA PushApart ==
  ASSUME NEW n \in Nat, NEW r, RangesApart(r, n), NEW lo \in Nat, NEW hi \in Nat,
         hi <= n, 3 * Len(r) + 1 <= lo, \A k \in 1 .. Len(r) : r[k][2] < lo
  PROVE  /\ RangesApart(S!Push(r, lo, hi), n)
         /\ \A k \in 1 .. Len(r) : S!Push(r, lo, hi)[k] = r[k]
         /\ lo < hi => /\ Len(S!Push(r, lo, hi)) = Len(r) + 1
                       /\ S!Push(r, lo, hi)[Len(r) + 1][1] = lo
                       /\ S!Push(r, lo, hi)[Len(r) + 1][2] = hi
         /\ ~(lo < hi) => S!Push(r, lo, hi) = r
<1>1. CASE ~(lo < hi)
  BY <1>1 DEF S!Push, S!Worth
<1>2. CASE lo < hi
  <2>1. PICK q, e : q = S!Push(r, lo, hi) /\ e = <<lo, hi>>
    OBVIOUS
  <2>2. q = Append(r, e)
    BY <1>2, <2>1 DEF S!Push, S!Worth
  <2>3. e \in Pairs /\ e[1] = lo /\ e[2] = hi
    BY <2>1 DEF Pairs
  <2>4. r \in Seq(Pairs)
    BY DEF RangesApart
  <2>5. /\ q \in Seq(Pairs) /\ Len(q) = Len(r) + 1 /\ q[Len(r) + 1] = e
        /\ \A k \in 1 .. Len(r) : q[k] = r[k]
    BY <2>2, <2>3, <2>4, AppendProperties
  <2>6. /\ Len(r) \in Nat
        /\ \A k \in 1 .. Len(r) : r[k][1] \in Nat /\ r[k][2] \in Nat
    BY <2>4, PairFacts
  <2>7. \A k \in 1 .. Len(q) : k \in 1 .. Len(r) \/ k = Len(r) + 1
    BY <2>5, <2>6
  <2>8. ASSUME NEW k \in 1 .. Len(q)
        PROVE  3 * k - 2 <= q[k][1] /\ q[k][1] < q[k][2] /\ q[k][2] <= n
    <3>1. CASE k \in 1 .. Len(r)
      BY <2>5, <3>1 DEF RangesApart
    <3>2. CASE k = Len(r) + 1
      <4>1. q[k][1] = lo /\ q[k][2] = hi
        BY <2>3, <2>5, <3>2
      <4>2. 3 * k - 2 <= lo
        BY <2>6, <3>2
      <4>3. QED
        BY <1>2, <4>1, <4>2
    <3>3. QED
      BY <2>7, <3>1, <3>2
  <2>9. \A k, m \in 1 .. Len(q) : k < m => q[k][2] < q[m][1]
    <3>1. SUFFICES ASSUME NEW k \in 1 .. Len(q), NEW m \in 1 .. Len(q), k < m
                   PROVE  q[k][2] < q[m][1]
      OBVIOUS
    <3>2. k \in 1 .. Len(r) /\ q[k] = r[k]
      BY <2>5, <2>6, <3>1
    <3>3. CASE m \in 1 .. Len(r)
      BY <2>5, <3>1, <3>2, <3>3 DEF RangesApart
    <3>4. CASE m = Len(r) + 1
      BY <2>3, <2>5, <3>2, <3>4
    <3>5. QED
      BY <2>7, <3>3, <3>4
  <2>10. QED
    BY <1>2, <2>1, <2>3, <2>5, <2>8, <2>9 DEF RangesApart
<1>3. QED
  BY <1>1, <1>2

LEMMA PopApart ==
  ASSUME NEW n \in Nat, NEW r, RangesApart(r, n), r # << >>
  PROVE  LET q == SubSeq(r, 1, Len(r) - 1)
         IN  /\ RangesApart(q, n) /\ Len(q) = Len(r) - 1 /\ Len(r) \in Nat \ {0}
             /\ \A k \in 1 .. Len(q) : q[k] = r[k]
<1>1. r \in Seq(Pairs) /\ Len(r) \in Nat \ {0}
  <2>1. r \in Seq(Pairs)
    BY DEF RangesApart
  <2>2. QED
    BY <2>1, EmptySeq
<1>2. PICK q : q = SubSeq(r, 1, Len(r) - 1)
  OBVIOUS
<1>3. \A k \in 1 .. Len(r) - 1 : r[k] \in Pairs
  BY <1>1, PairFacts
<1>4. /\ q \in Seq(Pairs) /\ Len(q) = Len(r) - 1
      /\ \A k \in 1 .. Len(r) - 1 : q[k] = r[k]
  <2>1. PICK m \in Nat : m = Len(r) - 1
    BY <1>1
  <2>2. /\ SubSeq(r, 1, m) \in Seq(Pairs) /\ Len(SubSeq(r, 1, m)) = m
        /\ \A k \in 1 .. m : SubSeq(r, 1, m)[k] = r[k]
    <3>1. \A k \in 1 .. m : r[k] \in Pairs
      BY <1>3, <2>1
    <3>2. /\ SubSeq(r, 1, m) \in Seq(Pairs)
          /\ Len(SubSeq(r, 1, m)) = IF 1 <= m THEN m - 1 + 1 ELSE 0
          /\ \A k \in 1 .. m - 1 + 1 : SubSeq(r, 1, m)[k] = r[1 + k - 1]
      BY <3>1, SubSeqProperties
    <3>3. QED
      BY <2>1, <3>2
  <2>3. QED
    BY <1>2, <2>1, <2>2
<1>5. RangesApart(q, n)
  <2>1. 1 .. Len(q) \subseteq 1 .. Len(r) /\ Len(q) \in Nat
    BY <1>1, <1>4
  <2>2. \A k \in 1 .. Len(q) : q[k] = r[k] /\ k \in 1 .. Len(r)
    BY <1>4, <2>1
  <2>3. QED
    BY <1>4, <2>2 DEF RangesApart
<1>6. QED
  BY <1>1, <1>2, <1>4, <1>5

\* Elements of the range that is partitioned may change places.
LEMMA SwapInside ==
  ASSUME NEW s \in Seq(Int), NEW r, NEW w, RangesApart(r, Len(s)), WalkInside(w, r, s),
         OrderedElsewhere(s, r, w), Active(w),
         NEW a \in Nat, NEW b \in Nat,
         w.lo <= a, a <= w.hi, w.lo <= b, b <= w.hi
  PROVE  OrderedElsewhere(S!SwapAt(s, a, b), r, w)
<1>1. PICK t : t = S!SwapAt(s, a, b)
  OBVIOUS
<1>2. PICK n \in Nat : n = Len(s)
  BY LenProperties
<1>3. /\ w.lo \in Nat /\ w.hi \in Nat /\ w.lo < w.hi /\ w.hi <= n /\ 1 <= w.lo
      /\ \A k \in 1 .. Len(r) : r[k][1] \in Nat /\ r[k][2] \in Nat /\ r[k][2] < w.lo
      /\ Len(r) \in Nat
  <2>1. r \in Seq(Pairs) /\ w \in Walks
    BY DEF RangesApart, WalkInside
  <2>2. /\ 3 * Len(r) + 1 <= w.lo /\ w.lo < w.hi /\ w.hi <= Len(s)
        /\ \A k \in 1 .. Len(r) : r[k][2] < w.lo
    BY Zenon DEF WalkInside
  <2>3. Len(r) \in Nat /\ \A k \in 1 .. Len(r) : r[k][1] \in Nat /\ r[k][2] \in Nat
    BY <2>1, PairFacts
  <2>4. w.lo \in Nat /\ w.hi \in Nat
    BY <2>1, WalkFacts
  <2>5. QED
    BY <1>2, <2>2, <2>3, <2>4
<1>4. /\ Len(t) = n
      /\ \A k \in 1 .. n : t[k] = s[IF k = a THEN b ELSE IF k = b THEN a ELSE k]
  <2>1. s \in Seq(Int) /\ a \in 1 .. Len(s) /\ b \in 1 .. Len(s)
    BY <1>2, <1>3
  <2>2. /\ S!SwapAt(s, a, b) \in Seq(Int)
        /\ Len(S!SwapAt(s, a, b)) = Len(s)
        /\ \A k \in 1 .. Len(s) :
             S!SwapAt(s, a, b)[k] = s[IF k = a THEN b ELSE IF k = b THEN a ELSE k]
        /\ Rearranged(s, S!SwapAt(s, a, b))
    BY <2>1, SwapRearranges
  <2>3. QED
    BY <1>1, <1>2, <2>2
<1>5. SUFFICES ASSUME NEW i \in 1 .. n, NEW j \in 1 .. n, i < j, ~Together(r, w, i, j)
               PROVE  S!AtMost(t[i], t[j])
  BY <1>1, <1>4 DEF OrderedElsewhere
<1>6. PICK c \in 1 .. n, d \in 1 .. n :
        /\ c = (IF i = a THEN b ELSE IF i = b THEN a ELSE i)
        /\ d = (IF j = a THEN b ELSE IF j = b THEN a ELSE j)
  <2>1. a \in 1 .. n /\ b \in 1 .. n
    BY <1>3
  <2>2. /\ (IF i = a THEN b ELSE IF i = b THEN a ELSE i) \in 1 .. n
        /\ (IF j = a THEN b ELSE IF j = b THEN a ELSE j) \in 1 .. n
    BY <2>1
  <2>3. QED
    BY <2>2, Zenon
<1>7. t[i] = s[c] /\ t[j] = s[d]
  BY <1>4, <1>6
<1>8. ~(w.lo <= i /\ j <= w.hi)
  BY <1>5 DEF Together
<1>9. c < d /\ ~(w.lo <= c /\ d <= w.hi)
  BY <1>3, <1>5, <1>6, <1>8
<1>10. ~ \E k \in 1 .. Len(r) : r[k][1] <= c /\ d <= r[k][2]
  <2>1. SUFFICES ASSUME NEW k \in 1 .. Len(r), r[k][1] <= c, d <= r[k][2] PROVE FALSE
    OBVIOUS
  <2>2. d < w.lo /\ c < w.lo
    BY <1>3, <1>6, <1>9, <2>1
  <2>3. c = i /\ d = j
    BY <1>3, <1>6, <2>2
  <2>4. QED
    BY <1>5, <2>1, <2>3 DEF Together
<1>11. S!AtMost(s[c], s[d])
  BY <1>2, <1>6, <1>9, <1>10 DEF OrderedElsewhere, Together
<1>12. QED
  BY <1>7, <1>11

SidesOf(n, r, lo, p, hi, q) ==
  /\ RangesApart(q, n)
  /\ \A k \in 1 .. Len(r) : k \in 1 .. Len(q) /\ q[k] = r[k]
  /\ \A i, j \in 1 .. n :
       i < j /\ ((lo <= i /\ j < p) \/ (p < i /\ j <= hi)) => Together(q, S!NoWalk, i, j)

\* The two sides of a range lie apart when they are pushed.
LEMMA SidesPushed ==
  ASSUME NEW n \in Nat, NEW r, RangesApart(r, n),
         NEW lo \in Nat, NEW p \in Nat, NEW hi \in Nat,
         3 * Len(r) + 1 <= lo, lo < hi, hi <= n, lo <= p, p <= hi,
         \A k \in 1 .. Len(r) : r[k][2] < lo
  PROVE  SidesOf(n, r, lo, p, hi, S!Push(S!Push(r, lo, p - 1), p + 1, hi))
<1>0. PICK q : q = S!Push(S!Push(r, lo, p - 1), p + 1, hi)
  OBVIOUS
<1>1. /\ r \in Seq(Pairs) /\ Len(r) \in Nat
      /\ \A k \in 1 .. Len(r) : r[k][1] \in Nat /\ r[k][2] \in Nat
  BY PairFacts DEF RangesApart
<1>2. PICK u : u = S!Push(r, lo, p - 1)
  OBVIOUS
<1>3. /\ RangesApart(u, n)
      /\ \A k \in 1 .. Len(r) : u[k] = r[k]
      /\ lo < p - 1 => /\ Len(u) = Len(r) + 1
                       /\ u[Len(r) + 1][1] = lo /\ u[Len(r) + 1][2] = p - 1
      /\ ~(lo < p - 1) => u = r
  <2>1. PICK h \in Nat : h = p - 1 /\ h <= n
    BY <1>1
  <2>2. h \in Nat /\ h <= n
    BY <2>1
  <2>3. /\ RangesApart(S!Push(r, lo, h), n)
        /\ \A k \in 1 .. Len(r) : S!Push(r, lo, h)[k] = r[k]
        /\ lo < h => /\ Len(S!Push(r, lo, h)) = Len(r) + 1
                     /\ S!Push(r, lo, h)[Len(r) + 1][1] = lo
                     /\ S!Push(r, lo, h)[Len(r) + 1][2] = h
        /\ ~(lo < h) => S!Push(r, lo, h) = r
    BY <1>1, <2>2, PushApart
  <2>4. QED
    BY <1>2, <2>1, <2>3
<1>4. /\ Len(u) \in Nat
      /\ 3 * Len(u) + 1 <= p + 1
      /\ \A k \in 1 .. Len(u) : u[k][2] < p + 1
  <2>1. CASE lo < p - 1
    <3>1. \A k \in 1 .. Len(u) : k \in 1 .. Len(r) \/ k = Len(r) + 1
      BY <1>1, <1>3, <2>1
    <3>2. \A k \in 1 .. Len(r) : u[k][2] < p + 1
      BY <1>1, <1>3
    <3>3. u[Len(r) + 1][2] < p + 1 /\ Len(u) = Len(r) + 1
      BY <1>1, <1>3, <2>1
    <3>4. \A k \in 1 .. Len(u) : u[k][2] < p + 1
      BY <3>1, <3>2, <3>3
    <3>5. QED
      BY <1>1, <2>1, <3>3, <3>4
  <2>2. CASE ~(lo < p - 1)
    <3>1. u = r
      BY <1>3, <2>2
    <3>2. QED
      BY <1>1, <3>1
  <2>3. QED
    BY <2>1, <2>2
<1>5. /\ RangesApart(q, n)
      /\ \A k \in 1 .. Len(u) : q[k] = u[k]
      /\ p + 1 < hi => /\ Len(q) = Len(u) + 1
                       /\ q[Len(u) + 1][1] = p + 1 /\ q[Len(u) + 1][2] = hi
      /\ ~(p + 1 < hi) => q = u
  <2>1. PICK l \in Nat : l = p + 1
    BY <1>1
  <2>2. /\ q = S!Push(u, l, hi) /\ l \in Nat /\ 3 * Len(u) + 1 <= l
        /\ \A k \in 1 .. Len(u) : u[k][2] < l
    BY <1>0, <1>2, <1>4, <2>1
  <2>3. /\ RangesApart(S!Push(u, l, hi), n)
        /\ \A k \in 1 .. Len(u) : S!Push(u, l, hi)[k] = u[k]
        /\ l < hi => /\ Len(S!Push(u, l, hi)) = Len(u) + 1
                     /\ S!Push(u, l, hi)[Len(u) + 1][1] = l
                     /\ S!Push(u, l, hi)[Len(u) + 1][2] = hi
        /\ ~(l < hi) => S!Push(u, l, hi) = u
    BY <1>1, <1>3, <2>2, PushApart
  <2>4. QED
    BY <2>1, <2>2, <2>3
<1>6. /\ \A k \in 1 .. Len(r) : k \in 1 .. Len(q) /\ q[k] = r[k]
      /\ \A i, j \in 1 .. n :
           i < j /\ ((lo <= i /\ j < p) \/ (p < i /\ j <= hi)) => Together(q, S!NoWalk, i, j)
  <2>1. ASSUME NEW k \in 1 .. Len(r) PROVE k \in 1 .. Len(q) /\ q[k] = r[k]
    <3>1. k \in 1 .. Len(u) /\ u[k] = r[k]
      BY <1>1, <1>3
    <3>2. QED
      BY <1>4, <1>5, <3>1
  <2>2. ASSUME NEW i \in 1 .. n, NEW j \in 1 .. n, i < j, lo <= i, j < p
        PROVE  Together(q, S!NoWalk, i, j)
    <3>1. lo < p - 1
      BY <1>1, <2>2
    <3>2. Len(r) + 1 \in 1 .. Len(u) /\ u[Len(r) + 1][1] = lo /\ u[Len(r) + 1][2] = p - 1
      BY <1>1, <1>3, <3>1
    <3>3. Len(r) + 1 \in 1 .. Len(q) /\ q[Len(r) + 1] = u[Len(r) + 1]
      BY <1>4, <1>5, <3>2
    <3>4. q[Len(r) + 1][1] <= i /\ j <= q[Len(r) + 1][2]
      BY <1>1, <2>2, <3>2, <3>3
    <3>5. QED
      BY <3>3, <3>4 DEF Together
  <2>3. ASSUME NEW i \in 1 .. n, NEW j \in 1 .. n, i < j, p < i, j <= hi
        PROVE  Together(q, S!NoWalk, i, j)
    <3>1. p + 1 < hi
      BY <1>1, <2>3
    <3>2. Len(u) + 1 \in 1 .. Len(q) /\ q[Len(u) + 1][1] = p + 1 /\ q[Len(u) + 1][2] = hi
      BY <1>4, <1>5, <3>1
    <3>3. q[Len(u) + 1][1] <= i /\ j <= q[Len(u) + 1][2]
      BY <1>1, <2>3, <3>2
    <3>4. QED
      BY <3>2, <3>3 DEF Together
  <2>4. QED
    BY <2>1, <2>2, <2>3
<1>7. QED
  BY <1>0, <1>5, <1>6 DEF SidesOf

\* Between the two sides stands the pivot; each side of two is pushed.
LEMMA SidesApart ==
  ASSUME NEW s \in Seq(Int), NEW t \in Seq(Int), NEW r, NEW w,
         RangesApart(r, Len(s)), WalkInside(w, r, s), Active(w), w.next = w.hi,
         t = S!SwapAt(s, w.front, w.hi), OrderedElsewhere(t, r, w),
         \A i \in 1 .. Len(s) : s[i] # S!NaN,
         NEW q, q = S!Push(S!Push(r, w.lo, w.front - 1), w.front + 1, w.hi)
  PROVE  /\ RangesApart(q, Len(s))
         /\ OrderedElsewhere(t, q, S!NoWalk)
<1>1. PICK n \in Nat : n = Len(s)
  BY LenProperties
<1>2. PICK lo \in Nat, p \in Nat, hi \in Nat : lo = w.lo /\ p = w.front /\ hi = w.hi
  BY WalkFacts DEF WalkInside
<1>4. /\ n \in Nat /\ lo \in Nat /\ p \in Nat /\ hi \in Nat
      /\ r \in Seq(Pairs) /\ Len(r) \in Nat
      /\ 3 * Len(r) + 1 <= lo /\ lo < hi /\ hi <= n /\ lo <= p /\ p <= hi /\ 1 <= lo
      /\ \A k \in 1 .. Len(r) : r[k][1] \in Nat /\ r[k][2] \in Nat /\ r[k][2] < lo
  <2>1. r \in Seq(Pairs)
    BY DEF RangesApart
  <2>2. /\ 3 * Len(r) + 1 <= w.lo /\ w.lo < w.hi /\ w.hi <= Len(s)
        /\ w.lo <= w.front /\ w.front <= w.next
        /\ \A k \in 1 .. Len(r) : r[k][2] < w.lo
    BY Zenon DEF WalkInside
  <2>3. Len(r) \in Nat /\ \A k \in 1 .. Len(r) : r[k][1] \in Nat /\ r[k][2] \in Nat
    BY <2>1, PairFacts
  <2>4. QED
    BY <1>1, <1>2, <2>1, <2>2, <2>3
<1>8. /\ RangesApart(q, n)
      /\ \A k \in 1 .. Len(r) : k \in 1 .. Len(q) /\ q[k] = r[k]
      /\ \A i, j \in 1 .. n :
           i < j /\ ((lo <= i /\ j < p) \/ (p < i /\ j <= hi)) => Together(q, S!NoWalk, i, j)
  <2>1. RangesApart(r, n) /\ q = S!Push(S!Push(r, lo, p - 1), p + 1, hi)
    BY <1>1, <1>2
  <2>2. SidesOf(n, r, lo, p, hi, S!Push(S!Push(r, lo, p - 1), p + 1, hi))
    BY <1>4, <2>1, SidesPushed
  <2>3. QED
    BY <2>1, <2>2 DEF SidesOf
<1>9. /\ Len(t) = n
      /\ t[p] = s[hi] /\ t[hi] = s[p]
      /\ \A k \in 1 .. n : k # p /\ k # hi => t[k] = s[k]
  <2>1. p \in 1 .. Len(s) /\ hi \in 1 .. Len(s)
    BY <1>1, <1>4
  <2>2. /\ S!SwapAt(s, p, hi) \in Seq(Int)
        /\ Len(S!SwapAt(s, p, hi)) = Len(s)
        /\ \A k \in 1 .. Len(s) :
             S!SwapAt(s, p, hi)[k] = s[IF k = p THEN hi ELSE IF k = hi THEN p ELSE k]
        /\ Rearranged(s, S!SwapAt(s, p, hi))
    BY <2>1, SwapRearranges
  <2>3. t = S!SwapAt(s, p, hi)
    BY <1>2
  <2>4. QED
    BY <1>1, <2>1, <2>2, <2>3
<1>10. PICK v \in Int : v = s[hi] /\ v # S!NaN
  <2>1. hi \in 1 .. Len(s)
    BY <1>1, <1>4
  <2>2. QED
    BY <2>1, ElementOfSeq
<1>11. \A i \in 1 .. n : t[i] \in Int /\ t[i] # S!NaN
  <2>1. \A i \in 1 .. n : s[i] \in Int /\ s[i] # S!NaN
    BY <1>1, ElementOfSeq
  <2>2. p \in 1 .. n /\ hi \in 1 .. n
    BY <1>4
  <2>3. QED
    BY <1>9, <2>1, <2>2
<1>12. /\ \A i \in lo .. p - 1 : t[i] <= v
       /\ t[p] = v
       /\ \A i \in p + 1 .. hi : v <= t[i]
  <2>1. t[p] = v
    BY <1>4, <1>9, <1>10
  <2>2. ASSUME NEW i \in lo .. p - 1 PROVE t[i] <= v
    <3>1. i \in 1 .. n /\ i # p /\ i # hi
      BY <1>4
    <3>2. t[i] = s[i]
      BY <1>9, <3>1
    <3>3. S!AtMost(s[i], v)
      BY <1>2, <1>10 DEF WalkInside
    <3>4. QED
      BY <3>2, <3>3 DEF S!AtMost
  <2>3. ASSUME NEW i \in p + 1 .. hi PROVE v <= t[i]
    <3>1. i \in 1 .. n /\ i # p /\ p < hi
      BY <1>4
    <3>2. PICK j \in p .. hi - 1 : t[i] = s[j]
      <4>1. CASE i = hi
        <5>1. p \in p .. hi - 1 /\ t[i] = s[p]
          BY <1>4, <1>9, <3>1, <4>1
        <5>2. QED
          BY <5>1
      <4>2. CASE i # hi
        <5>1. i \in p .. hi - 1
          BY <1>4, <4>2
        <5>2. t[i] = s[i]
          BY <1>9, <3>1, <4>2
        <5>3. QED
          BY <5>1, <5>2
      <4>3. QED
        BY <4>1, <4>2
    <3>3. ~S!AtMost(s[j], v)
      BY <1>2, <1>10, <3>2 DEF WalkInside
    <3>4. QED
      BY <1>10, <1>11, <3>1, <3>2, <3>3 DEF S!AtMost
  <2>4. QED
    BY <2>1, <2>2, <2>3
<1>13. ASSUME NEW i \in 1 .. n, NEW j \in 1 .. n, i < j
       PROVE  Together(q, S!NoWalk, i, j) \/ S!AtMost(t[i], t[j])
  <2>1. CASE lo <= i /\ j <= hi
    <3>1. CASE (lo <= i /\ j < p) \/ (p < i /\ j <= hi)
      BY <1>8, <1>13, <3>1
    <3>2. CASE i <= p /\ p <= j
      <4>1. t[i] <= v /\ v <= t[j]
        <5>1. i \in lo .. p - 1 \/ i = p
          BY <2>1, <3>2
        <5>2. j \in p + 1 .. hi \/ j = p
          BY <2>1, <3>2
        <5>3. QED
          BY <1>10, <1>12, <5>1, <5>2
      <4>2. QED
        BY <1>10, <1>11, <4>1 DEF S!AtMost
    <3>3. QED
      BY <2>1, <3>1, <3>2
  <2>2. CASE ~(lo <= i /\ j <= hi)
    <3>1. CASE \E k \in 1 .. Len(r) : r[k][1] <= i /\ j <= r[k][2]
      BY <1>8, <3>1 DEF Together
    <3>2. CASE ~ \E k \in 1 .. Len(r) : r[k][1] <= i /\ j <= r[k][2]
      <4>1. ~Together(r, w, i, j)
        BY <1>2, <2>2, <3>2 DEF Together
      <4>2. QED
        BY <1>9, <1>13, <4>1 DEF OrderedElsewhere
    <3>3. QED
      BY <3>1, <3>2
  <2>3. QED
    BY <2>1, <2>2
<1>14. QED
  BY <1>1, <1>8, <1>9, <1>13 DEF OrderedElsewhere

NoNaN(s) == \A i \in 1 .. Len(s) : s[i] # S!NaN

\* While quick_sort runs, the elements are those given, and all that are not
\* together in a pending range are in order.
QuickTypes ==
  /\ given \in Seq(Int) /\ xs \in Seq(Int) /\ Len(xs) = Len(given)
  /\ outcome \in {"running", "panicked", "done"}
QuickOrdered == NoNaN(given) => OrderedElsewhere(xs, ranges, walk)
QuickEnds ==
  /\ outcome = "panicked" => Len(xs) >= 3 * StackPairs + 2
  /\ outcome = "done" => ranges = << >> /\ ~Active(walk)
QuickInv ==
  /\ algo \in S!Quick
  /\ QuickTypes
  /\ Rearranged(given, xs)
  /\ RangesApart(ranges, Len(xs))
  /\ WalkInside(walk, ranges, xs)
  /\ QuickOrdered
  /\ QuickEnds

LEMMA NoNaNKept ==
  ASSUME NEW s \in Seq(Int), NEW t, Rearranged(s, t), NoNaN(s)
  PROVE  NoNaN(t)
<1>1. PICK n \in Nat : n = Len(s) /\ n = Len(t)
  BY LenProperties DEF Rearranged
<1>2. PICK p \in Bijection(1 .. n, 1 .. n) : \A k \in 1 .. n : t[k] = s[p[k]]
  BY <1>1 DEF Rearranged
<1>3. \A k \in 1 .. n : p[k] \in 1 .. n
  BY <1>2 DEF Bijection, Injection
<1>4. QED
  BY <1>1, <1>2, <1>3 DEF NoNaN

LEMMA QuickMoves ==
  ASSUME algo \in S!Quick, [S!Next]_(S!sortvars)
  PROVE  /\ algo' = algo /\ given' = given
         /\ \/ S!PopRange \/ S!PartitionStep \/ S!PartitionEnd \/ S!QuickDone
            \/ UNCHANGED S!sortvars
<1>1. ~S!Running({"radix"}) /\ ~S!Running({"search"}) /\ ~S!Running(S!Sums)
  BY DEF S!Running, S!Quick, S!Sums
<1>2. CASE UNCHANGED S!sortvars
  BY <1>2 DEF S!sortvars
<1>3. CASE S!Next
  <2>1. S!PopRange \/ S!PartitionStep \/ S!PartitionEnd \/ S!QuickDone
    BY <1>1, <1>3 DEF S!Next, S!RadixFails, S!RadixStep, S!SearchStep, S!SumStep
  <2>2. QED
    BY <2>1 DEF S!PopRange, S!PartitionStep, S!PartitionEnd, S!QuickDone
<1>4. QED
  BY <1>2, <1>3

LEMMA QuickPops ==
  ASSUME QuickInv, S!PopRange
  PROVE  QuickInv'
<1>1. /\ algo' = algo /\ given' = given /\ xs' = xs /\ outcome' = outcome
      /\ outcome = "running" /\ ranges # << >> /\ ~Active(walk)
      /\ ranges' = SubSeq(ranges, 1, Len(ranges) - 1)
  BY DEF S!PopRange, S!Running, Active, S!Walking
<1>2. PICK n \in Nat, m \in Nat : n = Len(xs) /\ m = Len(ranges)
  <2>1. Len(xs) \in Nat /\ Len(ranges) \in Nat
    BY LenProperties, PairFacts DEF QuickInv, QuickTypes, RangesApart
  <2>2. QED
    BY <2>1
<1>11. PICK top : top = ranges[m]
  OBVIOUS
<1>3. /\ RangesApart(ranges, n) /\ m # 0
      /\ RangesApart(ranges', n) /\ Len(ranges') = m - 1
      /\ \A k \in 1 .. m - 1 : ranges'[k] = ranges[k]
  BY <1>1, <1>2, PopApart DEF QuickInv
<1>4. /\ top[1] \in Nat /\ top[2] \in Nat
      /\ 3 * m - 2 <= top[1] /\ top[1] < top[2] /\ top[2] <= n
      /\ \A k \in 1 .. m - 1 : ranges[k][2] < top[1]
  <2>1. m \in 1 .. m /\ m \in Nat
    BY <1>2, <1>3
  <2>2. top[1] \in Nat /\ top[2] \in Nat
    BY <1>11, <1>2, <1>3, <2>1, PairFacts DEF RangesApart
  <2>3. QED
    BY <1>11, <1>2, <1>3, <2>1, <2>2 DEF RangesApart
<1>5. walk' = [lo |-> top[1], hi |-> top[2], front |-> top[1], next |-> top[1]]
  BY <1>11, <1>2, <1>4 DEF S!PopRange
<1>6. /\ walk' \in Walks /\ walk'.lo = top[1] /\ walk'.hi = top[2]
      /\ walk'.front = top[1] /\ walk'.next = top[1] /\ Active(walk')
  BY <1>4, <1>5 DEF Walks, Active
<1>7. WalkInside(walk', ranges', xs)
  <2>1. 3 * (m - 1) + 1 <= top[1] /\ m \in Nat
    BY <1>2, <1>4
  <2>2. /\ \A k \in 1 .. m - 1 : ranges'[k][2] < top[1]
        /\ \A i \in top[1] .. top[1] - 1 : FALSE
    BY <1>3, <1>4
  <2>3. QED
    BY <1>2, <1>3, <1>4, <1>6, <2>1, <2>2 DEF WalkInside
<1>8. ASSUME NEW i, NEW j, Together(ranges, walk, i, j)
      PROVE  Together(ranges', walk', i, j)
  <2>1. PICK k \in 1 .. m : ranges[k][1] <= i /\ j <= ranges[k][2]
    BY <1>1, <1>2, <1>8 DEF Together
  <2>2. CASE k = m
    BY <1>11, <1>2, <1>6, <2>1, <2>2 DEF Together
  <2>3. CASE k # m
    <3>1. k \in 1 .. m - 1 /\ m \in Nat
      BY <1>2, <2>1, <2>3
    <3>2. k \in 1 .. Len(ranges') /\ ranges'[k] = ranges[k]
      BY <1>3, <3>1
    <3>3. QED
      BY <2>1, <3>2 DEF Together
  <2>4. QED
    BY <2>2, <2>3
<1>9. QuickOrdered'
  BY <1>1, <1>8 DEF QuickInv, QuickOrdered, OrderedElsewhere
<1>10. QED
  BY <1>1, <1>2, <1>3, <1>7, <1>9 DEF QuickInv, QuickTypes, QuickEnds

LEMMA QuickPartitions ==
  ASSUME QuickInv, S!PartitionStep
  PROVE  QuickInv'
<1>1. /\ algo' = algo /\ given' = given /\ ranges' = ranges /\ outcome' = outcome
      /\ outcome = "running" /\ walk.next < walk.hi
  BY DEF S!PartitionStep, S!Running
<1>2. PICK n \in Nat, lo \in Nat, hi \in Nat, p \in Nat, j \in Nat :
        /\ n = Len(xs)
        /\ lo = walk.lo /\ hi = walk.hi /\ p = walk.front /\ j = walk.next
  BY WalkFacts, LenProperties DEF QuickInv, QuickTypes, WalkInside
<1>3. /\ n \in Nat /\ lo \in Nat /\ hi \in Nat /\ p \in Nat /\ j \in Nat
      /\ xs \in Seq(Int) /\ walk \in Walks /\ Active(walk)
      /\ 1 <= lo /\ lo <= p /\ p <= j /\ j < hi /\ hi <= n /\ 3 * Len(ranges) + 1 <= lo
      /\ \A k \in 1 .. Len(ranges) : ranges[k][2] < lo
      /\ \A i \in lo .. p - 1 : S!AtMost(xs[i], xs[hi])
      /\ \A i \in p .. j - 1 : ~S!AtMost(xs[i], xs[hi])
  <2>1. /\ walk \in Walks /\ xs \in Seq(Int) /\ WalkInside(walk, ranges, xs)
        /\ RangesApart(ranges, Len(xs))
    BY DEF QuickInv, QuickTypes, WalkInside
  <2>2. Active(walk) /\ Len(ranges) \in Nat
    <3>1. walk.next \in Nat /\ walk.hi \in Nat
      BY <2>1 DEF Walks
    <3>2. Active(walk)
      BY <1>1, <3>1 DEF Active
    <3>3. ranges \in Seq(Pairs)
      BY <2>1 DEF RangesApart
    <3>4. QED
      BY <3>2, <3>3, LenProperties
  <2>3. /\ 1 <= lo /\ lo <= p /\ p <= j /\ j < hi /\ hi <= n /\ 3 * Len(ranges) + 1 <= lo
    BY <1>1, <1>2, <2>1, <2>2 DEF WalkInside, Active
  <2>4. /\ \A k \in 1 .. Len(ranges) : ranges[k][2] < lo
        /\ \A i \in lo .. p - 1 : S!AtMost(xs[i], xs[hi])
        /\ \A i \in p .. j - 1 : ~S!AtMost(xs[i], xs[hi])
    BY <1>2, <2>1, <2>2 DEF WalkInside, Active
  <2>5. QED
    BY <1>2, <2>1, <2>2, <2>3, <2>4
<1>4. CASE ~S!AtMost(xs[j], xs[hi])
  <2>1. xs' = xs /\ walk' = [walk EXCEPT !.next = j + 1]
    BY <1>2, <1>4 DEF S!PartitionStep
  <2>2. /\ walk' \in Walks /\ walk'.lo = lo /\ walk'.hi = hi /\ walk'.front = p
        /\ walk'.next = j + 1 /\ Active(walk')
    <3>1. walk = [lo |-> lo, hi |-> hi, front |-> p, next |-> j]
      BY <1>2, <1>3 DEF Walks
    <3>2. walk' = [lo |-> lo, hi |-> hi, front |-> p, next |-> j + 1]
      BY <2>1, <3>1
    <3>3. j + 1 \in Nat /\ j + 1 <= hi
      BY <1>3
    <3>4. QED
      BY <1>3, <3>2, <3>3 DEF Walks, Active
  <2>3. \A i \in p .. j : i \in p .. j - 1 \/ i = j
    BY <1>3
  <2>3a. j + 1 - 1 = j /\ \A i \in p .. j - 1 : ~S!AtMost(xs[i], xs[hi])
    BY <1>3
  <2>4. \A i \in p .. j + 1 - 1 : ~S!AtMost(xs[i], xs[hi])
    BY <1>4, <2>3, <2>3a
  <2>5. WalkInside(walk', ranges, xs)
    <3>1. lo < hi /\ p <= j + 1
      BY <1>3
    <3>2. QED
      BY <1>2, <1>3, <2>2, <2>4, <3>1 DEF WalkInside
  <2>6. \A a, b : Together(ranges, walk, a, b) => Together(ranges, walk', a, b)
    BY <1>2, <2>2 DEF Together
  <2>7. QuickOrdered'
    BY <1>1, <2>1, <2>6 DEF QuickInv, QuickOrdered, OrderedElsewhere
  <2>8. QED
    BY <1>1, <2>1, <2>5, <2>7 DEF QuickInv, QuickTypes, QuickEnds
<1>5. CASE S!AtMost(xs[j], xs[hi])
  <2>1. xs' = S!SwapAt(xs, p, j) /\ walk' = [walk EXCEPT !.front = p + 1, !.next = j + 1]
    BY <1>2, <1>5 DEF S!PartitionStep
  <2>2. /\ walk' \in Walks /\ walk'.lo = lo /\ walk'.hi = hi /\ walk'.front = p + 1
        /\ walk'.next = j + 1 /\ Active(walk')
    <3>1. walk = [lo |-> lo, hi |-> hi, front |-> p, next |-> j]
      BY <1>2, <1>3 DEF Walks
    <3>2. walk' = [lo |-> lo, hi |-> hi, front |-> p + 1, next |-> j + 1]
      BY <2>1, <3>1
    <3>3. p + 1 \in Nat /\ j + 1 \in Nat /\ j + 1 <= hi
      BY <1>3
    <3>4. QED
      BY <1>3, <3>2, <3>3 DEF Walks, Active
  <2>3. p \in 1 .. Len(xs) /\ j \in 1 .. Len(xs)
    <3>1. n = Len(xs) /\ 1 <= lo /\ lo <= p /\ p <= j /\ j < hi /\ hi <= n
      BY <1>2, <1>3
    <3>2. QED
      BY <3>1
  <2>4. /\ S!SwapAt(xs, p, j) \in Seq(Int)
        /\ Len(S!SwapAt(xs, p, j)) = Len(xs)
        /\ \A k \in 1 .. Len(xs) :
             S!SwapAt(xs, p, j)[k] = xs[IF k = p THEN j ELSE IF k = j THEN p ELSE k]
        /\ Rearranged(xs, S!SwapAt(xs, p, j))
    BY <1>3, <2>3, SwapRearranges
  <2>5. /\ xs' \in Seq(Int) /\ Len(xs') = n
        /\ \A k \in 1 .. n : k # p /\ k # j => xs'[k] = xs[k]
        /\ xs'[p] = xs[j] /\ xs'[j] = xs[p]
    BY <1>2, <2>1, <2>3, <2>4
  <2>6. xs'[hi] = xs[hi]
    BY <1>3, <2>5
  <2>7. ASSUME NEW i \in lo .. p + 1 - 1 PROVE S!AtMost(xs'[i], xs'[hi])
    <3>1. CASE i = p
      BY <1>5, <2>5, <2>6, <3>1
    <3>2. CASE i # p
      <4>1. i \in lo .. p - 1 /\ i \in 1 .. n /\ i # j
        BY <1>3, <3>2
      <4>2. QED
        BY <1>3, <2>5, <2>6, <3>2, <4>1
    <3>3. QED
      BY <3>1, <3>2
  <2>8. ASSUME NEW i \in p + 1 .. j + 1 - 1 PROVE ~S!AtMost(xs'[i], xs'[hi])
    <3>1. CASE i = j
      <4>1. p \in p .. j - 1
        BY <1>3, <3>1
      <4>2. QED
        BY <1>3, <2>5, <2>6, <3>1, <4>1
    <3>2. CASE i # j
      <4>1. i \in p .. j - 1 /\ i \in 1 .. n /\ i # p
        BY <1>3, <3>2
      <4>2. QED
        BY <1>3, <2>5, <2>6, <3>2, <4>1
    <3>3. QED
      BY <3>1, <3>2
  <2>9. WalkInside(walk', ranges, xs')
    <3>1. lo < hi /\ p + 1 <= j + 1 /\ lo <= p + 1
      BY <1>3
    <3>2. /\ 3 * Len(ranges) + 1 <= walk'.lo /\ walk'.lo < walk'.hi /\ walk'.hi <= Len(xs')
          /\ walk'.lo <= walk'.front /\ walk'.front <= walk'.next
          /\ \A k \in 1 .. Len(ranges) : ranges[k][2] < walk'.lo
      BY <1>3, <2>2, <2>5, <3>1
    <3>3. /\ \A i \in walk'.lo .. walk'.front - 1 : S!AtMost(xs'[i], xs'[walk'.hi])
          /\ \A i \in walk'.front .. walk'.next - 1 : ~S!AtMost(xs'[i], xs'[walk'.hi])
      BY <2>2, <2>7, <2>8
    <3>4. QED
      BY <2>2, <3>2, <3>3 DEF WalkInside
  <2>10. QuickOrdered'
    <3>1. SUFFICES ASSUME NoNaN(given) PROVE OrderedElsewhere(xs', ranges, walk')
      BY <1>1 DEF QuickOrdered
    <3>2. OrderedElsewhere(xs, ranges, walk)
      BY <3>1 DEF QuickInv, QuickOrdered
    <3>3. OrderedElsewhere(S!SwapAt(xs, p, j), ranges, walk)
      <4>1. walk.lo <= p /\ p <= walk.hi /\ walk.lo <= j /\ j <= walk.hi
        BY <1>2, <1>3
      <4>2. RangesApart(ranges, Len(xs)) /\ WalkInside(walk, ranges, xs)
        BY DEF QuickInv
      <4>3. QED
        BY <1>3, <3>2, <4>1, <4>2, SwapInside
    <3>4. \A a, b : Together(ranges, walk, a, b) => Together(ranges, walk', a, b)
      BY <1>2, <2>2 DEF Together
    <3>5. QED
      BY <2>1, <3>3, <3>4 DEF OrderedElsewhere
  <2>11. Rearranged(given, xs')
    <3>1. Rearranged(given, xs) /\ Rearranged(xs, xs') /\ Len(given) \in Nat
      BY <2>1, <2>4, LenProperties DEF QuickInv, QuickTypes
    <3>2. QED
      BY <3>1, RearrangedAgain
  <2>12. QED
    BY <1>1, <1>2, <2>5, <2>9, <2>10, <2>11 DEF QuickInv, QuickTypes, QuickEnds
<1>6. QED
  BY <1>4, <1>5

LEMMA QuickCuts ==
  ASSUME QuickInv, S!PartitionEnd, StackPairs \in Nat
  PROVE  QuickInv'
<1>1. /\ algo' = algo /\ given' = given
      /\ outcome = "running" /\ Active(walk) /\ walk.next = walk.hi
      /\ walk' = S!NoWalk
  BY DEF S!PartitionEnd, S!Running, Active, S!Walking
<1>2. PICK n \in Nat, lo \in Nat, hi \in Nat, p \in Nat :
        n = Len(xs) /\ lo = walk.lo /\ hi = walk.hi /\ p = walk.front
  BY WalkFacts, LenProperties DEF QuickInv, QuickTypes, WalkInside
<1>3. /\ n \in Nat /\ lo \in Nat /\ hi \in Nat /\ p \in Nat
      /\ xs \in Seq(Int) /\ Len(ranges) \in Nat
      /\ 1 <= lo /\ lo <= p /\ p <= hi /\ lo < hi /\ hi <= n /\ 3 * Len(ranges) + 1 <= lo
      /\ \A k \in 1 .. Len(ranges) : ranges[k][2] < lo
      /\ RangesApart(ranges, n) /\ WalkInside(walk, ranges, xs)
  <2>1. Len(ranges) \in Nat
    BY PairFacts DEF QuickInv, RangesApart
  <2>2. xs \in Seq(Int) /\ RangesApart(ranges, n) /\ WalkInside(walk, ranges, xs)
    BY <1>2, Zenon DEF QuickInv, QuickTypes
  <2>3. /\ 3 * Len(ranges) + 1 <= walk.lo /\ walk.lo < walk.hi /\ walk.hi <= Len(xs)
        /\ walk.lo <= walk.front /\ walk.front <= walk.next
        /\ \A k \in 1 .. Len(ranges) : ranges[k][2] < walk.lo
    BY <1>1, <2>2, Zenon DEF WalkInside
  <2>4. QED
    BY <1>1, <1>2, <2>1, <2>2, <2>3
<1>4. /\ xs' = S!SwapAt(xs, p, hi)
      /\ ranges' = S!Push(S!Push(ranges, lo, p - 1), p + 1, hi)
      /\ outcome' = IF Len(ranges') > StackPairs THEN "panicked" ELSE "running"
  BY <1>2 DEF S!PartitionEnd
<1>5. RangesApart(ranges', n)
  <2>1. SidesOf(n, ranges, lo, p, hi, S!Push(S!Push(ranges, lo, p - 1), p + 1, hi))
    BY <1>3, SidesPushed
  <2>2. QED
    BY <1>4, <2>1 DEF SidesOf
<1>6. p \in 1 .. Len(xs) /\ hi \in 1 .. Len(xs)
  BY <1>2, <1>3
<1>7. /\ S!SwapAt(xs, p, hi) \in Seq(Int)
      /\ Len(S!SwapAt(xs, p, hi)) = Len(xs)
      /\ Rearranged(xs, S!SwapAt(xs, p, hi))
  BY <1>3, <1>6, SwapRearranges
<1>8. WalkInside(walk', ranges', xs')
  BY <1>1, NoWalkIdle DEF WalkInside
<1>9. QuickOrdered'
  <2>1. SUFFICES ASSUME NoNaN(given) PROVE OrderedElsewhere(xs', ranges', S!NoWalk)
    BY <1>1 DEF QuickOrdered
  <2>2. OrderedElsewhere(xs, ranges, walk) /\ NoNaN(xs)
    BY <2>1, NoNaNKept DEF QuickInv, QuickOrdered, QuickTypes
  <2>3. OrderedElsewhere(S!SwapAt(xs, p, hi), ranges, walk)
    <3>1. walk.lo <= p /\ p <= walk.hi /\ walk.lo <= hi /\ hi <= walk.hi
      BY <1>2, <1>3
    <3>2. RangesApart(ranges, Len(xs))
      BY <1>2, <1>3
    <3>3. QED
      BY <1>1, <1>3, <2>2, <3>1, <3>2, SwapInside
  <2>4. PICK t, q : t = S!SwapAt(xs, walk.front, walk.hi)
                    /\ q = S!Push(S!Push(ranges, walk.lo, walk.front - 1), walk.front + 1, walk.hi)
    OBVIOUS
  <2>5. t \in Seq(Int) /\ OrderedElsewhere(t, ranges, walk) /\ RangesApart(ranges, Len(xs))
        /\ \A i \in 1 .. Len(xs) : xs[i] # S!NaN
    BY <1>2, <1>3, <1>7, <2>2, <2>3, <2>4 DEF NoNaN
  <2>6. OrderedElsewhere(t, q, S!NoWalk)
    BY <1>1, <1>3, <2>4, <2>5, SidesApart
  <2>7. QED
    BY <1>2, <1>4, <2>4, <2>6
<1>10. Rearranged(given, xs')
  <2>1. Rearranged(given, xs) /\ Rearranged(xs, xs') /\ Len(given) \in Nat
    BY <1>4, <1>7, LenProperties DEF QuickInv, QuickTypes
  <2>2. QED
    BY <2>1, RearrangedAgain
<1>11. QuickEnds'
  <2>1. SUFFICES ASSUME Len(ranges') > StackPairs PROVE n >= 3 * StackPairs + 2
    BY <1>2, <1>4, <1>7 DEF QuickEnds
  <2>2. PICK m \in Nat : m = Len(ranges')
    BY <1>5, PairFacts DEF RangesApart
  <2>3. m \in 1 .. m /\ m >= StackPairs + 1
    BY <2>1, <2>2
  <2>4. /\ 3 * m - 2 <= ranges'[m][1] /\ ranges'[m][1] < ranges'[m][2] /\ ranges'[m][2] <= n
        /\ ranges'[m][1] \in Nat /\ ranges'[m][2] \in Nat
    BY <1>5, <2>2, <2>3, PairFacts DEF RangesApart
  <2>5. QED
    BY <1>3, <2>2, <2>3, <2>4
<1>12. QED
  BY <1>1, <1>2, <1>4, <1>5, <1>7, <1>8, <1>9, <1>10, <1>11 DEF QuickInv, QuickTypes

LEMMA QuickStep ==
  ASSUME QuickInv, [S!Next]_(S!sortvars), StackPairs \in Nat
  PROVE  QuickInv'
<1>1. CASE S!QuickDone
  <2>1. /\ algo' = algo /\ given' = given /\ xs' = xs /\ ranges' = ranges /\ walk' = walk
        /\ outcome' = "done" /\ ranges = << >> /\ ~Active(walk)
    BY <1>1 DEF S!QuickDone, S!Walking, Active
  <2>2. QED
    BY <2>1 DEF QuickInv, QuickTypes, QuickOrdered, QuickEnds
<1>2. CASE UNCHANGED S!sortvars
  BY <1>2 DEF S!sortvars, QuickInv, QuickTypes, QuickOrdered, QuickEnds
<1>3. QED
  BY <1>1, <1>2, QuickMoves, QuickPops, QuickPartitions, QuickCuts DEF QuickInv

-----------------------------------------------------------------------------
(* radix_sort *)

Words == 0 .. WordMod - 1

\* The elements are in the order of their digits below the weight.
RadixTypes ==
  /\ given \in Seq(Words) /\ xs \in Seq(Nat) /\ operand \in Nat \ {0}
  /\ outcome \in {"running", "out_of_memory", "done"}
RadixOrdered ==
  \A i, j \in 1 .. Len(xs) : i < j => xs[i] % operand <= xs[j] % operand
RadixEnds ==
  /\ operand = 1 \/ outcome = "out_of_memory" => xs = given
  /\ outcome = "done" => Len(xs) <= 1 \/ operand >= WordMod
RadixInv ==
  /\ algo = "radix"
  /\ RadixTypes
  /\ Rearranged(given, xs)
  /\ RadixOrdered
  /\ RadixEnds

LEMMA RadixMoves ==
  ASSUME algo = "radix", [S!Next]_(S!sortvars)
  PROVE  /\ algo' = algo /\ given' = given
         /\ S!RadixFails \/ S!RadixStep \/ UNCHANGED S!sortvars
<1>1. ~S!Running(S!Quick) /\ ~S!Running({"search"}) /\ ~S!Running(S!Sums)
  BY DEF S!Running, S!Quick, S!Sums
<1>2. CASE UNCHANGED S!sortvars
  BY <1>2 DEF S!sortvars
<1>3. CASE S!Next
  <2>1. S!RadixFails \/ S!RadixStep
    BY <1>1, <1>3 DEF S!Next, S!PopRange, S!PartitionStep, S!PartitionEnd, S!QuickDone,
                       S!SearchStep, S!SumStep
  <2>2. QED
    BY <2>1 DEF S!RadixFails, S!RadixStep
<1>4. QED
  BY <1>2, <1>3

LEMMA RadixPasses ==
  ASSUME RadixInv, S!RadixStep, Base \in Nat \ {0, 1}, WordMod \in Nat \ {0}
  PROVE  RadixInv'
<1>1. algo' = algo /\ given' = given
  BY DEF S!RadixStep
<1>2. CASE Len(xs) > 1 /\ operand < WordMod
  <2>1. xs' = S!CountingPass(xs, operand) /\ operand' = operand * Base /\ outcome' = outcome
        /\ outcome = "running"
    BY <1>2 DEF S!RadixStep, S!Running
  <2>2. xs \in Seq(Nat) /\ operand \in Nat \ {0} /\ Len(xs) \in Nat
    BY LenProperties DEF RadixInv, RadixTypes
  <2>3. /\ S!CountingPass(xs, operand) \in Seq(Nat)
        /\ Rearranged(xs, S!CountingPass(xs, operand))
    BY <2>2, PassOrders
  <2>4. operand' \in Nat \ {0} /\ operand' # 1
    <3>1. PICK w \in Nat \ {0}, b \in Nat \ {0, 1} : w = operand /\ b = Base
      BY <2>2
    <3>2. w \in Nat \ {0} /\ b \in Nat \ {0, 1}
      BY <3>1
    <3>3. w * b \in Nat /\ w * b >= 2
      BY <3>2
    <3>4. QED
      BY <2>1, <3>1, <3>3
  <2>5. Rearranged(given, xs')
    <3>1. Rearranged(given, xs) /\ Rearranged(xs, xs') /\ Len(given) \in Nat
      BY <2>1, <2>3, LenProperties DEF RadixInv, RadixTypes
    <3>2. QED
      BY <3>1, RearrangedAgain
  <2>6. RadixOrdered'
    <3>1. \A i, j \in 1 .. Len(xs) : i < j => xs[i] % operand <= xs[j] % operand
      BY DEF RadixInv, RadixOrdered
    <3>2. PICK t : t = S!CountingPass(xs, operand)
      OBVIOUS
    <3>3. \A k, m \in 1 .. Len(xs) : k < m =>
            S!CountingPass(xs, operand)[k] % (operand * Base)
              <= S!CountingPass(xs, operand)[m] % (operand * Base)
      BY <2>2, <3>1, PassOrdersMore
    <3>4. Len(xs') = Len(xs)
      BY <2>1, <2>3 DEF Rearranged
    <3>5. QED
      BY <2>1, <3>3, <3>4 DEF RadixOrdered
  <2>7. QED
    BY <1>1, <2>1, <2>3, <2>4, <2>5, <2>6 DEF RadixInv, RadixTypes, RadixEnds
<1>3. CASE ~(Len(xs) > 1 /\ operand < WordMod)
  <2>1. xs' = xs /\ operand' = operand /\ outcome' = "done" /\ outcome = "running"
    BY <1>3 DEF S!RadixStep, S!Running
  <2>2. Len(xs) <= 1 \/ operand >= WordMod
    BY <1>3, LenProperties DEF RadixInv, RadixTypes
  <2>3. QED
    BY <1>1, <2>1, <2>2 DEF RadixInv, RadixTypes, RadixOrdered, RadixEnds
<1>4. QED
  BY <1>2, <1>3

LEMMA RadixSteps ==
  ASSUME RadixInv, [S!Next]_(S!sortvars), Base \in Nat \ {0, 1}, WordMod \in Nat \ {0}
  PROVE  RadixInv'
<1>1. CASE S!RadixFails
  BY <1>1 DEF S!RadixFails, RadixInv, RadixTypes, RadixOrdered, RadixEnds
<1>2. CASE UNCHANGED S!sortvars
  BY <1>2 DEF S!sortvars, RadixInv, RadixTypes, RadixOrdered, RadixEnds
<1>3. QED
  BY <1>1, <1>2, RadixMoves, RadixPasses DEF RadixInv

\* With all digits done the elements are in order.
LEMMA RadixSorted ==
  ASSUME RadixInv, outcome = "done", WordMod \in Nat \ {0}
  PROVE  S!Sorted(xs)
<1>1. PICK n \in Nat : n = Len(xs) /\ DOMAIN xs = 1 .. n
  BY LenProperties DEF RadixInv, RadixTypes
<1>2. \A i \in 1 .. n : xs[i] \in Nat /\ xs[i] < WordMod
  <2>1. n = Len(given)
    BY <1>1 DEF RadixInv, Rearranged
  <2>2. PICK p \in Bijection(1 .. n, 1 .. n) : \A k \in 1 .. n : xs[k] = given[p[k]]
    BY <2>1 DEF RadixInv, Rearranged
  <2>3. \A k \in 1 .. n : p[k] \in 1 .. n
    BY <2>2 DEF Bijection, Injection
  <2>4. \A k \in 1 .. n : given[k] \in Words
    BY <2>1, ElementOfSeq DEF RadixInv, RadixTypes
  <2>5. \A k \in 1 .. n : xs[k] \in Words
    BY <2>2, <2>3, <2>4
  <2>6. QED
    BY <2>5 DEF Words
<1>3. SUFFICES ASSUME NEW i \in 1 .. n, NEW j \in 1 .. n, i < j
               PROVE  S!AtMost(xs[i], xs[j])
  BY <1>1 DEF S!Sorted
<1>4. operand \in Nat \ {0} /\ operand >= WordMod
  BY <1>1, <1>3 DEF RadixInv, RadixTypes, RadixEnds
<1>5. xs[i] % operand <= xs[j] % operand
  BY <1>1 , <1>3 DEF RadixInv, RadixOrdered
<1>6. xs[i] % operand = xs[i] /\ xs[j] % operand = xs[j]
  <2>1. ASSUME NEW v \in Nat, v < operand PROVE v % operand = v
    BY <1>4, <2>1, Remainder
  <2>2. xs[i] \in Nat /\ xs[i] < operand /\ xs[j] \in Nat /\ xs[j] < operand
    BY <1>2, <1>4
  <2>3. QED
    BY <2>1, <2>2
<1>7. QED
  BY <1>2, <1>5, <1>6 DEF S!AtMost, S!NaN

-----------------------------------------------------------------------------
(* binary_search *)

\* What is before the range is below the key, what is behind it is not.
SearchRange(lo, hi) ==
  /\ ranges = <<<<lo, hi>>>>
  /\ lo \in 1 .. hi /\ hi \in 1 .. Len(xs) + 1
  /\ \A i \in 1 .. lo - 1 : xs[i] < operand
  /\ \A i \in hi .. Len(xs) : operand <= xs[i]
SearchInv ==
  /\ algo = "search"
  /\ xs \in Seq(Int) /\ operand \in Int /\ S!Sorted(xs)
  /\ outcome \in {"running", "found", "none"}
  /\ \E lo, hi \in Nat : SearchRange(lo, hi)
  /\ outcome = "found" => ranges[1][1] <= Len(xs) /\ xs[ranges[1][1]] = operand
  /\ outcome = "none" => \A i \in 1 .. Len(xs) : xs[i] # operand

LEMMA SearchMoves ==
  ASSUME algo = "search", [S!Next]_(S!sortvars)
  PROVE  algo' = algo /\ xs' = xs /\ operand' = operand /\ (S!SearchStep \/ UNCHANGED S!sortvars)
<1>1. ~S!Running(S!Quick) /\ ~S!Running({"radix"}) /\ ~S!Running(S!Sums)
  BY DEF S!Running, S!Quick, S!Sums
<1>2. CASE UNCHANGED S!sortvars
  BY <1>2 DEF S!sortvars
<1>3. CASE S!Next
  <2>1. S!SearchStep
    BY <1>1, <1>3 DEF S!Next, S!PopRange, S!PartitionStep, S!PartitionEnd, S!QuickDone,
                       S!RadixFails, S!RadixStep, S!SumStep
  <2>2. QED
    BY <2>1 DEF S!SearchStep
<1>4. QED
  BY <1>2, <1>3

LEMMA SearchSteps ==
  ASSUME SearchInv, [S!Next]_(S!sortvars)
  PROVE  SearchInv'
<1>1. algo' = algo /\ xs' = xs /\ operand' = operand
  BY SearchMoves DEF SearchInv
<1>2. CASE UNCHANGED S!sortvars
  BY <1>2 DEF S!sortvars, SearchInv, SearchRange
<1>3. CASE S!SearchStep
  <2>1. PICK n \in Nat : n = Len(xs) /\ DOMAIN xs = 1 .. n
    BY LenProperties DEF SearchInv
  <2>2. PICK lo \in Nat, hi \in Nat : SearchRange(lo, hi)
    BY DEF SearchInv
  <2>3. /\ ranges = <<<<lo, hi>>>> /\ ranges[1][1] = lo /\ ranges[1][2] = hi
        /\ lo \in Nat /\ hi \in Nat /\ 1 <= lo /\ lo <= hi /\ hi <= n + 1 /\ n \in Nat
        /\ \A i \in 1 .. lo - 1 : xs[i] < operand
        /\ \A i \in hi .. n : operand <= xs[i]
    BY <2>1, <2>2 DEF SearchRange
  <2>4. \A i \in 1 .. n : xs[i] \in Int
    BY <2>1, ElementOfSeq DEF SearchInv
  <2>5. \A i, j \in 1 .. n : i <= j => xs[i] <= xs[j]
    BY <2>1, <2>4 DEF SearchInv, S!Sorted, S!AtMost
  <2>6. operand \in Int /\ outcome = "running"
    BY <1>3 DEF SearchInv, S!SearchStep, S!Running
  <2>7. CASE lo < hi
    <3>1. PICK mid \in Nat : mid = (lo + hi) \div 2
      BY <2>3
    <3>2. mid \in Nat /\ lo <= mid /\ mid < hi
      BY <2>3, <2>7, <3>1
    <3>3. outcome' = outcome
          /\ ranges' = IF xs[mid] < operand THEN <<<<mid + 1, hi>>>> ELSE <<<<lo, mid>>>>
      BY <1>3, <2>3, <2>7, <3>1 DEF S!SearchStep
    <3>4. CASE xs[mid] < operand
      <4>1. \A i \in 1 .. mid + 1 - 1 : xs[i] < operand
        <5>1. ASSUME NEW i \in 1 .. mid PROVE xs[i] < operand
          <6>1. xs[i] <= xs[mid] /\ xs[i] \in Int /\ xs[mid] \in Int
            BY <2>3, <2>4, <2>5, <3>2
          <6>2. QED
            BY <2>6, <3>4, <6>1
        <5>2. QED
          BY <3>2, <5>1
      <4>2. SearchRange(mid + 1, hi)'
        BY <1>1, <2>1, <2>3, <3>2, <3>3, <3>4, <4>1 DEF SearchRange
      <4>3. mid + 1 \in Nat
        BY <3>2
      <4>4. \E l, h \in Nat : SearchRange(l, h)'
        BY <2>3, <4>2, <4>3
      <4>5. QED
        BY <1>1, <2>6, <3>3, <4>4 DEF SearchInv
    <3>5. CASE ~(xs[mid] < operand)
      <4>1. \A i \in mid .. n : operand <= xs[i]
        <5>1. ASSUME NEW i \in mid .. n PROVE operand <= xs[i]
          <6>1. xs[mid] <= xs[i] /\ xs[i] \in Int /\ xs[mid] \in Int
            BY <2>3, <2>4, <2>5, <3>2
          <6>2. QED
            BY <2>6, <3>5, <6>1
        <5>2. QED
          BY <5>1
      <4>2. SearchRange(lo, mid)'
        BY <1>1, <2>1, <2>3, <3>2, <3>3, <3>5, <4>1 DEF SearchRange
      <4>3. \E l, h \in Nat : SearchRange(l, h)'
        BY <2>3, <3>2, <4>2
      <4>4. QED
        BY <1>1, <2>6, <3>3, <4>3 DEF SearchInv
    <3>6. QED
      BY <3>4, <3>5
  <2>8. CASE ~(lo < hi)
    <3>1. lo = hi
      BY <2>3, <2>8
    <3>2. /\ ranges' = ranges
          /\ outcome' = IF lo <= n /\ xs[lo] = operand THEN "found" ELSE "none"
      BY <1>3, <2>1, <2>3, <2>8 DEF S!SearchStep
    <3>3. ASSUME NEW i \in 1 .. n, xs[i] = operand PROVE lo <= n /\ xs[lo] = operand
      <4>1. lo <= i
        BY <2>3, <2>6, <3>3
      <4>2. lo \in 1 .. n
        BY <2>3, <4>1
      <4>3. xs[lo] <= xs[i] /\ operand <= xs[lo]
        BY <2>3, <2>5, <3>1, <4>1, <4>2
      <4>4. QED
        BY <2>4, <2>6, <3>3, <4>2, <4>3
    <3>4. SearchRange(lo, hi)'
      BY <1>1, <2>2, <3>2 DEF SearchRange
    <3>5. \E l, h \in Nat : SearchRange(l, h)'
      BY <2>3, <3>4
    <3>6. outcome' = "found" => lo <= n /\ xs[lo] = operand
      BY <3>2
    <3>7. outcome' = "none" => \A i \in 1 .. n : xs[i] # operand
      BY <3>2, <3>3
    <3>8. QED
      BY <1>1, <2>1, <2>3, <3>2, <3>5, <3>6, <3>7 DEF SearchInv
  <2>9. QED
    BY <2>7, <2>8
<1>4. QED
  BY <1>2, <1>3, SearchMoves DEF SearchInv

-----------------------------------------------------------------------------
(* The prefix sums *)

\* Up to the next element the differences of the sums are those given.
InclusiveSums(s, k, acc) ==
  /\ IF k = 1 THEN acc = 0 ELSE acc = s[k - 1]
  /\ \A i \in 1 .. k - 1 :
       (s[i] - (IF i = 1 THEN 0 ELSE s[i - 1])) % WordMod = given[i]
ExclusiveSums(s, k, acc) ==
  /\ IF k = 1 THEN acc = 0 ELSE (acc - s[k - 1]) % WordMod = given[k - 1]
  /\ \A i \in 1 .. k - 1 :
       IF i = 1 THEN s[1] = 0 ELSE (s[i] - s[i - 1]) % WordMod = given[i - 1]
SumInv ==
  /\ algo \in S!Sums
  /\ given \in Seq(Words) /\ xs \in Seq(Words) /\ Len(xs) = Len(given) /\ operand \in Words
  /\ walk \in Walks /\ walk.hi = Len(xs) /\ walk.next \in 1 .. Len(xs) + 1
  /\ outcome \in {"running", "done"} /\ (outcome = "done" => ~Active(walk))
  /\ \A i \in walk.next .. Len(xs) : xs[i] = given[i]
  /\ algo = "inclusive" => InclusiveSums(xs, walk.next, operand)
  /\ algo = "exclusive" => ExclusiveSums(xs, walk.next, operand)

LEMMA SumMoves ==
  ASSUME algo \in S!Sums, [S!Next]_(S!sortvars)
  PROVE  algo' = algo /\ given' = given /\ (S!SumStep \/ UNCHANGED S!sortvars)
<1>1. ~S!Running(S!Quick) /\ ~S!Running({"radix"}) /\ ~S!Running({"search"})
  BY DEF S!Running, S!Quick, S!Sums
<1>2. CASE UNCHANGED S!sortvars
  BY <1>2 DEF S!sortvars
<1>3. CASE S!Next
  <2>1. S!SumStep
    BY <1>1, <1>3 DEF S!Next, S!PopRange, S!PartitionStep, S!PartitionEnd, S!QuickDone,
                       S!RadixFails, S!RadixStep, S!SearchStep
  <2>2. QED
    BY <2>1 DEF S!SumStep
<1>4. QED
  BY <1>2, <1>3

\* A wrapped sum less what it was before is what was added.
LEMMA WrappedSum ==
  ASSUME NEW m \in Nat \ {0}, NEW a \in 0 .. m - 1, NEW x \in 0 .. m - 1
  PROVE  (a + x) % m \in 0 .. m - 1 /\ (((a + x) % m) - a) % m = x
<1>1. (a + x) % m \in 0 .. m - 1
  OBVIOUS
<1>2. QED
  BY <1>1, IntMod

LEMMA SumAdds ==
  ASSUME SumInv, S!SumStep, Active(walk), WordMod \in Nat \ {0}
  PROVE  SumInv'
<1>1. PICK n \in Nat, k \in Nat : n = Len(xs) /\ k = walk.next
  BY WalkFacts, LenProperties DEF SumInv
<1>2. /\ n \in Nat /\ k \in Nat /\ 1 <= k /\ k <= n
      /\ xs \in Seq(Words) /\ given \in Seq(Words) /\ Len(given) = n
      /\ xs[k] = given[k] /\ walk.hi = n
  BY <1>1 DEF SumInv, Active
<1>3. PICK acc \in Words, x \in Words : acc = operand /\ x = given[k]
  BY <1>2, ElementOfSeq DEF SumInv
<1>4. PICK sum \in Words : sum = (acc + x) % WordMod /\ (sum - acc) % WordMod = x
  BY <1>3, WrappedSum DEF Words
<1>5. PICK v \in Words : v = IF algo = "inclusive" THEN sum ELSE acc
  BY <1>3, <1>4
<1>6. /\ algo' = algo /\ given' = given /\ outcome' = outcome /\ outcome = "running"
      /\ operand' = sum
      /\ xs' = [xs EXCEPT ![k] = v]
      /\ walk' = [walk EXCEPT !.next = k + 1]
  BY <1>1, <1>2, <1>3, <1>4, <1>5 DEF S!SumStep, Active, S!Walking, S!Running
<1>7. /\ xs' \in Seq(Words) /\ Len(xs') = n
      /\ \A i \in 1 .. n : xs'[i] = IF i = k THEN v ELSE xs[i]
  <2>1. k \in 1 .. Len(xs) /\ v \in Words
    BY <1>1, <1>2, <1>5
  <2>2. QED
    BY <1>1, <1>2, <1>6, <2>1, ExceptSeq
<1>8. walk' \in Walks /\ walk'.hi = n /\ walk'.next = k + 1 /\ walk'.next \in 1 .. n + 1
  <2>1. k + 1 \in Nat /\ k + 1 \in 1 .. n + 1 /\ walk \in Walks
    BY <1>2 DEF SumInv
  <2>2. QED
    BY <1>2, <1>6, <2>1 DEF Walks
<1>9. \A i \in k + 1 .. n : xs'[i] = given[i]
  <2>1. \A i \in k .. n : xs[i] = given[i]
    BY <1>1 DEF SumInv
  <2>2. QED
    BY <1>2, <1>7, <2>1
<1>10. /\ xs'[k] = v
       /\ \A i \in 1 .. k - 1 : xs'[i] = xs[i]
  BY <1>2, <1>7
<1>11. /\ \A i \in 1 .. k + 1 - 1 : i \in 1 .. k - 1 \/ i = k
       /\ k + 1 # 1 /\ k + 1 - 1 = k
       /\ \A i \in 1 .. k - 1 : i # 1 => i - 1 \in 1 .. k - 1
       /\ k # 1 => k - 1 \in 1 .. k - 1
  BY <1>2
<1>12. ASSUME algo = "inclusive" PROVE InclusiveSums(xs, k + 1, sum)'
  <2>1. v = sum
    BY <1>5, <1>12
  <2>2. InclusiveSums(xs, k, acc)
    BY <1>1, <1>3, <1>12 DEF SumInv
  <2>3. (v - (IF k = 1 THEN 0 ELSE xs'[k - 1])) % WordMod = x
    <3>1. acc = IF k = 1 THEN 0 ELSE xs'[k - 1]
      BY <1>10, <1>11, <2>2 DEF InclusiveSums
    <3>2. QED
      BY <1>4, <2>1, <3>1
  <2>4. ASSUME NEW i \in 1 .. k - 1
        PROVE  (xs'[i] - (IF i = 1 THEN 0 ELSE xs'[i - 1])) % WordMod = given[i]
    <3>1. (xs[i] - (IF i = 1 THEN 0 ELSE xs[i - 1])) % WordMod = given[i]
      BY <2>2 DEF InclusiveSums
    <3>2. xs'[i] = xs[i] /\ (i # 1 => xs'[i - 1] = xs[i - 1])
      BY <1>10, <1>11
    <3>3. QED
      BY <3>1, <3>2
  <2>5. QED
    BY <1>3, <1>6, <1>10, <1>11, <2>1, <2>3, <2>4 DEF InclusiveSums
<1>13. ASSUME algo = "exclusive" PROVE ExclusiveSums(xs, k + 1, sum)'
  <2>1. v = acc
    BY <1>5, <1>13
  <2>2. ExclusiveSums(xs, k, acc)
    BY <1>1, <1>3, <1>13 DEF SumInv
  <2>3. IF k = 1 THEN xs'[1] = 0 ELSE (xs'[k] - xs'[k - 1]) % WordMod = given[k - 1]
    <3>1. k = 1 => acc = 0
      BY <2>2 DEF ExclusiveSums
    <3>2. k # 1 => (acc - xs[k - 1]) % WordMod = given[k - 1] /\ xs'[k - 1] = xs[k - 1]
      BY <1>10, <1>11, <2>2 DEF ExclusiveSums
    <3>3. QED
      BY <1>10, <2>1, <3>1, <3>2
  <2>4. ASSUME NEW i \in 1 .. k - 1
        PROVE  IF i = 1 THEN xs'[1] = 0 ELSE (xs'[i] - xs'[i - 1]) % WordMod = given[i - 1]
    <3>1. IF i = 1 THEN xs[1] = 0 ELSE (xs[i] - xs[i - 1]) % WordMod = given[i - 1]
      BY <2>2 DEF ExclusiveSums
    <3>2. xs'[i] = xs[i] /\ (i # 1 => xs'[i - 1] = xs[i - 1])
      BY <1>10, <1>11
    <3>3. QED
      BY <3>1, <3>2
  <2>5. (sum - xs'[k]) % WordMod = given[k]
    BY <1>3, <1>4, <1>10, <2>1
  <2>6. QED
    BY <1>6, <1>11, <2>3, <2>4, <2>5 DEF ExclusiveSums
<1>14. QED
  BY <1>1, <1>2, <1>6, <1>7, <1>8, <1>9, <1>12, <1>13 DEF SumInv

LEMMA SumSteps ==
  ASSUME SumInv, [S!Next]_(S!sortvars), WordMod \in Nat \ {0}
  PROVE  SumInv'
<1>1. CASE UNCHANGED S!sortvars
  BY <1>1 DEF S!sortvars, SumInv, InclusiveSums, ExclusiveSums
<1>2. CASE S!SumStep /\ ~Active(walk)
  <2>1. algo' = algo /\ given' = given /\ xs' = xs /\ walk' = walk /\ operand' = operand
        /\ outcome' = "done"
    BY <1>2 DEF S!SumStep, Active, S!Walking
  <2>2. QED
    BY <1>2, <2>1 DEF SumInv, InclusiveSums, ExclusiveSums
<1>3. QED
  BY <1>1, <1>2, SumMoves, SumAdds DEF SumInv

-----------------------------------------------------------------------------
SlicesInv == QuickInv \/ RadixInv \/ SearchInv \/ SumInv

LEMMA Sizes ==
  ASSUME S!SortingAssumption
  PROVE  /\ LongestSlice \in Nat /\ StackPairs \in Nat \ {0} /\ Base \in Nat \ {0, 1}
         /\ WordMod \in Nat \ {0} /\ SortValues \subseteq Words
BY DEF S!SortingAssumption, Words

\* The slice that is given.
LEMMA GivenSlice ==
  ASSUME S!Init, S!SortingAssumption
  PROVE  /\ xs = given /\ outcome = "running" /\ Len(given) \in Nat /\ given \in Seq(Int)
         /\ algo # "quick_f32" => given \in Seq(Words) /\ given \in Seq(Nat)
<1>1. xs = given /\ outcome = "running"
  BY DEF S!Init
<1>2. PICK n \in 0 .. LongestSlice :
        given \in [1 .. n -> SortValues \union IF algo = "quick_f32" THEN {S!NaN} ELSE {}]
  BY DEF S!Init
<1>3. n \in Nat
  BY Sizes
<1>4. SortValues \subseteq Words /\ Words \subseteq Nat /\ S!NaN \in Int
  BY Sizes DEF Words, S!NaN
<1>5. given \in [1 .. n -> Int]
  <2>1. PICK Vals : Vals = SortValues \union IF algo = "quick_f32" THEN {S!NaN} ELSE {}
    OBVIOUS
  <2>2. Vals \subseteq Int
    BY <1>4, <2>1
  <2>3. given \in [1 .. n -> Vals]
    BY <1>2, <2>1
  <2>4. QED
    BY <2>2, <2>3
<1>6. given \in Seq(Int)
  BY <1>3, <1>5, SeqDef
<1>7. ASSUME algo # "quick_f32" PROVE given \in Seq(Words) /\ given \in Seq(Nat)
  <2>1. given \in [1 .. n -> Words] /\ given \in [1 .. n -> Nat]
    BY <1>2, <1>4, <1>7
  <2>2. QED
    BY <1>3, <2>1, SeqDef
<1>8. QED
  BY <1>1, <1>6, <1>7, LenProperties

LEMMA QuickStarts ==
  ASSUME S!Init, S!SortingAssumption, algo \in S!Quick
  PROVE  QuickInv
<1>1. PICK n \in Nat : n = Len(given)
  BY GivenSlice
<1>2. /\ n \in Nat /\ xs = given /\ outcome = "running" /\ given \in Seq(Int)
      /\ walk = S!NoWalk
      /\ ranges = IF n > 1 THEN <<<<1, n>>>> ELSE << >>
  BY <1>1, GivenSlice DEF S!Init, S!Quick, S!Sums
<1>3. QuickTypes /\ Rearranged(given, xs) /\ QuickEnds
  BY <1>2, RearrangedItself DEF QuickTypes, QuickEnds
<1>4. WalkInside(walk, ranges, xs)
  BY <1>2, NoWalkIdle DEF WalkInside
<1>5. CASE n > 1
  <2>1. ranges = <<<<1, n>>>>
    BY <1>2, <1>5
  <2>2. /\ ranges \in Seq(Pairs) /\ Len(ranges) = 1 /\ ranges[1][1] = 1 /\ ranges[1][2] = n
    <3>1. PICK e : e = <<1, n>>
      OBVIOUS
    <3>2. e \in Pairs /\ e[1] = 1 /\ e[2] = n
      BY <1>2, <3>1 DEF Pairs
    <3>3. ranges = <<e>>
      BY <2>1, <3>1
    <3>4. ranges \in Seq(Pairs) /\ Len(ranges) = 1 /\ ranges[1] = e
      BY <3>2, <3>3
    <3>5. QED
      BY <3>2, <3>4
  <2>3. RangesApart(ranges, Len(xs))
    BY <1>1, <1>2, <1>5, <2>2 DEF RangesApart
  <2>4. OrderedElsewhere(xs, ranges, walk)
    BY <1>1, <1>2, <2>2 DEF OrderedElsewhere, Together
  <2>5. QED
    BY <1>3, <1>4, <2>3, <2>4 DEF QuickInv, QuickOrdered
<1>6. CASE ~(n > 1)
  <2>1. ranges = << >> /\ ranges \in Seq(Pairs) /\ Len(ranges) = 0
    BY <1>2, <1>6
  <2>2. RangesApart(ranges, Len(xs))
    BY <2>1 DEF RangesApart
  <2>3. OrderedElsewhere(xs, ranges, walk)
    BY <1>1, <1>2, <1>6 DEF OrderedElsewhere
  <2>4. QED
    BY <1>3, <1>4, <2>2, <2>3 DEF QuickInv, QuickOrdered
<1>7. QED
  BY <1>5, <1>6

LEMMA RadixStarts ==
  ASSUME S!Init, S!SortingAssumption, algo = "radix"
  PROVE  RadixInv
<1>1. /\ xs = given /\ outcome = "running" /\ given \in Seq(Words) /\ given \in Seq(Nat)
      /\ operand = 1
  BY GivenSlice DEF S!Init
<1>2. \A i \in 1 .. Len(xs) : xs[i] \in Nat
  BY <1>1, ElementOfSeq
<1>3. RadixOrdered
  BY <1>1, <1>2, Remainder DEF RadixOrdered
<1>4. QED
  BY <1>1, <1>3, RearrangedItself DEF RadixInv, RadixTypes, RadixEnds

LEMMA SearchStarts ==
  ASSUME S!Init, S!SortingAssumption, algo = "search"
  PROVE  SearchInv
<1>1. PICK n \in Nat : n = Len(given)
  BY GivenSlice
<1>2. /\ xs = given /\ outcome = "running" /\ given \in Seq(Int) /\ S!Sorted(given)
      /\ operand \in SortValues /\ ranges = <<<<1, n + 1>>>>
  <2>1. xs = given /\ outcome = "running" /\ given \in Seq(Int)
    BY GivenSlice
  <2>2. S!Sorted(given) /\ operand \in SortValues
    BY DEF S!Init
  <2>3. ranges = <<<<1, Len(given) + 1>>>>
    BY DEF S!Init, S!Quick
  <2>4. QED
    BY <1>1, <2>1, <2>2, <2>3
<1>3. operand \in Int
  BY <1>2, Sizes DEF Words
<1>4. SearchRange(1, n + 1)
  BY <1>1, <1>2 DEF SearchRange
<1>5. QED
  BY <1>1, <1>2, <1>3, <1>4 DEF SearchInv

LEMMA SumsStart ==
  ASSUME S!Init, S!SortingAssumption, algo \in S!Sums
  PROVE  SumInv
<1>1. PICK n \in Nat : n = Len(given)
  BY GivenSlice
<1>2. /\ xs = given /\ outcome = "running" /\ given \in Seq(Words)
      /\ operand = 0 /\ walk = [S!NoWalk EXCEPT !.hi = n]
  BY <1>1, GivenSlice DEF S!Init, S!Sums
<1>3. walk = [lo |-> 1, hi |-> n, front |-> 1, next |-> 1]
  BY <1>2 DEF S!NoWalk
<1>4. 0 \in Words
  BY Sizes DEF Words
<1>5. walk \in Walks
  BY <1>1, <1>3 DEF Walks
<1>6. QED
  BY <1>1, <1>2, <1>3, <1>4, <1>5 DEF SumInv, InclusiveSums, ExclusiveSums

LEMMA SlicesInit == S!SortingAssumption /\ S!Init => SlicesInv
<1>1. S!Init => algo \in S!Quick \/ algo = "radix" \/ algo = "search" \/ algo \in S!Sums
  BY DEF S!Init
<1>2. QED
  BY <1>1, QuickStarts, RadixStarts, SearchStarts, SumsStart DEF SlicesInv

LEMMA SlicesStep == S!SortingAssumption /\ SlicesInv /\ [S!Next]_(S!sortvars) => SlicesInv'
BY Sizes, QuickStep, RadixSteps, SearchSteps, SumSteps DEF SlicesInv

-----------------------------------------------------------------------------
\* With nothing pending the elements are in order, unless NaN is among them.
LEMMA QuickAnswers ==
  ASSUME QuickInv, outcome = "done"
  PROVE  S!Sorted(xs) \/ S!NaN \in {given[i] : i \in DOMAIN given}
<1>1. PICK n \in Nat : n = Len(xs) /\ DOMAIN xs = 1 .. n /\ DOMAIN given = 1 .. n
  BY LenProperties DEF QuickInv, QuickTypes
<1>2. ranges = << >> /\ ~Active(walk)
  BY DEF QuickInv, QuickEnds
<1>3. ASSUME NoNaN(given) PROVE S!Sorted(xs)
  <2>1. OrderedElsewhere(xs, ranges, walk)
    BY <1>3 DEF QuickInv, QuickOrdered
  <2>2. \A i, j : ~Together(ranges, walk, i, j)
    BY <1>2 DEF Together
  <2>3. QED
    BY <1>1, <2>1, <2>2 DEF OrderedElsewhere, S!Sorted
<1>4. QED
  BY <1>1, <1>3 DEF NoNaN, QuickInv, QuickTypes

LEMMA QuickSound == QuickInv => S!SlicesCorrect
<1>1. SUFFICES ASSUME QuickInv PROVE S!SlicesCorrect
  OBVIOUS
<1>2. S!Permuted
  BY <1>1, SameCounts DEF S!Permuted, QuickInv, QuickTypes
<1>3. outcome = "panicked" => Len(xs) >= 3 * StackPairs + 2
  BY <1>1 DEF QuickInv, QuickEnds
<1>4. algo \in S!Quick /\ outcome \in {"running", "panicked", "done"}
  BY <1>1 DEF QuickInv, QuickTypes
<1>5. QED
  BY <1>1, <1>2, <1>3, <1>4, QuickAnswers DEF S!SlicesCorrect, S!Quick

LEMMA RadixSound == WordMod \in Nat \ {0} /\ RadixInv => S!SlicesCorrect
<1>1. SUFFICES ASSUME WordMod \in Nat \ {0}, RadixInv PROVE S!SlicesCorrect
  OBVIOUS
<1>2. S!Permuted
  <2>1. Words \subseteq Int
    BY <1>1 DEF Words
  <2>2. given \in Seq(Int) /\ xs \in Seq(Int)
    <3>1. given \in Seq(Words) /\ xs \in Seq(Nat) /\ Nat \subseteq Int
      BY <1>1 DEF RadixInv, RadixTypes
    <3>2. \A Vals, Wide, s : s \in Seq(Vals) /\ Vals \subseteq Wide => s \in Seq(Wide)
      BY SeqMonotonic, Zenon
    <3>3. QED
      BY <2>1, <3>1, <3>2, Zenon
  <2>3. QED
    BY <1>1, <2>2, SameCounts DEF S!Permuted, RadixInv
<1>3. algo = "radix" /\ outcome \in {"running", "out_of_memory", "done"}
  BY <1>1 DEF RadixInv, RadixTypes
<1>4. outcome = "out_of_memory" => xs = given
  BY <1>1 DEF RadixInv, RadixEnds
<1>5. QED
  BY <1>1, <1>2, <1>3, <1>4, RadixSorted DEF S!SlicesCorrect, S!Quick

LEMMA SearchSound == SearchInv => S!SlicesCorrect
<1>1. SUFFICES ASSUME SearchInv PROVE S!SlicesCorrect
  OBVIOUS
<1>2. PICK n \in Nat : n = Len(xs) /\ DOMAIN xs = 1 .. n
  BY <1>1, LenProperties DEF SearchInv
<1>3. PICK lo \in Nat, hi \in Nat : SearchRange(lo, hi)
  BY <1>1 DEF SearchInv
<1>4. /\ ranges[1][1] = lo /\ lo \in Nat /\ 1 <= lo /\ operand \in Int
      /\ \A i \in 1 .. lo - 1 : xs[i] < operand
  BY <1>1, <1>3 DEF SearchRange, SearchInv
<1>5. \A i \in 1 .. n : xs[i] \in Int
  BY <1>1, <1>2, ElementOfSeq DEF SearchInv
<1>6. ASSUME outcome = "found"
      PROVE  /\ xs[lo] = operand
             /\ \A i \in 1 .. lo - 1 : xs[i] # operand
  <2>1. xs[lo] = operand /\ lo <= n
    BY <1>1, <1>2, <1>4, <1>6 DEF SearchInv
  <2>2. \A i \in 1 .. lo - 1 : i \in 1 .. n
    BY <1>2, <1>4, <2>1
  <2>3. QED
    BY <1>4, <1>5, <2>1, <2>2
<1>7. ASSUME outcome = "none" PROVE S!Count(xs, operand) = 0
  <2>1. \A i \in 1 .. n : xs[i] # operand
    BY <1>1, <1>2, <1>7 DEF SearchInv
  <2>2. {i \in DOMAIN xs : xs[i] = operand} = {}
    BY <1>2, <2>1
  <2>3. QED
    BY <2>2, FS_EmptySet, SliceCardinality DEF S!Count
<1>8. algo = "search" /\ outcome \in {"running", "found", "none"}
  BY <1>1 DEF SearchInv
<1>9. QED
  BY <1>4, <1>6, <1>7, <1>8 DEF S!SlicesCorrect, S!Quick

LEMMA SumsSound == SumInv => S!SlicesCorrect
<1>1. SUFFICES ASSUME SumInv PROVE S!SlicesCorrect
  OBVIOUS
<1>2. PICK n \in Nat : n = Len(xs) /\ DOMAIN xs = 1 .. n
  BY <1>1, LenProperties DEF SumInv
<1>3. PICK k \in Nat : k = walk.next
  BY <1>1, WalkFacts DEF SumInv
<1>4. algo \in S!Sums /\ outcome \in {"running", "done"}
  BY <1>1 DEF SumInv
<1>5. ASSUME outcome = "done" PROVE k = n + 1
  BY <1>1, <1>2, <1>3, <1>5 DEF SumInv, Active
<1>6. ASSUME outcome = "done", algo = "inclusive"
      PROVE  \A i \in DOMAIN xs : (xs[i] - (IF i = 1 THEN 0 ELSE xs[i - 1])) % WordMod = given[i]
  <2>1. InclusiveSums(xs, k, operand)
    BY <1>1, <1>3, <1>6 DEF SumInv
  <2>2. k - 1 = n
    BY <1>2, <1>5, <1>6
  <2>3. QED
    BY <1>2, <2>1, <2>2 DEF InclusiveSums
<1>7. ASSUME outcome = "done", algo = "exclusive"
      PROVE  \A i \in DOMAIN xs : IF i = 1 THEN xs[1] = 0
                                  ELSE (xs[i] - xs[i - 1]) % WordMod = given[i - 1]
  <2>1. ExclusiveSums(xs, k, operand)
    BY <1>1, <1>3, <1>7 DEF SumInv
  <2>2. k - 1 = n
    BY <1>2, <1>5, <1>7
  <2>3. QED
    BY <1>2, <2>1, <2>2 DEF ExclusiveSums
<1>8. algo \notin S!Quick \union {"radix"}
  BY <1>4 DEF S!Quick, S!Sums
<1>9. outcome # "panicked" /\ outcome # "out_of_memory" /\ outcome # "found" /\ outcome # "none"
  BY <1>4
<1>10. QED
  BY <1>6, <1>7, <1>8, <1>9 DEF S!SlicesCorrect

LEMMA SlicesSound == S!SortingAssumption /\ SlicesInv => S!SlicesCorrect
BY Sizes, QuickSound, RadixSound, SearchSound, SumsSound DEF SlicesInv

-----------------------------------------------------------------------------
(* The tree of boxes: the codes *)

LEMMA LeastKey ==
  ASSUME NEW n \in Nat \ {0}, NEW key \in [1 .. n -> Int]
  PROVE  \E i \in 1 .. n : \A j \in 1 .. n : key[i] <= key[j]
<1>1. PICK place : place = Place(n, key)
  OBVIOUS
<1>2. /\ place \in Bijection(1 .. n, 1 .. n)
      /\ \A k, m \in 1 .. n : k < m => key[place[k]] <= key[place[m]]
  <2>1. place \in Bijection(1 .. n, 1 .. n)
    BY <1>1, PlacesOfPositions
  <2>2. \A k \in 1 .. n : place[k] \in 1 .. n
    BY <2>1 DEF Bijection, Injection
  <2>3. ASSUME NEW k \in 1 .. n, NEW m \in 1 .. n, k < m
        PROVE  key[place[k]] <= key[place[m]]
    <3>1. key[place[k]] \in Int /\ key[place[m]] \in Int
      BY <2>2
    <3>2. key[place[k]] < key[place[m]] \/ key[place[k]] = key[place[m]]
      BY <1>1, <2>3, PlacesOfPositions
    <3>3. QED
      BY <3>1, <3>2
  <2>4. QED
    BY <2>1, <2>3
<1>3. 1 \in 1 .. n /\ place[1] \in 1 .. n
  BY <1>2 DEF Bijection, Injection
<1>4. ASSUME NEW j \in 1 .. n PROVE key[place[1]] <= key[j]
  <2>1. PICK k \in 1 .. n : place[k] = j
    BY <1>2 DEF Bijection, Surjection
  <2>2. k = 1 \/ 1 < k
    OBVIOUS
  <2>3. QED
    BY <1>2, <1>3, <2>1, <2>2
<1>5. QED
  BY <1>3, <1>4

LEMMA LowerIs ==
  ASSUME NEW Lows \in SUBSET Int, NEW m \in Lows, \A u \in Lows : m <= u
  PROVE  T!Lower(Lows) = m
<1>1. T!Lower(Lows) \in Lows /\ \A u \in Lows : T!Lower(Lows) <= u
  BY Zenon DEF T!Lower
<1>2. T!Lower(Lows) <= m /\ m <= T!Lower(Lows)
  BY <1>1
<1>3. T!Lower(Lows) \in Int /\ m \in Int
  BY <1>1
<1>4. QED
  BY <1>2, <1>3

LEMMA UpperIs ==
  ASSUME NEW Lows \in SUBSET Int, NEW m \in Lows, \A u \in Lows : u <= m
  PROVE  T!Upper(Lows) = m
<1>1. T!Upper(Lows) \in Lows /\ \A u \in Lows : u <= T!Upper(Lows)
  BY Zenon DEF T!Upper
<1>2. T!Upper(Lows) <= m /\ m <= T!Upper(Lows)
  BY <1>1
<1>3. T!Upper(Lows) \in Int /\ m \in Int
  BY <1>1
<1>4. QED
  BY <1>2, <1>3

LEMMA LowerOfTwo ==
  ASSUME NEW a \in Int, NEW b \in Int
  PROVE  /\ T!Lower({a, b}) \in {a, b} /\ T!Lower({a, b}) <= a /\ T!Lower({a, b}) <= b
         /\ T!Upper({a, b}) \in {a, b} /\ a <= T!Upper({a, b}) /\ b <= T!Upper({a, b})
<1>1. CASE a <= b
  <2>1. T!Lower({a, b}) = a /\ T!Upper({a, b}) = b
    BY <1>1, LowerIs, UpperIs
  <2>2. QED
    BY <1>1, <2>1
<1>2. CASE ~(a <= b)
  <2>1. T!Lower({a, b}) = b /\ T!Upper({a, b}) = a
    BY <1>2, LowerIs, UpperIs
  <2>2. QED
    BY <1>2, <2>1
<1>3. QED
  BY <1>1, <1>2

LEMMA LowerOfAll ==
  ASSUME NEW n \in Nat \ {0}, NEW key \in [1 .. n -> Int], NEW Lows,
         Lows = {key[i] : i \in 1 .. n}
  PROVE  /\ T!Lower(Lows) \in Int /\ T!Upper(Lows) \in Int
         /\ \A i \in 1 .. n : T!Lower(Lows) <= key[i] /\ key[i] <= T!Upper(Lows)
<1>1. Lows \in SUBSET Int
  OBVIOUS
<1>2. PICK i \in 1 .. n : \A j \in 1 .. n : key[i] <= key[j]
  BY LeastKey
<1>3. T!Lower(Lows) = key[i]
  BY <1>1, <1>2, LowerIs
<1>4. PICK neg : neg = [j \in 1 .. n |-> 0 - key[j]]
  OBVIOUS
<1>5. neg \in [1 .. n -> Int]
  BY <1>4
<1>6. PICK k \in 1 .. n : \A j \in 1 .. n : neg[k] <= neg[j]
  BY <1>5, LeastKey
<1>7. \A j \in 1 .. n : key[j] <= key[k]
  BY <1>4, <1>6
<1>8. T!Upper(Lows) = key[k]
  BY <1>1, <1>7, UpperIs
<1>9. QED
  BY <1>2, <1>3, <1>7, <1>8

\* The next bit of two numbers settles their order when the rest are equal.
InOrder(u, v, s, t) ==
  /\ s \in Nat /\ t \in Nat
  /\ u < v => s < t
  /\ u = v => s = t

LEMMA ApartOrder ==
  ASSUME NEW u \in Nat, NEW v \in Nat, NEW uu, NEW vv, uu = u \div 2, vv = v \div 2,
         NEW s, NEW t, InOrder(uu, vv, s, t)
  PROVE  InOrder(u, v, T!Apart(u, s), T!Apart(v, t))
BY DEF T!Apart, InOrder

LEMMA HalvesOf ==
  ASSUME NEW v \in Nat
  PROVE  /\ v \div 2 \in Nat /\ v \div 4 \in Nat /\ v \div 8 \in Nat /\ v \div 16 \in Nat
         /\ v \div 32 \in Nat /\ v \div 64 \in Nat /\ v \div 128 \in Nat
         /\ v \div 256 \in Nat /\ v \div 512 \in Nat
         /\ (v \div 2) \div 2 = v \div 4 /\ (v \div 4) \div 2 = v \div 8
         /\ (v \div 8) \div 2 = v \div 16 /\ (v \div 16) \div 2 = v \div 32
         /\ (v \div 32) \div 2 = v \div 64 /\ (v \div 64) \div 2 = v \div 128
         /\ (v \div 128) \div 2 = v \div 256 /\ (v \div 256) \div 2 = v \div 512
OBVIOUS

Cells == 0 .. 1023

\* The bits of a cell number keep its order when they are spread.
LEMMA SpreadOrder ==
  ASSUME NEW u \in Cells, NEW v \in Cells
  PROVE  T!Spread(u) \in Nat /\ (u <= v => T!Spread(u) <= T!Spread(v))
<1> DEFINE R9(w) == T!Apart(w \div 512, 0)
           R8(w) == T!Apart(w \div 256, R9(w))
           R7(w) == T!Apart(w \div 128, R8(w))
           R6(w) == T!Apart(w \div 64, R7(w))
           R5(w) == T!Apart(w \div 32, R6(w))
           R4(w) == T!Apart(w \div 16, R5(w))
           R3(w) == T!Apart(w \div 8, R4(w))
           R2(w) == T!Apart(w \div 4, R3(w))
           R1(w) == T!Apart(w \div 2, R2(w))
<1>1. u \in Nat /\ v \in Nat
  BY DEF Cells
<1>2. InOrder(u \div 512, v \div 512, R9(u), R9(v))
  <2>1. \A w \in Cells : (w \div 512) \div 2 = 0
    BY SMTT(30) DEF Cells
  <2>2. InOrder(0, 0, 0, 0)
    BY DEF InOrder
  <2>3. QED
    BY <1>1, <2>1, <2>2, HalvesOf, ApartOrder
<1>3. InOrder(u \div 256, v \div 256, R8(u), R8(v))
  <2> HIDE DEF R9
  <2>1. /\ u \div 256 \in Nat /\ v \div 256 \in Nat
        /\ u \div 512 = (u \div 256) \div 2 /\ v \div 512 = (v \div 256) \div 2
    BY <1>1, HalvesOf
  <2>2. QED
    BY <1>2, <2>1, ApartOrder
<1>4. InOrder(u \div 128, v \div 128, R7(u), R7(v))
  <2> HIDE DEF R8
  <2>1. /\ u \div 128 \in Nat /\ v \div 128 \in Nat
        /\ u \div 256 = (u \div 128) \div 2 /\ v \div 256 = (v \div 128) \div 2
    BY <1>1, HalvesOf
  <2>2. QED
    BY <1>3, <2>1, ApartOrder
<1>5. InOrder(u \div 64, v \div 64, R6(u), R6(v))
  <2> HIDE DEF R7
  <2>1. /\ u \div 64 \in Nat /\ v \div 64 \in Nat
        /\ u \div 128 = (u \div 64) \div 2 /\ v \div 128 = (v \div 64) \div 2
    BY <1>1, HalvesOf
  <2>2. QED
    BY <1>4, <2>1, ApartOrder
<1>6. InOrder(u \div 32, v \div 32, R5(u), R5(v))
  <2> HIDE DEF R6
  <2>1. /\ u \div 32 \in Nat /\ v \div 32 \in Nat
        /\ u \div 64 = (u \div 32) \div 2 /\ v \div 64 = (v \div 32) \div 2
    BY <1>1, HalvesOf
  <2>2. QED
    BY <1>5, <2>1, ApartOrder
<1>7. InOrder(u \div 16, v \div 16, R4(u), R4(v))
  <2> HIDE DEF R5
  <2>1. /\ u \div 16 \in Nat /\ v \div 16 \in Nat
        /\ u \div 32 = (u \div 16) \div 2 /\ v \div 32 = (v \div 16) \div 2
    BY <1>1, HalvesOf
  <2>2. QED
    BY <1>6, <2>1, ApartOrder
<1>8. InOrder(u \div 8, v \div 8, R3(u), R3(v))
  <2> HIDE DEF R4
  <2>1. /\ u \div 8 \in Nat /\ v \div 8 \in Nat
        /\ u \div 16 = (u \div 8) \div 2 /\ v \div 16 = (v \div 8) \div 2
    BY <1>1, HalvesOf
  <2>2. QED
    BY <1>7, <2>1, ApartOrder
<1>9. InOrder(u \div 4, v \div 4, R2(u), R2(v))
  <2> HIDE DEF R3
  <2>1. /\ u \div 4 \in Nat /\ v \div 4 \in Nat
        /\ u \div 8 = (u \div 4) \div 2 /\ v \div 8 = (v \div 4) \div 2
    BY <1>1, HalvesOf
  <2>2. QED
    BY <1>8, <2>1, ApartOrder
<1>10. InOrder(u \div 2, v \div 2, R1(u), R1(v))
  <2> HIDE DEF R2
  <2>1. /\ u \div 2 \in Nat /\ v \div 2 \in Nat
        /\ u \div 4 = (u \div 2) \div 2 /\ v \div 4 = (v \div 2) \div 2
    BY <1>1, HalvesOf
  <2>2. QED
    BY <1>9, <2>1, ApartOrder
<1>11. T!Spread(u) = T!Apart(u, R1(u)) /\ T!Spread(v) = T!Apart(v, R1(v))
  BY DEF T!Spread
<1> HIDE DEF R1
<1>12. InOrder(u, v, T!Spread(u), T!Spread(v))
  BY <1>1, <1>10, <1>11, ApartOrder
<1>13. QED
  BY <1>1, <1>12 DEF InOrder

\* A quotient keeps the order of its numerators.
LEMMA QuotientOrder ==
  ASSUME NEW x \in Nat, NEW y \in Nat, NEW e \in Nat \ {0}, NEW g \in Nat,
         x <= y, y <= e * g
  PROVE  x \div e \in 0 .. g /\ y \div e \in 0 .. g /\ x \div e <= y \div e
<1>1. PICK q \in Nat, c \in 0 .. e - 1 : q = x \div e /\ x = (e * q) + c
  BY DivMod
<1>2. PICK r \in Nat, d \in 0 .. e - 1 : r = y \div e /\ y = (e * r) + d
  BY DivMod
<1>3. ~(r < q)
  <2>1. SUFFICES ASSUME r < q PROVE FALSE
    OBVIOUS
  <2>2. (e * r) + e <= e * q
    BY <2>1, MulMono
  <2>3. e * r \in Int /\ e * q \in Int
    OBVIOUS
  <2>4. QED
    BY <1>1, <1>2, <2>2, <2>3
<1>4. ~(g < r)
  <2>1. SUFFICES ASSUME g < r PROVE FALSE
    OBVIOUS
  <2>2. (e * g) + e <= e * r
    BY <2>1, MulMono
  <2>3. e * r \in Int /\ e * g \in Int
    OBVIOUS
  <2>4. QED
    BY <1>2, <2>2, <2>3
<1>5. QED
  BY <1>1, <1>2, <1>3, <1>4

LEMMA CellOrder ==
  ASSUME NEW p, NEW q, NEW box, NEW d, p[d] \in Int, q[d] \in Int,
         box.min[d] \in Int, box.max[d] \in Int,
         box.min[d] <= p[d], p[d] <= q[d], q[d] <= box.max[d]
  PROVE  T!Cell(p, box, d) \in Cells /\ T!Cell(q, box, d) \in Cells
         /\ T!Cell(p, box, d) <= T!Cell(q, box, d)
<1>1. PICK lo \in Int, hi \in Int, a \in Int, b \in Int :
        lo = box.min[d] /\ hi = box.max[d] /\ a = p[d] /\ b = q[d]
  OBVIOUS
<1>2. lo <= a /\ a <= b /\ b <= hi
  BY <1>1
<1>3. PICK e \in Nat, x \in Nat, y \in Nat :
        e = hi - lo /\ x = (a - lo) * 1023 /\ y = (b - lo) * 1023
  BY <1>2
<1>4. x <= y /\ y <= e * 1023
  BY <1>2, <1>3
<1>5. /\ T!Cell(p, box, d) = IF e > 0 THEN x \div e ELSE 0
      /\ T!Cell(q, box, d) = IF e > 0 THEN y \div e ELSE 0
  BY <1>1, <1>3 DEF T!Cell
<1>6. CASE e > 0
  <2>1. e \in Nat \ {0} /\ y <= e * 1023 /\ 1023 \in Nat
    BY <1>3, <1>4, <1>6
  <2>2. x \div e \in 0 .. 1023 /\ y \div e \in 0 .. 1023 /\ x \div e <= y \div e
    BY <1>4, <2>1, QuotientOrder
  <2>3. x \div e \in Cells /\ y \div e \in Cells /\ x \div e <= y \div e
    BY <2>2 DEF Cells
  <2>4. QED
    BY <1>5, <1>6, <2>3
<1>7. CASE ~(e > 0)
  BY <1>5, <1>7 DEF Cells
<1>8. QED
  BY <1>6, <1>7

LEMMA MortonOrder ==
  ASSUME NEW n \in Nat \ {0}, NEW ps \in [1 .. n -> [T!Coords -> Int]],
         NEW i \in 1 .. n, NEW j \in 1 .. n, \A d \in T!Coords : ps[i][d] <= ps[j][d]
  PROVE  /\ T!Morton(ps[i], T!BoxOfPoints(ps)) \in Nat
         /\ T!Morton(ps[i], T!BoxOfPoints(ps)) <= T!Morton(ps[j], T!BoxOfPoints(ps))
<1>1. PICK box : box = T!BoxOfPoints(ps)
  OBVIOUS
<1>2. ASSUME NEW d \in T!Coords
      PROVE  /\ T!Cell(ps[i], box, d) \in Cells /\ T!Cell(ps[j], box, d) \in Cells
             /\ T!Cell(ps[i], box, d) <= T!Cell(ps[j], box, d)
  <2>1. PICK key : key = [k \in 1 .. n |-> ps[k][d]]
    OBVIOUS
  <2>2. key \in [1 .. n -> Int] /\ \A k \in 1 .. n : key[k] = ps[k][d]
    BY <2>1
  <2>3. DOMAIN ps = 1 .. n
    OBVIOUS
  <2>4. {ps[k][d] : k \in DOMAIN ps} = {key[k] : k \in 1 .. n}
    BY <2>2, <2>3
  <2>5. PICK Lows : Lows = {ps[k][d] : k \in DOMAIN ps}
    OBVIOUS
  <2>6. box.min[d] = T!Lower(Lows) /\ box.max[d] = T!Upper(Lows)
    BY <1>1, <2>5 DEF T!BoxOfPoints
  <2>7. /\ box.min[d] \in Int /\ box.max[d] \in Int
        /\ \A k \in 1 .. n : box.min[d] <= key[k] /\ key[k] <= box.max[d]
    <3>1. Lows = {key[k] : k \in 1 .. n}
      BY <2>4, <2>5
    <3>2. /\ T!Lower(Lows) \in Int /\ T!Upper(Lows) \in Int
          /\ \A k \in 1 .. n : T!Lower(Lows) <= key[k] /\ key[k] <= T!Upper(Lows)
      BY <2>2, <3>1, LowerOfAll
    <3>3. QED
      BY <2>6, <3>2, Zenon
  <2>8. ps[i][d] \in Int /\ ps[j][d] \in Int /\ ps[i][d] <= ps[j][d]
        /\ box.min[d] <= ps[i][d] /\ ps[j][d] <= box.max[d]
    BY <2>2, <2>7
  <2>9. QED
    BY <2>7, <2>8, CellOrder
<1>3. ASSUME NEW d \in T!Coords
      PROVE  /\ T!Spread(T!Cell(ps[i], box, d)) \in Nat /\ T!Spread(T!Cell(ps[j], box, d)) \in Nat
             /\ T!Spread(T!Cell(ps[i], box, d)) <= T!Spread(T!Cell(ps[j], box, d))
  <2>1. PICK a, b : a = T!Cell(ps[i], box, d) /\ b = T!Cell(ps[j], box, d)
    OBVIOUS
  <2>2. a \in Cells /\ b \in Cells /\ a <= b
    BY <1>2, <2>1, Zenon
  <2>3. T!Spread(a) \in Nat /\ T!Spread(b) \in Nat /\ T!Spread(a) <= T!Spread(b)
    BY <2>2, SpreadOrder, Zenon
  <2>4. QED
    BY <2>1, <2>3, Zenon
<1>4. PICK x, y, z, X, Y, Z :
        /\ x = T!Spread(T!Cell(ps[i], box, "x")) /\ X = T!Spread(T!Cell(ps[j], box, "x"))
        /\ y = T!Spread(T!Cell(ps[i], box, "y")) /\ Y = T!Spread(T!Cell(ps[j], box, "y"))
        /\ z = T!Spread(T!Cell(ps[i], box, "z")) /\ Z = T!Spread(T!Cell(ps[j], box, "z"))
  OBVIOUS
<1>5. /\ x \in Nat /\ X \in Nat /\ x <= X /\ y \in Nat /\ Y \in Nat /\ y <= Y
      /\ z \in Nat /\ Z \in Nat /\ z <= Z
  BY <1>3, <1>4, Zenon DEF T!Coords
<1>6. /\ T!Morton(ps[i], box) = x + 2 * y + 4 * z
      /\ T!Morton(ps[j], box) = X + 2 * Y + 4 * Z
  BY <1>4 DEF T!Morton
<1>7. QED
  BY <1>1, <1>5, <1>6

-----------------------------------------------------------------------------
(* The tree of boxes: growing by one node *)

Boxes == [min : [T!Coords -> Int], max : [T!Coords -> Int]]
TreeNodes == [left : Nat, right : Nat, parent : Nat, box : Boxes]

\* The first n nodes are leaves, the others come after their children.
Shaped(nd, n) ==
  /\ nd \in Seq(TreeNodes) /\ n \in Nat /\ n <= Len(nd)
  /\ \A i \in 1 .. Len(nd) :
       IF i <= n THEN nd[i].left = 0 ELSE nd[i].left \in 1 .. i - 1 /\ nd[i].right \in 0 .. i - 1

\* The equation of Under.
Below(u, nd) ==
  u = [i \in 1 .. Len(nd) |->
         IF nd[i].left = 0 THEN {i}
         ELSE u[nd[i].left] \union (IF nd[i].right = 0 THEN {} ELSE u[nd[i].right])]

Closest(u, nd, i) ==
  \A d \in T!Coords :
    /\ \A k \in u[i] : /\ nd[i].box.min[d] <= nd[k].box.min[d]
                       /\ nd[k].box.max[d] <= nd[i].box.max[d]
    /\ \E k \in u[i] : nd[i].box.min[d] = nd[k].box.min[d]
    /\ \E k \in u[i] : nd[i].box.max[d] = nd[k].box.max[d]
Encloses(u, nd, n) == \A i \in 1 .. Len(nd) : u[i] \subseteq 1 .. n /\ Closest(u, nd, i)
AllUnder(u, n, roots) == \A k \in 1 .. n : \E r \in roots : k \in u[r]
Family(nd, roots) ==
  \A i \in 1 .. Len(nd) :
    \/ i \in roots
    \/ /\ nd[i].parent \in 1 .. Len(nd)
       /\ i \in {nd[nd[i].parent].left, nd[nd[i].parent].right}
Tree(nd, n, roots) ==
  /\ Shaped(nd, n)
  /\ Family(nd, roots)
  /\ \E u : Below(u, nd)
  /\ \A u : Below(u, nd) => Encloses(u, nd, n) /\ AllUnder(u, n, roots)

LEMMA NodeFacts ==
  ASSUME NEW nd \in Seq(TreeNodes)
  PROVE  /\ Len(nd) \in Nat /\ DOMAIN nd = 1 .. Len(nd)
         /\ \A i \in 1 .. Len(nd) :
              /\ nd[i] \in TreeNodes
              /\ nd[i].left \in Nat /\ nd[i].right \in Nat /\ nd[i].parent \in Nat
              /\ nd[i].box \in Boxes
              /\ \A d \in T!Coords : nd[i].box.min[d] \in Int /\ nd[i].box.max[d] \in Int
<1>1. Len(nd) \in Nat /\ DOMAIN nd = 1 .. Len(nd)
  BY LenProperties
<1>2. ASSUME NEW i \in 1 .. Len(nd)
      PROVE  /\ nd[i] \in TreeNodes
             /\ nd[i].left \in Nat /\ nd[i].right \in Nat /\ nd[i].parent \in Nat
             /\ nd[i].box \in Boxes
             /\ \A d \in T!Coords : nd[i].box.min[d] \in Int /\ nd[i].box.max[d] \in Int
  <2>1. nd[i] \in TreeNodes
    BY ElementOfSeq
  <2>2. nd[i].left \in Nat /\ nd[i].right \in Nat /\ nd[i].parent \in Nat /\ nd[i].box \in Boxes
    BY <2>1 DEF TreeNodes
  <2>3. nd[i].box.min \in [T!Coords -> Int] /\ nd[i].box.max \in [T!Coords -> Int]
    BY <2>2 DEF Boxes
  <2>4. QED
    BY <2>1, <2>2, <2>3
<1>3. QED
  BY <1>1, <1>2

LEMMA UnionBox ==
  ASSUME NEW a \in Boxes, NEW b \in Boxes
  PROVE  /\ T!Union(a, b) \in Boxes
         /\ \A d \in T!Coords :
              /\ T!Union(a, b).min[d] \in {a.min[d], b.min[d]}
              /\ T!Union(a, b).min[d] <= a.min[d] /\ T!Union(a, b).min[d] <= b.min[d]
              /\ T!Union(a, b).max[d] \in {a.max[d], b.max[d]}
              /\ a.max[d] <= T!Union(a, b).max[d] /\ b.max[d] <= T!Union(a, b).max[d]
<1>1. /\ a.min \in [T!Coords -> Int] /\ a.max \in [T!Coords -> Int]
      /\ b.min \in [T!Coords -> Int] /\ b.max \in [T!Coords -> Int]
  BY DEF Boxes
<1>2. PICK c : c = T!Union(a, b)
  OBVIOUS
<1>3. /\ c = [min |-> c.min, max |-> c.max]
      /\ c.min = [d \in T!Coords |-> T!Lower({a.min[d], b.min[d]})]
      /\ c.max = [d \in T!Coords |-> T!Upper({a.max[d], b.max[d]})]
  BY <1>2 DEF T!Union
<1>4. ASSUME NEW d \in T!Coords
      PROVE  /\ c.min[d] \in Int /\ c.max[d] \in Int
             /\ c.min[d] \in {a.min[d], b.min[d]}
             /\ c.min[d] <= a.min[d] /\ c.min[d] <= b.min[d]
             /\ c.max[d] \in {a.max[d], b.max[d]}
             /\ a.max[d] <= c.max[d] /\ b.max[d] <= c.max[d]
  <2>1. a.min[d] \in Int /\ b.min[d] \in Int /\ a.max[d] \in Int /\ b.max[d] \in Int
    BY <1>1
  <2>2. c.min[d] = T!Lower({a.min[d], b.min[d]}) /\ c.max[d] = T!Upper({a.max[d], b.max[d]})
    BY <1>3
  <2>3. /\ c.min[d] \in {a.min[d], b.min[d]}
        /\ c.min[d] <= a.min[d] /\ c.min[d] <= b.min[d]
    BY <2>1, <2>2, LowerOfTwo, Zenon
  <2>4. /\ c.max[d] \in {a.max[d], b.max[d]}
        /\ a.max[d] <= c.max[d] /\ b.max[d] <= c.max[d]
    BY <2>1, <2>2, LowerOfTwo, Zenon
  <2>5. QED
    BY <2>1, <2>3, <2>4
<1>5. c \in Boxes
  <2>1. c.min \in [T!Coords -> Int] /\ c.max \in [T!Coords -> Int]
    BY <1>3, <1>4
  <2>2. QED
    BY <1>3, <2>1 DEF Boxes
<1>6. QED
  BY <1>2, <1>4, <1>5

\* What a join makes of the nodes.
Parented(nd, l, r) ==
  [i \in 1 .. Len(nd) |->
     IF i \in {l, r} THEN [nd[i] EXCEPT !.parent = Len(nd) + 1] ELSE nd[i]]
BoxOver(nd, l, r) == IF r = 0 THEN nd[l].box ELSE T!Union(nd[l].box, nd[r].box)
Grown(nd, md, l, r) ==
  /\ md \in Seq(TreeNodes) /\ Len(md) = Len(nd) + 1
  /\ \A i \in 1 .. Len(nd) :
       /\ md[i].left = nd[i].left /\ md[i].right = nd[i].right /\ md[i].box = nd[i].box
       /\ i \in {l, r} => md[i].parent = Len(nd) + 1
       /\ i \notin {l, r} => md[i].parent = nd[i].parent
  /\ md[Len(nd) + 1].left = l /\ md[Len(nd) + 1].right = r
  /\ md[Len(nd) + 1].box = BoxOver(nd, l, r)

LEMMA JoinGrows ==
  ASSUME NEW nd \in Seq(TreeNodes), NEW l \in 1 .. Len(nd), NEW r \in 0 .. Len(nd), NEW md,
         md = Append(Parented(nd, l, r), [left |-> l, right |-> r, parent |-> 0,
                                          box |-> BoxOver(nd, l, r)])
  PROVE  Parented(nd, l, r) \in Seq(TreeNodes) /\ Len(Parented(nd, l, r)) = Len(nd)
         /\ Grown(nd, md, l, r)
<1>1. PICK m, p, e :
        /\ m = Len(nd) /\ p = Parented(nd, l, r)
        /\ e = [left |-> l, right |-> r, parent |-> 0, box |-> BoxOver(nd, l, r)]
  OBVIOUS
<1>2. m \in Nat /\ l \in 1 .. m /\ r \in 0 .. m
  BY <1>1, NodeFacts
<1>3. p = [i \in 1 .. m |-> IF i \in {l, r} THEN [nd[i] EXCEPT !.parent = m + 1] ELSE nd[i]]
  BY <1>1 DEF Parented
<1>4. ASSUME NEW i \in 1 .. m
      PROVE  /\ p[i] \in TreeNodes
             /\ p[i].left = nd[i].left /\ p[i].right = nd[i].right /\ p[i].box = nd[i].box
             /\ i \in {l, r} => p[i].parent = m + 1
             /\ i \notin {l, r} => p[i].parent = nd[i].parent
  <2>1. nd[i] \in TreeNodes
    BY <1>1, NodeFacts
  <2>2. CASE i \in {l, r}
    <3>1. p[i] = [nd[i] EXCEPT !.parent = m + 1]
      BY <1>3, <2>2
    <3>2. p[i] \in TreeNodes /\ p[i].left = nd[i].left /\ p[i].right = nd[i].right
          /\ p[i].box = nd[i].box /\ p[i].parent = m + 1
      <4>1. /\ nd[i] = [left |-> nd[i].left, right |-> nd[i].right, parent |-> nd[i].parent,
                        box |-> nd[i].box]
            /\ nd[i].left \in Nat /\ nd[i].right \in Nat /\ nd[i].box \in Boxes
        BY <2>1 DEF TreeNodes
      <4>2. p[i] = [left |-> nd[i].left, right |-> nd[i].right, parent |-> m + 1,
                    box |-> nd[i].box]
        BY <3>1, <4>1
      <4>3. QED
        BY <1>2, <4>1, <4>2 DEF TreeNodes
    <3>3. QED
      BY <2>2, <3>2
  <2>3. CASE i \notin {l, r}
    BY <1>3, <2>1, <2>3
  <2>4. QED
    BY <2>2, <2>3
<1>5. p \in Seq(TreeNodes) /\ Len(p) = m
  <2>1. p \in [1 .. m -> TreeNodes]
    BY <1>3, <1>4
  <2>2. QED
    BY <1>2, <2>1, SeqDef, LenProperties
<1>6. BoxOver(nd, l, r) \in Boxes
  <2>1. nd[l].box \in Boxes
    BY <1>1, <1>2, NodeFacts
  <2>2. CASE r = 0
    BY <2>1, <2>2 DEF BoxOver
  <2>3. CASE r # 0
    <3>1. nd[r].box \in Boxes
      BY <1>1, <1>2, <2>3, NodeFacts
    <3>2. QED
      BY <2>1, <2>3, <3>1, UnionBox DEF BoxOver
  <2>4. QED
    BY <2>2, <2>3
<1>7. e \in TreeNodes
  BY <1>1, <1>2, <1>6 DEF TreeNodes
<1>8. md = Append(p, e)
  BY <1>1
<1>9. /\ md \in Seq(TreeNodes) /\ Len(md) = m + 1 /\ md[m + 1] = e
      /\ \A i \in 1 .. m : md[i] = p[i]
  <2>1. /\ Append(p, e) \in Seq(TreeNodes) /\ Len(Append(p, e)) = Len(p) + 1
        /\ Append(p, e)[Len(p) + 1] = e
        /\ \A i \in 1 .. Len(p) : Append(p, e)[i] = p[i]
    BY <1>5, <1>7, AppendProperties
  <2>2. QED
    BY <1>5, <1>8, <2>1, Zenon
<1>10. /\ md[m + 1].left = l /\ md[m + 1].right = r /\ md[m + 1].box = BoxOver(nd, l, r)
  BY <1>1, <1>9
<1>11. QED
  BY <1>1, <1>4, <1>5, <1>9, <1>10 DEF Grown

LEMMA GrownShaped ==
  ASSUME NEW nd, NEW n, Shaped(nd, n), NEW l \in 1 .. Len(nd), NEW r \in 0 .. Len(nd),
         NEW md, Grown(nd, md, l, r)
  PROVE  Shaped(md, n)
<1>1. PICK m : m = Len(nd)
  OBVIOUS
<1>2. m \in Nat /\ n \in Nat /\ n <= m /\ l \in 1 .. m /\ r \in 0 .. m
      /\ md \in Seq(TreeNodes) /\ Len(md) = m + 1
  BY <1>1, NodeFacts DEF Shaped, Grown
<1>3. ASSUME NEW i \in 1 .. m + 1
      PROVE  IF i <= n THEN md[i].left = 0
             ELSE md[i].left \in 1 .. i - 1 /\ md[i].right \in 0 .. i - 1
  <2>1. CASE i \in 1 .. m
    BY <1>1, <2>1 DEF Shaped, Grown
  <2>2. CASE i = m + 1
    <3>1. md[i].left = l /\ md[i].right = r
      BY <1>1, <2>2 DEF Grown
    <3>2. QED
      BY <1>2, <2>2, <3>1
  <2>3. QED
    BY <1>2, <2>1, <2>2
<1>4. \A i \in 1 .. Len(md) :
        IF i <= n THEN md[i].left = 0 ELSE md[i].left \in 1 .. i - 1 /\ md[i].right \in 0 .. i - 1
  BY <1>2, <1>3
<1>5. n <= Len(md)
  BY <1>2
<1>6. QED
  BY <1>2, <1>4, <1>5, Zenon DEF Shaped

LEMMA GrownFamily ==
  ASSUME NEW nd \in Seq(TreeNodes), NEW roots, Family(nd, roots),
         NEW l \in 1 .. Len(nd), NEW r \in 0 .. Len(nd), NEW md, Grown(nd, md, l, r),
         l \in roots, r = 0 \/ r \in roots,
         NEW rest, Len(nd) + 1 \in rest, \A i \in roots : i \in {l, r} \/ i \in rest
  PROVE  Family(md, rest)
<1>1. PICK m : m = Len(nd)
  OBVIOUS
<1>2. m \in Nat /\ l \in 1 .. m /\ r \in 0 .. m /\ Len(md) = m + 1 /\ m + 1 \in rest
  BY <1>1, NodeFacts DEF Grown
<1>3. ASSUME NEW i \in 1 .. m + 1, i \notin rest
      PROVE  /\ md[i].parent \in 1 .. m + 1
             /\ i \in {md[md[i].parent].left, md[md[i].parent].right}
  <2>1. i \in 1 .. m
    BY <1>2, <1>3
  <2>2. CASE i \in {l, r}
    <3>1. md[i].parent = m + 1 /\ md[m + 1].left = l /\ md[m + 1].right = r
      BY <1>1, <2>1, <2>2 DEF Grown
    <3>2. QED
      BY <1>2, <2>2, <3>1
  <2>3. CASE i \notin {l, r}
    <3>1. i \notin roots
      BY <1>3, <2>3
    <3>2. PICK p : p = nd[i].parent
      OBVIOUS
    <3>3. p \in 1 .. m /\ i \in {nd[p].left, nd[p].right}
      BY <1>1, <2>1, <3>1, <3>2 DEF Family
    <3>4. md[i].parent = p
      BY <1>1, <2>1, <2>3, <3>2 DEF Grown
    <3>5. md[p].left = nd[p].left /\ md[p].right = nd[p].right
      BY <1>1, <3>3 DEF Grown
    <3>6. QED
      BY <1>2, <3>3, <3>4, <3>5
  <2>4. QED
    BY <2>2, <2>3
<1>4. QED
  BY <1>2, <1>3 DEF Family

\* The leaves below the nodes there were stay those they had.
LEMMA GrownBelow ==
  ASSUME NEW nd, NEW n, Shaped(nd, n), NEW l \in 1 .. Len(nd), NEW r \in 0 .. Len(nd),
         NEW md, Grown(nd, md, l, r)
  PROVE  /\ (\E u : Below(u, nd)) => \E v : Below(v, md)
         /\ \A v : Below(v, md) =>
              \E u : /\ Below(u, nd)
                     /\ \A i \in 1 .. Len(nd) : v[i] = u[i]
                     /\ v[Len(nd) + 1] = u[l] \union (IF r = 0 THEN {} ELSE u[r])
<1>1. PICK m : m = Len(nd)
  OBVIOUS
<1>2. m \in Nat /\ l \in 1 .. m /\ r \in 0 .. m /\ Len(md) = m + 1
  BY <1>1, NodeFacts DEF Shaped, Grown
<1>3. \A i \in 1 .. m : md[i].left = nd[i].left /\ md[i].right = nd[i].right
  BY <1>1 DEF Grown
<1>4. md[m + 1].left = l /\ md[m + 1].right = r
  BY <1>1 DEF Grown
<1>5. \A i \in 1 .. m : nd[i].left # 0 =>
        nd[i].left \in 1 .. m /\ (nd[i].right # 0 => nd[i].right \in 1 .. m)
  BY <1>1, <1>2 DEF Shaped
<1>6. ASSUME NEW u, Below(u, nd) PROVE \E v : Below(v, md)
  <2>1. PICK v : v = [i \in 1 .. m + 1 |-> IF i = m + 1
                                           THEN u[l] \union (IF r = 0 THEN {} ELSE u[r])
                                           ELSE u[i]]
    OBVIOUS
  <2>2. \A i \in 1 .. m : v[i] = u[i]
    BY <1>2, <2>1
  <2>3. ASSUME NEW i \in 1 .. m + 1
        PROVE  v[i] = IF md[i].left = 0 THEN {i}
                      ELSE v[md[i].left] \union (IF md[i].right = 0 THEN {} ELSE v[md[i].right])
    <3>1. CASE i \in 1 .. m
      <4>1. u[i] = IF nd[i].left = 0 THEN {i}
                   ELSE u[nd[i].left] \union (IF nd[i].right = 0 THEN {} ELSE u[nd[i].right])
        BY <1>1, <1>6, <3>1 DEF Below
      <4>2. QED
        BY <1>3, <1>5, <2>2, <3>1, <4>1
    <3>2. CASE i = m + 1
      <4>1. v[i] = u[l] \union (IF r = 0 THEN {} ELSE u[r])
        BY <1>2, <2>1, <3>2
      <4>2. v[l] = u[l] /\ (r # 0 => v[r] = u[r])
        BY <1>2, <2>2
      <4>3. QED
        BY <1>2, <1>4, <3>2, <4>1, <4>2
    <3>3. QED
      BY <1>2, <3>1, <3>2
  <2>4. v = [i \in 1 .. m + 1 |-> v[i]]
    BY <2>1
  <2>5. v = [i \in 1 .. Len(md) |->
               IF md[i].left = 0 THEN {i}
               ELSE v[md[i].left] \union (IF md[i].right = 0 THEN {} ELSE v[md[i].right])]
    BY <1>2, <2>3, <2>4
  <2>6. QED
    BY <2>5 DEF Below
<1>7. ASSUME NEW v, Below(v, md)
      PROVE  \E u : /\ Below(u, nd)
                    /\ \A i \in 1 .. m : v[i] = u[i]
                    /\ v[m + 1] = u[l] \union (IF r = 0 THEN {} ELSE u[r])
  <2>1. \A i \in 1 .. m + 1 :
          v[i] = IF md[i].left = 0 THEN {i}
                 ELSE v[md[i].left] \union (IF md[i].right = 0 THEN {} ELSE v[md[i].right])
    BY <1>2, <1>7 DEF Below
  <2>2. PICK u : u = [i \in 1 .. m |-> v[i]]
    OBVIOUS
  <2>3. \A i \in 1 .. m : v[i] = u[i]
    BY <2>2
  <2>4. ASSUME NEW i \in 1 .. m
        PROVE  u[i] = IF nd[i].left = 0 THEN {i}
                      ELSE u[nd[i].left] \union (IF nd[i].right = 0 THEN {} ELSE u[nd[i].right])
    <3>1. v[i] = IF md[i].left = 0 THEN {i}
                 ELSE v[md[i].left] \union (IF md[i].right = 0 THEN {} ELSE v[md[i].right])
      <4>1. i \in 1 .. m + 1
        BY <1>2
      <4>2. QED
        BY <2>1, <4>1, Zenon
    <3>2. QED
      BY <1>3, <1>5, <2>3, <3>1
  <2>5. u = [i \in 1 .. Len(nd) |->
               IF nd[i].left = 0 THEN {i}
               ELSE u[nd[i].left] \union (IF nd[i].right = 0 THEN {} ELSE u[nd[i].right])]
    BY <1>1, <2>2, <2>4
  <2>6. v[m + 1] = u[l] \union (IF r = 0 THEN {} ELSE u[r])
    <3>1. v[m + 1] = v[l] \union (IF r = 0 THEN {} ELSE v[r])
      <4>1. m + 1 \in 1 .. m + 1 /\ l # 0
        BY <1>2
      <4>2. v[m + 1] = IF md[m + 1].left = 0 THEN {m + 1}
                       ELSE v[md[m + 1].left]
                            \union (IF md[m + 1].right = 0 THEN {} ELSE v[md[m + 1].right])
        BY <2>1, <4>1, Zenon
      <4>3. QED
        BY <1>4, <4>1, <4>2
    <3>2. v[l] = u[l] /\ (r # 0 => v[r] = u[r])
      BY <1>2, <2>3
    <3>3. QED
      BY <3>1, <3>2
  <2>7. Below(u, nd)
    BY <2>5 DEF Below
  <2>8. QED
    BY <2>3, <2>6, <2>7
<1>8. QED
  BY <1>1, <1>6, <1>7

\* The box over two nodes is the closest one around the leaves below both.
LEMMA GrownEncloses ==
  ASSUME NEW nd, NEW n, Shaped(nd, n), NEW l \in 1 .. Len(nd), NEW r \in 0 .. Len(nd),
         NEW md, Grown(nd, md, l, r), NEW u, Encloses(u, nd, n), NEW v,
         \A i \in 1 .. Len(nd) : v[i] = u[i],
         v[Len(nd) + 1] = u[l] \union (IF r = 0 THEN {} ELSE u[r])
  PROVE  Encloses(v, md, n)
<1>1. PICK m : m = Len(nd)
  OBVIOUS
<1>2. /\ nd \in Seq(TreeNodes) /\ m \in Nat /\ n \in Nat /\ n <= m
      /\ l \in 1 .. m /\ r \in 0 .. m /\ Len(md) = m + 1
  BY <1>1, NodeFacts DEF Shaped, Grown
<1>3. \A i \in 1 .. m : md[i].box = nd[i].box
  BY <1>1 DEF Grown
<1>4. \A i \in 1 .. m : u[i] \subseteq 1 .. n /\ Closest(u, nd, i)
  BY <1>1 DEF Encloses
<1>5. \A k \in 1 .. n : k \in 1 .. m
  BY <1>2
<1>6. ASSUME NEW i \in 1 .. m PROVE v[i] \subseteq 1 .. n /\ Closest(v, md, i)
  <2>1. v[i] = u[i] /\ u[i] \subseteq 1 .. n /\ Closest(u, nd, i)
    BY <1>1, <1>4
  <2>2. md[i].box = nd[i].box /\ \A k \in u[i] : md[k].box = nd[k].box
    BY <1>3, <1>5, <2>1
  <2>3. QED
    BY <2>1, <2>2 DEF Closest
<1>7. v[m + 1] \subseteq 1 .. n /\ Closest(v, md, m + 1)
  <2>1. /\ u[l] \subseteq 1 .. n /\ Closest(u, nd, l)
        /\ r # 0 => u[r] \subseteq 1 .. n /\ Closest(u, nd, r)
    BY <1>2, <1>4
  <2>2. v[m + 1] = u[l] \union (IF r = 0 THEN {} ELSE u[r])
    BY <1>1
  <2>3. v[m + 1] \subseteq 1 .. n /\ \A k \in v[m + 1] : md[k].box = nd[k].box
    BY <1>3, <1>5, <2>1, <2>2
  <2>4. md[m + 1].box = BoxOver(nd, l, r)
    BY <1>1 DEF Grown
  <2>5. CASE r = 0
    <3>1. md[m + 1].box = nd[l].box /\ v[m + 1] = u[l]
      BY <2>2, <2>4, <2>5 DEF BoxOver
    <3>2. QED
      BY <2>1, <2>3, <3>1 DEF Closest
  <2>6. CASE r # 0
    <3>1. PICK a, b, c : a = nd[l].box /\ b = nd[r].box /\ c = md[m + 1].box
      OBVIOUS
    <3>2. a \in Boxes /\ b \in Boxes /\ c = T!Union(a, b)
      BY <1>1, <1>2, <2>4, <2>6, <3>1, NodeFacts DEF BoxOver
    <3>3. v[m + 1] = u[l] \union u[r]
      BY <2>2, <2>6
    <3>4. ASSUME NEW d \in T!Coords
          PROVE  /\ \A k \in v[m + 1] : /\ c.min[d] <= md[k].box.min[d]
                                        /\ md[k].box.max[d] <= c.max[d]
                 /\ \E k \in v[m + 1] : c.min[d] = md[k].box.min[d]
                 /\ \E k \in v[m + 1] : c.max[d] = md[k].box.max[d]
      <4>1. /\ c.min[d] \in {a.min[d], b.min[d]}
            /\ c.min[d] <= a.min[d] /\ c.min[d] <= b.min[d]
            /\ c.max[d] \in {a.max[d], b.max[d]}
            /\ a.max[d] <= c.max[d] /\ b.max[d] <= c.max[d]
        BY <3>2, UnionBox
      <4>2. /\ \A k \in u[l] : a.min[d] <= nd[k].box.min[d] /\ nd[k].box.max[d] <= a.max[d]
            /\ \E k \in u[l] : a.min[d] = nd[k].box.min[d]
            /\ \E k \in u[l] : a.max[d] = nd[k].box.max[d]
        BY <2>1, <3>1 DEF Closest
      <4>3. /\ \A k \in u[r] : b.min[d] <= nd[k].box.min[d] /\ nd[k].box.max[d] <= b.max[d]
            /\ \E k \in u[r] : b.min[d] = nd[k].box.min[d]
            /\ \E k \in u[r] : b.max[d] = nd[k].box.max[d]
        BY <2>1, <2>6, <3>1 DEF Closest
      <4>4. \A k \in v[m + 1] : md[k].box.min[d] = nd[k].box.min[d]
                                /\ md[k].box.max[d] = nd[k].box.max[d]
        BY <2>3
      <4>5. /\ a.min[d] \in Int /\ a.max[d] \in Int /\ b.min[d] \in Int /\ b.max[d] \in Int
            /\ c.min[d] \in Int /\ c.max[d] \in Int
        BY <3>2, <4>1 DEF Boxes
      <4>6. \A k \in v[m + 1] : nd[k].box.min[d] \in Int /\ nd[k].box.max[d] \in Int
        BY <1>1, <1>2, <1>5, <2>3, NodeFacts
      <4>7. \A k \in v[m + 1] : c.min[d] <= md[k].box.min[d] /\ md[k].box.max[d] <= c.max[d]
        <5>1. SUFFICES ASSUME NEW k \in v[m + 1]
                       PROVE  c.min[d] <= nd[k].box.min[d] /\ nd[k].box.max[d] <= c.max[d]
          BY <4>4
        <5>2. PICK x, y : x = nd[k].box.min[d] /\ y = nd[k].box.max[d]
          OBVIOUS
        <5>3. x \in Int /\ y \in Int
          BY <4>6, <5>2
        <5>4. (a.min[d] <= x /\ y <= a.max[d]) \/ (b.min[d] <= x /\ y <= b.max[d])
          BY <3>3, <4>2, <4>3, <5>2
        <5>5. PICK p, q, s, t, w, z :
                /\ p = a.min[d] /\ q = b.min[d] /\ s = c.min[d]
                /\ t = a.max[d] /\ w = b.max[d] /\ z = c.max[d]
          OBVIOUS
        <5>6. /\ p \in Int /\ q \in Int /\ s \in Int /\ t \in Int /\ w \in Int /\ z \in Int
              /\ s <= p /\ s <= q /\ t <= z /\ w <= z
              /\ (p <= x /\ y <= t) \/ (q <= x /\ y <= w)
          BY <4>1, <4>5, <5>4, <5>5, Zenon
        <5>7. s <= x /\ y <= z
          BY <5>3, <5>6
        <5>8. QED
          BY <5>2, <5>5, <5>7, Zenon
      <4>8. \E k \in v[m + 1] : c.min[d] = md[k].box.min[d]
        BY <3>3, <4>1, <4>2, <4>3, <4>4
      <4>9. \E k \in v[m + 1] : c.max[d] = md[k].box.max[d]
        BY <3>3, <4>1, <4>2, <4>3, <4>4
      <4>10. QED
        BY <4>7, <4>8, <4>9
    <3>5. QED
      BY <2>3, <3>1, <3>4 DEF Closest
  <2>7. QED
    BY <2>5, <2>6
<1>8. \A i \in 1 .. m + 1 : v[i] \subseteq 1 .. n /\ Closest(v, md, i)
  <2>1. \A i \in 1 .. m + 1 : i \in 1 .. m \/ i = m + 1
    BY <1>2
  <2>2. QED
    BY <1>6, <1>7, <2>1
<1>9. QED
  BY <1>2, <1>8 DEF Encloses

LEMMA TreeGrows ==
  ASSUME NEW nd, NEW n, NEW roots, Tree(nd, n, roots),
         NEW l \in 1 .. Len(nd), NEW r \in 0 .. Len(nd), NEW md, Grown(nd, md, l, r),
         l \in roots, r = 0 \/ r \in roots, roots \subseteq 1 .. Len(nd),
         NEW rest, Len(nd) + 1 \in rest, \A i \in roots : i \in {l, r} \/ i \in rest
  PROVE  Tree(md, n, rest)
<1>1. Shaped(nd, n) /\ nd \in Seq(TreeNodes) /\ Family(nd, roots)
  BY DEF Tree, Shaped
<1>2. Shaped(md, n)
  BY <1>1, GrownShaped
<1>3. Family(md, rest)
  BY <1>1, GrownFamily
<1>4. \E v : Below(v, md)
  <2>1. \E u : Below(u, nd)
    BY DEF Tree
  <2>2. QED
    BY <1>1, <2>1, GrownBelow
<1>5. ASSUME NEW v, Below(v, md) PROVE Encloses(v, md, n) /\ AllUnder(v, n, rest)
  <2>1. PICK u : /\ Below(u, nd)
                 /\ \A i \in 1 .. Len(nd) : v[i] = u[i]
                 /\ v[Len(nd) + 1] = u[l] \union (IF r = 0 THEN {} ELSE u[r])
    BY <1>1, <1>5, GrownBelow
  <2>2. Encloses(u, nd, n) /\ AllUnder(u, n, roots)
    BY <2>1 DEF Tree
  <2>3. Encloses(v, md, n)
    BY <1>1, <2>1, <2>2, GrownEncloses
  <2>4. ASSUME NEW k \in 1 .. n PROVE \E q \in rest : k \in v[q]
    <3>1. PICK q \in roots : k \in u[q]
      BY <2>2 DEF AllUnder
    <3>2. CASE q \in {l, r}
      <4>1. q = 0 => q # r \/ r = 0
        OBVIOUS
      <4>2. q \in 1 .. Len(nd)
        BY <3>1
      <4>3. k \in v[Len(nd) + 1]
        BY <2>1, <3>1, <3>2, <4>2
      <4>4. QED
        BY <4>3
    <3>3. CASE q \in rest
      BY <2>1, <3>1, <3>3
    <3>4. QED
      BY <3>1, <3>2, <3>3
  <2>5. QED
    BY <2>3, <2>4 DEF AllUnder
<1>6. QED
  BY <1>2, <1>3, <1>4, <1>5 DEF Tree

\* The leaves alone are a tree of no inner nodes.
LEMMA LeavesAreTree ==
  ASSUME NEW n \in Nat, NEW nd, NEW box, \A k \in 1 .. n : box[k] \in Boxes,
         nd = [k \in 1 .. n |-> [left |-> 0, right |-> 0, parent |-> 0, box |-> box[k]]]
  PROVE  Tree(nd, n, 1 .. n) /\ Len(nd) = n
<1>1. \A k \in 1 .. n : /\ nd[k] \in TreeNodes
                        /\ nd[k].left = 0 /\ nd[k].right = 0 /\ nd[k].box = box[k]
  BY DEF TreeNodes
<1>2. nd \in Seq(TreeNodes) /\ Len(nd) = n
  <2>1. nd \in [1 .. n -> TreeNodes]
    BY <1>1
  <2>2. QED
    BY <2>1, SeqDef, LenProperties
<1>3. Shaped(nd, n)
  BY <1>1, <1>2 DEF Shaped
<1>4. Family(nd, 1 .. n)
  BY <1>2 DEF Family
<1>5. PICK u : u = [i \in 1 .. n |-> {i}]
  OBVIOUS
<1>6. Below(u, nd)
  BY <1>1, <1>2, <1>5 DEF Below
<1>7. ASSUME NEW v, Below(v, nd) PROVE Encloses(v, nd, n) /\ AllUnder(v, n, 1 .. n)
  <2>1. \A i \in 1 .. n : v[i] = {i}
    BY <1>1, <1>2, <1>7 DEF Below
  <2>2. AllUnder(v, n, 1 .. n)
    BY <2>1 DEF AllUnder
  <2>3. ASSUME NEW i \in 1 .. n PROVE Closest(v, nd, i)
    <3>1. v[i] = {i}
      BY <2>1
    <3>2. \A d \in T!Coords : nd[i].box.min[d] \in Int /\ nd[i].box.max[d] \in Int
      BY <1>2, NodeFacts
    <3>3. QED
      BY <3>1, <3>2 DEF Closest
  <2>4. QED
    BY <1>2, <2>1, <2>2, <2>3 DEF Encloses
<1>8. QED
  BY <1>2, <1>3, <1>4, <1>6, <1>7 DEF Tree

-----------------------------------------------------------------------------
(* The tree of boxes: the build *)

Tops == {level[k] : k \in 1 .. Len(level)} \union {above[k] : k \in 1 .. Len(above)}
Powers == {1, 2, 4, 8}
Coded == {"sort", "leaves", "join", "done"}
Ordered == {"leaves", "join", "done"}
Built == {"join", "done"}

BuildTypes ==
  /\ T!N \in Nat /\ centre \in [1 .. T!N -> [T!Coords -> Int]] /\ room \in Nat
  /\ stage \in {"sort", "leaves", "join", "panicked"} => T!N > 0
  /\ stage \in {"start", "sort", "leaves"} => above = << >>
  /\ T!N > 0 /\ stage \in Coded \union {"panicked"} => room >= 2 * T!N - 1
CodesInv ==
  T!N > 0 /\ stage \in Coded =>
    codes = [i \in 1 .. T!N |-> T!Morton(centre[i], T!BoxOfPoints(centre))]
OrderInv == T!N > 0 /\ stage \in Ordered => order = Place(T!N, codes)

Within(s, m) == s \in Seq(Nat) /\ \A k \in 1 .. Len(s) : s[k] \in 1 .. m

\* The nodes without a parent are those of the level and of the one above, the
\* newest of all the last of them; every level of a power of two is even.
LevelsInv ==
  T!N > 0 /\ stage \in Built =>
    /\ Tree(nodes, T!N, Tops)
    /\ Within(level, Len(nodes)) /\ Within(above, Len(nodes))
    /\ above # << >> => above[Len(above)] = Len(nodes)
    /\ above = << >> => level # << >> /\ level[Len(level)] = Len(nodes)
    /\ T!N \in Powers => /\ Len(level) + 2 * Len(above) \in Powers
                       /\ Len(nodes) = 2 * T!N - Len(level) - Len(above)
EndInv ==
  /\ T!N > 0 /\ stage = "done" => scratch = {} /\ Len(level) = 1 /\ above = << >>
  /\ stage = "panicked" => T!N \notin Powers /\ Len(nodes) >= 2 * T!N - 1
BuildInv == BuildTypes /\ CodesInv /\ OrderInv /\ LevelsInv /\ EndInv

LEMMA BuildInit == T!SpatialAssumption /\ T!Init => BuildInv
<1>1. SUFFICES ASSUME T!SpatialAssumption, T!Init PROVE BuildInv
  OBVIOUS
<1>2. PICK n \in 0 .. MostPrims : centre \in [1 .. n -> Centers]
  BY <1>1 DEF T!Init
<1>3. n \in Nat
  BY <1>1 DEF T!SpatialAssumption
<1>4. centre \in [1 .. n -> [T!Coords -> Int]]
  BY <1>1, <1>2 DEF T!SpatialAssumption
<1>5. centre \in Seq([T!Coords -> Int]) /\ Len(centre) = n
  <2>1. centre \in Seq([T!Coords -> Int]) /\ DOMAIN centre = 1 .. n
    BY <1>3, <1>4, SeqDef
  <2>2. QED
    BY <1>3, <2>1, LenProperties
<1>6. /\ room \in {2 * T!N - 2, 2 * T!N - 1, 2 * T!N + 3} /\ room >= 0 /\ stage = "start"
  BY <1>1 DEF T!Init
<1>7. T!N = n
  BY <1>5 DEF T!N
<1>8. room \in Nat
  BY <1>3, <1>6, <1>7
<1>9. above = << >>
  BY <1>1 DEF T!Init
<1>10. QED
  BY <1>3, <1>4, <1>6, <1>7, <1>8, <1>9
     DEF BuildInv, BuildTypes, CodesInv, OrderInv, LevelsInv, EndInv, Coded, Ordered, Built

\* A tree that is not being built on stays as it is.
LEMMA TreeKept ==
  ASSUME LevelsInv, UNCHANGED <<nodes, level, above>>, T!N' = T!N,
         T!N > 0 /\ stage' \in Built => stage \in Built
  PROVE  LevelsInv'
<1>1. nodes' = nodes /\ Tops' = Tops /\ level' = level /\ above' = above
  BY DEF Tops
<1>2. QED
  BY <1>1 DEF LevelsInv

LEMMA EncodeStep ==
  ASSUME BuildInv, T!Encode
  PROVE  BuildInv'
<1>1. /\ T!N > 0 /\ room >= 2 * T!N - 1 /\ stage' = "sort"
      /\ codes' = [i \in 1 .. T!N |-> T!Morton(centre[i], T!BoxOfPoints(centre))]
      /\ centre' = centre /\ room' = room /\ T!N' = T!N
      /\ stage = "start" /\ above' = above
  BY DEF T!Encode, T!N
<1>2. BuildTypes'
  BY <1>1 DEF BuildInv, BuildTypes
<1>3. CodesInv'
  BY <1>1 DEF CodesInv
<1>4. OrderInv' /\ LevelsInv' /\ EndInv'
  BY <1>1 DEF OrderInv, LevelsInv, EndInv, Ordered, Built
<1>5. QED
  BY <1>2, <1>3, <1>4 DEF BuildInv

LEMMA SortPairsStep ==
  ASSUME BuildInv, T!SortPairs
  PROVE  BuildInv'
<1>1. /\ stage = "sort" /\ stage' = "leaves" /\ codes' = codes /\ above' = above
      /\ centre' = centre /\ room' = room /\ T!N' = T!N
  BY DEF T!SortPairs, T!N
<1>2. BuildTypes'
  BY <1>1 DEF BuildInv, BuildTypes, Coded
<1>3. CodesInv'
  BY <1>1 DEF BuildInv, CodesInv, Coded
<1>4. order' = Place(T!N, codes)
  <2> DEFINE codeRank(i) == T!Cardinality({j \in 1 .. T!N :
                              \/ codes[j] < codes[i]
                              \/ (codes[j] = codes[i] /\ j <= i)})
             sorted(k) == CHOOSE i \in 1 .. T!N : codeRank(i) = k
             placed(k) == CHOOSE i \in 1 .. T!N : Cardinality(Upto(T!N, codes, i)) = k
  <2>1. \A i : codeRank(i) = Cardinality(Upto(T!N, codes, i))
    BY TreeCardinality DEF Upto
  <2>2. \A k : sorted(k) = placed(k)
    <3> HIDE DEF codeRank
    <3>1. QED
      BY <2>1
  <2>3. order' = [k \in 1 .. T!N |-> sorted(k)]
    BY DEF T!SortPairs
  <2>4. Place(T!N, codes) = [k \in 1 .. T!N |-> placed(k)]
    BY DEF Place
  <2>5. QED
    <3> HIDE DEF sorted, placed
    <3>1. QED
      BY <2>2, <2>3, <2>4
<1>5. OrderInv' /\ LevelsInv' /\ EndInv'
  BY <1>1, <1>4 DEF OrderInv, LevelsInv, EndInv, Ordered, Built
<1>6. QED
  BY <1>2, <1>3, <1>5 DEF BuildInv

LEMMA StopStep ==
  ASSUME BuildInv, T!Refuse \/ T!AllocFails
  PROVE  BuildInv'
<1>1. /\ centre' = centre /\ room' = room /\ T!N' = T!N
      /\ stage' \in {"done", "failed"} /\ (stage' = "done" => T!N = 0)
  BY DEF T!Refuse, T!AllocFails, T!N
<1>2. T!N \in Nat
  BY DEF BuildInv, BuildTypes
<1>3. BuildTypes'
  BY <1>1, <1>2 DEF BuildInv, BuildTypes, Coded
<1>4. QED
  BY <1>1, <1>2, <1>3
     DEF BuildInv, CodesInv, OrderInv, LevelsInv, EndInv, Coded, Ordered, Built

LEMMA CodesAreKeys ==
  ASSUME BuildInv, T!N > 0, stage \in Coded
  PROVE  /\ T!N \in Nat \ {0} /\ codes \in [1 .. T!N -> Int]
         /\ \A i \in 1 .. T!N : codes[i] = T!Morton(centre[i], T!BoxOfPoints(centre))
<1>1. T!N \in Nat \ {0} /\ centre \in [1 .. T!N -> [T!Coords -> Int]]
  BY DEF BuildInv, BuildTypes
<1>2. codes = [i \in 1 .. T!N |-> T!Morton(centre[i], T!BoxOfPoints(centre))]
  BY DEF BuildInv, CodesInv
<1>3. ASSUME NEW i \in 1 .. T!N PROVE T!Morton(centre[i], T!BoxOfPoints(centre)) \in Int
  <2>1. \A d \in T!Coords : centre[i][d] \in Int
    BY <1>1
  <2>2. \A d \in T!Coords : centre[i][d] <= centre[i][d]
    BY <2>1
  <2>3. T!Morton(centre[i], T!BoxOfPoints(centre)) \in Nat
    BY <1>1, <2>2, MortonOrder
  <2>4. QED
    BY <2>3
<1>4. QED
  BY <1>1, <1>2, <1>3

LEMMA LeavesStep ==
  ASSUME BuildInv, T!Leaves
  PROVE  BuildInv'
<1>1. /\ stage = "leaves" /\ stage' = "join" /\ codes' = codes /\ order' = order
      /\ centre' = centre /\ room' = room /\ T!N' = T!N /\ above' = above
  BY DEF T!Leaves, T!N
<1>2. BuildTypes' /\ CodesInv' /\ OrderInv' /\ EndInv'
  BY <1>1 DEF BuildInv, BuildTypes, CodesInv, OrderInv, EndInv, Coded, Ordered
<1>3. T!N \in Nat \ {0}
  BY <1>1 DEF BuildInv, BuildTypes
<1>4. order = Place(T!N, codes) /\ codes \in [1 .. T!N -> Int]
  BY <1>1, <1>3, CodesAreKeys DEF BuildInv, OrderInv, Ordered, Coded
<1>5. order \in Bijection(1 .. T!N, 1 .. T!N)
  BY <1>3, <1>4, PlacesOfPositions
<1>6. \A k \in 1 .. T!N : order[k] \in 1 .. T!N
  BY <1>5 DEF Bijection, Injection
<1>7. PICK box : box = [k \in 1 .. T!N |-> T!Box(centre[order[k]])]
  OBVIOUS
<1>8. ASSUME NEW k \in 1 .. T!N PROVE box[k] \in Boxes
  <2>1. PICK c : c = centre[order[k]]
    OBVIOUS
  <2>2. c \in [T!Coords -> Int]
    BY <1>6, <2>1 DEF BuildInv, BuildTypes
  <2>3. T!Box(c) \in Boxes
    BY <2>2 DEF T!Box, Boxes
  <2>4. QED
    BY <1>7, <2>1, <2>3
<1>9. nodes' = [k \in 1 .. T!N |-> [left |-> 0, right |-> 0, parent |-> 0, box |-> box[k]]]
  BY <1>7 DEF T!Leaves
<1>10. Tree(nodes', T!N, 1 .. T!N) /\ Len(nodes') = T!N
  BY <1>3, <1>8, <1>9, LeavesAreTree
<1>11. above' = << >> /\ level' = [k \in 1 .. T!N |-> k]
  BY <1>1 DEF BuildInv, BuildTypes, T!Leaves
<1>12. level' \in Seq(Nat) /\ Len(level') = T!N /\ \A k \in 1 .. T!N : level'[k] = k
  <2>1. level' \in [1 .. T!N -> Nat]
    BY <1>3, <1>11
  <2>2. QED
    BY <1>3, <1>11, <2>1, SeqDef, LenProperties
<1>13. Tops' = 1 .. T!N
  BY <1>3, <1>11, <1>12 DEF Tops
<1>14. Within(level', T!N) /\ Within(above', T!N)
  BY <1>3, <1>11, <1>12 DEF Within
<1>15. level' # << >> /\ level'[Len(level')] = T!N
  BY <1>3, <1>12
<1>16. LevelsInv'
  <2>1. T!N \in Powers => Len(level') + 2 * Len(above') \in Powers
                        /\ T!N = 2 * T!N - Len(level') - Len(above')
    BY <1>3, <1>11, <1>12
  <2>2. QED
    BY <1>1, <1>10, <1>11, <1>13, <1>14, <1>15, <2>1 DEF LevelsInv
<1>17. QED
  BY <1>2, <1>16 DEF BuildInv

LEMMA WithinFacts ==
  ASSUME NEW s, NEW m, Within(s, m)
  PROVE  Len(s) \in Nat /\ s \in Seq(Nat) /\ \A k \in 1 .. Len(s) : s[k] \in 1 .. m
BY LenProperties DEF Within

LEMMA JoinKeeps ==
  ASSUME BuildInv, stage = "join", UNCHANGED <<centre, room, codes, order, scratch>>,
         NEW l \in Tops, NEW r, r = 0 \/ r \in Tops, T!Join(l, r),
         Within(level', Len(nodes)),
         \A k \in 1 .. Len(level) :
           level[k] \in {l, r} \/ \E q \in 1 .. Len(level') : level'[q] = level[k],
         T!N \in Powers => Len(level) >= 2 /\ Len(level') = Len(level) - 2
  PROVE  BuildInv'
<1>1. PICK n, m, a, b, c : /\ n = T!N /\ m = Len(nodes)
                           /\ a = Len(level) /\ b = Len(above) /\ c = Len(level')
  OBVIOUS
<1>2. /\ n \in Nat /\ n > 0 /\ room \in Nat /\ room >= 2 * n - 1
  BY <1>1 DEF BuildInv, BuildTypes, Coded
<1>3. /\ Tree(nodes, n, Tops)
      /\ Within(level, m) /\ Within(above, m)
      /\ n \in Powers => a + 2 * b \in Powers /\ m = 2 * n - a - b
  BY <1>1, <1>2 DEF BuildInv, LevelsInv, Built
<1>4. nodes \in Seq(TreeNodes) /\ m \in Nat /\ a \in Nat /\ b \in Nat /\ c \in Nat
  BY <1>1, <1>3, NodeFacts, WithinFacts DEF Tree, Shaped
<1>5. Tops \subseteq 1 .. m
  BY <1>1, <1>3, WithinFacts DEF Tops
<1>6. l \in 1 .. m /\ r \in 0 .. m
  <2>1. l \in 1 .. m /\ (r = 0 \/ r \in 1 .. m)
    BY <1>5, Zenon
  <2>2. QED
    BY <1>4, <2>1
<1>7. centre' = centre /\ T!N' = T!N /\ room' = room /\ codes' = codes /\ order' = order
  BY DEF T!N
<1>8. PICK p, e : /\ p = Parented(nodes, l, r)
                  /\ e = [left |-> l, right |-> r, parent |-> 0, box |-> BoxOver(nodes, l, r)]
  OBVIOUS
<1>9. IF m + 1 > room
      THEN stage' = "panicked" /\ nodes' = p /\ above' = above
      ELSE nodes' = Append(p, e) /\ above' = Append(above, m + 1) /\ stage' = stage
  BY <1>1, <1>8 DEF T!Join, Parented, BoxOver
<1>10. CASE m + 1 > room
  <2>1. stage' = "panicked" /\ nodes' = p
    BY <1>9, <1>10
  <2>2. Len(nodes') = m
    BY <1>1, <1>4, <1>6, <1>8, <2>1, JoinGrows
  <2>3. m >= 2 * n - 1
    BY <1>2, <1>4, <1>10
  <2>4. n \notin Powers
    <3>1. SUFFICES ASSUME n \in Powers PROVE FALSE
      OBVIOUS
    <3>2. a >= 2 /\ m = 2 * n - a - b
      BY <1>1, <1>3, <3>1
    <3>3. QED
      BY <1>2, <1>4, <2>3, <3>2
  <2>5. BuildTypes'
    BY <1>1, <1>2, <1>7, <2>1 DEF BuildInv, BuildTypes
  <2>6. EndInv'
    BY <1>1, <1>7, <2>1, <2>2, <2>3, <2>4 DEF EndInv
  <2>7. QED
    BY <2>1, <2>5, <2>6 DEF BuildInv, CodesInv, OrderInv, LevelsInv, Coded, Ordered, Built
<1>11. CASE ~(m + 1 > room)
  <2>1. nodes' = Append(p, e) /\ above' = Append(above, m + 1) /\ stage' = "join"
    BY <1>9, <1>11
  <2>2. Grown(nodes, nodes', l, r)
    BY <1>1, <1>4, <1>6, <1>8, <2>1, JoinGrows
  <2>3. Len(nodes') = m + 1
    BY <1>1, <2>2 DEF Grown
  <2>4. /\ above' \in Seq(Nat) /\ Len(above') = b + 1 /\ above'[b + 1] = m + 1
        /\ \A k \in 1 .. b : above'[k] = above[k]
    <3>1. above \in Seq(Nat) /\ m + 1 \in Nat
      BY <1>3, <1>4, WithinFacts
    <3>2. QED
      BY <1>1, <2>1, <3>1, AppendProperties
  <2>5. Within(above', m + 1)
    <3>1. \A k \in 1 .. b : above[k] \in 1 .. m
      BY <1>1, <1>3, WithinFacts
    <3>2. ASSUME NEW k \in 1 .. b + 1 PROVE above'[k] \in 1 .. m + 1
      <4>1. CASE k \in 1 .. b
        BY <1>4, <2>4, <3>1, <4>1
      <4>2. CASE k = b + 1
        BY <1>4, <2>4, <4>2
      <4>3. QED
        BY <1>4, <4>1, <4>2
    <3>3. QED
      BY <2>4, <3>2 DEF Within
  <2>6. Within(level', m + 1)
    <3>1. level' \in Seq(Nat) /\ \A k \in 1 .. c : level'[k] \in 1 .. m
      BY <1>1, WithinFacts
    <3>2. \A k \in 1 .. c : level'[k] \in 1 .. m + 1
      BY <1>4, <3>1
    <3>3. QED
      BY <1>1, <3>1, <3>2 DEF Within
  <2>7. m + 1 \in Tops'
    BY <1>4, <2>4 DEF Tops
  <2>8. \A i \in Tops : i \in {l, r} \/ i \in Tops'
    <3>1. ASSUME NEW k \in 1 .. a PROVE level[k] \in {l, r} \/ level[k] \in Tops'
      BY <1>1 DEF Tops
    <3>2. ASSUME NEW k \in 1 .. b PROVE above[k] \in Tops'
      <4>1. above'[k] = above[k] /\ k \in 1 .. b + 1
        BY <1>4, <2>4
      <4>2. QED
        BY <2>4, <4>1 DEF Tops
    <3>3. QED
      BY <1>1, <3>1, <3>2 DEF Tops
  <2>9. Tree(nodes', n, Tops')
    BY <1>1, <1>3, <1>5, <1>6, <2>2, <2>7, <2>8, TreeGrows
  <2>10. above' # << >> /\ above'[Len(above')] = m + 1
    BY <1>4, <2>4
  <2>11. n \in Powers => c + 2 * (b + 1) \in Powers /\ m + 1 = 2 * n - c - (b + 1)
    <3>1. SUFFICES ASSUME n \in Powers
                   PROVE  c + 2 * (b + 1) \in Powers /\ m + 1 = 2 * n - c - (b + 1)
      OBVIOUS
    <3>2. c = a - 2 /\ a + 2 * b \in Powers /\ m = 2 * n - a - b
      BY <1>1, <1>3, <3>1
    <3>3. c + 2 * (b + 1) = a + 2 * b /\ m + 1 = 2 * n - c - (b + 1)
      BY <1>2, <1>4, <3>2
    <3>4. QED
      BY <3>2, <3>3
  <2>12. LevelsInv'
    BY <1>1, <1>7, <2>3, <2>4, <2>5, <2>6, <2>9, <2>10, <2>11 DEF LevelsInv
  <2>13. BuildTypes'
    BY <1>1, <1>2, <1>7, <2>1 DEF BuildInv, BuildTypes
  <2>14. QED
    BY <1>7, <2>1, <2>12, <2>13 DEF BuildInv, CodesInv, OrderInv, EndInv, Coded, Ordered, Built
<1>12. QED
  BY <1>10, <1>11

LEMMA JoinPairStep ==
  ASSUME BuildInv, T!JoinPair
  PROVE  BuildInv'
<1>1. PICK a, m : a = Len(level) /\ m = Len(nodes)
  OBVIOUS
<1>2. /\ stage = "join" /\ a >= 2 /\ level' = SubSeq(level, 3, a)
      /\ T!Join(level[1], level[2]) /\ UNCHANGED <<centre, room, codes, order, scratch>>
  BY <1>1 DEF T!JoinPair
<1>3. Within(level, m) /\ a \in Nat /\ level \in Seq(Nat)
  BY <1>1, <1>2, WithinFacts DEF BuildInv, BuildTypes, LevelsInv, Built
<1>4. /\ level' \in Seq(Nat) /\ Len(level') = a - 2
      /\ \A k \in 1 .. a - 2 : level'[k] = level[k + 2]
  <2>1. \A k \in 3 .. a : level[k] \in Nat
    BY <1>1, <1>3, ElementOfSeq
  <2>2. QED
    BY <1>1, <1>2, <1>3, <2>1, SubSeqProperties
<1>5. level[1] \in Tops /\ level[2] \in Tops
  <2>1. 1 \in 1 .. Len(level) /\ 2 \in 1 .. Len(level)
    BY <1>1, <1>2, <1>3
  <2>2. QED
    BY <2>1 DEF Tops
<1>6. Within(level', m)
  <2>1. \A k \in 1 .. a - 2 : level'[k] \in 1 .. m
    BY <1>1, <1>3, <1>4, WithinFacts
  <2>2. QED
    BY <1>4, <2>1 DEF Within
<1>7. ASSUME NEW k \in 1 .. a
      PROVE  level[k] \in {level[1], level[2]} \/ \E q \in 1 .. a - 2 : level'[q] = level[k]
  <2>1. CASE k <= 2
    BY <1>3, <2>1
  <2>2. CASE k > 2
    <3>1. k - 2 \in 1 .. a - 2 /\ (k - 2) + 2 = k
      BY <1>3, <2>2
    <3>2. level'[k - 2] = level[k]
      BY <1>4, <3>1
    <3>3. QED
      BY <3>1, <3>2
  <2>3. QED
    BY <1>3, <2>1, <2>2
<1>8. QED
  BY <1>1, <1>2, <1>4, <1>5, <1>6, <1>7, JoinKeeps

LEMMA CarryUpStep ==
  ASSUME BuildInv, T!CarryUp
  PROVE  BuildInv'
<1>1. PICK m, b : m = Len(nodes) /\ b = Len(above)
  OBVIOUS
<1>2. /\ stage = "join" /\ Len(level) = 1 /\ above # << >> /\ level' = << >>
      /\ T!Join(level[1], 0) /\ UNCHANGED <<centre, room, codes, order, scratch>>
  BY DEF T!CarryUp
<1>3. Within(above, m) /\ (T!N \in Powers => 1 + 2 * b \in Powers)
  BY <1>1, <1>2 DEF BuildInv, BuildTypes, LevelsInv, Built
<1>4. b \in Nat /\ b # 0
  BY <1>1, <1>2, <1>3, WithinFacts, EmptySeq
<1>5. T!N \notin Powers
  BY <1>3, <1>4 DEF Powers
<1>6. level[1] \in Tops
  BY <1>2 DEF Tops
<1>7. Within(level', m)
  BY <1>2 DEF Within
<1>8. \A k \in 1 .. Len(level) :
        level[k] \in {level[1], 0} \/ \E q \in 1 .. Len(level') : level'[q] = level[k]
  BY <1>2
<1>9. QED
  BY <1>1, <1>2, <1>5, <1>6, <1>7, <1>8, JoinKeeps

LEMMA NextLevelStep ==
  ASSUME BuildInv, T!NextLevel
  PROVE  BuildInv'
<1>1. /\ stage = "join" /\ level = << >> /\ level' = above /\ above' = << >>
      /\ centre' = centre /\ room' = room /\ stage' = stage /\ codes' = codes
      /\ order' = order /\ nodes' = nodes /\ T!N' = T!N
  BY DEF T!NextLevel, T!N
<1>2. T!N > 0 /\ T!N \in Nat
  BY <1>1 DEF BuildInv, BuildTypes
<1>3. PICK m, b : m = Len(nodes) /\ b = Len(above)
  OBVIOUS
<1>4. /\ Tree(nodes, T!N, Tops) /\ Within(level, m) /\ Within(above, m)
      /\ above # << >> /\ above[b] = m
      /\ T!N \in Powers => 2 * b \in Powers /\ m = 2 * T!N - b
  BY <1>1, <1>2, <1>3 DEF BuildInv, LevelsInv, Built
<1>5. Tops' = Tops
  BY <1>1 DEF Tops
<1>6. b \in Nat
  BY <1>3, <1>4, WithinFacts
<1>7. T!N \in Powers => b + 2 * 0 \in Powers /\ m = 2 * T!N - b - 0
  BY <1>2, <1>4, <1>6 DEF Powers
<1>8. LevelsInv'
  BY <1>1, <1>3, <1>4, <1>5, <1>7 DEF LevelsInv, Within
<1>9. QED
  BY <1>1, <1>8 DEF BuildInv, BuildTypes, CodesInv, OrderInv, EndInv, Coded, Ordered, Built

LEMMA FinishStep ==
  ASSUME BuildInv, T!Finish
  PROVE  BuildInv'
<1>1. /\ stage = "join" /\ Len(level) = 1 /\ above = << >> /\ stage' = "done"
      /\ scratch' = {} /\ centre' = centre /\ room' = room /\ codes' = codes
      /\ order' = order /\ nodes' = nodes /\ level' = level /\ above' = above /\ T!N' = T!N
  BY DEF T!Finish, T!N
<1>2. LevelsInv'
  BY <1>1, TreeKept DEF BuildInv, Built
<1>3. QED
  BY <1>1, <1>2 DEF BuildInv, BuildTypes, CodesInv, OrderInv, EndInv, Coded, Ordered

LEMMA BuildStep == BuildInv /\ [T!Next]_(T!lbvhvars) => BuildInv'
<1>1. SUFFICES ASSUME BuildInv, [T!Next]_(T!lbvhvars) PROVE BuildInv'
  OBVIOUS
<1>2. CASE UNCHANGED T!lbvhvars
  BY <1>1, <1>2 DEF T!lbvhvars, BuildInv, BuildTypes, CodesInv, OrderInv, LevelsInv, EndInv,
       T!N, Tops
<1>3. QED
  BY <1>1, <1>2, EncodeStep, SortPairsStep, StopStep, LeavesStep, JoinPairStep, CarryUpStep,
     NextLevelStep, FinishStep DEF T!Next

-----------------------------------------------------------------------------
(* What a finished build is *)

LEMMA UnderIsBelow ==
  ASSUME \E u : Below(u, nodes)
  PROVE  Below(T!Under, nodes)
BY DEF Below, T!Under

LEMMA TreeIsSound == BuildInv => T!TreeSound
<1>1. SUFFICES ASSUME BuildInv PROVE T!TreeSound
  OBVIOUS
<1>2. stage = "panicked" => T!N \notin {1, 2, 4, 8} /\ Len(nodes) >= 2 * T!N - 1
  BY <1>1 DEF BuildInv, EndInv, Powers
<1>3. SUFFICES ASSUME stage = "done", T!N > 0
               PROVE  /\ scratch = {}
                      /\ {order[k] : k \in 1 .. T!N} = 1 .. T!N
                      /\ \A k \in 1 .. T!N - 1 : codes[order[k]] <= codes[order[k + 1]]
                      /\ T!Under[Len(nodes)] = 1 .. T!N
                      /\ \A i \in 1 .. Len(nodes) - 1 :
                           i \in {nodes[nodes[i].parent].left, nodes[nodes[i].parent].right}
                      /\ \A i \in 1 .. Len(nodes), d \in T!Coords :
                           /\ nodes[i].box.min[d] =
                                 T!Lower({nodes[k].box.min[d] : k \in T!Under[i]})
                           /\ nodes[i].box.max[d] =
                                 T!Upper({nodes[k].box.max[d] : k \in T!Under[i]})
  BY <1>2, Zenon DEF T!TreeSound
<1>4. PICK n, m : n = T!N /\ m = Len(nodes)
  OBVIOUS
<1>5. /\ n \in Nat \ {0} /\ codes \in [1 .. n -> Int] /\ order = Place(n, codes)
  BY <1>1, <1>3, <1>4, CodesAreKeys DEF BuildInv, OrderInv, Coded, Ordered
<1>6. scratch = {} /\ Len(level) = 1 /\ above = << >>
  BY <1>1, <1>3 DEF BuildInv, EndInv
<1>7. Tree(nodes, n, Tops) /\ Within(level, m) /\ level[Len(level)] = m
  BY <1>1, <1>3, <1>4, <1>6 DEF BuildInv, LevelsInv, Built
<1>8. Tops = {m}
  BY <1>6, <1>7 DEF Tops
<1>9. nodes \in Seq(TreeNodes) /\ m \in Nat /\ n <= m
  BY <1>4, <1>7, NodeFacts DEF Tree, Shaped
<1>10. Encloses(T!Under, nodes, n) /\ AllUnder(T!Under, n, {m})
  BY <1>7, <1>8, UnderIsBelow DEF Tree
<1>11. order \in Bijection(1 .. n, 1 .. n)
  BY <1>5, PlacesOfPositions
<1>12. \A k \in 1 .. n : order[k] \in 1 .. n
  BY <1>11 DEF Bijection, Injection
<1>13. {order[k] : k \in 1 .. n} = 1 .. n
  BY <1>11, <1>12 DEF Bijection, Surjection
<1>14. ASSUME NEW k \in 1 .. n - 1 PROVE codes[order[k]] <= codes[order[k + 1]]
  <2>1. k \in 1 .. n /\ k + 1 \in 1 .. n /\ k < k + 1
    BY <1>5
  <2>2. PICK q : q = k + 1
    OBVIOUS
  <2>3. k \in 1 .. n /\ q \in 1 .. n /\ k < q
    BY <2>1, <2>2
  <2>4. codes[order[k]] \in Int /\ codes[order[q]] \in Int
    BY <1>5, <1>12, <2>3
  <2>5. codes[order[k]] < codes[order[q]] \/ codes[order[k]] = codes[order[q]]
    BY <1>5, <2>3, PlacesOfPositions
  <2>6. QED
    BY <2>2, <2>4, <2>5
<1>15. T!Under[m] = 1 .. n
  <2>1. m \in 1 .. m
    BY <1>5, <1>9
  <2>2. T!Under[m] \subseteq 1 .. n
    BY <1>4, <1>10, <2>1 DEF Encloses
  <2>3. \A k \in 1 .. n : k \in T!Under[m]
    BY <1>10 DEF AllUnder
  <2>4. QED
    BY <2>2, <2>3
<1>16. ASSUME NEW i \in 1 .. m - 1
       PROVE  i \in {nodes[nodes[i].parent].left, nodes[nodes[i].parent].right}
  <2>1. i \in 1 .. m /\ i \notin {m}
    BY <1>9
  <2>2. QED
    BY <1>4, <1>7, <1>8, <2>1 DEF Tree, Family
<1>17. ASSUME NEW i \in 1 .. m, NEW d \in T!Coords
       PROVE  /\ nodes[i].box.min[d] = T!Lower({nodes[k].box.min[d] : k \in T!Under[i]})
              /\ nodes[i].box.max[d] = T!Upper({nodes[k].box.max[d] : k \in T!Under[i]})
  <2>1. T!Under[i] \subseteq 1 .. n /\ Closest(T!Under, nodes, i)
    BY <1>4, <1>10 DEF Encloses
  <2>2. \A k \in T!Under[i] : k \in 1 .. m
    BY <1>5, <1>9, <2>1
  <2>3. \A k \in T!Under[i] : nodes[k].box.min[d] \in Int /\ nodes[k].box.max[d] \in Int
    BY <1>4, <1>9, <2>2, NodeFacts
  <2>4. PICK Lows, Highs : /\ Lows = {nodes[k].box.min[d] : k \in T!Under[i]}
                    /\ Highs = {nodes[k].box.max[d] : k \in T!Under[i]}
    OBVIOUS
  <2>5. Lows \in SUBSET Int /\ Highs \in SUBSET Int
    BY <2>3, <2>4
  <2>6. /\ nodes[i].box.min[d] \in Lows /\ \A s \in Lows : nodes[i].box.min[d] <= s
        /\ nodes[i].box.max[d] \in Highs /\ \A t \in Highs : t <= nodes[i].box.max[d]
    BY <2>1, <2>4 DEF Closest
  <2>7. T!Lower(Lows) = nodes[i].box.min[d] /\ T!Upper(Highs) = nodes[i].box.max[d]
    BY <2>5, <2>6, LowerIs, UpperIs
  <2>8. QED
    BY <2>4, <2>7
<1>18. QED
  BY <1>4, <1>6, <1>13, <1>14, <1>15, <1>16, <1>17

LEMMA CodesAreMonotone == BuildInv => T!CodesMonotone
<1>1. SUFFICES ASSUME BuildInv, stage = "sort",
                      NEW i \in 1 .. T!N, NEW j \in 1 .. T!N,
                      \A d \in T!Coords : centre[i][d] <= centre[j][d]
               PROVE  codes[i] <= codes[j]
  BY DEF T!CodesMonotone
<1>2. T!N > 0 /\ T!N \in Nat /\ centre \in [1 .. T!N -> [T!Coords -> Int]]
  BY <1>1 DEF BuildInv, BuildTypes
<1>3. \A k \in 1 .. T!N : codes[k] = T!Morton(centre[k], T!BoxOfPoints(centre))
  BY <1>1, <1>2, CodesAreKeys DEF Coded
<1>4. T!Morton(centre[i], T!BoxOfPoints(centre)) <= T!Morton(centre[j], T!BoxOfPoints(centre))
  <2>1. T!N \in Nat \ {0}
    BY <1>2
  <2>2. \A d \in T!Coords : centre[i][d] <= centre[j][d]
    BY <1>1, Zenon
  <2>3. QED
    BY <1>2, <2>1, <2>2, MortonOrder, Zenon
<1>5. QED
  BY <1>3, <1>4

-----------------------------------------------------------------------------
(* Both together *)

\* Each module makes a step of its own or none.
LEMMA OneSliceOrTree ==
  ASSUME [Next]_everything
  PROVE  [S!Next]_(S!sortvars) /\ [T!Next]_(T!lbvhvars)
<1>1. [S!Next]_sorting /\ [T!Next]_tree
  <2>1. CASE UNCHANGED everything
    BY <2>1 DEF everything
  <2>2. CASE Next
    BY <2>2 DEF Next
  <2>3. QED
    BY <2>1, <2>2
<1>2. QED
  BY <1>1 DEF sorting, S!sortvars, tree, T!lbvhvars

OrderingInv ==
  /\ which = "sorting" => SlicesInv
  /\ which = "tree" => BuildInv

(* Whatever the slice, the size of a digit, of a word and of the stack: the    *)
(* sorts give a sorted permutation, the search the first position of its key,  *)
(* the scans the sums; and whatever the primitives, the tree encloses each     *)
(* once, in the order of codes that keep neighbours near (sort.rs, radix.rs,   *)
(* scan.rs, spatial.rs of Cap/Algorithms).                                     *)
THEOREM OrderingStaysSound == Spec => []OrderingSound
<1>1. S!SortingAssumption /\ T!SpatialAssumption
  BY Constants
<1>2. Init => OrderingInv
  BY <1>1, SlicesInit, BuildInit DEF Init, OrderingInv
<1>3. OrderingInv /\ [Next]_everything => OrderingInv'
  <2>1. SUFFICES ASSUME OrderingInv, [Next]_everything PROVE OrderingInv'
    OBVIOUS
  <2>2. which' = which
    BY <2>1 DEF Next, everything
  <2>3. [S!Next]_(S!sortvars) /\ [T!Next]_(T!lbvhvars)
    BY <2>1, OneSliceOrTree
  <2>4. which = "sorting" => SlicesInv'
    BY <1>1, <2>1, <2>3, SlicesStep DEF OrderingInv
  <2>5. which = "tree" => BuildInv'
    BY <2>1, <2>3, BuildStep DEF OrderingInv
  <2>6. QED
    BY <2>2, <2>4, <2>5 DEF OrderingInv
<1>4. OrderingInv => OrderingSound
  BY <1>1, SlicesSound, TreeIsSound, CodesAreMonotone DEF OrderingInv, OrderingSound
<1>5. QED
  BY <1>2, <1>3, <1>4, PTL DEF Spec
=============================================================================
