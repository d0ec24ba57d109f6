---------------------------- MODULE CommonLemmas ----------------------------
(***************************************************************************)
(* Facts the proofs of several components rest on: when an accounting      *)
(* window ends, and what picking some positions of a list keeps of it.     *)
(***************************************************************************)
EXTENDS OrderedPick, FiniteSetTheorems, TLAPS

-----------------------------------------------------------------------------
(* Windows *)

\* The quotient bounds its dividend: the next multiple of d lies ahead of n.
LEMMA NextMultiple ==
  ASSUME NEW n \in Nat, NEW d \in Nat \ {0}
  PROVE  (n \div d + 1) * d \in Nat /\ (n \div d + 1) * d > n
<1>1. /\ n \div d \in Nat
      /\ n % d \in 0..(d - 1)
      /\ n = d * (n \div d) + (n % d)
  OBVIOUS
<1>. DEFINE q == n \div d
<1>2. (q + 1) * d = d * q + d
  <2>. HIDE DEF q
  <2>1. q \in Nat
    BY <1>1 DEF q
  <2>. QED  BY <2>1
<1>. HIDE DEF q
<1>. QED  BY <1>1, <1>2 DEF q

\* The next midnight of a zone lies ahead, whatever the zone's offset.
LEMMA MidnightAhead ==
  ASSUME NEW now \in Nat, NEW d \in Nat \ {0}, NEW offset \in 0..d
  PROVE  /\ ((now + offset) \div d + 1) * d - offset \in Nat
         /\ ((now + offset) \div d + 1) * d - offset > now
<1>. DEFINE n == now + offset  next == (n \div d + 1) * d
<1>1. n \in Nat
  OBVIOUS
<1>. HIDE DEF n
<1>2. next \in Nat /\ next > n
  BY <1>1, NextMultiple
<1>. HIDE DEF next
<1>3. next - offset \in Nat /\ next - offset > now
  BY <1>2 DEF n
<1>. QED  BY <1>3 DEF next, n

-----------------------------------------------------------------------------
(* Picking positions of a list *)

Rank(positions, i) == Cardinality({j \in positions : j <= i})

\* Each position has a rank of its own, larger ones a larger one.
LEMMA RanksIncrease ==
  ASSUME NEW K \in SUBSET Nat, IsFiniteSet(K), NEW i \in K
  PROVE  /\ Rank(K, i) \in 1..Cardinality(K)
         /\ \A j \in K : i < j => Rank(K, i) < Rank(K, j)
<1>. DEFINE Below(x) == {l \in K : l <= x}
<1>1. \A x \in K : IsFiniteSet(Below(x)) /\ Cardinality(Below(x)) <= Cardinality(K)
  <2>. SUFFICES ASSUME NEW x \in K
                PROVE  IsFiniteSet(Below(x)) /\ Cardinality(Below(x)) <= Cardinality(K)
    OBVIOUS
  <2>1. Below(x) \in SUBSET K
    OBVIOUS
  <2>. QED  BY <2>1, FS_Subset, Zenon
<1>2. Cardinality(K) \in Nat /\ \A x \in K : Cardinality(Below(x)) \in Nat
  BY <1>1, FS_CardinalityType, Zenon
<1>3. Cardinality(Below(i)) # 0
  <2>1. i \in Below(i)
    OBVIOUS
  <2>. HIDE DEF Below
  <2>2. IsFiniteSet(Below(i))
    BY <1>1
  <2>. QED  BY <2>1, <2>2, FS_EmptySet, Zenon
<1>4. ASSUME NEW j \in K, i < j
      PROVE  Cardinality(Below(i)) < Cardinality(Below(j))
  <2>1. Below(i) \in SUBSET Below(j) /\ j \in Below(j) /\ j \notin Below(i)
    <3>1. i \in Int /\ j \in Int /\ \A l \in K : l \in Int
      OBVIOUS
    <3>2. \A l \in K : l <= i => l <= j
      BY <1>4, <3>1
    <3>3. j <= j /\ ~(j <= i)
      BY <1>4, <3>1
    <3>4. Below(i) \in SUBSET Below(j)
      BY <3>2, Zenon
    <3>. QED  BY <1>4, <3>3, <3>4, Zenon
  <2>. HIDE DEF Below
  <2>2. /\ Cardinality(Below(i)) <= Cardinality(Below(j))
        /\ Cardinality(Below(i)) # Cardinality(Below(j))
    BY <1>1, <1>4, <2>1, FS_Subset, Zenon
  <2>. QED  BY <1>2, <1>4, <2>2
<1>5. Rank(K, i) = Cardinality(Below(i)) /\ \A j \in K : Rank(K, j) = Cardinality(Below(j))
  BY Zenon DEF Rank
<1>. HIDE DEF Below
<1>. QED  BY <1>1, <1>2, <1>3, <1>4, <1>5

\* Every rank up to the number of positions is the rank of one.
LEMMA NthHasRank ==
  ASSUME NEW K \in SUBSET Nat, IsFiniteSet(K), NEW n \in 1..Cardinality(K)
  PROVE  Nth(K, n) \in K /\ Rank(K, Nth(K, n)) = n
<1>. DEFINE c == Cardinality(K)
            rank == [i \in K |-> Rank(K, i)]
<1>1. c \in Nat
  BY FS_CardinalityType
<1>2. rank \in [K -> 1..c]
  <2>1. \A i \in K : Rank(K, i) \in 1..c
    BY RanksIncrease
  <2>. QED  BY <2>1
<1>3. ASSUME NEW i \in K, NEW j \in K, rank[i] = rank[j]  PROVE i = j
  <2>1. Rank(K, i) = Rank(K, j) /\ Rank(K, i) \in Nat
    BY <1>3, RanksIncrease
  <2>2. ~(i < j) /\ ~(j < i)
    BY <2>1, RanksIncrease
  <2>3. i \in Nat /\ j \in Nat
    OBVIOUS
  <2>. QED  BY <2>2, <2>3
<1>4. IsFiniteSet(1..c) /\ Cardinality(1..c) = c
  BY <1>1, FS_Interval
<1>. HIDE DEF rank
<1>5. rank \in Injection(K, 1..c)
  <2>1. DOMAIN rank = K
    BY <1>2
  <2>. QED  BY <1>2, <1>3, <2>1, Zenon DEF Injection, IsInjective
<1>6. rank \in Surjection(K, 1..c)
  BY <1>4, <1>5, FS_Injection, Zenon DEF c
<1>7. PICK i \in K : rank[i] = n
  BY <1>6, Zenon DEF Surjection, c
<1>8. Rank(K, i) = n
  BY <1>7 DEF rank
<1>. QED  BY <1>8, Zenon DEF Nth, Rank

LEMMA NthIncreases ==
  ASSUME NEW K \in SUBSET Nat, IsFiniteSet(K),
         NEW m \in 1..Cardinality(K), NEW n \in 1..Cardinality(K), m < n
  PROVE  Nth(K, m) < Nth(K, n)
<1>1. Nth(K, m) \in K /\ Rank(K, Nth(K, m)) = m /\ Nth(K, n) \in K /\ Rank(K, Nth(K, n)) = n
  BY NthHasRank
<1>. DEFINE i == Nth(K, m)  j == Nth(K, n)
<1>2. i \in Nat /\ j \in Nat
  BY <1>1
<1>3. i \in K /\ j \in K
  BY <1>1
<1>4. m \in Int /\ n \in Int
  OBVIOUS
<1>5. Rank(K, i) = m /\ Rank(K, j) = n
  BY <1>1
<1>. HIDE DEF i, j
<1>6. i # j
  BY <1>4, <1>5
<1>7. ~(j < i)
  BY <1>3, <1>4, <1>5, RanksIncrease
<1>8. i < j
  BY <1>2, <1>6, <1>7
<1>. QED  BY <1>8 DEF i, j

\* Each position is picked at its rank.
LEMMA NthOfRank ==
  ASSUME NEW K \in SUBSET Nat, IsFiniteSet(K), NEW i \in K
  PROVE  Rank(K, i) \in 1..Cardinality(K) /\ Nth(K, Rank(K, i)) = i
<1>. DEFINE n == Rank(K, i)  k == Nth(K, n)
<1>1. n \in 1..Cardinality(K)
  BY RanksIncrease
<1>2. k \in K /\ Rank(K, k) = n
  BY <1>1, NthHasRank
<1>3. Rank(K, i) = n
  OBVIOUS
<1>. HIDE DEF k
<1>4. k \in Nat /\ i \in Nat
  BY <1>2
<1>. HIDE DEF n
<1>5. ~(k < i) /\ ~(i < k)
  BY <1>1, <1>2, <1>3, RanksIncrease
<1>6. k = i
  BY <1>4, <1>5
<1>. QED  BY <1>1, <1>6 DEF n, k

-----------------------------------------------------------------------------
(* What is picked of a list *)

\* Picking makes a list of the picked positions' items, all of them, and nothing else.
LEMMA PickedItems ==
  ASSUME NEW S, NEW s \in Seq(S), NEW K \in SUBSET DOMAIN s
  PROVE  /\ IsFiniteSet(K) /\ Cardinality(K) \in Nat /\ Cardinality(K) <= Len(s)
         /\ Picked(s, K) \in Seq(S) /\ Len(Picked(s, K)) = Cardinality(K)
         /\ \A n \in DOMAIN Picked(s, K) : Nth(K, n) \in K /\ Picked(s, K)[n] = s[Nth(K, n)]
         /\ \A i \in K : \E n \in DOMAIN Picked(s, K) : Nth(K, n) = i /\ Picked(s, K)[n] = s[i]
<1>1. DOMAIN s = 1..Len(s) /\ Len(s) \in Nat /\ K \in SUBSET Nat
  OBVIOUS
<1>2. IsFiniteSet(1..Len(s)) /\ Cardinality(1..Len(s)) = Len(s)
  BY <1>1, FS_Interval
<1>3. IsFiniteSet(K) /\ Cardinality(K) <= Len(s)
  BY <1>1, <1>2, FS_Subset
<1>4. Cardinality(K) \in Nat
  BY <1>3, FS_CardinalityType
<1>. DEFINE c == Cardinality(K)  p == [n \in 1..c |-> s[Nth(K, n)]]
<1>5. \A n \in 1..c : Nth(K, n) \in K
  BY <1>1, <1>3, NthHasRank
<1>6. \A n \in 1..c : s[Nth(K, n)] \in S
  BY <1>5
<1>7. c \in Nat
  BY <1>4
<1>8. \A i \in K : \E n \in 1..c : Nth(K, n) = i
  BY <1>1, <1>3, NthOfRank
<1>9. Picked(s, K) = p
  BY DEF Picked
<1>. HIDE DEF c
<1>10. p \in Seq(S) /\ Len(p) = c /\ DOMAIN p = 1..c
  BY <1>6, <1>7
<1>11. \A n \in 1..c : p[n] = s[Nth(K, n)]
  OBVIOUS
<1>. HIDE DEF p
<1>12. \A n \in DOMAIN p : Nth(K, n) \in K /\ p[n] = s[Nth(K, n)]
  BY <1>5, <1>10, <1>11 DEF c
<1>13. \A i \in K : \E n \in DOMAIN p : Nth(K, n) = i /\ p[n] = s[i]
  <2>. SUFFICES ASSUME NEW i \in K  PROVE \E n \in DOMAIN p : Nth(K, n) = i /\ p[n] = s[i]
    OBVIOUS
  <2>1. PICK n \in 1..c : Nth(K, n) = i
    BY <1>8
  <2>2. n \in DOMAIN p /\ p[n] = s[i]
    BY <1>10, <1>11, <2>1
  <2>. QED  BY <2>1, <2>2
<1>. QED  BY <1>3, <1>4, <1>9, <1>10, <1>12, <1>13, Zenon DEF c

\* The items keep their order.
LEMMA PickedInOrder ==
  ASSUME NEW S, NEW s \in Seq(S), NEW K \in SUBSET DOMAIN s,
         NEW m \in DOMAIN Picked(s, K), NEW n \in DOMAIN Picked(s, K), m < n
  PROVE  Nth(K, m) < Nth(K, n)
<1>1. K \in SUBSET Nat /\ IsFiniteSet(K)
  BY PickedItems
<1>2. DOMAIN Picked(s, K) = 1..Cardinality(K)
  BY DEF Picked
<1>3. m \in 1..Cardinality(K) /\ n \in 1..Cardinality(K)
  BY <1>2
<1>. QED  BY <1>1, <1>3, NthIncreases

\* When the last item is picked, it stays the last.
LEMMA PickedLast ==
  ASSUME NEW S, NEW s \in Seq(S), NEW K \in SUBSET DOMAIN s, Len(s) \in K
  PROVE  /\ Len(Picked(s, K)) \in 1..Len(s)
         /\ Picked(s, K)[Len(Picked(s, K))] = s[Len(s)]
<1>. DEFINE p == Picked(s, K)
<1>1. PICK n \in DOMAIN p : Nth(K, n) = Len(s) /\ p[n] = s[Len(s)]
  BY PickedItems
<1>2. /\ p \in Seq(S) /\ Len(p) \in Nat /\ Len(p) <= Len(s)
      /\ \A m \in DOMAIN p : Nth(K, m) \in K
  BY PickedItems
<1>3. DOMAIN p = 1..Len(p) /\ Len(s) \in Nat
  BY <1>2
<1>. HIDE DEF p
<1>4. n \in 1..Len(p) /\ Len(p) \in DOMAIN p
  BY <1>1, <1>2, <1>3
<1>5. n = Len(p)
  <2>1. SUFFICES ASSUME n < Len(p)  PROVE FALSE
    BY <1>2, <1>4
  <2>2. Nth(K, n) < Nth(K, Len(p))
    BY <1>4, <2>1, PickedInOrder DEF p
  <2>3. Nth(K, Len(p)) \in 1..Len(s)
    BY <1>2, <1>4
  <2>. QED  BY <1>1, <1>3, <2>2, <2>3
<1>. QED  BY <1>1, <1>2, <1>4, <1>5 DEF p
=============================================================================
