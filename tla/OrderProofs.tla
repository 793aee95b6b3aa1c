------------------------------ MODULE OrderProofs ------------------------------
(***************************************************************************)
(* Facts about numbers in order.                                           *)
(***************************************************************************)
EXTENDS Order, FiniteSetTheorems, WellFoundedInduction, TLAPS

(* The nth member of a finite set of numbers: every member has one place, *)
(* and a place further on a larger member.                                *)
LEMMA NthProperties ==
    ASSUME NEW S \in SUBSET Nat, IsFiniteSet(S)
    PROVE  /\ Cardinality(S) \in Nat
           /\ \A k \in 1 .. Cardinality(S) : Nth(k, S) \in S
           /\ \A i \in S : \E k \in 1 .. Cardinality(S) : Nth(k, S) = i
           /\ \A k, l \in 1 .. Cardinality(S) : k < l => Nth(k, S) < Nth(l, S)
<1> DEFINE Upto(i) == {j \in S : j <= i}
           rank == [i \in S |-> Cardinality(Upto(i))]
           N == Cardinality(S)
<1>1. N \in Nat
  BY FS_CardinalityType
<1>2. \A i \in S : IsFiniteSet(Upto(i)) /\ Cardinality(Upto(i)) \in 1 .. N
  <2> TAKE i \in S
  <2>1. Upto(i) \in SUBSET S
    OBVIOUS
  <2>2. IsFiniteSet(Upto(i)) /\ Cardinality(Upto(i)) <= N
    BY <2>1, FS_Subset
  <2>3. i \in Upto(i)
    OBVIOUS
  <2>4. Cardinality(Upto(i)) \in Nat /\ Cardinality(Upto(i)) # 0
    BY <2>2, <2>3, FS_CardinalityType, FS_EmptySet
  <2> QED
    BY <1>1, <2>2, <2>4
<1>3. \A i, j \in S : i < j => rank[i] < rank[j]
  <2> SUFFICES ASSUME NEW i \in S, NEW j \in S, i < j
               PROVE  Cardinality(Upto(i)) < Cardinality(Upto(j))
    OBVIOUS
  <2>1. Upto(i) \in SUBSET Upto(j) /\ j \in Upto(j) /\ j \notin Upto(i)
    <3>1. i \in Nat /\ j \in Nat /\ \A m \in S : m \in Nat
      OBVIOUS
    <3>2. \A m \in Upto(i) : m \in S /\ m <= j
      BY <3>1
    <3>3. j \in Upto(j) /\ ~(j <= i)
      BY <3>1
    <3> QED
      BY <3>2, <3>3
  <2>2. /\ Cardinality(Upto(i)) <= Cardinality(Upto(j))
        /\ Cardinality(Upto(j)) # Cardinality(Upto(i))
    BY <1>2, <2>1, FS_Subset
  <2>3. Cardinality(Upto(i)) \in Nat /\ Cardinality(Upto(j)) \in Nat
    BY <1>2, FS_CardinalityType
  <2> HIDE DEF Upto
  <2> QED
    BY <2>2, <2>3
<1>4. rank \in Injection(S, 1 .. N)
  <2>1. rank \in [S -> 1 .. N]
    BY <1>2
  <2>2. \A i, j \in S : rank[i] = rank[j] => i = j
    <3> SUFFICES ASSUME NEW i \in S, NEW j \in S, rank[i] = rank[j], i # j
                 PROVE  FALSE
      OBVIOUS
    <3>1. i < j \/ j < i
      OBVIOUS
    <3>2. rank[i] < rank[j] \/ rank[j] < rank[i]
      BY <1>3, <3>1
    <3> HIDE DEF rank
    <3>3. rank[i] \in 1 .. N /\ rank[j] \in 1 .. N
      BY <2>1
    <3> QED
      BY <1>1, <3>2, <3>3
  <2> HIDE DEF rank
  <2> QED
    BY <2>1, <2>2 DEF Injection, IsInjective
<1>5. IsFiniteSet(1 .. N) /\ Cardinality(1 .. N) = N
  BY <1>1, FS_Interval
<1>6. rank \in Surjection(S, 1 .. N)
  <2> HIDE DEF rank, N
  <2>1. Cardinality(S) = Cardinality(1 .. N)
    BY <1>5 DEF N
  <2> QED
    BY <1>4, <1>5, <2>1, FS_Injection
<1>7. \A k \in 1 .. N : Nth(k, S) \in S /\ rank[Nth(k, S)] = k
  <2> TAKE k \in 1 .. N
  <2>1. PICK i \in S : rank[i] = k
    BY <1>6 DEF Surjection
  <2>2. Cardinality({j \in S : j <= i}) = k
    BY <2>1
  <2>3. Nth(k, S) \in S /\ Cardinality({j \in S : j <= Nth(k, S)}) = k
    BY <2>2 DEF Nth
  <2> QED
    BY <2>3
<1>8. \A i \in S : \E k \in 1 .. N : Nth(k, S) = i
  <2> TAKE i \in S
  <2>1. rank[i] \in 1 .. N
    BY <1>2
  <2> HIDE DEF rank, N
  <2>2. Nth(rank[i], S) \in S /\ rank[Nth(rank[i], S)] = rank[i]
    BY <1>7, <2>1
  <2>3. Nth(rank[i], S) = i
    BY <1>4, <2>2 DEF Injection, IsInjective
  <2> QED
    BY <2>1, <2>3
<1>9. ASSUME NEW k \in 1 .. N, NEW l \in 1 .. N, k < l
      PROVE  Nth(k, S) < Nth(l, S)
  <2>1. /\ Nth(k, S) \in S /\ rank[Nth(k, S)] = k
        /\ Nth(l, S) \in S /\ rank[Nth(l, S)] = l
    BY <1>7
  <2> HIDE DEF rank, N
  <2>2. Nth(k, S) # Nth(l, S)
    BY <1>1, <1>9, <2>1
  <2>3. ASSUME Nth(l, S) < Nth(k, S)
        PROVE  FALSE
    <3>1. rank[Nth(l, S)] < rank[Nth(k, S)]
      BY <1>3, <2>1, <2>3
    <3> QED
      BY <1>1, <1>9, <2>1, <3>1
  <2>4. Nth(k, S) \in Nat /\ Nth(l, S) \in Nat
    BY <2>1
  <2> QED
    BY <2>2, <2>3, <2>4
<1> HIDE DEF rank, Upto
<1> QED
  BY <1>1, <1>7, <1>8, <1>9

(* A set of numbers has a least one. *)
LEMMA HasLeast ==
    ASSUME NEW S \in SUBSET Nat, S # {}
    PROVE  \E j \in S : \A i \in S : j <= i
<1> DEFINE R == OpToRel(<, Nat)
<1>1. R = {p \in Nat \X Nat : p[1] < p[2]}
  BY DEF OpToRel
<1>2. IsWellFoundedOn(R, Nat)
  BY NatLessThanWellFounded
<1> HIDE DEF R
<1>3. PICK j \in S : \A i \in S : <<i, j>> \notin R
  BY <1>2, WFMin
<1>4. ASSUME NEW i \in S
      PROVE  j <= i
  <2>1. i \in Nat /\ j \in Nat /\ <<i, j>> \notin R
    BY <1>3
  <2>2. ~(i < j)
    BY <1>1, <2>1
  <2> QED
    BY <2>1, <2>2
<1> QED
  BY <1>4

(* A set of bounded numbers has a largest one. *)
LEMMA HasLargest ==
    ASSUME NEW n \in Nat, NEW S \in SUBSET (0 .. n), S # {}
    PROVE  \E j \in S : \A i \in S : i <= j
<1> DEFINE T == {n - i : i \in S}
<1>1. T \in SUBSET Nat /\ T # {}
  <2>1. \A i \in S : n - i \in Nat
    OBVIOUS
  <2> QED
    BY <2>1
<1>2. PICK t \in T : \A u \in T : t <= u
  <2> HIDE DEF T
  <2> QED
    BY <1>1, HasLeast
<1>3. PICK j \in S : t = n - j
  BY <1>2
<1>4. ASSUME NEW i \in S
      PROVE  i <= j
  <2>1. n - i \in T
    OBVIOUS
  <2>2. n - j <= n - i
    BY <1>2, <1>3, <2>1
  <2>3. i \in Nat /\ j \in Nat
    OBVIOUS
  <2> QED
    BY <2>2, <2>3
<1> QED
  BY <1>4
================================================================================
