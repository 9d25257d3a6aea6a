----------------------------- MODULE OrderLemmas -----------------------------
(***************************************************************************)
(* Least, greatest and n-th elements of sets of naturals, for the proofs   *)
(* about definitions that pick or count: the runes of a text (Consult),    *)
(* the pages of a listing (Runner), sorted labels (Reconciler).            *)
(*                                                                         *)
(* Induction enters once, as the well-foundedness of < on Nat.             *)
(***************************************************************************)
EXTENDS Integers, FiniteSets, FiniteSetTheorems, WellFoundedInduction, TLAPS

(* A set of naturals that is not empty has a least element.                  *)
LEMMA HasLeast ==
    ASSUME NEW S \in SUBSET Nat, S # {}
    PROVE  \E m \in S : \A n \in S : m <= n
<1>1. PICK m \in S : \A n \in S : <<n, m>> \notin OpToRel(<, Nat)
  BY NatLessThanWellFounded, WFMin
<1>2. \A n \in S : ~(n < m)
  BY <1>1 DEF OpToRel
<1> QED
  BY <1>2

(* And a greatest one if it has a bound.                                     *)
LEMMA HasGreatest ==
    ASSUME NEW n \in Nat, NEW S, S # {}, \A k \in S : k \in 0 .. n
    PROVE  \E m \in S : \A k \in S : m >= k
<1> DEFINE Mirrored == {n - k : k \in S}
<1>0. \A k \in S : k \in 0 .. n
  OBVIOUS
<1>1. Mirrored \in SUBSET Nat /\ Mirrored # {}
  BY <1>0
<1>2. PICK d \in Mirrored : \A e \in Mirrored : d <= e
  <2> HIDE DEF Mirrored
  <2> QED
    BY <1>1, HasLeast
<1>3. PICK m \in S : d = n - m
  BY <1>2
<1>4. \A k \in S : n - m <= n - k
  BY <1>2, <1>3
<1> QED
  BY <1>0, <1>4

(* As a finite set has: of the sets that have none, one with the fewest      *)
(* elements would have one.                                                  *)
LEMMA FiniteHasGreatest ==
    ASSUME NEW S \in SUBSET Nat, IsFiniteSet(S), S # {}
    PROVE  \E m \in S : \A k \in S : m >= k
<1> DEFINE Lacks(T) == T # {} /\ ~\E m \in T : \A k \in T : m >= k
           Sizes == {n \in Nat : \E T \in SUBSET S : Lacks(T) /\ Cardinality(T) = n}
<1>1. SUFFICES ASSUME Lacks(S) PROVE FALSE
  OBVIOUS
<1>2. Cardinality(S) \in Sizes
  BY <1>1, FS_CardinalityType
<1>3. PICK n \in Sizes : \A k \in Sizes : n <= k
  <2>1. Sizes \in SUBSET Nat /\ Sizes # {}
    BY <1>2
  <2> HIDE DEF Sizes
  <2> QED
    BY <2>1, HasLeast
<1>4. PICK T \in SUBSET S : Lacks(T) /\ Cardinality(T) = n
  BY <1>3
<1>5. PICK x \in T : TRUE
  BY <1>4
<1>6. T \in SUBSET Nat /\ IsFiniteSet(T) /\ n \in Nat
  BY <1>3, FS_Subset
<1>7. IsFiniteSet(T \ {x}) /\ Cardinality(T \ {x}) = n - 1
  BY <1>4, <1>5, <1>6, FS_RemoveElement
<1>8. n - 1 \in Nat
  BY <1>7, FS_CardinalityType
<1>9. n - 1 \notin Sizes
  <2> HIDE DEF Sizes
  <2> QED
    BY <1>3, <1>6
<1>10. ~Lacks(T \ {x})
  BY <1>7, <1>8, <1>9
<1>11. T \ {x} # {}
  BY <1>4, <1>5, <1>6
<1>12. PICK m \in T \ {x} : \A k \in T \ {x} : m >= k
  BY <1>10, <1>11
<1>13. \E y \in T : \A k \in T : y >= k
  <2>1. m \in Nat /\ x \in Nat
    BY <1>5, <1>6
  <2>2. CASE m >= x
    BY <1>12, <2>2
  <2>3. CASE x >= m
    BY <1>5, <1>6, <1>12, <2>1, <2>3
  <2> QED
    BY <2>1, <2>2, <2>3
<1> QED
  BY <1>4, <1>13

-----------------------------------------------------------------------------
(* A set of positions in a sequence of length n.                             *)
Within(S, n) == \A j \in S : j \in 1 .. n

(* How many elements of a set there are up to a number.                      *)
UpTo(S, i) == {j \in S : j <= i}

CountUpTo(S, i) == Cardinality(UpTo(S, i))

LEMMA CountType ==
    ASSUME NEW n \in Nat, NEW S, Within(S, n), NEW i \in Int
    PROVE  /\ IsFiniteSet(UpTo(S, i))
           /\ CountUpTo(S, i) \in Nat
           /\ i <= 0 => CountUpTo(S, i) = 0
           /\ i >= n => CountUpTo(S, i) = Cardinality(S)
<1>0. \A j \in S : j \in 1 .. n
  BY DEF Within
<1>1. IsFiniteSet(1 .. n) /\ UpTo(S, i) \in SUBSET (1 .. n)
  BY <1>0, FS_Interval DEF UpTo
<1>2. IsFiniteSet(UpTo(S, i)) /\ CountUpTo(S, i) \in Nat
  BY <1>1, FS_Subset, FS_CardinalityType DEF CountUpTo
<1>3. ASSUME i <= 0 PROVE CountUpTo(S, i) = 0
  <2>1. UpTo(S, i) = {}
    BY <1>0, <1>3 DEF UpTo
  <2> QED
    BY <2>1, FS_EmptySet DEF CountUpTo
<1>4. ASSUME i >= n PROVE CountUpTo(S, i) = Cardinality(S)
  <2>1. UpTo(S, i) = S
    BY <1>0, <1>4 DEF UpTo
  <2> QED
    BY <2>1 DEF CountUpTo
<1> QED
  BY <1>2, <1>3, <1>4

LEMMA CountStep ==
    ASSUME NEW n \in Nat, NEW S, Within(S, n), NEW i \in Nat
    PROVE  CountUpTo(S, i + 1) = CountUpTo(S, i) + IF i + 1 \in S THEN 1 ELSE 0
<1>0. \A j \in S : j \in 1 .. n
  BY DEF Within
<1>1. IsFiniteSet(UpTo(S, i)) /\ CountUpTo(S, i) \in Nat
  BY CountType
<1>2. i + 1 \notin UpTo(S, i)
  BY DEF UpTo
<1>3. CASE i + 1 \in S
  <2>1. UpTo(S, i + 1) = UpTo(S, i) \cup {i + 1}
    BY <1>0, <1>3 DEF UpTo
  <2> QED
    BY <1>1, <1>2, <1>3, <2>1, FS_AddElement DEF CountUpTo
<1>4. CASE i + 1 \notin S
  <2>1. UpTo(S, i + 1) = UpTo(S, i)
    BY <1>0, <1>4 DEF UpTo
  <2> QED
    BY <1>1, <1>4, <2>1 DEF CountUpTo
<1> QED
  BY <1>3, <1>4

LEMMA CountMonotone ==
    ASSUME NEW n \in Nat, NEW S, Within(S, n), NEW i \in Int, NEW j \in Int, i <= j
    PROVE  /\ CountUpTo(S, i) <= CountUpTo(S, j)
           /\ \A k \in S : i < k /\ k <= j => CountUpTo(S, i) < CountUpTo(S, j)
<1>0. \A k \in S : k \in 1 .. n
  BY DEF Within
<1>1. /\ IsFiniteSet(UpTo(S, j)) /\ UpTo(S, i) \in SUBSET UpTo(S, j)
      /\ CountUpTo(S, i) \in Nat /\ CountUpTo(S, j) \in Nat
  <2>1. IsFiniteSet(UpTo(S, j)) /\ CountUpTo(S, i) \in Nat /\ CountUpTo(S, j) \in Nat
    BY CountType
  <2>2. \A k \in UpTo(S, i) : k \in UpTo(S, j)
    BY <1>0 DEF UpTo
  <2> QED
    BY <2>1, <2>2
<1>2. CountUpTo(S, i) <= CountUpTo(S, j)
  BY <1>1, FS_Subset DEF CountUpTo
<1>3. ASSUME NEW k \in S, i < k, k <= j PROVE UpTo(S, i) # UpTo(S, j)
  BY <1>0, <1>3 DEF UpTo
<1> QED
  BY <1>1, <1>2, <1>3, FS_Subset DEF CountUpTo

(* The count goes up by one at a time: the m-th element exists, and there is *)
(* only one.                                                                 *)
LEMMA NthElement ==
    ASSUME NEW n \in Nat, NEW S, Within(S, n), NEW m \in 1 .. Cardinality(S)
    PROVE  /\ \E i \in S : CountUpTo(S, i) = m
           /\ \A i, j \in S : CountUpTo(S, i) = m /\ CountUpTo(S, j) = m => i = j
<1> DEFINE Enough == {i \in Nat : CountUpTo(S, i) >= m}
<1>1. Cardinality(S) \in Nat /\ CountUpTo(S, n) = Cardinality(S) /\ CountUpTo(S, 0) = 0
  BY CountType
<1>2. Enough \in SUBSET Nat /\ n \in Enough
  BY <1>1
<1>3. PICK i \in Enough : \A j \in Enough : i <= j
  <2> HIDE DEF Enough
  <2> QED
    BY <1>2, HasLeast
<1>4. i \in Nat \ {0} /\ CountUpTo(S, i) >= m /\ i - 1 \in Nat
  BY <1>1, <1>3
<1>5. CountUpTo(S, i - 1) < m
  <2>1. i - 1 \notin Enough
    BY <1>3, <1>4
  <2> QED
    BY <1>4, <2>1, CountType
<1>6. CountUpTo(S, i) = CountUpTo(S, i - 1) + IF i \in S THEN 1 ELSE 0
  <2>1. (i - 1) + 1 = i
    BY <1>4
  <2>2. CountUpTo(S, (i - 1) + 1) = CountUpTo(S, i - 1) + IF (i - 1) + 1 \in S THEN 1 ELSE 0
    BY <1>4, CountStep
  <2> QED
    BY <2>1, <2>2
<1>7. i \in S /\ CountUpTo(S, i) = m
  BY <1>4, <1>5, <1>6, CountType
<1>8. \A j \in S : j \in 1 .. n
  BY DEF Within
<1>9. ASSUME NEW j \in S, NEW k \in S, CountUpTo(S, j) = m, CountUpTo(S, k) = m
      PROVE  j = k
  <2>1. j \in Int /\ k \in Int /\ CountUpTo(S, j) \in Nat
    BY <1>8, CountType
  <2>2. ASSUME NEW a \in S, NEW b \in S, a \in Int, b \in Int, a < b
        PROVE  CountUpTo(S, a) < CountUpTo(S, b)
    BY <2>2, CountMonotone
  <2>3. ~(j < k) /\ ~(k < j)
    BY <1>9, <2>1, <2>2
  <2> QED
    BY <2>1, <2>3
<1> QED
  BY <1>7, <1>9

-----------------------------------------------------------------------------
(* 1 << n counts something: the subsets of n elements.                       *)
LEMMA PowerOfTwo ==
    ASSUME NEW n \in Nat
    PROVE  2 ^ n \in Nat
<1>1. IsFiniteSet(1 .. n) /\ Cardinality(1 .. n) = n
  BY FS_Interval
<1>2. IsFiniteSet(SUBSET (1 .. n)) /\ Cardinality(SUBSET (1 .. n)) = 2 ^ n
  BY <1>1, FS_SUBSET
<1> QED
  BY <1>2, FS_CardinalityType
=============================================================================
