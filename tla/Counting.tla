------------------------------ MODULE Counting ------------------------------
(***************************************************************************)
(* Facts about sets of naturals that the proofs of several components rest *)
(* on: the least element, and how many elements there are up to a number.  *)
(***************************************************************************)
EXTENDS Integers, FiniteSets, TLAPS, WellFoundedInduction, FiniteSetTheorems

UpTo(S, i) == Cardinality({j \in 1 .. i : j \in S})

LEMMA LeastElement ==
  ASSUME NEW S \in SUBSET Nat, S # {}
  PROVE  \E x \in S : \A y \in S : x <= y
<1> DEFINE Less == {ss \in Nat \X Nat : ss[1] < ss[2]}
<1>1. IsWellFoundedOn(Less, Nat)
  BY NatLessThanWellFounded DEF OpToRel
<1>2. PICK x \in S : \A y \in S : ~(<<y, x>> \in Less)
  <2> HIDE DEF Less
  <2> QED BY <1>1, WFMin
<1>3. \A y \in S : x <= y
  <2> TAKE y \in S
  <2>1. <<y, x>> \in Nat \X Nat
    OBVIOUS
  <2>2. ~(y < x)
    BY <1>2, <2>1
  <2> QED BY <2>2
<1> QED BY <1>3

LEMMA UpToNone == \A S : UpTo(S, 0) = 0
<1> SUFFICES ASSUME NEW S PROVE Cardinality({j \in 1 .. 0 : j \in S}) = 0
  BY DEF UpTo
<1>1. {j \in 1 .. 0 : j \in S} = {}
  OBVIOUS
<1> QED BY <1>1, FS_EmptySet

LEMMA UpToIsNatural ==
  ASSUME NEW S, NEW i \in Nat
  PROVE  UpTo(S, i) \in Nat /\ IsFiniteSet({j \in 1 .. i : j \in S})
<1>1. IsFiniteSet(1 .. i)
  BY FS_Interval
<1>2. IsFiniteSet({j \in 1 .. i : j \in S})
  BY <1>1, FS_Subset
<1> QED BY <1>2, FS_CardinalityType DEF UpTo

LEMMA UpToNext ==
  ASSUME NEW S, NEW i \in Nat
  PROVE  UpTo(S, i + 1) = UpTo(S, i) + IF i + 1 \in S THEN 1 ELSE 0
<1> DEFINE T == {j \in 1 .. i : j \in S}
           U == {j \in 1 .. i + 1 : j \in S}
<1>1. IsFiniteSet(T) /\ Cardinality(T) \in Nat /\ i + 1 \notin T
  <2>1. i + 1 \notin T
    OBVIOUS
  <2> QED BY <2>1, UpToIsNatural DEF UpTo
<1>2. CASE i + 1 \in S
  <2>1. U = T \cup {i + 1}
    BY <1>2
  <2> HIDE DEF T
  <2>2. Cardinality(T \cup {i + 1}) = Cardinality(T) + 1
    BY <1>1, FS_AddElement
  <2> QED BY <1>2, <2>1, <2>2 DEF UpTo, T
<1>3. CASE i + 1 \notin S
  <2>1. U = T
    BY <1>3
  <2> HIDE DEF T, U
  <2>2. UpTo(S, i + 1) = Cardinality(T) /\ UpTo(S, i) = Cardinality(T)
    BY <2>1 DEF UpTo, T, U
  <2> QED BY <1>1, <1>3, <2>2
<1> QED BY <1>2, <1>3

(* There are no more up to i than up to n, and as many only if there are   *)
(* none between them.                                                      *)
LEMMA UpToGrows ==
  ASSUME NEW S, NEW n \in Nat, NEW i \in 0 .. n
  PROVE  /\ UpTo(S, i) <= UpTo(S, n)
         /\ i \in 1 .. n /\ i \in S => UpTo(S, i) >= 1
         /\ i < n /\ n \in S => UpTo(S, i) < UpTo(S, n)
<1> DEFINE T(k) == {j \in 1 .. k : j \in S}
<1>1. \A k \in Nat : IsFiniteSet(T(k)) /\ Cardinality(T(k)) \in Nat
  BY UpToIsNatural DEF UpTo
<1>2. UpTo(S, i) <= UpTo(S, n)
  <2>1. T(i) \subseteq T(n)
    OBVIOUS
  <2> QED BY <1>1, <2>1, FS_Subset DEF UpTo
<1>3. ASSUME NEW k \in Nat, k # 0, k \in S
      PROVE  UpTo(S, k) = UpTo(S, k - 1) + 1 /\ UpTo(S, k - 1) \in Nat
  <2>1. k - 1 \in Nat /\ (k - 1) + 1 = k
    BY <1>3
  <2> DEFINE j == k - 1
  <2>2. j \in Nat /\ j + 1 = k
    BY <2>1
  <2> HIDE DEF j
  <2>3. UpTo(S, j + 1) = UpTo(S, j) + (IF j + 1 \in S THEN 1 ELSE 0) /\ UpTo(S, j) \in Nat
    BY <2>2, UpToNext, UpToIsNatural
  <2>4. UpTo(S, k) = UpTo(S, j) + 1 /\ UpTo(S, j) \in Nat
    BY <1>3, <2>2, <2>3
  <2> QED BY <2>4 DEF j
<1>4. i \in 1 .. n /\ i \in S => UpTo(S, i) >= 1
  BY <1>3
<1>5. ASSUME i < n, n \in S PROVE UpTo(S, i) < UpTo(S, n)
  <2>1. T(i) \subseteq T(n - 1) /\ n - 1 \in Nat
    BY <1>5
  <2>2. UpTo(S, i) <= UpTo(S, n - 1)
    BY <1>1, <2>1, FS_Subset DEF UpTo
  <2>3. UpTo(S, i) \in Nat
    <3>1. i \in Nat
      OBVIOUS
    <3> QED BY <3>1, UpToIsNatural
  <2> QED BY <1>3, <1>5, <2>2, <2>3
<1> QED BY <1>2, <1>4, <1>5
=============================================================================
