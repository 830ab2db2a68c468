----------------------------- MODULE NumberProofs -----------------------------
(***************************************************************************)
(* Least numbers.  An argument by induction on a natural number is made    *)
(* here by its least counterexample: the set of the numbers for which the  *)
(* claim fails, were it not empty, would have a least element.             *)
(***************************************************************************)
EXTENDS Integers, FiniteSetTheorems, WellFoundedInduction, TLAPS

(* Every set of natural numbers that is not empty has a least element: the  *)
(* intervals from zero to those of its numbers that are not above one of    *)
(* them are subsets of a finite set, and being a strict subset is           *)
(* well-founded there.                                                      *)
LEMMA LeastNumber ==
  ASSUME NEW S \in SUBSET Nat, S # {}
  PROVE  \E m \in S : \A k \in S : m <= k
  <1>1. PICK n \in S : TRUE
    OBVIOUS
  <1> DEFINE below == {k \in S : k <= n}
  <1> DEFINE F == {0 .. k : k \in below}
  <1>2. IsFiniteSet(0 .. n)
    BY FS_Interval
  <1>3. F \in SUBSET FiniteSubsetsOf(0 .. n)
    <2>1. ASSUME NEW X \in F PROVE X \in FiniteSubsetsOf(0 .. n)
      <3>1. PICK k \in below : X = 0 .. k
        OBVIOUS
      <3>2. X \in SUBSET (0 .. n)
        BY <3>1
      <3> QED
        BY <3>2, <1>2, FS_Subset DEF FiniteSubsetsOf
    <2> QED
      BY <2>1
  <1>4. F # {}
    BY <1>1
  <1>5. IsWellFoundedOn(StrictSubsetOrdering(0 .. n), FiniteSubsetsOf(0 .. n))
    BY FS_StrictSubsetOrderingWellFounded
  <1>6. PICK X \in F : \A Y \in F : ~ (<<Y, X>> \in StrictSubsetOrdering(0 .. n))
    <2> HIDE DEF F
    <2> QED
      BY <1>3, <1>4, <1>5, WFMin
  <1>7. PICK m \in below : X = 0 .. m
    BY <1>6
  <1>8. \A k \in below : m <= k
    <2> SUFFICES ASSUME NEW k \in below, k < m PROVE FALSE
      OBVIOUS
    <2>1. 0 .. k \in F /\ 0 .. k \subseteq 0 .. m /\ 0 .. k # 0 .. m /\ 0 .. k \subseteq 0 .. n /\ 0 .. m \subseteq 0 .. n
      OBVIOUS
    <2> HIDE DEF F
    <2> QED
      BY <2>1, <1>6, <1>7 DEF StrictSubsetOrdering
  <1> QED
    BY <1>8

(* ... and one that is bounded has a greatest.                              *)
LEMMA GreatestNumber ==
  ASSUME NEW b \in Nat, NEW S \in SUBSET (0 .. b), S # {}
  PROVE  \E m \in S : \A k \in S : k <= m
  <1> DEFINE T == {b - k : k \in S}
  <1>1. T \in SUBSET Nat /\ T # {}
    OBVIOUS
  <1>2. PICK t \in T : \A u \in T : t <= u
    <2> HIDE DEF T
    <2> QED
      BY <1>1, LeastNumber
  <1>3. PICK m \in S : t = b - m
    BY <1>2
  <1>4. ASSUME NEW k \in S PROVE k <= m
    <2>1. b - k \in T
      OBVIOUS
    <2>2. b - m <= b - k
      BY <1>2, <1>3, <2>1
    <2> QED
      BY <2>2
  <1> QED
    BY <1>4
===============================================================================
