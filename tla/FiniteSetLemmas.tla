-------------------------- MODULE FiniteSetLemmas --------------------------
(***************************************************************************)
(* Facts about finite sets of integers that the proofs of several modules  *)
(* need.  They are proved from the well-foundedness of strict inclusion,   *)
(* in place of an induction over the set.                                  *)
(***************************************************************************)
EXTENDS Integers, FiniteSets, FiniteSetTheorems, WellFoundedInduction, TLAPS

HasMax(T) == \E m \in T : \A x \in T : x =< m

(* Every finite set of integers that is not empty has a largest element.   *)
LEMMA FiniteMax ==
    ASSUME NEW S \in SUBSET Int, IsFiniteSet(S), S # {}
    PROVE  \E m \in S : \A x \in S : x =< m
<1> DEFINE Bad == {T \in FiniteSubsetsOf(S) : T # {} /\ ~HasMax(T)}
<1>1. SUFFICES ASSUME Bad # {} PROVE FALSE
  <2>1. S \in FiniteSubsetsOf(S)
    BY DEF FiniteSubsetsOf
  <2> QED
    BY <2>1, <1>1 DEF HasMax
<1>2. PICK T \in Bad : \A y \in Bad : ~(<<y, T>> \in StrictSubsetOrdering(S))
  <2>1. Bad \subseteq FiniteSubsetsOf(S)
    OBVIOUS
  <2> HIDE DEF Bad
  <2> QED
    BY <1>1, <2>1, FS_StrictSubsetOrderingWellFounded, WFMin
<1>3. T \in SUBSET S /\ IsFiniteSet(T) /\ T # {} /\ ~HasMax(T)
  BY <1>2 DEF FiniteSubsetsOf
<1>4. PICK x \in T : TRUE
  BY <1>3
<1>5. IsFiniteSet(T \ {x})
  BY <1>3, FS_RemoveElement
<1>6. <<T \ {x}, T>> \in StrictSubsetOrdering(S)
  BY <1>3, <1>4, <1>5 DEF StrictSubsetOrdering
<1>7. T \ {x} \notin Bad
  BY <1>2, <1>6
<1>8. T \ {x} = {} \/ HasMax(T \ {x})
  BY <1>3, <1>5, <1>7 DEF FiniteSubsetsOf
<1>9. x \in Int
  BY <1>3
<1>10. HasMax(T)
  BY <1>3, <1>8, <1>4, <1>9 DEF HasMax
<1> QED
  BY <1>3, <1>10

(* Every set of natural numbers that is not empty has a least element.     *)
LEMMA NatMin ==
    ASSUME NEW S \in SUBSET Nat, S # {}
    PROVE  \E m \in S : \A x \in S : m =< x
<1>1. PICK n \in S : TRUE
  OBVIOUS
<1> DEFINE Below == {x \in S : x =< n}
           Neg == {n - x : x \in Below}
<1>2. IsFiniteSet(Neg) /\ Neg \in SUBSET Int /\ Neg # {}
  <2>1. Neg \subseteq 0..n
    BY <1>1
  <2>2. IsFiniteSet(0..n)
    BY <1>1, FS_Interval
  <2>3. IsFiniteSet(Neg)
    BY <2>1, <2>2, FS_Subset
  <2>4. n - n \in Neg
    BY <1>1
  <2> QED
    BY <2>1, <2>3, <2>4
<1>3. PICK d \in Neg : \A x \in Neg : x =< d
  <2> HIDE DEF Neg
  <2> QED
    BY <1>2, FiniteMax
<1>4. PICK m \in Below : d = n - m
  BY <1>3
<1>5. ASSUME NEW x \in S PROVE m =< x
  <2>1. CASE x =< n
    <3>1. n - x \in Neg
      BY <2>1
    <3> QED
      BY <3>1, <1>1, <1>3, <1>4, <1>5
  <2>2. CASE ~(x =< n)
    BY <2>2, <1>1, <1>4, <1>5
  <2> QED
    BY <2>1, <2>2
<1> QED
  BY <1>4, <1>5
=============================================================================
