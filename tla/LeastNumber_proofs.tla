------------------------- MODULE LeastNumber_proofs -------------------------
(***************************************************************************)
(* The least element of a set of naturals, from the well-founded order of  *)
(* finite sets: 1 .. n grows with n.  It stands in for an induction, whose *)
(* library theorems cannot be instantiated.                                *)
(***************************************************************************)
EXTENDS Naturals, FiniteSetTheorems, TLAPS

LEMMA LeastExists ==
    ASSUME NEW S \in SUBSET Nat, S # {}
    PROVE  \E n \in S : \A m \in S : n <= m
<1> DEFINE Upto == {1 .. n : n \in S}
<1>1. Upto \subseteq FiniteSubsetsOf(Nat)
  BY FS_Interval DEF FiniteSubsetsOf
<1>2. IsWellFoundedOn(StrictSubsetOrdering(Nat), FiniteSubsetsOf(Nat))
  BY FS_StrictSubsetOrderingWellFounded
<1>3. Upto # {}
  OBVIOUS
<1> HIDE DEF Upto
<1>4. PICK u \in Upto : \A v \in Upto : ~(<<v, u>> \in StrictSubsetOrdering(Nat))
  BY <1>1, <1>2, <1>3, WFMin
<1> USE DEF Upto
<1>5. PICK n \in S : u = 1 .. n
  OBVIOUS
<1>6. \A m \in S : n <= m
  <2> SUFFICES ASSUME NEW m \in S, m < n PROVE FALSE
    OBVIOUS
  <2>1. 1 .. m # 1 .. n /\ 1 .. m \subseteq 1 .. n /\ 1 .. n \subseteq Nat /\ 1 .. m \subseteq Nat
    <3>1. n \in 1 .. n /\ n \notin 1 .. m
      OBVIOUS
    <3> QED
      BY <3>1
  <2>2. <<1 .. m, 1 .. n>> \in StrictSubsetOrdering(Nat)
    BY <2>1, Zenon DEF StrictSubsetOrdering
  <2> QED
    BY <1>4, <1>5, <2>2
<1> QED
  BY <1>6
=============================================================================
