----------------------------- MODULE Recursion -----------------------------
(***************************************************************************)
(* Induction over an interval of the naturals, stated with a set in place  *)
(* of a predicate, for proofs about recursive functions.                   *)
(***************************************************************************)
EXTENDS Naturals, WellFoundedInduction, TLAPS

\* Some number of a set of naturals is the least.
LEMMA LeastNatural ==
    ASSUME NEW T, T \subseteq Nat, T # {}
    PROVE  \E x \in T : \A y \in T : x <= y
<1>1. PICK x \in T : \A y \in T : ~(<<y, x>> \in OpToRel(<, Nat))
  BY NatLessThanWellFounded, WFMin, Zenon
<1>2. \A y \in T : ~(y < x)
  BY <1>1 DEF OpToRel
<1> QED
  BY <1>2

\* A set that has 0, and with each number below m the next one, has all up to m.
LEMMA IntervalInduction ==
    ASSUME NEW m \in Nat, NEW T, 0 \in T, \A n \in 0 .. m : n \in T /\ n < m => n + 1 \in T
    PROVE  \A n \in 0 .. m : n \in T
<1> SUFFICES ASSUME NEW k \in 0 .. m, k \notin T PROVE FALSE
  OBVIOUS
<1> DEFINE bad == (0 .. m) \ T
<1>1. PICK x \in bad : \A y \in bad : x <= y
  <2>1. bad \subseteq Nat /\ bad # {}
    OBVIOUS
  <2> HIDE DEF bad
  <2> QED
    BY <2>1, LeastNatural
<1>2. x # 0 /\ x - 1 \in 0 .. m /\ x - 1 \notin bad
  BY <1>1
<1> QED
  BY <1>1, <1>2
=============================================================================
