----------------------------- MODULE NatLemmas -----------------------------
(***************************************************************************)
(* What the proof about key chains needs of the naturals: where a          *)
(* statement about all places of a sequence would be shown by induction,   *)
(* it looks at the least place that the statement fails at.                *)
(***************************************************************************)
EXTENDS Naturals, WellFoundedInduction, TLAPS

(* A set of naturals that is not empty has a least element: the order of   *)
(* the naturals is well-founded.                                           *)
LEMMA Least ==
  ASSUME NEW T, T \subseteq Nat, T # {}
  PROVE  \E x \in T : \A y \in T : x <= y
<1>1. PICK Less : Less = {p \in Nat \X Nat : p[1] < p[2]}
  OBVIOUS
<1>2. OpToRel(<, Nat) = Less
  BY <1>1 DEF OpToRel
<1>3. IsWellFoundedOn(Less, Nat)
  <2>1. IsWellFoundedOn(OpToRel(<, Nat), Nat)
    BY NatLessThanWellFounded
  <2>2. QED
    BY <1>2, <2>1
<1>4. PICK x \in T : \A y \in T : ~(<<y, x>> \in Less)
  BY <1>3, WFMin
<1>5. ASSUME NEW y \in T PROVE x <= y
  <2>1. x \in Nat /\ y \in Nat /\ <<y, x>> \in Nat \X Nat
    OBVIOUS
  <2>2. ~(y < x)
    BY <1>1, <1>4, <2>1
  <2>3. QED
    BY <2>1, <2>2
<1>6. QED
  BY <1>5
=============================================================================
