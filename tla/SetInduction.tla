---------------------------- MODULE SetInduction ----------------------------
(***************************************************************************)
(* Induction over the natural numbers for sets.  The provers instantiate   *)
(* no operator variable, so the library's NatInduction is out of their     *)
(* reach; what a set holds they can use, and that a set of naturals has a  *)
(* least element (WFMin) is enough.                                        *)
(***************************************************************************)
EXTENDS Integers, WellFoundedInduction, TLAPS

(* A set of naturals that is not empty has a least element.                *)
LEMMA LeastElement ==
    ASSUME NEW T \in SUBSET Nat, T # {}
    PROVE  \E x \in T : \A y \in T : x <= y
<1>1. PICK x \in T : \A y \in T : ~(<<y, x>> \in OpToRel(<, Nat))
    BY WFMin, NatLessThanWellFounded
<1>2. \A y \in T : ~(y < x)
    BY <1>1 DEF OpToRel
<1> QED BY <1>2

(* A set of naturals that is bounded and not empty has a greatest element. *)
LEMMA GreatestElement ==
    ASSUME NEW T \in SUBSET Nat, T # {}, NEW b \in Nat, \A x \in T : x <= b
    PROVE  \E x \in T : \A y \in T : y <= x
<1> DEFINE U == {u \in Nat : \A x \in T : x <= u}
<1>1. U \in SUBSET Nat /\ b \in U
    OBVIOUS
<1>2. PICK u \in U : \A y \in U : u <= y
  <2> HIDE DEF U
  <2> QED BY <1>1, LeastElement
<1>3. ASSUME u \notin T PROVE FALSE
  <2>1. PICK t \in T : TRUE
      OBVIOUS
  <2>2. t <= u /\ t # u
      BY <1>3, <2>1
  <2>3. u - 1 \in Nat /\ \A x \in T : x <= u - 1
      BY <1>3, <2>2
  <2> QED BY <1>2, <2>3
<1> QED BY <1>3

LEMMA NatSetInduction ==
    ASSUME NEW S, 0 \in S, \A n \in Nat : n \in S => n + 1 \in S
    PROVE  \A n \in Nat : n \in S
<1> DEFINE T == Nat \ S
<1> SUFFICES ASSUME T # {} PROVE FALSE
    OBVIOUS
<1>1. PICK x \in T : \A y \in T : x <= y
  <2>1. T \in SUBSET Nat
      OBVIOUS
  <2> HIDE DEF T
  <2> QED BY <2>1, LeastElement
<1>2. x - 1 \in Nat /\ ~(x <= x - 1)
    OBVIOUS
<1> QED BY <1>1, <1>2
=============================================================================
