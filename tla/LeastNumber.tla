---------------------------- MODULE LeastNumber ----------------------------
(***************************************************************************)
(* Natural numbers for the proofs of this project: induction, in the form  *)
(* of facts about sets, which the provers can use as they are, and         *)
(* division.                                                               *)
(***************************************************************************)
EXTENDS Integers, WellFoundedInduction, TLAPS

(* A set of naturals that is not empty has a least element.                *)
LEMMA LeastElement ==
    ASSUME NEW T \in SUBSET Nat, T # {}
    PROVE  \E x \in T : \A y \in T : x <= y
<1>1. PICK x \in T : \A y \in T : ~(<<y, x>> \in OpToRel(<, Nat))
    BY WFMin, NatLessThanWellFounded, Zenon
<1>2. ASSUME NEW y \in T, y < x
      PROVE  FALSE
    <2>1. <<y, x>> \in OpToRel(<, Nat)
        BY <1>2 DEF OpToRel
    <2> QED
        BY <1>1, <2>1, Zenon
<1> QED
    BY <1>2

(* A set with 0 in it, and with n + 1 whenever n is, holds every natural.  *)
LEMMA SetInduction ==
    ASSUME NEW T, 0 \in T, \A n \in Nat : n \in T => n + 1 \in T
    PROVE  \A n \in Nat : n \in T
<1> SUFFICES ASSUME Nat \ T # {} PROVE FALSE
    OBVIOUS
<1>1. PICK x \in Nat \ T : \A y \in Nat \ T : x <= y
    BY LeastElement
<1>2. x # 0 /\ x - 1 \in Nat /\ x - 1 + 1 = x
    OBVIOUS
<1>3. x - 1 \in T
    BY <1>1, <1>2
<1> QED
    BY <1>2, <1>3

-----------------------------------------------------------------------------
(* Division of natural numbers.                                            *)
LEMMA DivMod ==
    ASSUME NEW u \in Nat, NEW d \in Nat \ {0}
    PROVE  u \div d \in Nat /\ u % d \in 0 .. d - 1 /\ u = d * (u \div d) + (u % d)
OBVIOUS

LEMMA MultiplesApart ==
    ASSUME NEW d \in Nat, NEW a \in Nat, NEW b \in Nat, a + 1 <= b
    PROVE  d * a + d <= d * b
<1>1. PICK e \in Nat : b = a + 1 + e
    BY b - a - 1 \in Nat
<1>2. d * b = d * a + d + d * e
    BY <1>1
<1>3. d * e \in Nat /\ d * a \in Nat
    OBVIOUS
<1> QED
    BY <1>2, <1>3

LEMMA DivUnique ==
    ASSUME NEW u \in Nat, NEW d \in Nat \ {0}, NEW q \in Nat, NEW r \in 0 .. d - 1,
           u = d * q + r
    PROVE  u \div d = q /\ u % d = r
<1>1. PICK p \in Nat, s \in 0 .. d - 1 : p = u \div d /\ s = u % d /\ u = d * p + s
    BY DivMod
<1>2. d * q \in Nat /\ d * p \in Nat
    OBVIOUS
<1>3. p = q
    <2>1. CASE p + 1 <= q
        BY <1>1, <1>2, <2>1, MultiplesApart
    <2>2. CASE q + 1 <= p
        BY <1>1, <1>2, <2>2, MultiplesApart
    <2> QED
        BY <2>1, <2>2
<1> QED
    BY <1>1, <1>2, <1>3
=============================================================================
