-------------------------- MODULE FieldArithmetic --------------------------
(***************************************************************************)
(* The arithmetic of crypto/shamir.rs against the definition of GF(2^8):   *)
(* polynomials over GF(2), here sets of exponents, multiplied and divided  *)
(* by x^8 + x^4 + x^3 + x + 1.  The states are pairs of operands.          *)
(***************************************************************************)
EXTENDS Shamir

CONSTANTS Left, Right     \* the operands tried
ASSUME OperandsAssumption == Left \subseteq Byte /\ Right \subseteq Byte

VARIABLES a, b, picked

vars == <<a, b, picked>>

Init == a = Zero /\ b = Zero /\ picked = 0

PickLeft  == picked = 0 /\ picked' = 1 /\ a' \in Left /\ UNCHANGED b
PickRight == picked = 1 /\ picked' = 2 /\ b' \in Right /\ UNCHANGED a

Next == PickLeft \/ PickRight
Spec == Init /\ [][Next]_vars

PolyAdd(P, Q) == (P \ Q) \cup (Q \ P)
PolyMul(P, Q) == {k \in 0 .. 14 : Cardinality({i \in P : k - i \in Q}) % 2 = 1}
Modulus       == {8, 4, 3, 1, 0}

(* What is left of P after division by the modulus.                        *)
Remainder(P, r) == \E q \in SUBSET (0 .. 6) : P = PolyAdd(PolyMul(q, Modulus), r)

(* The eight-round multiplication is multiplication in the field (gf_mul), *)
(* and the addition chain ends at the inverse (gf_inv): multiplying by it, *)
(* as combine does with its denominators, undoes multiplying.              *)
ArithmeticIsOfTheField ==
  /\ Remainder(PolyMul(a, b), gf_mul(a, b))
  /\ a # Zero => gf_mul(gf_mul(b, a), gf_inv(a)) = b

=============================================================================
