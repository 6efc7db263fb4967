------------------------------- MODULE Shamir -------------------------------
(***************************************************************************)
(* Shamir secret sharing over GF(256) (crypto/shamir.rs).  The code treats *)
(* the 32 bytes of a secret one by one; here a secret is one byte.  A byte *)
(* is the set of its bits that are one, so ^ is symmetric difference and   *)
(* shifting moves the bits.                                                *)
(***************************************************************************)
EXTENDS Integers, Sequences, FiniteSets, Functions

Bit  == 0 .. 7
Byte == SUBSET Bit
Zero == {}
One  == {0}

(* The bits of a number that fits a u8.                                    *)
U8(v) == {i \in Bit : (v \div 2^i) % 2 = 1}

gf_add(a, b) == (a \ b) \cup (b \ a)

(* One round of the multiplication moves a to a * x and drops the low bit  *)
(* of b.  (The variant drops the carry instead of reducing.)               *)
Shifted(a) == {i + 1 : i \in a \ {7}}
Doubled(a) == IF 7 \in a THEN gf_add(Shifted(a), {0, 1, 3, 4}) ELSE Shifted(a)
Halved(b)  == {i - 1 : i \in b \ {0}}

Round(s) ==
  [a      |-> Doubled(s.a),
   b      |-> Halved(s.b),
   result |-> IF 0 \in s.b THEN gf_add(s.result, s.a) ELSE s.result]

Rounds(x, y) ==
  LET round[k \in 0 .. 8] ==
        IF k = 0 THEN [a |-> x, b |-> y, result |-> Zero] ELSE Round(round[k - 1])
  IN  round[8].result
gf_mul(x, y) ==
  LET product[p \in Byte \X Byte] == Rounds(p[1], p[2]) IN product[<<x, y>>]

(* gf_inv: a^254 as a^252 * a^2.  (The variant leaves the last factor out.) *)
Power252(a) ==
  LET a4   == gf_mul(gf_mul(a, a), gf_mul(a, a))
      a8   == gf_mul(a4, a4)
      a16  == gf_mul(a8, a8)
      a32  == gf_mul(a16, a16)
      a64  == gf_mul(a32, a32)
      a128 == gf_mul(a64, a64)
  IN  gf_mul(gf_mul(gf_mul(gf_mul(gf_mul(a128, a64), a32), a16), a8), a4)
gf_inv(a) == IF a = Zero THEN Zero ELSE gf_mul(Power252(a), gf_mul(a, a))

-----------------------------------------------------------------------------
(* Horner evaluation of c1 + c2 x + ... at x.  (The variant forgets the    *)
(* leading coefficient.)                                                   *)
Horner(coeffs, x, leading) ==
  LET t == Len(coeffs)
      acc[j \in 1 .. t] ==
        IF j = t THEN leading ELSE gf_add(gf_mul(acc[j + 1], x), coeffs[j])
  IN  acc[1]
LowerTerms(coeffs, x) == Horner(coeffs, x, Zero)
Evaluate(coeffs, x)   == Horner(coeffs, x, coeffs[Len(coeffs)])

(* split, its random coefficients given: coeffs[1] is the secret.          *)
SplitAccepts(t, n) == t # 0 /\ n # 0 /\ t <= n
Split(coeffs, n)   == [x \in 1 .. n |-> [id |-> x, value |-> Evaluate(coeffs, U8(x))]]

(* The product of all factors but the i-th.                                *)
ProductBut(factors, i) ==
  LET product[j \in 0 .. Len(factors)] ==
        IF j = 0 THEN One
        ELSE IF j = i THEN product[j - 1] ELSE gf_mul(product[j - 1], factors[j])
  IN  product[Len(factors)]

(* The Lagrange basis polynomial of the i-th of the points xs at 0.        *)
Basis(xs, i) ==
  gf_mul(ProductBut(xs, i),
         gf_inv(ProductBut([j \in DOMAIN xs |-> gf_add(xs[i], xs[j])], i)))

(* The value at 0 of the polynomial through (xs[i], ys[i]).                *)
Interpolate(xs, ys) ==
  LET acc[i \in 0 .. Len(xs)] ==
        IF i = 0 THEN Zero ELSE gf_add(acc[i - 1], gf_mul(ys[i], Basis(xs, i)))
  IN  acc[Len(xs)]

Value(v)  == [status |-> "ok", value |-> v]
Error(e)  == [status |-> e, value |-> Zero]

(* combine: the first threshold shares decide.                             *)
Combine(shares, threshold) ==
  IF threshold = 0 THEN Error("ZeroThresholdOrShares")
  ELSE IF Len(shares) < threshold THEN Error("NotEnoughShares")
  ELSE IF \E i \in DOMAIN shares : shares[i].id = 0 THEN Error("InvalidShareId")
  ELSE IF ~IsInjective([i \in DOMAIN shares |-> shares[i].id]) THEN Error("DuplicateShareId")
  ELSE Value(Interpolate([i \in 1 .. threshold |-> U8(shares[i].id)],
                         [i \in 1 .. threshold |-> shares[i].value]))

=============================================================================
