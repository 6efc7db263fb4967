----------------------- MODULE FieldArithmeticProofs ------------------------
(***************************************************************************)
(* About FieldArithmetic: gf_mul is multiplication of polynomials modulo   *)
(* x^8 + x^4 + x^3 + x + 1, for all operands, by dividing step by step as  *)
(* the rounds of gf_mul do.                                                *)
(***************************************************************************)
EXTENDS FieldArithmetic, ShamirProofs, FiniteSetTheorems

-----------------------------------------------------------------------------
(* Products of polynomials.                                                *)

Odd(S) == Cardinality(S) % 2 = 1

(* What lies in one of two sets only is odd in number if one of the two    *)
(* is.                                                                     *)
LEMMA OddAdds ==
  ASSUME NEW A, NEW B, IsFiniteSet(A), IsFiniteSet(B)
  PROVE  Odd(PolyAdd(A, B)) <=> (Odd(A) <=> ~Odd(B))
<1> DEFINE c == Cardinality(A \cap B)
<1>1. /\ IsFiniteSet(A \ B) /\ IsFiniteSet(B \ A) /\ IsFiniteSet(A \cap B)
      /\ Cardinality(A \ B) = Cardinality(A) - c
      /\ Cardinality(B \ A) = Cardinality(B) - c
  <2>1. Cardinality(B \ A) = Cardinality(B) - Cardinality(B \cap A)
    BY FS_Difference
  <2>2. B \cap A = A \cap B
    OBVIOUS
  <2>3. IsFiniteSet(A \ B) /\ IsFiniteSet(B \ A) /\ IsFiniteSet(A \cap B)
    BY FS_Difference, FS_Intersection
  <2> QED BY <2>1, <2>2, <2>3, FS_Difference
<1>2. (A \ B) \cap (B \ A) = {}
  OBVIOUS
<1>3. Cardinality(PolyAdd(A, B)) = Cardinality(A \ B) + Cardinality(B \ A)
  <2>1. Cardinality((A \ B) \cap (B \ A)) = 0
    BY <1>2, FS_EmptySet
  <2>2. Cardinality((A \ B) \cup (B \ A))
          = Cardinality(A \ B) + Cardinality(B \ A) - Cardinality((A \ B) \cap (B \ A))
    BY <1>1, FS_Union
  <2>3. Cardinality(A \ B) \in Nat /\ Cardinality(B \ A) \in Nat
    BY <1>1, FS_CardinalityType
  <2> QED BY <2>1, <2>2, <2>3 DEF PolyAdd
<1>4. Cardinality(A) \in Nat /\ Cardinality(B) \in Nat /\ c \in Nat
  BY <1>1, FS_CardinalityType
<1>5. Cardinality(PolyAdd(A, B)) = Cardinality(A) + Cardinality(B) - 2 * c
  BY <1>1, <1>3, <1>4
<1> HIDE DEF c
<1>6. PICK m \in Nat, n \in Nat : m = Cardinality(A) /\ n = Cardinality(B)
  BY <1>4
<1>7. (m + n - 2 * c) % 2 = 1 <=> (m % 2 = 1 <=> ~(n % 2 = 1))
  BY <1>4
<1> QED BY <1>5, <1>6, <1>7 DEF Odd

(* The polynomials below degree 15 are finite.                             *)
LEMMA Limited == \A P \in SUBSET (0 .. 14) : IsFiniteSet(P)
<1>1. IsFiniteSet(0 .. 14)
  <2>1. \A x, y \in Int : IsFiniteSet(x .. y)
    BY FS_Interval
  <2>2. \E x, y \in Int : x = 0 /\ y = 14
    OBVIOUS
  <2> QED BY <2>1, <2>2
<1> QED BY <1>1, FS_Subset

(* The pairs of exponents that add up to k.                                *)
Pairs(P, Q, k) == {i \in P : k - i \in Q}

(* A coefficient of a product is the parity of the pairs that make it.     *)
LEMMA MulPairs == \A P, Q, k : k \in PolyMul(P, Q) <=> (k \in 0 .. 14 /\ Odd(Pairs(P, Q, k)))
BY DEF PolyMul, Odd, Pairs

(* The coefficients of a sum.                                              *)
LEMMA PolyAddBits == \A P, Q, e : e \in PolyAdd(P, Q) <=> (e \in P <=> e \notin Q)
BY DEF PolyAdd

(* A product distributes over a sum on its right.                          *)
LEMMA PolyMulAddsRight ==
  ASSUME NEW P \in SUBSET (0 .. 14), NEW Q, NEW R
  PROVE  PolyMul(P, PolyAdd(Q, R)) = PolyAdd(PolyMul(P, Q), PolyMul(P, R))
<1>1. ASSUME NEW k \in 0 .. 14
      PROVE  Odd(Pairs(P, PolyAdd(Q, R), k)) <=> (Odd(Pairs(P, Q, k)) <=> ~Odd(Pairs(P, R, k)))
  <2>1. Pairs(P, PolyAdd(Q, R), k) = PolyAdd(Pairs(P, Q, k), Pairs(P, R, k))
    BY DEF Pairs, PolyAdd
  <2>2. IsFiniteSet(Pairs(P, Q, k)) /\ IsFiniteSet(Pairs(P, R, k))
    BY Limited DEF Pairs
  <2> QED BY <2>1, <2>2, OddAdds
<1>2. \A k : k \in PolyMul(P, PolyAdd(Q, R)) <=> (k \in PolyMul(P, Q) <=> k \notin PolyMul(P, R))
  BY <1>1, MulPairs
<1> QED BY <1>2, PolyAddBits DEF PolyAdd

(* And on its left.                                                        *)
LEMMA PolyMulAddsLeft ==
  ASSUME NEW P \in SUBSET (0 .. 14), NEW Q \in SUBSET (0 .. 14), NEW R
  PROVE  PolyMul(PolyAdd(P, Q), R) = PolyAdd(PolyMul(P, R), PolyMul(Q, R))
<1>1. ASSUME NEW k \in 0 .. 14
      PROVE  Odd(Pairs(PolyAdd(P, Q), R, k)) <=> (Odd(Pairs(P, R, k)) <=> ~Odd(Pairs(Q, R, k)))
  <2>1. Pairs(PolyAdd(P, Q), R, k) = PolyAdd(Pairs(P, R, k), Pairs(Q, R, k))
    BY DEF Pairs, PolyAdd
  <2>2. IsFiniteSet(Pairs(P, R, k)) /\ IsFiniteSet(Pairs(Q, R, k))
    BY Limited DEF Pairs
  <2> QED BY <2>1, <2>2, OddAdds
<1>2. \A k : k \in PolyMul(PolyAdd(P, Q), R) <=> (k \in PolyMul(P, R) <=> k \notin PolyMul(Q, R))
  BY <1>1, MulPairs
<1> QED BY <1>2, PolyAddBits DEF PolyAdd

(* Multiplying by a power of x moves the exponents.                        *)
LEMMA PolyMulPower ==
  ASSUME NEW P \in SUBSET (0 .. 14), NEW m \in 0 .. 14, NEW k \in 0 .. 14
  PROVE  k \in PolyMul(P, {m}) <=> k - m \in P
<1>1. k - m \in Int /\ m \in Int /\ \A i \in P : i \in Int
  OBVIOUS
<1>2. \A i \in Int : k - i = m <=> i = k - m
  OBVIOUS
<1>3. \A i : i \in Pairs(P, {m}, k) <=> i \in P /\ i = k - m
  BY <1>1, <1>2 DEF Pairs
<1>4. CASE k - m \in P
  <2>1. Pairs(P, {m}, k) = {k - m}
    BY <1>3, <1>4
  <2>2. Cardinality({k - m}) = 1
    BY FS_Singleton
  <2>3. Odd(Pairs(P, {m}, k))
    <3>1. 1 % 2 = 1
      OBVIOUS
    <3> QED BY <2>1, <2>2, <3>1 DEF Odd
  <2> QED BY <1>4, <2>3, MulPairs
<1>5. CASE k - m \notin P
  <2>1. Pairs(P, {m}, k) = {}
    BY <1>3, <1>5
  <2>2. Cardinality({}) = 0
    BY FS_EmptySet
  <2>3. ~Odd(Pairs(P, {m}, k))
    BY <2>1, <2>2 DEF Odd
  <2> QED BY <1>5, <2>3, MulPairs
<1> QED BY <1>4, <1>5

(* A multiple of the modulus, coefficient by coefficient.                  *)
LEMMA PolyMulModulus ==
  ASSUME NEW q \in SUBSET (0 .. 14), NEW k \in 0 .. 14
  PROVE  k \in PolyMul(q, Modulus) <=>
           ((((k - 8 \in q <=> k - 4 \notin q) <=> k - 3 \notin q) <=> k - 1 \notin q) <=> k \notin q)
<1> DEFINE M1 == PolyAdd({8}, {4})
           M2 == PolyAdd(M1, {3})
           M3 == PolyAdd(M2, {1})
<1>1. Modulus = PolyAdd(M3, {0})
  BY DEF Modulus, PolyAdd
<1>2. /\ k \in PolyMul(q, {8}) <=> k - 8 \in q
      /\ k \in PolyMul(q, {4}) <=> k - 4 \in q
      /\ k \in PolyMul(q, {3}) <=> k - 3 \in q
      /\ k \in PolyMul(q, {1}) <=> k - 1 \in q
      /\ k \in PolyMul(q, {0}) <=> k \in q
  BY PolyMulPower
<1>3. /\ PolyMul(q, Modulus) = PolyAdd(PolyMul(q, M3), PolyMul(q, {0}))
      /\ PolyMul(q, M3) = PolyAdd(PolyMul(q, M2), PolyMul(q, {1}))
      /\ PolyMul(q, M2) = PolyAdd(PolyMul(q, M1), PolyMul(q, {3}))
      /\ PolyMul(q, M1) = PolyAdd(PolyMul(q, {8}), PolyMul(q, {4}))
  BY <1>1, PolyMulAddsRight
<1> HIDE DEF M1, M2, M3
<1> QED BY <1>2, <1>3, PolyAddBits

(* x^i times a polynomial, divided by the modulus one doubling at a time:  *)
(* q is the quotient and p the remainder.                                  *)
DividesTo(P, i, q, p) ==
  /\ q \in SUBSET (0 .. i - 1)
  /\ \A k \in 0 .. 14 :
       k \in PolyMul(P, {i}) <=> (k \in PolyMul(q, Modulus) <=> k \notin p)

(* One doubling more is one step of the division more.                     *)
LEMMA DivisionStep ==
  ASSUME NEW P \in Byte, NEW i \in 0 .. 6, NEW q, NEW p \in Byte, DividesTo(P, i, q, p)
  PROVE  \E r : DividesTo(P, i + 1, r, Doubled(p))
<1> DEFINE r == {j + 1 : j \in q} \cup (IF 7 \in p THEN {0} ELSE {})
           d == Doubled(p)
<1>1. q \in SUBSET (0 .. i - 1) /\ r \in SUBSET (0 .. (i + 1) - 1)
  BY DEF DividesTo
<1>2. \A j \in Int : j \in r <=> (j - 1 \in q \/ (j = 0 /\ 7 \in p))
  <2> TAKE j \in Int
  <2>1. \A l \in q : l \in Int /\ l >= 0
    BY <1>1
  <2>2. (\E l \in q : j = l + 1) <=> j - 1 \in q
    BY <2>1
  <2> QED BY <2>2
<1>3. q \in SUBSET (0 .. 14) /\ r \in SUBSET (0 .. 14) /\ P \in SUBSET (0 .. 14)
      /\ i \in 0 .. 14 /\ i + 1 \in 0 .. 14
  BY <1>1 DEF Byte, Bit
<1>4. \A j : j \in q => j \in 0 .. 5
  BY <1>1
<1> HIDE DEF r
<1>5. ASSUME NEW k \in 0 .. 14
      PROVE  k \in PolyMul(P, {i + 1}) <=> (k \in PolyMul(r, Modulus) <=> k \notin d)
  <2>1. k \in PolyMul(P, {i + 1}) <=> k - (i + 1) \in P
    BY <1>3, PolyMulPower
  <2>2. k \in PolyMul(r, Modulus) <=>
          ((((k - 8 \in r <=> k - 4 \notin r) <=> k - 3 \notin r) <=> k - 1 \notin r) <=> k \notin r)
    BY <1>3, PolyMulModulus
  <2>3. CASE k = 0
    <3>1. k - (i + 1) \notin P
      BY <2>3 DEF Byte, Bit
    <3>2. k - 8 \notin r /\ k - 4 \notin r /\ k - 3 \notin r /\ k - 1 \notin r /\ (k \in r <=> 7 \in p)
      BY <1>1, <1>2, <1>4, <2>3
    <3>3. k \in d <=> 7 \in p
      BY <2>3, DoubledBits
    <3> QED BY <2>1, <2>2, <3>1, <3>2, <3>3
  <2>4. CASE k # 0
    <3>1. k - 1 \in 0 .. 14 /\ (k - 1) - i = k - (i + 1)
      BY <2>4
    <3>2. k - 1 \in PolyMul(P, {i}) <=> k - (i + 1) \in P
      <4>1. k - 1 \in PolyMul(P, {i}) <=> (k - 1) - i \in P
        BY <1>3, <3>1, PolyMulPower
      <4> QED BY <3>1, <4>1
    <3>3. k - 1 \in PolyMul(P, {i}) <=> (k - 1 \in PolyMul(q, Modulus) <=> k - 1 \notin p)
      BY <3>1 DEF DividesTo
    <3>4. k - 1 \in PolyMul(q, Modulus) <=>
            ((((k - 9 \in q <=> k - 5 \notin q) <=> k - 4 \notin q) <=> k - 2 \notin q) <=> k - 1 \notin q)
      <4>1. (k - 1) - 8 = k - 9 /\ (k - 1) - 4 = k - 5 /\ (k - 1) - 3 = k - 4 /\ (k - 1) - 1 = k - 2
        OBVIOUS
      <4>2. k - 1 \in PolyMul(q, Modulus) <=>
              (((((k - 1) - 8 \in q <=> (k - 1) - 4 \notin q) <=> (k - 1) - 3 \notin q)
                  <=> (k - 1) - 1 \notin q) <=> k - 1 \notin q)
        BY <1>3, <3>1, PolyMulModulus
      <4> QED BY <4>1, <4>2
    <3>5. /\ k - 8 \in r <=> (k - 9 \in q \/ (k = 8 /\ 7 \in p))
          /\ k - 4 \in r <=> (k - 5 \in q \/ (k = 4 /\ 7 \in p))
          /\ k - 3 \in r <=> (k - 4 \in q \/ (k = 3 /\ 7 \in p))
          /\ k - 1 \in r <=> (k - 2 \in q \/ (k = 1 /\ 7 \in p))
          /\ k \in r <=> k - 1 \in q
      <4>1. /\ k - 8 \in Int /\ (k - 8) - 1 = k - 9 /\ k - 4 \in Int /\ (k - 4) - 1 = k - 5
            /\ k - 3 \in Int /\ (k - 3) - 1 = k - 4 /\ k - 1 \in Int /\ (k - 1) - 1 = k - 2
            /\ k \in Int
        OBVIOUS
      <4>2. /\ k - 8 = 0 <=> k = 8
            /\ k - 4 = 0 <=> k = 4
            /\ k - 3 = 0 <=> k = 3
            /\ k - 1 = 0 <=> k = 1
        OBVIOUS
      <4> QED BY <1>2, <2>4, <4>1, <4>2
    <3>6. /\ k = 8 => k - 9 \notin q
          /\ k = 4 => k - 5 \notin q
          /\ k = 3 => k - 4 \notin q
          /\ k = 1 => k - 2 \notin q
      BY <1>4
    <3>7. k \in d <=> (k - 1 \in p <=> ~(k \in {1, 3, 4, 8} /\ 7 \in p))
      <4>1. CASE k \in 1 .. 7
        <5>1. k \in {1, 2, 3, 4, 5, 6, 7}
          BY <4>1
        <5> QED BY <5>1, DoubledBits
      <4>2. CASE k \notin 1 .. 7
        <5>1. k \notin d
          BY <2>4, <4>2, DoubledTyped DEF Byte, Bit
        <5>2. k - 1 \in p <=> (k = 8 /\ 7 \in p)
          BY <2>4, <4>2 DEF Byte, Bit
        <5>3. k \in {1, 3, 4, 8} <=> k = 8
          BY <4>2
        <5> QED BY <5>1, <5>2, <5>3
      <4> QED BY <4>1, <4>2
    <3> HIDE DEF d
    <3>8. k - (i + 1) \in P <=> (k - 1 \in PolyMul(q, Modulus) <=> k - 1 \notin p)
      BY <3>2, <3>3
    <3>9. CASE k \in {1, 3, 4, 8}
      <4>1. \/ k = 1 /\ k # 3 /\ k # 4 /\ k # 8
            \/ k # 1 /\ k = 3 /\ k # 4 /\ k # 8
            \/ k # 1 /\ k # 3 /\ k = 4 /\ k # 8
            \/ k # 1 /\ k # 3 /\ k # 4 /\ k = 8
        BY <3>9
      <4> QED BY <2>1, <2>2, <3>4, <3>5, <3>6, <3>7, <3>8, <3>9, <4>1
    <3>10. CASE k \notin {1, 3, 4, 8}
      <4>1. k # 1 /\ k # 3 /\ k # 4 /\ k # 8
        BY <3>10
      <4> QED BY <2>1, <2>2, <3>4, <3>5, <3>7, <3>8, <3>10, <4>1
    <3> QED BY <3>9, <3>10
  <2> QED BY <2>3, <2>4
<1> QED BY <1>1, <1>5 DEF DividesTo

(* Every x^i that gf_mul multiplies by.                                    *)
LEMMA DivisionOfPowers ==
  ASSUME NEW P \in Byte, NEW p, Doublings(p, P)
  PROVE  \A i \in 0 .. 7 : \E q : DividesTo(P, i, q, p[i])
<1> DEFINE T == {i \in 0 .. 7 : \E q : DividesTo(P, i, q, p[i])}
<1>1. 0 \in T
  <2>1. P \in SUBSET (0 .. 14) /\ p[0] = P /\ {} \in SUBSET (0 .. 14)
    BY DEF Byte, Bit, Doublings
  <2>2. \A k \in 0 .. 14 : k \in PolyMul(P, {0}) <=> k \in P
    <3> TAKE k \in 0 .. 14
    <3>1. k - 0 = k
      OBVIOUS
    <3>2. k \in PolyMul(P, {0}) <=> k - 0 \in P
      BY <2>1, PolyMulPower
    <3> QED BY <3>1, <3>2
  <2>3. \A k \in 0 .. 14 : k \notin PolyMul({}, Modulus)
    BY <2>1, PolyMulModulus
  <2>4. DividesTo(P, 0, {}, p[0])
    BY <2>1, <2>2, <2>3 DEF DividesTo
  <2> QED BY <2>4
<1>2. ASSUME NEW i \in 1 .. 7, i - 1 \in T PROVE i \in T
  <2>1. PICK q : DividesTo(P, i - 1, q, p[i - 1])
    BY <1>2
  <2>2. i - 1 \in 0 .. 6 /\ (i - 1) + 1 = i /\ i - 1 \in 0 .. 7
    OBVIOUS
  <2>3. p[i - 1] \in Byte /\ p[i] = Doubled(p[i - 1])
    BY <2>2 DEF Doublings
  <2>4. \E r : DividesTo(P, (i - 1) + 1, r, Doubled(p[i - 1]))
    BY <2>1, <2>2, <2>3, DivisionStep
  <2> QED BY <2>2, <2>3, <2>4
<1> HIDE DEF T
<1>3. \A i \in 0 .. 7 : i \in T
  BY <1>1, <1>2, Forwards
<1> QED BY <1>3 DEF T

(* gf_mul is what is left of the product after division by the modulus.    *)
LEMMA MulIsRemainder ==
  ASSUME NEW x \in Byte, NEW y \in Byte
  PROVE  Remainder(PolyMul(x, y), gf_mul(x, y))
<1>1. PICK p : Doublings(p, x)
  BY DoublingsExist
<1> DEFINE quotient(i) == CHOOSE q : DividesTo(x, i, q, p[i])
           qs == [i \in 0 .. 7 |-> quotient(i)]
           f  == [z \in Byte |-> PolyMul(x, z)]
           g  == [z \in Byte |-> PolyMul(z, Modulus)]
           fs == [i \in 0 .. 7 |-> f[Powers[i]]]
           gs == [i \in 0 .. 7 |-> g[qs[i]]]
           q  == Sum8(y, qs)
<1>2. \A i \in 0 .. 7 : DividesTo(x, i, qs[i], p[i])
  BY <1>1, DivisionOfPowers
<1>3. \A z \in Byte : f[z] = PolyMul(x, z) /\ g[z] = PolyMul(z, Modulus)
  OBVIOUS
<1>4. \A i \in 0 .. 7 : fs[i] = f[Powers[i]] /\ gs[i] = g[qs[i]]
  OBVIOUS
<1> HIDE DEF qs, f, g, fs, gs
<1>5. \A i \in 0 .. 7 : /\ qs[i] \in Byte /\ qs[i] \in SUBSET (0 .. 6)
                        /\ Powers[i] \in Byte /\ Powers[i] = {i}
                        /\ p[i] \in Byte
  <2> TAKE i \in 0 .. 7
  <2>1. qs[i] \in SUBSET (0 .. i - 1)
    BY <1>2 DEF DividesTo
  <2>2. qs[i] \in SUBSET (0 .. 6)
    BY <2>1
  <2> QED BY <1>1, <2>2 DEF Byte, Bit, Powers, Doublings
<1>6. /\ x \in SUBSET (0 .. 14)
      /\ \A z \in Byte : z \in SUBSET (0 .. 14)
      /\ \A P, Q : gf_add(P, Q) = PolyAdd(P, Q)
  BY DEF Byte, Bit, gf_add, PolyAdd
<1>7. Additive(f) /\ Additive(g)
  <2>1. f[Zero] = Zero /\ g[Zero] = Zero
    <3>1. \A k : k \notin PolyMul(x, Zero)
      <4>1. \A k : Pairs(x, Zero, k) = {}
        BY DEF Pairs, Zero
      <4> QED BY <4>1, MulPairs, FS_EmptySet DEF Odd
    <3>2. \A k : k \notin PolyMul(Zero, Modulus)
      <4>1. \A k : Pairs(Zero, Modulus, k) = {}
        BY DEF Pairs, Zero
      <4> QED BY <4>1, MulPairs, FS_EmptySet DEF Odd
    <3> QED BY <1>3, <3>1, <3>2, ZeroOne DEF Zero
  <2>2. \A z, w \in Byte : f[gf_add(z, w)] = gf_add(f[z], f[w])
    BY <1>3, <1>6, AddTyped, PolyMulAddsRight
  <2>3. \A z, w \in Byte : g[gf_add(z, w)] = gf_add(g[z], g[w])
    BY <1>3, <1>6, AddTyped, PolyMulAddsLeft
  <2> QED BY <2>1, <2>2, <2>3 DEF Additive
<1>8. PolyMul(x, y) = Sum8(y, fs)
  <2>1. f[Sum8(y, Powers)] = Sum8(y, fs)
    BY <1>4, <1>5, <1>7, SumMapped
  <2> QED BY <1>3, <2>1, PowersAre
<1>9. q \in Byte /\ q \in SUBSET (0 .. 6) /\ PolyMul(q, Modulus) = Sum8(y, gs)
  <2>1. q \in Byte
    BY <1>5, Sum8Typed
  <2>2. 7 \notin q
    <3>1. \A i \in 0 .. 7 : 7 \notin Term(y, qs, i)
      BY <1>5 DEF Term, Zero
    <3> QED BY <3>1, AddBits DEF Sum8
  <2>3. q \in SUBSET (0 .. 6)
    <3> HIDE DEF q
    <3> QED BY <2>1, <2>2 DEF Byte, Bit
  <2>4. g[q] = Sum8(y, gs)
    BY <1>4, <1>5, <1>7, SumMapped
  <2> QED BY <1>3, <2>1, <2>3, <2>4
<1>10. \A i \in 0 .. 7 : fs[i] = gf_add(gs[i], p[i])
  <2> TAKE i \in 0 .. 7
  <2>1. fs[i] = PolyMul(x, {i}) /\ gs[i] = PolyMul(qs[i], Modulus)
    BY <1>3, <1>4, <1>5
  <2>2. \A k \in 0 .. 14 : k \in fs[i] <=> (k \in gs[i] <=> k \notin p[i])
    BY <1>2, <2>1 DEF DividesTo
  <2>3. \A k : (k \in fs[i] \/ k \in gs[i] \/ k \in p[i]) => k \in 0 .. 14
    <3>1. p[i] \in SUBSET (0 .. 14)
      BY <1>5, <1>6
    <3>2. fs[i] \subseteq 0 .. 14 /\ gs[i] \subseteq 0 .. 14
      BY <2>1 DEF PolyMul
    <3> QED BY <3>1, <3>2
  <2>4. \A k : k \in fs[i] <=> k \in gf_add(gs[i], p[i])
    BY <2>2, <2>3, AddBits
  <2>5. gf_add(gs[i], p[i]) \subseteq fs[i] /\ fs[i] \subseteq gf_add(gs[i], p[i])
    BY <2>4
  <2> QED BY <2>5
<1>11. Sum8(y, fs) = gf_add(Sum8(y, gs), Sum8(y, p))
  <2>1. \A i \in 0 .. 7 : Term(y, fs, i) = gf_add(Term(y, gs, i), Term(y, p, i))
    BY <1>10, AddSelf DEF Term
  <2> QED BY <2>1, SumsAdd
<1>12. gf_mul(x, y) = Sum8(y, p)
  BY <1>1, MulIs
<1> QED BY <1>6, <1>8, <1>9, <1>11, <1>12 DEF Remainder

-----------------------------------------------------------------------------
(* The operands are bytes.                                                 *)
OperandsInv == a \in Byte /\ b \in Byte

(* The multiplication of the code is multiplication in GF(2^8), and its    *)
(* addition chain ends at the inverse, for all operands (gf_mul, gf_inv).  *)
THEOREM FieldIsGF256 == Spec => []ArithmeticIsOfTheField
<1>1. Init => OperandsInv
  BY ZeroOne DEF Init, OperandsInv
<1>2. OperandsInv /\ [Next]_vars => OperandsInv'
  BY OperandsAssumption DEF OperandsInv, Next, PickLeft, PickRight, vars
<1>3. OperandsInv => ArithmeticIsOfTheField
  BY MulIsRemainder, Undone DEF OperandsInv, ArithmeticIsOfTheField
<1> QED BY <1>1, <1>2, <1>3, PTL DEF Spec

=============================================================================
