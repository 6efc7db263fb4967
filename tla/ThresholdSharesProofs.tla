----------------------- MODULE ThresholdSharesProofs ------------------------
(***************************************************************************)
(* About ThresholdShares: a quorum opens, only what was sealed opens, and  *)
(* fewer shares hide the secret, for all schemes, secrets and random       *)
(* coefficients, any number of splits and of stanzas harmed in any way.    *)
(***************************************************************************)
EXTENDS ThresholdShares, ShamirProofs, FiniteSetTheorems

-----------------------------------------------------------------------------
(* The polynomial with another secret.                                     *)

(* What is added to the coefficients, after k points.                      *)
NextMask(f, r) == [j \in DOMAIN f |-> IF j = 1 THEN f[1] ELSE gf_add(f[j], gf_mul(f[j - 1], r))]
FirstMask(coeffs, secret) ==
  [j \in DOMAIN coeffs |-> IF j = 1 THEN gf_add(secret, coeffs[1]) ELSE Zero]

Masks(mask, t, coeffs, xs, secret) ==
  /\ mask[0] = FirstMask(coeffs, secret)
  /\ \A k \in 1 .. Len(xs) : mask[k] = NextMask(mask[k - 1], gf_inv(xs[k]))
  /\ \A k \in 0 .. Len(xs) : mask[k] \in Lists(t)

(* The next mask has as many coefficients, and is (1 + r x) times the one  *)
(* before.                                                                 *)
LEMMA NextMaskTyped ==
  ASSUME NEW t \in Nat \ {0}, NEW f \in Lists(t), NEW r \in Byte
  PROVE  NextMask(f, r) \in Lists(t) /\ IsGrown(NextMask(f, r), f, r, t)
<1>1. DOMAIN f = 1 .. t /\ 1 \in 1 .. t /\ \A j \in 1 .. t : f[j] \in Byte
  BY DEF Lists
<1>2. \A j \in 2 .. t : j \in 1 .. t /\ j - 1 \in 1 .. t /\ j # 1
  OBVIOUS
<1>3. \A j \in 1 .. t : j = 1 \/ j \in 2 .. t
  OBVIOUS
<1>4. ASSUME NEW j \in 1 .. t
      PROVE  (IF j = 1 THEN f[1] ELSE gf_add(f[j], gf_mul(f[j - 1], r))) \in Byte
  <2>1. CASE j = 1
    BY <1>1, <2>1
  <2>2. CASE j \in 2 .. t
    <3>1. gf_mul(f[j - 1], r) \in Byte
      BY <1>1, <1>2, <2>2, MulTyped
    <3> QED BY <1>1, <1>2, <2>2, <3>1, AddTyped
  <2> QED BY <1>3, <2>1, <2>2
<1>5. NextMask(f, r) \in Lists(t)
  BY <1>1, <1>4 DEF NextMask, Lists
<1>6. IsGrown(NextMask(f, r), f, r, t)
  BY <1>1, <1>2 DEF NextMask, IsGrown
<1> QED BY <1>5, <1>6

(* So has the first.                                                       *)
LEMMA FirstMaskTyped ==
  ASSUME NEW t \in Nat \ {0}, NEW coeffs \in Lists(t), NEW secret \in Byte
  PROVE  FirstMask(coeffs, secret) \in Lists(t)
<1>1. DOMAIN coeffs = 1 .. t /\ 1 \in 1 .. t /\ coeffs[1] \in Byte
  BY DEF Lists
<1>2. gf_add(secret, coeffs[1]) \in Byte
  BY <1>1, AddTyped
<1> QED BY <1>1, <1>2, ZeroOne DEF FirstMask, Lists

(* other is coeffs and the last of n masks.                                *)
AddsMask(other, t, n, coeffs, xs, secret) ==
  \E mask : /\ Masks(mask, t, coeffs, xs, secret)
            /\ other = [j \in 1 .. t |-> gf_add(coeffs[j], mask[n][j])]

(* Alibi adds the last mask.                                               *)
LEMMA AlibiMasks ==
  ASSUME NEW t \in Nat \ {0}, NEW coeffs \in Lists(t), NEW secret \in Byte,
         NEW n \in Nat, NEW xs \in [1 .. n -> Byte]
  PROVE  AddsMask(Alibi(coeffs, xs, secret), t, n, coeffs, xs, secret)
<1>0. Len(xs) = n /\ DOMAIN coeffs = 1 .. t
  BY ListLength DEF Lists
<1> DEFINE body(h, k) ==
             [j \in DOMAIN coeffs |->
               IF k = 0 THEN IF j = 1 THEN gf_add(secret, coeffs[1]) ELSE Zero
               ELSE IF j = 1 THEN h[k - 1][1]
               ELSE gf_add(h[k - 1][j], gf_mul(h[k - 1][j - 1], gf_inv(xs[k])))]
           Is(h) == h = [k \in 0 .. Len(xs) |-> body(h, k)]
           g == CHOOSE h : Is(h)
           step == [k \in 1 .. n |-> [f \in Lists(t) |-> NextMask(f, gf_inv(xs[k]))]]
           first == FirstMask(coeffs, secret)
<1>1. Alibi(coeffs, xs, secret) = [j \in DOMAIN coeffs |-> gf_add(coeffs[j], g[Len(xs)][j])]
  BY DEF Alibi
<1> HIDE DEF g
<1>2. \A k \in 1 .. n : gf_inv(xs[k]) \in Byte
  BY InverseMul
<1>3. step \in Steps(n, Lists(t)) /\ \A k \in 1 .. n : \A f \in Lists(t) :
                                       step[k][f] = NextMask(f, gf_inv(xs[k]))
  <2>1. \A k \in 1 .. n : \A f \in Lists(t) : NextMask(f, gf_inv(xs[k])) \in Lists(t)
    BY <1>2, NextMaskTyped
  <2> QED BY <2>1 DEF Steps
<1>4. first \in Lists(t)
  BY FirstMaskTyped
<1> HIDE DEF step
<1>5. PICK f : Loops(f, n, Lists(t), first, step)
  BY <1>3, <1>4, LoopDefined
<1>6. /\ f \in [0 .. n -> Lists(t)] /\ f[0] = first
      /\ \A k \in 1 .. n : f[k] = step[k][f[k - 1]]
  BY <1>5 DEF Loops
<1>7. \A k \in 1 .. n : k - 1 \in 0 .. n
  OBVIOUS
<1>8. \A k \in 1 .. n : f[k] = NextMask(f[k - 1], gf_inv(xs[k]))
  BY <1>3, <1>6, <1>7
<1>9. \A h : body(h, 0) = first
  BY DEF FirstMask
<1>10. ASSUME NEW h, NEW k \in 1 .. n, h[k - 1] \in Lists(t)
       PROVE  body(h, k) = NextMask(h[k - 1], gf_inv(xs[k]))
  <2>1. k # 0 /\ DOMAIN h[k - 1] = 1 .. t
    BY <1>10 DEF Lists
  <2> QED BY <1>0, <2>1 DEF NextMask
<1> HIDE DEF body
<1>11. \A k \in 0 .. n : f[k] = body(f, k)
  <2> TAKE k \in 0 .. n
  <2>1. CASE k = 0
    BY <1>6, <1>9, <2>1
  <2>2. CASE k # 0
    <3>1. k \in 1 .. n /\ f[k - 1] \in Lists(t)
      BY <1>6, <2>2
    <3> QED BY <1>8, <1>10, <3>1
  <2> QED BY <2>1, <2>2
<1>12. Is(g)
  <2>1. f = [k \in 0 .. n |-> f[k]]
    BY <1>6
  <2>2. Is(f)
    BY <1>0, <1>11, <2>1
  <2> HIDE DEF Is
  <2> QED BY <2>2 DEF g
<1>13. \A k \in 0 .. n : g[k] = body(g, k)
  BY <1>0, <1>12
<1> DEFINE T == {k \in 0 .. n : g[k] = f[k]}
<1>14. 0 \in T
  BY <1>6, <1>9, <1>13
<1>15. ASSUME NEW k \in 1 .. n, k - 1 \in T PROVE k \in T
  <2>1. k \in 0 .. n /\ k - 1 \in 0 .. n
    OBVIOUS
  <2>2. g[k - 1] = f[k - 1] /\ g[k - 1] \in Lists(t)
    BY <1>6, <1>15, <2>1
  <2>3. g[k] = NextMask(g[k - 1], gf_inv(xs[k]))
    BY <1>10, <1>13, <2>1, <2>2
  <2> QED BY <1>8, <2>1, <2>2, <2>3
<1> HIDE DEF T
<1>16. n \in T
  <2>1. \A k \in 0 .. n : k \in T
    BY <1>14, <1>15, Forwards
  <2> QED BY <2>1
<1>17. g[n] = f[n]
  BY <1>16 DEF T
<1>18. Masks(f, t, coeffs, xs, secret)
  BY <1>0, <1>6, <1>8 DEF Masks
<1>19. Alibi(coeffs, xs, secret) = [j \in 1 .. t |-> gf_add(coeffs[j], f[n][j])]
  BY <1>0, <1>1, <1>17
<1> QED BY <1>18, <1>19 DEF AddsMask

(* Each mask is zero at the points it was made for, and has only as many   *)
(* coefficients as it needs.                                               *)
LEMMA MasksVanish ==
  ASSUME NEW t \in Nat \ {0}, NEW coeffs \in Lists(t), NEW secret \in Byte,
         NEW n \in Nat, n < t, NEW xs \in [1 .. n -> Byte \ {Zero}],
         NEW mask, Masks(mask, t, coeffs, xs, secret)
  PROVE  /\ mask[n][1] = gf_add(secret, coeffs[1])
         /\ \A i \in 1 .. n : Evaluate(mask[n], xs[i]) = Zero
<1>0. Len(xs) = n /\ xs \in [1 .. n -> Byte] /\ DOMAIN coeffs = 1 .. t
  BY ListLength DEF Lists
<1>1. /\ mask[0] = FirstMask(coeffs, secret)
      /\ \A k \in 1 .. n : mask[k] = NextMask(mask[k - 1], gf_inv(xs[k]))
      /\ \A k \in 0 .. n : mask[k] \in Lists(t)
  BY <1>0 DEF Masks
<1>2. \A k \in 1 .. n : xs[k] \in Byte /\ xs[k] # Zero /\ gf_inv(xs[k]) \in Byte
  BY InverseMul
<1>3. \A j \in 1 .. t : mask[0][j] = IF j = 1 THEN gf_add(secret, coeffs[1]) ELSE Zero
  BY <1>0, <1>1 DEF FirstMask
<1> DEFINE Short(k) == \A j \in k + 2 .. t : mask[k][j] = Zero
           Gone(k)  == \A i \in 1 .. k : Evaluate(mask[k], xs[i]) = Zero
           T == {k \in 0 .. n : /\ mask[k][1] = gf_add(secret, coeffs[1])
                                /\ Short(k) /\ Gone(k)}
<1>4. 0 \in T
  <2>1. 1 \in 1 .. t /\ \A j \in 0 + 2 .. t : j \in 1 .. t /\ j # 1
    OBVIOUS
  <2> QED BY <1>3, <2>1
<1>5. ASSUME NEW k \in 1 .. n, k - 1 \in T PROVE k \in T
  <2> DEFINE f == mask[k - 1]
             h == mask[k]
             r == gf_inv(xs[k])
  <2>1. /\ k - 1 \in 0 .. n /\ k \in 0 .. n /\ t \in (k - 1) + 2 .. t
        /\ \A j \in k + 2 .. t : j \in 2 .. t /\ j \in (k - 1) + 2 .. t /\ j - 1 \in (k - 1) + 2 .. t
        /\ \A i \in 1 .. k : i \in 1 .. n /\ (i = k \/ i \in 1 .. k - 1)
    OBVIOUS
  <2>2. f \in Lists(t) /\ h \in Lists(t) /\ r \in Byte /\ h = NextMask(f, r)
    BY <1>1, <1>2, <2>1
  <2>3. Short(k - 1) /\ Gone(k - 1) /\ f[1] = gf_add(secret, coeffs[1])
    BY <1>5
  <2>4. f[t] = Zero
    BY <2>1, <2>3
  <2>5. IsGrown(h, f, r, t)
    BY <2>2, NextMaskTyped
  <2>6. h[1] = gf_add(secret, coeffs[1])
    BY <2>3, <2>5 DEF IsGrown
  <2>7. Short(k)
    <3> SUFFICES ASSUME NEW j \in k + 2 .. t PROVE h[j] = Zero
      OBVIOUS
    <3>1. f[j] = Zero /\ f[j - 1] = Zero
      BY <2>1, <2>3
    <3>2. h[j] = gf_add(f[j], gf_mul(f[j - 1], r))
      BY <2>1, <2>5 DEF IsGrown
    <3> QED BY <2>2, <3>1, <3>2, ZeroMul, AddSelf
  <2> HIDE DEF f, h, r
  <2>8. ASSUME NEW i \in 1 .. k PROVE Evaluate(h, xs[i]) = Zero
    <3> DEFINE x == xs[i]
               v == Evaluate(f, x)
    <3>1. x \in Byte
      BY <1>2, <2>1
    <3>2. v \in Byte /\ Evaluate(h, x) = gf_add(v, gf_mul(gf_mul(v, r), x))
      BY <2>2, <2>4, <2>5, <3>1, RunsOf, EvaluateGrown
    <3>3. CASE i = k
      <4>1. gf_mul(gf_mul(v, r), x) = gf_mul(gf_mul(v, x), r)
        BY <2>2, <3>1, <3>2, MulRight
      <4>2. gf_mul(gf_mul(v, x), r) = v
        BY <1>2, <3>1, <3>2, <3>3, Undone DEF r
      <4> QED BY <3>2, <4>1, <4>2, AddSelf
    <3>4. CASE i # k
      <4>1. v = Zero
        BY <2>1, <2>3, <3>4 DEF f
      <4> QED BY <2>2, <3>1, <3>2, <4>1, ZeroMul, AddSelf
    <3> QED BY <3>3, <3>4
  <2>9. Gone(k)
    BY <2>8 DEF h
  <2> QED BY <2>1, <2>6, <2>7, <2>9 DEF h
<1> HIDE DEF T
<1>6. n \in T
  <2>1. \A k \in 0 .. n : k \in T
    BY <1>4, <1>5, Forwards
  <2> QED BY <2>1
<1> QED BY <1>6 DEF T

(* The other polynomial has the other secret and the same values.          *)
LEMMA AlibiHolds ==
  ASSUME NEW t \in Nat \ {0}, NEW coeffs \in Lists(t), NEW secret \in Byte,
         NEW n \in Nat, n < t, NEW xs \in [1 .. n -> Byte \ {Zero}]
  PROVE  /\ Alibi(coeffs, xs, secret) \in Lists(t)
         /\ Alibi(coeffs, xs, secret)[1] = secret
         /\ \A i \in 1 .. n : Evaluate(Alibi(coeffs, xs, secret), xs[i]) = Evaluate(coeffs, xs[i])
<1> DEFINE a == Alibi(coeffs, xs, secret)
<1>0. xs \in [1 .. n -> Byte] /\ 1 \in 1 .. t /\ n \in 0 .. n
  OBVIOUS
<1>1. PICK mask : /\ Masks(mask, t, coeffs, xs, secret)
                  /\ a = [j \in 1 .. t |-> gf_add(coeffs[j], mask[n][j])]
  <2>1. AddsMask(a, t, n, coeffs, xs, secret)
    BY <1>0, AlibiMasks
  <2> QED BY <2>1 DEF AddsMask
<1> HIDE DEF a
<1>2. mask[n] \in Lists(t)
  BY <1>0, <1>1, ListLength DEF Masks
<1>3. mask[n][1] = gf_add(secret, coeffs[1]) /\ \A i \in 1 .. n : Evaluate(mask[n], xs[i]) = Zero
  BY <1>1, MasksVanish
<1>4. a \in Lists(t) /\ AreSums(a, coeffs, mask[n], t)
  BY <1>1, <1>2, AddTyped DEF Lists, AreSums
<1>5. a[1] = secret
  <2>1. a[1] = gf_add(coeffs[1], gf_add(secret, coeffs[1]))
    BY <1>0, <1>1, <1>3
  <2> QED BY <2>1, AddComm, AddCancel
<1>6. ASSUME NEW i \in 1 .. n PROVE Evaluate(a, xs[i]) = Evaluate(coeffs, xs[i])
  <2>1. Evaluate(a, xs[i]) = gf_add(Evaluate(coeffs, xs[i]), Evaluate(mask[n], xs[i]))
    BY <1>0, <1>2, <1>4, EvaluateAdds
  <2> QED BY <1>3, <2>1, AddSelf
<1> QED BY <1>4, <1>5, <1>6 DEF a

(* Exchanging the secrets twice gives back the coefficients.               *)
LEMMA AlibiReturns ==
  ASSUME NEW t \in Nat \ {0}, NEW coeffs \in Lists(t), NEW secret \in Byte,
         NEW n \in Nat, n < t, NEW xs \in [1 .. n -> Byte \ {Zero}]
  PROVE  Alibi(Alibi(coeffs, xs, secret), xs, coeffs[1]) = coeffs
<1> DEFINE a == Alibi(coeffs, xs, secret)
           b == Alibi(a, xs, coeffs[1])
<1>0. /\ xs \in [1 .. n -> Byte] /\ 1 \in 1 .. t /\ n \in 0 .. n
      /\ coeffs \in [1 .. t -> Byte] /\ coeffs[1] \in Byte
  BY DEF Lists
<1>1. a \in Lists(t) /\ a[1] = secret
  BY AlibiHolds
<1>2. AddsMask(a, t, n, coeffs, xs, secret)
  BY <1>0, AlibiMasks
<1> HIDE DEF a
<1>3. AddsMask(b, t, n, a, xs, coeffs[1])
  BY <1>0, <1>1, AlibiMasks
<1> HIDE DEF b
<1>4. PICK p : /\ Masks(p, t, coeffs, xs, secret)
               /\ a = [j \in 1 .. t |-> gf_add(coeffs[j], p[n][j])]
  BY <1>2 DEF AddsMask
<1>5. PICK q : /\ Masks(q, t, a, xs, coeffs[1])
               /\ b = [j \in 1 .. t |-> gf_add(a[j], q[n][j])]
  BY <1>3 DEF AddsMask
<1>6. p[n] = q[n]
  <2>1. Len(xs) = n /\ DOMAIN a = 1 .. t /\ DOMAIN coeffs = 1 .. t
    BY <1>0, <1>1, ListLength DEF Lists
  <2>2. /\ p[0] = FirstMask(coeffs, secret) /\ q[0] = FirstMask(a, coeffs[1])
        /\ \A k \in 1 .. n : /\ p[k] = NextMask(p[k - 1], gf_inv(xs[k]))
                             /\ q[k] = NextMask(q[k - 1], gf_inv(xs[k]))
    BY <1>4, <1>5, <2>1 DEF Masks
  <2> DEFINE T == {k \in 0 .. n : p[k] = q[k]}
  <2>3. 0 \in T
    <3>1. gf_add(secret, coeffs[1]) = gf_add(coeffs[1], a[1])
      BY <1>1, AddComm
    <3> QED BY <2>1, <2>2, <3>1 DEF FirstMask
  <2>4. ASSUME NEW k \in 1 .. n, k - 1 \in T PROVE k \in T
    BY <2>2, <2>4
  <2> HIDE DEF T
  <2>5. \A k \in 0 .. n : k \in T
    BY <2>3, <2>4, Forwards
  <2>6. n \in T
    BY <2>5
  <2> QED BY <2>6 DEF T
<1>7. \A j \in 1 .. t : b[j] = coeffs[j]
  BY <1>4, <1>5, <1>6, AddCancel
<1>8. b = [j \in 1 .. t |-> b[j]] /\ coeffs = [j \in 1 .. t |-> coeffs[j]]
  BY <1>0, <1>5
<1> QED BY <1>7, <1>8 DEF a, b

-----------------------------------------------------------------------------
(* The state.                                                              *)

(* A split as seal makes it.                                               *)
IsMade(s) ==
  /\ s.t \in 1 .. 255
  /\ s.n \in s.t .. 255
  /\ s.coeffs \in Lists(s.t)
  /\ s.stanzas = Stanzas(s.coeffs, s.n, s.context)

IsPlaced(p) ==
  /\ p.split \in 1 .. Len(splits)
  /\ p.place \in 1 .. splits[p.split].n
  /\ p.harm \in Harms

IsSequence(s) == s \in Seq(Range(s))

(* The splits are well made and what is presented comes from them.         *)
Typed ==
  /\ IsSequence(splits) /\ \A k \in 1 .. Len(splits) : IsMade(splits[k])
  /\ IsSequence(presented) /\ \A i \in 1 .. Len(presented) : IsPlaced(presented[i])

(* Nothing is sealed once something is presented.                          *)
Phases ==
  /\ Len(presented) > 0 => Len(splits) = MaxSplits
  /\ result # Unopened => Len(presented) > 0

(* The i-th stanza of a split.                                             *)
LEMMA MadeStanza ==
  ASSUME NEW s, IsMade(s), NEW i \in 1 .. s.n
  PROVE  s.stanzas[i] = [id |-> i, t |-> s.t, n |-> s.n, kek |-> i,
                         aad |-> <<s.context, i, s.t, s.n>>,
                         value |-> Evaluate(s.coeffs, U8(i)),
                         version |-> 1, intact |-> TRUE]
<1>0. s.t \in 1 .. 255 /\ s.coeffs \in Lists(s.t)
  BY DEF IsMade
<1>1. s.coeffs \in [1 .. s.t -> Byte] /\ s.t \in Nat /\ s.stanzas = Stanzas(s.coeffs, s.n, s.context)
  <2>1. \A m \in 1 .. 255 : m \in Nat
    OBVIOUS
  <2> QED BY <1>0, <2>1 DEF IsMade, Lists
<1>2. Len(s.coeffs) = s.t
  BY <1>1, ListLength
<1>3. Split(s.coeffs, s.n)[i] = [id |-> i, value |-> Evaluate(s.coeffs, U8(i))]
  BY DEF Split
<1> DEFINE sh == Split(s.coeffs, s.n)
<1>4. Stanzas(s.coeffs, s.n, s.context)
        = [j \in 1 .. s.n |-> [id |-> sh[j].id, t |-> s.t, n |-> s.n, kek |-> sh[j].id,
                               aad |-> <<s.context, sh[j].id, s.t, s.n>>,
                               value |-> sh[j].value, version |-> 1, intact |-> TRUE]]
  BY <1>2, Zenon DEF Stanzas, ShareAad
<1> HIDE DEF sh
<1>5. sh[i].id = i /\ sh[i].value = Evaluate(s.coeffs, U8(i))
  BY <1>3 DEF sh
<1> QED BY <1>1, <1>4, <1>5

(* A split has n stanzas.                                                  *)
LEMMA MadeDomain == ASSUME NEW s, IsMade(s) PROVE DOMAIN s.stanzas = 1 .. s.n
BY DEF IsMade, Stanzas

(* What EXCEPT leaves of a stanza.                                         *)
LEMMA Excepts ==
  ASSUME NEW i, NEW t, NEW n, NEW k, NEW a, NEW v, NEW w, NEW b, NEW c, NEW t2, NEW i2, NEW w2
  PROVE  LET y == [id |-> i, t |-> t, n |-> n, kek |-> k, aad |-> a, value |-> v,
                   version |-> w, intact |-> b]
         IN [y EXCEPT !.intact = c, !.version = w2, !.t = t2, !.id = i2]
             = [id |-> i2, t |-> t2, n |-> n, kek |-> k, aad |-> a, value |-> v,
                version |-> w2, intact |-> c]
<1> DEFINE R(p, q, x, z) == [id |-> p, t |-> q, n |-> n, kek |-> k, aad |-> a, value |-> v,
                       version |-> x, intact |-> z]
<1>1. [R(i, t, w, b) EXCEPT !.intact = c] = R(i, t, w, c)
  OBVIOUS
<1>2. [R(i, t, w, c) EXCEPT !.version = w2] = R(i, t, w2, c)
  OBVIOUS
<1>3. [R(i, t, w2, c) EXCEPT !.t = t2] = R(i, t2, w2, c)
  OBVIOUS
<1>4. [R(i, t2, w2, c) EXCEPT !.id = i2] = R(i2, t2, w2, c)
  OBVIOUS
<1> HIDE DEF R
<1>5. [R(i, t, w, b) EXCEPT !.intact = c, !.version = w2, !.t = t2, !.id = i2] = R(i2, t2, w2, c)
  BY <1>1, <1>2, <1>3, <1>4, Zenon
<1> QED BY <1>5, Zenon DEF R

(* What became of a stanza.                                                *)
LEMMA HarmedIs ==
  ASSUME NEW i, NEW t, NEW n, NEW a, NEW v, NEW h
  PROVE  Harmed([id |-> i, t |-> t, n |-> n, kek |-> i, aad |-> a, value |-> v,
                   version |-> 1, intact |-> TRUE], h)
          = [id |-> IF h = "id" THEN (i + 1) % 256 ELSE i,
             t |-> IF h = "threshold" THEN t - 1 ELSE t,
            n |-> n, kek |-> i, aad |-> a, value |-> v,
                version |-> IF h = "version" THEN 2 ELSE 1, intact |-> h # "ciphertext"]
<1> DEFINE y == [id |-> i, t |-> t, n |-> n, kek |-> i, aad |-> a, value |-> v,
                   version |-> 1, intact |-> TRUE]
<1>1. y.version = 1 /\ y.t = t /\ y.id = i
  OBVIOUS
<1> HIDE DEF y
<1>2. Harmed(y, h) = [y EXCEPT !.intact = (h # "ciphertext"), !.version = IF h = "version" THEN 2 ELSE 1,
            !.t       = IF h = "threshold" THEN t - 1 ELSE t,
            !.id      = IF h = "id" THEN (i + 1) % 256 ELSE i]
  BY <1>1, Zenon DEF Harmed
<1>3. QED BY <1>2, Excepts, Zenon DEF y

(* What a stanza is, after what happened to it.                            *)
LEMMA StanzaIs ==
  ASSUME Typed, NEW i \in 1 .. Len(presented)
  PROVE  LET p == presented[i]
             s == splits[p.split]
             x == Stanza(p)
         IN  /\ IsMade(s) /\ p.place \in 1 .. s.n
             /\ x.version = IF p.harm = "version" THEN 2 ELSE 1
             /\ x.intact = (p.harm # "ciphertext")
             /\ x.t = IF p.harm = "threshold" THEN s.t - 1 ELSE s.t
             /\ x.id = IF p.harm = "id" THEN (p.place + 1) % 256 ELSE p.place
             /\ x.n = s.n /\ x.kek = p.place
             /\ x.aad = <<s.context, p.place, s.t, s.n>>
             /\ x.value = Evaluate(s.coeffs, U8(p.place))
<1> DEFINE p == presented[i]
           s == splits[p.split]
           y == s.stanzas[p.place]
<1>1. IsPlaced(p)
  BY DEF Typed
<1>2. IsMade(s) /\ p.place \in 1 .. s.n
  BY <1>1 DEF Typed, IsPlaced
<1>3. y = [id |-> p.place, t |-> s.t, n |-> s.n, kek |-> p.place,
           aad |-> <<s.context, p.place, s.t, s.n>>,
           value |-> Evaluate(s.coeffs, U8(p.place)),
           version |-> 1, intact |-> TRUE]
  BY <1>2, MadeStanza
<1>4. Stanza(p) = Harmed(y, p.harm)
  BY DEF Stanza
<1> HIDE DEF p, s, y
<1>5. Harmed(y, p.harm) =
        [id |-> IF p.harm = "id" THEN (p.place + 1) % 256 ELSE p.place,
         t |-> IF p.harm = "threshold" THEN s.t - 1 ELSE s.t, n |-> s.n, kek |-> p.place,
         aad |-> <<s.context, p.place, s.t, s.n>>,
         value |-> Evaluate(s.coeffs, U8(p.place)),
         version |-> IF p.harm = "version" THEN 2 ELSE 1, intact |-> p.harm # "ciphertext"]
  <2>1. Harmed([id |-> p.place, t |-> s.t, n |-> s.n, kek |-> p.place,
                aad |-> <<s.context, p.place, s.t, s.n>>,
                value |-> Evaluate(s.coeffs, U8(p.place)),
                version |-> 1, intact |-> TRUE], p.harm) =
        [id |-> IF p.harm = "id" THEN (p.place + 1) % 256 ELSE p.place,
         t |-> IF p.harm = "threshold" THEN s.t - 1 ELSE s.t, n |-> s.n, kek |-> p.place,
         aad |-> <<s.context, p.place, s.t, s.n>>,
         value |-> Evaluate(s.coeffs, U8(p.place)),
         version |-> IF p.harm = "version" THEN 2 ELSE 1, intact |-> p.harm # "ciphertext"]
    BY HarmedIs
  <2> QED BY <1>3, <2>1, Zenon
<1>6. /\ Stanza(p).version = IF p.harm = "version" THEN 2 ELSE 1
      /\ Stanza(p).intact = (p.harm # "ciphertext")
      /\ Stanza(p).t = IF p.harm = "threshold" THEN s.t - 1 ELSE s.t
      /\ Stanza(p).id = IF p.harm = "id" THEN (p.place + 1) % 256 ELSE p.place
      /\ Stanza(p).n = s.n /\ Stanza(p).kek = p.place
      /\ Stanza(p).aad = <<s.context, p.place, s.t, s.n>>
      /\ Stanza(p).value = Evaluate(s.coeffs, U8(p.place))
  BY <1>4, <1>5
<1> QED BY <1>2, <1>6 DEF p, s

-----------------------------------------------------------------------------
(* The stanzas that are collected.                                         *)

TakenTo(i) == {j \in 1 .. i : presented[j].harm # "version"}

(* Each was presented, and none is left out or taken twice.                *)
Indexes(pos, c, i) ==
  /\ c \in Seq({Stanza(presented[j]) : j \in 1 .. Len(presented)})
  /\ pos \in [1 .. Len(c) -> TakenTo(i)]
  /\ \A a, b \in 1 .. Len(c) : pos[a] = pos[b] => a = b
  /\ \A j \in TakenTo(i) : \E a \in 1 .. Len(c) : pos[a] = j
  /\ \A a \in 1 .. Len(c) : c[a] = Stanza(presented[pos[a]])

(* One stanza more is collected, or passed over.                           *)
LEMMA IndexesNext ==
  ASSUME Typed, NEW i \in 1 .. Len(presented), NEW pos, NEW c, Indexes(pos, c, i - 1)
  PROVE  LET d == IF StanzaParses(Stanza(presented[i]))
                  THEN Append(c, Stanza(presented[i])) ELSE c
         IN  \E q : Indexes(q, d, i)
<1> DEFINE S == {Stanza(presented[j]) : j \in 1 .. Len(presented)}
           x == Stanza(presented[i])
<1>0. Len(presented) \in Nat
  BY DEF Typed, IsSequence
<1>1. StanzaParses(x) <=> presented[i].harm # "version"
  BY StanzaIs DEF StanzaParses
<1>2. /\ c \in Seq(S)
      /\ pos \in [1 .. Len(c) -> TakenTo(i - 1)]
      /\ \A a, b \in 1 .. Len(c) : pos[a] = pos[b] => a = b
      /\ \A j \in TakenTo(i - 1) : \E a \in 1 .. Len(c) : pos[a] = j
      /\ \A a \in 1 .. Len(c) : c[a] = Stanza(presented[pos[a]])
  BY DEF Indexes
<1>3. x \in S
  BY <1>0
<1> HIDE DEF S, x
<1>4. Len(c) \in Nat
  BY <1>2
<1>5. \A j \in TakenTo(i - 1) : j \in 1 .. i - 1 /\ j # i
  BY <1>0 DEF TakenTo
<1>6. CASE StanzaParses(x)
  <2> DEFINE d == Append(c, x)
             m == Len(c) + 1
             q == [a \in 1 .. m |-> IF a = m THEN i ELSE pos[a]]
  <2>1. /\ d \in Seq(S) /\ Len(d) = m /\ d[m] = x
        /\ \A a \in 1 .. Len(c) : d[a] = c[a]
    BY <1>2, <1>3
  <2>2. TakenTo(i) = TakenTo(i - 1) \cup {i}
    BY <1>0, <1>1, <1>6 DEF TakenTo
  <2>3. \A a \in 1 .. m : a = m \/ (a \in 1 .. Len(c) /\ a # m)
    BY <1>4
  <2>4. m \in 1 .. m /\ \A a \in 1 .. Len(c) : a \in 1 .. m /\ a # m
    BY <1>4
  <2>5. q[m] = i /\ \A a \in 1 .. Len(c) : q[a] = pos[a] /\ pos[a] \in TakenTo(i - 1)
    BY <1>2, <2>4
  <2>6. q \in [1 .. m -> TakenTo(i)]
    BY <1>2, <2>2, <2>3
  <2> HIDE DEF d, m, q
  <2>7. \A a, b \in 1 .. m : q[a] = q[b] => a = b
    BY <1>2, <1>5, <2>3, <2>5
  <2>8. \A j \in TakenTo(i) : \E a \in 1 .. m : q[a] = j
    BY <1>2, <2>2, <2>4, <2>5
  <2>9. \A a \in 1 .. m : d[a] = Stanza(presented[q[a]])
    BY <1>2, <2>1, <2>3, <2>5 DEF x
  <2>10. Indexes(q, d, i)
    BY <2>1, <2>6, <2>7, <2>8, <2>9 DEF Indexes, S
  <2> QED BY <1>6, <2>10 DEF d, x
<1>7. CASE ~StanzaParses(x)
  <2>1. TakenTo(i) = TakenTo(i - 1)
    BY <1>0, <1>1, <1>7 DEF TakenTo
  <2>2. Indexes(pos, c, i)
    BY <2>1 DEF Indexes
  <2> QED BY <1>7, <2>2 DEF x
<1> QED BY <1>6, <1>7

(* Collected has exactly the stanzas that are to be taken.                 *)
LEMMA CollectedIs ==
  ASSUME Typed
  PROVE  \E pos : Indexes(pos, Collected, Len(presented))
<1> DEFINE n == Len(presented)
           S == {Stanza(presented[j]) : j \in 1 .. n}
           body(h, i) == IF i = 0 THEN <<>>
                         ELSE IF StanzaParses(Stanza(presented[i]))
                         THEN Append(h[i - 1], Stanza(presented[i])) ELSE h[i - 1]
           Is(h) == h = [i \in 0 .. n |-> body(h, i)]
           g == CHOOSE h : Is(h)
           step == [i \in 1 .. n |-> [s \in Seq(S) |->
                      IF StanzaParses(Stanza(presented[i]))
                      THEN Append(s, Stanza(presented[i])) ELSE s]]
<1>0. n \in Nat
  BY DEF Typed, IsSequence
<1>1. Collected = g[n]
  BY DEF Collected
<1> HIDE DEF g
<1>2. step \in Steps(n, Seq(S))
  <2>1. ASSUME NEW i \in 1 .. n, NEW s \in Seq(S)
        PROVE  (IF StanzaParses(Stanza(presented[i]))
                THEN Append(s, Stanza(presented[i])) ELSE s) \in Seq(S)
    <3>1. Stanza(presented[i]) \in S
      OBVIOUS
    <3> HIDE DEF S
    <3> QED BY <3>1
  <2> HIDE DEF S
  <2> QED BY <2>1 DEF Steps
<1>3. \A i \in 1 .. n : \A s \in Seq(S) :
        step[i][s] = IF StanzaParses(Stanza(presented[i]))
                     THEN Append(s, Stanza(presented[i])) ELSE s
  OBVIOUS
<1>4. <<>> \in Seq(S)
  OBVIOUS
<1> HIDE DEF step, S
<1>5. PICK f : Loops(f, n, Seq(S), <<>>, step)
  BY <1>0, <1>2, <1>4, LoopDefined
<1>6. /\ f \in [0 .. n -> Seq(S)] /\ f[0] = <<>>
      /\ \A i \in 1 .. n : f[i] = step[i][f[i - 1]]
  BY <1>5 DEF Loops
<1>7. ASSUME NEW i \in 0 .. n PROVE f[i] = body(f, i)
  <2>1. CASE i = 0
    BY <1>6, <2>1
  <2>2. CASE i # 0
    <3>1. i \in 1 .. n /\ i - 1 \in 0 .. n
      BY <1>0, <2>2
    <3>2. f[i - 1] \in Seq(S) /\ f[i] = step[i][f[i - 1]]
      BY <1>6, <3>1
    <3> QED BY <1>3, <2>2, <3>1, <3>2
  <2> QED BY <2>1, <2>2
<1> HIDE DEF n
<1>8. Is(g)
  <2>1. f = [i \in 0 .. n |-> f[i]]
    BY <1>6
  <2> HIDE DEF body
  <2>2. Is(f)
    BY <1>7, <2>1
  <2> HIDE DEF Is
  <2> QED BY <2>2 DEF g
<1>9. \A i \in 0 .. n : g[i] = body(g, i)
  <2> HIDE DEF body
  <2> QED BY <1>8
<1> DEFINE T == {i \in 0 .. n : \E pos : Indexes(pos, g[i], i)}
<1>10. 0 \in T
  <2>1. g[0] = <<>> /\ 0 \in 0 .. n
    BY <1>0, <1>9
  <2>2. TakenTo(0) = {}
    BY DEF TakenTo
  <2>3. Len(<<>>) = 0 /\ 1 .. 0 = {}
    OBVIOUS
  <2>4. [a \in {} |-> 0] \in [{} -> {}]
    OBVIOUS
  <2>5. Indexes([a \in {} |-> 0], <<>>, 0)
    BY <1>4, <2>2, <2>3, <2>4 DEF Indexes, S, n
  <2> QED BY <2>1, <2>5
<1>11. ASSUME NEW i \in 1 .. n, i - 1 \in T PROVE i \in T
  <2>1. i \in 0 .. n /\ i # 0 /\ i \in 1 .. Len(presented)
    BY <1>0 DEF n
  <2>2. PICK pos : Indexes(pos, g[i - 1], i - 1)
    BY <1>11
  <2>3. g[i] = IF StanzaParses(Stanza(presented[i]))
               THEN Append(g[i - 1], Stanza(presented[i])) ELSE g[i - 1]
    BY <1>9, <2>1
  <2>4. \E q : Indexes(q, g[i], i)
    BY <2>1, <2>2, <2>3, IndexesNext
  <2> QED BY <2>1, <2>4
<1> HIDE DEF T
<1>12. n \in T
  <2>1. \A i \in 0 .. n : i \in T
    BY <1>0, <1>10, <1>11, Forwards
  <2>2. n \in 0 .. n
    BY <1>0
  <2> QED BY <2>1, <2>2
<1> QED BY <1>1, <1>12 DEF T, n

(* There are as many as there are stanzas to take.                         *)
LEMMA CollectedCount ==
  ASSUME Typed, NEW pos, Indexes(pos, Collected, Len(presented))
  PROVE  /\ Taken = TakenTo(Len(presented))
         /\ Len(Collected) \in Nat
         /\ Cardinality(Taken) = Len(Collected)
<1>1. DOMAIN presented = 1 .. Len(presented)
  BY DEF Typed, IsSequence
<1>2. Taken = TakenTo(Len(presented))
  BY <1>1 DEF Taken, TakenTo
<1> DEFINE S == {Stanza(presented[j]) : j \in 1 .. Len(presented)}
<1>3. Collected \in Seq(S)
  BY DEF Indexes
<1> HIDE DEF S
<1>4. Len(Collected) \in Nat
  BY <1>3
<1>5. pos \in Bijection(1 .. Len(Collected), Taken)
  BY <1>2 DEF Indexes, Bijection, Injection, Surjection, IsInjective
<1>6. ExistsBijection(1 .. Len(Collected), Taken)
  BY <1>5 DEF ExistsBijection
<1>7. Cardinality(Taken) = Len(Collected)
  BY <1>4, <1>6, FS_CountingElements
<1> QED BY <1>2, <1>4, <1>7

-----------------------------------------------------------------------------
(* Opening.                                                                *)

Shares(stanzas) ==
  [i \in DOMAIN stanzas |-> [id |-> stanzas[i].id, value |-> stanzas[i].value]]

(* All of the stanzas unwrap and have one scheme.                          *)
AllUnwrap(stanzas, context) ==
  /\ stanzas # <<>>
  /\ \A i \in DOMAIN stanzas :
       /\ stanzas[i].t = stanzas[1].t /\ stanzas[i].n = stanzas[1].n
       /\ Unwraps(stanzas[i], context, stanzas[1].t, stanzas[1].n)
  /\ ~(Len(stanzas) < stanzas[1].t)

(* Bounds of ids and thresholds.                                           *)
LEMMA InRange ==
  /\ \A v \in 1 .. 255 : v \in Nat \ {0} /\ v \in 0 .. 255
  /\ \A t \in 1 .. 255 : \A n \in t .. 255 : \A p \in 1 .. n : p \in 1 .. 255
<1>1. \A v \in 1 .. 255 : v \in Nat \ {0} /\ v \in 0 .. 255
  OBVIOUS
<1>2. ASSUME NEW t \in 1 .. 255, NEW n \in t .. 255, NEW p \in 1 .. n
      PROVE  p \in 1 .. 255
  <2>1. t \in Int /\ n \in Int /\ p \in Int
    OBVIOUS
  <2>2. n <= 255 /\ 1 <= p /\ p <= n
    BY <2>1
  <2> QED BY <2>1, <2>2
<1> QED BY <1>1, <1>2

(* Where all unwrap, opening combines the shares; where it succeeds, all   *)
(* did.                                                                    *)
LEMMA OpenCombines ==
  ASSUME NEW stanzas, NEW context
  PROVE  /\ AllUnwrap(stanzas, context)
              => Open(stanzas, context) = Combine(Shares(stanzas), stanzas[1].t)
         /\ Open(stanzas, context).status = "ok" => AllUnwrap(stanzas, context)
<1> DEFINE t == stanzas[1].t
           n == stanzas[1].n
           mixed == \E i \in DOMAIN stanzas : stanzas[i].t # t \/ stanzas[i].n # n
           failed == \E i \in DOMAIN stanzas : ~Unwraps(stanzas[i], context, t, n)
           r == Combine(Shares(stanzas), t)
<1>1. Open(stanzas, context) =
        IF stanzas = <<>> THEN Error("NotEnoughShares")
        ELSE IF mixed THEN Error("InconsistentParameters")
        ELSE IF Len(stanzas) < t THEN Error("NotEnoughShares")
        ELSE IF failed THEN Error("UnwrapFailed")
        ELSE r
  BY Zenon DEF Open, Shares
<1>2. AllUnwrap(stanzas, context) <=> stanzas # <<>> /\ ~mixed /\ ~(Len(stanzas) < t) /\ ~failed
  BY DEF AllUnwrap
<1>3. \A e : Error(e).status = e
  BY DEF Error
<1>4. "NotEnoughShares" # "ok" /\ "InconsistentParameters" # "ok" /\ "UnwrapFailed" # "ok"
  OBVIOUS
<1> HIDE DEF t, n, mixed, failed, r
<1>5. Open(stanzas, context).status = "ok" => stanzas # <<>> /\ ~mixed /\ ~(Len(stanzas) < t) /\ ~failed
  BY <1>1, <1>3, <1>4
<1>6. stanzas # <<>> /\ ~mixed /\ ~(Len(stanzas) < t) /\ ~failed => Open(stanzas, context) = r
  BY <1>1
<1> QED BY <1>2, <1>5, <1>6 DEF r, t

(* combine refuses a share with id 0, and two with one id.                 *)
LEMMA CombineRefuses ==
  ASSUME NEW shares, NEW t, Combine(shares, t).status = "ok"
  PROVE  /\ ~(\E i \in DOMAIN shares : shares[i].id = 0)
         /\ IsInjective([i \in DOMAIN shares |-> shares[i].id])
<1> DEFINE zero == \E i \in DOMAIN shares : shares[i].id = 0
           ids == IsInjective([i \in DOMAIN shares |-> shares[i].id])
           v == Value(Interpolate([i \in 1 .. t |-> U8(shares[i].id)],
                                  [i \in 1 .. t |-> shares[i].value]))
<1>1. Combine(shares, t) =
        IF t = 0 THEN Error("ZeroThresholdOrShares")
        ELSE IF Len(shares) < t THEN Error("NotEnoughShares")
        ELSE IF zero THEN Error("InvalidShareId")
        ELSE IF ~ids THEN Error("DuplicateShareId")
        ELSE v
  BY Zenon DEF Combine
<1>2. \A e : Error(e).status = e
  BY DEF Error
<1>3. /\ "ZeroThresholdOrShares" # "ok" /\ "NotEnoughShares" # "ok" /\ "InvalidShareId" # "ok"
      /\ "DuplicateShareId" # "ok"
  OBVIOUS
<1> HIDE DEF zero, ids, v
<1>4. ~zero /\ ids
  BY <1>1, <1>2, <1>3
<1> QED BY <1>4 DEF zero, ids

(* A stanza that unwraps and has the scheme of its associated data is      *)
(* whole, unless it was passed over.                                       *)
LEMMA UnwrapsWhole ==
  ASSUME Typed, NEW i \in Taken, NEW context,
         Unwraps(Stanza(presented[i]), context, Stanza(presented[i]).t, Stanza(presented[i]).n)
  PROVE  Whole(i) /\ From(i).context = context /\ From(i).t = Stanza(presented[i]).t
<1> DEFINE p == presented[i]
           s == splits[p.split]
           x == Stanza(p)
           t == x.t
           n == x.n
<1>1. i \in 1 .. Len(presented) /\ p.harm # "version"
  BY DEF Taken, Typed, IsSequence
<1>2. /\ IsMade(s) /\ p.place \in 1 .. s.n
      /\ x.intact = (p.harm # "ciphertext")
      /\ x.t = IF p.harm = "threshold" THEN s.t - 1 ELSE s.t
      /\ x.id = IF p.harm = "id" THEN (p.place + 1) % 256 ELSE p.place
      /\ x.kek = p.place
      /\ x.aad = <<s.context, p.place, s.t, s.n>>
  BY <1>1, StanzaIs
<1>3. p.harm \in {"none", "ciphertext", "version", "threshold", "id"}
  BY <1>1, DataAssumption DEF Typed, IsPlaced
<1>4. x.intact /\ x.kek = x.id /\ x.aad = <<context, x.id, t, n>> /\ x.t = t
  BY DEF Unwraps, ShareAad
<1>5. s.t \in 1 .. 255 /\ p.place \in 1 .. 255
  <2>1. s.t \in 1 .. 255 /\ s.n \in s.t .. 255
    BY <1>2 DEF IsMade
  <2> QED BY <1>2, <2>1, InRange, Zenon
<1> HIDE DEF p, s, x
<1>6. s.context = context /\ s.t = t
  BY <1>2, <1>4
<1>7. p.harm # "ciphertext"
  BY <1>2, <1>4
<1>8. p.harm # "threshold"
  <2>1. s.t - 1 # s.t
    BY <1>5
  <2> QED BY <1>2, <1>4, <1>6, <2>1
<1>9. p.harm # "id"
  <2>1. (p.place + 1) % 256 # p.place
    BY <1>5
  <2> QED BY <1>2, <1>4, <2>1
<1>10. p.harm = "none"
  BY <1>1, <1>3, <1>7, <1>8, <1>9 DEF p
<1> QED BY <1>6, <1>10 DEF Whole, From, p, s, x

(* Whole stanzas of a split are shares of its polynomial.                  *)
LEMMA CollectedShares ==
  ASSUME Typed, NEW k \in 1 .. Len(splits),
         \A i \in Taken : Whole(i) /\ presented[i].split = k,
         Cardinality(Taken) >= splits[k].t,
         \A i, j \in DOMAIN Collected : Collected[i].id = Collected[j].id => i = j
  PROVE  Combine(Shares(Collected), splits[k].t) = Value(splits[k].coeffs[1])
<1> DEFINE s == splits[k]
           c == Collected
           sh == Shares(c)
<1>1. PICK pos : Indexes(pos, c, Len(presented))
  BY CollectedIs
<1>2. /\ Taken = TakenTo(Len(presented)) /\ Len(c) \in Nat /\ Cardinality(Taken) = Len(c)
  BY <1>1, CollectedCount
<1>3. c \in Seq({Stanza(presented[j]) : j \in 1 .. Len(presented)})
  BY <1>1 DEF Indexes
<1>4. DOMAIN c = 1 .. Len(c)
  <2> DEFINE S == {Stanza(presented[j]) : j \in 1 .. Len(presented)}
  <2> HIDE DEF S, c
  <2>1. c \in Seq(S)
    BY <1>3 DEF S
  <2> QED BY <2>1
<1>5. IsMade(s)
  BY DEF Typed
<1>6. s.t \in 1 .. 255 /\ s.n \in s.t .. 255 /\ s.coeffs \in Lists(s.t)
  BY <1>5 DEF IsMade
<1>7. s.t \in Nat \ {0} /\ s.coeffs \in Seq(Byte) /\ Len(s.coeffs) = s.t
  <2>1. s.t \in Nat \ {0}
    BY <1>6, InRange, Zenon
  <2> QED BY <1>6, <2>1, ListLength DEF Lists
<1>8. ASSUME NEW a \in 1 .. Len(c)
      PROVE  /\ c[a].id \in 1 .. 255
             /\ c[a].value = Evaluate(s.coeffs, U8(c[a].id))
             /\ c[a].value \in Byte
  <2> DEFINE i == pos[a]
  <2>1. i \in Taken /\ c[a] = Stanza(presented[i])
    BY <1>1, <1>2 DEF Indexes
  <2>2. presented[i].harm = "none" /\ presented[i].split = k /\ i \in 1 .. Len(presented)
    BY <1>2, <2>1 DEF Whole, TakenTo
  <2> HIDE DEF i, c
  <2>3. /\ presented[i].place \in 1 .. s.n /\ c[a].id = presented[i].place
        /\ c[a].value = Evaluate(s.coeffs, U8(presented[i].place))
    BY <2>1, <2>2, StanzaIs
  <2>4. c[a].id \in 1 .. 255 /\ c[a].id \in 0 .. 255
    <3>1. c[a].id \in 1 .. s.n
      BY <2>3, Zenon
    <3>2. c[a].id \in 1 .. 255
      BY <1>6, <3>1, InRange, Zenon
    <3> QED BY <3>2, InRange, Zenon
  <2>5. c[a].value \in Byte
    <3>1. U8(presented[i].place) \in Byte
      BY <2>3, <2>4, U8Zero
    <3> QED BY <1>6, <1>7, <2>3, <3>1, RunsOf
  <2> QED BY <2>3, <2>4, <2>5
<1> HIDE DEF c
<1>9. sh = [a \in 1 .. Len(c) |-> [id |-> c[a].id, value |-> c[a].value]]
  BY <1>4 DEF Shares
<1>10. sh \in [1 .. Len(c) -> [id : 1 .. 255, value : Byte]]
  <2>1. \A a \in 1 .. Len(c) : c[a].id \in 1 .. 255 /\ c[a].value \in Byte
    BY <1>8
  <2> DEFINE R(i, v) == [id |-> i, value |-> v]
  <2>2. \A i \in 1 .. 255, v \in Byte : R(i, v) \in [id : 1 .. 255, value : Byte]
    OBVIOUS
  <2>3. sh = [a \in 1 .. Len(c) |-> R(c[a].id, c[a].value)]
    BY <1>9
  <2> HIDE DEF R, sh
  <2> QED BY <2>1, <2>2, <2>3
<1>11. /\ \A a \in 1 .. Len(c) : sh[a].id = c[a].id /\ sh[a].value = c[a].value
  BY <1>9
<1> HIDE DEF sh
<1>12. sh \in Seq([id : 1 .. 255, value : Byte]) /\ Len(sh) = Len(c)
  <2> DEFINE S == [id : 1 .. 255, value : Byte]
  <2> HIDE DEF S
  <2>1. sh \in [1 .. Len(c) -> S]
    BY <1>10 DEF S
  <2>2. sh \in Seq(S) /\ Len(sh) = Len(c)
    BY <1>2, <2>1
  <2> QED BY <2>2 DEF S
<1>13. \A a, b \in 1 .. Len(c) : sh[a].id = sh[b].id => a = b
  BY <1>4, <1>11 DEF c
<1>14. \A a \in 1 .. Len(c) : sh[a].value = Evaluate(s.coeffs, U8(sh[a].id))
  BY <1>8, <1>11
<1>15. SharesOf(sh, s.coeffs)
  BY <1>2, <1>7, <1>12, <1>13, <1>14 DEF SharesOf
<1>16. Len(s.coeffs) >= 1
  BY <1>7
<1>17. Combine(sh, s.t) = Value(s.coeffs[1])
  BY <1>7, <1>15, <1>16, CombineGives
<1> QED BY <1>17 DEF sh, c

(* The stanza collected at a is presented at pos[a].                       *)
LEMMA CollectedAt ==
  ASSUME Typed
  PROVE  \E pos : /\ DOMAIN Collected = 1 .. Len(Collected)
                  /\ Len(Collected) \in Nat /\ Cardinality(Taken) = Len(Collected)
                  /\ \A a \in 1 .. Len(Collected) :
                       pos[a] \in Taken /\ Collected[a] = Stanza(presented[pos[a]])
                  /\ \A a, b \in 1 .. Len(Collected) : pos[a] = pos[b] => a = b
                  /\ \A i \in Taken : \E a \in 1 .. Len(Collected) : pos[a] = i
<1> DEFINE c == Collected
           S == {Stanza(presented[j]) : j \in 1 .. Len(presented)}
<1>1. PICK pos : Indexes(pos, c, Len(presented))
  BY CollectedIs
<1>2. Taken = TakenTo(Len(presented)) /\ Len(c) \in Nat /\ Cardinality(Taken) = Len(c)
  BY <1>1, CollectedCount
<1>3. /\ c \in Seq(S)
      /\ pos \in [1 .. Len(c) -> Taken]
      /\ \A a, b \in 1 .. Len(c) : pos[a] = pos[b] => a = b
      /\ \A j \in Taken : \E a \in 1 .. Len(c) : pos[a] = j
      /\ \A a \in 1 .. Len(c) : c[a] = Stanza(presented[pos[a]])
  BY <1>1, <1>2 DEF Indexes
<1> HIDE DEF c, S
<1>4. DOMAIN c = 1 .. Len(c)
  BY <1>3
<1>5. \A a \in 1 .. Len(c) : pos[a] \in Taken
  BY <1>3
<1> QED BY <1>2, <1>3, <1>4, <1>5 DEF c

(* What a success holds.                                                   *)
LEMMA ValueIs == \A v : Value(v).status = "ok" /\ Value(v).value = v
BY DEF Value

(* What opens is what was sealed.                                          *)
LEMMA OpenSound ==
  ASSUME Typed, NEW context, Open(Collected, context).status = "ok"
  PROVE  /\ \A i \in Taken : Whole(i) /\ From(i).context = context
         /\ \A i \in Taken : Cardinality(Taken) >= From(i).t
         /\ \A i \in Taken :
              (\A j \in Taken : presented[j].split = presented[i].split)
                => Open(Collected, context).value = From(i).coeffs[1]
<1> DEFINE c == Collected
           t == c[1].t
           n == c[1].n
<1>1. AllUnwrap(c, context) /\ Open(c, context) = Combine(Shares(c), t)
  BY OpenCombines
<1>2. PICK pos :
        /\ DOMAIN c = 1 .. Len(c)
        /\ Len(c) \in Nat /\ Cardinality(Taken) = Len(c)
        /\ \A a \in 1 .. Len(c) : pos[a] \in Taken /\ c[a] = Stanza(presented[pos[a]])
        /\ \A a, b \in 1 .. Len(c) : pos[a] = pos[b] => a = b
        /\ \A i \in Taken : \E a \in 1 .. Len(c) : pos[a] = i
  BY CollectedAt
<1>3. /\ ~(Len(c) < t)
      /\ \A a \in 1 .. Len(c) : c[a].t = t /\ c[a].n = n /\ Unwraps(c[a], context, t, n)
  BY <1>1, <1>2 DEF AllUnwrap
<1> HIDE DEF c, t, n
<1>4. ASSUME NEW i \in Taken
      PROVE  /\ Whole(i) /\ From(i).context = context /\ From(i).t = t
  <2>1. PICK a \in 1 .. Len(c) : pos[a] = i
    BY <1>2
  <2>2. c[a] = Stanza(presented[i])
    BY <1>2, <2>1
  <2>3. /\ Stanza(presented[i]).t = t /\ Stanza(presented[i]).n = n
        /\ Unwraps(Stanza(presented[i]), context, t, n)
    BY <1>3, <2>1, <2>2
  <2>4. Unwraps(Stanza(presented[i]), context, Stanza(presented[i]).t, Stanza(presented[i]).n)
    BY <2>3
  <2>5. Whole(i) /\ From(i).context = context /\ From(i).t = Stanza(presented[i]).t
    BY <2>4, UnwrapsWhole, Zenon
  <2> QED BY <2>3, <2>5
<1>5. ASSUME NEW i \in Taken
      PROVE  /\ presented[i].split \in 1 .. Len(splits)
             /\ From(i).t \in 1 .. 255
  <2>1. i \in 1 .. Len(presented)
    BY DEF Taken, Typed, IsSequence
  <2>2. IsPlaced(presented[i])
    BY <2>1 DEF Typed
  <2>3. presented[i].split \in 1 .. Len(splits)
    BY <2>2 DEF IsPlaced
  <2>4. IsMade(From(i))
    BY <2>3 DEF Typed, From
  <2> QED BY <2>3, <2>4 DEF IsMade
<1>6. ASSUME NEW i \in Taken PROVE Cardinality(Taken) >= From(i).t
  <2>1. From(i).t = t /\ From(i).t \in 1 .. 255
    BY <1>4, <1>5
  <2>2. t \in 1 .. 255
    BY <2>1
  <2>3. Len(c) >= t
    BY <1>2, <1>3, <2>2
  <2> QED BY <1>2, <2>1, <2>3
<1>7. \A a, b \in DOMAIN c : c[a].id = c[b].id => a = b
  <2>1. Combine(Shares(c), t).status = "ok"
    BY <1>1 DEF c
  <2>2. IsInjective([a \in DOMAIN Shares(c) |-> Shares(c)[a].id])
    BY <2>1, CombineRefuses
  <2>3. DOMAIN Shares(c) = DOMAIN c /\ \A a \in DOMAIN c : Shares(c)[a].id = c[a].id
    BY DEF Shares
  <2> QED BY <2>2, <2>3 DEF IsInjective
<1>8. ASSUME NEW i \in Taken, \A j \in Taken : presented[j].split = presented[i].split
      PROVE  Open(c, context).value = From(i).coeffs[1]
  <2> DEFINE k == presented[i].split
  <2>1. k \in 1 .. Len(splits) /\ splits[k] = From(i)
    BY <1>5 DEF From
  <2>2. \A j \in Taken : Whole(j) /\ presented[j].split = k
    BY <1>4, <1>8
  <2>3. Cardinality(Taken) >= splits[k].t
    BY <1>6, <2>1
  <2> HIDE DEF k
  <2>4. Combine(Shares(Collected), splits[k].t) = Value(splits[k].coeffs[1])
    BY <1>7, <2>1, <2>2, <2>3, CollectedShares DEF c
  <2>5. splits[k].t = t
    BY <1>4, <2>1
  <2> QED BY <1>1, <2>1, <2>4, <2>5, ValueIs DEF c
<1> QED BY <1>4, <1>6, <1>8 DEF c

(* Enough different whole stanzas of one split open to its secret.         *)
LEMMA QuorumSound ==
  ASSUME Typed, NEW k \in 1 .. Len(splits),
         \A i \in Taken : Whole(i) /\ presented[i].split = k,
         Distinct(Taken),
         Cardinality(Taken) >= splits[k].t
  PROVE  Open(Collected, splits[k].context) = Value(splits[k].coeffs[1])
<1> DEFINE c == Collected
           s == splits[k]
<1>1. PICK pos :
        /\ DOMAIN c = 1 .. Len(c)
        /\ Len(c) \in Nat /\ Cardinality(Taken) = Len(c)
        /\ \A a \in 1 .. Len(c) : pos[a] \in Taken /\ c[a] = Stanza(presented[pos[a]])
        /\ \A a, b \in 1 .. Len(c) : pos[a] = pos[b] => a = b
        /\ \A i \in Taken : \E a \in 1 .. Len(c) : pos[a] = i
  BY CollectedAt
<1>2. IsMade(s)
  BY DEF Typed
<1>3. s.t \in 1 .. 255
  BY <1>2 DEF IsMade
<1> HIDE DEF c
<1>4. ASSUME NEW a \in 1 .. Len(c)
      PROVE  /\ c[a].t = s.t /\ c[a].n = s.n /\ Unwraps(c[a], s.context, s.t, s.n)
             /\ c[a].id = presented[pos[a]].place
  <2> DEFINE i == pos[a]
             p == presented[i]
             x == Stanza(p)
  <2>1. i \in Taken /\ c[a] = x
    BY <1>1
  <2>2. p.harm = "none" /\ p.split = k /\ i \in 1 .. Len(presented)
    BY <2>1 DEF Whole, Taken, Typed, IsSequence
  <2>3. /\ x.intact /\ x.t = s.t /\ x.n = s.n /\ x.id = p.place /\ x.kek = p.place
        /\ x.aad = <<s.context, p.place, s.t, s.n>>
    <3> HIDE DEF i
    <3>1. /\ x.intact = (p.harm # "ciphertext")
          /\ x.t = IF p.harm = "threshold" THEN s.t - 1 ELSE s.t
          /\ x.id = IF p.harm = "id" THEN (p.place + 1) % 256 ELSE p.place
          /\ x.n = s.n /\ x.kek = p.place
          /\ x.aad = <<s.context, p.place, s.t, s.n>>
      BY <2>2, StanzaIs
    <3> HIDE DEF x, p, s
    <3> QED BY <2>2, <3>1
  <2> HIDE DEF i, p, x, s
  <2>4. Unwraps(x, s.context, s.t, s.n)
    BY <2>3 DEF Unwraps, ShareAad
  <2> QED BY <2>1, <2>3, <2>4 DEF p, i
<1>5. \A a, b \in DOMAIN c : c[a].id = c[b].id => a = b
  BY <1>1, <1>4 DEF Distinct
<1> HIDE DEF s
<1>6. 1 \in 1 .. Len(c) /\ ~(Len(c) < s.t)
  <2>1. Len(c) >= s.t
    BY <1>1 DEF s
  <2> DEFINE l == Len(c)
             m == s.t
  <2>2. l \in Nat /\ m \in 1 .. 255 /\ l >= m
    BY <1>1, <1>3, <2>1
  <2> HIDE DEF l, m
  <2>3. 1 \in 1 .. l /\ ~(l < m)
    BY <2>2
  <2> QED BY <2>3 DEF l, m
<1>7. c # <<>>
  BY <1>1, <1>6
<1>8. c[1].t = s.t /\ c[1].n = s.n
  BY <1>4, <1>6
<1>9. AllUnwrap(c, s.context)
  BY <1>1, <1>4, <1>6, <1>7, <1>8 DEF AllUnwrap
<1>10. Open(c, s.context) = Combine(Shares(c), s.t)
  BY <1>8, <1>9, OpenCombines
<1>11. Combine(Shares(c), s.t) = Value(s.coeffs[1])
  BY <1>5, CollectedShares DEF c, s
<1> QED BY <1>10, <1>11 DEF c, s

(* A sequence over a set is one over its own elements.                     *)
LEMMA SequenceIs ==
  ASSUME NEW S, NEW s \in Seq(S)
  PROVE  IsSequence(s) /\ Len(s) \in Nat /\ DOMAIN s = 1 .. Len(s)
<1>1. Len(s) \in Nat /\ s \in [1 .. Len(s) -> S] /\ DOMAIN s = 1 .. Len(s)
  OBVIOUS
<1>2. s \in [1 .. Len(s) -> Range(s)]
  BY <1>1 DEF Range
<1>3. s \in Seq(Range(s))
  BY <1>1, <1>2
<1> QED BY <1>1, <1>3 DEF IsSequence

(* A sequence and one element more.                                        *)
LEMMA AppendIsSequence ==
  ASSUME NEW s, IsSequence(s), NEW x
  PROVE  /\ IsSequence(Append(s, x)) /\ Len(s) \in Nat /\ Len(Append(s, x)) = Len(s) + 1
         /\ \A i \in 1 .. Len(Append(s, x)) :
              (i \in 1 .. Len(s) /\ Append(s, x)[i] = s[i]) \/ Append(s, x)[i] = x
<1> DEFINE S == Range(s) \cup {x}
           a == Append(s, x)
<1>1. s \in Seq(S) /\ x \in S
  <2>1. s \in Seq(Range(s)) /\ x \in S
    BY DEF IsSequence
  <2> DEFINE R == Range(s)
  <2> HIDE DEF R
  <2>2. s \in Seq(R \cup {x})
    BY <2>1 DEF R
  <2> QED BY <2>1, <2>2 DEF R
<1> HIDE DEF S
<1>2. /\ Len(s) \in Nat /\ a \in Seq(S) /\ Len(a) = Len(s) + 1 /\ a[Len(s) + 1] = x
      /\ \A i \in 1 .. Len(s) : a[i] = s[i]
  BY <1>1
<1>3. \A i \in 1 .. Len(s) + 1 : i \in 1 .. Len(s) \/ i = Len(s) + 1
  BY <1>2
<1>4. IsSequence(a)
  BY <1>2, SequenceIs
<1> HIDE DEF a
<1>5. \A i \in 1 .. Len(a) : (i \in 1 .. Len(s) /\ a[i] = s[i]) \/ a[i] = x
  BY <1>2, <1>3
<1> QED BY <1>2, <1>4, <1>5 DEF a

(* What is drawn for a split is a polynomial of its degree.                *)
LEMMA DrawnIs ==
  ASSUME NEW t \in Nat \ {0}, NEW coeffs \in CoefficientLists(t)
  PROVE  coeffs \in Lists(t)
<1>1. coeffs \in [1 .. t -> Secrets \cup Randoms]
  BY DEF CoefficientLists
<1>2. Secrets \cup Randoms \subseteq Byte
  BY DataAssumption
<1> QED BY <1>1, <1>2 DEF Lists

(* What seal appends is a split well made.                                 *)
LEMMA SealedIsMade ==
  ASSUME NEW scheme \in Schemes, NEW context, NEW coeffs \in CoefficientLists(scheme[1]),
         SplitAccepts(scheme[1], scheme[2])
  PROVE  IsMade([t |-> scheme[1], n |-> scheme[2], context |-> context, coeffs |-> coeffs,
                 stanzas |-> Stanzas(coeffs, scheme[2], context)])
<1> DEFINE t == scheme[1]
           n == scheme[2]
<1>1. t \in 0 .. 255 /\ n \in 0 .. 255
  BY DataAssumption
<1> HIDE DEF t, n
<1>2. t # 0 /\ n # 0 /\ t <= n
  BY DEF SplitAccepts, t, n
<1>3. t \in 1 .. 255 /\ n \in t .. 255 /\ t \in Nat \ {0}
  BY <1>1, <1>2
<1>4. coeffs \in Lists(t)
  BY <1>3, DrawnIs DEF t
<1> DEFINE r == [t |-> t, n |-> n, context |-> context, coeffs |-> coeffs,
                 stanzas |-> Stanzas(coeffs, n, context)]
<1>5. r.t = t /\ r.n = n /\ r.context = context /\ r.coeffs = coeffs
      /\ r.stanzas = Stanzas(coeffs, n, context)
  OBVIOUS
<1> HIDE DEF r
<1>6. IsMade(r)
  BY <1>3, <1>4, <1>5 DEF IsMade
<1> QED BY <1>6 DEF r, t, n

-----------------------------------------------------------------------------
(* The invariant.                                                          *)

IInv == Typed /\ Phases /\ QuorumOpens /\ OpenedIsSealed

(* Not having opened is not a success.                                     *)
LEMMA NotUnopened == Unopened.status # "ok"
<1>1. "unopened" # "ok"
  OBVIOUS
<1> QED BY <1>1 DEF Unopened

(* Where nothing is opened there is nothing to show.                       *)
LEMMA NothingOpened == result = Unopened => QuorumOpens /\ OpenedIsSealed
BY NotUnopened DEF QuorumOpens, OpenedIsSealed

(* It holds at first.                                                      *)
LEMMA InitInv == Init => IInv
<1> SUFFICES ASSUME Init PROVE IInv
  OBVIOUS
<1>1. splits = <<>> /\ presented = <<>> /\ result = Unopened
  BY DEF Init
<1>2. <<>> \in Seq({}) /\ Len(<<>>) = 0 /\ 1 .. 0 = {} /\ ~(0 > 0)
  OBVIOUS
<1>3. IsSequence(<<>>)
  BY <1>2, SequenceIs
<1>4. Typed
  BY <1>1, <1>2, <1>3 DEF Typed
<1>5. Phases
  BY <1>1, <1>2 DEF Phases
<1> QED BY <1>1, <1>4, <1>5, NothingOpened DEF IInv

(* seal keeps it.                                                          *)
LEMMA SealInv ==
  ASSUME IInv, NEW scheme \in Schemes, NEW context \in Contexts,
         NEW coeffs \in CoefficientLists(scheme[1]), Seal(scheme, coeffs, context)
  PROVE  IInv'
<1> DEFINE x == [t |-> scheme[1], n |-> scheme[2], context |-> context, coeffs |-> coeffs,
                 stanzas |-> Stanzas(coeffs, scheme[2], context)]
<1>1. /\ Len(splits) < MaxSplits /\ SplitAccepts(scheme[1], scheme[2])
      /\ splits' = Append(splits, x) /\ presented' = presented /\ result' = result
  BY DEF Seal
<1>2. IsMade(x)
  BY <1>1, SealedIsMade
<1> HIDE DEF x
<1>3. /\ IsSequence(splits) /\ \A k \in 1 .. Len(splits) : IsMade(splits[k])
      /\ IsSequence(presented) /\ Len(presented) \in Nat /\ Len(splits) \in Nat
  BY SequenceIs DEF IInv, Typed, IsSequence
<1>4. Len(presented) = 0 /\ result = Unopened
  <2>1. ~(Len(presented) > 0)
    BY <1>1, <1>3, DataAssumption DEF IInv, Phases
  <2> QED BY <1>3, <2>1 DEF IInv, Phases
<1>5. Typed'
  <2>1. IsSequence(splits') /\ \A k \in 1 .. Len(splits') : IsMade(splits'[k])
    BY <1>1, <1>2, <1>3, AppendIsSequence
  <2>2. 1 .. 0 = {}
    OBVIOUS
  <2>3. \A i \in 1 .. Len(presented') : FALSE
    BY <1>1, <1>4, <2>2
  <2> QED BY <1>1, <1>3, <2>1, <2>3 DEF Typed
<1>6. Phases'
  <2>1. ~(0 > 0)
    OBVIOUS
  <2> QED BY <1>1, <1>4, <2>1 DEF Phases
<1>7. QuorumOpens' /\ OpenedIsSealed'
  BY <1>1, <1>4, NotUnopened DEF QuorumOpens, OpenedIsSealed
<1> QED BY <1>5, <1>6, <1>7 DEF IInv

(* So does putting a stanza into the container.                            *)
LEMMA PresentInv ==
  ASSUME IInv, NEW split \in DOMAIN splits, NEW harm \in Harms,
         NEW place \in DOMAIN splits[split].stanzas, Present(split, place, harm)
  PROVE  IInv'
<1> DEFINE p == [split |-> split, place |-> place, harm |-> harm]
<1>1. /\ result = Unopened /\ Len(splits) = MaxSplits
      /\ presented' = Append(presented, p) /\ splits' = splits /\ result' = result
  BY DEF Present
<1>2. /\ IsSequence(splits) /\ \A k \in 1 .. Len(splits) : IsMade(splits[k])
      /\ IsSequence(presented) /\ \A i \in 1 .. Len(presented) : IsPlaced(presented[i])
      /\ DOMAIN splits = 1 .. Len(splits)
  BY SequenceIs DEF IInv, Typed, IsSequence
<1>3. IsPlaced(p)
  <2>1. IsMade(splits[split])
    BY <1>2
  <2> QED BY <1>2, <2>1, MadeDomain DEF IsPlaced
<1> HIDE DEF p
<1>4. Typed'
  <2>1. IsSequence(presented') /\ \A i \in 1 .. Len(presented') : IsPlaced(presented'[i])
    BY <1>1, <1>2, <1>3, AppendIsSequence
  <2> QED BY <1>1, <1>2, <2>1 DEF Typed, IsPlaced
<1>5. Phases'
  BY <1>1 DEF Phases
<1>6. QuorumOpens' /\ OpenedIsSealed'
  BY <1>1, NotUnopened DEF QuorumOpens, OpenedIsSealed
<1> QED BY <1>4, <1>5, <1>6 DEF IInv

(* And opening.                                                            *)
LEMMA OpenInv ==
  ASSUME IInv, NEW context \in Contexts, OpenContainer(context)
  PROVE  IInv'
<1> DEFINE r == Open(Collected, context)
<1>1. /\ result = Unopened /\ presented # <<>>
      /\ result' = [context |-> {context}, status |-> r.status, value |-> r.value]
      /\ splits' = splits /\ presented' = presented
  BY DEF OpenContainer
<1>2. /\ result'.context = {context} /\ result'.status = r.status /\ result'.value = r.value
  BY <1>1
<1> HIDE DEF r
<1>3. Typed /\ Typed'
  BY <1>1 DEF IInv, Typed, IsPlaced
<1>4. Phases'
  <2>1. Len(presented) \in Nat /\ presented \in Seq(Range(presented))
    BY <1>3 DEF Typed, IsSequence
  <2>2. Len(presented) > 0
    BY <1>1, <2>1
  <2> QED BY <1>1, <2>2 DEF IInv, Phases
<1>5. /\ Taken' = Taken
      /\ \A i : From(i)' = From(i) /\ (Whole(i)' <=> Whole(i))
      /\ Distinct(Taken)' <=> Distinct(Taken)
  BY <1>1 DEF Taken, From, Whole, Distinct
<1>6. QuorumOpens'
  <2> SUFFICES ASSUME NEW k \in DOMAIN splits,
                      {context} = {splits[k].context},
                      Cardinality(Taken) >= splits[k].t,
                      Distinct(Taken),
                      \A i \in Taken : Whole(i) /\ presented[i].split = k
               PROVE  r.status = "ok" /\ r.value = splits[k].coeffs[1]
    BY <1>1, <1>2, <1>5 DEF QuorumOpens
  <2>1. k \in 1 .. Len(splits)
    BY <1>3 DEF Typed, IsSequence
  <2>2. context = splits[k].context
    OBVIOUS
  <2>3. r = Value(splits[k].coeffs[1])
    BY <1>3, <2>1, <2>2, QuorumSound DEF r
  <2> QED BY <2>3, ValueIs
<1>7. OpenedIsSealed'
  <2> SUFFICES ASSUME r.status = "ok"
               PROVE  /\ \A i \in Taken : Whole(i) /\ {From(i).context} = {context}
                      /\ \A i \in Taken : Cardinality(Taken) >= From(i).t
                      /\ \A i \in Taken :
                           (\A j \in Taken : presented[j].split = presented[i].split)
                             => r.value = From(i).coeffs[1]
    BY <1>1, <1>2, <1>5 DEF OpenedIsSealed
  <2> QED BY <1>3, OpenSound DEF r
<1> QED BY <1>3, <1>4, <1>6, <1>7 DEF IInv

(* Every step keeps it.                                                    *)
LEMMA NextInv == IInv /\ [Next]_vars => IInv'
<1> SUFFICES ASSUME IInv, [Next]_vars PROVE IInv'
  OBVIOUS
<1>1. CASE \E scheme \in Schemes, context \in Contexts :
             \E coeffs \in CoefficientLists(scheme[1]) : Seal(scheme, coeffs, context)
  BY <1>1, SealInv
<1>2. CASE \E i \in DOMAIN splits, harm \in Harms :
             \E place \in DOMAIN splits[i].stanzas : Present(i, place, harm)
  BY <1>2, PresentInv
<1>3. CASE \E context \in Contexts : OpenContainer(context)
  BY <1>3, OpenInv
<1>4. CASE UNCHANGED vars
  <2>1. splits' = splits /\ presented' = presented /\ result' = result
    BY <1>4 DEF vars
  <2>2. Typed' /\ Phases'
    BY <2>1 DEF IInv, Typed, IsPlaced, Phases
  <2>3. /\ Taken' = Taken
        /\ \A i : From(i)' = From(i) /\ (Whole(i)' <=> Whole(i))
        /\ Distinct(Taken)' <=> Distinct(Taken)
    BY <2>1 DEF Taken, From, Whole, Distinct
  <2>4. QuorumOpens'
    BY <2>1, <2>3 DEF IInv, QuorumOpens
  <2>5. OpenedIsSealed'
    BY <2>1, <2>3 DEF IInv, OpenedIsSealed
  <2> QED BY <2>2, <2>4, <2>5 DEF IInv
<1> QED BY <1>1, <1>2, <1>3, <1>4 DEF Next

(* It always holds.                                                        *)
LEMMA Always == Spec => []IInv
BY InitInv, NextInv, PTL DEF Spec

(* In every reachable state any t or more different whole shares of one    *)
(* split, in any order, give the secret back.                              *)
THEOREM QuorumsOpen == Spec => []QuorumOpens
<1>1. IInv => QuorumOpens
  BY DEF IInv
<1> QED BY <1>1, Always, PTL

(* What opens is always what was sealed: no relabelled, downgraded or      *)
(* foreign stanza takes part, and fewer than t never open.                 *)
THEOREM OnlySealedOpens == Spec => []OpenedIsSealed
<1>1. IInv => OpenedIsSealed
  BY DEF IInv
<1> QED BY <1>1, Always, PTL

(* Shares of a split are values of its polynomial.                         *)
LEMMA ShareIs ==
  ASSUME NEW s, IsMade(s), NEW x \in Range(s.stanzas)
  PROVE  x.id \in 1 .. 255 /\ x.value = Evaluate(s.coeffs, U8(x.id))
<1>1. PICK j \in DOMAIN s.stanzas : x = s.stanzas[j]
  BY DEF Range
<1>2. j \in 1 .. s.n
  BY MadeDomain
<1>3. x.id = j /\ x.value = Evaluate(s.coeffs, U8(j))
  <2>1. x = [id |-> j, t |-> s.t, n |-> s.n, kek |-> j, aad |-> <<s.context, j, s.t, s.n>>,
             value |-> Evaluate(s.coeffs, U8(j)), version |-> 1, intact |-> TRUE]
    BY <1>1, <1>2, MadeStanza, Zenon
  <2> QED BY <2>1
<1>4. s.t \in 1 .. 255 /\ s.n \in s.t .. 255
  BY DEF IsMade
<1>5. j \in 1 .. 255
  BY <1>2, <1>4, InRange, Zenon
<1> QED BY <1>3, <1>5

(* The split's polynomial and its alibi give the same t - 1 shares, and    *)
(* each is the other's alibi.                                              *)
LEMMA FewerHide == Typed => FewerSharesHide
<1> SUFFICES ASSUME Typed, NEW k \in DOMAIN splits,
                    NEW known \in [1 .. splits[k].t - 1 -> Range(splits[k].stanzas)],
                    NEW secret \in Secrets
             PROVE  LET xs    == [i \in DOMAIN known |-> U8(known[i].id)]
                        other == Alibi(splits[k].coeffs, xs, secret)
                    IN  /\ other[1] = secret
                        /\ \A i \in DOMAIN known : Evaluate(other, xs[i]) = known[i].value
                        /\ Alibi(other, xs, splits[k].coeffs[1]) = splits[k].coeffs
  BY DEF FewerSharesHide
<1> DEFINE s == splits[k]
           t == s.t
           n == t - 1
           xs == [i \in DOMAIN known |-> U8(known[i].id)]
           other == Alibi(s.coeffs, xs, secret)
<1>1. IsMade(s)
  BY DEF Typed, IsSequence
<1>2. t \in 1 .. 255 /\ s.coeffs \in Lists(t)
  BY <1>1 DEF IsMade
<1>3. t \in Nat \ {0} /\ n \in Nat /\ n < t
  <2> HIDE DEF t
  <2> QED BY <1>2
<1>4. secret \in Byte
  BY DataAssumption
<1>5. DOMAIN known = 1 .. n /\ \A i \in 1 .. n : known[i] \in Range(s.stanzas)
  OBVIOUS
<1> HIDE DEF n, t, s
<1>6. \A i \in 1 .. n : /\ known[i].id \in 1 .. 255
                        /\ known[i].value = Evaluate(s.coeffs, U8(known[i].id))
  BY <1>1, <1>5, ShareIs
<1>7. \A v \in 1 .. 255 : U8(v) \in Byte \ {Zero}
  <2>1. \A v \in 1 .. 255 : v \in 0 .. 255 /\ v # 0
    OBVIOUS
  <2> QED BY <2>1, U8Zero
<1>8. xs \in [1 .. n -> Byte \ {Zero}] /\ \A i \in 1 .. n : xs[i] = U8(known[i].id)
  BY <1>5, <1>6, <1>7
<1> HIDE DEF xs
<1>9. /\ other[1] = secret
      /\ \A i \in 1 .. n : Evaluate(other, xs[i]) = Evaluate(s.coeffs, xs[i])
  BY <1>2, <1>3, <1>4, <1>8, AlibiHolds
<1>11. Alibi(other, xs, s.coeffs[1]) = s.coeffs
  BY <1>2, <1>3, <1>4, <1>8, AlibiReturns
<1> HIDE DEF other
<1>10. \A i \in DOMAIN known : Evaluate(other, xs[i]) = known[i].value
  BY <1>5, <1>6, <1>8, <1>9
<1> QED BY <1>9, <1>10, <1>11 DEF other, xs, s

(* Any t - 1 shares of a split are consistent with every secret, and       *)
(* exchanging secrets under them is one to one.                            *)
THEOREM FewerSharesAlwaysHide == Spec => []FewerSharesHide
<1>1. IInv => FewerSharesHide
  BY FewerHide DEF IInv
<1> QED BY <1>1, Always, PTL

=============================================================================
