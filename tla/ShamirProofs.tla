---------------------------- MODULE ShamirProofs ----------------------------
(***************************************************************************)
(* About Shamir: its arithmetic is that of a field, its interpolation      *)
(* gives back what was evaluated, and combine gives the secret of the      *)
(* polynomial its shares lie on, for every threshold and number of shares. *)
(***************************************************************************)
EXTENDS Shamir, Recursion

-----------------------------------------------------------------------------
(* Bits.                                                                   *)

(* Bytes with the same bits are one.                                       *)
LEMMA SameBits ==
  ASSUME NEW a \in Byte, NEW b \in Byte, \A e \in Bit : e \in a <=> e \in b
  PROVE  a = b
BY DEF Byte

(* The bits of a byte.                                                     *)
LEMMA Bits == \A e : e \in Bit <=> e \in {0, 1, 2, 3, 4, 5, 6, 7}
BY DEF Bit

(* The bits of a sum.                                                      *)
LEMMA AddBits == \A a, b, e : e \in gf_add(a, b) <=> (e \in a <=> e \notin b)
BY DEF gf_add

(* The sum of two bytes is one.                                            *)
LEMMA AddTyped == \A a, b \in Byte : gf_add(a, b) \in Byte
BY DEF gf_add, Byte

(* 0 and 1 are bytes, and differ.                                          *)
LEMMA ZeroOne == Zero \in Byte /\ One \in Byte /\ One # Zero
BY DEF Zero, One, Byte, Bit

(* The order of two terms does not matter.                                 *)
LEMMA AddComm == \A a, b : gf_add(a, b) = gf_add(b, a)
BY DEF gf_add

(* Nor how three are grouped.                                              *)
LEMMA AddAssoc == \A a, b, c : gf_add(gf_add(a, b), c) = gf_add(a, gf_add(b, c))
<1> TAKE a, b, c
<1>1. \A e : e \in gf_add(gf_add(a, b), c) <=> e \in gf_add(a, gf_add(b, c))
  BY AddBits
<1> QED BY <1>1 DEF gf_add

(* Every byte is its own negative, and 0 changes nothing.                  *)
LEMMA AddSelf == \A a : gf_add(a, a) = Zero /\ gf_add(a, Zero) = a /\ gf_add(Zero, a) = a
BY DEF gf_add, Zero

(* What adds up to zero is the same.                                       *)
LEMMA AddZero == \A a, b : gf_add(a, b) = Zero => a = b
BY DEF gf_add, Zero

(* Adding twice undoes it.                                                 *)
LEMMA AddCancel == \A a, b : gf_add(gf_add(a, b), b) = a
BY AddAssoc, AddSelf

(* Two sums, term by term.                                                 *)
LEMMA AddSwap ==
  \A a, b, c, d : gf_add(gf_add(a, b), gf_add(c, d)) = gf_add(gf_add(a, c), gf_add(b, d))
<1> TAKE a, b, c, d
<1>1. \A e : e \in gf_add(gf_add(a, b), gf_add(c, d)) <=> e \in gf_add(gf_add(a, c), gf_add(b, d))
  BY AddBits
<1> QED BY <1>1 DEF gf_add

-----------------------------------------------------------------------------
(* Multiplying by x.                                                       *)

(* The bits of x times a byte: it is reduced where bit 7 was set (gf_mul,  *)
(* 0x1b).                                                                  *)
LEMMA DoubledBits ==
  ASSUME NEW a \in Byte
  PROVE  LET d == Doubled(a)
         IN  /\ d \in Byte
             /\ 0 \in d <=> 7 \in a
             /\ 1 \in d <=> (0 \in a <=> 7 \notin a)
             /\ 2 \in d <=> 1 \in a
             /\ 3 \in d <=> (2 \in a <=> 7 \notin a)
             /\ 4 \in d <=> (3 \in a <=> 7 \notin a)
             /\ 5 \in d <=> 4 \in a
             /\ 6 \in d <=> 5 \in a
             /\ 7 \in d <=> 6 \in a
<1> DEFINE s == Shifted(a)
           m == {0, 1, 3, 4}
<1>1. s \in Byte /\ m \in Byte
  BY DEF Shifted, Byte, Bit
<1>2. \A e \in Bit : e \in s <=> e # 0 /\ e - 1 \in a
  <2> TAKE e \in Bit
  <2>1. ASSUME e \in s PROVE e # 0 /\ e - 1 \in a
    <3>1. PICK i \in a \ {7} : e = i + 1
      BY <2>1 DEF Shifted
    <3>2. i \in Bit
      BY DEF Byte
    <3> QED BY <3>1, <3>2 DEF Bit
  <2>2. ASSUME e # 0, e - 1 \in a PROVE e \in s
    <3>1. e - 1 \in a \ {7} /\ e = (e - 1) + 1
      BY <2>2 DEF Bit
    <3> QED BY <3>1 DEF Shifted
  <2> QED BY <2>1, <2>2
<1>3. /\ 0 \notin s
      /\ 1 \in s <=> 0 \in a
      /\ 2 \in s <=> 1 \in a
      /\ 3 \in s <=> 2 \in a
      /\ 4 \in s <=> 3 \in a
      /\ 5 \in s <=> 4 \in a
      /\ 6 \in s <=> 5 \in a
      /\ 7 \in s <=> 6 \in a
  <2> HIDE DEF s
  <2> QED BY <1>2 DEF Bit
<1>4. Doubled(a) = IF 7 \in a THEN gf_add(s, m) ELSE s
  BY DEF Doubled
<1> HIDE DEF s
<1> QED BY <1>1, <1>3, <1>4, AddBits, AddTyped

(* x times a byte is a byte.                                               *)
LEMMA DoubledTyped == \A a \in Byte : Doubled(a) \in Byte
BY DoubledBits

(* x times 0 is 0.                                                         *)
LEMMA DoubledZero == Doubled(Zero) = Zero
BY DEF Doubled, Shifted, Zero

(* Doubling distributes over a sum.                                        *)
LEMMA DoubledAdds ==
  \A a, b \in Byte : Doubled(gf_add(a, b)) = gf_add(Doubled(a), Doubled(b))
<1> TAKE a \in Byte, b \in Byte
<1> DEFINE l == Doubled(gf_add(a, b))
           r == gf_add(Doubled(a), Doubled(b))
<1>1. gf_add(a, b) \in Byte /\ l \in Byte /\ r \in Byte
  BY AddTyped, DoubledTyped
<1>2. \A e \in {0, 1, 2, 3, 4, 5, 6, 7} : e \in l <=> e \in r
  BY <1>1, DoubledBits, AddBits
<1> QED BY <1>1, <1>2, SameBits, Bits

(* x^8 is x^4 + x^3 + x + 1.                                               *)
LEMMA DoubledEightTimes ==
  ASSUME NEW a0 \in Byte, NEW a1, NEW a2, NEW a3, NEW a4, NEW a5, NEW a6, NEW a7,
         a1 = Doubled(a0), a2 = Doubled(a1), a3 = Doubled(a2), a4 = Doubled(a3),
         a5 = Doubled(a4), a6 = Doubled(a5), a7 = Doubled(a6)
  PROVE  Doubled(a7) = gf_add(gf_add(a0, a1), gf_add(a3, a4))
<1>1. /\ a1 \in Byte /\ a2 \in Byte /\ a3 \in Byte /\ a4 \in Byte
      /\ a5 \in Byte /\ a6 \in Byte /\ a7 \in Byte
  BY DoubledTyped
<1> DEFINE l == Doubled(a7)
           r == gf_add(gf_add(a0, a1), gf_add(a3, a4))
<1>2. l \in Byte /\ r \in Byte
  BY <1>1, AddTyped, DoubledTyped
<1>3. \A e \in {0, 1, 2, 3, 4, 5, 6, 7} : e \in l <=> e \in r
  BY <1>1, DoubledBits, AddBits
<1> QED BY <1>2, <1>3, SameBits, Bits

-----------------------------------------------------------------------------
(* The rounds of the multiplication, unrolled.                             *)

(* p[k] is a * x^k.                                                        *)
Doublings(p, a) ==
  /\ p \in [0 .. 7 -> Byte]
  /\ p[0] = a
  /\ \A k \in 1 .. 7 : p[k] = Doubled(p[k - 1])

Term(y, p, i) == IF i \in y THEN p[i] ELSE Zero

Sum8(y, p) ==
  gf_add(gf_add(gf_add(Term(y, p, 0), Term(y, p, 1)), gf_add(Term(y, p, 2), Term(y, p, 3))),
         gf_add(gf_add(Term(y, p, 4), Term(y, p, 5)), gf_add(Term(y, p, 6), Term(y, p, 7))))

(* Every byte can be doubled seven times.                                  *)
LEMMA DoublingsExist == \A a \in Byte : \E p : Doublings(p, a)
<1> TAKE a \in Byte
<1> DEFINE step == [k \in 1 .. 7 |-> [s \in Byte |-> Doubled(s)]]
<1>1. step \in Steps(7, Byte)
  BY DoubledTyped DEF Steps
<1>2. \A k \in 1 .. 7 : \A s \in Byte : step[k][s] = Doubled(s)
  OBVIOUS
<1> HIDE DEF step
<1>3. PICK f : Loops(f, 7, Byte, a, step)
  BY <1>1, LoopDefined
<1>4. Doublings(f, a)
  <2>1. \A k \in 1 .. 7 : k - 1 \in 0 .. 7
    OBVIOUS
  <2> QED BY <1>2, <1>3, <2>1 DEF Loops, Doublings
<1> QED BY <1>4

(* The eight of them, one by one.                                          *)
LEMMA DoublingsAre ==
  ASSUME NEW p, NEW a, Doublings(p, a)
  PROVE  /\ p[0] = a /\ p[1] = Doubled(p[0]) /\ p[2] = Doubled(p[1]) /\ p[3] = Doubled(p[2])
         /\ p[4] = Doubled(p[3]) /\ p[5] = Doubled(p[4]) /\ p[6] = Doubled(p[5])
         /\ p[7] = Doubled(p[6])
         /\ \A i \in 0 .. 7 : p[i] \in Byte
<1>1. \A k \in 1 .. 7 : p[k] = Doubled(p[k - 1])
  BY DEF Doublings
<1>2. p[1] = Doubled(p[0]) /\ p[2] = Doubled(p[1]) /\ p[3] = Doubled(p[2])
  BY <1>1
<1>3. p[4] = Doubled(p[3]) /\ p[5] = Doubled(p[4]) /\ p[6] = Doubled(p[5]) /\ p[7] = Doubled(p[6])
  BY <1>1
<1> QED BY <1>2, <1>3 DEF Doublings

(* The bits of b >> 1.                                                     *)
LEMMA HalvedBits ==
  ASSUME NEW b \in Byte
  PROVE  Halved(b) \in Byte /\ \A e \in Bit : e \in Halved(b) <=> e + 1 \in b
<1> DEFINE s == Halved(b)
<1>1. s \in Byte
  BY DEF Halved, Byte, Bit
<1>2. ASSUME NEW e \in Bit, e \in s PROVE e + 1 \in b
  <2>1. PICK i \in b \ {0} : e = i - 1
    BY <1>2 DEF Halved
  <2> QED BY <2>1 DEF Byte, Bit
<1>3. ASSUME NEW e \in Bit, e + 1 \in b PROVE e \in s
  <2>1. e + 1 \in b \ {0} /\ e = (e + 1) - 1
    BY <1>3 DEF Bit
  <2> QED BY <2>1 DEF Halved
<1> QED BY <1>1, <1>2, <1>3

RoundState == [a : Byte, b : Byte, result : Byte]

(* A round leaves bytes in all three variables.                            *)
LEMMA RoundTyped == \A s \in RoundState : Round(s) \in RoundState
<1> TAKE s \in RoundState
<1>1. s.a \in Byte /\ s.b \in Byte /\ s.result \in Byte
  BY DEF RoundState
<1> QED BY <1>1, DoubledTyped, HalvedBits, AddTyped DEF Round, RoundState

(* The state of each round, as gf_mul computes it.                         *)
RoundsAre(r, x, y) ==
  /\ r[0] = [a |-> x, b |-> y, result |-> Zero]
  /\ \A k \in 1 .. 8 : r[k] = Round(r[k - 1])

(* The rounds of gf_mul are well defined and its result is the last one's. *)
LEMMA RoundsDefined ==
  ASSUME NEW x \in Byte, NEW y \in Byte
  PROVE  \E r : RoundsAre(r, x, y) /\ gf_mul(x, y) = r[8].result
<1> DEFINE init == [a |-> x, b |-> y, result |-> Zero]
           body(f, k) == IF k = 0 THEN init ELSE Round(f[k - 1])
           Is(f) == f = [k \in 0 .. 8 |-> body(f, k)]
           g == CHOOSE f : Is(f)
           step == [k \in 1 .. 8 |-> [s \in RoundState |-> Round(s)]]
<1>1. step \in Steps(8, RoundState)
  BY RoundTyped DEF Steps
<1>2. \A k \in 1 .. 8 : \A s \in RoundState : step[k][s] = Round(s)
  OBVIOUS
<1>3. init \in RoundState
  BY ZeroOne DEF RoundState
<1> HIDE DEF step
<1>4. PICK f : Loops(f, 8, RoundState, init, step)
  BY <1>1, <1>3, LoopDefined
<1>5. \A k \in 0 .. 8 : f[k] = body(f, k)
  <2> TAKE k \in 0 .. 8
  <2>1. k = 0 \/ (k \in 1 .. 8 /\ k - 1 \in 0 .. 8 /\ k # 0)
    OBVIOUS
  <2> HIDE DEF init
  <2> QED BY <1>2, <1>4, <2>1 DEF Loops
<1>6. Is(g)
  <2>1. f = [k \in 0 .. 8 |-> f[k]]
    BY <1>4 DEF Loops
  <2> HIDE DEF body
  <2>2. f = [k \in 0 .. 8 |-> body(f, k)]
    BY <1>5, <2>1
  <2>3. Is(f)
    BY <2>2
  <2> HIDE DEF Is
  <2> QED BY <2>3
<1>7. Rounds(x, y) = g[8].result
  BY DEF Rounds
<1>8. gf_mul(x, y) = Rounds(x, y)
  BY DEF gf_mul
<1> HIDE DEF g
<1>9. \A k \in 0 .. 8 : g[k] = body(g, k)
  <2> HIDE DEF body
  <2> QED BY <1>6
<1>10. RoundsAre(g, x, y)
  <2>1. g[0] = init
    BY <1>9
  <2>2. ASSUME NEW k \in 1 .. 8 PROVE g[k] = Round(g[k - 1])
    <3>1. k \in 0 .. 8 /\ k # 0
      OBVIOUS
    <3> QED BY <1>9, <3>1
  <2> QED BY <2>1, <2>2 DEF RoundsAre
<1> QED BY <1>7, <1>8, <1>10

(* The k-th round adds a * x^k if bit k of y is one.                       *)
LEMMA MulIs ==
  ASSUME NEW x \in Byte, NEW y \in Byte, NEW p, Doublings(p, x)
  PROVE  gf_mul(x, y) = Sum8(y, p)
<1>1. PICK r : RoundsAre(r, x, y) /\ gf_mul(x, y) = r[8].result
  BY RoundsDefined
<1> DEFINE t(i) == Term(y, p, i)
           T == {k \in 0 .. 8 : /\ r[k] \in RoundState
                                /\ k < 8 => r[k].a = p[k]
                                /\ \A e \in Bit : e \in r[k].b <=> e + k \in y}
<1>2. 0 \in T
  <2>1. r[0].a = x /\ r[0].b = y /\ r[0] \in RoundState
    BY <1>1, ZeroOne DEF RoundsAre, RoundState
  <2>2. p[0] = x
    BY DoublingsAre
  <2>3. \A e \in Bit : e + 0 = e
    BY DEF Bit
  <2> QED BY <2>1, <2>2, <2>3
<1>3. ASSUME NEW k \in 1 .. 8, k - 1 \in T PROVE k \in T
  <2>1. r[k] = Round(r[k - 1]) /\ r[k - 1] \in RoundState /\ r[k - 1].a = p[k - 1]
    BY <1>1, <1>3 DEF RoundsAre
  <2>2. r[k] \in RoundState
    BY <2>1, RoundTyped
  <2>3. r[k].a = Doubled(r[k - 1].a) /\ r[k].b = Halved(r[k - 1].b)
    BY <2>1 DEF Round
  <2>4. ASSUME k < 8 PROVE r[k].a = p[k]
    <3>1. k \in 1 .. 7
      BY <2>4
    <3> QED BY <2>1, <2>3, <3>1 DEF Doublings
  <2>5. ASSUME NEW e \in Bit PROVE e \in r[k].b <=> e + k \in y
    <3>1. e \in r[k].b <=> e + 1 \in r[k - 1].b
      BY <2>1, <2>3, HalvedBits DEF RoundState
    <3>2. CASE e + 1 \in Bit
      <4>1. (e + 1) + (k - 1) = e + k
        BY DEF Bit
      <4>2. e + 1 \in r[k - 1].b <=> (e + 1) + (k - 1) \in y
        BY <1>3, <3>2
      <4> QED BY <3>1, <4>1, <4>2
    <3>3. CASE e + 1 \notin Bit
      <4>1. e + 1 \notin r[k - 1].b
        BY <2>1, <3>3 DEF RoundState, Byte
      <4>2. e + k \notin y
        BY <3>3 DEF Byte, Bit
      <4> QED BY <3>1, <4>1, <4>2
    <3> QED BY <3>2, <3>3
  <2> QED BY <2>2, <2>4, <2>5
<1> HIDE DEF T
<1>4. \A k \in 0 .. 8 : k \in T
  BY <1>2, <1>3, Forwards
<1>5. ASSUME NEW k \in 0 .. 7 PROVE r[k + 1].result = gf_add(r[k].result, t(k))
  <2>1. k + 1 \in 1 .. 8 /\ (k + 1) - 1 = k /\ k \in 0 .. 8 /\ k < 8
    OBVIOUS
  <2>2. r[k + 1] = Round(r[k])
    <3>1. r[k + 1] = Round(r[(k + 1) - 1])
      BY <1>1, <2>1 DEF RoundsAre
    <3> QED BY <2>1, <3>1
  <2>3. r[k].a = p[k] /\ (0 \in r[k].b <=> k \in y)
    <3>1. 0 \in Bit /\ 0 + k = k
      BY DEF Bit
    <3> QED BY <1>4, <2>1, <3>1 DEF T
  <2> QED BY <2>2, <2>3, AddSelf DEF Round, Term
<1>6. r[0].result = Zero
  BY <1>1 DEF RoundsAre
<1> HIDE DEF t
<1>7. /\ r[1].result = t(0)
      /\ r[2].result = gf_add(r[1].result, t(1)) /\ r[3].result = gf_add(r[2].result, t(2))
      /\ r[4].result = gf_add(r[3].result, t(3)) /\ r[5].result = gf_add(r[4].result, t(4))
      /\ r[6].result = gf_add(r[5].result, t(5)) /\ r[7].result = gf_add(r[6].result, t(6))
      /\ r[8].result = gf_add(r[7].result, t(7))
  <2>1. \A k \in 0 .. 7 : r[k + 1].result = gf_add(r[k].result, t(k))
    BY <1>5
  <2>2. r[1].result = t(0)
    <3>1. r[0 + 1].result = gf_add(r[0].result, t(0))
      BY <2>1
    <3> QED BY <1>6, <3>1, AddSelf
  <2>3. /\ r[1 + 1].result = gf_add(r[1].result, t(1)) /\ r[2 + 1].result = gf_add(r[2].result, t(2))
        /\ r[3 + 1].result = gf_add(r[3].result, t(3)) /\ r[4 + 1].result = gf_add(r[4].result, t(4))
        /\ r[5 + 1].result = gf_add(r[5].result, t(5)) /\ r[6 + 1].result = gf_add(r[6].result, t(6))
        /\ r[7 + 1].result = gf_add(r[7].result, t(7))
    BY <2>1
  <2> QED BY <2>2, <2>3
<1>8. r[4].result = gf_add(gf_add(t(0), t(1)), gf_add(t(2), t(3)))
  BY <1>7, AddAssoc
<1>9. r[6].result = gf_add(r[4].result, gf_add(t(4), t(5)))
  BY <1>7, AddAssoc
<1>10. r[8].result = gf_add(r[6].result, gf_add(t(6), t(7)))
  BY <1>7, AddAssoc
<1>11. r[8].result = gf_add(r[4].result, gf_add(gf_add(t(4), t(5)), gf_add(t(6), t(7))))
  BY <1>9, <1>10, AddAssoc
<1> QED BY <1>1, <1>8, <1>11 DEF Sum8, t

-----------------------------------------------------------------------------
(* The laws of the ring.                                                   *)

(* A sum of eight terms is a byte.                                         *)
LEMMA Sum8Typed == \A y : \A p : (\A i \in 0 .. 7 : p[i] \in Byte) => Sum8(y, p) \in Byte
BY AddTyped, ZeroOne DEF Sum8, Term

(* A product of bytes is a byte.                                           *)
LEMMA MulTyped == \A x, y \in Byte : gf_mul(x, y) \in Byte
BY MulIs, DoublingsExist, DoublingsAre, Sum8Typed

(* x times 0.                                                              *)
LEMMA MulZero == \A x \in Byte : gf_mul(x, Zero) = Zero
<1> TAKE x \in Byte
<1>1. PICK p : Doublings(p, x)
  BY DoublingsExist
<1>2. \A i : Term(Zero, p, i) = Zero
  BY DEF Term, Zero
<1>3. Sum8(Zero, p) = Zero
  BY <1>2, AddSelf DEF Sum8
<1> QED BY <1>1, <1>3, MulIs, ZeroOne

(* x times 1.                                                              *)
LEMMA MulOne == \A x \in Byte : gf_mul(x, One) = x
<1> TAKE x \in Byte
<1>1. PICK p : Doublings(p, x)
  BY DoublingsExist
<1>2. p[0] = x
  BY <1>1, DoublingsAre
<1>3. Term(One, p, 0) = x /\ \A i \in 1 .. 7 : Term(One, p, i) = Zero
  BY <1>2 DEF Term, One
<1>4. Sum8(One, p) = x
  BY <1>3, AddSelf DEF Sum8
<1> QED BY <1>1, <1>4, MulIs, ZeroOne

(* Two sums added term by term, and eight.                                 *)
LEMMA PairAdds ==
  ASSUME NEW t, NEW u, NEW v, NEW t2, NEW u2, NEW v2, t = gf_add(u, v), t2 = gf_add(u2, v2)
  PROVE  gf_add(t, t2) = gf_add(gf_add(u, u2), gf_add(v, v2))
BY AddSwap

(* If each of eight terms is a sum, so is the whole.                       *)
LEMMA SumsAdd ==
  ASSUME NEW y, NEW p, NEW z, NEW q, NEW w, NEW s,
         \A i \in 0 .. 7 : Term(w, s, i) = gf_add(Term(y, p, i), Term(z, q, i))
  PROVE  Sum8(w, s) = gf_add(Sum8(y, p), Sum8(z, q))
<1> DEFINE t(i) == Term(w, s, i)
           u(i) == Term(y, p, i)
           v(i) == Term(z, q, i)
<1>1. /\ t(0) = gf_add(u(0), v(0)) /\ t(1) = gf_add(u(1), v(1))
      /\ t(2) = gf_add(u(2), v(2)) /\ t(3) = gf_add(u(3), v(3))
      /\ t(4) = gf_add(u(4), v(4)) /\ t(5) = gf_add(u(5), v(5))
      /\ t(6) = gf_add(u(6), v(6)) /\ t(7) = gf_add(u(7), v(7))
  OBVIOUS
<1>2. /\ Sum8(w, s) = gf_add(gf_add(gf_add(t(0), t(1)), gf_add(t(2), t(3))),
                             gf_add(gf_add(t(4), t(5)), gf_add(t(6), t(7))))
      /\ Sum8(y, p) = gf_add(gf_add(gf_add(u(0), u(1)), gf_add(u(2), u(3))),
                             gf_add(gf_add(u(4), u(5)), gf_add(u(6), u(7))))
      /\ Sum8(z, q) = gf_add(gf_add(gf_add(v(0), v(1)), gf_add(v(2), v(3))),
                             gf_add(gf_add(v(4), v(5)), gf_add(v(6), v(7))))
  BY DEF Sum8
<1> HIDE DEF t, u, v
<1> DEFINE Adds(x, d, f) == x = gf_add(d, f)
<1>3. /\ Adds(gf_add(t(0), t(1)), gf_add(u(0), u(1)), gf_add(v(0), v(1)))
      /\ Adds(gf_add(t(2), t(3)), gf_add(u(2), u(3)), gf_add(v(2), v(3)))
      /\ Adds(gf_add(t(4), t(5)), gf_add(u(4), u(5)), gf_add(v(4), v(5)))
      /\ Adds(gf_add(t(6), t(7)), gf_add(u(6), u(7)), gf_add(v(6), v(7)))
  <2>1. Adds(gf_add(t(0), t(1)), gf_add(u(0), u(1)), gf_add(v(0), v(1)))
    BY <1>1, PairAdds
  <2>2. Adds(gf_add(t(2), t(3)), gf_add(u(2), u(3)), gf_add(v(2), v(3)))
    BY <1>1, PairAdds
  <2>3. Adds(gf_add(t(4), t(5)), gf_add(u(4), u(5)), gf_add(v(4), v(5)))
    BY <1>1, PairAdds
  <2>4. Adds(gf_add(t(6), t(7)), gf_add(u(6), u(7)), gf_add(v(6), v(7)))
    BY <1>1, PairAdds
  <2> QED BY <2>1, <2>2, <2>3, <2>4
<1>4. Adds(gf_add(gf_add(t(0), t(1)), gf_add(t(2), t(3))),
           gf_add(gf_add(u(0), u(1)), gf_add(u(2), u(3))),
           gf_add(gf_add(v(0), v(1)), gf_add(v(2), v(3))))
  BY <1>3, PairAdds
<1>5. Adds(gf_add(gf_add(t(4), t(5)), gf_add(t(6), t(7))),
           gf_add(gf_add(u(4), u(5)), gf_add(u(6), u(7))),
           gf_add(gf_add(v(4), v(5)), gf_add(v(6), v(7))))
  BY <1>3, PairAdds
<1> QED BY <1>2, <1>4, <1>5, PairAdds

(* Multiplication distributes over a sum on its right.                     *)
LEMMA MulAddsRight ==
  \A x, y, z \in Byte : gf_mul(x, gf_add(y, z)) = gf_add(gf_mul(x, y), gf_mul(x, z))
<1> TAKE x \in Byte, y \in Byte, z \in Byte
<1>1. PICK p : Doublings(p, x)
  BY DoublingsExist
<1>2. \A i \in 0 .. 7 : Term(gf_add(y, z), p, i) = gf_add(Term(y, p, i), Term(z, p, i))
  BY AddBits, AddSelf DEF Term
<1>3. Sum8(gf_add(y, z), p) = gf_add(Sum8(y, p), Sum8(z, p))
  BY <1>2, SumsAdd
<1> QED BY <1>1, <1>3, MulIs, AddTyped

(* And on its left.                                                        *)
LEMMA MulAddsLeft ==
  \A x, y, z \in Byte : gf_mul(gf_add(x, y), z) = gf_add(gf_mul(x, z), gf_mul(y, z))
<1> TAKE x \in Byte, y \in Byte, z \in Byte
<1>1. PICK p : Doublings(p, x)
  BY DoublingsExist
<1>2. PICK q : Doublings(q, y)
  BY DoublingsExist
<1> DEFINE s == [i \in 0 .. 7 |-> gf_add(p[i], q[i])]
<1>3. Doublings(s, gf_add(x, y))
  <2>1. \A i \in 0 .. 7 : p[i] \in Byte /\ q[i] \in Byte /\ s[i] = gf_add(p[i], q[i])
    BY <1>1, <1>2 DEF Doublings
  <2>2. s \in [0 .. 7 -> Byte]
    BY <2>1, AddTyped
  <2> HIDE DEF s
  <2>3. s[0] = gf_add(x, y)
    BY <1>1, <1>2, <2>1 DEF Doublings
  <2>4. ASSUME NEW k \in 1 .. 7 PROVE s[k] = Doubled(s[k - 1])
    <3>1. k \in 0 .. 7 /\ k - 1 \in 0 .. 7
      OBVIOUS
    <3>2. p[k] = Doubled(p[k - 1]) /\ q[k] = Doubled(q[k - 1])
      BY <1>1, <1>2 DEF Doublings
    <3>3. Doubled(gf_add(p[k - 1], q[k - 1])) = gf_add(Doubled(p[k - 1]), Doubled(q[k - 1]))
      BY <2>1, <3>1, DoubledAdds
    <3> QED BY <2>1, <3>1, <3>2, <3>3
  <2> QED BY <2>2, <2>3, <2>4 DEF Doublings
<1>4. \A i \in 0 .. 7 : Term(z, s, i) = gf_add(Term(z, p, i), Term(z, q, i))
  BY AddSelf DEF Term
<1> HIDE DEF s
<1>5. Sum8(z, s) = gf_add(Sum8(z, p), Sum8(z, q))
  BY <1>4, SumsAdd
<1> QED BY <1>1, <1>2, <1>3, <1>5, MulIs, AddTyped

(* What adds on both sides adds over eight terms.                          *)
Additive(f) ==
  /\ f[Zero] = Zero
  /\ \A a, b \in Byte : f[gf_add(a, b)] = gf_add(f[a], f[b])

(* An additive function goes through a sum of eight terms.                 *)
LEMMA SumMapped ==
  ASSUME NEW f, Additive(f), NEW y, NEW p, NEW q,
         \A i \in 0 .. 7 : p[i] \in Byte /\ q[i] = f[p[i]]
  PROVE  f[Sum8(y, p)] = Sum8(y, q)
<1> DEFINE t(i) == Term(y, p, i)
           u(i) == Term(y, q, i)
<1>1. \A i \in 0 .. 7 : t(i) \in Byte /\ u(i) = f[t(i)]
  BY ZeroOne DEF Term, Additive
<1>2. /\ Sum8(y, p) = gf_add(gf_add(gf_add(t(0), t(1)), gf_add(t(2), t(3))),
                             gf_add(gf_add(t(4), t(5)), gf_add(t(6), t(7))))
      /\ Sum8(y, q) = gf_add(gf_add(gf_add(u(0), u(1)), gf_add(u(2), u(3))),
                             gf_add(gf_add(u(4), u(5)), gf_add(u(6), u(7))))
  BY DEF Sum8
<1> HIDE DEF t, u
<1>3. /\ t(0) \in Byte /\ t(1) \in Byte /\ t(2) \in Byte /\ t(3) \in Byte
      /\ t(4) \in Byte /\ t(5) \in Byte /\ t(6) \in Byte /\ t(7) \in Byte
      /\ u(0) = f[t(0)] /\ u(1) = f[t(1)] /\ u(2) = f[t(2)] /\ u(3) = f[t(3)]
      /\ u(4) = f[t(4)] /\ u(5) = f[t(5)] /\ u(6) = f[t(6)] /\ u(7) = f[t(7)]
  BY <1>1
<1>4. \A a, b \in Byte : f[gf_add(a, b)] = gf_add(f[a], f[b])
  BY DEF Additive
<1>5. /\ f[gf_add(t(0), t(1))] = gf_add(u(0), u(1))
      /\ f[gf_add(t(2), t(3))] = gf_add(u(2), u(3))
      /\ f[gf_add(t(4), t(5))] = gf_add(u(4), u(5))
      /\ f[gf_add(t(6), t(7))] = gf_add(u(6), u(7))
  BY <1>3, <1>4
<1>6. /\ gf_add(t(0), t(1)) \in Byte /\ gf_add(t(2), t(3)) \in Byte
      /\ gf_add(t(4), t(5)) \in Byte /\ gf_add(t(6), t(7)) \in Byte
  BY <1>3, AddTyped
<1>7. /\ f[gf_add(gf_add(t(0), t(1)), gf_add(t(2), t(3)))]
           = gf_add(gf_add(u(0), u(1)), gf_add(u(2), u(3)))
      /\ f[gf_add(gf_add(t(4), t(5)), gf_add(t(6), t(7)))]
           = gf_add(gf_add(u(4), u(5)), gf_add(u(6), u(7)))
  BY <1>4, <1>5, <1>6
<1>8. /\ gf_add(gf_add(t(0), t(1)), gf_add(t(2), t(3))) \in Byte
      /\ gf_add(gf_add(t(4), t(5)), gf_add(t(6), t(7))) \in Byte
  BY <1>6, AddTyped
<1>9. f[Sum8(y, p)] = gf_add(f[gf_add(gf_add(t(0), t(1)), gf_add(t(2), t(3)))],
                              f[gf_add(gf_add(t(4), t(5)), gf_add(t(6), t(7)))])
  BY <1>2, <1>4, <1>8
<1> QED BY <1>2, <1>7, <1>9

(* Doubling the product.                                                   *)
LEMMA SumDoubled ==
  ASSUME NEW y, NEW p, NEW q, \A i \in 0 .. 7 : p[i] \in Byte /\ q[i] = Doubled(p[i])
  PROVE  Doubled(Sum8(y, p)) = Sum8(y, q)
<1> DEFINE f == [a \in Byte |-> Doubled(a)]
<1>1. Additive(f)
  BY DoubledTyped, DoubledZero, DoubledAdds, AddTyped, ZeroOne DEF Additive
<1>2. \A i \in 0 .. 7 : q[i] = f[p[i]]
  OBVIOUS
<1>3. Sum8(y, p) \in Byte /\ f[Sum8(y, p)] = Doubled(Sum8(y, p))
  BY Sum8Typed
<1> HIDE DEF f
<1>4. f[Sum8(y, p)] = Sum8(y, q)
  BY <1>1, <1>2, SumMapped
<1> QED BY <1>3, <1>4

(* Doubling the left operand doubles the product.                          *)
LEMMA MulDoubledLeft ==
  \A x, y \in Byte : gf_mul(Doubled(x), y) = Doubled(gf_mul(x, y))
<1> TAKE x \in Byte, y \in Byte
<1>1. PICK p : Doublings(p, x)
  BY DoublingsExist
<1> DEFINE q == [i \in 0 .. 7 |-> Doubled(p[i])]
<1>2. \A i \in 0 .. 7 : p[i] \in Byte /\ q[i] = Doubled(p[i])
  BY <1>1 DEF Doublings
<1>3. q \in [0 .. 7 -> Byte]
  BY <1>2, DoubledTyped
<1> HIDE DEF q
<1>4. Doublings(q, Doubled(x))
  <2>1. q[0] = Doubled(x)
    BY <1>1, <1>2 DEF Doublings
  <2>2. ASSUME NEW k \in 1 .. 7 PROVE q[k] = Doubled(q[k - 1])
    <3>1. k \in 0 .. 7 /\ k - 1 \in 0 .. 7
      OBVIOUS
    <3> QED BY <1>1, <1>2, <3>1 DEF Doublings
  <2> QED BY <1>3, <2>1, <2>2 DEF Doublings
<1>5. Doubled(Sum8(y, p)) = Sum8(y, q)
  BY <1>2, SumDoubled
<1> QED BY <1>1, <1>4, <1>5, MulIs, DoubledTyped

(* Doubling the right one too.                                             *)
LEMMA MulDoubledRight ==
  \A x, y \in Byte : gf_mul(x, Doubled(y)) = Doubled(gf_mul(x, y))
<1> TAKE x \in Byte, y \in Byte
<1>1. PICK p : Doublings(p, x)
  BY DoublingsExist
<1> DEFINE q == [i \in 0 .. 7 |-> Doubled(p[i])]
           d == Doubled(y)
           l == Sum8(d, p)
           r == Sum8(y, q)
<1>2. \A i \in 0 .. 7 : p[i] \in Byte /\ q[i] = Doubled(p[i])
  BY <1>1 DEF Doublings
<1>3. /\ q[0] = p[1] /\ q[1] = p[2] /\ q[2] = p[3] /\ q[3] = p[4]
      /\ q[4] = p[5] /\ q[5] = p[6] /\ q[6] = p[7]
      /\ q[7] = gf_add(gf_add(p[0], p[1]), gf_add(p[3], p[4]))
  <2>1. q[7] = Doubled(p[7])
    BY <1>2
  <2>2. Doubled(p[7]) = gf_add(gf_add(p[0], p[1]), gf_add(p[3], p[4]))
    BY <1>1, DoublingsAre, DoubledEightTimes
  <2> QED BY <1>1, <1>2, <2>1, <2>2, DoublingsAre
<1> HIDE DEF q
<1>4. l \in Byte /\ r \in Byte
  BY <1>2, DoubledTyped, Sum8Typed
<1>5. ASSUME NEW e \in Bit PROVE e \in l <=> e \in r
  <2> DEFINE P(i) == e \in p[i]
  <2>1. \A s : \A i : e \in Term(s, p, i) <=> (i \in s /\ e \in p[i])
    BY DEF Term, Zero
  <2>2. \A s : \A i : e \in Term(s, q, i) <=> (i \in s /\ e \in q[i])
    BY DEF Term, Zero
  <2>3. e \in q[7] <=> ((P(0) <=> ~P(1)) <=> ~(P(3) <=> ~P(4)))
    BY <1>3, AddBits
  <2>4. \A s : e \in Sum8(s, p) <=>
          ((((0 \in s /\ P(0)) <=> ~(1 \in s /\ P(1))) <=> ~((2 \in s /\ P(2)) <=> ~(3 \in s /\ P(3))))
            <=> ~(((4 \in s /\ P(4)) <=> ~(5 \in s /\ P(5))) <=> ~((6 \in s /\ P(6)) <=> ~(7 \in s /\ P(7)))))
    BY <2>1, AddBits DEF Sum8
  <2>5. e \in Sum8(y, q) <=>
          ((((0 \in y /\ P(1)) <=> ~(1 \in y /\ P(2))) <=> ~((2 \in y /\ P(3)) <=> ~(3 \in y /\ P(4))))
            <=> ~(((4 \in y /\ P(5)) <=> ~(5 \in y /\ P(6))) <=> ~((6 \in y /\ P(7)) <=> ~(7 \in y /\ e \in q[7]))))
    BY <1>3, <2>2, AddBits DEF Sum8
  <2> HIDE DEF P
  <2>6. CASE 7 \in y
    BY <2>3, <2>4, <2>5, <2>6, DoubledBits
  <2>7. CASE 7 \notin y
    BY <2>3, <2>4, <2>5, <2>7, DoubledBits
  <2> QED BY <2>6, <2>7
<1>6. l = r
  BY <1>4, <1>5, SameBits
<1> QED BY <1>1, <1>2, <1>6, MulIs, SumDoubled, DoubledTyped

(* Bit by bit, a byte is a sum of powers of x.                             *)
Powers == [i \in 0 .. 7 |-> {i}]

(* The doublings of 1, and each byte as their sum.                         *)
LEMMA PowersAre ==
  /\ Doublings(Powers, One)
  /\ \A x \in Byte : Sum8(x, Powers) = x
<1>1. \A i \in 0 .. 7 : Powers[i] = {i} /\ Powers[i] \in Byte
  BY DEF Powers, Byte, Bit
<1>2. ASSUME NEW k \in 1 .. 7 PROVE Powers[k] = Doubled(Powers[k - 1])
  <2>1. Powers[k] = {k} /\ Powers[k - 1] = {k - 1} /\ k - 1 # 7
    BY <1>1
  <2>2. Shifted({k - 1}) = {k}
    BY <2>1 DEF Shifted
  <2> QED BY <2>1, <2>2 DEF Doubled
<1>3. Doublings(Powers, One)
  BY <1>1, <1>2 DEF Doublings, One, Powers
<1>4. ASSUME NEW x \in Byte PROVE Sum8(x, Powers) = x
  <2>1. ASSUME NEW i \in 0 .. 7, NEW e PROVE e \in Term(x, Powers, i) <=> (e = i /\ e \in x)
    BY <1>1 DEF Term, Zero
  <2>2. \A e \in {0, 1, 2, 3, 4, 5, 6, 7} : e \in Sum8(x, Powers) <=> e \in x
    BY <2>1, AddBits DEF Sum8
  <2>3. Sum8(x, Powers) \in Byte
    BY <1>1, Sum8Typed
  <2> QED BY <2>2, <2>3, SameBits, Bits
<1> QED BY <1>3, <1>4

(* 1 times x.                                                              *)
LEMMA OneMul == \A x \in Byte : gf_mul(One, x) = x
BY PowersAre, MulIs, ZeroOne

(* 0 times x.                                                              *)
LEMMA ZeroMul == \A x \in Byte : gf_mul(Zero, x) = Zero
<1> TAKE x \in Byte
<1>1. gf_mul(gf_add(Zero, Zero), x) = gf_add(gf_mul(Zero, x), gf_mul(Zero, x))
  BY MulAddsLeft, ZeroOne
<1> QED BY <1>1, AddSelf

(* What holds of 0 and 1 and is kept by doubling and adding holds of every *)
(* byte.                                                                   *)
LEMMA Generated ==
  ASSUME NEW S \in SUBSET Byte, Zero \in S, One \in S,
         \A a \in S : Doubled(a) \in S, \A a, b \in S : gf_add(a, b) \in S
  PROVE  S = Byte
<1> DEFINE T == {k \in 0 .. 7 : Powers[k] \in S}
<1>1. 0 \in T
  BY DEF Powers, One
<1>2. ASSUME NEW k \in 1 .. 7, k - 1 \in T PROVE k \in T
  <2>1. Powers[k] = Doubled(Powers[k - 1])
    BY PowersAre DEF Doublings
  <2> QED BY <1>2, <2>1
<1> HIDE DEF T
<1>3. \A k \in 0 .. 7 : k \in T
  BY <1>1, <1>2, Forwards
<1>4. \A k \in 0 .. 7 : Powers[k] \in S
  BY <1>3 DEF T
<1>5. ASSUME NEW x \in Byte PROVE x \in S
  <2>1. \A k \in 0 .. 7 : Term(x, Powers, k) \in S
    BY <1>4 DEF Term
  <2>2. Sum8(x, Powers) \in S
    BY <2>1 DEF Sum8
  <2> QED BY <2>2, PowersAre
<1> QED BY <1>5

(* The order of two factors does not matter.                               *)
LEMMA MulComm == \A x, y \in Byte : gf_mul(x, y) = gf_mul(y, x)
<1> TAKE x \in Byte, y \in Byte
<1> DEFINE S == {z \in Byte : gf_mul(z, y) = gf_mul(y, z)}
<1>1. Zero \in S /\ One \in S
  BY ZeroOne, ZeroMul, OneMul, MulZero, MulOne
<1>2. ASSUME NEW a \in S PROVE Doubled(a) \in S
  BY <1>2, DoubledTyped, MulDoubledLeft, MulDoubledRight
<1>3. ASSUME NEW a \in S, NEW b \in S PROVE gf_add(a, b) \in S
  BY <1>3, AddTyped, MulAddsLeft, MulAddsRight
<1>4. S \in SUBSET Byte
  OBVIOUS
<1> HIDE DEF S
<1>5. S = Byte
  BY <1>1, <1>2, <1>3, <1>4, Generated
<1> QED BY <1>5 DEF S

(* Nor how three are grouped.                                              *)
LEMMA MulAssoc ==
  \A x, y, z \in Byte : gf_mul(gf_mul(x, y), z) = gf_mul(x, gf_mul(y, z))
<1> TAKE x \in Byte, y \in Byte, z \in Byte
<1> DEFINE S == {w \in Byte : gf_mul(gf_mul(x, y), w) = gf_mul(x, gf_mul(y, w))}
<1>1. gf_mul(x, y) \in Byte
  BY MulTyped
<1>2. Zero \in S /\ One \in S
  BY <1>1, ZeroOne, MulZero, MulOne
<1>3. ASSUME NEW a \in S PROVE Doubled(a) \in S
  <2>1. gf_mul(y, a) \in Byte /\ Doubled(a) \in Byte
    BY MulTyped, DoubledTyped
  <2>2. gf_mul(gf_mul(x, y), Doubled(a)) = Doubled(gf_mul(gf_mul(x, y), a))
    BY <1>1, MulDoubledRight
  <2>3. gf_mul(x, gf_mul(y, Doubled(a))) = Doubled(gf_mul(x, gf_mul(y, a)))
    BY <2>1, MulDoubledRight
  <2> QED BY <1>3, <2>1, <2>2, <2>3
<1>4. ASSUME NEW a \in S, NEW b \in S PROVE gf_add(a, b) \in S
  <2>1. gf_mul(y, a) \in Byte /\ gf_mul(y, b) \in Byte /\ gf_add(a, b) \in Byte
    BY MulTyped, AddTyped
  <2>2. gf_mul(gf_mul(x, y), gf_add(a, b)) = gf_add(gf_mul(gf_mul(x, y), a), gf_mul(gf_mul(x, y), b))
    BY <1>1, MulAddsRight
  <2>3. gf_mul(x, gf_mul(y, gf_add(a, b))) = gf_add(gf_mul(x, gf_mul(y, a)), gf_mul(x, gf_mul(y, b)))
    BY <2>1, MulAddsRight
  <2> QED BY <1>4, <2>1, <2>2, <2>3
<1>5. S \in SUBSET Byte
  OBVIOUS
<1> HIDE DEF S
<1>6. S = Byte
  BY <1>2, <1>3, <1>4, <1>5, Generated
<1> QED BY <1>6 DEF S

-----------------------------------------------------------------------------
(* Squares and the inverse.                                                *)

Square(x) == gf_mul(x, x)

(* The square of a byte is a byte.                                         *)
LEMMA SquareTyped == \A x \in Byte : Square(x) \in Byte
BY MulTyped DEF Square

(* The square of a sum is the sum of the squares.                          *)
LEMMA SquareAdds ==
  \A x, y \in Byte : Square(gf_add(x, y)) = gf_add(Square(x), Square(y))
<1> TAKE x \in Byte, y \in Byte
<1> DEFINE m == gf_mul(x, y)
<1>1. gf_add(x, y) \in Byte /\ m = gf_mul(y, x)
  BY AddTyped, MulComm
<1>2. Square(gf_add(x, y)) = gf_add(gf_mul(gf_add(x, y), x), gf_mul(gf_add(x, y), y))
  BY <1>1, MulAddsRight DEF Square
<1>3. gf_mul(gf_add(x, y), x) = gf_add(Square(x), m) /\ gf_mul(gf_add(x, y), y) = gf_add(m, Square(y))
  BY <1>1, MulAddsLeft DEF Square
<1>4. gf_add(gf_add(Square(x), m), gf_add(m, Square(y))) = gf_add(Square(x), Square(y))
  BY AddAssoc, AddCancel
<1> QED BY <1>2, <1>3, <1>4

(* The squares of the powers of x.                                         *)
LEMMA PowersSquared ==
  LET x8 == {0, 1, 3, 4}
  IN  /\ Square(Powers[0]) = {0} /\ Square(Powers[1]) = {2}
      /\ Square(Powers[2]) = {4} /\ Square(Powers[3]) = {6}
      /\ Square(Powers[4]) = x8 /\ Square(Powers[5]) = {2, 3, 5, 6}
      /\ Square(Powers[6]) = {0, 1, 3, 5, 7} /\ Square(Powers[7]) = {1, 3, 4, 7}
<1> DEFINE P(i) == Powers[i]
<1>1. \A i \in 0 .. 7 : P(i) = {i} /\ P(i) \in Byte
  BY DEF Powers, Byte, Bit
<1>2. \A i \in 0 .. 6 : P(i + 1) = Doubled(P(i))
  <2> TAKE i \in 0 .. 6
  <2>1. i + 1 \in 1 .. 7 /\ (i + 1) - 1 = i
    OBVIOUS
  <2>2. Powers[i + 1] = Doubled(Powers[(i + 1) - 1])
    BY <2>1, PowersAre DEF Doublings
  <2> QED BY <2>1, <2>2
<1>3. \A i \in 0 .. 6 : Square(P(i + 1)) = Doubled(Doubled(Square(P(i))))
  <2> TAKE i \in 0 .. 6
  <2>1. P(i) \in Byte /\ Doubled(P(i)) \in Byte
    BY <1>1, DoubledTyped
  <2>2. gf_mul(Doubled(P(i)), Doubled(P(i))) = Doubled(gf_mul(P(i), Doubled(P(i))))
    BY <2>1, MulDoubledLeft
  <2>3. gf_mul(P(i), Doubled(P(i))) = Doubled(gf_mul(P(i), P(i)))
    BY <2>1, MulDoubledRight
  <2> QED BY <1>2, <2>2, <2>3 DEF Square
<1>4. Square(P(0)) = {0}
  BY <1>1, MulOne DEF Square, One
<1> DEFINE Next(a, c, d) == Doubled(a) = c /\ Doubled(c) = d
<1>5. /\ Next({0}, {1}, {2}) /\ Next({2}, {3}, {4}) /\ Next({4}, {5}, {6})
      /\ Next({6}, {7}, {0, 1, 3, 4})
  BY DEF Doubled, Shifted, gf_add
<1>6. Next({0, 1, 3, 4}, {1, 2, 4, 5}, {2, 3, 5, 6})
  BY DEF Doubled, Shifted, gf_add
<1>7. Next({2, 3, 5, 6}, {3, 4, 6, 7}, {0, 1, 3, 5, 7})
  BY DEF Doubled, Shifted, gf_add
<1>8. Next({0, 1, 3, 5, 7}, {0, 2, 3, 6}, {1, 3, 4, 7})
  BY DEF Doubled, Shifted, gf_add
<1>9. /\ Square(P(0 + 1)) = {2} /\ Square(P(1 + 1)) = {4}
      /\ Square(P(2 + 1)) = {6} /\ Square(P(3 + 1)) = {0, 1, 3, 4}
  BY <1>3, <1>4, <1>5
<1>10. /\ Square(P(4 + 1)) = {2, 3, 5, 6} /\ Square(P(5 + 1)) = {0, 1, 3, 5, 7}
       /\ Square(P(6 + 1)) = {1, 3, 4, 7}
  BY <1>3, <1>6, <1>7, <1>8, <1>9
<1> QED BY <1>4, <1>9, <1>10

(* Squaring, bit by bit.                                                   *)
LEMMA SquareBits ==
  ASSUME NEW x \in Byte
  PROVE  LET s == Square(x)
         IN  /\ s \in Byte
             /\ 0 \in s <=> ((0 \in x <=> 4 \notin x) <=> 6 \notin x)
             /\ 1 \in s <=> ((4 \in x <=> 6 \notin x) <=> 7 \notin x)
             /\ 2 \in s <=> (1 \in x <=> 5 \notin x)
             /\ 3 \in s <=> (((4 \in x <=> 5 \notin x) <=> 6 \notin x) <=> 7 \notin x)
             /\ 4 \in s <=> ((2 \in x <=> 4 \notin x) <=> 7 \notin x)
             /\ 5 \in s <=> (5 \in x <=> 6 \notin x)
             /\ 6 \in s <=> (3 \in x <=> 5 \notin x)
             /\ 7 \in s <=> (6 \in x <=> 7 \notin x)
<1> DEFINE f == [a \in Byte |-> Square(a)]
           q == [i \in 0 .. 7 |-> Square(Powers[i])]
<1>1. Additive(f)
  BY SquareTyped, SquareAdds, AddTyped, ZeroOne, MulZero DEF Additive, Square
<1>2. \A i \in 0 .. 7 : Powers[i] \in Byte /\ q[i] = f[Powers[i]]
  BY PowersAre DEF Doublings
<1>3. f[x] = Square(x)
  OBVIOUS
<1>4. /\ q[0] = {0} /\ q[1] = {2} /\ q[2] = {4} /\ q[3] = {6} /\ q[4] = {0, 1, 3, 4}
      /\ q[5] = {2, 3, 5, 6} /\ q[6] = {0, 1, 3, 5, 7} /\ q[7] = {1, 3, 4, 7}
  BY PowersSquared
<1> HIDE DEF f, q
<1>5. f[Sum8(x, Powers)] = Sum8(x, q)
  BY <1>1, <1>2, SumMapped
<1>6. Square(x) = Sum8(x, q)
  BY <1>3, <1>5, PowersAre
<1>7. \A i, e : e \in Term(x, q, i) <=> (i \in x /\ e \in q[i])
  BY DEF Term, Zero
<1>8. \A e \in {0, 1, 2, 3, 4, 5, 6, 7} : e \in Sum8(x, q) <=>
        ((((0 \in x /\ e \in q[0]) <=> ~(1 \in x /\ e \in q[1])) <=> ~((2 \in x /\ e \in q[2]) <=> ~(3 \in x /\ e \in q[3])))
          <=> ~(((4 \in x /\ e \in q[4]) <=> ~(5 \in x /\ e \in q[5])) <=> ~((6 \in x /\ e \in q[6]) <=> ~(7 \in x /\ e \in q[7]))))
  BY <1>7, AddBits DEF Sum8
<1> QED BY <1>4, <1>6, <1>8, SquareTyped

(* x^256 = x.                                                              *)
LEMMA SquaredEightTimes ==
  ASSUME NEW x0 \in Byte, NEW x1, NEW x2, NEW x3, NEW x4, NEW x5, NEW x6, NEW x7,
         x1 = Square(x0), x2 = Square(x1), x3 = Square(x2), x4 = Square(x3),
         x5 = Square(x4), x6 = Square(x5), x7 = Square(x6)
  PROVE  Square(x7) = x0
<1>1. /\ x1 \in Byte /\ x2 \in Byte /\ x3 \in Byte /\ x4 \in Byte
      /\ x5 \in Byte /\ x6 \in Byte /\ x7 \in Byte /\ Square(x7) \in Byte
  BY SquareTyped
<1>2. \A e \in {0, 1, 2, 3, 4, 5, 6, 7} : e \in Square(x7) <=> e \in x0
  BY <1>1, SquareBits
<1> QED BY <1>1, <1>2, SameBits, Bits

(* 0 and 1 are the only bytes that are their own squares.                  *)
LEMMA Idempotents == \A e \in Byte : Square(e) = e => e = Zero \/ e = One
<1> TAKE e \in Byte
<1>1. ASSUME Square(e) = e PROVE \A i \in {1, 2, 3, 4, 5, 6, 7} : i \notin e
  BY <1>1, SquareBits
<1>2. ASSUME Square(e) = e PROVE e = Zero \/ e = One
  BY <1>1, <1>2, Bits DEF Zero, One, Byte
<1> QED BY <1>2

(* A square with one factor less.                                          *)
LEMMA MulTwice ==
  \A x, y \in Byte : gf_mul(gf_mul(x, y), y) = gf_mul(x, Square(y))
BY MulAssoc DEF Square

(* gf_inv(a) is the inverse of every byte but zero: a * a^254 = 1.         *)
THEOREM InverseMul ==
  \A a \in Byte : /\ gf_inv(a) \in Byte
                  /\ a # Zero => gf_mul(a, gf_inv(a)) = One
<1> TAKE a \in Byte
<1>1. CASE a = Zero
  BY <1>1, ZeroOne DEF gf_inv
<1>2. CASE a # Zero
  <2> DEFINE a2   == Square(a)
             a4   == Square(a2)
             a8   == Square(a4)
             a16  == Square(a8)
             a32  == Square(a16)
             a64  == Square(a32)
             a128 == Square(a64)
             r192 == gf_mul(a128, a64)
             r224 == gf_mul(r192, a32)
             r240 == gf_mul(r224, a16)
             r248 == gf_mul(r240, a8)
             r252 == gf_mul(r248, a4)
             r254 == gf_mul(r252, a2)
             e    == gf_mul(a, r254)
  <2>1. gf_inv(a) = r254
    BY <1>2 DEF gf_inv, Power252, Square
  <2>2. Square(a128) = a
    BY SquaredEightTimes
  <2>3. /\ a2 \in Byte /\ a4 \in Byte /\ a8 \in Byte /\ a16 \in Byte
        /\ a32 \in Byte /\ a64 \in Byte /\ a128 \in Byte
    <3>1. a2 \in Byte /\ a4 \in Byte /\ a8 \in Byte /\ a16 \in Byte
      BY SquareTyped
    <3> HIDE DEF a16
    <3> QED BY <3>1, SquareTyped
  <2>4. /\ a4 = Square(a2) /\ a8 = Square(a4) /\ a16 = Square(a8) /\ a32 = Square(a16)
        /\ a64 = Square(a32) /\ a128 = Square(a64) /\ a2 = gf_mul(a, a)
    BY DEF Square
  <2> HIDE DEF a2, a4, a8, a16, a32, a64, a128
  <2>5. r192 \in Byte /\ r224 \in Byte /\ r240 \in Byte /\ r248 \in Byte /\ r252 \in Byte
    <3>1. r192 \in Byte
      BY <2>3, MulTyped
    <3>2. r224 \in Byte
      BY <3>1, <2>3, MulTyped
    <3>3. r240 \in Byte
      BY <3>2, <2>3, MulTyped
    <3>4. r248 \in Byte
      BY <3>3, <2>3, MulTyped
    <3>5. r252 \in Byte
      BY <3>4, <2>3, MulTyped
    <3> QED BY <3>1, <3>2, <3>3, <3>4, <3>5
  <2>6. r254 \in Byte /\ e \in Byte
    BY <2>3, <2>5, MulTyped
  <2>7. gf_mul(r254, a2) = a
    <3>1. gf_mul(r254, a2) = gf_mul(r252, a4)
      BY <2>3, <2>4, <2>5, MulTwice
    <3>2. gf_mul(r252, a4) = gf_mul(r248, a8)
      BY <2>3, <2>4, <2>5, MulTwice
    <3>3. gf_mul(r248, a8) = gf_mul(r240, a16)
      BY <2>3, <2>4, <2>5, MulTwice
    <3>4. gf_mul(r240, a16) = gf_mul(r224, a32)
      BY <2>3, <2>4, <2>5, MulTwice
    <3>5. gf_mul(r224, a32) = gf_mul(r192, a64)
      BY <2>3, <2>4, <2>5, MulTwice
    <3>6. gf_mul(r192, a64) = gf_mul(a128, a128)
      BY <2>3, <2>4, MulTwice
    <3> QED BY <2>2, <3>1, <3>2, <3>3, <3>4, <3>5, <3>6 DEF Square
  <2> HIDE DEF r254
  <2>8. gf_mul(e, a) = a
    <3>1. e = gf_mul(r254, a)
      BY <2>6, MulComm
    <3>2. gf_mul(gf_mul(r254, a), a) = gf_mul(r254, a2)
      BY <2>4, <2>6, MulAssoc
    <3> QED BY <2>7, <3>1, <3>2
  <2>9. Square(e) = e
    <3>1. gf_mul(e, gf_mul(a, r254)) = gf_mul(gf_mul(e, a), r254)
      BY <2>6, MulAssoc
    <3> QED BY <2>8, <3>1 DEF Square
  <2>10. e # Zero
    BY <1>2, <2>8, ZeroMul
  <2> QED BY <2>1, <2>6, <2>9, <2>10, Idempotents
<1> QED BY <1>1, <1>2

(* A division undoes a multiplication.                                     *)
LEMMA Undone == \A a, b \in Byte : a # Zero => gf_mul(gf_mul(b, a), gf_inv(a)) = b
BY InverseMul, MulAssoc, MulOne

(* A product is zero only if a factor is.                                  *)
LEMMA NoZeroDivisors == \A a, b \in Byte : gf_mul(a, b) = Zero => a = Zero \/ b = Zero
<1> TAKE a \in Byte, b \in Byte
<1>1. ASSUME gf_mul(a, b) = Zero, b # Zero PROVE a = Zero
  BY <1>1, Undone, InverseMul, ZeroMul
<1> QED BY <1>1

-----------------------------------------------------------------------------
(* Sums and products of the values f[1], ..., f[m].                        *)

SumTo(f, m)     == LoopTo([k \in DOMAIN f |-> [s \in Byte |-> gf_add(s, f[k])]], Zero, m)
ProductTo(f, m) == LoopTo([k \in DOMAIN f |-> [s \in Byte |-> gf_mul(s, f[k])]], One, m)

(* The sum of the first m values, and of one more.                         *)
LEMMA SumIs ==
  ASSUME NEW n \in Nat, NEW f \in [1 .. n -> Byte]
  PROVE  /\ SumTo(f, 0) = Zero
         /\ \A m \in 1 .. n : SumTo(f, m) = gf_add(SumTo(f, m - 1), f[m])
         /\ \A m \in 0 .. n : SumTo(f, m) \in Byte
<1> DEFINE step == [k \in DOMAIN f |-> [s \in Byte |-> gf_add(s, f[k])]]
<1>1. step \in Steps(n, Byte)
  BY AddTyped DEF Steps
<1>2. \A k \in 1 .. n : \A s \in Byte : step[k][s] = gf_add(s, f[k])
  OBVIOUS
<1>3. \A m : SumTo(f, m) = LoopTo(step, Zero, m)
  BY DEF SumTo
<1> HIDE DEF step
<1>4. /\ LoopTo(step, Zero, 0) = Zero
      /\ \A m \in 1 .. n : LoopTo(step, Zero, m) = step[m][LoopTo(step, Zero, m - 1)]
      /\ \A m \in 0 .. n : LoopTo(step, Zero, m) \in Byte
  BY <1>1, ZeroOne, LoopTurns
<1>5. \A m \in 1 .. n : m - 1 \in 0 .. n
  OBVIOUS
<1> QED BY <1>2, <1>3, <1>4, <1>5

(* Their product, and with one more.                                       *)
LEMMA ProductIs ==
  ASSUME NEW n \in Nat, NEW f \in [1 .. n -> Byte]
  PROVE  /\ ProductTo(f, 0) = One
         /\ \A m \in 1 .. n : ProductTo(f, m) = gf_mul(ProductTo(f, m - 1), f[m])
         /\ \A m \in 0 .. n : ProductTo(f, m) \in Byte
<1> DEFINE step == [k \in DOMAIN f |-> [s \in Byte |-> gf_mul(s, f[k])]]
<1>1. step \in Steps(n, Byte)
  BY MulTyped DEF Steps
<1>2. \A k \in 1 .. n : \A s \in Byte : step[k][s] = gf_mul(s, f[k])
  OBVIOUS
<1>3. \A m : ProductTo(f, m) = LoopTo(step, One, m)
  BY DEF ProductTo
<1> HIDE DEF step
<1>4. /\ LoopTo(step, One, 0) = One
      /\ \A m \in 1 .. n : LoopTo(step, One, m) = step[m][LoopTo(step, One, m - 1)]
      /\ \A m \in 0 .. n : LoopTo(step, One, m) \in Byte
  BY <1>1, ZeroOne, LoopTurns
<1>5. \A m \in 1 .. n : m - 1 \in 0 .. n
  OBVIOUS
<1> QED BY <1>2, <1>3, <1>4, <1>5

(* Sums of the same values are the same.                                   *)
LEMMA SameSum ==
  ASSUME NEW n \in Nat, NEW m \in 0 .. n, NEW f \in [1 .. n -> Byte], NEW g \in [1 .. n -> Byte],
         \A i \in 1 .. m : f[i] = g[i]
  PROVE  SumTo(f, m) = SumTo(g, m)
<1> DEFINE T == {k \in 0 .. m : SumTo(f, k) = SumTo(g, k)}
<1>1. 0 \in T
  BY SumIs
<1>2. ASSUME NEW k \in 1 .. m, k - 1 \in T PROVE k \in T
  <2>1. k \in 1 .. n /\ k \in 0 .. m
    OBVIOUS
  <2>2. SumTo(f, k) = gf_add(SumTo(f, k - 1), f[k]) /\ SumTo(g, k) = gf_add(SumTo(g, k - 1), g[k])
    BY <2>1, SumIs
  <2> QED BY <1>2, <2>1, <2>2
<1> HIDE DEF T
<1>3. \A k \in 0 .. m : k \in T
  BY <1>1, <1>2, Forwards
<1>4. m \in T
  BY <1>3
<1> QED BY <1>4 DEF T

(* Products of the same values are the same.                               *)
LEMMA SameProduct ==
  ASSUME NEW n \in Nat, NEW m \in 0 .. n, NEW f \in [1 .. n -> Byte], NEW g \in [1 .. n -> Byte],
         \A i \in 1 .. m : f[i] = g[i]
  PROVE  ProductTo(f, m) = ProductTo(g, m)
<1> DEFINE T == {k \in 0 .. m : ProductTo(f, k) = ProductTo(g, k)}
<1>1. 0 \in T
  BY ProductIs
<1>2. ASSUME NEW k \in 1 .. m, k - 1 \in T PROVE k \in T
  <2>1. k \in 1 .. n /\ k \in 0 .. m
    OBVIOUS
  <2>2. /\ ProductTo(f, k) = gf_mul(ProductTo(f, k - 1), f[k])
        /\ ProductTo(g, k) = gf_mul(ProductTo(g, k - 1), g[k])
    BY <2>1, ProductIs
  <2> QED BY <1>2, <2>1, <2>2
<1> HIDE DEF T
<1>3. \A k \in 0 .. m : k \in T
  BY <1>1, <1>2, Forwards
<1>4. m \in T
  BY <1>3
<1> QED BY <1>4 DEF T

(* Sums are linear.                                                        *)
AreSums(h, f, g, m)        == \A i \in 1 .. m : h[i] = gf_add(f[i], g[i])
AreMultiples(h, c, f, m)   == \A i \in 1 .. m : h[i] = gf_mul(c, f[i])

(* The sum of sums.                                                        *)
LEMMA SumAdds ==
  ASSUME NEW n \in Nat, NEW m \in 0 .. n, NEW f \in [1 .. n -> Byte],
         NEW g \in [1 .. n -> Byte], NEW h \in [1 .. n -> Byte],
         AreSums(h, f, g, m)
  PROVE  SumTo(h, m) = gf_add(SumTo(f, m), SumTo(g, m))
<1> DEFINE T == {k \in 0 .. m : SumTo(h, k) = gf_add(SumTo(f, k), SumTo(g, k))}
<1>1. 0 \in T
  BY SumIs, AddSelf
<1>2. ASSUME NEW k \in 1 .. m, k - 1 \in T PROVE k \in T
  <2>1. k \in 1 .. n /\ k \in 0 .. m
    OBVIOUS
  <2>2. /\ SumTo(f, k) = gf_add(SumTo(f, k - 1), f[k]) /\ SumTo(g, k) = gf_add(SumTo(g, k - 1), g[k])
        /\ SumTo(h, k) = gf_add(SumTo(h, k - 1), h[k])
    BY <2>1, SumIs
  <2>3. SumTo(h, k - 1) = gf_add(SumTo(f, k - 1), SumTo(g, k - 1)) /\ h[k] = gf_add(f[k], g[k])
    BY <1>2 DEF AreSums
  <2>4. SumTo(h, k) = gf_add(SumTo(f, k), SumTo(g, k))
    BY <2>2, <2>3, PairAdds
  <2> QED BY <2>1, <2>4
<1> HIDE DEF T
<1>3. \A k \in 0 .. m : k \in T
  <2>1. m \in Nat
    OBVIOUS
  <2>2. \A k \in 1 .. m : k - 1 \in T => k \in T
    BY <1>2
  <2> QED BY <1>1, <2>1, <2>2, Forwards, Zenon
<1>4. m \in T
  BY <1>3
<1> QED BY <1>4 DEF T

(* The sum of multiples.                                                   *)
LEMMA SumScaled ==
  ASSUME NEW n \in Nat, NEW m \in 0 .. n, NEW c \in Byte, NEW f \in [1 .. n -> Byte],
         NEW h \in [1 .. n -> Byte], AreMultiples(h, c, f, m)
  PROVE  SumTo(h, m) = gf_mul(c, SumTo(f, m))
<1> DEFINE T == {k \in 0 .. m : SumTo(h, k) = gf_mul(c, SumTo(f, k))}
<1>1. 0 \in T
  BY SumIs, MulZero
<1>2. ASSUME NEW k \in 1 .. m, k - 1 \in T PROVE k \in T
  <2>1. k \in 1 .. n /\ k \in 0 .. m /\ k - 1 \in 0 .. n
    OBVIOUS
  <2>2. SumTo(f, k) = gf_add(SumTo(f, k - 1), f[k]) /\ SumTo(h, k) = gf_add(SumTo(h, k - 1), h[k])
    BY <2>1, SumIs
  <2>3. SumTo(h, k - 1) = gf_mul(c, SumTo(f, k - 1)) /\ h[k] = gf_mul(c, f[k])
    BY <1>2 DEF AreMultiples
  <2>4. SumTo(f, k - 1) \in Byte /\ f[k] \in Byte
    BY <2>1, SumIs
  <2>5. SumTo(h, k) = gf_mul(c, SumTo(f, k))
    BY <2>2, <2>3, <2>4, MulAddsRight
  <2> QED BY <2>1, <2>5
<1> HIDE DEF T
<1>3. \A k \in 0 .. m : k \in T
  <2>1. m \in Nat
    OBVIOUS
  <2>2. \A k \in 1 .. m : k - 1 \in T => k \in T
    BY <1>2
  <2> QED BY <1>1, <2>1, <2>2, Forwards, Zenon
<1>4. m \in T
  BY <1>3
<1> QED BY <1>4 DEF T

(* The same of two sums at once.                                          *)
AreScaledSums(h, c, f, g, m) == \A i \in 1 .. m : h[i] = gf_mul(c, gf_add(f[i], g[i]))

(* The sum of multiples of sums.                                           *)
LEMMA ScaledSums ==
  ASSUME NEW n \in Nat, NEW m \in 0 .. n, NEW c \in Byte, NEW f \in [1 .. n -> Byte],
         NEW g \in [1 .. n -> Byte], NEW h \in [1 .. n -> Byte],
         AreScaledSums(h, c, f, g, m)
  PROVE  SumTo(h, m) = gf_mul(c, gf_add(SumTo(f, m), SumTo(g, m)))
<1> DEFINE d == [i \in 1 .. n |-> gf_add(f[i], g[i])]
<1>1. d \in [1 .. n -> Byte]
  BY AddTyped
<1>2. \A i \in 1 .. m : d[i] = gf_add(f[i], g[i])
  OBVIOUS
<1> HIDE DEF d
<1>3. AreSums(d, f, g, m) /\ AreMultiples(h, c, d, m)
  BY <1>2 DEF AreSums, AreMultiples, AreScaledSums
<1>4. SumTo(d, m) = gf_add(SumTo(f, m), SumTo(g, m))
  BY <1>1, <1>3, SumAdds
<1>5. SumTo(h, m) = gf_mul(c, SumTo(d, m))
  BY <1>1, <1>3, SumScaled
<1> QED BY <1>4, <1>5

(* A product is zero only if a factor is.                                  *)
LEMMA ProductNotZero ==
  ASSUME NEW n \in Nat, NEW m \in 0 .. n, NEW f \in [1 .. n -> Byte],
         \A i \in 1 .. m : f[i] # Zero
  PROVE  ProductTo(f, m) # Zero
<1> DEFINE T == {k \in 0 .. m : ProductTo(f, k) # Zero}
<1>1. 0 \in T
  BY ProductIs, ZeroOne
<1>2. ASSUME NEW k \in 1 .. m, k - 1 \in T PROVE k \in T
  <2>1. k \in 1 .. n /\ k \in 0 .. m /\ k - 1 \in 0 .. n
    OBVIOUS
  <2>2. ProductTo(f, k) = gf_mul(ProductTo(f, k - 1), f[k]) /\ ProductTo(f, k - 1) \in Byte
    BY <2>1, ProductIs
  <2>3. f[k] # Zero /\ ProductTo(f, k - 1) # Zero
    BY <1>2
  <2> QED BY <2>1, <2>2, <2>3, NoZeroDivisors
<1> HIDE DEF T
<1>3. \A k \in 0 .. m : k \in T
  BY <1>1, <1>2, Forwards
<1>4. m \in T
  BY <1>3
<1> QED BY <1>4 DEF T

-----------------------------------------------------------------------------
(* Fractions.                                                              *)

(* Two factors change places.                                              *)
LEMMA MulLeft == \A a, b, c \in Byte : gf_mul(a, gf_mul(b, c)) = gf_mul(b, gf_mul(a, c))
<1> TAKE a \in Byte, b \in Byte, c \in Byte
<1>1. gf_mul(a, gf_mul(b, c)) = gf_mul(gf_mul(a, b), c)
  BY MulAssoc
<1>2. gf_mul(b, gf_mul(a, c)) = gf_mul(gf_mul(b, a), c)
  BY MulAssoc
<1> QED BY <1>1, <1>2, MulComm

(* Two factors change places.                                              *)
LEMMA MulRight == \A a, b, c \in Byte : gf_mul(gf_mul(a, b), c) = gf_mul(gf_mul(a, c), b)
<1> TAKE a \in Byte, b \in Byte, c \in Byte
<1>1. gf_mul(gf_mul(a, b), c) = gf_mul(a, gf_mul(b, c))
  BY MulAssoc
<1>2. gf_mul(gf_mul(a, c), b) = gf_mul(a, gf_mul(c, b))
  BY MulAssoc
<1> QED BY <1>1, <1>2, MulComm

(* Two factors of two products change places.                              *)
LEMMA MulSwap ==
  \A a, b, c, d \in Byte : gf_mul(gf_mul(a, b), gf_mul(c, d)) = gf_mul(gf_mul(a, c), gf_mul(b, d))
<1> TAKE a \in Byte, b \in Byte, c \in Byte, d \in Byte
<1>1. gf_mul(gf_mul(a, b), gf_mul(c, d)) = gf_mul(a, gf_mul(b, gf_mul(c, d)))
  BY MulTyped, MulAssoc
<1>2. gf_mul(gf_mul(a, c), gf_mul(b, d)) = gf_mul(a, gf_mul(c, gf_mul(b, d)))
  BY MulTyped, MulAssoc
<1> QED BY <1>1, <1>2, MulLeft

(* There is only one inverse.                                              *)
LEMMA OnlyInverse == \A a, b \in Byte : gf_mul(a, b) = One => b = gf_inv(a)
<1> TAKE a \in Byte, b \in Byte
<1> HAVE gf_mul(a, b) = One
<1>1. a # Zero
  BY ZeroMul, ZeroOne
<1>2. gf_mul(gf_mul(b, a), gf_inv(a)) = b
  BY <1>1, Undone
<1>3. gf_mul(b, a) = One
  BY MulComm
<1> QED BY <1>2, <1>3, OneMul, InverseMul

(* gf_inv gives 0 for 0, and 1 for 1.                                      *)
LEMMA InverseZero == gf_inv(Zero) = Zero /\ gf_inv(One) = One
<1>1. gf_inv(Zero) = Zero
  BY DEF gf_inv
<1>2. gf_mul(One, One) = One
  BY OneMul, ZeroOne
<1> QED BY <1>1, <1>2, OnlyInverse, ZeroOne

(* The inverse of a product is the product of the inverses.                *)
LEMMA InverseOfProduct ==
  \A a, b \in Byte : gf_inv(gf_mul(a, b)) = gf_mul(gf_inv(a), gf_inv(b))
<1> TAKE a \in Byte, b \in Byte
<1>0. gf_inv(a) \in Byte /\ gf_inv(b) \in Byte
  BY InverseMul
<1>1. CASE a = Zero
  BY <1>0, <1>1, ZeroMul, InverseZero
<1>2. CASE b = Zero
  BY <1>0, <1>2, MulZero, InverseZero
<1>3. CASE a # Zero /\ b # Zero
  <2>1. gf_mul(gf_mul(a, b), gf_mul(gf_inv(a), gf_inv(b)))
          = gf_mul(gf_mul(a, gf_inv(a)), gf_mul(b, gf_inv(b)))
    BY <1>0, MulSwap
  <2>2. gf_mul(gf_mul(a, b), gf_mul(gf_inv(a), gf_inv(b))) = One
    BY <1>3, <2>1, InverseMul, OneMul, ZeroOne
  <2> QED BY <1>0, <2>2, MulTyped, OnlyInverse
<1> QED BY <1>1, <1>2, <1>3

(* Two fractions.                                                          *)
LEMMA PartialFractions ==
  ASSUME NEW a \in Byte, NEW b \in Byte, a # Zero, b # Zero, a # b
  PROVE  gf_mul(gf_inv(a), gf_inv(b))
           = gf_mul(gf_inv(gf_add(a, b)), gf_add(gf_inv(a), gf_inv(b)))
<1> DEFINE p == gf_inv(a)
           q == gf_inv(b)
           s == gf_add(a, b)
           r == gf_inv(s)
<1>0. p \in Byte /\ q \in Byte /\ s \in Byte /\ r \in Byte
  BY InverseMul, AddTyped
<1>1. s # Zero /\ gf_mul(s, r) = One
  BY <1>0, AddZero, InverseMul
<1>2. gf_mul(a, p) = One /\ gf_mul(b, q) = One
  BY InverseMul
<1> HIDE DEF p, q, s, r
<1>3. gf_mul(a, gf_mul(p, q)) = q
  BY <1>0, <1>2, MulAssoc, OneMul
<1>4. gf_mul(b, gf_mul(p, q)) = p
  BY <1>0, <1>2, MulLeft, MulOne
<1>5. gf_mul(s, gf_mul(p, q)) = gf_add(q, p)
  <2>1. gf_mul(p, q) \in Byte
    BY <1>0, MulTyped
  <2> QED BY <1>3, <1>4, <2>1, MulAddsLeft DEF s
<1>6. gf_mul(r, gf_mul(s, gf_mul(p, q))) = gf_mul(p, q)
  <2>1. gf_mul(p, q) \in Byte
    BY <1>0, MulTyped
  <2>2. gf_mul(r, s) = One
    BY <1>0, <1>1, MulComm
  <2> QED BY <1>0, <2>1, <2>2, MulAssoc, OneMul
<1> QED BY <1>5, <1>6, AddComm DEF p, q, r, s

(* x / (v + x) = v / (v + x) + 1.                                          *)
LEMMA Fraction ==
  ASSUME NEW v \in Byte, NEW x \in Byte, v # x
  PROVE  gf_mul(x, gf_inv(gf_add(v, x))) = gf_add(gf_mul(v, gf_inv(gf_add(v, x))), One)
<1> DEFINE s == gf_add(v, x)
           r == gf_inv(s)
<1>0. s \in Byte /\ r \in Byte
  BY AddTyped, InverseMul
<1>1. gf_mul(s, r) = One
  BY <1>0, AddZero, InverseMul
<1>2. x = gf_add(v, s)
  BY AddAssoc, AddSelf
<1> HIDE DEF s, r
<1>3. gf_mul(gf_add(v, s), r) = gf_add(gf_mul(v, r), gf_mul(s, r))
  BY <1>0, MulAddsLeft
<1>4. gf_mul(x, r) = gf_add(gf_mul(v, r), One)
  BY <1>1, <1>2, <1>3
<1> QED BY <1>4 DEF s, r

-----------------------------------------------------------------------------
(* Interpolation at any v: the fractions of 1 / (v + x) at the points xs.  *)

Points(n)  == {xs \in [1 .. n -> Byte] : \A i, j \in 1 .. n : xs[i] = xs[j] => i = j}
Away(xs, m) == {v \in Byte : \A i \in 1 .. m : v # xs[i]}

Factors(xs, v) == [j \in DOMAIN xs |-> gf_add(v, xs[j])]
Others(xs, i)  == [j \in DOMAIN xs |-> IF j = i THEN One ELSE gf_add(xs[i], xs[j])]
Weight(xs, i, m) == gf_inv(ProductTo(Others(xs, i), m))

(* The sum of f[i] / ((v + xs[i]) w[i]) and the sum of f[i] / w[i].        *)
Terms(xs, f, v, m) ==
  [i \in DOMAIN xs |-> gf_mul(gf_mul(f[i], gf_inv(gf_add(v, xs[i]))), Weight(xs, i, m))]
Heads(xs, f, m)    == [i \in DOMAIN xs |-> gf_mul(f[i], Weight(xs, i, m))]
At(xs, f, v, m)    == SumTo(Terms(xs, f, v, m), m)
Top(xs, f, m)      == SumTo(Heads(xs, f, m), m)

(* Factors and weights are bytes.                                          *)
LEMMA FactorsTyped ==
  ASSUME NEW n \in Nat, NEW xs \in [1 .. n -> Byte]
  PROVE  /\ \A v \in Byte : Factors(xs, v) \in [1 .. n -> Byte]
         /\ \A i \in 1 .. n : Others(xs, i) \in [1 .. n -> Byte]
         /\ \A i \in 1 .. n : \A m \in 0 .. n : Weight(xs, i, m) \in Byte
<1>1. \A v \in Byte : Factors(xs, v) \in [1 .. n -> Byte]
  BY AddTyped DEF Factors
<1>2. ASSUME NEW i \in 1 .. n PROVE Others(xs, i) \in [1 .. n -> Byte]
  <2>1. \A j \in 1 .. n : gf_add(xs[i], xs[j]) \in Byte
    BY AddTyped
  <2> QED BY <2>1, ZeroOne DEF Others
<1>3. ASSUME NEW i \in 1 .. n, NEW m \in 0 .. n PROVE Weight(xs, i, m) \in Byte
  BY <1>2, ProductIs, InverseMul DEF Weight
<1> QED BY <1>1, <1>2, <1>3

(* So are the terms of both sums.                                          *)
LEMMA TermsTyped ==
  ASSUME NEW n \in Nat, NEW xs \in [1 .. n -> Byte], NEW f \in [1 .. n -> Byte], NEW m \in 0 .. n
  PROVE  /\ \A v \in Byte : Terms(xs, f, v, m) \in [1 .. n -> Byte]
         /\ Heads(xs, f, m) \in [1 .. n -> Byte]
<1>1. \A i \in 1 .. n : Weight(xs, i, m) \in Byte /\ f[i] \in Byte
  BY FactorsTyped
<1>2. ASSUME NEW v \in Byte PROVE Terms(xs, f, v, m) \in [1 .. n -> Byte]
  <2>1. ASSUME NEW i \in 1 .. n
        PROVE  gf_mul(gf_mul(f[i], gf_inv(gf_add(v, xs[i]))), Weight(xs, i, m)) \in Byte
    <3>1. gf_inv(gf_add(v, xs[i])) \in Byte
      BY AddTyped, InverseMul
    <3>2. gf_mul(f[i], gf_inv(gf_add(v, xs[i]))) \in Byte
      BY <1>1, <3>1, MulTyped
    <3> QED BY <1>1, <3>2, MulTyped
  <2> QED BY <2>1 DEF Terms
<1>3. Heads(xs, f, m) \in [1 .. n -> Byte]
  BY <1>1, MulTyped DEF Heads
<1> QED BY <1>2, <1>3

(* One point more divides the weights of the others.                       *)
LEMMA WeightsGrow ==
  ASSUME NEW n \in Nat, NEW xs \in [1 .. n -> Byte], NEW m \in 1 .. n - 1, NEW i \in 1 .. m
  PROVE  Weight(xs, i, m + 1) = gf_mul(Weight(xs, i, m), gf_inv(gf_add(xs[m + 1], xs[i])))
<1> DEFINE o == Others(xs, i)
<1>1. i \in 1 .. n /\ m + 1 \in 1 .. n /\ m + 1 # i /\ m \in 0 .. n /\ (m + 1) - 1 = m
  OBVIOUS
<1>2. o \in [1 .. n -> Byte]
  BY <1>1, FactorsTyped
<1>3. o[m + 1] = gf_add(xs[m + 1], xs[i])
  BY <1>1, AddComm DEF Others
<1> HIDE DEF o
<1>4. ProductTo(o, m + 1) = gf_mul(ProductTo(o, m), o[m + 1]) /\ ProductTo(o, m) \in Byte
  <2>1. \A k \in 1 .. n : ProductTo(o, k) = gf_mul(ProductTo(o, k - 1), o[k])
    BY <1>2, ProductIs
  <2>2. ProductTo(o, m) \in Byte
    BY <1>1, <1>2, ProductIs
  <2> QED BY <1>1, <2>1, <2>2
<1>5. o[m + 1] \in Byte
  BY <1>1, <1>2
<1>6. gf_inv(ProductTo(o, m + 1)) = gf_mul(gf_inv(ProductTo(o, m)), gf_inv(o[m + 1]))
  BY <1>4, <1>5, InverseOfProduct
<1> QED BY <1>3, <1>6 DEF Weight, o

(* The weight of the last point.                                           *)
LEMMA LastWeight ==
  ASSUME NEW n \in Nat, NEW xs \in [1 .. n -> Byte], NEW m \in 1 .. n
  PROVE  Weight(xs, m, m) = gf_inv(ProductTo(Factors(xs, xs[m]), m - 1))
<1> DEFINE o == Others(xs, m)
           w == Factors(xs, xs[m])
<1>1. m - 1 \in 0 .. n /\ xs[m] \in Byte
  OBVIOUS
<1>2. o \in [1 .. n -> Byte] /\ w \in [1 .. n -> Byte]
  BY <1>1, FactorsTyped
<1>3. o[m] = One
  BY DEF Others
<1>4. \A i \in 1 .. m - 1 : o[i] = w[i]
  BY DEF Others, Factors
<1> HIDE DEF o, w
<1>5. ProductTo(o, m - 1) = ProductTo(w, m - 1)
  BY <1>1, <1>2, <1>4, SameProduct
<1>6. ProductTo(o, m) = gf_mul(ProductTo(o, m - 1), o[m]) /\ ProductTo(o, m - 1) \in Byte
  BY <1>1, <1>2, ProductIs
<1>7. ProductTo(o, m) = ProductTo(w, m - 1)
  BY <1>3, <1>5, <1>6, MulOne
<1> QED BY <1>7 DEF Weight, o, w

(* One point more is one factor more.                                      *)
LEMMA FactorsGrow ==
  ASSUME NEW n \in Nat, NEW xs \in [1 .. n -> Byte], NEW v \in Byte, NEW m \in 1 .. n
  PROVE  /\ ProductTo(Factors(xs, v), m) \in Byte
         /\ ProductTo(Factors(xs, v), m - 1) \in Byte
         /\ ProductTo(Factors(xs, v), m) = gf_mul(ProductTo(Factors(xs, v), m - 1), gf_add(v, xs[m]))
<1> DEFINE w == Factors(xs, v)
<1>0. w \in [1 .. n -> Byte]
  BY FactorsTyped
<1>1. w[m] = gf_add(v, xs[m])
  BY DEF Factors
<1>2. m \in 0 .. n /\ m - 1 \in 0 .. n
  OBVIOUS
<1> HIDE DEF w
<1>3. /\ ProductTo(w, m) \in Byte /\ ProductTo(w, m - 1) \in Byte
      /\ ProductTo(w, m) = gf_mul(ProductTo(w, m - 1), w[m])
  BY <1>0, <1>2, ProductIs
<1> QED BY <1>1, <1>3 DEF w

(* The sum of f[i] / w[i] over m + 1 points is the value at the last of    *)
(* the sum over the first m, plus the last term.                           *)
LEMMA TopGrows ==
  ASSUME NEW n \in Nat, NEW xs \in [1 .. n -> Byte], NEW f \in [1 .. n -> Byte],
         NEW m \in 1 .. n - 1
  PROVE  Top(xs, f, m + 1)
           = gf_add(At(xs, f, xs[m + 1], m),
                    gf_mul(f[m + 1], gf_inv(ProductTo(Factors(xs, xs[m + 1]), m))))
<1> DEFINE u == xs[m + 1]
           h == Heads(xs, f, m + 1)
           g == Terms(xs, f, u, m)
<1>1. m + 1 \in 1 .. n /\ m \in 0 .. n /\ m + 1 \in 0 .. n /\ (m + 1) - 1 = m /\ u \in Byte
  OBVIOUS
<1>2. h \in [1 .. n -> Byte] /\ g \in [1 .. n -> Byte]
  BY <1>1, TermsTyped
<1>3. ASSUME NEW i \in 1 .. m PROVE h[i] = g[i]
  <2>1. i \in 1 .. n
    OBVIOUS
  <2>2. Weight(xs, i, m + 1) = gf_mul(Weight(xs, i, m), gf_inv(gf_add(u, xs[i])))
    BY WeightsGrow
  <2>3. /\ Weight(xs, i, m) \in Byte /\ gf_inv(gf_add(u, xs[i])) \in Byte /\ f[i] \in Byte
    BY <1>1, <2>1, FactorsTyped, AddTyped, InverseMul
  <2>4. h[i] = gf_mul(f[i], gf_mul(Weight(xs, i, m), gf_inv(gf_add(u, xs[i]))))
    BY <2>1, <2>2 DEF Heads
  <2>5. g[i] = gf_mul(gf_mul(f[i], gf_inv(gf_add(u, xs[i]))), Weight(xs, i, m))
    BY <2>1 DEF Terms
  <2> QED BY <2>3, <2>4, <2>5, MulAssoc, MulComm
<1>4. h[m + 1] = gf_mul(f[m + 1], gf_inv(ProductTo(Factors(xs, u), m)))
  <2>1. Weight(xs, m + 1, m + 1) = gf_inv(ProductTo(Factors(xs, u), m))
    BY <1>1, LastWeight
  <2> QED BY <1>1, <2>1 DEF Heads
<1> HIDE DEF h, g
<1>5. SumTo(h, m) = SumTo(g, m)
  BY <1>1, <1>2, <1>3, SameSum
<1>6. SumTo(h, m + 1) = gf_add(SumTo(h, m), h[m + 1])
  <2>1. \A k \in 1 .. n : SumTo(h, k) = gf_add(SumTo(h, k - 1), h[k])
    BY <1>2, SumIs
  <2> QED BY <1>1, <2>1
<1> QED BY <1>4, <1>5, <1>6 DEF Top, At, h, g

(* What is away from m + 1 points is away from the first m and not the     *)
(* last.                                                                   *)
LEMMA AwayLess ==
  ASSUME NEW n \in Nat, NEW xs \in [1 .. n -> Byte], NEW m \in 1 .. n - 1, NEW v \in Away(xs, m + 1)
  PROVE  v \in Byte /\ v \in Away(xs, m) /\ v # xs[m + 1]
<1>1. \A i \in 1 .. m : i \in 1 .. m + 1
  OBVIOUS
<1>2. m + 1 \in 1 .. m + 1
  OBVIOUS
<1> QED BY <1>1, <1>2 DEF Away

(* The next point is away from those before it.                            *)
LEMMA PointsDiffer ==
  ASSUME NEW n \in Nat, NEW xs \in Points(n), NEW m \in 1 .. n - 1
  PROVE  xs[m + 1] \in Away(xs, m)
<1>1. ASSUME NEW i \in 1 .. m PROVE xs[m + 1] # xs[i]
  <2>1. i \in 1 .. n /\ m + 1 \in 1 .. n /\ i # m + 1
    OBVIOUS
  <2> QED BY <2>1 DEF Points
<1>2. xs[m + 1] \in Byte
  BY DEF Points
<1> QED BY <1>1, <1>2 DEF Away

Ones(n) == [i \in 1 .. n |-> One]

(* The fractions of the constant 1 add up to 1 / ((v + xs[1]) ... ).       *)
LEMMA OneInterpolated ==
  ASSUME NEW n \in Nat, NEW xs \in Points(n), NEW m \in 1 .. n, NEW v \in Away(xs, m)
  PROVE  At(xs, Ones(n), v, m) = gf_inv(ProductTo(Factors(xs, v), m))
<1>0. xs \in [1 .. n -> Byte] /\ Ones(n) \in [1 .. n -> Byte]
  BY ZeroOne DEF Points, Ones
<1> DEFINE Right(k) == \A b \in Away(xs, k) :
                         At(xs, Ones(n), b, k) = gf_inv(ProductTo(Factors(xs, b), k))
           T == {k \in 0 .. n : k >= 1 => Right(k)}
<1>1. 0 \in T
  OBVIOUS
<1>2. ASSUME 1 <= n PROVE Right(1)
  <2> TAKE b \in Away(xs, 1)
  <2>1. b \in Byte /\ 1 \in 1 .. n /\ 1 \in 0 .. n /\ 1 - 1 = 0
    BY <1>2 DEF Away
  <2> DEFINE g == Terms(xs, Ones(n), b, 1)
             s == gf_add(b, xs[1])
  <2>2. g \in [1 .. n -> Byte]
    BY <1>0, <2>1, TermsTyped
  <2>3. s \in Byte /\ gf_inv(s) \in Byte
    BY <1>0, <2>1, AddTyped, InverseMul
  <2>4. ProductTo(Factors(xs, xs[1]), 0) = One /\ ProductTo(Factors(xs, b), 0) = One
    BY <1>0, <2>1, FactorsTyped, ProductIs
  <2>5. Weight(xs, 1, 1) = One
    <3>1. Weight(xs, 1, 1) = gf_inv(ProductTo(Factors(xs, xs[1]), 0))
      BY <1>0, <2>1, LastWeight
    <3> QED BY <2>4, <3>1, InverseZero
  <2>6. g[1] = gf_inv(s)
    <3>1. g[1] = gf_mul(gf_mul(One, gf_inv(s)), One)
      BY <1>0, <2>1, <2>5 DEF Terms, Ones
    <3> QED BY <2>3, <3>1, OneMul, MulOne
  <2>7. ProductTo(Factors(xs, b), 1) = s
    <3>1. ProductTo(Factors(xs, b), 1) = gf_mul(ProductTo(Factors(xs, b), 1 - 1), gf_add(b, xs[1]))
      BY <1>0, <2>1, FactorsGrow
    <3>2. ProductTo(Factors(xs, b), 1) = gf_mul(One, s)
      BY <2>1, <2>4, <3>1
    <3> QED BY <2>3, <3>2, OneMul
  <2> HIDE DEF g
  <2>8. SumTo(g, 1) = gf_inv(s)
    <3>1. SumTo(g, 1) = gf_add(Zero, g[1])
      BY <2>1, <2>2, SumIs
    <3> QED BY <2>6, <3>1, AddSelf
  <2> QED BY <2>7, <2>8 DEF At, g
<1>3. ASSUME NEW k \in 1 .. n - 1, Right(k) PROVE Right(k + 1)
  <2> TAKE b \in Away(xs, k + 1)
  <2> DEFINE u == xs[k + 1]
             h == Terms(xs, Ones(n), b, k + 1)
             g == Terms(xs, Ones(n), b, k)
             e == Terms(xs, Ones(n), u, k)
             c == gf_inv(gf_add(b, u))
  <2>1. k + 1 \in 1 .. n /\ k \in 0 .. n /\ k + 1 \in 0 .. n /\ (k + 1) - 1 = k /\ k + 1 > k
    OBVIOUS
  <2>2. b \in Byte /\ b \in Away(xs, k) /\ b # u /\ u \in Byte /\ u \in Away(xs, k)
    BY <1>0, <2>1, AwayLess, PointsDiffer
  <2>3. g \in [1 .. n -> Byte] /\ e \in [1 .. n -> Byte] /\ h \in [1 .. n -> Byte]
    BY <1>0, <2>1, <2>2, TermsTyped
  <2>4. c \in Byte
    BY <2>2, AddTyped, InverseMul
  <2>5. ASSUME NEW i \in 1 .. k PROVE h[i] = gf_mul(c, gf_add(g[i], e[i]))
    <3> DEFINE p == gf_inv(gf_add(b, xs[i]))
               q == gf_inv(gf_add(u, xs[i]))
               w == Weight(xs, i, k)
    <3>1. i \in 1 .. n /\ b # xs[i] /\ u # xs[i]
      BY <2>2 DEF Away
    <3>2. p \in Byte /\ q \in Byte /\ w \in Byte
      BY <1>0, <2>1, <2>2, <3>1, AddTyped, InverseMul, FactorsTyped
    <3>3. h[i] = gf_mul(gf_mul(One, p), gf_mul(w, q))
      BY <1>0, <3>1, WeightsGrow DEF Terms, Ones
    <3>4. g[i] = gf_mul(gf_mul(One, p), w) /\ e[i] = gf_mul(gf_mul(One, q), w)
      BY <1>0, <3>1 DEF Terms, Ones
    <3>5. gf_mul(p, q) = gf_mul(c, gf_add(p, q))
      <4> DEFINE a1 == gf_add(b, xs[i])
                 b1 == gf_add(u, xs[i])
      <4>1. a1 \in Byte /\ b1 \in Byte /\ a1 # Zero /\ b1 # Zero
        BY <1>0, <2>2, <3>1, AddTyped, AddZero
      <4>2. gf_add(a1, b1) = gf_add(b, u)
        <5>1. gf_add(a1, b1) = gf_add(gf_add(b, u), gf_add(xs[i], xs[i]))
          BY AddSwap
        <5> QED BY <5>1, AddSelf
      <4>3. a1 # b1
        BY <2>2, <4>2, AddSelf, AddZero
      <4> HIDE DEF a1, b1
      <4>4. gf_mul(gf_inv(a1), gf_inv(b1))
              = gf_mul(gf_inv(gf_add(a1, b1)), gf_add(gf_inv(a1), gf_inv(b1)))
        BY <4>1, <4>3, PartialFractions
      <4> QED BY <4>2, <4>4 DEF a1, b1
    <3> HIDE DEF p, q, w, c, g, e, h
    <3>6. h[i] = gf_mul(gf_mul(p, q), w)
      <4>1. h[i] = gf_mul(p, gf_mul(q, w))
        BY <3>2, <3>3, OneMul, MulComm
      <4> QED BY <3>2, <4>1, MulAssoc
    <3>7. gf_add(g[i], e[i]) = gf_mul(gf_add(p, q), w)
      BY <3>2, <3>4, OneMul, MulAddsLeft
    <3>8. gf_mul(gf_mul(c, gf_add(p, q)), w) = gf_mul(c, gf_mul(gf_add(p, q), w))
      BY <2>4, <3>2, AddTyped, MulAssoc
    <3> QED BY <3>5, <3>6, <3>7, <3>8
  <2>6. h[k + 1] = gf_mul(c, gf_inv(ProductTo(Factors(xs, u), k)))
    <3>1. Weight(xs, k + 1, k + 1) = gf_inv(ProductTo(Factors(xs, u), k))
      BY <1>0, <2>1, LastWeight
    <3>2. h[k + 1] = gf_mul(gf_mul(One, c), Weight(xs, k + 1, k + 1))
      BY <1>0, <2>1 DEF Terms, Ones
    <3> QED BY <2>4, <3>1, <3>2, OneMul
  <2>7. /\ SumTo(g, k) = gf_inv(ProductTo(Factors(xs, b), k))
        /\ SumTo(e, k) = gf_inv(ProductTo(Factors(xs, u), k))
    BY <1>3, <2>2 DEF At
  <2> HIDE DEF g, e, h, c
  <2>8. SumTo(h, k) = gf_mul(c, gf_add(SumTo(g, k), SumTo(e, k)))
    <3>1. k \in 0 .. n
      OBVIOUS
    <3>2. AreScaledSums(h, c, g, e, k)
      BY <2>5 DEF AreScaledSums
    <3> QED BY <2>3, <2>4, <3>1, <3>2, ScaledSums
  <2> DEFINE wb == ProductTo(Factors(xs, b), k)
             wu == ProductTo(Factors(xs, u), k)
  <2>13. wb \in Byte /\ wu \in Byte /\ gf_inv(wb) \in Byte /\ gf_inv(wu) \in Byte
    <3>1. Factors(xs, b) \in [1 .. n -> Byte] /\ Factors(xs, u) \in [1 .. n -> Byte]
      BY <1>0, <2>2, FactorsTyped
    <3> QED BY <2>1, <3>1, ProductIs, InverseMul
  <2>14. SumTo(h, k + 1) = gf_add(SumTo(h, k), h[k + 1])
    <3>1. \A i \in 1 .. n : SumTo(h, i) = gf_add(SumTo(h, i - 1), h[i])
      BY <2>3, SumIs
    <3> QED BY <2>1, <3>1
  <2>15. ProductTo(Factors(xs, b), k + 1) = gf_mul(wb, gf_add(b, u))
    <3>1. ProductTo(Factors(xs, b), k + 1)
            = gf_mul(ProductTo(Factors(xs, b), (k + 1) - 1), gf_add(b, xs[k + 1]))
      BY <1>0, <2>1, <2>2, FactorsGrow
    <3> QED BY <2>1, <3>1
  <2>16. gf_inv(ProductTo(Factors(xs, b), k + 1)) = gf_mul(gf_inv(wb), c)
    BY <2>2, <2>13, <2>15, AddTyped, InverseOfProduct DEF c
  <2> HIDE DEF wb, wu
  <2>17. SumTo(h, k) = gf_add(gf_mul(c, gf_inv(wb)), gf_mul(c, gf_inv(wu)))
    BY <2>4, <2>7, <2>8, <2>13, MulAddsRight DEF wb, wu
  <2>18. h[k + 1] = gf_mul(c, gf_inv(wu))
    BY <2>6 DEF wu
  <2>19. SumTo(h, k + 1) = gf_mul(c, gf_inv(wb))
    BY <2>14, <2>17, <2>18, AddCancel
  <2> QED BY <2>4, <2>13, <2>16, <2>19, MulComm DEF At, h
<1> HIDE DEF Right
<1>4. ASSUME NEW k \in 0 .. n - 1, k \in T PROVE k + 1 \in T
  BY <1>2, <1>3, <1>4
<1> HIDE DEF T
<1>5. \A k \in 0 .. n : k \in T
  BY <1>1, <1>4, Upwards
<1>6. m \in T /\ m >= 1
  BY <1>5
<1> QED BY <1>6 DEF T, Right

(* A function g is interpolated from its values at d or more of the points *)
(* xs: g(v) over the product of v + xs[i] is the sum of its fractions.     *)
Interpolated(g, n, xs, d) ==
  \A m \in d .. n : \A v \in Away(xs, m) :
    At(xs, [i \in 1 .. n |-> g[xs[i]]], v, m)
      = gf_mul(g[v], gf_inv(ProductTo(Factors(xs, v), m)))

(* A constant is interpolated from one point.                              *)
LEMMA ConstantInterpolated ==
  ASSUME NEW n \in Nat, NEW xs \in Points(n), NEW c \in Byte,
         NEW g \in [Byte -> Byte], \A x \in Byte : g[x] = c
  PROVE  Interpolated(g, n, xs, 1)
<1> SUFFICES ASSUME NEW m \in 1 .. n, NEW v \in Away(xs, m)
             PROVE  At(xs, [i \in 1 .. n |-> g[xs[i]]], v, m)
                      = gf_mul(g[v], gf_inv(ProductTo(Factors(xs, v), m)))
  BY DEF Interpolated
<1> DEFINE f == [i \in 1 .. n |-> g[xs[i]]]
           h == Terms(xs, f, v, m)
           e == Terms(xs, Ones(n), v, m)
<1>1. xs \in [1 .. n -> Byte] /\ m \in 0 .. n /\ v \in Byte
  BY DEF Points, Away
<1>2. f \in [1 .. n -> Byte] /\ Ones(n) \in [1 .. n -> Byte]
  BY <1>1, ZeroOne DEF Ones
<1>3. \A i \in 1 .. n : f[i] = c
  BY <1>1
<1> HIDE DEF f
<1>4. h \in [1 .. n -> Byte] /\ e \in [1 .. n -> Byte]
  BY <1>1, <1>2, TermsTyped
<1>5. ASSUME NEW i \in 1 .. m PROVE h[i] = gf_mul(c, e[i])
  <2> DEFINE r == gf_inv(gf_add(v, xs[i]))
             w == Weight(xs, i, m)
  <2>1. i \in 1 .. n
    OBVIOUS
  <2>2. r \in Byte /\ w \in Byte
    BY <1>1, <2>1, AddTyped, InverseMul, FactorsTyped
  <2>3. h[i] = gf_mul(gf_mul(c, r), w) /\ e[i] = gf_mul(gf_mul(One, r), w)
    BY <1>1, <1>3, <2>1 DEF Terms, Ones
  <2> HIDE DEF h, e, r, w
  <2> QED BY <2>2, <2>3, OneMul, MulAssoc
<1> HIDE DEF h, e
<1>6. SumTo(h, m) = gf_mul(c, SumTo(e, m))
  <2>1. AreMultiples(h, c, e, m)
    BY <1>5 DEF AreMultiples
  <2> QED BY <1>1, <1>4, <2>1, SumScaled
<1>7. SumTo(e, m) = gf_inv(ProductTo(Factors(xs, v), m))
  BY OneInterpolated DEF At, e
<1>8. g[v] = c
  BY <1>1
<1> QED BY <1>6, <1>7, <1>8 DEF At, h, f

IsNext(h, g, c) == h \in [Byte -> Byte] /\ \A x \in Byte : h[x] = gf_add(gf_mul(g[x], x), c)

(* Multiplying by x and adding a constant takes one point more.            *)
LEMMA NextInterpolated ==
  ASSUME NEW n \in Nat, NEW xs \in Points(n), NEW d \in 1 .. n, NEW c \in Byte,
         NEW g \in [Byte -> Byte], Interpolated(g, n, xs, d),
         NEW h, IsNext(h, g, c)
  PROVE  Interpolated(h, n, xs, d + 1)
<1> SUFFICES ASSUME NEW m \in d + 1 .. n, NEW v \in Away(xs, m)
             PROVE  At(xs, [i \in 1 .. n |-> h[xs[i]]], v, m)
                      = gf_mul(h[v], gf_inv(ProductTo(Factors(xs, v), m)))
  BY DEF Interpolated
<1> DEFINE gs == [i \in 1 .. n |-> g[xs[i]]]
           hs == [i \in 1 .. n |-> h[xs[i]]]
           G  == Terms(xs, gs, v, m)
           H  == Terms(xs, hs, v, m)
           E  == Terms(xs, Ones(n), v, m)
           K  == Heads(xs, gs, m)
           w  == ProductTo(Factors(xs, v), m)
<1>1. /\ xs \in [1 .. n -> Byte] /\ m \in 0 .. n /\ m \in 1 .. n /\ m - 1 \in 1 .. n - 1 /\ v \in Byte
      /\ m - 1 \in d .. n /\ (m - 1) + 1 = m /\ m \in d .. n /\ d + 1 \in 1 .. n + 1
  BY DEF Points, Away
<1>22. h \in [Byte -> Byte]
  BY DEF IsNext
<1>2. gs \in [1 .. n -> Byte] /\ hs \in [1 .. n -> Byte] /\ Ones(n) \in [1 .. n -> Byte]
  BY <1>1, <1>22, ZeroOne DEF Ones
<1>3. \A i \in 1 .. n : gs[i] = g[xs[i]] /\ hs[i] = h[xs[i]]
  OBVIOUS
<1>4. At(xs, gs, v, m) = gf_mul(g[v], gf_inv(w))
  BY <1>1 DEF Interpolated
<1>5. Top(xs, gs, m) = Zero
  <2> DEFINE u == xs[m]
             q == gf_inv(ProductTo(Factors(xs, u), m - 1))
  <2>1. u \in Away(xs, m - 1) /\ u \in Byte
    <3>1. xs[(m - 1) + 1] \in Away(xs, m - 1)
      BY <1>1, PointsDiffer
    <3> QED BY <1>1, <3>1
  <2>2. At(xs, gs, u, m - 1) = gf_mul(g[u], q)
    BY <1>1, <2>1 DEF Interpolated
  <2>3. Top(xs, gs, (m - 1) + 1)
          = gf_add(At(xs, gs, xs[(m - 1) + 1], m - 1),
                   gf_mul(gs[(m - 1) + 1], gf_inv(ProductTo(Factors(xs, xs[(m - 1) + 1]), m - 1))))
    <3> HIDE DEF gs
    <3> QED BY <1>1, <1>2, TopGrows
  <2>4. gs[m] = g[u]
    BY <1>1
  <2> HIDE DEF gs, q
  <2>5. Top(xs, gs, m) = gf_add(At(xs, gs, u, m - 1), gf_mul(g[u], q))
    BY <1>1, <2>3, <2>4 DEF q
  <2> QED BY <2>2, <2>5, AddSelf
<1> HIDE DEF gs, hs
<1>6. G \in [1 .. n -> Byte] /\ H \in [1 .. n -> Byte] /\ E \in [1 .. n -> Byte] /\ K \in [1 .. n -> Byte]
  BY <1>1, <1>2, TermsTyped
<1> DEFINE V == [i \in 1 .. n |-> gf_mul(v, G[i])]
           C == [i \in 1 .. n |-> gf_mul(c, E[i])]
           U == [i \in 1 .. n |-> gf_add(V[i], K[i])]
<1>7. ASSUME NEW i \in 1 .. m
      PROVE  H[i] = gf_add(gf_add(gf_mul(v, G[i]), K[i]), gf_mul(c, E[i]))
  <2> DEFINE x == xs[i]
             y == g[x]
             r == gf_inv(gf_add(v, x))
             k == Weight(xs, i, m)
  <2>1. i \in 1 .. n /\ v # x
    BY DEF Away
  <2>2. x \in Byte /\ y \in Byte /\ r \in Byte /\ k \in Byte
    BY <1>1, <2>1, AddTyped, InverseMul, FactorsTyped
  <2>3. H[i] = gf_mul(gf_mul(gf_add(gf_mul(y, x), c), r), k)
    BY <1>1, <1>3, <2>1, <2>2 DEF Terms, IsNext
  <2>4. /\ G[i] = gf_mul(gf_mul(y, r), k) /\ K[i] = gf_mul(y, k)
        /\ E[i] = gf_mul(gf_mul(One, r), k)
    BY <1>1, <1>3, <2>1 DEF Terms, Heads, Ones
  <2>5. gf_mul(x, r) = gf_add(gf_mul(v, r), One)
    BY <1>1, <2>1, <2>2, Fraction
  <2> HIDE DEF x, y, r, k, G, H, K, E
  <2>6. gf_mul(gf_mul(y, x), r) = gf_add(gf_mul(v, gf_mul(y, r)), y)
    <3>1. gf_mul(gf_mul(y, x), r) = gf_mul(y, gf_mul(x, r))
      BY <2>2, MulAssoc
    <3>2. gf_mul(y, gf_add(gf_mul(v, r), One)) = gf_add(gf_mul(y, gf_mul(v, r)), gf_mul(y, One))
      BY <1>1, <2>2, MulTyped, ZeroOne, MulAddsRight
    <3>3. gf_mul(y, gf_mul(v, r)) = gf_mul(v, gf_mul(y, r))
      BY <1>1, <2>2, MulLeft
    <3> QED BY <2>2, <2>5, <3>1, <3>2, <3>3, MulOne
  <2>7. gf_mul(gf_add(gf_mul(y, x), c), r)
          = gf_add(gf_add(gf_mul(v, gf_mul(y, r)), y), gf_mul(c, r))
    BY <2>2, <2>6, MulTyped, MulAddsLeft
  <2> DEFINE a1 == gf_mul(v, gf_mul(y, r))
             a2 == gf_mul(c, r)
  <2>8. a1 \in Byte /\ a2 \in Byte /\ gf_mul(y, r) \in Byte
    BY <1>1, <2>2, MulTyped
  <2>9. gf_mul(a1, k) = gf_mul(v, G[i]) /\ gf_mul(a2, k) = gf_mul(c, E[i])
    BY <1>1, <2>2, <2>4, <2>8, OneMul, MulAssoc
  <2>10. gf_mul(gf_add(gf_add(a1, y), a2), k)
           = gf_add(gf_add(gf_mul(a1, k), gf_mul(y, k)), gf_mul(a2, k))
    <3> HIDE DEF a1, a2
    <3>1. gf_mul(gf_add(gf_add(a1, y), a2), k) = gf_add(gf_mul(gf_add(a1, y), k), gf_mul(a2, k))
      BY <2>2, <2>8, AddTyped, MulAddsLeft
    <3>2. gf_mul(gf_add(a1, y), k) = gf_add(gf_mul(a1, k), gf_mul(y, k))
      BY <2>2, <2>8, MulAddsLeft
    <3> QED BY <3>1, <3>2
  <2> QED BY <2>3, <2>4, <2>7, <2>9, <2>10
<1>8. SumTo(G, m) = gf_mul(g[v], gf_inv(w)) /\ SumTo(K, m) = Zero /\ SumTo(E, m) = gf_inv(w)
  BY <1>1, <1>4, <1>5, OneInterpolated DEF At, Top
<1>9. w \in Byte /\ gf_inv(w) \in Byte /\ g[v] \in Byte
  BY <1>1, FactorsTyped, ProductIs, InverseMul
<1> HIDE DEF G, H, E, K, w
<1>10. V \in [1 .. n -> Byte] /\ C \in [1 .. n -> Byte]
  BY <1>1, <1>6, MulTyped
<1>11. \A i \in 1 .. m : V[i] = gf_mul(v, G[i]) /\ C[i] = gf_mul(c, E[i])
  OBVIOUS
<1> HIDE DEF V, C
<1>12. U \in [1 .. n -> Byte] /\ m \in 0 .. n
  BY <1>1, <1>6, <1>10, AddTyped
<1>23. \A i \in 1 .. m : U[i] = gf_add(V[i], K[i])
  OBVIOUS
<1> HIDE DEF U
<1>13. /\ AreMultiples(V, v, G, m) /\ AreMultiples(C, c, E, m)
       /\ AreSums(U, V, K, m) /\ AreSums(H, U, C, m)
  BY <1>7, <1>11, <1>23 DEF AreMultiples, AreSums
<1>14. SumTo(V, m) = gf_mul(v, SumTo(G, m))
  BY <1>1, <1>6, <1>10, <1>13, SumScaled
<1>15. SumTo(C, m) = gf_mul(c, SumTo(E, m))
  BY <1>1, <1>6, <1>10, <1>13, SumScaled
<1>16. SumTo(U, m) = gf_add(SumTo(V, m), SumTo(K, m))
  <2>1. /\ U \in [1 .. n -> Byte] /\ V \in [1 .. n -> Byte] /\ K \in [1 .. n -> Byte]
        /\ m \in 0 .. n /\ AreSums(U, V, K, m)
    BY <1>6, <1>10, <1>12, <1>13
  <2> QED BY <2>1, SumAdds
<1>17. SumTo(H, m) = gf_add(SumTo(U, m), SumTo(C, m))
  <2>1. /\ U \in [1 .. n -> Byte] /\ H \in [1 .. n -> Byte] /\ C \in [1 .. n -> Byte]
        /\ m \in 0 .. n /\ AreSums(H, U, C, m)
    BY <1>6, <1>10, <1>12, <1>13
  <2> QED BY <2>1, SumAdds
<1>18. SumTo(H, m) = gf_add(gf_mul(v, gf_mul(g[v], gf_inv(w))), gf_mul(c, gf_inv(w)))
  BY <1>8, <1>14, <1>15, <1>16, <1>17, AddSelf
<1>19. gf_mul(v, gf_mul(g[v], gf_inv(w))) = gf_mul(gf_mul(g[v], v), gf_inv(w))
  BY <1>1, <1>9, MulLeft, MulAssoc
<1>20. h[v] = gf_add(gf_mul(g[v], v), c)
  BY <1>1 DEF IsNext
<1>21. gf_mul(h[v], gf_inv(w)) = gf_add(gf_mul(gf_mul(g[v], v), gf_inv(w)), gf_mul(c, gf_inv(w)))
  BY <1>1, <1>9, <1>20, MulTyped, MulAddsLeft
<1> QED BY <1>18, <1>19, <1>21 DEF At, H, hs, w

-----------------------------------------------------------------------------
(* Evaluation.                                                             *)

Runs(acc, coeffs, x, leading) ==
  LET t == Len(coeffs)
  IN  /\ acc \in [1 .. t -> Byte]
      /\ acc[t] = leading
      /\ \A j \in 1 .. t - 1 : acc[j] = gf_add(gf_mul(acc[j + 1], x), coeffs[j])

(* What Horner's loop has after each coefficient.                          *)
LEMMA HornerRuns ==
  ASSUME NEW coeffs \in Seq(Byte), Len(coeffs) >= 1, NEW x \in Byte, NEW leading \in Byte
  PROVE  \E acc : Runs(acc, coeffs, x, leading) /\ Horner(coeffs, x, leading) = acc[1]
<1> DEFINE t == Len(coeffs)
           body(h, j) == IF j = t THEN leading ELSE gf_add(gf_mul(h[j + 1], x), coeffs[j])
           Is(h) == h = [j \in 1 .. t |-> body(h, j)]
           g == CHOOSE h : Is(h)
           step == [k \in 1 .. t - 1 |-> [s \in Byte |-> gf_add(gf_mul(s, x), coeffs[t - k])]]
<1>0. t \in Nat /\ t >= 1 /\ t - 1 \in Nat /\ \A j \in 1 .. t : coeffs[j] \in Byte
  OBVIOUS
<1>1. Horner(coeffs, x, leading) = g[1]
  BY DEF Horner
<1> HIDE DEF t
<1>2. step \in Steps(t - 1, Byte)
  <2>1. \A k \in 1 .. t - 1 : t - k \in 1 .. t
    BY <1>0
  <2>2. \A k \in 1 .. t - 1 : \A s \in Byte : gf_add(gf_mul(s, x), coeffs[t - k]) \in Byte
    BY <1>0, <2>1, MulTyped, AddTyped
  <2> QED BY <2>2 DEF Steps
<1>3. \A k \in 1 .. t - 1 : \A s \in Byte : step[k][s] = gf_add(gf_mul(s, x), coeffs[t - k])
  OBVIOUS
<1> HIDE DEF step
<1>4. PICK f : Loops(f, t - 1, Byte, leading, step)
  BY <1>0, <1>2, LoopDefined
<1> DEFINE c == [j \in 1 .. t |-> f[t - j]]
<1>5. c \in [1 .. t -> Byte]
  <2>1. \A j \in 1 .. t : t - j \in 0 .. t - 1
    BY <1>0
  <2>2. f \in [0 .. t - 1 -> Byte]
    BY <1>4 DEF Loops
  <2> QED BY <2>1, <2>2
<1>6. \A j \in 1 .. t : c[j] = body(c, j)
  <2> TAKE j \in 1 .. t
  <2>1. CASE j = t
    <3>1. c[j] = f[0]
      BY <1>0, <2>1
    <3> QED BY <1>4, <2>1, <3>1 DEF Loops
  <2>2. CASE j # t
    <3>1. /\ t - j \in 1 .. t - 1 /\ t - (t - j) = j /\ (t - j) - 1 = t - (j + 1)
          /\ j + 1 \in 1 .. t /\ t - (j + 1) \in 0 .. t - 1
      BY <1>0, <2>2
    <3>2. f[t - j] = step[t - j][f[(t - j) - 1]] /\ f[t - (j + 1)] \in Byte
      BY <1>4, <3>1 DEF Loops
    <3>3. f[t - j] = gf_add(gf_mul(f[t - (j + 1)], x), coeffs[j])
      BY <1>3, <3>1, <3>2
    <3> QED BY <2>2, <3>1, <3>3
  <2> QED BY <2>1, <2>2
<1>7. c = [j \in 1 .. t |-> c[j]]
  OBVIOUS
<1>8. Is(g)
  <2> HIDE DEF c, body
  <2>1. Is(c)
    BY <1>6, <1>7
  <2> HIDE DEF Is
  <2> QED BY <2>1
<1> HIDE DEF g
<1>9. /\ DOMAIN g = 1 .. t
      /\ \A j \in 1 .. t : g[j] = body(g, j)
  <2> HIDE DEF body
  <2> QED BY <1>8
<1>10. \A j \in 1 .. t : g[j] \in Byte
  <2> DEFINE T == {k \in 0 .. t - 1 : g[t - k] \in Byte}
  <2>1. 0 \in T
    <3>1. t \in 1 .. t /\ t - 0 = t /\ 0 \in 0 .. t - 1
      BY <1>0
    <3> QED BY <1>9, <3>1
  <2>2. ASSUME NEW k \in 1 .. t - 1, k - 1 \in T PROVE k \in T
    <3>1. t - k \in 1 .. t /\ t - k # t /\ (t - k) + 1 = t - (k - 1) /\ k \in 0 .. t - 1
      BY <1>0
    <3>2. g[t - k] = gf_add(gf_mul(g[t - (k - 1)], x), coeffs[t - k]) /\ g[t - (k - 1)] \in Byte
      BY <1>9, <2>2, <3>1
    <3> QED BY <1>0, <3>1, <3>2, MulTyped, AddTyped
  <2> HIDE DEF T
  <2>3. \A k \in 0 .. t - 1 : k \in T
    BY <1>0, <2>1, <2>2, Forwards
  <2> TAKE j \in 1 .. t
  <2>4. t - j \in 0 .. t - 1 /\ t - (t - j) = j
    BY <1>0
  <2>5. t - j \in T
    BY <2>3, <2>4
  <2> QED BY <2>4, <2>5 DEF T
<1>11. Runs(g, coeffs, x, leading)
  <2>1. g = [j \in 1 .. t |-> g[j]]
    <3> HIDE DEF body
    <3> QED BY <1>8, <1>9
  <2>2. g \in [1 .. t -> Byte]
    BY <1>10, <2>1
  <2>3. g[t] = leading
    BY <1>0, <1>9
  <2>4. \A j \in 1 .. t - 1 : g[j] = gf_add(gf_mul(g[j + 1], x), coeffs[j])
    <3>1. \A j \in 1 .. t - 1 : j \in 1 .. t /\ j # t
      BY <1>0
    <3> QED BY <1>9, <3>1
  <2> QED BY <2>2, <2>3, <2>4 DEF Runs, t
<1> QED BY <1>1, <1>11

(* Evaluate is what Horner's loop ends with.                               *)
LEMMA EvaluateRuns ==
  ASSUME NEW coeffs \in Seq(Byte), Len(coeffs) >= 1, NEW x \in Byte
  PROVE  \E acc : Runs(acc, coeffs, x, coeffs[Len(coeffs)]) /\ Evaluate(coeffs, x) = acc[1]
<1>1. coeffs[Len(coeffs)] \in Byte
  OBVIOUS
<1> QED BY <1>1, HornerRuns DEF Evaluate

(* The value of a polynomial is a byte.                                    *)
LEMMA EvaluateTyped ==
  ASSUME NEW coeffs \in Seq(Byte), Len(coeffs) >= 1, NEW x \in Byte
  PROVE  Evaluate(coeffs, x) \in Byte
<1>1. PICK acc : Runs(acc, coeffs, x, coeffs[Len(coeffs)]) /\ Evaluate(coeffs, x) = acc[1]
  BY EvaluateRuns
<1>2. 1 \in 1 .. Len(coeffs)
  OBVIOUS
<1> QED BY <1>1, <1>2 DEF Runs

(* A polynomial has its first coefficient at 0.                            *)
LEMMA EvaluateAtZero ==
  ASSUME NEW coeffs \in Seq(Byte), Len(coeffs) >= 1
  PROVE  Evaluate(coeffs, Zero) = coeffs[1]
<1> DEFINE t == Len(coeffs)
<1>1. PICK acc : Runs(acc, coeffs, Zero, coeffs[t]) /\ Evaluate(coeffs, Zero) = acc[1]
  BY EvaluateRuns, ZeroOne
<1>2. CASE t = 1
  BY <1>1, <1>2 DEF Runs
<1>3. CASE t # 1
  <2>0. t \in Nat /\ t >= 1
    OBVIOUS
  <2> HIDE DEF t
  <2>1. 1 \in 1 .. t - 1 /\ 1 + 1 \in 1 .. t /\ 1 \in 1 .. t
    BY <1>3, <2>0
  <2>2. acc[1] = gf_add(gf_mul(acc[1 + 1], Zero), coeffs[1]) /\ acc[1 + 1] \in Byte
    BY <1>1, <2>1 DEF Runs, t
  <2> QED BY <1>1, <2>2, MulZero, AddSelf
<1> QED BY <1>2, <1>3

(* A polynomial is interpolated from as many points as it has coefficients.*)
THEOREM EvaluateInterpolated ==
  ASSUME NEW n \in Nat, NEW xs \in Points(n), NEW coeffs \in Seq(Byte),
         1 <= Len(coeffs), Len(coeffs) <= n
  PROVE  Interpolated([x \in Byte |-> Evaluate(coeffs, x)], n, xs, Len(coeffs))
<1> DEFINE t == Len(coeffs)
           Fits(acc, x) == Runs(acc, coeffs, x, coeffs[t]) /\ Evaluate(coeffs, x) = acc[1]
           a == [x \in Byte |-> CHOOSE acc : Fits(acc, x)]
           g(k) == [x \in Byte |-> a[x][t - k]]
<1>0. t \in Nat /\ t - 1 \in Nat /\ t \in 1 .. t /\ 1 \in 1 .. t /\ t <= n
  OBVIOUS
<1>1. \A x \in Byte : Fits(a[x], x)
  <2> TAKE x \in Byte
  <2>1. \E acc : Fits(acc, x)
    BY EvaluateRuns
  <2> HIDE DEF Fits
  <2> QED BY <2>1
<1> HIDE DEF a
<1>2. /\ \A x \in Byte : a[x] \in [1 .. t -> Byte]
      /\ \A x \in Byte : a[x][t] = coeffs[t]
      /\ \A x \in Byte : \A j \in 1 .. t - 1 :
           a[x][j] = gf_add(gf_mul(a[x][j + 1], x), coeffs[j])
      /\ \A x \in Byte : Evaluate(coeffs, x) = a[x][1]
  BY <1>1 DEF Runs
<1>3. \A j \in 1 .. t : coeffs[j] \in Byte
  OBVIOUS
<1> HIDE DEF t
<1>4. \A k \in 0 .. t - 1 : g(k) \in [Byte -> Byte]
  <2>1. \A k \in 0 .. t - 1 : t - k \in 1 .. t
    BY <1>0
  <2> QED BY <1>2, <2>1
<1> DEFINE T == {k \in 0 .. t - 1 : Interpolated(g(k), n, xs, k + 1)}
<1>5. 0 \in T
  <2>1. \A x \in Byte : g(0)[x] = coeffs[t]
    BY <1>0, <1>2
  <2> HIDE DEF g
  <2>2. g(0) \in [Byte -> Byte] /\ coeffs[t] \in Byte /\ 0 \in 0 .. t - 1 /\ 0 + 1 = 1
    BY <1>0, <1>3, <1>4
  <2>3. Interpolated(g(0), n, xs, 1)
    BY <2>1, <2>2, ConstantInterpolated
  <2> QED BY <2>2, <2>3
<1>6. ASSUME NEW k \in 1 .. t - 1, k - 1 \in T PROVE k \in T
  <2>1. /\ t - k \in 1 .. t - 1 /\ (t - k) + 1 = t - (k - 1) /\ k - 1 \in 0 .. t - 1 /\ k \in 0 .. t - 1
        /\ t - k \in 1 .. t /\ k \in 1 .. n /\ (k - 1) + 1 = k
    BY <1>0
  <2>2. IsNext(g(k), g(k - 1), coeffs[t - k])
    <3>1. g(k) \in [Byte -> Byte]
      BY <1>4, <2>1
    <3>2. ASSUME NEW x \in Byte
          PROVE  g(k)[x] = gf_add(gf_mul(g(k - 1)[x], x), coeffs[t - k])
      BY <1>2, <2>1
    <3> QED BY <3>1, <3>2 DEF IsNext
  <2>3. g(k - 1) \in [Byte -> Byte] /\ coeffs[t - k] \in Byte
    BY <1>3, <1>4, <2>1
  <2> HIDE DEF g
  <2>4. Interpolated(g(k - 1), n, xs, k)
    BY <1>6, <2>1
  <2>5. Interpolated(g(k), n, xs, k + 1)
    BY <2>1, <2>2, <2>3, <2>4, NextInterpolated
  <2> QED BY <2>1, <2>5
<1>7. t - 1 \in T
  <2> HIDE DEF T
  <2>1. \A k \in 0 .. t - 1 : k \in T
    BY <1>0, <1>5, <1>6, Forwards
  <2>2. t - 1 \in 0 .. t - 1
    BY <1>0
  <2> QED BY <2>1, <2>2
<1>8. g(t - 1) = [x \in Byte |-> Evaluate(coeffs, x)]
  <2>1. t - (t - 1) = 1
    BY <1>0
  <2> QED BY <1>2, <2>1
<1>9. (t - 1) + 1 = t
  BY <1>0
<1> HIDE DEF g
<1> QED BY <1>7, <1>8, <1>9 DEF t

-----------------------------------------------------------------------------
(* Interpolation at 0, as combine computes it.                             *)

(* A function on 1 .. n is a sequence of length n.                         *)
LEMMA ListLength ==
  ASSUME NEW n \in Nat, NEW f \in [1 .. n -> Byte]
  PROVE  f \in Seq(Byte) /\ Len(f) = n /\ DOMAIN f = 1 .. n
OBVIOUS

But(f, i) == [j \in DOMAIN f |-> IF j = i THEN One ELSE f[j]]

(* ProductBut is a product with a 1 in place of the factor left out.       *)
LEMMA ProductButIs ==
  ASSUME NEW n \in Nat, NEW f \in [1 .. n -> Byte], NEW i \in 1 .. n
  PROVE  ProductBut(f, i) = ProductTo(But(f, i), n)
<1> DEFINE body(h, j) ==
             IF j = 0 THEN One ELSE IF j = i THEN h[j - 1] ELSE gf_mul(h[j - 1], f[j])
           Is(h) == h = [j \in 0 .. n |-> body(h, j)]
           g == CHOOSE h : Is(h)
           b == But(f, i)
           c == [j \in 0 .. n |-> ProductTo(b, j)]
<1>1. ProductBut(f, i) = g[n]
  BY ListLength DEF ProductBut
<1> HIDE DEF g
<1>2. b \in [1 .. n -> Byte] /\ \A j \in 1 .. n : b[j] = IF j = i THEN One ELSE f[j]
  BY ZeroOne DEF But
<1> HIDE DEF b
<1>3. /\ c[0] = One
      /\ \A j \in 1 .. n : c[j] = gf_mul(c[j - 1], b[j])
      /\ \A j \in 0 .. n : c[j] \in Byte
  <2>1. /\ ProductTo(b, 0) = One
        /\ \A j \in 1 .. n : ProductTo(b, j) = gf_mul(ProductTo(b, j - 1), b[j])
        /\ \A j \in 0 .. n : ProductTo(b, j) \in Byte
    BY <1>2, ProductIs
  <2>2. 0 \in 0 .. n /\ \A j \in 1 .. n : j \in 0 .. n /\ j - 1 \in 0 .. n
    OBVIOUS
  <2> QED BY <2>1, <2>2
<1>4. c = [j \in 0 .. n |-> c[j]] /\ c[n] = ProductTo(b, n)
  OBVIOUS
<1> HIDE DEF c
<1>5. \A j \in 0 .. n : c[j] = body(c, j)
  <2> TAKE j \in 0 .. n
  <2>1. CASE j = 0
    BY <1>3, <2>1
  <2>2. CASE j # 0 /\ j = i
    <3>1. j \in 1 .. n /\ j - 1 \in 0 .. n
      BY <2>2
    <3>2. c[j] = gf_mul(c[j - 1], One) /\ c[j - 1] \in Byte
      BY <1>2, <1>3, <2>2, <3>1
    <3> QED BY <2>2, <3>2, MulOne
  <2>3. CASE j # 0 /\ j # i
    <3>1. j \in 1 .. n
      BY <2>3
    <3> QED BY <1>2, <1>3, <2>3, <3>1
  <2> QED BY <2>1, <2>2, <2>3
<1>6. Is(g)
  <2> HIDE DEF body
  <2>1. Is(c)
    BY <1>4, <1>5
  <2> HIDE DEF Is
  <2> QED BY <2>1 DEF g
<1>7. \A j \in 0 .. n : g[j] = body(g, j)
  <2> HIDE DEF body
  <2> QED BY <1>6
<1> DEFINE T == {k \in 0 .. n : g[k] = c[k]}
<1>8. 0 \in T
  BY <1>3, <1>7
<1>9. ASSUME NEW k \in 1 .. n, k - 1 \in T PROVE k \in T
  <2>1. k \in 0 .. n
    OBVIOUS
  <2>2. g[k - 1] = c[k - 1]
    BY <1>9
  <2> QED BY <1>5, <1>7, <2>1, <2>2
<1> HIDE DEF T
<1>10. n \in T
  <2>1. \A k \in 0 .. n : k \in T
    BY <1>8, <1>9, Forwards
  <2> QED BY <2>1
<1> QED BY <1>1, <1>4, <1>10 DEF T, b

(* The product of all factors but one, times that one.                     *)
LEMMA ProductButTimes ==
  ASSUME NEW n \in Nat, NEW f \in [1 .. n -> Byte], NEW i \in 1 .. n
  PROVE  /\ ProductBut(f, i) \in Byte
         /\ gf_mul(ProductBut(f, i), f[i]) = ProductTo(f, n)
<1> DEFINE b == But(f, i)
<1>1. b \in [1 .. n -> Byte] /\ \A j \in 1 .. n : b[j] = IF j = i THEN One ELSE f[j]
  BY ZeroOne DEF But
<1> HIDE DEF b
<1>2. /\ \A j \in 1 .. n : ProductTo(b, j) = gf_mul(ProductTo(b, j - 1), b[j])
      /\ \A j \in 0 .. n : ProductTo(b, j) \in Byte
  BY <1>1, ProductIs
<1>3. /\ \A j \in 1 .. n : ProductTo(f, j) = gf_mul(ProductTo(f, j - 1), f[j])
      /\ \A j \in 0 .. n : ProductTo(f, j) \in Byte
  BY ProductIs
<1> DEFINE T == {k \in 0 .. n : IF k < i THEN ProductTo(b, k) = ProductTo(f, k)
                                ELSE gf_mul(ProductTo(b, k), f[i]) = ProductTo(f, k)}
<1>4. 0 \in T
  BY <1>1, ProductIs
<1>5. ASSUME NEW k \in 1 .. n, k - 1 \in T PROVE k \in T
  <2>1. k \in 0 .. n /\ k - 1 \in 0 .. n
    OBVIOUS
  <2>2. /\ ProductTo(b, k) = gf_mul(ProductTo(b, k - 1), b[k]) /\ ProductTo(b, k - 1) \in Byte
        /\ ProductTo(f, k) = gf_mul(ProductTo(f, k - 1), f[k]) /\ f[k] \in Byte /\ f[i] \in Byte
    BY <1>2, <1>3, <2>1
  <2>3. CASE k < i
    <3>1. ProductTo(b, k - 1) = ProductTo(f, k - 1) /\ b[k] = f[k]
      BY <1>1, <1>5, <2>3
    <3> QED BY <2>1, <2>2, <2>3, <3>1
  <2>4. CASE k = i
    <3>1. ProductTo(b, k - 1) = ProductTo(f, k - 1) /\ b[k] = One
      BY <1>1, <1>5, <2>4
    <3>2. gf_mul(ProductTo(b, k), f[i]) = ProductTo(f, k)
      BY <2>2, <2>4, <3>1, MulOne
    <3> QED BY <2>1, <2>4, <3>2
  <2>5. CASE k > i
    <3>1. gf_mul(ProductTo(b, k - 1), f[i]) = ProductTo(f, k - 1) /\ b[k] = f[k]
      BY <1>1, <1>5, <2>5
    <3>2. gf_mul(ProductTo(b, k), f[i]) = ProductTo(f, k)
      BY <2>2, <3>1, MulRight
    <3> QED BY <2>1, <2>5, <3>2
  <2> QED BY <2>3, <2>4, <2>5
<1> HIDE DEF T
<1>6. n \in T
  <2>1. \A k \in 0 .. n : k \in T
    BY <1>4, <1>5, Forwards
  <2> QED BY <2>1
<1>7. gf_mul(ProductTo(b, n), f[i]) = ProductTo(f, n)
  BY <1>6 DEF T
<1>8. n \in 0 .. n
  OBVIOUS
<1> QED BY <1>2, <1>7, <1>8, ProductButIs DEF b

(* The Lagrange coefficient of a point, as a product and a weight.         *)
LEMMA BasisIs ==
  ASSUME NEW n \in Nat, NEW xs \in [1 .. n -> Byte], NEW i \in 1 .. n
  PROVE  /\ Basis(xs, i) \in Byte
         /\ Basis(xs, i) = gf_mul(ProductBut(xs, i), Weight(xs, i, n))
<1> DEFINE d == [j \in DOMAIN xs |-> gf_add(xs[i], xs[j])]
<1>1. d \in [1 .. n -> Byte]
  BY AddTyped
<1>2. But(d, i) = Others(xs, i)
  BY DEF But, Others
<1>3. Basis(xs, i) = gf_mul(ProductBut(xs, i), gf_inv(ProductBut(d, i)))
  BY DEF Basis
<1> HIDE DEF d
<1>4. ProductBut(d, i) = ProductTo(Others(xs, i), n)
  BY <1>1, <1>2, ProductButIs
<1>5. Basis(xs, i) = gf_mul(ProductBut(xs, i), Weight(xs, i, n))
  BY <1>3, <1>4 DEF Weight
<1>6. n \in 0 .. n
  OBVIOUS
<1> QED BY <1>5, <1>6, ProductButTimes, FactorsTyped, MulTyped

Summands(xs, ys) == [i \in DOMAIN xs |-> gf_mul(ys[i], Basis(xs, i))]

(* Interpolate is the sum of the summands.                                 *)
LEMMA InterpolateIs ==
  ASSUME NEW n \in Nat, NEW xs \in [1 .. n -> Byte], NEW ys \in [1 .. n -> Byte]
  PROVE  /\ Summands(xs, ys) \in [1 .. n -> Byte]
         /\ Interpolate(xs, ys) = SumTo(Summands(xs, ys), n)
<1> DEFINE e == Summands(xs, ys)
           body(h, i) ==
             IF i = 0 THEN Zero ELSE gf_add(h[i - 1], gf_mul(ys[i], Basis(xs, i)))
           Is(h) == h = [i \in 0 .. n |-> body(h, i)]
           g == CHOOSE h : Is(h)
           c == [i \in 0 .. n |-> SumTo(e, i)]
<1>1. Interpolate(xs, ys) = g[n]
  BY ListLength DEF Interpolate
<1> HIDE DEF g
<1>2. e \in [1 .. n -> Byte]
  BY BasisIs, MulTyped DEF Summands
<1>3. \A i \in 1 .. n : e[i] = gf_mul(ys[i], Basis(xs, i))
  BY DEF Summands
<1> HIDE DEF e
<1>4. c[0] = Zero /\ \A i \in 1 .. n : c[i] = gf_add(c[i - 1], e[i])
  <2>1. SumTo(e, 0) = Zero /\ \A i \in 1 .. n : SumTo(e, i) = gf_add(SumTo(e, i - 1), e[i])
    BY <1>2, SumIs
  <2>2. 0 \in 0 .. n /\ \A i \in 1 .. n : i \in 0 .. n /\ i - 1 \in 0 .. n
    OBVIOUS
  <2> QED BY <2>1, <2>2
<1>5. c = [i \in 0 .. n |-> c[i]] /\ c[n] = SumTo(e, n)
  OBVIOUS
<1> HIDE DEF c
<1>6. \A i \in 0 .. n : c[i] = body(c, i)
  <2> TAKE i \in 0 .. n
  <2>1. i = 0 \/ i \in 1 .. n
    OBVIOUS
  <2> QED BY <1>3, <1>4, <2>1
<1>7. Is(g)
  <2> HIDE DEF body
  <2>1. Is(c)
    BY <1>5, <1>6
  <2> HIDE DEF Is
  <2> QED BY <2>1 DEF g
<1>8. \A i \in 0 .. n : g[i] = body(g, i)
  <2> HIDE DEF body
  <2> QED BY <1>7
<1> DEFINE T == {k \in 0 .. n : g[k] = c[k]}
<1>9. 0 \in T
  BY <1>4, <1>8
<1>10. ASSUME NEW k \in 1 .. n, k - 1 \in T PROVE k \in T
  <2>1. k \in 0 .. n
    OBVIOUS
  <2>2. g[k - 1] = c[k - 1]
    BY <1>10
  <2> QED BY <1>6, <1>8, <2>1, <2>2
<1> HIDE DEF T
<1>11. n \in T
  <2>1. \A k \in 0 .. n : k \in T
    BY <1>9, <1>10, Forwards
  <2> QED BY <2>1
<1>12. Interpolate(xs, ys) = SumTo(e, n)
  BY <1>1, <1>5, <1>11 DEF T
<1> QED BY <1>2, <1>12 DEF e

(* It is the interpolation at 0, times the product of the points.          *)
LEMMA InterpolateScales ==
  ASSUME NEW n \in Nat, NEW xs \in [1 .. n -> Byte], Zero \in Away(xs, n),
         NEW ys \in [1 .. n -> Byte]
  PROVE  Interpolate(xs, ys) = gf_mul(ProductTo(xs, n), At(xs, ys, Zero, n))
<1> DEFINE w == ProductTo(xs, n)
           e == Summands(xs, ys)
           h == Terms(xs, ys, Zero, n)
<1>1. n \in 0 .. n /\ \A i \in 1 .. n : xs[i] # Zero
  BY DEF Away
<1>2. w \in Byte
  BY <1>1, ProductIs
<1>3. h \in [1 .. n -> Byte]
  BY <1>1, ZeroOne, TermsTyped
<1>4. e \in [1 .. n -> Byte] /\ Interpolate(xs, ys) = SumTo(e, n)
  BY InterpolateIs
<1>5. ASSUME NEW i \in 1 .. n PROVE e[i] = gf_mul(w, h[i])
  <2> DEFINE p == ProductBut(xs, i)
             k == Weight(xs, i, n)
             x == xs[i]
             y == ys[i]
             r == gf_inv(x)
  <2>1. p \in Byte /\ k \in Byte /\ x \in Byte /\ y \in Byte /\ x # Zero /\ r \in Byte
    BY <1>1, ProductButTimes, FactorsTyped, InverseMul
  <2>2. e[i] = gf_mul(y, Basis(xs, i))
    BY DEF Summands
  <2>3. Basis(xs, i) = gf_mul(p, k)
    BY BasisIs
  <2>4. gf_add(Zero, x) = x
    BY AddSelf
  <2>5. h[i] = gf_mul(gf_mul(y, r), k)
    BY <2>4 DEF Terms
  <2>6. gf_mul(p, x) = w
    BY ProductButTimes
  <2> HIDE DEF p, k, x, y, r, e, h, w
  <2>7. gf_mul(w, r) = p
    BY <2>1, <2>6, Undone DEF r
  <2>8. gf_mul(w, h[i]) = gf_mul(gf_mul(y, gf_mul(w, r)), k)
    <3>1. gf_mul(w, gf_mul(gf_mul(y, r), k)) = gf_mul(gf_mul(w, gf_mul(y, r)), k)
      BY <1>2, <2>1, MulTyped, MulAssoc
    <3>2. gf_mul(w, gf_mul(y, r)) = gf_mul(y, gf_mul(w, r))
      BY <1>2, <2>1, MulLeft
    <3> QED BY <2>5, <3>1, <3>2
  <2> QED BY <2>1, <2>2, <2>3, <2>7, <2>8, MulAssoc
<1> HIDE DEF e, h, w
<1>6. AreMultiples(e, w, h, n)
  BY <1>5 DEF AreMultiples
<1>7. SumTo(e, n) = gf_mul(w, SumTo(h, n))
  <2>1. n \in 0 .. n /\ e \in [1 .. n -> Byte]
    BY <1>1, <1>4
  <2> QED BY <1>2, <1>3, <1>6, <2>1, SumScaled
<1> QED BY <1>4, <1>7 DEF At, h, w

(* The points of a polynomial, none of them at 0.                          *)
Values(coeffs, xs, ys) ==
  \A i \in DOMAIN xs : xs[i] # Zero /\ ys[i] = Evaluate(coeffs, xs[i])

(* What is interpolated at 0 is the first coefficient.                     *)
LEMMA InterpolateGives ==
  ASSUME NEW coeffs \in Seq(Byte), NEW n \in Nat, n = Len(coeffs), n >= 1,
         NEW xs \in Points(n), NEW ys \in [1 .. n -> Byte], Values(coeffs, xs, ys)
  PROVE  Interpolate(xs, ys) = coeffs[1]
<1> DEFINE g == [x \in Byte |-> Evaluate(coeffs, x)]
           gs == [i \in 1 .. n |-> g[xs[i]]]
           w == ProductTo(xs, n)
<1>1. xs \in [1 .. n -> Byte] /\ n \in 0 .. n /\ n \in n .. n /\ Zero \in Byte
  BY ZeroOne DEF Points
<1>2. \A i \in 1 .. n : xs[i] # Zero /\ ys[i] = Evaluate(coeffs, xs[i])
  BY <1>1 DEF Values
<1>3. Zero \in Away(xs, n)
  BY <1>1, <1>2 DEF Away
<1>4. Factors(xs, Zero) = xs
  BY <1>1, AddSelf DEF Factors
<1>5. At(xs, gs, Zero, n) = gf_mul(g[Zero], gf_inv(w))
  <2>1. Interpolated(g, n, xs, n)
    BY EvaluateInterpolated
  <2> HIDE DEF g
  <2> QED BY <1>1, <1>3, <1>4, <2>1 DEF Interpolated
<1>6. gs = ys
  <2>1. \A i \in 1 .. n : g[xs[i]] = ys[i]
    BY <1>1, <1>2
  <2> HIDE DEF g
  <2> QED BY <2>1
<1>7. g[Zero] = coeffs[1] /\ coeffs[1] \in Byte
  BY <1>1, EvaluateAtZero
<1> HIDE DEF g, gs
<1>8. w \in Byte /\ w # Zero
  BY <1>1, <1>2, ProductIs, ProductNotZero
<1>9. Interpolate(xs, ys) = gf_mul(w, gf_mul(coeffs[1], gf_inv(w)))
  BY <1>1, <1>3, <1>5, <1>6, <1>7, InterpolateScales
<1> HIDE DEF w
<1>10. gf_mul(w, gf_mul(coeffs[1], gf_inv(w))) = coeffs[1]
  <2>1. gf_inv(w) \in Byte /\ gf_mul(w, gf_inv(w)) = One
    BY <1>8, InverseMul
  <2> QED BY <1>7, <1>8, <2>1, MulLeft, MulOne
<1> QED BY <1>9, <1>10

-----------------------------------------------------------------------------
(* Numbers as bytes.                                                       *)

(* The powers of two below 256.                                            *)
LEMMA PowersOfTwo ==
  2^0 = 1 /\ 2^1 = 2 /\ 2^2 = 4 /\ 2^3 = 8 /\ 2^4 = 16 /\ 2^5 = 32 /\ 2^6 = 64 /\ 2^7 = 128
OBVIOUS

(* The bits of a number are those of its quotients by 2.                   *)
LEMMA U8Bits ==
  ASSUME NEW v \in 0 .. 255
  PROVE  /\ U8(v) \in Byte
         /\ 0 \in U8(v) <=> (v \div 1) % 2 = 1
         /\ 1 \in U8(v) <=> (v \div 2) % 2 = 1
         /\ 2 \in U8(v) <=> (v \div 4) % 2 = 1
         /\ 3 \in U8(v) <=> (v \div 8) % 2 = 1
         /\ 4 \in U8(v) <=> (v \div 16) % 2 = 1
         /\ 5 \in U8(v) <=> (v \div 32) % 2 = 1
         /\ 6 \in U8(v) <=> (v \div 64) % 2 = 1
         /\ 7 \in U8(v) <=> (v \div 128) % 2 = 1
<1>1. U8(v) \in Byte
  BY DEF U8, Byte
<1>2. \A i \in Bit : i \in U8(v) <=> (v \div 2^i) % 2 = 1
  BY DEF U8
<1>3. 0 \in Bit /\ 1 \in Bit /\ 2 \in Bit /\ 3 \in Bit /\ 4 \in Bit /\ 5 \in Bit /\ 6 \in Bit /\ 7 \in Bit
  BY DEF Bit
<1>4. /\ 0 \in U8(v) <=> (v \div 2^0) % 2 = 1
      /\ 1 \in U8(v) <=> (v \div 2^1) % 2 = 1
      /\ 2 \in U8(v) <=> (v \div 2^2) % 2 = 1
      /\ 3 \in U8(v) <=> (v \div 2^3) % 2 = 1
      /\ 4 \in U8(v) <=> (v \div 2^4) % 2 = 1
      /\ 5 \in U8(v) <=> (v \div 2^5) % 2 = 1
      /\ 6 \in U8(v) <=> (v \div 2^6) % 2 = 1
      /\ 7 \in U8(v) <=> (v \div 2^7) % 2 = 1
  BY <1>2, <1>3, Zenon
<1> HIDE <1>2
<1> QED BY <1>1, <1>4, PowersOfTwo, Zenon

(* Each quotient by a power of two is twice the next, plus a bit.          *)
LEMMA Quotients ==
  ASSUME NEW v \in 0 .. 255
  PROVE  /\ v \div 1 = v
         /\ v \div 1 = 2 * (v \div 2) + ((v \div 1) % 2)
         /\ v \div 2 = 2 * (v \div 4) + ((v \div 2) % 2)
         /\ v \div 4 = 2 * (v \div 8) + ((v \div 4) % 2)
         /\ v \div 8 = 2 * (v \div 16) + ((v \div 8) % 2)
         /\ v \div 16 = 2 * (v \div 32) + ((v \div 16) % 2)
         /\ v \div 32 = 2 * (v \div 64) + ((v \div 32) % 2)
         /\ v \div 64 = 2 * (v \div 128) + ((v \div 64) % 2)
         /\ v \div 128 = (v \div 128) % 2
<1>1. v \div 1 = v /\ v \div 1 = 2 * (v \div 2) + ((v \div 1) % 2)
  OBVIOUS
<1>2. v \div 2 = 2 * (v \div 4) + ((v \div 2) % 2)
  OBVIOUS
<1>3. v \div 4 = 2 * (v \div 8) + ((v \div 4) % 2)
  OBVIOUS
<1>4. v \div 8 = 2 * (v \div 16) + ((v \div 8) % 2)
  OBVIOUS
<1>5. v \div 16 = 2 * (v \div 32) + ((v \div 16) % 2)
  OBVIOUS
<1>6. v \div 32 = 2 * (v \div 64) + ((v \div 32) % 2)
  OBVIOUS
<1>7. v \div 64 = 2 * (v \div 128) + ((v \div 64) % 2)
  OBVIOUS
<1>8. v \div 128 = (v \div 128) % 2
  OBVIOUS
<1> QED BY <1>1, <1>2, <1>3, <1>4, <1>5, <1>6, <1>7, <1>8

(* Every quotient is a bit more than twice the next.                       *)
LEMMA U8Injective == \A v, w \in 0 .. 255 : U8(v) = U8(w) => v = w
<1> TAKE v \in 0 .. 255, w \in 0 .. 255
<1> HAVE U8(v) = U8(w)
<1> DEFINE q(x, d) == x \div d
           b(x, d) == (x \div d) % 2
<1>1. ASSUME NEW x \in 0 .. 255
      PROVE  /\ q(x, 1) = x
             /\ q(x, 1) = 2 * q(x, 2) + b(x, 1)
             /\ q(x, 2) = 2 * q(x, 4) + b(x, 2)
             /\ q(x, 4) = 2 * q(x, 8) + b(x, 4)
             /\ q(x, 8) = 2 * q(x, 16) + b(x, 8)
             /\ q(x, 16) = 2 * q(x, 32) + b(x, 16)
             /\ q(x, 32) = 2 * q(x, 64) + b(x, 32)
             /\ q(x, 64) = 2 * q(x, 128) + b(x, 64)
             /\ q(x, 128) = b(x, 128)
  BY Quotients
<1>2. ASSUME NEW d \in {1, 2, 4, 8, 16, 32, 64, 128}, b(v, d) = 1 <=> b(w, d) = 1
      PROVE  b(v, d) = b(w, d)
  <2>1. b(v, d) \in {0, 1} /\ b(w, d) \in {0, 1}
    OBVIOUS
  <2> HIDE DEF b
  <2> QED BY <1>2, <2>1
<1>3. /\ b(v, 1) = 1 <=> b(w, 1) = 1
      /\ b(v, 2) = 1 <=> b(w, 2) = 1
      /\ b(v, 4) = 1 <=> b(w, 4) = 1
      /\ b(v, 8) = 1 <=> b(w, 8) = 1
      /\ b(v, 16) = 1 <=> b(w, 16) = 1
      /\ b(v, 32) = 1 <=> b(w, 32) = 1
      /\ b(v, 64) = 1 <=> b(w, 64) = 1
      /\ b(v, 128) = 1 <=> b(w, 128) = 1
  <2>1. ASSUME NEW x \in 0 .. 255
        PROVE  /\ (0 \in U8(x) <=> b(x, 1) = 1) /\ (1 \in U8(x) <=> b(x, 2) = 1)
               /\ (2 \in U8(x) <=> b(x, 4) = 1) /\ (3 \in U8(x) <=> b(x, 8) = 1)
               /\ (4 \in U8(x) <=> b(x, 16) = 1) /\ (5 \in U8(x) <=> b(x, 32) = 1)
               /\ (6 \in U8(x) <=> b(x, 64) = 1) /\ (7 \in U8(x) <=> b(x, 128) = 1)
    BY U8Bits, ZenonT(30)
  <2> HIDE DEF b
  <2>2. b(v, 1) = 1 <=> b(w, 1) = 1
    BY <2>1, Zenon
  <2>3. b(v, 2) = 1 <=> b(w, 2) = 1
    BY <2>1, Zenon
  <2>4. b(v, 4) = 1 <=> b(w, 4) = 1
    BY <2>1, Zenon
  <2>5. b(v, 8) = 1 <=> b(w, 8) = 1
    BY <2>1, Zenon
  <2>6. b(v, 16) = 1 <=> b(w, 16) = 1
    BY <2>1, Zenon
  <2>7. b(v, 32) = 1 <=> b(w, 32) = 1
    BY <2>1, Zenon
  <2>8. b(v, 64) = 1 <=> b(w, 64) = 1
    BY <2>1, Zenon
  <2>9. b(v, 128) = 1 <=> b(w, 128) = 1
    BY <2>1, Zenon
  <2> QED BY <2>2, <2>3, <2>4, <2>5, <2>6, <2>7, <2>8, <2>9
<1> HIDE DEF q, b
<1>4. /\ b(v, 1) = b(w, 1) /\ b(v, 2) = b(w, 2) /\ b(v, 4) = b(w, 4) /\ b(v, 8) = b(w, 8)
      /\ b(v, 16) = b(w, 16) /\ b(v, 32) = b(w, 32) /\ b(v, 64) = b(w, 64) /\ b(v, 128) = b(w, 128)
  BY <1>2, <1>3
<1>5. q(v, 128) = q(w, 128)
  <2>1. q(v, 128) = b(v, 128) /\ q(w, 128) = b(w, 128)
    BY <1>1
  <2> QED BY <1>4, <2>1, Zenon
<1>6. q(v, 64) = q(w, 64)
  <2>1. q(v, 64) = 2 * q(v, 128) + b(v, 64) /\ q(w, 64) = 2 * q(w, 128) + b(w, 64)
    BY <1>1
  <2> QED BY <1>4, <1>5, <2>1, Zenon
<1>7. q(v, 32) = q(w, 32)
  <2>1. q(v, 32) = 2 * q(v, 64) + b(v, 32) /\ q(w, 32) = 2 * q(w, 64) + b(w, 32)
    BY <1>1
  <2> QED BY <1>4, <1>6, <2>1, Zenon
<1>8. q(v, 16) = q(w, 16)
  <2>1. q(v, 16) = 2 * q(v, 32) + b(v, 16) /\ q(w, 16) = 2 * q(w, 32) + b(w, 16)
    BY <1>1
  <2> QED BY <1>4, <1>7, <2>1, Zenon
<1>9. q(v, 8) = q(w, 8)
  <2>1. q(v, 8) = 2 * q(v, 16) + b(v, 8) /\ q(w, 8) = 2 * q(w, 16) + b(w, 8)
    BY <1>1
  <2> QED BY <1>4, <1>8, <2>1, Zenon
<1>10. q(v, 4) = q(w, 4)
  <2>1. q(v, 4) = 2 * q(v, 8) + b(v, 4) /\ q(w, 4) = 2 * q(w, 8) + b(w, 4)
    BY <1>1
  <2> QED BY <1>4, <1>9, <2>1, Zenon
<1>11. q(v, 2) = q(w, 2)
  <2>1. q(v, 2) = 2 * q(v, 4) + b(v, 2) /\ q(w, 2) = 2 * q(w, 4) + b(w, 2)
    BY <1>1
  <2> QED BY <1>4, <1>10, <2>1, Zenon
<1>12. q(v, 1) = q(w, 1)
  <2>1. q(v, 1) = 2 * q(v, 2) + b(v, 1) /\ q(w, 1) = 2 * q(w, 2) + b(w, 1)
    BY <1>1
  <2> QED BY <1>4, <1>11, <2>1, Zenon
<1> QED BY <1>1, <1>12

(* A number below 256 is a byte, and only 0 is Zero.                       *)
LEMMA U8Zero == \A v \in 0 .. 255 : /\ U8(v) \in Byte
                                    /\ U8(v) = Zero <=> v = 0
<1>1. U8(0) = Zero
  <2>1. /\ (0 \div 1) % 2 = 0 /\ (0 \div 2) % 2 = 0 /\ (0 \div 4) % 2 = 0 /\ (0 \div 8) % 2 = 0
        /\ (0 \div 16) % 2 = 0 /\ (0 \div 32) % 2 = 0 /\ (0 \div 64) % 2 = 0
        /\ (0 \div 128) % 2 = 0 /\ 0 # 1 /\ 0 \in 0 .. 255
    OBVIOUS
  <2>2. /\ 0 \notin U8(0) /\ 1 \notin U8(0) /\ 2 \notin U8(0) /\ 3 \notin U8(0)
        /\ 4 \notin U8(0) /\ 5 \notin U8(0) /\ 6 \notin U8(0) /\ 7 \notin U8(0)
        /\ U8(0) \in Byte
    BY <2>1, U8Bits, Zenon
  <2>3. \A i : i \notin U8(0)
    BY <2>2 DEF Byte, Bit
  <2> QED BY <2>3 DEF Zero
<1>2. \A v \in 0 .. 255 : U8(v) \in Byte
  BY U8Bits
<1>3. 0 \in 0 .. 255
  OBVIOUS
<1> QED BY <1>1, <1>2, <1>3, U8Injective

-----------------------------------------------------------------------------
(* combine.                                                                *)

(* Different shares of a polynomial, as many as it has coefficients or     *)
(* more.                                                                   *)
SharesOf(shares, coeffs) ==
  /\ shares \in Seq([id : 1 .. 255, value : Byte])
  /\ Len(shares) >= Len(coeffs)
  /\ \A i \in 1 .. Len(shares) : shares[i].value = Evaluate(coeffs, U8(shares[i].id))
  /\ \A i, j \in 1 .. Len(shares) : shares[i].id = shares[j].id => i = j

(* combine gives the first coefficient of the polynomial its shares come   *)
(* from.                                                                   *)
THEOREM CombineGives ==
  ASSUME NEW coeffs \in Seq(Byte), Len(coeffs) >= 1, NEW shares, SharesOf(shares, coeffs)
  PROVE  Combine(shares, Len(coeffs)) = Value(coeffs[1])
<1> DEFINE t == Len(coeffs)
           xs == [i \in 1 .. t |-> U8(shares[i].id)]
           ys == [i \in 1 .. t |-> shares[i].value]
<1>0. /\ t \in Nat /\ t >= 1 /\ Len(shares) \in Nat /\ t <= Len(shares) /\ t # 0
      /\ \A i \in 1 .. t : i \in 1 .. Len(shares)
      /\ DOMAIN shares = 1 .. Len(shares)
  BY DEF SharesOf
<1>1. \A i \in 1 .. Len(shares) : shares[i].id \in 1 .. 255 /\ shares[i].value \in Byte
  <2> DEFINE S == [id : 1 .. 255, value : Byte]
  <2>1. shares \in Seq(S)
    BY DEF SharesOf
  <2> HIDE DEF S
  <2>2. \A i \in 1 .. Len(shares) : shares[i] \in S
    BY <2>1
  <2> QED BY <2>2 DEF S
<1>2. /\ \A i \in 1 .. Len(shares) : shares[i].value = Evaluate(coeffs, U8(shares[i].id))
      /\ \A i, j \in 1 .. Len(shares) : shares[i].id = shares[j].id => i = j
  BY DEF SharesOf
<1> DEFINE ids == [i \in DOMAIN shares |-> shares[i].id]
<1>3. IsInjective(ids)
  BY <1>0, <1>2 DEF IsInjective
<1>4. ~(\E i \in DOMAIN shares : shares[i].id = 0) /\ ~(Len(shares) < t)
  <2>1. \A v \in 1 .. 255 : v # 0
    OBVIOUS
  <2>3. ASSUME NEW i \in DOMAIN shares PROVE shares[i].id # 0
    BY <1>0, <1>1, <2>1
  <2> HIDE DEF t
  <2>2. ~(Len(shares) < t)
    BY <1>0
  <2> QED BY <2>2, <2>3
<1>5. Combine(shares, t) = Value(Interpolate(xs, ys))
  <2> HIDE DEF t
  <2> QED BY <1>0, <1>3, <1>4 DEF Combine
<1> HIDE DEF t
<1>6. \A v \in 1 .. 255 : v \in 0 .. 255 /\ v # 0
  OBVIOUS
<1>7. \A i \in 1 .. t : /\ shares[i].id \in 0 .. 255 /\ shares[i].id # 0
                        /\ U8(shares[i].id) \in Byte /\ U8(shares[i].id) # Zero
  BY <1>0, <1>1, <1>6, U8Zero
<1>8. xs \in Points(t)
  <2>1. xs \in [1 .. t -> Byte]
    BY <1>7
  <2>2. ASSUME NEW i \in 1 .. t, NEW j \in 1 .. t, xs[i] = xs[j] PROVE i = j
    <3>1. U8(shares[i].id) = U8(shares[j].id)
      BY <2>2
    <3>2. shares[i].id = shares[j].id
      BY <1>7, <3>1, U8Injective
    <3> QED BY <1>0, <1>2, <3>2
  <2> HIDE DEF xs
  <2> QED BY <2>1, <2>2 DEF Points
<1>9. ys \in [1 .. t -> Byte]
  BY <1>0, <1>1
<1>10. Values(coeffs, xs, ys)
  BY <1>0, <1>2, <1>7 DEF Values
<1> HIDE DEF xs, ys
<1>11. Interpolate(xs, ys) = coeffs[1]
  <2>1. t = Len(coeffs)
    BY DEF t
  <2> QED BY <1>0, <1>8, <1>9, <1>10, <2>1, InterpolateGives
<1> QED BY <1>5, <1>11 DEF t

-----------------------------------------------------------------------------
(* What a polynomial is worth when its coefficients change.                *)

Lists(t) == [1 .. t -> Byte]

RunsOn(acc, f, x, t) ==
  /\ acc \in Lists(t)
  /\ acc[t] = f[t]
  /\ \A j \in 1 .. t - 1 : acc[j] = gf_add(gf_mul(acc[j + 1], x), f[j])
  /\ Evaluate(f, x) = acc[1]

(* Horner's loop over a list of coefficients.                              *)
LEMMA RunsOf ==
  ASSUME NEW t \in Nat \ {0}, NEW f \in Lists(t), NEW x \in Byte
  PROVE  (\E acc : RunsOn(acc, f, x, t)) /\ Evaluate(f, x) \in Byte
<1>1. f \in Seq(Byte) /\ Len(f) = t
  BY ListLength DEF Lists
<1>2. PICK acc : Runs(acc, f, x, f[Len(f)]) /\ Evaluate(f, x) = acc[1]
  BY <1>1, EvaluateRuns
<1>3. RunsOn(acc, f, x, t)
  BY <1>1, <1>2 DEF Runs, RunsOn, Lists
<1>4. 1 \in 1 .. t
  OBVIOUS
<1> QED BY <1>2, <1>3, <1>4 DEF RunsOn, Lists

(* It adds up.                                                             *)
LEMMA EvaluateAdds ==
  ASSUME NEW t \in Nat \ {0}, NEW f \in Lists(t), NEW g \in Lists(t), NEW h \in Lists(t),
         NEW x \in Byte, AreSums(h, f, g, t)
  PROVE  Evaluate(h, x) = gf_add(Evaluate(f, x), Evaluate(g, x))
<1>1. PICK p \in [1 .. t -> Byte] :
         /\ p[t] = f[t] /\ Evaluate(f, x) = p[1]
         /\ \A j \in 1 .. t - 1 : p[j] = gf_add(gf_mul(p[j + 1], x), f[j])
  <2>1. PICK acc : RunsOn(acc, f, x, t)
    BY RunsOf
  <2> QED BY <2>1 DEF RunsOn, Lists
<1>2. PICK q \in [1 .. t -> Byte] :
         /\ q[t] = g[t] /\ Evaluate(g, x) = q[1]
         /\ \A j \in 1 .. t - 1 : q[j] = gf_add(gf_mul(q[j + 1], x), g[j])
  <2>1. PICK acc : RunsOn(acc, g, x, t)
    BY RunsOf
  <2> QED BY <2>1 DEF RunsOn, Lists
<1>3. PICK r \in [1 .. t -> Byte] :
         /\ r[t] = h[t] /\ Evaluate(h, x) = r[1]
         /\ \A j \in 1 .. t - 1 : r[j] = gf_add(gf_mul(r[j + 1], x), h[j])
  <2>1. PICK acc : RunsOn(acc, h, x, t)
    BY RunsOf
  <2> QED BY <2>1 DEF RunsOn, Lists
<1> DEFINE T == {k \in 0 .. t - 1 : r[t - k] = gf_add(p[t - k], q[t - k])}
<1>4. 0 \in T
  <2>1. t \in 1 .. t /\ t - 0 = t /\ 0 \in 0 .. t - 1
    OBVIOUS
  <2> QED BY <1>1, <1>2, <1>3, <2>1 DEF AreSums
<1>5. ASSUME NEW k \in 1 .. t - 1, k - 1 \in T PROVE k \in T
  <2> DEFINE j == t - k
  <2>1. /\ j \in 1 .. t - 1 /\ j \in 1 .. t /\ j + 1 \in 1 .. t /\ j + 1 = t - (k - 1)
        /\ k \in 0 .. t - 1
    OBVIOUS
  <2>2. r[j + 1] = gf_add(p[j + 1], q[j + 1])
    BY <1>5, <2>1
  <2> HIDE DEF j
  <2>3. h[j] = gf_add(f[j], g[j])
    BY <2>1 DEF AreSums
  <2>4. /\ r[j] = gf_add(gf_mul(r[j + 1], x), h[j]) /\ p[j] = gf_add(gf_mul(p[j + 1], x), f[j])
        /\ q[j] = gf_add(gf_mul(q[j + 1], x), g[j])
        /\ p[j + 1] \in Byte /\ q[j + 1] \in Byte
    BY <1>1, <1>2, <1>3, <2>1
  <2>5. gf_mul(r[j + 1], x) = gf_add(gf_mul(p[j + 1], x), gf_mul(q[j + 1], x))
    BY <2>2, <2>4, MulAddsLeft
  <2>6. r[j] = gf_add(p[j], q[j])
    BY <2>3, <2>4, <2>5, AddSwap
  <2> QED BY <2>1, <2>6 DEF j
<1> HIDE DEF T
<1>6. t - 1 \in T
  <2>1. t - 1 \in Nat /\ t - 1 \in 0 .. t - 1
    OBVIOUS
  <2>2. \A k \in 0 .. t - 1 : k \in T
    BY <1>4, <1>5, <2>1, Forwards
  <2> QED BY <2>1, <2>2
<1>7. t - (t - 1) = 1
  OBVIOUS
<1> QED BY <1>1, <1>2, <1>3, <1>6, <1>7 DEF T

(* The coefficients of (1 + r x) f.                                        *)
IsGrown(h, f, r, t) ==
  h[1] = f[1] /\ \A j \in 2 .. t : h[j] = gf_add(f[j], gf_mul(f[j - 1], r))

(* Two products multiplied out.                                            *)
LEMMA MulGrown ==
  /\ \A a, b, r, x \in Byte :
       gf_mul(gf_add(a, gf_mul(b, r)), x) = gf_add(gf_mul(a, x), gf_mul(gf_mul(b, r), x))
  /\ \A a, b, r, x \in Byte :
       gf_mul(gf_add(gf_mul(a, x), b), r) = gf_add(gf_mul(gf_mul(a, r), x), gf_mul(b, r))
<1>1. ASSUME NEW a \in Byte, NEW b \in Byte, NEW r \in Byte, NEW x \in Byte
      PROVE  gf_mul(gf_add(a, gf_mul(b, r)), x) = gf_add(gf_mul(a, x), gf_mul(gf_mul(b, r), x))
  <2>1. gf_mul(b, r) \in Byte
    BY MulTyped
  <2> QED BY <2>1, MulAddsLeft
<1>2. ASSUME NEW a \in Byte, NEW b \in Byte, NEW r \in Byte, NEW x \in Byte
      PROVE  gf_mul(gf_add(gf_mul(a, x), b), r) = gf_add(gf_mul(gf_mul(a, r), x), gf_mul(b, r))
  <2>1. gf_mul(a, x) \in Byte
    BY MulTyped
  <2>2. gf_mul(gf_mul(a, x), r) = gf_mul(gf_mul(a, r), x)
    BY MulRight
  <2> QED BY <2>1, <2>2, MulAddsLeft
<1> QED BY <1>1, <1>2

(* The value of (1 + r x) f, if it has no coefficient more than f.         *)
LEMMA EvaluateGrown ==
  ASSUME NEW t \in Nat \ {0}, NEW f \in Lists(t), NEW h \in Lists(t), NEW x \in Byte, NEW r \in Byte,
         f[t] = Zero, IsGrown(h, f, r, t)
  PROVE  Evaluate(h, x)
           = gf_add(Evaluate(f, x), gf_mul(gf_mul(Evaluate(f, x), r), x))
<1>1. PICK p \in [1 .. t -> Byte] :
         /\ p[t] = f[t] /\ Evaluate(f, x) = p[1]
         /\ \A j \in 1 .. t - 1 : p[j] = gf_add(gf_mul(p[j + 1], x), f[j])
  <2>1. PICK acc : RunsOn(acc, f, x, t)
    BY RunsOf
  <2> QED BY <2>1 DEF RunsOn, Lists
<1>2. PICK q \in [1 .. t -> Byte] :
         /\ q[t] = h[t] /\ Evaluate(h, x) = q[1]
         /\ \A j \in 1 .. t - 1 : q[j] = gf_add(gf_mul(q[j + 1], x), h[j])
  <2>1. PICK acc : RunsOn(acc, h, x, t)
    BY RunsOf
  <2> QED BY <2>1 DEF RunsOn, Lists
<1>3. CASE t = 1
  <2>1. p[1] = Zero /\ q[1] = Zero
    BY <1>1, <1>2, <1>3 DEF IsGrown
  <2> QED BY <1>1, <1>2, <2>1, ZeroMul, AddSelf
<1>4. CASE t # 1
  <2> DEFINE T == {k \in 0 .. t - 2 : q[t - k] = gf_add(p[t - k], gf_mul(p[t - k - 1], r))}
  <2>1. 0 \in T
    <3>1. /\ t \in 2 .. t /\ t - 0 = t /\ 0 \in 0 .. t - 2 /\ t - 1 \in 1 .. t - 1 /\ t \in 1 .. t
          /\ (t - 1) + 1 = t /\ t - 0 - 1 = t - 1 /\ t - 1 \in 1 .. t
      BY <1>4
    <3>2. q[t] = gf_add(f[t], gf_mul(f[t - 1], r))
      BY <1>2, <3>1 DEF IsGrown
    <3>3. p[t - 1] = gf_add(gf_mul(p[t], x), f[t - 1])
      BY <1>1, <3>1
    <3>4. p[t - 1] = f[t - 1]
      BY <1>1, <3>3, ZeroMul, AddSelf
    <3> QED BY <1>1, <3>1, <3>2, <3>4
  <2>2. ASSUME NEW k \in 1 .. t - 2, k - 1 \in T PROVE k \in T
    <3> DEFINE j == t - k
    <3>1. /\ j \in 2 .. t /\ j \in 1 .. t - 1 /\ j + 1 \in 1 .. t /\ j + 1 = t - (k - 1)
          /\ t - (k - 1) - 1 = j /\ j - 1 \in 1 .. t - 1 /\ (j - 1) + 1 = j /\ k \in 0 .. t - 2
          /\ j \in 1 .. t /\ j - 1 \in 1 .. t /\ t - k - 1 = j - 1
      OBVIOUS
    <3>2. q[j + 1] = gf_add(p[j + 1], gf_mul(p[j], r))
      BY <2>2, <3>1
    <3> HIDE DEF j
    <3>3. h[j] = gf_add(f[j], gf_mul(f[j - 1], r))
      BY <3>1 DEF IsGrown
    <3>4. /\ q[j] = gf_add(gf_mul(q[j + 1], x), h[j]) /\ p[j] = gf_add(gf_mul(p[j + 1], x), f[j])
          /\ p[j - 1] = gf_add(gf_mul(p[j], x), f[j - 1])
          /\ p[j] \in Byte /\ p[j + 1] \in Byte /\ p[j - 1] \in Byte
          /\ f[j] \in Byte /\ f[j - 1] \in Byte
      BY <1>1, <1>2, <3>1 DEF Lists
    <3>5. gf_mul(q[j + 1], x) = gf_add(gf_mul(p[j + 1], x), gf_mul(gf_mul(p[j], r), x))
      BY <3>2, <3>4, MulGrown
    <3>6. gf_mul(p[j - 1], r) = gf_add(gf_mul(gf_mul(p[j], r), x), gf_mul(f[j - 1], r))
      BY <3>4, MulGrown
    <3>7. q[j] = gf_add(p[j], gf_mul(p[j - 1], r))
      BY <3>3, <3>4, <3>5, <3>6, AddSwap
    <3> QED BY <3>1, <3>7 DEF j
  <2>3. t - 2 \in T
    <3> HIDE DEF T
    <3>1. t - 2 \in Nat /\ t - 2 \in 0 .. t - 2
      BY <1>4
    <3>2. \A k \in 0 .. t - 2 : k \in T
      BY <2>1, <2>2, <3>1, Forwards
    <3> QED BY <3>1, <3>2
  <2>4. t - (t - 2) = 2 /\ t - (t - 2) - 1 = 1 /\ 1 \in 1 .. t - 1 /\ 1 + 1 = 2 /\ 1 \in 1 .. t /\ 2 \in 1 .. t
    BY <1>4
  <2>5. q[2] = gf_add(p[2], gf_mul(p[1], r))
    BY <2>3, <2>4
  <2> HIDE DEF T
  <2>6. /\ q[1] = gf_add(gf_mul(q[2], x), f[1]) /\ p[1] = gf_add(gf_mul(p[2], x), f[1])
        /\ p[1] \in Byte /\ p[2] \in Byte
    BY <1>1, <1>2, <2>4 DEF IsGrown
  <2>7. gf_mul(q[2], x) = gf_add(gf_mul(p[2], x), gf_mul(gf_mul(p[1], r), x))
    BY <2>5, <2>6, MulGrown
  <2>8. gf_add(gf_add(gf_mul(p[2], x), gf_mul(gf_mul(p[1], r), x)), f[1])
          = gf_add(gf_add(gf_mul(p[2], x), f[1]), gf_mul(gf_mul(p[1], r), x))
    BY AddAssoc, AddComm
  <2> QED BY <1>1, <1>2, <2>6, <2>7, <2>8
<1> QED BY <1>3, <1>4

=============================================================================
