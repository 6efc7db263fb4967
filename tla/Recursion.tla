------------------------------ MODULE Recursion ------------------------------
(***************************************************************************)
(* Induction over numbers, and that functions defined along numbers exist, *)
(* stated for sets and functions, so that the proofs about the loops over  *)
(* the bytes of a container can cite them.                                 *)
(***************************************************************************)
EXTENDS Integers, TLAPS, WellFoundedInduction

(* A set of natural numbers that has an element has a least one.           *)
LEMMA LeastElement ==
  ASSUME NEW S \in SUBSET Nat, S # {}
  PROVE  \E m \in S : \A n \in S : m <= n
<1> DEFINE R == OpToRel(<, Nat)
<1>1. IsWellFoundedOn(R, Nat)
  BY NatLessThanWellFounded
<1>2. \A m, n \in Nat : n < m => <<n, m>> \in R
  BY DEF OpToRel
<1> HIDE DEF R
<1>3. PICK m \in S : \A n \in S : ~(<<n, m>> \in R)
  BY <1>1, WFMin
<1>4. ASSUME NEW n \in S PROVE m <= n
  <2>1. m \in Nat /\ n \in Nat
    OBVIOUS
  <2>2. ~(n < m)
    BY <1>2, <1>3, <2>1
  <2> QED BY <2>1, <2>2
<1> QED BY <1>4

(* Induction from 0 up to n.                                               *)
LEMMA Upwards ==
  ASSUME NEW n \in Nat, NEW S, 0 \in S, \A k \in 0 .. n - 1 : k \in S => k + 1 \in S
  PROVE  \A k \in 0 .. n : k \in S
<1> DEFINE Bad == {k \in 0 .. n : k \notin S}
<1>1. SUFFICES ASSUME Bad # {} PROVE FALSE
  OBVIOUS
<1>2. PICK m \in Bad : \A k \in Bad : m <= k
  <2>1. Bad \in SUBSET Nat
    OBVIOUS
  <2> HIDE DEF Bad
  <2> QED BY <1>1, <2>1, LeastElement
<1>3. m # 0 /\ m - 1 \in 0 .. n - 1 /\ m - 1 \notin Bad
  BY <1>2
<1> QED BY <1>2, <1>3

(* The same, naming the number that is reached.                            *)
LEMMA Forwards ==
  ASSUME NEW n \in Nat, NEW S, 0 \in S, \A k \in 1 .. n : k - 1 \in S => k \in S
  PROVE  \A k \in 0 .. n : k \in S
<1>1. ASSUME NEW k \in 0 .. n - 1, k \in S PROVE k + 1 \in S
  <2>1. k + 1 \in 1 .. n /\ (k + 1) - 1 = k
    OBVIOUS
  <2> QED BY <1>1, <2>1
<1> QED BY <1>1, Upwards

(* Induction from n down to 0.                                             *)
LEMMA Downwards ==
  ASSUME NEW n \in Nat, NEW S, n \in S, \A k \in 0 .. n - 1 : k + 1 \in S => k \in S
  PROVE  \A k \in 0 .. n : k \in S
<1> DEFINE T == {k \in 0 .. n : n - k \in S}
<1>1. 0 \in T /\ \A k \in 0 .. n - 1 : k \in T => k + 1 \in T
  <2>1. ASSUME NEW k \in 0 .. n - 1, k \in T PROVE k + 1 \in T
    <3>1. n - k - 1 \in 0 .. n - 1 /\ n - k - 1 + 1 = n - k
      OBVIOUS
    <3>2. n - k - 1 \in S
      BY <2>1, <3>1
    <3>3. n - (k + 1) = n - k - 1
      OBVIOUS
    <3> QED BY <3>2, <3>3
  <2> QED BY <2>1
<1> HIDE DEF T
<1>2. \A k \in 0 .. n : k \in T
  BY <1>1, Upwards
<1>3. ASSUME NEW k \in 0 .. n PROVE k \in S
  <2>1. n - k \in T
    BY <1>2
  <2> QED BY <2>1 DEF T
<1> QED BY <1>3

(* Induction from n down to 0 where a case may use all the larger ones.    *)
LEMMA FromTheEnd ==
  ASSUME NEW n \in Nat, NEW S,
         \A k \in 0 .. n : (\A j \in k + 1 .. n : j \in S) => k \in S
  PROVE  \A k \in 0 .. n : k \in S
<1> DEFINE T == {k \in 0 .. n : \A j \in k .. n : j \in S}
<1>1. n \in T
  BY DEF T
<1>2. \A k \in 0 .. n - 1 : k + 1 \in T => k \in T
  OBVIOUS
<1> HIDE DEF T
<1>3. \A k \in 0 .. n : k \in T
  BY <1>1, <1>2, Downwards
<1> QED BY <1>3 DEF T

-----------------------------------------------------------------------------
(* A loop that counts to n and computes from what it has: a value for each *)
(* number of turns.                                                        *)
Steps(n, S) == [1 .. n -> [S -> S]]

Loops(f, n, S, x, step) ==
  /\ f \in [0 .. n -> S]
  /\ f[0] = x
  /\ \A k \in 1 .. n : f[k] = step[k][f[k - 1]]

(* A loop over 1 .. n defines what it computes at every step.              *)
LEMMA LoopDefined ==
  ASSUME NEW S, NEW x \in S, NEW n \in Nat, NEW step \in Steps(n, S)
  PROVE  \E f : Loops(f, n, S, x, step)
<1> USE DEF Steps
<1> DEFINE Fits(f, m) == f[0] = x /\ \A k \in 1 .. m : f[k] = step[k][f[k - 1]]
           T == {m \in 0 .. n : \E f \in [0 .. m -> S] : Fits(f, m)}
<1>1. 0 \in T
  <2>1. [i \in 0 .. 0 |-> x] \in [0 .. 0 -> S] /\ Fits([i \in 0 .. 0 |-> x], 0)
    OBVIOUS
  <2> HIDE DEF Fits
  <2> QED BY <2>1
<1>2. ASSUME NEW m \in 0 .. n - 1, m \in T PROVE m + 1 \in T
  <2>1. PICK f \in [0 .. m -> S] : Fits(f, m)
    BY <1>2
  <2>2. f[m] \in S /\ step[m + 1] \in [S -> S] /\ step[m + 1][f[m]] \in S
    <3>1. f[m] \in S /\ step[m + 1] \in [S -> S]
      OBVIOUS
    <3> QED BY <3>1
  <2> DEFINE g == [i \in 0 .. m + 1 |-> IF i <= m THEN f[i] ELSE step[m + 1][f[m]]]
  <2>3. g \in [0 .. m + 1 -> S]
    BY <2>2
  <2>4. \A k \in 1 .. m : g[k] = f[k] /\ g[k - 1] = f[k - 1]
    OBVIOUS
  <2>5. g[m + 1] = step[m + 1][g[m + 1 - 1]] /\ g[0] = f[0]
    <3>1. m \in 0 .. m + 1 /\ m + 1 \in 0 .. m + 1 /\ 0 \in 0 .. m + 1 /\ ~(m + 1 <= m) /\ m + 1 - 1 = m
      OBVIOUS
    <3>2. g[m] = f[m] /\ g[m + 1] = step[m + 1][f[m]] /\ g[0] = f[0]
      BY <3>1
    <3> QED BY <3>1, <3>2
  <2>6. Fits(g, m + 1)
    <3> HIDE DEF g
    <3>1. \A k \in 1 .. m + 1 : k \in 1 .. m \/ k = m + 1
      OBVIOUS
    <3> QED BY <2>1, <2>4, <2>5, <3>1
  <2> HIDE DEF g, Fits
  <2>7. m + 1 \in 0 .. n
    OBVIOUS
  <2> QED BY <2>3, <2>6, <2>7
<1>3. n \in T
  <2> HIDE DEF T
  <2>1. \A m \in 0 .. n : m \in T
    BY <1>1, <1>2, Upwards
  <2> QED BY <2>1
<1> QED BY <1>3 DEF Loops

(* Where a loop stands after m turns.                                      *)
LoopTo(step, x, m) ==
  LET f[k \in 0 .. m] == IF k = 0 THEN x ELSE step[k][f[k - 1]] IN f[m]

(* It is where every function that follows the steps stands.               *)
LEMMA LoopIs ==
  ASSUME NEW S, NEW x \in S, NEW n \in Nat, NEW step \in Steps(n, S),
         NEW f, Loops(f, n, S, x, step), NEW m \in 0 .. n
  PROVE  LoopTo(step, x, m) = f[m]
<1> DEFINE body(h, k) == IF k = 0 THEN x ELSE step[k][h[k - 1]]
           Is(h) == h = [k \in 0 .. m |-> body(h, k)]
           g == CHOOSE h : Is(h)
           c == [k \in 0 .. m |-> f[k]]
<1>1. \A k \in 0 .. m : c[k] = body(c, k)
  <2> TAKE k \in 0 .. m
  <2>1. k \in 0 .. n /\ (k = 0 \/ (k \in 1 .. n /\ k - 1 \in 0 .. m))
    OBVIOUS
  <2> QED BY <2>1 DEF Loops
<1>2. Is(g)
  <2>1. c = [k \in 0 .. m |-> c[k]]
    OBVIOUS
  <2> HIDE DEF c, body
  <2>2. c = [k \in 0 .. m |-> body(c, k)]
    BY <1>1, <2>1
  <2>3. Is(c)
    BY <2>2
  <2> HIDE DEF Is
  <2> QED BY <2>3
<1>3. LoopTo(step, x, m) = g[m]
  BY DEF LoopTo
<1> HIDE DEF g
<1>4. \A k \in 0 .. m : g[k] = body(g, k)
  <2> HIDE DEF body
  <2> QED BY <1>2
<1> DEFINE T == {k \in 0 .. m : g[k] = f[k]}
<1>5. 0 \in T
  BY <1>4 DEF Loops
<1>6. ASSUME NEW k \in 1 .. m, k - 1 \in T PROVE k \in T
  <2>1. k \in 0 .. m /\ k # 0 /\ k \in 1 .. n
    OBVIOUS
  <2>2. g[k] = step[k][g[k - 1]] /\ g[k - 1] = f[k - 1] /\ f[k] = step[k][f[k - 1]]
    BY <1>4, <1>6, <2>1 DEF Loops
  <2> QED BY <2>1, <2>2
<1> HIDE DEF T
<1>7. m \in T
  <2>1. \A k \in 0 .. m : k \in T
    BY <1>5, <1>6, Forwards
  <2> QED BY <2>1
<1> QED BY <1>3, <1>7 DEF T

(* It begins at x, and each turn takes its step.                           *)
LEMMA LoopTurns ==
  ASSUME NEW S, NEW x \in S, NEW n \in Nat, NEW step \in Steps(n, S)
  PROVE  /\ LoopTo(step, x, 0) = x
         /\ \A m \in 1 .. n : LoopTo(step, x, m) = step[m][LoopTo(step, x, m - 1)]
         /\ \A m \in 0 .. n : LoopTo(step, x, m) \in S
<1>1. PICK f : Loops(f, n, S, x, step)
  BY LoopDefined
<1>2. \A m \in 0 .. n : LoopTo(step, x, m) = f[m]
  BY <1>1, LoopIs
<1>3. 0 \in 0 .. n /\ \A m \in 1 .. n : m \in 0 .. n /\ m - 1 \in 0 .. n
  OBVIOUS
<1> QED BY <1>1, <1>2, <1>3 DEF Loops

(* A search that jumps forward and ends at a stop: a result for each place *)
(* it can begin at.                                                        *)
Searches(f, n, S, stops, base, next) ==
  /\ f \in [0 .. n -> S]
  /\ \A o \in 0 .. n : f[o] = IF o \in stops THEN base[o] ELSE f[next[o]]

(* A search that moves on inside 0 .. n defines what it finds everywhere.  *)
LEMMA SearchDefined ==
  ASSUME NEW S, NEW n \in Nat, NEW stops, NEW base, NEW next,
         \A o \in 0 .. n : base[o] \in S,
         \A o \in 0 .. n : o \in stops \/ next[o] \in o + 1 .. n
  PROVE  \E f : Searches(f, n, S, stops, base, next)
<1> DEFINE Fits(f, m) == \A o \in m .. n : f[o] = IF o \in stops THEN base[o] ELSE f[next[o]]
           T == {m \in 0 .. n : \E f \in [m .. n -> S] : Fits(f, m)}
<1>1. n \in T
  <2>1. n \in stops
    OBVIOUS
  <2> DEFINE g == [i \in n .. n |-> base[i]]
  <2>2. g \in [n .. n -> S] /\ Fits(g, n)
    BY <2>1
  <2> HIDE DEF Fits, g
  <2>3. n \in 0 .. n
    OBVIOUS
  <2> QED BY <2>2, <2>3
<1>2. ASSUME NEW m \in 0 .. n - 1, m + 1 \in T PROVE m \in T
  <2>1. PICK f \in [m + 1 .. n -> S] : Fits(f, m + 1)
    BY <1>2
  <2> DEFINE v == IF m \in stops THEN base[m] ELSE f[next[m]]
             g == [i \in m .. n |-> IF i = m THEN v ELSE f[i]]
  <2>2. m \in stops \/ next[m] \in m + 1 .. n
    OBVIOUS
  <2>3. v \in S
    BY <2>2
  <2>4. g \in [m .. n -> S]
    BY <2>3
  <2>5. g[m] = v /\ \A i \in m + 1 .. n : g[i] = f[i]
    OBVIOUS
  <2> HIDE DEF g
  <2>6. g[m] = IF m \in stops THEN base[m] ELSE g[next[m]]
    BY <2>2, <2>5
  <2>7. ASSUME NEW o \in m + 1 .. n
        PROVE  g[o] = IF o \in stops THEN base[o] ELSE g[next[o]]
    <3>1. o \in stops \/ next[o] \in m + 1 .. n
      OBVIOUS
    <3> QED BY <2>1, <2>5, <3>1
  <2>8. Fits(g, m)
    <3>1. \A o \in m .. n : o = m \/ o \in m + 1 .. n
      OBVIOUS
    <3> QED BY <2>6, <2>7, <3>1
  <2> HIDE DEF Fits
  <2> QED BY <2>4, <2>8
<1>3. n \in Nat /\ 0 \in T
  <2> HIDE DEF T
  <2>1. \A m \in 0 .. n : m \in T
    BY <1>1, <1>2, Downwards
  <2> QED BY <2>1
<1>4. PICK f \in [0 .. n -> S] : Fits(f, 0)
  BY <1>3
<1> QED BY <1>4 DEF Searches

=============================================================================
