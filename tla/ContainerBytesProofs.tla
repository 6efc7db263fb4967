------------------------ MODULE ContainerBytesProofs ------------------------
(***************************************************************************)
(* What ContainerBytes says of the bytes of a container, for containers of *)
(* every length, any number of recipients and chunks, and damage of any    *)
(* extent.  Most of it holds of every sequence of cells, and is stated of  *)
(* those first.                                                            *)
(***************************************************************************)
EXTENDS ContainerBytes, Recursion

-----------------------------------------------------------------------------
(* Sequences of cells.                                                     *)

(* Two sequences with the same cells are one.                              *)
LEMMA SameCells ==
  ASSUME NEW s \in Seq(Nat), NEW t \in Seq(Nat), Len(s) = Len(t),
         \A i \in 1 .. Len(s) : s[i] = t[i]
  PROVE  s = t
  OBVIOUS

(* A slice inside, cell by cell.                                           *)
LEMMA SliceCells ==
  ASSUME NEW b \in Seq(Nat), NEW from \in Nat, NEW to \in Nat, from <= to, to <= Len(b)
  PROVE  /\ Slice(b, from, to) \in Seq(Nat)
         /\ Len(Slice(b, from, to)) = to - from
         /\ \A i \in 1 .. to - from : Slice(b, from, to)[i] = b[from + i]
  BY DEF Slice

(* Two sequences one after the other, cell by cell.                        *)
LEMMA Joined ==
  ASSUME NEW s \in Seq(Nat), NEW t \in Seq(Nat)
  PROVE  /\ s \o t \in Seq(Nat)
         /\ Len(s \o t) = Len(s) + Len(t)
         /\ \A i \in 1 .. Len(s) : (s \o t)[i] = s[i]
         /\ \A i \in 1 .. Len(t) : (s \o t)[Len(s) + i] = t[i]
  OBVIOUS

(* Two slices, one beginning where the other ends.                         *)
LEMMA JoinSlices ==
  ASSUME NEW b \in Seq(Nat), NEW x \in Nat, NEW y \in Nat, NEW z \in Nat,
         x <= y, y <= z, z <= Len(b)
  PROVE  Slice(b, x, y) \o Slice(b, y, z) = Slice(b, x, z)
<1> DEFINE s == Slice(b, x, y)
           t == Slice(b, y, z)
           u == Slice(b, x, z)
<1>1. x <= z /\ y <= Len(b)
  OBVIOUS
<1>2. s \in Seq(Nat) /\ Len(s) = y - x /\ \A i \in 1 .. y - x : s[i] = b[x + i]
  BY <1>1, SliceCells
<1>3. t \in Seq(Nat) /\ Len(t) = z - y /\ \A i \in 1 .. z - y : t[i] = b[y + i]
  BY SliceCells
<1>4. u \in Seq(Nat) /\ Len(u) = z - x /\ \A i \in 1 .. z - x : u[i] = b[x + i]
  BY <1>1, SliceCells
<1> HIDE DEF s, t, u
<1>5. /\ s \o t \in Seq(Nat)
      /\ Len(s \o t) = Len(s) + Len(t)
      /\ \A i \in 1 .. Len(s) : (s \o t)[i] = s[i]
      /\ \A i \in 1 .. Len(t) : (s \o t)[Len(s) + i] = t[i]
  BY <1>2, <1>3, Joined
<1>6. ASSUME NEW i \in 1 .. z - x PROVE (s \o t)[i] = u[i]
  <2>1. CASE i <= y - x
    <3>1. i \in 1 .. y - x /\ i \in 1 .. Len(s)
      BY <1>2, <2>1
    <3> QED BY <1>2, <1>4, <1>5, <3>1
  <2>2. CASE i > y - x
    <3> DEFINE k == i - (y - x)
    <3>1. k \in 1 .. z - y /\ y + k = x + i /\ Len(s) + k = i
      BY <1>2, <2>2
    <3> HIDE DEF k
    <3> QED BY <1>3, <1>4, <1>5, <3>1
  <2>3. i <= y - x \/ i > y - x
    OBVIOUS
  <2> QED BY <2>1, <2>2, <2>3
<1>7. Len(s \o t) = Len(u)
  BY <1>2, <1>3, <1>4, <1>5
<1>8. s \o t = u
  BY <1>4, <1>5, <1>6, <1>7, SameCells
<1> QED BY <1>8 DEF s, t, u

(* Slices of what was joined.                                              *)
LEMMA SliceOfLeft ==
  ASSUME NEW s \in Seq(Nat), NEW t \in Seq(Nat), NEW from \in Nat, NEW to \in Nat,
         from <= to, to <= Len(s)
  PROVE  Slice(s \o t, from, to) = Slice(s, from, to)
<1> DEFINE st == s \o t
           u  == Slice(st, from, to)
           v  == Slice(s, from, to)
<1>1. st \in Seq(Nat) /\ Len(st) = Len(s) + Len(t) /\ \A i \in 1 .. Len(s) : st[i] = s[i]
  BY Joined
<1>2. to <= Len(st)
  BY <1>1
<1> HIDE DEF st
<1>3. u \in Seq(Nat) /\ Len(u) = to - from /\ \A i \in 1 .. to - from : u[i] = st[from + i]
  BY <1>1, <1>2, SliceCells
<1>4. v \in Seq(Nat) /\ Len(v) = to - from /\ \A i \in 1 .. to - from : v[i] = s[from + i]
  BY SliceCells
<1> HIDE DEF u, v
<1>5. \A i \in 1 .. to - from : from + i \in 1 .. Len(s)
  OBVIOUS
<1>6. u = v
  BY <1>1, <1>3, <1>4, <1>5, SameCells
<1> QED BY <1>6 DEF u, v, st

(* The second of two is the rest of them.                                  *)
LEMMA SliceOfRight ==
  ASSUME NEW s \in Seq(Nat), NEW t \in Seq(Nat)
  PROVE  Slice(s \o t, Len(s), Len(s) + Len(t)) = t
<1>1. SUFFICES ASSUME NEW n \in Nat, NEW m \in Nat, n = Len(s), m = Len(s) + Len(t)
      PROVE  Slice(s \o t, n, m) = t
  OBVIOUS
<1> DEFINE st == s \o t
           u  == Slice(st, n, m)
<1>2. st \in Seq(Nat) /\ Len(st) = m /\ \A i \in 1 .. Len(t) : st[n + i] = t[i]
  BY <1>1, Joined
<1> HIDE DEF st
<1>3. n <= m /\ m <= Len(st) /\ m - n = Len(t)
  BY <1>1, <1>2
<1>4. u \in Seq(Nat) /\ Len(u) = m - n /\ \A i \in 1 .. m - n : u[i] = st[n + i]
  BY <1>2, <1>3, SliceCells
<1> HIDE DEF u
<1>5. u = t
  BY <1>2, <1>3, <1>4, SameCells
<1> QED BY <1>5 DEF u, st

(* A sequence is the slice of all of it.                                   *)
LEMMA WholeSlice ==
  ASSUME NEW s \in Seq(Nat)
  PROVE  Slice(s, 0, Len(s)) = s
<1>1. Slice(s, 0, Len(s)) = SubSeq(s, 1, Len(s))
  BY DEF Slice
<1>2. SubSeq(s, 1, Len(s)) = s
  OBVIOUS
<1> QED BY <1>1, <1>2

-----------------------------------------------------------------------------
(* A sequence of sequences put together, one after the other.              *)
Accumulates(f, seqs) ==
  /\ f \in [0 .. Len(seqs) -> Seq(Nat)]
  /\ f[0] = <<>>
  /\ \A k \in 1 .. Len(seqs) : f[k] = f[k - 1] \o seqs[k]

(* Sequences can be put together one at a time.                            *)
LEMMA Accumulated ==
  ASSUME NEW seqs \in Seq(Seq(Nat))
  PROVE  \E f : Accumulates(f, seqs)
<1> DEFINE n == Len(seqs)
           S == Seq(Nat)
           x == <<>>
           step == [k \in 1 .. n |-> [s \in S |-> s \o seqs[k]]]
<1>1. n \in Nat /\ x \in S /\ \A k \in 1 .. n : seqs[k] \in S
  OBVIOUS
<1>2. step \in Steps(n, S)
  BY <1>1, Joined DEF Steps
<1>3. \A k \in 1 .. n : \A s \in S : step[k][s] = s \o seqs[k]
  OBVIOUS
<1> HIDE DEF n, S, x, step
<1>4. PICK f : Loops(f, n, S, x, step)
  BY <1>1, <1>2, LoopDefined
<1> USE <1>4 DEF Loops
<1>5. \A k \in 1 .. n : f[k] = f[k - 1] \o seqs[k]
  <2> TAKE k \in 1 .. n
  <2>1. k - 1 \in 0 .. n
    BY <1>1
  <2>2. f[k - 1] \in S
    BY <2>1
  <2> QED BY <1>3, <1>4, <2>2
<1> QED BY <1>4, <1>5 DEF Accumulates, n, S, x

(* What was put together one at a time is FlattenSeq of them.              *)
LEMMA FlattenIs ==
  ASSUME NEW seqs \in Seq(Seq(Nat)), NEW f, Accumulates(f, seqs)
  PROVE  FlattenSeq(seqs) = f[Len(seqs)]
<1> DEFINE n == Len(seqs)
<1>0. n \in Nat /\ \A k \in 1 .. n : seqs[k] \in Seq(Nat)
  OBVIOUS
<1>1. n \in Nat /\ f \in [0 .. n -> Seq(Nat)] /\ f[0] = <<>>
      /\ \A k \in 1 .. n : f[k] = f[k - 1] \o seqs[k]
  BY <1>0 DEF Accumulates
<1>2. CASE n = 0
  <2>1. seqs = <<>> /\ FlattenSeq(seqs) = seqs
    BY <1>2 DEF FlattenSeq
  <2> QED BY <1>1, <1>2, <2>1
<1>3. CASE n # 0
  <2> DEFINE Is(g) == g = [i \in 1 .. Len(seqs) |-> IF i = 1 THEN seqs[i] ELSE g[i - 1] \o seqs[i]]
             g == CHOOSE x : Is(x)
             h == [i \in 1 .. n |-> f[i]]
  <2>1. Is(h)
    <3>1. ASSUME NEW i \in 1 .. n
          PROVE  h[i] = IF i = 1 THEN seqs[i] ELSE h[i - 1] \o seqs[i]
      <4>1. CASE i = 1
        <5>1. f[1] = f[1 - 1] \o seqs[1] /\ 1 \in 1 .. n
          BY <1>1, <4>1
        <5>2. f[1] = <<>> \o seqs[1] /\ seqs[1] \in Seq(Nat)
          BY <1>1, <5>1, SMTT(30)
        <5>3. f[1] = seqs[1]
          BY <5>2
        <5> QED BY <4>1, <5>1, <5>3
      <4>2. CASE i # 1
        <5>1. i - 1 \in 1 .. n
          BY <1>1, <4>2
        <5> QED BY <1>1, <4>2, <5>1
      <4> QED BY <4>1, <4>2
    <3> QED BY <3>1
  <2> HIDE DEF Is, h
  <2>2. Is(g)
    BY <2>1
  <2>3. FlattenSeq(seqs) = g[n]
    BY <1>3 DEF FlattenSeq, Is
  <2> HIDE DEF g
  <2>4. \A k \in 1 .. n : g[k] = IF k = 1 THEN seqs[k] ELSE g[k - 1] \o seqs[k]
    BY <2>2 DEF Is
  <2> DEFINE T == {k \in 0 .. n : k # 0 => g[k] = f[k]}
  <2>5. 0 \in T
    BY <1>1
  <2>6. ASSUME NEW k \in 1 .. n, k - 1 \in T PROVE k \in T
    <3>1. f[k] = f[k - 1] \o seqs[k] /\ seqs[k] \in Seq(Nat)
      BY <1>0, <1>1
    <3>2. CASE k = 1
      <4>1. f[k] = <<>> \o seqs[k]
        BY <1>1, <3>1, <3>2
      <4>2. <<>> \o seqs[k] = seqs[k]
        BY <3>1
      <4>3. g[k] = f[k]
        BY <2>4, <3>2, <4>1, <4>2
      <4> QED BY <1>1, <4>3
    <3>3. CASE k # 1
      <4>1. g[k - 1] = f[k - 1]
        BY <1>1, <2>6, <3>3
      <4>2. g[k] = f[k]
        BY <2>4, <3>1, <3>3, <4>1
      <4> QED BY <1>1, <4>2
    <3> QED BY <3>2, <3>3
  <2> HIDE DEF T
  <2>7. n \in T
    <3>1. \A k \in 0 .. n : k \in T
      BY <1>1, <2>5, <2>6, Forwards
    <3> QED BY <1>1, <3>1
  <2> QED BY <1>3, <2>3, <2>7 DEF T
<1> QED BY <1>2, <1>3

-----------------------------------------------------------------------------
(* Where entries begin, when each begins where the one before it ended.    *)
(* An end is inside and past the beginning, or it is Beyond.               *)
Strides(e, len) ==
  /\ e \in [Nat -> Nat]
  /\ \A o \in Nat : e[o] = len + 1 \/ (o < e[o] /\ e[o] <= len)

Starts(start, n, x, e) ==
  /\ start \in [0 .. n -> Nat]
  /\ start[0] = x
  /\ \A k \in 1 .. n : start[k] = e[start[k - 1]]

(* There is a list of starts for every way of finding ends.                *)
LEMMA StartsExist ==
  ASSUME NEW n \in Nat, NEW x \in Nat, NEW e \in [Nat -> Nat]
  PROVE  \E start : Starts(start, n, x, e)
<1> DEFINE step == [k \in 1 .. n |-> e]
           S == Nat
<1>1. step \in Steps(n, S) /\ x \in S
  BY DEF Steps
<1>2. \A k \in 1 .. n : step[k] = e
  OBVIOUS
<1> HIDE DEF step, S
<1>3. PICK f : Loops(f, n, S, x, step)
  BY <1>1, LoopDefined
<1>4. Starts(f, n, x, e)
  BY <1>2, <1>3 DEF Loops, Starts, S
<1> QED BY <1>4

(* Up to one that is inside they increase.                                 *)
LEMMA StartsIncrease ==
  ASSUME NEW n \in Nat, NEW x \in Nat, NEW e, NEW len \in Nat, Strides(e, len),
         NEW start, Starts(start, n, x, e), NEW m \in 0 .. n, start[m] <= len
  PROVE  \A k \in 1 .. m : start[k - 1] < start[k] /\ start[k] <= len
<1> DEFINE T == {k \in 0 .. m : start[k] <= len}
<1>1. \A k \in 0 .. n : start[k] \in Nat
  BY DEF Starts
<1>2. ASSUME NEW k \in 1 .. m, start[k] <= len PROVE start[k - 1] < start[k]
  <2>1. start[k] = e[start[k - 1]] /\ start[k - 1] \in Nat /\ start[k] \in Nat
    <3>1. k \in 1 .. n /\ k - 1 \in 0 .. n /\ k \in 0 .. n
      OBVIOUS
    <3> QED BY <1>1, <3>1 DEF Starts
  <2> QED BY <1>2, <2>1 DEF Strides
<1>3. m \in T
  OBVIOUS
<1>4. ASSUME NEW k \in 0 .. m - 1, k + 1 \in T PROVE k \in T
  <2>1. k + 1 \in 1 .. m /\ (k + 1) - 1 = k /\ k \in 0 .. n /\ k + 1 \in 0 .. n
    OBVIOUS
  <2>2. start[k] < start[k + 1] /\ start[k + 1] <= len
    BY <1>2, <1>4, <2>1
  <2> QED BY <1>1, <2>1, <2>2
<1> HIDE DEF T
<1>5. \A k \in 0 .. m : k \in T
  BY <1>3, <1>4, Downwards
<1> QED BY <1>2, <1>5 DEF T

(* At most one of them is at the very end.                                 *)
LEMMA OneEnd ==
  ASSUME NEW n \in Nat, NEW x \in Nat, NEW e, NEW len \in Nat, Strides(e, len),
         NEW start, Starts(start, n, x, e),
         NEW i \in 0 .. n, NEW j \in 0 .. n, start[i] = len, start[j] = len
  PROVE  i = j
<1>1. ASSUME NEW a \in 0 .. n, NEW c \in 0 .. n, start[a] = len, start[c] = len, a < c
      PROVE  FALSE
  <2>1. \A k \in 1 .. c : start[k - 1] < start[k] /\ start[k] <= len
    BY <1>1, StartsIncrease
  <2>2. a + 1 \in 1 .. c /\ (a + 1) - 1 = a /\ a + 1 \in 0 .. n
    BY <1>1
  <2>3. start[a] < start[a + 1] /\ start[a + 1] <= len /\ start[a + 1] \in Nat
    BY <2>1, <2>2 DEF Starts
  <2> QED BY <1>1, <2>3
<1> QED BY <1>1

(* The three kinds of ends.                                                *)
EntryEnds(slice)        == [o \in Nat |-> EntryEnd(slice, o)]
ChunkEntryEnds(slice)   == [o \in Nat |-> ChunkEntryEnd(slice, o)]
PyChunkEntryEnds(slice) == [o \in Nat |-> PyChunkEntryEnd(slice, o)]

(* The ends that Rust and Python find of an entry are such ends.           *)
LEMMA EndsStride ==
  ASSUME NEW slice \in Seq(Nat)
  PROVE  /\ Strides(EntryEnds(slice), Len(slice))
         /\ Len(slice) >= PayloadHeaderCells => Strides(ChunkEntryEnds(slice), Len(slice))
         /\ Len(slice) >= PayloadHeaderCells => Strides(PyChunkEntryEnds(slice), Len(slice))
<1>1. ASSUME NEW o \in Nat
      PROVE  /\ EntryEnd(slice, o) \in Nat
             /\ EntryEnd(slice, o) = Len(slice) + 1
                \/ (o < EntryEnd(slice, o) /\ EntryEnd(slice, o) <= Len(slice))
  BY DEF EntryEnd, Beyond, EntryHeaderCells
<1>2. ASSUME NEW o \in Nat, Len(slice) >= PayloadHeaderCells
      PROVE  /\ ChunkEntryEnd(slice, o) \in Nat
             /\ ChunkEntryEnd(slice, o) = Len(slice) + 1
                \/ (o < ChunkEntryEnd(slice, o) /\ ChunkEntryEnd(slice, o) <= Len(slice))
  <2>1. slice[3] \in Nat
    BY <1>2 DEF PayloadHeaderCells
  <2>2. CASE o + 2 > Len(slice)
    BY <2>2 DEF ChunkEntryEnd, Beyond, ChunkHeaderCells
  <2>3. CASE o + 2 <= Len(slice)
    <3> DEFINE bad == \/ slice[o + 1] = 0
                      \/ ~IsFinal(slice[o + 2]) /\ slice[o + 1] # slice[2]
                      \/ o + 2 + slice[o + 1] + slice[3] > Len(slice)
    <3>1. ChunkEntryEnd(slice, o) = IF bad THEN Len(slice) + 1 ELSE o + 2 + slice[o + 1] + slice[3]
      BY <2>3 DEF ChunkEntryEnd, Beyond, ChunkHeaderCells
    <3>2. slice[o + 1] \in Nat
      BY <2>3
    <3>3. ~bad => o + 2 + slice[o + 1] + slice[3] <= Len(slice)
      BY <2>1, <3>2, SMTT(30)
    <3> HIDE DEF bad
    <3>4. CASE bad
      BY <3>1, <3>4
    <3>5. CASE ~bad
      <4>1. ChunkEntryEnd(slice, o) = o + 2 + slice[o + 1] + slice[3]
        BY <3>1, <3>5
      <4> QED BY <2>1, <3>2, <3>3, <3>5, <4>1, SMTT(30)
    <3> QED BY <3>4, <3>5
  <2> QED BY <2>2, <2>3
<1>3. ASSUME NEW o \in Nat, Len(slice) >= PayloadHeaderCells
      PROVE  /\ PyChunkEntryEnd(slice, o) \in Nat
             /\ PyChunkEntryEnd(slice, o) = Len(slice) + 1
                \/ (o < PyChunkEntryEnd(slice, o) /\ PyChunkEntryEnd(slice, o) <= Len(slice))
  <2>1. slice[3] \in Nat
    BY <1>3 DEF PayloadHeaderCells
  <2> QED BY <2>1, SMTT(30) DEF PyChunkEntryEnd, Beyond, ChunkHeaderCells
<1> QED BY <1>1, <1>2, <1>3 DEF Strides, EntryEnds, ChunkEntryEnds, PyChunkEntryEnds

-----------------------------------------------------------------------------
(* The starts the codecs compute: a recursive function over the numbers of *)
(* the entries.                                                            *)
LEMMA EntryStartsAre ==
  ASSUME NEW slice \in Seq(Nat), Len(slice) >= WrapsHeaderCells
  PROVE  Starts(EntryStarts(slice), slice[2], WrapsHeaderCells, EntryEnds(slice))
<1> DEFINE n == slice[2]
           Is(g) == g = [k \in 0 .. n |-> IF k = 0 THEN WrapsHeaderCells
                                          ELSE EntryEnd(slice, g[k - 1])]
           x == WrapsHeaderCells
           e == EntryEnds(slice)
<1>1. n \in Nat /\ x \in Nat
  BY DEF WrapsHeaderCells
<1>2. e \in [Nat -> Nat] /\ \A o \in Nat : e[o] = EntryEnd(slice, o)
  BY EndsStride DEF Strides, EntryEnds
<1> HIDE DEF n, x, e
<1>3. PICK f : Starts(f, n, x, e)
  BY <1>1, <1>2, StartsExist
<1>4. /\ f \in [0 .. n -> Nat] /\ f[0] = x
      /\ \A k \in 1 .. n : f[k] = e[f[k - 1]] /\ f[k - 1] \in Nat
  <2>1. \A k \in 1 .. n : k - 1 \in 0 .. n
    BY <1>1
  <2> QED BY <1>3, <2>1 DEF Starts
<1>5. \A k \in 0 .. n : f[k] = IF k = 0 THEN x ELSE EntryEnd(slice, f[k - 1])
  BY <1>1, <1>2, <1>4, SMTT(30)
<1>6. Is(f)
  BY <1>4, <1>5 DEF x
<1> DEFINE g == CHOOSE g : Is(g)
<1>7. EntryStarts(slice) = g
  BY DEF EntryStarts, n
<1>8. Is(g)
  <2> HIDE DEF Is
  <2> QED BY <1>6
<1>9. g \in [0 .. n -> Nat] /\ \A k \in 0 .. n : g[k] = f[k]
  <2> HIDE DEF g
  <2>1. /\ DOMAIN g = 0 .. n
        /\ \A k \in 0 .. n : g[k] = IF k = 0 THEN x ELSE EntryEnd(slice, g[k - 1])
    BY <1>8 DEF x
  <2>2. g = [k \in 0 .. n |-> g[k]]
    BY <1>8, <2>1
  <2> HIDE DEF Is
  <2> DEFINE T == {k \in 0 .. n : g[k] = f[k]}
  <2>3. 0 \in T
    BY <1>1, <1>4, <2>1
  <2>4. ASSUME NEW k \in 1 .. n, k - 1 \in T PROVE k \in T
    <3>1. k \in 0 .. n /\ k # 0
      BY <1>1
    <3> QED BY <1>5, <2>1, <2>4, <3>1
  <2> HIDE DEF T
  <2>5. \A k \in 0 .. n : k \in T
    BY <1>1, <2>3, <2>4, Forwards
  <2>6. \A k \in 0 .. n : g[k] = f[k] /\ g[k] \in Nat
    BY <1>4, <2>5 DEF T
  <2> QED BY <2>2, <2>6
<1>10. Starts(g, n, x, e)
  <2> HIDE DEF g
  <2>1. \A k \in 1 .. n : k \in 0 .. n /\ k - 1 \in 0 .. n
    BY <1>1
  <2>2. 0 \in 0 .. n
    BY <1>1
  <2> QED BY <1>4, <1>9, <2>1, <2>2 DEF Starts
<1> QED BY <1>7, <1>10 DEF n, x, e

(* The same for the chunks: a list of chunks is made of the starts, and    *)
(* there is at most one.                                                   *)
ChunksFrom(slice, start, n) ==
  [k \in 1 .. n |-> ChunkOf(slice, start[k - 1], start[k])]

(* What the Rust parser can read of a payload, by its starts.              *)
LEMMA ChunkListsAre ==
  ASSUME NEW slice \in Seq(Nat), Len(slice) >= PayloadHeaderCells
  PROVE  \E start :
           /\ Starts(start, Len(slice), PayloadHeaderCells, ChunkEntryEnds(slice))
           /\ ChunkLists(slice) =
                {ChunksFrom(slice, start, m) : m \in {k \in 0 .. Len(slice) : start[k] = Len(slice)}}
<1> DEFINE n == Len(slice)
           Is(g) == g = [k \in 0 .. n |-> IF k = 0 THEN PayloadHeaderCells
                                          ELSE ChunkEntryEnd(slice, g[k - 1])]
           x == PayloadHeaderCells
           e == ChunkEntryEnds(slice)
<1>1. n \in Nat /\ x \in Nat
  BY DEF PayloadHeaderCells
<1>2. e \in [Nat -> Nat] /\ \A o \in Nat : e[o] = ChunkEntryEnd(slice, o)
  BY EndsStride DEF Strides, ChunkEntryEnds
<1> HIDE DEF n, x, e
<1>3. PICK f : Starts(f, n, x, e)
  BY <1>1, <1>2, StartsExist
<1>4. /\ f \in [0 .. n -> Nat] /\ f[0] = x
      /\ \A k \in 1 .. n : f[k] = e[f[k - 1]] /\ f[k - 1] \in Nat
  <2>1. \A k \in 1 .. n : k - 1 \in 0 .. n
    BY <1>1
  <2> QED BY <1>3, <2>1 DEF Starts
<1>5. \A k \in 0 .. n : f[k] = IF k = 0 THEN x ELSE ChunkEntryEnd(slice, f[k - 1])
  BY <1>1, <1>2, <1>4, SMTT(30)
<1>6. Is(f)
  BY <1>4, <1>5 DEF x
<1> DEFINE g == CHOOSE g : Is(g)
<1>7. Is(g)
  <2> HIDE DEF Is
  <2> QED BY <1>6
<1>8. g \in [0 .. n -> Nat] /\ \A k \in 0 .. n : g[k] = f[k]
  <2> HIDE DEF g
  <2>1. /\ DOMAIN g = 0 .. n
        /\ \A k \in 0 .. n : g[k] = IF k = 0 THEN x ELSE ChunkEntryEnd(slice, g[k - 1])
    BY <1>7 DEF x
  <2>2. g = [k \in 0 .. n |-> g[k]]
    BY <1>7, <2>1
  <2> HIDE DEF Is
  <2> DEFINE T == {k \in 0 .. n : g[k] = f[k]}
  <2>3. 0 \in T
    BY <1>1, <1>4, <2>1
  <2>4. ASSUME NEW k \in 1 .. n, k - 1 \in T PROVE k \in T
    <3>1. k \in 0 .. n /\ k # 0
      BY <1>1
    <3> QED BY <1>5, <2>1, <2>4, <3>1
  <2> HIDE DEF T
  <2>5. \A k \in 0 .. n : k \in T
    BY <1>1, <2>3, <2>4, Forwards
  <2>6. \A k \in 0 .. n : g[k] = f[k] /\ g[k] \in Nat
    BY <1>4, <2>5 DEF T
  <2> QED BY <2>2, <2>6
<1>9. Starts(g, n, x, e)
  <2> HIDE DEF g
  <2>1. \A k \in 1 .. n : k \in 0 .. n /\ k - 1 \in 0 .. n
    BY <1>1
  <2>2. 0 \in 0 .. n
    BY <1>1
  <2> QED BY <1>4, <1>8, <2>1, <2>2 DEF Starts
<1>10. ChunkLists(slice) = {ChunksFrom(slice, g, m) : m \in {k \in 0 .. Len(slice) : g[k] = Len(slice)}}
  BY DEF ChunkLists, ChunkListsBy, ChunksFrom, n
<1> QED BY <1>9, <1>10 DEF n, x, e

(* What the Python parser can read of a payload, by its starts.            *)
LEMMA PyChunkListsAre ==
  ASSUME NEW slice \in Seq(Nat), Len(slice) >= PayloadHeaderCells
  PROVE  \E start :
           /\ Starts(start, Len(slice), PayloadHeaderCells, PyChunkEntryEnds(slice))
           /\ ChunkListsBy(PyChunkEntryEnd, slice) =
                {ChunksFrom(slice, start, m) : m \in {k \in 0 .. Len(slice) : start[k] = Len(slice)}}
<1> DEFINE n == Len(slice)
           Is(g) == g = [k \in 0 .. n |-> IF k = 0 THEN PayloadHeaderCells
                                          ELSE PyChunkEntryEnd(slice, g[k - 1])]
           x == PayloadHeaderCells
           e == PyChunkEntryEnds(slice)
<1>1. n \in Nat /\ x \in Nat
  BY DEF PayloadHeaderCells
<1>2. e \in [Nat -> Nat] /\ \A o \in Nat : e[o] = PyChunkEntryEnd(slice, o)
  BY EndsStride DEF Strides, PyChunkEntryEnds
<1> HIDE DEF n, x, e
<1>3. PICK f : Starts(f, n, x, e)
  BY <1>1, <1>2, StartsExist
<1>4. /\ f \in [0 .. n -> Nat] /\ f[0] = x
      /\ \A k \in 1 .. n : f[k] = e[f[k - 1]] /\ f[k - 1] \in Nat
  <2>1. \A k \in 1 .. n : k - 1 \in 0 .. n
    BY <1>1
  <2> QED BY <1>3, <2>1 DEF Starts
<1>5. \A k \in 0 .. n : f[k] = IF k = 0 THEN x ELSE PyChunkEntryEnd(slice, f[k - 1])
  BY <1>1, <1>2, <1>4, SMTT(30)
<1>6. Is(f)
  BY <1>4, <1>5 DEF x
<1> DEFINE g == CHOOSE g : Is(g)
<1>7. Is(g)
  <2> HIDE DEF Is
  <2> QED BY <1>6
<1>8. g \in [0 .. n -> Nat] /\ \A k \in 0 .. n : g[k] = f[k]
  <2> HIDE DEF g
  <2>1. /\ DOMAIN g = 0 .. n
        /\ \A k \in 0 .. n : g[k] = IF k = 0 THEN x ELSE PyChunkEntryEnd(slice, g[k - 1])
    BY <1>7 DEF x
  <2>2. g = [k \in 0 .. n |-> g[k]]
    BY <1>7, <2>1
  <2> HIDE DEF Is
  <2> DEFINE T == {k \in 0 .. n : g[k] = f[k]}
  <2>3. 0 \in T
    BY <1>1, <1>4, <2>1
  <2>4. ASSUME NEW k \in 1 .. n, k - 1 \in T PROVE k \in T
    <3>1. k \in 0 .. n /\ k # 0
      BY <1>1
    <3> QED BY <1>5, <2>1, <2>4, <3>1
  <2> HIDE DEF T
  <2>5. \A k \in 0 .. n : k \in T
    BY <1>1, <2>3, <2>4, Forwards
  <2>6. \A k \in 0 .. n : g[k] = f[k] /\ g[k] \in Nat
    BY <1>4, <2>5 DEF T
  <2> QED BY <2>2, <2>6
<1>9. Starts(g, n, x, e)
  <2> HIDE DEF g
  <2>1. \A k \in 1 .. n : k \in 0 .. n /\ k - 1 \in 0 .. n
    BY <1>1
  <2>2. 0 \in 0 .. n
    BY <1>1
  <2> QED BY <1>4, <1>8, <2>1, <2>2 DEF Starts
<1>10. ChunkListsBy(PyChunkEntryEnd, slice) = {ChunksFrom(slice, g, m) : m \in {k \in 0 .. Len(slice) : g[k] = Len(slice)}}
  BY DEF ChunkListsBy, ChunksFrom, n
<1> QED BY <1>9, <1>10 DEF n, x, e

(* A payload section is read in one way at most.                           *)
LEMMA OneChunkList ==
  ASSUME NEW slice \in Seq(Nat), Len(slice) >= PayloadHeaderCells
  PROVE  /\ \A p, q \in ChunkLists(slice) : p = q
         /\ \A p, q \in ChunkListsBy(PyChunkEntryEnd, slice) : p = q
<1> DEFINE len == Len(slice)
           x == PayloadHeaderCells
<1>1. len \in Nat /\ x \in Nat
  BY DEF PayloadHeaderCells
<1>2. ASSUME NEW e, Strides(e, len), NEW start, Starts(start, len, x, e),
             NEW p \in {ChunksFrom(slice, start, m) : m \in {k \in 0 .. len : start[k] = len}},
             NEW q \in {ChunksFrom(slice, start, m) : m \in {k \in 0 .. len : start[k] = len}}
      PROVE  p = q
  <2> HIDE DEF len, x
  <2>1. PICK i \in 0 .. len : start[i] = len /\ p = ChunksFrom(slice, start, i)
    OBVIOUS
  <2>2. PICK j \in 0 .. len : start[j] = len /\ q = ChunksFrom(slice, start, j)
    OBVIOUS
  <2>3. i = j
    BY <1>1, <1>2, <2>1, <2>2, OneEnd
  <2> QED BY <2>1, <2>2, <2>3
<1>3. ASSUME NEW p \in ChunkLists(slice), NEW q \in ChunkLists(slice)
      PROVE  p = q
  <2>1. PICK start : /\ Starts(start, len, x, ChunkEntryEnds(slice))
                     /\ ChunkLists(slice) = {ChunksFrom(slice, start, m) :
                                               m \in {k \in 0 .. len : start[k] = len}}
    BY ChunkListsAre
  <2>2. Strides(ChunkEntryEnds(slice), len)
    BY EndsStride
  <2> HIDE DEF len, x
  <2> QED BY <1>2, <2>1, <2>2
<1>4. ASSUME NEW p \in ChunkListsBy(PyChunkEntryEnd, slice),
             NEW q \in ChunkListsBy(PyChunkEntryEnd, slice)
      PROVE  p = q
  <2>1. PICK start : /\ Starts(start, len, x, PyChunkEntryEnds(slice))
                     /\ ChunkListsBy(PyChunkEntryEnd, slice) =
                          {ChunksFrom(slice, start, m) :
                             m \in {k \in 0 .. len : start[k] = len}}
    BY PyChunkListsAre
  <2>2. Strides(PyChunkEntryEnds(slice), len)
    BY EndsStride
  <2> HIDE DEF len, x
  <2> QED BY <1>2, <2>1, <2>2
<1> QED BY <1>3, <1>4

-----------------------------------------------------------------------------
(* An entry whose end is inside.                                           *)
LEMMA EntryInside ==
  ASSUME NEW slice \in Seq(Nat), NEW o \in Nat, EntryEnd(slice, o) <= Len(slice)
  PROVE  /\ o + 2 <= Len(slice)
         /\ slice[o + 1] \in Nat \ {0} /\ slice[o + 2] \in Nat
         /\ EntryEnd(slice, o) = o + 2 + slice[o + 1] + slice[o + 2]
<1>1. o + 2 <= Len(slice)
  BY DEF EntryEnd, Beyond, EntryHeaderCells
<1>2. slice[o + 1] \in Nat /\ slice[o + 2] \in Nat
  BY <1>1
<1>3. slice[o + 1] # 0 /\ ~(o + 2 + slice[o + 1] + slice[o + 2] > Len(slice))
  BY <1>1, <1>2 DEF EntryEnd, Beyond, EntryHeaderCells
<1> QED BY <1>1, <1>2, <1>3 DEF EntryEnd, EntryHeaderCells

(* The same for a chunk, as Rust reads it.                                 *)
LEMMA ChunkInside ==
  ASSUME NEW slice \in Seq(Nat), NEW o \in Nat, Len(slice) >= PayloadHeaderCells,
         ChunkEntryEnd(slice, o) <= Len(slice)
  PROVE  /\ o + 2 <= Len(slice)
         /\ slice[o + 1] \in Nat \ {0} /\ slice[o + 2] \in Nat /\ slice[3] \in Nat
         /\ IsFinal(slice[o + 2]) \/ slice[o + 1] = slice[2]
         /\ ChunkEntryEnd(slice, o) = o + 2 + slice[o + 1] + slice[3]
<1>1. o + 2 <= Len(slice)
  BY DEF ChunkEntryEnd, Beyond, ChunkHeaderCells
<1>2. slice[o + 1] \in Nat /\ slice[o + 2] \in Nat /\ slice[3] \in Nat
  BY <1>1 DEF PayloadHeaderCells
<1>3. /\ slice[o + 1] # 0 /\ ~(o + 2 + slice[o + 1] + slice[3] > Len(slice))
      /\ IsFinal(slice[o + 2]) \/ slice[o + 1] = slice[2]
  BY <1>1, <1>2 DEF ChunkEntryEnd, Beyond, ChunkHeaderCells
<1> QED BY <1>1, <1>2, <1>3 DEF ChunkEntryEnd, ChunkHeaderCells

(* The same for a chunk, as Python reads it.                               *)
LEMMA PyChunkInside ==
  ASSUME NEW slice \in Seq(Nat), NEW o \in Nat, Len(slice) >= PayloadHeaderCells,
         PyChunkEntryEnd(slice, o) <= Len(slice)
  PROVE  /\ o + 2 <= Len(slice)
         /\ slice[o + 1] \in Nat \ {0} /\ slice[o + 2] \in Nat /\ slice[3] \in Nat
         /\ PyChunkEntryEnd(slice, o) = o + 2 + slice[o + 1] + slice[3]
<1>1. o + 2 <= Len(slice)
  BY DEF PyChunkEntryEnd, Beyond, ChunkHeaderCells
<1>2. slice[o + 1] \in Nat /\ slice[o + 2] \in Nat /\ slice[3] \in Nat
  BY <1>1 DEF PayloadHeaderCells
<1>3. slice[o + 1] # 0 /\ ~(o + 2 + slice[o + 1] + slice[3] > Len(slice))
  BY <1>1, <1>2 DEF PyChunkEntryEnd, Beyond, ChunkHeaderCells
<1> QED BY <1>1, <1>2, <1>3 DEF PyChunkEntryEnd, ChunkHeaderCells

(* A header of two cells, then two parts.                                  *)
LEMMA TwoCellsAndSlices ==
  ASSUME NEW b \in Seq(Nat), NEW o \in Nat, NEW m \in Nat, NEW z \in Nat,
         o + 2 <= m, m <= z, z <= Len(b)
  PROVE  <<b[o + 1], b[o + 2]>> \o Slice(b, o + 2, m) \o Slice(b, m, z) = Slice(b, o, z)
<1> DEFINE h == o + 2
           head == <<b[o + 1], b[o + 2]>>
           u == Slice(b, o, h)
<1>1. h \in Nat /\ h = o + 2
  OBVIOUS
<1> HIDE DEF h
<1>2. o <= h /\ h <= m /\ h <= z /\ h <= Len(b) /\ m <= Len(b) /\ h - o = 2
  BY <1>1
<1>3. u \in Seq(Nat) /\ Len(u) = 2 /\ \A i \in 1 .. 2 : u[i] = b[o + i]
  <2>1. u \in Seq(Nat) /\ Len(u) = h - o /\ \A i \in 1 .. h - o : u[i] = b[o + i]
    BY <1>1, <1>2, SliceCells
  <2> QED BY <1>2, <2>1
<1>4. head \in Seq(Nat) /\ Len(head) = 2 /\ head[1] = b[o + 1] /\ head[2] = b[o + 2]
  BY <1>1, <1>2
<1> HIDE DEF head, u
<1>5. head = u
  <2>1. \A i \in 1 .. 2 : i = 1 \/ i = 2
    OBVIOUS
  <2>2. \A i \in 1 .. Len(head) : head[i] = u[i]
    BY <1>3, <1>4, <2>1
  <2> QED BY <1>3, <1>4, <2>2, SameCells
<1>6. Slice(b, o, h) \o Slice(b, h, m) = Slice(b, o, m)
  BY <1>1, <1>2, JoinSlices
<1>7. Slice(b, o, m) \o Slice(b, m, z) = Slice(b, o, z)
  <2>1. o <= m
    BY <1>2
  <2> QED BY <2>1, JoinSlices
<1> QED BY <1>5, <1>6, <1>7 DEF head, u, h

(* Slices that follow one another.                                         *)
LEMMA FlattenSlices ==
  ASSUME NEW b \in Seq(Nat), NEW n \in Nat, NEW start \in [0 .. n -> Nat],
         \A k \in 1 .. n : start[k - 1] <= start[k], start[n] <= Len(b),
         NEW seqs \in Seq(Seq(Nat)), Len(seqs) = n,
         \A k \in 1 .. n : seqs[k] = Slice(b, start[k - 1], start[k])
  PROVE  FlattenSeq(seqs) = Slice(b, start[0], start[n]) /\ start[0] <= start[n]
<1> DEFINE Below == {k \in 0 .. n : start[k] <= Len(b)}
           Above == {k \in 0 .. n : start[0] <= start[k]}
<1>1. \A k \in 0 .. n : start[k] \in Nat
  OBVIOUS
<1>2. \A k \in 0 .. n : start[k] <= Len(b)
  <2>1. n \in Below
    OBVIOUS
  <2>2. ASSUME NEW k \in 0 .. n - 1, k + 1 \in Below PROVE k \in Below
    <3>1. PICK j \in 1 .. n : j = k + 1 /\ j - 1 = k
      OBVIOUS
    <3>2. start[j - 1] <= start[j] /\ start[j - 1] \in Nat /\ start[j] \in Nat
      <4>1. j \in 0 .. n /\ j - 1 \in 0 .. n
        BY <3>1
      <4> QED BY <1>1, <4>1
    <3> QED BY <2>2, <3>1, <3>2
  <2> HIDE DEF Below
  <2>3. \A k \in 0 .. n : k \in Below
    BY <2>1, <2>2, Downwards
  <2> QED BY <2>3 DEF Below
<1>3. \A k \in 0 .. n : start[0] <= start[k]
  <2>1. 0 \in Above
    BY <1>1
  <2>2. ASSUME NEW k \in 1 .. n, k - 1 \in Above PROVE k \in Above
    <3>1. start[k - 1] <= start[k] /\ start[0] \in Nat /\ start[k - 1] \in Nat /\ start[k] \in Nat
      OBVIOUS
    <3> QED BY <2>2, <3>1
  <2> HIDE DEF Above
  <2>3. \A k \in 0 .. n : k \in Above
    BY <2>1, <2>2, Forwards
  <2> QED BY <2>3 DEF Above
<1> DEFINE f == [k \in 0 .. n |-> Slice(b, start[0], start[k])]
<1>4. f[0] = <<>>
  <2>1. 0 \in 0 .. n /\ start[0] \in Nat
    OBVIOUS
  <2>2. f[0] = SubSeq(b, start[0] + 1, start[0])
    BY <2>1 DEF Slice
  <2>3. SubSeq(b, start[0] + 1, start[0]) = <<>>
    BY <1>2, <2>1
  <2> QED BY <2>2, <2>3
<1>5. \A k \in 0 .. n : f[k] = Slice(b, start[0], start[k]) /\ f[k] \in Seq(Nat)
  <2>1. 0 \in 0 .. n
    OBVIOUS
  <2> QED BY <1>1, <1>2, <1>3, <2>1, SliceCells
<1>6. f \in [0 .. n -> Seq(Nat)]
  BY <1>5
<1> HIDE DEF f
<1>7. ASSUME NEW k \in 1 .. n PROVE f[k] = f[k - 1] \o seqs[k]
  <2>1. k \in 0 .. n /\ k - 1 \in 0 .. n /\ 0 \in 0 .. n
    OBVIOUS
  <2>2. PICK x \in Nat, y \in Nat, z \in Nat : x = start[0] /\ y = start[k - 1] /\ z = start[k]
    BY <1>1, <2>1
  <2>3. x <= y /\ y <= z /\ z <= Len(b)
    BY <1>2, <1>3, <2>1, <2>2
  <2>4. Slice(b, x, y) \o Slice(b, y, z) = Slice(b, x, z)
    BY <2>3, JoinSlices, ZenonT(30)
  <2> QED BY <1>5, <2>1, <2>2, <2>4
<1>8. Accumulates(f, seqs)
  BY <1>4, <1>6, <1>7 DEF Accumulates
<1>9. FlattenSeq(seqs) = f[n]
  BY <1>8, FlattenIs
<1>10. n \in 0 .. n
  OBVIOUS
<1> QED BY <1>3, <1>5, <1>9, <1>10

(* A section that begins with two cells, or three.                         *)
LEMMA TwoCells ==
  ASSUME NEW b \in Seq(Nat), 2 <= Len(b)
  PROVE  Slice(b, 0, 2) = <<b[1], b[2]>>
<1> DEFINE u == Slice(b, 0, 2)
           head == <<b[1], b[2]>>
<1>1. u \in Seq(Nat) /\ Len(u) = 2 /\ u[1] = b[1] /\ u[2] = b[2]
  BY DEF Slice
<1>2. b[1] \in Nat /\ b[2] \in Nat
  OBVIOUS
<1>3. head \in Seq(Nat) /\ Len(head) = 2 /\ head[1] = b[1] /\ head[2] = b[2]
  BY <1>2
<1> HIDE DEF u, head
<1>4. \A i \in 1 .. Len(u) : i = 1 \/ i = 2
  BY <1>1
<1>5. \A i \in 1 .. Len(u) : u[i] = head[i]
  BY <1>1, <1>3, <1>4
<1>6. u = head
  BY <1>1, <1>3, <1>5, SameCells
<1> QED BY <1>6 DEF u, head

(* The first three cells of a sequence.                                    *)
LEMMA ThreeCells ==
  ASSUME NEW b \in Seq(Nat), 3 <= Len(b)
  PROVE  Slice(b, 0, 3) = <<b[1], b[2], b[3]>>
<1> DEFINE u == Slice(b, 0, 3)
           head == <<b[1], b[2], b[3]>>
<1>1. u \in Seq(Nat) /\ Len(u) = 3 /\ u[1] = b[1] /\ u[2] = b[2] /\ u[3] = b[3]
  BY DEF Slice
<1>2. b[1] \in Nat /\ b[2] \in Nat /\ b[3] \in Nat
  OBVIOUS
<1>3. head \in Seq(Nat) /\ Len(head) = 3 /\ head[1] = b[1] /\ head[2] = b[2] /\ head[3] = b[3]
  BY <1>2
<1> HIDE DEF u, head
<1>4. \A i \in 1 .. Len(u) : i = 1 \/ i = 2 \/ i = 3
  BY <1>1
<1>5. \A i \in 1 .. Len(u) : u[i] = head[i]
  BY <1>1, <1>3, <1>4
<1>6. u = head
  BY <1>1, <1>3, <1>5, SameCells
<1> QED BY <1>6 DEF u, head

(* What the parser takes for the entries of a wraps section is the         *)
(* encoding of what it returns, up to where the last of them ends.         *)
LEMMA WrapsAreEncoded ==
  ASSUME NEW slice \in Seq(Nat), Len(slice) >= WrapsHeaderCells, slice[1] = Version,
         IsCount(slice[2]), EntryStarts(slice)[slice[2]] <= Len(slice)
  PROVE  /\ EncodeWraps(WrapsOf(slice)) = Slice(slice, 0, EntryStarts(slice)[slice[2]])
         /\ EntryStarts(slice)[slice[2]] \in Nat
<1> DEFINE n == slice[2]
           start == EntryStarts(slice)
           e == EntryEnds(slice)
           wraps == WrapsOf(slice)
           seqs == [i \in DOMAIN wraps |->
                     <<Len(wraps[i].id), Len(wraps[i].stanza)>> \o wraps[i].id \o wraps[i].stanza]
<1>1. n \in Nat /\ n < CountLimit /\ CountLimit \in Nat
  BY WidthsAssumption DEF WrapsHeaderCells, IsCount
<1>2. start \in [0 .. n -> Nat] /\ start[0] = 2 /\ \A k \in 1 .. n : start[k] = e[start[k - 1]]
  BY EntryStartsAre DEF Starts, WrapsHeaderCells
<1>3. \A k \in 1 .. n : start[k - 1] < start[k] /\ start[k] <= Len(slice)
  <2>1. Starts(start, n, WrapsHeaderCells, e) /\ Strides(e, Len(slice))
    BY EntryStartsAre, EndsStride
  <2>2. n \in 0 .. n /\ start[n] <= Len(slice) /\ WrapsHeaderCells \in Nat
    BY <1>1 DEF WrapsHeaderCells
  <2> HIDE DEF n, start, e
  <2> QED BY <1>1, <2>1, <2>2, StartsIncrease
<1>4. DOMAIN wraps = 1 .. n
  BY DEF WrapsOf
<1>5. ASSUME NEW k \in 1 .. n
      PROVE  seqs[k] = Slice(slice, start[k - 1], start[k])
  <2>1. k - 1 \in 0 .. n /\ k \in 0 .. n
    BY <1>1
  <2>2. PICK o \in Nat, z \in Nat : o = start[k - 1] /\ z = start[k]
    BY <1>2, <2>1
  <2>3. z = EntryEnd(slice, o) /\ z <= Len(slice)
    BY <1>2, <1>3, <2>2 DEF EntryEnds
  <2>4. /\ o + 2 <= Len(slice)
        /\ slice[o + 1] \in Nat \ {0} /\ slice[o + 2] \in Nat
        /\ z = o + 2 + slice[o + 1] + slice[o + 2]
    BY <2>3, EntryInside
  <2> DEFINE a == slice[o + 1]
             c == slice[o + 2]
  <2>5. PICK m \in Nat : m = o + 2 + a
    BY <2>4
  <2>6. wraps[k] = [id |-> Slice(slice, o + 2, m), stanza |-> Slice(slice, m, z)]
    BY <1>4, <2>2, <2>5 DEF WrapsOf, EntryHeaderCells
  <2>7. o + 2 <= m /\ m <= z /\ m <= Len(slice) /\ o + 2 \in Nat
        /\ m - (o + 2) = slice[o + 1] /\ z - m = slice[o + 2]
    <3>1. a \in Nat /\ c \in Nat /\ z = o + 2 + a + c
      BY <2>4
    <3> HIDE DEF a, c
    <3>2. o + 2 <= m /\ m <= z /\ m <= Len(slice) /\ o + 2 \in Nat
          /\ m - (o + 2) = a /\ z - m = c
      BY <2>3, <2>5, <3>1
    <3> QED BY <3>2 DEF a, c
  <2>8. Len(Slice(slice, o + 2, m)) = slice[o + 1]
    <3>1. PICK h \in Nat : h = o + 2
      OBVIOUS
    <3>2. h <= m /\ m - h = slice[o + 1]
      BY <2>7, <3>1
    <3>3. Len(Slice(slice, h, m)) = m - h
      BY <2>7, <3>2, SliceCells
    <3> QED BY <3>1, <3>2, <3>3
  <2>9. Len(Slice(slice, m, z)) = slice[o + 2]
    <3>1. Len(Slice(slice, m, z)) = z - m
      BY <2>3, <2>7, SliceCells
    <3> QED BY <2>7, <3>1
  <2>10. <<slice[o + 1], slice[o + 2]>> \o Slice(slice, o + 2, m) \o Slice(slice, m, z)
           = Slice(slice, o, z)
    BY <2>3, <2>7, TwoCellsAndSlices, ZenonT(30)
  <2>11. seqs[k] = <<slice[o + 1], slice[o + 2]>> \o Slice(slice, o + 2, m) \o Slice(slice, m, z)
    <3>1. seqs[k] = <<Len(wraps[k].id), Len(wraps[k].stanza)>> \o wraps[k].id \o wraps[k].stanza
      BY <1>4
    <3> HIDE DEF seqs, wraps
    <3>2. wraps[k].id = Slice(slice, o + 2, m) /\ wraps[k].stanza = Slice(slice, m, z)
      BY <2>6
    <3> QED BY <2>8, <2>9, <3>1, <3>2
  <2> QED BY <2>2, <2>10, <2>11
<1>6. seqs \in Seq(Seq(Nat)) /\ Len(seqs) = n
  <2>1. ASSUME NEW k \in 1 .. n PROVE seqs[k] \in Seq(Nat)
    <3>1. k - 1 \in 0 .. n /\ k \in 0 .. n
      BY <1>1
    <3>2. PICK o \in Nat, z \in Nat : o = start[k - 1] /\ z = start[k]
      BY <1>2, <3>1
    <3>3. o <= z /\ z <= Len(slice)
      BY <1>3, <3>2
    <3>4. Slice(slice, o, z) \in Seq(Nat)
      BY <3>3, SliceCells
    <3> QED BY <1>5, <3>2, <3>4
  <2>2. DOMAIN seqs = 1 .. n
    BY <1>4
  <2>3. seqs = [k \in 1 .. n |-> seqs[k]]
    BY <2>2
  <2> HIDE DEF seqs, n
  <2>4. seqs \in [1 .. n -> Seq(Nat)]
    BY <2>1, <2>3
  <2> QED BY <1>1, <2>4
<1>7. EncodeWraps(wraps) = <<Version, Count(wraps)>> \o FlattenSeq(seqs)
  BY DEF EncodeWraps
<1>8. Len(wraps) = n /\ Count(wraps) = n
  <2>1. Len(wraps) = n
    <3>1. wraps = [k \in 1 .. n |-> wraps[k]]
      BY DEF WrapsOf
    <3> HIDE DEF wraps, n
    <3>2. \E k \in Nat : DOMAIN wraps = 1 .. k
      BY <1>1, <1>4
    <3> QED BY <1>1, <1>4, <3>1
  <2>2. n % CountLimit = n
    <3> HIDE DEF n
    <3> QED BY <1>1
  <2> QED BY <2>1, <2>2 DEF Count
<1>9. <<Version, Count(wraps)>> = Slice(slice, 0, 2)
  BY <1>8, TwoCells DEF WrapsHeaderCells
<1>10. start[n] \in Nat /\ start[n] <= Len(slice)
  <2>1. n \in 0 .. n
    BY <1>1
  <2> QED BY <1>2, <2>1
<1>11. FlattenSeq(seqs) = Slice(slice, start[0], start[n]) /\ start[0] <= start[n]
  <2> HIDE DEF n, start, seqs, e
  <2>1. \A k \in 1 .. n : start[k - 1] <= start[k]
    <3>1. \A k \in 1 .. n : k - 1 \in 0 .. n /\ k \in 0 .. n
      BY <1>1
    <3> QED BY <1>2, <1>3, <3>1, SMTT(30)
  <2>2. start \in [0 .. n -> Nat] /\ start[n] <= Len(slice)
    BY <1>2, <1>10
  <2> QED BY <1>1, <1>5, <1>6, <2>1, <2>2, FlattenSlices
<1>12. Slice(slice, 0, 2) \o Slice(slice, 2, start[n]) = Slice(slice, 0, start[n])
  <2>1. PICK x \in Nat, y \in Nat, z \in Nat : x = 0 /\ y = 2 /\ z = start[n]
    BY <1>10
  <2>2. x <= y /\ y <= z /\ z <= Len(slice)
    BY <1>2, <1>10, <1>11, <2>1
  <2>3. Slice(slice, x, y) \o Slice(slice, y, z) = Slice(slice, x, z)
    BY <2>2, JoinSlices
  <2> QED BY <2>1, <2>3
<1> QED
  <2>1. EncodeWraps(wraps) = Slice(slice, 0, start[n])
    BY <1>2, <1>7, <1>9, <1>11, <1>12
  <2> QED BY <1>10, <2>1

-----------------------------------------------------------------------------
(* The chunks of a payload section, however they were found: they begin    *)
(* after its header, one where the other ends, and end where it ends.      *)
IsChunk(slice, o, z) ==
  /\ o \in Nat /\ z \in Nat
  /\ o + 2 <= Len(slice) /\ z <= Len(slice)
  /\ slice[o + 1] \in Nat \ {0} /\ slice[o + 2] \in Nat /\ slice[3] \in Nat
  /\ z = o + 2 + slice[o + 1] + slice[3]

ListFrom(slice, start, n, chunks) ==
  /\ start \in [0 .. Len(slice) -> Nat]
  /\ start[0] = PayloadHeaderCells
  /\ n \in 0 .. Len(slice) /\ start[n] = Len(slice)
  /\ \A k \in 1 .. n : IsChunk(slice, start[k - 1], start[k])
  /\ chunks = ChunksFrom(slice, start, n)

(* What the Rust parser demands on top: a chunk that is not final is full. *)
FullBelowFinal(slice, start, n) ==
  \A k \in 1 .. n : IsFinal(slice[start[k - 1] + 2]) \/ slice[start[k - 1] + 1] = slice[2]

(* The list that the Rust parser finds has this form.                      *)
LEMMA RustList ==
  ASSUME NEW slice \in Seq(Nat), Len(slice) >= PayloadHeaderCells, NEW chunks \in ChunkLists(slice)
  PROVE  \E start : \E n \in Nat :
           ListFrom(slice, start, n, chunks) /\ FullBelowFinal(slice, start, n)
<1> DEFINE len == Len(slice)
           x == PayloadHeaderCells
           e == ChunkEntryEnds(slice)
<1>1. len \in Nat /\ x \in Nat
  BY DEF PayloadHeaderCells
<1>2. PICK start : /\ Starts(start, len, x, e)
                   /\ ChunkLists(slice) = {ChunksFrom(slice, start, m) :
                                             m \in {k \in 0 .. len : start[k] = len}}
  BY ChunkListsAre
<1>3. Strides(e, len)
  BY EndsStride
<1>4. PICK n \in 0 .. len : start[n] = len /\ chunks = ChunksFrom(slice, start, n)
  BY <1>2
<1>5. \A k \in 1 .. n : start[k - 1] < start[k] /\ start[k] <= len
  <2> HIDE DEF len, x, e
  <2> QED BY <1>1, <1>2, <1>3, <1>4, StartsIncrease
<1>6. ASSUME NEW k \in 1 .. n
      PROVE  /\ IsChunk(slice, start[k - 1], start[k])
             /\ IsFinal(slice[start[k - 1] + 2]) \/ slice[start[k - 1] + 1] = slice[2]
  <2>1. k \in 1 .. len /\ k \in 0 .. len /\ k - 1 \in 0 .. len
    BY <1>1
  <2>2. PICK o \in Nat, z \in Nat : o = start[k - 1] /\ z = start[k]
    BY <1>2, <2>1 DEF Starts
  <2>3. z = ChunkEntryEnd(slice, o) /\ z <= len
    BY <1>2, <1>5, <2>1, <2>2 DEF Starts, ChunkEntryEnds
  <2>4. /\ o + 2 <= Len(slice)
        /\ slice[o + 1] \in Nat \ {0} /\ slice[o + 2] \in Nat /\ slice[3] \in Nat
        /\ IsFinal(slice[o + 2]) \/ slice[o + 1] = slice[2]
        /\ z = o + 2 + slice[o + 1] + slice[3]
    BY <2>3, ChunkInside
  <2>5. IsChunk(slice, o, z)
    BY <2>3, <2>4 DEF IsChunk
  <2> QED BY <2>2, <2>4, <2>5
<1>7. start \in [0 .. len -> Nat] /\ start[0] = x
  BY <1>2 DEF Starts
<1>8. ListFrom(slice, start, n, chunks) /\ FullBelowFinal(slice, start, n)
  BY <1>4, <1>6, <1>7 DEF ListFrom, FullBelowFinal
<1> QED BY <1>1, <1>8

(* The list that the Python parser finds has this form.                    *)
LEMMA PyList ==
  ASSUME NEW slice \in Seq(Nat), Len(slice) >= PayloadHeaderCells,
         NEW chunks \in ChunkListsBy(PyChunkEntryEnd, slice)
  PROVE  \E start : \E n \in Nat : ListFrom(slice, start, n, chunks)
<1> DEFINE len == Len(slice)
           x == PayloadHeaderCells
           e == PyChunkEntryEnds(slice)
<1>1. len \in Nat /\ x \in Nat
  BY DEF PayloadHeaderCells
<1>2. PICK start : /\ Starts(start, len, x, e)
                   /\ ChunkListsBy(PyChunkEntryEnd, slice) =
                        {ChunksFrom(slice, start, m) :
                           m \in {k \in 0 .. len : start[k] = len}}
  BY PyChunkListsAre
<1>3. Strides(e, len)
  BY EndsStride
<1>4. PICK n \in 0 .. len : start[n] = len /\ chunks = ChunksFrom(slice, start, n)
  BY <1>2
<1>5. \A k \in 1 .. n : start[k - 1] < start[k] /\ start[k] <= len
  <2> HIDE DEF len, x, e
  <2> QED BY <1>1, <1>2, <1>3, <1>4, StartsIncrease
<1>6. ASSUME NEW k \in 1 .. n PROVE IsChunk(slice, start[k - 1], start[k])
  <2>1. k \in 1 .. len /\ k \in 0 .. len /\ k - 1 \in 0 .. len
    BY <1>1
  <2>2. PICK o \in Nat, z \in Nat : o = start[k - 1] /\ z = start[k]
    BY <1>2, <2>1 DEF Starts
  <2>3. z = PyChunkEntryEnd(slice, o) /\ z <= len
    BY <1>2, <1>5, <2>1, <2>2 DEF Starts, PyChunkEntryEnds
  <2>4. IsChunk(slice, o, z)
    BY <2>3, PyChunkInside DEF IsChunk
  <2> QED BY <2>2, <2>4
<1>7. start \in [0 .. len -> Nat] /\ start[0] = x
  BY <1>2 DEF Starts
<1>8. ListFrom(slice, start, n, chunks)
  BY <1>4, <1>6, <1>7 DEF ListFrom
<1> QED BY <1>1, <1>8

(* And the other way: what has this form is what the parsers find.         *)
LEMMA ListsFound ==
  ASSUME NEW slice \in Seq(Nat), Len(slice) >= PayloadHeaderCells,
         NEW start, NEW n \in Nat, NEW chunks, ListFrom(slice, start, n, chunks)
  PROVE  /\ FullBelowFinal(slice, start, n) => chunks \in ChunkLists(slice)
         /\ chunks \in ChunkListsBy(PyChunkEntryEnd, slice)
<1> DEFINE len == Len(slice)
           x == PayloadHeaderCells
<1>1. len \in Nat /\ x \in Nat
  BY DEF PayloadHeaderCells
<1>2. n \in 0 .. len /\ start \in [0 .. len -> Nat] /\ start[0] = x /\ start[n] = len
  BY DEF ListFrom
<1>3. ASSUME NEW e, NEW s, Starts(s, len, x, e),
             \A k \in 1 .. n : e[start[k - 1]] = start[k]
      PROVE  s[n] = len /\ chunks = ChunksFrom(slice, s, n)
  <2> HIDE DEF len, x
  <2> DEFINE T == {k \in 0 .. n : s[k] = start[k]}
  <2>1. 0 \in T
    BY <1>2, <1>3 DEF Starts
  <2>2. ASSUME NEW k \in 1 .. n, k - 1 \in T PROVE k \in T
    <3>1. k \in 1 .. len
      BY <1>1, <1>2
    <3>2. s[k] = e[s[k - 1]]
      BY <1>3, <3>1 DEF Starts
    <3> QED BY <1>3, <2>2, <3>2
  <2> HIDE DEF T
  <2>3. \A k \in 0 .. n : k \in T
    BY <2>1, <2>2, Forwards
  <2>4. \A k \in 0 .. n : s[k] = start[k]
    BY <2>3 DEF T
  <2>5. n \in 0 .. n /\ \A k \in 1 .. n : k \in 0 .. n /\ k - 1 \in 0 .. n
    OBVIOUS
  <2>6. ChunksFrom(slice, s, n) = ChunksFrom(slice, start, n)
    BY <2>4, <2>5 DEF ChunksFrom
  <2> QED BY <1>2, <2>4, <2>5, <2>6 DEF ListFrom
<1>4. ASSUME NEW k \in 1 .. n
      PROVE  /\ PyChunkEntryEnds(slice)[start[k - 1]] = start[k]
             /\ FullBelowFinal(slice, start, n) => ChunkEntryEnds(slice)[start[k - 1]] = start[k]
  <2>1. k \in 0 .. len /\ k - 1 \in 0 .. len
    BY <1>1, <1>2
  <2>2. PICK o \in Nat, z \in Nat : o = start[k - 1] /\ z = start[k]
    BY <1>2, <2>1
  <2>3. IsChunk(slice, o, z)
    BY <2>2 DEF ListFrom
  <2> DEFINE a == slice[o + 1]
             t == slice[3]
  <2>4. a \in Nat /\ a # 0 /\ t \in Nat /\ z = o + 2 + a + t /\ o + 2 <= len /\ z <= len
    BY <2>3 DEF IsChunk
  <2>5. PyChunkEntryEnd(slice, o) = o + 2 + a + t
    BY <2>4, SMTT(30) DEF PyChunkEntryEnd, ChunkHeaderCells
  <2>6. ASSUME FullBelowFinal(slice, start, n) PROVE ChunkEntryEnd(slice, o) = o + 2 + a + t
    <3>1. IsFinal(slice[o + 2]) \/ a = slice[2]
      BY <2>2, <2>6 DEF FullBelowFinal
    <3>2. ~(o + 2 > len) /\ ~(o + 2 + a + t > len)
      BY <1>1, <2>4, SMTT(30)
    <3>3. ChunkEntryEnd(slice, o) =
            IF o + 2 > len THEN Beyond(slice)
            ELSE IF a = 0 \/ (~IsFinal(slice[o + 2]) /\ a # slice[2]) \/ o + 2 + a + t > len
                 THEN Beyond(slice) ELSE o + 2 + a + t
      BY DEF ChunkEntryEnd, ChunkHeaderCells
    <3> HIDE DEF a, t, len
    <3> QED BY <2>4, <3>1, <3>2, <3>3
  <2> QED BY <2>2, <2>4, <2>5, <2>6 DEF PyChunkEntryEnds, ChunkEntryEnds
<1>5. ASSUME FullBelowFinal(slice, start, n) PROVE chunks \in ChunkLists(slice)
  <2>1. PICK s : /\ Starts(s, len, x, ChunkEntryEnds(slice))
                 /\ ChunkLists(slice) = {ChunksFrom(slice, s, m) :
                                           m \in {k \in 0 .. len : s[k] = len}}
    BY ChunkListsAre
  <2>2. s[n] = len /\ chunks = ChunksFrom(slice, s, n)
    BY <1>3, <1>4, <1>5, <2>1
  <2> HIDE DEF len, x
  <2> QED BY <1>2, <2>1, <2>2
<1>6. chunks \in ChunkListsBy(PyChunkEntryEnd, slice)
  <2>1. PICK s : /\ Starts(s, len, x, PyChunkEntryEnds(slice))
                 /\ ChunkListsBy(PyChunkEntryEnd, slice) =
                      {ChunksFrom(slice, s, m) : m \in {k \in 0 .. len : s[k] = len}}
    BY PyChunkListsAre
  <2>2. s[n] = len /\ chunks = ChunksFrom(slice, s, n)
    BY <1>3, <1>4, <2>1
  <2> HIDE DEF len, x
  <2> QED BY <1>2, <2>1, <2>2
<1> QED BY <1>5, <1>6

(* One chunk, and what is encoded for it.                                  *)
LEMMA ChunkIs ==
  ASSUME NEW slice \in Seq(Nat), NEW o, NEW z, IsChunk(slice, o, z)
  PROVE  /\ ChunkOf(slice, o, z).flags = slice[o + 2]
         /\ ChunkOf(slice, o, z).ciphertext \in Seq(Nat) /\ ChunkOf(slice, o, z).tag \in Seq(Nat)
         /\ Len(ChunkOf(slice, o, z).ciphertext) = slice[o + 1]
         /\ Len(ChunkOf(slice, o, z).tag) = slice[3]
         /\ <<slice[o + 1], slice[o + 2]>> \o ChunkOf(slice, o, z).ciphertext
              \o ChunkOf(slice, o, z).tag = Slice(slice, o, z)
<1> DEFINE a == slice[o + 1]
           t == slice[3]
           h == o + 2
           m == o + 2 + a
<1>1. /\ o \in Nat /\ z \in Nat /\ a \in Nat /\ t \in Nat
      /\ z = o + 2 + a + t /\ z <= Len(slice) /\ o + 2 <= Len(slice)
  BY DEF IsChunk
<1>2. /\ h \in Nat /\ m \in Nat /\ h = o + 2 /\ h <= m /\ m <= z /\ m <= Len(slice)
      /\ m - h = a /\ z - m = t
  <2> HIDE DEF a, t
  <2> QED BY <1>1
<1>3. /\ ChunkOf(slice, o, z).flags = slice[o + 2]
      /\ ChunkOf(slice, o, z).ciphertext = Slice(slice, h, m)
      /\ ChunkOf(slice, o, z).tag = Slice(slice, m, z)
  BY DEF ChunkOf, ChunkHeaderCells
<1> HIDE DEF h, m
<1>4. Slice(slice, h, m) \in Seq(Nat) /\ Len(Slice(slice, h, m)) = m - h
  BY <1>2, SliceCells
<1>5. Slice(slice, m, z) \in Seq(Nat) /\ Len(Slice(slice, m, z)) = z - m
  BY <1>1, <1>2, SliceCells
<1>6. <<slice[o + 1], slice[o + 2]>> \o Slice(slice, o + 2, m) \o Slice(slice, m, z)
        = Slice(slice, o, z)
  <2>1. o \in Nat /\ z \in Nat /\ z <= Len(slice) /\ o + 2 <= m
    BY <1>1, <1>2
  <2>2. m \in Nat /\ m <= z
    BY <1>2
  <2> HIDE DEF a, t
  <2> QED BY <2>1, <2>2, TwoCellsAndSlices
<1>7. Slice(slice, o + 2, m) = Slice(slice, h, m)
  BY <1>2
<1> QED BY <1>2, <1>3, <1>4, <1>5, <1>6, <1>7

(* Lists of chunks are sequences, and increase.                            *)
LEMMA ListShape ==
  ASSUME NEW slice, NEW start, NEW n \in Nat, NEW chunks, ListFrom(slice, start, n, chunks)
  PROVE  DOMAIN chunks = 1 .. n /\ Len(chunks) = n /\ (chunks # <<>> <=> n # 0)
<1>1. chunks = [k \in 1 .. n |-> ChunkOf(slice, start[k - 1], start[k])]
  BY DEF ListFrom, ChunksFrom
<1>2. DOMAIN chunks = 1 .. n /\ chunks = [k \in 1 .. n |-> chunks[k]]
  BY <1>1
<1>3. Len(chunks) = n
  <2>1. \E k \in Nat : DOMAIN chunks = 1 .. k
    BY <1>2
  <2> QED BY <1>2, <2>1
<1>4. chunks # <<>> <=> n # 0
  <2>1. ASSUME n = 0 PROVE chunks = <<>>
    <3>1. 1 .. n = {}
      BY <2>1
    <3> QED BY <1>1, <3>1
  <2> QED BY <1>2, <1>3, <2>1
<1> QED BY <1>2, <1>3, <1>4

(* The chunks of a list, one by one, lie where their starts say.           *)
LEMMA ListIs ==
  ASSUME NEW slice \in Seq(Nat), NEW start, NEW n \in Nat, NEW chunks,
         ListFrom(slice, start, n, chunks)
  PROVE  \A k \in 1 .. n : /\ start[k - 1] \in Nat /\ start[k] \in Nat
                           /\ start[k - 1] < start[k] /\ start[k] <= Len(slice)
                           /\ IsChunk(slice, start[k - 1], start[k])
                           /\ chunks[k] = ChunkOf(slice, start[k - 1], start[k])
<1>1. chunks = [k \in 1 .. n |-> ChunkOf(slice, start[k - 1], start[k])]
  BY DEF ListFrom, ChunksFrom
<1>2. ASSUME NEW k \in 1 .. n
      PROVE  /\ start[k - 1] \in Nat /\ start[k] \in Nat
             /\ start[k - 1] < start[k] /\ start[k] <= Len(slice)
  <2>1. IsChunk(slice, start[k - 1], start[k])
    BY DEF ListFrom
  <2>2. PICK o \in Nat, z \in Nat : o = start[k - 1] /\ z = start[k]
    BY <2>1 DEF IsChunk
  <2>3. IsChunk(slice, o, z)
    BY <2>1, <2>2
  <2> DEFINE a == slice[o + 1]
             t == slice[3]
  <2>4. a \in Nat /\ t \in Nat /\ z = o + 2 + a + t /\ z <= Len(slice)
    BY <2>3 DEF IsChunk
  <2> HIDE DEF a, t
  <2>5. o < z
    BY <2>4
  <2> QED BY <2>2, <2>4, <2>5
<1> QED BY <1>1, <1>2 DEF ListFrom

(* A list of chunks is encoded as the section it was found in.             *)
LEMMA ChunksAreEncoded ==
  ASSUME NEW slice \in Seq(Nat), Len(slice) >= PayloadHeaderCells, slice[1] = Version,
         NEW start, NEW n \in Nat, NEW chunks, ListFrom(slice, start, n, chunks)
  PROVE  EncodePayload([chunkSize |-> slice[2], tagSize |-> slice[3], chunks |-> chunks]) = slice
<1> DEFINE p == [chunkSize |-> slice[2], tagSize |-> slice[3], chunks |-> chunks]
           seqs == [i \in DOMAIN chunks |->
                      <<Len(chunks[i].ciphertext), chunks[i].flags>>
                        \o chunks[i].ciphertext \o chunks[i].tag]
           len == Len(slice)
<1>1. DOMAIN chunks = 1 .. n
  BY ListShape
<1>2. len \in Nat /\ 3 <= len /\ n \in 0 .. len /\ start \in [0 .. len -> Nat]
      /\ start[0] = 3 /\ start[n] = len
  BY DEF ListFrom, PayloadHeaderCells
<1>3. ASSUME NEW k \in 1 .. n
      PROVE  seqs[k] = Slice(slice, start[k - 1], start[k]) /\ seqs[k] \in Seq(Nat)
  <2>1. PICK o \in Nat, z \in Nat : o = start[k - 1] /\ z = start[k]
    BY ListIs
  <2>2. IsChunk(slice, o, z) /\ chunks[k] = ChunkOf(slice, o, z) /\ o <= z /\ z <= Len(slice)
    BY <2>1, ListIs
  <2>3. seqs[k] = <<Len(chunks[k].ciphertext), chunks[k].flags>>
                    \o chunks[k].ciphertext \o chunks[k].tag
    BY <1>1
  <2> HIDE DEF seqs
  <2>4. seqs[k] = Slice(slice, o, z)
    BY <2>2, <2>3, ChunkIs, ZenonT(30)
  <2>5. Slice(slice, o, z) \in Seq(Nat)
    BY <2>2, SliceCells
  <2> QED BY <2>1, <2>4, <2>5
<1>4. seqs \in Seq(Seq(Nat)) /\ Len(seqs) = n
  <2>1. seqs = [k \in 1 .. n |-> seqs[k]]
    BY <1>1
  <2> HIDE DEF seqs
  <2>2. seqs \in [1 .. n -> Seq(Nat)]
    BY <1>3, <2>1
  <2> QED BY <2>2
<1>5. EncodePayload(p) = <<Version, slice[2], slice[3]>> \o FlattenSeq(seqs)
  BY DEF EncodePayload
<1> HIDE DEF seqs
<1> DEFINE s == [k \in 0 .. n |-> start[k]]
<1>6. /\ s \in [0 .. n -> Nat] /\ s[0] = 3 /\ s[n] = len
      /\ \A k \in 1 .. n : s[k] = start[k] /\ s[k - 1] = start[k - 1]
  BY <1>2
<1> HIDE DEF s
<1>7. \A k \in 1 .. n : s[k - 1] <= s[k] /\ seqs[k] = Slice(slice, s[k - 1], s[k])
  <2> TAKE k \in 1 .. n
  <2>1. start[k - 1] < start[k] /\ start[k - 1] \in Nat /\ start[k] \in Nat
    BY ListIs
  <2> QED BY <1>3, <1>6, <2>1
<1>8. FlattenSeq(seqs) = Slice(slice, s[0], s[n])
  <2>1. s[n] <= Len(slice)
    BY <1>6
  <2> QED BY <1>4, <1>6, <1>7, <2>1, FlattenSlices
<1>9. <<Version, slice[2], slice[3]>> = Slice(slice, 0, 3)
  BY <1>2, ThreeCells
<1>10. Slice(slice, 0, 3) \o Slice(slice, 3, len) = Slice(slice, 0, len)
  <2>1. PICK x \in Nat, y \in Nat, z \in Nat : x = 0 /\ y = 3 /\ z = len
    BY <1>2
  <2>2. x <= y /\ y <= z /\ z <= Len(slice)
    BY <1>2, <2>1
  <2>3. Slice(slice, x, y) \o Slice(slice, y, z) = Slice(slice, x, z)
    BY <2>2, JoinSlices
  <2> QED BY <2>1, <2>3
<1>11. EncodePayload(p) = slice
  BY <1>5, <1>6, <1>8, <1>9, <1>10, WholeSlice
<1> QED BY <1>11

(* PayloadOf finds a list of chunks.                                       *)
LEMMA PayloadIs ==
  ASSUME NEW slice \in Seq(Nat), PayloadParses(slice)
  PROVE  \E start : \E n \in Nat :
           /\ ListFrom(slice, start, n, PayloadOf(slice).chunks)
           /\ FullBelowFinal(slice, start, n)
           /\ n # 0
           /\ \A k \in 1 .. n : IsFinal(slice[start[k - 1] + 2]) <=> k = n
           /\ PayloadOf(slice).chunks \in ChunkLists(slice)
<1> DEFINE chunks == PayloadOf(slice).chunks
<1>1. PICK q \in ChunkLists(slice) :
        /\ q # <<>>
        /\ \A k \in DOMAIN q : IsFinal(q[k].flags) <=> k = Len(q)
  BY DEF PayloadParses
<1>2. Len(slice) >= PayloadHeaderCells
  BY DEF PayloadParses
<1>3. chunks \in ChunkLists(slice)
  <2>1. chunks = CHOOSE c \in ChunkLists(slice) : TRUE
    BY DEF PayloadOf
  <2> HIDE DEF chunks
  <2> QED BY <1>1, <2>1
<1>4. chunks = q
  BY <1>1, <1>2, <1>3, OneChunkList
<1> HIDE DEF chunks
<1>5. PICK start : \E n \in Nat :
        ListFrom(slice, start, n, chunks) /\ FullBelowFinal(slice, start, n)
  BY <1>2, <1>3, RustList
<1>6. PICK n \in Nat : ListFrom(slice, start, n, chunks) /\ FullBelowFinal(slice, start, n)
  BY <1>5
<1>7. DOMAIN chunks = 1 .. n /\ Len(chunks) = n /\ n # 0
  BY <1>1, <1>4, <1>6, ListShape
<1>8. ASSUME NEW k \in 1 .. n PROVE IsFinal(slice[start[k - 1] + 2]) <=> k = n
  <2>1. IsChunk(slice, start[k - 1], start[k]) /\ chunks[k] = ChunkOf(slice, start[k - 1], start[k])
    BY <1>2, <1>6, ListIs
  <2>2. chunks[k].flags = slice[start[k - 1] + 2]
    <3>1. PICK o, z : o = start[k - 1] /\ z = start[k]
      OBVIOUS
    <3>2. IsChunk(slice, o, z) /\ chunks[k] = ChunkOf(slice, o, z)
      BY <2>1, <3>1
    <3>3. ChunkOf(slice, o, z).flags = slice[o + 2]
      BY <3>2, ChunkIs
    <3> QED BY <3>1, <3>2, <3>3
  <2> QED BY <1>1, <1>4, <1>7, <2>2
<1>9. /\ ListFrom(slice, start, n, chunks) /\ FullBelowFinal(slice, start, n) /\ n # 0
      /\ \A k \in 1 .. n : IsFinal(slice[start[k - 1] + 2]) <=> k = n
      /\ chunks \in ChunkLists(slice)
  BY <1>3, <1>6, <1>7, <1>8
<1> QED BY <1>9 DEF chunks

-----------------------------------------------------------------------------
(* The scan for the end of the payload.                                    *)
Scans(end, b, t) ==
  \A o \in 0 .. Len(b) :
    /\ end[o] \in Int
    /\ o + 2 > Len(b) => end[o] = NoEnd
    /\ o + 2 <= Len(b) /\ IsFinal(b[o + 2]) => end[o] = o + 2 + b[o + 1] + t
    /\ o + 2 <= Len(b) /\ ~IsFinal(b[o + 2]) /\ o + 2 + b[o + 1] + t >= Len(b) => end[o] = NoEnd
    /\ o + 2 <= Len(b) /\ ~IsFinal(b[o + 2]) /\ o + 2 + b[o + 1] + t < Len(b) =>
         end[o] = end[o + 2 + b[o + 1] + t]

(* The scan is defined at every offset, by what lies there.                *)
LEMMA ScanIs ==
  ASSUME NEW b \in Seq(Nat), NEW offset \in Nat, offset + 3 <= Len(b)
  PROVE  \E end : Scans(end, b, b[offset + 3]) /\ ScanPayloadEnd(b, offset) = end[offset + 3]
<1> DEFINE n == Len(b)
           t == b[offset + 3]
           last(o) == o + 2 > n
           next == [o \in 0 .. n |-> o + 2 + b[o + 1] + t]
           scan(g, o) == IF o + ChunkHeaderCells > n THEN NoEnd
                         ELSE LET nx == o + ChunkSpan(b[o + 1], t)
                              IN  IF IsFinal(b[o + 2]) THEN nx
                                  ELSE IF nx >= n THEN NoEnd
                                  ELSE g[nx]
           Is(g) == g = [o \in 0 .. n |-> scan(g, o)]
           stops == {o \in 0 .. n : last(o) \/ IsFinal(b[o + 2]) \/ next[o] >= n}
           base == [o \in 0 .. n |-> IF ~last(o) /\ IsFinal(b[o + 2]) THEN next[o] ELSE NoEnd]
<1>1. n \in Nat /\ t \in Nat
  OBVIOUS
<1>2. \A o \in 0 .. n : ~last(o) => next[o] \in Int /\ next[o] >= o + 1
  <2> TAKE o \in 0 .. n
  <2> HAVE ~last(o)
  <2>1. b[o + 1] \in Nat
    OBVIOUS
  <2>2. next[o] = o + 2 + b[o + 1] + t
    OBVIOUS
  <2> HIDE DEF t
  <2> QED BY <1>1, <2>1, <2>2, SMTT(30)
<1>3. \A o \in 0 .. n : base[o] \in Int
  <2> HIDE DEF next, last
  <2> QED BY <1>2 DEF NoEnd
<1>4. \A o \in 0 .. n : o \in stops \/ next[o] \in o + 1 .. n
  <2> HIDE DEF next, last
  <2> QED BY <1>1, <1>2
<1> DEFINE S == Int
<1>5. PICK f : Searches(f, n, S, stops, base, next)
  <2>1. \A o \in 0 .. n : base[o] \in S
    BY <1>3
  <2> HIDE DEF n, S, stops, base, next
  <2> QED BY <1>1, <1>4, <2>1, SearchDefined
<1>6. f \in [0 .. n -> Int] /\ \A o \in 0 .. n : f[o] = IF o \in stops THEN base[o] ELSE f[next[o]]
  <2> HIDE DEF n, stops, base, next
  <2> QED BY <1>5 DEF Searches
<1> DEFINE body(g, o) == IF o + 2 > n THEN NoEnd
                         ELSE IF IsFinal(b[o + 2]) THEN next[o]
                         ELSE IF next[o] >= n THEN NoEnd
                         ELSE g[next[o]]
<1>7. ASSUME NEW g PROVE Is(g) <=> g = [o \in 0 .. n |-> body(g, o)]
  <2>1. \A o \in 0 .. n : scan(g, o) = body(g, o)
    <3> TAKE o \in 0 .. n
    <3>1. o + 2 <= n => next[o] = o + ChunkSpan(b[o + 1], t)
      <4>1. o + 2 <= n => b[o + 1] \in Nat
        OBVIOUS
      <4>2. next[o] = o + 2 + b[o + 1] + t /\ ChunkSpan(b[o + 1], t) = 2 + b[o + 1] + t
        BY DEF ChunkSpan, ChunkHeaderCells
      <4> HIDE DEF next, t
      <4> QED BY <1>1, <4>1, <4>2, SMTT(30)
    <3> HIDE DEF next, t
    <3> QED BY <1>1, <3>1 DEF ChunkHeaderCells
  <2> HIDE DEF scan, body
  <2> QED BY <2>1
<1>8. \A o \in 0 .. n : f[o] = body(f, o)
  <2> TAKE o \in 0 .. n
  <2>1. f[o] = IF o \in stops THEN base[o] ELSE f[next[o]]
    BY <1>6
  <2>2. o \in stops <=> last(o) \/ IsFinal(b[o + 2]) \/ next[o] >= n
    OBVIOUS
  <2>3. base[o] = IF ~last(o) /\ IsFinal(b[o + 2]) THEN next[o] ELSE NoEnd
    OBVIOUS
  <2> HIDE DEF stops, base, next
  <2> QED BY <2>1, <2>2, <2>3
<1> DEFINE g == CHOOSE g : Is(g)
<1>9. Is(g)
  <2>1. f = [o \in 0 .. n |-> body(f, o)]
    <3> HIDE DEF body
    <3> QED BY <1>6, <1>8
  <2>2. Is(f)
    BY <1>7, <2>1
  <2> HIDE DEF Is
  <2> QED BY <2>2
<1>10. \A o \in 0 .. n : g[o] = body(g, o)
  <2>1. g = [o \in 0 .. n |-> body(g, o)]
    BY <1>7, <1>9
  <2> HIDE DEF body, g
  <2> QED BY <2>1
<1>11. \A o \in 0 .. n : g[o] \in Int
  <2> HIDE DEF g
  <2> DEFINE T == {o \in 0 .. n : g[o] \in Int}
  <2>1. ASSUME NEW o \in 0 .. n, \A j \in o + 1 .. n : j \in T PROVE o \in T
    <3>1. g[o] = body(g, o)
      BY <1>10
    <3>2. ~last(o) => next[o] \in Int /\ next[o] >= o + 1
      BY <1>2
    <3> HIDE DEF next
    <3>3. body(g, o) \in Int
      BY <2>1, <3>2 DEF NoEnd
    <3> QED BY <3>1, <3>3
  <2> HIDE DEF T
  <2>2. \A o \in 0 .. n : o \in T
    BY <1>1, <2>1, FromTheEnd
  <2> QED BY <2>2 DEF T
<1>12. ScanPayloadEnd(b, offset) = g[offset + 3]
  <2>1. ~(offset + PayloadHeaderCells > n) /\ offset + PayloadHeaderCells = offset + 3
    BY DEF PayloadHeaderCells
  <2> QED BY <2>1 DEF ScanPayloadEnd
<1>13. Scans(g, b, t)
  <2> HIDE DEF g
  <2> SUFFICES ASSUME NEW o \in 0 .. n
      PROVE  /\ g[o] \in Int
             /\ o + 2 > n => g[o] = NoEnd
             /\ o + 2 <= n /\ IsFinal(b[o + 2]) => g[o] = o + 2 + b[o + 1] + t
             /\ o + 2 <= n /\ ~IsFinal(b[o + 2]) /\ o + 2 + b[o + 1] + t >= n => g[o] = NoEnd
             /\ o + 2 <= n /\ ~IsFinal(b[o + 2]) /\ o + 2 + b[o + 1] + t < n =>
                  g[o] = g[o + 2 + b[o + 1] + t]
    BY DEF Scans
  <2>1. g[o] = body(g, o)
    BY <1>10
  <2>2. next[o] = o + 2 + b[o + 1] + t
    OBVIOUS
  <2>3. o + 2 <= n => next[o] \in Int
    BY <1>2
  <2>4. g[o] \in Int /\ o \in Nat
    BY <1>11
  <2>5. body(g, o) = IF o + 2 > n THEN NoEnd
                     ELSE IF IsFinal(b[o + 2]) THEN next[o]
                     ELSE IF next[o] >= n THEN NoEnd
                     ELSE g[next[o]]
    OBVIOUS
  <2> HIDE DEF n, next, t, body
  <2>6. PICK x : x = next[o]
    OBVIOUS
  <2>7. /\ o + 2 > n => g[o] = NoEnd
        /\ o + 2 <= n => ~(o + 2 > n) /\ x \in Int /\ (x < n => ~(x >= n))
    BY <1>1, <2>1, <2>3, <2>4, <2>5, <2>6
  <2>8. /\ o + 2 <= n /\ IsFinal(b[o + 2]) => g[o] = x
        /\ o + 2 <= n /\ ~IsFinal(b[o + 2]) /\ x >= n => g[o] = NoEnd
        /\ o + 2 <= n /\ ~IsFinal(b[o + 2]) /\ x < n => g[o] = g[x]
    BY <2>1, <2>5, <2>6, <2>7
  <2> QED BY <2>2, <2>4, <2>6, <2>7, <2>8
<1> QED BY <1>12, <1>13

(* What is found lies past the header of a chunk.                          *)
LEMMA ScanForward ==
  ASSUME NEW b \in Seq(Nat), NEW offset \in Nat, ScanPayloadEnd(b, offset) # NoEnd
  PROVE  /\ offset + 3 <= Len(b)
         /\ ScanPayloadEnd(b, offset) \in Nat
         /\ ScanPayloadEnd(b, offset) >= offset + 5
<1> DEFINE n == Len(b)
           t == b[offset + 3]
<1>1. offset + 3 <= n
  BY DEF ScanPayloadEnd, PayloadHeaderCells
<1>2. n \in Nat /\ t \in Nat
  BY <1>1
<1>3. PICK end : Scans(end, b, t) /\ ScanPayloadEnd(b, offset) = end[offset + 3]
  BY <1>1, ScanIs
<1> DEFINE T == {o \in 0 .. n : end[o] \in Int /\ (end[o] = NoEnd \/ end[o] >= o + 2)}
<1>4. ASSUME NEW o \in 0 .. n, \A j \in o + 1 .. n : j \in T PROVE o \in T
  <2> DEFINE next == o + 2 + b[o + 1] + t
  <2>1. o + 2 <= n => next \in Int /\ next >= o + 2
    <3>1. o + 2 <= n => b[o + 1] \in Nat
      OBVIOUS
    <3> HIDE DEF t
    <3> QED BY <1>2, <3>1
  <2>2. /\ end[o] \in Int
        /\ o + 2 > n => end[o] = NoEnd
        /\ o + 2 <= n /\ IsFinal(b[o + 2]) => end[o] = next
        /\ o + 2 <= n /\ ~IsFinal(b[o + 2]) /\ next >= n => end[o] = NoEnd
        /\ o + 2 <= n /\ ~IsFinal(b[o + 2]) /\ next < n => end[o] = end[next]
    BY <1>3 DEF Scans
  <2> HIDE DEF next, n
  <2>3. CASE o + 2 > n
    BY <2>2, <2>3
  <2>4. CASE o + 2 <= n /\ IsFinal(b[o + 2])
    BY <2>1, <2>2, <2>4
  <2>5. CASE o + 2 <= n /\ ~IsFinal(b[o + 2]) /\ next >= n
    BY <2>2, <2>5
  <2>6. CASE o + 2 <= n /\ ~IsFinal(b[o + 2]) /\ next < n
    <3>1. next \in o + 1 .. n /\ next >= o + 2
      BY <1>2, <2>1, <2>6
    <3>2. next \in T
      BY <1>4, <3>1
    <3> QED BY <2>2, <2>6, <3>1, <3>2
  <2> QED BY <1>2, <2>1, <2>3, <2>4, <2>5, <2>6
<1> HIDE DEF T
<1>5. \A o \in 0 .. n : o \in T
  BY <1>2, <1>4, FromTheEnd
<1>6. offset + 3 \in T
  <2>1. offset + 3 \in 0 .. n
    BY <1>1
  <2> QED BY <1>5, <2>1
<1> QED BY <1>1, <1>3, <1>6 DEF T

(* Where the parser accepts a payload, the scan ends where it ends.        *)
LEMMA ScanOfParsed ==
  ASSUME NEW b \in Seq(Nat), NEW offset \in Nat, NEW to \in Nat,
         offset <= to, to <= Len(b), PayloadParses(Slice(b, offset, to))
  PROVE  ScanPayloadEnd(b, offset) = to
<1> DEFINE slice == Slice(b, offset, to)
           len == Len(b)
<1>1. /\ slice \in Seq(Nat) /\ Len(slice) = to - offset
      /\ \A i \in 1 .. to - offset : slice[i] = b[offset + i]
  BY SliceCells
<1>2. Len(slice) >= 3
  BY DEF PayloadParses, PayloadHeaderCells
<1>3. PICK start : \E n \in Nat :
        /\ ListFrom(slice, start, n, PayloadOf(slice).chunks)
        /\ n # 0
        /\ \A k \in 1 .. n : IsFinal(slice[start[k - 1] + 2]) <=> k = n
  <2> HIDE DEF slice
  <2> QED BY <1>1, PayloadIs DEF slice
<1> HIDE DEF slice
<1>4. PICK n \in Nat :
        /\ ListFrom(slice, start, n, PayloadOf(slice).chunks)
        /\ n # 0
        /\ \A k \in 1 .. n : IsFinal(slice[start[k - 1] + 2]) <=> k = n
  BY <1>3
<1> DEFINE t == b[offset + 3]
<1>5. offset + 3 <= len /\ len \in Nat /\ t \in Nat /\ t = slice[3]
  <2>1. len \in Nat /\ to <= len
    OBVIOUS
  <2> HIDE DEF len
  <2>2. 3 <= to - offset
    BY <1>1, <1>2
  <2>3. 3 \in 1 .. to - offset /\ 3 \in 1 .. Len(slice) /\ offset + 3 <= len
    BY <1>1, <2>1, <2>2
  <2>4. slice[3] = t
    BY <1>1, <2>3
  <2>5. slice[3] \in Nat
    BY <1>1, <2>3, SMTT(30)
  <2> QED BY <2>1, <2>3, <2>4, <2>5
<1>6. PICK end : Scans(end, b, t) /\ ScanPayloadEnd(b, offset) = end[offset + 3]
  BY <1>5, ScanIs
<1>7. ASSUME NEW k \in 1 .. n
      PROVE  /\ start[k - 1] \in Nat /\ start[k] \in Nat
             /\ offset + start[k] <= to
             /\ k = n => end[offset + start[k - 1]] = offset + start[k]
             /\ k # n /\ offset + start[k] < to =>
                  end[offset + start[k - 1]] = end[offset + start[k]]
  <2>1. PICK o \in Nat, z \in Nat : o = start[k - 1] /\ z = start[k]
    BY <1>1, <1>4, ListIs
  <2>2. IsChunk(slice, o, z)
    BY <1>1, <1>4, <2>1, ListIs
  <2> DEFINE a == slice[o + 1]
             p == offset + o
  <2>3. a \in Nat /\ z = o + 2 + a + t /\ o + 2 <= Len(slice) /\ z <= Len(slice)
    BY <1>5, <2>2 DEF IsChunk
  <2>4. p \in 0 .. len /\ p + 2 <= len /\ offset + z <= to /\ p = offset + o
    <3>1. o + 2 <= to - offset /\ z <= to - offset
      BY <1>1, <2>3
    <3> HIDE DEF a, t
    <3> QED BY <1>5, <3>1
  <2>5. b[p + 1] = a /\ b[p + 2] = slice[o + 2]
    <3>1. o + 1 \in 1 .. to - offset /\ o + 2 \in 1 .. to - offset
      BY <1>1, <2>3
    <3>2. slice[o + 1] = b[offset + (o + 1)] /\ slice[o + 2] = b[offset + (o + 2)]
      BY <1>1, <3>1
    <3>3. offset + (o + 1) = p + 1 /\ offset + (o + 2) = p + 2
      OBVIOUS
    <3> QED BY <3>2, <3>3
  <2>6. IsFinal(b[p + 2]) <=> k = n
    BY <1>4, <2>1, <2>5
  <2>7. p + 2 + a + t = offset + z
    <3>1. a \in Nat /\ t \in Nat /\ z = o + 2 + a + t
      BY <1>5, <2>3
    <3>2. p = offset + o
      OBVIOUS
    <3> HIDE DEF a, t, p
    <3>3. p + 2 + a + t = offset + (o + 2 + a + t)
      BY <3>1, <3>2
    <3> QED BY <3>1, <3>3
  <2>8. /\ IsFinal(b[p + 2]) => end[p] = offset + z
        /\ ~IsFinal(b[p + 2]) /\ offset + z < len => end[p] = end[offset + z]
    <3> HIDE DEF p, t
    <3>1. /\ p + 2 <= len /\ IsFinal(b[p + 2]) => end[p] = p + 2 + b[p + 1] + t
          /\ p + 2 <= len /\ ~IsFinal(b[p + 2]) /\ p + 2 + b[p + 1] + t < len =>
               end[p] = end[p + 2 + b[p + 1] + t]
      BY <1>6, <2>4 DEF Scans
    <3> HIDE DEF a
    <3> QED BY <2>4, <2>5, <2>7, <3>1
  <2>9. offset + z < to => offset + z < len
    BY <1>5
  <2> QED BY <2>1, <2>4, <2>6, <2>8, <2>9
<1>8. start[0] = 3 /\ start[n] = to - offset
  BY <1>1, <1>4 DEF ListFrom, PayloadHeaderCells
<1> DEFINE T == {k \in 0 .. n - 1 : end[offset + start[k]] = to}
<1>9. n - 1 \in Nat /\ n - 1 \in T
  <2>1. n \in 1 .. n
    BY <1>4
  <2>2. end[offset + start[n - 1]] = offset + start[n]
    BY <1>7, <2>1
  <2>3. offset + start[n] = to
    BY <1>8
  <2> QED BY <1>4, <2>2, <2>3
<1>10. ASSUME NEW k \in 0 .. n - 1 - 1, k + 1 \in T PROVE k \in T
  <2>1. PICK j \in 1 .. n : j = k + 1 /\ j - 1 = k
    BY <1>4
  <2>2. j # n /\ j + 1 \in 1 .. n /\ (j + 1) - 1 = j
    BY <1>4, <2>1
  <2>3. offset + start[j] < to
    <3>1. PICK i \in 1 .. n : i = j + 1 /\ i - 1 = j
      BY <2>2
    <3>2. start[i - 1] < start[i] /\ start[i - 1] \in Nat /\ start[i] \in Nat
      BY <1>1, <1>4, ListIs
    <3>3. offset + start[i] <= to
      BY <1>7
    <3> QED BY <3>1, <3>2, <3>3
  <2>4. end[offset + start[j - 1]] = end[offset + start[j]]
    BY <1>7, <2>2, <2>3
  <2>5. end[offset + start[j]] = to
    BY <1>10, <2>1
  <2>6. k \in 0 .. n - 1
    BY <1>4
  <2> QED BY <2>1, <2>4, <2>5, <2>6
<1>11. 0 \in T
  <2> HIDE DEF T
  <2>1. PICK m \in Nat : m = n - 1
    BY <1>9
  <2>2. \A k \in 0 .. m - 1 : k + 1 \in T => k \in T
    BY <1>10, <2>1
  <2>3. m \in T
    BY <1>9, <2>1
  <2>4. \A k \in 0 .. m : k \in T
    BY <2>2, <2>3, Downwards
  <2> QED BY <2>4
<1>12. end[offset + 3] = to
  BY <1>8, <1>11
<1> QED BY <1>6, <1>12

(* A beginning of a container, cell by cell.                               *)
LEMMA PrefixCells ==
  ASSUME NEW b \in Seq(Nat), NEW n \in 0 .. Len(b)
  PROVE  /\ SubSeq(b, 1, n) \in Seq(Nat) /\ Len(SubSeq(b, 1, n)) = n
         /\ \A i \in 1 .. n : SubSeq(b, 1, n)[i] = b[i]
  OBVIOUS

(* An end the scan finds in a beginning of a container is the one it finds *)
(* in the whole of it.                                                     *)
LEMMA ScanOfPrefix ==
  ASSUME NEW b \in Seq(Nat), NEW n \in 0 .. Len(b), NEW offset \in Nat,
         ScanPayloadEnd(SubSeq(b, 1, n), offset) # NoEnd
  PROVE  ScanPayloadEnd(b, offset) = ScanPayloadEnd(SubSeq(b, 1, n), offset)
<1> DEFINE c == SubSeq(b, 1, n)
           len == Len(b)
           t == b[offset + 3]
<1>1. c \in Seq(Nat) /\ Len(c) = n /\ \A i \in 1 .. n : c[i] = b[i]
  BY PrefixCells
<1> HIDE DEF c
<1>2. offset + 3 <= n
  BY <1>1, ScanForward DEF c
<1>3. len \in Nat /\ n <= len /\ n \in Nat /\ t \in Nat /\ offset + 3 <= len /\ c[offset + 3] = t
  BY <1>1, <1>2
<1>4. PICK endc : Scans(endc, c, t) /\ ScanPayloadEnd(c, offset) = endc[offset + 3]
  BY <1>1, <1>2, <1>3, ScanIs
<1>5. PICK endb : Scans(endb, b, t) /\ ScanPayloadEnd(b, offset) = endb[offset + 3]
  BY <1>3, ScanIs
<1> DEFINE T == {o \in 0 .. n : endc[o] = NoEnd \/ endc[o] = endb[o]}
<1>6. ASSUME NEW o \in 0 .. n, \A j \in o + 1 .. n : j \in T PROVE o \in T
  <2> DEFINE next == o + 2 + b[o + 1] + t
             final == IsFinal(b[o + 2])
  <2>1. o + 2 <= n => /\ next \in Int /\ next >= o + 2
                      /\ next = o + 2 + c[o + 1] + t
                      /\ final <=> IsFinal(c[o + 2])
    <3>1. o + 2 <= n => b[o + 1] \in Nat /\ c[o + 1] = b[o + 1] /\ c[o + 2] = b[o + 2]
      BY <1>1, <1>3, SMTT(30)
    <3> HIDE DEF t
    <3> QED BY <1>3, <3>1, SMTT(30)
  <2>2. /\ o + 2 > n => endc[o] = NoEnd
        /\ o + 2 <= n /\ IsFinal(c[o + 2]) => endc[o] = o + 2 + c[o + 1] + t
        /\ o + 2 <= n /\ ~IsFinal(c[o + 2]) /\ o + 2 + c[o + 1] + t >= n => endc[o] = NoEnd
        /\ o + 2 <= n /\ ~IsFinal(c[o + 2]) /\ o + 2 + c[o + 1] + t < n =>
             endc[o] = endc[o + 2 + c[o + 1] + t]
    BY <1>1, <1>4 DEF Scans
  <2>3. /\ o + 2 <= len /\ final => endb[o] = next
        /\ o + 2 <= len /\ ~final /\ next < len => endb[o] = endb[next]
    BY <1>3, <1>5 DEF Scans
  <2>4. /\ o + 2 > n => endc[o] = NoEnd
        /\ o + 2 <= n /\ final => endc[o] = next
        /\ o + 2 <= n /\ ~final /\ next >= n => endc[o] = NoEnd
        /\ o + 2 <= n /\ ~final /\ next < n => endc[o] = endc[next]
    <3> HIDE DEF next, final
    <3> QED BY <1>3, <2>1, <2>2
  <2> HIDE DEF next, final
  <2>5. CASE o + 2 <= n /\ ~final /\ next < n
    <3>1. next \in o + 1 .. n /\ next < len /\ o + 2 <= len
      BY <1>3, <2>1, <2>5, SMTT(30)
    <3>2. next \in T
      BY <1>6, <3>1
    <3> QED BY <2>3, <2>4, <2>5, <3>1, <3>2
  <2>6. CASE o + 2 <= n /\ final
    BY <1>3, <2>3, <2>4, <2>6
  <2>7. CASE o + 2 > n \/ (o + 2 <= n /\ ~final /\ next >= n)
    BY <2>4, <2>7
  <2> QED BY <1>3, <2>1, <2>5, <2>6, <2>7
<1>7. offset + 3 \in T
  <2> HIDE DEF T
  <2>1. \A o \in 0 .. n : o \in T
    BY <1>3, <1>6, FromTheEnd
  <2> QED BY <1>2, <1>3, <2>1
<1> QED BY <1>4, <1>5, <1>7 DEF c

-----------------------------------------------------------------------------
(* Header, policy and footer.                                              *)
LEMMA HeaderIs ==
  ASSUME NEW b \in Seq(Nat), Len(b) >= FixedHeaderCells
  PROVE  /\ HeaderOf(b).headerLen = b[5] /\ HeaderOf(b).policyLen = b[6]
         /\ HeaderOf(b).wrapsLen = b[7] /\ HeaderOf(b).metadataLen = b[8]
         /\ HeaderOf(b).payloadOffset = b[9]
         /\ HeaderOf(b).major = b[2] /\ HeaderOf(b).minor = b[3] /\ HeaderOf(b).suite = b[4]
         /\ \A i \in 1 .. 9 : b[i] \in Nat
  BY SMTT(30) DEF HeaderOf, FixedHeaderCells

(* A header that was read is encoded as it was.                            *)
LEMMA HeaderIsEncoded ==
  ASSUME NEW b \in Seq(Nat), Len(b) >= FixedHeaderCells, b[1] = Magic
  PROVE  EncodeHeader(HeaderOf(b)) = Slice(b, 0, 9)
<1> DEFINE u == Slice(b, 0, 9)
           v == EncodeHeader(HeaderOf(b))
<1>1. u \in Seq(Nat) /\ Len(u) = 9 /\ \A i \in 1 .. 9 : u[i] = b[i]
  BY SMTT(30) DEF Slice, FixedHeaderCells
<1>2. v = <<b[1], b[2], b[3], b[4], b[5], b[6], b[7], b[8], b[9]>>
  BY DEF EncodeHeader, HeaderOf
<1>3. v \in Seq(Nat) /\ Len(v) = 9 /\ v[1] = b[1] /\ v[2] = b[2] /\ v[3] = b[3]
      /\ v[4] = b[4] /\ v[5] = b[5] /\ v[6] = b[6]
      /\ v[7] = b[7] /\ v[8] = b[8] /\ v[9] = b[9]
  BY <1>2, HeaderIs, SMTT(30)
<1> HIDE DEF u, v
<1>4. \A i \in 1 .. Len(u) : i = 1 \/ i = 2 \/ i = 3 \/ i = 4 \/ i = 5 \/ i = 6
                          \/ i = 7 \/ i = 8 \/ i = 9
  BY <1>1
<1>5. \A i \in 1 .. Len(u) : u[i] = v[i]
  BY <1>1, <1>3, <1>4
<1>6. u = v
  BY <1>1, <1>3, <1>5, SameCells
<1> QED BY <1>6 DEF u, v

(* A policy section that was accepted is encoded as it was.                *)
LEMMA PolicyIsEncoded ==
  ASSUME NEW slice \in Seq(Nat), PolicyParses(slice)
  PROVE  EncodePolicy(PolicyOf(slice)) = slice
<1> DEFINE v == EncodePolicy(PolicyOf(slice))
<1>1. Len(slice) = 4 /\ slice[1] = Version /\ \A i \in 1 .. 4 : slice[i] \in Nat
  <2>1. Len(slice) = 4 /\ slice[1] = Version
    BY DEF PolicyParses, PolicyCells
  <2>2. \A i \in 1 .. Len(slice) : slice[i] \in Nat
    OBVIOUS
  <2> QED BY <2>1, <2>2
<1>2. v = <<slice[1], slice[2], slice[3], slice[4]>>
  BY <1>1 DEF EncodePolicy, PolicyOf
<1>3. v \in Seq(Nat) /\ Len(v) = 4 /\ v[1] = slice[1] /\ v[2] = slice[2]
      /\ v[3] = slice[3] /\ v[4] = slice[4]
  BY <1>1, <1>2
<1> HIDE DEF v
<1>4. \A i \in 1 .. Len(slice) : i = 1 \/ i = 2 \/ i = 3 \/ i = 4
  BY <1>1
<1>5. \A i \in 1 .. Len(slice) : slice[i] = v[i]
  BY <1>1, <1>3, <1>4
<1>6. slice = v
  BY <1>1, <1>3, <1>5, SameCells
<1> QED BY <1>6 DEF v

(* A footer that was accepted: its lengths, and it is encoded as it was.   *)
LEMMA FooterIs ==
  ASSUME NEW slice \in Seq(Nat), FooterParses(slice)
  PROVE  /\ Len(slice) = 3 + slice[2] + slice[3]
         /\ slice[2] \in Nat /\ slice[3] \in Nat
         /\ FooterOf(slice).root \in Seq(Nat) /\ Len(FooterOf(slice).root) = slice[2]
         /\ FooterOf(slice).tag \in Seq(Nat) /\ Len(FooterOf(slice).tag) = slice[3]
         /\ EncodeFooter(FooterOf(slice)) = slice
<1> DEFINE a == slice[2]
           t == slice[3]
           m == 3 + a
           len == Len(slice)
           y == 3
<1>1. len = 3 + a + t /\ slice[1] = Version /\ len >= 3
  BY DEF FooterParses, FooterEnds, FooterHeaderCells
<1>2. a \in Nat /\ t \in Nat /\ len \in Nat
  BY <1>1, SMTT(30)
<1>3. m \in Nat /\ y \in Nat /\ y = 3 /\ y <= m /\ m <= len /\ y <= len
      /\ m - y = a /\ len - m = t
  <2> HIDE DEF a, t, len
  <2> QED BY <1>1, <1>2
<1>4. FooterOf(slice).root = Slice(slice, y, m) /\ FooterOf(slice).tag = Slice(slice, m, len)
  BY DEF FooterOf, FooterHeaderCells
<1>5. <<Version, a, t>> = Slice(slice, 0, 3)
  BY <1>1, ThreeCells
<1> HIDE DEF y, m
<1>6. Slice(slice, y, m) \in Seq(Nat) /\ Len(Slice(slice, y, m)) = m - y
  BY <1>3, SliceCells
<1>7. Slice(slice, m, len) \in Seq(Nat) /\ Len(Slice(slice, m, len)) = len - m
  <2>1. len <= Len(slice)
    BY <1>2
  <2> QED BY <1>2, <1>3, <2>1, SliceCells
<1>8. Slice(slice, 0, y) \o Slice(slice, y, m) \o Slice(slice, m, len) = slice
  <2>1. PICK x \in Nat : x = 0
    OBVIOUS
  <2>2. x <= y /\ x <= m /\ len <= Len(slice)
    BY <1>2, <1>3, <2>1
  <2>3. Slice(slice, x, y) \o Slice(slice, y, m) = Slice(slice, x, m)
    BY <1>3, <2>2, JoinSlices
  <2>4. Slice(slice, x, m) \o Slice(slice, m, len) = Slice(slice, x, len)
    BY <1>2, <1>3, <2>2, JoinSlices, ZenonT(30)
  <2> QED BY <2>1, <2>3, <2>4, WholeSlice
<1>9. Slice(slice, 0, 3) = Slice(slice, 0, y)
  BY <1>3
<1>10. EncodeFooter(FooterOf(slice)) =
         <<Version, Len(FooterOf(slice).root), Len(FooterOf(slice).tag)>>
           \o FooterOf(slice).root \o FooterOf(slice).tag
  BY DEF EncodeFooter
<1>11. Len(FooterOf(slice).root) = a /\ Len(FooterOf(slice).tag) = t
  BY <1>3, <1>4, <1>6, <1>7
<1> QED BY <1>1, <1>2, <1>4, <1>5, <1>6, <1>7, <1>8, <1>9, <1>10, <1>11

(* Cells that are not there.                                               *)
LEMMA EmptySlice ==
  ASSUME NEW b \in Seq(Nat), NEW from \in Nat, NEW to \in Int, to <= from
  PROVE  Slice(b, from, to) = <<>> /\ Len(Slice(b, from, to)) = 0
  BY DEF Slice

-----------------------------------------------------------------------------
(* What was put together is found again, each part at its place.           *)
Placed(pos, head, seqs) ==
  LET whole == head \o FlattenSeq(seqs)
  IN  /\ pos \in [0 .. Len(seqs) -> Nat]
      /\ pos[0] = Len(head)
      /\ pos[Len(seqs)] = Len(whole)
      /\ whole \in Seq(Nat)
      /\ \A i \in 1 .. Len(head) : whole[i] = head[i]
      /\ \A k \in 1 .. Len(seqs) :
           /\ pos[k] = pos[k - 1] + Len(seqs[k])
           /\ pos[k] <= Len(whole)
           /\ \A i \in 1 .. Len(seqs[k]) : whole[pos[k - 1] + i] = seqs[k][i]

(* It does not matter what is put together first.                          *)
LEMMA JoinedTwice ==
  ASSUME NEW s \in Seq(Nat), NEW t \in Seq(Nat), NEW u \in Seq(Nat)
  PROVE  s \o (t \o u) = (s \o t) \o u
  BY SMTT(30)

(* Every part of what was put together has its place.                      *)
LEMMA PartsPlaced ==
  ASSUME NEW head \in Seq(Nat), NEW seqs \in Seq(Seq(Nat))
  PROVE  \E pos : Placed(pos, head, seqs)
<1> DEFINE n == Len(seqs)
<1>1. n \in Nat
  OBVIOUS
<1>2. \A k \in 1 .. n : seqs[k] \in Seq(Nat)
  OBVIOUS
<1>3. PICK f : Accumulates(f, seqs)
  BY Accumulated
<1>4. /\ f[0] = <<>>
      /\ \A k \in 0 .. n : f[k] \in Seq(Nat)
      /\ \A k \in 1 .. n : f[k] = f[k - 1] \o seqs[k]
  BY <1>3 DEF Accumulates
<1>5. FlattenSeq(seqs) = f[n]
  BY <1>3, FlattenIs
<1> HIDE DEF n
<1> DEFINE g == [k \in 0 .. n |-> head \o f[k]]
<1>6. /\ \A k \in 0 .. n : g[k] = head \o f[k] /\ g[k] \in Seq(Nat)
      /\ g[0] = head
  <2>1. \A k \in 0 .. n : head \o f[k] \in Seq(Nat)
    BY <1>4, Joined
  <2>2. head \o <<>> = head /\ 0 \in 0 .. n
    BY <1>1
  <2>3. g[0] = head
    BY <1>4, <2>2
  <2> QED BY <2>1, <2>3
<1>7. ASSUME NEW k \in 1 .. n
      PROVE  /\ g[k - 1] \in Seq(Nat) /\ g[k] \in Seq(Nat)
             /\ g[k] = g[k - 1] \o seqs[k]
  <2>1. k \in 0 .. n /\ k - 1 \in 0 .. n
    BY <1>1
  <2>2. f[k - 1] \in Seq(Nat) /\ seqs[k] \in Seq(Nat) /\ f[k] = f[k - 1] \o seqs[k]
    BY <1>2, <1>4, <2>1
  <2>3. g[k - 1] = head \o f[k - 1] /\ g[k] = head \o f[k]
    BY <1>6, <2>1
  <2>4. head \o (f[k - 1] \o seqs[k]) = (head \o f[k - 1]) \o seqs[k]
    BY <2>2, JoinedTwice
  <2> QED BY <1>6, <2>1, <2>2, <2>3, <2>4
<1> DEFINE whole == head \o FlattenSeq(seqs)
<1>8. whole = g[n] /\ whole \in Seq(Nat)
  <2>1. n \in 0 .. n
    BY <1>1
  <2> QED BY <1>5, <1>6, <2>1
<1> HIDE DEF g, whole
<1>9. ASSUME NEW k \in 1 .. n
      PROVE  /\ Len(g[k]) = Len(g[k - 1]) + Len(seqs[k])
             /\ \A i \in 1 .. Len(g[k - 1]) : g[k][i] = g[k - 1][i]
             /\ \A i \in 1 .. Len(seqs[k]) : g[k][Len(g[k - 1]) + i] = seqs[k][i]
  <2> DEFINE u == g[k - 1]
             v == seqs[k]
             w == g[k]
  <2>1. u \in Seq(Nat) /\ v \in Seq(Nat) /\ w = u \o v
    BY <1>2, <1>7
  <2> HIDE DEF u, v, w
  <2>2. /\ Len(w) = Len(u) + Len(v)
        /\ \A i \in 1 .. Len(u) : w[i] = u[i]
        /\ \A i \in 1 .. Len(v) : w[Len(u) + i] = v[i]
    BY <2>1, Joined
  <2> QED BY <2>2 DEF u, v, w
<1> DEFINE T == {k \in 0 .. n : /\ Len(g[k]) <= Len(whole)
                                /\ \A i \in 1 .. Len(g[k]) : whole[i] = g[k][i]}
<1>10. n \in T
  <2>1. n \in 0 .. n
    BY <1>1
  <2> QED BY <1>8, <2>1
<1>11. ASSUME NEW k \in 0 .. n - 1, k + 1 \in T PROVE k \in T
  <2>1. PICK j \in 1 .. n : j = k + 1 /\ j - 1 = k
    BY <1>1
  <2>2. /\ Len(g[j]) = Len(g[j - 1]) + Len(seqs[j])
        /\ \A i \in 1 .. Len(g[j - 1]) : g[j][i] = g[j - 1][i]
    BY <1>9
  <2> DEFINE l == Len(seqs[j])
             a == Len(g[j - 1])
             c == Len(g[j])
             d == Len(whole)
  <2>3. l \in Nat /\ a \in Nat /\ c \in Nat /\ d \in Nat
    <3>1. seqs[j] \in Seq(Nat) /\ g[j - 1] \in Seq(Nat) /\ g[j] \in Seq(Nat)
      BY <1>2, <1>7
    <3> QED BY <1>8, <3>1
  <2>4. c <= d /\ \A i \in 1 .. c : whole[i] = g[j][i]
    BY <1>11, <2>1
  <2> HIDE DEF l, a, c, d
  <2>5. c = a + l /\ \A i \in 1 .. a : g[j][i] = g[j - 1][i]
    BY <2>2 DEF a, c, l
  <2>6. a <= d /\ \A i \in 1 .. a : i \in 1 .. c
    BY <2>3, <2>4, <2>5
  <2>7. Len(g[j - 1]) <= Len(whole) /\ \A i \in 1 .. Len(g[j - 1]) : whole[i] = g[j - 1][i]
    BY <2>4, <2>5, <2>6 DEF a, d
  <2>8. k \in 0 .. n
    BY <1>1
  <2> QED BY <2>1, <2>7, <2>8
<1> HIDE DEF T
<1>12. \A k \in 0 .. n : k \in T
  BY <1>1, <1>10, <1>11, Downwards
<1>13. \A k \in 0 .. n : /\ Len(g[k]) <= Len(whole)
                         /\ \A i \in 1 .. Len(g[k]) : whole[i] = g[k][i]
  BY <1>12 DEF T
<1> DEFINE pos == [k \in 0 .. n |-> Len(g[k])]
<1>14. /\ pos \in [0 .. n -> Nat] /\ pos[0] = Len(head) /\ pos[n] = Len(whole)
       /\ \A k \in 0 .. n : pos[k] = Len(g[k])
  <2>1. 0 \in 0 .. n /\ n \in 0 .. n
    BY <1>1
  <2>2. \A k \in 0 .. n : Len(g[k]) \in Nat
    BY <1>6
  <2> QED BY <1>6, <1>8, <2>1, <2>2
<1> HIDE DEF pos
<1>15. ASSUME NEW k \in 1 .. n
       PROVE  /\ pos[k] = pos[k - 1] + Len(seqs[k])
              /\ pos[k] <= Len(whole)
              /\ \A i \in 1 .. Len(seqs[k]) : whole[pos[k - 1] + i] = seqs[k][i]
  <2>1. k \in 0 .. n /\ k - 1 \in 0 .. n
    BY <1>1
  <2>2. pos[k] = Len(g[k]) /\ pos[k - 1] = Len(g[k - 1])
    BY <1>14, <2>1
  <2>3. PICK a \in Nat, m \in Nat : a = Len(g[k - 1]) /\ m = Len(seqs[k])
    <3>1. seqs[k] \in Seq(Nat) /\ g[k - 1] \in Seq(Nat)
      BY <1>2, <1>7
    <3> QED BY <3>1
  <2>4. Len(g[k]) = a + m /\ \A i \in 1 .. m : g[k][a + i] = seqs[k][i]
    BY <1>9, <2>3
  <2>5. \A i \in 1 .. m : a + i \in 1 .. a + m
    OBVIOUS
  <2>6. Len(g[k]) <= Len(whole) /\ \A i \in 1 .. Len(g[k]) : whole[i] = g[k][i]
    BY <1>13, <2>1
  <2>7. \A i \in 1 .. m : whole[a + i] = seqs[k][i]
    BY <2>4, <2>5, <2>6
  <2> QED BY <2>2, <2>3, <2>4, <2>6, <2>7
<1>16. \A i \in 1 .. Len(head) : whole[i] = head[i]
  <2>1. 0 \in 0 .. n
    BY <1>1
  <2> QED BY <1>6, <1>13, <2>1
<1>17. Placed(pos, head, seqs)
  BY <1>8, <1>14, <1>15, <1>16 DEF Placed, whole, n
<1> QED BY <1>17

(* The parts of an entry that lies at a place.                             *)
IsEntry(s, a, c, x, y) == s = <<a, c>> \o x \o y

LiesAt(whole, p, z, s) ==
  z = p + Len(s) /\ z <= Len(whole) /\ \A i \in 1 .. Len(s) : whole[p + i] = s[i]

PartsAt(whole, p, z, a, c, x, y) ==
  \E h \in Nat : \E k \in Nat :
    /\ h = p + 2 /\ k = h + Len(x) /\ z = k + Len(y)
    /\ whole[p + 1] = a /\ whole[h] = c
    /\ Slice(whole, h, k) = x
    /\ Slice(whole, k, z) = y

(* Two numbers and two sequences are found at the place of their entry.    *)
LEMMA EntryParts ==
  ASSUME NEW whole \in Seq(Nat), NEW p \in Nat, NEW z \in Nat, NEW a \in Nat, NEW c \in Nat,
         NEW x \in Seq(Nat), NEW y \in Seq(Nat), NEW s, IsEntry(s, a, c, x, y),
         LiesAt(whole, p, z, s)
  PROVE  PartsAt(whole, p, z, a, c, x, y)
<1> DEFINE head == <<a, c>>
           hx == head \o x
<1>1. head \in Seq(Nat) /\ Len(head) = 2 /\ head[1] = a /\ head[2] = c
  OBVIOUS
<1>2. PICK m \in Nat, l \in Nat : m = Len(x) /\ l = Len(y)
  OBVIOUS
<1> HIDE DEF head
<1>3. /\ hx \in Seq(Nat) /\ Len(hx) = 2 + m
      /\ \A i \in 1 .. 2 : hx[i] = head[i]
      /\ \A i \in 1 .. m : hx[2 + i] = x[i]
  <2>1. /\ hx \in Seq(Nat) /\ Len(hx) = Len(head) + Len(x)
        /\ \A i \in 1 .. Len(head) : hx[i] = head[i]
        /\ \A i \in 1 .. Len(x) : hx[Len(head) + i] = x[i]
    BY <1>1, Joined
  <2> HIDE DEF hx
  <2> QED BY <1>1, <1>2, <2>1
<1> HIDE DEF hx
<1>4. s = hx \o y
  BY DEF hx, head, IsEntry
<1>5. /\ s \in Seq(Nat) /\ Len(s) = 2 + m + l
      /\ \A i \in 1 .. 2 + m : s[i] = hx[i]
      /\ \A i \in 1 .. l : s[2 + m + i] = y[i]
  <2>1. /\ s \in Seq(Nat) /\ Len(s) = Len(hx) + Len(y)
        /\ \A i \in 1 .. Len(hx) : s[i] = hx[i]
        /\ \A i \in 1 .. Len(y) : s[Len(hx) + i] = y[i]
    <3> DEFINE v == hx \o y
    <3>1. /\ v \in Seq(Nat) /\ Len(v) = Len(hx) + Len(y)
          /\ \A i \in 1 .. Len(hx) : v[i] = hx[i]
          /\ \A i \in 1 .. Len(y) : v[Len(hx) + i] = y[i]
      BY <1>3, Joined
    <3>2. s = v
      BY <1>4
    <3> HIDE DEF v
    <3> QED BY <3>1, <3>2
  <2> QED BY <1>2, <1>3, <2>1
<1>6. whole[p + 1] = a /\ whole[p + 2] = c
  <2>1. 1 \in 1 .. 2 /\ 2 \in 1 .. 2 /\ 1 \in 1 .. 2 + m /\ 2 \in 1 .. 2 + m
        /\ 1 \in 1 .. Len(s) /\ 2 \in 1 .. Len(s)
    BY <1>2, <1>5
  <2> QED BY <1>1, <1>3, <1>5, <2>1 DEF LiesAt
<1>7. PICK h \in Nat, k \in Nat : h = p + 2 /\ k = p + 2 + m
  OBVIOUS
<1>8. h <= k /\ k <= z /\ k - h = m /\ z - k = l /\ k <= Len(whole) /\ z <= Len(whole)
      /\ z = k + l
  <2>1. PICK n \in Nat : n = Len(whole)
    OBVIOUS
  <2>2. z = p + (2 + m + l) /\ z <= n
    BY <1>5, <2>1 DEF LiesAt
  <2>3. h <= k /\ k - h = m /\ k = p + 2 + m
    BY <1>2, <1>7
  <2>4. z = k + l /\ k <= z /\ z - k = l /\ k <= n
    BY <1>2, <2>1, <2>2, <2>3, SMTT(30)
  <2> QED BY <2>1, <2>2, <2>3, <2>4
<1>9. Slice(whole, h, k) = x
  <2> DEFINE u == Slice(whole, h, k)
  <2>0. h <= k /\ k <= Len(whole)
    BY <1>8
  <2>1. u \in Seq(Nat) /\ Len(u) = k - h /\ \A i \in 1 .. k - h : u[i] = whole[h + i]
    BY <2>0, SliceCells, ZenonT(30)
  <2> HIDE DEF u
  <2>2. ASSUME NEW i \in 1 .. m PROVE u[i] = x[i]
    <3>1. PICK j \in Nat : j = 2 + i
      OBVIOUS
    <3>2. j \in 1 .. 2 + m /\ j \in 1 .. Len(s) /\ p + j = h + i
      BY <1>2, <1>5, <1>7, <3>1
    <3>3. s[j] = hx[j] /\ hx[j] = x[i] /\ whole[p + j] = s[j]
      BY <1>3, <1>5, <3>1, <3>2 DEF LiesAt
    <3>4. u[i] = whole[h + i]
      BY <1>8, <2>1
    <3> QED BY <3>2, <3>3, <3>4
  <2>3. u = x
    BY <1>2, <1>8, <2>1, <2>2, SameCells
  <2> QED BY <2>3 DEF u
<1>10. Slice(whole, k, z) = y
  <2> DEFINE u == Slice(whole, k, z)
  <2>0. k <= z /\ z <= Len(whole)
    BY <1>8
  <2>1. u \in Seq(Nat) /\ Len(u) = z - k /\ \A i \in 1 .. z - k : u[i] = whole[k + i]
    BY <2>0, SliceCells, ZenonT(30)
  <2> HIDE DEF u
  <2>2. ASSUME NEW i \in 1 .. l PROVE u[i] = y[i]
    <3>1. PICK j \in Nat : j = 2 + m + i
      OBVIOUS
    <3>2. j \in 1 .. Len(s) /\ p + j = k + i
      BY <1>2, <1>5, <1>7, <3>1
    <3>3. s[j] = y[i] /\ whole[p + j] = s[j]
      BY <1>5, <3>1, <3>2 DEF LiesAt
    <3>4. u[i] = whole[k + i]
      BY <1>8, <2>1
    <3> QED BY <3>2, <3>3, <3>4
  <2>3. u = y
    BY <1>2, <1>8, <2>1, <2>2, SameCells
  <2> QED BY <2>3 DEF u
<1>11. /\ h = p + 2 /\ k = h + Len(x) /\ z = k + Len(y)
       /\ whole[p + 1] = a /\ whole[h] = c
       /\ Slice(whole, h, k) = x /\ Slice(whole, k, z) = y
  BY <1>2, <1>6, <1>7, <1>8, <1>9, <1>10
<1> QED BY <1>11 DEF PartsAt

-----------------------------------------------------------------------------
(* A wraps section that was written.                                       *)
WrapParts(wraps) ==
  [i \in DOMAIN wraps |->
     <<Len(wraps[i].id), Len(wraps[i].stanza)>> \o wraps[i].id \o wraps[i].stanza]

WrapsAt(pos, slice, wraps) ==
  /\ pos \in [0 .. Len(wraps) -> Nat]
  /\ pos[0] = WrapsHeaderCells /\ pos[Len(wraps)] = Len(slice)
  /\ \A k \in 1 .. Len(wraps) :
       /\ pos[k - 1] < pos[k] /\ pos[k] <= Len(slice)
       /\ pos[k] = pos[k - 1] + 2 + Len(wraps[k].id) + Len(wraps[k].stanza)
       /\ slice[pos[k - 1] + 1] = Len(wraps[k].id)
       /\ slice[pos[k - 1] + 2] = Len(wraps[k].stanza)
       /\ Slice(slice, pos[k - 1] + 2, pos[k - 1] + 2 + Len(wraps[k].id)) = wraps[k].id
       /\ Slice(slice, pos[k - 1] + 2 + Len(wraps[k].id), pos[k]) = wraps[k].stanza

(* Every entry of an encoded wraps section has its place.                  *)
LEMMA WrapsPlaced ==
  ASSUME NEW wraps \in Seq([id : Seq(Nat), stanza : Seq(Nat)])
  PROVE  /\ EncodeWraps(wraps) \in Seq(Nat)
         /\ EncodeWraps(wraps)[1] = Version /\ EncodeWraps(wraps)[2] = Count(wraps)
         /\ Len(EncodeWraps(wraps)) >= WrapsHeaderCells
         /\ \E pos : WrapsAt(pos, EncodeWraps(wraps), wraps)
<1> DEFINE n == Len(wraps)
           head == <<Version, Count(wraps)>>
           seqs == WrapParts(wraps)
           slice == EncodeWraps(wraps)
<1>1. n \in Nat /\ DOMAIN wraps = 1 .. n
      /\ \A k \in 1 .. n : wraps[k].id \in Seq(Nat) /\ wraps[k].stanza \in Seq(Nat)
  <2> DEFINE Wrap == [id : Seq(Nat), stanza : Seq(Nat)]
  <2>1. \A w \in Wrap : w.id \in Seq(Nat) /\ w.stanza \in Seq(Nat)
    OBVIOUS
  <2>2. wraps \in Seq(Wrap)
    OBVIOUS
  <2> HIDE DEF Wrap
  <2>3. n \in Nat /\ DOMAIN wraps = 1 .. n /\ \A k \in 1 .. n : wraps[k] \in Wrap
    BY <2>2
  <2> HIDE DEF n
  <2> QED BY <2>1, <2>3
<1>2. Count(wraps) \in Nat /\ Version \in Nat
  <2>1. CountLimit \in Nat \ {0}
    BY WidthsAssumption
  <2> HIDE DEF n
  <2> QED BY <2>1, <1>1 DEF Count, Version, n
<1>3. head \in Seq(Nat) /\ Len(head) = 2 /\ head[1] = Version /\ head[2] = Count(wraps)
  BY <1>2
<1>4. ASSUME NEW k \in 1 .. n
      PROVE  /\ seqs[k] = <<Len(wraps[k].id), Len(wraps[k].stanza)>>
                            \o wraps[k].id \o wraps[k].stanza
             /\ seqs[k] \in Seq(Nat)
  <2> DEFINE x == wraps[k].id
             y == wraps[k].stanza
             a == Len(x)
             c == Len(y)
  <2>1. seqs[k] = <<a, c>> \o x \o y
    BY <1>1 DEF WrapParts
  <2>2. x \in Seq(Nat) /\ y \in Seq(Nat) /\ a \in Nat /\ c \in Nat
    <3>1. x \in Seq(Nat) /\ y \in Seq(Nat)
      BY <1>1
    <3> QED BY <3>1
  <2>3. <<a, c>> \o x \o y \in Seq(Nat)
    <3> HIDE DEF x, y, a, c
    <3>1. <<a, c>> \in Seq(Nat)
      BY <2>2
    <3>2. <<a, c>> \o x \in Seq(Nat)
      BY <2>2, <3>1, Joined
    <3> QED BY <2>2, <3>2, Joined
  <2> QED BY <2>1, <2>3
<1>5. seqs \in Seq(Seq(Nat)) /\ Len(seqs) = n
  <2>1. DOMAIN seqs = 1 .. n /\ seqs = [k \in 1 .. n |-> seqs[k]]
    BY <1>1 DEF WrapParts
  <2> HIDE DEF seqs, n
  <2>2. seqs \in [1 .. n -> Seq(Nat)]
    BY <1>4, <2>1
  <2> QED BY <1>1, <2>2
<1>6. slice = head \o FlattenSeq(seqs)
  BY DEF EncodeWraps, WrapParts
<1> HIDE DEF n, head, seqs, slice
<1>7. PICK pos : Placed(pos, head, seqs)
  BY <1>3, <1>5, PartsPlaced
<1>8. /\ pos \in [0 .. n -> Nat] /\ pos[0] = 2 /\ pos[n] = Len(slice) /\ slice \in Seq(Nat)
      /\ \A i \in 1 .. 2 : slice[i] = head[i]
      /\ \A k \in 1 .. n : /\ pos[k] = pos[k - 1] + Len(seqs[k])
                           /\ pos[k] <= Len(slice)
                           /\ \A i \in 1 .. Len(seqs[k]) : slice[pos[k - 1] + i] = seqs[k][i]
  BY <1>3, <1>5, <1>6, <1>7 DEF Placed
<1>9. ASSUME NEW k \in 1 .. n
      PROVE  /\ pos[k] <= Len(slice)
             /\ pos[k] = pos[k - 1] + 2 + Len(wraps[k].id) + Len(wraps[k].stanza)
             /\ slice[pos[k - 1] + 1] = Len(wraps[k].id)
             /\ slice[pos[k - 1] + 2] = Len(wraps[k].stanza)
             /\ Slice(slice, pos[k - 1] + 2, pos[k - 1] + 2 + Len(wraps[k].id)) = wraps[k].id
             /\ Slice(slice, pos[k - 1] + 2 + Len(wraps[k].id), pos[k]) = wraps[k].stanza
             /\ pos[k - 1] < pos[k]
  <2> DEFINE x == wraps[k].id
             y == wraps[k].stanza
             a == Len(x)
             c == Len(y)
             s == seqs[k]
  <2>1. x \in Seq(Nat) /\ y \in Seq(Nat) /\ a = Len(x) /\ c = Len(y) /\ s = <<a, c>> \o x \o y
    BY <1>1, <1>4
  <2>2. a \in Nat /\ c \in Nat
    BY <2>1, SMTT(30)
  <2>3. PICK p \in Nat, z \in Nat : p = pos[k - 1] /\ z = pos[k]
    <3>1. k \in 0 .. n /\ k - 1 \in 0 .. n
      BY <1>1
    <3> QED BY <1>8, <3>1
  <2> HIDE DEF x, y, a, c, s
  <2>4. LiesAt(slice, p, z, s)
    BY <1>8, <2>3 DEF s, LiesAt
  <2>5. IsEntry(s, a, c, x, y)
    BY <2>1 DEF IsEntry
  <2>6. PICK h \in Nat, k0 \in Nat :
          /\ h = p + 2 /\ k0 = h + Len(x) /\ z = k0 + Len(y)
          /\ slice[p + 1] = a /\ slice[h] = c
          /\ Slice(slice, h, k0) = x /\ Slice(slice, k0, z) = y
    <3>1. slice \in Seq(Nat)
      BY <1>8
    <3>2. PartsAt(slice, p, z, a, c, x, y)
      BY <2>1, <2>2, <2>4, <2>5, <3>1, EntryParts
    <3> QED BY <3>2 DEF PartsAt
  <2>7. z = p + 2 + a + c /\ p < z /\ k0 = p + 2 + a
    BY <2>1, <2>2, <2>6
  <2>8. /\ z <= Len(slice) /\ z = p + 2 + a + c
        /\ slice[p + 1] = a /\ slice[p + 2] = c
        /\ Slice(slice, p + 2, p + 2 + a) = x
        /\ Slice(slice, p + 2 + a, z) = y
        /\ p < z
    BY <2>4, <2>6, <2>7 DEF LiesAt
  <2> QED BY <2>3, <2>8 DEF x, y, a, c
<1>10. slice[1] = Version /\ slice[2] = Count(wraps)
  BY <1>3, <1>8
<1>11. Len(slice) >= 2
  <2> DEFINE T == {k \in 0 .. n : pos[k] >= 2}
  <2>1. 0 \in T
    BY <1>1, <1>8
  <2>2. ASSUME NEW k \in 1 .. n, k - 1 \in T PROVE k \in T
    <3>1. pos[k - 1] < pos[k] /\ k \in 0 .. n /\ pos[k - 1] \in Nat /\ pos[k] \in Nat
      <4>1. k \in 0 .. n /\ k - 1 \in 0 .. n
        BY <1>1
      <4> QED BY <1>8, <1>9, <4>1
    <3> QED BY <2>2, <3>1
  <2> HIDE DEF T
  <2>3. \A k \in 0 .. n : k \in T
    BY <1>1, <2>1, <2>2, Forwards
  <2>4. pos[n] >= 2
    BY <1>1, <2>3 DEF T
  <2> QED BY <1>8, <2>4
<1>12. WrapsAt(pos, slice, wraps)
  BY <1>8, <1>9 DEF WrapsAt, WrapsHeaderCells, n
<1> QED BY <1>8, <1>10, <1>11, <1>12 DEF slice, WrapsHeaderCells

(* It is as long as was computed beforehand.                               *)
LEMMA WrapsLenIs ==
  ASSUME NEW wraps \in Seq([id : Seq(Nat), stanza : Seq(Nat)]),
         NEW slice \in Seq(Nat), NEW pos, WrapsAt(pos, slice, wraps)
  PROVE  WrapsLen(wraps) = Len(slice)
<1> DEFINE n == Len(wraps)
           span(m) == EntryHeaderCells + Len(wraps[m].id) + Len(wraps[m].stanza)
           body(g, m) == IF m = 0 THEN 0
                         ELSE g[m - 1] + EntryHeaderCells + Len(wraps[m].id) + Len(wraps[m].stanza)
           Is(g) == g = [m \in 0 .. n |-> body(g, m)]
           h == [m \in 0 .. n |-> pos[m] - 2]
           g == CHOOSE g : Is(g)
<1>1. n \in Nat
  OBVIOUS
<1>2. /\ pos \in [0 .. n -> Nat] /\ pos[0] = 2 /\ pos[n] = Len(slice)
      /\ \A k \in 1 .. n : pos[k] = pos[k - 1] + 2 + Len(wraps[k].id) + Len(wraps[k].stanza)
  BY DEF WrapsAt, WrapsHeaderCells
<1>3. \A k \in 1 .. n : Len(wraps[k].id) \in Nat /\ Len(wraps[k].stanza) \in Nat
  <2> DEFINE Wrap == [id : Seq(Nat), stanza : Seq(Nat)]
  <2>1. \A w \in Wrap : Len(w.id) \in Nat /\ Len(w.stanza) \in Nat
    OBVIOUS
  <2>2. wraps \in Seq(Wrap)
    OBVIOUS
  <2> HIDE DEF Wrap
  <2>3. \A k \in 1 .. n : wraps[k] \in Wrap
    BY <2>2
  <2> QED BY <2>1, <2>3
<1> HIDE DEF n
<1>4. \A m \in 0 .. n : h[m] = body(h, m)
  <2> TAKE m \in 0 .. n
  <2>1. CASE m = 0
    BY <1>1, <1>2, <2>1
  <2>2. CASE m # 0
    <3>1. m \in 1 .. n /\ m - 1 \in 0 .. n
      BY <1>1, <2>2
    <3>2. h[m] = pos[m] - 2 /\ h[m - 1] = pos[m - 1] - 2
      BY <3>1
    <3>3. PICK a \in Nat, c \in Nat, x \in Nat, y \in Nat :
            /\ a = Len(wraps[m].id) /\ c = Len(wraps[m].stanza)
            /\ x = pos[m - 1] /\ y = pos[m]
      BY <1>2, <1>3, <3>1
    <3>4. y = x + 2 + a + c
      BY <1>2, <3>1, <3>3
    <3>5. y - 2 = (x - 2) + 2 + a + c
      BY <3>4
    <3>6. body(h, m) = h[m - 1] + 2 + a + c
      BY <2>2, <3>3 DEF EntryHeaderCells
    <3> HIDE DEF h, body
    <3> QED BY <3>2, <3>3, <3>5, <3>6
  <2> QED BY <2>1, <2>2
<1>5. Is(g)
  <2>1. h = [m \in 0 .. n |-> h[m]]
    OBVIOUS
  <2> HIDE DEF h, body
  <2>2. h = [m \in 0 .. n |-> body(h, m)]
    BY <1>4, <2>1
  <2>3. Is(h)
    BY <2>2
  <2> HIDE DEF Is
  <2> QED BY <2>3
<1>6. EntriesLen(wraps) = g[n]
  BY DEF EntriesLen, n
<1> HIDE DEF g
<1>7. \A m \in 0 .. n : g[m] = body(g, m)
  <2> HIDE DEF body
  <2> QED BY <1>5
<1> DEFINE T == {m \in 0 .. n : g[m] = h[m]}
<1>8. 0 \in T
  <2>1. 0 \in 0 .. n
    BY <1>1
  <2>2. g[0] = body(g, 0) /\ h[0] = body(h, 0)
    <3> HIDE DEF body, h
    <3> QED BY <1>4, <1>7, <2>1
  <2>3. body(g, 0) = 0 /\ body(h, 0) = 0
    OBVIOUS
  <2> HIDE DEF body, h
  <2> QED BY <2>1, <2>2, <2>3
<1>9. ASSUME NEW k \in 1 .. n, k - 1 \in T PROVE k \in T
  <2>1. k \in 0 .. n /\ k # 0
    BY <1>1
  <2>2. g[k] = body(g, k) /\ h[k] = body(h, k) /\ g[k - 1] = h[k - 1]
    BY <1>4, <1>7, <1>9, <2>1
  <2>3. body(g, k) = body(h, k)
    <3> HIDE DEF h
    <3> QED BY <2>1, <2>2
  <2> HIDE DEF h, body
  <2> QED BY <2>1, <2>2, <2>3
<1> HIDE DEF T
<1>10. \A k \in 0 .. n : k \in T
  BY <1>1, <1>8, <1>9, Forwards
<1>11. g[n] = pos[n] - 2
  BY <1>1, <1>10 DEF T
<1> QED
  <2>1. Len(slice) \in Nat
    OBVIOUS
  <2> QED BY <1>2, <1>6, <1>11, <2>1 DEF WrapsLen, WrapsHeaderCells

(* It is read back, unless it has more entries than the count can tell:    *)
(* then its bytes go on after the entries that are counted.                *)
LEMMA WrapsWritten ==
  ASSUME NEW wraps \in Seq([id : Seq(Nat), stanza : Seq(Nat)]), WrapsEncodable(wraps)
  PROVE  /\ Len(EncodeWraps(wraps)) = WrapsLen(wraps)
         /\ Len(wraps) < CountLimit =>
              WrapsParses(EncodeWraps(wraps)) /\ WrapsOf(EncodeWraps(wraps)) = wraps
         /\ Len(wraps) >= CountLimit => ~WrapsParses(EncodeWraps(wraps))
<1> DEFINE n == Len(wraps)
           slice == EncodeWraps(wraps)
           c == Count(wraps)
           start == EntryStarts(slice)
           e == EntryEnds(slice)
<1>1. slice \in Seq(Nat) /\ slice[1] = Version /\ slice[2] = c
      /\ Len(slice) >= WrapsHeaderCells
  BY WrapsPlaced
<1>2. PICK pos : WrapsAt(pos, slice, wraps)
  BY WrapsPlaced
<1>3. n \in Nat /\ CountLimit \in Nat \ {0} /\ DOMAIN wraps = 1 .. n
  BY WidthsAssumption
<1>4. c \in Nat /\ c <= n /\ c < CountLimit /\ (n < CountLimit => c = n)
  <2>1. c = n % CountLimit
    BY DEF Count
  <2> HIDE DEF n, c
  <2>2. PICK m \in Nat : m = CountLimit /\ m # 0
    BY <1>3
  <2>3. \A x, y \in Nat : y # 0 => /\ x % y \in Nat /\ x % y < y /\ x % y <= x
                                   /\ x < y => x % y = x
    OBVIOUS
  <2>4. n % m \in Nat /\ n % m < m /\ n % m <= n /\ (n < m => n % m = n)
    BY <1>3, <2>2, <2>3
  <2> QED BY <2>1, <2>2, <2>4
<1>5. /\ start \in [0 .. c -> Nat] /\ start[0] = WrapsHeaderCells
      /\ \A k \in 1 .. c : start[k] = e[start[k - 1]]
  BY <1>1, EntryStartsAre DEF Starts
<1>6. /\ pos \in [0 .. n -> Nat] /\ pos[0] = WrapsHeaderCells /\ pos[n] = Len(slice)
      /\ \A k \in 1 .. n :
           /\ pos[k - 1] < pos[k] /\ pos[k] <= Len(slice)
           /\ pos[k] = pos[k - 1] + 2 + Len(wraps[k].id) + Len(wraps[k].stanza)
           /\ slice[pos[k - 1] + 1] = Len(wraps[k].id)
           /\ slice[pos[k - 1] + 2] = Len(wraps[k].stanza)
           /\ Slice(slice, pos[k - 1] + 2, pos[k - 1] + 2 + Len(wraps[k].id)) = wraps[k].id
           /\ Slice(slice, pos[k - 1] + 2 + Len(wraps[k].id), pos[k]) = wraps[k].stanza
  BY <1>2 DEF WrapsAt
<1>7. \A k \in 1 .. n : /\ wraps[k] \in [id : Seq(Nat), stanza : Seq(Nat)]
                        /\ Len(wraps[k].id) \in Nat \ {0} /\ Len(wraps[k].stanza) \in Nat
  <2> DEFINE Wrap == [id : Seq(Nat), stanza : Seq(Nat)]
  <2>1. \A w \in Wrap : /\ Len(w.id) \in Nat /\ Len(w.stanza) \in Nat
                        /\ w.id # <<>> => Len(w.id) # 0
    OBVIOUS
  <2>2. wraps \in Seq(Wrap)
    OBVIOUS
  <2>3. \A k \in 1 .. n : wraps[k] \in Wrap
    <3> HIDE DEF Wrap
    <3> QED BY <2>2
  <2>4. \A k \in 1 .. n : wraps[k].id # <<>>
    BY <1>3 DEF WrapsEncodable
  <2> HIDE DEF Wrap
  <2>5. \A k \in 1 .. n : Len(wraps[k].id) \in Nat \ {0} /\ Len(wraps[k].stanza) \in Nat
    BY <2>1, <2>3, <2>4
  <2> QED BY <2>3, <2>5 DEF Wrap
<1> HIDE DEF n, slice, c, start, e
<1>8. ASSUME NEW k \in 1 .. n
      PROVE  e[pos[k - 1]] = pos[k]
  <2>1. PICK o \in Nat, z \in Nat : o = pos[k - 1] /\ z = pos[k]
    <3>1. k \in 0 .. n /\ k - 1 \in 0 .. n
      BY <1>3
    <3> QED BY <1>6, <3>1
  <2>2. PICK a \in Nat, l \in Nat : a = slice[o + 1] /\ l = slice[o + 2] /\ a # 0
                                    /\ z = o + 2 + a + l /\ z <= Len(slice)
    BY <1>6, <1>7, <2>1
  <2>3. ~(o + 2 > Len(slice)) /\ ~(o + 2 + a + l > Len(slice))
    <3>1. Len(slice) \in Nat
      BY <1>1
    <3> QED BY <2>2, <3>1, SMTT(30)
  <2>4. EntryEnd(slice, o) = o + 2 + a + l
    BY <2>2, <2>3 DEF EntryEnd, EntryHeaderCells
  <2> QED BY <2>1, <2>2, <2>4 DEF e, EntryEnds
<1>9. \A k \in 0 .. c : start[k] = pos[k]
  <2> DEFINE T == {k \in 0 .. c : start[k] = pos[k]}
  <2>1. 0 \in T
    BY <1>4, <1>5, <1>6
  <2>2. ASSUME NEW k \in 1 .. c, k - 1 \in T PROVE k \in T
    <3>1. k \in 1 .. n /\ k \in 0 .. c
      BY <1>3, <1>4
    <3> QED BY <1>5, <1>8, <2>2, <3>1
  <2> HIDE DEF T
  <2>3. \A k \in 0 .. c : k \in T
    BY <1>4, <2>1, <2>2, Forwards
  <2> QED BY <2>3 DEF T
<1>10. ASSUME n < CountLimit
       PROVE  WrapsOf(slice) = wraps
  <2>1. c = n
    BY <1>4, <1>10
  <2>2. ASSUME NEW k \in 1 .. n
        PROVE  wraps[k] = [id |-> Slice(slice, pos[k - 1] + 2, pos[k - 1] + 2 + Len(wraps[k].id)),
                           stanza |-> Slice(slice, pos[k - 1] + 2 + Len(wraps[k].id), pos[k])]
    BY <1>6, <1>7
  <2>3. \A k \in 1 .. n : start[k] = pos[k] /\ start[k - 1] = pos[k - 1]
                          /\ slice[pos[k - 1] + 1] = Len(wraps[k].id)
    <3>1. \A k \in 1 .. n : k \in 0 .. c /\ k - 1 \in 0 .. c
      BY <1>3, <2>1
    <3> QED BY <1>6, <1>9, <3>1
  <2> DEFINE entry(k) == LET o == start[k - 1]
                             st == o + EntryHeaderCells + slice[o + 1]
                         IN  [id     |-> Slice(slice, o + EntryHeaderCells, st),
                              stanza |-> Slice(slice, st, start[k])]
  <2>4. WrapsOf(slice) = [k \in 1 .. n |-> entry(k)]
    BY <1>1, <2>1 DEF WrapsOf, start
  <2>5. \A k \in 1 .. n : entry(k) = wraps[k]
    BY <2>2, <2>3 DEF EntryHeaderCells
  <2>6. wraps = [k \in 1 .. n |-> wraps[k]]
    BY <1>3
  <2> HIDE DEF entry
  <2> QED BY <2>4, <2>5, <2>6
<1>11. ASSUME n < CountLimit
       PROVE  WrapsParses(slice)
  <2>1. c = n /\ IsCount(slice[2])
    BY <1>1, <1>4, <1>11 DEF IsCount
  <2>2. start[c] = Len(slice)
    <3>1. c \in 0 .. c
      BY <1>4
    <3> QED BY <1>6, <1>9, <2>1, <3>1
  <2>3. \A i, j \in 1 .. n : WrapsOf(slice)[i].id = WrapsOf(slice)[j].id => i = j
    BY <1>3, <1>10, <1>11 DEF WrapsEncodable
  <2> QED BY <1>1, <2>1, <2>2, <2>3 DEF WrapsParses, Consumed, start
<1>12. ASSUME n >= CountLimit
       PROVE  ~WrapsParses(slice)
  <2>1. c < n
    BY <1>3, <1>4, <1>12
  <2>2. start[c] < Len(slice)
    <3>1. PICK k \in 1 .. n : k = c + 1 /\ k - 1 = c
      BY <1>3, <1>4, <2>1
    <3>2. pos[k - 1] < pos[k] /\ pos[k] <= Len(slice) /\ pos[k - 1] \in Nat /\ pos[k] \in Nat
      <4>1. k \in 0 .. n /\ k - 1 \in 0 .. n
        BY <1>3
      <4> QED BY <1>6, <4>1
    <3>3. c \in 0 .. c /\ Len(slice) \in Nat
      BY <1>1, <1>4
    <3> QED BY <1>9, <3>1, <3>2, <3>3
  <2>3. start[c] # Len(slice)
    <3>1. Len(slice) \in Nat
      BY <1>1
    <3> QED BY <2>2, <3>1
  <2> QED BY <1>1, <2>3 DEF WrapsParses, Consumed, start
<1>13. Len(slice) = WrapsLen(wraps)
  BY <1>1, <1>2, WrapsLenIs
<1> QED BY <1>10, <1>11, <1>12, <1>13 DEF n, slice

-----------------------------------------------------------------------------
(* A payload section that was written: a chunk is its two numbers, its     *)
(* ciphertext and its tag.                                                 *)
Chunks == Seq([flags : Nat, ciphertext : Seq(Nat), tag : Seq(Nat)])

ChunkParts(chunks) ==
  [i \in DOMAIN chunks |->
     <<Len(chunks[i].ciphertext), chunks[i].flags>> \o chunks[i].ciphertext \o chunks[i].tag]

ChunksAt(pos, slice, chunks) ==
  /\ pos \in [0 .. Len(chunks) -> Nat]
  /\ pos[0] = PayloadHeaderCells /\ pos[Len(chunks)] = Len(slice)
  /\ \A k \in 1 .. Len(chunks) :
       /\ pos[k - 1] < pos[k] /\ pos[k] <= Len(slice)
       /\ pos[k] = pos[k - 1] + 2 + Len(chunks[k].ciphertext) + Len(chunks[k].tag)
       /\ slice[pos[k - 1] + 1] = Len(chunks[k].ciphertext)
       /\ slice[pos[k - 1] + 2] = chunks[k].flags
       /\ Slice(slice, pos[k - 1] + 2, pos[k - 1] + 2 + Len(chunks[k].ciphertext))
            = chunks[k].ciphertext
       /\ Slice(slice, pos[k - 1] + 2 + Len(chunks[k].ciphertext), pos[k]) = chunks[k].tag

(* The types of the chunks of a list.                                      *)
LEMMA ChunkTypes ==
  ASSUME NEW chunks \in Chunks
  PROVE  /\ Len(chunks) \in Nat /\ DOMAIN chunks = 1 .. Len(chunks)
         /\ \A k \in 1 .. Len(chunks) :
              /\ chunks[k] = [flags |-> chunks[k].flags, ciphertext |-> chunks[k].ciphertext,
                              tag |-> chunks[k].tag]
              /\ chunks[k].flags \in Nat
              /\ chunks[k].ciphertext \in Seq(Nat) /\ chunks[k].tag \in Seq(Nat)
<1> DEFINE Chunk == [flags : Nat, ciphertext : Seq(Nat), tag : Seq(Nat)]
<1>1. \A c \in Chunk : /\ c = [flags |-> c.flags, ciphertext |-> c.ciphertext, tag |-> c.tag]
                       /\ c.flags \in Nat
                       /\ c.ciphertext \in Seq(Nat) /\ c.tag \in Seq(Nat)
  OBVIOUS
<1>2. chunks \in Seq(Chunk)
  BY DEF Chunks
<1> HIDE DEF Chunk
<1>3. /\ Len(chunks) \in Nat /\ DOMAIN chunks = 1 .. Len(chunks)
      /\ \A k \in 1 .. Len(chunks) : chunks[k] \in Chunk
  BY <1>2
<1> QED BY <1>1, <1>3

(* Every chunk of an encoded payload section has its place.                *)
LEMMA ChunksPlaced ==
  ASSUME NEW head \in Seq(Nat), Len(head) = PayloadHeaderCells, NEW chunks \in Chunks
  PROVE  LET slice == head \o FlattenSeq(ChunkParts(chunks))
         IN  /\ slice \in Seq(Nat)
             /\ \A i \in 1 .. PayloadHeaderCells : slice[i] = head[i]
             /\ \E pos : ChunksAt(pos, slice, chunks)
<1> DEFINE n == Len(chunks)
           seqs == ChunkParts(chunks)
           slice == head \o FlattenSeq(seqs)
<1>1. n \in Nat /\ DOMAIN chunks = 1 .. n
      /\ \A k \in 1 .. n : /\ chunks[k].flags \in Nat
                           /\ chunks[k].ciphertext \in Seq(Nat) /\ chunks[k].tag \in Seq(Nat)
  BY ChunkTypes
<1>4. ASSUME NEW k \in 1 .. n
      PROVE  /\ seqs[k] = <<Len(chunks[k].ciphertext), chunks[k].flags>>
                            \o chunks[k].ciphertext \o chunks[k].tag
             /\ seqs[k] \in Seq(Nat)
  <2> DEFINE x == chunks[k].ciphertext
             y == chunks[k].tag
             a == Len(x)
             c == chunks[k].flags
  <2>1. seqs[k] = <<a, c>> \o x \o y
    BY <1>1 DEF ChunkParts
  <2>2. x \in Seq(Nat) /\ y \in Seq(Nat) /\ a \in Nat /\ c \in Nat
    <3>1. x \in Seq(Nat) /\ y \in Seq(Nat) /\ c \in Nat
      BY <1>1
    <3> QED BY <3>1
  <2>3. <<a, c>> \o x \o y \in Seq(Nat)
    <3> HIDE DEF x, y, a, c
    <3>1. <<a, c>> \in Seq(Nat)
      BY <2>2
    <3>2. <<a, c>> \o x \in Seq(Nat)
      BY <2>2, <3>1, Joined
    <3> QED BY <2>2, <3>2, Joined
  <2> QED BY <2>1, <2>3
<1>5. seqs \in Seq(Seq(Nat)) /\ Len(seqs) = n
  <2>1. DOMAIN seqs = 1 .. n /\ seqs = [k \in 1 .. n |-> seqs[k]]
    BY <1>1 DEF ChunkParts
  <2> HIDE DEF seqs, n
  <2>2. seqs \in [1 .. n -> Seq(Nat)]
    BY <1>4, <2>1
  <2> QED BY <1>1, <2>2
<1>6. slice = head \o FlattenSeq(seqs)
  OBVIOUS
<1> HIDE DEF n, seqs, slice
<1>7. PICK pos : Placed(pos, head, seqs)
  BY <1>5, PartsPlaced
<1>8. /\ pos \in [0 .. n -> Nat] /\ pos[0] = PayloadHeaderCells /\ pos[n] = Len(slice)
      /\ slice \in Seq(Nat)
      /\ \A i \in 1 .. PayloadHeaderCells : slice[i] = head[i]
      /\ \A k \in 1 .. n : /\ pos[k] = pos[k - 1] + Len(seqs[k])
                           /\ pos[k] <= Len(slice)
                           /\ \A i \in 1 .. Len(seqs[k]) : slice[pos[k - 1] + i] = seqs[k][i]
  BY <1>5, <1>6, <1>7 DEF Placed
<1>9. ASSUME NEW k \in 1 .. n
      PROVE  /\ pos[k] <= Len(slice)
             /\ pos[k] = pos[k - 1] + 2 + Len(chunks[k].ciphertext) + Len(chunks[k].tag)
             /\ slice[pos[k - 1] + 1] = Len(chunks[k].ciphertext)
             /\ slice[pos[k - 1] + 2] = chunks[k].flags
             /\ Slice(slice, pos[k - 1] + 2, pos[k - 1] + 2 + Len(chunks[k].ciphertext))
                  = chunks[k].ciphertext
             /\ Slice(slice, pos[k - 1] + 2 + Len(chunks[k].ciphertext), pos[k]) = chunks[k].tag
             /\ pos[k - 1] < pos[k]
  <2> DEFINE x == chunks[k].ciphertext
             y == chunks[k].tag
             a == Len(x)
             l == Len(y)
             c == chunks[k].flags
             s == seqs[k]
  <2>1. x \in Seq(Nat) /\ y \in Seq(Nat) /\ a = Len(x) /\ l = Len(y) /\ s = <<a, c>> \o x \o y
        /\ c \in Nat
    BY <1>1, <1>4
  <2>2. a \in Nat /\ l \in Nat
    BY <2>1
  <2>3. PICK p \in Nat, z \in Nat : p = pos[k - 1] /\ z = pos[k]
    <3>1. k \in 0 .. n /\ k - 1 \in 0 .. n
      BY <1>1
    <3> QED BY <1>8, <3>1
  <2> HIDE DEF x, y, a, l, c, s
  <2>4. LiesAt(slice, p, z, s)
    BY <1>8, <2>3 DEF s, LiesAt
  <2>5. IsEntry(s, a, c, x, y)
    BY <2>1 DEF IsEntry
  <2>6. PICK h \in Nat, k0 \in Nat :
          /\ h = p + 2 /\ k0 = h + Len(x) /\ z = k0 + Len(y)
          /\ slice[p + 1] = a /\ slice[h] = c
          /\ Slice(slice, h, k0) = x /\ Slice(slice, k0, z) = y
    <3>1. slice \in Seq(Nat)
      BY <1>8
    <3>2. PartsAt(slice, p, z, a, c, x, y)
      BY <2>1, <2>2, <2>4, <2>5, <3>1, EntryParts
    <3> QED BY <3>2 DEF PartsAt
  <2>7. z = p + 2 + a + l /\ p < z /\ k0 = p + 2 + a
    BY <2>1, <2>2, <2>6
  <2>8. /\ z <= Len(slice) /\ z = p + 2 + a + l
        /\ slice[p + 1] = a /\ slice[p + 2] = c
        /\ Slice(slice, p + 2, p + 2 + a) = x
        /\ Slice(slice, p + 2 + a, z) = y
        /\ p < z
    BY <2>4, <2>6, <2>7 DEF LiesAt
  <2> QED BY <2>3, <2>8 DEF x, y, a, l, c
<1>10. ChunksAt(pos, slice, chunks)
  BY <1>8, <1>9 DEF ChunksAt, n
<1>11. slice \in Seq(Nat) /\ (\A i \in 1 .. PayloadHeaderCells : slice[i] = head[i])
       /\ \E q : ChunksAt(q, slice, chunks)
  BY <1>8, <1>10
<1> QED BY <1>11 DEF slice, seqs

(* Places increase, so there are at least as many cells as chunks.         *)
LEMMA PlacesIncrease ==
  ASSUME NEW slice \in Seq(Nat), NEW chunks \in Chunks, NEW pos, ChunksAt(pos, slice, chunks)
  PROVE  /\ Len(chunks) <= Len(slice)
         /\ PayloadHeaderCells <= Len(slice)
<1> DEFINE n == Len(chunks)
           T == {k \in 0 .. n : pos[k] >= 3 + k}
<1>1. n \in Nat
  BY ChunkTypes
<1>2. /\ pos \in [0 .. n -> Nat] /\ pos[0] = 3 /\ pos[n] = Len(slice)
      /\ \A k \in 1 .. n : pos[k - 1] < pos[k]
  BY DEF ChunksAt, PayloadHeaderCells
<1> HIDE DEF n
<1>3. 0 \in T
  BY <1>1, <1>2
<1>4. ASSUME NEW k \in 1 .. n, k - 1 \in T PROVE k \in T
  <2>1. k \in 0 .. n /\ k - 1 \in 0 .. n
    BY <1>1
  <2>2. PICK x \in Nat, y \in Nat : x = pos[k - 1] /\ y = pos[k]
    BY <1>2, <2>1
  <2>3. x >= 3 + (k - 1)
    BY <1>4, <2>2
  <2>4. x < y
    BY <1>2, <2>2
  <2>5. y >= 3 + k
    BY <2>3, <2>4
  <2> QED BY <2>1, <2>2, <2>5
<1> HIDE DEF T
<1>5. \A k \in 0 .. n : k \in T
  BY <1>1, <1>3, <1>4, Forwards
<1>6. pos[n] >= 3 + n
  <2>1. n \in T
    BY <1>1, <1>5
  <2> QED BY <2>1 DEF T
<1>7. Len(slice) \in Nat /\ Len(slice) >= 3 + n
  BY <1>2, <1>6
<1>8. n <= Len(slice) /\ 3 <= Len(slice)
  BY <1>1, <1>7
<1> QED BY <1>8 DEF n, PayloadHeaderCells

(* What PayloadSection::encode writes is read back.                        *)
LEMMA PayloadWritten ==
  ASSUME NEW p \in [chunkSize : Nat, tagSize : Nat, chunks : Chunks], PayloadEncodable(p)
  PROVE  /\ EncodePayload(p) \in Seq(Nat)
         /\ PayloadParses(EncodePayload(p)) /\ PayloadOf(EncodePayload(p)) = p
<1> DEFINE chunks == p.chunks
           n == Len(chunks)
           head == <<Version, p.chunkSize, p.tagSize>>
           slice == EncodePayload(p)
           m == Len(slice)
<1>1. /\ p = [chunkSize |-> p.chunkSize, tagSize |-> p.tagSize, chunks |-> chunks]
      /\ p.chunkSize \in Nat /\ p.tagSize \in Nat /\ chunks \in Chunks
  OBVIOUS
<1>2. head \in Seq(Nat) /\ Len(head) = PayloadHeaderCells
      /\ head[1] = Version /\ head[2] = p.chunkSize /\ head[3] = p.tagSize
  BY <1>1 DEF Version, PayloadHeaderCells
<1>3. slice = head \o FlattenSeq(ChunkParts(chunks))
  BY DEF EncodePayload, ChunkParts
<1> HIDE DEF head, slice
<1>4. /\ slice \in Seq(Nat)
      /\ \A i \in 1 .. PayloadHeaderCells : slice[i] = head[i]
      /\ \E pos : ChunksAt(pos, slice, chunks)
  <2> HIDE DEF chunks
  <2>1. LET s == head \o FlattenSeq(ChunkParts(chunks))
        IN  /\ s \in Seq(Nat)
            /\ \A i \in 1 .. PayloadHeaderCells : s[i] = head[i]
            /\ \E pos : ChunksAt(pos, s, chunks)
    BY <1>1, <1>2, ChunksPlaced
  <2> QED BY <1>3, <2>1
<1>5. slice[1] = Version /\ slice[2] = p.chunkSize /\ slice[3] = p.tagSize
  BY <1>2, <1>4 DEF PayloadHeaderCells
<1>6. PICK pos : ChunksAt(pos, slice, chunks)
  BY <1>4
<1>7. n \in Nat /\ m \in Nat /\ n <= m /\ 3 <= m
  BY <1>1, <1>4, <1>6, ChunkTypes, PlacesIncrease DEF PayloadHeaderCells
<1>8. DOMAIN chunks = 1 .. n
      /\ \A k \in 1 .. n : /\ chunks[k] = [flags |-> chunks[k].flags, ciphertext |-> chunks[k].ciphertext,
                                           tag |-> chunks[k].tag]
                           /\ chunks[k].flags \in Nat
                           /\ chunks[k].ciphertext \in Seq(Nat) /\ chunks[k].tag \in Seq(Nat)
  BY <1>1, ChunkTypes
<1>9. /\ p.chunkSize # 0 /\ p.tagSize # 0 /\ chunks # <<>>
      /\ \A k \in 1 .. n : /\ IsFinal(chunks[k].flags) <=> k = n
                           /\ chunks[k].ciphertext # <<>>
                           /\ Len(chunks[k].tag) = p.tagSize
                           /\ k # n => Len(chunks[k].ciphertext) = p.chunkSize
  BY <1>8 DEF PayloadEncodable
<1>10. /\ pos \in [0 .. n -> Nat] /\ pos[0] = 3 /\ pos[n] = m
       /\ \A k \in 1 .. n :
            /\ pos[k - 1] < pos[k] /\ pos[k] <= m
            /\ pos[k] = pos[k - 1] + 2 + Len(chunks[k].ciphertext) + Len(chunks[k].tag)
            /\ slice[pos[k - 1] + 1] = Len(chunks[k].ciphertext)
            /\ slice[pos[k - 1] + 2] = chunks[k].flags
            /\ Slice(slice, pos[k - 1] + 2, pos[k - 1] + 2 + Len(chunks[k].ciphertext))
                 = chunks[k].ciphertext
            /\ Slice(slice, pos[k - 1] + 2 + Len(chunks[k].ciphertext), pos[k]) = chunks[k].tag
  BY <1>6 DEF ChunksAt, PayloadHeaderCells
<1> DEFINE start == [k \in 0 .. m |-> IF k <= n THEN pos[k] ELSE 0]
<1> HIDE DEF chunks, n, m
<1>11. /\ start \in [0 .. m -> Nat]
       /\ \A k \in 0 .. n : start[k] = pos[k]
       /\ \A k \in 1 .. n : start[k] = pos[k] /\ start[k - 1] = pos[k - 1]
  <2>1. \A k \in 0 .. m : k <= n => k \in 0 .. n
    BY <1>7
  <2>2. start \in [0 .. m -> Nat]
    BY <1>10, <2>1
  <2>3. \A k \in 0 .. n : k \in 0 .. m /\ k <= n
    BY <1>7
  <2>4. \A k \in 0 .. n : start[k] = pos[k]
    BY <2>3
  <2>5. \A k \in 1 .. n : k \in 0 .. n /\ k - 1 \in 0 .. n
    BY <1>7
  <2> QED BY <2>2, <2>4, <2>5
<1> HIDE DEF start
<1>12. ASSUME NEW k \in 1 .. n
       PROVE  /\ IsChunk(slice, pos[k - 1], pos[k])
              /\ ChunkOf(slice, pos[k - 1], pos[k]) = chunks[k]
              /\ IsFinal(slice[pos[k - 1] + 2]) \/ slice[pos[k - 1] + 1] = slice[2]
  <2>1. PICK o \in Nat, z \in Nat : o = pos[k - 1] /\ z = pos[k]
    <3>1. k \in 0 .. n /\ k - 1 \in 0 .. n
      BY <1>7
    <3> QED BY <1>10, <3>1
  <2>2. PICK a \in Nat, t \in Nat, c \in Nat, x \in Seq(Nat), y \in Seq(Nat) :
          /\ a = Len(x) /\ t = Len(y) /\ x = chunks[k].ciphertext /\ y = chunks[k].tag
          /\ c = chunks[k].flags
    BY <1>8
  <2>3. chunks[k] = [flags |-> c, ciphertext |-> x, tag |-> y]
    BY <1>8, <2>2
  <2>4. /\ a # 0 /\ t = p.tagSize
        /\ IsFinal(c) <=> k = n
        /\ k # n => a = p.chunkSize
    <3>1. x # <<>> /\ Len(y) = p.tagSize /\ (IsFinal(c) <=> k = n) /\ (k # n => Len(x) = p.chunkSize)
      BY <1>9, <2>2
    <3>2. Len(x) # 0
      BY <3>1
    <3> QED BY <2>2, <3>1, <3>2
  <2>5. /\ o < z /\ z <= m /\ z = o + 2 + a + t
        /\ slice[o + 1] = a /\ slice[o + 2] = c
        /\ Slice(slice, o + 2, o + 2 + a) = x /\ Slice(slice, o + 2 + a, z) = y
    BY <1>10, <2>1, <2>2
  <2>6. o + 2 <= m
    BY <1>7, <2>5
  <2>7. IsChunk(slice, o, z)
    BY <1>5, <2>2, <2>4, <2>5, <2>6 DEF IsChunk, m
  <2>8. ChunkOf(slice, o, z) = [flags |-> c, ciphertext |-> x, tag |-> y]
    BY <2>5 DEF ChunkOf, ChunkHeaderCells
  <2>9. IsFinal(slice[o + 2]) \/ slice[o + 1] = slice[2]
    BY <1>5, <2>4, <2>5
  <2> QED BY <2>1, <2>3, <2>7, <2>8, <2>9
<1>13. ListFrom(slice, start, n, chunks)
  <2>1. start \in [0 .. m -> Nat] /\ n \in 0 .. m
    BY <1>7, <1>11
  <2>2. start[0] = 3 /\ start[n] = m
    <3>1. 0 \in 0 .. n /\ n \in 0 .. n
      BY <1>7
    <3> QED BY <1>10, <1>11, <3>1
  <2>3. \A k \in 1 .. n : IsChunk(slice, start[k - 1], start[k])
    BY <1>11, <1>12
  <2>4. chunks = ChunksFrom(slice, start, n)
    <3>1. ChunksFrom(slice, start, n) = [k \in 1 .. n |-> ChunkOf(slice, start[k - 1], start[k])]
      BY DEF ChunksFrom
    <3>2. \A k \in 1 .. n : ChunkOf(slice, start[k - 1], start[k]) = chunks[k]
      BY <1>11, <1>12
    <3>3. chunks = [k \in 1 .. n |-> chunks[k]]
      <4>1. chunks \in Seq([flags : Nat, ciphertext : Seq(Nat), tag : Seq(Nat)])
        BY <1>1 DEF Chunks
      <4> QED BY <1>8, <4>1
    <3> QED BY <3>1, <3>2, <3>3
  <2> QED BY <2>1, <2>2, <2>3, <2>4 DEF ListFrom, PayloadHeaderCells, m
<1>14. FullBelowFinal(slice, start, n)
  BY <1>11, <1>12 DEF FullBelowFinal
<1>15. Len(slice) >= PayloadHeaderCells
  BY <1>7 DEF m, PayloadHeaderCells
<1>16. chunks \in ChunkLists(slice)
  BY <1>4, <1>7, <1>13, <1>14, <1>15, ListsFound
<1>17. \A other \in ChunkLists(slice) : other = chunks
  BY <1>4, <1>15, <1>16, OneChunkList
<1>18. (CHOOSE c \in ChunkLists(slice) : TRUE) = chunks
  BY <1>16, <1>17
<1>19. PayloadOf(slice) = p
  <2>1. PayloadOf(slice) = [chunkSize |-> slice[2], tagSize |-> slice[3],
                            chunks |-> CHOOSE c \in ChunkLists(slice) : TRUE]
    BY DEF PayloadOf
  <2>2. PayloadOf(slice) = [chunkSize |-> p.chunkSize, tagSize |-> p.tagSize, chunks |-> chunks]
    BY <1>5, <1>18, <2>1
  <2> QED BY <1>1, <2>2 DEF chunks
<1>20. PayloadParses(slice)
  <2>1. \A k \in DOMAIN chunks : IsFinal(chunks[k].flags) <=> k = Len(chunks)
    BY <1>8, <1>9 DEF n
  <2>2. \E c \in ChunkLists(slice) :
          c # <<>> /\ \A k \in DOMAIN c : IsFinal(c[k].flags) <=> k = Len(c)
    BY <1>9, <1>16, <2>1
  <2> QED BY <1>5, <1>9, <1>15, <2>2 DEF PayloadParses
<1> QED BY <1>4, <1>19, <1>20 DEF slice

-----------------------------------------------------------------------------
(* Header, policy and footer that were written.                            *)
LEMMA HeaderWritten ==
  ASSUME NEW h \in [major : Nat, minor : Nat, suite : Nat,
                    headerLen : Nat, policyLen : Nat, wrapsLen : Nat, metadataLen : Nat,
                    payloadOffset : Nat]
  PROVE  /\ EncodeHeader(h) \in Seq(Nat) /\ Len(EncodeHeader(h)) = FixedHeaderCells
         /\ EncodeHeader(h)[1] = Magic
         /\ HeaderOf(EncodeHeader(h)) = h
<1> DEFINE v == EncodeHeader(h)
<1>1. v = <<Magic, h.major, h.minor, h.suite,
             h.headerLen, h.policyLen, h.wrapsLen, h.metadataLen, h.payloadOffset>>
  BY DEF EncodeHeader
<1>2. /\ v \in Seq(Nat) /\ Len(v) = 9 /\ v[1] = Magic
      /\ v[2] = h.major /\ v[3] = h.minor /\ v[4] = h.suite
      /\ v[5] = h.headerLen /\ v[6] = h.policyLen /\ v[7] = h.wrapsLen
      /\ v[8] = h.metadataLen /\ v[9] = h.payloadOffset
  BY <1>1 DEF Magic
<1>3. HeaderOf(v) = h
  <2> HIDE DEF v
  <2> QED BY <1>2 DEF HeaderOf
<1> QED BY <1>2, <1>3 DEF FixedHeaderCells

(* A policy that encode takes is read back.                                *)
LEMMA PolicyWritten ==
  ASSUME NEW p \in [threshold : Nat, total : Nat, count : Nat]
  PROVE  /\ EncodePolicy(p) \in Seq(Nat) /\ Len(EncodePolicy(p)) = PolicyCells
         /\ EncodePolicy(p)[4] = p.count
         /\ PolicyOf(EncodePolicy(p)) = p
         /\ PolicyAdmits(p) => PolicyParses(EncodePolicy(p))
<1> DEFINE v == EncodePolicy(p)
<1>1. v = <<Version, p.threshold, p.total, p.count>>
  BY DEF EncodePolicy
<1>2. v \in Seq(Nat) /\ Len(v) = 4 /\ v[1] = Version /\ v[2] = p.threshold /\ v[3] = p.total
      /\ v[4] = p.count
  BY <1>1 DEF Version
<1> HIDE DEF v
<1>3. PolicyOf(v) = p
  BY <1>2 DEF PolicyOf
<1> QED BY <1>2, <1>3 DEF v, PolicyCells, PolicyParses

(* A footer is read back, unless root or tag is empty.                     *)
LEMMA FooterWritten ==
  ASSUME NEW f \in [root : Seq(Nat), tag : Seq(Nat)], f.root # <<>>, f.tag # <<>>
  PROVE  /\ EncodeFooter(f) \in Seq(Nat)
         /\ FooterParses(EncodeFooter(f)) /\ FooterOf(EncodeFooter(f)) = f
<1> DEFINE r == f.root
           t == f.tag
           head == <<Version, Len(r), Len(t)>>
           hr == head \o r
           v == EncodeFooter(f)
<1>1. r \in Seq(Nat) /\ t \in Seq(Nat) /\ r # <<>> /\ t # <<>> /\ f = [root |-> r, tag |-> t]
  OBVIOUS
<1>2. PICK a \in Nat, c \in Nat : a = Len(r) /\ c = Len(t) /\ a # 0 /\ c # 0
  BY <1>1
<1>3. head \in Seq(Nat) /\ Len(head) = 3 /\ head[1] = Version /\ head[2] = a /\ head[3] = c
  BY <1>2 DEF Version
<1>4. v = hr \o t
  BY DEF EncodeFooter
<1> HIDE DEF r, t, head, v
<1>5. /\ hr \in Seq(Nat) /\ Len(hr) = Len(head) + Len(r)
      /\ \A i \in 1 .. Len(head) : hr[i] = head[i]
  BY <1>1, <1>3, Joined
<1>6. Slice(hr, Len(head), Len(head) + Len(r)) = r
  BY <1>1, <1>3, SliceOfRight
<1> HIDE DEF hr
<1>7. Len(hr) = 3 + a /\ Slice(hr, 3, 3 + a) = r
  BY <1>2, <1>3, <1>5, <1>6
<1>8. /\ hr \o t \in Seq(Nat) /\ Len(hr \o t) = Len(hr) + Len(t)
      /\ \A i \in 1 .. Len(hr) : (hr \o t)[i] = hr[i]
  BY <1>1, <1>5, Joined, ZenonT(30)
<1>9. Slice(hr \o t, Len(hr), Len(hr) + Len(t)) = t
  BY <1>1, <1>5, SliceOfRight
<1>10. v \in Seq(Nat) /\ Len(v) = 3 + a + c /\ Slice(v, 3 + a, 3 + a + c) = t
  BY <1>2, <1>4, <1>7, <1>8, <1>9
<1>11. v[1] = Version /\ v[2] = a /\ v[3] = c
  <2>1. \A i \in 1 .. 3 : i \in 1 .. Len(hr) /\ i \in 1 .. Len(head)
    BY <1>2, <1>3, <1>7
  <2>2. \A i \in 1 .. 3 : v[i] = head[i]
    BY <1>4, <1>5, <1>8, <2>1
  <2> QED BY <1>3, <2>2
<1>12. Slice(v, 3, 3 + a) = r
  <2>0. PICK x \in Nat : x = 3
    OBVIOUS
  <2>1. PICK y \in Nat : x = 3 /\ y = 3 + a
    BY <2>0
  <2>2. x <= y /\ y <= Len(hr)
    BY <1>2, <1>7, <2>1
  <2>3. Slice(hr \o t, x, y) = Slice(hr, x, y)
    BY <1>1, <1>5, <2>2, SliceOfLeft
  <2> QED BY <1>4, <1>7, <2>1, <2>3
<1>13. FooterParses(v)
  BY <1>2, <1>10, <1>11 DEF FooterParses, FooterHeaderCells, FooterEnds
<1>14. FooterOf(v) = [root |-> r, tag |-> t]
  BY <1>10, <1>11, <1>12 DEF FooterOf, FooterHeaderCells
<1>15. FooterOf(v) = f
  BY <1>1, <1>14
<1> QED BY <1>10, <1>13, <1>15 DEF v

-----------------------------------------------------------------------------
-----------------------------------------------------------------------------
(* Where the sections of a container lie.                                  *)

(* Under a header that was accepted the sections follow each other.        *)
LEMMA HeaderPlaces ==
  ASSUME NEW b \in Seq(Nat), HeaderParses(b)
  PROVE  LET h == HeaderOf(b)
         IN  /\ h.payloadOffset \in Nat /\ h.headerLen \in Nat
             /\ WrapsStart(h) \in Nat /\ MetadataStart(h) \in Nat /\ MetadataEnd(h) \in Nat
             /\ 9 <= Len(b)
             /\ 9 <= WrapsStart(h) /\ WrapsStart(h) <= MetadataStart(h)
             /\ MetadataStart(h) <= MetadataEnd(h) /\ MetadataEnd(h) <= h.payloadOffset
             /\ WrapsStart(h) - 9 = h.policyLen
             /\ h.payloadOffset - MetadataEnd(h) = h.headerLen - 9
<1> DEFINE h == HeaderOf(b)
<1>1. 9 <= Len(b) /\ Len(b) >= FixedHeaderCells
  BY DEF HeaderParses, FixedHeaderCells
<1>2. h.headerLen \in Nat /\ h.policyLen \in Nat /\ h.wrapsLen \in Nat
      /\ h.metadataLen \in Nat /\ h.payloadOffset \in Nat
  <2>1. /\ h.headerLen = b[5] /\ h.policyLen = b[6] /\ h.wrapsLen = b[7]
        /\ h.metadataLen = b[8] /\ h.payloadOffset = b[9]
        /\ \A i \in 1 .. 9 : b[i] \in Nat
    BY <1>1, HeaderIs
  <2> HIDE DEF h
  <2>2. b[5] \in Nat /\ b[6] \in Nat /\ b[7] \in Nat /\ b[8] \in Nat /\ b[9] \in Nat
    BY <2>1
  <2> QED BY <2>1, <2>2
<1>3. h.headerLen >= 9
      /\ h.payloadOffset = h.headerLen + h.policyLen + h.wrapsLen + h.metadataLen
  BY DEF HeaderParses, LayoutValid, OffsetAddsUp, FixedHeaderCells
<1>4. /\ WrapsStart(h) = 9 + h.policyLen
      /\ MetadataStart(h) = 9 + h.policyLen + h.wrapsLen
      /\ MetadataEnd(h) = 9 + h.policyLen + h.wrapsLen + h.metadataLen
  BY DEF WrapsStart, MetadataStart, MetadataEnd, FixedHeaderCells
<1> HIDE DEF h
<1>5. /\ WrapsStart(h) \in Nat /\ MetadataStart(h) \in Nat /\ MetadataEnd(h) \in Nat
      /\ 9 <= WrapsStart(h) /\ WrapsStart(h) <= MetadataStart(h)
      /\ MetadataStart(h) <= MetadataEnd(h) /\ MetadataEnd(h) <= h.payloadOffset
      /\ WrapsStart(h) - 9 = h.policyLen
      /\ h.payloadOffset - MetadataEnd(h) = h.headerLen - 9
  <2>1. PICK p \in Nat, w \in Nat, m \in Nat, l \in Nat :
          p = h.policyLen /\ w = h.wrapsLen /\ m = h.metadataLen /\ l = h.headerLen
    BY <1>2
  <2> DEFINE x == WrapsStart(h)
             y == MetadataStart(h)
             z == MetadataEnd(h)
             q == h.payloadOffset
  <2>2. x = 9 + p /\ y = 9 + p + w /\ z = 9 + p + w + m /\ q = l + p + w + m /\ l >= 9
    BY <1>3, <1>4, <2>1
  <2> HIDE DEF x, y, z, q
  <2>3. /\ x \in Nat /\ y \in Nat /\ z \in Nat /\ 9 <= x /\ x <= y /\ y <= z /\ z <= q
        /\ x - 9 = p /\ q - z = l - 9
    BY <2>2
  <2> QED BY <2>1, <2>3 DEF x, y, z, q
<1> QED BY <1>1, <1>2, <1>5 DEF h

(* With a correct structure payload and footer lie inside.                 *)
LEMMA StructurePlaces ==
  ASSUME NEW b \in Seq(Nat), StructureOK(b)
  PROVE  /\ HeaderParses(b)
         /\ PayloadEnd(b) \in Nat /\ HeaderOf(b).payloadOffset <= PayloadEnd(b)
         /\ PayloadEnd(b) <= Len(b)
         /\ FooterParses(FooterBytes(b))
         /\ FooterBytes(b) \in Seq(Nat) /\ Len(FooterBytes(b)) = Len(b) - PayloadEnd(b)
         /\ \A i \in 1 .. Len(b) - PayloadEnd(b) : FooterBytes(b)[i] = b[PayloadEnd(b) + i]
<1> DEFINE offset == HeaderOf(b).payloadOffset
           end == PayloadEnd(b)
<1>1. HeaderParses(b) /\ end # NoEnd /\ Len(b) >= end /\ FooterParses(FooterBytes(b))
  BY DEF StructureOK
<1>2. offset \in Nat
  BY <1>1, HeaderPlaces
<1>3. end \in Nat /\ end >= offset + 5
  BY <1>1, <1>2, ScanForward DEF PayloadEnd
<1>4. end <= Len(b) /\ offset <= end
  <2> HIDE DEF offset, end
  <2> QED BY <1>1, <1>2, <1>3
<1>5. FooterBytes(b) = Slice(b, end, Len(b))
  BY DEF FooterBytes
<1> HIDE DEF end
<1>6. Slice(b, end, Len(b)) \in Seq(Nat) /\ Len(Slice(b, end, Len(b))) = Len(b) - end
      /\ \A i \in 1 .. Len(b) - end : Slice(b, end, Len(b))[i] = b[end + i]
  <2>1. PICK n \in Nat : n = Len(b)
    OBVIOUS
  <2>2. n <= Len(b) /\ end <= n
    BY <1>4, <2>1
  <2>3. /\ Slice(b, end, n) \in Seq(Nat) /\ Len(Slice(b, end, n)) = n - end
        /\ \A i \in 1 .. n - end : Slice(b, end, n)[i] = b[end + i]
    BY <1>3, <2>2, SliceCells
  <2> QED BY <2>1, <2>3
<1> QED BY <1>1, <1>3, <1>4, <1>5, <1>6 DEF end

-----------------------------------------------------------------------------
(* No proper beginning of a container whose structure is correct has a     *)
(* correct structure.                                                      *)
LEMMA NoBeginning ==
  ASSUME NEW b \in Seq(Nat), StructureOK(b), NEW n \in 0 .. Len(b) - 1
  PROVE  ~StructureOK(SubSeq(b, 1, n))
<1> DEFINE c == SubSeq(b, 1, n)
<1>1. SUFFICES ASSUME StructureOK(c) PROVE FALSE
  OBVIOUS
<1>2. n \in 0 .. Len(b) /\ n < Len(b)
  OBVIOUS
<1>3. c \in Seq(Nat) /\ Len(c) = n /\ \A i \in 1 .. n : c[i] = b[i]
  BY <1>2, PrefixCells
<1>4. n >= 9
  <2> HIDE DEF c
  <2> QED BY <1>1, <1>3, StructurePlaces, HeaderPlaces
<1> DEFINE offset == HeaderOf(b).payloadOffset
           end == PayloadEnd(b)
<1>5. HeaderOf(c).payloadOffset = offset /\ offset \in Nat
  <2>1. c[9] = b[9]
    BY <1>3, <1>4
  <2>2. offset \in Nat
    BY StructurePlaces, HeaderPlaces
  <2> HIDE DEF c
  <2> QED BY <2>1, <2>2 DEF HeaderOf
<1>6. PayloadEnd(c) = end
  <2>1. ScanPayloadEnd(c, offset) # NoEnd
    BY <1>1, <1>5 DEF StructureOK, PayloadEnd
  <2>2. ScanPayloadEnd(b, offset) = ScanPayloadEnd(c, offset)
    <3> HIDE DEF offset
    <3> QED BY <1>2, <1>5, <2>1, ScanOfPrefix
  <2> QED BY <1>5, <2>2 DEF PayloadEnd
<1> HIDE DEF c, offset
<1> DEFINE f == FooterBytes(b)
           g == FooterBytes(c)
<1>7. /\ end \in Nat /\ end <= Len(b) /\ FooterParses(f) /\ f \in Seq(Nat)
      /\ Len(f) = Len(b) - end /\ \A i \in 1 .. Len(b) - end : f[i] = b[end + i]
  BY StructurePlaces
<1>8. /\ end <= n /\ FooterParses(g) /\ g \in Seq(Nat)
      /\ Len(g) = n - end /\ \A i \in 1 .. n - end : g[i] = c[end + i]
  <2>1. /\ PayloadEnd(c) \in Nat /\ PayloadEnd(c) <= Len(c)
        /\ FooterParses(FooterBytes(c)) /\ FooterBytes(c) \in Seq(Nat)
        /\ Len(FooterBytes(c)) = Len(c) - PayloadEnd(c)
        /\ \A i \in 1 .. Len(c) - PayloadEnd(c) : FooterBytes(c)[i] = c[PayloadEnd(c) + i]
    BY <1>1, <1>3, StructurePlaces
  <2> HIDE DEF end
  <2> QED BY <1>3, <1>6, <2>1
<1> HIDE DEF f, g, end
<1>9. /\ Len(f) = 3 + f[2] + f[3] /\ Len(f) >= 3 /\ f[2] \in Nat /\ f[3] \in Nat
      /\ Len(g) = 3 + g[2] + g[3] /\ Len(g) >= 3 /\ g[2] \in Nat /\ g[3] \in Nat
  <2>1. Len(f) = 3 + f[2] + f[3] /\ f[2] \in Nat /\ f[3] \in Nat
    BY <1>7, FooterIs
  <2>2. Len(g) = 3 + g[2] + g[3] /\ g[2] \in Nat /\ g[3] \in Nat
    BY <1>8, FooterIs
  <2>3. \A x, y \in Nat : 3 + x + y >= 3
    OBVIOUS
  <2> QED BY <2>1, <2>2, <2>3
<1>10. g[2] = f[2] /\ g[3] = f[3]
  <2>1. 2 \in 1 .. n - end /\ 3 \in 1 .. n - end /\ 2 \in 1 .. Len(b) - end /\ 3 \in 1 .. Len(b) - end
    BY <1>2, <1>7, <1>8, <1>9
  <2>2. end + 2 \in 1 .. n /\ end + 3 \in 1 .. n
    BY <1>2, <1>7, <1>8, <1>9
  <2>3. f[2] = b[end + 2] /\ f[3] = b[end + 3]
    BY <1>7, <2>1
  <2>4. g[2] = c[end + 2] /\ g[3] = c[end + 3]
    BY <1>8, <2>1
  <2> QED BY <1>3, <2>2, <2>3, <2>4
<1>11. n - end = Len(b) - end
  BY <1>7, <1>8, <1>9, <1>10
<1> QED BY <1>2, <1>7, <1>11

-----------------------------------------------------------------------------
(* The sections decrypt cuts out, and that they are encodings.             *)
LEMMA PayloadIsEncoded ==
  ASSUME NEW slice \in Seq(Nat), PayloadParses(slice)
  PROVE  EncodePayload(PayloadOf(slice)) = slice
<1> DEFINE chunks == PayloadOf(slice).chunks
<1>1. Len(slice) >= PayloadHeaderCells /\ slice[1] = Version
  BY DEF PayloadParses
<1>2. PICK start : \E n \in Nat : ListFrom(slice, start, n, chunks)
  BY PayloadIs
<1>3. PayloadOf(slice) = [chunkSize |-> slice[2], tagSize |-> slice[3], chunks |-> chunks]
  BY DEF PayloadOf
<1> HIDE DEF chunks
<1>4. PICK n \in Nat : ListFrom(slice, start, n, chunks)
  BY <1>2
<1> QED BY <1>1, <1>3, <1>4, ChunksAreEncoded

(* A wraps section that was accepted is encoded as it was.                 *)
LEMMA WrapsSectionIsEncoded ==
  ASSUME NEW slice \in Seq(Nat), WrapsParses(slice)
  PROVE  EncodeWraps(WrapsOf(slice)) = slice
<1>1. /\ Len(slice) >= WrapsHeaderCells /\ slice[1] = Version /\ IsCount(slice[2])
      /\ EntryStarts(slice)[slice[2]] = Len(slice)
  BY DEF WrapsParses, Consumed
<1>2. EntryStarts(slice)[slice[2]] <= Len(slice)
  BY <1>1
<1>3. EncodeWraps(WrapsOf(slice)) = Slice(slice, 0, EntryStarts(slice)[slice[2]])
  BY <1>1, <1>2, WrapsAreEncoded
<1> QED BY <1>1, <1>3, WholeSlice

(* What decrypt accepts is the encoding of what it read.                   *)
LEMMA ReadIsEncoding ==
  ASSUME NEW b \in Seq(Nat), DecryptReads(b)
  PROVE  /\ EncodeAll(SectionsOf(b)) = b
         /\ Len(SectionsOf(b).gap) = SectionsOf(b).header.headerLen - FixedHeaderCells
<1> DEFINE h == HeaderOf(b)
           x == WrapsStart(h)
           y == MetadataStart(h)
           z == MetadataEnd(h)
           p == h.payloadOffset
           e == PayloadEnd(b)
           s == SectionsOf(b)
<1>1. PICK n \in Nat, o \in Nat, k \in Nat : n = Len(b) /\ o = 0 /\ k = 9
  OBVIOUS
<1>2. StructureOK(b) /\ HeaderParses(b)
  BY StructurePlaces DEF DecryptReads
<1>3. /\ x \in Nat /\ y \in Nat /\ z \in Nat /\ p \in Nat /\ h.headerLen \in Nat
      /\ 9 <= x /\ x <= y /\ y <= z /\ z <= p /\ x - 9 = h.policyLen
      /\ p - z = h.headerLen - 9 /\ 9 <= n
  BY <1>1, <1>2, HeaderPlaces
<1>4. e \in Nat /\ p <= e /\ e <= n
  BY <1>1, <1>2, StructurePlaces
<1>5. PolicyParses(PolicyBytes(b)) /\ WrapsParses(WrapsBytes(b)) /\ PayloadParses(PayloadBytes(b))
      /\ FooterParses(FooterBytes(b)) /\ b[1] = Magic /\ Len(b) >= FixedHeaderCells
  BY <1>2 DEF DecryptReads, StructureOK, HeaderParses
<1>6. /\ PolicyBytes(b) = Slice(b, k, x) /\ WrapsBytes(b) = Slice(b, x, y)
      /\ MetadataBytes(b) = Slice(b, y, z) /\ GapBytes(b) = Slice(b, z, p)
      /\ PayloadBytes(b) = Slice(b, p, e) /\ FooterBytes(b) = Slice(b, e, n)
  BY <1>1 DEF PolicyBytes, WrapsBytes, MetadataBytes, GapBytes, PayloadBytes, FooterBytes,
       FixedHeaderCells
<1>7. /\ s.header = h /\ s.policy = PolicyOf(PolicyBytes(b)) /\ s.wraps = WrapsOf(WrapsBytes(b))
      /\ s.metadata = MetadataBytes(b) /\ s.gap = GapBytes(b)
      /\ s.payload = PayloadOf(PayloadBytes(b)) /\ s.footer = FooterOf(FooterBytes(b))
  BY DEF SectionsOf
<1>8. EncodeHeader(s.header) = Slice(b, o, k)
  BY <1>1, <1>5, <1>7, HeaderIsEncoded
<1> HIDE DEF x, y, z, p, e, s, h
<1>9. o <= k /\ k <= x /\ k <= y /\ k <= z /\ k <= p /\ k <= e /\ k <= n
      /\ o <= x /\ o <= y /\ o <= z /\ o <= p /\ o <= e /\ o <= n
      /\ x <= n /\ y <= n /\ z <= n /\ p <= n /\ n <= Len(b)
  BY <1>1, <1>3, <1>4, SMTT(30)
<1>10. EncodePolicy(s.policy) = Slice(b, k, x)
  <2>1. Slice(b, k, x) \in Seq(Nat)
    BY <1>3, <1>9, SliceCells
  <2> QED BY <1>5, <1>6, <1>7, <2>1, PolicyIsEncoded
<1>11. EncodeWraps(s.wraps) = Slice(b, x, y)
  <2>1. Slice(b, x, y) \in Seq(Nat)
    <3>1. x <= y /\ y <= Len(b)
      BY <1>1, <1>3, <1>9
    <3> QED BY <1>3, <3>1, SliceCells
  <2> QED BY <1>5, <1>6, <1>7, <2>1, WrapsSectionIsEncoded
<1>12. EncodePayload(s.payload) = Slice(b, p, e)
  <2>1. Slice(b, p, e) \in Seq(Nat)
    <3>1. p <= e /\ e <= Len(b)
      BY <1>1, <1>4
    <3> QED BY <1>3, <1>4, <3>1, SliceCells
  <2> QED BY <1>5, <1>6, <1>7, <2>1, PayloadIsEncoded
<1>13. EncodeFooter(s.footer) = Slice(b, e, n)
  <2>1. FooterBytes(b) \in Seq(Nat)
    BY <1>2, StructurePlaces
  <2>2. EncodeFooter(FooterOf(FooterBytes(b))) = FooterBytes(b)
    BY <1>5, <2>1, FooterIs
  <2> QED BY <1>6, <1>7, <2>2
<1>14. EncodeAll(s) = Slice(b, o, k) \o Slice(b, k, x) \o Slice(b, x, y) \o Slice(b, y, z)
                        \o Slice(b, z, p) \o Slice(b, p, e) \o Slice(b, e, n)
  BY <1>6, <1>7, <1>8, <1>10, <1>11, <1>12, <1>13 DEF EncodeAll
<1>15. Slice(b, o, k) \o Slice(b, k, x) = Slice(b, o, x)
  <2>1. x <= Len(b)
    BY <1>1, <1>9
  <2> QED BY <1>3, <1>9, <2>1, JoinSlices, ZenonT(30)
<1>16. Slice(b, o, x) \o Slice(b, x, y) = Slice(b, o, y)
  <2>1. y <= Len(b)
    BY <1>1, <1>9
  <2> QED BY <1>3, <1>9, <2>1, JoinSlices, ZenonT(30)
<1>17. Slice(b, o, y) \o Slice(b, y, z) = Slice(b, o, z)
  <2>1. z <= Len(b)
    BY <1>1, <1>9
  <2> QED BY <1>3, <1>9, <2>1, JoinSlices, ZenonT(30)
<1>18. Slice(b, o, z) \o Slice(b, z, p) = Slice(b, o, p)
  <2>1. p <= Len(b)
    BY <1>1, <1>9
  <2> QED BY <1>3, <1>9, <2>1, JoinSlices, ZenonT(30)
<1>19. Slice(b, o, p) \o Slice(b, p, e) = Slice(b, o, e)
  <2>1. e <= Len(b)
    BY <1>1, <1>4
  <2> QED BY <1>3, <1>4, <1>9, <2>1, JoinSlices, ZenonT(30)
<1>20. Slice(b, o, e) \o Slice(b, e, n) = Slice(b, o, n)
  BY <1>4, <1>9, JoinSlices
<1>21. Slice(b, o, n) = b
  BY <1>1, WholeSlice
<1>22. EncodeAll(s) = b
  BY <1>14, <1>15, <1>16, <1>17, <1>18, <1>19, <1>20, <1>21
<1>23. Len(s.gap) = s.header.headerLen - FixedHeaderCells
  <2>1. z <= p /\ p <= Len(b)
    BY <1>1, <1>3, <1>9
  <2>2. Len(Slice(b, z, p)) = p - z
    BY <1>3, <2>1, SliceCells
  <2> QED BY <1>3, <1>6, <1>7, <2>2 DEF FixedHeaderCells
<1> QED BY <1>22, <1>23 DEF s

-----------------------------------------------------------------------------
(* The two readers.                                                        *)

(* The first final chunk is the last one, or none is final before it.      *)
LEMMA FirstFinalIsLast ==
  ASSUME NEW chunks, NEW n \in Nat, n # 0, DOMAIN chunks = 1 .. n, Len(chunks) = n
  PROVE  SelectInSeq(chunks, LAMBDA chunk : IsFinal(chunk.flags)) = Len(chunks)
           <=> \A k \in 1 .. n : IsFinal(chunks[k].flags) <=> k = n
<1> DEFINE I == {i \in 1 .. Len(chunks) : IsFinal(chunks[i].flags)}
           least == CHOOSE i \in I : \A j \in I : i <= j
           first == SelectInSeq(chunks, LAMBDA chunk : IsFinal(chunk.flags))
<1>1. first = IF I # {} THEN least ELSE 0
  BY DEF SelectInSeq, Min
<1>2. \A i : i \in I <=> i \in 1 .. n /\ IsFinal(chunks[i].flags)
  OBVIOUS
<1>3. I \in SUBSET Nat
  BY <1>2
<1> HIDE DEF I, first
<1>4. ASSUME I # {}
      PROVE  least \in I /\ \A j \in I : least <= j
  <2>1. \E i \in I : \A j \in I : i <= j
    BY <1>3, <1>4, LeastElement
  <2> QED BY <2>1
<1> HIDE DEF least
<1>5. ASSUME first = n, NEW k \in 1 .. n
      PROVE  IsFinal(chunks[k].flags) <=> k = n
  <2>1. I # {} /\ least = n
    BY <1>1, <1>5
  <2>2. n \in I /\ \A j \in I : n <= j
    BY <1>4, <2>1
  <2> QED BY <1>2, <2>2
<1>6. ASSUME \A k \in 1 .. n : IsFinal(chunks[k].flags) <=> k = n
      PROVE  first = n
  <2>1. n \in 1 .. n
    OBVIOUS
  <2>2. n \in I /\ \A i \in I : i = n
    BY <1>2, <1>6, <2>1
  <2>3. least = n
    BY <1>4, <2>2
  <2> QED BY <1>1, <2>2, <2>3
<1>7. first = Len(chunks) <=> \A k \in 1 .. n : IsFinal(chunks[k].flags) <=> k = n
  BY <1>5, <1>6
<1> QED BY <1>7 DEF first

(* The chunks of a list: their flags and the lengths of their ciphertexts. *)
LEMMA ListFields ==
  ASSUME NEW slice \in Seq(Nat), NEW start, NEW n \in Nat, NEW chunks,
         ListFrom(slice, start, n, chunks)
  PROVE  \A k \in 1 .. n : /\ chunks[k].flags = slice[start[k - 1] + 2]
                           /\ Len(chunks[k].ciphertext) = slice[start[k - 1] + 1]
<1> TAKE k \in 1 .. n
<1>1. PICK o, z : o = start[k - 1] /\ z = start[k]
  OBVIOUS
<1>2. IsChunk(slice, o, z) /\ chunks[k] = ChunkOf(slice, o, z)
  BY <1>1, ListIs
<1>3. ChunkOf(slice, o, z).flags = slice[o + 2]
      /\ Len(ChunkOf(slice, o, z).ciphertext) = slice[o + 1]
  BY <1>2, ChunkIs
<1> QED BY <1>1, <1>2, <1>3

(* A payload section is taken by the Rust parser when the Python one takes *)
(* it and every chunk but the last is full; the chunks are the same.       *)
AllFull(slice) ==
  \A chunks \in ChunkListsBy(PyChunkEntryEnd, slice) :
    \A k \in 1 .. Len(chunks) - 1 : Len(chunks[k].ciphertext) = slice[2]

(* Rust takes the payloads that Python takes and whose chunks are full.    *)
LEMMA PayloadAlike ==
  ASSUME NEW slice \in Seq(Nat)
  PROVE  /\ PayloadParses(slice) <=> PyPayloadParses(slice) /\ AllFull(slice)
         /\ PayloadParses(slice) =>
              PayloadOf(slice).chunks \in ChunkListsBy(PyChunkEntryEnd, slice)
<1> DEFINE PyLists == ChunkListsBy(PyChunkEntryEnd, slice)
<1>1. ASSUME PayloadParses(slice)
      PROVE  /\ PyPayloadParses(slice) /\ AllFull(slice)
             /\ PayloadOf(slice).chunks \in PyLists
  <2> DEFINE q == PayloadOf(slice).chunks
  <2>1. PICK start : \E n \in Nat :
          /\ ListFrom(slice, start, n, q) /\ FullBelowFinal(slice, start, n) /\ n # 0
          /\ \A k \in 1 .. n : IsFinal(slice[start[k - 1] + 2]) <=> k = n
    BY <1>1, PayloadIs
  <2> HIDE DEF q
  <2>2. PICK n \in Nat :
          /\ ListFrom(slice, start, n, q) /\ FullBelowFinal(slice, start, n) /\ n # 0
          /\ \A k \in 1 .. n : IsFinal(slice[start[k - 1] + 2]) <=> k = n
    BY <2>1
  <2>3. Len(slice) >= PayloadHeaderCells /\ slice[1] = Version /\ slice[2] # 0 /\ slice[3] # 0
    BY <1>1 DEF PayloadParses
  <2>4. q \in PyLists
    BY <2>2, <2>3, ListsFound
  <2>5. DOMAIN q = 1 .. n /\ Len(q) = n /\ q # <<>>
    BY <2>2, ListShape
  <2>6. \A k \in 1 .. n : /\ q[k].flags = slice[start[k - 1] + 2]
                          /\ Len(q[k].ciphertext) = slice[start[k - 1] + 1]
    BY <2>2, ListFields
  <2>7. SelectInSeq(q, LAMBDA chunk : IsFinal(chunk.flags)) = Len(q)
    <3>1. \A k \in 1 .. n : IsFinal(q[k].flags) <=> k = n
      BY <2>2, <2>6
    <3> QED BY <2>2, <2>5, <3>1, FirstFinalIsLast
  <2>8. PyPayloadParses(slice)
    BY <2>3, <2>4, <2>5, <2>7 DEF PyPayloadParses
  <2>9. AllFull(slice)
    <3> SUFFICES ASSUME NEW r \in PyLists, NEW k \in 1 .. Len(r) - 1
        PROVE  Len(r[k].ciphertext) = slice[2]
      BY DEF AllFull
    <3>1. r = q
      BY <2>3, <2>4, OneChunkList
    <3>2. k \in 1 .. n /\ k # n
      BY <2>5, <3>1
    <3>3. ~IsFinal(slice[start[k - 1] + 2]) /\ slice[start[k - 1] + 1] = slice[2]
      BY <2>2, <3>2 DEF FullBelowFinal
    <3> QED BY <2>6, <3>1, <3>2, <3>3
  <2> QED BY <2>4, <2>8, <2>9 DEF q
<1>2. ASSUME PyPayloadParses(slice), AllFull(slice)
      PROVE  PayloadParses(slice)
  <2>1. PICK q \in PyLists :
          q # <<>> /\ SelectInSeq(q, LAMBDA chunk : IsFinal(chunk.flags)) = Len(q)
    BY <1>2 DEF PyPayloadParses
  <2>2. Len(slice) >= PayloadHeaderCells /\ slice[1] = Version /\ slice[2] # 0 /\ slice[3] # 0
    BY <1>2 DEF PyPayloadParses
  <2>3. PICK start : \E n \in Nat : ListFrom(slice, start, n, q)
    BY <2>1, <2>2, PyList
  <2>4. PICK n \in Nat : ListFrom(slice, start, n, q)
    BY <2>3
  <2>5. DOMAIN q = 1 .. n /\ Len(q) = n /\ n # 0
    BY <2>1, <2>4, ListShape
  <2>6. \A k \in 1 .. n : IsFinal(q[k].flags) <=> k = n
    BY <2>1, <2>5, FirstFinalIsLast
  <2>7. \A k \in 1 .. n : /\ q[k].flags = slice[start[k - 1] + 2]
                          /\ Len(q[k].ciphertext) = slice[start[k - 1] + 1]
    BY <2>4, ListFields
  <2>8. FullBelowFinal(slice, start, n)
    <3> SUFFICES ASSUME NEW k \in 1 .. n
        PROVE  IsFinal(slice[start[k - 1] + 2]) \/ slice[start[k - 1] + 1] = slice[2]
      BY DEF FullBelowFinal
    <3>1. CASE k = n
      BY <2>6, <2>7, <3>1
    <3>2. CASE k # n
      <4>1. k \in 1 .. Len(q) - 1
        BY <2>5, <3>2
      <4> QED BY <1>2, <2>1, <2>7, <4>1 DEF AllFull
    <3> QED BY <3>1, <3>2
  <2>9. q \in ChunkLists(slice)
    BY <2>2, <2>4, <2>8, ListsFound
  <2> QED BY <2>1, <2>2, <2>5, <2>6, <2>9 DEF PayloadParses
<1> QED BY <1>1, <1>2

(* Where the payload and the footer lie when the Python reader, which      *)
(* tests less of the header, has found them.                               *)
LEMMA PyPlaces ==
  ASSUME NEW b \in Seq(Nat), Len(b) >= FixedHeaderCells,
         PayloadEnd(b) # NoEnd, FooterHeaderCells <= Len(FooterBytes(b))
  PROVE  /\ HeaderOf(b).payloadOffset \in Nat /\ PayloadEnd(b) \in Nat
         /\ HeaderOf(b).payloadOffset + 5 <= PayloadEnd(b) /\ PayloadEnd(b) <= Len(b)
         /\ PayloadBytes(b) \in Seq(Nat)
         /\ PayloadBytes(b)[2] = b[HeaderOf(b).payloadOffset + 2]
<1> DEFINE p == HeaderOf(b).payloadOffset
           e == PayloadEnd(b)
<1>1. p \in Nat
  BY HeaderIs, SMTT(30)
<1>2. e \in Nat /\ e >= p + 5
  BY <1>1, ScanForward DEF PayloadEnd
<1>3. PayloadBytes(b) = Slice(b, p, e) /\ FooterBytes(b) = Slice(b, e, Len(b))
  BY DEF PayloadBytes, FooterBytes
<1> HIDE DEF p, e
<1>4. e <= Len(b)
  <2>1. PICK n \in Nat : n = Len(b)
    OBVIOUS
  <2>2. CASE n <= e
    <3>1. Len(Slice(b, e, n)) = 0
      BY <1>2, <2>2, EmptySlice
    <3> QED BY <1>3, <2>1, <3>1 DEF FooterHeaderCells
  <2>3. n <= e \/ n >= e
    BY <1>2
  <2> QED BY <2>1, <2>2, <2>3
<1>5. p <= e
  BY <1>1, <1>2
<1>6. /\ Slice(b, p, e) \in Seq(Nat)
      /\ \A i \in 1 .. e - p : Slice(b, p, e)[i] = b[p + i]
  BY <1>1, <1>2, <1>4, <1>5, SliceCells
<1>7. Slice(b, p, e)[2] = b[p + 2]
  <2>1. 2 \in 1 .. e - p
    BY <1>1, <1>2
  <2> QED BY <1>6, <2>1
<1> QED BY <1>1, <1>2, <1>3, <1>4, <1>6, <1>7 DEF p, e

(* What is tested of the chunks, said of those the Python reader decrypts. *)
LEMMA PyChunksAre ==
  ASSUME NEW b, PayloadBytes(b) \in Seq(Nat), PyPayloadParses(PayloadBytes(b))
  PROVE  /\ PyChunks(b) \in ChunkListsBy(PyChunkEntryEnd, PayloadBytes(b))
         /\ \A q \in ChunkListsBy(PyChunkEntryEnd, PayloadBytes(b)) : q = PyChunks(b)
         /\ AllFull(PayloadBytes(b)) <=>
              \A k \in 1 .. Len(PyChunks(b)) - 1 :
                Len(PyChunks(b)[k].ciphertext) = PayloadBytes(b)[2]
<1> DEFINE slice == PayloadBytes(b)
           PyLists == ChunkListsBy(PyChunkEntryEnd, slice)
           chunks == PyChunks(b)
<1>1. PyLists # {} /\ Len(slice) >= PayloadHeaderCells
  BY DEF PyPayloadParses
<1>2. chunks = CHOOSE q \in PyLists : TRUE
  BY DEF PyChunks, PayloadBytes, PyPayloadEnd, PayloadEnd
<1>3. \A p, q \in PyLists : p = q
  BY <1>1, OneChunkList
<1>4. AllFull(slice) <=> \A q \in PyLists : \A k \in 1 .. Len(q) - 1 :
                           Len(q[k].ciphertext) = slice[2]
  BY DEF AllFull
<1> HIDE DEF PyLists, chunks
<1>5. chunks \in PyLists
  BY <1>1, <1>2
<1> QED BY <1>3, <1>4, <1>5 DEF PyLists, chunks

(* The readers agree on every container but for what IsLax names.          *)
LEMMA ReadersAlike ==
  ASSUME NEW b \in Seq(Nat), Len(b) >= FixedHeaderCells
  PROVE  /\ DecryptReads(b) <=> PyReads(b) /\ ~IsLax(b)
         /\ DecryptReads(b) => PyChunks(b) = PayloadOf(PayloadBytes(b)).chunks
<1> DEFINE h == HeaderOf(b)
           slice == PayloadBytes(b)
           notFull == \E k \in 1 .. Len(PyChunks(b)) - 1 :
                        Len(PyChunks(b)[k].ciphertext) # b[h.payloadOffset + 2]
           f == FooterBytes(b)
<1>1. /\ PyPayloadEnd(b) = PayloadEnd(b)
      /\ Slice(b, PyPayloadEnd(b), Len(b)) = f
      /\ Slice(b, h.payloadOffset, PyPayloadEnd(b)) = slice
  BY DEF PyPayloadEnd, PayloadEnd, FooterBytes, PayloadBytes
<1>2. ASSUME slice \in Seq(Nat), slice[2] = b[h.payloadOffset + 2]
      PROVE  /\ PayloadParses(slice) <=> PyPayloadParses(slice) /\ ~notFull
             /\ PayloadParses(slice) => PyChunks(b) = PayloadOf(slice).chunks
  <2>1. /\ PayloadParses(slice) <=> PyPayloadParses(slice) /\ AllFull(slice)
        /\ PayloadParses(slice) =>
             PayloadOf(slice).chunks \in ChunkListsBy(PyChunkEntryEnd, slice)
    BY <1>2, PayloadAlike
  <2>2. ASSUME PyPayloadParses(slice)
        PROVE  /\ \A q \in ChunkListsBy(PyChunkEntryEnd, slice) : q = PyChunks(b)
               /\ AllFull(slice) <=> ~notFull
    BY <1>2, <2>2, PyChunksAre
  <2> HIDE DEF slice, notFull
  <2> QED BY <2>1, <2>2
<1>3. ASSUME DecryptReads(b)
      PROVE  PyReads(b) /\ ~IsLax(b) /\ PyChunks(b) = PayloadOf(slice).chunks
  <2>1. /\ StructureOK(b) /\ HeaderParses(b) /\ PayloadEnd(b) # NoEnd
        /\ Len(b) >= MetadataEnd(h) /\ Len(b) >= h.payloadOffset
        /\ PolicyParses(PolicyBytes(b)) /\ WrapsParses(WrapsBytes(b))
        /\ HasFileUuid(WrapsOf(WrapsBytes(b)))
        /\ Len(FooterOf(f).root) = HashLen /\ Len(FooterOf(f).tag) = HashLen
        /\ FooterParses(f) /\ PayloadParses(slice) /\ Supported(h)
    BY <1>3 DEF DecryptReads, StructureOK
  <2>2. PyHeaderParses(b) /\ ~(h.headerLen < FixedHeaderCells)
    <3>1. h.headerLen \in Nat
      BY HeaderIs
    <3> QED BY <2>1, <3>1 DEF HeaderParses, PyHeaderParses, LayoutValid, FixedHeaderCells
  <2>3. PyPolicyParses(PolicyBytes(b))
    BY <2>1 DEF PolicyParses, PyPolicyParses, PolicyCells
  <2>4. h.policyLen = PolicyCells /\ PolicyAdmits(PolicyOf(PolicyBytes(b)))
    <3>1. PICK w \in Nat, k \in Nat : w = WrapsStart(h) /\ k = 9 /\ w - k = h.policyLen
                                      /\ k <= w /\ w <= Len(b)
      <4>1. WrapsStart(h) \in Nat /\ MetadataStart(h) \in Nat /\ MetadataEnd(h) \in Nat
            /\ 9 <= WrapsStart(h) /\ WrapsStart(h) <= MetadataStart(h)
            /\ MetadataStart(h) <= MetadataEnd(h) /\ WrapsStart(h) - 9 = h.policyLen
        BY <2>1, HeaderPlaces
      <4>2. WrapsStart(h) <= Len(b)
        BY <2>1, <4>1
      <4> QED BY <4>1, <4>2
    <3>2. PolicyBytes(b) = Slice(b, k, w)
      BY <3>1 DEF PolicyBytes, FixedHeaderCells
    <3>3. Len(Slice(b, k, w)) = w - k
      BY <3>1, SliceCells
    <3> QED BY <2>1, <3>1, <3>2, <3>3 DEF PolicyParses
  <2>5. WrapsBytes(b) \in Seq(Nat)
    <3>1. PICK w \in Nat, m \in Nat : w = WrapsStart(h) /\ m = MetadataStart(h)
                                      /\ w <= m /\ m <= Len(b)
      <4>1. WrapsStart(h) \in Nat /\ MetadataStart(h) \in Nat /\ MetadataEnd(h) \in Nat
            /\ WrapsStart(h) <= MetadataStart(h) /\ MetadataStart(h) <= MetadataEnd(h)
        BY <2>1, HeaderPlaces
      <4>2. MetadataStart(h) <= Len(b)
        BY <2>1, <4>1
      <4> QED BY <4>1, <4>2
    <3> QED BY <3>1, SliceCells DEF WrapsBytes
  <2>6. EncodeWraps(WrapsOf(WrapsBytes(b))) = WrapsBytes(b)
    BY <2>1, <2>5, WrapsSectionIsEncoded
  <2>7. PyWrapsParses(WrapsBytes(b))
    <3>1. Len(WrapsBytes(b)) \in Nat
      BY <2>5
    <3> QED BY <2>1, <3>1 DEF WrapsParses, PyWrapsParses, Consumed
  <2>8. PyFooterParses(f) /\ FooterHeaderCells <= Len(f)
    BY <2>1 DEF FooterParses, PyFooterParses, FooterEnds, FooterHeaderCells
  <2>9. slice \in Seq(Nat) /\ slice[2] = b[h.payloadOffset + 2]
    BY <2>1, <2>8, PyPlaces
  <2>10. PyPayloadParses(slice) /\ ~notFull /\ PyChunks(b) = PayloadOf(slice).chunks
    BY <1>2, <2>1, <2>9
  <2>11. PyReads(b)
    BY <1>1, <2>1, <2>2, <2>3, <2>7, <2>8, <2>10 DEF PyReads
  <2>12. ~IsLax(b)
    BY <2>1, <2>2, <2>4, <2>6, <2>10 DEF IsLax
  <2> QED BY <2>10, <2>11, <2>12
<1>4. ASSUME PyReads(b), ~IsLax(b)
      PROVE  DecryptReads(b)
  <2>1. /\ PyHeaderParses(b) /\ PayloadEnd(b) # NoEnd
        /\ Len(b) >= MetadataEnd(h) /\ Len(b) >= h.payloadOffset
        /\ PyPolicyParses(PolicyBytes(b)) /\ PyWrapsParses(WrapsBytes(b))
        /\ PyFooterParses(f) /\ HasFileUuid(WrapsOf(WrapsBytes(b))) /\ PyPayloadParses(slice)
    BY <1>1, <1>4 DEF PyReads
  <2>2. /\ Supported(h) /\ ~(h.headerLen < FixedHeaderCells) /\ h.policyLen = PolicyCells
        /\ PolicyAdmits(PolicyOf(PolicyBytes(b)))
        /\ EncodeWraps(WrapsOf(WrapsBytes(b))) = WrapsBytes(b)
        /\ Len(FooterOf(f).root) = HashLen
        /\ ~notFull
    BY <1>4 DEF IsLax
  <2>3. HeaderParses(b)
    <3>1. h.headerLen \in Nat
      BY HeaderIs
    <3> QED BY <2>1, <2>2, <3>1 DEF HeaderParses, PyHeaderParses, LayoutValid, FixedHeaderCells
  <2>4. FooterParses(f) /\ FooterHeaderCells <= Len(f) /\ Len(FooterOf(f).tag) = HashLen
    BY <2>1 DEF FooterParses, PyFooterParses, FooterEnds, FooterHeaderCells
  <2>5. /\ PayloadEnd(b) <= Len(b)
        /\ slice \in Seq(Nat) /\ slice[2] = b[h.payloadOffset + 2]
    BY <2>1, <2>4, PyPlaces
  <2>6. PayloadParses(slice)
    BY <1>2, <2>1, <2>2, <2>5
  <2>7. PICK w \in Nat, k \in Nat, m \in Nat :
          /\ w = WrapsStart(h) /\ k = 9 /\ m = MetadataStart(h)
          /\ w - k = h.policyLen /\ k <= w /\ w <= m /\ m <= Len(b) /\ w <= Len(b)
    <3>1. WrapsStart(h) \in Nat /\ MetadataStart(h) \in Nat /\ MetadataEnd(h) \in Nat
          /\ 9 <= WrapsStart(h) /\ WrapsStart(h) <= MetadataStart(h)
          /\ MetadataStart(h) <= MetadataEnd(h) /\ WrapsStart(h) - 9 = h.policyLen
      BY <2>3, HeaderPlaces
    <3>2. WrapsStart(h) <= Len(b) /\ MetadataStart(h) <= Len(b)
      BY <2>1, <3>1
    <3> QED BY <3>1, <3>2
  <2>8. PolicyParses(PolicyBytes(b))
    <3>1. PolicyBytes(b) = Slice(b, k, w)
      BY <2>7 DEF PolicyBytes, FixedHeaderCells
    <3>2. Len(Slice(b, k, w)) = w - k
      BY <2>7, SliceCells
    <3> QED BY <2>1, <2>2, <2>7, <3>1, <3>2 DEF PolicyParses, PyPolicyParses
  <2>9. WrapsParses(WrapsBytes(b))
    <3> DEFINE ws == WrapsBytes(b)
               end == EntryStarts(ws)[ws[2]]
    <3>1. ws \in Seq(Nat)
      BY <2>7, SliceCells DEF WrapsBytes
    <3>2. /\ Len(ws) >= WrapsHeaderCells /\ ws[1] = Version /\ IsCount(ws[2])
          /\ end <= Len(ws)
          /\ \A i, j \in 1 .. ws[2] : WrapsOf(ws)[i].id = WrapsOf(ws)[j].id => i = j
      BY <2>1 DEF PyWrapsParses
    <3> HIDE DEF ws
    <3>3. EncodeWraps(WrapsOf(ws)) = Slice(ws, 0, end) /\ end \in Nat
      BY <3>1, <3>2, WrapsAreEncoded
    <3>4. Slice(ws, 0, end) = ws
      BY <2>2, <3>3 DEF ws
    <3>5. Len(Slice(ws, 0, end)) = end
      <4> HIDE DEF end
      <4>1. PICK o \in Nat : o = 0
        OBVIOUS
      <4>2. Len(Slice(ws, o, end)) = end - o
        <5>1. o <= end
          BY <3>3, <4>1
        <5> QED BY <3>1, <3>2, <3>3, <5>1, SliceCells
      <4> QED BY <3>3, <4>1, <4>2
    <3>6. end = Len(ws)
      BY <3>4, <3>5
    <3>7. WrapsParses(ws)
      BY <3>2, <3>6 DEF WrapsParses, Consumed
    <3> QED BY <3>7 DEF ws
  <2>10. StructureOK(b)
    <3>1. Len(b) >= PayloadEnd(b)
      BY <2>5
    <3> QED BY <2>1, <2>3, <2>4, <3>1 DEF StructureOK
  <2> QED BY <2>1, <2>2, <2>4, <2>6, <2>8, <2>9, <2>10 DEF DecryptReads
<1> QED BY <1>3, <1>4

-----------------------------------------------------------------------------
(* Sections that are put one after the other, under a header that gives    *)
(* their lengths, are found again.                                         *)
Header == [major : Nat, minor : Nat, suite : Nat,
           headerLen : Nat, policyLen : Nat, wrapsLen : Nat, metadataLen : Nat,
           payloadOffset : Nat]

Tells(h, p, w, m) ==
  /\ h \in Header
  /\ h.headerLen = FixedHeaderCells /\ h.policyLen = Len(p) /\ h.wrapsLen = Len(w)
  /\ h.metadataLen = Len(m)
  /\ h.payloadOffset = FixedHeaderCells + Len(p) + Len(w) + Len(m)

IsPutTogether(b, h, p, w, m, pl, f) ==
  b = EncodeHeader(h) \o p \o w \o m \o pl \o f

HasSections(b, h, p, w, m, pl, f) ==
  /\ b \in Seq(Nat) /\ Len(b) >= FixedHeaderCells + Len(p) + Len(w)
  /\ b[1] = Magic
  /\ HeaderOf(b) = h
  /\ Slice(b, FixedHeaderCells, FixedHeaderCells + Len(p)) = p
  /\ Slice(b, FixedHeaderCells + Len(p), FixedHeaderCells + Len(p) + Len(w)) = w
  /\ Slice(b, FixedHeaderCells + Len(p) + Len(w), FixedHeaderCells + Len(p) + Len(w) + Len(m)) = m
  /\ \E o \in Nat : \E e \in Nat :
       /\ o = FixedHeaderCells + Len(p) + Len(w) + Len(m)
       /\ o <= e /\ e <= Len(b)
       /\ Slice(b, o, e) = pl /\ Slice(b, e, Len(b)) = f

(* The sections are found in what they were put together to.               *)
LEMMA Assembled ==
  ASSUME NEW p \in Seq(Nat), NEW w \in Seq(Nat), NEW m \in Seq(Nat), NEW pl \in Seq(Nat),
         NEW f \in Seq(Nat), NEW h, Tells(h, p, w, m),
         NEW b, IsPutTogether(b, h, p, w, m, pl, f)
  PROVE  HasSections(b, h, p, w, m, pl, f)
<1> DEFINE v  == EncodeHeader(h)
           b1 == v \o p
           b2 == b1 \o w
           b3 == b2 \o m
           b4 == b3 \o pl
           b5 == b4 \o f
<1>1. v \in Seq(Nat) /\ Len(v) = 9 /\ v[1] = Magic /\ HeaderOf(v) = h
  BY HeaderWritten DEF Tells, Header, FixedHeaderCells
<1>2. b = b5
  BY DEF IsPutTogether
<1> HIDE DEF v
<1>3. b1 \in Seq(Nat) /\ Len(b1) = Len(v) + Len(p) /\ \A i \in 1 .. Len(v) : b1[i] = v[i]
  BY <1>1, Joined
<1> HIDE DEF b1
<1>4. b2 \in Seq(Nat) /\ Len(b2) = Len(b1) + Len(w) /\ \A i \in 1 .. Len(b1) : b2[i] = b1[i]
  BY <1>3, Joined
<1> HIDE DEF b2
<1>5. b3 \in Seq(Nat) /\ Len(b3) = Len(b2) + Len(m) /\ \A i \in 1 .. Len(b2) : b3[i] = b2[i]
  BY <1>4, Joined
<1> HIDE DEF b3
<1>6. b4 \in Seq(Nat) /\ Len(b4) = Len(b3) + Len(pl) /\ \A i \in 1 .. Len(b3) : b4[i] = b3[i]
  BY <1>5, Joined
<1> HIDE DEF b4
<1>7. b5 \in Seq(Nat) /\ Len(b5) = Len(b4) + Len(f) /\ \A i \in 1 .. Len(b4) : b5[i] = b4[i]
  BY <1>6, Joined
<1> HIDE DEF b5
<1>8. PICK n0 \in Nat, n1 \in Nat, n2 \in Nat, n3 \in Nat, n4 \in Nat, n5 \in Nat :
        /\ n0 = Len(v) /\ n1 = Len(b1) /\ n2 = Len(b2) /\ n3 = Len(b3) /\ n4 = Len(b4) /\ n5 = Len(b5)
  <2>1. Len(v) \in Nat /\ Len(b1) \in Nat /\ Len(b2) \in Nat
    BY <1>1, <1>3, <1>4
  <2>2. Len(b3) \in Nat /\ Len(b4) \in Nat /\ Len(b5) \in Nat
    BY <1>5, <1>6, <1>7
  <2> QED BY <2>1, <2>2, Zenon
<1>9. PICK lp \in Nat, lw \in Nat, lm \in Nat, ll \in Nat, lf \in Nat :
        lp = Len(p) /\ lw = Len(w) /\ lm = Len(m) /\ ll = Len(pl) /\ lf = Len(f)
  OBVIOUS
<1>10. /\ n0 = 9 /\ n1 = 9 + lp /\ n2 = 9 + lp + lw /\ n3 = 9 + lp + lw + lm
       /\ n1 = n0 + lp /\ n2 = n1 + lw /\ n3 = n2 + lm /\ n4 = n3 + ll /\ n5 = n4 + lf
  BY <1>1, <1>3, <1>4, <1>5, <1>6, <1>7, <1>8, <1>9
<1>11. n0 <= n1 /\ n1 <= n2 /\ n2 <= n3 /\ n3 <= n4 /\ n4 <= n5
       /\ n1 <= n3 /\ n1 <= n4 /\ n2 <= n4
  BY <1>10
<1>12. \A i \in 1 .. 9 : b5[i] = v[i]
  <2>1. \A i \in 1 .. 9 : /\ i \in 1 .. Len(v) /\ i \in 1 .. Len(b1) /\ i \in 1 .. Len(b2)
                          /\ i \in 1 .. Len(b3) /\ i \in 1 .. Len(b4)
    BY <1>8, <1>10
  <2> QED BY <1>3, <1>4, <1>5, <1>6, <1>7, <2>1
<1>13. HeaderOf(b5) = h
  <2>1. HeaderOf(b5) = HeaderOf(v)
    <3>1. /\ b5[2] = v[2] /\ b5[3] = v[3] /\ b5[4] = v[4] /\ b5[5] = v[5]
          /\ b5[6] = v[6] /\ b5[7] = v[7] /\ b5[8] = v[8] /\ b5[9] = v[9]
      BY <1>12
    <3> QED BY <3>1, Zenon DEF HeaderOf
  <2> QED BY <1>1, <2>1
<1>14. ASSUME NEW from \in Nat, NEW to \in Nat, from <= to
       PROVE  /\ to <= n4 => Slice(b5, from, to) = Slice(b4, from, to)
              /\ to <= n3 => Slice(b4, from, to) = Slice(b3, from, to)
              /\ to <= n2 => Slice(b3, from, to) = Slice(b2, from, to)
              /\ to <= n1 => Slice(b2, from, to) = Slice(b1, from, to)
  <2>1. ASSUME to <= n4 PROVE Slice(b5, from, to) = Slice(b4, from, to)
    <3>1. to <= Len(b4)
      BY <1>8, <2>1
    <3>2. Slice(b4 \o f, from, to) = Slice(b4, from, to)
      BY <1>6, <1>14, <3>1, SliceOfLeft
    <3> QED BY <3>2 DEF b5
  <2>2. ASSUME to <= n3 PROVE Slice(b4, from, to) = Slice(b3, from, to)
    <3>1. to <= Len(b3)
      BY <1>8, <2>2
    <3>2. Slice(b3 \o pl, from, to) = Slice(b3, from, to)
      BY <1>5, <1>14, <3>1, SliceOfLeft
    <3> QED BY <3>2 DEF b4
  <2>3. ASSUME to <= n2 PROVE Slice(b3, from, to) = Slice(b2, from, to)
    <3>1. to <= Len(b2)
      BY <1>8, <2>3
    <3>2. Slice(b2 \o m, from, to) = Slice(b2, from, to)
      BY <1>4, <1>14, <3>1, SliceOfLeft
    <3> QED BY <3>2 DEF b3
  <2>4. ASSUME to <= n1 PROVE Slice(b2, from, to) = Slice(b1, from, to)
    <3>1. to <= Len(b1)
      BY <1>8, <2>4
    <3>2. Slice(b1 \o w, from, to) = Slice(b1, from, to)
      BY <1>3, <1>14, <3>1, SliceOfLeft
    <3> QED BY <3>2 DEF b2
  <2> QED BY <2>1, <2>2, <2>3, <2>4
<1>15. /\ Slice(b1, n0, n1) = p /\ Slice(b2, n1, n2) = w /\ Slice(b3, n2, n3) = m
       /\ Slice(b4, n3, n4) = pl /\ Slice(b5, n4, n5) = f
  <2>1. Slice(b1, n0, n1) = p
    <3>1. Slice(v \o p, Len(v), Len(v) + Len(p)) = p
      BY <1>1, SliceOfRight
    <3> QED BY <1>3, <1>8, <3>1 DEF b1
  <2>2. Slice(b2, n1, n2) = w
    <3>1. Slice(b1 \o w, Len(b1), Len(b1) + Len(w)) = w
      BY <1>3, SliceOfRight
    <3> QED BY <1>4, <1>8, <3>1 DEF b2
  <2>3. Slice(b3, n2, n3) = m
    <3>1. Slice(b2 \o m, Len(b2), Len(b2) + Len(m)) = m
      BY <1>4, SliceOfRight
    <3> QED BY <1>5, <1>8, <3>1 DEF b3
  <2>4. Slice(b4, n3, n4) = pl
    <3>1. Slice(b3 \o pl, Len(b3), Len(b3) + Len(pl)) = pl
      BY <1>5, SliceOfRight
    <3> QED BY <1>6, <1>8, <3>1 DEF b4
  <2>5. Slice(b5, n4, n5) = f
    <3>1. Slice(b4 \o f, Len(b4), Len(b4) + Len(f)) = f
      BY <1>6, SliceOfRight
    <3> QED BY <1>7, <1>8, <3>1 DEF b5
  <2> QED BY <2>1, <2>2, <2>3, <2>4, <2>5
<1>16. /\ Slice(b5, n0, n1) = p /\ Slice(b5, n1, n2) = w /\ Slice(b5, n2, n3) = m
       /\ Slice(b5, n3, n4) = pl
  <2>1. Slice(b5, n0, n1) = Slice(b1, n0, n1)
    BY <1>11, <1>14
  <2>2. Slice(b5, n1, n2) = Slice(b2, n1, n2)
    BY <1>11, <1>14
  <2>3. Slice(b5, n2, n3) = Slice(b3, n2, n3)
    BY <1>11, <1>14
  <2>4. Slice(b5, n3, n4) = Slice(b4, n3, n4)
    BY <1>11, <1>14
  <2> QED BY <1>15, <2>1, <2>2, <2>3, <2>4
<1>17. b5[1] = Magic
  BY <1>1, <1>12
<1>18. /\ FixedHeaderCells = n0 /\ FixedHeaderCells + Len(p) = n1
       /\ FixedHeaderCells + Len(p) + Len(w) = n2
       /\ FixedHeaderCells + Len(p) + Len(w) + Len(m) = n3
  BY <1>9, <1>10 DEF FixedHeaderCells
<1>19. n2 <= n5 /\ n3 <= n5
  BY <1>11
<1>20. /\ b5 \in Seq(Nat) /\ Len(b5) >= FixedHeaderCells + Len(p) + Len(w)
       /\ b5[1] = Magic /\ HeaderOf(b5) = h
       /\ Slice(b5, FixedHeaderCells, FixedHeaderCells + Len(p)) = p
       /\ Slice(b5, FixedHeaderCells + Len(p), FixedHeaderCells + Len(p) + Len(w)) = w
       /\ Slice(b5, FixedHeaderCells + Len(p) + Len(w),
                FixedHeaderCells + Len(p) + Len(w) + Len(m)) = m
  BY <1>7, <1>8, <1>13, <1>16, <1>17, <1>18, <1>19
<1>21. \E o \in Nat : \E e \in Nat :
         /\ o = FixedHeaderCells + Len(p) + Len(w) + Len(m)
         /\ o <= e /\ e <= Len(b5)
         /\ Slice(b5, o, e) = pl /\ Slice(b5, e, Len(b5)) = f
  BY <1>8, <1>11, <1>15, <1>16, <1>18
<1> QED BY <1>2, <1>20, <1>21 DEF HasSections

-----------------------------------------------------------------------------
(* The container that encrypt or rewrap wrote of the sections s.           *)
IsWritten(b, s) ==
  /\ s = [header |-> s.header, policy |-> s.policy, wraps |-> s.wraps, metadata |-> s.metadata,
          gap |-> s.gap, payload |-> s.payload, footer |-> s.footer]
  /\ s.header = WrittenHeader(OwnFormat, s.wraps, Len(s.metadata))
  /\ s.policy \in [threshold : Nat, total : Nat, count : Nat]
  /\ PolicyAdmits(s.policy) /\ s.policy.count = Count(s.wraps)
  /\ s.wraps \in WrapLists /\ s.wraps # <<>> /\ WrapsEncodable(s.wraps)
  /\ s.metadata \in Seq(Nat) /\ s.gap = <<>>
  /\ s.payload \in [chunkSize : Nat, tagSize : Nat, chunks : Chunks]
  /\ PayloadEncodable(s.payload)
  /\ s.footer = [root |-> s.footer.root, tag |-> SomeTag]
  /\ s.footer.root \in Seq(Nat) /\ Len(s.footer.root) = HashLen
  /\ IsPutTogether(b, s.header, EncodePolicy(s.policy), EncodeWraps(s.wraps), s.metadata,
                   EncodePayload(s.payload), EncodeFooter(s.footer))

(* A header written from the lengths tells the lengths.                    *)
LEMMA HeaderTells ==
  ASSUME NEW wraps, NEW p \in Seq(Nat), NEW w \in Seq(Nat), NEW m \in Seq(Nat),
         Len(p) = PolicyCells, Len(w) = WrapsLen(wraps)
  PROVE  Tells(WrittenHeader(OwnFormat, wraps, Len(m)), p, w, m)
<1> DEFINE h == WrittenHeader(OwnFormat, wraps, Len(m))
<1>1. PICK a \in Nat : a = Len(w)
  OBVIOUS
<1>2. PICK c \in Nat : c = Len(m)
  OBVIOUS
<1>3. h = [major |-> 1, minor |-> 0, suite |-> 1,
           headerLen |-> 9, policyLen |-> 4, wrapsLen |-> a, metadataLen |-> c,
           payloadOffset |-> 9 + 4 + a + c]
  BY <1>1, <1>2 DEF WrittenHeader, OwnFormat, FormatMajor, FormatMinor, SuiteId,
       FixedHeaderCells, PolicyCells
<1>4. 9 + 4 + a + c \in Nat
  OBVIOUS
<1>5. h \in Header
  BY <1>3, <1>4 DEF Header
<1> HIDE DEF h
<1>6. /\ h.headerLen = 9 /\ h.policyLen = 4 /\ h.wrapsLen = a /\ h.metadataLen = c
      /\ h.payloadOffset = 9 + 4 + a + c
  BY <1>3
<1>7. Tells(h, p, w, m)
  BY <1>1, <1>2, <1>5, <1>6 DEF Tells, FixedHeaderCells, PolicyCells
<1> QED BY <1>7 DEF h

(* The tag is HashLen cells.                                               *)
LEMMA TagCells == SomeTag \in Seq(Nat) /\ Len(SomeTag) = HashLen /\ SomeTag # <<>>
<1>1. HashLen \in Nat \ {0}
  BY WidthsAssumption
<1> QED BY <1>1 DEF SomeTag

(* The parts such a container is put together from.                        *)
LEMMA SectionsTyped ==
  ASSUME NEW b, NEW s, IsWritten(b, s)
  PROVE  /\ s.wraps \in Seq([id : Seq(Nat), stanza : Seq(Nat)])
         /\ EncodePolicy(s.policy) \in Seq(Nat) /\ EncodeWraps(s.wraps) \in Seq(Nat)
         /\ EncodePayload(s.payload) \in Seq(Nat) /\ EncodeFooter(s.footer) \in Seq(Nat)
         /\ Tells(s.header, EncodePolicy(s.policy), EncodeWraps(s.wraps), s.metadata)
         /\ PayloadParses(EncodePayload(s.payload))
         /\ FooterParses(EncodeFooter(s.footer)) /\ FooterOf(EncodeFooter(s.footer)) = s.footer
         /\ Len(EncodePolicy(s.policy)) = PolicyCells
         /\ Len(EncodeWraps(s.wraps)) >= WrapsHeaderCells
<1>1. s.wraps \in Seq([id : Seq(Nat), stanza : Seq(Nat)])
  BY ContentsAssumption DEF IsWritten, Cells
<1>2. EncodePolicy(s.policy) \in Seq(Nat) /\ Len(EncodePolicy(s.policy)) = PolicyCells
  BY PolicyWritten DEF IsWritten
<1>3. EncodeWraps(s.wraps) \in Seq(Nat) /\ Len(EncodeWraps(s.wraps)) = WrapsLen(s.wraps)
      /\ Len(EncodeWraps(s.wraps)) >= WrapsHeaderCells
  BY <1>1, WrapsPlaced, WrapsWritten DEF IsWritten
<1>4. EncodePayload(s.payload) \in Seq(Nat) /\ PayloadParses(EncodePayload(s.payload))
  BY PayloadWritten DEF IsWritten
<1>5. /\ EncodeFooter(s.footer) \in Seq(Nat)
      /\ FooterParses(EncodeFooter(s.footer)) /\ FooterOf(EncodeFooter(s.footer)) = s.footer
  <2>1. HashLen \in Nat \ {0}
    BY WidthsAssumption
  <2>2. PICK r \in Seq(Nat) : r = s.footer.root /\ Len(r) = HashLen
    BY DEF IsWritten
  <2>3. r # <<>>
    BY <2>1, <2>2
  <2>4. PICK t \in Seq(Nat) : t = SomeTag /\ t # <<>>
    BY TagCells
  <2>5. s.footer = [root |-> r, tag |-> t]
    BY <2>2, <2>4 DEF IsWritten
  <2>6. s.footer \in [root : Seq(Nat), tag : Seq(Nat)] /\ s.footer.root # <<>> /\ s.footer.tag # <<>>
    BY <2>3, <2>4, <2>5
  <2> QED BY <2>6, FooterWritten
<1>6. Tells(s.header, EncodePolicy(s.policy), EncodeWraps(s.wraps), s.metadata)
  <2>1. s.header = WrittenHeader(OwnFormat, s.wraps, Len(s.metadata)) /\ s.metadata \in Seq(Nat)
    BY DEF IsWritten
  <2> QED BY <1>2, <1>3, <2>1, HeaderTells
<1> QED BY <1>1, <1>2, <1>3, <1>4, <1>5, <1>6

(* Its sections are found where they were put, without a key.              *)
LEMMA WrittenSections ==
  ASSUME NEW b, NEW s, IsWritten(b, s)
  PROVE  /\ b \in Seq(Nat) /\ StructureOK(b)
         /\ HeaderOf(b) = s.header /\ Supported(s.header)
         /\ PolicyBytes(b) = EncodePolicy(s.policy)
         /\ WrapsBytes(b) = EncodeWraps(s.wraps)
         /\ MetadataBytes(b) = s.metadata
         /\ GapBytes(b) = <<>>
         /\ PayloadBytes(b) = EncodePayload(s.payload)
         /\ FooterBytes(b) = EncodeFooter(s.footer)
<1> DEFINE h  == s.header
           p  == EncodePolicy(s.policy)
           w  == EncodeWraps(s.wraps)
           m  == s.metadata
           pl == EncodePayload(s.payload)
           f  == EncodeFooter(s.footer)
<1>1. /\ p \in Seq(Nat) /\ w \in Seq(Nat) /\ m \in Seq(Nat) /\ pl \in Seq(Nat) /\ f \in Seq(Nat)
      /\ Tells(h, p, w, m) /\ PayloadParses(pl) /\ FooterParses(f)
      /\ IsPutTogether(b, h, p, w, m, pl, f)
  BY SectionsTyped DEF IsWritten
<1> HIDE DEF h, p, w, m, pl, f
<1>2. HasSections(b, h, p, w, m, pl, f)
  BY <1>1, Assembled
<1>3. PICK lp \in Nat, lw \in Nat, lm \in Nat : lp = Len(p) /\ lw = Len(w) /\ lm = Len(m)
  <2>1. Len(p) \in Nat /\ Len(w) \in Nat /\ Len(m) \in Nat
    BY <1>1
  <2> QED BY <2>1, Zenon
<1>4. /\ b \in Seq(Nat) /\ Len(b) >= 9 + lp + lw
      /\ b[1] = Magic /\ HeaderOf(b) = h
      /\ Slice(b, 9, 9 + lp) = p /\ Slice(b, 9 + lp, 9 + lp + lw) = w
      /\ Slice(b, 9 + lp + lw, 9 + lp + lw + lm) = m
  BY <1>2, <1>3 DEF HasSections, FixedHeaderCells
<1>5. PICK o \in Nat : \E e \in Nat :
        /\ o = 9 + lp + lw + lm
        /\ o <= e /\ e <= Len(b) /\ Slice(b, o, e) = pl /\ Slice(b, e, Len(b)) = f
  BY <1>2, <1>3 DEF HasSections, FixedHeaderCells
<1>6. PICK e \in Nat :
        /\ o = 9 + lp + lw + lm
        /\ o <= e /\ e <= Len(b) /\ Slice(b, o, e) = pl /\ Slice(b, e, Len(b)) = f
  BY <1>5
<1>7. /\ h.headerLen = 9 /\ h.policyLen = lp /\ h.wrapsLen = lw /\ h.metadataLen = lm
      /\ h.payloadOffset = o
  BY <1>1, <1>3, <1>6 DEF Tells, FixedHeaderCells
<1>8. WrapsStart(h) = 9 + lp /\ MetadataStart(h) = 9 + lp + lw /\ MetadataEnd(h) = o
  BY <1>6, <1>7 DEF WrapsStart, MetadataStart, MetadataEnd, FixedHeaderCells
<1>9. PayloadEnd(b) = e
  <2>1. ScanPayloadEnd(b, o) = e
    BY <1>1, <1>4, <1>6, ScanOfParsed
  <2> QED BY <1>4, <1>7, <2>1 DEF PayloadEnd
<1>10. PolicyBytes(b) = p /\ WrapsBytes(b) = w /\ MetadataBytes(b) = m
  BY <1>4, <1>6, <1>8 DEF PolicyBytes, WrapsBytes, MetadataBytes, FixedHeaderCells
<1>11. GapBytes(b) = <<>>
  <2>1. GapBytes(b) = Slice(b, o, o)
    BY <1>4, <1>7, <1>8 DEF GapBytes
  <2> QED BY <1>4, <2>1, EmptySlice
<1>12. PayloadBytes(b) = pl /\ FooterBytes(b) = f
  BY <1>4, <1>6, <1>7, <1>9 DEF PayloadBytes, FooterBytes
<1>13. StructureOK(b)
  <2>1. Len(b) \in Nat /\ Len(b) >= o /\ Len(b) >= e /\ Len(b) >= 9
    BY <1>4, <1>6
  <2>2. HeaderParses(b)
    <3>1. h.payloadOffset = h.headerLen + h.policyLen + h.wrapsLen + h.metadataLen
      BY <1>6, <1>7
    <3> QED BY <1>4, <1>7, <2>1, <3>1 DEF HeaderParses, LayoutValid, OffsetAddsUp, FixedHeaderCells
  <2>3. e # NoEnd
    BY DEF NoEnd
  <2> QED BY <1>1, <1>4, <1>7, <1>8, <1>9, <1>12, <2>1, <2>2, <2>3 DEF StructureOK
<1>14. Supported(s.header)
  BY DEF IsWritten, WrittenHeader, OwnFormat, Supported
<1>15. /\ b \in Seq(Nat) /\ StructureOK(b) /\ HeaderOf(b) = h
       /\ PolicyBytes(b) = p /\ WrapsBytes(b) = w /\ MetadataBytes(b) = m
       /\ GapBytes(b) = <<>> /\ PayloadBytes(b) = pl /\ FooterBytes(b) = f
  BY <1>4, <1>10, <1>11, <1>12, <1>13
<1> QED BY <1>14, <1>15 DEF h, p, w, m, pl, f

(* And it is read back, or refused when it has more entries than its count *)
(* can tell.                                                               *)
LEMMA WrittenIsRead ==
  ASSUME NEW b, NEW s, IsWritten(b, s)
  PROVE  /\ Len(s.wraps) < CountLimit => DecryptReads(b) /\ SectionsOf(b) = s
         /\ ~(Len(s.wraps) < CountLimit) => ~DecryptReads(b)
<1>1. /\ StructureOK(b) /\ HeaderOf(b) = s.header /\ Supported(s.header)
      /\ PolicyBytes(b) = EncodePolicy(s.policy) /\ WrapsBytes(b) = EncodeWraps(s.wraps)
      /\ MetadataBytes(b) = s.metadata /\ GapBytes(b) = s.gap
      /\ PayloadBytes(b) = EncodePayload(s.payload) /\ FooterBytes(b) = EncodeFooter(s.footer)
  BY WrittenSections DEF IsWritten
<1>2. PolicyParses(EncodePolicy(s.policy)) /\ PolicyOf(EncodePolicy(s.policy)) = s.policy
  BY PolicyWritten DEF IsWritten
<1>3. PayloadParses(EncodePayload(s.payload)) /\ PayloadOf(EncodePayload(s.payload)) = s.payload
  BY PayloadWritten DEF IsWritten
<1>4. /\ FooterOf(EncodeFooter(s.footer)) = s.footer
      /\ Len(s.footer.root) = HashLen /\ Len(s.footer.tag) = HashLen
  <2>1. s.footer = [root |-> s.footer.root, tag |-> SomeTag] /\ Len(s.footer.root) = HashLen
    BY DEF IsWritten
  <2>2. s.footer.tag = SomeTag
    BY <2>1
  <2> QED BY <2>1, <2>2, SectionsTyped, TagCells
<1>5. s.wraps \in Seq([id : Seq(Nat), stanza : Seq(Nat)]) /\ WrapsEncodable(s.wraps)
  BY SectionsTyped DEF IsWritten
<1>6. Len(s.wraps) \in Nat /\ CountLimit \in Nat
  BY <1>5, WidthsAssumption
<1>7. HasFileUuid(s.wraps)
  <2>1. s.wraps # <<>> /\ s.wraps \in WrapLists
    BY DEF IsWritten
  <2>2. 1 \in DOMAIN s.wraps
    BY <1>5, <2>1
  <2> QED BY <2>1, <2>2, ContentsAssumption DEF HasFileUuid
<1>8. ASSUME Len(s.wraps) < CountLimit
      PROVE  DecryptReads(b) /\ SectionsOf(b) = s
  <2>1. WrapsParses(EncodeWraps(s.wraps)) /\ WrapsOf(EncodeWraps(s.wraps)) = s.wraps
    BY <1>5, <1>8, WrapsWritten
  <2>2. DecryptReads(b)
    BY <1>1, <1>2, <1>3, <1>4, <1>7, <2>1 DEF DecryptReads
  <2>3. SectionsOf(b) =
          [header |-> s.header, policy |-> s.policy, wraps |-> s.wraps, metadata |-> s.metadata,
           gap |-> s.gap, payload |-> s.payload, footer |-> s.footer]
    BY <1>1, <1>2, <1>3, <1>4, <2>1 DEF SectionsOf
  <2> QED BY <2>2, <2>3 DEF IsWritten
<1>9. ASSUME ~(Len(s.wraps) < CountLimit)
      PROVE  ~DecryptReads(b)
  <2>1. Len(s.wraps) >= CountLimit
    BY <1>6, <1>9
  <2>2. ~WrapsParses(EncodeWraps(s.wraps))
    BY <1>5, <2>1, WrapsWritten
  <2> QED BY <1>1, <2>2 DEF DecryptReads
<1> QED BY <1>8, <1>9

-----------------------------------------------------------------------------
(* The inductive invariant: whatever damage did, the container is cells;   *)
(* before any damage it is what was written of the sections meant.         *)
ContainerIsWritten == bytes # <<>> /\ faults = 0 => IsWritten(bytes, written)

IInv ==
  /\ bytes \in Seq(Nat)
  /\ faults \in 0 .. MaxFaults
  /\ ContainerIsWritten

(* The count that is written has 16 bits.                                  *)
LEMMA CountFits ==
  ASSUME NEW wraps \in Seq([id : Seq(Nat), stanza : Seq(Nat)])
  PROVE  Count(wraps) \in Nat /\ Count(wraps) < CountLimit
<1>1. PICK n \in Nat : n = Len(wraps)
  OBVIOUS
<1>2. PICK m \in Nat : m = CountLimit /\ m # 0
  BY WidthsAssumption
<1>3. n % m \in Nat /\ n % m < m
  BY <1>2
<1> QED BY <1>1, <1>2, <1>3 DEF Count

(* encrypt writes what it means.                                           *)
LEMMA EncryptWrites ==
  ASSUME NEW c \in Contents, NEW wraps \in WrapLists, Encrypt(c, wraps)
  PROVE  IsWritten(bytes', written')
<1> DEFINE h == WrittenHeader(OwnFormat, wraps, Len(c.metadata))
           p == [threshold |-> 1, total |-> 1, count |-> Count(wraps)]
           f == [root |-> c.root, tag |-> SomeTag]
<1>1. wraps \in Seq([id : Seq(Nat), stanza : Seq(Nat)])
  BY ContentsAssumption DEF Cells
<1>2. /\ c.metadata \in Seq(Nat)
      /\ c.payload \in [chunkSize : Nat, tagSize : Nat, chunks : Chunks]
      /\ c.root \in Seq(Nat) /\ Len(c.root) = HashLen
  BY ContentsAssumption DEF Cells, Chunks
<1>3. /\ wraps # <<>> /\ PayloadEncodable(c.payload)
      /\ PolicyAdmits(p) /\ WrapsEncodable(wraps)
      /\ bytes' = EncodeHeader(h) \o EncodePolicy(p) \o EncodeWraps(wraps) \o c.metadata
                    \o EncodePayload(c.payload) \o EncodeFooter(f)
      /\ written' = [header |-> h, policy |-> p, wraps |-> wraps, metadata |-> c.metadata,
                     gap |-> <<>>, payload |-> c.payload, footer |-> f]
  BY DEF Encrypt, Write
<1>4. p \in [threshold : Nat, total : Nat, count : Nat] /\ p.count = Count(wraps)
  BY <1>1, CountFits
<1>5. f = [root |-> f.root, tag |-> SomeTag] /\ f.root = c.root
  OBVIOUS
<1> HIDE DEF h, p, f
<1>6. /\ written' = [header |-> written'.header, policy |-> written'.policy,
                     wraps |-> written'.wraps, metadata |-> written'.metadata,
                     gap |-> written'.gap, payload |-> written'.payload,
                     footer |-> written'.footer]
      /\ written'.header = h /\ written'.policy = p /\ written'.wraps = wraps
      /\ written'.metadata = c.metadata /\ written'.gap = <<>> /\ written'.payload = c.payload
      /\ written'.footer = f
  BY <1>3
<1>7. IsPutTogether(bytes', h, EncodePolicy(p), EncodeWraps(wraps), c.metadata,
                    EncodePayload(c.payload), EncodeFooter(f))
  BY <1>3 DEF IsPutTogether
<1>8. h = WrittenHeader(OwnFormat, wraps, Len(c.metadata))
  BY DEF h
<1> QED BY <1>2, <1>3, <1>4, <1>5, <1>6, <1>7, <1>8 DEF IsWritten

(* rewrap finds the sections it keeps and writes them again.               *)
LEMMA RewrapWrites ==
  ASSUME NEW wraps \in WrapLists, NEW choice \in PolicyChoices, Rewrap(wraps, choice),
         IsWritten(bytes, written)
  PROVE  IsWritten(bytes', written')
<1> DEFINE s == written
           h == WrittenHeader(OwnFormat, wraps, Len(s.metadata))
           p == [threshold |-> choice.threshold, total |-> choice.total, count |-> Count(wraps)]
           f == s.footer
<1>1. wraps \in Seq([id : Seq(Nat), stanza : Seq(Nat)])
  BY ContentsAssumption DEF Cells
<1>2. /\ HeaderOf(bytes) = s.header /\ MetadataBytes(bytes) = s.metadata
      /\ PayloadBytes(bytes) = EncodePayload(s.payload)
      /\ FooterOf(FooterBytes(bytes)) = s.footer
  BY WrittenSections, SectionsTyped
<1>3. HeaderOf(bytes).metadataLen = Len(s.metadata)
      /\ WrittenHeader(HeaderOf(bytes), wraps, Len(s.metadata)) = h
  BY <1>2 DEF IsWritten, WrittenHeader, OwnFormat
<1>4. f = [root |-> f.root, tag |-> SomeTag] /\ f.root \in Seq(Nat) /\ Len(f.root) = HashLen
  BY DEF IsWritten
<1>5. /\ Len(wraps) >= choice.total
      /\ PolicyAdmits(p) /\ WrapsEncodable(wraps)
      /\ bytes' = EncodeHeader(h) \o EncodePolicy(p) \o EncodeWraps(wraps) \o s.metadata
                    \o EncodePayload(s.payload) \o EncodeFooter(f)
      /\ written' = [s EXCEPT !.header = h, !.policy = p, !.wraps = wraps]
  <2>1. [root |-> FooterOf(FooterBytes(bytes)).root, tag |-> SomeTag] = f
    BY <1>2, <1>4
  <2> QED BY <1>2, <1>3, <2>1 DEF Rewrap, Write
<1>6. /\ p \in [threshold : Nat, total : Nat, count : Nat] /\ p.count = Count(wraps)
      /\ p.total = choice.total /\ choice.total \in Nat
  BY <1>1, CountFits, ContentsAssumption
<1>7. wraps # <<>>
  <2>1. choice.total # 0
    BY <1>5 DEF PolicyAdmits
  <2>2. Len(<<>>) = 0
    OBVIOUS
  <2> QED BY <1>5, <1>6, <2>1, <2>2
<1>8. /\ s = [header |-> s.header, policy |-> s.policy, wraps |-> s.wraps,
              metadata |-> s.metadata, gap |-> s.gap, payload |-> s.payload,
              footer |-> s.footer]
      /\ s.metadata \in Seq(Nat) /\ s.gap = <<>>
      /\ s.payload \in [chunkSize : Nat, tagSize : Nat, chunks : Chunks]
      /\ PayloadEncodable(s.payload)
  BY DEF IsWritten
<1> HIDE DEF h, p
<1>9. written' = [header |-> h, policy |-> p, wraps |-> wraps, metadata |-> s.metadata,
                  gap |-> s.gap, payload |-> s.payload, footer |-> s.footer]
  BY <1>5, <1>8
<1>10. /\ written' = [header |-> written'.header, policy |-> written'.policy,
                      wraps |-> written'.wraps, metadata |-> written'.metadata,
                      gap |-> written'.gap, payload |-> written'.payload,
                      footer |-> written'.footer]
       /\ written'.header = h /\ written'.policy = p /\ written'.wraps = wraps
       /\ written'.metadata = s.metadata /\ written'.gap = s.gap /\ written'.payload = s.payload
       /\ written'.footer = f
  BY <1>9
<1>11. IsPutTogether(bytes', h, EncodePolicy(p), EncodeWraps(wraps), s.metadata,
                     EncodePayload(s.payload), EncodeFooter(f))
  BY <1>5 DEF IsPutTogether
<1>12. h = WrittenHeader(OwnFormat, wraps, Len(s.metadata))
  BY DEF h
<1> HIDE DEF f, s
<1> QED BY <1>4, <1>5, <1>6, <1>7, <1>8, <1>10, <1>11, <1>12 DEF IsWritten

(* What is written is cells, and not nothing.                              *)
LEMMA WrittenIsCells ==
  ASSUME NEW b, NEW s, IsWritten(b, s)
  PROVE  b \in Seq(Nat)
  BY WrittenSections

(* An empty file has no correct structure.                                 *)
LEMMA NothingHasNoStructure == ~StructureOK(<<>>)
<1>1. <<>> \in Seq(Nat) /\ Len(<<>>) = 0
  OBVIOUS
<1> QED BY <1>1 DEF StructureOK, HeaderParses, FixedHeaderCells

(* The invariant holds before anything is written ...                      *)
LEMMA InvInit == Init => IInv
  BY BoundsAssumption DEF Init, IInv, ContainerIsWritten

(* ... and writing, writing again and damage keep it.                      *)
LEMMA InvNext == IInv /\ [Next]_vars => IInv'
<1> SUFFICES ASSUME IInv, [Next]_vars PROVE IInv'
  OBVIOUS
<1>1. bytes \in Seq(Nat) /\ faults \in 0 .. MaxFaults /\ ContainerIsWritten /\ MaxFaults \in Nat
  BY BoundsAssumption DEF IInv
<1>2. ASSUME IsWritten(bytes', written'), faults' = faults PROVE IInv'
  <2>1. bytes' \in Seq(Nat)
    BY <1>2, WrittenIsCells
  <2> QED BY <1>1, <1>2, <2>1 DEF IInv, ContainerIsWritten
<1>3. ASSUME NEW wraps \in WrapLists, NEW c \in Contents, Encrypt(c, wraps)
      PROVE  IInv'
  <2>1. faults' = faults
    BY <1>3 DEF Encrypt
  <2> QED BY <1>2, <1>3, <2>1, EncryptWrites
<1>4. ASSUME NEW wraps \in WrapLists, NEW choice \in PolicyChoices, Rewrap(wraps, choice)
      PROVE  IInv'
  <2>1. faults = 0 /\ StructureOK(bytes) /\ faults' = faults
    BY <1>4 DEF Rewrap
  <2>2. bytes # <<>>
    BY <2>1, NothingHasNoStructure
  <2>3. IsWritten(bytes, written)
    BY <1>1, <2>1, <2>2 DEF ContainerIsWritten
  <2> QED BY <1>2, <1>4, <2>1, <2>3, RewrapWrites
<1>5. ASSUME NEW b \in Seq(Nat), Damaged(b)
      PROVE  IInv'
  <2>1. bytes' = b /\ faults' = faults + 1 /\ faults < MaxFaults
    BY <1>5 DEF Damaged
  <2>2. faults' \in 0 .. MaxFaults /\ faults' # 0
    BY <1>1, <2>1
  <2> QED BY <1>5, <2>1, <2>2 DEF IInv, ContainerIsWritten
<1>6. ASSUME NEW i \in DOMAIN bytes, ChangeCell(i) PROVE IInv'
  <2>1. PICK v \in Int : v \in 0 .. MaxCell \ {bytes[i]} /\ Damaged([bytes EXCEPT ![i] = v])
    <3>1. bytes[i] \in Nat
      BY <1>1
    <3>2. {0, 1, bytes[i] - 1, bytes[i] + 1} \subseteq Int
      BY <3>1
    <3> QED BY <1>6, <3>2 DEF ChangeCell
  <2>2. v \in Nat
    BY <2>1, BoundsAssumption
  <2>3. [bytes EXCEPT ![i] = v] \in Seq(Nat)
    BY <1>1, <2>2
  <2> QED BY <1>5, <2>1, <2>3
<1>7. ASSUME AddCell PROVE IInv'
  <2>1. PICK v \in {0, 1} : Damaged(Append(bytes, v))
    BY <1>7 DEF AddCell
  <2>2. Append(bytes, v) \in Seq(Nat)
    BY <1>1
  <2> QED BY <1>5, <2>1, <2>2
<1>8. CASE UNCHANGED vars
  BY <1>8 DEF IInv, ContainerIsWritten, vars
<1> QED BY <1>3, <1>4, <1>6, <1>7, <1>8 DEF Next

(* So it always holds.                                                     *)
LEMMA Invariant == Spec => []IInv
  BY InvInit, InvNext, PTL DEF Spec

-----------------------------------------------------------------------------
(* The number of cells left of a container, and what is left of it.        *)
LEMMA Beginnings ==
  ASSUME NEW b \in Seq(Nat), NEW n \in FixedHeaderCells .. Len(b)
  PROVE  /\ n \in Nat
         /\ SubSeq(b, 1, n) \in Seq(Nat) /\ Len(SubSeq(b, 1, n)) = n
         /\ Len(SubSeq(b, 1, n)) >= FixedHeaderCells
<1>1. n \in 0 .. Len(b) /\ n >= FixedHeaderCells
  BY DEF FixedHeaderCells
<1> QED BY <1>1, PrefixCells

(* Cells are numbers, and the wrapper counts that encrypt and rewrap write *)
(* in the policy (policy.rs) and in the wraps section (wraps.rs) are of 16 *)
(* bits, however many recipients there are.                                *)
THEOREM ContainerBytesTypes == Spec => []TypeOK
<1>1. IInv => TypeOK
  <2> SUFFICES ASSUME IInv PROVE TypeOK
    OBVIOUS
  <2>1. bytes \in Seq(Nat) /\ faults \in 0 .. MaxFaults /\ ContainerIsWritten
    BY DEF IInv
  <2>2. \A i \in DOMAIN bytes : bytes[i] \in Nat
    BY <2>1
  <2>3. ASSUME bytes # <<>>, faults = 0
        PROVE  bytes[13] < CountLimit /\ bytes[15] < CountLimit
    <3> DEFINE s == written
               p == EncodePolicy(s.policy)
               w == EncodeWraps(s.wraps)
               h == HeaderOf(bytes)
    <3>1. IsWritten(bytes, s)
      BY <2>1, <2>3 DEF ContainerIsWritten
    <3>2. /\ StructureOK(bytes) /\ PolicyBytes(bytes) = p /\ WrapsBytes(bytes) = w /\ h = s.header
      BY <3>1, WrittenSections
    <3>3. /\ p \in Seq(Nat) /\ w \in Seq(Nat) /\ Tells(s.header, p, w, s.metadata)
          /\ Len(p) = 4 /\ Len(w) >= 2
          /\ s.wraps \in Seq([id : Seq(Nat), stanza : Seq(Nat)])
      BY <3>1, SectionsTyped DEF PolicyCells, WrapsHeaderCells
    <3>4. PICK l \in Nat : l = Len(w)
      BY <3>3
    <3>5. p[4] = Count(s.wraps) /\ w[2] = Count(s.wraps) /\ Count(s.wraps) < CountLimit
      BY <3>1, <3>3, PolicyWritten, WrapsPlaced, CountFits DEF IsWritten
    <3> HIDE DEF s, p, w, h
    <3>6. WrapsStart(h) = 13 /\ MetadataStart(h) = 13 + l
      <4>1. h.policyLen = 4 /\ h.wrapsLen = l
        BY <3>2, <3>3, <3>4 DEF Tells
      <4> QED BY <4>1 DEF WrapsStart, MetadataStart, FixedHeaderCells
    <3>7. PICK m \in Nat, t \in Nat, f \in Nat : m = 13 + l /\ t = 13 /\ f = 9
      OBVIOUS
    <3>8. p = Slice(bytes, f, t) /\ w = Slice(bytes, t, m)
      BY <3>2, <3>6, <3>7 DEF PolicyBytes, WrapsBytes, FixedHeaderCells, h
    <3>9. m <= Len(bytes)
      <4>1. MetadataStart(h) <= MetadataEnd(h) /\ Len(bytes) >= MetadataEnd(h) /\ MetadataEnd(h) \in Nat
        BY <2>1, <3>2, StructurePlaces, HeaderPlaces DEF StructureOK, h
      <4> HIDE DEF IInv
      <4>2. Len(bytes) \in Nat
        BY <2>1
      <4> QED BY <3>6, <3>7, <4>1, <4>2
    <3>10. f <= t /\ t <= Len(bytes) /\ t <= m /\ t - f = 4 /\ m - t = l /\ l >= 2
      <4>1. Len(bytes) \in Nat
        BY <2>1
      <4> QED BY <3>3, <3>4, <3>7, <3>9, <4>1
    <3>11. \A i \in 1 .. t - f : Slice(bytes, f, t)[i] = bytes[f + i]
      BY <2>1, <3>10, SliceCells
    <3>12. \A i \in 1 .. m - t : Slice(bytes, t, m)[i] = bytes[t + i]
      BY <2>1, <3>9, <3>10, SliceCells
    <3>13. 4 \in 1 .. t - f /\ 2 \in 1 .. m - t /\ f + 4 = 13 /\ t + 2 = 15
      BY <3>7, <3>10
    <3>14. p[4] = bytes[13] /\ w[2] = bytes[15]
      BY <3>8, <3>11, <3>12, <3>13
    <3> QED BY <3>5, <3>14
  <2> QED BY <2>1, <2>2, <2>3 DEF TypeOK, FixedHeaderCells, PolicyCells
<1> QED BY <1>1, Invariant, PTL

(* What encrypt and rewrap write, whoever wrote last, decrypt reads back:  *)
(* the same header, policy, recipients, metadata, chunks and footer.  With *)
(* more recipients than the 16-bit count can tell (wraps.rs: len() as u16) *)
(* the container is refused, never read with fewer.                        *)
THEOREM ContainerReadsBack == Spec => []WrittenReadsBack
<1>1. IInv => WrittenReadsBack
  BY WrittenIsRead DEF IInv, ContainerIsWritten, WrittenReadsBack
<1> QED BY <1>1, Invariant, PTL

(* A container the parsers accept, damaged or not, is byte for byte what   *)
(* the encoders make of what was read: nothing has a second spelling and   *)
(* no byte lies outside the sections but the gap header_len declares.      *)
THEOREM ContainerAcceptedIsEncoding == Spec => []AcceptedIsEncoding
<1>1. IInv => AcceptedIsEncoding
  BY ReadIsEncoding DEF IInv, AcceptedIsEncoding
<1> QED BY <1>1, Invariant, PTL

(* A container that lost its end has no correct structure: the scan for    *)
(* the final chunk and the exact length of the footer notice every cut     *)
(* (scan_payload_end, FooterSection::parse).                               *)
THEOREM ContainerCutIsNoticed == Spec => []CutIsNoticed
<1>1. IInv => CutIsNoticed
  BY NoBeginning DEF IInv, CutIsNoticed
<1> QED BY <1>1, Invariant, PTL

(* Where PayloadSection::parse accepts a payload, scan_payload_end finds   *)
(* its end, in damaged containers too.                                     *)
THEOREM ContainerScanMeetsParser == Spec => []ScanMeetsParser
<1>1. IInv => ScanMeetsParser
  <2> SUFFICES ASSUME IInv, HeaderParses(bytes),
                      NEW end \in HeaderOf(bytes).payloadOffset .. Len(bytes),
                      PayloadParses(Slice(bytes, HeaderOf(bytes).payloadOffset, end))
               PROVE  PayloadEnd(bytes) = end
    BY DEF ScanMeetsParser
  <2> DEFINE offset == HeaderOf(bytes).payloadOffset
  <2>1. bytes \in Seq(Nat)
    BY DEF IInv
  <2>2. offset \in Nat
    BY <2>1, HeaderPlaces
  <2>3. PayloadParses(Slice(bytes, offset, end)) /\ end \in offset .. Len(bytes)
    OBVIOUS
  <2> HIDE DEF offset
  <2>4. end \in Nat /\ offset <= end /\ end <= Len(bytes)
    BY <2>1, <2>2, <2>3
  <2>5. ScanPayloadEnd(bytes, offset) = end
    BY <2>1, <2>2, <2>3, <2>4, ScanOfParsed
  <2> QED BY <2>5 DEF PayloadEnd, offset
<1> QED BY <1>1, Invariant, PTL

(* Whatever is left of a container, once its length was compared with      *)
(* payload_offset the metadata that rewrap_container slices is inside.     *)
THEOREM ContainerSlicesInside == Spec => []RewrapSlicesInside
<1>1. IInv => RewrapSlicesInside
  <2> SUFFICES ASSUME IInv, NEW n \in FixedHeaderCells .. Len(bytes),
                      HeaderParses(SubSeq(bytes, 1, n)),
                      n >= HeaderOf(SubSeq(bytes, 1, n)).payloadOffset
               PROVE  MetadataEnd(HeaderOf(SubSeq(bytes, 1, n))) <= n
    BY DEF RewrapSlicesInside
  <2> DEFINE b == SubSeq(bytes, 1, n)
             x == MetadataEnd(HeaderOf(b))
             y == HeaderOf(b).payloadOffset
  <2>1. n \in Nat /\ b \in Seq(Nat)
    BY Beginnings DEF IInv
  <2>2. x \in Nat /\ y \in Nat /\ x <= y
    <3> HIDE DEF b
    <3> QED BY <2>1, HeaderPlaces DEF b
  <2>3. n >= y
    OBVIOUS
  <2> HIDE DEF x, y
  <2>4. x <= n
    BY <2>1, <2>2, <2>3
  <2> QED BY <2>4 DEF x
<1> QED BY <1>1, Invariant, PTL

(* The Python reader takes the containers decrypt takes, whole, damaged or *)
(* cut off, and no others but those of the kinds IsLax names -- a foreign  *)
(* suite or format version, which it never compares (header.py:33), is one *)
(* of them -- and finds the same chunks in them.                           *)
THEOREM ContainerPythonReadsAlike == Spec => []PythonReadsAlike
<1>1. IInv => PythonReadsAlike
  <2> SUFFICES ASSUME IInv, NEW n \in FixedHeaderCells .. Len(bytes)
               PROVE  LET b == SubSeq(bytes, 1, n)
                      IN  /\ DecryptReads(b) <=> PyReads(b) /\ ~IsLax(b)
                          /\ DecryptReads(b) => PyChunks(b) = PayloadOf(PayloadBytes(b)).chunks
    BY DEF PythonReadsAlike
  <2> DEFINE b == SubSeq(bytes, 1, n)
  <2>1. b \in Seq(Nat) /\ Len(b) >= FixedHeaderCells
    BY Beginnings DEF IInv
  <2> HIDE DEF b
  <2>2. /\ DecryptReads(b) <=> PyReads(b) /\ ~IsLax(b)
        /\ DecryptReads(b) => PyChunks(b) = PayloadOf(PayloadBytes(b)).chunks
    BY <2>1, ReadersAlike
  <2> QED BY <2>2 DEF b
<1> QED BY <1>1, Invariant, PTL

=============================================================================
