------------------------ MODULE PayloadStreamProofs ------------------------
(***************************************************************************)
(* Proofs about the payload: first what PayloadWriter makes of a plaintext,*)
(* then what the reader of PayloadStream returns, whatever it is handed,   *)
(* for every chunk, epoch and plaintext size, every way of writing and any *)
(* number of seeks.                                                        *)
(***************************************************************************)
EXTENDS PayloadStream, TLAPS

USE SizesAssumption, CallsAssumption

(* The buffer: it never reaches back behind the chunks, and it is empty    *)
(* once every byte was written, because the last byte closes its chunk.    *)
(* Only an open writer is inside a write call.                             *)
BufferInv ==
  /\ 0 <= Buffered /\ Buffered < ChunkSize
  /\ written = TotalSize => bufStart = TotalSize
  /\ input > 0 => status = "open"

(* The typed part of the inductive invariant.                              *)
TypeInv == WriterTypeOK /\ BufferInv

-----------------------------------------------------------------------------
(* What one iteration of the loop of write consumes: at least one byte, no *)
(* more than is left of the input, the chunk and the plaintext.            *)
LEMMA StepConsumes ==
  ASSUME TypeInv, input > 0, written < TotalSize
  PROVE  /\ BytesToWrite \in 1 .. input
         /\ BytesToWrite <= TotalSize - written
         /\ Buffered + BytesToWrite \in 1 .. ChunkSize
         /\ written + BytesToWrite \in ByteOffsets
  BY DEF TypeInv, WriterTypeOK, BufferInv, ByteOffsets, BytesToWrite, Least, Buffered

(* The next key position is one: the epoch counter wraps within its range. *)
LEMMA NextEpochType == ASSUME NEW e \in Epochs PROVE NextEpoch(e) \in Epochs
  BY DEF Epochs, NextEpoch

LEMMA SealedType ==
  ASSUME TypeInv, NEW n \in Nat, NEW f \in BOOLEAN
  PROVE  [body |-> SealChunk(epoch, chunk, bufStart, n, f), isFinal |-> f] \in Entry
  BY DEF TypeInv, WriterTypeOK, Entry, Chunk, SealChunk, Files

(* A step that closes a chunk keeps the types.                             *)
LEMMA ClosingKeepsTypes ==
  ASSUME TypeInv, WriteStep,
         ChunkCloses(Buffered + BytesToWrite, written + BytesToWrite = TotalSize)
  PROVE  TypeInv'
<1> DEFINE n    == BytesToWrite
           last == written + BytesToWrite = TotalSize
<1>1. /\ n \in 1 .. input
      /\ Buffered + n \in 1 .. ChunkSize
      /\ written + n \in ByteOffsets
  BY StepConsumes DEF WriteStep
<1>2. FinalizeChunk(Buffered + n, last)
  BY DEF WriteStep
<1>3. chunks' = Append(chunks, [body    |-> SealChunk(epoch, chunk, bufStart, Buffered + n, last),
                                isFinal |-> last])
  BY <1>1, <1>2 DEF FinalizeChunk, FinalMark
<1>4. bufStart' = bufStart + (Buffered + n) /\ written' = written + n
  BY <1>1, <1>2 DEF FinalizeChunk, Cleared, WriteStep
<1>5. bufStart' = written'
  BY <1>1, <1>4 DEF TypeInv, WriterTypeOK, ByteOffsets, Buffered
<1>6. chunks' \in Seq(Entry)
  <2>1. [body    |-> SealChunk(epoch, chunk, bufStart, Buffered + n, last),
         isFinal |-> last] \in Entry
    <3>1. Buffered + n \in Nat
      BY <1>1
    <3>2. last \in BOOLEAN
      OBVIOUS
    <3> HIDE DEF n, last
    <3> QED BY <3>1, <3>2, SealedType
  <2> QED BY <1>3, <2>1 DEF TypeInv, WriterTypeOK
<1>7. epoch' \in Epochs /\ chunk' \in ChunkSlots
  <2>1. epoch \in Epochs /\ chunk \in ChunkSlots
    BY DEF TypeInv, WriterTypeOK
  <2>2. CASE EpochRolls(chunk + 1)
    BY <1>1, <1>2, <2>1, <2>2, NextEpochType DEF FinalizeChunk, ChunkSlots
  <2>3. CASE ~EpochRolls(chunk + 1)
    BY <1>1, <1>2, <2>1, <2>3 DEF FinalizeChunk, ChunkSlots, EpochRolls
  <2> QED BY <2>2, <2>3
<1>8. status' = "open" /\ input' \in Nat
  BY <1>1 DEF WriteStep, TypeInv, WriterTypeOK, BufferInv
<1> QED
  BY <1>1, <1>4, <1>5, <1>6, <1>7, <1>8 DEF TypeInv, WriterTypeOK, BufferInv, Buffered, ByteOffsets

(* A step that only fills the buffer keeps the types.                      *)
LEMMA FillingKeepsTypes ==
  ASSUME TypeInv, WriteStep,
         ~ChunkCloses(Buffered + BytesToWrite, written + BytesToWrite = TotalSize)
  PROVE  /\ TypeInv'
         /\ UNCHANGED <<bufStart, epoch, chunk, chunks, status>>
<1>1. /\ BytesToWrite \in 1 .. input
      /\ Buffered + BytesToWrite \in 1 .. ChunkSize
      /\ written + BytesToWrite \in ByteOffsets
  BY StepConsumes DEF WriteStep
<1>2. UNCHANGED <<bufStart, epoch, chunk, chunks, status>>
  BY DEF WriteStep
<1>3. /\ Buffered + BytesToWrite < ChunkSize
      /\ written + BytesToWrite # TotalSize
  BY <1>1 DEF ChunkCloses
<1>4. written' = written + BytesToWrite /\ input' = input - BytesToWrite
  BY DEF WriteStep
<1> QED
  BY <1>1, <1>2, <1>3, <1>4 DEF TypeInv, WriterTypeOK, BufferInv, Buffered, ByteOffsets

(* The chunks finalize returns are the writer's: the buffer is empty.      *)
LEMMA FlushesNothing ==
  ASSUME TypeInv, Finalize
  PROVE  chunks' = [i \in DOMAIN chunks |->
                      IF i = Len(chunks) THEN [chunks[i] EXCEPT !.isFinal = TRUE]
                                         ELSE chunks[i]]
  BY DEF TypeInv, WriterTypeOK, BufferInv, Finalize, FlushedChunks, Buffered, ByteOffsets

LEMMA FinalizeKeepsTypes == ASSUME TypeInv, Finalize PROVE TypeInv'
<1> DEFINE flagged(i) == IF i = Len(chunks) THEN [chunks[i] EXCEPT !.isFinal = TRUE]
                                            ELSE chunks[i]
<1>1. chunks' = [i \in 1 .. Len(chunks) |-> flagged(i)]
  BY FlushesNothing DEF TypeInv, WriterTypeOK
<1>2. \A i \in 1 .. Len(chunks) : flagged(i) \in Entry
  <2> SUFFICES ASSUME NEW i \in 1 .. Len(chunks) PROVE flagged(i) \in Entry
    OBVIOUS
  <2>1. chunks[i] \in Entry
    BY DEF TypeInv, WriterTypeOK
  <2>2. [chunks[i] EXCEPT !.isFinal = TRUE] \in Entry
    BY <2>1 DEF Entry
  <2> QED BY <2>1, <2>2
<1>3. chunks' \in Seq(Entry)
  <2> HIDE DEF flagged
  <2> QED BY <1>1, <1>2 DEF TypeInv, WriterTypeOK
<1> QED BY <1>3 DEF Finalize, TypeInv, WriterTypeOK, BufferInv, Buffered

(* The types are kept by every step.                                       *)
LEMMA StepKeepsTypes == TypeInv /\ [WriterNext]_writerVars => TypeInv'
<1> SUFFICES ASSUME TypeInv, [WriterNext]_writerVars PROVE TypeInv'
  OBVIOUS
<1>1. ASSUME NEW n \in CallSizes, WriteCall(n) PROVE TypeInv'
  BY <1>1 DEF WriteCall, TypeInv, WriterTypeOK, BufferInv, Buffered
<1>2. CASE WriteStep
  BY <1>2, ClosingKeepsTypes, FillingKeepsTypes
<1>3. CASE WriteReturn
  BY <1>3 DEF WriteReturn, TypeInv, WriterTypeOK, BufferInv, Buffered
<1>4. CASE FinalizeIncomplete
  BY <1>4 DEF FinalizeIncomplete, TypeInv, WriterTypeOK, BufferInv, Buffered
<1>5. CASE Finalize
  BY <1>5, FinalizeKeepsTypes
<1>6. CASE UNCHANGED writerVars
  BY <1>6 DEF writerVars, TypeInv, WriterTypeOK, BufferInv, Buffered
<1> QED BY <1>1, <1>2, <1>3, <1>4, <1>5, <1>6 DEF WriterNext

LEMMA InitTypes == WriterInit => TypeInv
  BY DEF WriterInit, TypeInv, WriterTypeOK, BufferInv, Buffered, Epochs, ChunkSlots, ByteOffsets

(* The writer's state always has its type: the counters stay in range,     *)
(* the buffer inside the plaintext (PayloadWriter, all operations).        *)
THEOREM WriterTyped == WriterSpec => []WriterTypeOK
<1>1. TypeInv => WriterTypeOK
  BY DEF TypeInv
<1> QED BY <1>1, InitTypes, StepKeepsTypes, PTL DEF WriterSpec

-----------------------------------------------------------------------------
(* What a loop step that closes a chunk does, for the proofs below: it     *)
(* appends the whole buffer as one chunk at the writer's key position,     *)
(* marked final exactly when it ends the plaintext.                        *)
Closed(len, last) == [body |-> SealChunk(epoch, chunk, bufStart, len, last), isFinal |-> last]

LEMMA ClosingAppends ==
  ASSUME TypeInv, WriteStep,
         ChunkCloses(Buffered + BytesToWrite, written + BytesToWrite = TotalSize)
  PROVE  \E len \in 1 .. ChunkSize, last \in BOOLEAN :
           /\ chunks' = Append(chunks, Closed(len, last))
           /\ last <=> bufStart + len = TotalSize
           /\ bufStart' = bufStart + len
           /\ len < ChunkSize => last \/ chunk = EpochSize - 1
           /\ bufStart < TotalSize
           /\ status' = status
           /\ IF EpochRolls(chunk + 1)
              THEN chunk' = 0 /\ epoch' = NextEpoch(epoch)
              ELSE chunk' = chunk + 1 /\ epoch' = epoch
<1> DEFINE len  == Buffered + BytesToWrite
           last == written + BytesToWrite = TotalSize
<1>1. /\ BytesToWrite \in 1 .. input
      /\ len \in 1 .. ChunkSize
      /\ written + BytesToWrite \in ByteOffsets
  BY StepConsumes DEF WriteStep
<1>2. FinalizeChunk(len, last)
  BY DEF WriteStep
<1>3. chunks' = Append(chunks, Closed(len, last))
  BY <1>1, <1>2 DEF FinalizeChunk, FinalMark, Closed
<1>4. last <=> bufStart + len = TotalSize
  BY <1>1 DEF Buffered, TypeInv, WriterTypeOK, ByteOffsets
<1>5. bufStart' = bufStart + len /\ status' = status
  BY <1>1, <1>2 DEF FinalizeChunk, Cleared, WriteStep
<1>6. len < ChunkSize => last \/ chunk = EpochSize - 1
  BY <1>1 DEF ChunkCloses, TypeInv, WriterTypeOK, ChunkSlots
<1>7. bufStart < TotalSize
  BY <1>1 DEF WriteStep, TypeInv, WriterTypeOK, BufferInv, Buffered, ByteOffsets
<1>8. IF EpochRolls(chunk + 1)
      THEN chunk' = 0 /\ epoch' = NextEpoch(epoch)
      ELSE chunk' = chunk + 1 /\ epoch' = epoch
  BY <1>1, <1>2 DEF FinalizeChunk
<1>9. last \in BOOLEAN
  OBVIOUS
<1> HIDE DEF len, last
<1> QED BY <1>1, <1>3, <1>4, <1>5, <1>6, <1>7, <1>8, <1>9

(* Sealed bytes: the inductive invariant of the three properties that say  *)
(* what the chunks hold.                                                   *)
SealedInv == TypeInv /\ TilesPlaintext /\ FinalMarksTheEnd /\ ShortOnlyAtEpochEnd

LEMMA InitSealed == WriterInit => SealedInv
  BY InitTypes DEF WriterInit, SealedInv, TypeInv, BufferInv, TilesPlaintext, FinalMarksTheEnd,
                   ShortOnlyAtEpochEnd, Buffered

(* Appending a chunk at the end of the last one keeps what they hold.      *)
LEMMA ClosingKeepsSealed ==
  ASSUME SealedInv, WriteStep,
         ChunkCloses(Buffered + BytesToWrite, written + BytesToWrite = TotalSize)
  PROVE  TilesPlaintext' /\ FinalMarksTheEnd' /\ ShortOnlyAtEpochEnd'
<1>1. TypeInv /\ TypeInv'
  BY ClosingKeepsTypes DEF SealedInv
<1>2. PICK len \in 1 .. ChunkSize, last \in BOOLEAN :
           /\ chunks' = Append(chunks, Closed(len, last))
           /\ last <=> bufStart + len = TotalSize
           /\ bufStart' = bufStart + len
           /\ len < ChunkSize => last \/ chunk = EpochSize - 1
           /\ bufStart < TotalSize
           /\ status' = status
  BY <1>1, ClosingAppends
<1> DEFINE N == Len(chunks)
           c == Closed(len, last)
<1>3. /\ N \in Nat
      /\ Len(chunks') = N + 1
      /\ \A i \in 1 .. N : chunks'[i] = chunks[i]
      /\ chunks'[N + 1] = c
      /\ DOMAIN chunks = 1 .. N /\ DOMAIN chunks' = 1 .. N + 1
  <2>1. chunks \in Seq(Entry)
    BY <1>1 DEF TypeInv, WriterTypeOK
  <2> QED BY <1>2, <2>1
<1>4. /\ c.body.from = bufStart /\ c.body.len = len /\ c.body.final = last
      /\ c.body.chunk = chunk /\ c.isFinal = last
  BY DEF Closed, SealChunk
<1>5. status = "open" /\ status' = "open"
  BY <1>1, <1>2 DEF WriteStep, TypeInv, BufferInv
<1> HIDE DEF N, c
<1>6. TilesPlaintext'
  <2>1. bufStart = IF N = 0 THEN 0 ELSE ChunkEnd(chunks[N].body)
    BY <1>3, <1>5 DEF SealedInv, TilesPlaintext, N, TypeInv, WriterTypeOK
  <2>2. ASSUME NEW i \in 1 .. N + 1
        PROVE  /\ chunks'[i].body.len \in 1 .. ChunkSize
               /\ chunks'[i].body.from = IF i = 1 THEN 0 ELSE ChunkEnd(chunks'[i - 1].body)
    <3>1. CASE i = N + 1
      <4>1. chunks'[i].body.len = len /\ chunks'[i].body.from = bufStart
        BY <1>3, <1>4, <3>1
      <4>2. CASE N = 0
        BY <2>1, <3>1, <4>1, <4>2
      <4>3. CASE N # 0
        <5>1. N \in 1 .. N /\ i - 1 = N /\ i # 1
          BY <1>3, <3>1, <4>3
        <5>2. chunks'[i - 1] = chunks[N]
          BY <1>3, <5>1
        <5> QED BY <2>1, <4>1, <4>3, <5>1, <5>2
      <4> QED BY <4>2, <4>3
    <3>2. CASE i \in 1 .. N
      <4>1. chunks'[i] = chunks[i]
        BY <1>3, <3>2
      <4>2. /\ chunks[i].body.len \in 1 .. ChunkSize
            /\ chunks[i].body.from = IF i = 1 THEN 0 ELSE ChunkEnd(chunks[i - 1].body)
        BY <1>3, <3>2 DEF SealedInv, TilesPlaintext
      <4>3. i # 1 => chunks'[i - 1] = chunks[i - 1]
        BY <1>3, <3>2
      <4> QED BY <4>1, <4>2, <4>3
    <3> QED BY <1>3, <3>1, <3>2
  <2>3. bufStart' = ChunkEnd(chunks'[N + 1].body)
    BY <1>2, <1>3, <1>4 DEF ChunkEnd
  <2>4. chunks' # <<>>
    BY <1>3
  <2> QED BY <1>1, <1>3, <2>2, <2>3, <2>4 DEF TilesPlaintext, TypeInv, BufferInv
<1>7. FinalMarksTheEnd'
  <2>1. ASSUME NEW i \in 1 .. N + 1
        PROVE  /\ chunks'[i].isFinal = chunks'[i].body.final
               /\ chunks'[i].isFinal <=> ChunkEnd(chunks'[i].body) = TotalSize
    <3>1. CASE i = N + 1
      BY <1>2, <1>3, <1>4, <3>1 DEF ChunkEnd
    <3>2. CASE i \in 1 .. N
      BY <1>3, <3>2 DEF SealedInv, FinalMarksTheEnd
    <3> QED BY <1>3, <3>1, <3>2
  <2> QED BY <1>3, <1>5, <2>1 DEF FinalMarksTheEnd
<1>8. ShortOnlyAtEpochEnd'
  <2>1. ASSUME NEW i \in 1 .. N + 1, chunks'[i].body.len < ChunkSize
        PROVE  chunks'[i].body.final \/ chunks'[i].body.chunk = EpochSize - 1
    <3>1. CASE i = N + 1
      BY <1>2, <1>3, <1>4, <2>1, <3>1
    <3>2. CASE i \in 1 .. N
      BY <1>3, <2>1, <3>2 DEF SealedInv, ShortOnlyAtEpochEnd
    <3> QED BY <1>3, <3>1, <3>2
  <2> QED BY <1>3, <2>1 DEF ShortOnlyAtEpochEnd
<1> QED BY <1>6, <1>7, <1>8

LEMMA FlaggedAlready ==
  ASSUME NEW c \in Entry, c.isFinal PROVE [c EXCEPT !.isFinal = TRUE] = c
  BY DEF Entry

(* finalize returns the chunks as they are: the last one was marked when   *)
(* it was sealed.                                                          *)
LEMMA FinalizeKeepsChunks ==
  ASSUME SealedInv, Finalize
  PROVE  /\ chunks' = chunks
         /\ chunks # <<>>
         /\ ChunkEnd(chunks[Len(chunks)].body) = TotalSize
<1>1. chunks \in Seq(Entry) /\ bufStart = TotalSize /\ status = "open"
  BY DEF SealedInv, TypeInv, WriterTypeOK, BufferInv, Finalize
<1>2. chunks # <<>> /\ ChunkEnd(chunks[Len(chunks)].body) = TotalSize
  BY <1>1 DEF SealedInv, TilesPlaintext
<1>3. Len(chunks) \in DOMAIN chunks
  BY <1>1, <1>2
<1>4. chunks[Len(chunks)].isFinal = TRUE
  BY <1>1, <1>2, <1>3 DEF SealedInv, FinalMarksTheEnd, Entry
<1>5. [chunks[Len(chunks)] EXCEPT !.isFinal = TRUE] = chunks[Len(chunks)]
  <2>1. chunks[Len(chunks)] \in Entry
    BY <1>1, <1>3
  <2> QED BY <1>4, <2>1, FlaggedAlready
<1>6. chunks' = [i \in DOMAIN chunks |-> chunks[i]]
  BY <1>5, FlushesNothing DEF SealedInv
<1> QED BY <1>1, <1>2, <1>6

LEMMA StepKeepsSealed == SealedInv /\ [WriterNext]_writerVars => SealedInv'
<1> SUFFICES ASSUME SealedInv, [WriterNext]_writerVars PROVE SealedInv'
  OBVIOUS
<1>1. TypeInv'
  BY StepKeepsTypes DEF SealedInv
<1> USE DEF SealedInv
<1>2. ASSUME UNCHANGED <<chunks, bufStart, status>>
      PROVE  TilesPlaintext' /\ FinalMarksTheEnd' /\ ShortOnlyAtEpochEnd'
  BY <1>1, <1>2 DEF TilesPlaintext, FinalMarksTheEnd, ShortOnlyAtEpochEnd, TypeInv, BufferInv
<1>3. ASSUME NEW n \in CallSizes, WriteCall(n) PROVE SealedInv'
  BY <1>1, <1>2, <1>3 DEF WriteCall
<1>4. CASE WriteStep
  BY <1>1, <1>2, <1>4, ClosingKeepsSealed, FillingKeepsTypes
<1>5. CASE WriteReturn
  BY <1>1, <1>2, <1>5 DEF WriteReturn
<1>6. CASE FinalizeIncomplete
  BY <1>1, <1>6 DEF FinalizeIncomplete, TilesPlaintext, FinalMarksTheEnd, ShortOnlyAtEpochEnd,
                    TypeInv, BufferInv
<1>7. CASE Finalize
  <2>1. /\ chunks' = chunks /\ bufStart' = bufStart /\ status = "open" /\ status' = "done"
        /\ chunks # <<>>
        /\ ChunkEnd(chunks[Len(chunks)].body) = TotalSize
    BY <1>7, FinalizeKeepsChunks DEF Finalize
  <2>2. TilesPlaintext'
    BY <1>1, <2>1 DEF TilesPlaintext, TypeInv, BufferInv
  <2>3. FinalMarksTheEnd'
    BY <2>1 DEF FinalMarksTheEnd
  <2>4. ShortOnlyAtEpochEnd'
    BY <2>1 DEF ShortOnlyAtEpochEnd
  <2> QED BY <1>1, <2>2, <2>3, <2>4
<1>8. CASE UNCHANGED writerVars
  BY <1>1, <1>2, <1>8 DEF writerVars
<1> QED BY <1>3, <1>4, <1>5, <1>6, <1>7, <1>8 DEF WriterNext

(* The sealed chunks tile the plaintext, however it was split over write   *)
(* calls (write, finalize_chunk).                                          *)
THEOREM WriterTiles == WriterSpec => []TilesPlaintext
<1>1. SealedInv => TilesPlaintext
  BY DEF SealedInv
<1> QED BY <1>1, InitSealed, StepKeepsSealed, PTL DEF WriterSpec

(* The final mark is on the chunk that ends the plaintext and on no other, *)
(* and a finished writer has one (finalize_chunk, finalize).               *)
THEOREM WriterMarksTheEnd == WriterSpec => []FinalMarksTheEnd
<1>1. SealedInv => FinalMarksTheEnd
  BY DEF SealedInv
<1> QED BY <1>1, InitSealed, StepKeepsSealed, PTL DEF WriterSpec

(* A short chunk ends the plaintext or its epoch (write).                  *)
THEOREM WriterShortChunks == WriterSpec => []ShortOnlyAtEpochEnd
<1>1. SealedInv => ShortOnlyAtEpochEnd
  BY DEF SealedInv
<1> QED BY <1>1, InitSealed, StepKeepsSealed, PTL DEF WriterSpec

-----------------------------------------------------------------------------
(* Key positions.  The epoch counter wraps only after EpochLimit epochs,   *)
(* and an epoch that is complete holds at least EpochBytes bytes: all its  *)
(* chunks but the last are full.                                           *)
EpochBytes   == (EpochSize - 1) * ChunkSize + 1
EnoughEpochs == TotalSize <= EpochLimit * EpochBytes

(* One key position comes before another.                                  *)
Before(e, k, f, l) == e < f \/ (e = f /\ k < l)

(* Positions are taken in increasing order; while plaintext is left, the   *)
(* writer's own position comes after all of them and has not wrapped: the  *)
(* bytes sealed pay for the position.                                      *)
PositionInv ==
  /\ \A i, j \in DOMAIN chunks :
       i < j => Before(chunks[i].body.epoch, chunks[i].body.chunk,
                       chunks[j].body.epoch, chunks[j].body.chunk)
  /\ bufStart < TotalSize =>
       /\ \A i \in DOMAIN chunks :
            Before(chunks[i].body.epoch, chunks[i].body.chunk, epoch, chunk)
       /\ epoch * EpochBytes + chunk * ChunkSize <= bufStart

UniqueInv == SealedInv /\ PositionInv

LEMMA EpochBytesType == EpochBytes \in Nat \ {0}
<1>1. \A a, b \in Nat : a * b \in Nat
  OBVIOUS
<1>2. EpochSize - 1 \in Nat /\ ChunkSize \in Nat
  OBVIOUS
<1>3. (EpochSize - 1) * ChunkSize \in Nat
  BY <1>1, <1>2
<1> QED BY <1>3 DEF EpochBytes

LEMMA OneMore == ASSUME NEW a \in Int, NEW b \in Int PROVE (a + 1) * b = a * b + b
  OBVIOUS

LEMMA InitUnique == WriterInit => UniqueInv
<1>1. 0 * EpochBytes = 0 /\ 0 * ChunkSize = 0
  BY EpochBytesType
<1> QED BY <1>1, InitSealed DEF WriterInit, UniqueInv, PositionInv

(* Before the plaintext is complete the epoch counter does not wrap.       *)
LEMMA NoWrap ==
  ASSUME EnoughEpochs, NEW e \in Epochs, NEW b \in Nat,
         (e + 1) * EpochBytes <= b, b < TotalSize
  PROVE  e + 1 < EpochLimit /\ NextEpoch(e) = e + 1
<1>1. e \in Nat /\ e < EpochLimit
  BY DEF Epochs
<1>2. e + 1 # EpochLimit
  <2> SUFFICES ASSUME e + 1 = EpochLimit PROVE FALSE
    OBVIOUS
  <2>1. EpochLimit * EpochBytes <= b
    OBVIOUS
  <2>2. EpochLimit * EpochBytes \in Int
    BY EpochBytesType
  <2> QED BY <2>1, <2>2 DEF EnoughEpochs
<1>3. e + 1 < EpochLimit
  BY <1>1, <1>2
<1> QED BY <1>1, <1>3 DEF NextEpoch

(* The position the writer moves to comes after the one it leaves, and the *)
(* bytes sealed so far pay for it.                                         *)
LEMMA PositionAdvances ==
  ASSUME EnoughEpochs, TypeInv, PositionInv, bufStart < TotalSize,
         NEW len \in 1 .. ChunkSize,
         len < ChunkSize => chunk = EpochSize - 1,
         bufStart + len < TotalSize,
         IF EpochRolls(chunk + 1)
         THEN chunk' = 0 /\ epoch' = NextEpoch(epoch)
         ELSE chunk' = chunk + 1 /\ epoch' = epoch
  PROVE  /\ Before(epoch, chunk, epoch', chunk')
         /\ epoch' * EpochBytes + chunk' * ChunkSize <= bufStart + len
<1>1. /\ epoch \in Epochs /\ epoch \in Nat /\ bufStart \in Nat
      /\ chunk \in Nat /\ chunk < EpochSize
  BY DEF TypeInv, WriterTypeOK, Epochs, ByteOffsets, ChunkSlots
<1>2. epoch * EpochBytes + chunk * ChunkSize <= bufStart
  BY DEF PositionInv
<1>3. epoch * EpochBytes \in Int /\ chunk * ChunkSize \in Int
  BY <1>1, EpochBytesType
<1>4. CASE EpochRolls(chunk + 1)
  <2>1. chunk = EpochSize - 1
    BY <1>1, <1>4 DEF EpochRolls
  <2>2. chunk * ChunkSize + 1 = EpochBytes
    BY <2>1 DEF EpochBytes
  <2>3. (epoch + 1) * EpochBytes = epoch * EpochBytes + EpochBytes
    BY <1>1, EpochBytesType, OneMore
  <2>4. (epoch + 1) * EpochBytes <= bufStart + len
    BY <1>1, <1>2, <1>3, <2>2, <2>3, EpochBytesType
  <2>5. epoch' = epoch + 1 /\ chunk' = 0
    BY <1>1, <1>4, <2>4, NoWrap
  <2>6. chunk' * ChunkSize = 0
    BY <2>5
  <2> QED BY <1>1, <2>4, <2>5, <2>6, EpochBytesType DEF Before
<1>5. CASE ~EpochRolls(chunk + 1)
  <2>1. chunk + 1 < EpochSize
    BY <1>1, <1>5 DEF EpochRolls
  <2>2. len = ChunkSize
    BY <1>1, <2>1
  <2>3. (chunk + 1) * ChunkSize = chunk * ChunkSize + ChunkSize
    BY <1>1, OneMore
  <2> QED BY <1>1, <1>2, <1>3, <1>5, <2>2, <2>3 DEF Before
<1> QED BY <1>4, <1>5

LEMMA BeforeTransitive ==
  ASSUME NEW e \in Int, NEW k \in Int, NEW f \in Int, NEW l \in Int,
         NEW g \in Int, NEW m \in Int,
         Before(e, k, f, l), Before(f, l, g, m)
  PROVE  Before(e, k, g, m)
  BY DEF Before

(* Sealing a chunk takes a position after all those taken before.          *)
LEMMA ClosingKeepsPositions ==
  ASSUME EnoughEpochs, UniqueInv, WriteStep,
         ChunkCloses(Buffered + BytesToWrite, written + BytesToWrite = TotalSize)
  PROVE  PositionInv'
<1>1. TypeInv /\ TypeInv' /\ PositionInv
  BY ClosingKeepsTypes DEF UniqueInv, SealedInv
<1>2. PICK len \in 1 .. ChunkSize, last \in BOOLEAN :
           /\ chunks' = Append(chunks, Closed(len, last))
           /\ last <=> bufStart + len = TotalSize
           /\ bufStart' = bufStart + len
           /\ len < ChunkSize => last \/ chunk = EpochSize - 1
           /\ bufStart < TotalSize
           /\ IF EpochRolls(chunk + 1)
              THEN chunk' = 0 /\ epoch' = NextEpoch(epoch)
              ELSE chunk' = chunk + 1 /\ epoch' = epoch
  BY <1>1, ClosingAppends
<1> DEFINE N == Len(chunks)
           pe(i) == chunks'[i].body.epoch
           pk(i) == chunks'[i].body.chunk
<1>3. /\ N \in Nat
      /\ \A i \in 1 .. N : chunks'[i] = chunks[i]
      /\ pe(N + 1) = epoch /\ pk(N + 1) = chunk
      /\ DOMAIN chunks = 1 .. N /\ DOMAIN chunks' = 1 .. N + 1
  <2>1. chunks \in Seq(Entry)
    BY <1>1 DEF TypeInv, WriterTypeOK
  <2>2. chunks'[N + 1] = Closed(len, last)
    BY <1>2, <2>1
  <2> QED BY <1>2, <2>1, <2>2 DEF Closed, SealChunk
<1>4. \A i \in 1 .. N + 1 : pe(i) \in Int /\ pk(i) \in Int
  <2>1. \A i \in 1 .. N + 1 : chunks'[i] \in Entry
    BY <1>1, <1>3 DEF TypeInv, WriterTypeOK
  <2> QED BY <2>1 DEF Entry, Chunk, Epochs, ChunkSlots
<1>5. \A i \in 1 .. N : Before(pe(i), pk(i), epoch, chunk)
  BY <1>1, <1>2, <1>3 DEF PositionInv
<1>6. epoch \in Int /\ chunk \in Int /\ epoch' \in Int /\ chunk' \in Int
      /\ bufStart \in Nat /\ bufStart' \in Nat /\ bufStart' <= TotalSize
  BY <1>1 DEF TypeInv, WriterTypeOK, Epochs, ChunkSlots, ByteOffsets
<1> HIDE DEF N, pe, pk
<1>7. ASSUME NEW i \in 1 .. N + 1, NEW j \in 1 .. N + 1, i < j
      PROVE  Before(pe(i), pk(i), pe(j), pk(j))
  <2>1. i \in 1 .. N
    BY <1>3, <1>7
  <2>2. CASE j = N + 1
    BY <1>3, <1>5, <2>1, <2>2
  <2>3. CASE j # N + 1
    BY <1>1, <1>3, <1>7, <2>1, <2>3 DEF PositionInv, pe, pk
  <2> QED BY <2>2, <2>3
<1>8. ASSUME bufStart' < TotalSize
      PROVE  /\ \A i \in 1 .. N + 1 : Before(pe(i), pk(i), epoch', chunk')
             /\ epoch' * EpochBytes + chunk' * ChunkSize <= bufStart'
  <2>1. /\ bufStart + len < TotalSize
        /\ len < ChunkSize => chunk = EpochSize - 1
    BY <1>2, <1>6, <1>8
  <2>2. /\ Before(epoch, chunk, epoch', chunk')
        /\ epoch' * EpochBytes + chunk' * ChunkSize <= bufStart + len
    BY <1>1, <1>2, <2>1, PositionAdvances
  <2>3. ASSUME NEW i \in 1 .. N + 1 PROVE Before(pe(i), pk(i), epoch', chunk')
    <3>1. CASE i = N + 1
      BY <1>3, <2>2, <3>1
    <3>2. CASE i \in 1 .. N
      BY <1>4, <1>5, <1>6, <2>2, <3>2, BeforeTransitive
    <3> QED BY <1>3, <3>1, <3>2
  <2> QED BY <1>2, <2>2, <2>3
<1> QED BY <1>3, <1>7, <1>8 DEF PositionInv, pe, pk

LEMMA StepKeepsUnique ==
  ASSUME EnoughEpochs
  PROVE  UniqueInv /\ [WriterNext]_writerVars => UniqueInv'
<1> SUFFICES ASSUME UniqueInv, [WriterNext]_writerVars PROVE PositionInv'
  BY StepKeepsSealed DEF UniqueInv
<1>1. ASSUME UNCHANGED <<chunks, bufStart, epoch, chunk>> PROVE PositionInv'
  BY <1>1 DEF UniqueInv, PositionInv
<1>2. ASSUME NEW n \in CallSizes, WriteCall(n) PROVE PositionInv'
  BY <1>1, <1>2 DEF WriteCall
<1>3. CASE WriteStep
  BY <1>1, <1>3, ClosingKeepsPositions, FillingKeepsTypes DEF UniqueInv, SealedInv
<1>4. CASE WriteReturn
  BY <1>1, <1>4 DEF WriteReturn
<1>5. CASE FinalizeIncomplete
  BY <1>5 DEF FinalizeIncomplete, UniqueInv, PositionInv
<1>6. CASE Finalize
  BY <1>1, <1>6, FinalizeKeepsChunks DEF Finalize, UniqueInv
<1>7. CASE UNCHANGED writerVars
  BY <1>1, <1>7 DEF writerVars
<1> QED BY <1>2, <1>3, <1>4, <1>5, <1>6, <1>7 DEF WriterNext

LEMMA OrderedAreUnique == UniqueInv => UniquePositions
<1> SUFFICES ASSUME UniqueInv, NEW i \in DOMAIN chunks, NEW j \in DOMAIN chunks,
                    chunks[i].body.epoch = chunks[j].body.epoch,
                    chunks[i].body.chunk = chunks[j].body.chunk
             PROVE  i = j
  BY DEF UniquePositions
<1>1. /\ chunks \in Seq(Entry) /\ i \in Int /\ j \in Int
      /\ chunks[i] \in Entry /\ chunks[j] \in Entry
  BY DEF UniqueInv, SealedInv, TypeInv, WriterTypeOK
<1>2. chunks[i].body.epoch \in Int /\ chunks[i].body.chunk \in Int
  BY <1>1 DEF Entry, Chunk, Epochs, ChunkSlots
<1>3. ~Before(chunks[i].body.epoch, chunks[i].body.chunk,
              chunks[j].body.epoch, chunks[j].body.chunk)
  BY <1>2 DEF Before
<1>4. ~Before(chunks[j].body.epoch, chunks[j].body.chunk,
              chunks[i].body.epoch, chunks[i].body.chunk)
  BY <1>2 DEF Before
<1>5. ~(i < j) /\ ~(j < i)
  BY <1>3, <1>4 DEF UniqueInv, PositionInv
<1> QED BY <1>1, <1>5

(* No (epoch, chunk) key position is used for two chunks, as long as the   *)
(* plaintext is no larger than EpochLimit epochs of the least size: below  *)
(* that the unchecked epoch_index += 1 cannot wrap (finalize_chunk).       *)
THEOREM WriterPositionsUnique == EnoughEpochs => (WriterSpec => []UniquePositions)
<1> SUFFICES ASSUME EnoughEpochs PROVE WriterSpec => []UniquePositions
  OBVIOUS
<1>1. UniqueInv /\ [WriterNext]_writerVars => UniqueInv'
  BY StepKeepsUnique
<1> QED BY <1>1, InitUnique, OrderedAreUnique, PTL DEF WriterSpec

-----------------------------------------------------------------------------
(* Slots.  While the epoch counter does not wrap, no key position is left  *)
(* out: the i-th chunk has the i-th one.                                   *)
SlotOf(e, k) == e * EpochSize + k

SlotInv ==
  /\ \A i \in DOMAIN chunks :
       /\ SlotOf(chunks[i].body.epoch, chunks[i].body.chunk) = i - 1
       /\ ChunkEnd(chunks[i].body) <= TotalSize
  /\ status # "failed" /\ bufStart < TotalSize => SlotOf(epoch, chunk) = Len(chunks)

SlottedInv == UniqueInv /\ SlotInv

LEMMA SlotType == ASSUME NEW e \in Nat, NEW k \in Nat PROVE SlotOf(e, k) \in Nat
<1>1. \A a, b \in Nat : a * b \in Nat
  OBVIOUS
<1> QED BY <1>1 DEF SlotOf

(* A slot names one position.                                              *)
LEMMA LaterEpochLaterSlot ==
  ASSUME NEW e \in Nat, NEW f \in Nat, NEW k \in ChunkSlots, NEW l \in ChunkSlots, e < f
  PROVE  SlotOf(e, k) < SlotOf(f, l)
<1>1. PICK d \in Nat : f = e + 1 + d
  <2>1. f - e - 1 \in Nat /\ f = e + 1 + (f - e - 1)
    OBVIOUS
  <2> QED BY <2>1
<1>2. f * EpochSize = e * EpochSize + EpochSize + d * EpochSize
  BY <1>1
<1>3. d * EpochSize \in Nat /\ e * EpochSize \in Nat
  <2>1. \A a, b \in Nat : a * b \in Nat
    OBVIOUS
  <2> QED BY <2>1
<1> QED BY <1>2, <1>3 DEF SlotOf, ChunkSlots

LEMMA SlotsDiffer ==
  ASSUME NEW e \in Nat, NEW f \in Nat, NEW k \in ChunkSlots, NEW l \in ChunkSlots,
         SlotOf(e, k) = SlotOf(f, l)
  PROVE  e = f /\ k = l
<1>1. SlotOf(e, k) \in Nat /\ SlotOf(f, l) \in Nat
  BY SlotType DEF ChunkSlots
<1>2. e = f
  BY <1>1, LaterEpochLaterSlot
<1>3. e * EpochSize \in Nat
  <2>1. \A a, b \in Nat : a * b \in Nat
    OBVIOUS
  <2> QED BY <2>1
<1> QED BY <1>2, <1>3 DEF SlotOf, ChunkSlots

(* The position after (e, k), and its slot.                                *)
Follows(e, k, f, l) ==
  IF EpochRolls(k + 1) THEN f = e + 1 /\ l = 0 ELSE f = e /\ l = k + 1

LEMMA NextSlot ==
  ASSUME NEW e \in Nat, NEW k \in ChunkSlots, NEW f \in Nat, NEW l \in Nat, Follows(e, k, f, l)
  PROVE  SlotOf(f, l) = SlotOf(e, k) + 1
<1>1. e * EpochSize \in Nat
  <2>1. \A a, b \in Nat : a * b \in Nat
    OBVIOUS
  <2> QED BY <2>1
<1>2. CASE EpochRolls(k + 1)
  <2>1. f = e + 1 /\ l = 0 /\ k = EpochSize - 1
    BY <1>2 DEF Follows, EpochRolls, ChunkSlots
  <2>2. (e + 1) * EpochSize = e * EpochSize + EpochSize
    BY OneMore
  <2> QED BY <1>1, <2>1, <2>2 DEF SlotOf
<1>3. CASE ~EpochRolls(k + 1)
  BY <1>1, <1>3 DEF Follows, SlotOf, ChunkSlots
<1> QED BY <1>2, <1>3

LEMMA ClosingKeepsSlots ==
  ASSUME EnoughEpochs, SlottedInv, WriteStep,
         ChunkCloses(Buffered + BytesToWrite, written + BytesToWrite = TotalSize)
  PROVE  SlotInv'
<1>1. TypeInv /\ TypeInv' /\ PositionInv /\ SlotInv
  BY ClosingKeepsTypes DEF SlottedInv, UniqueInv, SealedInv
<1>2. PICK len \in 1 .. ChunkSize, last \in BOOLEAN :
           /\ chunks' = Append(chunks, Closed(len, last))
           /\ last <=> bufStart + len = TotalSize
           /\ bufStart' = bufStart + len
           /\ len < ChunkSize => last \/ chunk = EpochSize - 1
           /\ bufStart < TotalSize
           /\ IF EpochRolls(chunk + 1)
              THEN chunk' = 0 /\ epoch' = NextEpoch(epoch)
              ELSE chunk' = chunk + 1 /\ epoch' = epoch
  BY <1>1, ClosingAppends
<1> DEFINE N == Len(chunks)
<1>3. /\ N \in Nat
      /\ \A i \in 1 .. N : chunks'[i] = chunks[i]
      /\ chunks'[N + 1] = Closed(len, last)
      /\ DOMAIN chunks = 1 .. N /\ DOMAIN chunks' = 1 .. N + 1 /\ Len(chunks') = N + 1
  <2>1. chunks \in Seq(Entry)
    BY <1>1 DEF TypeInv, WriterTypeOK
  <2> QED BY <1>2, <2>1
<1>4. /\ epoch \in Nat /\ chunk \in ChunkSlots /\ epoch' \in Nat /\ chunk' \in Nat
      /\ bufStart \in Nat /\ bufStart + len <= TotalSize
  BY <1>1, <1>2 DEF TypeInv, WriterTypeOK, Epochs, ChunkSlots, ByteOffsets
<1>5. status = "open"
  BY <1>1 DEF WriteStep, TypeInv, BufferInv
<1>6. SlotOf(epoch, chunk) = N
  BY <1>1, <1>2, <1>5 DEF SlotInv
<1>7. /\ Closed(len, last).body.epoch = epoch /\ Closed(len, last).body.chunk = chunk
      /\ ChunkEnd(Closed(len, last).body) = bufStart + len
  BY DEF Closed, SealChunk, ChunkEnd
<1> HIDE DEF N
<1>8. ASSUME NEW i \in 1 .. N + 1
      PROVE  /\ SlotOf(chunks'[i].body.epoch, chunks'[i].body.chunk) = i - 1
             /\ ChunkEnd(chunks'[i].body) <= TotalSize
  <2>1. CASE i = N + 1
    BY <1>3, <1>4, <1>6, <1>7, <2>1, SMTT(30)
  <2>2. CASE i \in 1 .. N
    BY <1>1, <1>3, <2>2 DEF SlotInv
  <2> QED BY <1>3, <2>1, <2>2
<1>9. ASSUME bufStart' < TotalSize PROVE SlotOf(epoch', chunk') = N + 1
  <2>1. Before(epoch, chunk, epoch', chunk')
    <3>1. /\ bufStart + len < TotalSize
          /\ len < ChunkSize => chunk = EpochSize - 1
      BY <1>2, <1>4, <1>9
    <3> QED BY <1>1, <1>2, <3>1, PositionAdvances
  <2>2. Follows(epoch, chunk, epoch', chunk')
    <3>1. EpochRolls(chunk + 1) => epoch' = epoch + 1
      BY <1>1, <1>2, <1>4, <2>1 DEF Before, NextEpoch, TypeInv, WriterTypeOK, Epochs, ChunkSlots,
                                  EpochRolls
    <3> QED BY <1>2, <3>1 DEF Follows
  <2> QED BY <1>4, <1>6, <2>2, NextSlot
<1> QED BY <1>3, <1>8, <1>9 DEF SlotInv

LEMMA InitSlotted == WriterInit => SlottedInv
<1>1. 0 * EpochSize + 0 = 0
  OBVIOUS
<1> QED BY <1>1, InitUnique DEF WriterInit, SlottedInv, SlotInv, SlotOf

LEMMA StepKeepsSlotted ==
  ASSUME EnoughEpochs
  PROVE  SlottedInv /\ [WriterNext]_writerVars => SlottedInv'
<1> SUFFICES ASSUME SlottedInv, [WriterNext]_writerVars PROVE SlotInv'
  BY StepKeepsUnique DEF SlottedInv
<1>1. ASSUME UNCHANGED <<chunks, bufStart, epoch, chunk, status>> PROVE SlotInv'
  BY <1>1 DEF SlottedInv, SlotInv
<1>2. ASSUME NEW n \in CallSizes, WriteCall(n) PROVE SlotInv'
  BY <1>1, <1>2 DEF WriteCall
<1>3. CASE WriteStep
  BY <1>1, <1>3, ClosingKeepsSlots, FillingKeepsTypes DEF SlottedInv, UniqueInv, SealedInv
<1>4. CASE WriteReturn
  BY <1>1, <1>4 DEF WriteReturn
<1>5. CASE FinalizeIncomplete
  BY <1>5 DEF FinalizeIncomplete, SlotInv
<1>6. CASE Finalize
  BY <1>6, FinalizeKeepsChunks DEF Finalize, SlottedInv, SlotInv, UniqueInv
<1>7. CASE UNCHANGED writerVars
  BY <1>1, <1>7 DEF writerVars
<1> QED BY <1>2, <1>3, <1>4, <1>5, <1>6, <1>7 DEF WriterNext

-----------------------------------------------------------------------------
(* Callers that pass whole chunks, or all of the plaintext at once as      *)
(* ops::encrypt does: no chunk is left open between two steps, and only    *)
(* the final one is short.                                                 *)
WholeCalls == \A n \in CallSizes : n >= TotalSize \/ \E k \in Nat : n = k * ChunkSize

WholeInv ==
  /\ Buffered = 0
  /\ input >= TotalSize - written \/ \E k \in Nat : input = k * ChunkSize
  /\ \A i \in DOMAIN chunks :
       /\ chunks[i].isFinal => i = Len(chunks)
       /\ ~chunks[i].isFinal => chunks[i].body.len = ChunkSize

LEMMA InitWhole == WriterInit => WholeInv
<1>1. 0 = 0 * ChunkSize
  OBVIOUS
<1> QED BY <1>1 DEF WriterInit, WholeInv, Buffered

(* With whole calls every turn of the loop seals a chunk that is full or   *)
(* the last, and leaves whole chunks of the call.                          *)
LEMMA WholeTurn ==
  ASSUME TypeInv, WholeInv, WriteStep
  PROVE  /\ BytesToWrite = ChunkSize \/ written + BytesToWrite = TotalSize
         /\ input' >= TotalSize - written' \/ \E k \in Nat : input' = k * ChunkSize
<1>1. /\ input \in Nat /\ input > 0 /\ written \in Nat /\ written < TotalSize
      /\ Buffered = 0 /\ input' = input - BytesToWrite /\ written' = written + BytesToWrite
  BY DEF TypeInv, WriterTypeOK, ByteOffsets, WholeInv, WriteStep
<1>2. CASE input >= TotalSize - written
  BY <1>1, <1>2 DEF BytesToWrite, Least
<1>3. ASSUME NEW k \in Nat, input = k * ChunkSize
      PROVE  /\ BytesToWrite = ChunkSize \/ written + BytesToWrite = TotalSize
             /\ input' >= TotalSize - written' \/ \E l \in Nat : input' = l * ChunkSize
  <2>1. k # 0
    BY <1>1, <1>3
  <2>2. k - 1 \in Nat /\ (k - 1) * ChunkSize = k * ChunkSize - ChunkSize
        /\ (k - 1) * ChunkSize \in Nat
    <3>1. \A a, b \in Nat : a * b \in Nat
      OBVIOUS
    <3>2. k - 1 \in Nat
      BY <2>1
    <3>3. k * ChunkSize = (k - 1) * ChunkSize + ChunkSize
      BY <3>2, OneMore
    <3> QED BY <3>1, <3>2, <3>3
  <2>3. input >= ChunkSize
    BY <1>3, <2>2
  <2>4. CASE ChunkSize <= TotalSize - written
    <3>1. BytesToWrite = ChunkSize
      BY <1>1, <2>3, <2>4 DEF BytesToWrite, Least
    <3> QED BY <1>1, <1>3, <2>2, <3>1
  <2>5. CASE ChunkSize > TotalSize - written
    <3>1. BytesToWrite = TotalSize - written
      BY <1>1, <2>3, <2>5 DEF BytesToWrite, Least
    <3> QED BY <1>1, <2>3, <2>5, <3>1
  <2> QED BY <1>1, <2>4, <2>5
<1> QED BY <1>2, <1>3 DEF WholeInv

LEMMA WholeStep == ASSUME SealedInv, WholeInv, WriteStep PROVE WholeInv'
<1>1. TypeInv
  BY DEF SealedInv
<1> DEFINE len  == Buffered + BytesToWrite
           last == written + BytesToWrite = TotalSize
           N    == Len(chunks)
<1>2. /\ len = BytesToWrite /\ len \in 1 .. ChunkSize
      /\ len = ChunkSize \/ last
  BY <1>1, WholeTurn, StepConsumes DEF WholeInv, WriteStep
<1>3. FinalizeChunk(len, last) /\ written' = written + BytesToWrite
  BY <1>2 DEF ChunkCloses, WriteStep
<1>4. chunks' = Append(chunks, Closed(len, last)) /\ bufStart' = bufStart + len
  BY <1>2, <1>3 DEF FinalizeChunk, FinalMark, Closed, Cleared
<1>5. Buffered' = 0
  BY <1>1, <1>2, <1>3, <1>4, SMTT(30) DEF Buffered, TypeInv, WriterTypeOK, ByteOffsets
<1>6. /\ N \in Nat
      /\ \A i \in 1 .. N : chunks'[i] = chunks[i]
      /\ chunks'[N + 1] = Closed(len, last)
      /\ DOMAIN chunks = 1 .. N /\ DOMAIN chunks' = 1 .. N + 1 /\ Len(chunks') = N + 1
  <2>1. chunks \in Seq(Entry)
    BY <1>1 DEF TypeInv, WriterTypeOK
  <2> QED BY <1>4, <2>1
<1>7. Closed(len, last).isFinal = last /\ Closed(len, last).body.len = len
  BY DEF Closed, SealChunk
<1>8. \A i \in 1 .. N : ~chunks[i].isFinal
  <2> SUFFICES ASSUME NEW i \in 1 .. N, chunks[i].isFinal PROVE FALSE
    OBVIOUS
  <2>1. i = N /\ ChunkEnd(chunks[i].body) = TotalSize
    BY <1>6 DEF WholeInv, SealedInv, FinalMarksTheEnd
  <2>2. bufStart = TotalSize
    <3>1. status = "open" /\ chunks # <<>>
      BY <1>1, <1>6, <2>1 DEF WriteStep, TypeInv, BufferInv
    <3> QED BY <2>1, <3>1 DEF SealedInv, TilesPlaintext
  <2> QED BY <1>1, <2>2 DEF WriteStep, TypeInv, WriterTypeOK, BufferInv, Buffered, ByteOffsets
<1> HIDE DEF len, last, N
<1>9. ASSUME NEW i \in 1 .. N + 1
      PROVE  /\ chunks'[i].isFinal => i = N + 1
             /\ ~chunks'[i].isFinal => chunks'[i].body.len = ChunkSize
  <2>1. CASE i = N + 1
    BY <1>2, <1>6, <1>7, <2>1
  <2>2. CASE i \in 1 .. N
    BY <1>6, <1>8, <2>2 DEF WholeInv
  <2> QED BY <1>6, <2>1, <2>2
<1> QED BY <1>1, <1>5, <1>6, <1>9, WholeTurn DEF WholeInv

LEMMA StepKeepsWhole ==
  ASSUME WholeCalls
  PROVE  SealedInv /\ WholeInv /\ [WriterNext]_writerVars => WholeInv'
<1> SUFFICES ASSUME SealedInv, WholeInv, [WriterNext]_writerVars PROVE WholeInv'
  OBVIOUS
<1>1. 0 = 0 * ChunkSize
  OBVIOUS
<1>2. TypeInv
  BY DEF SealedInv
<1>3. ASSUME NEW n \in CallSizes, WriteCall(n) PROVE WholeInv'
  <2>1. n >= TotalSize => n >= TotalSize - written
    BY <1>2 DEF TypeInv, WriterTypeOK, ByteOffsets
  <2> QED BY <1>3, <2>1 DEF WriteCall, WholeCalls, WholeInv, Buffered
<1>4. CASE WriteStep
  BY <1>4, WholeStep
<1>5. CASE WriteReturn
  BY <1>1, <1>5 DEF WriteReturn, WholeInv, Buffered
<1>6. CASE FinalizeIncomplete
  BY <1>6 DEF FinalizeIncomplete, WholeInv, Buffered
<1>7. CASE Finalize
  BY <1>7, FinalizeKeepsChunks DEF Finalize, WholeInv, Buffered
<1>8. CASE UNCHANGED writerVars
  BY <1>8 DEF writerVars, WholeInv, Buffered
<1> QED BY <1>3, <1>4, <1>5, <1>6, <1>7, <1>8 DEF WriterNext

(* What such a caller gets from finalize, the section codec accepts.       *)
LEMMA WholeIsAccepted == SealedInv /\ WholeInv => ReadyForContainer
<1> SUFFICES ASSUME SealedInv, WholeInv, status = "done" PROVE EncodeAccepts(chunks)
  BY DEF ReadyForContainer
<1>1. chunks \in Seq(Entry) /\ chunks # <<>>
      /\ ChunkEnd(chunks[Len(chunks)].body) = TotalSize
  BY DEF SealedInv, TypeInv, WriterTypeOK, FinalMarksTheEnd
<1>2. Len(chunks) \in DOMAIN chunks /\ DOMAIN chunks = 1 .. Len(chunks) /\ Len(chunks) \in Nat
  BY <1>1
<1>3. chunks[Len(chunks)].isFinal
  BY <1>1, <1>2 DEF SealedInv, FinalMarksTheEnd
<1>4. \A j \in 1 .. Len(chunks) - 1 : ~chunks[j].isFinal
  BY <1>2 DEF WholeInv
<1>5. FinalIsLast(chunks)
  BY <1>2, <1>3, <1>4 DEF FinalIsLast
<1>6. \A i \in DOMAIN chunks : EntryAccepted(chunks[i])
  BY DEF SealedInv, TilesPlaintext, WholeInv, EntryAccepted
<1> QED BY <1>5, <1>6 DEF EncodeAccepts

-----------------------------------------------------------------------------
USE SeekAssumption

(* The reader is fed from the writer's chunks, and untouched before.       *)
StageInv ==
  /\ section = IF Readable THEN chunks ELSE <<>>
  /\ ~Readable => /\ rEpoch = 0 /\ rChunk = 0 /\ origin = 0
                  /\ ~finalized /\ delivered = <<>> /\ result = "none"

(* The typed part of the inductive invariants.                             *)
StreamTypeInv == TypeInv /\ TypeOK /\ StageInv

-----------------------------------------------------------------------------
(* What a call of read_chunk does with a chunk that opens: it overflows,   *)
(* or it delivers the chunk.                                               *)
Overflows ==
  /\ EpochRolls(rChunk + 1) /\ EpochExhausted
  /\ rChunk' = rChunk + 1
  /\ result' = "ChunkCountOverflow"
  /\ UNCHANGED <<rEpoch, finalized, delivered, origin>>

Returns(c) ==
  /\ ~(EpochRolls(rChunk + 1) /\ EpochExhausted)
  /\ Advance
  /\ finalized' = c.final
  /\ result' = "ok"
  /\ delivered' = Append(delivered, Piece(c))
  /\ UNCHANGED origin

ReadFails ==
  /\ result' \in Results \ {"ok", "ChunkCountOverflow"}
  /\ UNCHANGED <<rEpoch, rChunk, finalized, delivered, origin>>

OpensNext(c) == ~finalized /\ c.epoch = rEpoch /\ c.chunk = rChunk

(* Whatever is handed in, what opens is a chunk of the section, and at the *)
(* reader's position.                                                      *)
LEMMA ReadChunkEffect ==
  ASSUME NEW c \in Chunk, NEW d \in Damage, NEW f \in BOOLEAN, ReadChunk(c, d, f)
  PROVE  ReadFails \/ (OpensNext(c) /\ (Overflows \/ Returns(c)))
<1>1. CASE ReadAfterFinal \/ ReadTooShort(d) \/ ReadUndecryptable(c, d, f)
  BY <1>1 DEF ReadAfterFinal, ReadTooShort, ReadUndecryptable, Fail, ReadFails, Results
<1>2. CASE ReadOverflow(c, d, f)
  BY <1>2 DEF ReadOverflow, Decrypts, Opens, OpensNext, Overflows
<1>3. CASE ReadOk(c, d, f)
  BY <1>3 DEF ReadOk, Decrypts, Opens, OpensNext, Returns, Completes
<1> QED BY <1>1, <1>2, <1>3 DEF ReadChunk

LEMMA ReadEffect ==
  ASSUME TypeOK, ReadAny \/ ReadNext
  PROVE  ReadFails \/ \E i \in DOMAIN section :
                        /\ OpensNext(section[i].body)
                        /\ Overflows \/ Returns(section[i].body)
<1>1. \A i \in DOMAIN section : section[i] \in Entry
  BY DEF TypeOK
<1>2. CASE ReadAny
  <2>1. PICK i \in DOMAIN section, file \in Files, d \in Damage, f \in BOOLEAN :
               ReadChunk([section[i].body EXCEPT !.file = file], d, f)
    BY <1>2 DEF ReadAny, Ciphertexts
  <2> DEFINE c == [section[i].body EXCEPT !.file = file]
  <2>2. /\ c \in Chunk
        /\ c.epoch = section[i].body.epoch /\ c.chunk = section[i].body.chunk
        /\ c.from = section[i].body.from /\ c.len = section[i].body.len
        /\ c.final = section[i].body.final
    BY <1>1 DEF Entry, Chunk
  <2>3. ReadChunk(c, d, f)
    BY <2>1
  <2> HIDE DEF c
  <2>4. ReadFails \/ (OpensNext(c) /\ (Overflows \/ Returns(c)))
    BY <2>2, <2>3, ReadChunkEffect
  <2> QED BY <2>2, <2>4 DEF OpensNext, Returns, Piece
<1>3. CASE ReadNext
  <2> DEFINE i == Len(delivered) + 1
  <2>1. i \in DOMAIN section /\ section[i] \in Entry
    BY <1>1, <1>3 DEF ReadNext, TypeOK
  <2>2. ReadChunk(section[i].body, "none", section[i].isFinal)
    BY <1>3 DEF ReadNext
  <2> HIDE DEF i
  <2>3. section[i].body \in Chunk /\ section[i].isFinal \in BOOLEAN /\ "none" \in Damage
    BY <2>1 DEF Entry, Damage
  <2> QED BY <2>1, <2>2, <2>3, ReadChunkEffect
<1> QED BY <1>2, <1>3

(* Every step but a reader's leaves the reader alone.                      *)
LEMMA OtherSteps ==
  ASSUME [Next]_vars
  PROVE  \/ /\ Readable /\ (ReadAny \/ ReadNext)
            /\ UNCHANGED <<writerVars, stage, section>>
         \/ /\ Readable /\ \E e \in SeekEpochs : SeekEpoch(e)
            /\ UNCHANGED <<writerVars, stage, section>>
         \/ /\ stage = "writing" /\ WriterNext
            /\ UNCHANGED <<readerVars, stage, section>>
         \/ /\ stage = "writing" /\ status = "done"
            /\ stage' \in {"stored", "streamed"} /\ section' = chunks
            /\ UNCHANGED <<writerVars, readerVars>>
         \/ /\ stage = "writing" /\ stage' = "rejected"
            /\ UNCHANGED <<writerVars, readerVars, section>>
         \/ UNCHANGED vars
  BY DEF Next, Write, Store, StoreRejected, HandOver, ReadAny, ReadNext, Seek

LEMMA StepKeepsWriter == [Next]_vars => [WriterNext]_writerVars
  BY OtherSteps DEF vars

-----------------------------------------------------------------------------
(* The part of TypeOK that is the reader's.                                *)
ReaderTypes ==
  /\ rEpoch \in Epochs
  /\ rChunk \in 0 .. EpochSize
  /\ finalized \in BOOLEAN
  /\ result \in Results
  /\ delivered \in Seq([from : ByteOffsets, len : Nat])
  /\ origin \in Epochs

LEMMA TypeParts ==
  TypeOK <=> /\ WriterTypeOK /\ ReaderTypes
             /\ stage \in {"writing", "stored", "streamed", "rejected"}
             /\ section \in Seq(Entry)
  BY DEF TypeOK, ReaderTypes

LEMMA SectionType ==
  ASSUME TypeOK, NEW i \in DOMAIN section
  PROVE  section[i] \in Entry /\ section[i].body \in Chunk
<1>1. section \in Seq(Entry)
  BY TypeParts
<1>2. section[i] \in Entry
  BY <1>1
<1> QED BY <1>2 DEF Entry

LEMMA InitStreamTypes == Init => StreamTypeInv
<1> SUFFICES ASSUME Init PROVE StreamTypeInv
  OBVIOUS
<1>1. TypeInv /\ WriterTypeOK
  BY InitTypes DEF Init, TypeInv
<1>2. ReaderTypes
  <2>1. <<>> \in Seq([from : ByteOffsets, len : Nat])
    OBVIOUS
  <2>2. 0 \in Epochs /\ 0 \in 0 .. EpochSize /\ "none" \in Results
    BY DEF Epochs, Results
  <2> QED BY <2>1, <2>2 DEF Init, ReaderInit, ReaderTypes
<1>3. stage = "writing" /\ section = <<>>
  BY DEF Init
<1>4. TypeOK
  BY <1>1, <1>2, <1>3, TypeParts
<1>5. StageInv
  BY <1>3 DEF Init, ReaderInit, StageInv, Readable
<1> QED BY <1>1, <1>4, <1>5 DEF StreamTypeInv

LEMMA ReturnKeepsTypes ==
  ASSUME TypeOK, NEW i \in DOMAIN section, OpensNext(section[i].body), Returns(section[i].body)
  PROVE  ReaderTypes'
<1>1. section[i].body \in Chunk
  BY SectionType
<1>2. ReaderTypes /\ rEpoch \in Epochs /\ rChunk \in ChunkSlots
  BY <1>1, TypeParts DEF OpensNext, Chunk, ReaderTypes
<1>3. rEpoch' \in Epochs /\ rChunk' \in 0 .. EpochSize
  <2>1. CASE EpochRolls(rChunk + 1)
    BY <1>2, <2>1 DEF Returns, Advance, EpochExhausted, Epochs
  <2>2. CASE ~EpochRolls(rChunk + 1)
    BY <1>2, <2>2 DEF Returns, Advance, ChunkSlots
  <2> QED BY <2>1, <2>2
<1>4. Piece(section[i].body) \in [from : ByteOffsets, len : Nat]
  BY <1>1 DEF Chunk, Piece
<1>5. section[i].body.final \in BOOLEAN
  BY <1>1 DEF Chunk
<1>6. delivered' \in Seq([from : ByteOffsets, len : Nat])
  BY <1>2, <1>4 DEF Returns, ReaderTypes
<1> QED BY <1>2, <1>3, <1>5, <1>6 DEF Returns, ReaderTypes, Results

LEMMA ReadKeepsTypes == ASSUME TypeOK, ReadAny \/ ReadNext PROVE ReaderTypes'
<1>1. ReaderTypes
  BY TypeParts
<1>2. CASE ReadFails
  BY <1>1, <1>2 DEF ReadFails, ReaderTypes
<1>3. ASSUME NEW i \in DOMAIN section, OpensNext(section[i].body), Overflows
      PROVE  ReaderTypes'
  <2>1. rChunk \in ChunkSlots
    BY <1>3, SectionType DEF OpensNext, Chunk
  <2>2. rChunk' \in 0 .. EpochSize
    BY <1>3, <2>1 DEF Overflows, ChunkSlots
  <2> QED BY <1>1, <1>3, <2>2 DEF Overflows, ReaderTypes, Results
<1> QED BY <1>2, <1>3, ReadEffect, ReturnKeepsTypes

LEMMA StepKeepsStreamTypes == StreamTypeInv /\ [Next]_vars => StreamTypeInv'
<1> SUFFICES ASSUME StreamTypeInv, [Next]_vars
             PROVE  /\ ReaderTypes' /\ stage' \in {"writing", "stored", "streamed", "rejected"}
                    /\ section' \in Seq(Entry) /\ StageInv'
  BY StepKeepsWriter, StepKeepsTypes DEF StreamTypeInv, TypeInv, TypeOK, ReaderTypes
<1>1. /\ TypeOK /\ StageInv /\ ReaderTypes /\ WriterTypeOK
      /\ stage \in {"writing", "stored", "streamed", "rejected"} /\ section \in Seq(Entry)
  BY TypeParts DEF StreamTypeInv
<1> USE <1>1
<1>2. CASE Readable /\ (ReadAny \/ ReadNext) /\ UNCHANGED <<writerVars, stage, section>>
  BY <1>2, ReadKeepsTypes DEF StageInv, Readable, writerVars
<1>3. ASSUME Readable, NEW e \in SeekEpochs, SeekEpoch(e), UNCHANGED <<writerVars, stage, section>>
      PROVE  ReaderTypes' /\ StageInv'
  <2>1. ReaderTypes'
    <3>1. <<>> \in Seq([from : ByteOffsets, len : Nat]) /\ 0 \in 0 .. EpochSize
      OBVIOUS
    <3> QED BY <1>3, <3>1 DEF SeekEpoch, FirstSlot, ReaderTypes
  <2> QED BY <1>3, <2>1 DEF StageInv, Readable, writerVars
<1>4. CASE stage = "writing" /\ WriterNext /\ UNCHANGED <<readerVars, stage, section>>
  BY <1>4 DEF readerVars, ReaderTypes, StageInv, Readable
<1>5. CASE /\ stage = "writing" /\ status = "done"
           /\ stage' \in {"stored", "streamed"} /\ section' = chunks
           /\ UNCHANGED <<writerVars, readerVars>>
  BY <1>5 DEF readerVars, writerVars, ReaderTypes, StageInv, Readable, WriterTypeOK
<1>6. CASE /\ stage = "writing" /\ stage' = "rejected"
           /\ UNCHANGED <<writerVars, readerVars, section>>
  BY <1>6 DEF readerVars, writerVars, ReaderTypes, StageInv, Readable
<1>7. CASE UNCHANGED vars
  BY <1>7 DEF vars, readerVars, writerVars, ReaderTypes, StageInv, Readable
<1> QED BY <1>2, <1>3, <1>4, <1>5, <1>6, <1>7, OtherSteps

(* The pipeline's state always has its type: the reader's counters stay in *)
(* range, whatever it is fed (PayloadReader, all operations).              *)
THEOREM StreamTyped == Spec => []TypeOK
<1>1. StreamTypeInv => TypeOK
  BY DEF StreamTypeInv
<1> QED BY <1>1, InitStreamTypes, StepKeepsStreamTypes, PTL DEF Spec

-----------------------------------------------------------------------------
(* Completion.  A chunk is final exactly when it ends the plaintext, and   *)
(* the reader is finalized by a final chunk only.                          *)
FinalInv == StreamTypeInv /\ SealedInv /\ FinalizedIffAtEnd

LEMMA DeliveredLast ==
  ASSUME TypeOK, NEW c, c \in Chunk, delivered' = Append(delivered, Piece(c))
  PROVE  /\ delivered' # <<>>
         /\ Len(delivered') = Len(delivered) + 1 /\ Len(delivered) \in Nat
         /\ DOMAIN delivered = 1 .. Len(delivered)
         /\ DOMAIN delivered' = 1 .. Len(delivered) + 1
         /\ \A i \in 1 .. Len(delivered) : delivered'[i] = delivered[i]
         /\ delivered'[Len(delivered')] = Piece(c)
<1>1. delivered \in Seq([from : ByteOffsets, len : Nat])
  BY DEF TypeOK
<1>2. Piece(c) \in [from : ByteOffsets, len : Nat]
  BY DEF Piece, Chunk
<1> QED BY <1>1, <1>2

LEMMA ReturnCompletes ==
  ASSUME FinalInv, Readable, NEW i \in DOMAIN section, Returns(section[i].body)
  PROVE  FinalizedIffAtEnd'
<1> DEFINE c == section[i].body
<1>1. TypeOK /\ c \in Chunk
  BY SectionType DEF FinalInv, StreamTypeInv
<1>2. section = chunks
  BY DEF FinalInv, StreamTypeInv, StageInv
<1>3. c.final <=> c.from + c.len = TotalSize
  BY <1>2 DEF FinalInv, SealedInv, FinalMarksTheEnd, ChunkEnd
<1>4. finalized' = c.final /\ delivered' = Append(delivered, Piece(c))
  BY DEF Returns
<1> HIDE DEF c
<1>5. delivered' # <<>> /\ delivered'[Len(delivered')] = Piece(c)
  BY <1>1, <1>4, DeliveredLast
<1> QED BY <1>3, <1>4, <1>5 DEF FinalizedIffAtEnd, Piece

LEMMA InitFinal == Init => FinalInv
<1>1. Init => FinalizedIffAtEnd
  BY DEF Init, ReaderInit, FinalizedIffAtEnd
<1> QED BY <1>1, InitStreamTypes, InitSealed DEF Init, FinalInv

LEMMA StepKeepsFinal == FinalInv /\ [Next]_vars => FinalInv'
<1> SUFFICES ASSUME FinalInv, [Next]_vars PROVE FinalizedIffAtEnd'
  BY StepKeepsWriter, StepKeepsSealed, StepKeepsStreamTypes DEF FinalInv
<1>1. ASSUME UNCHANGED <<finalized, delivered>> PROVE FinalizedIffAtEnd'
  BY <1>1 DEF FinalInv, FinalizedIffAtEnd
<1>2. CASE Readable /\ (ReadAny \/ ReadNext)
  BY <1>1, <1>2, ReadEffect, ReturnCompletes DEF FinalInv, StreamTypeInv, ReadFails, Overflows
<1>3. ASSUME NEW e \in SeekEpochs, SeekEpoch(e) PROVE FinalizedIffAtEnd'
  BY <1>3 DEF SeekEpoch, FinalizedIffAtEnd
<1>4. UNCHANGED readerVars => UNCHANGED <<finalized, delivered>>
  BY DEF readerVars
<1>5. UNCHANGED vars => UNCHANGED readerVars
  BY DEF vars
<1> QED BY <1>1, <1>2, <1>3, <1>4, <1>5, OtherSteps

(* The reader reports completion exactly at the end of the plaintext,      *)
(* whatever ciphertexts it was handed, in whatever order and after         *)
(* whatever seeks (read_chunk, seek_epoch).                                *)
THEOREM StreamCompletes == Spec => []FinalizedIffAtEnd
<1>1. FinalInv => FinalizedIffAtEnd
  BY DEF FinalInv
<1> QED BY <1>1, InitFinal, StepKeepsFinal, PTL DEF Spec

-----------------------------------------------------------------------------
(* Order.  Unless the reader has overflowed, its position is the one after *)
(* the chunk it returned last, or the first of the epoch it was set to.    *)
PositionKnown ==
  rChunk < EpochSize =>
    IF delivered = <<>>
    THEN rEpoch = origin /\ rChunk = 0
    ELSE \E i \in DOMAIN section :
           /\ delivered[Len(delivered)] = Piece(section[i].body)
           /\ Follows(section[i].body.epoch, section[i].body.chunk, rEpoch, rChunk)

ReaderInv == DeliversInOrder /\ PositionKnown /\ OverflowOnlyWhenFull

StreamInv == StreamTypeInv /\ SlottedInv /\ ReaderInv

(* Positions in the section.                                               *)
LEMMA SectionSlots ==
  ASSUME StreamTypeInv, SlottedInv, Readable, NEW i \in DOMAIN section
  PROVE  /\ section[i].body \in Chunk
         /\ section[i].body.epoch \in Nat /\ section[i].body.chunk \in ChunkSlots
         /\ SlotOf(section[i].body.epoch, section[i].body.chunk) = i - 1
         /\ i \in 1 .. Len(section) /\ Len(section) \in Nat
<1>1. section[i].body \in Chunk /\ section \in Seq(Entry)
  BY SectionType DEF StreamTypeInv, TypeOK
<1>2. section = chunks
  BY DEF StreamTypeInv, StageInv
<1> QED BY <1>1, <1>2 DEF SlottedInv, SlotInv, Chunk, Epochs

LEMMA SamePlaceSameChunk ==
  ASSUME StreamTypeInv, SlottedInv, Readable, NEW i \in DOMAIN section, NEW j \in DOMAIN section,
         section[i].body.epoch = section[j].body.epoch,
         section[i].body.chunk = section[j].body.chunk
  PROVE  i = j
  BY SectionSlots

(* The chunk at the position after another one is the next of the section. *)
LEMMA NextPlaceNextChunk ==
  ASSUME StreamTypeInv, SlottedInv, Readable, NEW i \in DOMAIN section, NEW j \in DOMAIN section,
         Follows(section[i].body.epoch, section[i].body.chunk,
                 section[j].body.epoch, section[j].body.chunk)
  PROVE  /\ j = i + 1
         /\ section[j].body.from = section[i].body.from + section[i].body.len
<1>1. /\ SlotOf(section[i].body.epoch, section[i].body.chunk) = i - 1
      /\ SlotOf(section[j].body.epoch, section[j].body.chunk) = j - 1
      /\ section[i].body.epoch \in Nat /\ section[i].body.chunk \in ChunkSlots
      /\ section[j].body.epoch \in Nat /\ section[j].body.chunk \in ChunkSlots
      /\ i \in Nat /\ j \in Nat /\ i >= 1
  BY SectionSlots
<1>2. section[j].body.chunk \in Nat
  BY <1>1 DEF ChunkSlots
<1>3. j - 1 = (i - 1) + 1
  BY <1>1, <1>2, NextSlot
<1>4. j = i + 1 /\ j # 1
  BY <1>1, <1>3
<1>5. section = chunks /\ TilesPlaintext
  BY DEF StreamTypeInv, StageInv, SlottedInv, UniqueInv, SealedInv
<1>6. j - 1 = i
  BY <1>1, <1>4
<1> QED BY <1>4, <1>5, <1>6 DEF TilesPlaintext, ChunkEnd

(* An epoch begins where its first chunk does.                             *)
LEMMA EpochStartIs ==
  ASSUME StreamTypeInv, SlottedInv, Readable, NEW i \in DOMAIN section, section[i].body.chunk = 0
  PROVE  EpochStart(section[i].body.epoch) = section[i].body.from
<1> DEFINE e == section[i].body.epoch
           first(j) == section[j].body.epoch = e /\ section[j].body.chunk = 0
<1>1. CASE e = 0
  <2>1. SlotOf(0, 0) = i - 1 /\ i \in Nat
    BY <1>1, SectionSlots
  <2>2. i = 1
    BY <2>1 DEF SlotOf
  <2>3. section = chunks /\ TilesPlaintext
    BY DEF StreamTypeInv, StageInv, SlottedInv, UniqueInv, SealedInv
  <2> QED BY <1>1, <2>2, <2>3 DEF TilesPlaintext, EpochStart
<1>2. CASE e # 0
  <2> DEFINE j == CHOOSE j \in DOMAIN section : first(j)
  <2>1. j \in DOMAIN section /\ first(j)
    OBVIOUS
  <2>2. EpochStart(e) = section[j].body.from
    BY <1>2 DEF EpochStart
  <2> HIDE DEF j
  <2>3. j = i
    BY <2>1, SamePlaceSameChunk
  <2> QED BY <2>2, <2>3
<1> QED BY <1>1, <1>2

(* The next chunk returned begins where the last one ended, or where the   *)
(* epoch begins.                                                           *)
LEMMA ReturnsInOrder ==
  ASSUME StreamInv, Readable, NEW i \in DOMAIN section, OpensNext(section[i].body)
  PROVE  section[i].body.from = IF delivered = <<>> THEN EpochStart(origin)
                                ELSE delivered[Len(delivered)].from + delivered[Len(delivered)].len
<1>1. section[i].body.chunk \in ChunkSlots
  BY SectionSlots DEF StreamInv
<1>2. rChunk < EpochSize
  BY <1>1 DEF OpensNext, ChunkSlots
<1>3. CASE delivered = <<>>
  BY <1>2, <1>3, EpochStartIs DEF StreamInv, ReaderInv, PositionKnown, OpensNext
<1>4. CASE delivered # <<>>
  <2>1. PICK j \in DOMAIN section :
             /\ delivered[Len(delivered)] = Piece(section[j].body)
             /\ Follows(section[j].body.epoch, section[j].body.chunk, rEpoch, rChunk)
    BY <1>2, <1>4 DEF StreamInv, ReaderInv, PositionKnown
  <2>2. section[i].body.from = section[j].body.from + section[j].body.len
    BY <2>1, NextPlaceNextChunk DEF StreamInv, OpensNext
  <2> QED BY <1>4, <2>1, <2>2 DEF Piece
<1> QED BY <1>3, <1>4

LEMMA ReturnKeepsReader ==
  ASSUME StreamInv, Readable, UNCHANGED section,
         NEW i \in DOMAIN section, OpensNext(section[i].body), Returns(section[i].body)
  PROVE  ReaderInv'
<1> DEFINE c == section[i].body
           N == Len(delivered)
<1>1. TypeOK /\ c \in Chunk
  BY SectionType DEF StreamInv, StreamTypeInv
<1>2. /\ delivered' # <<>> /\ Len(delivered') = N + 1 /\ N \in Nat
      /\ DOMAIN delivered = 1 .. N /\ DOMAIN delivered' = 1 .. N + 1
      /\ \A j \in 1 .. N : delivered'[j] = delivered[j]
      /\ delivered'[N + 1] = Piece(c)
  BY <1>1, DeliveredLast DEF Returns
<1>3. delivered = <<>> <=> N = 0
  BY <1>1 DEF TypeOK
<1>4. EpochStart(origin)' = EpochStart(origin)
  BY DEF Returns, EpochStart
<1>5. c.from = IF N = 0 THEN EpochStart(origin) ELSE delivered[N].from + delivered[N].len
  BY <1>3, ReturnsInOrder
<1>6. Follows(c.epoch, c.chunk, rEpoch', rChunk')
  BY DEF OpensNext, Returns, Advance, Follows
<1>7. result' = "ok"
  BY DEF Returns
<1>8. PositionKnown'
  BY <1>2, <1>6 DEF PositionKnown
<1> HIDE DEF N, c
<1>9. DeliversInOrder'
  <2> SUFFICES ASSUME NEW j \in 1 .. N + 1
               PROVE  delivered'[j].from = IF j = 1 THEN EpochStart(origin)'
                                           ELSE delivered'[j - 1].from + delivered'[j - 1].len
    BY <1>2 DEF DeliversInOrder
  <2>1. CASE j = N + 1
    <3>1. delivered'[j].from = c.from
      BY <1>2, <2>1 DEF Piece
    <3>2. CASE N = 0
      BY <1>4, <1>5, <2>1, <3>1, <3>2
    <3>3. CASE N # 0
      <4>1. N \in 1 .. N /\ j - 1 = N /\ j # 1
        BY <1>2, <2>1, <3>3
      <4>2. delivered'[j - 1] = delivered[N]
        BY <1>2, <4>1
      <4> QED BY <1>5, <3>1, <3>3, <4>1, <4>2
    <3> QED BY <3>2, <3>3
  <2>2. CASE j \in 1 .. N
    <3>1. delivered'[j] = delivered[j] /\ (j # 1 => delivered'[j - 1] = delivered[j - 1])
      BY <1>2, <2>2
    <3>2. delivered[j].from = IF j = 1 THEN EpochStart(origin)
                              ELSE delivered[j - 1].from + delivered[j - 1].len
      BY <1>2, <2>2 DEF StreamInv, ReaderInv, DeliversInOrder
    <3> QED BY <1>4, <3>1, <3>2
  <2> QED BY <1>2, <2>1, <2>2
<1> QED BY <1>7, <1>8, <1>9 DEF ReaderInv, OverflowOnlyWhenFull

(* A chunk that opens at the last position of all is the last of a full    *)
(* payload.                                                                *)
LEMMA OverflowKeepsReader ==
  ASSUME StreamInv, Readable, UNCHANGED section,
         NEW i \in DOMAIN section, OpensNext(section[i].body), Overflows
  PROVE  ReaderInv'
<1>1. /\ section[i].body.epoch \in Nat /\ section[i].body.chunk \in ChunkSlots
      /\ SlotOf(section[i].body.epoch, section[i].body.chunk) = i - 1
      /\ section[i].body.epoch \in Epochs
      /\ i \in 1 .. Len(section) /\ Len(section) \in Nat
  BY SectionSlots DEF StreamInv, Chunk
<1>2. rEpoch + 1 = EpochLimit /\ rChunk + 1 = EpochSize
  BY <1>1 DEF OpensNext, Overflows, EpochExhausted, EpochRolls, ChunkSlots, Epochs
<1>3. rEpoch \in Nat /\ (rEpoch + 1) * EpochSize = rEpoch * EpochSize + EpochSize
      /\ rEpoch * EpochSize \in Int
  BY <1>1, OneMore DEF OpensNext
<1>4. rEpoch * EpochSize + rChunk = i - 1
  BY <1>1 DEF OpensNext, SlotOf
<1>5. EpochLimit * EpochSize = i
  <2>1. EpochLimit * EpochSize = (rEpoch + 1) * EpochSize
    BY <1>2
  <2>2. rChunk = EpochSize - 1
    BY <1>1, <1>2 DEF OpensNext, ChunkSlots
  <2>3. (rEpoch * EpochSize) + EpochSize = i
    BY <1>1, <1>3, <1>4, <2>2
  <2> QED BY <1>3, <2>1, <2>3
<1>6. OverflowOnlyWhenFull'
  BY <1>1, <1>5 DEF OverflowOnlyWhenFull
<1>7. PositionKnown'
  BY <1>2 DEF Overflows, PositionKnown
<1>8. DeliversInOrder'
  BY DEF Overflows, StreamInv, ReaderInv, DeliversInOrder, EpochStart
<1> QED BY <1>6, <1>7, <1>8 DEF ReaderInv

LEMMA InitReader == Init => ReaderInv
  BY DEF Init, ReaderInit, ReaderInv, DeliversInOrder, PositionKnown, OverflowOnlyWhenFull

LEMMA StepKeepsStream ==
  ASSUME EnoughEpochs
  PROVE  StreamInv /\ [Next]_vars => StreamInv'
<1> SUFFICES ASSUME StreamInv, [Next]_vars PROVE ReaderInv'
  BY StepKeepsWriter, StepKeepsSlotted, StepKeepsStreamTypes DEF StreamInv
<1>1. StreamTypeInv /\ ReaderInv
  BY DEF StreamInv
<1>2. CASE Readable /\ (ReadAny \/ ReadNext) /\ UNCHANGED <<writerVars, stage, section>>
  <2>1. CASE ReadFails
    BY <1>1, <1>2, <2>1 DEF ReadFails, ReaderInv, DeliversInOrder, EpochStart, PositionKnown,
                          OverflowOnlyWhenFull, Results
  <2> QED BY <1>1, <1>2, <2>1, ReadEffect, OverflowKeepsReader, ReturnKeepsReader DEF StreamTypeInv
<1>3. ASSUME NEW e \in SeekEpochs, SeekEpoch(e), UNCHANGED <<writerVars, stage, section>>
      PROVE  ReaderInv'
  BY <1>1, <1>3 DEF SeekEpoch, FirstSlot, ReaderInv, DeliversInOrder, PositionKnown,
                    OverflowOnlyWhenFull
<1>4. CASE UNCHANGED <<readerVars, section>>
  BY <1>1, <1>4 DEF readerVars, ReaderInv, DeliversInOrder, EpochStart, PositionKnown,
                    OverflowOnlyWhenFull
<1>5. CASE stage = "writing" /\ UNCHANGED readerVars
  BY <1>1, <1>5 DEF readerVars, StreamTypeInv, StageInv, Readable, ReaderInv, DeliversInOrder,
                    PositionKnown, OverflowOnlyWhenFull
<1> QED BY <1>2, <1>3, <1>4, <1>5, OtherSteps DEF vars

LEMMA InitStream == Init => StreamInv
  BY InitStreamTypes, InitSlotted, InitReader DEF Init, StreamInv

(* What the reader has returned since it was positioned is a contiguous    *)
(* run of the plaintext from the start of that epoch, whatever it was      *)
(* handed (read_chunk, seek_epoch), as long as the writer's epoch counter  *)
(* cannot wrap.                                                            *)
THEOREM StreamDeliversInOrder == EnoughEpochs => (Spec => []DeliversInOrder)
<1> SUFFICES ASSUME EnoughEpochs PROVE Spec => []DeliversInOrder
  OBVIOUS
<1>1. StreamInv /\ [Next]_vars => StreamInv'
  BY StepKeepsStream
<1>2. StreamInv => DeliversInOrder
  BY DEF StreamInv, ReaderInv
<1> QED BY <1>1, <1>2, InitStream, PTL DEF Spec

(* The reader runs out of epochs only on a payload that takes every key    *)
(* position there is (read_chunk, ChunkCountOverflow).                     *)
THEOREM StreamOverflowsWhenFull == EnoughEpochs => (Spec => []OverflowOnlyWhenFull)
<1> SUFFICES ASSUME EnoughEpochs PROVE Spec => []OverflowOnlyWhenFull
  OBVIOUS
<1>1. StreamInv /\ [Next]_vars => StreamInv'
  BY StepKeepsStream
<1>2. StreamInv => OverflowOnlyWhenFull
  BY DEF StreamInv, ReaderInv
<1> QED BY <1>1, <1>2, InitStream, PTL DEF Spec

-----------------------------------------------------------------------------
(* Refinement: reading delivers, seeking repositions, and every other step *)
(* leaves the stream as it is.                                             *)
LEMMA ReturnDelivers ==
  ASSUME StreamInv, Readable, UNCHANGED section,
         NEW i \in DOMAIN section, OpensNext(section[i].body), Returns(section[i].body)
  PROVE  Stream!Deliver(section[i].body.len) /\ section[i].body.len \in 1 .. TotalSize - Stream!NextByte
<1> DEFINE c == section[i].body
<1>1. /\ section = chunks /\ TilesPlaintext /\ FinalMarksTheEnd
      /\ i \in DOMAIN chunks /\ ChunkEnd(chunks[i].body) <= TotalSize
      /\ delivered \in Seq([from : ByteOffsets, len : Nat])
  BY DEF StreamInv, StreamTypeInv, TypeOK, StageInv, SlottedInv, UniqueInv, SealedInv, SlotInv
<1>2. c \in Chunk
  BY SectionSlots DEF StreamInv
<1>3. c.from = IF delivered = <<>> THEN EpochStart(origin)
               ELSE delivered[Len(delivered)].from + delivered[Len(delivered)].len
  BY ReturnsInOrder
<1>4. Stream!NextByte = c.from
  BY <1>3 DEF Stream!NextByte, Stream!PieceEnd
<1>5. c.from \in Nat /\ c.len \in 1 .. ChunkSize /\ c.from + c.len <= TotalSize
  BY <1>1, <1>2 DEF TilesPlaintext, ChunkEnd, Chunk, ByteOffsets
<1>6. c.final = (c.from + c.len = TotalSize)
  BY <1>1, <1>2 DEF FinalMarksTheEnd, ChunkEnd, Chunk
<1>7. EpochStart(origin)' = EpochStart(origin)
  BY DEF Returns, EpochStart
<1>8. /\ ~finalized /\ finalized' = c.final
      /\ delivered' = Append(delivered, [from |-> c.from, len |-> c.len])
  BY DEF OpensNext, Returns, Piece
<1>9. c.len \in 1 .. TotalSize - c.from
  BY <1>5
<1> HIDE DEF c
<1> QED BY <1>4, <1>6, <1>7, <1>8, <1>9 DEF Stream!Deliver, c

LEMMA EpochStartType == ASSUME TypeOK, NEW e \in Epochs PROVE EpochStart(e) \in 0 .. TotalSize
<1>1. CASE e = 0
  BY <1>1 DEF EpochStart
<1> DEFINE first(i) == section[i].body.epoch = e /\ section[i].body.chunk = 0
<1>2. CASE e # 0 /\ \E i \in DOMAIN section : first(i)
  <2> DEFINE i == CHOOSE i \in DOMAIN section : first(i)
  <2>1. i \in DOMAIN section /\ EpochStart(e) = section[i].body.from
    BY <1>2 DEF EpochStart
  <2> HIDE DEF i
  <2> QED BY <2>1, SectionType DEF Chunk, ByteOffsets
<1>3. CASE e # 0 /\ ~ \E i \in DOMAIN section : first(i)
  BY <1>3 DEF EpochStart
<1> QED BY <1>1, <1>2, <1>3

LEMMA InitIsStreamInit == Init => Stream!Init
  BY DEF Init, ReaderInit, Stream!Init, EpochStart

LEMMA StepIsStreamStep == StreamInv /\ [Next]_vars => [Stream!Next]_Stream!streamVars
<1> SUFFICES ASSUME StreamInv, [Next]_vars
             PROVE  Stream!Next \/ UNCHANGED Stream!streamVars
  OBVIOUS
<1>1. ASSUME UNCHANGED <<delivered, finalized, origin, section>>
      PROVE  UNCHANGED Stream!streamVars
  BY <1>1 DEF Stream!streamVars, EpochStart
<1>2. CASE Readable /\ (ReadAny \/ ReadNext) /\ UNCHANGED <<writerVars, stage, section>>
  <2>1. TypeOK
    BY DEF StreamInv, StreamTypeInv
  <2>2. CASE ReadFails
    BY <1>1, <1>2, <2>2 DEF ReadFails
  <2>3. ASSUME NEW i \in DOMAIN section, OpensNext(section[i].body), Overflows
        PROVE  UNCHANGED Stream!streamVars
    BY <1>1, <1>2, <2>3 DEF Overflows
  <2>4. ASSUME NEW i \in DOMAIN section, OpensNext(section[i].body), Returns(section[i].body)
        PROVE  Stream!Next
    BY <1>2, <2>4, ReturnDelivers DEF Stream!Next
  <2> QED BY <1>2, <2>1, <2>2, <2>3, <2>4, ReadEffect
<1>3. ASSUME NEW e \in SeekEpochs, SeekEpoch(e), UNCHANGED <<writerVars, stage, section>>
      PROVE  Stream!Next
  <2>1. EpochStart(e) \in 0 .. TotalSize
    BY EpochStartType DEF StreamInv, StreamTypeInv
  <2>2. EpochStart(origin)' = EpochStart(e)
    BY <1>3 DEF SeekEpoch, EpochStart
  <2> QED BY <1>3, <2>1, <2>2 DEF SeekEpoch, Stream!Next, Stream!Reposition
<1>4. CASE stage = "writing" /\ UNCHANGED readerVars
  <2>1. origin = 0 /\ origin' = 0
    BY <1>4 DEF StreamInv, StreamTypeInv, StageInv, Readable, readerVars
  <2>2. EpochStart(origin)' = EpochStart(origin)
    BY <2>1 DEF EpochStart
  <2> QED BY <1>4, <2>2 DEF readerVars, Stream!streamVars
<1>5. CASE UNCHANGED vars
  BY <1>1, <1>5 DEF vars, readerVars
<1> QED BY <1>2, <1>3, <1>4, <1>5, OtherSteps

(* Writing, storing and reading a payload implement the byte stream: every *)
(* step delivers the next piece, repositions, or is not seen.              *)
THEOREM StreamImplements == EnoughEpochs => (Spec => ImplementsByteStream)
<1> SUFFICES ASSUME EnoughEpochs PROVE Spec => ImplementsByteStream
  OBVIOUS
<1>1. StreamInv /\ [Next]_vars => StreamInv'
  BY StepKeepsStream
<1> QED BY <1>1, InitStream, InitIsStreamInit, StepIsStreamStep, PTL
        DEF Spec, ImplementsByteStream, Stream!Spec

-----------------------------------------------------------------------------
(* Storing what was written in whole chunks, or in one call.               *)
AcceptedInv == SealedInv /\ WholeInv /\ NeverRejected

LEMMA StepKeepsAccepted ==
  ASSUME WholeCalls
  PROVE  AcceptedInv /\ [Next]_vars => AcceptedInv'
<1> SUFFICES ASSUME AcceptedInv, [Next]_vars PROVE NeverRejected'
  BY StepKeepsWriter, StepKeepsSealed, StepKeepsWhole DEF AcceptedInv
<1>1. CASE StoreRejected
  <2>1. ReadyForContainer
    BY WholeIsAccepted DEF AcceptedInv
  <2> QED BY <1>1, <2>1 DEF StoreRejected, ReadyForContainer
<1>2. CASE Store \/ HandOver
  BY <1>2 DEF Store, HandOver, NeverRejected
<1>3. CASE UNCHANGED stage
  BY <1>3 DEF AcceptedInv, NeverRejected
<1> QED BY <1>1, <1>2, <1>3 DEF Next, Write, ReadAny, ReadNext, Seek, vars

(* A caller that passes the plaintext in one call, as ops::encrypt does,   *)
(* or in whole chunks, never sees its chunks refused by the section codec  *)
(* (write, PayloadSection::encode).                                        *)
THEOREM StreamNeverRejected == WholeCalls => (Spec => []NeverRejected)
<1> SUFFICES ASSUME WholeCalls PROVE Spec => []NeverRejected
  OBVIOUS
<1>1. AcceptedInv /\ [Next]_vars => AcceptedInv'
  BY StepKeepsAccepted
<1>2. Init => AcceptedInv
  BY InitSealed, InitWhole DEF Init, AcceptedInv, NeverRejected
<1>3. AcceptedInv => NeverRejected
  BY DEF AcceptedInv
<1> QED BY <1>1, <1>2, <1>3, PTL DEF Spec

=============================================================================
