--------------------------- MODULE PayloadWriter ---------------------------
(***************************************************************************)
(* PayloadWriter (format/payload_writer.rs): a caller hands over the       *)
(* plaintext in one or more write calls; the writer cuts it into chunks,   *)
(* seals each at the next (epoch, chunk) key position, and hands back the  *)
(* sealed chunks when it is finalized.                                     *)
(*                                                                         *)
(* One iteration of the loop in write is one step: while a call has input  *)
(* left only the loop runs, so no other operation falls inside a call.     *)
(***************************************************************************)
EXTENDS PayloadChunks

CONSTANT CallSizes    \* the buffer sizes the caller may pass to write

ASSUME CallsAssumption == CallSizes \subseteq Nat \ {0}

VARIABLES
  status,     \* "open"; "done" or "failed" once finalize has consumed the writer
  input,      \* bytes of the current write call not consumed yet
  written,    \* plaintext_written
  bufStart,   \* chunk_buffer holds the bytes bufStart .. written - 1
  epoch,      \* epoch_index
  chunk,      \* chunk_index_in_epoch
  chunks      \* encrypted_chunks

writerVars == <<status, input, written, bufStart, epoch, chunk, chunks>>

Least(a, b) == IF a <= b THEN a ELSE b

-----------------------------------------------------------------------------
WriterInit ==
  /\ status = "open"
  /\ input = 0
  /\ written = 0
  /\ bufStart = 0
  /\ epoch = 0
  /\ chunk = 0
  /\ chunks = <<>>

Buffered == written - bufStart

(* How much one iteration moves into the chunk buffer.                     *)
BytesToWrite == Least(ChunkSize - Buffered, Least(input, TotalSize - written))

(* Variants of the test below that forget the full chunk or close chunks   *)
(* in every slot; an epoch that never advances.                            *)
ClosesWhenLast(filled, last)  == last
ClosesEverySlot(filled, last) == filled > 0
SameEpoch(e)                  == e

(* After n more bytes the chunk is sealed when it is full, when it ends    *)
(* the plaintext, or when it is the last chunk of its epoch.               *)
ChunkCloses(filled, last) ==
  \/ filled = ChunkSize
  \/ last
  \/ chunk >= EpochSize - 1 /\ filled > 0

(* epoch_index += 1 on a u32, not checked: it wraps.                       *)
NextEpoch(e) == (e + 1) % EpochLimit

(* A final mark that forgets to ask whether the plaintext is complete.     *)
MarksFullChunks(n, last) == n = ChunkSize \/ last

(* is_final_chunk: the mark sealed into the associated data.               *)
FinalMark(n, last) == last

(* chunk_buffer.clear() forgotten, and as it is.                           *)
NotCleared(n) == bufStart
Cleared(n)    == bufStart + n

(* finalize_chunk: nothing when the buffer is empty; otherwise seal the    *)
(* buffer, move to the next key position and clear the buffer.             *)
FinalizeChunk(n, last) ==
  IF n = 0
  THEN UNCHANGED <<bufStart, epoch, chunk, chunks>>
  ELSE /\ chunks' = Append(chunks,
                      [body    |-> SealChunk(epoch, chunk, bufStart, n, FinalMark(n, last)),
                       isFinal |-> FinalMark(n, last)])
       /\ bufStart' = Cleared(n)
       /\ IF EpochRolls(chunk + 1)
          THEN chunk' = 0 /\ epoch' = NextEpoch(epoch)
          ELSE chunk' = chunk + 1 /\ UNCHANGED epoch

-----------------------------------------------------------------------------
(* The caller enters write with a buffer of n bytes.                       *)
WriteCall(n) ==
  /\ status = "open"
  /\ input = 0
  /\ input' = n
  /\ UNCHANGED <<status, written, bufStart, epoch, chunk, chunks>>

(* One iteration of the loop of write.                                     *)
WriteStep ==
  LET n    == BytesToWrite
      last == written + n = TotalSize
  IN  /\ input > 0
      /\ written < TotalSize
      /\ written' = written + n
      /\ input' = input - n
      /\ IF ChunkCloses(Buffered + n, last)
         THEN FinalizeChunk(Buffered + n, last)
         ELSE UNCHANGED <<bufStart, epoch, chunk, chunks>>
      /\ UNCHANGED status

(* The loop ends because the declared size is reached: write returns how   *)
(* much it took and the rest of the caller's buffer stays unread.          *)
WriteReturn ==
  /\ input > 0
  /\ written = TotalSize
  /\ input' = 0
  /\ UNCHANGED <<status, written, bufStart, epoch, chunk, chunks>>

(* finalize before every byte was written: an error, the chunks are lost.  *)
FinalizeIncomplete ==
  /\ status = "open"
  /\ input = 0
  /\ written < TotalSize
  /\ status' = "failed"
  /\ chunks' = <<>>
  /\ UNCHANGED <<input, written, bufStart, epoch, chunk>>

(* The chunks finalize returns: a chunk still buffered is sealed as final, *)
(* and the flag stored with the last one is set.                           *)
FlushedChunks ==
  IF Buffered > 0
  THEN Append(chunks, [body    |-> SealChunk(epoch, chunk, bufStart, Buffered, TRUE),
                       isFinal |-> TRUE])
  ELSE [i \in DOMAIN chunks |->
          IF i = Len(chunks) THEN [chunks[i] EXCEPT !.isFinal = TRUE] ELSE chunks[i]]

(* finalize, all bytes written: it consumes the writer.                    *)
Finalize ==
  /\ status = "open"
  /\ input = 0
  /\ written = TotalSize
  /\ status' = "done"
  /\ chunks' = FlushedChunks
  /\ UNCHANGED <<input, written, bufStart, epoch, chunk>>

WriterNext ==
  \/ \E n \in CallSizes : WriteCall(n)
  \/ WriteStep
  \/ WriteReturn
  \/ FinalizeIncomplete
  \/ Finalize

(* Inside a call the loop is ordinary sequential code and always runs on;  *)
(* nothing obliges the caller to call again or to finalize.                *)
WriterFairness == WF_writerVars(WriteStep) /\ WF_writerVars(WriteReturn)

WriterSpec == WriterInit /\ [][WriterNext]_writerVars /\ WriterFairness

-----------------------------------------------------------------------------
(* Type invariant of the writer.                                           *)
WriterTypeOK ==
  /\ status \in {"open", "done", "failed"}
  /\ input \in Nat
  /\ written \in ByteOffsets
  /\ bufStart \in ByteOffsets
  /\ epoch \in Epochs
  /\ chunk \in ChunkSlots
  /\ chunks \in Seq(Entry)

(* However the plaintext was split over write calls, the sealed chunks     *)
(* tile exactly the bytes taken out of the buffer, in order, with no gap,  *)
(* overlap or empty or oversized chunk (payload_writer.rs, write).         *)
TilesPlaintext ==
  /\ \A i \in DOMAIN chunks :
       /\ chunks[i].body.len \in 1 .. ChunkSize
       /\ chunks[i].body.from = IF i = 1 THEN 0 ELSE ChunkEnd(chunks[i - 1].body)
  /\ status # "failed" =>
       bufStart = IF chunks = <<>> THEN 0 ELSE ChunkEnd(chunks[Len(chunks)].body)
  /\ 0 <= Buffered /\ Buffered < ChunkSize

(* Every chunk is sealed under its own (epoch, chunk) key position: no     *)
(* position is used twice (the key of encrypt_chunk derives from it;       *)
(* "each chunk has a unique index", README.md:508).  This needs enough     *)
(* epochs for the plaintext: the writer does not test that there are.      *)
UniquePositions ==
  \A i, j \in DOMAIN chunks :
    /\ chunks[i].body.epoch = chunks[j].body.epoch
    /\ chunks[i].body.chunk = chunks[j].body.chunk
    => i = j

(* The final mark, sealed and stored alike, is on the chunk that ends the  *)
(* plaintext and on no other; a finished writer always has one.            *)
FinalMarksTheEnd ==
  /\ \A i \in DOMAIN chunks :
       /\ chunks[i].isFinal = chunks[i].body.final
       /\ chunks[i].isFinal <=> ChunkEnd(chunks[i].body) = TotalSize
  /\ status = "done" =>
       chunks # <<>> /\ ChunkEnd(chunks[Len(chunks)].body) = TotalSize

(* A chunk shorter than chunk_size ends the plaintext or ends its epoch    *)
(* ("Only the last chunk in an epoch can be smaller", payload_writer.rs:9). *)
ShortOnlyAtEpochEnd ==
  \A i \in DOMAIN chunks :
    chunks[i].body.len < ChunkSize =>
      chunks[i].body.final \/ chunks[i].body.chunk = EpochSize - 1

(* Every write call returns: its loop always consumes something.           *)
WriteCallsReturn == input > 0 ~> input = 0

(* What the section codec requires of a finished writer's chunks, which    *)
(* the source calls "ready to write to container" (payload_writer.rs:44).  *)
ReadyForContainer == status = "done" => EncodeAccepts(chunks)

=============================================================================
