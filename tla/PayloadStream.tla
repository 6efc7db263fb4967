--------------------------- MODULE PayloadStream ---------------------------
(***************************************************************************)
(* The payload pipeline: a PayloadWriter cuts and seals the plaintext, its *)
(* chunks become the entries of a payload section (or are handed over      *)
(* directly, as a streaming caller does), and a PayloadReader is fed from  *)
(* them: in order by a well-behaved caller, but also reordered, repeated,  *)
(* damaged, re-flagged, or with chunks of another container.               *)
(***************************************************************************)
EXTENDS PayloadWriter, PayloadReader

VARIABLES
  stage,     \* "writing", then "stored", "streamed" or "rejected"
  section    \* the entries the reader is fed from

vars == <<writerVars, readerVars, stage, section>>

-----------------------------------------------------------------------------
Init ==
  /\ WriterInit
  /\ ReaderInit
  /\ stage = "writing"
  /\ section = <<>>

Write ==
  /\ stage = "writing"
  /\ WriterNext
  /\ UNCHANGED <<readerVars, stage, section>>

(* The finished chunks become a PayloadSection, which is encoded and, when *)
(* the container is opened, parsed.                                        *)
Store ==
  /\ stage = "writing"
  /\ status = "done"
  /\ EncodeAccepts(chunks)
  /\ stage' = "stored"
  /\ section' = chunks
  /\ UNCHANGED <<writerVars, readerVars>>

(* encode refuses the entries.                                             *)
StoreRejected ==
  /\ stage = "writing"
  /\ status = "done"
  /\ ~EncodeAccepts(chunks)
  /\ stage' = "rejected"
  /\ UNCHANGED <<writerVars, readerVars, section>>

(* A streaming caller passes the writer's chunks on itself.                *)
HandOver ==
  /\ stage = "writing"
  /\ status = "done"
  /\ stage' = "streamed"
  /\ section' = chunks
  /\ UNCHANGED <<writerVars, readerVars>>

Readable == stage \in {"stored", "streamed"}

(* Every ciphertext that can turn up: the section's own and, at the same   *)
(* key positions, those of another container.                              *)
Ciphertexts == {[section[i].body EXCEPT !.file = f] : i \in DOMAIN section, f \in Files}

(* read_chunk with anything at all.                                        *)
ReadAny ==
  /\ Readable
  /\ \E c \in Ciphertexts, damage \in Damage, isFinal \in BOOLEAN :
       ReadChunk(c, damage, isFinal)
  /\ UNCHANGED <<writerVars, stage, section>>

(* The well-behaved caller, as ops::decrypt: the entries in order, each    *)
(* with its stored flag.                                                   *)
ReadNext ==
  /\ Readable
  /\ Len(delivered) < Len(section)
  /\ LET entry == section[Len(delivered) + 1]
     IN  ReadChunk(entry.body, "none", entry.isFinal)
  /\ UNCHANGED <<writerVars, stage, section>>

Seek ==
  /\ Readable
  /\ \E e \in SeekEpochs : SeekEpoch(e)
  /\ UNCHANGED <<writerVars, stage, section>>

Next == Write \/ Store \/ StoreRejected \/ HandOver \/ ReadAny \/ ReadNext \/ Seek

(* A call of write runs on; ops::decrypt reads on while entries are left,  *)
(* whatever else was tried.                                                *)
Fairness == WriterFairness /\ WF_vars(ReadNext)

Spec == Init /\ [][Next]_vars /\ Fairness

-----------------------------------------------------------------------------
(* Type invariant of the pipeline.                                         *)
TypeOK ==
  /\ WriterTypeOK
  /\ rEpoch \in Epochs
  /\ rChunk \in 0 .. EpochSize
  /\ finalized \in BOOLEAN
  /\ result \in Results
  /\ delivered \in Seq([from : ByteOffsets, len : Nat])
  /\ origin \in Epochs
  /\ stage \in {"writing", "stored", "streamed", "rejected"}
  /\ section \in Seq(Entry)

(* Where epoch e begins in the plaintext; Size when it has no chunk.       *)
EpochStart(e) ==
  IF e = 0 THEN 0
  ELSE IF \E i \in DOMAIN section : section[i].body.epoch = e /\ section[i].body.chunk = 0
       THEN section[CHOOSE i \in DOMAIN section :
                      section[i].body.epoch = e /\ section[i].body.chunk = 0].body.from
       ELSE TotalSize

(* Whatever the reader was fed, what it returned since it was positioned   *)
(* is a contiguous run of the plaintext from the start of that epoch: no   *)
(* piece is missing, repeated, reordered or foreign (payload_reader.rs:5). *)
DeliversInOrder ==
  \A i \in DOMAIN delivered :
    delivered[i].from = IF i = 1 THEN EpochStart(origin)
                        ELSE delivered[i - 1].from + delivered[i - 1].len

(* The reader reports completion exactly when the last byte of the         *)
(* plaintext has been returned: a truncated payload is never taken for a   *)
(* whole one (is_final in the associated data, payload_reader.rs:7).       *)
FinalizedIffAtEnd ==
  finalized <=> /\ delivered # <<>>
                /\ delivered[Len(delivered)].from + delivered[Len(delivered)].len = TotalSize

(* "Does not reset `finalized` -- if a final chunk was already read, seek  *)
(* moves the position but subsequent `read_chunk` calls will still fail"   *)
(* (payload_reader.rs:162): no call takes finalized back.                  *)
FinalizedStays == [][finalized => finalized']_vars

(* The reader gives up on the epoch counter only for a payload that        *)
(* occupies every key position there is (ChunkCountOverflow: "container    *)
(* exceeds supported size", payload_reader.rs:26).                         *)
OverflowOnlyWhenFull ==
  result = "ChunkCountOverflow" => Len(section) >= EpochLimit * EpochSize

(* A caller that passes the whole plaintext in one call, as ops::encrypt   *)
(* does, or in whole chunks, never sees its chunks refused by the section  *)
(* codec (payload.rs, encode).                                             *)
NeverRejected == stage # "rejected"

(* A stored payload is read to the end by a caller that keeps reading the  *)
(* entries in order, however many bad chunks are tried in between: a       *)
(* failed read costs the reader nothing (read_chunk, early returns).       *)
StoredIsRead == stage = "stored" ~> finalized

(* The pipeline implements the abstract byte stream.                       *)
Stream == INSTANCE ByteStream WITH
            Size     <- TotalSize,
            start    <- EpochStart(origin),
            pieces   <- delivered,
            complete <- finalized

ImplementsByteStream == Stream!Spec

=============================================================================
