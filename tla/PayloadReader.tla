--------------------------- MODULE PayloadReader ---------------------------
(***************************************************************************)
(* PayloadReader (format/payload_reader.rs): opens chunks at the position  *)
(* it expects next.  Whoever drives it may hand it any ciphertext with any *)
(* final flag, in any order, any number of times, and may go on after an   *)
(* error.                                                                  *)
(***************************************************************************)
EXTENDS PayloadChunks

CONSTANT SeekEpochs   \* the epochs the caller may seek to ({}: it never does)

ASSUME SeekAssumption == SeekEpochs \subseteq Epochs

VARIABLES
  rEpoch,      \* epoch_index
  rChunk,      \* chunk_index_in_epoch
  finalized,   \* finalized
  result,      \* what the last call returned
  delivered,   \* the plaintext returned since new or the last seek, piece by piece
  origin       \* the epoch that run of pieces began at

readerVars == <<rEpoch, rChunk, finalized, result, delivered, origin>>

(* What may have happened to the ciphertext handed in.                     *)
Damage == {"none", "tampered", "short"}

Results == {"none", "ok", "ReadAfterFinal", "CiphertextTooShort",
            "DecryptionFailed", "ChunkCountOverflow"}

Piece(c) == [from |-> c.from, len |-> c.len]

-----------------------------------------------------------------------------
ReaderInit ==
  /\ rEpoch = 0
  /\ rChunk = 0
  /\ finalized = FALSE
  /\ result = "none"
  /\ delivered = <<>>
  /\ origin = 0

(* A call that fails before the position moves.                            *)
Fail(error) ==
  /\ result' = error
  /\ UNCHANGED <<rEpoch, rChunk, finalized, delivered, origin>>

ReadAfterFinal == finalized /\ Fail("ReadAfterFinal")

ReadTooShort(damage) ==
  /\ ~finalized
  /\ damage = "short"
  /\ Fail("CiphertextTooShort")

(* The AEAD opens the ciphertext at the reader's position with this flag.  *)
Decrypts(c, damage, isFinal) ==
  /\ damage = "none"
  /\ Opens(c, rEpoch, rChunk, isFinal)

ReadUndecryptable(c, damage, isFinal) ==
  /\ ~finalized
  /\ damage # "short"
  /\ ~Decrypts(c, damage, isFinal)
  /\ Fail("DecryptionFailed")

(* checked_add one step early, and as it is.                               *)
ExhaustedEarly == rEpoch + 2 >= EpochLimit
EpochExhausted == rEpoch + 1 >= EpochLimit

(* The chunk opened, but the epoch counter cannot advance: the plaintext   *)
(* is dropped with chunk_index_in_epoch already moved on.                  *)
ReadOverflow(c, damage, isFinal) ==
  /\ ~finalized
  /\ Decrypts(c, damage, isFinal)
  /\ EpochRolls(rChunk + 1) /\ EpochExhausted
  /\ rChunk' = rChunk + 1
  /\ result' = "ChunkCountOverflow"
  /\ UNCHANGED <<rEpoch, finalized, delivered, origin>>

(* A reader that skips a slot, and how the position moves on.              *)
SkipSlot == rChunk' = rChunk + 2 /\ UNCHANGED rEpoch

Advance ==
  IF EpochRolls(rChunk + 1)
  THEN rEpoch' = rEpoch + 1 /\ rChunk' = 0
  ELSE rChunk' = rChunk + 1 /\ UNCHANGED rEpoch

(* Completion reported after every chunk.                                  *)
AlwaysFinal(isFinal) == TRUE

(* finalized is set by the chunk flagged final and by nothing else.        *)
Completes(isFinal) == isFinal

ReadOk(c, damage, isFinal) ==
  /\ ~finalized
  /\ Decrypts(c, damage, isFinal)
  /\ ~(EpochRolls(rChunk + 1) /\ EpochExhausted)
  /\ Advance
  /\ finalized' = Completes(isFinal)
  /\ result' = "ok"
  /\ delivered' = Append(delivered, Piece(c))
  /\ UNCHANGED origin

(* read_chunk.                                                             *)
ReadChunk(c, damage, isFinal) ==
  \/ ReadAfterFinal
  \/ ReadTooShort(damage)
  \/ ReadUndecryptable(c, damage, isFinal)
  \/ ReadOverflow(c, damage, isFinal)
  \/ ReadOk(c, damage, isFinal)

(* seek_epoch keeping the chunk index, and as it is.                       *)
KeepSlot  == rChunk
FirstSlot == 0

(* seek_epoch.                                                             *)
SeekEpoch(e) ==
  /\ rEpoch' = e
  /\ rChunk' = FirstSlot
  /\ finalized' = FALSE
  /\ delivered' = <<>>
  /\ origin' = e
  /\ UNCHANGED result

=============================================================================
