--------------------------- MODULE PayloadChunks ---------------------------
(***************************************************************************)
(* The data the payload pipeline passes around: sealed chunks, the chunk   *)
(* entries of the payload section, and the rules the section codec checks. *)
(*                                                                         *)
(* Plaintext bytes are numbered 0 .. TotalSize - 1; a chunk's content is   *)
(* the interval of bytes it holds.  The AEAD is ideal: a ciphertext opens  *)
(* exactly under the key position and associated data it was sealed with.  *)
(***************************************************************************)
EXTENDS Integers, Sequences

CONSTANTS
  ChunkSize,   \* chunk_size: plaintext bytes of a full chunk
  EpochSize,   \* epoch_size: chunks per epoch
  TotalSize,   \* plaintext_total_size
  EpochLimit   \* how many values epoch_index has: 2^32 in the code

(* PayloadWriter::new rejects a zero chunk size, epoch size or total size. *)
ASSUME SizesAssumption ==
  /\ ChunkSize  \in Nat \ {0}
  /\ EpochSize  \in Nat \ {0}
  /\ TotalSize  \in Nat \ {0}
  /\ EpochLimit \in Nat \ {0}

Epochs      == 0 .. EpochLimit - 1
ChunkSlots  == 0 .. EpochSize - 1
ByteOffsets == 0 .. TotalSize

(* The container a ciphertext was sealed for: the one being read, or any   *)
(* other one (another file_uuid, key or suite).                            *)
Files == {"own", "other"}

(* What encrypt_chunk binds: the file, the key position (epoch, chunk),    *)
(* the plaintext length and the final flag, with the bytes it holds.       *)
Chunk == [file  : Files,
          epoch : Epochs,
          chunk : ChunkSlots,
          from  : ByteOffsets,
          len   : Nat,
          final : BOOLEAN]

(* EncryptedChunkEntry / ChunkEntry: a ciphertext and the flag stored next *)
(* to it, outside the AEAD.                                                *)
Entry == [body : Chunk, isFinal : BOOLEAN]

ChunkEnd(c) == c.from + c.len

-----------------------------------------------------------------------------
(* encrypt_chunk: seal bytes from .. from + n - 1 at a key position.       *)
SealChunk(e, k, from, n, final) ==
  [file |-> "own", epoch |-> e, chunk |-> k, from |-> from, len |-> n, final |-> final]

(* decrypt_chunk without the chunk index in nonce and associated data.     *)
OpensUnboundPosition(c, e, k, final) == c.file = "own" /\ c.epoch = e /\ c.final = final

(* decrypt_chunk succeeds only under the key position and associated data  *)
(* the chunk was sealed with.                                              *)
Opens(c, e, k, final) ==
  /\ c.file = "own"
  /\ c.epoch = e
  /\ c.chunk = k
  /\ c.final = final

(* A roll-over one chunk late, and the roll-over writer and reader share:   *)
(* after epoch_size chunks the next epoch starts.                          *)
RollsOneLate(next) == next > EpochSize
EpochRolls(next)   == next >= EpochSize

-----------------------------------------------------------------------------
(* The final-flag rule of PayloadSection: the first entry flagged final is *)
(* the last entry of the section.                                          *)
FinalIsLast(s) ==
  \E i \in DOMAIN s :
    /\ s[i].isFinal
    /\ \A j \in 1 .. i - 1 : ~s[j].isFinal
    /\ i = Len(s)

(* The per-entry rule: no empty ciphertext, and every entry that is not    *)
(* final holds exactly chunk_size bytes.                                   *)
EntryAccepted(entry) ==
  /\ entry.body.len > 0
  /\ ~entry.isFinal => entry.body.len = ChunkSize

(* PayloadSection::encode applies these rules before it writes and         *)
(* PayloadSection::parse as it reads: what one accepts, the other does.    *)
EncodeAccepts(s) == FinalIsLast(s) /\ \A i \in DOMAIN s : EntryAccepted(s[i])

=============================================================================
