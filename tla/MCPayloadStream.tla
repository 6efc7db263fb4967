-------------------------- MODULE MCPayloadStream --------------------------
(* Instances of PayloadStream for TLC. *)
EXTENDS PayloadStream

MCCallSizes  == 1 .. 3        \* callers that write in small pieces
MCChunkCalls == {ChunkSize, TotalSize}  \* whole chunks, or everything at once
MCSeeks      == Epochs        \* any epoch, past the end included
MCNoSeek     == {}

=============================================================================
