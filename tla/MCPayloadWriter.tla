-------------------------- MODULE MCPayloadWriter --------------------------
(* Instances of PayloadWriter for TLC. *)
EXTENDS PayloadWriter

MCCallSizes == 1 .. 4        \* callers that write in small pieces

=============================================================================
