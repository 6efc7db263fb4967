----------------------------- MODULE ByteStream -----------------------------
(***************************************************************************)
(* What reading a payload promises: the caller receives contiguous pieces  *)
(* of the plaintext from where it positioned itself, each once and in      *)
(* order, and is told the stream is complete exactly when the last byte    *)
(* has been delivered.                                                     *)
(***************************************************************************)
EXTENDS Integers, Sequences

CONSTANT Size         \* plaintext bytes

VARIABLES
  start,      \* the byte the caller positioned itself at
  pieces,     \* what it has received since
  complete    \* it was told that was all

streamVars == <<start, pieces, complete>>

PieceEnd(p) == p.from + p.len

(* The next byte to deliver.                                               *)
NextByte == IF pieces = <<>> THEN start ELSE PieceEnd(pieces[Len(pieces)])

Init ==
  /\ start = 0
  /\ pieces = <<>>
  /\ complete = FALSE

Deliver(n) ==
  /\ ~complete
  /\ pieces' = Append(pieces, [from |-> NextByte, len |-> n])
  /\ complete' = (NextByte + n = Size)
  /\ UNCHANGED start

Reposition(b) ==
  /\ start' = b
  /\ pieces' = <<>>
  /\ complete' = FALSE

Next ==
  \/ \E n \in 1 .. Size - NextByte : Deliver(n)
  \/ \E b \in 0 .. Size : Reposition(b)

Spec == Init /\ [][Next]_streamVars

=============================================================================
