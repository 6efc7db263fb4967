------------------------- MODULE MCFieldArithmetic -------------------------
(* Instances of FieldArithmetic for TLC. *)
EXTENDS FieldArithmetic

(* Every single bit -- multiplication is additive -- and bytes of several. *)
MCRight == {{i} : i \in Bit} \cup {Zero, U8(83), U8(255)}

=============================================================================
