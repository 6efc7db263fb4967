------------------------- MODULE MCThresholdShares -------------------------
(* An instance of ThresholdShares for TLC. *)
EXTENDS ThresholdShares

MCSchemes  == {<<2, 3>>, <<3, 3>>, <<3, 2>>}   \* the last is refused
MCSecrets  == {U8(83), U8(255)}
MCRandoms  == {U8(202)}
MCHarms    == {"none", "ciphertext", "version", "threshold", "id"}
MCContexts == {"this", "other"}

=============================================================================
