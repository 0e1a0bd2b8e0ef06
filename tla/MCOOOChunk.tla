----------------------------- MODULE MCOOOChunk -----------------------------
(* Chunks of three samples, filled in every order of four timestamps.      *)
EXTENDS OOOChunk
=============================================================================
