----------------------------- MODULE MCOOOHead ------------------------------
(* Chunks of one sample: every second sample of a series m-maps a chunk.   *)
EXTENDS OOOHead
=============================================================================
