----------------------------- MODULE MCCLChunk ------------------------------
(***************************************************************************)
(* An 8-bit int64: a Simple8b word holds values up to 15, int64(NaN) is    *)
(* -128 (amd64).  A quantum is 4.  Samples are numbers or stale markers.   *)
(***************************************************************************)
EXTENDS CLChunk

CONSTANT stale

MCStale == {3, 22, stale}
MCNaNToInt == -128
=============================================================================
