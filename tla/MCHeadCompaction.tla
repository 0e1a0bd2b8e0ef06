-------------------------- MODULE MCHeadCompaction --------------------------
(***************************************************************************)
(* Blocks of width 2: the head is compactable when it spans more than 3,   *)
(* and is then written up to 2, from 0 or from 1 on.  The ranges of queries *)
(* lie below, across and above this time.                                  *)
(***************************************************************************)
EXTENDS HeadCompaction, TLC

MCRanges == {<<0, 1>>, <<1, 2>>, <<2, 4>>}

Symmetry == Permutations(Series) \union Permutations(Appenders)
=============================================================================
