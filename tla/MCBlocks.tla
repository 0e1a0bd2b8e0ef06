------------------------------ MODULE MCBlocks ------------------------------
\* Instances of Blocks: block ranges 2 and 4, or 2 and 6 where three blocks are
\* to be merged by a late one.
EXTENDS Blocks

MCRanges == <<2, 4>>
MCRangesWide == <<2, 6>>
MCIds == 1..8
MCFailing == {"head", "ooo", "blocks", "tick", "open"}
MCFailingClean == {"clean"}
MCNone == {}
=============================================================================
