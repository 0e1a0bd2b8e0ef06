SPECIFICATION BlocksSpec
CONSTANTS
  ranges <- MCRanges
  RetentionDuration = 7
  Times = {0, 1, 2, 4, 8, 12}
  MaxOOO = 2
  MaxDeletes = 1
  MaxFaults = 1
  Ids <- MCIds
  Readers = {r1}
  FailingReloads <- MCFailing
  PartialDeletes = FALSE
  OOOInHeadRange = FALSE
INVARIANTS
  SamplesDurable
  SamplesVisible
  DeletedGone
  BlocksWellPlaced
PROPERTIES
  HeldBlocksStay
  OverlapsMerged
