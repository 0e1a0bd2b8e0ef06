SPECIFICATION BlocksSpec
CONSTANTS
  ranges <- MCRangesWide
  RetentionDuration = 0
  Times = {0, 3, 4, 5, 6, 7}
  MaxOOO = 2
  MaxDeletes = 0
  MaxFaults = 1
  Ids <- MCIds
  Readers = {}
  FailingReloads <- MCNone
  PartialDeletes = FALSE
  OOOInHeadRange = TRUE
PROPERTY
  HeadLeavesToBlocks
