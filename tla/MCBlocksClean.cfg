SPECIFICATION BlocksSpec
CONSTANTS
  ranges <- MCRanges
  RetentionDuration = 0
  Times = {0, 1, 4}
  MaxOOO = 0
  MaxDeletes = 1
  MaxFaults = 1
  Ids <- MCIds
  Readers = {r1}
  FailingReloads <- MCFailingClean
  PartialDeletes = FALSE
  OOOInHeadRange = FALSE
INVARIANT
  SamplesDurable
