SPECIFICATION Spec
CONSTANTS
  Series = {s1, s2}
  Appenders = {a1, a2}
  Readers = {r1}
  Ranges <- MCRanges
  chunkRange = 2
  MaxTime = 5
  AppendTimes = {0, 1, 2, 3, 5}
  MaxSamples = 2
INVARIANTS
  CommittedAheadStored
  AppendWindowOpen
  QueryComplete
SYMMETRY Symmetry
