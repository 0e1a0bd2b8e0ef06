SPECIFICATION Spec
CONSTANTS
  Series = {s1, s2}
  Appenders = {a1, a2}
  Readers = {}
  Ranges = {}
  chunkRange = 2
  MaxTime = 4
  AppendTimes = {0, 1, 2, 3, 4}
  MaxSamples = 2
INVARIANT CommittedStored
SYMMETRY Symmetry
