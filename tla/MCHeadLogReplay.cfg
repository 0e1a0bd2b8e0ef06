CONSTANTS
  Labels = {l1}
  LogAppenders = {a1}
  MaxLogTime = 3
  MaxBatch = 1
  MaxRef = 2
  MaxSegment = 6
  MaxCrashes = 1
  DuplicateCrashes = TRUE
SPECIFICATION LogSpec
INVARIANT ReplayComplete
CHECK_DEADLOCK FALSE
