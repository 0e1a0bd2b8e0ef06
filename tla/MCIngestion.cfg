SPECIFICATION MCSpec
CONSTANTS
  Readers = {r1, r2, r3}
  Times = {1, 2, 3}
  MaxAppendID = 4
  SeriesAppends = 3
  SeriesOpen = 2
  disabled = FALSE
  AppendIDs = {1, 2, 3}
  MaxCount = 6
  Series = {s1}
  MaxSamples = 3
  Widths = {0, 1, 20, 30, 60, 61}
  Starts <- MCStarts
  MaxWrites = 3
  stale = stale
  NaN = stale
  Values <- MCValues
  NaNToInt <- MCNaNToInt
  errbound = 2
  Bits = 8
  Splits = {1, 2}
  MaxChunkSamples = 4
  OOOTimes = {1, 2, 3, 4}
  OOOValues = {a, b}
  oooCapMax = 3
  MaxMapped = 1
  f2 = f2
  Fps = {f1, f2}
  Interval = 1
  HoldDuration = 6
  KeepFiringFor = 2
  ResolvedRetention = 2
  ResendDelay = 2
  ForGracePeriod = 2
  OutageTolerance = 9
  AlertLimit = 1
  Unit = 2
  MaxNow = 14
INVARIANTS
  WatermarkSafe
  NoDirtyRead
  WithheldBehindHidden
  SamplesInOrder
  RoundTrip
  ReadFaithful
  AcceptedStored
  ReceiverAgrees
PROPERTIES
  ImplementsQueue
  ChunkIDsStable
  RecompactionExact
  HoldRespected
CHECK_DEADLOCK FALSE
