SPECIFICATION CLSpec
CONSTANTS
  stale = stale
  NaN = stale
  Values <- MCStale
  NaNToInt <- MCNaNToInt
  errbound = 2
  Bits = 8
  Splits = {2}
  MaxChunkSamples = 4
INVARIANT StaleMarkersHarmless
CHECK_DEADLOCK FALSE
