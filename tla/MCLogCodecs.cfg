SPECIFICATION MCSpec
CONSTANTS
  l1 = l1
  b1 = b1
  Labels = {l1}
  LogAppenders = {b1, b2}
  MaxLogTime = 3
  MaxBatch = 1
  MaxRef = 2
  MaxSegment = 6
  MaxCrashes = 1
  DuplicateCrashes = FALSE
  FewTimes = 2
  FewSegments = 4
  FewRecords = 3
  CdmReaders = {r1}
  MaxChunks = 3
  FileSize = 3
  QueueSize = 1
  MaxReopens = 1
  CdmRaces = {}
  nan = nan
  MNaN = nan
  MacheteValues <- MCMValues
  Half = 1
  IntWidth = 4
  ShortLength = 3
  SizeMax = 44
  MaxInput = 5
  Word = 3
  MaxBits = 7
  ZNaN = nan
  SZValues <- MCSZValues
  ErrorBound = 2
  Radius = 2
  BlockSize = 6
  MinChunkSize = 4
  ByteBits = 2
  SmallNodes = 4
  FrameBytes = 2
  NodeBytes = 2
  ValueBytes = 8
  MaxSamples = 5
  MaxOrder = 20
INVARIANTS
  HeadComplete
  ReplayComplete
  TailedSeriesKnown
  ReferencesGood
  MacheteFaithful
  ReadBack
  SZFaithful
CHECK_DEADLOCK FALSE
