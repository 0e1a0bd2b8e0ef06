SPECIFICATION MCSpec
CONSTANTS
  Series = {s1}
  Times = {1, 2, 3}
  Readers = {r1}
  oooCapMax = 1
  blockSize = 2
  MaxRef = 3
  RwSeries = {1}
  MaxSent = 4
  BatchSize = 2
  ChanSize = 1
  MaxShards = 2
  MaxReshards = 2
  RwRaces = {}
  AmSets = {s1, s2}
  RelabelSets = {s1}
  QueueCapacity = 3
  MaxBatchSize = 2
  MaxAlerts = 5
  MaxSend = 4
  DrainOnShutdown = TRUE
  p1 = p1
  p2 = p2
  j1 = j1
  j2 = j2
  DiscProviders = {p1, p2}
  TargetSets = {j1, j2}
  Configurations <- MCConfigurations
  MaxVersion = 1
  MaxReloads = 2
  Metrics = {m1, m2}
  MaxTicks = 6
  MaxRestarts = 3
  ExSeries = {x1, x2}
  ExTimes = {1, 2, 3, 4}
  MaxLength = 4
INVARIANTS
  QueryComplete
  InsertedStored
  DeliveredInOrder
  NoSampleLost
  AlertsAccounted
  ScrapedIsLive
  StaleInTime
  SelectExact
PROPERTIES
  CompactionEnds
  StopEnds
  QueueDrains
  PoolsFollow
CHECK_DEADLOCK FALSE
