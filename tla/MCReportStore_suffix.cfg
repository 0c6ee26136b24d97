SPECIFICATION SuiteSpec
CONSTANTS
  KeyOrder <- SuffixUids
  Initial <- NothingSaved
  Confs <- AllConfs
  kMaxConfigCountPerUid = 1
  kMaxFileNumber = 2
  kMaxFileSize = 2
  kMaxAge = 1
  kMaxLocalHistoryAge = 0
  TriggerBytes = 0
  MaxMetricsBytes = 1
  CoolDown = 1
  ByteSizePeriod = 0
  BroadcastPeriod = 1
  Ttl = 1
  Scenarios <- TwoAdds
  MaxCalls = 2
  Trains = {"t"}
  TrainVersions = {1, 2}
  IdLists <- ThreeLists
  MaxTrainEvents = 2
  Categories = {"A", "B"}
  Schemas = {1, 2}
  RowTtl = 1
  MaxDbAge = 1
  MaxRows = 3
  TriggerFlush = 1
  MaxBytes = 2
  IoFailures <- SingleFailures
  MaxEvents = 3
  MaxOps = 2
  Delegates = {"u", "v"}
  MetricSets = {{1}, {1, 2}}
  MaxChanges = 5
INVARIANT OneFilePerSuffix
CHECK_DEADLOCK FALSE
