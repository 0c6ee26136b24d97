CONSTANTS
  BucketSize = 3
  States = {"s1", "s2"}
  mNumOfPastBuckets = 1
  trigger_if_sum_gt = 2
  TicksPerSec = 2
  refractory_period_secs = 1
  Confs <- AllConfs
  EventKeys <- ThreeKeys
  Statuses = {"UPDATE_NEW", "UPDATE_PRESERVE", "none"}
  MaxTime = 6
  MaxOpen = 2
  MaxCalls = 4
  CondKeys = {"k1", "k2"}
  CondKinds <- MCCondKinds
  kHardLimit = 1
  CondMaxEvents = 4
SPECIFICATION SuiteSpec
INVARIANTS
  DurationsExact
  BucketsInStep
  AlarmNotLate
  ConditionsCurrent
PROPERTIES
  ChangesTold
CHECK_DEADLOCK FALSE
