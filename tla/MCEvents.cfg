SPECIFICATION SuiteSpec
CONSTANTS
  Atoms = {a1, a2}
  mQueueLimit = 2
  kMaxPushedAtomDroppedStatsSize = 1
  use_wait_for = TRUE
  MaxEvents = 4
  Tags = {"A"}
  Receivers <- MCReceivers
  PULLER_THREAD_COUNT = 2
  PullMinute = 2
  Intervals = {1, 5}
  CoolDowns = {3}
  kMinCoolDownNs = 1
  PullMaxTime = 3
  PullMaxCalls = 3
INVARIANTS
  EventsAccounted
  PullsSound
PROPERTIES
  WorkersFinish
CHECK_DEADLOCK FALSE
