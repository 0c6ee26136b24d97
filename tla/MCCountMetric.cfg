SPECIFICATION SuiteSpec
CONSTANTS
  Keys = {k1}
  BucketSize = 2
  TimeBase = 1
  StartTime = 2
  DimensionHardLimit = 2
  InitialCondition = "kFalse"
  HasActivation = TRUE
  PersistedActivation = FALSE
  HasAnomalyTracker = FALSE
  SplitForAppUpgrade = TRUE
  UploadThreshold <- NoThreshold
  Reasons = {"SOCKET_LOSS"}
  Lateness = 0
  MaxTime = 6
  MaxEvents = 2
INVARIANTS
  TypeOK
  BucketsInOrder
  TimeAccounted
  LateDataConserved
PROPERTIES
  CorruptionSurvives
