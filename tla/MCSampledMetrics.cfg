SPECIFICATION SuiteSpec
CONSTANTS
  BucketSize = 2
  MinBucketSize = 1
  MaxCalls = 3
  Kinds <- MCKinds
  GaugeBucketSize = 3
  GaugeMinBucketSize = 2
  GaugeMaxCalls = 4
  Gauges <- MCGauges
  EventFields = {f1, f2}
  FieldsSize = 5
  StateSize = 3
  TimeSize = 1
  EventMaxCalls = 6
INVARIANTS
  UnitsCounted
  BucketsTile
  LossShown
  SamplesTold
  EventsSound
CHECK_DEADLOCK FALSE
