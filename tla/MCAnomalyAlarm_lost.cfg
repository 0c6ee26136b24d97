SPECIFICATION Spec
CONSTANTS
  Keys = {k1, k2}
  TicksPerSec = 2
  refractory_period_secs = 1
  mMinUpdateTimeSec = 1
  Lateness = 0
  MaxTicks = 10
  MaxStarts = 2
INVARIANTS
  RegisteredAlarmIsSet
