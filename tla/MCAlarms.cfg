SPECIFICATION SuiteSpec
CONSTANTS
  Keys = {k1, k2}
  TicksPerSec = 2
  refractory_period_secs = 1
  mMinUpdateTimeSec = 1
  Lateness = 1
  MaxTicks = 8
  MaxStarts = 3
  c1 = c1
  c2 = c2
  Configs = {c1, c2}
  MsPerSec = 2
  startMillis = 2
  Offset <- Offsets
  Period <- WholeSeconds
  MaxSec = 4
  MaxUpdates = 1
  MaxDeaths = 1
INVARIANTS
  AnomalyAlarmsSound
  PeriodicAlarmsSound
PROPERTIES
  RefractoryRespected
  DetectorSound
  EveryAlarmFires
  ImplementsMinQueue
