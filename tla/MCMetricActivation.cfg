CONSTANTS
    Acts = {"now", "boot"}
    Metrics = {"m"}
    Configs = {"c"}
    Matchers = {"A", "B", "X"}
    metricOf <- MC_metricOf
    configOf <- MC_configOf
    on <- MC_on
    off <- MC_off
    NoMatcher = "none"
    ttl_ns <- MC_ttl_ns
    ActivateOnBoot = {"boot"}
    AlwaysActive = {}
    CoolDown = 1
    None = None
    MaxTime = 2
    MaxRestarts = 1
    MaxDeaths = 1
    Lateness = 1
    StartupDelay = 1
SPECIFICATION Spec
INVARIANTS
  ActiveByActivation
  ConfigActiveByMetric
  RestoredWithinGrant
CHECK_DEADLOCK FALSE
