CONSTANTS
    Acts = {"p", "q"}
    Metrics = {"p", "q"}
    Configs = {"p", "q"}
    Uids = {"p", "q"}
    Matchers = {"p", "q"}
    metricOf <- MC_metricOf
    configOf <- MC_configOf
    uidOf <- MC_uidOf
    on <- MC_on
    off <- MC_off
    NoMatcher = "none"
    ttl_ns <- MC_ttl_ns
    ActivateOnBoot = {}
    AlwaysActive = {}
    CoolDown = 1
    None = None
    MaxTime = 4
    MaxRestarts = 0
    MaxDeaths = 0
    Lateness = 0
    StartupDelay = 0
    MinPeriod = 3
SPECIFICATION BroadcastSpec
PROPERTY ChangeBroadcast
CHECK_DEADLOCK FALSE
