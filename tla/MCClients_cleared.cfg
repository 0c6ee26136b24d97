SPECIFICATION SuiteSpec
CONSTANTS
  Parts = {"pull"}
  None = None
  PulledAtoms = {10, 11}
  MaxMetrics = 6
  MaxConditions = 3
  MaxMatchers = 5
  MaxAlerts = 2
  Pool <- MainPool
  LatePool <- SmallPool
  PartialInvalid = TRUE
  Delegates = {"pkg", "pkg2"}
  MaxSources = 2
  MaxPullPackages = 2
  MaxUpdates = 3
  ClientTags = {"A"}
  WaitKinds = {TRUE}
  ClientMaxCalls = 2
  ClientMaxDeaths = 1
  Subscriptions <- MCSubscriptions
  kMaxSubscriptions = 2
  kMaxCacheSize = 2
  kBetweenHeartbeats = 1
  kBetweenCallbacks = 3
  kMinCallbackSleep = 2
  kMinCallbackPullInterval = 2
  SubMaxTime = 5
  SubMaxEvents = 2
  SubMaxStarts = 2
  Apps <- MCApps
  AppVersions = {1, 2}
  ReportConfigs = {1, 2}
  OmitOptions <- MCOptions
  IsolatedUids = {90}
  kBytesChangeRecord = 2
  kMaxBytesUsedUidMap = 5
  kMaxDeletedAppsInUidMap = 1
  AID_USER_OFFSET = 100
  AID_APP_START = 10
  AID_APP_END = 19
  AID_SDK_SANDBOX_PROCESS_START = 20
  AID_PCC_COMPONENT_PROCESS_START = 30
  UidMaxCalls = 4
  UidMaxTime = 2
  StateAtoms = {"s"}
  StateKeys = {"k1", "k2"}
  StateListeners = {"l1", "l2"}
  StateValues = {0, 1}
  StateMaxCalls = 6
INVARIANTS
  NoClearedRegistration
CHECK_DEADLOCK FALSE
