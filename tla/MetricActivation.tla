--------------------------- MODULE MetricActivation ---------------------------
(***************************************************************************)
(* Metric activations: the activation tables of the MetricProducers, the   *)
(* active flags of the metrics and of the configs, and the two ways the    *)
(* tables outlive what holds them: the file active_metrics, across a       *)
(* restart of statsd, and the snapshot of statsCompanionServiceDiedImpl,   *)
(* across a reset of every config.                                         *)
(*                                                                         *)
(* Activations are numbered over all metrics: activation a is the entry of *)
(* mEventActivationMap of metric metricOf[a] at matcher on[a], and an entry *)
(* of mEventDeactivationMap at matcher off[a], if it has one.  The configs *)
(* have no ttl_in_seconds, so resetIfConfigTtlExpiredLocked does nothing.  *)
(* A save or a companion's death reads the clock first and takes           *)
(* mMetricsMutex later, several times: events are handled in between.      *)
(***************************************************************************)
EXTENDS Integers

CONSTANTS
    Acts,               \* the activations
    Metrics,            \* the metrics with activations: mMetricIndexesWithActivation
    Configs,
    Matchers,
    metricOf,           \* [Acts -> Metrics]
    configOf,           \* [Metrics -> Configs]
    on, off,            \* [Acts -> Matchers], [Acts -> Matchers \cup {NoMatcher}]
    NoMatcher,
    ttl_ns,             \* [Acts -> Nat]
    ActivateOnBoot,     \* the activations of type ACTIVATE_ON_BOOT
    AlwaysActive,       \* configs with a metric that needs no activation
    CoolDown,           \* WRITE_DATA_COOL_DOWN_SEC
    None,               \* no time, no file
    MaxTime,            \* bound: the elapsed clock stops here
    MaxRestarts,        \* bound: restarts of statsd
    MaxDeaths,          \* bound: deaths of the companion service
    Lateness,           \* bound: how much older than the clock an event may be
    StartupDelay        \* bound: time from the processor's creation to Startup

ASSUME ActivationAssumption ==
    /\ metricOf \in [Acts -> Metrics] /\ configOf \in [Metrics -> Configs]
    /\ on \in [Acts -> Matchers] /\ off \in [Acts -> Matchers \cup {NoMatcher}]
    /\ \A a, b \in Acts : metricOf[a] = metricOf[b] /\ on[a] = on[b] => a = b
    /\ NoMatcher \notin Matchers
    /\ ttl_ns \in [Acts -> Nat] /\ ActivateOnBoot \subseteq Acts
    /\ AlwaysActive \subseteq Configs
    /\ {CoolDown, MaxTime, MaxRestarts, MaxDeaths, Lateness, StartupDelay} \subseteq Nat
    /\ None \notin Int

VARIABLES
    up,                 \* statsd is running
    now,                \* the elapsed clock
    state, start_ns,    \* Activation::state, start_ns
    metricActive,       \* MetricProducer::mIsActive
    configActive,       \* MetricsManager::mIsActive
    file,               \* the file active_metrics: None or the saved activations
    lastWrite,          \* mLastActiveMetricsWriteNs
    saving,             \* the clock a save in progress has read, or None
    death,              \* statsCompanionServiceDiedImpl in progress
    restarts, deaths,   \* bounded counters
    \* What the activations are owed, for the properties only:
    spent,              \* time an activation has been active since it was granted
    gap,                \* time the earlier lives went on after the clock of their first save
    shutdown,           \* clock of this life's first save, or None
    armed               \* armed for the next boot during this life

table == <<state, start_ns, metricActive, configActive>>
history == <<spent, gap, shutdown, armed>>
vars == <<up, now, table, file, lastWrite, saving, death, restarts, deaths, history>>

ActsOf(m) == {a \in Acts : metricOf[a] = m}
MetricsOf(c) == {m \in Metrics : configOf[m] = c}
ActConfig(a) == configOf[metricOf[a]]
Deadline(a) == start_ns[a] + ttl_ns[a]

Idle == [stage |-> "idle", at |-> None, saved |-> [a \in {} |-> None], armed |-> {}]
-----------------------------------------------------------------------------
\* The tables of a manager that was just created.
FreshTable ==
    [state |-> [a \in Acts |-> "kNotActive"], start_ns |-> [a \in Acts |-> 0],
     metric |-> [m \in Metrics |-> FALSE],
     config |-> [c \in Configs |-> c \in AlwaysActive]]

CurrentTable == [state |-> state, start_ns |-> start_ns,
                 metric |-> metricActive, config |-> configActive]

\* start_ns is read only while its activation is kActive, and kept only then.
SetTable(t) ==
    /\ state' = t.state
    /\ start_ns' = [a \in Acts |-> IF t.state[a] = "kActive" THEN t.start_ns[a] ELSE 0]
    /\ metricActive' = t.metric /\ configActive' = t.config

\* MetricProducer::flushIfExpire on a set of metrics, with evaluateActiveStateLocked.
FlushIfExpire(t, ms, timeNs) ==
    LET flushed == {m \in ms : t.metric[m]}
        newState == [a \in Acts |->
            IF /\ metricOf[a] \in flushed
               /\ t.state[a] = "kActive"
               /\ timeNs > ttl_ns[a] + t.start_ns[a]
            THEN "kNotActive" ELSE t.state[a]]
    IN [state |-> newState, start_ns |-> t.start_ns, config |-> t.config,
        metric |-> [m \in Metrics |->
            IF m \in flushed THEN \E a \in ActsOf(m) : newState[a] = "kActive"
                             ELSE t.metric[m]]]

\* MetricProducer::cancelEventActivation, for every matched deactivation matcher.
CancelEventActivations(t, matched) ==
    [state |-> [a \in Acts |-> IF off[a] \in matched THEN "kNotActive" ELSE t.state[a]],
     start_ns |-> t.start_ns, metric |-> t.metric, config |-> t.config]

\* MetricProducer::activateLocked, for every matched activation matcher.
Activate(t, matched, timeNs) ==
    LET hit == {a \in Acts : on[a] \in matched}
        immediate == hit \ ActivateOnBoot
    IN [state |-> [a \in Acts |->
            CASE a \in immediate -> "kActive"
              [] a \in hit \cap ActivateOnBoot /\ t.state[a] = "kNotActive" -> "kActiveOnBoot"
              [] OTHER -> t.state[a]],
        start_ns |-> [a \in Acts |-> IF a \in immediate THEN timeNs ELSE t.start_ns[a]],
        metric |-> [m \in Metrics |-> t.metric[m] \/ \E a \in immediate : metricOf[a] = m],
        config |-> t.config]

\* Mutants: the cancelled metrics are not flushed again; the flag forgets the activations.
EventTableNoSecondFlush(matched, timeNs) ==
    LET expired == FlushIfExpire(CurrentTable, Metrics, timeNs)
        activated == Activate(CancelEventActivations(expired, matched), matched, timeNs)
    IN [activated EXCEPT !.config = [c \in Configs |->
           c \in AlwaysActive \/ \E m \in MetricsOf(c) : activated.metric[m]]]

EventTableFlagEarly(matched, timeNs) ==
    LET expired == FlushIfExpire(CurrentTable, Metrics, timeNs)
        cancelledMetrics == {metricOf[a] : a \in {b \in Acts : off[b] \in matched}}
        cancelled == FlushIfExpire(CancelEventActivations(expired, matched),
                                   cancelledMetrics, timeNs)
    IN [Activate(cancelled, matched, timeNs) EXCEPT !.config = [c \in Configs |->
           c \in AlwaysActive \/ \E m \in MetricsOf(c) : cancelled.metric[m]]]

\* MetricsManager::onLogEvent, the part that deals with activations, on every manager:
\* expire, cancel, expire what was cancelled, activate, then the config's own flag.
EventTable(matched, timeNs) ==
    LET expired == FlushIfExpire(CurrentTable, Metrics, timeNs)
        cancelledMetrics == {metricOf[a] : a \in {b \in Acts : off[b] \in matched}}
        cancelled == FlushIfExpire(CancelEventActivations(expired, matched),
                                   cancelledMetrics, timeNs)
        activated == Activate(cancelled, matched, timeNs)
        activatedMetrics == {metricOf[a] : a \in {b \in Acts : on[b] \in matched}}
    IN [state |-> activated.state, start_ns |-> activated.start_ns,
        metric |-> activated.metric,
        config |-> [c \in Configs |->
           \/ c \in AlwaysActive
           \/ \E m \in MetricsOf(c) : cancelled.metric[m]
           \/ \E m \in MetricsOf(c) \cap activatedMetrics : activated.metric[m]]]

\* MetricProducer::writeActiveMetricToProtoOutputStream for every metric of every config:
\* the activations worth saving, each with its saved state and remaining ttl.
WriteActiveConfigs(currentTimeNs, reason) ==
    LET kept == {a \in Acts :
                    /\ state[a] # "kNotActive"
                    /\ ~(state[a] = "kActive" /\ Deadline(a) < currentTimeNs)}
    IN [a \in kept |->
           IF state[a] = "kActive"
           THEN [state |-> "ACTIVE", remaining |-> Deadline(a) - currentTimeNs]
           ELSE IF reason = "DEVICE_SHUTDOWN"
                THEN [state |-> "ACTIVE", remaining |-> ttl_ns[a]]
                ELSE [state |-> "ACTIVATE_ON_BOOT", remaining |-> 0]]

\* Mutant: the saved activation starts a whole ttl.
LoadActiveConfigsWholeTtl(t, saved, currentTimeNs) ==
    LET active == {a \in DOMAIN saved : saved[a].state = "ACTIVE"}
        metric == [m \in Metrics |-> t.metric[m] \/ \E a \in active : metricOf[a] = m]
    IN [state |-> [a \in Acts |->
            CASE a \in active -> "kActive"
              [] a \in DOMAIN saved \ active -> "kActiveOnBoot"
              [] OTHER -> t.state[a]],
        start_ns |-> [a \in Acts |-> IF a \in active THEN currentTimeNs ELSE t.start_ns[a]],
        metric |-> metric,
        config |-> [c \in Configs |-> t.config[c] \/ \E m \in MetricsOf(c) : metric[m]]]

\* loadActiveMetricLocked and loadActiveConfig, for every saved activation.
LoadActiveConfigs(t, saved, currentTimeNs) ==
    LET active == {a \in DOMAIN saved : saved[a].state = "ACTIVE"}
        metric == [m \in Metrics |-> t.metric[m] \/ \E a \in active : metricOf[a] = m]
    IN [state |-> [a \in Acts |->
            CASE a \in active -> "kActive"
              [] a \in DOMAIN saved \ active -> "kActiveOnBoot"
              [] OTHER -> t.state[a]],
        start_ns |-> [a \in Acts |->
            IF a \in active THEN currentTimeNs + saved[a].remaining - ttl_ns[a]
                            ELSE t.start_ns[a]],
        metric |-> metric,
        config |-> [c \in Configs |-> t.config[c] \/ \E m \in MetricsOf(c) : metric[m]]]
-----------------------------------------------------------------------------
\* A grant starts an activation's account afresh: an immediate activation event, or the
\* arming of an activation for the next boot.
Granted(matched) ==
    {a \in Acts : /\ on[a] \in matched
                  /\ a \in ActivateOnBoot =>
                        state'[a] = "kActiveOnBoot"
                        /\ (state[a] # "kActiveOnBoot" \/ off[a] \in matched)}

\* An event that matches the matchers of a set, stamped timeNs.
OnLogEvent(matched, timeNs) ==
    /\ up
    /\ SetTable(EventTable(matched, timeNs))
    /\ spent' = [a \in Acts |-> IF a \in Granted(matched) THEN 0 ELSE spent[a]]
    /\ armed' = (armed \ {a \in Acts : off[a] \in matched})
                    \cup (Granted(matched) \cap ActivateOnBoot)
    /\ UNCHANGED <<up, now, file, lastWrite, saving, death, restarts, deaths, gap,
                   shutdown>>

\* The clock, while statsd runs: nothing in the model depends on how long it is down.
Tick ==
    /\ up /\ now < MaxTime
    /\ now' = now + 1
    /\ spent' = [a \in Acts |->
           IF state[a] = "kActive" /\ now < Deadline(a) THEN spent[a] + 1 ELSE spent[a]]
    /\ UNCHANGED <<up, table, file, lastWrite, saving, death, restarts, deaths, gap,
                   shutdown, armed>>

\* informDeviceShutdown and Terminate: the clock is read, and WriteDataToDisk runs.
BeginSave ==
    /\ up /\ saving = None
    /\ saving' = now
    /\ shutdown' = IF shutdown = None THEN now ELSE shutdown
    /\ UNCHANGED <<up, now, table, file, lastWrite, death, restarts, deaths, spent, gap, armed>>

\* StatsLogProcessor::SaveActiveConfigsToDisk, always with the reason DEVICE_SHUTDOWN.
\* The old file is deleted first; written says whether the new one could be opened.
SaveActiveConfigsToDisk(written) ==
    /\ up /\ saving # None
    /\ saving' = None
    /\ IF now < lastWrite + CoolDown
       THEN UNCHANGED <<lastWrite, file>>
       ELSE /\ lastWrite' = now
            /\ file' = IF written THEN WriteActiveConfigs(saving, "DEVICE_SHUTDOWN") ELSE None
    /\ UNCHANGED <<up, now, table, death, restarts, deaths, history>>

\* statsCompanionServiceDiedImpl, one step for each time it takes mMetricsMutex.
CompanionDied ==
    /\ up /\ death.stage = "idle" /\ deaths < MaxDeaths
    /\ death' = [Idle EXCEPT !.stage = "died", !.at = now]
    /\ deaths' = deaths + 1
    /\ UNCHANGED <<up, now, table, file, lastWrite, saving, restarts, history>>

WriteActiveConfigsToProto ==
    /\ up /\ death.stage = "died"
    /\ death' = [death EXCEPT !.stage = "written", !.armed = armed,
                              !.saved = WriteActiveConfigs(death.at, "STATSCOMPANION_DIED")]
    /\ UNCHANGED <<up, now, table, file, lastWrite, saving, restarts, deaths, history>>

\* resetConfigs: a full update of every config; unread are those whose backup cannot be read.
ResetConfigs(unread) ==
    /\ up /\ death.stage = "written"
    /\ death' = [death EXCEPT !.stage = "reset"]
    /\ SetTable([state |-> [a \in Acts |-> IF ActConfig(a) \in unread
                                THEN state[a] ELSE FreshTable.state[a]],
                 start_ns |-> [a \in Acts |-> IF ActConfig(a) \in unread
                                THEN start_ns[a] ELSE FreshTable.start_ns[a]],
                 metric |-> [m \in Metrics |-> configOf[m] \in unread /\ metricActive[m]],
                 config |-> [c \in Configs |-> IF c \in unread
                                THEN configActive[c] ELSE FreshTable.config[c]]])
    /\ UNCHANGED <<up, now, file, lastWrite, saving, restarts, deaths, history>>

SetConfigsActiveState ==
    /\ up /\ death.stage = "reset"
    /\ death' = Idle
    /\ SetTable(LoadActiveConfigs(CurrentTable, death.saved, death.at))
    /\ armed' = armed \cap death.armed
    /\ UNCHANGED <<up, now, file, lastWrite, saving, restarts, deaths, spent, gap, shutdown>>

\* statsd ends, after Terminate or without it.
Exit ==
    /\ up
    /\ up' = FALSE
    /\ saving' = None /\ death' = Idle
    /\ lastWrite' = 0
    /\ SetTable(FreshTable)
    /\ gap' = gap + IF shutdown = None THEN 0 ELSE now - shutdown
    /\ shutdown' = None /\ armed' = {}
    /\ UNCHANGED <<now, file, restarts, deaths, spent>>

\* Startup of a new statsd: the configs are read, then LoadActiveConfigsFromDisk with the
\* processor's creation time for the clock.  A reboot also restarts the clock.
Startup(reboot, delay) ==
    /\ ~up /\ restarts < MaxRestarts
    /\ up' = TRUE /\ restarts' = restarts + 1
    /\ now' = IF reboot THEN delay ELSE now
    /\ now' >= delay
    /\ SetTable(IF file = None THEN FreshTable
                ELSE LoadActiveConfigs(FreshTable, file, now' - delay))
    /\ file' = None
    /\ UNCHANGED <<lastWrite, saving, death, deaths, history>>
-----------------------------------------------------------------------------
Init ==
    /\ up = TRUE /\ now = 0
    /\ state = FreshTable.state /\ start_ns = FreshTable.start_ns
    /\ metricActive = FreshTable.metric /\ configActive = FreshTable.config
    /\ file = None /\ lastWrite = 0 /\ saving = None /\ death = Idle
    /\ restarts = 0 /\ deaths = 0
    /\ spent = [a \in Acts |-> 0] /\ gap = 0
    /\ shutdown = None /\ armed = {}

EventStep == \E matched \in SUBSET Matchers :
                 \E timeNs \in {t \in (now - Lateness)..now : t >= 0} :
                     OnLogEvent(matched, timeNs)

OtherStep ==
    \/ Tick
    \/ BeginSave
    \/ \E written \in BOOLEAN : SaveActiveConfigsToDisk(written)
    \/ CompanionDied
    \/ WriteActiveConfigsToProto
    \/ \E unread \in SUBSET Configs : ResetConfigs(unread)
    \/ SetConfigsActiveState
    \/ Exit
    \/ \E reboot \in BOOLEAN, delay \in 0..StartupDelay : Startup(reboot, delay)

Next == EventStep \/ OtherStep

Spec == Init /\ [][Next]_vars
-----------------------------------------------------------------------------
\* The type invariant.
TypeOK ==
    /\ up \in BOOLEAN /\ now \in Nat
    /\ state \in [Acts -> {"kNotActive", "kActive", "kActiveOnBoot"}]
    /\ start_ns \in [Acts -> Int]
    /\ metricActive \in [Metrics -> BOOLEAN] /\ configActive \in [Configs -> BOOLEAN]
    /\ file = None \/ DOMAIN file \subseteq Acts
    /\ lastWrite \in Nat /\ saving \in Nat \cup {None}
    /\ death.stage \in {"idle", "died", "written", "reset"}
    /\ restarts \in Nat /\ deaths \in Nat
    /\ spent \in [Acts -> Nat] /\ gap \in Nat
    /\ shutdown \in Nat \cup {None} /\ armed \subseteq Acts

\* A metric collects exactly while one of its activations is kActive, whatever events,
\* saves, resets and restorations came in between (MetricProducer.cpp:224-313): no metric
\* stays active with nothing left that could expire it, and none is left inactive with an
\* activation that flushIfExpire's early return would then never expire.
ActiveByActivation ==
    \A m \in Metrics : metricActive[m] <=> \E a \in ActsOf(m) : state[a] = "kActive"

\* The flag of a config, which decides the activation broadcasts and the list that
\* GetActiveConfigs returns, is the disjunction of its metrics' flags: it survives the
\* partial recomputations of onLogEvent (MetricsManager.cpp:535-614) and loadActiveConfig.
ConfigActiveByMetric ==
    \A c \in Configs :
        configActive[c] <=> c \in AlwaysActive \/ \E m \in MetricsOf(c) : metricActive[m]

\* One grant keeps an activation active for at most its ttl, over restarts of statsd and
\* deaths of the companion taken together.  The only excess is the time that the earlier
\* lives of statsd went on after they read the clock for their first save (StatsService.cpp:1113-1116, 1218-1222).
TtlNotExceeded ==
    \A a \in Acts :
        state[a] = "kActive" /\ now <= Deadline(a)
            => spent[a] + (Deadline(a) - now) <= ttl_ns[a] + gap

\* An ACTIVATE_ON_BOOT activation armed in this life of statsd does not become active in it:
\* a death of the companion service saves it as ACTIVATE_ON_BOOT, not as ACTIVE
\* (MetricProducer.cpp:339-353).
ArmedWaitsForBoot ==
    \A a \in armed : ~(state[a] = "kActive" /\ now <= Deadline(a))

\* What was saved and restored, by a restart or a death of the companion service, gives
\* no activation more than it was granted, nor before the boot it waits for.
RestoredWithinGrant == TypeOK /\ TtlNotExceeded /\ ArmedWaitsForBoot
=============================================================================
