# A TLA+ verification of statsd

statsd is Android's metrics daemon. Apps and the system push *atoms* (log
events) through a socket; statsd matches them, evaluates conditions and states,
aggregates them into the buckets of the metrics that configs ask for, watches
the metrics for anomalies, and hands out reports. This directory holds TLA+
models of its core, TLC configurations that check them on small instances, and
TLAPS proofs that hold for every instance. Paths below are relative to
`src/statsd/src/` unless they start with `src/`.

## Inventory

Threads: the socket listener pushes events into `LogEventQueue`; the reader
thread (`StatsService::readLogs`) takes them out and calls
`StatsLogProcessor::OnLogEvent` under `mMetricsMutex`; binder threads deliver
configs, report requests, alarms of the companion service (a Java service in
the system server) and death notices; the puller and the shell subscriber have
callbacks and threads of their own.

| component | state | operations | what makes it correct |
|---|---|---|---|
| `logd/LogEventQueue` | bounded queue, mutex, condition variable | push, waitPop | no event lost, reordered or doubled except a counted overflow; no lost wake-up |
| `socket/*` | receive buffers, atom filter | read, push, note overflow | each loss is counted for its atom |
| `StatsService` | binder state, reader thread | Startup, config and report calls, companion ready and died | reader starts and stops; alarms survive the companion |
| `StatsLogProcessor` | MetricsManager per config, broadcast times, files | OnLogEvent, OnConfigUpdated, onDumpReport, alarms, save and load | data reaches exactly one report; guardrails; restart loses only what is documented |
| `metrics/MetricsManager` | matchers, conditions, metrics, anomaly and alarm trackers of a config | onLogEvent, onDumpReport, config update | dispatch order; loss marks |
| `metrics/MetricProducer`, `CountMetricProducer` | current bucket, past buckets, condition timer, activation, loss flags | event, condition, activation, dump, drop, split, loss | counts conserved; buckets ordered, on the grid; condition time conserved |
| `condition/ConditionTimer` | stopwatch with lap correction | onConditionChanged, newBucketStart | laps add up |
| `metrics/Duration*`, `duration_helper/*` | running durations per key | start, stop, stopAll, condition, flush | durations conserved over buckets |
| `metrics/Value*`, `Numeric*`, `Kll*`, `Gauge*` | bases, intervals, pulled data | pull, event, condition, flush | differences, invalid buckets |
| `metrics/Event*` | aggregated atoms | event, dump, drop | every atom reported once |
| activation (`MetricProducer`, `MetricsManager`) | activation table with time to live | activate, cancel, expire, save, load | active exactly while some activation lives |
| `condition/*Tracker` | per-key nesting counts, three-valued states | evaluate | condition follows starts and stops |
| `matchers/*` | none across events | match | combination logic |
| `state/*` | state per primary key, listeners | onLogEvent, register, unregister | listeners see each change once |
| `anomaly/AnomalyTracker` | ring of past buckets, cached sum, refractory ends | addPastBucket, detect, declare, save, load | ring and sum are the window; refractory period kept |
| `anomaly/DurationAnomalyTracker` | alarm per key | startAlarm, stopAlarm, informAlarmsFired | agrees with the monitor; due alarms fire |
| `anomaly/AlarmTracker` | next alarm time | informAlarmsFired | one alarm per config, in the future |
| `anomaly/AlarmMonitor`, `indexed_priority_queue` | heap with index, registered time | add, remove, popSoonerThan, setStatsCompanionService | registered time near the soonest alarm; heap order |
| `external/*` | pull cache, callbacks, next pull time | Pull, OnAlarmFired, register | time-out against late answer; cool-down |
| `config/ConfigManager`, `storage/StorageManager` | configs and receivers, files | update, remove, read, write, trim | memory and disk agree after a restart |
| `packages/UidMap` | packages, change log | update, snapshot, dump | each config sees each change once |
| `shell/*` | subscriptions, helper thread | start, event, pull, unsubscribe | thread runs while there are clients |
| `guardrail/StatsdStats` | counters | note... | dropped atoms counted |
| `utils/MultiConditionTrigger` | conditions | markComplete | fires once |
| `service/java/...` | alarms, death recipients | onAlarm, sayHiToStatsd | the two processes meet again |
| `lib/libstatssocket`, `lib/libstatspull`, `lib/libkll` | client side | write, loss report, callbacks, sketch | loss report; registration across restarts |

What is hard: buckets are closed by several threads with times that are not in
order (a queued event is older than a dump that overtook it); the condition
timer is corrected after the fact; alarms are popped under one lock and handled
under another while configs change; both processes may die; clocks of different
resolution and origin are converted into each other.

## Modules

| module | models | composed of |
|---|---|---|
| `ConditionTimer` | `condition/ConditionTimer.h` | |
| `CountMetric` | `metrics/MetricProducer.*`, `metrics/CountMetricProducer.cpp` | `ConditionTimer` |
| `CountMetricProofs` | theorems about `CountMetric` | |
| `DurationTracker` | `metrics/duration_helper/*`: SUM and MAX trackers, as functions | |
| `DurationMetric` | `metrics/DurationMetricProducer.cpp` | `DurationTracker`, `ConditionTimer` |
| `ValueMetric` | `metrics/ValueMetricProducer.*`, `NumericValueMetricProducer.cpp`, `KllMetricProducer.cpp` | `ConditionTimer` |
| `GaugeMetric` | `metrics/GaugeMetricProducer.cpp` | |
| `EventMetric` | `metrics/EventMetricProducer.cpp` | |
| `Conditions` | `condition/SimpleConditionTracker.cpp`, `CombinationConditionTracker.cpp` | |
| `ConditionEventProofs` | theorems about `Conditions` and `EventMetric` | |
| `MetricActivation` | activations in `metrics/MetricProducer.cpp`, `metrics/MetricsManager.cpp`, the file `active_metrics`, the companion's death | |
| `MetricActivationProofs` | theorems about `MetricActivation` | |
| `ActivationBroadcast` | the broadcasts at the end of `StatsLogProcessor::OnLogEvent` | `MetricActivation` |
| `AlarmMonitor` | `anomaly/AlarmMonitor.cpp`, as functions on a monitor | |
| `Refractory` | the refractory period of `anomaly/AnomalyTracker.cpp` | |
| `AnomalyAlarm` | `anomaly/DurationAnomalyTracker.cpp` with the timer `StatsLogProcessor::OnLogEvent` polls | `AlarmMonitor`, `Refractory` |
| `AlarmProofs` | theorems about `AnomalyAlarm` and `PeriodicAlarm`, lemmas about `AlarmMonitor` | |
| `PeriodicAlarm` | `anomaly/AlarmTracker.cpp`, `StatsService`, companion service | `AlarmMonitor` |
| `AnomalyTracker` | `anomaly/AnomalyTracker.cpp` and the metadata file | `Refractory` |
| `MinQueue`, `IndexedPriorityQueue` | promise and implementation of `anomaly/indexed_priority_queue.h` | |
| `LogEventQueue` | queue, listener, reader, overflow counters and the marks in reports | |
| `PullManager` | `external/StatsPullerManager.cpp`, `StatsPuller.cpp`, `StatsCallbackPuller.cpp` | |
| `AtomIntakeProofs` | theorems about `LogEventQueue` and `PullManager` | |
| `ConfigParsing` | `metrics/parsing_utils/metrics_manager_util.cpp`: construction of a config | |
| `ConfigUpdate` | `metrics/parsing_utils/config_update_utils.cpp`, the constructor and update of `MetricsManager` | `ConfigParsing` |
| `ReportStore` | `config/ConfigManager.cpp`, `storage/StorageManager.cpp`, reports and configs in `StatsLogProcessor`, `StatsService` | |
| `TrainInfo` | train info files of `StorageManager`, the train events of `StatsLogProcessor` | |
| `RestrictedData` | `metrics/RestrictedEventMetricProducer.cpp`, `utils/DbUtils.cpp`, restricted data in `StatsLogProcessor` | |
| `RestrictedReceivers` | receivers of restricted metrics in `ConfigManager`, `StatsService` | |
| `StorageProofs` | theorems about `TrainInfo`, `RestrictedData`, `RestrictedReceivers` and the refractory periods of `AnomalyTracker` | |
| `ClientPull` | `src/lib/libstatspull/stats_pull_atom_callback.cpp` | |
| `UidMap` | `packages/UidMap.cpp` | |
| `StateTracker` | `state/StateManager.cpp`, `state/StateTracker.cpp` | |
| `SharedTableProofs` | theorems about `UidMap` and `StateTracker` | |
| `ShellSubscription` | `shell/ShellSubscriber.cpp`, `shell/ShellSubscriberClient.cpp` | |
| `ClientProofs` | theorems about `ClientPull` and `ShellSubscription` | |
| `MC*` | constants of small instances and the suites | as below |

Operators and actions keep the names of the functions they model, and
`PROJECT.json` maps each one to its lines. Definitions introduced as "Mutant" are
not part of any specification: each is a plausible bug of the definition that
follows it, used to see that a property would notice.

Most MC modules are *suites*: `MCAlarms`, `MCCountMetric`, `MCDurationMetric`,
`MCSampledMetrics`, `MCReportStore`, `MCClients` and `MCEvents` put parts side by side
that share no state, and a behaviour is one of the part chosen at the start (`part`).
A suite checks each part exactly as a run of its own would; it is no composition. The
composed models are the ones of the last column, where the state is shared. A property
of a run is often a conjunction of named parts, each with its comment, in the module of
the component.

**CountMetric.** `metric` is a record with the fields of the producer; closing a
bucket is a function on it, because `flushLocked` chains two closings. Every
public operation that takes `mMutex` is one action. Dimension keys are model
values and a counter of 0 is a missing entry. Calls carry times: binder calls the
current time, calls for log events the time of the event, which may be up to
`Lateness` behind. History variables count what was accepted, delivered,
discarded and handed to trackers, per bucket number. `fresh` lets
`loadActiveMetric` happen only right after construction. Of the activation table
only the answer is kept: whether the metric is active.

**DurationMetric.** A tracker is a record and its methods are functions on it together
with the anomaly tracker it tells; the producer calls them for each tracker. Conditions
are those the code tells apart: none sliced, sliced with a query to the wizard, sliced
with the changed dimensions (`opt1`), the same in a combination. Calls come in the order
of their times. The predicted time of an anomaly is moved behind the refractory period of
its key, which declarations on stops, on alarms and by detection start; alarms are in
seconds, rounded up. History variables have the exact time each key ran, per state. One event
changes either the sliced or the unsliced part of a combination, not both. Metrics with
the changed-dimension optimisation have no activation: with one, dimensions that changed
while the metric was inactive are not told (`metrics/DurationMetricProducer.cpp:339`).

**ValueMetric** has one value field, the SUM of an INCREASING counter or of pushed
values, and each dimension is its own state primary key. The world it measures is a
history of *units*: each has its time, dimension, state and whether it was tracked, so
that a property can say where a unit was counted. A pull answers with the counters, fails
or comes late. Two combinations of options are left out of the kinds that are explored,
because the code is wrong there (below): zero base with states, and sketches with states.
`LossIsMarked` leaves out `dropDataLocked` and the flush of a state change with several
dimensions, which forget a base without a mark.

**GaugeMetric.** A pull answers with a set of dimensions; the empty set also stands for a
pull that failed, came late or was not sampled. A sample has an identity and the bucket
number of its time. **EventMetric** keeps events by their fields and state, with the size
it accounts for them. **Conditions** has one unsliced condition `p`, one sliced `q` and one
combination of them with each operation; links are full, so `isPartialLink` is false. A
history says which keys are started.

**MetricActivation** numbers the activations over all metrics. A table (states, start
times, flags of metrics and configs) is a record, and expiring, cancelling, activating,
writing and loading are functions on it, so that `EventTable` is the body of
`MetricsManager::onLogEvent` in its order. `BeginSave` reads the clock, as
`informDeviceShutdown` and `Terminate` do, and `SaveActiveConfigsToDisk` uses it later;
`statsCompanionServiceDiedImpl` is four steps, one for the clock and one for each time it
takes `mMetricsMutex`; `ResetConfigs` may fail to read a config. `Startup` reads the file
against the processor's creation time, with or without a reboot. History variables hold
the time an activation has had since it was granted, and which ones were armed for the
boot in this life of statsd. **ActivationBroadcast** extends each event of it by the loop
over the changed uids, in any order, with receivers that may be missing.

**AnomalyAlarm and PeriodicAlarm** share the monitor. Its `timer` is the time the
callbacks of `StatsService` set: for anomaly alarms `mNextAnomalyAlarmTime`, which
`OnLogEvent` polls; for periodic alarms the `AlarmManager` alarm in the system
server, which is one-shot and dies with it. The anomaly monitor counts in seconds
and the trackers in nanoseconds (`TicksPerSec` ticks), so rounding is modelled.
In PeriodicAlarm a firing is three steps: the alarm goes off, the binder call pops
the due alarms, the trackers are informed under another lock. An alarm is an object
(`sp<InternalAlarm>`), so each has a number, `gen`, of its own among those of its config.

**AnomalyTracker** has the ring indexed by bucket number modulo its length, maps
with the entries they have, and the metadata file. `boot` is wall clock minus
elapsed time; a reboot sets elapsed time back. **IndexedPriorityQueue** is the array with
its index map; `ImplementsMinQueue` is the refinement of `MinQueue`, on whose promise
`AlarmMonitor!Soonest` relies.

**LogEventQueue** has one step per critical section; `notify_one` comes after the
unlock and is a step of its own, and so is the counting of an overflow. The map of counts
has a limit: an atom that is dropped for the first time when the map is full is never
counted, so that no report marks its losses, and the properties speak of the atoms that
have an entry or found room for one. The limit of the run is one entry for two atoms.

**PullManager.** The main thread of `OnAlarmFired` starts worker threads that take groups
of receivers, and processes the results they hand over; each step is what happens between
two locks or waits. An asynchronous puller answers before or after the timeout of
`StatsCallbackPuller`, or dies. The companion, which holds the alarm, dies and returns.
An atom has one uid. The synchronous variant behind a flag is left out.

**ConfigParsing and ConfigUpdate.** A config is a record of sequences of nodes (matchers,
predicates, states, metrics, alerts, activations) that refer to each other by id; its
protos' hashes are the nodes themselves. Construction validates the nodes and resolves
ids into positions as the code does, duplicates and reference cycles included. An update
walks the dependencies (`new`, `preserve`, `replace`, `unknown` for an invalid one) and
keeps or makes objects, each with the generation it was born in, so that identity is
visible. `UpdateEqualsInit` compares with a fresh construction of the same config:
construction is the specification that an update has to meet. The limits on metrics,
conditions, matchers and alerts are checked at the end, as the code does. Where an update and a
construction differ in the code the properties say so and no more (see "Disagreements found"):
each exception is needed, and none covers a config whose predicates have their matchers and
whose state lists are sorted. Not modelled: what a combination matcher does whose child is
given twice, where the code follows an iterator past its map's end.

**ReportStore.** `st` holds memory and disk; files are records with key, age, items and
whether they are local history. A call that holds a lock is one step; calls to listeners
after the lock was released are steps of their own. Ages saturate at the limits, and a
report number is not kept. `Scenarios` are the groups of calls a run combines.
**TrainInfo** reads and writes its file field by field; a file may be cut short at any
field. An event brings a list of experiment ids of any length (`IdLists`: none, two of one
experiment, one of another). A rollback without a file reads flags that were not set (any
value). **RestrictedData**
has one config with one metric: events in memory, rows in a table with a schema, and
metadata with the category. Each call is given the operations that fail while it lasts (opening
the file, PRAGMA and SELECT, DROP, CREATE, INSERT, DELETE, the table of the device, the removal
of the file, the integrity check), and goes on as the code does: a table that could not be
dropped is taken for one that was, events whose insertion failed are lost, events whose table
could not be made wait. `store.left` names the rows of which a producer cannot know the
category: those a failed drop left and those of a category it was not told at its start; `stray`
says that the process died between the removal of the config and that of its database, or that
the file could not be removed; an answer records whether the deletion of old rows before it
worked. `MCReportStore` lets at most one kind of operation fail in each call; the proof has
any sets of them.
**RestrictedReceivers** separates the registration of a receiver from the broadcast to it.

**ClientPull** has the map of callbacks of the client, its queue of commands and worker
thread, the thread that handles a death of statsd, and the registrations statsd has.
`service.waits` says whether a fetch of the service waits for it, as since Android S.
**ShellSubscription** has pipe and callback clients with their cache and the helper thread
that sleeps for the earliest of their times. A unit of time is a second; each subscription
is started at most once per life. A round of the thread is one step under its lock; a call
that finds a client dead unsubscribes it in the same step, and only a flush by request
leaves a dead client for the next call to find. `SleepTime` answers for a pipe that timed
out, or whose heartbeat failed, without asking when its next write is due, as the code returns
early there. The end of a pipe by its time limit can be one heartbeat late: a limit does not
shorten the sleep, so the thread looks at it when it wakes for a heartbeat.

**UidMap** has the map of apps with deleted ones kept up to a limit, the list of changes
with its bytes, and the last report of each config. A call carries a time that was read
before the lock, so that calls take effect out of the order of their times. A change
record has its place in the log as its id; history variables say which changes are due to
a config, which were in its reports and which were dropped at the limit, and what the
system server last said of each app. A change whose time lies before a report that overtook
it is never reported to that config: the code compares times, and the property counts
such a change as not due.

**StateTracker** has a tracker per atom with the states of its keys and its listeners, and
for each listener the state it goes by: what the tracker held when it registered, and what
it was told since. Events carry a state or none, may reset all keys, and may be nested
(counted). A listener that a config update replaced dies registered: its weak pointer can
no longer be promoted and it keeps its tracker alive.

## Runs

| run | expects | properties | shows |
|---|---|---|---|
| `anomaly_alarm_lost` | violation | `RegisteredAlarmIsSet` | After the soonest of two close alarms is removed, the timer fires too early, pops nothing and is not set again. |
| `metric_activation` | pass | `RestoredWithinGrant`, `ActiveByActivation`, `ConfigActiveByMetric` | Through events, late ones too, saves, restarts, reboots and a death of the companion with events in between, the active flags agree with the activations, no grant outlives its ttl but by the known gap of a save, and an activation armed for the next boot waits for it. |
| `activation_broadcast` | violation | `ChangeBroadcast` | A uid whose active configs change is not told, although it was never told before, because another uid of the same event is stopped by its guardrail. |
| `alarms` | pass | `AnomalyAlarmsSound`, `PeriodicAlarmsSound`, `ImplementsMinQueue`, `RefractoryRespected`, `EveryAlarmFires`, `DetectorSound` | Alerts and alarms: the detector of an alert keeps the window it sums and its refractory periods, also across restarts; trackers and monitors agree on the alarms that are set through config updates and deaths of the system server, alarms that are due fire, no anomaly is declared in a refractory period, and the heap implements the abstract queue. |
| `duration` | pass | `DurationsExact`, `BucketsInStep`, `AlarmNotLate`, `ConditionsCurrent`, `ChangesTold` | Duration metrics of both kinds, with conditions that are sliced in each of the three ways the code tells apart, activation, states, limits and alerts: what is reported is exactly the time that ran, trackers stay in step with their producer, and the alarm of an alert is set in time. The condition trackers that start and stop them answer what the events say, and no change goes untold. |
| `report_store` | pass | `ReportsKept`, `ConfigsKept`, `TrainInfoSound`, `HistoryTrimmedFirst`, `DataAnnounced`, `ReceiversSound`, `RestrictedDataSound` | What statsd keeps on disk: configs and reports through updates, removals, fetches, trims, deaths of the system server and crashes; train info files that may be cut short; restricted events in their database, where every operation may fail; the receivers of the delegates of restricted configs. |
| `report_store_suffix` | violation | `OneFilePerSuffix` | Saved configs are found by the end of their file names: for the same app of two users, the uid of one ends with the digits of the other. |
| `count` | pass | `TypeOK`, `BucketsInOrder`, `TimeAccounted`, `LateDataConserved`, `CorruptionSurvives` | Whatever order dumps, splits, condition changes, activations, losses and events come in, the buckets of a count metric stay ordered and on the grid, no condition time is lost and a loss of atoms marks the reports it should; also with log events that are handled after a later dump or split, every counted event ends up in one bucket and with the anomaly trackers once. |
| `sampled_metrics` | pass | `UnitsCounted`, `BucketsTile`, `LossShown`, `SamplesTold`, `EventsSound` | Value, KLL, gauge and event metrics, pulled and pushed: pulls that fail or come late, conditions, activation, states, limits, reports, upgrades and alerts. No value or sample is counted twice, outside its condition, state or bucket; time is accounted for without gap or overlap; a loss shows. |
| `clients` | pass | `UpdateSound`, `RegistrationsSound`, `SubscriptionsServed`, `UidMapSound`, `StatesHeard`, `UpdateKeepsUnchanged` | What clients ask of statsd, and the tables that their configs share. A config that is updated in place, in any order over a pool of related configs valid and invalid, ends with the objects a fresh start would build and keeps exactly the metrics whose dependencies did not change, but for what hangs on a matcher that went from under an unchanged predicate and for states listed unsorted; its delegate knows its metrics. The pull callbacks of a client are registered again after deaths of statsd. Subscriptions get what they are owed once and in time, and are ended once. Every change of an installed app reaches the reports of every config or is dropped at the limit, and metrics go by the states that the events left. |
| `client_pull_cleared` | violation | `NoClearedRegistration` | A callback that its owner has cleared is registered with statsd again by the thread that handles a restart of statsd. |
| `events` | pass | `EventsAccounted`, `PullsSound`, `WorkersFinish` | The two ways of atoms into statsd. Every pushed event is processed once and in order or counted as lost, a counted loss marks the next report, no wake-up is lost and the reader stops when asked to. Every receiver that is due is told once of its pull and in time, by several threads, with data that came before the timeout, and the handling of an alarm ends. |

Bounds and why they are enough.

* `count`: bucket size 2 with times to 6 gives three buckets (with late events, times to 4,
  two) with a time inside each, so a call can come before, on and after an edge, skip a
  bucket, and come late; two counted events suffice for two buckets or two keys of one.
* `alarms`: two keys, since the faults concern the soonest alarm and another; two ticks per
  second distinguish a rounded time from an exact one. The detector's ring has two places
  and bucket numbers run to 3, past its length. The heap has seven elements, three levels,
  so that an element moved by an interior removal may have to go up.
* `metric_activation`: one metric has an immediate activation and one for the next boot,
  and one matcher activates the first and cancels the second; times to live of 1 with a
  clock to 2 let an activation be renewed, expire, and be loaded with all, part or none of
  its time left, and one restart and one death of the companion can fall into each other.
* `duration`: buckets of 3 with times to 6 and four calls: a duration that spans a bucket
  with one call inside it; two keys of one dimension or two dimensions; a window of two
  buckets. Conditions: four events on two keys, with a limit of one key.
* `sampled_metrics`: buckets of 2 and a minimum of 1, three calls, two or three units: a
  base, a difference and a pull that goes wrong between them. Gauges: buckets of 3 and a
  minimum of 2, so that a partial bucket can be large enough or too small, and four calls.
* `report_store`: two configs, two files at most, one item each, ages 0 to 2 (too old). A
  config limit of one per uid with two configs meets the guardrail. Two events of one train,
  of two versions, with no experiment ids, two, or one of another experiment. `ByteSizePeriod` is 0:
  sizes are looked at on every event.
  Restricted events: three of them, of two categories and two sets of columns, for a config
  that was there at the start or not and two changes of it or restarts; one hour to live, and
  a file too old after two; at most one kind of operation fails in each call.
* `clients`: a pool of 48 related configs, and three uploads of them, in place or anew: the
  first two of the whole pool, the third of 14 (`LatePool`) that move, remove and bring back
  matchers, change states, activations or the delegate, or are invalid. The base config has
  a valid metric of every type, a duration metric with a condition and a link among them, and
  meets each of the four limits, which one config each exceeds; two delegates. Two callbacks of pulls, three calls, two deaths of statsd.
  Two subscriptions of three at once, caches of two events. Uids: a system app and one
  whose SDK sandbox uid is used, two configs that report with and without omissions, room
  for two change records and one deleted app, four calls: two changes, a report and a cut
  that the other config has to survive. States: one atom, two keys, two listeners and six
  calls: a state, a nested event, a reset, and a listener that comes or dies in between.
* `events`: room for two events, and four arrive; two receivers of one atom, two workers.

Deadlock is checked in `count` and `alarms`, where something can always happen. In the
others the number of calls is bounded and the parts rest when they are used up.

Fairness. `alarms`: time passes and log events keep arriving, which is the only thing that
makes this code look at the anomaly timer; the alarm manager fires, binder delivers calls
and death notices, and the system server is restarted by init. `events`: each thread that
can take a step does; events, reports and the stop need not come, and the two-second
timeout of `waitPop` may fire but need not, so that a lost wake-up would show; the workers
of a pull and the thread that waits for them run, and a puller that does not answer times
out. `report_store`: in the scenario of announcements, log events are processed and time
passes. Other runs check safety only. `EveryAlarmFires` has the premise that the
registered time is never left before the soonest alarm (`RegisteredEarly`); without it
the property does not hold, which is the finding of `anomaly_alarm_lost`.
`RegistrationsSound` does not look at a client whose clearing overlapped the copy of its
map (`overlapped`): that is the finding of `client_pull_cleared`.

### Disagreements found

Four violation runs each check one sentence of the repository; `findings` in
`PROJECT.json` quotes it with its line. The monitor does not set its timer again after a
removal (`anomaly_alarm_lost`); the guardrail of one uid keeps other uids from being told
that their active configs changed (`activation_broadcast`); saved configs are found by the
end of a file name, which another user's uid also has (`report_store_suffix`); a callback
that was cleared is registered again by the thread that handles the return of statsd
(`client_pull_cleared`).

Others were met while modelling and have no run of their own. Where one would break a
property, the instance avoids it, which is said here.

* A restored activation does not start the condition timer (`metrics/MetricProducer.cpp:308`;
  the metric of `TimeAccounted` has no restored activation, `PersistedActivation`).
* The size of count buckets is computed with full and partial exchanged
  (`metrics/CountMetricProducer.cpp:471`).
* A condition change after a bucket's end adds time to that bucket; a bucket closed exactly
  at its end is not handed to the trackers as full (`metrics/CountMetricProducer.cpp:481`).
* `determineMetricUpdateStatus` intersects the states of a metric, in the order of the
  config, by `set_intersection`, which needs them sorted: a metric whose state was replaced
  may be preserved (`metrics/parsing_utils/config_update_utils.cpp:637`). The pool has such a
  metric, and `UpdateEqualsInit` and `KeptIffUnchanged` except its states and nothing else.
* `replacedMatchers` holds ids of the new config only
  (`metrics/parsing_utils/config_update_utils.cpp:188`, 317-340): an unchanged predicate is
  preserved when a matcher it names is removed, or is there twice and so invalid. `setMatcherIndices`
  then returns early (`condition/SimpleConditionTracker.cpp:103`, 113, 125) and leaves the index of
  the config before, which may be that of another matcher or past the end; a fresh tracker has
  an index that was never set, or is refused. Metrics on such a condition are kept. The pool has
  the three cases; `UpdateEqualsInit` leaves out what hangs on such a condition (`Orphans`,
  `Loose`), and `KeptIffUnchanged` compares the matchers that both configs have.
* A config that names another delegate than the one before tells the new delegate only, in
  place or made anew (`StatsLogProcessor.cpp:619`, 646): the delegate before keeps the metrics
  it was told. `DelegateInformed` excepts exactly these (`superseded`).
* A replaced alert gets no alarm for pending durations
  (`metrics/duration_helper/DurationTracker.h:153`; `Statuses` has no `UPDATE_REPLACE`).
* With zero as default base, a state change that closes a bucket makes the next pull count
  the whole counter of another dimension again (`metrics/ValueMetricProducer.cpp:287`), and
  a sliced sketch carries values of a dropped bucket into the next one
  (`metrics/ValueMetricProducer.cpp:897`; both kinds are left out).
* A pushed value metric sliced by state counts an event under the previous state of its
  dimension; a rest of a bucket without data discards earlier partial buckets for the
  alerts; event times out of order give negative condition times.
* An upgrade or the end of start-up pulls a gauge without looking at its condition, where
  the comment says otherwise; a report with a partial bucket leaves a RANDOM_ONE_SAMPLE
  gauge without a sample until the next alarm.
* A puller that was never asked fails within the first cool-down after boot; a cleared cache
  answers an early pull with empty data (`external/StatsPuller.cpp`).
* An alarm period that is no whole number of seconds can yield an alarm that is not in the
  future (`anomaly/AlarmTracker.cpp:70`); the cached sum gets entries of 0 and drifts with
  negative values (`anomaly/AnomalyTracker.h:173`); an assertion on the overflow counters is
  inverted (`metrics/MetricsManager.cpp:920`); a new config's first report is marked for
  losses before it was added.
* After a guardrail deleted the database of a restricted config,
  `mIsMetricTableCreated` stays true and later inserts fail.
* The overall cached condition of a sliced predicate is that of the last event's key; a
  child that is evaluated through a parent listed earlier gets the parent's event.

## Proofs

`CountMetricProofs` proves, for every value of the constants that satisfies the
`ASSUME`s of `CountMetric` (finite keys, positive bucket size and dimension limit,
`TimeBase <= StartTime`):

* `TypeCorrect`: `Spec => []TypeOK`, with no further assumption.
* `BucketOrder`: `Spec => []BucketsInOrder` with log events in time order (`Lateness = 0`):
  current bucket on the grid, past buckets ordered, disjoint and on the grid. None of these
  is inductive: that a new bucket comes after the older ones needs that the current
  bucket starts inside the period of its number and not after `now`, and that a past
  bucket ends no later than the current one starts. The invariant `OrderInv` says so for a metric
  record and a time; `FlushIfNeededInv` and `FlushInv` show that the two ways of
  closing buckets keep it, from the arithmetic of `NextBucketOnGrid`
  (integer division characterised by its bounds, `DivisionBounds`), and each action is
  a composition of those with changes that do not concern buckets.
* `ConditionTime`: `Spec => []TimeAccounted` with moreover no restored activation: the
  stopwatch runs exactly while the metric is active with its condition true, and the laps it
  closed plus what it measures now are the time that was so. The heart is `LapConserved`: a
  lap's duration and its correction take exactly what the timer held
  (`Elapsed`), whichever of the cases of `newBucketStart` applies.

`MetricActivationProofs` proves `MetricsActive` (`[]ActiveByActivation`) and `ConfigsActive`
(`[]ConfigActiveByMetric`) for every set of activations, matchers, metrics and configs
and every ttl, from `ActivationAssumption`. Neither is inductive alone: loading a snapshot
sets an activation saved as ACTIVATE_ON_BOOT back to `kActiveOnBoot` without looking at
the metric's flag, which is right only if the activation is not active then. `FlagsInv`
adds that (`SnapshotOK`), that only activations for the boot are ever armed, and that no
event makes one of those active. Each function on tables has a lemma (`FlushMetricFlags`,
`CancelFlags`, `ActivateFlags`, `EventGood`, `LoadGood`, `ResetGood`), each action a step.

* `ActivationsWithinGrant` (`[]RestoredWithinGrant`): no activation is active for longer
  than the time it was granted, and one that waits for a boot starts with a boot only. The
  invariant `GrantInv` keeps an account for each activation: the time it was active and what
  is left to it, in the table (`AccountsInv`), in the file (`FileInv`) and in the snapshot
  of a death of the companion (`SnapshotInv`), is at most its ttl and the gaps between the
  clock a save reads and the end of that life of statsd, which the code does not count. The
  snapshot of a death must not outlive an activation that was armed since (`ArmedInv`).

`CountMetricProofs` also has `CorruptionKept`: `Spec => CorruptionSurvives`, an action property.
A step lowers a corruption flag only by `resetDataCorruptionFlags`, which spares
unrecoverable ones, and in each of the three calls that use it no past bucket is left.

`AtomIntakeProofs`, `ClientProofs`, `SharedTableProofs`, `ConditionEventProofs`,
`StorageProofs` and `AlarmProofs` hold for every value of the constants that
satisfies the `ASSUME`s of the modules they extend: natural numbers for limits and bounds,
positive ones where the code has positive constants, finitely many keys of a metric, and
values that stand for none (0 for no table, `CATEGORY_UNKNOWN` for
no category, `Nobody` for no delegate) apart from the others. A module of proofs may be about
several components; each theorem is about the specification of one.

* `EventsAreAccounted` (`[]EventsAccounted`). Events taken are one sequence, `Taken`: what
  was processed, what the reader has in hand, the queue. `LineInv` says that this sequence
  is strictly ordered and, with the dropped events, has each event once; the reader moves
  the places between its parts and a push extends it. `CountsInv`: the count of an atom
  with an entry is one behind just while the listener has a dropped event it did not note yet;
  an atom that found the map full stays without an entry, because no entry ever goes.
  `ReportsInv`: the counts never fall behind the copy that a config keeps, and differ from
  it just for the atoms lost in its period, so a report marks neither too many nor too few.
* `PullsAreSound` (`[]PullsSound`). Four parts, each of which the others need. `ThreadsInv`:
  who holds the lock of the manager says which threads run, those that run are counted in
  `pendingThreads`, and while the queue has a task there is a thread to take it; so when the
  loop of `OnAlarmFired` ends nothing is left. `PlacesInv`: a receiver of this alarm that was
  not told is in exactly one place (the queue, a thread, a result), one that was told is in
  none. `TimesInv`: the minimum taken so far is no later than the next time of each receiver
  that is in no place, and one that is in a place is still due. `DataInv`: what a puller has cached
  and what a thread returns name a question that was answered in time, and a question of this
  alarm is the last one of its puller, whose lock the thread that asked holds until the
  answer: that is why a second thread finds the cache. `PullAssumption` has finitely many
  receivers and all times below `NO_ALARM_UPDATE`, which stands for `INT64_MAX`.
* `RegistrationsAreSound` (`[]RegistrationsSound`). The last command on its way for a tag
  carries the puller of the map (`CommandsInv`). Without a command on its way, statsd has
  the puller of the map or a binder thread is still to register it (`AnewInv`). That such a
  thread exists needs `LinksInv`: a statsd that the provider keeps although it is dead has
  a death notice that was not handled yet, and nobody has called the one that took its place.
  The invariant has the same exception as the property, calls that overlap a copy of the map.
* `SubscriptionsAreServed` (`[]SubscriptionsServed`). Whatever flushes a call makes, it treats
  a client as `Treated` says: nothing is owed that is not in its cache, nothing is sent
  twice, its last write and pull do not go back. After a round each client has a time
  by which the thread must be awake (`InTime`), the shortest sleep of all meets it
  (`SleepIsShort`, `LeastNatural`), and a call while the thread sleeps keeps it
  (`TreatedInTime`), since it makes no write, pull or data of a client older. A new client has
  no such time and wakes the thread instead (`HelperInv`). For a client that left, `Absent`:
  its cache is empty and it was told once, unless it is a pipe or died before.
* `UidMapIsSound` (`[]UidMapSound`). `ChangesInv`: records differ in their ids, so the list
  has a front, and the bytes are those of a finite list. `AppsInv`: an app that is deleted,
  or waits to be erased, was removed once. `ReportsInv`: no config has 0 as its last report,
  which `getMinimumTimestampNs` would take for none, so the cut after a report is at or
  before the last report of every config.
* `SilenceOutlivesRestarts` (`RefractorySurvives`, an action property and part of
  `DetectorSound`), assuming that the wall clock is not before the boot (`BootPhase` natural).
  `PeriodsInv`: the entry of a key that was declared and not lost lasts till the end of its
  silence (`EntryLasts`), and so does what was written of it (`FileLasts`). The seconds of the
  file are those of the wall clock, which begin up to a second before those of elapsed time,
  so `FileLasts` has the offset between them, and a load costs less than a second
  (`SaveLasts`, `LoadLasts`, from `FloorOfSum`): a silence ends a second earlier with each
  restart, as the property allows.
* `StatesAreHeard` (`[]StatesHeard`). The property is inductive once the maps are known to be
  functions; its parts lean on each other: a listener is up to date because entries are
  known and counted, and those are because a tracker goes with its last listener.
* `TrainInfoIsSound` (`[]TrainInfoSound`). `DecodeOfWritten`: a file cut off after any
  field but the last does not read, and a whole one reads as what was written, because the
  count of ids in it fixes where the file must end. With that, `FilesInv` says of each file that its
  reading is what was written to the end, and that these ids are the list of one event and
  what statsd added to it; the ids of the next event follow from the reading.
* `QueriesAreCurrent` (`[]ConditionsCurrent`) and `EveryChangeIsTold` (`ChangesTold`). What a
  query finds is not enough to know what the next event makes of it: a key that is started
  twice answers like one that is started once. `CondInv` says that the count in the map, or
  the initial value without one, is the count that the events mean, but for keys at the
  guardrail, whose counts are those of before. `CondAssumption` has the initial value unknown
  or false, as `convertInitialValue` makes it: the map forgets a key that stops just when an
  absent key means the same. Both theorems rest on one lemma for each way an event can go
  (new key, known start, known stop, stop of all, no match): the entry of one key changes
  (`OneKey`), the count follows the event (`Follows`), and what changes is told (`Tells`).
  For the combination it is enough that an answer depends on the answers of the children.
* `EventsAreSound` (`[]EventsSound`). An event is found by its number. `EventInv` says that the
  times under a key are those of events taken with that key, each once, in the producer and in
  all that left it, and that no two of these share one: so two places cannot both have an
  event. The size needs the map and what is counted of it to be finite, since an event adds one
  to a cardinality or nothing. The severity of a reason says which kinds of atoms were lost
  for it (`FlagsInv`), so a report can go by it.
* `RestrictedDataIsSound` (`[]RestrictedDataSound`). `StoreOK` is about the value that the
  calls pass on: events in memory, rows and what is gone have the numbers of all events
  (`Apart`), and an event in two places would be the same one; rows have the columns of the
  table. Each call either holds nothing that was not held before (`Shrinks`), moves all
  of memory into the table, takes one event or starts a producer; the first two keep the
  category (`OneCat`), the third sets it after dropping what is of another, and the last
  takes what is of another for left. A drop that fails leaves all rows (`AllLeft`), a removal
  of the file that fails leaves the store as it was. That answers are young is a matter of
  order within `querySql`, when the deletion works.
* `ReceiversAreSound` (`ReceiversSound`, an invariant and an action property). `ToldInv`: the
  delegate knows the metrics or a broadcast on its way has them *and* carries the intent that is
  registered now; that the second part holds is why the registration comes before the
  reading. `SendingInv`: there is one broadcast at a time, with the metrics of the
  config that runs, because the sender holds the lock of the processor.
* `AnomalyAlarmsAreSound` (`[]AnomalyAlarmsSound`) and `RefractoryIsRespected`
  (`RefractoryRespected`). `StateOK` is about the value that the handlers pass on: `AlarmsOK`,
  the monitor's queue is the set of alarms of the tracker; `MonOK`, the
  registered time is 0 just when there is no alarm and otherwise near the soonest, which exists
  since the queue has a least time; and for each key the refractory period ends no earlier than
  its last declaration and the period of the alert, rounded to whole seconds
  (`RefractoryEndIsLate`). Each call on the monitor and the tracker has a lemma that keeps
  `StateOK` and says that declarations are `Later` than the ones before; handlers chain
  calls, so that relation is closed under composition (`LaterChains`). The loop of `cancelAllAlarms`
  is a recursive function over sets of keys: that it exists (`RemovalExists`) and what it leaves
  (`RemovalOK`) are shown by a smallest set for which they would fail.
* `PeriodicAlarmsAreSound` (`[]PeriodicAlarmsSound`), in the same module and with the same
  lemmas about the monitor. The property is not inductive: that a new alarm is in one place
  only needs that no alarm in a call has a number above that of its config's tracker, so the
  inductive invariant `PeriodicInv` adds that (`CallsOK`) to the place of each live alarm
  (`OnePlace`), and the sound fields of the monitor (`MonOK`) and of the trackers
  (`TrackersOK`). The loops over the configs (`UpdatedAll`, `InformedAll`) keep it at
  each turn, by a smallest set of configs for which they would not. `PeriodicAssumption`
  asks for positive offsets and periods, which `initAlarms` checks, and for a start after the
  first second, since a time of 0 stands for none.

With `Lateness > 0` the order of buckets does not hold (a late event can close a
bucket at an earlier time than the split before it), which is why the theorems say so.
The counts (`LateDataConserved`) are checked by TLC with late events;
they sum over sequences with the folds of the library, whose induction theorems take an
operator as a parameter, which the installed provers cannot instantiate (a recursive function over
sets is within reach, as `RemovalOK` shows). Out of reach are liveness
(`EveryAlarmFires`, `WorkersFinish`, `DataAnnounced`), and the heap and config parsing,
whose operators are recursive, with the refinement of `MinQueue`: those are TLC's
alone. So are `DurationsExact`, `UnitsCounted`, `DetectorSound` and `LossShown`, which say
what sums and folds over histories yield. The other properties (report storage,
the updates of configs, the tiling of buckets) are model-checked so far.

## What is not modelled

Encoding of reports and parsing of buffers (`logd/LogEvent.cpp`, `FieldValue.cpp`,
`stats_log_util.cpp`: no state across calls); matching of fields and strings, whose answer
is an input of the models; the counters of `StatsdStats` that only statsd's report about
itself shows; overflow of 64-bit times and of 32-bit alarm seconds; the text of SQL; the
KLL sketch, whose correctness is statistical; in the count metric sliced conditions and
sampling; in conditions links between part of the dimensions; the synchronous pull behind a
flag; the client side of subscriptions (`stats_subscription.cpp`); 32-bit train files of
old versions. Triggers, subscribers and incident reports, and the loss reporter of
libstatssocket are not modelled yet; `PROJECT.json` lists each component with its status.

## Plan

Done first, because everything else leans on it: buckets and the condition timer, alarms
and anomaly detection, the event queue, activations. Then the other metrics, conditions,
config updates, storage, pulls and the clients; then the uid map and the states. Left to
model: `LossReporter` of libstatssocket, and `MultiConditionTrigger`.

A theorem to prove next: `ConfigsKept` (`ReportStore`), which reaches no recursive operator
but folds over the files, about which lemmas are needed first.
