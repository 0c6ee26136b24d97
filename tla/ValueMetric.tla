---------------------------- MODULE ValueMetric ----------------------------
(***************************************************************************)
(* metrics/ValueMetricProducer.cpp with its two subclasses                 *)
(* NumericValueMetricProducer.cpp and KllMetricProducer.cpp: what atoms    *)
(* measure, summed (or sketched) per dimension, state and bucket.          *)
(*                                                                         *)
(* Values are made of units.  A unit is one thing that happened in a       *)
(* dimension: for a pulled metric it makes the counter that the puller     *)
(* answers one larger, for a pushed one it is one event of value 1.  The   *)
(* aggregate of an interval is the code's number, total; units says which  *)
(* units the number stands for, so that a property can ask whether         *)
(* something was counted twice, in the wrong state or not at all.  Which   *)
(* kind of metric it is (pulled, diffed, sliced by state, a sketch, with   *)
(* alerts...) is the record `metric`, one of Kinds.                        *)
(*                                                                         *)
(* The whole producer is the record m; every method is an operator from    *)
(* such a record to the next one; the field state is what StateManager      *)
(* answers for each dimension.  One value field, SUM aggregation and    *)
(* INCREASING counters; every dimension is the primary key of its state.   *)
(***************************************************************************)
EXTENDS Integers, Sequences, FiniteSets, FiniteSetsExt, SequencesExt, TLC, ConditionTimer

CONSTANTS
  BucketSize,     \* mBucketSizeNs; mTimeBaseNs is 0
  MinBucketSize,  \* mMinBucketSizeNs
  MaxCalls,       \* how many calls are explored
  Kinds           \* the metrics to explore

ASSUME ValueAssumption ==
  /\ MinBucketSize \in Nat
  /\ BucketSize \in Nat \ {0} /\ MaxCalls \in Nat

VARIABLES
  metric,   \* the kind of metric, never changed
  m,        \* the ValueMetricProducer
  now,      \* elapsed realtime
  counter,  \* what the puller would answer: per dimension a sequence of units, or Absent
  units,    \* every unit so far: its dimension, when, in which state, and whether it was due
  gone,     \* the past and the skipped buckets that left with a report or were dropped
  nextPull, \* StatsPullerManager: when the pull alarm of this receiver is due
  lastEvent,\* the time of the last log event handled
  calls     \* the number of calls so far

vars == <<metric, m, now, counter, units, gone, nextPull, lastEvent, calls>>

Keys == 1..metric.dimensions
kStateUnknown == "unknown"
States == {"off", "on"}
Absent == "absent"
NoBase == -1
NoKey == 0

\* The times an event may bear that statsd handles now: with the option late, it
\* may be one time unit on its way.  Log events come in the order of their times;
\* alarms, reports and upgrades are handled at the current time.
Times == IF metric.late THEN {now, now - 1} \intersect (lastEvent..now) ELSE {now}

\* The reasons for which NumericValueMetricProducer::invalidateCurrentBucket
\* gives the bases up; MULTIPLE_BUCKETS_SKIPPED keeps them.
resetReasons ==
  {"DUMP_REPORT_REQUESTED", "EVENT_IN_WRONG_BUCKET", "CONDITION_UNKNOWN", "PULL_FAILED",
   "PULL_DELAYED", "DIMENSION_GUARDRAIL_REACHED"}

NewInterval == [total |-> 0, units |-> {}, sampleSize |-> 0, made |-> FALSE]
NewDimInfo == [currentState |-> kStateUnknown, hasCurrentState |-> FALSE,
               seenNewData |-> FALSE, base |-> NoBase]
NewCurrentBucket(p) ==
  [interval |-> NewInterval, conditionTimer |-> NewConditionTimer(FALSE, 0)]

\* getUnknownStateKey: without slicing every dimension has the same empty state key.
StateKeyOf(p, k) == IF metric.sliced THEN p.state[k] ELSE kStateUnknown

isEventLateLocked(p, t) == t < p.start
getCurrentBucketEndTimeNs(p) == (p.num + 1) * BucketSize

calcBucketsForwardCount(p, t) ==
  IF t < getCurrentBucketEndTimeNs(p) THEN 0
  ELSE 1 + (t - getCurrentBucketEndTimeNs(p)) \div BucketSize

multipleBucketsSkipped(n) == n > 1 /\ (metric.pulled \/ metric.diff)

-----------------------------------------------------------------------------
(* Giving a bucket up *)

resetBase(p) ==
  [p EXCEPT !.dims = [k \in DOMAIN @ |-> [@[k] EXCEPT !.base = NoBase]], !.hasGlobalBase = FALSE]

skipCurrentBucket(p, reason) ==
  IF ~p.mIsActive THEN p
  ELSE [p EXCEPT !.dropEvents = @ \union {reason}, !.isSkipped = TRUE]

\* Mutant: the bases are given up and the bucket is kept.
ResetOnly(p, reason) == IF reason \in resetReasons THEN resetBase(p) ELSE p

invalidateCurrentBucket(p, reason) ==
  IF reason \in resetReasons THEN resetBase(skipCurrentBucket(p, reason))
  ELSE skipCurrentBucket(p, reason)

-----------------------------------------------------------------------------
(* Closing a bucket *)

hitGuardRailLocked(p, key) == key \notin DOMAIN p.cur /\ Cardinality(DOMAIN p.cur) + 1 > metric.hardLimit

hitFullBucketGuardRailLocked(p, key) ==
  key \notin DOMAIN p.full /\ Cardinality(DOMAIN p.full) + 1 > metric.hardLimit

\* The sketch of an interval is made by the first value and leaves with the past
\* bucket; `made` says whether the interval has one.
NoSketch(interval) == ~interval.made
MoveSketch(interval) == [interval EXCEPT !.made = FALSE]

HasValue(bucket) == bucket.interval.sampleSize > 0

\* buildPartialBucket: the past bucket of one key.
buildPartialBucket(p, key, end, trueNs) ==
  [key |-> key, start |-> p.start, end |-> end, trueNs |-> trueNs,
   total |-> p.cur[key].interval.total, units |-> p.cur[key].interval.units]

\* The time the condition held, of the key's own timer when sliced by state and
\* of the producer's otherwise.
ConditionTrueNs(p, key, end) ==
  LapDuration(IF metric.sliced THEN p.cur[key].conditionTimer ELSE p.conditionTimer, end)

WithData(p) == {key \in DOMAIN p.cur : HasValue(p.cur[key])}

\* Mutant: a forced split leaves the bucket its scheduled end.
ScheduledEnd(p, t, next) == getCurrentBucketEndTimeNs(p)

BucketEnd(p, t, next) ==
  IF multipleBucketsSkipped(calcBucketsForwardCount(p, t)) THEN next
  ELSE Min({t, getCurrentBucketEndTimeNs(p)})

\* Closing a bucket gives it up when buckets were jumped over, when it is too
\* small and when it has no data.
SkipIfJumped(p, t) ==
  IF multipleBucketsSkipped(calcBucketsForwardCount(p, t))
    THEN invalidateCurrentBucket(p, "MULTIPLE_BUCKETS_SKIPPED") ELSE p

SkipIfSmall(p, end) ==
  IF end - p.start < MinBucketSize THEN skipCurrentBucket(p, "BUCKET_TOO_SMALL") ELSE p

SkipIfEmpty(p) ==
  IF ~p.isSkipped /\ WithData(p) = {} THEN skipCurrentBucket(p, "NO_DATA") ELSE p

\* The keys whose bucket is kept.
KeptKeys(p) == IF p.isSkipped THEN {} ELSE WithData(p)

\* The skipped buckets: the one that was given up, and the gap before the next.
SkippedAt(p, end, next) ==
  (IF p.isSkipped THEN {[start |-> p.start, end |-> end, why |-> p.dropEvents, at |-> now]} ELSE {})
    \union
  (IF end < next THEN {[start |-> end, end |-> next, why |-> {"NO_DATA"}, at |-> now]} ELSE {})

\* A key whose bucket is kept has its timer lapped and, for a sketch, the sketch
\* moved to the past bucket.
closeAt(p, t, end, next) ==
  [p EXCEPT
     !.past = @ \union {buildPartialBucket(p, key, end, ConditionTrueNs(p, key, end)) : key \in KeptKeys(p)},
     !.conditionTimer = NewBucketStart(@, t, end),
     !.cur = [key \in DOMAIN @ |->
                IF key \notin KeptKeys(p) THEN @[key]
                ELSE [@[key] EXCEPT
                        !.interval = MoveSketch(@),
                        !.conditionTimer = IF metric.sliced THEN NewBucketStart(@, t, end) ELSE @]],
     !.skipped = @ \union SkippedAt(p, end, next)]

\* ValueMetricProducer::closeCurrentBucket
closeCurrentBucket(p, t, next) ==
  LET end == BucketEnd(p, t, next)
  IN  closeAt(SkipIfEmpty(SkipIfSmall(SkipIfJumped(p, t), end)), t, end, next)

\* Mutant: the partial buckets stay when the full bucket was told.
KeepFullBucket(p) == p.full

\* mCurrentFullBucket.clear()
ClearFullBucket(p) == [key \in {} |-> {}]

\* NumericValueMetricProducer::appendToFullBucket: what the alerts are told.
appendToFullBucket(p, isFullBucketReached) ==
  LET data == WithData(p)
      Plus(full, keys) == [key \in DOMAIN full \union keys |->
                             (IF key \in DOMAIN full THEN full[key] ELSE {})
                               \union (IF key \in keys THEN p.cur[key].interval.units ELSE {})]
      fits == {key \in data : ~hitFullBucketGuardRailLocked(p, key)}
      Tell(full) == {[key |-> key, num |-> p.num, units |-> full[key]] : key \in DOMAIN full}
  IN  CASE p.isSkipped /\ isFullBucketReached -> [p EXCEPT !.full = ClearFullBucket(p)]
        [] p.isSkipped /\ ~isFullBucketReached -> p
        [] ~p.isSkipped /\ isFullBucketReached /\ DOMAIN p.full # {} ->
             [p EXCEPT !.told = @ \union Tell(Plus(p.full, fits)),
                       !.full = ClearFullBucket(p)]
        [] ~p.isSkipped /\ isFullBucketReached /\ DOMAIN p.full = {} ->
             [p EXCEPT !.told = @ \union Tell(Plus(p.full, data))]
        [] OTHER -> [p EXCEPT !.full = Plus(@, data)]

\* initNextSlicedBucket: dimensions that brought no data lose their base and
\* state.  A sliced key stays while its state is the current one; only its
\* sample size is cleared.
initNextSlicedBucket(p, next) ==
  LET stays == {key \in DOMAIN p.cur : /\ metric.sliced
                                        /\ key[1] \in DOMAIN p.dims
                                        /\ key[2] = p.dims[key[1]].currentState}
      seen == {k \in DOMAIN p.dims : p.dims[k].seenNewData}
  IN  [p EXCEPT !.cur = [key \in stays |-> [@[key] EXCEPT !.interval.sampleSize = 0]],
                !.dims = [k \in seen |-> [@[k] EXCEPT !.seenNewData = FALSE]],
                !.isSkipped = FALSE, !.dropEvents = {}, !.start = next, !.hitGuardrail = FALSE]

SkipIfUnknown(p) ==
  IF p.mCondition = "kUnknown" THEN invalidateCurrentBucket(p, "CONDITION_UNKNOWN") ELSE p

\* The alerts hear of a bucket that was closed by time t.
TellFullBucket(p, t) ==
  IF metric.alert THEN appendToFullBucket(p, t > getCurrentBucketEndTimeNs(p)) ELSE p

\* The timers and the number of the bucket that was just opened.
RestartTimers(p, t, next) ==
  [p EXCEPT
     !.conditionTimer = NewBucketStart(@, t, next),
     !.cur = [key \in DOMAIN @ |->
                [@[key] EXCEPT !.conditionTimer =
                   IF metric.sliced THEN NewBucketStart(@, t, next) ELSE @]],
     !.num = @ + calcBucketsForwardCount(p, t)]

flushCurrentBucketLocked(p, t, next) ==
  RestartTimers(
    initNextSlicedBucket(TellFullBucket(closeCurrentBucket(SkipIfUnknown(p), t, next), t), next), t, next)

flushIfNeededLocked(p, t) ==
  IF t < getCurrentBucketEndTimeNs(p) THEN p
  ELSE flushCurrentBucketLocked(p, t, getCurrentBucketEndTimeNs(p)
                                        + (calcBucketsForwardCount(p, t) - 1) * BucketSize)

flushLocked(p, t) == flushCurrentBucketLocked(flushIfNeededLocked(p, t), t, t)

-----------------------------------------------------------------------------
(* Taking values in *)

\* The newest n elements of a counter: what a difference of n stands for.
Newest(value, n) == {value[i] : i \in (Len(value) - n + 1)..Len(value)}

\* aggregateFields of one interval: into the interval of the old state key go the
\* difference to the base, or the value itself when the metric does not use
\* differences.  A sketch is added to whatever the interval still holds.
AddTo(interval, value, n) ==
  LET fresh == IF metric.kll THEN NoSketch(interval) ELSE interval.sampleSize = 0
  IN  [total |-> n + (IF fresh THEN 0 ELSE interval.total),
       units |-> Newest(value, n) \union (IF fresh THEN {} ELSE interval.units),
       sampleSize |-> interval.sampleSize + 1, made |-> TRUE]

\* The difference the value makes, or NoBase when there is none to take: there is
\* no base, or the counter went down and the metric does not take it as a restart.
DiffOf(p, base, value) ==
  CASE ~metric.diff -> Len(value)
    [] metric.diff /\ base = NoBase ->
         IF p.hasGlobalBase /\ metric.zeroBase THEN Len(value) ELSE NoBase
    [] metric.diff /\ base # NoBase /\ Len(value) >= base -> Len(value) - base
    [] OTHER -> IF metric.absoluteOnReset THEN Len(value) ELSE NoBase

\* Mutant: the base moves only when there was none.
AggregateKeepingBase(p, k, key, value) ==
  LET base == p.dims[k].base
      n == DiffOf(p, base, value)
  IN  [p EXCEPT !.dims[k].base = IF metric.diff /\ base = NoBase THEN Len(value) ELSE @,
                !.dims[k].seenNewData = TRUE,
                !.cur[key].interval = IF n = NoBase THEN @ ELSE AddTo(@, value, n)]

aggregateFields(p, k, key, value) ==
  LET base == p.dims[k].base
      n == DiffOf(p, base, value)
  IN  [p EXCEPT !.dims[k].base = IF metric.diff THEN Len(value) ELSE @,
                !.dims[k].seenNewData = TRUE,
                !.cur[key].interval = IF n = NoBase THEN @ ELSE AddTo(@, value, n)]

canSkipLogEventLocked(p) ==
  p.mCondition # "kTrue" /\ (~metric.pulled \/ ~metric.diff)

\* The timers of the old and of the new state key, when the state changed or the
\* dimension was missing at the previous pull.
SwitchTimers(p, oldKey, newKey, t) ==
  LET off == [p EXCEPT !.cur[oldKey].conditionTimer = OnConditionChanged(@, FALSE, t)]
  IN  IF hitGuardRailLocked(off, newKey) THEN [off EXCEPT !.hitGuardrail = TRUE]
      ELSE [off EXCEPT !.cur = (newKey :> [(IF newKey \in DOMAIN @ THEN @[newKey]
                                             ELSE NewCurrentBucket(p)) EXCEPT
                                             !.conditionTimer = OnConditionChanged(@, TRUE, t)]) @@ @]

\* The dimension has an entry in mDimInfos, and the key of its state one in
\* mCurrentSlicedBucket, from the first value on.
WithDim(p, k) == [p EXCEPT !.dims = @ @@ (k :> NewDimInfo)]
WithBucket(p, key) == [p EXCEPT !.cur = @ @@ (key :> NewCurrentBucket(p))]
EnterState(p, k) ==
  [p EXCEPT !.dims[k].currentState = StateKeyOf(p, k), !.dims[k].hasCurrentState = TRUE]

\* ValueMetricProducer::onMatchedLogEventInternalLocked; info is the dimension's
\* entry as the value finds it.
onMatchedLogEventInternalLocked(p, t, k, value, info) ==
  LET oldKey == <<k, info.currentState>>
      newKey == <<k, StateKeyOf(p, k)>>
      Moved(q) == IF metric.sliced /\ (newKey # oldKey \/ ~info.hasCurrentState)
                    THEN SwitchTimers(q, oldKey, newKey, t) ELSE q
  IN  IF hitGuardRailLocked(p, oldKey) THEN [p EXCEPT !.hitGuardrail = TRUE]
      ELSE Moved(aggregateFields(EnterState(WithBucket(p, oldKey), k), k, oldKey, value))

\* What a value does once the buckets before its time are flushed.
TakeValue(p, t, k, value) ==
  LET Found(q) == onMatchedLogEventInternalLocked(q, t, k, value, q.dims[k])
  IN  IF canSkipLogEventLocked(p) THEN p ELSE Found(WithDim(p, k))

\* MetricProducer::onMatchedLogEventLocked for a value of dimension k.
\* changed is mStateChangePrimaryKey: only that dimension is taken then.
onMatchedLogEventLocked(p, t, k, value, changed) ==
  LET matched == [p EXCEPT !.matched = @ \union {k}]
  IN  IF ~p.mIsActive \/ t < 0 \/ (changed # NoKey /\ changed # k) \/ isEventLateLocked(p, t)
        THEN p
        ELSE TakeValue(IF metric.pulled THEN matched ELSE flushIfNeededLocked(matched, t), t, k, value)

\* The dimensions accumulateEvents looks for in vain: they lose base and state and
\* their timers stop.
ForgetMissing(p, t, changed) ==
  LET missing == {key \in DOMAIN p.cur : key[1] \notin p.matched /\ changed \in {NoKey, key[1]}}
      lost == {key[1] : key \in missing}
  IN  [p EXCEPT !.dims = [k \in DOMAIN @ \ lost |-> @[k]],
                !.cur = [key \in DOMAIN @ |->
                           IF key \in missing
                             THEN [@[key] EXCEPT !.conditionTimer = OnConditionChanged(@, FALSE, t)]
                             ELSE @[key]]]

\* The bucket met more dimensions than it may hold.
AtGuardrail(p) ==
  LET cleared == [invalidateCurrentBucket(p, "DIMENSION_GUARDRAIL_REACHED") EXCEPT
                    !.cur = [key \in {} |-> {}], !.hitGuardrail = FALSE]
  IN  IF ~p.hitGuardrail THEN p
      ELSE IF ~metric.keepMaxDimensionBucket THEN cleared
      ELSE IF metric.dropOnLimit THEN [cleared EXCEPT !.hasGlobalBase = FALSE]
      ELSE [p EXCEPT !.hasGlobalBase = FALSE]

\* Process the events of a pull made at time t, whose data count as of time as.
accumulateEvents(p, t, as, delayed, changed) ==
  LET present == SelectSeq([k \in Keys |-> k], LAMBDA k : counter[k] # Absent)
      taken == FoldLeft(LAMBDA q, k : onMatchedLogEventLocked(q, as, k, counter[k], changed),
                        [p EXCEPT !.matched = {}], present)
      swept == [ForgetMissing(taken, as, changed) EXCEPT !.matched = {}, !.hasGlobalBase = TRUE]
  IN  IF isEventLateLocked(p, as) THEN invalidateCurrentBucket(p, "EVENT_IN_WRONG_BUCKET")
      ELSE IF delayed THEN invalidateCurrentBucket(p, "PULL_DELAYED")
      ELSE AtGuardrail(swept)

\* pullAndMatchEventsLocked(timestampNs); outcome says what the puller did.
pullAndMatchEventsLocked(p, t, outcome, changed) ==
  IF ~metric.pulled THEN p
  ELSE IF outcome = "fail" THEN invalidateCurrentBucket(p, "PULL_FAILED")
  ELSE accumulateEvents(p, t, t, outcome = "delayed", changed)

\* updateCurrentSlicedBucketConditionTimers
updateCurrentSlicedBucketConditionTimers(p, newCondition, t) ==
  LET touched == {<<k, p.dims[k].currentState>> : k \in DOMAIN p.dims}
      BucketOf(key) == IF key \in DOMAIN p.cur THEN p.cur[key] ELSE NewCurrentBucket(p)
  IN  IF ~metric.sliced THEN p
      ELSE [p EXCEPT !.cur =
              [key \in DOMAIN @ \union touched |->
                 IF key \notin touched THEN @[key]
                 ELSE [BucketOf(key) EXCEPT
                         !.conditionTimer = OnConditionChanged(@,
                            newCondition /\ p.dims[key[1]].hasCurrentState, t)]]]

-----------------------------------------------------------------------------
(* The calls into the producer *)

Outcomes ==
  {"ok"} \union (IF metric.pulled /\ metric.unreliable THEN {"fail", "delayed"} ELSE {})
Tracking(p) == p.mCondition = "kTrue" /\ p.mIsActive

onConditionChangedInternalLocked(p, oldCondition, newCondition) ==
  IF metric.diff /\ oldCondition = "kTrue" /\ newCondition = "kFalse" THEN resetBase(p) ELSE p

onActiveStateChangedInternalLocked(p, isActive) ==
  IF metric.diff /\ ~isActive THEN resetBase(p) ELSE p

\* onConditionChangedLocked up to and including the flush, for a punctual event.
PunctualConditionChange(p, newCondition, t, outcome) ==
  LET pulled == IF "kTrue" \in {newCondition, p.mCondition}
                  THEN pullAndMatchEventsLocked(SkipIfUnknown(p), t, outcome, NoKey)
                  ELSE SkipIfUnknown(p)
      based == onConditionChangedInternalLocked(pulled, p.mCondition, newCondition)
  IN  flushIfNeededLocked([based EXCEPT !.mCondition = newCondition], t)

\* The timers get ConditionState newCondition for the bool newCondition: kTrue is 1,
\* kFalse is 0.
TimersOn(p, on, t) ==
  updateCurrentSlicedBucketConditionTimers(
    [p EXCEPT !.conditionTimer = OnConditionChanged(@, on, t)], on, t)

onConditionChangedLocked(p, newCondition, t, outcome) ==
  IF ~p.mIsActive THEN [p EXCEPT !.mCondition = newCondition]
  ELSE TimersOn(IF isEventLateLocked(p, t)
                  THEN [invalidateCurrentBucket(p, "EVENT_IN_WRONG_BUCKET") EXCEPT
                          !.mCondition = newCondition]
                  ELSE PunctualConditionChange(p, newCondition, t, outcome),
                newCondition = "kTrue", t)

\* onActiveStateChangedLocked with the parent's flush; mIsActive itself is set by
\* activateLocked before and by flushIfExpire after the call.
onActiveStateChangedLocked(p, isActive, t, outcome) ==
  LET warned == IF isEventLateLocked(p, t) THEN invalidateCurrentBucket(p, "EVENT_IN_WRONG_BUCKET") ELSE p
      based == IF p.mCondition # "kTrue" \/ isEventLateLocked(p, t) THEN warned
               ELSE onActiveStateChangedInternalLocked(
                      pullAndMatchEventsLocked(p, t, outcome, NoKey), isActive)
      flushed == IF isActive THEN based ELSE flushLocked(based, t)
  IN  IF p.mCondition # "kTrue" THEN flushed ELSE TimersOn(flushed, isActive, t)

\* onStateChanged for dimension k, after the state tracker took the new state.
onStateChanged(p, k, t, outcome) ==
  IF ~Tracking(p) THEN p
  ELSE IF isEventLateLocked(p, t) THEN invalidateCurrentBucket(p, "EVENT_IN_WRONG_BUCKET")
  ELSE flushIfNeededLocked(pullAndMatchEventsLocked(p, t, outcome, k), t)

calcPreviousBucketEndTime(t) == (t \div BucketSize) * BucketSize

\* onDataPulled: the data of a pull at the end of a bucket count as of the last
\* instant of that bucket; in the middle of one, as of the time of the pull.
onDataPulled(p, t, outcome) ==
  LET as == IF t < getCurrentBucketEndTimeNs(p) THEN t ELSE calcPreviousBucketEndTime(t) - 1
      pulled == IF p.mCondition # "kTrue" \/ outcome = "notNeeded" THEN p
                ELSE IF outcome = "fail" THEN invalidateCurrentBucket(p, "PULL_FAILED")
                ELSE accumulateEvents(p, t, as, outcome = "delayed", NoKey)
  IN  flushIfNeededLocked(pulled, t)

\* notifyAppUpgradeInternalLocked and onStatsdInitCompleted: a forced split.
SplitBucket(p, t, outcome) ==
  flushCurrentBucketLocked(
    IF Tracking(p) THEN pullAndMatchEventsLocked(p, t, outcome, NoKey) ELSE p, t, t)

clearPastBucketsLocked(p) == [p EXCEPT !.past = {}, !.skipped = {}]

dropDataLocked(p, t) == clearPastBucketsLocked(flushIfNeededLocked(p, t))

\* The value at the end of a report's partial bucket; a report that has no time to
\* pull gives the bucket up.
PullForDump(p, t, dumpLatency, outcome) ==
  IF ~metric.pulled \/ ~Tracking(p) THEN p
  ELSE IF dumpLatency = "FAST" THEN invalidateCurrentBucket(p, "DUMP_REPORT_REQUESTED")
  ELSE pullAndMatchEventsLocked(p, t, outcome, NoKey)

\* onDumpReportLocked up to what is written: the flushes it makes first.
BeforeDump(p, t, includeCurrentPartialBucket, dumpLatency, outcome) ==
  LET flushed == IF metric.pulled THEN p ELSE flushIfNeededLocked(p, t)
  IN  IF includeCurrentPartialBucket
        THEN flushCurrentBucketLocked(PullForDump(flushed, t, dumpLatency, outcome), t, t)
        ELSE flushed

-----------------------------------------------------------------------------
(* The system *)

\* The constructor, at time 0.
NewProducer(condition, active) ==
  LET on == condition = "kTrue" /\ active
      none == [key \in {} |-> {}]
  IN  [mCondition |-> condition, mIsActive |-> active, start |-> 0, num |-> 0,
       conditionTimer |-> OnConditionChanged(NewConditionTimer(FALSE, 0), on, 0),
       cur |-> none, dims |-> none, past |-> {}, skipped |-> {}, isSkipped |-> FALSE,
       dropEvents |-> {}, hasGlobalBase |-> FALSE, hitGuardrail |-> FALSE, matched |-> {},
       full |-> none, told |-> {}, state |-> [k \in Keys |-> "off"]]

prepareFirstBucketLocked(p, outcome) ==
  IF Tracking(p) /\ metric.diff THEN pullAndMatchEventsLocked(p, 0, outcome, NoKey) ELSE p

Init ==
  /\ metric \in Kinds
  /\ now = 0 /\ calls = 0 /\ units = <<>> /\ nextPull = BucketSize /\ lastEvent = 0
  /\ counter = [k \in Keys |-> Absent]
  /\ gone = [past |-> {}, skipped |-> {}]
  /\ \E outcome \in Outcomes :
       m = prepareFirstBucketLocked(
             NewProducer(IF metric.condition THEN "kUnknown" ELSE "kTrue", ~metric.activation),
             outcome)

Call == calls < MaxCalls /\ calls' = calls + 1
ByEvent(t) == Call /\ lastEvent' = t /\ UNCHANGED <<metric, now, counter, units, gone, nextPull>>

Tick == now < metric.maxTime /\ now' = now + 1
        /\ UNCHANGED <<metric, m, counter, units, gone, nextPull, lastEvent, calls>>

\* A unit of dimension k is due when the producer tracks the dimension: it has a
\* base for it, so that the next pull can tell what happened since.
NewUnit(k, t) ==
  /\ Len(units) < metric.maxUnits
  /\ units' = Append(units,
       [key |-> k, born |-> t, state |-> StateKeyOf(m, k), tracked |-> Tracking(m),
        due |-> Tracking(m) /\ (metric.pulled => k \in DOMAIN m.dims /\ m.dims[k].base # NoBase)])

\* Something happens in a dimension whose counter is pulled.
Grow(k) ==
  /\ metric.pulled /\ NewUnit(k, now)
  /\ counter' = [counter EXCEPT ![k] = Append(IF @ = Absent THEN <<>> ELSE @, Len(units) + 1)]
  /\ UNCHANGED <<metric, m, now, gone, nextPull, lastEvent, calls>>

\* The counter starts again, or the dimension disappears from the puller's answer.
Restart(k) ==
  /\ metric.pulled /\ metric.restarts /\ counter[k] # Absent
  /\ \E fresh \in {Absent, <<>>} : counter' = [counter EXCEPT ![k] = fresh]
  /\ Call /\ UNCHANGED <<metric, m, now, units, gone, nextPull, lastEvent>>

\* A pushed event of dimension k.
Event(k) ==
  /\ ~metric.pulled
  /\ \E t \in Times : /\ NewUnit(k, t)
                       /\ m' = onMatchedLogEventLocked(m, t, k, <<Len(units) + 1>>, NoKey)
                       /\ lastEvent' = t
  /\ UNCHANGED <<metric, now, counter, gone, nextPull, calls>>

ConditionChange ==
  /\ metric.condition
  /\ \E c \in {"kTrue", "kFalse"} \ {m.mCondition}, t \in Times, outcome \in Outcomes :
       m' = onConditionChangedLocked(m, c, t, outcome) /\ ByEvent(t)

\* activateLocked
Activate ==
  /\ metric.activation /\ ~m.mIsActive
  /\ \E t \in Times, outcome \in Outcomes :
       /\ m' = onActiveStateChangedLocked([m EXCEPT !.mIsActive = TRUE], TRUE, t, outcome)
       /\ ByEvent(t)

\* flushIfExpire
Expire ==
  /\ metric.activation /\ m.mIsActive
  /\ \E t \in Times, outcome \in Outcomes :
       /\ m' = [onActiveStateChangedLocked(m, FALSE, t, outcome) EXCEPT !.mIsActive = FALSE]
       /\ ByEvent(t)

\* A state atom changes the state of dimension k, and the producer hears of it.
StateChange(k) ==
  /\ metric.sliced
  /\ \E t \in Times, outcome \in Outcomes :
       /\ m' = onStateChanged([m EXCEPT !.state[k] = CHOOSE s \in States : s # @], k, t, outcome)
       /\ ByEvent(t)

\* StatsPullerManager::OnAlarmFired for this receiver.
PullAlarm ==
  /\ metric.pulled /\ now >= nextPull /\ Call
  /\ \E outcome \in IF Tracking(m) THEN Outcomes ELSE {"notNeeded"} :
       m' = onDataPulled(m, now, outcome)
  /\ nextPull' = nextPull + BucketSize * ((now - nextPull) \div BucketSize + 1)
  /\ UNCHANGED <<metric, now, counter, units, gone, lastEvent>>

AppUpgrade ==
  /\ Call /\ \E outcome \in Outcomes : m' = SplitBucket(m, now, outcome)
  /\ UNCHANGED <<metric, now, counter, units, gone, nextPull, lastEvent>>

Taken(p) == [past |-> gone.past \union p.past, skipped |-> gone.skipped \union p.skipped]

DropData ==
  /\ metric.large /\ Call /\ m' = dropDataLocked(m, now) /\ gone' = Taken(flushIfNeededLocked(m, now))
  /\ UNCHANGED <<metric, now, counter, units, nextPull, lastEvent>>

onDumpReport ==
  /\ Call
  /\ \E partial \in BOOLEAN, latency \in {"FAST", "NO_TIME_CONSTRAINTS"}, outcome \in Outcomes :
       \E p \in {BeforeDump(m, now, partial, latency, outcome)} :
         m' = clearPastBucketsLocked(p) /\ gone' = Taken(p)
  /\ UNCHANGED <<metric, now, counter, units, nextPull, lastEvent>>

Next ==
  \/ Tick \/ ConditionChange \/ Activate \/ Expire \/ PullAlarm \/ AppUpgrade \/ DropData
  \/ onDumpReport
  \/ \E k \in Keys : Grow(k) \/ Restart(k) \/ Event(k) \/ StateChange(k)

Spec == Init /\ [][Next]_vars

-----------------------------------------------------------------------------
Closed == m.past \union gone.past
Skipped == m.skipped \union gone.skipped
Live == {key \in DOMAIN m.cur : HasValue(m.cur[key])}
Counts == metric.diff \/ ~metric.pulled    \* a value stands for what is new

\* The producer's fields have their types; buckets are kept for known states only.
TypeOK ==
  /\ m.mCondition \in {"kUnknown", "kFalse", "kTrue"} /\ m.mIsActive \in BOOLEAN
  /\ m.start \in Nat /\ m.num \in Nat /\ m.conditionTimer \in ConditionTimers
  /\ DOMAIN m.cur \subseteq Keys \X (States \union {kStateUnknown})
  /\ DOMAIN m.dims \subseteq Keys

\* No unit is counted twice, neither in two buckets nor twice in one, however
\* pulls fail, arrive late, or are made in the middle of a bucket for a condition,
\* a state, an upgrade or a report (the bases of aggregateFields and resetBase).
UnitsCountedOnce ==
  Counts =>
    /\ \A b, c \in Closed : b # c => b.units \intersect c.units = {}
    /\ \A b \in Closed : b.total = Cardinality(b.units)
    /\ \A key \in Live : \A b \in Closed : m.cur[key].interval.units \intersect b.units = {}
    /\ \A key \in Live : m.cur[key].interval.total = Cardinality(m.cur[key].interval.units)

\* Only what happened while the condition held and the metric was active is in a
\* bucket, and under its own dimension: no difference is taken across a time in
\* which the condition was false (onConditionChangedInternalLocked).
CountedWhenTracked ==
  Counts => \A b \in Closed : \A u \in b.units : units[u].key = b.key[1] /\ units[u].tracked

\* A pushed event is in a bucket its time lies in, or in none
\* (flushIfNeededLocked before aggregateFields; "Aggregates values within buckets").
CountedInItsBucket ==
  ~metric.pulled =>
    \A b \in Closed : \A u \in b.units : b.start <= units[u].born /\ units[u].born <= b.end

\* What a diffed metric counts under a state happened in that state, or the
\* dimension was new and has the unknown state (the pull of onStateChanged).
CountedInItsState ==
  metric.diff /\ metric.sliced => \A b \in Closed : \A u \in b.units :
    b.key[2] \in {units[u].state, kStateUnknown}

Slots == {[start |-> b.start, end |-> b.end] : b \in Closed \union Skipped}

\* The times of two buckets, kept or skipped, are the same or apart
\* (closeCurrentBucket, forced splits before and after the end of a bucket).
BucketsApart ==
  \A b, c \in Slots : b # c => b.end <= c.start \/ c.end <= b.start

\* While the metric is active no time goes by unaccounted: every instant before the
\* current bucket lies in a bucket that was kept or in one reported as skipped.
BucketsCover ==
  ~metric.activation => \A t \in 0..(m.start - 1) : \E b \in Slots : b.start <= t /\ t < b.end

Positions(u) == LET value == counter[units[u].key]
                IN  IF value = Absent THEN {} ELSE {i \in DOMAIN value : value[i] = u}
Pending(u) == /\ units[u].key \in DOMAIN m.dims
              /\ \E i \in Positions(u) : m.dims[units[u].key].base \in 0..(i - 1)

\* What happened in a dimension with a base, while the metric tracked it, is in a
\* bucket, waits for the next pull, or its loss shows: the current bucket is to be
\* skipped or one closed since was (invalidateCurrentBucket on failed and late
\* pulls).  Two ways to lose the base without a word are left out: dropDataLocked,
\* and a change of state that flushes with the pull of one dimension only.
LossIsMarked ==
  metric.diff /\ ~metric.restarts /\ ~metric.large /\ ~(metric.sliced /\ metric.dimensions > 1) =>
    \A u \in DOMAIN units : units[u].due =>
      \/ \E b \in Closed : u \in b.units
      \/ \E key \in Live : u \in m.cur[key].interval.units
      \/ Pending(u) \/ m.isSkipped
      \/ \E b \in Skipped : b.at >= units[u].born

\* No bucket claims that its condition held for longer than the bucket, or for a
\* negative time (the laps of ConditionTimer under forced splits and late events).
TrueTimeBounded ==
  \A b \in Closed : 0 <= b.trueNs /\ b.trueNs <= b.end - b.start

\* The alerts hear of a unit at most once, under its own key, and never before the
\* bucket it was counted in (appendToFullBucket over partial buckets).
AlertsToldOnce ==
  /\ \A e, f \in m.told : e # f => e.units \intersect f.units = {}
  /\ \A e \in m.told : \A u \in e.units :
       \E b \in Closed : u \in b.units /\ b.key = e.key /\ b.start \div BucketSize <= e.num

\* A unit of a value is counted at most once, and only where it belongs: tracked
\* when it happened, in its bucket, its dimension and its state.
UnitsCounted ==
  TypeOK /\ UnitsCountedOnce /\ CountedWhenTracked /\ CountedInItsBucket /\ CountedInItsState

\* Buckets, kept and skipped, tile the time of the metric without overlap, and
\* none claims more condition time than it has.
BucketsTile == BucketsApart /\ BucketsCover /\ TrueTimeBounded
=============================================================================
