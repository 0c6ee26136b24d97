---------------------------- MODULE GaugeMetric ----------------------------
(***************************************************************************)
(* metrics/GaugeMetricProducer.cpp: samples of an atom, pushed or pulled,  *)
(* kept per dimension and bucket: one of them, the first N, or one when    *)
(* the condition becomes true.                                             *)
(*                                                                         *)
(* The producer is the record g and every method an operator from such a   *)
(* record to the next.  A sample stands for a matched atom: a number, its  *)
(* dimension and its time.  Which gauge it is (sampling type, pulled, with *)
(* a trigger atom, with a sliced condition, with alerts...) is `gauge`.    *)
(* What a pull answers is a set of dimensions; the empty set also stands   *)
(* for a pull that fails, comes too late or is left out by the pull        *)
(* probability, since the code keeps nothing of any of them.               *)
(***************************************************************************)
EXTENDS Integers, Sequences, FiniteSets, FiniteSetsExt, SequencesExt, TLC

CONSTANTS
  GaugeBucketSize,     \* mBucketSizeNs; mTimeBaseNs is 0
  GaugeMinBucketSize,  \* mMinBucketSizeNs
  GaugeMaxCalls,       \* bound: calls explored
  Gauges               \* the kinds of gauge metrics explored

ASSUME GaugeAssumption ==
  /\ GaugeBucketSize \in Nat \ {0} /\ GaugeMinBucketSize \in Nat /\ GaugeMaxCalls \in Nat

VARIABLES
  gauge,     \* the kind of metric, never changed
  g,         \* the GaugeMetricProducer
  gNow,      \* elapsed realtime
  gPull,     \* StatsPullerManager: when the next pull alarm of this receiver is due
  gLast,     \* the time of the last log event
  gSent,     \* history: what reports took away, and samples that were dropped
  gCalls

gaugeVars == <<gauge, g, gNow, gPull, gLast, gSent, gCalls>>

GaugeKeys == 1..gauge.dimensions
GaugeTimes == IF gauge.late THEN {gNow, gNow - 1} \intersect (gLast..gNow) ELSE {gNow}

isRandomNSamples == (~gauge.trigger /\ gauge.sampling = "FIRST_N_SAMPLES")
                      \/ gauge.sampling = "RANDOM_ONE_SAMPLE"

GaugeBucketEnd(p) == (p.num + 1) * GaugeBucketSize

-----------------------------------------------------------------------------
(* Buckets *)

\* updateCurrentSlicedBucketForAnomaly: the first sample of each dimension.
AnomalyValues(p) ==
  [k \in {j \in DOMAIN p.cur : p.cur[j] # << >>} |-> Head(p.cur[k])] @@ p.anomaly

GaugePast(p, end) ==
  {[key |-> k, start |-> p.start, end |-> end, num |-> p.num, samples |-> p.cur[k]] :
     k \in DOMAIN p.cur}

\* The end of flushCurrentBucketLocked for a metric with alerts.
TellAlerts(p, t) ==
  LET values == AnomalyValues(p)
  IN  IF ~gauge.alert THEN p
      ELSE IF t > GaugeBucketEnd(p)
        THEN [p EXCEPT !.told = @ \union {[num |-> p.num, sample |-> values[k]] : k \in DOMAIN values},
                       !.anomaly = [k \in {} |-> {}]]
      ELSE [p EXCEPT !.anomaly = values]

\* A bucket is kept, or dropped and marked when it is too small.
KeepOrSkip(p, end) ==
  IF end - p.start >= GaugeMinBucketSize THEN [p EXCEPT !.past = @ \union GaugePast(p, end)]
  ELSE IF p.mIsActive
    THEN [p EXCEPT !.skipped = @ \union {[start |-> p.start, end |-> end]}]
  ELSE p

flushGaugeBucket(p, t, next) ==
  LET end == Min({t, GaugeBucketEnd(p)})
  IN  [TellAlerts(KeepOrSkip(p, end), t) EXCEPT !.cur = [k \in {} |-> {}], !.start = next]

flushGaugeIfNeeded(p, t) ==
  LET forward == 1 + (t - GaugeBucketEnd(p)) \div GaugeBucketSize
      next == GaugeBucketEnd(p) + (forward - 1) * GaugeBucketSize
  IN  IF t < GaugeBucketEnd(p) THEN p
      ELSE [flushGaugeBucket(p, t, next) EXCEPT !.num = @ + forward]

flushGauge(p, t) == flushGaugeBucket(flushGaugeIfNeeded(p, t), t, t)

-----------------------------------------------------------------------------
(* Samples *)

gaugeGuardRail(p, k) == k \notin DOMAIN p.cur /\ Cardinality(DOMAIN p.cur) + 1 > gauge.hardLimit

\* MetricProducer::onMatchedLogEventLocked: with a sliced condition the wizard is
\* asked for the dimension of the event.
ConditionOf(p, k) == IF gauge.sliced THEN k \in p.held ELSE p.mCondition = "kTrue"

\* Mutant: a sample of a bucket that is already closed is taken.
SampleTakenLate(p, k, t) == p.mIsActive /\ ConditionOf(p, k)

\* Active, condition true, and not late.
SampleTaken(p, k, t) == p.mIsActive /\ ConditionOf(p, k) /\ t >= p.start

Samples(p, k) == IF k \in DOMAIN p.cur THEN p.cur[k] ELSE << >>

\* RANDOM_ONE_SAMPLE takes the first sample of a bucket only, every type at most
\* mGaugeAtomsPerDimensionLimit.
HasRoomFor(p, k) ==
  /\ ~(gauge.sampling = "RANDOM_ONE_SAMPLE" /\ k \in DOMAIN p.cur)
  /\ Len(Samples(p, k)) < gauge.atomLimit

\* onMatchedLogEventInternalLocked for an atom that is not the trigger.  The
\* dimension gets its entry before its limit is looked at.
onGaugeAtom(p, k, t) ==
  LET q == flushGaugeIfNeeded(p, t)
      sample == [id |-> Cardinality(q.taken) + 1, key |-> k, at |-> t]
  IN  IF ~SampleTaken(p, k, t) THEN p
      ELSE IF gaugeGuardRail(q, k) THEN [q EXCEPT !.mDimensionGuardrailHit = TRUE]
      ELSE IF ~HasRoomFor(q, k) THEN [q EXCEPT !.cur = (k :> Samples(q, k)) @@ @]
      ELSE [q EXCEPT !.cur = (k :> Append(Samples(q, k), sample)) @@ @, !.taken = @ \union {sample}]

AllOf(p, answer, t) == FoldLeft(LAMBDA q, k : IF k \in answer THEN onGaugeAtom(q, k, t) ELSE q,
                                p, [k \in GaugeKeys |-> k])

\* pullAndMatchEventsLocked
pullGauge(p, answer, t) ==
  IF gauge.sampling = "RANDOM_ONE_SAMPLE" /\ DOMAIN p.cur # {} THEN p ELSE AllOf(p, answer, t)

\* The trigger atom pulls, when its own condition holds and it is not late.
onTriggerAtom(p, k, t, answer) ==
  IF SampleTaken(p, k, t) THEN pullGauge(flushGaugeIfNeeded(p, t), answer, t) ELSE p

\* onDataPulled: the data bear the time of the alarm.
onGaugeDataPulled(p, answer, t) == AllOf(p, answer, t)

-----------------------------------------------------------------------------
(* The calls *)

onGaugeConditionChanged(p, condition, t, answer) ==
  LET q == [p EXCEPT !.mCondition = condition]
      r == flushGaugeIfNeeded(q, t)
  IN  IF ~p.mIsActive THEN q
      ELSE IF condition = "kTrue" /\ gauge.pulled
                /\ (isRandomNSamples \/ gauge.sampling = "CONDITION_CHANGE_TO_TRUE")
        THEN pullGauge(r, answer, t)
      ELSE r

onGaugeSlicedConditionMayChange(p, held, t, answer) ==
  LET q == [p EXCEPT !.mCondition = IF held # {} THEN "kTrue" ELSE "kFalse", !.held = held]
      r == flushGaugeIfNeeded(q, t)
  IN  IF ~p.mIsActive THEN q
      ELSE IF held # {} /\ gauge.pulled /\ ~gauge.trigger THEN pullGauge(r, answer, t)
      ELSE r

\* onActiveStateChangedLocked with the parent's flush.
onGaugeActiveStateChanged(p, isActive, t, answer) ==
  LET q == IF isActive THEN p ELSE flushGauge(p, t)
  IN  IF isActive /\ p.mCondition = "kTrue" /\ gauge.pulled /\ isRandomNSamples
        THEN pullGauge(q, answer, t) ELSE q

\* notifyAppUpgradeInternalLocked and onStatsdInitCompleted.
SplitGauge(p, t, answer) ==
  LET q == flushGauge(p, t)
  IN  IF gauge.pulled /\ gauge.sampling = "RANDOM_ONE_SAMPLE" /\ p.mIsActive
        THEN pullGauge(q, answer, t) ELSE q

\* prepareFirstBucketLocked, and the end of onConfigUpdatedLocked.
prepareGauge(p, answer) ==
  IF p.mCondition = "kTrue" /\ p.mIsActive /\ gauge.pulled /\ isRandomNSamples
    THEN pullGauge(p, answer, p.start) ELSE p

-----------------------------------------------------------------------------
(* The system *)

\* The constructor, at time 0.
NewGauge ==
  [mCondition |-> IF gauge.condition \/ gauge.sliced THEN "kUnknown" ELSE "kTrue", held |-> {},
   mIsActive |-> ~gauge.activation, start |-> 0, num |-> 0, cur |-> [k \in {} |-> {}],
   past |-> {}, skipped |-> {}, anomaly |-> [k \in {} |-> {}], told |-> {},
   mDimensionGuardrailHit |-> FALSE, taken |-> {}]

GaugeInit ==
  /\ gauge \in Gauges
  /\ gNow = 0 /\ gLast = 0 /\ gCalls = 0 /\ gPull = GaugeBucketSize
  /\ gSent = [past |-> {}, skipped |-> {}, dropped |-> {}]
  /\ \E answer \in SUBSET GaugeKeys : g = prepareGauge(NewGauge, answer)

Answers == IF gauge.pulled THEN SUBSET GaugeKeys ELSE {{}}
GaugeCall == gCalls < GaugeMaxCalls /\ gCalls' = gCalls + 1
ByGaugeEvent(t) == GaugeCall /\ gLast' = t /\ UNCHANGED <<gauge, gNow, gPull, gSent>>

GaugeTick ==
  /\ gNow < gauge.maxTime /\ gNow' = gNow + 1
  /\ UNCHANGED <<gauge, g, gPull, gLast, gSent, gCalls>>

GaugeEvent ==
  /\ ~gauge.pulled
  /\ \E k \in GaugeKeys, t \in GaugeTimes : g' = onGaugeAtom(g, k, t) /\ ByGaugeEvent(t)

GaugeTrigger ==
  /\ gauge.trigger
  /\ \E k \in GaugeKeys, t \in GaugeTimes, answer \in Answers :
       g' = onTriggerAtom(g, k, t, answer) /\ ByGaugeEvent(t)

GaugeCondition ==
  /\ gauge.condition
  /\ \E c \in {"kTrue", "kFalse"} \ {g.mCondition}, t \in GaugeTimes, answer \in Answers :
       g' = onGaugeConditionChanged(g, c, t, answer) /\ ByGaugeEvent(t)

GaugeSlicedCondition ==
  /\ gauge.sliced
  /\ \E held \in SUBSET GaugeKeys \ {g.held}, t \in GaugeTimes, answer \in Answers :
       g' = onGaugeSlicedConditionMayChange(g, held, t, answer) /\ ByGaugeEvent(t)

GaugeActivate ==
  /\ gauge.activation /\ ~g.mIsActive
  /\ \E t \in GaugeTimes, answer \in Answers :
       /\ g' = onGaugeActiveStateChanged([g EXCEPT !.mIsActive = TRUE], TRUE, t, answer)
       /\ ByGaugeEvent(t)

GaugeExpire ==
  /\ gauge.activation /\ g.mIsActive
  /\ \E t \in GaugeTimes :
       /\ g' = [onGaugeActiveStateChanged(g, FALSE, t, {}) EXCEPT !.mIsActive = FALSE]
       /\ ByGaugeEvent(t)

\* OnAlarmFired; a metric that needs no pull hears of it and does nothing.
GaugePullAlarm ==
  /\ gauge.pulled /\ isRandomNSamples /\ gNow >= gPull /\ GaugeCall
  /\ \E answer \in Answers :
       g' = IF g.mIsActive /\ g.mCondition = "kTrue" THEN onGaugeDataPulled(g, answer, gNow) ELSE g
  /\ gPull' = gPull + GaugeBucketSize * ((gNow - gPull) \div GaugeBucketSize + 1)
  /\ UNCHANGED <<gauge, gNow, gLast, gSent>>

GaugeUpgrade ==
  /\ GaugeCall /\ \E answer \in Answers : g' = SplitGauge(g, gNow, answer)
  /\ UNCHANGED <<gauge, gNow, gPull, gLast, gSent>>

\* A config update that keeps the metric: the report of the update has split the
\* bucket, then the metric pulls as of the start of the new one.
GaugeConfigUpdate ==
  /\ GaugeCall
  /\ LET p == flushGauge(g, gNow)
     IN  \E answer \in Answers : g' = prepareGauge(p, answer)
  /\ UNCHANGED <<gauge, gNow, gPull, gLast, gSent>>

SentWith(p) == [gSent EXCEPT !.past = @ \union p.past, !.skipped = @ \union p.skipped]

Erased(p) == [p EXCEPT !.past = {}, !.skipped = {}, !.mDimensionGuardrailHit = FALSE]

GaugeDump ==
  /\ GaugeCall
  /\ \E partial, erase \in BOOLEAN :
       LET p == IF partial THEN flushGauge(g, gNow) ELSE flushGaugeIfNeeded(g, gNow)
       IN  /\ g' = IF erase THEN Erased(p) ELSE p
           /\ gSent' = IF erase THEN SentWith(p) ELSE gSent
  /\ UNCHANGED <<gauge, gNow, gPull, gLast>>

SamplesIn(buckets) == UNION {Range(b.samples) : b \in buckets}

\* dropDataLocked keeps the buckets that are marked as skipped.
GaugeDropData ==
  /\ gauge.large /\ GaugeCall
  /\ LET p == flushGaugeIfNeeded(g, gNow)
     IN  /\ g' = [p EXCEPT !.past = {}]
         /\ gSent' = [gSent EXCEPT !.dropped = @ \union SamplesIn(p.past)]
  /\ UNCHANGED <<gauge, gNow, gPull, gLast>>

GaugeNext ==
  \/ GaugeTick \/ GaugeEvent \/ GaugeTrigger \/ GaugeCondition \/ GaugeSlicedCondition
  \/ GaugeActivate \/ GaugeExpire \/ GaugePullAlarm \/ GaugeUpgrade \/ GaugeConfigUpdate
  \/ GaugeDump \/ GaugeDropData

-----------------------------------------------------------------------------
GaugeClosed == g.past \union gSent.past
GaugeSkipped == g.skipped \union gSent.skipped
Kept == SamplesIn(GaugeClosed) \union UNION {Range(g.cur[k]) : k \in DOMAIN g.cur} \union gSent.dropped

\* The producer's fields have their types, and the current bucket no more
\* dimensions than the hard limit.
GaugeTypeOK ==
  /\ g.mCondition \in {"kUnknown", "kFalse", "kTrue"} /\ g.mIsActive \in BOOLEAN
  /\ g.start \in Int /\ g.num \in Nat /\ DOMAIN g.cur \subseteq GaugeKeys
  /\ g.mDimensionGuardrailHit \in BOOLEAN /\ Cardinality(DOMAIN g.cur) <= gauge.hardLimit

\* A sample is reported in a bucket whose time it belongs to, whatever splits and
\* late events came before (the late check and the flush before a sample is taken).
SamplesInTheirBucket ==
  \A b \in GaugeClosed : \A s \in Range(b.samples) : b.start <= s.at /\ s.at <= b.end /\ s.key = b.key

\* A bucket has no more samples of a dimension than its sampling type allows, and
\* no sample is in two buckets (pulls by alarm, condition, upgrade and update).
SamplesBounded ==
  /\ \A b \in GaugeClosed :
       Len(b.samples) <= IF gauge.sampling = "RANDOM_ONE_SAMPLE" THEN 1 ELSE gauge.atomLimit
  /\ \A b, c \in GaugeClosed : b # c => Range(b.samples) \intersect Range(c.samples) = {}

\* A sample that was taken is kept until a report takes it, or the bucket it was in
\* is marked as too small ("drop the bucket data and add bucket metadata to
\* mSkippedBuckets"), although only an active metric marks its buckets.
SampleLossMarked ==
  \A s \in g.taken \ Kept : \E b \in GaugeSkipped : b.start <= s.at /\ s.at <= b.end

\* No sample is told to the alerts for two buckets
\* (mCurrentSlicedBucketForAnomaly across partial buckets).
GaugeAlertsToldOnce ==
  \A e, f \in g.told : e.sample = f.sample => e = f

\* The alerts hear of the last part of a bucket that has samples ("for partial
\* buckets, we use the last partial bucket in this full bucket").
GaugeAlertsToldLatest ==
  \A e \in g.told : \A b \in GaugeClosed :
    b.key = e.sample.key /\ b.num = e.num /\ b.samples # << >> => Head(b.samples).id <= e.sample.id

\* Samples are reported in the bucket they were taken in, once, and no more than
\* the sampling type allows.
SamplesSound == GaugeTypeOK /\ SamplesInTheirBucket /\ SamplesBounded
=============================================================================
