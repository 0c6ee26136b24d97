--------------------------- MODULE DurationMetric ---------------------------
(***************************************************************************)
(* metrics/DurationMetricProducer.cpp with its trackers (DurationTracker): *)
(* start, stop and stopAll events, conditions that are sliced or not,      *)
(* activation, state changes, bucket closing and splitting, dumps and      *)
(* config updates.  Calls come in the order of their times; `now' is the   *)
(* time of all calls until the next Tick.                                  *)
(*                                                                         *)
(* conf is the metric of this behaviour: agg ("SUM" or "MAX"), nested,     *)
(* sliced (the condition: "no"; "query", linked by the internal dimension; *)
(* "opt1", linked by the what dimension, a simple predicate; "opt1comb",   *)
(* the same in conjunction with a predicate that is not sliced),           *)
(* activation, alert, states, limit (of dimensions), keys (of its events)  *)
(* and initial (the dimensions that are true when the metric is created).  *)
(***************************************************************************)
EXTENDS DurationTracker, ConditionTimer, Functions

CONSTANTS
  Confs,
  EventKeys,     \* pairs of what dimension and internal dimension
  Statuses,      \* what a config update may do to the alert
  MaxTime,       \* bound: the clock stops here
  MaxOpen,       \* bound: starts that are open for one key
  MaxCalls       \* bound: calls of the producer

Whats == {e[1] : e \in EventKeys}
Keys == {e[2] : e \in EventKeys}
Outputs == Whats \X States

VARIABLES
  conf,
  m,        \* the producer
  wizard,   \* the sliced predicate, the one beside it, what changed in the last evaluation
  stateOf,  \* the state of each what key
  now, calls,
  open,     \* history: starts that are open
  total,    \* history: the time that should be counted for each output key
  gone,     \* history: the durations that left in reports or were dropped
  run,      \* history: the running time of each open key
  ended     \* history: longest run that ended in the current bucket

vars == <<conf, m, wizard, stateOf, now, calls, open, total, gone, run, ended>>

-----------------------------------------------------------------------------
NewAnomalyTracker(on) ==
  [on |-> on, recent |-> -1, vals |-> [e \in Outputs |-> Empty],
   alarm |-> [e \in Outputs |-> 0], due |-> [e \in Outputs |-> 0], ends |-> [e \in Outputs |-> 0]]

\* A method called for the trackers of ws, one after the other.
Each(p, ws, Method(_)) ==
  FoldSet(LAMBDA w, q : LET x == Method([tr |-> q.trackers[w], an |-> q.an])
                        IN  [q EXCEPT !.trackers[w] = x.tr, !.an = x.an], p, ws)

All(p, Method(_)) == Each(p, DOMAIN p.trackers, Method)

flushCurrentBucketLocked(p, t, nextBucketStartTimeNs) ==
  LET lap == LapDuration(p.timer, nextBucketStartTimeNs)
      removed == {w \in DOMAIN p.trackers : Removable(p.trackers[w], p.an, t)}
      flushed == All(p, LAMBDA x : flushCurrentBucket(x, t))
      out(e) == IF e[1] \in DOMAIN p.trackers
                  THEN FlushedBuckets(p.trackers[e[1]], t, lap)[e[2]] ELSE << >>
  IN  [flushed EXCEPT
         !.trackers = Without(@, removed),
         !.past = [e \in Outputs |-> @[e] \o out(e)],
         !.timer = NewBucketStart(@, t, nextBucketStartTimeNs),
         !.start = nextBucketStartTimeNs,
         !.flushes = @ + 1]

\* Mutant of flushIfNeededLocked: the bucket number moves by one only.
flushIfNeededByOne(p, t) ==
  LET end == getCurrentBucketEndTimeNs(p.num)
      n == 1 + ((t - end) \div BucketSize)
  IN  IF end > t THEN p
      ELSE [flushCurrentBucketLocked(p, t, end + (n - 1) * BucketSize) EXCEPT !.num = @ + 1]

flushIfNeededLocked(p, t) ==
  LET end == getCurrentBucketEndTimeNs(p.num)
      n == 1 + ((t - end) \div BucketSize)
  IN  IF end > t THEN p
      ELSE [flushCurrentBucketLocked(p, t, end + (n - 1) * BucketSize) EXCEPT !.num = @ + n]

flushLocked(p, t) == flushCurrentBucketLocked(flushIfNeededLocked(p, t), t, t)

\* The linked dimension of the condition for an event.
CondKey(w, k) == IF conf.sliced = "query" THEN k ELSE w

\* mWizard->query for the event key: the condition of the sliced predicate, and
\* of the one beside it.
Query(wiz, w, k) == wiz.cond[CondKey(w, k)] /\ (conf.sliced = "opt1comb" => wiz.unsliced)

hitGuardRailLocked(p, w) == w \notin DOMAIN p.trackers /\ Cardinality(DOMAIN p.trackers) + 1 > conf.limit

createDurationTracker(p, w) ==
  IF conf.agg = "SUM" THEN NewOring(w, stateOf[w], p.start, p.num) ELSE NewMax(w, p.start, p.num)

handleStartEvent(p, w, k, condition, t) ==
  LET q == IF w \in DOMAIN p.trackers THEN p
           ELSE [p EXCEPT !.trackers = Put(@, w, createDurationTracker(p, w))]
  IN  IF hitGuardRailLocked(p, w) THEN p
      ELSE Each(q, {w}, LAMBDA x : noteStart(x, k, condition, t, conf.sliced # "no", conf.limit))

DropIdle(p, ws) ==
  [p EXCEPT !.trackers =
     Without(@, {w \in ws \cap DOMAIN @ : ~hasAccumulatedDuration(@[w])})]

\* handleMatchedLogEventValuesLocked for a start, a stop and a stopAll.
Flushed(p, t) == IF p.active THEN flushIfNeededLocked(p, t) ELSE p

StartEvent(p, w, k, t) ==
  LET q == Flushed(p, t)
      condition == IF conf.sliced # "no" THEN Query(wizard, w, k) ELSE q.cond
  IN  handleStartEvent(q, w, k, condition /\ q.active, t)

StopEvent(p, w, k, t) ==
  LET q == Flushed(p, t)
  IN  IF w \in DOMAIN q.trackers
        THEN DropIdle(Each(q, {w}, LAMBDA x : noteStop(x, k, t, conf.nested)), {w}) ELSE q

StopAllEvent(p, t) ==
  LET q == Flushed(p, t)
  IN  DropIdle(All(q, LAMBDA x : noteStopAll(x, t)), DOMAIN q.trackers)

\* onSlicedConditionMayChangeLocked_opt1: only the dimensions that changed in the
\* last evaluation, or, if none did, those of the sliced predicate that are true.
onSlicedConditionMayChangeLocked_opt1(p, wiz, t) ==
  LET simple == conf.sliced = "opt1"
      q == IF simple THEN p ELSE [p EXCEPT !.unsliced = wiz.unsliced]
      now_true == simple \/ wiz.unsliced
      trues == wiz.toTrue \cap DOMAIN p.trackers
      falses == wiz.toFalse \cap DOMAIN p.trackers
      held == {w \in DOMAIN p.trackers : wiz.cond[w]}
  IN  IF ~simple /\ ~p.unsliced /\ ~wiz.unsliced THEN p
      ELSE IF wiz.toTrue = {} /\ wiz.toFalse = {}
        THEN Each(q, held, LAMBDA x : onConditionChanged(x, now_true, t))
      ELSE IF now_true
        THEN Each(Each(q, trues, LAMBDA x : onConditionChanged(x, TRUE, t)),
                  falses, LAMBDA x : onConditionChanged(x, FALSE, t))
      ELSE q

onSlicedConditionMayChangeInternalLocked(p, wiz, t) ==
  IF conf.sliced = "query"
    THEN All(p, LAMBDA x :
                  onSlicedConditionMayChange(x, {k \in Keys : Query(wiz, x.tr.what, k)}, t))
    ELSE onSlicedConditionMayChangeLocked_opt1(p, wiz, t)

onSlicedConditionMayChangeLocked(p, wiz, t) ==
  IF p.active THEN onSlicedConditionMayChangeInternalLocked(flushIfNeededLocked(p, t), wiz, t)
  ELSE p

onConditionChangedLocked(p, conditionMet, t) ==
  LET q == [p EXCEPT !.cond = conditionMet]
  IN  IF ~q.active THEN q
      ELSE [All(flushIfNeededLocked(q, t), LAMBDA x : onConditionChanged(x, conditionMet, t))
              EXCEPT !.timer = OnConditionChanged(@, conditionMet, t)]

\* A metric that becomes inactive closes its bucket first.
onActiveStateChangedLocked(p, isActive, t) ==
  LET q == [(IF isActive THEN p ELSE flushLocked(p, t)) EXCEPT !.active = isActive]
      r == IF isActive THEN flushIfNeededLocked(q, t) ELSE q
  IN  IF conf.sliced = "no"
        THEN IF ~q.cond THEN q
             ELSE [All(r, LAMBDA x : onConditionChanged(x, isActive, t))
                     EXCEPT !.timer = OnConditionChanged(@, isActive, t)]
      ELSE IF isActive THEN onSlicedConditionMayChangeInternalLocked(r, wizard, t)
      ELSE All(r, LAMBDA x : onConditionChanged(x, FALSE, t))

StateChange(p, w, newState, t) ==
  LET q == flushIfNeededLocked(p, t)
  IN  Each(q, {w} \cap DOMAIN q.trackers, LAMBDA x : onStateChanged(x, t, newState))

NoBuckets == [e \in Outputs |-> << >>]

\* The constructor: buckets before the start are skipped (there are none here),
\* then a start is faked for each dimension that is already true.
NewProducer ==
  LET p0 == [trackers |-> Empty, start |-> 0, num |-> 0, timer |-> NewConditionTimer(FALSE, 0),
             cond |-> conf.sliced = "no" /\ conf.condition, active |-> ~conf.activation,
             unsliced |-> TRUE, past |-> NoBuckets, flushes |-> 0,
             an |-> NewAnomalyTracker(conf.alert)]
      Started[S \in SUBSET EventKeys] ==
        IF S = {} THEN p0
        ELSE LET e == CHOOSE x \in S : TRUE IN StartEvent(Started[S \ {e}], e[1], e[2], 0)
      p1 == Started[conf.initial]
  IN  [p1 EXCEPT !.timer = OnConditionChanged(@, p1.active /\ p1.cond, 0)]

-----------------------------------------------------------------------------
Holds(w, k) == IF conf.sliced = "no" THEN m.cond ELSE Query(wizard, w, k)
Runs(w, k) == open[w][k] > 0 /\ m.active /\ Holds(w, k)

Init ==
  /\ conf \in Confs
  /\ wizard = [cond |-> [c \in Whats \cup Keys |-> FALSE], unsliced |-> FALSE,
               toTrue |-> {}, toFalse |-> {}]
  /\ stateOf = [w \in Whats |-> CHOOSE s \in States : TRUE]
  /\ m = NewProducer
  /\ now = 0 /\ calls = 0
  /\ open = [w \in Whats |-> [k \in Keys |-> IF <<w, k>> \in conf.initial THEN 1 ELSE 0]]
  /\ total = [e \in Outputs |-> 0] /\ gone = [e \in Outputs |-> 0]
  /\ run = [w \in Whats |-> [k \in Keys |-> 0]] /\ ended = [w \in Whats |-> 0]

Tick ==
  /\ now < MaxTime /\ now' = now + 1
  /\ total' = [e \in Outputs |->
                 total[e] + (IF e[2] = stateOf[e[1]] /\ \E k \in Keys : Runs(e[1], k) THEN 1 ELSE 0)]
  /\ run' = [w \in Whats |-> [k \in Keys |-> run[w][k] + (IF Runs(w, k) THEN 1 ELSE 0)]]
  /\ UNCHANGED <<conf, m, wizard, stateOf, calls, open, gone, ended>>

\* The producer becomes p (flushes: how often this call closed a bucket) and the open starts become o.
Becomes(p, o) ==
  LET over(w) == {run[w][k] : k \in {x \in Keys : open[w][x] > 0 /\ o[w][x] = 0}}
      before(w) == IF p.flushes > 0 THEN 0 ELSE ended[w]
  IN  /\ m' = [p EXCEPT !.flushes = 0]
      /\ open' = o
      /\ run' = [w \in Whats |-> [k \in Keys |-> IF o[w][k] = 0 THEN 0 ELSE run[w][k]]]
      /\ ended' = [w \in Whats |-> Max(over(w) \cup {before(w)})]
      /\ calls < MaxCalls /\ calls' = calls + 1
      /\ UNCHANGED <<conf, now, total>>

Dropped(p, w, k) ==
  hitGuardRailLocked(p, w) \/ (w \in DOMAIN p.trackers /\ TrackerFull(p.trackers[w], k, conf.limit))

onStart(e) ==
  LET w == e[1]
      k == e[2]
  IN  /\ open[w][k] < MaxOpen
      /\ Becomes(StartEvent(m, w, k, now),
                 IF Dropped(Flushed(m, now), w, k) THEN open ELSE [open EXCEPT ![w][k] = @ + 1])
      /\ UNCHANGED <<wizard, stateOf, gone>>

onStop(e) ==
  LET w == e[1]
      k == e[2]
  IN  /\ Becomes(StopEvent(m, w, k, now),
                 [open EXCEPT ![w][k] = IF conf.nested /\ @ > 0 THEN @ - 1 ELSE 0])
      /\ UNCHANGED <<wizard, stateOf, gone>>

onStopAll ==
  /\ Becomes(StopAllEvent(m, now), [w \in Whats |-> [k \in Keys |-> 0]])
  /\ UNCHANGED <<wizard, stateOf, gone>>

\* A condition that is not sliced changes.
onCondition ==
  /\ conf.sliced = "no"
  /\ Becomes(onConditionChangedLocked(m, ~m.cond, now), open)
  /\ UNCHANGED <<wizard, stateOf, gone>>

\* The sliced predicate changes for dimension c.
onSlicedCondition(c) ==
  /\ conf.sliced # "no"
  /\ c \in (IF conf.sliced = "query" THEN Keys ELSE Whats)
  /\ wizard' = [wizard EXCEPT !.cond[c] = ~@,
                  !.toTrue = IF wizard.cond[c] THEN {} ELSE {c},
                  !.toFalse = IF wizard.cond[c] THEN {c} ELSE {}]
  /\ Becomes(onSlicedConditionMayChangeLocked(m, wizard', now), open)
  /\ UNCHANGED <<stateOf, gone>>

\* The predicate beside the sliced one changes; the evaluation of the
\* combination clears what changed in the sliced one.
onUnslicedPart ==
  /\ conf.sliced = "opt1comb"
  /\ wizard' = [wizard EXCEPT !.unsliced = ~@, !.toTrue = {}, !.toFalse = {}]
  /\ Becomes(onSlicedConditionMayChangeLocked(m, wizard', now), open)
  /\ UNCHANGED <<stateOf, gone>>

onActivation ==
  /\ conf.activation
  /\ Becomes(onActiveStateChangedLocked(m, ~m.active, now), open)
  /\ UNCHANGED <<wizard, stateOf, gone>>

onState(w, s) ==
  /\ conf.states /\ s # stateOf[w]
  /\ stateOf' = [stateOf EXCEPT ![w] = s]
  /\ Becomes(StateChange(m, w, s, now), open)
  /\ UNCHANGED <<wizard, gone>>

DurationIn(buckets) == MapThenSumSet(LAMBDA i : buckets[i].mDuration, DOMAIN buckets)

Leaves(p) == gone' = [e \in Outputs |-> gone[e] + DurationIn(p.past[e])]

\* onDumpReportLocked, with or without the current partial bucket and erasure.
onDumpReport(partial, erase) ==
  LET p == IF partial THEN flushLocked(m, now) ELSE flushIfNeededLocked(m, now)
  IN  /\ IF erase THEN Leaves(p) ELSE UNCHANGED gone
      /\ Becomes(IF erase THEN [p EXCEPT !.past = NoBuckets] ELSE p, open)
      /\ UNCHANGED <<wizard, stateOf>>

\* dropDataLocked and clearPastBucketsLocked.
dropData ==
  LET p == flushIfNeededLocked(m, now)
  IN  /\ Leaves(p)
      /\ Becomes([p EXCEPT !.past = NoBuckets], open)
      /\ UNCHANGED <<wizard, stateOf>>

\* A config update in place: the config's data is written to disk, the metric
\* is kept, the alert is kept, replaced, removed or added.
onConfigUpdated(status) ==
  LET p == flushLocked(m, now)
      q == [p EXCEPT !.past = NoBuckets,
                     !.an = IF status = "UPDATE_PRESERVE" THEN p.an
                            ELSE NewAnomalyTracker(status # "none")]
  IN  /\ Leaves(p)
      /\ IF status = "UPDATE_NEW" THEN ~m.an.on ELSE m.an.on
      /\ Becomes(IF status = "none" THEN q ELSE All(q, LAMBDA x : addAnomalyTracker(x, status, now)),
                 open)
      /\ UNCHANGED <<wizard, stateOf>>

\* informAlarmsFired, for an alarm that is due: declared and forgotten.
onAlarmFired(e) ==
  /\ m.an.alarm[e] # 0 /\ m.an.alarm[e] * TicksPerSec <= now
  /\ Becomes([m EXCEPT !.an = [declareAnomaly(@, e, now) EXCEPT !.alarm[e] = 0]], open)
  /\ UNCHANGED <<wizard, stateOf, gone>>

Next ==
  \/ Tick
  \/ \E e \in conf.keys : onStart(e) \/ onStop(e)
  \/ onStopAll
  \/ onCondition
  \/ \E c \in Whats \cup Keys : onSlicedCondition(c)
  \/ onUnslicedPart
  \/ onActivation
  \/ \E w \in Whats, s \in States : onState(w, s)
  \/ \E partial, erase \in BOOLEAN : onDumpReport(partial, erase)
  \/ dropData
  \/ \E s \in Statuses : onConfigUpdated(s)
  \/ \E e \in Outputs : onAlarmFired(e)

Spec == Init /\ [][Next]_vars

-----------------------------------------------------------------------------
Sums == IF conf.agg = "SUM" THEN DOMAIN m.trackers ELSE {}
Maxs == IF conf.agg = "MAX" THEN DOMAIN m.trackers ELSE {}

\* Every member has the values the class gives it; no more trackers than the limit.
TypeOK ==
  /\ conf \in Confs /\ now \in 0 .. MaxTime /\ calls \in 0 .. MaxCalls
  /\ m.num \in Nat /\ m.start \in 0 .. now /\ m.timer \in ConditionTimers
  /\ DOMAIN m.trackers \subseteq Whats /\ Cardinality(DOMAIN m.trackers) <= conf.limit
  /\ \A w \in Sums : \A f \in {m.trackers[w].mStarted, m.trackers[w].mPaused} :
       DOMAIN f \subseteq Keys /\ Range(f) \subseteq Nat \ {0}
  /\ \A e \in Outputs : /\ m.an.ends[e] \in 0 .. RefractoryEnd(MaxTime)
                         /\ m.an.alarm[e] <= RoundUpSec(MaxTime + trigger_if_sum_gt + BucketSize)
                                               + refractory_period_secs

\* Each tracker works out its own bucket number and bucket start from the times
\* it is flushed with; they are the producer's, after any mix of flushes, splits
\* and gaps of several buckets.
InStep ==
  \A w \in DOMAIN m.trackers : m.trackers[w].num = m.num /\ m.trackers[w].start = m.start

Pending(w, s) ==
  IF w \notin Sums THEN 0
  ELSE LET tr == m.trackers[w]
       IN  (IF s \in DOMAIN tr.durs THEN tr.durs[s].d ELSE 0)
             + (IF s = tr.state /\ DOMAIN tr.mStarted # {} THEN now - tr.mLastStartTime ELSE 0)

\* SUM: what left in reports, what waits in past buckets and what the tracker
\* has not flushed is, for each output key, exactly the time during which some
\* key was started, its condition held and the metric was active, in that state.
DurationsConserved ==
  conf.agg = "SUM" =>
    \A w \in Whats, s \in States :
      total[<<w, s>>] = gone[<<w, s>>] + DurationIn(m.past[<<w, s>>]) + Pending(w, s)

\* SUM: a key is started or paused, never both; it has the count of its open
\* starts, and it is among the started ones iff it runs.
RunningExact ==
  conf.agg = "SUM" =>
    \A w \in Whats, k \in Keys :
      LET started == IF w \in Sums THEN m.trackers[w].mStarted ELSE Empty
          paused == IF w \in Sums THEN m.trackers[w].mPaused ELSE Empty
      IN  /\ DOMAIN started \cap DOMAIN paused = {}
          /\ Count(started, k) + Count(paused, k) = open[w][k]
          /\ k \in DOMAIN started <=> Runs(w, k)

\* MAX: a tracker holds the running time of each open key across pauses and
\* buckets, and the longest run that ended in the current bucket.
MaxExact ==
  conf.agg = "MAX" =>
    \A w \in Whats :
      /\ w \notin Maxs => ended[w] = 0 /\ \A k \in Keys : open[w][k] = 0
      /\ w \in Maxs =>
           LET tr == m.trackers[w]
           IN  /\ tr.mDuration = ended[w]
               /\ \A k \in Keys :
                    /\ k \in DOMAIN tr.mInfos <=> open[w][k] > 0
                    /\ k \in DOMAIN tr.mInfos =>
                         LET info == tr.mInfos[k]
                         IN  /\ info.state = "kStarted" <=> Runs(w, k)
                             /\ run[w][k] = info.lastDuration
                                  + (IF Runs(w, k) THEN now - info.lastStartTime ELSE 0)

\* Reported buckets are in order, do not overlap and lie in one bucket of the
\* grid; a SUM is no longer than its bucket, and where the condition was timed it
\* held for at least that long.
BucketsSound ==
  \A e \in Outputs : \A i \in DOMAIN m.past[e] :
    LET b == m.past[e][i]
    IN  /\ b.mBucketStartNs <= b.mBucketEndNs /\ b.mBucketEndNs <= m.start
        /\ b.mBucketEndNs <= getCurrentBucketEndTimeNs(b.mBucketStartNs \div BucketSize)
        /\ i > 1 => m.past[e][i - 1].mBucketEndNs <= b.mBucketStartNs
        /\ conf.agg = "SUM" =>
             /\ b.mDuration <= b.mBucketEndNs - b.mBucketStartNs
             /\ conf.sliced = "no" /\ b.mConditionTrueNs # 0 => b.mDuration <= b.mConditionTrueNs

\* The sum over the window that ends in the bucket of now, running time included,
\* for a metric that is not sliced by state.
WindowWithCurrent(w) ==
  LET tr == m.trackers[w]
      n == now \div BucketSize
      counted == IF tr.state \in DOMAIN tr.durs THEN tr.durs[tr.state].d + tr.durs[tr.state].full ELSE 0
  IN  IF n # tr.num THEN 0
      ELSE WindowSum(m.an, EventKey(tr), n - 1) + counted + (now - tr.mLastStartTime)

\* SUM: while the window sum of a running key has reached the threshold, in the
\* bucket the tracker is in, and no refractory period silences it, an alarm has been
\* set for that moment, rounded up to its second, or before.
AlarmNotLate ==
  m.an.on /\ ~conf.states =>
    \A w \in Sums :
      LET ek == EventKey(m.trackers[w])
      IN  /\ DOMAIN m.trackers[w].mStarted # {}
          /\ WindowWithCurrent(w) >= trigger_if_sum_gt
          /\ ~isInRefractoryPeriod(m.an.ends, now, ek)
          => m.an.due[ek] \in 1 .. RoundUpSec(now)

\* What a duration metric reports and what its trackers still hold is exactly the
\* time that ran, for SUM and for MAX, through conditions, activation and states.
DurationsExact == TypeOK /\ DurationsConserved /\ RunningExact /\ MaxExact

\* Producer and trackers advance their buckets separately, from different calls,
\* and close the same ones (flushIfNeededLocked of both).
BucketsInStep == InStep /\ BucketsSound
=============================================================================
