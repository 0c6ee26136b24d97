--------------------------- MODULE DurationTracker ---------------------------
(***************************************************************************)
(* duration_helper/: the tracker a duration metric keeps for each of its   *)
(* what keys, in its two kinds.  OringDurationTracker (SUM) measures the   *)
(* time during which at least one internal key runs, for each state key;   *)
(* MaxDurationTracker (MAX_SPARSE) the longest run that ended in a bucket. *)
(*                                                                         *)
(* A tracker is a record of its members, a method a function from a pair   *)
(* of tracker and anomaly tracker to such a pair: [tr, an].  Of the        *)
(* DurationAnomalyTracker an holds what is used here: the past buckets of  *)
(* the window that ends at bucket `recent', the alarm of each key and the  *)
(* end of its refractory period, both in seconds (0: none); `due' is       *)
(* history, the time of the last alarm started.  The alert has a           *)
(* refractory period and informs whenever it is declared (the default of   *)
(* probability_of_informing).  What the ring of buckets and the alarms do  *)
(* inside is in AnomalyTracker and AnomalyAlarm.                           *)
(***************************************************************************)
EXTENDS Refractory, Sequences, FiniteSets, FiniteSetsExt, TLC

CONSTANTS
  BucketSize,
  States,             \* values of the state the metric is sliced by
  mNumOfPastBuckets,  \* of the alert
  trigger_if_sum_gt   \* of the alert: the threshold

Empty == << >>
Put(f, k, v) == (k :> v) @@ f
Without(f, S) == [x \in DOMAIN f \ S |-> f[x]]

-----------------------------------------------------------------------------
(* The anomaly tracker. *)

WindowSum(an, ek, last) ==
  MapThenSumSet(LAMBDA b : IF b \in DOMAIN an.vals[ek] THEN an.vals[ek][b] ELSE 0,
                (last - mNumOfPastBuckets + 1) .. last)

getSumOverPastBuckets(an, ek) == WindowSum(an, ek, an.recent)

getPastBucketValue(an, ek, b) ==
  IF b > an.recent - mNumOfPastBuckets /\ b <= an.recent /\ b \in DOMAIN an.vals[ek]
    THEN an.vals[ek][b] ELSE 0

addPastBucket(an, ek, value, b) ==
  IF ~an.on \/ b <= an.recent - mNumOfPastBuckets THEN an
  ELSE [an EXCEPT !.vals[ek] = Put(@, b, value), !.recent = IF b > @ THEN b ELSE @]

declareAnomaly(an, ek, t) ==
  IF isInRefractoryPeriod(an.ends, t, ek) THEN an ELSE [an EXCEPT !.ends[ek] = RefractoryEnd(t)]

\* The window moves up to the bucket before currBucketNum, then its sum decides.
detectAndDeclareAnomaly(an, ek, currBucketNum, value, t) ==
  LET moved == IF currBucketNum > an.recent + 1 THEN [an EXCEPT !.recent = currBucketNum - 1] ELSE an
  IN  IF an.on /\ getSumOverPastBuckets(moved, ek) + value > trigger_if_sum_gt
        THEN declareAnomaly(moved, ek, t)
      ELSE IF an.on THEN moved ELSE an

\* Mutant of RefractoryPeriodEnd: the predictions take no notice of it.
RefractoryPeriodEndIgnored(an, ek) == 0

RefractoryPeriodEnd(an, ek) == an.ends[ek] * TicksPerSec

\* Alarms are in seconds, rounded up.
startAlarm(an, ek, t) ==
  IF isInRefractoryPeriod(an.ends, t, ek) THEN an
  ELSE [an EXCEPT !.alarm[ek] = ((t - 1) \div TicksPerSec) + 1, !.due[ek] = ((t - 1) \div TicksPerSec) + 1]

\* An alarm that should have fired already is declared.
stopAnomalyAlarm(an, ek, t) ==
  LET declared == IF an.alarm[ek] # 0 /\ t >= an.alarm[ek] * TicksPerSec
                    THEN declareAnomaly(an, ek, t) ELSE an
  IN  IF an.on THEN [declared EXCEPT !.alarm[ek] = 0, !.due[ek] = 0] ELSE an

-----------------------------------------------------------------------------
(* Both kinds of trackers. *)

EventKey(tr) == <<tr.what, tr.state>>

getCurrentBucketEndTimeNs(num) == (num + 1) * BucketSize

\* A duration is reported if it is positive; the metrics here have no upload
\* threshold.
durationPassesThreshold(d) == d > 0

BucketsForward(tr, t) ==
  IF t >= getCurrentBucketEndTimeNs(tr.num)
    THEN 1 + ((t - getCurrentBucketEndTimeNs(tr.num)) \div BucketSize) ELSE 0

ClosingTime(tr, t) ==
  IF t >= getCurrentBucketEndTimeNs(tr.num) THEN getCurrentBucketEndTimeNs(tr.num) ELSE t

NextStart(tr, t) ==
  IF BucketsForward(tr, t) > 0
    THEN getCurrentBucketEndTimeNs(tr.num) + (BucketsForward(tr, t) - 1) * BucketSize ELSE t

Bucket(start, end, duration, conditionTrueNs) ==
  [mBucketStartNs |-> start, mBucketEndNs |-> end, mDuration |-> duration,
   mConditionTrueNs |-> conditionTrueNs]

-----------------------------------------------------------------------------
(* OringDurationTracker. *)

NewOring(w, state, start, num) ==
  [kind |-> "SUM", what |-> w, state |-> state, start |-> start, num |-> num,
   mStarted |-> Empty, mPaused |-> Empty, mLastStartTime |-> 0,
   durs |-> Empty,              \* mStateKeyDurationMap
   condKeys |-> {}]             \* the keys of mConditionKeyMap

CurrentDurations(tr) ==
  IF tr.state \in DOMAIN tr.durs THEN tr.durs[tr.state] ELSE [d |-> 0, full |-> 0]

\* The running time up to t is added to the duration of the current state.
Accumulate(tr, t) ==
  [tr EXCEPT !.durs = Put(@, tr.state, [CurrentDurations(tr) EXCEPT !.d = @ + (t - tr.mLastStartTime)])]

\* predictAnomalyTimestampNs of the SUM tracker.  Before[i] is pastNs when the
\* i-th future bucket is looked at.
OringPredict(tr, an, t) ==
  LET ek == EventKey(tr)
      end == getCurrentBucketEndTimeNs(tr.num)
      current == CurrentDurations(tr).d + CurrentDurations(tr).full
      past == current + getSumOverPastBuckets(an, ek)
      oldest == tr.num - mNumOfPastBuckets
      refractory == RefractoryPeriodEnd(an, ek)
      inCurrent == Max({t + trigger_if_sum_gt - past, refractory})
      Before[i \in 1 .. mNumOfPastBuckets + 1] ==
        IF mNumOfPastBuckets = 0 THEN 0
        ELSE IF i = 1 THEN past - getPastBucketValue(an, ek, oldest) + (end - t)
        ELSE Before[i - 1] + BucketSize
               - (IF i - 1 < mNumOfPastBuckets THEN getPastBucketValue(an, ek, oldest + i - 1)
                  ELSE current + (end - t))
      candidate(i) == Max({end + (i - 1) * BucketSize + trigger_if_sum_gt - Before[i], refractory})
      fits == {i \in DOMAIN Before : candidate(i) <= end + i * BucketSize}
  IN  IF inCurrent <= end THEN Max({t, inCurrent})
      ELSE IF fits # {} THEN candidate(Min(fits))
      ELSE Max({t + trigger_if_sum_gt, refractory})

\* startAnomalyAlarm of the SUM tracker.
OringStartAlarm(x, t) ==
  IF x.an.on /\ OringPredict(x.tr, x.an, t) > 0
    THEN [x EXCEPT !.an = startAlarm(@, EventKey(x.tr), OringPredict(x.tr, x.an, t))]
    ELSE x

\* The last key stopped running at t.
OringStopped(x, t) ==
  LET tr == Accumulate(x.tr, t)
      value == CurrentDurations(tr).d + CurrentDurations(tr).full
  IN  [tr |-> tr, an |-> detectAndDeclareAnomaly(x.an, EventKey(tr), tr.num, value, t)]

\* stopAnomalyAlarm, called whenever nothing runs.
OringAlarmOff(x, t) ==
  IF DOMAIN x.tr.mStarted = {} THEN [x EXCEPT !.an = stopAnomalyAlarm(@, EventKey(x.tr), t)] ELSE x

OringHitGuardRail(tr, k, limit) ==
  k \notin tr.condKeys /\ Cardinality(tr.condKeys) + 1 > limit

Count(f, k) == IF k \in DOMAIN f THEN f[k] ELSE 0

OringNoteStart(x, k, condition, t, sliced, limit) ==
  LET first == condition /\ DOMAIN x.tr.mStarted = {}
      y == IF first THEN OringStartAlarm([x EXCEPT !.tr.mLastStartTime = t], t) ELSE x
      z == IF condition THEN [y EXCEPT !.tr.mStarted = Put(@, k, Count(@, k) + 1)]
           ELSE [y EXCEPT !.tr.mPaused = Put(@, k, Count(@, k) + 1)]
  IN  IF OringHitGuardRail(x.tr, k, limit) THEN x
      ELSE IF sliced THEN [z EXCEPT !.tr.condKeys = @ \cup {k}] ELSE z

\* One stop of key k in a map of counts, and whether it removes the key.
Removes(f, k, nested, stopAll) == k \in DOMAIN f /\ (stopAll \/ ~nested \/ f[k] - 1 <= 0)
OneLess(f, k, nested, stopAll) ==
  IF Removes(f, k, nested, stopAll) THEN Without(f, {k})
  ELSE IF k \in DOMAIN f THEN [f EXCEPT ![k] = @ - 1] ELSE f

OringNoteStop(x, k, t, nested, stopAll) ==
  LET started == OneLess(x.tr.mStarted, k, nested, stopAll)
      gone == Removes(x.tr.mStarted, k, nested, stopAll)
                \/ Removes(x.tr.mPaused, k, nested, stopAll)
      y == [x EXCEPT !.tr.mStarted = started,
                     !.tr.mPaused = OneLess(@, k, nested, stopAll),
                     !.tr.condKeys = IF gone THEN @ \ {k} ELSE @]
  IN  OringAlarmOff(IF k \in DOMAIN x.tr.mStarted /\ DOMAIN started = {}
                      THEN OringStopped(y, t) ELSE y, t)

OringNoteStopAll(x, t) ==
  LET y == IF DOMAIN x.tr.mStarted # {} THEN OringStopped(x, t) ELSE x
  IN  OringAlarmOff([y EXCEPT !.tr.mStarted = Empty, !.tr.mPaused = Empty, !.tr.condKeys = {}], t)

\* mStarted.insert(mPaused) and the other way round: keys that are there keep
\* their count.
Merged(f, g) == f @@ g

OringOnConditionChanged(x, condition, t) ==
  LET tr == x.tr
      resumed == IF DOMAIN tr.mStarted = {}
                   THEN OringStartAlarm([x EXCEPT !.tr.mLastStartTime = t], t) ELSE x
      y == IF condition
             THEN IF DOMAIN tr.mPaused = {} THEN x
                  ELSE [resumed EXCEPT !.tr.mStarted = Merged(@, tr.mPaused), !.tr.mPaused = Empty]
             ELSE IF DOMAIN tr.mStarted = {} THEN x
                  ELSE [OringStopped(x, t) EXCEPT !.tr.mPaused = Merged(@, tr.mStarted),
                                                 !.tr.mStarted = Empty]
  IN  OringAlarmOff(y, t)

\* held: the keys whose condition is true, as the wizard answers now.
OringOnSlicedConditionMayChange(x, held, t) ==
  LET tr == x.tr
      toPaused == {k \in DOMAIN tr.mStarted \cap tr.condKeys : k \notin held}
      toStarted == {k \in DOMAIN tr.mPaused \cap tr.condKeys : k \in held}
      stays == DOMAIN tr.mStarted \ toPaused
      y == IF DOMAIN tr.mStarted # {} /\ stays = {} THEN OringStopped(x, t) ELSE x
      y1 == [y EXCEPT !.tr.mStarted = Without(@, toPaused)]
      z == IF stays = {} /\ toStarted # {}
             THEN OringStartAlarm([y1 EXCEPT !.tr.mLastStartTime = t], t) ELSE y1
  IN  OringAlarmOff([z EXCEPT
        !.tr.mStarted = Merged(@, [k \in toStarted |-> tr.mPaused[k]]),
        !.tr.mPaused = Merged(Without(@, toStarted), [k \in toPaused |-> tr.mStarted[k]])], t)

OringOnStateChanged(x, t, newState) ==
  LET y == IF DOMAIN x.tr.mStarted = {} THEN x
           ELSE [x EXCEPT !.tr = [Accumulate(x.tr, t) EXCEPT !.mLastStartTime = t]]
  IN  [y EXCEPT !.tr.state = newState]

OringHasAccumulated(tr) ==
  DOMAIN tr.mStarted # {} \/ DOMAIN tr.mPaused # {} \/ DOMAIN tr.durs # {}

\* The tracker when the bucket closes at t, with the running time counted.
OringClosed(tr, t) ==
  IF DOMAIN tr.mStarted # {} THEN Accumulate(tr, ClosingTime(tr, t)) ELSE tr

\* Mutant of OringBuckets: the buckets that were skipped are not filled.
OringBucketsUnfilled(tr, t, conditionTrueNs) ==
  LET closed == OringClosed(tr, t)
  IN  [s \in States |->
         IF s \in DOMAIN closed.durs /\ durationPassesThreshold(closed.durs[s].d)
           THEN <<Bucket(tr.start, ClosingTime(tr, t), closed.durs[s].d, conditionTrueNs)>>
           ELSE << >>]

\* What flushCurrentBucket puts out for each state key: the bucket that closes
\* and, if something runs, a whole bucket for each one that was skipped.
OringBuckets(tr, t, conditionTrueNs) ==
  LET closed == OringClosed(tr, t)
      filled == IF DOMAIN tr.mStarted = {} THEN 0 ELSE Max({BucketsForward(tr, t) - 1, 0})
      end == getCurrentBucketEndTimeNs(tr.num)
  IN  [s \in States |->
         (IF s \in DOMAIN closed.durs /\ durationPassesThreshold(closed.durs[s].d)
            THEN <<Bucket(tr.start, ClosingTime(tr, t), closed.durs[s].d, conditionTrueNs)>>
            ELSE << >>)
         \o (IF s = tr.state
               THEN [i \in 1 .. filled |->
                       Bucket(end + (i - 1) * BucketSize, end + i * BucketSize, BucketSize, 0)]
               ELSE << >>)]

\* What a full bucket and the skipped ones tell the anomaly tracker.  Every state
\* key is given the full duration of the current one.
OringTellAnomaly(tr, an, t) ==
  LET closed == OringClosed(tr, t)
      n == BucketsForward(tr, t)
      whole == CurrentDurations(closed).full + CurrentDurations(closed).d
      AddAll[S \in SUBSET States] ==
        IF S = {} THEN an
        ELSE LET s == CHOOSE e \in S : TRUE
             IN  addPastBucket(AddAll[S \ {s}], <<tr.what, s>>, whole, tr.num)
      Fill[i \in 0 .. n] ==
        IF i <= 1 THEN AddAll[DOMAIN closed.durs]
        ELSE addPastBucket(Fill[i - 1], EventKey(tr), BucketSize, tr.num + i - 1)
  IN  IF n = 0 THEN an
      ELSE IF DOMAIN tr.mStarted # {} THEN Fill[n]
      ELSE IF n >= 2 THEN addPastBucket(Fill[1], EventKey(tr), 0, tr.num + n - 1) ELSE Fill[1]

\* flushCurrentBucket: tracker and anomaly tracker afterwards.
OringFlush(x, t) ==
  LET tr == x.tr
      closed == OringClosed(tr, t)
      keep == x.an.on /\ BucketsForward(tr, t) = 0
  IN  [tr |-> [tr EXCEPT
         !.durs = IF keep THEN [s \in DOMAIN closed.durs |->
                                  [d |-> 0, full |-> closed.durs[s].full + closed.durs[s].d]]
                  ELSE Empty,
         !.start = NextStart(tr, t), !.num = @ + BucketsForward(tr, t),
         !.mLastStartTime = NextStart(tr, t)],
       an |-> OringTellAnomaly(tr, x.an, t)]

\* flushCurrentBucket returns true: the owner may remove the tracker.
OringRemovable(tr, an, t) ==
  DOMAIN tr.mStarted = {} /\ DOMAIN tr.mPaused = {} /\ (BucketsForward(tr, t) > 0 \/ ~an.on)

-----------------------------------------------------------------------------
(* MaxDurationTracker.  A key that stopped is not in mInfos any more. *)

NewMax(w, start, num) ==
  [kind |-> "MAX", what |-> w, state |-> CHOOSE s \in States : TRUE, start |-> start,
   num |-> num, mInfos |-> Empty, mDuration |-> 0]

StartedInfos(tr) == {k \in DOMAIN tr.mInfos : tr.mInfos[k].state = "kStarted"}

MaxPredict(tr, an, t) ==
  LET elapsed == {tr.mInfos[k].lastDuration + (t - tr.mInfos[k].lastStartTime) : k \in StartedInfos(tr)}
  IN  Max({t + trigger_if_sum_gt - Max(elapsed \cup {0}), RefractoryPeriodEnd(an, EventKey(tr))})

MaxStartAlarm(x, t) ==
  IF x.an.on /\ MaxPredict(x.tr, x.an, t) > 0
    THEN [x EXCEPT !.an = startAlarm(@, EventKey(x.tr), MaxPredict(x.tr, x.an, t))] ELSE x

\* A started key stops or pauses: the alarm is set anew for what still runs.
MaxAlarmAnew(x, t) ==
  LET y == [x EXCEPT !.an = stopAnomalyAlarm(@, EventKey(x.tr), t)]
  IN  IF StartedInfos(x.tr) = {} THEN y ELSE MaxStartAlarm(y, t)

MaxHitGuardRail(tr, k, limit) ==
  k \notin DOMAIN tr.mInfos /\ Cardinality(DOMAIN tr.mInfos) + 1 > limit

MaxNoteStart(x, k, condition, t, limit) ==
  LET known == k \in DOMAIN x.tr.mInfos
      new == [state |-> IF condition THEN "kStarted" ELSE "kPaused", startCount |-> 1,
              lastStartTime |-> IF condition THEN t ELSE 0, lastDuration |-> 0]
      y == [x EXCEPT !.tr.mInfos = IF known THEN [@ EXCEPT ![k].startCount = @ + 1]
                                   ELSE Put(@, k, new)]
  IN  IF MaxHitGuardRail(x.tr, k, limit) THEN x
      ELSE IF condition /\ ~known THEN MaxStartAlarm(y, t) ELSE y

MaxNoteStop(x, k, t, nested, forceStop) ==
  LET info == x.tr.mInfos[k]
      ends == forceStop \/ ~nested \/ info.startCount - 1 <= 0
      run == info.lastDuration + (IF info.state = "kStarted" THEN t - info.lastStartTime ELSE 0)
      y == [x EXCEPT !.tr.mInfos = Without(@, {k}),
                     !.tr.mDuration = IF run > @ THEN run ELSE @]
  IN  IF k \notin DOMAIN x.tr.mInfos THEN x
      ELSE IF ~ends THEN [x EXCEPT !.tr.mInfos[k].startCount = @ - 1]
      ELSE IF info.state = "kStarted" THEN MaxAlarmAnew(y, t) ELSE y

\* Several keys, one after the other; where only the last alarm set counts.
MaxNoteStopAll(x, t) ==
  FoldSet(LAMBDA k, y : MaxNoteStop(y, k, t, FALSE, TRUE), x, DOMAIN x.tr.mInfos)

noteConditionChanged(x, k, conditionMet, t) ==
  LET info == x.tr.mInfos[k]
  IN  IF info.state = "kStarted" /\ ~conditionMet
        THEN MaxAlarmAnew([x EXCEPT !.tr.mInfos[k] =
               [@ EXCEPT !.state = "kPaused", !.lastDuration = @ + (t - info.lastStartTime)]], t)
      ELSE IF info.state = "kPaused" /\ conditionMet
        THEN MaxStartAlarm([x EXCEPT !.tr.mInfos[k] =
               [@ EXCEPT !.state = "kStarted", !.lastStartTime = t]], t)
      ELSE x

MaxOnSlicedConditionMayChange(x, held, t) ==
  FoldSet(LAMBDA k, y : noteConditionChanged(y, k, k \in held, t), x, DOMAIN x.tr.mInfos)

MaxOnConditionChanged(x, condition, t) ==
  FoldSet(LAMBDA k, y : noteConditionChanged(y, k, condition, t), x, DOMAIN x.tr.mInfos)

MaxHasAccumulated(tr) == DOMAIN tr.mInfos # {} \/ tr.mDuration # 0

MaxBuckets(tr, t, conditionTrueNs) ==
  [s \in States |->
     IF s = tr.state /\ durationPassesThreshold(tr.mDuration)
       THEN <<Bucket(tr.start, ClosingTime(tr, t), tr.mDuration, conditionTrueNs)>> ELSE << >>]

MaxFlush(x, t) ==
  [x EXCEPT !.tr = [@ EXCEPT !.start = NextStart(x.tr, t),
                             !.num = @ + BucketsForward(x.tr, t), !.mDuration = 0]]

MaxRemovable(tr) == DOMAIN tr.mInfos = {}

-----------------------------------------------------------------------------
(* The virtual methods. *)

noteStart(x, k, condition, t, sliced, limit) ==
  IF x.tr.kind = "SUM" THEN OringNoteStart(x, k, condition, t, sliced, limit)
  ELSE MaxNoteStart(x, k, condition, t, limit)

TrackerFull(tr, k, limit) ==
  IF tr.kind = "SUM" THEN OringHitGuardRail(tr, k, limit) ELSE MaxHitGuardRail(tr, k, limit)

noteStop(x, k, t, nested) ==
  IF x.tr.kind = "SUM" THEN OringNoteStop(x, k, t, nested, FALSE)
  ELSE MaxNoteStop(x, k, t, nested, FALSE)

noteStopAll(x, t) == IF x.tr.kind = "SUM" THEN OringNoteStopAll(x, t) ELSE MaxNoteStopAll(x, t)

onConditionChanged(x, condition, t) ==
  IF x.tr.kind = "SUM" THEN OringOnConditionChanged(x, condition, t)
  ELSE MaxOnConditionChanged(x, condition, t)

onSlicedConditionMayChange(x, held, t) ==
  IF x.tr.kind = "SUM" THEN OringOnSlicedConditionMayChange(x, held, t)
  ELSE MaxOnSlicedConditionMayChange(x, held, t)

onStateChanged(x, t, newState) ==
  IF x.tr.kind = "SUM" THEN OringOnStateChanged(x, t, newState) ELSE x

hasAccumulatedDuration(tr) ==
  IF tr.kind = "SUM" THEN OringHasAccumulated(tr) ELSE MaxHasAccumulated(tr)

hasStartedDuration(tr) ==
  IF tr.kind = "SUM" THEN DOMAIN tr.mStarted # {} ELSE StartedInfos(tr) # {}

predictAnomalyTimestampNs(tr, an, t) ==
  IF tr.kind = "SUM" THEN OringPredict(tr, an, t) ELSE MaxPredict(tr, an, t)

flushCurrentBucket(x, t) == IF x.tr.kind = "SUM" THEN OringFlush(x, t) ELSE MaxFlush(x, t)

FlushedBuckets(tr, t, conditionTrueNs) ==
  IF tr.kind = "SUM" THEN OringBuckets(tr, t, conditionTrueNs)
  ELSE MaxBuckets(tr, t, conditionTrueNs)

Removable(tr, an, t) ==
  IF tr.kind = "SUM" THEN OringRemovable(tr, an, t) ELSE MaxRemovable(tr)

\* addAnomalyTracker: an alert is attached by a config update.
addAnomalyTracker(x, updateStatus, t) ==
  LET alarmTimeNs == predictAnomalyTimestampNs(x.tr, x.an, t)
  IN  IF updateStatus \in {"UPDATE_NEW", "UPDATE_PRESERVE"}
           /\ (alarmTimeNs <= t \/ hasStartedDuration(x.tr))
        THEN [x EXCEPT !.an = startAlarm(@, EventKey(x.tr), Max({alarmTimeNs, t}))]
        ELSE x
=============================================================================
