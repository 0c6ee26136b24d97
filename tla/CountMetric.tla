----------------------------- MODULE CountMetric -----------------------------
(***************************************************************************)
(* A count metric of statsd: metrics/MetricProducer.{h,cpp} together with  *)
(* metrics/CountMetricProducer.cpp.  One producer, every public operation  *)
(* that changes its state as one action (each runs under mMutex).          *)
(*                                                                         *)
(* metric is the part of the producer that closing a bucket rewrites.      *)
(* Closing a bucket is written as a function on that record, because the   *)
(* operations of the code chain two closings (flushLocked).                *)
(*                                                                         *)
(* Dimension keys are model values; a counter map is a function from Keys  *)
(* to Nat in which 0 stands for "no entry" (entries are created with 1).   *)
(* Times are elapsed time in whatever unit.  now is the latest time any    *)
(* call has carried.  A call that processes a log event carries the time   *)
(* at which the event was logged: it waited in the LogEventQueue, so that  *)
(* time is behind now when a dump or a split came in between (Lateness).   *)
(* hist, condReported and condTotal are history: no action reads them,     *)
(* except that events bounds the number of counted events.                 *)
(***************************************************************************)
EXTENDS Integers, Sequences, FiniteSets, ConditionTimer

CONSTANTS
  Keys,                 \* dimension keys
  BucketSize,           \* mBucketSizeNs
  TimeBase,             \* mTimeBaseNs
  StartTime,            \* constructor argument startTimeNs
  DimensionHardLimit,   \* mDimensionHardLimit
  InitialCondition,     \* kTrue when the metric has no condition
  HasActivation,        \* mEventActivationMap is not empty
  PersistedActivation,  \* an activation was saved before statsd restarted
  HasAnomalyTracker,    \* mAnomalyTrackers is not empty
  SplitForAppUpgrade,   \* mSplitBucketForAppUpgrade
  UploadThreshold,      \* mUploadThreshold: [cmp |-> ..., value |-> ...]
  Reasons,              \* DataCorruptedReasons that occur
  Lateness,             \* a queued log event may be this much older than now
  MaxTime,              \* bound: no call carries a later time
  MaxEvents             \* bound: number of log events that are counted

ConditionStates == {"kUnknown", "kFalse", "kTrue"}
Comparisons == {"none", "kLtInt", "kGtInt", "kLteInt", "kGteInt"}

ASSUME KeysAssumption == IsFiniteSet(Keys)
ASSUME BucketSizeAssumption == BucketSize \in Nat \ {0}
ASSUME TimeAssumption ==
  /\ TimeBase \in Nat /\ StartTime \in Nat /\ MaxTime \in Nat
  /\ TimeBase <= StartTime /\ StartTime <= MaxTime
  /\ Lateness \in Nat /\ MaxEvents \in Nat
ASSUME LimitAssumption == DimensionHardLimit \in Nat \ {0}
ASSUME ConfigAssumption ==
  /\ InitialCondition \in ConditionStates
  /\ HasActivation \in BOOLEAN /\ PersistedActivation \in BOOLEAN
  /\ HasAnomalyTracker \in BOOLEAN
  /\ SplitForAppUpgrade \in BOOLEAN
  /\ UploadThreshold \in [cmp : Comparisons, value : Int]
  /\ Reasons \subseteq {"SOCKET_LOSS", "EVENT_QUEUE_OVERFLOW"}

VARIABLES
  metric,       \* the current bucket and the past ones
  mCondition, mIsActive,
  mDimensionGuardrailHit,
  corrupted,    \* mDataCorruptedDueTo{SocketLoss,QueueOverflow}
  fresh,        \* no call yet since construction
  now, logTime, \* the latest time of any call, of a log event's call
  hist, condReported, condTotal   \* history, see InitHist

vars == <<metric, mCondition, mIsActive, mDimensionGuardrailHit, corrupted, fresh, now, logTime,
          hist, condReported, condTotal>>

-----------------------------------------------------------------------------
Zero == [k \in Keys |-> 0]
Plus(f, g) == [k \in Keys |-> f[k] + g[k]]
Size(counters) == Cardinality({k \in Keys : counters[k] # 0})

Severities == 0 .. 2          \* kNone, kResetOnDump, kUnrecoverable
kNone == 0
kResetOnDump == 1
kUnrecoverable == 2

\* What one bucket of a key adds to mTotalDataSize.  The sizes only have to
\* tell a full bucket (bucket number) from a partial one (start and end).
computeBucketSize(isFullBucket, isFirstBucket) ==
  (IF isFullBucket THEN 1 ELSE 4) + (IF isFirstBucket THEN 2 ELSE 0)

getCurrentBucketEndTimeNs(m) == TimeBase + (m.mCurrentBucketNum + 1) * BucketSize

countPassesThreshold(count) ==
  CASE UploadThreshold.cmp = "none"    -> TRUE
    [] UploadThreshold.cmp = "kLtInt"  -> count < UploadThreshold.value
    [] UploadThreshold.cmp = "kGtInt"  -> count > UploadThreshold.value
    [] UploadThreshold.cmp = "kLteInt" -> count <= UploadThreshold.value
    [] UploadThreshold.cmp = "kGteInt" -> count >= UploadThreshold.value

\* The keys of the current bucket that become a past bucket when it closes.
Uploaded(m) ==
  {k \in Keys : m.mCurrentSlicedCounter[k] # 0
                  /\ countPassesThreshold(m.mCurrentSlicedCounter[k])}

\* Mutant of ClosedBucket: the end is always the end of the period.
ClosedBucketFullEnd(m, k, eventTimeNs, nextBucketStartTimeNs) ==
  [mBucketStartNs |-> m.mCurrentBucketStartTimeNs,
   mBucketEndNs |-> getCurrentBucketEndTimeNs(m), mCount |-> m.mCurrentSlicedCounter[k],
   mConditionTrueNs |-> LapDuration(m.mConditionTimer, nextBucketStartTimeNs)]

\* The bucket that flushCurrentBucketLocked appends for key k.
ClosedBucket(m, k, eventTimeNs, nextBucketStartTimeNs) ==
  LET end == getCurrentBucketEndTimeNs(m)
  IN  [mBucketStartNs   |-> m.mCurrentBucketStartTimeNs,
       mBucketEndNs     |-> IF eventTimeNs < end THEN eventTimeNs ELSE end,
       mCount           |-> m.mCurrentSlicedCounter[k],
       mConditionTrueNs |-> LapDuration(m.mConditionTimer, nextBucketStartTimeNs)]

FlushSize(m, eventTimeNs) ==
  LET isFull == eventTimeNs < getCurrentBucketEndTimeNs(m)
      first == {k \in Uploaded(m) : m.mPastBuckets[k] = << >>}
  IN  Cardinality(first) * computeBucketSize(isFull, TRUE)
        + Cardinality(Uploaded(m) \ first) * computeBucketSize(isFull, FALSE)

\* The bucket is handed to the anomaly trackers rather than accumulated.
SendsToTrackers(m, eventTimeNs) ==
  HasAnomalyTracker /\ eventTimeNs > getCurrentBucketEndTimeNs(m)

\* The bucket closes, a new one starts; its number is the caller's business.
flushCurrentBucketLocked(m, eventTimeNs, nextBucketStartTimeNs) ==
  [mCurrentBucketStartTimeNs |-> nextBucketStartTimeNs,
   mCurrentBucketNum |-> m.mCurrentBucketNum,
   mConditionTimer |-> NewBucketStart(m.mConditionTimer, eventTimeNs, nextBucketStartTimeNs),
   mCurrentSlicedCounter |-> Zero,
   mCurrentFullCounters |->
     IF ~HasAnomalyTracker THEN m.mCurrentFullCounters
     ELSE IF SendsToTrackers(m, eventTimeNs) THEN Zero
     ELSE Plus(m.mCurrentFullCounters, m.mCurrentSlicedCounter),
   mPastBuckets |->
     [k \in Keys |->
        IF k \in Uploaded(m)
          THEN Append(m.mPastBuckets[k],
                      ClosedBucket(m, k, eventTimeNs, nextBucketStartTimeNs))
          ELSE m.mPastBuckets[k]],
   mTotalDataSize |-> m.mTotalDataSize + FlushSize(m, eventTimeNs)]

numBucketsForward(m, eventTimeNs) ==
  1 + ((eventTimeNs - getCurrentBucketEndTimeNs(m)) \div BucketSize)

nextBucketNs(m, eventTimeNs) ==
  getCurrentBucketEndTimeNs(m) + (numBucketsForward(m, eventTimeNs) - 1) * BucketSize

flushIfNeededLocked(m, eventTimeNs) ==
  IF eventTimeNs < getCurrentBucketEndTimeNs(m)
    THEN m
    ELSE [flushCurrentBucketLocked(m, eventTimeNs, nextBucketNs(m, eventTimeNs))
            EXCEPT !.mCurrentBucketNum = @ + numBucketsForward(m, eventTimeNs)]

flushLocked(m, eventTimeNs) ==
  flushCurrentBucketLocked(flushIfNeededLocked(m, eventTimeNs), eventTimeNs, eventTimeNs)

\* Mutant of resetDataCorruptionFlags: the severity is not looked at.
resetAllCorruptionFlags == [r \in Reasons |-> kNone]

resetDataCorruptionFlags ==
  [r \in Reasons |-> IF corrupted[r] # kUnrecoverable THEN kNone ELSE corrupted[r]]

determineCorruptionSeverity(atomType) ==
  IF atomType = "kWhat" THEN kResetOnDump ELSE kUnrecoverable

-----------------------------------------------------------------------------
(***************************************************************************)
(* History: accepted[n][k] counts the events taken for key k while bucket  *)
(* n was current; delivered and discarded what left the producer, in a     *)
(* report or without one; handed what the anomaly trackers got for bucket  *)
(* n; events is the number of events taken.  condReported is the condition *)
(* time of all laps closed so far, condTotal the time the metric was       *)
(* active with its condition true.                                         *)
(***************************************************************************)
BucketNums == 0 .. ((MaxTime - TimeBase) \div BucketSize)

InitHist ==
  [accepted  |-> [n \in BucketNums |-> Zero], delivered |-> Zero, discarded |-> Zero,
   handed    |-> [n \in BucketNums |-> Zero], events |-> 0]

HistFlushCurrent(h, m, eventTimeNs) ==
  [h EXCEPT
     !.discarded = [k \in Keys |-> @[k] + (IF k \in Uploaded(m) THEN 0
                                           ELSE m.mCurrentSlicedCounter[k])],
     !.handed = IF SendsToTrackers(m, eventTimeNs)
                  THEN [@ EXCEPT ![m.mCurrentBucketNum] =
                          Plus(m.mCurrentFullCounters, m.mCurrentSlicedCounter)]
                  ELSE @]

HistFlushIfNeeded(h, m, t) ==
  IF t < getCurrentBucketEndTimeNs(m) THEN h
  ELSE HistFlushCurrent(h, m, t)

HistFlush(h, m, t) ==
  HistFlushCurrent(HistFlushIfNeeded(h, m, t), flushIfNeededLocked(m, t), t)

\* The condition time of the laps that flushIfNeededLocked and flushLocked close.
LapIfNeeded(m, t) ==
  IF t < getCurrentBucketEndTimeNs(m) THEN 0
  ELSE LapDuration(m.mConditionTimer, nextBucketNs(m, t))

LapsOfFlush(m, t) ==
  LapIfNeeded(m, t) + LapDuration(flushIfNeededLocked(m, t).mConditionTimer, t)

\* Time passes to now', laps are closed; the condition counts while the metric
\* is active.
CountConditionTime(laps) ==
  /\ condReported' = condReported + laps
  /\ condTotal' = IF mIsActive /\ mCondition = "kTrue"
                    THEN condTotal + (now' - now) ELSE condTotal

\* The total of a sequence of past buckets.
CountIn(buckets) ==
  LET sum[i \in 0 .. Len(buckets)] ==
        IF i = 0 THEN 0 ELSE sum[i - 1] + buckets[i].mCount
  IN  sum[Len(buckets)]

PastCounts(m) == [k \in Keys |-> CountIn(m.mPastBuckets[k])]

-----------------------------------------------------------------------------
\* The constructor: buckets up to startTimeNs are skipped, the first bucket is
\* partial, and the timer starts if the metric is active and its condition true.
NewMetric ==
  LET m0 == [mCurrentBucketStartTimeNs |-> TimeBase, mCurrentBucketNum |-> 0,
             mConditionTimer |-> NewConditionTimer(FALSE, TimeBase),
             mCurrentSlicedCounter |-> Zero, mCurrentFullCounters |-> Zero,
             mPastBuckets |-> [k \in Keys |-> << >>], mTotalDataSize |-> 0]
      m1 == flushIfNeededLocked(m0, StartTime)
  IN  [m1 EXCEPT
         !.mCurrentBucketStartTimeNs = StartTime,
         !.mConditionTimer =
            OnConditionChanged(NewBucketStart(@, StartTime, StartTime),
                               ~HasActivation /\ InitialCondition = "kTrue", StartTime)]

Init ==
  /\ metric = NewMetric
  /\ mCondition = InitialCondition
  /\ mIsActive = ~HasActivation
  /\ mDimensionGuardrailHit = FALSE
  /\ corrupted = [r \in Reasons |-> kNone]
  /\ fresh = TRUE
  /\ now = StartTime /\ logTime = StartTime
  /\ hist = InitHist /\ condReported = 0 /\ condTotal = 0

\* A call by a binder thread, with the current time.
Called(t) ==
  /\ t \in now .. MaxTime
  /\ now' = t
  /\ fresh' = FALSE
  /\ UNCHANGED logTime

\* A call by the thread that processes log events, in the order they were logged.
CalledForEvent(t) ==
  /\ t \in logTime .. MaxTime /\ t >= now - Lateness
  /\ now' = IF t > now THEN t ELSE now
  /\ logTime' = t
  /\ fresh' = FALSE

\* hitGuardRailLocked: no room for another key in the current bucket.
HitGuardRail(m, k) ==
  m.mCurrentSlicedCounter[k] = 0 /\ Size(m.mCurrentSlicedCounter) + 1 > DimensionHardLimit

onMatchedLogEvent(k, t) ==
  /\ hist.events < MaxEvents
  /\ CalledForEvent(t)
  /\ UNCHANGED <<mCondition, mIsActive, corrupted>>
  /\ IF ~mIsActive \/ t < TimeBase
       THEN UNCHANGED <<metric, mDimensionGuardrailHit, hist>> /\ CountConditionTime(0)
       ELSE LET m == flushIfNeededLocked(metric, t)
                h == HistFlushIfNeeded(hist, metric, t)
                counts == mCondition = "kTrue"
                full == HitGuardRail(m, k)
            IN  /\ CountConditionTime(LapIfNeeded(metric, t))
                /\ IF counts /\ ~full
                     THEN /\ metric' = [m EXCEPT !.mCurrentSlicedCounter[k] = @ + 1]
                          /\ hist' = [h EXCEPT !.accepted[m.mCurrentBucketNum][k] = @ + 1,
                                              !.events = @ + 1]
                          /\ UNCHANGED mDimensionGuardrailHit
                     ELSE /\ metric' = m
                          /\ hist' = h
                          /\ mDimensionGuardrailHit' = (mDimensionGuardrailHit \/ counts)

\* Mutant of onConditionChanged: a condition that is not met is stored as not
\* evaluated.
onConditionChangedUnevaluated(conditionMet, t) ==
  /\ CalledForEvent(t)
  /\ mCondition' = IF conditionMet THEN "kTrue" ELSE "kNotEvaluated"
  /\ metric' = IF mIsActive
                 THEN [metric EXCEPT !.mConditionTimer =
                         OnConditionChanged(@, conditionMet, t)]
                 ELSE metric
  /\ CountConditionTime(0)
  /\ UNCHANGED <<mIsActive, mDimensionGuardrailHit, corrupted, hist>>

onConditionChanged(conditionMet, t) ==
  /\ CalledForEvent(t)
  /\ mCondition' = IF conditionMet THEN "kTrue" ELSE "kFalse"
  /\ metric' = IF mIsActive
                 THEN [metric EXCEPT !.mConditionTimer =
                         OnConditionChanged(@, conditionMet, t)]
                 ELSE metric
  /\ CountConditionTime(0)
  /\ UNCHANGED <<mIsActive, mDimensionGuardrailHit, corrupted, hist>>

\* activateLocked, where the activation turns an inactive metric active.
activate(t) ==
  /\ HasActivation /\ ~mIsActive
  /\ CalledForEvent(t)
  /\ mIsActive' = TRUE
  /\ metric' = IF mCondition = "kTrue"
                 THEN [metric EXCEPT !.mConditionTimer = OnConditionChanged(@, TRUE, t)]
                 ELSE metric
  /\ CountConditionTime(0)
  /\ UNCHANGED <<mCondition, mDimensionGuardrailHit, corrupted, hist>>

\* flushIfExpire, where no activation is left.
flushIfExpire(t) ==
  /\ HasActivation /\ mIsActive
  /\ CalledForEvent(t)
  /\ mIsActive' = FALSE
  /\ LET m == flushLocked(metric, t)
     IN  metric' = IF mCondition = "kTrue"
                     THEN [m EXCEPT !.mConditionTimer = OnConditionChanged(@, FALSE, t)]
                     ELSE m
  /\ hist' = HistFlush(hist, metric, t)
  /\ CountConditionTime(LapsOfFlush(metric, t))
  /\ UNCHANGED <<mCondition, mDimensionGuardrailHit, corrupted>>

\* loadActiveMetricLocked: a saved activation is restored right after construction.
loadActiveMetric ==
  /\ HasActivation /\ PersistedActivation /\ fresh
  /\ mIsActive' = TRUE
  /\ fresh' = FALSE
  /\ UNCHANGED <<metric, mCondition, mDimensionGuardrailHit, corrupted, now, logTime, hist,
                condReported, condTotal>>

NoPastBuckets(m) == \A k \in Keys : m.mPastBuckets[k] = << >>

\* Mutant of WithoutPast: it takes the counters along.
WithoutPastAndCurrent(m) ==
  [m EXCEPT !.mPastBuckets = [k \in Keys |-> << >>], !.mTotalDataSize = 0,
            !.mCurrentSlicedCounter = Zero]

WithoutPast(m) ==
  [m EXCEPT !.mPastBuckets = [k \in Keys |-> << >>], !.mTotalDataSize = 0]

onDumpReport(t, include_current_partial_bucket, erase_data) ==
  /\ Called(t)
  /\ LET m == IF include_current_partial_bucket
                THEN flushLocked(metric, t) ELSE flushIfNeededLocked(metric, t)
         h == IF include_current_partial_bucket
                THEN HistFlush(hist, metric, t) ELSE HistFlushIfNeeded(hist, metric, t)
         erased == erase_data /\ ~NoPastBuckets(m)
     IN  /\ metric' = IF erased THEN WithoutPast(m) ELSE m
         /\ mDimensionGuardrailHit' = (mDimensionGuardrailHit /\ ~erased)
         /\ hist' = IF erased
                       THEN [h EXCEPT !.delivered = Plus(@, PastCounts(m))] ELSE h
         /\ CountConditionTime(IF include_current_partial_bucket
                                 THEN LapsOfFlush(metric, t) ELSE LapIfNeeded(metric, t))
  /\ corrupted' = IF erase_data THEN resetDataCorruptionFlags ELSE corrupted
  /\ UNCHANGED <<mCondition, mIsActive>>

dropData(t) ==
  /\ Called(t)
  /\ LET m == flushIfNeededLocked(metric, t)
         h == HistFlushIfNeeded(hist, metric, t)
     IN  /\ metric' = WithoutPast(m)
         /\ hist' = [h EXCEPT !.discarded = Plus(@, PastCounts(m))]
         /\ CountConditionTime(LapIfNeeded(metric, t))
  /\ corrupted' = resetDataCorruptionFlags
  /\ UNCHANGED <<mCondition, mIsActive, mDimensionGuardrailHit>>

\* clearPastBucketsLocked does not look at its time argument.
clearPastBuckets ==
  /\ metric' = WithoutPast(metric)
  /\ hist' = [hist EXCEPT !.discarded = Plus(@, PastCounts(metric))]
  /\ corrupted' = resetDataCorruptionFlags
  /\ fresh' = FALSE
  /\ UNCHANGED <<mCondition, mIsActive, mDimensionGuardrailHit, now, logTime,
                condReported, condTotal>>

SplitBucket(t) ==
  /\ Called(t)
  /\ metric' = flushLocked(metric, t)
  /\ hist' = HistFlush(hist, metric, t)
  /\ CountConditionTime(LapsOfFlush(metric, t))
  /\ UNCHANGED <<mCondition, mIsActive, mDimensionGuardrailHit, corrupted>>

notifyAppUpgrade(t) == SplitForAppUpgrade /\ SplitBucket(t)
onStatsdInitCompleted(t) == SplitBucket(t)

\* The higher of the stored and the new severity stays.
onMatchedLogEventLost(reason, atomType) ==
  /\ LET severity == determineCorruptionSeverity(atomType)
     IN  corrupted' = [corrupted EXCEPT ![reason] = IF @ > severity THEN @ ELSE severity]
  /\ fresh' = FALSE
  /\ UNCHANGED <<metric, mCondition, mIsActive, mDimensionGuardrailHit, now, logTime,
                hist, condReported, condTotal>>

Next ==
  \/ \E t \in 0 .. MaxTime :
       \/ \E k \in Keys : onMatchedLogEvent(k, t)
       \/ \E c \in BOOLEAN : onConditionChanged(c, t)
       \/ activate(t)
       \/ flushIfExpire(t)
       \/ \E partial, erase \in BOOLEAN : onDumpReport(t, partial, erase)
       \/ dropData(t)
       \/ notifyAppUpgrade(t)
       \/ onStatsdInitCompleted(t)
  \/ loadActiveMetric
  \/ clearPastBuckets
  \/ \E reason \in Reasons, atomType \in {"kWhat", "kCondition", "kState"} :
       onMatchedLogEventLost(reason, atomType)

Spec == Init /\ [][Next]_vars

-----------------------------------------------------------------------------
Buckets == [mBucketStartNs : Int, mBucketEndNs : Int, mCount : Nat, mConditionTrueNs : Int]

Counters == [Keys -> Nat]

TypeOK ==
  /\ metric \in [mCurrentBucketStartTimeNs : Int, mCurrentBucketNum : Nat,
                 mConditionTimer : ConditionTimers,
                 mCurrentSlicedCounter : Counters, mCurrentFullCounters : Counters,
                 mPastBuckets : [Keys -> Seq(Buckets)], mTotalDataSize : Int]
  /\ mCondition \in ConditionStates
  /\ mIsActive \in BOOLEAN /\ mDimensionGuardrailHit \in BOOLEAN /\ fresh \in BOOLEAN
  /\ corrupted \in [Reasons -> Severities]
  /\ now \in Nat /\ logTime \in Nat
  /\ condReported \in Int /\ condTotal \in Int

SumOver(perBucket, k) ==
  LET last == (MaxTime - TimeBase) \div BucketSize
      sum[n \in -1 .. last] == IF n = -1 THEN 0 ELSE sum[n - 1] + perBucket[n][k]
  IN  sum[last]

\* Every counted event is in exactly one place: the current bucket, a past
\* bucket, a report that erased it, or data that was dropped (dropData, a
\* cleared report, a bucket below the upload threshold).  No order of flushes,
\* splits, dumps and late events loses one or counts one twice.
CountsConserved ==
  \A k \in Keys :
    SumOver(hist.accepted, k)
      = metric.mCurrentSlicedCounter[k] + CountIn(metric.mPastBuckets[k])
          + hist.delivered[k] + hist.discarded[k]

\* The same for the anomaly side: what the trackers were handed plus what is
\* still accumulated in mCurrentFullCounters and mCurrentSlicedCounter is what
\* was counted; the upload threshold and dumps take nothing from it.
TrackersConserved ==
  HasAnomalyTracker =>
    \A k \in Keys :
      SumOver(hist.accepted, k)
        = SumOver(hist.handed, k) + metric.mCurrentFullCounters[k]
            + metric.mCurrentSlicedCounter[k]

\* The current bucket starts inside the aligned period its number names, so
\* its end (computed from the number alone) is never before its start.
CurrentBucketOnGrid ==
  /\ TimeBase + metric.mCurrentBucketNum * BucketSize <= metric.mCurrentBucketStartTimeNs
  /\ metric.mCurrentBucketStartTimeNs < getCurrentBucketEndTimeNs(metric)
  /\ metric.mCurrentBucketStartTimeNs <= now

\* The past buckets of a key are in time order, do not overlap each other or
\* the current bucket, and none ends before it starts.
BucketsOrdered ==
  \A k \in Keys :
    LET past == metric.mPastBuckets[k]
    IN  /\ \A i \in 1 .. Len(past) :
             /\ past[i].mBucketStartNs <= past[i].mBucketEndNs
             /\ past[i].mBucketEndNs <= metric.mCurrentBucketStartTimeNs
        /\ \A i, j \in 1 .. Len(past) :
             i < j => past[i].mBucketEndNs <= past[j].mBucketStartNs

\* A past bucket never crosses the grid: the report writes only the number of
\* a bucket of full length (onDumpReportLocked), so a bucket of that length
\* has to be the whole period its end time names.
BucketsOnGrid ==
  \A k \in Keys : \A i \in 1 .. Len(metric.mPastBuckets[k]) :
    LET b == metric.mPastBuckets[k][i]
        n == (b.mBucketStartNs - TimeBase) \div BucketSize
    IN  TimeBase <= b.mBucketStartNs /\ b.mBucketEndNs <= TimeBase + (n + 1) * BucketSize

\* The laps the condition timer has closed and what it has measured since add
\* up to the time the metric was active with its condition true: closing
\* buckets late, early or twice neither loses nor invents condition time.
ConditionTimeConserved ==
  condReported + Elapsed(metric.mConditionTimer, now) = condTotal

\* ConditionTimer.h: the owner notifies the stopwatch when the condition
\* changes, so the stopwatch runs exactly while the metric is active with its
\* condition true.
TimerFollowsCondition ==
  metric.mConditionTimer.mCondition <=> (mIsActive /\ mCondition = "kTrue")

\* The size estimate that makes StatsLogProcessor drop or fetch data is zero
\* exactly when there is nothing to report.
SizeZeroIffEmpty == (metric.mTotalDataSize = 0) <=> NoPastBuckets(metric)

\* A key limit per bucket: no order of events puts more keys in a bucket than
\* the hard limit, and data for a key is refused only at the limit.
DimensionsBounded == Size(metric.mCurrentSlicedCounter) <= DimensionHardLimit

\* A loss of condition or state atoms marks every later report; a loss of what
\* atoms marks at least the next one: a flag falls only in a step that also
\* empties the past buckets.
CorruptionSurvives ==
  [][\A r \in Reasons :
        /\ corrupted[r] = kUnrecoverable => corrupted'[r] = kUnrecoverable
        /\ corrupted'[r] < corrupted[r] => NoPastBuckets(metric')]_vars

\* Partial buckets chained by dumps, upgrades, boot completion and expiry never
\* overlap, run backwards or leave the grid of flushIfNeededLocked.
BucketsInOrder == CurrentBucketOnGrid /\ BucketsOrdered /\ BucketsOnGrid

\* The condition timer is told of every change that concerns it and loses no
\* time, although buckets are closed after the fact (flushCurrentBucketLocked).
TimeAccounted == TimerFollowsCondition /\ ConditionTimeConserved
=============================================================================
