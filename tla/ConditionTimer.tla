--------------------------- MODULE ConditionTimer ---------------------------
(***************************************************************************)
(* condition/ConditionTimer.h: the stopwatch that every metric producer    *)
(* with buckets uses to report for how long its condition held in each     *)
(* bucket.  A timer is a record with the four fields of the class; the two *)
(* methods are functions from a timer to a timer (newBucketStart returns   *)
(* the lap it closes as well).                                             *)
(***************************************************************************)
EXTENDS Integers

ConditionTimers ==
  [mCondition : BOOLEAN, mTimerNs : Int, mCurrentBucketStartDelayNs : Int,
   mLastConditionChangeTimestampNs : Int]

\* ConditionTimer(initCondition, bucketStartNs)
NewConditionTimer(initCondition, bucketStartNs) ==
  [mCondition |-> initCondition, mTimerNs |-> 0, mCurrentBucketStartDelayNs |-> 0,
   mLastConditionChangeTimestampNs |-> IF initCondition THEN bucketStartNs ELSE 0]

\* The condition held at the bucket edge, as far as the timer can tell: it is
\* on since before the edge, or it was switched off only after the edge.
HeldAtEdge(timer, nextBucketStartNs) ==
  IF timer.mCondition
    THEN nextBucketStartNs >= timer.mLastConditionChangeTimestampNs
    ELSE timer.mLastConditionChangeTimestampNs > nextBucketStartNs

\* The lap that newBucketStart closes: what mTimerNs is when the bucket ends.
LapDuration(timer, nextBucketStartNs) ==
  IF HeldAtEdge(timer, nextBucketStartNs)
    THEN timer.mTimerNs + (nextBucketStartNs - timer.mLastConditionChangeTimestampNs)
    ELSE timer.mTimerNs

\* Mutant of NewBucketStart: the time between the edge and the switch-off is lost.
NewBucketStartFromZero(timer, eventTimeNs, nextBucketStartNs) ==
  LET held == HeldAtEdge(timer, nextBucketStartNs)
      last == timer.mLastConditionChangeTimestampNs
  IN  [mCondition |-> timer.mCondition, mTimerNs |-> 0,
       mCurrentBucketStartDelayNs |->
         IF held /\ eventTimeNs > nextBucketStartNs
           THEN eventTimeNs - nextBucketStartNs ELSE 0,
       mLastConditionChangeTimestampNs |->
         IF held /\ timer.mCondition THEN nextBucketStartNs ELSE last]

\* The timer newBucketStart leaves behind for the bucket that begins.
NewBucketStart(timer, eventTimeNs, nextBucketStartNs) ==
  LET held == HeldAtEdge(timer, nextBucketStartNs)
      last == timer.mLastConditionChangeTimestampNs
  IN  [mCondition |-> timer.mCondition,
       mTimerNs |-> IF held /\ ~timer.mCondition THEN last - nextBucketStartNs ELSE 0,
       mCurrentBucketStartDelayNs |->
         IF held /\ eventTimeNs > nextBucketStartNs
           THEN eventTimeNs - nextBucketStartNs ELSE 0,
       mLastConditionChangeTimestampNs |->
         IF held /\ timer.mCondition THEN nextBucketStartNs ELSE last]

OnConditionChanged(timer, newCondition, timestampNs) ==
  IF newCondition = timer.mCondition
    THEN timer
    ELSE [mCondition |-> newCondition,
          mTimerNs |-> IF newCondition THEN timer.mTimerNs
                       ELSE timer.mTimerNs
                              + (timestampNs - timer.mLastConditionChangeTimestampNs),
          mCurrentBucketStartDelayNs |-> timer.mCurrentBucketStartDelayNs,
          mLastConditionChangeTimestampNs |-> timestampNs]

\* What the timer has measured since the last lap, read at time t.
Elapsed(timer, t) ==
  timer.mTimerNs
    + (IF timer.mCondition THEN t - timer.mLastConditionChangeTimestampNs ELSE 0)
=============================================================================
