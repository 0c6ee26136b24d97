------------------------- MODULE CountMetricProofs -------------------------
(***************************************************************************)
(* Proofs about CountMetric, for every bucket size, start time, threshold, *)
(* dimension limit and set of keys:                                        *)
(*   - type correctness;                                                   *)
(*   - when log events are processed in time order (Lateness = 0), the     *)
(*     past buckets are ordered, disjoint and on the grid;                 *)
(*   - when moreover no activation was restored at start, the condition    *)
(*     timer neither loses nor invents condition time;                     *)
(*   - a corruption flag is lowered only when no past bucket is left, and  *)
(*     never from kUnrecoverable.                                          *)
(***************************************************************************)
EXTENDS CountMetric, FiniteSetTheorems, TLAPS

\* The type of the record metric.
Metrics ==
  [mCurrentBucketStartTimeNs : Int, mCurrentBucketNum : Nat,
   mConditionTimer : ConditionTimers,
   mCurrentSlicedCounter : Counters, mCurrentFullCounters : Counters,
   mPastBuckets : [Keys -> Seq(Buckets)], mTotalDataSize : Int]

-----------------------------------------------------------------------------
\* Integer division rounds down: the number of whole buckets in a time span.
LEMMA DivisionBounds ==
  ASSUME NEW a \in Nat, NEW b \in Nat \ {0}
  PROVE  /\ a \div b \in Nat
         /\ (a \div b) * b <= a
         /\ a < (a \div b) * b + b
  BY SMT

\* Products distribute over sums, stated once for the solver.
LEMMA Distribute ==
  ASSUME NEW n \in Nat, NEW q \in Nat, NEW s \in Nat
  PROVE  /\ (n + q) * s = n * s + q * s
         /\ (n + q + 1) * s = n * s + q * s + s
         /\ n * s \in Nat /\ q * s \in Nat
  BY SMT

\* The arithmetic of flushIfNeededLocked: the next bucket starts on the grid,
\* at or before the event, and the event falls inside it.
LEMMA NextBucketOnGrid ==
  ASSUME NEW m \in Metrics, NEW t \in Int, t >= getCurrentBucketEndTimeNs(m)
  PROVE  /\ numBucketsForward(m, t) \in Nat \ {0}
         /\ nextBucketNs(m, t) \in Int
         /\ getCurrentBucketEndTimeNs(m) \in Int
         /\ nextBucketNs(m, t)
              = TimeBase + (m.mCurrentBucketNum + numBucketsForward(m, t)) * BucketSize
         /\ getCurrentBucketEndTimeNs(m) <= nextBucketNs(m, t)
         /\ nextBucketNs(m, t) <= t
         /\ t < TimeBase + (m.mCurrentBucketNum + numBucketsForward(m, t) + 1) * BucketSize
  <1> DEFINE num == m.mCurrentBucketNum
             e   == TimeBase + (num + 1) * BucketSize
             q   == (t - e) \div BucketSize
  <1>1. num \in Nat /\ BucketSize \in Nat \ {0} /\ TimeBase \in Nat
    BY BucketSizeAssumption, TimeAssumption DEF Metrics
  <1>2. e \in Int /\ t - e \in Nat
    <2>1. (num + 1) * BucketSize \in Nat
      BY <1>1
    <2>2. e \in Int
      BY <1>1, <2>1
    <2> QED BY <2>2 DEF getCurrentBucketEndTimeNs
  <1> HIDE DEF e
  <1>3. q \in Nat /\ q * BucketSize <= t - e /\ t - e < q * BucketSize + BucketSize
    BY <1>1, <1>2, DivisionBounds
  <1> HIDE DEF q
  <1>4. /\ numBucketsForward(m, t) = 1 + q
        /\ nextBucketNs(m, t) = e + ((1 + q) - 1) * BucketSize
        /\ getCurrentBucketEndTimeNs(m) = e
    <2>1. getCurrentBucketEndTimeNs(m) = e
      BY DEF getCurrentBucketEndTimeNs, e
    <2>2. numBucketsForward(m, t) = 1 + q
      BY <2>1 DEF numBucketsForward, q
    <2>3. nextBucketNs(m, t)
            = getCurrentBucketEndTimeNs(m) + (numBucketsForward(m, t) - 1) * BucketSize
      BY DEF nextBucketNs
    <2>4. nextBucketNs(m, t) = e + ((1 + q) - 1) * BucketSize
      BY <2>1, <2>2, <2>3
    <2> QED BY <2>1, <2>2, <2>4
  <1>5. q * BucketSize \in Nat /\ ((1 + q) - 1) * BucketSize = q * BucketSize
    BY <1>1, <1>3
  <1>6. /\ TimeBase + (num + (1 + q)) * BucketSize = e + q * BucketSize
        /\ TimeBase + (num + (1 + q) + 1) * BucketSize = e + q * BucketSize + BucketSize
    <2>1. num + 1 \in Nat /\ num + (1 + q) = (num + 1) + q
      BY <1>1, <1>3
    <2>2. /\ (num + (1 + q)) * BucketSize = (num + 1) * BucketSize + q * BucketSize
          /\ (num + (1 + q) + 1) * BucketSize
               = (num + 1) * BucketSize + q * BucketSize + BucketSize
          /\ (num + 1) * BucketSize \in Nat
      BY <1>1, <1>3, <2>1, Distribute
    <2> QED BY <1>1, <1>5, <2>2 DEF e
  <1> QED
    BY <1>1, <1>2, <1>3, <1>4, <1>5, <1>6

\* The period a time inside [n * b, (n + 1) * b) belongs to is n.
LEMMA DivisionUnique ==
  ASSUME NEW a \in Nat, NEW n \in Nat, NEW b \in Nat \ {0},
         n * b <= a, a < (n + 1) * b
  PROVE  a \div b = n
  <1>1. /\ a \div b \in Nat
        /\ (a \div b) * b <= a
        /\ a < (a \div b) * b + b
    BY DivisionBounds
  <1> DEFINE q == a \div b
  <1> HIDE DEF q
  <1>2. ~(q < n)
    <2> SUFFICES ASSUME q + 1 <= n PROVE FALSE
      BY <1>1 DEF q
    <2>1. PICK d \in Nat : n = (q + 1) + d
      BY <1>1 DEF q
    <2>2. n * b = (q + 1) * b + d * b /\ d * b \in Nat
      BY <1>1, <2>1, Distribute DEF q
    <2>3. (q + 1) * b = q * b + b
      BY <1>1 DEF q
    <2> QED BY <1>1, <2>2, <2>3 DEF q
  <1>3. ~(n < q)
    <2> SUFFICES ASSUME n + 1 <= q PROVE FALSE
      BY <1>1 DEF q
    <2>1. PICK d \in Nat : q = (n + 1) + d
      BY <1>1 DEF q
    <2>2. q * b = (n + 1) * b + d * b /\ d * b \in Nat
      BY <1>1, <2>1, Distribute DEF q
    <2> QED BY <1>1, <2>2 DEF q
  <1> QED BY <1>1, <1>2, <1>3 DEF q

-----------------------------------------------------------------------------
(* The condition timer. *)

\* Both methods of ConditionTimer return a timer, and a lap is a number.
LEMMA TimerType ==
  ASSUME NEW timer \in ConditionTimers, NEW t \in Int, NEW next \in Int,
         NEW c \in BOOLEAN
  PROVE  /\ NewBucketStart(timer, t, next) \in ConditionTimers
         /\ OnConditionChanged(timer, c, t) \in ConditionTimers
         /\ LapDuration(timer, next) \in Int
         /\ Elapsed(timer, t) \in Int
  <1>1. timer = [mCondition |-> timer.mCondition, mTimerNs |-> timer.mTimerNs,
                 mCurrentBucketStartDelayNs |-> timer.mCurrentBucketStartDelayNs,
                 mLastConditionChangeTimestampNs |-> timer.mLastConditionChangeTimestampNs]
        /\ timer.mCondition \in BOOLEAN /\ timer.mTimerNs \in Int
        /\ timer.mCurrentBucketStartDelayNs \in Int
        /\ timer.mLastConditionChangeTimestampNs \in Int
    BY DEF ConditionTimers
  <1>2. NewBucketStart(timer, t, next) \in ConditionTimers
    BY <1>1 DEF ConditionTimers, NewBucketStart, HeldAtEdge
  <1>3. OnConditionChanged(timer, c, t) \in ConditionTimers
    <2>1. CASE c = timer.mCondition
      BY <2>1 DEF OnConditionChanged
    <2>2. CASE c # timer.mCondition
      BY <1>1, <2>2 DEF OnConditionChanged, ConditionTimers
    <2> QED BY <2>1, <2>2
  <1>4. LapDuration(timer, next) \in Int /\ Elapsed(timer, t) \in Int
    BY <1>1 DEF LapDuration, HeldAtEdge, Elapsed
  <1> QED BY <1>2, <1>3, <1>4

\* Closing a lap moves time from the timer to the lap, whatever the edge.
LEMMA LapConserved ==
  ASSUME NEW timer \in ConditionTimers, NEW t \in Int, NEW next \in Int, NEW r \in Int
  PROVE  LapDuration(timer, next) + Elapsed(NewBucketStart(timer, t, next), r)
           = Elapsed(timer, r)
  BY DEF ConditionTimers, NewBucketStart, LapDuration, HeldAtEdge, Elapsed

\* Switching the timer at time t does not change what it shows at time t.
LEMMA SwitchConserved ==
  ASSUME NEW timer \in ConditionTimers, NEW t \in Int, NEW c \in BOOLEAN
  PROVE  Elapsed(OnConditionChanged(timer, c, t), t) = Elapsed(timer, t)
  BY DEF ConditionTimers, OnConditionChanged, Elapsed

-----------------------------------------------------------------------------
(* What closing a bucket does to the record metric. *)

\* The invariants of the record, stated for any record m.
GridOf(m) ==
  /\ TimeBase + m.mCurrentBucketNum * BucketSize <= m.mCurrentBucketStartTimeNs
  /\ m.mCurrentBucketStartTimeNs < getCurrentBucketEndTimeNs(m)

EndsBy(past, t) ==
  \A i \in 1 .. Len(past) :
    past[i].mBucketStartNs <= past[i].mBucketEndNs /\ past[i].mBucketEndNs <= t

InOrder(past) ==
  \A i, j \in 1 .. Len(past) : i < j => past[i].mBucketEndNs <= past[j].mBucketStartNs

OnGrid(past) ==
  \A i \in 1 .. Len(past) :
    LET b == past[i]
        n == (b.mBucketStartNs - TimeBase) \div BucketSize
    IN  TimeBase <= b.mBucketStartNs /\ b.mBucketEndNs <= TimeBase + (n + 1) * BucketSize

PastOf(m) ==
  \A k \in Keys :
    /\ EndsBy(m.mPastBuckets[k], m.mCurrentBucketStartTimeNs)
    /\ InOrder(m.mPastBuckets[k])
    /\ OnGrid(m.mPastBuckets[k])

\* The end of the current bucket (getCurrentBucketEndTimeNs) is a number.
LEMMA EndIsInt ==
  ASSUME NEW m \in Metrics
  PROVE  getCurrentBucketEndTimeNs(m) \in Int
  <1>1. m.mCurrentBucketNum \in Nat /\ BucketSize \in Nat /\ TimeBase \in Nat
    BY BucketSizeAssumption, TimeAssumption DEF Metrics
  <1>2. (m.mCurrentBucketNum + 1) * BucketSize \in Nat
    BY <1>1
  <1> QED BY <1>1, <1>2 DEF getCurrentBucketEndTimeNs

\* What a flush adds to mTotalDataSize is a number: finitely many keys.
LEMMA FlushSizeType ==
  ASSUME NEW m \in Metrics, NEW t \in Int
  PROVE  FlushSize(m, t) \in Int
  <1> DEFINE isFull == t < getCurrentBucketEndTimeNs(m)
             first == {k \in Uploaded(m) : m.mPastBuckets[k] = << >>}
  <1>1. Uploaded(m) \subseteq Keys /\ first \subseteq Keys
    BY DEF Uploaded
  <1>2. IsFiniteSet(first) /\ IsFiniteSet(Uploaded(m) \ first)
    BY <1>1, KeysAssumption, FS_Subset
  <1>3. Cardinality(first) \in Nat /\ Cardinality(Uploaded(m) \ first) \in Nat
    BY <1>2, FS_CardinalityType
  <1>4. computeBucketSize(isFull, TRUE) \in Nat /\ computeBucketSize(isFull, FALSE) \in Nat
    BY DEF computeBucketSize
  <1> HIDE DEF first, isFull
  <1>5. FlushSize(m, t) = Cardinality(first) * computeBucketSize(isFull, TRUE)
                  + Cardinality(Uploaded(m) \ first) * computeBucketSize(isFull, FALSE)
    BY DEF FlushSize, first, isFull
  <1>6. \A a, b, c, d \in Nat : a * b + c * d \in Int
    OBVIOUS
  <1>7. Cardinality(first) * computeBucketSize(isFull, TRUE)
          + Cardinality(Uploaded(m) \ first) * computeBucketSize(isFull, FALSE) \in Int
    BY <1>3, <1>4, <1>6, Zenon
  <1> QED BY <1>5, <1>7

\* The bucket a flush appends for a key is a well-typed past bucket.
LEMMA ClosedBucketType ==
  ASSUME NEW m \in Metrics, NEW t \in Int, NEW next \in Int, NEW k \in Keys
  PROVE  ClosedBucket(m, k, t, next) \in Buckets
  <1>1. getCurrentBucketEndTimeNs(m) \in Int
    BY EndIsInt
  <1>2. m.mConditionTimer \in ConditionTimers /\ m.mCurrentSlicedCounter[k] \in Nat
        /\ m.mCurrentBucketStartTimeNs \in Int
    BY DEF Metrics, Counters
  <1>3. LapDuration(m.mConditionTimer, next) \in Int
    BY <1>2, TimerType
  <1> QED BY <1>1, <1>2, <1>3 DEF ClosedBucket, Buckets

\* Closing a bucket yields a well-typed record.
LEMMA FlushCurrentType ==
  ASSUME NEW m \in Metrics, NEW t \in Int, NEW next \in Int
  PROVE  flushCurrentBucketLocked(m, t, next) \in Metrics
  <1> DEFINE f == flushCurrentBucketLocked(m, t, next)
             past == [k \in Keys |-> IF k \in Uploaded(m)
                        THEN Append(m.mPastBuckets[k], ClosedBucket(m, k, t, next))
                        ELSE m.mPastBuckets[k]]
             full == IF ~HasAnomalyTracker THEN m.mCurrentFullCounters
                     ELSE IF SendsToTrackers(m, t) THEN Zero
                     ELSE Plus(m.mCurrentFullCounters, m.mCurrentSlicedCounter)
             size == m.mTotalDataSize + FlushSize(m, t)
             timer == NewBucketStart(m.mConditionTimer, t, next)
  <1>1. /\ m.mConditionTimer \in ConditionTimers /\ m.mCurrentBucketNum \in Nat
        /\ m.mCurrentSlicedCounter \in Counters /\ m.mCurrentFullCounters \in Counters
        /\ m.mPastBuckets \in [Keys -> Seq(Buckets)] /\ m.mTotalDataSize \in Int
    BY DEF Metrics
  <1>2. timer \in ConditionTimers
    BY <1>1, TimerType
  <1>3. Zero \in Counters /\ Plus(m.mCurrentFullCounters, m.mCurrentSlicedCounter) \in Counters
    BY <1>1 DEF Zero, Plus, Counters
  <1>4. full \in Counters
    BY <1>1, <1>3
  <1>5. past \in [Keys -> Seq(Buckets)]
    <2> SUFFICES ASSUME NEW k \in Keys
                 PROVE  (IF k \in Uploaded(m)
                           THEN Append(m.mPastBuckets[k], ClosedBucket(m, k, t, next))
                           ELSE m.mPastBuckets[k]) \in Seq(Buckets)
      OBVIOUS
    <2>1. m.mPastBuckets[k] \in Seq(Buckets) /\ ClosedBucket(m, k, t, next) \in Buckets
      BY <1>1, ClosedBucketType
    <2> QED BY <2>1
  <1>6. size \in Int
    BY <1>1, FlushSizeType
  <1>7. f = [mCurrentBucketStartTimeNs |-> next, mCurrentBucketNum |-> m.mCurrentBucketNum,
             mConditionTimer |-> timer, mCurrentSlicedCounter |-> Zero,
             mCurrentFullCounters |-> full, mPastBuckets |-> past, mTotalDataSize |-> size]
    BY DEF flushCurrentBucketLocked
  <1> HIDE DEF f, past, full, size, timer
  <1>8. f \in Metrics
    BY <1>1, <1>2, <1>3, <1>4, <1>5, <1>6, <1>7 DEF Metrics
  <1> QED BY <1>8 DEF f

\* Appending a bucket that starts at or after the end of all others keeps a
\* list of buckets in order, and on the grid if the bucket is.
LEMMA AppendInOrder ==
  ASSUME NEW past \in Seq(Buckets), NEW b \in Buckets, NEW s \in Int, NEW t \in Int,
         EndsBy(past, s), InOrder(past),
         s <= b.mBucketStartNs, b.mBucketStartNs <= b.mBucketEndNs, b.mBucketEndNs <= t
  PROVE  EndsBy(Append(past, b), t) /\ InOrder(Append(past, b))
  <1> DEFINE q == Append(past, b)
  <1>1. /\ Len(q) = Len(past) + 1 /\ Len(past) \in Nat /\ q[Len(past) + 1] = b
        /\ \A i \in 1 .. Len(past) : q[i] = past[i]
    OBVIOUS
  <1>2. \A i \in 1 .. Len(past) : past[i] \in Buckets
    OBVIOUS
  <1>3. \A i \in 1 .. Len(q) : i \in 1 .. Len(past) \/ i = Len(past) + 1
    BY <1>1
  <1> HIDE DEF q
  <1>4. EndsBy(q, t)
    <2> SUFFICES ASSUME NEW i \in 1 .. Len(q)
                 PROVE  q[i].mBucketStartNs <= q[i].mBucketEndNs /\ q[i].mBucketEndNs <= t
      BY DEF EndsBy
    <2>1. CASE i \in 1 .. Len(past)
      <3>1. past[i].mBucketStartNs <= past[i].mBucketEndNs /\ past[i].mBucketEndNs <= s
        BY <2>1 DEF EndsBy
      <3>2. past[i].mBucketEndNs \in Int /\ b.mBucketStartNs \in Int /\ b.mBucketEndNs \in Int
        BY <1>2, <2>1 DEF Buckets
      <3> QED BY <1>1, <2>1, <3>1, <3>2
    <2>2. CASE i = Len(past) + 1
      BY <1>1, <2>2
    <2> QED BY <1>3, <2>1, <2>2
  <1>5. InOrder(q)
    <2> SUFFICES ASSUME NEW i \in 1 .. Len(q), NEW j \in 1 .. Len(q), i < j
                 PROVE  q[i].mBucketEndNs <= q[j].mBucketStartNs
      BY DEF InOrder
    <2>1. i \in 1 .. Len(past)
      BY <1>1
    <2>2. CASE j \in 1 .. Len(past)
      BY <1>1, <2>1, <2>2 DEF InOrder
    <2>3. CASE j = Len(past) + 1
      <3>1. past[i].mBucketEndNs <= s
        BY <2>1 DEF EndsBy
      <3>2. past[i].mBucketEndNs \in Int /\ b.mBucketStartNs \in Int
        BY <1>2, <2>1 DEF Buckets
      <3> QED BY <1>1, <2>1, <2>3, <3>1, <3>2
    <2> QED BY <1>3, <2>2, <2>3
  <1> QED BY <1>4, <1>5 DEF q

\* Appending a bucket that does not cross the grid keeps the list so.
LEMMA AppendOnGrid ==
  ASSUME NEW past \in Seq(Buckets), NEW b \in Buckets, NEW n \in Nat, OnGrid(past),
         TimeBase + n * BucketSize <= b.mBucketStartNs,
         b.mBucketStartNs < TimeBase + (n + 1) * BucketSize,
         b.mBucketEndNs <= TimeBase + (n + 1) * BucketSize
  PROVE  OnGrid(Append(past, b))
  <1> DEFINE q == Append(past, b)
             a == b.mBucketStartNs - TimeBase
  <1>1. /\ Len(q) = Len(past) + 1 /\ Len(past) \in Nat /\ q[Len(past) + 1] = b
        /\ \A i \in 1 .. Len(past) : q[i] = past[i]
    OBVIOUS
  <1>2. /\ BucketSize \in Nat \ {0} /\ TimeBase \in Nat /\ b.mBucketStartNs \in Int
        /\ n * BucketSize \in Nat /\ (n + 1) * BucketSize \in Nat
    BY BucketSizeAssumption, TimeAssumption DEF Buckets
  <1>3. a \in Nat /\ n * BucketSize <= a /\ a < (n + 1) * BucketSize
        /\ TimeBase <= b.mBucketStartNs
    BY <1>2
  <1>4. a \div BucketSize = n
    BY <1>2, <1>3, DivisionUnique
  <1> HIDE DEF q
  <1> SUFFICES ASSUME NEW i \in 1 .. Len(q)
               PROVE  /\ TimeBase <= q[i].mBucketStartNs
                      /\ q[i].mBucketEndNs
                           <= TimeBase
                                + (((q[i].mBucketStartNs - TimeBase) \div BucketSize) + 1)
                                  * BucketSize
    BY DEF OnGrid, q
  <1>5. CASE i \in 1 .. Len(past)
    BY <1>1, <1>5 DEF OnGrid
  <1>6. CASE i = Len(past) + 1
    BY <1>1, <1>3, <1>4, <1>6
  <1> QED BY <1>1, <1>5, <1>6

\* Closing a bucket that is on the grid, at a time not before its start, keeps
\* the past buckets in order before the start of the next bucket.
LEMMA FlushCurrentPast ==
  ASSUME NEW m \in Metrics, NEW t \in Int, NEW next \in Int,
         GridOf(m), PastOf(m), m.mCurrentBucketStartTimeNs <= t,
         \/ t < getCurrentBucketEndTimeNs(m) /\ next = t
         \/ t >= getCurrentBucketEndTimeNs(m) /\ next >= getCurrentBucketEndTimeNs(m)
  PROVE  PastOf(flushCurrentBucketLocked(m, t, next))
  <1> DEFINE f == flushCurrentBucketLocked(m, t, next)
             e == getCurrentBucketEndTimeNs(m)
  <1> SUFFICES ASSUME NEW k \in Keys
               PROVE  /\ EndsBy(f.mPastBuckets[k], f.mCurrentBucketStartTimeNs)
                      /\ InOrder(f.mPastBuckets[k])
                      /\ OnGrid(f.mPastBuckets[k])
    BY DEF PastOf
  <1> DEFINE past == m.mPastBuckets[k]
             b == ClosedBucket(m, k, t, next)
             s == m.mCurrentBucketStartTimeNs
  <1>1. /\ f.mCurrentBucketStartTimeNs = next
        /\ f.mPastBuckets[k] = IF k \in Uploaded(m) THEN Append(past, b) ELSE past
    BY DEF flushCurrentBucketLocked
  <1>2. /\ past \in Seq(Buckets) /\ b \in Buckets /\ s \in Int
        /\ e \in Int /\ m.mCurrentBucketNum \in Nat
    BY ClosedBucketType, EndIsInt DEF Metrics
  <1>3. EndsBy(past, s) /\ InOrder(past) /\ OnGrid(past)
    BY DEF PastOf
  <1>4. b.mBucketStartNs = s /\ b.mBucketEndNs = IF t < e THEN t ELSE e
    BY DEF ClosedBucket
  <1>5. s <= next /\ s < e /\ TimeBase + m.mCurrentBucketNum * BucketSize <= s
        /\ e = TimeBase + (m.mCurrentBucketNum + 1) * BucketSize
    BY <1>2 DEF GridOf, getCurrentBucketEndTimeNs
  <1> HIDE DEF e, f, b, s, past
  <1>6. s <= b.mBucketEndNs /\ b.mBucketEndNs <= next /\ b.mBucketEndNs <= e
    BY <1>2, <1>4, <1>5 DEF e, s
  <1>7. EndsBy(past, next)
    <2> SUFFICES ASSUME NEW i \in 1 .. Len(past)
                 PROVE  past[i].mBucketStartNs <= past[i].mBucketEndNs
                          /\ past[i].mBucketEndNs <= next
      BY DEF EndsBy
    <2>1. past[i].mBucketStartNs <= past[i].mBucketEndNs /\ past[i].mBucketEndNs <= s
      BY <1>3 DEF EndsBy
    <2>2. past[i] \in Buckets
      BY <1>2
    <2>3. past[i].mBucketEndNs \in Int
      BY <2>2 DEF Buckets
    <2> QED BY <1>2, <1>5, <2>1, <2>3
  <1>8. CASE k \in Uploaded(m)
    <2>1. EndsBy(Append(past, b), next) /\ InOrder(Append(past, b))
      BY <1>2, <1>3, <1>4, <1>6, AppendInOrder
    <2>2. OnGrid(Append(past, b))
      <3> DEFINE n == m.mCurrentBucketNum
      <3>1. /\ TimeBase + n * BucketSize <= b.mBucketStartNs
            /\ b.mBucketStartNs < TimeBase + (n + 1) * BucketSize
            /\ b.mBucketEndNs <= TimeBase + (n + 1) * BucketSize
        BY <1>4, <1>5, <1>6
      <3>2. n \in Nat
        BY <1>2
      <3> HIDE DEF n
      <3> QED BY <1>2, <1>3, <3>1, <3>2, AppendOnGrid
    <2> QED BY <1>1, <1>8, <2>1, <2>2
  <1>9. CASE k \notin Uploaded(m)
    BY <1>1, <1>3, <1>7, <1>9
  <1> QED BY <1>8, <1>9 DEF f

\* Changing one field of the record leaves the others alone.
LEMMA ChangeNum ==
  ASSUME NEW m \in Metrics, NEW n \in Nat
  PROVE  LET f == [m EXCEPT !.mCurrentBucketNum = @ + n]
         IN  /\ f \in Metrics
             /\ f.mCurrentBucketNum = m.mCurrentBucketNum + n
             /\ f.mCurrentBucketStartTimeNs = m.mCurrentBucketStartTimeNs
             /\ f.mPastBuckets = m.mPastBuckets
             /\ f.mConditionTimer = m.mConditionTimer
  BY DEF Metrics

\* Switching the condition timer disturbs neither the types, nor the current
\* bucket, nor the past ones.
LEMMA ChangeTimer ==
  ASSUME NEW m \in Metrics, NEW timer \in ConditionTimers
  PROVE  LET f == [m EXCEPT !.mConditionTimer = timer]
         IN  /\ f \in Metrics
             /\ f.mConditionTimer = timer
             /\ f.mCurrentBucketNum = m.mCurrentBucketNum
             /\ f.mCurrentBucketStartTimeNs = m.mCurrentBucketStartTimeNs
             /\ f.mPastBuckets = m.mPastBuckets
             /\ (GridOf(m) => GridOf(f)) /\ (PastOf(m) => PastOf(f))
  BY DEF Metrics, GridOf, PastOf, getCurrentBucketEndTimeNs

\* Counting one event (the end of onMatchedLogEventInternalLocked) changes no
\* bucket boundary.
LEMMA CountOne ==
  ASSUME NEW m \in Metrics, NEW k \in Keys
  PROVE  LET f == [m EXCEPT !.mCurrentSlicedCounter[k] = @ + 1]
         IN  /\ f \in Metrics
             /\ f.mConditionTimer = m.mConditionTimer
             /\ f.mCurrentBucketNum = m.mCurrentBucketNum
             /\ f.mCurrentBucketStartTimeNs = m.mCurrentBucketStartTimeNs
             /\ f.mPastBuckets = m.mPastBuckets
             /\ (GridOf(m) => GridOf(f)) /\ (PastOf(m) => PastOf(f))
  <1> DEFINE c == [m.mCurrentSlicedCounter EXCEPT ![k] = @ + 1]
             f == [m EXCEPT !.mCurrentSlicedCounter = c]
  <1>1. m.mCurrentSlicedCounter \in Counters
    BY DEF Metrics
  <1>2. c \in Counters
    BY <1>1 DEF Counters
  <1> HIDE DEF c
  <1>3. /\ f \in Metrics
        /\ f.mConditionTimer = m.mConditionTimer
        /\ f.mCurrentBucketNum = m.mCurrentBucketNum
        /\ f.mCurrentBucketStartTimeNs = m.mCurrentBucketStartTimeNs
        /\ f.mPastBuckets = m.mPastBuckets
    BY <1>2 DEF Metrics
  <1>4. (GridOf(m) => GridOf(f)) /\ (PastOf(m) => PastOf(f))
    BY <1>3 DEF GridOf, PastOf, getCurrentBucketEndTimeNs
  <1> QED BY <1>3, <1>4 DEF c

\* Dropping the past buckets.
LEMMA WithoutPastInv ==
  ASSUME NEW m \in Metrics
  PROVE  LET f == WithoutPast(m)
         IN  /\ f \in Metrics
             /\ f.mConditionTimer = m.mConditionTimer
             /\ f.mCurrentBucketStartTimeNs = m.mCurrentBucketStartTimeNs
             /\ (GridOf(m) => GridOf(f)) /\ PastOf(f)
  <1> DEFINE e == [k \in Keys |-> << >>]
             f == [m EXCEPT !.mPastBuckets = e, !.mTotalDataSize = 0]
  <1>1. e \in [Keys -> Seq(Buckets)] /\ \A k \in Keys : Len(e[k]) = 0
    OBVIOUS
  <1> HIDE DEF e
  <1>2. /\ f \in Metrics
        /\ f.mConditionTimer = m.mConditionTimer
        /\ f.mCurrentBucketNum = m.mCurrentBucketNum
        /\ f.mCurrentBucketStartTimeNs = m.mCurrentBucketStartTimeNs
        /\ f.mPastBuckets = e
    <2> DEFINE g == [m EXCEPT !.mPastBuckets = e]
    <2>1. /\ g \in Metrics
          /\ g.mConditionTimer = m.mConditionTimer
          /\ g.mCurrentBucketNum = m.mCurrentBucketNum
          /\ g.mCurrentBucketStartTimeNs = m.mCurrentBucketStartTimeNs
          /\ g.mPastBuckets = e
      BY <1>1 DEF Metrics
    <2>2. f = [g EXCEPT !.mTotalDataSize = 0]
      OBVIOUS
    <2> HIDE DEF g
    <2>3. [g EXCEPT !.mTotalDataSize = 0] \in Metrics
      BY <2>1 DEF Metrics
    <2>4. /\ [g EXCEPT !.mTotalDataSize = 0].mConditionTimer = g.mConditionTimer
          /\ [g EXCEPT !.mTotalDataSize = 0].mCurrentBucketNum = g.mCurrentBucketNum
          /\ [g EXCEPT !.mTotalDataSize = 0].mCurrentBucketStartTimeNs
               = g.mCurrentBucketStartTimeNs
          /\ [g EXCEPT !.mTotalDataSize = 0].mPastBuckets = g.mPastBuckets
      BY <2>1 DEF Metrics
    <2> QED BY <2>1, <2>2, <2>3, <2>4
  <1>3. GridOf(m) => GridOf(f)
    BY <1>2 DEF GridOf, getCurrentBucketEndTimeNs
  <1>4. \A i \in 1 .. 0 : FALSE
    OBVIOUS
  <1>5. PastOf(f)
    BY <1>1, <1>2, <1>4 DEF PastOf, EndsBy, InOrder, OnGrid
  <1> QED BY <1>2, <1>3, <1>5 DEF WithoutPast, e

\* flushIfNeededLocked leaves a bucket that is on the grid and contains t.
LEMMA FlushIfNeededInv ==
  ASSUME NEW m \in Metrics, NEW t \in Int, GridOf(m), PastOf(m),
         m.mCurrentBucketStartTimeNs <= t
  PROVE  LET f == flushIfNeededLocked(m, t)
         IN  /\ f \in Metrics /\ GridOf(f) /\ PastOf(f)
             /\ f.mCurrentBucketStartTimeNs <= t
             /\ t < getCurrentBucketEndTimeNs(f)
  <1> DEFINE f == flushIfNeededLocked(m, t)
  <1>1. CASE t < getCurrentBucketEndTimeNs(m)
    BY <1>1 DEF flushIfNeededLocked
  <1>2. CASE ~(t < getCurrentBucketEndTimeNs(m))
    <2> DEFINE next == nextBucketNs(m, t)
               n == numBucketsForward(m, t)
               g == flushCurrentBucketLocked(m, t, next)
    <2>1. t >= getCurrentBucketEndTimeNs(m)
      BY <1>2, EndIsInt
    <2>2. /\ n \in Nat \ {0} /\ next \in Int
          /\ next = TimeBase + (m.mCurrentBucketNum + n) * BucketSize
          /\ getCurrentBucketEndTimeNs(m) <= next /\ next <= t
          /\ t < TimeBase + (m.mCurrentBucketNum + n + 1) * BucketSize
      BY <2>1, NextBucketOnGrid
    <2> HIDE DEF next, n
    <2>3. g \in Metrics
      BY <2>2, FlushCurrentType
    <2>4. PastOf(g)
      BY <2>1, <2>2, FlushCurrentPast
    <2>5. g.mCurrentBucketStartTimeNs = next /\ g.mCurrentBucketNum = m.mCurrentBucketNum
      BY DEF flushCurrentBucketLocked
    <2>6. f = [g EXCEPT !.mCurrentBucketNum = @ + n]
      BY <1>2 DEF flushIfNeededLocked, next, n
    <2> HIDE DEF f, g
    <2>7. /\ f \in Metrics
          /\ f.mCurrentBucketNum = m.mCurrentBucketNum + n
          /\ f.mCurrentBucketStartTimeNs = next
          /\ f.mPastBuckets = g.mPastBuckets
      <3>1. n \in Nat /\ m.mCurrentBucketNum \in Nat /\ m.mCurrentBucketNum + n \in Nat
        BY <2>2 DEF Metrics
      <3> QED BY <2>3, <2>5, <2>6, <3>1, ChangeNum
    <2>8. PastOf(f)
      BY <2>4, <2>5, <2>7 DEF PastOf
    <2>9. getCurrentBucketEndTimeNs(f) = TimeBase + (m.mCurrentBucketNum + n + 1) * BucketSize
      BY <2>7 DEF getCurrentBucketEndTimeNs
    <2>10. getCurrentBucketEndTimeNs(f) \in Int
      BY <2>7, EndIsInt
    <2>11. GridOf(f)
      BY <2>2, <2>7, <2>9, <2>10 DEF GridOf
    <2>12. t < getCurrentBucketEndTimeNs(f)
      BY <2>2, <2>9
    <2> QED BY <2>2, <2>7, <2>8, <2>11, <2>12 DEF f
  <1> QED BY <1>1, <1>2

\* flushLocked leaves an empty bucket that starts at t.
LEMMA FlushInv ==
  ASSUME NEW m \in Metrics, NEW t \in Int, GridOf(m), PastOf(m),
         m.mCurrentBucketStartTimeNs <= t
  PROVE  LET f == flushLocked(m, t)
         IN  /\ f \in Metrics /\ GridOf(f) /\ PastOf(f)
             /\ f.mCurrentBucketStartTimeNs = t
  <1> DEFINE g == flushIfNeededLocked(m, t)
             f == flushCurrentBucketLocked(g, t, t)
  <1>1. /\ g \in Metrics /\ GridOf(g) /\ PastOf(g)
        /\ g.mCurrentBucketStartTimeNs <= t /\ t < getCurrentBucketEndTimeNs(g)
    BY FlushIfNeededInv
  <1> HIDE DEF g
  <1>2. f \in Metrics /\ PastOf(f)
    BY <1>1, FlushCurrentType, FlushCurrentPast
  <1>3. f.mCurrentBucketStartTimeNs = t /\ f.mCurrentBucketNum = g.mCurrentBucketNum
    BY DEF flushCurrentBucketLocked
  <1> HIDE DEF f
  <1>4. TimeBase + g.mCurrentBucketNum * BucketSize <= t
    <2>1. g.mCurrentBucketStartTimeNs \in Int /\ g.mCurrentBucketNum \in Nat
          /\ BucketSize \in Nat /\ TimeBase \in Nat
      BY <1>1, BucketSizeAssumption, TimeAssumption DEF Metrics
    <2>2. g.mCurrentBucketNum * BucketSize \in Nat
      BY <2>1
    <2> QED BY <1>1, <2>1, <2>2 DEF GridOf
  <1>5. GridOf(f)
    BY <1>1, <1>3, <1>4 DEF GridOf, getCurrentBucketEndTimeNs
  <1>6. flushLocked(m, t) = f
    BY DEF flushLocked, f, g
  <1> QED BY <1>2, <1>3, <1>5, <1>6

\* The same two operations, as to types only.
LEMMA FlushIfNeededType ==
  ASSUME NEW m \in Metrics, NEW t \in Int
  PROVE  flushIfNeededLocked(m, t) \in Metrics
  <1>1. CASE t < getCurrentBucketEndTimeNs(m)
    BY <1>1 DEF flushIfNeededLocked
  <1>2. CASE ~(t < getCurrentBucketEndTimeNs(m))
    <2> DEFINE g == flushCurrentBucketLocked(m, t, nextBucketNs(m, t))
    <2>1. t >= getCurrentBucketEndTimeNs(m)
      BY <1>2, EndIsInt
    <2>2. numBucketsForward(m, t) \in Nat /\ nextBucketNs(m, t) \in Int
      BY <2>1, NextBucketOnGrid
    <2>3. g \in Metrics
      BY <2>2, FlushCurrentType
    <2>4. flushIfNeededLocked(m, t)
            = [g EXCEPT !.mCurrentBucketNum = @ + numBucketsForward(m, t)]
      BY <1>2 DEF flushIfNeededLocked
    <2> HIDE DEF g
    <2> QED BY <2>2, <2>3, <2>4, ChangeNum
  <1> QED BY <1>1, <1>2

\* flushLocked yields a well-typed record.
LEMMA FlushType ==
  ASSUME NEW m \in Metrics, NEW t \in Int
  PROVE  flushLocked(m, t) \in Metrics
  BY FlushIfNeededType, FlushCurrentType DEF flushLocked

\* Closing buckets leaves the timer running or not, and moves condition time
\* into laps only.
LEMMA FlushIfNeededLap ==
  ASSUME NEW m \in Metrics, NEW t \in Int, NEW r \in Int
  PROVE  LET timer == flushIfNeededLocked(m, t).mConditionTimer
         IN  /\ timer.mCondition = m.mConditionTimer.mCondition
             /\ LapIfNeeded(m, t) \in Int
             /\ LapIfNeeded(m, t) + Elapsed(timer, r) = Elapsed(m.mConditionTimer, r)
  <1>0. m.mConditionTimer \in ConditionTimers
    BY DEF Metrics
  <1>1. CASE t < getCurrentBucketEndTimeNs(m)
    <2>1. LapIfNeeded(m, t) = 0 /\ flushIfNeededLocked(m, t) = m
      BY <1>1 DEF LapIfNeeded, flushIfNeededLocked
    <2>2. Elapsed(m.mConditionTimer, r) \in Int
      BY <1>0, TimerType
    <2> QED BY <2>1, <2>2
  <1>2. CASE ~(t < getCurrentBucketEndTimeNs(m))
    <2> DEFINE next == nextBucketNs(m, t)
               g == flushCurrentBucketLocked(m, t, next)
               f == flushIfNeededLocked(m, t)
    <2>1. t >= getCurrentBucketEndTimeNs(m)
      BY <1>2, EndIsInt
    <2>2. numBucketsForward(m, t) \in Nat /\ next \in Int
      BY <2>1, NextBucketOnGrid
    <2> HIDE DEF next
    <2>3. g \in Metrics /\ g.mConditionTimer = NewBucketStart(m.mConditionTimer, t, next)
      BY <2>2, FlushCurrentType DEF flushCurrentBucketLocked
    <2>4. f = [g EXCEPT !.mCurrentBucketNum = @ + numBucketsForward(m, t)]
      BY <1>2 DEF flushIfNeededLocked, next
    <2> HIDE DEF g, f
    <2>5. f.mConditionTimer = NewBucketStart(m.mConditionTimer, t, next)
      BY <2>2, <2>3, <2>4, ChangeNum
    <2>6. LapIfNeeded(m, t) = LapDuration(m.mConditionTimer, next)
      BY <1>2 DEF LapIfNeeded, next
    <2>7. f.mConditionTimer.mCondition = m.mConditionTimer.mCondition
      BY <2>5 DEF NewBucketStart
    <2>8. LapDuration(m.mConditionTimer, next) \in Int
      BY <1>0, <2>2, TimerType
    <2>9. LapDuration(m.mConditionTimer, next) + Elapsed(f.mConditionTimer, r)
            = Elapsed(m.mConditionTimer, r)
      BY <1>0, <2>2, <2>5, LapConserved
    <2> QED BY <2>6, <2>7, <2>8, <2>9 DEF f
  <1> QED BY <1>1, <1>2

\* The same for flushLocked, which closes up to two laps.
LEMMA FlushLap ==
  ASSUME NEW m \in Metrics, NEW t \in Int, NEW r \in Int
  PROVE  LET timer == flushLocked(m, t).mConditionTimer
         IN  /\ timer.mCondition = m.mConditionTimer.mCondition
             /\ LapsOfFlush(m, t) \in Int
             /\ LapsOfFlush(m, t) + Elapsed(timer, r) = Elapsed(m.mConditionTimer, r)
  <1> DEFINE g == flushIfNeededLocked(m, t)
             timer == NewBucketStart(g.mConditionTimer, t, t)
  <1>1. g \in Metrics
    BY FlushIfNeededType
  <1>2. g.mConditionTimer \in ConditionTimers
    BY <1>1 DEF Metrics
  <1>3. /\ g.mConditionTimer.mCondition = m.mConditionTimer.mCondition
        /\ LapIfNeeded(m, t) \in Int
        /\ LapIfNeeded(m, t) + Elapsed(g.mConditionTimer, r) = Elapsed(m.mConditionTimer, r)
    BY FlushIfNeededLap
  <1>4. LapsOfFlush(m, t) = LapIfNeeded(m, t) + LapDuration(g.mConditionTimer, t)
    BY DEF LapsOfFlush
  <1>5. flushLocked(m, t).mConditionTimer = timer
    BY DEF flushLocked, flushCurrentBucketLocked
  <1> HIDE DEF g
  <1>6. timer.mCondition = g.mConditionTimer.mCondition
    BY DEF NewBucketStart
  <1>7. timer \in ConditionTimers /\ LapDuration(g.mConditionTimer, t) \in Int
    BY <1>2, TimerType
  <1>8. LapDuration(g.mConditionTimer, t) + Elapsed(timer, r) = Elapsed(g.mConditionTimer, r)
    BY <1>2, LapConserved
  <1> HIDE DEF timer
  <1>9. Elapsed(timer, r) \in Int
    BY <1>7, TimerType
  <1>10. LapsOfFlush(m, t) \in Int
    BY <1>3, <1>4, <1>7
  <1>11. LapsOfFlush(m, t) + Elapsed(timer, r) = Elapsed(m.mConditionTimer, r)
    BY <1>3, <1>4, <1>7, <1>8, <1>9
  <1> QED BY <1>3, <1>5, <1>6, <1>10, <1>11

-----------------------------------------------------------------------------
(* Type correctness. *)

\* The constructor yields a well-typed record.
LEMMA NewMetricType ==
  /\ NewMetric \in Metrics
  /\ NewMetric.mCurrentBucketStartTimeNs = StartTime
  /\ GridOf(NewMetric) /\ PastOf(NewMetric)
  /\ NewMetric.mConditionTimer.mCondition
       <=> (~HasActivation /\ InitialCondition = "kTrue")
  /\ Elapsed(NewMetric.mConditionTimer, StartTime) = 0
  <1> DEFINE t0 == NewConditionTimer(FALSE, TimeBase)
             none == [k \in Keys |-> << >>]
             m0 == [mCurrentBucketStartTimeNs |-> TimeBase, mCurrentBucketNum |-> 0,
                    mConditionTimer |-> t0,
                    mCurrentSlicedCounter |-> Zero, mCurrentFullCounters |-> Zero,
                    mPastBuckets |-> none, mTotalDataSize |-> 0]
             m1 == flushIfNeededLocked(m0, StartTime)
             c == ~HasActivation /\ InitialCondition = "kTrue"
             t1 == NewBucketStart(m1.mConditionTimer, StartTime, StartTime)
             t2 == OnConditionChanged(t1, c, StartTime)
             m2 == [m1 EXCEPT !.mCurrentBucketStartTimeNs = StartTime]
  <1>1. t0 \in ConditionTimers /\ t0.mCondition = FALSE
        /\ t0.mTimerNs = 0 /\ t0.mLastConditionChangeTimestampNs = 0
    BY DEF NewConditionTimer, ConditionTimers
  <1>2. Zero \in Counters
    BY DEF Zero, Counters
  <1>3. none \in [Keys -> Seq(Buckets)] /\ \A k \in Keys : none[k] = << >>
    OBVIOUS
  <1>4. TimeBase \in Int /\ StartTime \in Int /\ TimeBase <= StartTime /\ StartTime \in Nat
        /\ TimeBase \in Nat
    BY TimeAssumption
  <1> HIDE DEF t0, none
  <1>5. m0 \in Metrics
    BY <1>1, <1>2, <1>3, <1>4 DEF Metrics
  <1>6. /\ m0.mCurrentBucketStartTimeNs = TimeBase /\ m0.mCurrentBucketNum = 0
        /\ m0.mPastBuckets = none /\ m0.mConditionTimer = t0
    OBVIOUS
  <1> HIDE DEF m0
  <1>7. GridOf(m0)
    BY <1>4, <1>6, BucketSizeAssumption DEF GridOf, getCurrentBucketEndTimeNs
  <1>8. PastOf(m0)
    <2>1. Len(<< >>) = 0 /\ \A i \in 1 .. 0 : FALSE
      OBVIOUS
    <2> QED BY <1>3, <1>6, <2>1 DEF PastOf, EndsBy, InOrder, OnGrid
  <1>9. /\ m1 \in Metrics /\ GridOf(m1) /\ PastOf(m1)
        /\ m1.mCurrentBucketStartTimeNs <= StartTime
        /\ StartTime < getCurrentBucketEndTimeNs(m1)
    BY <1>4, <1>5, <1>6, <1>7, <1>8, FlushIfNeededInv
  <1>10. m1.mConditionTimer \in ConditionTimers /\ m1.mConditionTimer.mCondition = FALSE
         /\ m1.mConditionTimer.mTimerNs = 0
         /\ m1.mConditionTimer.mLastConditionChangeTimestampNs = 0
    <2>1. CASE StartTime < getCurrentBucketEndTimeNs(m0)
      BY <1>1, <1>6, <2>1 DEF flushIfNeededLocked
    <2>2. CASE ~(StartTime < getCurrentBucketEndTimeNs(m0))
      <3> DEFINE next == nextBucketNs(m0, StartTime)
                 g == flushCurrentBucketLocked(m0, StartTime, next)
      <3>1. StartTime >= getCurrentBucketEndTimeNs(m0)
        BY <1>4, <1>5, <2>2, EndIsInt
      <3>2. /\ numBucketsForward(m0, StartTime) \in Nat /\ next \in Int
            /\ next >= getCurrentBucketEndTimeNs(m0)
            /\ getCurrentBucketEndTimeNs(m0) \in Int
        BY <1>4, <1>5, <3>1, NextBucketOnGrid
      <3>3. getCurrentBucketEndTimeNs(m0) >= 0
        BY <1>4, <1>6, BucketSizeAssumption DEF getCurrentBucketEndTimeNs
      <3> HIDE DEF next
      <3>4. g \in Metrics /\ g.mConditionTimer = NewBucketStart(t0, StartTime, next)
        BY <1>4, <1>5, <1>6, <3>2, FlushCurrentType DEF flushCurrentBucketLocked
      <3>5. m1 = [g EXCEPT !.mCurrentBucketNum = @ + numBucketsForward(m0, StartTime)]
        BY <2>2 DEF flushIfNeededLocked, next
      <3> HIDE DEF g, m1
      <3>6. m1.mConditionTimer = NewBucketStart(t0, StartTime, next)
        BY <3>2, <3>4, <3>5, ChangeNum
      <3>7. NewBucketStart(t0, StartTime, next) \in ConditionTimers
        BY <1>1, <1>4, <3>2, TimerType
      <3>8. ~HeldAtEdge(t0, next)
        BY <1>1, <3>2, <3>3 DEF HeldAtEdge
      <3> QED BY <1>1, <3>6, <3>7, <3>8 DEF NewBucketStart
    <2> QED BY <2>1, <2>2
  <1> HIDE DEF m1
  <1>11. t1 \in ConditionTimers /\ t1.mCondition = FALSE /\ t1.mTimerNs = 0
    <2>1. ~HeldAtEdge(m1.mConditionTimer, StartTime)
      BY <1>4, <1>10 DEF HeldAtEdge
    <2> QED BY <1>4, <1>10, <2>1, TimerType DEF NewBucketStart
  <1> HIDE DEF t1
  <1>12. c \in BOOLEAN
    OBVIOUS
  <1>13. t2 \in ConditionTimers
    BY <1>4, <1>11, <1>12, TimerType
  <1>14. (t2.mCondition <=> c) /\ Elapsed(t2, StartTime) = 0
    <2>1. CASE c
      <3>1. c = TRUE
        BY <2>1, <1>12
      <3>2. c # t1.mCondition
        BY <1>11, <3>1
      <3>3. t2 = [mCondition |-> c, mTimerNs |-> t1.mTimerNs,
                  mCurrentBucketStartDelayNs |-> t1.mCurrentBucketStartDelayNs,
                  mLastConditionChangeTimestampNs |-> StartTime]
        BY <3>2, <2>1, Zenon DEF OnConditionChanged
      <3>4. t2.mCondition = c /\ t2.mTimerNs = 0 /\ t2.mLastConditionChangeTimestampNs = StartTime
        <4> HIDE DEF t2, c
        <4> QED BY <3>3, <1>11
      <3> HIDE DEF t2, c
      <3>5. Elapsed(t2, StartTime) = 0
        BY <1>4, <3>4 DEF Elapsed
      <3> QED BY <3>4, <3>5
    <2>2. CASE ~c
      <3>1. c = FALSE
        BY <2>2, <1>12
      <3>2. t2 = t1
        BY <1>11, <3>1 DEF OnConditionChanged
      <3> HIDE DEF t2, c
      <3>3. Elapsed(t2, StartTime) = 0
        BY <1>4, <1>11, <3>2 DEF Elapsed
      <3> QED BY <1>11, <3>1, <3>2, <3>3
    <2> QED BY <2>1, <2>2
  <1>15. NewMetric = [m2 EXCEPT !.mConditionTimer = t2]
    BY DEF NewMetric, m0, m1, t0, t1, none
  <1>16. /\ m2 \in Metrics /\ m2.mCurrentBucketStartTimeNs = StartTime
         /\ m2.mCurrentBucketNum = m1.mCurrentBucketNum
         /\ m2.mPastBuckets = m1.mPastBuckets
    BY <1>4, <1>9 DEF Metrics
  <1> HIDE DEF m2, t2, c
  <1>17. GridOf(m2)
    <2>1. m1.mCurrentBucketStartTimeNs \in Int /\ m1.mCurrentBucketNum \in Nat
          /\ BucketSize \in Nat /\ m1.mCurrentBucketNum * BucketSize \in Nat
      BY <1>9, BucketSizeAssumption DEF Metrics
    <2>2. TimeBase + m1.mCurrentBucketNum * BucketSize <= StartTime
      BY <1>4, <1>9, <2>1 DEF GridOf
    <2> QED BY <1>9, <1>16, <2>2 DEF GridOf, getCurrentBucketEndTimeNs
  <1>18. PastOf(m2)
    <2> SUFFICES ASSUME NEW k \in Keys
                 PROVE  /\ EndsBy(m1.mPastBuckets[k], StartTime)
                        /\ InOrder(m1.mPastBuckets[k]) /\ OnGrid(m1.mPastBuckets[k])
      BY <1>16 DEF PastOf
    <2>1. /\ EndsBy(m1.mPastBuckets[k], m1.mCurrentBucketStartTimeNs)
          /\ InOrder(m1.mPastBuckets[k]) /\ OnGrid(m1.mPastBuckets[k])
          /\ m1.mPastBuckets[k] \in Seq(Buckets)
          /\ m1.mCurrentBucketStartTimeNs \in Int
      BY <1>9 DEF PastOf, Metrics
    <2>2. ASSUME NEW i \in 1 .. Len(m1.mPastBuckets[k])
          PROVE  m1.mPastBuckets[k][i].mBucketEndNs <= StartTime
      <3>1. m1.mPastBuckets[k][i] \in Buckets
        BY <2>1
      <3>2. m1.mPastBuckets[k][i].mBucketEndNs \in Int
        BY <3>1 DEF Buckets
      <3>3. m1.mPastBuckets[k][i].mBucketEndNs <= m1.mCurrentBucketStartTimeNs
        BY <2>1 DEF EndsBy
      <3> QED BY <1>4, <1>9, <2>1, <3>2, <3>3
    <2>3. EndsBy(m1.mPastBuckets[k], StartTime)
      BY <2>1, <2>2 DEF EndsBy
    <2> QED BY <2>1, <2>3
  <1> QED
    BY <1>13, <1>14, <1>15, <1>16, <1>17, <1>18, ChangeTimer DEF c

\* The types of what every operation computes besides metric: the clocks, the
\* condition time and the corruption flags.
LEMMA ClockType ==
  ASSUME TypeOK, NEW t \in 0 .. MaxTime, NEW laps \in Int
  PROVE  /\ t \in Int
         /\ Called(t) => now' \in Nat /\ logTime' \in Nat /\ fresh' \in BOOLEAN
         /\ CalledForEvent(t) => now' \in Nat /\ logTime' \in Nat /\ fresh' \in BOOLEAN
         /\ CountConditionTime(laps) /\ now' \in Nat =>
              condReported' \in Int /\ condTotal' \in Int
  <1>1. t \in Nat /\ t \in Int /\ now \in Nat /\ logTime \in Nat
        /\ condReported \in Int /\ condTotal \in Int
    BY TimeAssumption DEF TypeOK
  <1>2. Called(t) => now' \in Nat /\ logTime' \in Nat /\ fresh' \in BOOLEAN
    BY <1>1 DEF Called
  <1>3. CalledForEvent(t) => now' \in Nat /\ logTime' \in Nat /\ fresh' \in BOOLEAN
    BY <1>1 DEF CalledForEvent
  <1>4. CountConditionTime(laps) /\ now' \in Nat =>
          condReported' \in Int /\ condTotal' \in Int
    <2> SUFFICES ASSUME CountConditionTime(laps), now' \in Nat
                 PROVE  condReported' \in Int /\ condTotal' \in Int
      OBVIOUS
    <2>1. condReported' = condReported + laps
      BY DEF CountConditionTime
    <2>2. condTotal' = condTotal + (now' - now) \/ condTotal' = condTotal
      BY Zenon DEF CountConditionTime
    <2> QED BY <1>1, <2>1, <2>2
  <1> QED BY <1>1, <1>2, <1>3, <1>4

\* resetDataCorruptionFlagsLocked yields severities again.
LEMMA ResetType ==
  ASSUME TypeOK
  PROVE  resetDataCorruptionFlags \in [Reasons -> Severities]
  BY DEF TypeOK, resetDataCorruptionFlags, Severities, kNone, kUnrecoverable

\* Every step keeps the types, whatever the time it carries.
LEMMA TypeStep == TypeOK /\ [Next]_vars => TypeOK'
  <1> SUFFICES ASSUME TypeOK, [Next]_vars PROVE TypeOK'
    OBVIOUS
  <1>0. metric \in Metrics /\ metric.mConditionTimer \in ConditionTimers
    BY DEF TypeOK, Metrics
  <1>1. ASSUME NEW t \in 0 .. MaxTime, NEW k \in Keys, onMatchedLogEvent(k, t)
        PROVE  TypeOK'
    <2>1. t \in Int /\ now' \in Nat /\ logTime' \in Nat /\ fresh' \in BOOLEAN
      <3>1. CalledForEvent(t)
        BY <1>1 DEF onMatchedLogEvent
      <3> QED BY <3>1, ClockType, 0 \in Int
    <2>2. LapIfNeeded(metric, t) \in Int /\ flushIfNeededLocked(metric, t) \in Metrics
      BY <1>0, <2>1, FlushIfNeededLap, FlushIfNeededType
    <2>3. metric' \in Metrics
      <3> DEFINE m == flushIfNeededLocked(metric, t)
      <3>1. \/ metric' = metric \/ metric' = m
            \/ metric' = [m EXCEPT !.mCurrentSlicedCounter[k] = @ + 1]
        BY <1>1, Zenon DEF onMatchedLogEvent
      <3> HIDE DEF m
      <3>2. m \in Metrics
        BY <2>2 DEF m
      <3>3. [m EXCEPT !.mCurrentSlicedCounter[k] = @ + 1] \in Metrics
        BY <3>2, CountOne
      <3> QED BY <1>0, <3>1, <3>2, <3>3
    <2>4. condReported' \in Int /\ condTotal' \in Int
      <3>1. CountConditionTime(0) \/ CountConditionTime(LapIfNeeded(metric, t))
        BY <1>1, Zenon DEF onMatchedLogEvent
      <3> QED BY <2>1, <2>2, <3>1, ClockType, 0 \in Int
    <2>5. mDimensionGuardrailHit' \in BOOLEAN
      <3>1. \/ mDimensionGuardrailHit' = mDimensionGuardrailHit
            \/ mDimensionGuardrailHit' = (mDimensionGuardrailHit \/ mCondition = "kTrue")
        BY <1>1, Zenon DEF onMatchedLogEvent
      <3> QED BY <3>1 DEF TypeOK
    <2>6. /\ mCondition' = mCondition /\ mIsActive' = mIsActive /\ corrupted' = corrupted
      BY <1>1 DEF onMatchedLogEvent
    <2> QED BY <2>1, <2>3, <2>4, <2>5, <2>6 DEF TypeOK, Metrics
  <1>2. ASSUME NEW t \in 0 .. MaxTime, NEW c \in BOOLEAN, onConditionChanged(c, t)
        PROVE  TypeOK'
    <2>1. t \in Int /\ now' \in Nat /\ logTime' \in Nat /\ fresh' \in BOOLEAN
      <3>1. CalledForEvent(t)
        BY <1>2 DEF onConditionChanged
      <3> QED BY <3>1, ClockType, 0 \in Int
    <2>2. metric' \in Metrics
      <3> DEFINE timer == OnConditionChanged(metric.mConditionTimer, c, t)
      <3>1. timer \in ConditionTimers
        BY <1>0, <2>1, TimerType
      <3>2. metric' = metric \/ metric' = [metric EXCEPT !.mConditionTimer = timer]
        BY <1>2 DEF onConditionChanged
      <3> HIDE DEF timer
      <3> QED BY <1>0, <3>1, <3>2, ChangeTimer
    <2>3. condReported' \in Int /\ condTotal' \in Int
      <3>1. CountConditionTime(0)
        BY <1>2 DEF onConditionChanged
      <3> QED BY <2>1, <3>1, ClockType, 0 \in Int
    <2>4. mCondition' \in ConditionStates
      BY <1>2 DEF onConditionChanged, ConditionStates
    <2>5. /\ mDimensionGuardrailHit' = mDimensionGuardrailHit /\ mIsActive' = mIsActive
          /\ corrupted' = corrupted
      BY <1>2 DEF onConditionChanged
    <2> QED BY <2>1, <2>2, <2>3, <2>4, <2>5 DEF TypeOK, Metrics
  <1>3. ASSUME NEW t \in 0 .. MaxTime, activate(t)
        PROVE  TypeOK'
    <2>1. t \in Int /\ now' \in Nat /\ logTime' \in Nat /\ fresh' \in BOOLEAN
      <3>1. CalledForEvent(t)
        BY <1>3 DEF activate
      <3> QED BY <3>1, ClockType, 0 \in Int
    <2>2. metric' \in Metrics
      <3> DEFINE timer == OnConditionChanged(metric.mConditionTimer, TRUE, t)
      <3>1. timer \in ConditionTimers
        BY <1>0, <2>1, TimerType
      <3>2. metric' = metric \/ metric' = [metric EXCEPT !.mConditionTimer = timer]
        BY <1>3 DEF activate
      <3> HIDE DEF timer
      <3> QED BY <1>0, <3>1, <3>2, ChangeTimer
    <2>3. condReported' \in Int /\ condTotal' \in Int
      <3>1. CountConditionTime(0)
        BY <1>3 DEF activate
      <3> QED BY <2>1, <3>1, ClockType, 0 \in Int
    <2>4. /\ mDimensionGuardrailHit' = mDimensionGuardrailHit /\ mIsActive' = TRUE
          /\ corrupted' = corrupted /\ mCondition' = mCondition
      BY <1>3 DEF activate
    <2> QED BY <2>1, <2>2, <2>3, <2>4 DEF TypeOK, Metrics
  <1>4. ASSUME NEW t \in 0 .. MaxTime, flushIfExpire(t)
        PROVE  TypeOK'
    <2>1. t \in Int /\ now' \in Nat /\ logTime' \in Nat /\ fresh' \in BOOLEAN
      <3>1. CalledForEvent(t)
        BY <1>4 DEF flushIfExpire
      <3> QED BY <3>1, ClockType, 0 \in Int
    <2>2. metric' \in Metrics
      <3> DEFINE m == flushLocked(metric, t)
                 timer == OnConditionChanged(m.mConditionTimer, FALSE, t)
      <3>1. metric' = m \/ metric' = [m EXCEPT !.mConditionTimer = timer]
        BY <1>4 DEF flushIfExpire
      <3>2. m \in Metrics
        BY <1>0, <2>1, FlushType
      <3> HIDE DEF m
      <3>3. m.mConditionTimer \in ConditionTimers
        BY <3>2 DEF Metrics
      <3>4. timer \in ConditionTimers
        BY <3>3, <2>1, TimerType
      <3> HIDE DEF timer
      <3> QED BY <3>1, <3>2, <3>4, ChangeTimer
    <2>3. condReported' \in Int /\ condTotal' \in Int
      <3>1. CountConditionTime(LapsOfFlush(metric, t))
        BY <1>4 DEF flushIfExpire
      <3>2. LapsOfFlush(metric, t) \in Int
        BY <1>0, <2>1, FlushLap
      <3> QED BY <2>1, <3>1, <3>2, ClockType
    <2>4. /\ mDimensionGuardrailHit' = mDimensionGuardrailHit /\ mIsActive' = FALSE
          /\ corrupted' = corrupted /\ mCondition' = mCondition
      BY <1>4 DEF flushIfExpire
    <2> QED BY <2>1, <2>2, <2>3, <2>4 DEF TypeOK, Metrics
  <1>5. ASSUME NEW t \in 0 .. MaxTime, NEW partial \in BOOLEAN, NEW erase \in BOOLEAN,
               onDumpReport(t, partial, erase)
        PROVE  TypeOK'
    <2>1. t \in Int /\ now' \in Nat /\ logTime' \in Nat /\ fresh' \in BOOLEAN
      <3>1. Called(t)
        BY <1>5 DEF onDumpReport
      <3> QED BY <3>1, ClockType, 0 \in Int
    <2> DEFINE m == IF partial THEN flushLocked(metric, t) ELSE flushIfNeededLocked(metric, t)
    <2>2. m \in Metrics
      BY <1>0, <2>1, FlushType, FlushIfNeededType
    <2>3. metric' = WithoutPast(m) \/ metric' = m
      BY <1>5, Zenon DEF onDumpReport
    <2>4. mDimensionGuardrailHit' = mDimensionGuardrailHit \/ mDimensionGuardrailHit' = FALSE
      <3>1. mDimensionGuardrailHit'
              = (mDimensionGuardrailHit /\ ~(erase /\ ~NoPastBuckets(m)))
        BY <1>5, Zenon DEF onDumpReport
      <3> QED BY <3>1 DEF TypeOK
    <2> HIDE DEF m
    <2>5. metric' \in Metrics
      BY <2>2, <2>3, WithoutPastInv
    <2>6. condReported' \in Int /\ condTotal' \in Int
      <3> DEFINE laps == IF partial THEN LapsOfFlush(metric, t) ELSE LapIfNeeded(metric, t)
      <3>1. CountConditionTime(laps)
        BY <1>5, Zenon DEF onDumpReport
      <3>2. laps \in Int
        BY <1>0, <2>1, FlushLap, FlushIfNeededLap
      <3> HIDE DEF laps
      <3> QED BY <2>1, <3>1, <3>2, ClockType
    <2>7. corrupted' \in [Reasons -> Severities]
      <3>1. corrupted' = resetDataCorruptionFlags \/ corrupted' = corrupted
        BY <1>5 DEF onDumpReport
      <3> QED BY <3>1, ResetType DEF TypeOK
    <2>8. mCondition' = mCondition /\ mIsActive' = mIsActive
      BY <1>5 DEF onDumpReport
    <2> QED BY <2>1, <2>4, <2>5, <2>6, <2>7, <2>8 DEF TypeOK, Metrics
  <1>6. ASSUME NEW t \in 0 .. MaxTime, dropData(t)
        PROVE  TypeOK'
    <2>1. t \in Int /\ now' \in Nat /\ logTime' \in Nat /\ fresh' \in BOOLEAN
      <3>1. Called(t)
        BY <1>6 DEF dropData
      <3> QED BY <3>1, ClockType, 0 \in Int
    <2>2. metric' \in Metrics
      <3>1. metric' = WithoutPast(flushIfNeededLocked(metric, t))
        BY <1>6 DEF dropData
      <3> QED BY <1>0, <2>1, <3>1, FlushIfNeededType, WithoutPastInv
    <2>3. condReported' \in Int /\ condTotal' \in Int
      <3>1. CountConditionTime(LapIfNeeded(metric, t))
        BY <1>6 DEF dropData
      <3>2. LapIfNeeded(metric, t) \in Int
        BY <1>0, <2>1, FlushIfNeededLap
      <3> QED BY <2>1, <3>1, <3>2, ClockType
    <2>4. corrupted' \in [Reasons -> Severities]
      BY <1>6, ResetType DEF dropData
    <2>5. /\ mDimensionGuardrailHit' = mDimensionGuardrailHit
          /\ mCondition' = mCondition /\ mIsActive' = mIsActive
      BY <1>6 DEF dropData
    <2> QED BY <2>1, <2>2, <2>3, <2>4, <2>5 DEF TypeOK, Metrics
  <1>7. ASSUME NEW t \in 0 .. MaxTime, SplitBucket(t)
        PROVE  TypeOK'
    <2>1. t \in Int /\ now' \in Nat /\ logTime' \in Nat /\ fresh' \in BOOLEAN
      <3>1. Called(t)
        BY <1>7 DEF SplitBucket
      <3> QED BY <3>1, ClockType, 0 \in Int
    <2>2. metric' \in Metrics
      BY <1>0, <1>7, <2>1, FlushType DEF SplitBucket
    <2>3. condReported' \in Int /\ condTotal' \in Int
      <3>1. CountConditionTime(LapsOfFlush(metric, t))
        BY <1>7 DEF SplitBucket
      <3>2. LapsOfFlush(metric, t) \in Int
        BY <1>0, <2>1, FlushLap
      <3> QED BY <2>1, <3>1, <3>2, ClockType
    <2>4. /\ mDimensionGuardrailHit' = mDimensionGuardrailHit /\ mIsActive' = mIsActive
          /\ corrupted' = corrupted /\ mCondition' = mCondition
      BY <1>7 DEF SplitBucket
    <2> QED BY <2>1, <2>2, <2>3, <2>4 DEF TypeOK, Metrics
  <1>8. CASE loadActiveMetric
    BY <1>8 DEF loadActiveMetric, TypeOK
  <1>9. CASE clearPastBuckets
    <2>1. metric' \in Metrics
      BY <1>0, <1>9, WithoutPastInv DEF clearPastBuckets
    <2>2. corrupted' \in [Reasons -> Severities]
      BY <1>9, ResetType DEF clearPastBuckets
    <2>3. UNCHANGED <<mCondition, mIsActive, mDimensionGuardrailHit, now, logTime,
                      condReported, condTotal>> /\ fresh' = FALSE
      BY <1>9 DEF clearPastBuckets
    <2> QED BY <2>1, <2>2, <2>3 DEF TypeOK, Metrics
  <1>10. ASSUME NEW reason \in Reasons, NEW atomType \in {"kWhat", "kCondition", "kState"},
                onMatchedLogEventLost(reason, atomType)
         PROVE  TypeOK'
    <2>1. determineCorruptionSeverity(atomType) \in Severities
      BY DEF determineCorruptionSeverity, Severities, kResetOnDump, kUnrecoverable
    <2>2. corrupted' \in [Reasons -> Severities]
      BY <1>10, <2>1 DEF onMatchedLogEventLost, TypeOK
    <2>3. UNCHANGED <<metric, mCondition, mIsActive, mDimensionGuardrailHit, now, logTime,
                      condReported, condTotal>> /\ fresh' = FALSE
      BY <1>10 DEF onMatchedLogEventLost
    <2> QED BY <2>2, <2>3 DEF TypeOK
  <1>11. CASE UNCHANGED vars
    BY <1>11 DEF vars, TypeOK
  <1> QED
    BY <1>1, <1>2, <1>3, <1>4, <1>5, <1>6, <1>7, <1>8, <1>9, <1>10, <1>11
    DEF Next, notifyAppUpgrade, onStatsdInitCompleted

\* The constructor yields the types.
LEMMA TypeInit == Init => TypeOK
  <1> SUFFICES ASSUME Init PROVE TypeOK
    OBVIOUS
  <1>1. metric \in Metrics
    BY NewMetricType DEF Init
  <1>2. now \in Nat /\ logTime \in Nat /\ condReported \in Int /\ condTotal \in Int
    BY TimeAssumption DEF Init
  <1>3. /\ mCondition \in ConditionStates /\ mIsActive \in BOOLEAN
        /\ mDimensionGuardrailHit \in BOOLEAN /\ fresh \in BOOLEAN
    BY ConfigAssumption DEF Init
  <1>4. corrupted \in [Reasons -> Severities]
    BY DEF Init, Severities, kNone
  <1> QED BY <1>1, <1>2, <1>3, <1>4 DEF TypeOK, Metrics

\* Type correctness of the count metric under every order of its operations,
\* late log events and restored activations included.
THEOREM TypeCorrect == Spec => []TypeOK
  BY TypeInit, TypeStep, PTL DEF Spec

-----------------------------------------------------------------------------
(* Order of the buckets, when log events are processed in time order. *)

OrderInv ==
  GridOf(metric) /\ PastOf(metric) /\ metric.mCurrentBucketStartTimeNs <= now

\* OrderInv implies the three parts of BucketsInOrder.
LEMMA OrderInvMeans ==
  ASSUME OrderInv
  PROVE  CurrentBucketOnGrid /\ BucketsOrdered /\ BucketsOnGrid
  BY DEF OrderInv, GridOf, PastOf, EndsBy, InOrder, OnGrid,
         CurrentBucketOnGrid, BucketsOrdered, BucketsOnGrid

\* Without late events the clock of every call is the clock of the metric.
LEMMA ClockInOrder ==
  ASSUME TypeOK, Lateness = 0, NEW t \in 0 .. MaxTime
  PROVE  /\ t \in Int
         /\ Called(t) => now <= t /\ now' = t
         /\ CalledForEvent(t) => now <= t /\ now' = t
  BY TimeAssumption DEF TypeOK, Called, CalledForEvent

\* Every step keeps the buckets in order: a bucket closes at a time that is not
\* before its start.
LEMMA OrderStep ==
  ASSUME Lateness = 0
  PROVE  TypeOK /\ OrderInv /\ [Next]_vars => OrderInv'
  <1> SUFFICES ASSUME TypeOK, OrderInv, [Next]_vars PROVE OrderInv'
    OBVIOUS
  <1> DEFINE m0 == metric
  <1>0. /\ m0 \in Metrics /\ m0.mConditionTimer \in ConditionTimers
        /\ GridOf(m0) /\ PastOf(m0) /\ m0.mCurrentBucketStartTimeNs <= now
        /\ m0.mCurrentBucketStartTimeNs \in Int /\ now \in Int
    BY DEF TypeOK, OrderInv, Metrics
  <1>a. ASSUME NEW t \in 0 .. MaxTime, now <= t
        PROVE  LET f == flushIfNeededLocked(m0, t)
                   g == flushLocked(m0, t)
               IN  /\ t \in Int
                   /\ f \in Metrics /\ GridOf(f) /\ PastOf(f)
                   /\ f.mCurrentBucketStartTimeNs <= t
                   /\ g \in Metrics /\ GridOf(g) /\ PastOf(g)
                   /\ g.mCurrentBucketStartTimeNs = t
    <2>1. t \in Int /\ m0.mCurrentBucketStartTimeNs <= t
      BY <1>0, <1>a, ClockInOrder
    <2> QED BY <1>0, <2>1, FlushIfNeededInv, FlushInv
  <1>1. ASSUME NEW t \in 0 .. MaxTime, NEW k \in Keys, onMatchedLogEvent(k, t)
        PROVE  OrderInv'
    <2>1. now <= t /\ now' = t
      <3>1. CalledForEvent(t)
        BY <1>1 DEF onMatchedLogEvent
      <3> QED BY <3>1, ClockInOrder
    <2> DEFINE m == flushIfNeededLocked(metric, t)
               e == [m EXCEPT !.mCurrentSlicedCounter[k] = @ + 1]
    <2>2. metric' = metric \/ metric' = m \/ metric' = e
      BY <1>1, Zenon DEF onMatchedLogEvent
    <2>3. /\ m \in Metrics /\ GridOf(m) /\ PastOf(m)
          /\ m.mCurrentBucketStartTimeNs <= t
      BY <1>a, <2>1
    <2> HIDE DEF m
    <2>4. /\ GridOf(e) /\ PastOf(e)
          /\ e.mCurrentBucketStartTimeNs = m.mCurrentBucketStartTimeNs
      BY <2>3, CountOne
    <2> HIDE DEF e
    <2>5. m0.mCurrentBucketStartTimeNs <= t
      BY <1>0, <2>1, ClockInOrder
    <2>6. CASE metric' = metric
      BY <1>0, <2>1, <2>5, <2>6 DEF OrderInv
    <2>7. CASE metric' = m
      BY <2>1, <2>3, <2>7 DEF OrderInv
    <2>8. CASE metric' = e
      BY <2>1, <2>3, <2>4, <2>8 DEF OrderInv
    <2> QED BY <2>2, <2>6, <2>7, <2>8
  <1>2. ASSUME NEW t \in 0 .. MaxTime, NEW c \in BOOLEAN,
               onConditionChanged(c, t) \/ (activate(t) /\ c = TRUE)
        PROVE  OrderInv'
    <2>1. now <= t /\ now' = t /\ t \in Int
      <3>1. CalledForEvent(t)
        BY <1>2 DEF onConditionChanged, activate
      <3> QED BY <3>1, ClockInOrder
    <2> DEFINE timer == OnConditionChanged(metric.mConditionTimer, c, t)
               e == [metric EXCEPT !.mConditionTimer = timer]
    <2>2. metric' = metric \/ metric' = e
      BY <1>2 DEF onConditionChanged, activate
    <2>3. timer \in ConditionTimers
      BY <1>0, <2>1, TimerType
    <2> HIDE DEF timer
    <2>4. /\ GridOf(e) /\ PastOf(e)
          /\ e.mCurrentBucketStartTimeNs = m0.mCurrentBucketStartTimeNs
      BY <1>0, <2>3, ChangeTimer
    <2> HIDE DEF e
    <2>5. m0.mCurrentBucketStartTimeNs <= t
      BY <1>0, <2>1
    <2>6. CASE metric' = metric
      BY <1>0, <2>1, <2>5, <2>6 DEF OrderInv
    <2>7. CASE metric' = e
      BY <2>1, <2>4, <2>5, <2>7 DEF OrderInv
    <2> QED BY <2>2, <2>6, <2>7
  <1>3. ASSUME NEW t \in 0 .. MaxTime, flushIfExpire(t)
        PROVE  OrderInv'
    <2>1. now <= t /\ now' = t /\ t \in Int
      <3>1. CalledForEvent(t)
        BY <1>3 DEF flushIfExpire
      <3> QED BY <3>1, ClockInOrder
    <2> DEFINE m == flushLocked(metric, t)
               timer == OnConditionChanged(m.mConditionTimer, FALSE, t)
               e == [m EXCEPT !.mConditionTimer = timer]
    <2>2. metric' = m \/ metric' = e
      BY <1>3 DEF flushIfExpire
    <2>3. /\ m \in Metrics /\ GridOf(m) /\ PastOf(m)
          /\ m.mCurrentBucketStartTimeNs = t
      BY <1>a, <2>1
    <2> HIDE DEF m
    <2>4. m.mConditionTimer \in ConditionTimers
      BY <2>3 DEF Metrics
    <2>5. timer \in ConditionTimers
      BY <2>1, <2>4, TimerType
    <2> HIDE DEF timer
    <2>6. /\ GridOf(e) /\ PastOf(e) /\ e.mCurrentBucketStartTimeNs = t
      BY <2>3, <2>5, ChangeTimer
    <2> HIDE DEF e
    <2> QED BY <2>1, <2>2, <2>3, <2>6 DEF OrderInv
  <1>4. ASSUME NEW t \in 0 .. MaxTime, NEW partial \in BOOLEAN, NEW erase \in BOOLEAN,
               onDumpReport(t, partial, erase)
        PROVE  OrderInv'
    <2>1. now <= t /\ now' = t /\ t \in Int
      <3>1. Called(t)
        BY <1>4 DEF onDumpReport
      <3> QED BY <3>1, ClockInOrder
    <2> DEFINE m == IF partial THEN flushLocked(metric, t) ELSE flushIfNeededLocked(metric, t)
    <2>2. metric' = WithoutPast(m) \/ metric' = m
      BY <1>4, Zenon DEF onDumpReport
    <2>3. /\ m \in Metrics /\ GridOf(m) /\ PastOf(m)
          /\ m.mCurrentBucketStartTimeNs <= t
      BY <1>a, <2>1
    <2> HIDE DEF m
    <2>4. /\ GridOf(WithoutPast(m)) /\ PastOf(WithoutPast(m))
          /\ WithoutPast(m).mCurrentBucketStartTimeNs = m.mCurrentBucketStartTimeNs
      BY <2>3, WithoutPastInv
    <2>5. CASE metric' = m
      BY <2>1, <2>3, <2>5 DEF OrderInv
    <2>6. CASE metric' = WithoutPast(m)
      BY <2>1, <2>3, <2>4, <2>6 DEF OrderInv
    <2> QED BY <2>2, <2>5, <2>6
  <1>5. ASSUME NEW t \in 0 .. MaxTime, dropData(t)
        PROVE  OrderInv'
    <2>1. now <= t /\ now' = t /\ t \in Int
      <3>1. Called(t)
        BY <1>5 DEF dropData
      <3> QED BY <3>1, ClockInOrder
    <2> DEFINE m == flushIfNeededLocked(metric, t)
    <2>2. metric' = WithoutPast(m)
      BY <1>5 DEF dropData
    <2>3. /\ m \in Metrics /\ GridOf(m) /\ m.mCurrentBucketStartTimeNs <= t
      BY <1>a, <2>1
    <2> HIDE DEF m
    <2>4. /\ GridOf(WithoutPast(m)) /\ PastOf(WithoutPast(m))
          /\ WithoutPast(m).mCurrentBucketStartTimeNs = m.mCurrentBucketStartTimeNs
      BY <2>3, WithoutPastInv
    <2> QED BY <2>1, <2>2, <2>3, <2>4 DEF OrderInv
  <1>6. ASSUME NEW t \in 0 .. MaxTime, SplitBucket(t)
        PROVE  OrderInv'
    <2>1. now <= t /\ now' = t /\ t \in Int
      <3>1. Called(t)
        BY <1>6 DEF SplitBucket
      <3> QED BY <3>1, ClockInOrder
    <2> DEFINE m == flushLocked(metric, t)
    <2>2. metric' = m
      BY <1>6 DEF SplitBucket
    <2>3. GridOf(m) /\ PastOf(m) /\ m.mCurrentBucketStartTimeNs = t
      BY <1>a, <2>1
    <2> HIDE DEF m
    <2> QED BY <2>1, <2>2, <2>3 DEF OrderInv
  <1>7. CASE clearPastBuckets
    <2>1. metric' = WithoutPast(metric) /\ now' = now
      BY <1>7 DEF clearPastBuckets
    <2>2. /\ GridOf(WithoutPast(metric)) /\ PastOf(WithoutPast(metric))
          /\ WithoutPast(metric).mCurrentBucketStartTimeNs = metric.mCurrentBucketStartTimeNs
      BY <1>0, WithoutPastInv
    <2> QED BY <1>0, <2>1, <2>2 DEF OrderInv
  <1>8. ASSUME UNCHANGED <<metric, now>> PROVE OrderInv'
    BY <1>0, <1>8 DEF OrderInv
  <1>9. CASE loadActiveMetric
    BY <1>8, <1>9 DEF loadActiveMetric
  <1>10. ASSUME NEW reason \in Reasons, NEW atomType \in {"kWhat", "kCondition", "kState"},
                onMatchedLogEventLost(reason, atomType)
         PROVE  OrderInv'
    BY <1>8, <1>10 DEF onMatchedLogEventLost
  <1>11. CASE UNCHANGED vars
    BY <1>8, <1>11 DEF vars
  <1>12. ASSUME NEW t \in 0 .. MaxTime, activate(t) PROVE OrderInv'
    BY <1>2, <1>12
  <1>13. ASSUME NEW t \in 0 .. MaxTime, NEW c \in BOOLEAN, onConditionChanged(c, t)
         PROVE OrderInv'
    BY <1>2, <1>13
  <1> QED
    BY <1>1, <1>3, <1>4, <1>5, <1>6, <1>7, <1>9, <1>10, <1>11, <1>12, <1>13
    DEF Next, notifyAppUpgrade, onStatsdInitCompleted

\* When log events are processed in time order, the buckets of a count metric
\* are on the grid, disjoint and in time order under every order of events,
\* dumps, splits, activations and clears.
THEOREM BucketOrder ==
  ASSUME Lateness = 0
  PROVE  Spec => []BucketsInOrder
  <1>1. Init => TypeOK /\ OrderInv
    <2> SUFFICES ASSUME Init PROVE TypeOK /\ OrderInv
      OBVIOUS
    <2>1. TypeOK
      BY TypeInit
    <2>2. metric = NewMetric /\ now = StartTime
      BY DEF Init
    <2>3. StartTime <= StartTime
      BY TimeAssumption
    <2> QED BY <2>1, <2>2, <2>3, NewMetricType DEF OrderInv
  <1>2. TypeOK /\ OrderInv /\ [Next]_vars => (TypeOK /\ OrderInv)'
    BY TypeStep, OrderStep
  <1>3. OrderInv => BucketsInOrder
    BY OrderInvMeans DEF BucketsInOrder
  <1> QED BY <1>1, <1>2, <1>3, PTL DEF Spec

-----------------------------------------------------------------------------
(* Condition time, when moreover no activation was restored at start. *)

TimeInv == TimerFollowsCondition /\ ConditionTimeConserved

\* A timer that is on gains the time that passes, one that is off gains none.
LEMMA ElapsedLater ==
  ASSUME NEW timer \in ConditionTimers, NEW s \in Int, NEW t \in Int
  PROVE  Elapsed(timer, t) = Elapsed(timer, s) + (IF timer.mCondition THEN t - s ELSE 0)
  <1>1. timer.mCondition \in BOOLEAN /\ timer.mTimerNs \in Int
        /\ timer.mLastConditionChangeTimestampNs \in Int
    BY DEF ConditionTimers
  <1> QED BY <1>1 DEF Elapsed

\* A step in which time passes to t and laps are closed keeps the balance, if
\* the timer it leaves behind has measured, at t, that much less.
LEMMA BalanceKept ==
  ASSUME TypeOK, TimeInv, NEW t \in Int, now' = t,
         NEW laps \in Int, CountConditionTime(laps),
         metric' \in Metrics,
         laps + Elapsed(metric'.mConditionTimer, t) = Elapsed(metric.mConditionTimer, t)
  PROVE  ConditionTimeConserved'
  <1> DEFINE on == mIsActive /\ mCondition = "kTrue"
             timer == metric.mConditionTimer
             timer2 == metric'.mConditionTimer
  <1>1. /\ timer \in ConditionTimers /\ timer2 \in ConditionTimers /\ now \in Int
        /\ condReported \in Int /\ condTotal \in Int
    BY DEF TypeOK, Metrics
  <1>2. /\ condReported' = condReported + laps
        /\ condTotal' = IF on THEN condTotal + (t - now) ELSE condTotal
    BY DEF CountConditionTime
  <1>3. (timer.mCondition <=> on) /\ condReported + Elapsed(timer, now) = condTotal
    BY DEF TimeInv, TimerFollowsCondition, ConditionTimeConserved
  <1>4. Elapsed(timer, t) = Elapsed(timer, now) + (IF timer.mCondition THEN t - now ELSE 0)
    BY <1>1, ElapsedLater
  <1>5. Elapsed(timer, now) \in Int /\ Elapsed(timer, t) \in Int /\ Elapsed(timer2, t) \in Int
    BY <1>1, TimerType
  <1>6. (ConditionTimeConserved)' <=> (condReported' + Elapsed(timer2, t) = condTotal')
    BY DEF ConditionTimeConserved
  <1>7. laps + Elapsed(timer2, t) = Elapsed(timer, t)
    OBVIOUS
  <1> HIDE DEF on, timer, timer2
  <1>8. CASE on
    <2>1. Elapsed(timer, t) = Elapsed(timer, now) + (t - now)
      BY <1>3, <1>4, <1>8
    <2>2. condTotal' = condTotal + (t - now)
      BY <1>2, <1>8
    <2>3. (condReported + laps) + Elapsed(timer2, t) = condReported + Elapsed(timer, t)
      BY <1>1, <1>5, <1>7
    <2>4. condReported + (Elapsed(timer, now) + (t - now)) = condTotal + (t - now)
      BY <1>1, <1>3, <1>5
    <2>5. condReported' + Elapsed(timer2, t) = condTotal'
      BY <1>2, <2>1, <2>2, <2>3, <2>4
    <2> QED BY <1>6, <2>5
  <1>9. CASE ~on
    <2>1. Elapsed(timer, t) = Elapsed(timer, now)
      BY <1>3, <1>4, <1>5, <1>9
    <2>2. condTotal' = condTotal
      BY <1>2, <1>9
    <2>3. (condReported + laps) + Elapsed(timer2, t) = condReported + Elapsed(timer, t)
      BY <1>1, <1>5, <1>7
    <2>4. condReported' + Elapsed(timer2, t) = condTotal'
      BY <1>2, <1>3, <2>1, <2>2, <2>3
    <2> QED BY <1>6, <2>4
  <1> QED BY <1>8, <1>9

\* onConditionChanged sets the timer and moves no condition time.
LEMMA SwitchSets ==
  ASSUME NEW timer \in ConditionTimers, NEW t \in Int, NEW c \in BOOLEAN
  PROVE  LET new == OnConditionChanged(timer, c, t)
         IN  /\ new \in ConditionTimers
             /\ new.mCondition = c
             /\ Elapsed(new, t) = Elapsed(timer, t)
             /\ Elapsed(timer, t) \in Int
  <1>1. OnConditionChanged(timer, c, t).mCondition = c
    <2>1. CASE c = timer.mCondition
      BY <2>1 DEF OnConditionChanged
    <2>2. CASE c # timer.mCondition
      <3>1. OnConditionChanged(timer, c, t)
              = [mCondition |-> c,
                 mTimerNs |-> IF c THEN timer.mTimerNs
                              ELSE timer.mTimerNs
                                     + (t - timer.mLastConditionChangeTimestampNs),
                 mCurrentBucketStartDelayNs |-> timer.mCurrentBucketStartDelayNs,
                 mLastConditionChangeTimestampNs |-> t]
        BY <2>2, Zenon DEF OnConditionChanged
      <3> DEFINE r == OnConditionChanged(timer, c, t)
      <3> HIDE DEF r
      <3> QED BY <3>1 DEF r
    <2> QED BY <2>1, <2>2
  <1> QED BY <1>1, TimerType, SwitchConserved

\* Every step keeps the balance: a flush moves condition time from the timer
\* into a lap, a change of the condition or of the activation sets the timer.
LEMMA TimeStep ==
  ASSUME Lateness = 0, PersistedActivation = FALSE
  PROVE  TypeOK /\ TimeInv /\ [Next]_vars => TimeInv'
  <1> SUFFICES ASSUME TypeOK, TimeInv, [Next]_vars PROVE TimeInv'
    OBVIOUS
  <1>0. /\ metric \in Metrics /\ metric.mConditionTimer \in ConditionTimers
        /\ metric' \in Metrics /\ 0 \in Int
        /\ mIsActive \in BOOLEAN /\ metric.mConditionTimer.mCondition \in BOOLEAN
        /\ (metric.mConditionTimer.mCondition <=> (mIsActive /\ mCondition = "kTrue"))
    <2>1. TypeOK'
      BY TypeStep
    <2>2. metric \in Metrics /\ metric' \in Metrics /\ mIsActive \in BOOLEAN
      BY <2>1, Zenon DEF TypeOK, Metrics
    <2>3. metric.mConditionTimer \in ConditionTimers
      BY <2>2 DEF Metrics
    <2>4. metric.mConditionTimer.mCondition \in BOOLEAN
      BY <2>3 DEF ConditionTimers
    <2>5. metric.mConditionTimer.mCondition <=> (mIsActive /\ mCondition = "kTrue")
      BY Zenon DEF TimeInv, TimerFollowsCondition
    <2> QED
      BY <2>2, <2>3, <2>4, <2>5
  <1>a. ASSUME NEW t \in Int
        PROVE  LET f == flushIfNeededLocked(metric, t)
                   g == flushLocked(metric, t)
                   old == metric.mConditionTimer
               IN  /\ f \in Metrics /\ g \in Metrics
                   /\ f.mConditionTimer.mCondition = old.mCondition
                   /\ g.mConditionTimer.mCondition = old.mCondition
                   /\ LapIfNeeded(metric, t) \in Int /\ LapsOfFlush(metric, t) \in Int
                   /\ LapIfNeeded(metric, t) + Elapsed(f.mConditionTimer, t) = Elapsed(old, t)
                   /\ LapsOfFlush(metric, t) + Elapsed(g.mConditionTimer, t) = Elapsed(old, t)
                   /\ Elapsed(old, t) \in Int /\ 0 + Elapsed(old, t) = Elapsed(old, t)
    <2>1. Elapsed(metric.mConditionTimer, t) \in Int
      BY <1>0, TimerType
    <2>2. 0 + Elapsed(metric.mConditionTimer, t) = Elapsed(metric.mConditionTimer, t)
      BY <2>1
    <2>3. flushIfNeededLocked(metric, t) \in Metrics /\ flushLocked(metric, t) \in Metrics
      BY <1>0, FlushIfNeededType, FlushType
    <2>4. LET f == flushIfNeededLocked(metric, t)
              old == metric.mConditionTimer
          IN  /\ f.mConditionTimer.mCondition = old.mCondition
              /\ LapIfNeeded(metric, t) \in Int
              /\ LapIfNeeded(metric, t) + Elapsed(f.mConditionTimer, t) = Elapsed(old, t)
      BY <1>0, FlushIfNeededLap
    <2>5. LET g == flushLocked(metric, t)
              old == metric.mConditionTimer
          IN  /\ g.mConditionTimer.mCondition = old.mCondition
              /\ LapsOfFlush(metric, t) \in Int
              /\ LapsOfFlush(metric, t) + Elapsed(g.mConditionTimer, t) = Elapsed(old, t)
      BY <1>0, FlushLap
    <2> QED BY <2>1, <2>2, <2>3, <2>4, <2>5, Zenon
  <1>b. ASSUME metric'.mConditionTimer.mCondition = metric.mConditionTimer.mCondition,
               mIsActive' = mIsActive, mCondition' = mCondition
        PROVE  TimerFollowsCondition'
    BY <1>0, <1>b DEF TimerFollowsCondition
  <1>1. ASSUME NEW t \in 0 .. MaxTime, NEW k \in Keys, onMatchedLogEvent(k, t)
        PROVE  TimeInv'
    <2>1. now' = t /\ t \in Int
      <3>1. CalledForEvent(t)
        BY <1>1 DEF onMatchedLogEvent
      <3> QED BY <3>1, ClockInOrder
    <2>2. mIsActive' = mIsActive /\ mCondition' = mCondition
      BY <1>1 DEF onMatchedLogEvent
    <2> DEFINE m == flushIfNeededLocked(metric, t)
               e == [m EXCEPT !.mCurrentSlicedCounter[k] = @ + 1]
    <2>3. \/ metric' = metric /\ CountConditionTime(0)
          \/ (metric' = m \/ metric' = e) /\ CountConditionTime(LapIfNeeded(metric, t))
      BY <1>1, Zenon DEF onMatchedLogEvent
    <2>4. CASE metric' = metric /\ CountConditionTime(0)
      <3>1. TimerFollowsCondition'
        BY <1>b, <2>2, <2>4
      <3>2. ConditionTimeConserved'
        BY <1>0, <1>a, <2>1, <2>4, BalanceKept
      <3> QED BY <3>1, <3>2 DEF TimeInv
    <2>5. CASE (metric' = m \/ metric' = e) /\ CountConditionTime(LapIfNeeded(metric, t))
      <3>1. m \in Metrics
        BY <1>a, <2>1
      <3>2. metric'.mConditionTimer = m.mConditionTimer
        <4> HIDE DEF m
        <4>1. e.mConditionTimer = m.mConditionTimer
          BY <3>1, CountOne
        <4> HIDE DEF e
        <4> QED BY <2>5, <4>1
      <3>3. TimerFollowsCondition'
        BY <1>a, <1>b, <2>1, <2>2, <3>2
      <3>4. /\ LapIfNeeded(metric, t) \in Int
            /\ LapIfNeeded(metric, t) + Elapsed(metric'.mConditionTimer, t)
                 = Elapsed(metric.mConditionTimer, t)
        BY <1>a, <2>1, <3>2
      <3>5. ConditionTimeConserved'
        BY <1>0, <2>1, <2>5, <3>4, BalanceKept
      <3> QED BY <3>3, <3>5 DEF TimeInv
    <2> QED BY <2>3, <2>4, <2>5
  <1>2. ASSUME NEW t \in 0 .. MaxTime, NEW c \in BOOLEAN, onConditionChanged(c, t)
        PROVE  TimeInv'
    <2>1. now' = t /\ t \in Int
      <3>1. CalledForEvent(t)
        BY <1>2 DEF onConditionChanged
      <3> QED BY <3>1, ClockInOrder
    <2> DEFINE timer == OnConditionChanged(metric.mConditionTimer, c, t)
    <2>2. /\ metric' = IF mIsActive THEN [metric EXCEPT !.mConditionTimer = timer] ELSE metric
          /\ mIsActive' = mIsActive /\ CountConditionTime(0)
          /\ mCondition' = IF c THEN "kTrue" ELSE "kFalse"
      BY <1>2 DEF onConditionChanged
    <2>3. /\ timer \in ConditionTimers /\ timer.mCondition = c
          /\ Elapsed(timer, t) = Elapsed(metric.mConditionTimer, t)
          /\ Elapsed(metric.mConditionTimer, t) \in Int
      BY <1>0, <2>1, SwitchSets
    <2> HIDE DEF timer
    <2>4. metric'.mConditionTimer = IF mIsActive THEN timer ELSE metric.mConditionTimer
      BY <1>0, <2>2, <2>3, ChangeTimer
    <2>5. mCondition' = "kTrue" <=> c
      BY <2>2
    <2>6. TimerFollowsCondition'
      <3>1. CASE mIsActive
        BY <2>2, <2>3, <2>4, <2>5, <3>1 DEF TimerFollowsCondition
      <3>2. CASE ~mIsActive
        BY <1>0, <2>2, <2>4, <3>2 DEF TimerFollowsCondition
      <3> QED BY <3>1, <3>2
    <2>7. 0 + Elapsed(metric'.mConditionTimer, t) = Elapsed(metric.mConditionTimer, t)
      BY <2>3, <2>4
    <2>8. ConditionTimeConserved'
      BY <1>0, <2>1, <2>2, <2>7, BalanceKept
    <2> QED BY <2>6, <2>8 DEF TimeInv
  <1>3. ASSUME NEW t \in 0 .. MaxTime, activate(t)
        PROVE  TimeInv'
    <2>1. now' = t /\ t \in Int
      <3>1. CalledForEvent(t)
        BY <1>3 DEF activate
      <3> QED BY <3>1, ClockInOrder
    <2> DEFINE timer == OnConditionChanged(metric.mConditionTimer, TRUE, t)
    <2>2. /\ metric' = IF mCondition = "kTrue"
                         THEN [metric EXCEPT !.mConditionTimer = timer] ELSE metric
          /\ ~mIsActive /\ mIsActive' = TRUE /\ CountConditionTime(0)
          /\ mCondition' = mCondition
      BY <1>3 DEF activate
    <2>3. /\ timer \in ConditionTimers /\ timer.mCondition = TRUE
          /\ Elapsed(timer, t) = Elapsed(metric.mConditionTimer, t)
          /\ Elapsed(metric.mConditionTimer, t) \in Int
      BY <1>0, <2>1, SwitchSets
    <2> HIDE DEF timer
    <2>4. metric'.mConditionTimer = IF mCondition = "kTrue" THEN timer
                                    ELSE metric.mConditionTimer
      BY <1>0, <2>2, <2>3, ChangeTimer
    <2>5. TimerFollowsCondition'
      <3>1. CASE mCondition = "kTrue"
        BY <2>2, <2>3, <2>4, <3>1 DEF TimerFollowsCondition
      <3>2. CASE mCondition # "kTrue"
        BY <1>0, <2>2, <2>4, <3>2 DEF TimerFollowsCondition
      <3> QED BY <3>1, <3>2
    <2>6. 0 + Elapsed(metric'.mConditionTimer, t) = Elapsed(metric.mConditionTimer, t)
      BY <2>3, <2>4
    <2>7. ConditionTimeConserved'
      BY <1>0, <2>1, <2>2, <2>6, BalanceKept
    <2> QED BY <2>5, <2>7 DEF TimeInv
  <1>4. ASSUME NEW t \in 0 .. MaxTime, flushIfExpire(t)
        PROVE  TimeInv'
    <2>1. now' = t /\ t \in Int
      <3>1. CalledForEvent(t)
        BY <1>4 DEF flushIfExpire
      <3> QED BY <3>1, ClockInOrder
    <2> DEFINE m == flushLocked(metric, t)
               timer == OnConditionChanged(m.mConditionTimer, FALSE, t)
    <2>2. /\ metric' = IF mCondition = "kTrue"
                         THEN [m EXCEPT !.mConditionTimer = timer] ELSE m
          /\ mIsActive' = FALSE /\ CountConditionTime(LapsOfFlush(metric, t))
          /\ mCondition' = mCondition
      BY <1>4 DEF flushIfExpire
    <2>3. /\ m \in Metrics /\ LapsOfFlush(metric, t) \in Int
          /\ m.mConditionTimer.mCondition = metric.mConditionTimer.mCondition
          /\ LapsOfFlush(metric, t) + Elapsed(m.mConditionTimer, t)
               = Elapsed(metric.mConditionTimer, t)
      BY <1>a, <2>1
    <2> HIDE DEF m
    <2>4. m.mConditionTimer \in ConditionTimers
      BY <2>3 DEF Metrics
    <2>5. /\ timer \in ConditionTimers /\ timer.mCondition = FALSE
          /\ Elapsed(timer, t) = Elapsed(m.mConditionTimer, t)
      BY <2>1, <2>4, SwitchSets
    <2> HIDE DEF timer
    <2>6. metric'.mConditionTimer = IF mCondition = "kTrue" THEN timer
                                    ELSE m.mConditionTimer
      BY <2>2, <2>3, <2>5, ChangeTimer
    <2>7. TimerFollowsCondition'
      <3>1. CASE mCondition = "kTrue"
        BY <2>2, <2>5, <2>6, <3>1 DEF TimerFollowsCondition
      <3>2. CASE mCondition # "kTrue"
        BY <1>0, <2>2, <2>3, <2>6, <3>2 DEF TimerFollowsCondition
      <3> QED BY <3>1, <3>2
    <2>8. LapsOfFlush(metric, t) + Elapsed(metric'.mConditionTimer, t)
            = Elapsed(metric.mConditionTimer, t)
      BY <2>3, <2>5, <2>6
    <2>9. ConditionTimeConserved'
      BY <1>0, <2>1, <2>2, <2>3, <2>8, BalanceKept
    <2> QED BY <2>7, <2>9 DEF TimeInv
  <1>5. ASSUME NEW t \in 0 .. MaxTime, NEW partial \in BOOLEAN, NEW erase \in BOOLEAN,
               onDumpReport(t, partial, erase)
        PROVE  TimeInv'
    <2>1. now' = t /\ t \in Int
      <3>1. Called(t)
        BY <1>5 DEF onDumpReport
      <3> QED BY <3>1, ClockInOrder
    <2> DEFINE m == IF partial THEN flushLocked(metric, t) ELSE flushIfNeededLocked(metric, t)
               laps == IF partial THEN LapsOfFlush(metric, t) ELSE LapIfNeeded(metric, t)
    <2>2. /\ metric' = WithoutPast(m) \/ metric' = m
          /\ CountConditionTime(laps)
          /\ mIsActive' = mIsActive /\ mCondition' = mCondition
      BY <1>5, Zenon DEF onDumpReport
    <2>3. /\ m \in Metrics /\ laps \in Int
          /\ m.mConditionTimer.mCondition = metric.mConditionTimer.mCondition
          /\ laps + Elapsed(m.mConditionTimer, t) = Elapsed(metric.mConditionTimer, t)
      BY <1>a, <2>1
    <2> HIDE DEF m, laps
    <2>4. metric'.mConditionTimer = m.mConditionTimer
      BY <2>2, <2>3, WithoutPastInv
    <2>5. ConditionTimeConserved'
      BY <1>0, <2>1, <2>2, <2>3, <2>4, BalanceKept
    <2> QED BY <1>b, <2>2, <2>3, <2>4, <2>5 DEF TimeInv
  <1>6. ASSUME NEW t \in 0 .. MaxTime, dropData(t)
        PROVE  TimeInv'
    <2>1. now' = t /\ t \in Int
      <3>1. Called(t)
        BY <1>6 DEF dropData
      <3> QED BY <3>1, ClockInOrder
    <2> DEFINE m == flushIfNeededLocked(metric, t)
    <2>2. /\ metric' = WithoutPast(m) /\ CountConditionTime(LapIfNeeded(metric, t))
          /\ mIsActive' = mIsActive /\ mCondition' = mCondition
      BY <1>6 DEF dropData
    <2>3. /\ m \in Metrics /\ LapIfNeeded(metric, t) \in Int
          /\ m.mConditionTimer.mCondition = metric.mConditionTimer.mCondition
          /\ LapIfNeeded(metric, t) + Elapsed(m.mConditionTimer, t)
               = Elapsed(metric.mConditionTimer, t)
      BY <1>a, <2>1
    <2> HIDE DEF m
    <2>4. metric'.mConditionTimer = m.mConditionTimer
      BY <2>2, <2>3, WithoutPastInv
    <2>5. ConditionTimeConserved'
      BY <1>0, <2>1, <2>2, <2>3, <2>4, BalanceKept
    <2> QED BY <1>b, <2>2, <2>3, <2>4, <2>5 DEF TimeInv
  <1>7. ASSUME NEW t \in 0 .. MaxTime, SplitBucket(t)
        PROVE  TimeInv'
    <2>1. now' = t /\ t \in Int
      <3>1. Called(t)
        BY <1>7 DEF SplitBucket
      <3> QED BY <3>1, ClockInOrder
    <2>2. /\ metric' = flushLocked(metric, t) /\ CountConditionTime(LapsOfFlush(metric, t))
          /\ mIsActive' = mIsActive /\ mCondition' = mCondition
      BY <1>7 DEF SplitBucket
    <2>3. /\ LapsOfFlush(metric, t) \in Int
          /\ metric'.mConditionTimer.mCondition = metric.mConditionTimer.mCondition
          /\ LapsOfFlush(metric, t) + Elapsed(metric'.mConditionTimer, t)
               = Elapsed(metric.mConditionTimer, t)
      BY <1>a, <2>1, <2>2
    <2>4. ConditionTimeConserved'
      BY <1>0, <2>1, <2>2, <2>3, BalanceKept
    <2> QED BY <1>b, <2>2, <2>3, <2>4 DEF TimeInv
  <1>8. ASSUME metric'.mConditionTimer = metric.mConditionTimer,
               UNCHANGED <<mIsActive, mCondition, now, condReported, condTotal>>
        PROVE  TimeInv'
    BY <1>8 DEF TimeInv, TimerFollowsCondition, ConditionTimeConserved
  <1>9. CASE clearPastBuckets
    <2>1. metric' = WithoutPast(metric)
          /\ UNCHANGED <<mIsActive, mCondition, now, condReported, condTotal>>
      BY <1>9 DEF clearPastBuckets
    <2>2. WithoutPast(metric).mConditionTimer = metric.mConditionTimer
      BY <1>0, WithoutPastInv
    <2> QED BY <1>8, <2>1, <2>2
  <1>10. CASE loadActiveMetric
    BY <1>10 DEF loadActiveMetric
  <1>11. ASSUME NEW reason \in Reasons, NEW atomType \in {"kWhat", "kCondition", "kState"},
                onMatchedLogEventLost(reason, atomType)
         PROVE  TimeInv'
    BY <1>8, <1>11 DEF onMatchedLogEventLost
  <1>12. CASE UNCHANGED vars
    BY <1>8, <1>12 DEF vars
  <1> QED
    BY <1>1, <1>2, <1>3, <1>4, <1>5, <1>6, <1>7, <1>9, <1>10, <1>11, <1>12
    DEF Next, notifyAppUpgrade, onStatsdInitCompleted

\* When log events are processed in time order and no activation was restored
\* at start, the stopwatch of a count metric runs exactly while the metric is
\* active with its condition true, and the condition time its buckets report
\* adds up to the time that was so.
THEOREM ConditionTime ==
  ASSUME Lateness = 0, PersistedActivation = FALSE
  PROVE  Spec => []TimeAccounted
  <1>1. Init => TypeOK /\ TimeInv
    <2> SUFFICES ASSUME Init PROVE TypeOK /\ TimeInv
      OBVIOUS
    <2>1. TypeOK
      BY TypeInit
    <2>2. /\ metric = NewMetric /\ now = StartTime /\ mIsActive = ~HasActivation
          /\ mCondition = InitialCondition /\ condReported = 0 /\ condTotal = 0
      BY DEF Init
    <2>3. TimerFollowsCondition
      BY <2>2, NewMetricType DEF TimerFollowsCondition
    <2>4. ConditionTimeConserved
      BY <2>2, NewMetricType DEF ConditionTimeConserved
    <2> QED BY <2>1, <2>3, <2>4 DEF TimeInv
  <1>2. TypeOK /\ TimeInv /\ [Next]_vars => (TypeOK /\ TimeInv)'
    BY TypeStep, TimeStep
  <1>3. TimeInv => TimeAccounted
    BY DEF TimeInv, TimeAccounted
  <1> QED BY <1>1, <1>2, <1>3, PTL DEF Spec
-----------------------------------------------------------------------------
(* The data corruption flags.                                              *)

\* Data without past buckets has no past buckets.
LEMMA NothingLeft ==
  ASSUME NEW m \in Metrics
  PROVE  NoPastBuckets(WithoutPast(m))
  BY DEF Metrics, NoPastBuckets, WithoutPast

\* resetDataCorruptionFlagsLocked keeps what cannot be recovered from.
LEMMA ResetKeeps ==
  ASSUME NEW r \in Reasons, corrupted[r] = kUnrecoverable
  PROVE  resetDataCorruptionFlags[r] = kUnrecoverable
  BY DEF resetDataCorruptionFlags

\* What CorruptionSurvives says of a step.
FlagsKept ==
  \A r \in Reasons :
     /\ corrupted[r] = kUnrecoverable => corrupted'[r] = kUnrecoverable
     /\ corrupted'[r] < corrupted[r] => NoPastBuckets(metric')

\* Flags that stay as they are need no data to go.
LEMMA FlagsSame ==
  ASSUME TypeOK, corrupted' = corrupted
  PROVE  FlagsKept
  <1>1. \A r \in Reasons : corrupted[r] \in Int
    BY DEF TypeOK, Severities
  <1> QED BY <1>1 DEF FlagsKept

\* Flags may be reset when no past bucket is left.
LEMMA FlagsReset ==
  ASSUME TypeOK, corrupted' = resetDataCorruptionFlags, NoPastBuckets(metric')
  PROVE  FlagsKept
  BY ResetKeeps DEF FlagsKept

\* A step keeps the flags, or takes the past buckets with the ones it resets.
LEMMA FlagsStep == TypeOK /\ [Next]_vars => FlagsKept
  <1> SUFFICES ASSUME TypeOK, [Next]_vars PROVE FlagsKept
    OBVIOUS
  <1>0. metric \in Metrics
    BY DEF TypeOK, Metrics
  <1>1. ASSUME NEW t \in 0 .. MaxTime, NEW k \in Keys, onMatchedLogEvent(k, t)
        PROVE  FlagsKept
    BY <1>1, FlagsSame DEF onMatchedLogEvent
  <1>2. ASSUME NEW t \in 0 .. MaxTime, NEW c \in BOOLEAN, onConditionChanged(c, t)
        PROVE  FlagsKept
    BY <1>2, FlagsSame DEF onConditionChanged
  <1>3. ASSUME NEW t \in 0 .. MaxTime, activate(t) PROVE FlagsKept
    BY <1>3, FlagsSame DEF activate
  <1>4. ASSUME NEW t \in 0 .. MaxTime, flushIfExpire(t) PROVE FlagsKept
    BY <1>4, FlagsSame DEF flushIfExpire
  <1>5. ASSUME NEW t \in 0 .. MaxTime, NEW partial \in BOOLEAN, NEW erase \in BOOLEAN,
               onDumpReport(t, partial, erase)
        PROVE  FlagsKept
    <2> DEFINE m == IF partial THEN flushLocked(metric, t) ELSE flushIfNeededLocked(metric, t)
               erased == erase /\ ~NoPastBuckets(m)
    <2>1. m \in Metrics
      <3>1. t \in Int
        BY TimeAssumption
      <3> QED BY <1>0, <3>1, FlushType, FlushIfNeededType
    <2>2. metric' = IF erased THEN WithoutPast(m) ELSE m
      BY <1>5, Zenon DEF onDumpReport
    <2>3. corrupted' = IF erase THEN resetDataCorruptionFlags ELSE corrupted
      BY <1>5 DEF onDumpReport
    <2> HIDE DEF m
    <2>4. CASE erase
      <3>1. NoPastBuckets(metric')
        BY <2>1, <2>2, <2>4, NothingLeft
      <3> QED BY <2>3, <2>4, <3>1, FlagsReset
    <2>5. CASE ~erase
      BY <2>3, <2>5, FlagsSame
    <2> QED BY <2>4, <2>5
  <1>6. ASSUME NEW t \in 0 .. MaxTime, dropData(t) PROVE FlagsKept
    <2>1. t \in Int
      BY TimeAssumption
    <2>2. metric' = WithoutPast(flushIfNeededLocked(metric, t))
          /\ corrupted' = resetDataCorruptionFlags
      BY <1>6, Zenon DEF dropData
    <2>3. NoPastBuckets(metric')
      BY <1>0, <2>1, <2>2, FlushIfNeededType, NothingLeft
    <2> QED BY <2>2, <2>3, FlagsReset
  <1>7. ASSUME NEW t \in 0 .. MaxTime, notifyAppUpgrade(t) PROVE FlagsKept
    BY <1>7, FlagsSame DEF notifyAppUpgrade, SplitBucket
  <1>8. ASSUME NEW t \in 0 .. MaxTime, onStatsdInitCompleted(t) PROVE FlagsKept
    BY <1>8, FlagsSame DEF onStatsdInitCompleted, SplitBucket
  <1>9. CASE loadActiveMetric
    BY <1>9, FlagsSame DEF loadActiveMetric
  <1>10. CASE clearPastBuckets
    <2>1. NoPastBuckets(metric')
      BY <1>0, <1>10, NothingLeft DEF clearPastBuckets
    <2> QED BY <1>10, <2>1, FlagsReset DEF clearPastBuckets
  <1>11. ASSUME NEW reason \in Reasons, NEW atomType \in {"kWhat", "kCondition", "kState"},
                onMatchedLogEventLost(reason, atomType)
         PROVE  FlagsKept
    <2> DEFINE severity == determineCorruptionSeverity(atomType)
    <2>1. severity \in {1, 2}
      BY DEF determineCorruptionSeverity, kResetOnDump, kUnrecoverable
    <2>2. corrupted' = [corrupted EXCEPT ![reason] = IF corrupted[reason] > severity
                                                       THEN corrupted[reason] ELSE severity]
      BY <1>11, Zenon DEF onMatchedLogEventLost
    <2> HIDE DEF severity
    <2>3. \A r \in Reasons : corrupted'[r] = corrupted[r] \/ corrupted'[r] > corrupted[r]
      BY <2>1, <2>2 DEF TypeOK, Severities
    <2>4. \A r \in Reasons : corrupted[r] \in 0 .. 2 /\ corrupted'[r] \in 0 .. 2
      BY <2>1, <2>2 DEF TypeOK, Severities
    <2> QED BY <2>3, <2>4 DEF FlagsKept, kUnrecoverable
  <1>12. CASE UNCHANGED vars
    BY <1>12, FlagsSame DEF vars
  <1> QED
    BY <1>1, <1>2, <1>3, <1>4, <1>5, <1>6, <1>7, <1>8, <1>9, <1>10, <1>11, <1>12, Zenon DEF Next

\* A data loss that no dump can make good stays recorded for as long as the
\* producer lives, and one that a dump makes good is forgotten only together
\* with every past bucket it may have damaged (resetDataCorruptionFlagsLocked
\* in onDumpReportLocked, dropDataLocked and clearPastBucketsLocked).
THEOREM CorruptionKept == Spec => CorruptionSurvives
  <1>1. TypeOK /\ [Next]_vars => [FlagsKept]_vars
    BY FlagsStep
  <1>2. [FlagsKept]_vars
          => [\A r \in Reasons :
                /\ corrupted[r] = kUnrecoverable => corrupted'[r] = kUnrecoverable
                /\ corrupted'[r] < corrupted[r] => NoPastBuckets(metric')]_vars
    BY DEF FlagsKept
  <1> QED BY <1>1, <1>2, TypeCorrect, PTL DEF Spec, CorruptionSurvives

=============================================================================
