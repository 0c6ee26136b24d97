--------------------------- MODULE AnomalyTracker ---------------------------
(***************************************************************************)
(* anomaly/AnomalyTracker.cpp: the detector of one alert.  It keeps the    *)
(* values of the last mNumOfPastBuckets buckets in a ring, a cached sum of *)
(* them per dimension key, and per key the end of the refractory period    *)
(* after a declared anomaly.  The refractory periods are saved when statsd *)
(* terminates and loaded when it starts again (StatsLogProcessor.cpp,      *)
(* MetricsManager.cpp), in wall clock time because elapsed time may start  *)
(* over.                                                                   *)
(*                                                                         *)
(* A DimToValMap is a function whose domain is the set of keys that have   *)
(* an entry; a null bucket is the empty map (no method tells the two       *)
(* apart).  Every method runs under the lock of the metric or of           *)
(* StatsLogProcessor.                                                      *)
(***************************************************************************)
EXTENDS Refractory, FiniteSets, TLC

CONSTANTS
  Keys,                     \* dimension keys
  Values,                   \* bucket values the metric producers pass on
  mNumOfPastBuckets,        \* num_buckets of the alert, less the current one
  trigger_if_sum_gt,
  WRITE_DATA_COOL_DOWN_SEC,
  BootPhase,                \* wall clock minus elapsed time after the first boot
  MaxBucket,                \* bound: highest bucket number
  MaxTicks,                 \* bound: elapsed time within one boot
  MaxRestarts               \* bound: restarts of statsd

VARIABLES
  tracker,                   \* mPastBuckets, mSumOverPastBuckets, mMostRecentBucketNum
  mRefractoryPeriodEndsSec,  \* 0: no entry
  metadataFile,              \* wall clock second per key, 0: no entry
  mLastMetadataWriteNs,
  now, boot,                 \* elapsed time; the wall clock is boot + now
  restarts,
  given,                     \* history: the value last given for bucket and key
  verdict,                   \* history: the answer of detectAnomaly, if just called
  declared                   \* history per key: see DeclaredNow

clocks == <<now, boot, restarts>>
savedVars == <<metadataFile, mLastMetadataWriteNs>>
vars == <<tracker, mRefractoryPeriodEndsSec, savedVars, clocks, given, verdict, declared>>

-----------------------------------------------------------------------------
(* The ring of past buckets and its sum. *)

EmptyMap == [k \in {} |-> 0]

\* The value of key k in a map, 0 without an entry: getSumOverPastBuckets.
ValueIn(map, k) == IF k \in DOMAIN map THEN map[k] ELSE 0

index(bucketNum) == bucketNum % mNumOfPastBuckets

NewTracker ==
  [mPastBuckets |-> [i \in 0 .. mNumOfPastBuckets - 1 |-> EmptyMap],
   mSumOverPastBuckets |-> EmptyMap, mMostRecentBucketNum |-> -1]

\* An entry leaves the sum when it falls to 0; a key without one is skipped.
subtractBucketFromSum(sum, bucket) ==
  [k \in DOMAIN sum \ {x \in DOMAIN sum \cap DOMAIN bucket : sum[x] = bucket[x]} |->
     sum[k] - ValueIn(bucket, k)]

addBucketToSum(sum, bucket) ==
  [k \in DOMAIN sum \cup DOMAIN bucket |-> ValueIn(sum, k) + ValueIn(bucket, k)]

\* Mutant of advanceMostRecentBucketTo: the sum keeps what leaves the ring.
advanceWithoutSubtracting(tr, bucketNum) ==
  IF mNumOfPastBuckets = 0 \/ bucketNum <= tr.mMostRecentBucketNum THEN tr
  ELSE IF bucketNum >= tr.mMostRecentBucketNum + mNumOfPastBuckets
    THEN [NewTracker EXCEPT !.mMostRecentBucketNum = bucketNum]
  ELSE [tr EXCEPT !.mMostRecentBucketNum = bucketNum,
         !.mPastBuckets = [i \in DOMAIN @ |->
            IF \E n \in tr.mMostRecentBucketNum + 1 .. bucketNum : index(n) = i
              THEN EmptyMap ELSE @[i]]]

advanceMostRecentBucketTo(tr, bucketNum) ==
  LET first == tr.mMostRecentBucketNum + 1
      sumUpTo[n \in first - 1 .. bucketNum] ==
        IF n = first - 1 THEN tr.mSumOverPastBuckets
        ELSE subtractBucketFromSum(sumUpTo[n - 1], tr.mPastBuckets[index(n)])
  IN  IF mNumOfPastBuckets = 0 \/ bucketNum <= tr.mMostRecentBucketNum THEN tr
      ELSE IF bucketNum >= tr.mMostRecentBucketNum + mNumOfPastBuckets
        THEN [NewTracker EXCEPT !.mMostRecentBucketNum = bucketNum]
      ELSE [mMostRecentBucketNum |-> bucketNum,
            mSumOverPastBuckets |-> sumUpTo[bucketNum],
            mPastBuckets |-> [i \in DOMAIN tr.mPastBuckets |->
               IF \E n \in first .. bucketNum : index(n) = i
                 THEN EmptyMap ELSE tr.mPastBuckets[i]]]

\* A bucket the ring has no place for (any more).
IsIgnored(tr, bucketNum) ==
  \/ mNumOfPastBuckets = 0 \/ bucketNum < 0
  \/ bucketNum <= tr.mMostRecentBucketNum - mNumOfPastBuckets

\* addPastBucket(bucket, bucketNum): replaces the whole bucket.
WithBucket(tr, bucket, bucketNum) ==
  LET i == index(bucketNum)
      cleared == IF bucketNum <= tr.mMostRecentBucketNum
                   THEN [tr EXCEPT !.mSumOverPastBuckets =
                           subtractBucketFromSum(@, tr.mPastBuckets[i])]
                   ELSE advanceMostRecentBucketTo(tr, bucketNum)
  IN  IF IsIgnored(tr, bucketNum) THEN tr
      ELSE [cleared EXCEPT !.mPastBuckets[i] = bucket,
                           !.mSumOverPastBuckets = addBucketToSum(@, bucket)]

\* addPastBucket(key, bucketValue, bucketNum): replaces one entry.
WithValue(tr, k, bucketValue, bucketNum) ==
  LET old == tr.mPastBuckets[index(bucketNum)]
      entry == k :> bucketValue
      without == IF k \in DOMAIN old
                   THEN subtractBucketFromSum(tr.mSumOverPastBuckets, k :> old[k])
                   ELSE tr.mSumOverPastBuckets
  IN  IF IsIgnored(tr, bucketNum) THEN tr
      ELSE IF bucketNum > tr.mMostRecentBucketNum THEN WithBucket(tr, entry, bucketNum)
      ELSE [tr EXCEPT !.mPastBuckets[index(bucketNum)] = entry @@ old,
                      !.mSumOverPastBuckets = addBucketToSum(without, entry)]

getPastBucketValue(tr, k, bucketNum) ==
  IF \/ bucketNum < 0 \/ tr.mMostRecentBucketNum < 0
     \/ bucketNum <= tr.mMostRecentBucketNum - mNumOfPastBuckets
     \/ bucketNum > tr.mMostRecentBucketNum
    THEN 0 ELSE ValueIn(tr.mPastBuckets[index(bucketNum)], k)

\* detectAnomaly advances the ring to just before the current bucket.
DetectAdvance(tr, currentBucketNum) ==
  IF currentBucketNum > tr.mMostRecentBucketNum + 1
    THEN advanceMostRecentBucketTo(tr, currentBucketNum - 1) ELSE tr

IsAnomaly(tr, k, currentBucketValue) ==
  ValueIn(tr.mSumOverPastBuckets, k) + currentBucketValue > trigger_if_sum_gt

-----------------------------------------------------------------------------
(* Saving and loading the refractory periods. *)

\* Mutant of writeAlertMetadataToProto: the end is written in elapsed time.
writeElapsed(ends, wallNs, elapsedNs) ==
  [k \in Keys |-> IF ends[k] = 0 \/ ends[k] < FloorSec(elapsedNs) THEN 0 ELSE ends[k]]

writeAlertMetadataToProto(ends, wallNs, elapsedNs) ==
  [k \in Keys |->
     IF ends[k] = 0 \/ ends[k] < FloorSec(elapsedNs) THEN 0
     ELSE FloorSec(wallNs) + (ends[k] - FloorSec(elapsedNs))]

loadAlertMetadata(file, wallNs, elapsedNs) ==
  [k \in Keys |->
     IF file[k] = 0 \/ file[k] < FloorSec(wallNs) THEN 0
     ELSE (file[k] - FloorSec(wallNs)) + FloorSec(elapsedNs)]

-----------------------------------------------------------------------------
NoEntries == [k \in Keys |-> 0]
NoVerdict == [bucketNum |-> -1, value |-> 0, anomaly |-> FALSE]

\* History of a declared anomaly: its wall clock time, the number of restarts
\* so far, whether the metadata was saved since then (and not yet used up by a
\* restart) and whether every restart since then loaded it.
Declared(wall, before, savedSince, kept) ==
  [wall |-> wall, restarts |-> before, savedSince |-> savedSince, kept |-> kept]

NeverDeclared == Declared(-1, 0, FALSE, FALSE)
DeclaredNow == Declared(boot + now, restarts, FALSE, TRUE)
SavedSince(d) == Declared(d.wall, d.restarts, TRUE, d.kept)
LoadedIfSaved(d) == Declared(d.wall, d.restarts, FALSE, d.kept /\ d.savedSince)

Init ==
  /\ tracker = NewTracker
  /\ mRefractoryPeriodEndsSec = NoEntries
  /\ metadataFile = NoEntries /\ mLastMetadataWriteNs = 0
  /\ now = 0 /\ boot = BootPhase /\ restarts = 0
  /\ given = [n \in 0 .. MaxBucket |-> NoEntries]
  /\ verdict = NoVerdict
  /\ declared = [k \in Keys |-> NeverDeclared]

Tick ==
  /\ now < MaxTicks /\ now' = now + 1
  /\ UNCHANGED <<tracker, mRefractoryPeriodEndsSec, savedVars, boot, restarts, given, verdict,
                declared>>

\* A count or gauge metric passes on a whole bucket.
addPastBucket(bucket, bucketNum) ==
  /\ tracker' = WithBucket(tracker, bucket, bucketNum)
  /\ given' = [given EXCEPT ![bucketNum] = [k \in Keys |-> ValueIn(bucket, k)]]
  /\ verdict' = NoVerdict
  /\ UNCHANGED <<mRefractoryPeriodEndsSec, savedVars, clocks, declared>>

\* A value or duration metric passes on the value of one key.
addPastBucketValue(k, bucketValue, bucketNum) ==
  /\ tracker' = WithValue(tracker, k, bucketValue, bucketNum)
  /\ given' = [given EXCEPT ![bucketNum][k] = bucketValue]
  /\ verdict' = NoVerdict
  /\ UNCHANGED <<mRefractoryPeriodEndsSec, savedVars, clocks, declared>>

\* The current bucket of a metric lies after all buckets it has passed on.
\* declareAnomaly is that of an alert that always informs.
detectAndDeclareAnomaly(k, currBucketNum, currentBucketValue) ==
  LET tr == DetectAdvance(tracker, currBucketNum)
      anomaly == IsAnomaly(tr, k, currentBucketValue)
  IN  /\ currBucketNum > tracker.mMostRecentBucketNum
      /\ tracker' = tr
      /\ verdict' = [bucketNum |-> currBucketNum, key |-> k, value |-> currentBucketValue,
                     anomaly |-> anomaly]
      /\ IF anomaly /\ ~isInRefractoryPeriod(mRefractoryPeriodEndsSec, now, k)
           THEN /\ mRefractoryPeriodEndsSec' =
                     [mRefractoryPeriodEndsSec EXCEPT ![k] = RefractoryEnd(now)]
                /\ declared' = [declared EXCEPT ![k] = DeclaredNow]
           ELSE UNCHANGED <<mRefractoryPeriodEndsSec, declared>>
      /\ UNCHANGED <<savedVars, clocks, given>>

\* At a device shutdown and at termination: skipped right after another save.
SaveMetadataToDisk ==
  /\ now >= mLastMetadataWriteNs + WRITE_DATA_COOL_DOWN_SEC * TicksPerSec
  /\ mLastMetadataWriteNs' = now
  /\ metadataFile' = writeAlertMetadataToProto(mRefractoryPeriodEndsSec, boot + now, now)
  /\ declared' = [k \in Keys |-> SavedSince(declared[k])]
  /\ UNCHANGED <<tracker, mRefractoryPeriodEndsSec, clocks, given, verdict>>

\* statsd starts again: Startup loads the metadata and deletes the file.  After
\* a reboot elapsed time starts over.
Startup(reboot) ==
  /\ restarts < MaxRestarts /\ restarts' = restarts + 1
  /\ now' = IF reboot THEN 0 ELSE now
  /\ boot' = IF reboot THEN boot + now ELSE boot
  /\ tracker' = NewTracker
  /\ mRefractoryPeriodEndsSec' = loadAlertMetadata(metadataFile, boot' + now', now')
  /\ metadataFile' = NoEntries /\ mLastMetadataWriteNs' = 0
  /\ given' = [n \in 0 .. MaxBucket |-> NoEntries]
  /\ declared' = [k \in Keys |-> LoadedIfSaved(declared[k])]
  /\ verdict' = NoVerdict

Next ==
  \/ Tick
  \/ \E n \in 0 .. MaxBucket :
       \/ \E ks \in SUBSET Keys : \E bucket \in [ks -> Values] : addPastBucket(bucket, n)
       \/ \E k \in Keys, v \in Values :
            addPastBucketValue(k, v, n) \/ detectAndDeclareAnomaly(k, n, v)
  \/ SaveMetadataToDisk
  \/ \E reboot \in BOOLEAN : Startup(reboot)

Spec == Init /\ [][Next]_vars

-----------------------------------------------------------------------------
\* Types; and only keys with a sum have an entry in mSumOverPastBuckets, so that
\* it does not grow with every key ever seen.
TypeOK ==
  /\ tracker.mMostRecentBucketNum \in -1 .. MaxBucket
  /\ DOMAIN tracker.mPastBuckets = 0 .. mNumOfPastBuckets - 1
  /\ \A i \in DOMAIN tracker.mPastBuckets :
       DOMAIN tracker.mPastBuckets[i] \subseteq Keys
  /\ DOMAIN tracker.mSumOverPastBuckets \subseteq Keys
  /\ 0 \notin Values => \A k \in DOMAIN tracker.mSumOverPastBuckets : tracker.mSumOverPastBuckets[k] # 0
  /\ mRefractoryPeriodEndsSec \in [Keys -> Nat] /\ metadataFile \in [Keys -> Nat]
  /\ mLastMetadataWriteNs \in Nat /\ now \in Nat /\ boot \in Nat /\ restarts \in Nat

\* The ring holds the last mNumOfPastBuckets buckets and nothing else: reading a
\* bucket (getPastBucketValue, from which a duration tracker predicts when its
\* alarm is due) yields what was last given for it, and 0 outside the window.
RingHoldsWindow ==
  \A k \in Keys, n \in 0 .. MaxBucket :
    LET last == tracker.mMostRecentBucketNum
    IN  getPastBucketValue(tracker, k, n)
          = IF last - mNumOfPastBuckets < n /\ n <= last THEN given[n][k] ELSE 0

\* The sum of what the metric gave for key k in the buckets first .. last.
GivenIn(k, first, last) ==
  LET sum[n \in -1 .. last] ==
        IF n = -1 THEN 0 ELSE sum[n - 1] + (IF n >= first THEN given[n][k] ELSE 0)
  IN  sum[last]

\* AnomalyTracker.h: mSumOverPastBuckets is the sum over the past buckets, and
\* these are the last mNumOfPastBuckets buckets: whatever order the buckets
\* come in, are replaced, skipped or fall out of the ring, the cached sum of a
\* key is the sum of the values last given for the buckets of the window.
SumIsWindowSum ==
  \A k \in Keys :
    LET last == tracker.mMostRecentBucketNum
    IN  ValueIn(tracker.mSumOverPastBuckets, k)
          = IF mNumOfPastBuckets = 0 THEN 0 ELSE GivenIn(k, last - mNumOfPastBuckets + 1, last)

\* detectAnomaly answers for the window that ends with the current bucket: an
\* anomaly is found exactly when the value of that bucket and those of the
\* mNumOfPastBuckets buckets before it exceed the threshold, also when buckets
\* were skipped in between.
VerdictIsOfWindow ==
  verdict # NoVerdict =>
    (verdict.anomaly <=>
       GivenIn(verdict.key, verdict.bucketNum - mNumOfPastBuckets, verdict.bucketNum - 1)
         + verdict.value > trigger_if_sum_gt)

\* A key is silent for the refractory period, across restarts and reboots if
\* the metadata was saved in time; each restart may cost a second, because
\* elapsed time and wall clock are rounded to seconds independently.
RefractorySurvives ==
  [][\A k \in Keys :
       declared[k].kept /\ declared'[k].wall # declared[k].wall =>
         declared'[k].wall >=
           declared[k].wall
             + (refractory_period_secs - (restarts - declared[k].restarts)) * TicksPerSec]_vars
=============================================================================
