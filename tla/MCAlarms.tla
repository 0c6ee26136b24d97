------------------------------ MODULE MCAlarms ------------------------------
(***************************************************************************)
(* One run for the parts of alerts and alarms: the detector of an alert    *)
(* (AnomalyTracker), the alarms of durations that are running              *)
(* (AnomalyAlarm), the periodic alarms of two configs (PeriodicAlarm) and  *)
(* the heap both monitors are built on (IndexedPriorityQueue, with seven   *)
(* elements, two of equal priority: three levels, so that an element moved *)
(* by remove may have to go up).  They share no state: a behaviour is one  *)
(* of the part chosen at the start.                                        *)
(***************************************************************************)
EXTENDS AnomalyAlarm, PeriodicAlarm, TLC

CONSTANTS c1, c2

VARIABLES part, heap
VARIABLES tracker, tEndsSec, metadataFile, mLastMetadataWriteNs, tNow, boot, restarts, given, verdict,
          tDeclared

\* A second has two milliseconds here.
Offsets == c1 :> 2 @@ c2 :> 4
WholeSeconds == c1 :> 4 @@ c2 :> 6      \* every 2 s, every 3 s
Times == <<1, 2, 3, 4, 4, 5, 6>>

Q == INSTANCE IndexedPriorityQueue WITH Elements <- 1 .. 7, Priority <- Times

T == INSTANCE AnomalyTracker WITH
       Keys <- {"k"}, Values <- {1, 2}, mNumOfPastBuckets <- 2, trigger_if_sum_gt <- 3,
       refractory_period_secs <- 2, WRITE_DATA_COOL_DOWN_SEC <- 1, BootPhase <- 5, MaxBucket <- 3,
       MaxTicks <- 4, MaxRestarts <- 1,
       mRefractoryPeriodEndsSec <- tEndsSec, now <- tNow, declared <- tDeclared

tVars == <<tracker, tEndsSec, metadataFile, mLastMetadataWriteNs, tNow, boot, restarts, given, verdict,
           tDeclared>>
allVars == <<part, vars, pVars, tVars, heap>>

SuiteInit ==
  /\ part \in {"anomaly", "periodic", "detector", "heap"}
  /\ Init /\ PeriodicInit /\ T!Init /\ Q!Init

AnomalyStep == part = "anomaly" /\ Next /\ UNCHANGED <<part, pVars, tVars, heap>>
InPeriodic(A) == part = "periodic" /\ A /\ UNCHANGED <<part, vars, tVars, heap>>
PeriodicStep == InPeriodic(PeriodicNext)
DetectorStep == part = "detector" /\ T!Next /\ UNCHANGED <<part, vars, pVars, heap>>
HeapStep == part = "heap" /\ Q!Next /\ UNCHANGED <<part, vars, pVars, tVars>>

\* The fairness of the parts (see Fairness in their modules).
SuiteFairness ==
  /\ WF_vars(part = "anomaly" /\ Tick /\ UNCHANGED <<part, pVars, tVars, heap>>)
  /\ WF_vars(part = "anomaly" /\ OnLogEvent /\ UNCHANGED <<part, pVars, tVars, heap>>)
  /\ WF_pVars(InPeriodic(PeriodicTick))
  /\ WF_pVars(InPeriodic(onAlarm))
  /\ WF_pVars(InPeriodic(informAlarmForSubscriberTriggeringFired))
  /\ WF_pVars(InPeriodic(\E call \in popped : onPeriodicAlarmFired(call)))
  /\ WF_pVars(InPeriodic(\E readable \in SUBSET {c1, c2} : statsCompanionServiceDied(readable)))
  /\ WF_pVars(InPeriodic(periodicCompanionReady))

SuiteSpec ==
  /\ SuiteInit /\ SuiteFairness
  /\ [][AnomalyStep \/ PeriodicStep \/ DetectorStep \/ HeapStep]_allVars

-----------------------------------------------------------------------------

\* The ring of AnomalyTracker holds what was last given for the buckets of the
\* window, the cached sum is the sum over them, and detectAnomaly answers for the
\* window that ends with the current bucket.  A refractory period survives restarts
\* and reboots when it was saved (AnomalyTracker::loadAlertMetadata).
DetectorSound ==
  /\ [](T!TypeOK /\ T!RingHoldsWindow /\ T!SumIsWindowSum /\ T!VerdictIsOfWindow)
  /\ T!RefractorySurvives

\* An alarm of a running duration fires or is stopped (AnomalyAlarm!AlarmsFire); a
\* periodic alarm that comes due fires and is set again, across deaths of the
\* system server.
EveryAlarmFires ==
  /\ part = "anomaly" => AlarmsFire
  /\ part = "periodic" => DueAlarmsFire

\* indexed_priority_queue implements the queue MinQueue that AlarmMonitor relies on;
\* the heap keeps its order and an exact index through interior removals.
ImplementsMinQueue ==
  /\ [][Q!HeapConsistent']_heap
  /\ Q!ImplementsMinQueue
=============================================================================
