---------------------------- MODULE AlarmMonitor ----------------------------
(***************************************************************************)
(* anomaly/AlarmMonitor.{h,cpp}: a priority queue of alarms of which only  *)
(* the soonest, or one close to it, is registered with a one-shot timer.   *)
(* statsd has two of them: one for anomaly alarms (AnomalyAlarm) and one   *)
(* for periodic alarms (PeriodicAlarm).                                    *)
(*                                                                         *)
(* An alarm is a record that identifies the InternalAlarm object and has a *)
(* field timestampSec.  A monitor is a record:                             *)
(*   mPq                      the set of alarms in the queue               *)
(*   mRegisteredAlarmTimeSec  0 stands for "none registered"               *)
(*   timer                    the one-shot timer behind mUpdateAlarm and   *)
(*                            mCancelAlarm, 0 when it is not set           *)
(*   linked                   the callbacks reach the timer                *)
(* Every method takes mLock for its whole body, so it is one operator here.*)
(***************************************************************************)
EXTENDS Integers

CONSTANT mMinUpdateTimeSec     \* MIN_DIFF_TO_UPDATE_REGISTERED_ALARM_SECS

ASSUME MinUpdateAssumption == mMinUpdateTimeSec \in Nat

NewAlarmMonitor(linked) ==
  [mPq |-> {}, mRegisteredAlarmTimeSec |-> 0, timer |-> 0, linked |-> linked]

\* mPq.top()->timestampSec
Soonest(pq) ==
  (CHOOSE a \in pq : \A b \in pq : a.timestampSec <= b.timestampSec).timestampSec

updateRegisteredAlarmTime(mon, timestampSec) ==
  [mPq |-> mon.mPq, mRegisteredAlarmTimeSec |-> timestampSec,
   timer |-> IF mon.linked THEN timestampSec ELSE mon.timer, linked |-> mon.linked]

cancelRegisteredAlarmTime(mon) ==
  [mPq |-> mon.mPq, mRegisteredAlarmTimeSec |-> 0,
   timer |-> IF mon.linked THEN 0 ELSE mon.timer, linked |-> mon.linked]

WithQueue(mon, pq) ==
  [mPq |-> pq, mRegisteredAlarmTimeSec |-> mon.mRegisteredAlarmTimeSec,
   timer |-> mon.timer, linked |-> mon.linked]

addAlarm(mon, alarm) ==
  LET queued == WithQueue(mon, mon.mPq \cup {alarm})
  IN  IF alarm.timestampSec < 1
        THEN mon
      ELSE IF \/ mon.mRegisteredAlarmTimeSec < 1
              \/ alarm.timestampSec + mMinUpdateTimeSec < mon.mRegisteredAlarmTimeSec
        THEN updateRegisteredAlarmTime(queued, alarm.timestampSec)
      ELSE queued

removeAlarm(mon, alarm) ==
  LET rest == mon.mPq \ {alarm}
      queued == WithQueue(mon, rest)
  IN  IF alarm \notin mon.mPq
        THEN mon
      ELSE IF rest = {}
        THEN cancelRegisteredAlarmTime(queued)
      ELSE IF Soonest(rest) > mon.mRegisteredAlarmTimeSec + mMinUpdateTimeSec
        THEN updateRegisteredAlarmTime(queued, Soonest(rest))
      ELSE queued

\* The alarms popSoonerThan returns, and the monitor it leaves behind.
SoonerThan(mon, timestampSec) == {a \in mon.mPq : a.timestampSec <= timestampSec}

\* Mutant of popSoonerThan: the next alarm is not registered.
popWithoutUpdate(mon, timestampSec) ==
  WithQueue(mon, mon.mPq \ SoonerThan(mon, timestampSec))

popSoonerThan(mon, timestampSec) ==
  LET old == SoonerThan(mon, timestampSec)
      rest == mon.mPq \ old
      queued == WithQueue(mon, rest)
  IN  IF old = {} THEN mon
      ELSE IF rest = {} THEN cancelRegisteredAlarmTime(queued)
      ELSE updateRegisteredAlarmTime(queued, Soonest(rest))

\* Mutant of setStatsCompanionService: nothing is registered with the new service.
setStatsCompanionServiceOnly(mon, linked) ==
  [mPq |-> mon.mPq, mRegisteredAlarmTimeSec |-> mon.mRegisteredAlarmTimeSec,
   timer |-> mon.timer, linked |-> linked]

setStatsCompanionService(mon, linked) ==
  LET m == [mPq |-> mon.mPq, mRegisteredAlarmTimeSec |-> mon.mRegisteredAlarmTimeSec,
            timer |-> mon.timer, linked |-> linked]
  IN  IF linked /\ mon.mPq # {}
        THEN updateRegisteredAlarmTime(m, Soonest(mon.mPq)) ELSE m

-----------------------------------------------------------------------------
\* AlarmMonitor.h: the registered time is within mMinUpdateTimeSec of the soonest
\* alarm, and 0 exactly when there is no alarm.
RegisteredNear(mon) ==
  /\ mon.mRegisteredAlarmTimeSec = 0 <=> mon.mPq = {}
  /\ mon.mPq # {} =>
       /\ Soonest(mon.mPq) <= mon.mRegisteredAlarmTimeSec + mMinUpdateTimeSec
       /\ mon.mRegisteredAlarmTimeSec <= Soonest(mon.mPq) + mMinUpdateTimeSec

\* A removal left the timer set for an alarm that is gone; it fires too early and
\* is then set for none of those that wait.
RegisteredEarly(mon) == mon.mPq # {} /\ mon.mRegisteredAlarmTimeSec < Soonest(mon.mPq)
=============================================================================
