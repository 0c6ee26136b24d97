---------------------------- MODULE AnomalyAlarm ----------------------------
(***************************************************************************)
(* Anomaly alarms: anomaly/DurationAnomalyTracker.cpp on top of the        *)
(* anomaly AlarmMonitor, and the timer mNextAnomalyAlarmTime that          *)
(* StatsLogProcessor keeps for it (the monitor's callbacks set it, and     *)
(* OnLogEvent fires it when an event arrives at or after it).              *)
(*                                                                         *)
(* A duration tracker starts an alarm for the time at which its duration   *)
(* is going to exceed the threshold and stops it when the duration stops;  *)
(* what it predicts is an input here.  All of it runs under mMetricsMutex  *)
(* of StatsLogProcessor, one handler at a time.                            *)
(***************************************************************************)
EXTENDS AlarmMonitor, Refractory, FiniteSets

CONSTANTS
  Keys,        \* dimension keys of the metric
  Lateness,    \* a log event may be this much older than the time it is processed
  MaxTicks,    \* bound: the clock stops here, and no alarm is set for later
  MaxStarts    \* bound: number of alarms started

ASSUME AlarmAssumption ==
  IsFiniteSet(Keys) /\ Lateness \in Nat /\ MaxTicks \in Nat /\ MaxStarts \in Nat

VARIABLES
  monitor,                   \* the AlarmMonitor; its timer is mNextAnomalyAlarmTime
  mAlarms,                   \* alarm time of each dimension key in seconds, 0: none
  mRefractoryPeriodEndsSec,
  now,                       \* elapsed realtime, in ticks
  starts,                    \* number of alarms started
  declared                   \* history: when an anomaly was last declared, -1: never

vars == <<monitor, mAlarms, mRefractoryPeriodEndsSec, now, starts, declared>>

-----------------------------------------------------------------------------
\* The tracker and its monitor as one value, for handlers that chain calls.
Now == [mon |-> monitor, alarms |-> mAlarms, ends |-> mRefractoryPeriodEndsSec,
        declared |-> declared]

Becomes(s) ==
  \E x \in {s} :
    /\ monitor' = x.mon
    /\ mAlarms' = x.alarms
    /\ mRefractoryPeriodEndsSec' = x.ends
    /\ declared' = x.declared

\* The InternalAlarm of dimension key k.
AlarmOf(alarms, k) == [key |-> k, timestampSec |-> alarms[k]]

\* The tracker with other alarms, and the monitor that knows of them.
WithAlarms(s, mon, alarms) ==
  [mon |-> mon, alarms |-> alarms, ends |-> s.ends, declared |-> s.declared]

\* declareAnomaly for all keys of ks, of an alert that always informs.
declareAnomalies(s, ks, timestampNs) ==
  LET open == {k \in ks : ~isInRefractoryPeriod(s.ends, timestampNs, k)}
  IN  [mon |-> s.mon, alarms |-> s.alarms,
       ends |-> [k \in Keys |-> IF k \in open THEN RefractoryEnd(timestampNs) ELSE s.ends[k]],
       declared |-> [k \in Keys |-> IF k \in open THEN timestampNs ELSE s.declared[k]]]

startAlarm(s, k, timestampNs) ==
  LET sec == ((timestampNs - 1) \div TicksPerSec) + 1      \* rounded up
      cleared == IF s.alarms[k] = 0 THEN s.mon
                 ELSE removeAlarm(s.mon, AlarmOf(s.alarms, k))
  IN  IF isInRefractoryPeriod(s.ends, timestampNs, k) THEN s
      ELSE WithAlarms(s, addAlarm(cleared, [key |-> k, timestampSec |-> sec]),
                      [s.alarms EXCEPT ![k] = sec])

stopAlarm(s, k, timestampNs) ==
  LET due == timestampNs >= s.alarms[k] * TicksPerSec
      d == IF due THEN declareAnomalies(s, {k}, timestampNs) ELSE s
  IN  IF s.alarms[k] = 0 THEN s
      ELSE WithAlarms(d, removeAlarm(s.mon, AlarmOf(s.alarms, k)), [s.alarms EXCEPT ![k] = 0])

\* informAlarmsFired: the tracker's share of the fired alarms.
informAlarmsFired(s, firedAlarms, timestampNs) ==
  LET ks == {k \in Keys : s.alarms[k] # 0 /\ AlarmOf(s.alarms, k) \in firedAlarms}
  IN  WithAlarms(declareAnomalies(s, ks, timestampNs), s.mon,
                 [k \in Keys |-> IF k \in ks THEN 0 ELSE s.alarms[k]])

\* The monitor with mNextAnomalyAlarmTime set to another time.
WithTimer(mon, timer) ==
  [mPq |-> mon.mPq, mRegisteredAlarmTimeSec |-> mon.mRegisteredAlarmTimeSec,
   timer |-> timer, linked |-> mon.linked]

\* The start of OnLogEvent: a timer that is due is reset and the alarms fire.
informAnomalyAlarmFired(s) ==
  LET sec == FloorSec(now)
      mon == WithTimer(s.mon, 0)
      fired == SoonerThan(mon, sec)
  IN  IF s.mon.timer = 0 \/ s.mon.timer * TicksPerSec > now THEN s
      ELSE informAlarmsFired(WithAlarms(s, popSoonerThan(mon, sec), s.alarms), fired, now)

-----------------------------------------------------------------------------
Init ==
  /\ monitor = NewAlarmMonitor(TRUE)
  /\ mAlarms = [k \in Keys |-> 0]
  /\ mRefractoryPeriodEndsSec = [k \in Keys |-> 0]
  /\ now = TicksPerSec /\ starts = 0
  /\ declared = [k \in Keys |-> -1]

Tick == now < MaxTicks /\ now' = now + 1
          /\ UNCHANGED <<monitor, mAlarms, mRefractoryPeriodEndsSec, starts, declared>>

\* OnLogEvent of an event that concerns no duration of the metric.
OnLogEvent ==
  /\ Becomes(informAnomalyAlarmFired(Now))
  /\ UNCHANGED <<now, starts>>

EventTimes == {t \in 1 .. now : t >= now - Lateness}

\* OnLogEvent of an event that makes the duration of k start at eventTime: the
\* threshold would be exceeded at timestampNs.
OnStartEvent(k, eventTime, timestampNs) ==
  /\ starts < MaxStarts
  /\ eventTime <= timestampNs
  /\ Becomes(startAlarm(informAnomalyAlarmFired(Now), k, timestampNs))
  /\ starts' = starts + 1
  /\ UNCHANGED now

\* OnLogEvent of an event that stops the duration of k.
OnStopEvent(k, eventTime) ==
  /\ mAlarms[k] # 0
  /\ Becomes(stopAlarm(informAnomalyAlarmFired(Now), k, eventTime))
  /\ UNCHANGED <<now, starts>>

\* cancelAllAlarms, from the destructor: the metric is removed by a config
\* update and a new tracker takes over.
cancelAllAlarms ==
  /\ monitor' = LET RemoveAll[ks \in SUBSET Keys] ==
                      IF ks = {} THEN monitor
                      ELSE LET k == CHOOSE x \in ks : TRUE
                           IN  removeAlarm(RemoveAll[ks \ {k}], AlarmOf(mAlarms, k))
                IN  RemoveAll[{k \in Keys : mAlarms[k] # 0}]
  /\ mAlarms' = [k \in Keys |-> 0]
  /\ mRefractoryPeriodEndsSec' = [k \in Keys |-> 0]
  /\ declared' = [k \in Keys |-> -1]
  /\ UNCHANGED <<now, starts>>

\* The companion service comes or goes: the callbacks do not use it, but the
\* monitor registers its soonest alarm again when it comes.
statsCompanionReady ==
  /\ monitor' = setStatsCompanionService(monitor, TRUE)
  /\ UNCHANGED <<mAlarms, mRefractoryPeriodEndsSec, now, starts, declared>>

Next ==
  \/ Tick
  \/ OnLogEvent
  \/ \E k \in Keys, e \in EventTimes :
       \/ \E t \in 1 .. MaxTicks : OnStartEvent(k, e, t)
       \/ OnStopEvent(k, e)
  \/ cancelAllAlarms
  \/ statsCompanionReady

Spec == Init /\ [][Next]_vars

\* Time passes and log events keep arriving.
Fairness == WF_vars(Tick) /\ WF_vars(OnLogEvent)

LiveSpec == Spec /\ Fairness

-----------------------------------------------------------------------------
TypeOK ==
  /\ monitor.mPq \subseteq [key : Keys, timestampSec : Nat \ {0}]
  /\ monitor.mRegisteredAlarmTimeSec \in Nat /\ monitor.timer \in Nat /\ monitor.linked
  /\ mAlarms \in [Keys -> Nat]
  /\ mRefractoryPeriodEndsSec \in [Keys -> Nat]
  /\ now \in Nat /\ starts \in Nat
  /\ declared \in [Keys -> Int]

\* The monitor holds exactly the alarms the tracker knows of: no order of
\* starts, restarts, stops and firings leaves an alarm in the monitor that
\* nobody would recognise when it fires, or a key waiting for an alarm that is
\* not there.
MonitorHoldsTrackersAlarms ==
  monitor.mPq = {AlarmOf(mAlarms, k) : k \in {x \in Keys : mAlarms[x] # 0}}

\* AlarmMonitor.h: the registered time may not be that of the soonest alarm but
\* is within mMinUpdateTimeSec of it; 0 says that there is no alarm.
RegisteredNearSoonest == RegisteredNear(monitor)

\* Tracker and monitor agree on the alarms that are set, and the time that is
\* registered is near the soonest of them (DurationAnomalyTracker, AlarmMonitor).
AnomalyAlarmsSound == TypeOK /\ MonitorHoldsTrackersAlarms /\ RegisteredNearSoonest

\* AlarmMonitor.h: mRegisteredAlarmTimeSec is the alarm that is registered, so
\* while it is not 0 the timer that shall fire the soonest alarm is set.
RegisteredAlarmIsSet == monitor.mRegisteredAlarmTimeSec # 0 => monitor.timer # 0

\* An anomaly that was declared silences its key for the refractory period, by
\* whichever way (a firing, a stop that comes late) the next one is found.
RefractoryRespected ==
  [][\A k \in Keys :
       declared[k] # -1 /\ declared'[k] # declared[k] /\ declared'[k] # -1 =>
         declared'[k] - declared[k] >= refractory_period_secs * TicksPerSec]_vars

\* Every alarm is eventually gone, because it fires once it is due or is stopped,
\* unless a removal leaves the timer set too early: RegisteredAlarmIsSet is about
\* what happens then.
AlarmsFire ==
  []~RegisteredEarly(monitor) => \A k \in Keys : mAlarms[k] # 0 ~> mAlarms[k] = 0
=============================================================================
