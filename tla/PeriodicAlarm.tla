--------------------------- MODULE PeriodicAlarm ---------------------------
(***************************************************************************)
(* Periodic alarms that trigger subscribers: anomaly/AlarmTracker.cpp on   *)
(* the periodic AlarmMonitor, StatsService (the binder calls of the        *)
(* companion service), StatsLogProcessor (the configs) and, in the system  *)
(* server, StatsCompanionService with its AlarmManager alarm.              *)
(*                                                                         *)
(* A call informAlarmForSubscriberTriggeringFired pops the due alarms      *)
(* under the monitor's lock and informs the trackers later, under          *)
(* mMetricsMutex: config updates and removals come in between.  The system *)
(* server may die at any time; its alarms and calls die with it.           *)
(*                                                                         *)
(* Each config has one alarm.  An InternalAlarm is an object: it is known  *)
(* by its config and its number among the alarms of that config.           *)
(***************************************************************************)
EXTENDS AlarmMonitor, FiniteSets

CONSTANTS
  Configs,       \* config keys, each with one Alarm
  MsPerSec,      \* MS_PER_SEC
  startMillis,   \* time base of the alarms
  Offset,        \* offset_millis of each config's alarm
  Period,        \* period_millis of each config's alarm
  MaxSec,        \* bound: the clock stops here
  MaxUpdates,    \* bound: number of config updates and removals
  MaxDeaths      \* bound: number of system server deaths

\* Offsets and periods are positive (initAlarms); statsd starts after the first second.
ASSUME PeriodicAssumption ==
  /\ IsFiniteSet(Configs) /\ MsPerSec \in Nat \ {0}
  /\ startMillis \in Nat /\ startMillis >= MsPerSec
  /\ \A c \in Configs : Offset[c] \in Nat \ {0} /\ Period[c] \in Nat \ {0}
  /\ MaxSec \in Nat /\ MaxUpdates \in Nat /\ MaxDeaths \in Nat

VARIABLES
  pMonitor,     \* the AlarmMonitor; its timer is the AlarmManager alarm
  trackers,    \* the AlarmTracker of each config
  informs,     \* alarm calls on their way from the companion to statsd
  popped,      \* calls that popped alarms and wait for mMetricsMutex
  companion,   \* "up", "dead" (statsd does not know yet) or "gone"
  pNow, updates, deaths

pVars == <<pMonitor, trackers, informs, popped, companion, pNow, updates, deaths>>

-----------------------------------------------------------------------------
Tracker(alive, gen, mAlarmSec, setAt) ==
  [alive |-> alive, gen |-> gen, mAlarmSec |-> mAlarmSec, setAt |-> setAt]

NoTracker(gen) == Tracker(FALSE, gen, 0, 0)

InternalAlarm(ts, c) == [config |-> c, gen |-> ts[c].gen, timestampSec |-> ts[c].mAlarmSec]

findNextAlarmSec(mAlarmSec, c, currentTimeSec) ==
  IF currentTimeSec < mAlarmSec THEN mAlarmSec
  ELSE mAlarmSec
         + ((((currentTimeSec - mAlarmSec) * MsPerSec) \div Period[c] + 1) * Period[c])
             \div MsPerSec

\* The constructor of the tracker of c.  setAt is history: the time for which
\* the alarm was computed.
NewTracker(c, gen) ==
  Tracker(TRUE, gen, findNextAlarmSec((startMillis + Offset[c]) \div MsPerSec, c, pNow), pNow)

\* State of the monitor and the trackers, for handlers that chain calls.
PeriodicState(mon, ts) == [mon |-> mon, trackers |-> ts]
PeriodicNow == PeriodicState(pMonitor, trackers)
PeriodicBecomes(s) == \E x \in {s} : pMonitor' = x.mon /\ trackers' = x.trackers

\* A config is set up: the new tracker adds its alarm, then the tracker it
\* replaces removes its own.
Updated(s, c) ==
  LET new == [s.trackers EXCEPT ![c] = NewTracker(c, s.trackers[c].gen + 1)]
      added == addAlarm(s.mon, InternalAlarm(new, c))
  IN  PeriodicState(IF s.trackers[c].alive
                      THEN removeAlarm(added, InternalAlarm(s.trackers, c)) ELSE added, new)

\* The same for a set of configs, one after the other.
UpdatedAll(s, cs) ==
  LET all[S \in SUBSET cs] ==
        IF S = {} THEN s
        ELSE LET c == CHOOSE x \in S : TRUE IN Updated(all[S \ {c}], c)
  IN  all[cs]

\* The tracker of c after its alarm fired in a call.
NextTracker(s, c, call) ==
  Tracker(TRUE, s.trackers[c].gen + 1, findNextAlarmSec(s.trackers[c].mAlarmSec, c, call.at), call.at)

\* Mutant of Informed: the next alarm is computed but not added.
InformedWithoutAdd(s, c, call) ==
  IF s.trackers[c].alive /\ InternalAlarm(s.trackers, c) \in call.alarms
    THEN PeriodicState(s.mon, [s.trackers EXCEPT ![c] = NextTracker(s, c, call)])
    ELSE s

\* AlarmTracker::informAlarmsFired of config c: triggers its subscribers and
\* sets the next alarm.
Informed(s, c, call) ==
  LET new == [s.trackers EXCEPT ![c] = NextTracker(s, c, call)]
  IN  IF s.trackers[c].alive /\ InternalAlarm(s.trackers, c) \in call.alarms
        THEN PeriodicState(addAlarm(s.mon, InternalAlarm(new, c)), new)
        ELSE s

InformedAll(s, call) ==
  LET all[S \in SUBSET Configs] ==
        IF S = {} THEN s
        ELSE LET c == CHOOSE x \in S : TRUE IN Informed(all[S \ {c}], c, call)
  IN  all[Configs]

\* The one-shot timer fires or goes with the system server.
WithoutTimer(mon, linked) ==
  [mPq |-> mon.mPq, mRegisteredAlarmTimeSec |-> mon.mRegisteredAlarmTimeSec,
   timer |-> 0, linked |-> linked]

-----------------------------------------------------------------------------
PeriodicInit ==
  /\ pMonitor = NewAlarmMonitor(TRUE)
  /\ trackers = [c \in Configs |-> NoTracker(0)]
  /\ informs = 0 /\ popped = {}
  /\ companion = "up"
  /\ pNow = startMillis \div MsPerSec /\ updates = 0 /\ deaths = 0

\* The clock stands still at the bound.
PeriodicTick ==
  /\ pNow' = IF pNow < MaxSec THEN pNow + 1 ELSE pNow
  /\ UNCHANGED <<pMonitor, trackers, informs, popped, companion, updates, deaths>>

\* First set-up of a config; afterwards an update.
OnConfigUpdated(c) ==
  /\ trackers[c].gen = 0 \/ updates < MaxUpdates
  /\ updates' = IF trackers[c].gen = 0 THEN updates ELSE updates + 1
  /\ PeriodicBecomes(Updated(PeriodicNow, c))
  /\ UNCHANGED <<informs, popped, companion, pNow, deaths>>

OnConfigRemoved(c) ==
  /\ trackers[c].alive /\ updates < MaxUpdates
  /\ updates' = updates + 1
  /\ pMonitor' = removeAlarm(pMonitor, InternalAlarm(trackers, c))
  /\ trackers' = [trackers EXCEPT ![c] = NoTracker(trackers[c].gen)]
  /\ UNCHANGED <<informs, popped, companion, pNow, deaths>>

\* AlarmManager fires the alarm once; PeriodicAlarmListener calls statsd.
onAlarm ==
  /\ companion = "up" /\ pMonitor.timer # 0 /\ pMonitor.timer <= pNow
  /\ pMonitor' = WithoutTimer(pMonitor, pMonitor.linked)
  /\ informs' = informs + 1
  /\ UNCHANGED <<trackers, popped, companion, pNow, updates, deaths>>

\* The first half of the call: the due alarms leave the monitor.
informAlarmForSubscriberTriggeringFired ==
  /\ informs > 0 /\ informs' = informs - 1
  /\ LET fired == SoonerThan(pMonitor, pNow)
     IN  popped' = IF fired = {} THEN popped ELSE popped \cup {[at |-> pNow, alarms |-> fired]}
  /\ pMonitor' = popSoonerThan(pMonitor, pNow)
  /\ UNCHANGED <<trackers, companion, pNow, updates, deaths>>

\* The second half: every tracker looks for its alarm among the popped ones.
onPeriodicAlarmFired(call) ==
  /\ popped' = popped \ {call}
  /\ PeriodicBecomes(InformedAll(PeriodicNow, call))
  /\ UNCHANGED <<informs, companion, pNow, updates, deaths>>

SystemServerDies ==
  /\ companion = "up" /\ deaths < MaxDeaths
  /\ companion' = "dead" /\ deaths' = deaths + 1
  /\ pMonitor' = WithoutTimer(pMonitor, FALSE)
  /\ informs' = 0
  /\ UNCHANGED <<trackers, popped, pNow, updates>>

\* resetConfigs sets up the configs it can read from disk (readable) again.
statsCompanionServiceDied(readable) ==
  /\ companion = "dead"
  /\ companion' = "gone"
  /\ \E s \in {UpdatedAll(PeriodicNow, {c \in readable : trackers[c].alive})} :
       PeriodicBecomes(PeriodicState(setStatsCompanionService(s.mon, FALSE), s.trackers))
  /\ UNCHANGED <<informs, popped, pNow, updates, deaths>>

\* sayHiToStatsd cancels a left-over alarm, then statsd links to the companion.
periodicCompanionReady ==
  /\ companion = "gone"
  /\ companion' = "up"
  /\ pMonitor' = setStatsCompanionService(WithoutTimer(pMonitor, pMonitor.linked), TRUE)
  /\ UNCHANGED <<trackers, informs, popped, pNow, updates, deaths>>

PeriodicNext ==
  \/ PeriodicTick
  \/ \E c \in Configs : OnConfigUpdated(c) \/ OnConfigRemoved(c)
  \/ onAlarm
  \/ informAlarmForSubscriberTriggeringFired
  \/ \E call \in popped : onPeriodicAlarmFired(call)
  \/ SystemServerDies
  \/ \E readable \in SUBSET Configs : statsCompanionServiceDied(readable)
  \/ periodicCompanionReady

PeriodicSpec == PeriodicInit /\ [][PeriodicNext]_pVars

\* Time passes, AlarmManager fires what is due, binder calls and death notices
\* arrive, and the system server restarts.
PeriodicFairness ==
  /\ WF_pVars(PeriodicTick) /\ WF_pVars(onAlarm)
  /\ WF_pVars(informAlarmForSubscriberTriggeringFired)
  /\ WF_pVars(\E call \in popped : onPeriodicAlarmFired(call))
  /\ WF_pVars(\E readable \in SUBSET Configs : statsCompanionServiceDied(readable))
  /\ WF_pVars(periodicCompanionReady)

PeriodicLiveSpec == PeriodicSpec /\ PeriodicFairness

-----------------------------------------------------------------------------
AliveAlarms == {InternalAlarm(trackers, c) : c \in {x \in Configs : trackers[x].alive}}

PeriodicTypeOK ==
  /\ pMonitor.mPq \subseteq [config : Configs, gen : Nat, timestampSec : Nat \ {0}]
  /\ pMonitor.mRegisteredAlarmTimeSec \in Nat /\ pMonitor.timer \in Nat
  /\ pMonitor.linked <=> companion = "up"
  /\ trackers \in [Configs -> [alive : BOOLEAN, gen : Nat, mAlarmSec : Nat, setAt : Nat]]
  /\ informs \in Nat /\ companion \in {"up", "dead", "gone"}

\* Every alarm in the monitor belongs to a tracker that is alive, and the alarm
\* of a live tracker is in the monitor or in exactly one call that popped it:
\* no config update between the two halves of a call loses an alarm.
AlarmsAccounted ==
  /\ pMonitor.mPq \subseteq AliveAlarms
  /\ \A a \in AliveAlarms :
       IF a \in pMonitor.mPq THEN \A call \in popped : a \notin call.alarms
       ELSE \E call \in popped : a \in call.alarms
              /\ \A other \in popped \ {call} : a \notin other.alarms

\* AlarmMonitor.h: the registered time is within mMinUpdateTimeSec of the
\* soonest alarm, also after the companion died and came back.
PeriodicRegisteredNearSoonest == RegisteredNear(pMonitor)

\* AlarmTracker.cpp: a tracker looks for the first alarm time after the config
\* is added, or after the alarm that fired: the time it sets is not in the past, and
\* in the future if the period is a whole number of seconds.
NextAlarmInFuture ==
  \A c \in Configs : trackers[c].alive =>
    /\ trackers[c].mAlarmSec >= trackers[c].setAt
    /\ Period[c] % MsPerSec = 0 => trackers[c].mAlarmSec > trackers[c].setAt

\* A periodic alarm of a live config is in the monitor or in exactly one call that
\* popped it (informAlarmForSubscriberTriggeringFired), and was set for the future; the
\* time registered with the companion is within mMinUpdateTimeSec of the soonest.
PeriodicAlarmsSound ==
  PeriodicTypeOK /\ AlarmsAccounted /\ PeriodicRegisteredNearSoonest /\ NextAlarmInFuture

\* Every alarm that comes due triggers its subscribers and is set for later,
\* whenever the system server dies and restarts, unless its config is removed or
\* a removal leaves the timer set too early (see RegisteredAlarmIsSet of
\* AnomalyAlarm).
DueAlarmsFire ==
  []~RegisteredEarly(pMonitor) =>
    \A c \in Configs :
      trackers[c].alive /\ trackers[c].mAlarmSec <= MaxSec
        ~> ~trackers[c].alive \/ trackers[c].mAlarmSec > MaxSec
=============================================================================
