---------------------------- MODULE AlarmProofs ----------------------------
(***************************************************************************)
(* The alarms of running durations (AnomalyAlarm) and the periodic alarms  *)
(* (PeriodicAlarm), for any number of dimension keys and configs, any      *)
(* times, periods and refractory period: trackers and monitor agree on the *)
(* alarms, the registered time stays near the soonest of them, no anomaly  *)
(* is declared in a refractory period, and no alarm of a config is lost    *)
(* between the halves of the call that fires it.                           *)
(*                                                                         *)
(* The handlers chain calls on the trackers and their monitor as one       *)
(* value, so the argument is about such values: an operation of the        *)
(* monitor keeps MonOK, one of the duration anomaly tracker keeps StateOK  *)
(* and relates what is declared before and after it (Later), one of the    *)
(* periodic trackers keeps PeriodicOK.  The loops over keys and configs    *)
(* are recursions on a set: that the recursion defines a function, and     *)
(* what it computes, is shown by least counterexample on the number of     *)
(* members.                                                                *)
(***************************************************************************)
EXTENDS AnomalyAlarm, PeriodicAlarm, FiniteSetTheorems, WellFoundedInduction, TLAPS

Timed(pq) == \A a \in pq : a.timestampSec \in Nat \ {0}

MonOK(mon) ==
  /\ mon = [mPq |-> mon.mPq, mRegisteredAlarmTimeSec |-> mon.mRegisteredAlarmTimeSec,
            timer |-> mon.timer, linked |-> mon.linked]
  /\ Timed(mon.mPq)
  /\ mon.mRegisteredAlarmTimeSec \in Nat /\ mon.timer \in Nat /\ mon.linked \in BOOLEAN
  /\ RegisteredNear(mon)

-----------------------------------------------------------------------------
(* The monitor. *)

\* A nonempty set of naturals has a smallest member.
LEMMA SmallestNat ==
  ASSUME NEW T, T \subseteq Nat, T # {}
  PROVE  \E x \in T : \A y \in T : x <= y
<1>1. PICK x \in T : \A y \in T : ~(<<y, x>> \in OpToRel(<, Nat))
  BY NatLessThanWellFounded, WFMin, Zenon
<1>2. ASSUME NEW y \in T PROVE x <= y
  <2>1. ~(y < x)
    BY <1>1 DEF OpToRel
  <2> QED BY <2>1
<1> QED BY <1>2

\* The soonest alarm is the time of an alarm, and of none later than another.
LEMMA SoonestIsLeast ==
  ASSUME NEW pq, Timed(pq), pq # {}
  PROVE  /\ Soonest(pq) \in Nat \ {0}
         /\ \E a \in pq : Soonest(pq) = a.timestampSec
         /\ \A b \in pq : Soonest(pq) <= b.timestampSec
<1> DEFINE T == {a.timestampSec : a \in pq}
<1>1. T \subseteq Nat /\ T # {}
  BY DEF Timed
<1>2. PICK x \in T : \A y \in T : x <= y
  <2> HIDE DEF T
  <2> QED BY <1>1, SmallestNat
<1>3. PICK a \in pq : a.timestampSec = x
  BY <1>2
<1>4. \A b \in pq : a.timestampSec <= b.timestampSec
  BY <1>2, <1>3
<1>5. \E c \in pq : \A b \in pq : c.timestampSec <= b.timestampSec
  BY <1>4
<1> DEFINE top == CHOOSE c \in pq : \A b \in pq : c.timestampSec <= b.timestampSec
<1>6. top \in pq /\ \A b \in pq : top.timestampSec <= b.timestampSec
  BY <1>5, Zenon
<1>7. Soonest(pq) = top.timestampSec
  BY DEF Soonest
<1> HIDE DEF top
<1> QED
  BY <1>6, <1>7 DEF Timed

\* A monitor is known by its fields.
LEMMA FieldsOK ==
  ASSUME NEW pq, NEW reg \in Nat, NEW timer \in Nat, NEW linked \in BOOLEAN, NEW mon,
         mon = [mPq |-> pq, mRegisteredAlarmTimeSec |-> reg, timer |-> timer, linked |-> linked],
         Timed(pq), reg = 0 <=> pq = {},
         pq # {} => Soonest(pq) <= reg + mMinUpdateTimeSec /\ reg <= Soonest(pq) + mMinUpdateTimeSec
  PROVE  MonOK(mon) /\ mon.mPq = pq /\ mon.linked = linked
<1>1. mon.mPq = pq /\ mon.mRegisteredAlarmTimeSec = reg /\ mon.timer = timer /\ mon.linked = linked
  OBVIOUS
<1>2. RegisteredNear(mon)
  BY <1>1, Zenon DEF RegisteredNear
<1>3. mon = [mPq |-> mon.mPq, mRegisteredAlarmTimeSec |-> mon.mRegisteredAlarmTimeSec,
             timer |-> mon.timer, linked |-> mon.linked]
  BY <1>1
<1> QED
  BY <1>1, <1>2, <1>3, Zenon DEF MonOK

\* A new monitor has no alarm and has registered none.
LEMMA NewMonitorOK ==
  ASSUME NEW mon, NEW linked \in BOOLEAN, mon = NewAlarmMonitor(linked)
  PROVE  MonOK(mon) /\ mon.mPq = {} /\ mon.linked = linked
<1>0. PICK pq : pq = {}
  OBVIOUS
<1>1. PICK reg \in Nat : pq = {} /\ reg = 0
  BY <1>0
<1>2. mon = [mPq |-> pq, mRegisteredAlarmTimeSec |-> reg, timer |-> reg, linked |-> linked]
  BY <1>1 DEF NewAlarmMonitor
<1>3. Timed(pq)
  BY <1>1 DEF Timed
<1>4. MonOK(mon) /\ mon.mPq = pq /\ mon.linked = linked
  BY <1>1, <1>2, <1>3, FieldsOK
<1> QED BY <1>1, <1>4

\* What the queue and the registered time become when they change; the timer is set
\* only if the callbacks reach it.
LEMMA RegisteredWith ==
  ASSUME NEW mon, mon.timer \in Nat, NEW pq, NEW t \in Nat
  PROVE  /\ \E timer \in Nat : updateRegisteredAlarmTime(WithQueue(mon, pq), t)
              = [mPq |-> pq, mRegisteredAlarmTimeSec |-> t, timer |-> timer, linked |-> mon.linked]
         /\ \E timer \in Nat : cancelRegisteredAlarmTime(WithQueue(mon, pq))
              = [mPq |-> pq, mRegisteredAlarmTimeSec |-> 0, timer |-> timer, linked |-> mon.linked]
<1> DEFINE q == WithQueue(mon, pq)
<1>1. q.mPq = pq /\ q.linked = mon.linked /\ q.timer = mon.timer
  BY DEF WithQueue
<1> HIDE DEF q
<1>2. \E timer \in Nat : updateRegisteredAlarmTime(q, t)
        = [mPq |-> pq, mRegisteredAlarmTimeSec |-> t, timer |-> timer, linked |-> mon.linked]
  <2> DEFINE timer == IF q.linked THEN t ELSE q.timer
  <2>1. timer \in Nat
    BY <1>1
  <2>2. updateRegisteredAlarmTime(q, t)
          = [mPq |-> pq, mRegisteredAlarmTimeSec |-> t, timer |-> timer, linked |-> mon.linked]
    BY <1>1, Zenon DEF updateRegisteredAlarmTime
  <2> HIDE DEF timer
  <2> QED BY <2>1, <2>2
<1>3. \E timer \in Nat : cancelRegisteredAlarmTime(q)
        = [mPq |-> pq, mRegisteredAlarmTimeSec |-> 0, timer |-> timer, linked |-> mon.linked]
  <2> DEFINE timer == IF q.linked THEN 0 ELSE q.timer
  <2>1. timer \in Nat
    BY <1>1
  <2>2. cancelRegisteredAlarmTime(q)
          = [mPq |-> pq, mRegisteredAlarmTimeSec |-> 0, timer |-> timer, linked |-> mon.linked]
    BY <1>1, Zenon DEF cancelRegisteredAlarmTime
  <2> HIDE DEF timer
  <2> QED BY <2>1, <2>2
<1> QED BY <1>2, <1>3 DEF q

\* Without an alarm nothing is registered; the time of the soonest alarm is near it.
LEMMA ExactOK ==
  ASSUME NEW mon, MonOK(mon), NEW pq, Timed(pq), NEW new,
         \/ pq = {} /\ new = cancelRegisteredAlarmTime(WithQueue(mon, pq))
         \/ pq # {} /\ new = updateRegisteredAlarmTime(WithQueue(mon, pq), Soonest(pq))
  PROVE  MonOK(new) /\ new.mPq = pq /\ new.linked = mon.linked
<1>1. mon.timer \in Nat /\ mon.linked \in BOOLEAN
  BY DEF MonOK
<1>2. CASE pq = {}
  <2>1. PICK timer \in Nat :
          new = [mPq |-> pq, mRegisteredAlarmTimeSec |-> 0, timer |-> timer, linked |-> mon.linked]
    BY <1>1, <1>2, RegisteredWith
  <2>2. PICK reg \in Nat : reg = 0
    OBVIOUS
  <2>3. new = [mPq |-> pq, mRegisteredAlarmTimeSec |-> reg, timer |-> timer, linked |-> mon.linked]
    BY <2>1, <2>2
  <2> QED BY <2>2, <2>3, <1>1, <1>2, FieldsOK
<1>3. CASE pq # {}
  <2> DEFINE t == Soonest(pq)
  <2>1. t \in Nat \ {0} /\ t <= t + mMinUpdateTimeSec
    BY <1>3, SoonestIsLeast, MinUpdateAssumption
  <2>2. new = updateRegisteredAlarmTime(WithQueue(mon, pq), t)
    BY <1>3
  <2>3. t = Soonest(pq)
    OBVIOUS
  <2> HIDE DEF t
  <2>4. PICK timer \in Nat :
          new = [mPq |-> pq, mRegisteredAlarmTimeSec |-> t, timer |-> timer, linked |-> mon.linked]
    BY <1>1, <2>1, <2>2, RegisteredWith
  <2>5. t \in Nat /\ t # 0
    BY <2>1
  <2>6. t = 0 <=> pq = {}
    BY <2>5, <1>3
  <2>7. Soonest(pq) <= t + mMinUpdateTimeSec /\ t <= Soonest(pq) + mMinUpdateTimeSec
    BY <2>1, <2>3
  <2> QED BY <2>4, <2>5, <2>6, <2>7, <1>1, FieldsOK
<1> QED BY <1>2, <1>3

\* addAlarm keeps the registered time near the soonest alarm.
LEMMA AddOK ==
  ASSUME NEW mon, MonOK(mon), NEW alarm, alarm.timestampSec \in Nat \ {0}
  PROVE  /\ MonOK(addAlarm(mon, alarm)) /\ addAlarm(mon, alarm).mPq = mon.mPq \union {alarm}
         /\ addAlarm(mon, alarm).linked = mon.linked
<1> DEFINE pq == mon.mPq \union {alarm}
           t == alarm.timestampSec
           reg == mon.mRegisteredAlarmTimeSec
           new == addAlarm(mon, alarm)
<1>1. /\ t \in Nat \ {0} /\ Timed(pq) /\ pq # {} /\ reg \in Nat /\ mMinUpdateTimeSec \in Nat
      /\ mon.timer \in Nat /\ Timed(mon.mPq) /\ mon.linked \in BOOLEAN
  BY MinUpdateAssumption DEF MonOK, Timed
<1>2. /\ Soonest(pq) \in Nat \ {0} /\ Soonest(pq) <= t
      /\ \A b \in mon.mPq : Soonest(pq) <= b.timestampSec
      /\ \E a \in pq : Soonest(pq) = a.timestampSec
  BY <1>1, SoonestIsLeast
<1>3. mon.mPq # {} => /\ Soonest(mon.mPq) \in Nat \ {0}
                      /\ \A b \in mon.mPq : Soonest(mon.mPq) <= b.timestampSec
                      /\ \E a \in mon.mPq : Soonest(mon.mPq) = a.timestampSec
  BY <1>1, SoonestIsLeast
<1>4. /\ reg = 0 <=> mon.mPq = {}
      /\ mon.mPq # {} => Soonest(mon.mPq) <= reg + mMinUpdateTimeSec
                         /\ reg <= Soonest(mon.mPq) + mMinUpdateTimeSec
  BY DEF MonOK, RegisteredNear
<1>5. Soonest(pq) = t \/ (mon.mPq # {} /\ Soonest(pq) = Soonest(mon.mPq))
  <2>1. PICK a \in pq : Soonest(pq) = a.timestampSec
    BY <1>2
  <2>2. CASE a = alarm
    BY <2>1, <2>2
  <2>3. CASE a \in mon.mPq
    <3>1. Soonest(mon.mPq) <= Soonest(pq)
      BY <2>1, <2>3, <1>3
    <3>2. Soonest(pq) <= Soonest(mon.mPq)
      BY <2>3, <1>2, <1>3
    <3> QED
      BY <3>1, <3>2, <2>3, <1>2, <1>3
  <2> QED
    BY <2>2, <2>3
<1> HIDE DEF pq, t, reg
<1>6. CASE reg < 1 \/ t + mMinUpdateTimeSec < reg
  <2>1. new = updateRegisteredAlarmTime(WithQueue(mon, pq), t)
    BY <1>1, <1>6 DEF addAlarm, pq, t, reg
  <2>2. Soonest(pq) = t
    <3>1. CASE reg < 1
      BY <3>1, <1>1, <1>4, <1>5
    <3>2. CASE t + mMinUpdateTimeSec < reg
      BY <3>2, <1>1, <1>2, <1>3, <1>4, <1>5
    <3> QED BY <1>6, <3>1, <3>2
  <2> HIDE DEF new
  <2>3. MonOK(new) /\ new.mPq = pq /\ new.linked = mon.linked
    BY <1>1, <2>1, <2>2, ExactOK
  <2> QED BY <2>3 DEF new, pq
<1>7. CASE ~(reg < 1 \/ t + mMinUpdateTimeSec < reg)
  <2>1. new = [mPq |-> pq, mRegisteredAlarmTimeSec |-> reg, timer |-> mon.timer, linked |-> mon.linked]
    BY <1>1, <1>7 DEF addAlarm, WithQueue, pq, t, reg
  <2>2. Soonest(pq) <= reg + mMinUpdateTimeSec /\ reg <= Soonest(pq) + mMinUpdateTimeSec /\ reg # 0
    BY <1>1, <1>2, <1>3, <1>4, <1>5, <1>7
  <2> HIDE DEF new
  <2>3. MonOK(new) /\ new.mPq = pq /\ new.linked = mon.linked
    BY <1>1, <2>1, <2>2, FieldsOK
  <2> QED BY <2>3 DEF new, pq
<1> QED
  BY <1>6, <1>7

\* removeAlarm keeps the registered time near the soonest alarm.
LEMMA RemoveOK ==
  ASSUME NEW mon, MonOK(mon), NEW alarm
  PROVE  /\ MonOK(removeAlarm(mon, alarm)) /\ removeAlarm(mon, alarm).mPq = mon.mPq \ {alarm}
         /\ removeAlarm(mon, alarm).linked = mon.linked
<1> DEFINE rest == mon.mPq \ {alarm}
           reg == mon.mRegisteredAlarmTimeSec
           new == removeAlarm(mon, alarm)
<1>1. /\ Timed(rest) /\ reg \in Nat /\ mMinUpdateTimeSec \in Nat
      /\ mon.timer \in Nat /\ Timed(mon.mPq) /\ mon.linked \in BOOLEAN
  BY MinUpdateAssumption DEF MonOK, Timed
<1>2. CASE alarm \notin mon.mPq
  <2>1. new = mon /\ rest = mon.mPq
    BY <1>2 DEF removeAlarm
  <2> QED BY <2>1
<1>3. CASE /\ alarm \in mon.mPq
           /\ rest = {} \/ Soonest(rest) > reg + mMinUpdateTimeSec
  <2>1. \/ rest = {} /\ new = cancelRegisteredAlarmTime(WithQueue(mon, rest))
        \/ rest # {} /\ new = updateRegisteredAlarmTime(WithQueue(mon, rest), Soonest(rest))
    BY <1>3, Zenon DEF removeAlarm
  <2> HIDE DEF rest, new
  <2>2. MonOK(new) /\ new.mPq = rest /\ new.linked = mon.linked
    BY <1>1, <2>1, ExactOK
  <2> QED BY <2>2 DEF rest, new
<1>4. CASE alarm \in mon.mPq /\ rest # {} /\ ~(Soonest(rest) > reg + mMinUpdateTimeSec)
  <2>1. new = [mPq |-> rest, mRegisteredAlarmTimeSec |-> reg, timer |-> mon.timer, linked |-> mon.linked]
    BY <1>4 DEF removeAlarm, WithQueue
  <2>2. reg # 0 /\ reg <= Soonest(mon.mPq) + mMinUpdateTimeSec
    BY <1>4 DEF MonOK, RegisteredNear
  <2>3. /\ Soonest(rest) \in Nat \ {0} /\ Soonest(mon.mPq) \in Nat \ {0}
        /\ Soonest(mon.mPq) <= Soonest(rest)
    <3>1. /\ Soonest(rest) \in Nat \ {0} /\ \E a \in rest : Soonest(rest) = a.timestampSec
      BY <1>1, <1>4, SoonestIsLeast
    <3>2. /\ Soonest(mon.mPq) \in Nat \ {0}
          /\ \A b \in mon.mPq : Soonest(mon.mPq) <= b.timestampSec
      BY <1>1, <1>4, SoonestIsLeast
    <3> QED BY <3>1, <3>2
  <2> HIDE DEF rest, reg, new
  <2>4. Soonest(rest) <= reg + mMinUpdateTimeSec /\ reg <= Soonest(rest) + mMinUpdateTimeSec
    BY <1>1, <1>4, <2>2, <2>3
  <2>5. MonOK(new) /\ new.mPq = rest /\ new.linked = mon.linked
    BY <1>1, <1>4, <2>1, <2>2, <2>4, FieldsOK
  <2> QED BY <2>5 DEF rest, new
<1> QED
  BY <1>2, <1>3, <1>4

\* popSoonerThan registers the soonest alarm that is left, unless it pops none.
LEMMA PopOK ==
  ASSUME NEW mon, MonOK(mon), NEW sec
  PROVE  /\ MonOK(popSoonerThan(mon, sec))
         /\ popSoonerThan(mon, sec).mPq = mon.mPq \ SoonerThan(mon, sec)
         /\ popSoonerThan(mon, sec).linked = mon.linked
<1> DEFINE old == SoonerThan(mon, sec)
           rest == mon.mPq \ old
           new == popSoonerThan(mon, sec)
<1>1. Timed(rest)
  BY DEF MonOK, Timed
<1>2. CASE old = {}
  BY <1>2 DEF popSoonerThan
<1>3. CASE old # {}
  <2>1. \/ rest = {} /\ new = cancelRegisteredAlarmTime(WithQueue(mon, rest))
        \/ rest # {} /\ new = updateRegisteredAlarmTime(WithQueue(mon, rest), Soonest(rest))
    BY <1>3, Zenon DEF popSoonerThan
  <2> HIDE DEF rest, new
  <2>2. MonOK(new) /\ new.mPq = rest /\ new.linked = mon.linked
    BY <1>1, <2>1, ExactOK
  <2> QED BY <2>2 DEF rest, new
<1> QED BY <1>2, <1>3

\* The one-shot timer may go off, and the link may be lost, without the monitor's notice.
LEMMA TimerOK ==
  ASSUME NEW mon, MonOK(mon), NEW timer \in Nat, NEW linked \in BOOLEAN, NEW new,
         new = [mPq |-> mon.mPq, mRegisteredAlarmTimeSec |-> mon.mRegisteredAlarmTimeSec,
                timer |-> timer, linked |-> linked]
  PROVE  MonOK(new) /\ new.mPq = mon.mPq /\ new.linked = linked
<1> DEFINE pq == mon.mPq
           reg == mon.mRegisteredAlarmTimeSec
<1>1. /\ reg \in Nat /\ Timed(pq)
      /\ reg = 0 <=> pq = {}
      /\ new = [mPq |-> pq, mRegisteredAlarmTimeSec |-> reg, timer |-> timer, linked |-> linked]
  BY DEF MonOK, RegisteredNear
<1>2. pq # {} => Soonest(pq) <= reg + mMinUpdateTimeSec /\ reg <= Soonest(pq) + mMinUpdateTimeSec
  BY DEF MonOK, RegisteredNear
<1>3. MonOK(new) /\ new.mPq = pq /\ new.linked = linked
  <2> HIDE DEF pq, reg
  <2> QED BY <1>1, <1>2, FieldsOK
<1> QED BY <1>3

\* The companion service that comes has the soonest alarm registered with it.
LEMMA CompanionOK ==
  ASSUME NEW mon, MonOK(mon), NEW linked \in BOOLEAN
  PROVE  /\ MonOK(setStatsCompanionService(mon, linked))
         /\ setStatsCompanionService(mon, linked).mPq = mon.mPq
         /\ setStatsCompanionService(mon, linked).linked = linked
<1> DEFINE m == [mPq |-> mon.mPq, mRegisteredAlarmTimeSec |-> mon.mRegisteredAlarmTimeSec,
                 timer |-> mon.timer, linked |-> linked]
           new == setStatsCompanionService(mon, linked)
<1>1. mon.timer \in Nat /\ Timed(mon.mPq)
  BY DEF MonOK
<1>2. m = [mPq |-> mon.mPq, mRegisteredAlarmTimeSec |-> mon.mRegisteredAlarmTimeSec,
           timer |-> mon.timer, linked |-> linked]
  OBVIOUS
<1>3. new = IF linked /\ mon.mPq # {} THEN updateRegisteredAlarmTime(m, Soonest(mon.mPq)) ELSE m
  BY Zenon DEF setStatsCompanionService
<1>4. m = WithQueue(m, mon.mPq)
  BY DEF WithQueue
<1> HIDE DEF m, new
<1>5. MonOK(m) /\ m.mPq = mon.mPq /\ m.linked = linked
  BY <1>1, <1>2, TimerOK
<1>6. CASE linked /\ mon.mPq # {}
  <2>1. new = updateRegisteredAlarmTime(WithQueue(m, mon.mPq), Soonest(mon.mPq))
    BY <1>3, <1>4, <1>6, Zenon
  <2>2. MonOK(new) /\ new.mPq = mon.mPq /\ new.linked = m.linked
    <3> DEFINE pq == mon.mPq
    <3>1. Timed(pq) /\ pq # {} /\ new = updateRegisteredAlarmTime(WithQueue(m, pq), Soonest(pq))
      BY <1>1, <1>6, <2>1, Zenon
    <3> HIDE DEF pq
    <3>2. \/ pq = {} /\ new = cancelRegisteredAlarmTime(WithQueue(m, pq))
          \/ pq # {} /\ new = updateRegisteredAlarmTime(WithQueue(m, pq), Soonest(pq))
      BY <3>1, Zenon
    <3>3. MonOK(new) /\ new.mPq = pq /\ new.linked = m.linked
      BY <3>1, <3>2, <1>5, ExactOK
    <3> QED BY <3>3 DEF pq
  <2> QED BY <2>2, <1>5 DEF new
<1>7. CASE ~(linked /\ mon.mPq # {})
  <2>1. new = m
    BY <1>3, <1>7, Zenon
  <2> QED BY <2>1, <1>5 DEF new
<1> QED BY <1>6, <1>7

-----------------------------------------------------------------------------
(* The tracker. *)

AlarmSet(alarms) == {AlarmOf(alarms, k) : k \in {x \in Keys : alarms[x] # 0}}

AlarmsOK(mon, alarms) ==
  MonOK(mon) /\ mon.linked = TRUE /\ alarms \in [Keys -> Nat] /\ mon.mPq = AlarmSet(alarms)

RefractoryTicks == refractory_period_secs * TicksPerSec

\* The refractory period of a declared anomaly ends no sooner than it should.
TimesOK(ends, decl) ==
  /\ ends \in [Keys -> Nat] /\ decl \in [Keys -> Nat \union {-1}]
  /\ \A k \in Keys : decl[k] # -1 => decl[k] + RefractoryTicks <= ends[k] * TicksPerSec

StateOK(s) == AlarmsOK(s.mon, s.alarms) /\ TimesOK(s.ends, s.declared)

\* What is declared anew is declared a refractory period after what was before.
Later(decl, new) ==
  \A k \in Keys : \/ new[k] = decl[k]
                  \/ new[k] # -1 /\ (decl[k] # -1 => new[k] - decl[k] >= RefractoryTicks)

\* Times are products of seconds.
LEMMA RefractoryTicksType == RefractoryTicks \in Nat /\ TicksPerSec \in Nat \ {0} /\ refractory_period_secs \in Nat
<1>1. TicksPerSec \in Nat \ {0} /\ refractory_period_secs \in Nat
  BY RefractoryAssumption
<1> QED BY <1>1 DEF RefractoryTicks

\* Integer division rounds down.
LEMMA DivisionRoundsDown ==
  ASSUME NEW a \in Nat, NEW b \in Nat \ {0}
  PROVE  a \div b \in Nat /\ (a \div b) * b <= a /\ a < (a \div b) * b + b
  BY SMT

\* Seconds add up in ticks.
LEMMA TicksAdd ==
  ASSUME NEW m \in Nat, NEW n \in Nat, NEW t \in Nat
  PROVE  (m + n) * t = m * t + n * t /\ m * t \in Nat /\ n * t \in Nat
  BY SMT

\* The refractory period that declareAnomaly sets lasts as long as the alert says.
LEMMA RefractoryEndIsLate ==
  ASSUME NEW t \in Nat
  PROVE  RefractoryEnd(t) \in Nat /\ t + RefractoryTicks <= RefractoryEnd(t) * TicksPerSec
<1> DEFINE a == (t + TicksPerSec) - 1
           q == a \div TicksPerSec
<1>1. a \in Nat /\ a = (t + TicksPerSec) - 1
  BY RefractoryTicksType
<1> HIDE DEF a
<1>2. q \in Nat /\ a < q * TicksPerSec + TicksPerSec
  BY <1>1, RefractoryTicksType, DivisionRoundsDown
<1>3. RefractoryEnd(t) = q + refractory_period_secs
  BY DEF RefractoryEnd, RoundUpSec, a
<1> HIDE DEF q
<1>4. /\ (q + refractory_period_secs) * TicksPerSec = q * TicksPerSec + RefractoryTicks
      /\ q * TicksPerSec \in Nat
  BY <1>2, RefractoryTicksType, TicksAdd DEF RefractoryTicks
<1> DEFINE qt == q * TicksPerSec
<1>5. qt \in Nat /\ a < qt + TicksPerSec
  BY <1>2, <1>4
<1> HIDE DEF qt
<1>6. t <= qt
  BY <1>1, <1>5, RefractoryTicksType
<1>7. t + RefractoryTicks <= qt + RefractoryTicks
  BY <1>5, <1>6, RefractoryTicksType
<1> QED
  BY <1>2, <1>3, <1>4, <1>7, RefractoryTicksType DEF qt

\* Two declarations in a row are as far apart as one.
LEMMA LaterChains ==
  ASSUME NEW d0 \in [Keys -> Nat \union {-1}], NEW d1 \in [Keys -> Nat \union {-1}],
         NEW d2 \in [Keys -> Nat \union {-1}], Later(d0, d1), Later(d1, d2)
  PROVE  Later(d0, d2)
<1> SUFFICES ASSUME NEW k \in Keys
             PROVE  \/ d2[k] = d0[k]
                    \/ d2[k] # -1 /\ (d0[k] # -1 => d2[k] - d0[k] >= RefractoryTicks)
  BY DEF Later
<1>1. d0[k] \in Nat \union {-1} /\ d1[k] \in Nat \union {-1} /\ d2[k] \in Nat \union {-1}
  OBVIOUS
<1>2. d1[k] = d0[k] \/ (d1[k] # -1 /\ (d0[k] # -1 => d1[k] - d0[k] >= RefractoryTicks))
  BY DEF Later
<1>3. d2[k] = d1[k] \/ (d2[k] # -1 /\ (d1[k] # -1 => d2[k] - d1[k] >= RefractoryTicks))
  BY DEF Later
<1> QED
  BY <1>1, <1>2, <1>3, RefractoryTicksType

\* declareAnomaly is silent in the refractory period and starts another after it.
LEMMA DeclareOK ==
  ASSUME NEW s, TimesOK(s.ends, s.declared), NEW ks \in SUBSET Keys, NEW t \in Nat
  PROVE  LET d == declareAnomalies(s, ks, t)
         IN  /\ TimesOK(d.ends, d.declared) /\ Later(s.declared, d.declared)
             /\ d.mon = s.mon /\ d.alarms = s.alarms
<1> DEFINE open == {k \in ks : ~isInRefractoryPeriod(s.ends, t, k)}
           d == declareAnomalies(s, ks, t)
<1>1. /\ d.mon = s.mon /\ d.alarms = s.alarms
      /\ d.ends = [k \in Keys |-> IF k \in open THEN RefractoryEnd(t) ELSE s.ends[k]]
      /\ d.declared = [k \in Keys |-> IF k \in open THEN t ELSE s.declared[k]]
  BY DEF declareAnomalies
<1>2. RefractoryEnd(t) \in Nat /\ t + RefractoryTicks <= RefractoryEnd(t) * TicksPerSec
  BY RefractoryEndIsLate
<1>3. \A k \in open : t >= s.ends[k] * TicksPerSec
  <2> SUFFICES ASSUME NEW k \in open PROVE t >= s.ends[k] * TicksPerSec
    OBVIOUS
  <2>1. ~(t < s.ends[k] * TicksPerSec) /\ s.ends[k] \in Nat
    BY DEF isInRefractoryPeriod, TimesOK
  <2>2. s.ends[k] * TicksPerSec \in Nat
    BY <2>1, RefractoryTicksType, TicksAdd
  <2> QED BY <2>1, <2>2
<1>4. open \subseteq Keys
  OBVIOUS
<1> HIDE DEF open, d
<1>5. TimesOK(d.ends, d.declared)
  <2>1. d.ends \in [Keys -> Nat] /\ d.declared \in [Keys -> Nat \union {-1}]
    BY <1>1, <1>2 DEF TimesOK
  <2>2. ASSUME NEW k \in Keys, d.declared[k] # -1
        PROVE  d.declared[k] + RefractoryTicks <= d.ends[k] * TicksPerSec
    <3>1. CASE k \in open
      <4>1. d.declared[k] = t /\ d.ends[k] = RefractoryEnd(t)
        BY <3>1, <1>1
      <4> QED BY <4>1, <1>2
    <3>2. CASE k \notin open
      <4>1. d.declared[k] = s.declared[k] /\ d.ends[k] = s.ends[k]
        BY <3>2, <1>1
      <4> QED BY <4>1, <2>2 DEF TimesOK
    <3> QED BY <3>1, <3>2
  <2> QED BY <2>1, <2>2 DEF TimesOK
<1>6. Later(s.declared, d.declared)
  <2> SUFFICES ASSUME NEW k \in Keys
               PROVE  \/ d.declared[k] = s.declared[k]
                      \/ d.declared[k] # -1 /\ (s.declared[k] # -1 => d.declared[k] - s.declared[k] >= RefractoryTicks)
    BY DEF Later
  <2>1. CASE k \in open
    <3>1. d.declared[k] = t
      BY <2>1, <1>1
    <3>2. ASSUME s.declared[k] # -1 PROVE t - s.declared[k] >= RefractoryTicks
      <4>1. s.declared[k] + RefractoryTicks <= s.ends[k] * TicksPerSec /\ s.ends[k] \in Nat /\ s.declared[k] \in Nat
        BY <3>2 DEF TimesOK
      <4>2. s.ends[k] * TicksPerSec \in Nat
        BY <4>1, RefractoryTicksType, TicksAdd
      <4> DEFINE e == s.ends[k] * TicksPerSec
      <4>3. e \in Nat /\ s.declared[k] + RefractoryTicks <= e /\ t >= e
        BY <4>1, <4>2, <2>1, <1>3
      <4> HIDE DEF e
      <4> QED BY <4>3, <4>1, RefractoryTicksType
    <3> QED BY <3>1, <3>2
  <2>2. CASE k \notin open
    BY <2>2, <1>1
  <2> QED BY <2>1, <2>2
<1> QED
  BY <1>1, <1>5, <1>6 DEF d

\* The alarms that remain when the keys of ks have none any more.
LEMMA AlarmSetWithout ==
  ASSUME NEW alarms \in [Keys -> Nat], NEW new \in [Keys -> Nat], NEW ks \in SUBSET Keys,
         \A k \in Keys : new[k] = IF k \in ks THEN 0 ELSE alarms[k]
  PROVE  AlarmSet(new) = AlarmSet(alarms) \ {AlarmOf(alarms, k) : k \in ks}
<1>1. ASSUME NEW a \in AlarmSet(new) PROVE a \in AlarmSet(alarms) /\ \A k \in ks : a # AlarmOf(alarms, k)
  <2>1. PICK x \in Keys : new[x] # 0 /\ a = [key |-> x, timestampSec |-> new[x]]
    BY <1>1 DEF AlarmSet, AlarmOf
  <2>2. x \notin ks /\ new[x] = alarms[x] /\ a.key = x
    BY <2>1
  <2>3. a \in AlarmSet(alarms)
    BY <2>1, <2>2 DEF AlarmSet, AlarmOf
  <2>4. ASSUME NEW k \in ks PROVE a # AlarmOf(alarms, k)
    <3>1. AlarmOf(alarms, k).key = k
      BY DEF AlarmOf
    <3> QED BY <3>1, <2>2
  <2> QED BY <2>3, <2>4
<1>2. ASSUME NEW a \in AlarmSet(alarms), \A k \in ks : a # AlarmOf(alarms, k) PROVE a \in AlarmSet(new)
  <2>1. PICK x \in Keys : alarms[x] # 0 /\ a = AlarmOf(alarms, x)
    BY <1>2 DEF AlarmSet
  <2>2. x \notin ks
    BY <2>1, <1>2
  <2>3. new[x] = alarms[x]
    BY <2>2
  <2>4. a = AlarmOf(new, x)
    BY <2>1, <2>3 DEF AlarmOf
  <2> QED BY <2>1, <2>3, <2>4 DEF AlarmSet
<1> QED BY <1>1, <1>2

\* Stopping one alarm.
LEMMA ClearOK ==
  ASSUME NEW mon, NEW alarms, AlarmsOK(mon, alarms), NEW k \in Keys
  PROVE  AlarmsOK(removeAlarm(mon, AlarmOf(alarms, k)), [alarms EXCEPT ![k] = 0])
<1> DEFINE new == [alarms EXCEPT ![k] = 0]
           m == removeAlarm(mon, AlarmOf(alarms, k))
<1>1. MonOK(mon) /\ mon.linked = TRUE /\ alarms \in [Keys -> Nat] /\ mon.mPq = AlarmSet(alarms)
  BY DEF AlarmsOK
<1>2. MonOK(m) /\ m.mPq = mon.mPq \ {AlarmOf(alarms, k)} /\ m.linked = mon.linked
  BY <1>1, RemoveOK
<1>3. new \in [Keys -> Nat] /\ \A x \in Keys : new[x] = IF x \in {k} THEN 0 ELSE alarms[x]
  BY <1>1
<1> HIDE DEF new, m
<1> DEFINE ks == {k}
<1>4. AlarmSet(new) = AlarmSet(alarms) \ {AlarmOf(alarms, x) : x \in ks}
  <2>1. ks \in SUBSET Keys /\ \A x \in Keys : new[x] = IF x \in ks THEN 0 ELSE alarms[x]
    BY <1>3
  <2> HIDE DEF ks
  <2> QED BY <1>1, <1>3, <2>1, AlarmSetWithout
<1>5. m.mPq = AlarmSet(new)
  BY <1>1, <1>2, <1>4
<1>6. AlarmsOK(m, new)
  BY <1>1, <1>2, <1>3, <1>5 DEF AlarmsOK
<1> QED BY <1>6 DEF m, new

\* Starting an alarm for a key that has none.
LEMMA SetOK ==
  ASSUME NEW mon, NEW alarms, AlarmsOK(mon, alarms), NEW k \in Keys, alarms[k] = 0, NEW sec \in Nat \ {0}
  PROVE  AlarmsOK(addAlarm(mon, [key |-> k, timestampSec |-> sec]), [alarms EXCEPT ![k] = sec])
<1> DEFINE new == [alarms EXCEPT ![k] = sec]
           alarm == [key |-> k, timestampSec |-> sec]
           m == addAlarm(mon, alarm)
<1>1. MonOK(mon) /\ mon.linked = TRUE /\ alarms \in [Keys -> Nat] /\ mon.mPq = AlarmSet(alarms)
  BY DEF AlarmsOK
<1>2. alarm.timestampSec \in Nat \ {0}
  OBVIOUS
<1>3. new \in [Keys -> Nat] /\ new[k] = sec /\ \A x \in Keys \ {k} : new[x] = alarms[x]
  BY <1>1
<1>4. alarm = AlarmOf(new, k)
  BY <1>3 DEF AlarmOf
<1> HIDE DEF new, alarm
<1>5. MonOK(m) /\ m.mPq = mon.mPq \union {alarm} /\ m.linked = mon.linked
  BY <1>1, <1>2, AddOK
<1>6. AlarmSet(new) = AlarmSet(alarms) \union {alarm}
  <2>1. \A x \in Keys \ {k} : AlarmOf(new, x) = AlarmOf(alarms, x)
    BY <1>3 DEF AlarmOf
  <2> QED
    BY <1>3, <1>4, <2>1 DEF AlarmSet
<1>7. AlarmsOK(m, new)
  BY <1>1, <1>3, <1>5, <1>6 DEF AlarmsOK
<1> QED BY <1>7 DEF m, new, alarm

\* startAlarm replaces the alarm of the key.
LEMMA StartOK ==
  ASSUME NEW s, StateOK(s), NEW k \in Keys, NEW t \in Nat \ {0}
  PROVE  StateOK(startAlarm(s, k, t)) /\ Later(s.declared, startAlarm(s, k, t).declared)
<1> DEFINE sec == ((t - 1) \div TicksPerSec) + 1
           cleared == IF s.alarms[k] = 0 THEN s.mon ELSE removeAlarm(s.mon, AlarmOf(s.alarms, k))
           none == [s.alarms EXCEPT ![k] = 0]
           new == startAlarm(s, k, t)
<1>1. sec \in Nat \ {0}
  <2>1. t - 1 \in Nat
    OBVIOUS
  <2>2. (t - 1) \div TicksPerSec \in Nat
    BY <2>1, RefractoryTicksType, DivisionRoundsDown
  <2> QED BY <2>2
<1>2. s.alarms \in [Keys -> Nat] /\ AlarmsOK(s.mon, s.alarms)
  BY DEF StateOK, AlarmsOK
<1>3. AlarmsOK(cleared, none) /\ none[k] = 0
  <2>1. CASE s.alarms[k] = 0
    <3>1. none = s.alarms /\ cleared = s.mon
      BY <1>2, <2>1
    <3> QED BY <3>1, <1>2, <2>1
  <2>2. CASE s.alarms[k] # 0
    <3>1. cleared = removeAlarm(s.mon, AlarmOf(s.alarms, k)) /\ none[k] = 0
      BY <2>2, <1>2
    <3>2. AlarmsOK(removeAlarm(s.mon, AlarmOf(s.alarms, k)), none)
      BY <1>2, ClearOK
    <3> QED BY <3>1, <3>2
  <2> QED BY <2>1, <2>2
<1>4. [none EXCEPT ![k] = sec] = [s.alarms EXCEPT ![k] = sec]
  BY <1>2
<1> HIDE DEF sec, cleared, none
<1>5. AlarmsOK(addAlarm(cleared, [key |-> k, timestampSec |-> sec]), [s.alarms EXCEPT ![k] = sec])
  BY <1>1, <1>3, <1>4, SetOK
<1>6. CASE isInRefractoryPeriod(s.ends, t, k)
  <2>1. new = s
    BY <1>6, Zenon DEF startAlarm
  <2> QED BY <2>1 DEF Later
<1>7. CASE ~isInRefractoryPeriod(s.ends, t, k)
  <2>1. new = WithAlarms(s, addAlarm(cleared, [key |-> k, timestampSec |-> sec]), [s.alarms EXCEPT ![k] = sec])
    BY <1>7, Zenon DEF startAlarm, sec, cleared
  <2>2. /\ new.mon = addAlarm(cleared, [key |-> k, timestampSec |-> sec])
        /\ new.alarms = [s.alarms EXCEPT ![k] = sec] /\ new.ends = s.ends /\ new.declared = s.declared
    BY <2>1 DEF WithAlarms
  <2> HIDE DEF new
  <2>3. StateOK(new)
    BY <2>2, <1>5, Zenon DEF StateOK
  <2>4. Later(s.declared, new.declared)
    BY <2>2 DEF Later
  <2> QED BY <2>3, <2>4 DEF new
<1> QED BY <1>6, <1>7

\* stopAlarm declares an anomaly that is due and removes the alarm.
LEMMA StopOK ==
  ASSUME NEW s, StateOK(s), NEW k \in Keys, NEW t \in Nat
  PROVE  StateOK(stopAlarm(s, k, t)) /\ Later(s.declared, stopAlarm(s, k, t).declared)
<1> DEFINE d == IF t >= s.alarms[k] * TicksPerSec THEN declareAnomalies(s, {k}, t) ELSE s
           m == removeAlarm(s.mon, AlarmOf(s.alarms, k))
           new == stopAlarm(s, k, t)
<1>1. TimesOK(d.ends, d.declared) /\ Later(s.declared, d.declared)
  <2>1. TimesOK(s.ends, s.declared)
    BY DEF StateOK
  <2>2. CASE t >= s.alarms[k] * TicksPerSec
    <3>1. d = declareAnomalies(s, {k}, t) /\ {k} \in SUBSET Keys
      BY <2>2
    <3> HIDE DEF d
    <3> QED BY <3>1, <2>1, DeclareOK, Zenon
  <2>3. CASE ~(t >= s.alarms[k] * TicksPerSec)
    <3>1. d = s
      BY <2>3
    <3> QED BY <3>1, <2>1 DEF Later
  <2> QED BY <2>2, <2>3
<1>2. AlarmsOK(m, [s.alarms EXCEPT ![k] = 0])
  BY ClearOK DEF StateOK
<1>3. CASE s.alarms[k] = 0
  <2>1. new = s
    BY <1>3, Zenon DEF stopAlarm
  <2> QED BY <2>1 DEF Later
<1>4. CASE s.alarms[k] # 0
  <2>1. new = WithAlarms(d, m, [s.alarms EXCEPT ![k] = 0])
    BY <1>4, Zenon DEF stopAlarm
  <2> HIDE DEF d, m
  <2>2. /\ new.mon = m /\ new.alarms = [s.alarms EXCEPT ![k] = 0]
        /\ new.ends = d.ends /\ new.declared = d.declared
    BY <2>1 DEF WithAlarms
  <2> HIDE DEF new
  <2>3. StateOK(new) /\ Later(s.declared, new.declared)
    BY <2>2, <1>1, <1>2, Zenon DEF StateOK
  <2> QED BY <2>3 DEF new
<1> QED BY <1>3, <1>4

\* An alarm that is due fires: it leaves the monitor and the tracker together.
LEMMA FiredOK ==
  ASSUME NEW s, StateOK(s), now \in Nat
  PROVE  StateOK(informAnomalyAlarmFired(s)) /\ Later(s.declared, informAnomalyAlarmFired(s).declared)
<1> DEFINE sec == FloorSec(now)
           mon == WithTimer(s.mon, 0)
           fired == SoonerThan(mon, sec)
           left == popSoonerThan(mon, sec)
           x == WithAlarms(s, left, s.alarms)
           ks == {k \in Keys : s.alarms[k] # 0 /\ AlarmOf(s.alarms, k) \in fired}
           d == declareAnomalies(x, ks, now)
           alarms == [k \in Keys |-> IF k \in ks THEN 0 ELSE s.alarms[k]]
           new == informAnomalyAlarmFired(s)
<1>1. CASE s.mon.timer = 0 \/ s.mon.timer * TicksPerSec > now
  <2>1. new = s
    BY <1>1, Zenon DEF informAnomalyAlarmFired
  <2> QED BY <2>1 DEF Later
<1>2. CASE ~(s.mon.timer = 0 \/ s.mon.timer * TicksPerSec > now)
  <2>1. MonOK(s.mon) /\ s.alarms \in [Keys -> Nat] /\ s.mon.mPq = AlarmSet(s.alarms)
        /\ s.mon.linked = TRUE /\ TimesOK(s.ends, s.declared)
    BY DEF StateOK, AlarmsOK
  <2>2. MonOK(mon) /\ mon.mPq = s.mon.mPq /\ mon.linked = TRUE
    <3> DEFINE m == s.mon
    <3>1. mon = [mPq |-> m.mPq, mRegisteredAlarmTimeSec |-> m.mRegisteredAlarmTimeSec,
                 timer |-> 0, linked |-> m.linked]
      BY DEF WithTimer
    <3>2. MonOK(m) /\ m.linked \in BOOLEAN
      BY <2>1
    <3> HIDE DEF mon, m
    <3>3. MonOK(mon) /\ mon.mPq = m.mPq /\ mon.linked = m.linked
      BY <3>1, <3>2, TimerOK
    <3> QED BY <3>3, <2>1 DEF m
  <2>3. fired \subseteq mon.mPq
    BY DEF SoonerThan
  <2> HIDE DEF mon
  <2>4. MonOK(left) /\ left.mPq = mon.mPq \ fired /\ left.linked = TRUE
    BY <2>2, PopOK
  <2>5. /\ x.mon = left /\ x.alarms = s.alarms /\ x.ends = s.ends /\ x.declared = s.declared
    BY DEF WithAlarms
  <2> HIDE DEF left, fired, sec
  <2>6. ks \in SUBSET Keys
    OBVIOUS
  <2>7. new = WithAlarms(d, x.mon, [k \in Keys |-> IF k \in ks THEN 0 ELSE x.alarms[k]])
    <3>1. new = informAlarmsFired(x, fired, now)
      BY <1>2, Zenon DEF informAnomalyAlarmFired, sec, mon, fired, left
    <3>2. ks = {k \in Keys : x.alarms[k] # 0 /\ AlarmOf(x.alarms, k) \in fired}
      BY <2>5
    <3> HIDE DEF x, new, ks
    <3> QED BY <3>1, <3>2, Zenon DEF informAlarmsFired
  <2>8. alarms \in [Keys -> Nat] /\ \A k \in Keys : alarms[k] = IF k \in ks THEN 0 ELSE s.alarms[k]
    BY <2>1
  <2>9. {AlarmOf(s.alarms, k) : k \in ks} = fired
    <3>1. ASSUME NEW a \in fired PROVE \E k \in ks : a = AlarmOf(s.alarms, k)
      BY <2>1, <2>2, <2>3 DEF AlarmSet
    <3> QED BY <3>1
  <2> HIDE DEF x, ks, new
  <2>10. TimesOK(d.ends, d.declared) /\ Later(s.declared, d.declared)
    <3>1. TimesOK(x.ends, x.declared)
      BY <2>1, <2>5, Zenon
    <3>2. TimesOK(d.ends, d.declared) /\ Later(x.declared, d.declared)
      BY <3>1, <2>6, DeclareOK, Zenon
    <3> QED BY <3>2, <2>5, Zenon
  <2> HIDE DEF d
  <2>11. /\ new.mon = left /\ new.alarms = alarms /\ new.ends = d.ends /\ new.declared = d.declared
    <3>1. new = WithAlarms(d, left, alarms)
      BY <2>7, <2>5, Zenon
    <3> HIDE DEF alarms
    <3> QED BY <3>1 DEF WithAlarms
  <2> HIDE DEF alarms
  <2>12. AlarmSet(alarms) = AlarmSet(s.alarms) \ fired
    <3>1. AlarmSet(alarms) = AlarmSet(s.alarms) \ {AlarmOf(s.alarms, k) : k \in ks}
      BY <2>1, <2>6, <2>8, AlarmSetWithout
    <3> QED BY <3>1, <2>9, Zenon
  <2>13. AlarmsOK(left, alarms)
    BY <2>1, <2>2, <2>4, <2>8, <2>12, Zenon DEF AlarmsOK
  <2>14. StateOK(new) /\ Later(s.declared, new.declared)
    BY <2>10, <2>11, <2>13, Zenon DEF StateOK
  <2> QED BY <2>14 DEF new
<1> QED BY <1>1, <1>2

-----------------------------------------------------------------------------
(* The loop of cancelAllAlarms. *)

\* The loop after the alarms of ks, from what it left after one key less.
Removed(mon, alarms, f, ks) ==
  IF ks = {} THEN mon
  ELSE LET k == CHOOSE x \in ks : TRUE
       IN  removeAlarm(f[ks \ {k}], AlarmOf(alarms, k))

IsRemoval(mon, alarms, f) == f = [ks \in SUBSET Keys |-> Removed(mon, alarms, f, ks)]

\* One key less is a smaller set of keys.
LEMMA OneKeyLess ==
  ASSUME NEW ks \in SUBSET Keys
  PROVE  /\ IsFiniteSet(ks) /\ Cardinality(ks) \in Nat /\ Cardinality(ks) <= Cardinality(Keys)
         /\ Cardinality(Keys) \in Nat
         /\ ks # {} => LET k == CHOOSE x \in ks : TRUE
                       IN  /\ k \in ks /\ ks \ {k} \in SUBSET Keys
                           /\ Cardinality(ks \ {k}) = Cardinality(ks) - 1
<1>1. IsFiniteSet(Keys) /\ Cardinality(Keys) \in Nat
  BY AlarmAssumption, FS_CardinalityType
<1>2. IsFiniteSet(ks) /\ Cardinality(ks) <= Cardinality(Keys)
  BY <1>1, FS_Subset
<1>3. Cardinality(ks) \in Nat
  BY <1>2, FS_CardinalityType
<1>4. ASSUME ks # {}, NEW k, k = CHOOSE x \in ks : TRUE
      PROVE  k \in ks /\ ks \ {k} \in SUBSET Keys /\ Cardinality(ks \ {k}) = Cardinality(ks) - 1
  <2>1. k \in ks
    BY <1>4, Zenon
  <2> QED BY <2>1, <1>2, FS_RemoveElement
<1> QED BY <1>1, <1>2, <1>3, <1>4

\* The recursion over sets of keys defines a function.
LEMMA RemovalExists ==
  ASSUME NEW mon, NEW alarms
  PROVE  \E f : IsRemoval(mon, alarms, f)
<1> DEFINE UpTo(f, n) == \A ks \in SUBSET Keys : Cardinality(ks) <= n => f[ks] = Removed(mon, alarms, f, ks)
           Bad == {n \in Nat : ~\E f : UpTo(f, n)}
<1>1. UpTo([ks \in SUBSET Keys |-> mon], 0)
  <2> DEFINE f == [ks \in SUBSET Keys |-> mon]
  <2> SUFFICES ASSUME NEW ks \in SUBSET Keys, Cardinality(ks) <= 0
               PROVE  f[ks] = Removed(mon, alarms, f, ks)
    OBVIOUS
  <2>1. ks = {}
    BY OneKeyLess, FS_EmptySet
  <2> QED BY <2>1 DEF Removed
<1>2. ASSUME NEW n \in Nat, NEW f, UpTo(f, n)
      PROVE  UpTo([ks \in SUBSET Keys |-> Removed(mon, alarms, f, ks)], n + 1)
  <2> DEFINE g == [ks \in SUBSET Keys |-> Removed(mon, alarms, f, ks)]
  <2> SUFFICES ASSUME NEW ks \in SUBSET Keys, Cardinality(ks) <= n + 1
               PROVE  g[ks] = Removed(mon, alarms, g, ks)
    OBVIOUS
  <2>1. CASE ks = {}
    BY <2>1 DEF Removed
  <2>2. CASE ks # {}
    <3>1. PICK k : k = CHOOSE x \in ks : TRUE
      OBVIOUS
    <3>2. ks \ {k} \in SUBSET Keys /\ Cardinality(ks \ {k}) = Cardinality(ks) - 1 /\ Cardinality(ks) \in Nat
      BY <2>2, <3>1, OneKeyLess
    <3>3. g[ks \ {k}] = Removed(mon, alarms, f, ks \ {k})
      BY <3>2
    <3>4. f[ks \ {k}] = Removed(mon, alarms, f, ks \ {k})
      <4>1. Cardinality(ks \ {k}) <= n
        BY <3>2
      <4> QED BY <4>1, <3>2, <1>2
    <3>5. /\ g[ks] = removeAlarm(f[ks \ {k}], AlarmOf(alarms, k))
          /\ Removed(mon, alarms, g, ks) = removeAlarm(g[ks \ {k}], AlarmOf(alarms, k))
      BY <2>2, <3>1, Zenon DEF Removed
    <3> QED BY <3>3, <3>4, <3>5, Zenon
  <2> QED BY <2>1, <2>2
<1>3. Bad = {}
  <2> SUFFICES ASSUME Bad # {} PROVE FALSE
    OBVIOUS
  <2>1. PICK n \in Bad : \A m \in Bad : n <= m
    <3>1. Bad \subseteq Nat
      OBVIOUS
    <3> HIDE DEF Bad
    <3> QED BY <3>1, SmallestNat
  <2>2. n \in Nat /\ ~\E f : UpTo(f, n)
    BY <2>1
  <2>3. n # 0
    BY <1>1, <2>2
  <2>4. n - 1 \in Nat /\ (n - 1) + 1 = n /\ n - 1 \notin Bad
    BY <2>1, <2>2, <2>3
  <2>5. PICK f : UpTo(f, n - 1)
    BY <2>4
  <2> HIDE DEF UpTo, Bad
  <2>6. UpTo([ks \in SUBSET Keys |-> Removed(mon, alarms, f, ks)], (n - 1) + 1)
    BY <2>4, <2>5, <1>2
  <2> QED BY <2>2, <2>4, <2>6
<1>4. PICK f : UpTo(f, Cardinality(Keys))
  <2>1. Cardinality(Keys) \in Nat
    BY OneKeyLess
  <2> QED BY <2>1, <1>3
<1> DEFINE g == [ks \in SUBSET Keys |-> f[ks]]
<1>5. ASSUME NEW ks \in SUBSET Keys PROVE g[ks] = Removed(mon, alarms, g, ks)
  <2>1. g[ks] = Removed(mon, alarms, f, ks)
    BY <1>4, OneKeyLess
  <2>2. CASE ks = {}
    BY <2>1, <2>2 DEF Removed
  <2>3. CASE ks # {}
    <3>1. PICK k : k = CHOOSE x \in ks : TRUE
      OBVIOUS
    <3>2. g[ks \ {k}] = f[ks \ {k}]
      BY <2>3, <3>1, OneKeyLess
    <3>3. /\ Removed(mon, alarms, f, ks) = removeAlarm(f[ks \ {k}], AlarmOf(alarms, k))
          /\ Removed(mon, alarms, g, ks) = removeAlarm(g[ks \ {k}], AlarmOf(alarms, k))
      BY <2>3, <3>1, Zenon DEF Removed
    <3> QED BY <2>1, <3>2, <3>3, Zenon
  <2> QED BY <2>2, <2>3
<1>6. IsRemoval(mon, alarms, g)
  BY <1>5 DEF IsRemoval
<1> QED BY <1>6, Zenon

LoopLeaves(m, mon, alarms, ks) ==
  MonOK(m) /\ m.linked = mon.linked /\ m.mPq = mon.mPq \ {AlarmOf(alarms, k) : k \in ks}

\* The loop removes the alarms of the keys it was given.
LEMMA RemovalOK ==
  ASSUME NEW mon, NEW alarms, MonOK(mon), NEW f,
         IsRemoval(mon, alarms, f), NEW all \in SUBSET Keys
  PROVE  LoopLeaves(f[all], mon, alarms, all)
<1> USE DEF LoopLeaves
<1> DEFINE Right(ks) == /\ MonOK(f[ks]) /\ f[ks].linked = mon.linked
                        /\ f[ks].mPq = mon.mPq \ {AlarmOf(alarms, k) : k \in ks}
           Bad == {Cardinality(ks) : ks \in {x \in SUBSET Keys : ~Right(x)}}
<1> SUFFICES ASSUME ~Right(all) PROVE FALSE
  OBVIOUS
<1>1. Bad \subseteq Nat /\ Bad # {}
  <2>1. \A ks \in SUBSET Keys : Cardinality(ks) \in Nat
    BY OneKeyLess
  <2> HIDE DEF Right
  <2> QED BY <2>1
<1>2. PICK n \in Bad : \A m \in Bad : n <= m
  <2> HIDE DEF Bad
  <2> QED BY <1>1, SmallestNat
<1>3. PICK ks \in SUBSET Keys : n = Cardinality(ks) /\ ~Right(ks)
  BY <1>2
<1>4. f[ks] = Removed(mon, alarms, f, ks)
  BY DEF IsRemoval
<1>5. ks # {}
  <2> SUFFICES ASSUME ks = {} PROVE Right(ks)
    BY <1>3
  <2>1. f[ks] = mon
    BY <1>4 DEF Removed
  <2> QED BY <2>1
<1>6. PICK k : k = CHOOSE x \in ks : TRUE
  OBVIOUS
<1>7. /\ k \in ks /\ ks \ {k} \in SUBSET Keys
      /\ Cardinality(ks \ {k}) = n - 1 /\ n \in Nat
  BY <1>3, <1>5, <1>6, OneKeyLess
<1>8. Right(ks \ {k})
  <2> SUFFICES ASSUME ~Right(ks \ {k}) PROVE FALSE
    OBVIOUS
  <2>1. n - 1 \in Bad
    <3> HIDE DEF Right
    <3> QED BY <1>7
  <2>2. n <= n - 1
    BY <2>1, <1>2
  <2> QED BY <2>2, <1>7
<1>9. f[ks] = removeAlarm(f[ks \ {k}], AlarmOf(alarms, k))
  BY <1>4, <1>5, <1>6, Zenon DEF Removed
<1>10. /\ MonOK(f[ks]) /\ f[ks].mPq = f[ks \ {k}].mPq \ {AlarmOf(alarms, k)}
       /\ f[ks].linked = mon.linked
  <2> DEFINE m == f[ks \ {k}]
  <2>1. MonOK(m) /\ m.linked = mon.linked /\ f[ks] = removeAlarm(m, AlarmOf(alarms, k))
    BY <1>8, <1>9
  <2> HIDE DEF m
  <2>2. /\ MonOK(removeAlarm(m, AlarmOf(alarms, k)))
        /\ removeAlarm(m, AlarmOf(alarms, k)).mPq = m.mPq \ {AlarmOf(alarms, k)}
        /\ removeAlarm(m, AlarmOf(alarms, k)).linked = m.linked
    BY <2>1, RemoveOK
  <2>3. MonOK(f[ks]) /\ f[ks].mPq = m.mPq \ {AlarmOf(alarms, k)} /\ f[ks].linked = mon.linked
    BY <2>1, <2>2, Zenon
  <2> QED BY <2>3 DEF m
<1>11. f[ks].mPq = mon.mPq \ {AlarmOf(alarms, x) : x \in ks}
  BY <1>7, <1>8, <1>10
<1> QED BY <1>3, <1>10, <1>11

-----------------------------------------------------------------------------
(* The specification. *)

AlarmInv == StateOK(Now) /\ now \in Nat /\ starts \in Nat

\* The variables are the fields of the value that the handlers work on.
LEMMA StateOfVariables ==
  StateOK(Now) <=> /\ AlarmsOK(monitor, mAlarms)
                   /\ TimesOK(mRefractoryPeriodEndsSec, declared)
<1>1. /\ Now.mon = monitor /\ Now.alarms = mAlarms
      /\ Now.ends = mRefractoryPeriodEndsSec /\ Now.declared = declared
  BY DEF Now
<1> HIDE DEF Now
<1> QED BY <1>1, Zenon DEF StateOK

\* A handler that leaves a sound value leaves a sound state.
LEMMA BecomesOK ==
  ASSUME NEW s, StateOK(s), Becomes(s) PROVE StateOK(Now)'
<1>1. /\ monitor' = s.mon /\ mAlarms' = s.alarms
      /\ mRefractoryPeriodEndsSec' = s.ends /\ declared' = s.declared
  BY DEF Becomes
<1>2. AlarmsOK(monitor', mAlarms') /\ TimesOK(mRefractoryPeriodEndsSec', declared')
  BY <1>1, Zenon DEF StateOK
<1>3. (StateOK(Now) <=> AlarmsOK(monitor, mAlarms) /\ TimesOK(mRefractoryPeriodEndsSec, declared))'
  BY StateOfVariables, PTL
<1> QED BY <1>2, <1>3

\* The inductive invariant implies the property.
LEMMA AlarmInvImplies == AlarmInv => AnomalyAlarmsSound
<1> SUFFICES ASSUME AlarmInv PROVE AnomalyAlarmsSound
  OBVIOUS
<1>1. AlarmsOK(monitor, mAlarms) /\ TimesOK(mRefractoryPeriodEndsSec, declared)
  BY StateOfVariables DEF AlarmInv
<1>2. MonOK(monitor)
  BY <1>1 DEF AlarmsOK
<1>3. TypeOK
  <2>1. /\ monitor.mPq \subseteq [key : Keys, timestampSec : Nat \ {0}]
        /\ monitor.mRegisteredAlarmTimeSec \in Nat /\ monitor.timer \in Nat /\ monitor.linked = TRUE
    <3>1. monitor.mPq = AlarmSet(mAlarms) /\ mAlarms \in [Keys -> Nat] /\ monitor.linked = TRUE
      BY <1>1 DEF AlarmsOK
    <3>2. ASSUME NEW a \in AlarmSet(mAlarms) PROVE a \in [key : Keys, timestampSec : Nat \ {0}]
      BY <3>1 DEF AlarmSet, AlarmOf
    <3> QED BY <1>2, <3>1, <3>2 DEF MonOK
  <2>2. mAlarms \in [Keys -> Nat]
    BY <1>1 DEF AlarmsOK
  <2>3. mRefractoryPeriodEndsSec \in [Keys -> Nat] /\ declared \in [Keys -> Int]
    BY <1>1 DEF TimesOK
  <2> QED BY <2>1, <2>2, <2>3 DEF TypeOK, AlarmInv
<1>4. MonitorHoldsTrackersAlarms
  BY <1>1, Zenon DEF AlarmsOK, AlarmSet, MonitorHoldsTrackersAlarms
<1>5. RegisteredNearSoonest
  BY <1>2, Zenon DEF MonOK, RegisteredNearSoonest
<1> QED BY <1>3, <1>4, <1>5 DEF AnomalyAlarmsSound

\* The invariant holds initially.
LEMMA AlarmInvInit == Init => AlarmInv
<1> SUFFICES ASSUME Init PROVE AlarmInv
  OBVIOUS
<1>2. MonOK(monitor) /\ monitor.mPq = {} /\ monitor.linked = TRUE
  BY NewMonitorOK DEF Init
<1>3. mAlarms \in [Keys -> Nat] /\ \A k \in Keys : mAlarms[k] = 0
  BY DEF Init
<1>4. AlarmSet(mAlarms) = {}
  BY <1>3 DEF AlarmSet
<1>5. TimesOK(mRefractoryPeriodEndsSec, declared)
  <2>1. mRefractoryPeriodEndsSec = [k \in Keys |-> 0] /\ declared = [k \in Keys |-> -1]
    BY DEF Init
  <2> QED BY <2>1 DEF TimesOK
<1>6. AlarmsOK(monitor, mAlarms)
  BY <1>2, <1>3, <1>4 DEF AlarmsOK
<1>7. now \in Nat /\ starts \in Nat
  BY RefractoryTicksType DEF Init
<1> QED BY <1>5, <1>6, <1>7, StateOfVariables DEF AlarmInv

\* cancelAllAlarms leaves no alarm behind in the monitor.
LEMMA CancelAllOK ==
  ASSUME AlarmInv, cancelAllAlarms PROVE AlarmInv' /\ \A k \in Keys : declared'[k] = -1
<1> DEFINE set == {k \in Keys : mAlarms[k] # 0}
           f == CHOOSE g : IsRemoval(monitor, mAlarms, g)
<1>1. AlarmsOK(monitor, mAlarms)
  BY StateOfVariables DEF AlarmInv
<1>2. IsRemoval(monitor, mAlarms, f)
  BY RemovalExists, Zenon
<1>3. monitor' = f[set]
  BY DEF cancelAllAlarms, Removed, IsRemoval
<1> HIDE DEF f
<1>4. /\ MonOK(f[set]) /\ f[set].mPq = monitor.mPq \ {AlarmOf(mAlarms, k) : k \in set}
      /\ f[set].linked = monitor.linked
  <2>1. MonOK(monitor) /\ set \in SUBSET Keys
    BY <1>1 DEF AlarmsOK
  <2> HIDE DEF set
  <2>2. LoopLeaves(f[set], monitor, mAlarms, set)
    BY <2>1, <1>2, RemovalOK, Zenon
  <2> QED BY <2>2 DEF LoopLeaves
<1>5. f[set].mPq = {}
  BY <1>1, <1>4 DEF AlarmsOK, AlarmSet
<1>6. mAlarms' = [k \in Keys |-> 0] /\ mRefractoryPeriodEndsSec' = [k \in Keys |-> 0]
      /\ declared' = [k \in Keys |-> -1] /\ UNCHANGED <<now, starts>>
  BY DEF cancelAllAlarms
<1>7. AlarmsOK(monitor', mAlarms')
  <2>1. AlarmSet(mAlarms') = {}
    BY <1>6 DEF AlarmSet
  <2>2. mAlarms' \in [Keys -> Nat]
    BY <1>6
  <2> QED BY <2>1, <2>2, <1>1, <1>3, <1>4, <1>5, Zenon DEF AlarmsOK
<1>8. TimesOK(mRefractoryPeriodEndsSec', declared')
  BY <1>6 DEF TimesOK
<1>9. (StateOK(Now) <=> AlarmsOK(monitor, mAlarms) /\ TimesOK(mRefractoryPeriodEndsSec, declared))'
  BY StateOfVariables, PTL
<1>10. AlarmInv'
  BY <1>6, <1>7, <1>8, <1>9 DEF AlarmInv
<1> QED BY <1>6, <1>10

\* Every step keeps the invariant; what it declares anew comes after the
\* refractory period of what was declared, unless the tracker is replaced.
LEMMA AlarmStep ==
  ASSUME AlarmInv, [Next]_vars
  PROVE  AlarmInv' /\ (Later(declared, declared') \/ \A k \in Keys : declared'[k] = -1)
<1> DEFINE fired == informAnomalyAlarmFired(Now)
<1>0. Now.declared = declared /\ StateOK(Now) /\ now \in Nat /\ starts \in Nat
  BY DEF AlarmInv, Now
<1>1. StateOK(fired) /\ Later(declared, fired.declared)
  <2> HIDE DEF fired
  <2>1. StateOK(fired) /\ Later(Now.declared, fired.declared)
    BY <1>0, FiredOK DEF fired
  <2> QED BY <2>1, <1>0, Zenon
<1>2. ASSUME NEW s, StateOK(s), Later(fired.declared, s.declared), Becomes(s), now' = now, starts' \in Nat
      PROVE  AlarmInv' /\ Later(declared, declared')
  <2>1. StateOK(Now)'
    BY <1>2, BecomesOK
  <2>2. /\ declared \in [Keys -> Nat \union {-1}] /\ fired.declared \in [Keys -> Nat \union {-1}]
        /\ s.declared \in [Keys -> Nat \union {-1}]
    BY <1>0, <1>1, <1>2 DEF StateOK, TimesOK
  <2> HIDE DEF fired
  <2>3. Later(declared, s.declared)
    <3> DEFINE d1 == fired.declared
               d2 == s.declared
    <3>1. d1 \in [Keys -> Nat \union {-1}] /\ d2 \in [Keys -> Nat \union {-1}]
          /\ Later(declared, d1) /\ Later(d1, d2)
      BY <2>2, <1>1, <1>2
    <3> HIDE DEF d1, d2
    <3>2. Later(declared, d2)
      BY <3>1, <2>2, LaterChains
    <3> QED BY <3>2 DEF d2
  <2>4. declared' = s.declared
    BY <1>2 DEF Becomes
  <2> QED BY <2>1, <2>3, <2>4, <1>0, <1>2 DEF AlarmInv
<1>3. Later(declared, declared) /\ Later(fired.declared, fired.declared)
  BY DEF Later
<1>4. CASE OnLogEvent
  <2>1. Becomes(fired) /\ now' = now /\ starts' = starts
    BY <1>4 DEF OnLogEvent
  <2> HIDE DEF fired
  <2> QED BY <2>1, <1>0, <1>1, <1>2, <1>3
<1>5. ASSUME NEW k \in Keys, NEW e \in EventTimes, NEW t \in 1 .. MaxTicks, OnStartEvent(k, e, t)
      PROVE  AlarmInv' /\ Later(declared, declared')
  <2>1. Becomes(startAlarm(fired, k, t)) /\ now' = now /\ starts' = starts + 1
    BY <1>5 DEF OnStartEvent
  <2>2. t \in Nat \ {0}
    BY AlarmAssumption
  <2> HIDE DEF fired
  <2>3. StateOK(startAlarm(fired, k, t)) /\ Later(fired.declared, startAlarm(fired, k, t).declared)
    BY <1>1, <2>2, StartOK
  <2>4. starts' \in Nat
    BY <2>1, <1>0
  <2> QED BY <2>1, <2>3, <2>4, <1>2
<1>6. ASSUME NEW k \in Keys, NEW e \in EventTimes, OnStopEvent(k, e)
      PROVE  AlarmInv' /\ Later(declared, declared')
  <2>1. Becomes(stopAlarm(fired, k, e)) /\ now' = now /\ starts' = starts
    BY <1>6 DEF OnStopEvent
  <2>2. e \in Nat
    BY <1>0 DEF EventTimes
  <2> HIDE DEF fired
  <2>3. StateOK(stopAlarm(fired, k, e)) /\ Later(fired.declared, stopAlarm(fired, k, e).declared)
    BY <1>1, <2>2, StopOK
  <2> QED BY <2>1, <2>3, <1>0, <1>2
<1>7. CASE statsCompanionReady
  <2>1. /\ monitor' = setStatsCompanionService(monitor, TRUE)
        /\ UNCHANGED <<mAlarms, mRefractoryPeriodEndsSec, now, starts, declared>>
    BY <1>7 DEF statsCompanionReady
  <2>2. AlarmsOK(monitor, mAlarms) /\ TimesOK(mRefractoryPeriodEndsSec, declared)
    BY <1>0, StateOfVariables
  <2>3. MonOK(monitor') /\ monitor'.mPq = monitor.mPq /\ monitor'.linked = TRUE
    BY <2>1, <2>2, CompanionOK DEF AlarmsOK
  <2>4. AlarmsOK(monitor', mAlarms') /\ TimesOK(mRefractoryPeriodEndsSec', declared')
    BY <2>1, <2>2, <2>3, Zenon DEF AlarmsOK
  <2>5. (StateOK(Now) <=> AlarmsOK(monitor, mAlarms) /\ TimesOK(mRefractoryPeriodEndsSec, declared))'
    BY StateOfVariables, PTL
  <2> QED BY <2>1, <2>4, <2>5, <1>0, <1>3 DEF AlarmInv
<1>8. CASE Tick \/ UNCHANGED vars
  <2>1. UNCHANGED <<monitor, mAlarms, mRefractoryPeriodEndsSec, starts, declared>> /\ now' \in Nat
    BY <1>8, <1>0 DEF Tick, vars
  <2>2. AlarmsOK(monitor', mAlarms') /\ TimesOK(mRefractoryPeriodEndsSec', declared')
    BY <2>1, <1>0, StateOfVariables
  <2>3. (StateOK(Now) <=> AlarmsOK(monitor, mAlarms) /\ TimesOK(mRefractoryPeriodEndsSec, declared))'
    BY StateOfVariables, PTL
  <2> QED BY <2>1, <2>2, <2>3, <1>0, <1>3 DEF AlarmInv
<1>9. CASE cancelAllAlarms
  BY <1>9, CancelAllOK
<1> QED
  BY <1>4, <1>5, <1>6, <1>7, <1>8, <1>9 DEF Next

\* For every set of keys and every refractory period, tracker and monitor agree on
\* the alarms that are set and the registered time is near the soonest of them, in
\* whichever order durations start and stop, alarms fire, the tracker is replaced and
\* the companion service comes (DurationAnomalyTracker.cpp, AlarmMonitor.cpp).
THEOREM AnomalyAlarmsAreSound == Spec => []AnomalyAlarmsSound
<1>1. AlarmInv /\ [Next]_vars => AlarmInv'
  BY AlarmStep
<1> QED
  BY <1>1, AlarmInvInit, AlarmInvImplies, PTL DEF Spec

\* For every set of keys and every refractory period, no anomaly is declared in the
\* refractory period of the one before it, whether an alarm fires or a stop finds it
\* late, also when both happen for one event (AnomalyTracker::declareAnomaly).
THEOREM RefractoryIsRespected == Spec => RefractoryRespected
<1>1. AlarmInv /\ [Next]_vars => AlarmInv'
  BY AlarmStep
<1>2. ASSUME AlarmInv, [Next]_vars
      PROVE  [\A k \in Keys :
                declared[k] # -1 /\ declared'[k] # declared[k] /\ declared'[k] # -1 =>
                  declared'[k] - declared[k] >= refractory_period_secs * TicksPerSec]_vars
  <2> SUFFICES ASSUME NEW k \in Keys, declared[k] # -1, declared'[k] # declared[k], declared'[k] # -1
               PROVE  declared'[k] - declared[k] >= refractory_period_secs * TicksPerSec
    OBVIOUS
  <2>1. Later(declared, declared')
    BY <1>2, AlarmStep
  <2> QED BY <2>1 DEF Later, RefractoryTicks
<1>3. AlarmInv /\ [Next]_vars =>
        [\A k \in Keys :
           declared[k] # -1 /\ declared'[k] # declared[k] /\ declared'[k] # -1 =>
             declared'[k] - declared[k] >= refractory_period_secs * TicksPerSec]_vars
  BY <1>2
<1> QED
  BY <1>1, <1>3, AlarmInvInit, PTL DEF Spec, RefractoryRespected
-----------------------------------------------------------------------------
(* Periodic alarms: the trackers of the configs and the calls that popped alarms. *)

InFuture(t, c) ==
  /\ t.mAlarmSec \in Nat \ {0} /\ t.mAlarmSec >= t.setAt
  /\ Period[c] % MsPerSec = 0 => t.mAlarmSec > t.setAt

TrackersOK(ts) ==
  /\ ts \in [Configs -> [alive : BOOLEAN, gen : Nat, mAlarmSec : Nat, setAt : Nat]]
  /\ \A c \in Configs : ts[c].alive => InFuture(ts[c], c)

\* The alarms in the queue are those of trackers that are alive.
Queued(pq, ts) == \A a \in pq : \E c \in Configs : ts[c].alive /\ a = InternalAlarm(ts, c)

\* An alarm is in the queue or in exactly one of the calls.
OnePlace(a, pq, calls) ==
  IF a \in pq THEN \A call \in calls : a \notin call.alarms
  ELSE \E call \in calls : a \in call.alarms /\ \A other \in calls \ {call} : a \notin other.alarms

\* The calls carry alarms that were set: no alarm that is yet to be set is among them.
CallsOK(calls, ts) ==
  \A call \in calls :
    call.at \in Nat /\ \A a \in call.alarms : a.config \in Configs /\ a.gen \in Nat /\ a.gen <= ts[a.config].gen

PeriodicOK(mon, ts, calls) ==
  /\ MonOK(mon) /\ TrackersOK(ts) /\ Queued(mon.mPq, ts) /\ CallsOK(calls, ts)
  /\ \A c \in Configs : ts[c].alive => OnePlace(InternalAlarm(ts, c), mon.mPq, calls)

\* Products keep the order.
LEMMA ProductOrder ==
  ASSUME NEW a \in Nat, NEW b \in Nat, NEW m \in Nat \ {0}
  PROVE  /\ a * m \in Nat /\ b * m \in Nat
         /\ a * m < b * m => a < b
         /\ a * m < b * m + m => a <= b
<1>1. a * m \in Nat /\ b * m \in Nat
  BY SMT
<1>2. ASSUME b <= a PROVE b * m <= a * m
  BY <1>2, SMT
<1>3. ASSUME b + 1 <= a PROVE b * m + m <= a * m
  BY <1>3, SMT
<1> QED BY <1>1, <1>2, <1>3

\* A period that is a whole number of seconds is a multiple of one.
LEMMA WholePeriod ==
  ASSUME NEW p \in Nat \ {0}, NEW m \in Nat \ {0}, p % m = 0
  PROVE  p \div m \in Nat /\ p = (p \div m) * m
  BY SMT

\* findNextAlarmSec answers a time that is not past, and a later one if the period is a
\* whole number of seconds.
LEMMA NextAlarmIsLater ==
  ASSUME NEW c \in Configs, NEW first \in Nat \ {0}, NEW cur \in Nat
  PROVE  /\ findNextAlarmSec(first, c, cur) \in Nat \ {0}
         /\ findNextAlarmSec(first, c, cur) >= cur
         /\ Period[c] % MsPerSec = 0 => findNextAlarmSec(first, c, cur) > cur
<1> DEFINE d == cur - first
           p == Period[c]
           m == MsPerSec
           q == (d * m) \div p
           n == q + 1
           steps == (n * p) \div m
           next == findNextAlarmSec(first, c, cur)
<1>0. p \in Nat \ {0} /\ m \in Nat \ {0}
  BY PeriodicAssumption
<1>1. CASE cur < first
  <2>1. next = first
    BY <1>1 DEF findNextAlarmSec
  <2> QED BY <1>1, <2>1
<1>2. CASE ~(cur < first)
  <2>1. d \in Nat /\ cur = first + d
    BY <1>2
  <2>2. next = first + steps
    BY <1>2 DEF findNextAlarmSec
  <2> HIDE DEF d, p, m, next
  <2>3. d * m \in Nat
    BY <2>1, <1>0, ProductOrder
  <2> DEFINE dm == d * m
  <2>4. q \in Nat /\ dm < q * p + p /\ dm \in Nat
    BY <2>3, <1>0, DivisionRoundsDown
  <2>5. n \in Nat /\ n * p = q * p + p
    <3> HIDE DEF q
    <3>1. n \in Nat /\ (q + 1) * p = q * p + 1 * p /\ 1 * p = p
      BY <2>4, <1>0, TicksAdd
    <3> QED BY <3>1
  <2> DEFINE np == n * p
  <2>6. np \in Nat /\ dm < np
    <3> HIDE DEF q, dm, n
    <3>1. np \in Nat
      BY <2>5, <1>0, ProductOrder
    <3> QED BY <3>1, <2>4, <2>5
  <2> HIDE DEF n, np, q
  <2>7. steps \in Nat /\ np < steps * m + m
    <3>1. np \div m \in Nat /\ np < (np \div m) * m + m
      BY <2>6, <1>0, DivisionRoundsDown
    <3> QED BY <3>1 DEF np
  <2> HIDE DEF steps
  <2>8. d <= steps
    <3> DEFINE sm == steps * m
    <3>1. sm \in Nat /\ (dm < sm + m => d <= steps)
      BY <2>1, <2>7, <1>0, ProductOrder
    <3>2. np < sm + m
      BY <2>7
    <3> HIDE DEF sm, dm
    <3> QED BY <3>1, <3>2, <2>4, <2>6, <1>0
  <2>9. ASSUME p % m = 0 PROVE d < steps
    <3> DEFINE k == p \div m
               nk == n * k
    <3>1. k \in Nat /\ p = k * m
      BY <2>9, <1>0, WholePeriod
    <3> HIDE DEF k
    <3>2. nk \in Nat /\ n * (k * m) = nk * m
      BY <3>1, <2>5, <1>0, SMT
    <3> HIDE DEF nk
    <3>3. np = nk * m
      BY <3>1, <3>2 DEF np
    <3>4. steps = nk
      <4>1. nk <= steps
        <5> DEFINE sm == steps * m
                   km == nk * m
        <5>1. km < sm + m => nk <= steps
          BY <3>2, <2>7, <1>0, ProductOrder
        <5> QED BY <5>1, <3>3, <2>7
      <4>2. steps * m <= np
        <5>1. (np \div m) * m <= np
          BY <2>6, <1>0, DivisionRoundsDown
        <5> QED BY <5>1 DEF steps, np
      <4>3. ~(nk < steps)
        <5> SUFFICES ASSUME nk < steps PROVE FALSE
          OBVIOUS
        <5>1. nk * m < steps * m
          BY <3>2, <2>7, <1>0, SMT
        <5>2. nk * m \in Nat /\ steps * m \in Nat
          BY <3>2, <2>7, <1>0, ProductOrder
        <5> QED BY <5>1, <5>2, <4>2, <3>3
      <4> QED BY <4>1, <4>3, <3>2, <2>7
    <3>5. d * m < nk * m
      BY <2>6, <3>3
    <3>6. d < nk
      BY <3>5, <3>2, <2>1, <1>0, ProductOrder
    <3> QED BY <3>4, <3>6
  <2>10. next \in Nat \ {0} /\ next >= cur
    BY <2>1, <2>2, <2>7, <2>8
  <2>11. p % m = 0 => next > cur
    BY <2>1, <2>2, <2>7, <2>9
  <2> QED BY <2>10, <2>11 DEF next, p, m
<1> QED BY <1>1, <1>2

\* Alarms of different configs, and successive alarms of one config, are different.
LEMMA AlarmFields ==
  ASSUME NEW ts, NEW c
  PROVE  /\ InternalAlarm(ts, c).config = c /\ InternalAlarm(ts, c).gen = ts[c].gen
         /\ InternalAlarm(ts, c).timestampSec = ts[c].mAlarmSec
  BY DEF InternalAlarm

\* An alarm that stays where it is, in the queue or not, stays in one place.
LEMMA OnePlaceStays ==
  ASSUME NEW a, NEW pq, NEW new, NEW calls, OnePlace(a, pq, calls), a \in pq <=> a \in new
  PROVE  OnePlace(a, new, calls)
  BY Zenon DEF OnePlace

Renewed(ts, c, t) == [ts EXCEPT ![c] = t]

\* The queue has lost the alarm of config c, if it had one, and has its next alarm.
QueueRenewed(pq, new, ts, c, t) ==
  /\ InternalAlarm(Renewed(ts, c, t), c) \in new
  /\ \A a \in new : a \in pq \/ a = InternalAlarm(Renewed(ts, c, t), c)
  /\ \A a \in pq : a \in new \/ a.config = c
  /\ ts[c].alive => InternalAlarm(ts, c) \notin new

\* The tracker of config c is replaced by one with the next alarm, and the queue with it.
LEMMA RenewOK ==
  ASSUME NEW mon, NEW ts, NEW calls, PeriodicOK(mon, ts, calls), NEW c \in Configs,
         NEW t \in [alive : BOOLEAN, gen : Nat, mAlarmSec : Nat, setAt : Nat],
         t.alive = TRUE, InFuture(t, c), t.gen = ts[c].gen + 1,
         NEW m, MonOK(m), QueueRenewed(mon.mPq, m.mPq, ts, c, t)
  PROVE  /\ PeriodicOK(m, Renewed(ts, c, t), calls)
         /\ \A call \in calls : InternalAlarm(Renewed(ts, c, t), c) \notin call.alarms
<1>0. PICK new : new = Renewed(ts, c, t)
  OBVIOUS
<1>11. /\ InternalAlarm(new, c) \in m.mPq
       /\ \A a \in m.mPq : a \in mon.mPq \/ a = InternalAlarm(new, c)
       /\ \A a \in mon.mPq : a \in m.mPq \/ a.config = c
       /\ ts[c].alive => InternalAlarm(ts, c) \notin m.mPq
  BY <1>0, Zenon DEF QueueRenewed
<1>1. /\ TrackersOK(ts) /\ Queued(mon.mPq, ts) /\ CallsOK(calls, ts)
      /\ \A d \in Configs : ts[d].alive => OnePlace(InternalAlarm(ts, d), mon.mPq, calls)
  BY Zenon DEF PeriodicOK
<1>2. ts \in [Configs -> [alive : BOOLEAN, gen : Nat, mAlarmSec : Nat, setAt : Nat]]
  BY <1>1 DEF TrackersOK
<1>3. /\ new \in [Configs -> [alive : BOOLEAN, gen : Nat, mAlarmSec : Nat, setAt : Nat]]
      /\ new[c] = t /\ \A d \in Configs : d # c => new[d] = ts[d]
  BY <1>0, <1>2 DEF Renewed
<1>4. TrackersOK(new)
  <2>1. ASSUME NEW d \in Configs, new[d].alive PROVE InFuture(new[d], d)
    <3>1. CASE d = c
      BY <1>3, <3>1
    <3>2. CASE d # c
      BY <1>1, <1>3, <2>1, <3>2 DEF TrackersOK
    <3> QED BY <3>1, <3>2
  <2> QED BY <1>3, <2>1 DEF TrackersOK
<1>5. \A d \in Configs : d # c => InternalAlarm(new, d) = InternalAlarm(ts, d)
  BY <1>3 DEF InternalAlarm
<1>6. \A call \in calls : InternalAlarm(new, c) \notin call.alarms
  <2> SUFFICES ASSUME NEW call \in calls, InternalAlarm(new, c) \in call.alarms PROVE FALSE
    OBVIOUS
  <2>1. InternalAlarm(new, c).config = c /\ InternalAlarm(new, c).gen = ts[c].gen + 1
    BY <1>3 DEF InternalAlarm
  <2>2. ts[c].gen + 1 <= ts[c].gen
    BY <2>1, <1>1 DEF CallsOK
  <2>3. ts[c].gen \in Nat
    BY <1>2
  <2> QED BY <2>2, <2>3
<1>7. Queued(m.mPq, new)
  <2> SUFFICES ASSUME NEW a \in m.mPq PROVE \E d \in Configs : new[d].alive /\ a = InternalAlarm(new, d)
    BY DEF Queued
  <2>1. CASE a = InternalAlarm(new, c)
    BY <2>1, <1>3
  <2>2. CASE a # InternalAlarm(new, c)
    <3>1. a \in mon.mPq
      BY <2>2, <1>11
    <3>2. PICK d \in Configs : ts[d].alive /\ a = InternalAlarm(ts, d)
      BY <3>1, <1>1 DEF Queued
    <3>3. d # c
      BY <3>2, <1>11, Zenon
    <3> QED BY <3>2, <3>3, <1>3, <1>5
  <2> QED BY <2>1, <2>2
<1>8. CallsOK(calls, new)
  <2>1. \A d \in Configs : new[d].gen \in Nat /\ ts[d].gen \in Nat /\ ts[d].gen <= new[d].gen
    <3> SUFFICES ASSUME NEW d \in Configs
                 PROVE  new[d].gen \in Nat /\ ts[d].gen \in Nat /\ ts[d].gen <= new[d].gen
      OBVIOUS
    <3>1. new[d].gen \in Nat /\ ts[d].gen \in Nat
      BY <1>2, <1>3
    <3>2. CASE d = c
      BY <3>1, <3>2, <1>3
    <3>3. CASE d # c
      BY <3>1, <3>3, <1>3
    <3> QED BY <3>1, <3>2, <3>3
  <2> SUFFICES ASSUME NEW call \in calls
               PROVE  /\ call.at \in Nat
                      /\ \A a \in call.alarms :
                           a.config \in Configs /\ a.gen \in Nat /\ a.gen <= new[a.config].gen
    BY DEF CallsOK
  <2>2. /\ call.at \in Nat
        /\ \A a \in call.alarms : a.config \in Configs /\ a.gen \in Nat /\ a.gen <= ts[a.config].gen
    BY <1>1 DEF CallsOK
  <2>3. ASSUME NEW a \in call.alarms
        PROVE  a.config \in Configs /\ a.gen \in Nat /\ a.gen <= new[a.config].gen
    <3> DEFINE d == a.config
    <3>1. d \in Configs /\ a.gen \in Nat /\ a.gen <= ts[d].gen
      BY <2>2
    <3> HIDE DEF d
    <3>2. a.gen <= new[d].gen
      BY <3>1, <2>1
    <3> QED BY <3>1, <3>2 DEF d
  <2> QED BY <2>2, <2>3
<1>9. ASSUME NEW d \in Configs, new[d].alive PROVE OnePlace(InternalAlarm(new, d), m.mPq, calls)
  <2>1. CASE d = c
    BY <2>1, <1>6, <1>11 DEF OnePlace
  <2>2. CASE d # c
    <3> DEFINE a == InternalAlarm(ts, d)
    <3>1. a = InternalAlarm(new, d) /\ ts[d].alive /\ a.config = d
      <4>1. new[d] = ts[d]
        BY <2>2, <1>3
      <4>2. ts[d].alive
        BY <4>1, <1>9, Zenon
      <4>3. a.config = d
        BY DEF InternalAlarm
      <4> QED BY <2>2, <1>5, <4>2, <4>3
    <3>2. OnePlace(a, mon.mPq, calls)
      BY <3>1, <1>1
    <3>3. InternalAlarm(new, c).config = c
      BY DEF InternalAlarm
    <3> HIDE DEF a
    <3>4. a \in mon.mPq <=> a \in m.mPq
      <4>1. a # InternalAlarm(new, c) /\ a.config # c
        BY <3>1, <3>3, <2>2
      <4> QED BY <4>1, <1>11, Zenon
    <3>5. OnePlace(a, m.mPq, calls)
      BY <3>2, <3>4, OnePlaceStays
    <3> QED BY <3>1, <3>5
  <2> QED BY <2>1, <2>2
<1>10. PeriodicOK(m, new, calls)
  BY <1>4, <1>7, <1>8, <1>9 DEF PeriodicOK
<1> QED BY <1>0, <1>6, <1>10, Zenon

\* Setting up a config keeps the alarms of the others and replaces its own.
LEMMA UpdatedOK ==
  ASSUME NEW s, NEW calls, PeriodicOK(s.mon, s.trackers, calls), NEW c \in Configs, pNow \in Nat
  PROVE  /\ PeriodicOK(Updated(s, c).mon, Updated(s, c).trackers, calls)
         /\ Updated(s, c).mon.linked = s.mon.linked
<1> DEFINE mon == s.mon
           ts == s.trackers
           first == (startMillis + Offset[c]) \div MsPerSec
           t == NewTracker(c, ts[c].gen + 1)
           new == [ts EXCEPT ![c] = t]
           added == addAlarm(mon, InternalAlarm(new, c))
           m == IF ts[c].alive THEN removeAlarm(added, InternalAlarm(ts, c)) ELSE added
<1>1. /\ MonOK(mon) /\ PeriodicOK(mon, ts, calls)
      /\ ts \in [Configs -> [alive : BOOLEAN, gen : Nat, mAlarmSec : Nat, setAt : Nat]]
  BY DEF PeriodicOK, TrackersOK
<1>2. Updated(s, c).mon = m /\ Updated(s, c).trackers = new
  BY DEF Updated, PeriodicState
<1>3. first \in Nat \ {0}
  <2> DEFINE n == startMillis + Offset[c]
  <2>1. n \in Nat /\ n >= MsPerSec /\ MsPerSec \in Nat \ {0}
    BY PeriodicAssumption
  <2> HIDE DEF n
  <2>2. n \div MsPerSec \in Nat /\ n < (n \div MsPerSec) * MsPerSec + MsPerSec
    BY <2>1, DivisionRoundsDown
  <2>3. n \div MsPerSec # 0
    BY <2>1, <2>2
  <2> QED BY <2>2, <2>3 DEF n
<1> DEFINE next == findNextAlarmSec(first, c, pNow)
<1>4. next \in Nat \ {0} /\ next >= pNow /\ (Period[c] % MsPerSec = 0 => next > pNow)
  <2> HIDE DEF first
  <2> QED BY <1>3, NextAlarmIsLater
<1>5. /\ t = [alive |-> TRUE, gen |-> ts[c].gen + 1, mAlarmSec |-> next, setAt |-> pNow]
  BY DEF NewTracker, Tracker
<1> HIDE DEF mon, ts, t, next
<1>6. /\ t \in [alive : BOOLEAN, gen : Nat, mAlarmSec : Nat, setAt : Nat]
      /\ t.alive = TRUE /\ t.gen = ts[c].gen + 1 /\ t.mAlarmSec = next /\ t.setAt = pNow
  <2>1. ts[c].gen + 1 \in Nat
    BY <1>1
  <2> QED BY <2>1, <1>4, <1>5
<1>7. InFuture(t, c)
  BY <1>4, <1>6 DEF InFuture
<1>8. new[c] = t
  BY <1>1
<1> DEFINE alarm == InternalAlarm(new, c)
           old == InternalAlarm(ts, c)
<1>9. /\ alarm.timestampSec \in Nat \ {0} /\ alarm.gen = ts[c].gen + 1
      /\ old.gen = ts[c].gen /\ old.config = c
  BY <1>4, <1>6, <1>8, AlarmFields
<1>10. alarm # old
  <2>1. ts[c].gen \in Nat
    BY <1>1
  <2> QED BY <1>9, <2>1
<1>11. new = [ts EXCEPT ![c] = t]
  OBVIOUS
<1>12. alarm = InternalAlarm(new, c) /\ old = InternalAlarm(ts, c)
  OBVIOUS
<1> HIDE DEF alarm, new, old
<1>13. MonOK(added) /\ added.mPq = mon.mPq \union {alarm} /\ added.linked = mon.linked
  BY <1>1, <1>9, <1>12, AddOK
<1> HIDE DEF added
<1>14. /\ MonOK(m) /\ m.linked = mon.linked
       /\ m.mPq = IF ts[c].alive THEN (mon.mPq \union {alarm}) \ {old} ELSE mon.mPq \union {alarm}
  <2>1. CASE ts[c].alive
    <3>1. m = removeAlarm(added, old)
      BY <2>1, <1>12
    <3> HIDE DEF m
    <3>2. MonOK(m) /\ m.mPq = added.mPq \ {old} /\ m.linked = added.linked
      BY <3>1, <1>13, RemoveOK
    <3> QED BY <3>2, <2>1, <1>13
  <2>2. CASE ~ts[c].alive
    BY <2>2, <1>13
  <2> QED BY <2>1, <2>2
<1> HIDE DEF m
<1>15. /\ alarm \in m.mPq
       /\ \A a \in m.mPq : a \in mon.mPq \/ a = alarm
       /\ \A a \in mon.mPq : a \in m.mPq \/ a.config = c
       /\ ts[c].alive => old \notin m.mPq
  BY <1>9, <1>10, <1>14
<1>16. PeriodicOK(m, new, calls)
  <2>1. new = Renewed(ts, c, t)
    BY <1>11, Zenon DEF Renewed
  <2>2. QueueRenewed(mon.mPq, m.mPq, ts, c, t)
    BY <2>1, <1>12, <1>15, Zenon DEF QueueRenewed
  <2>3. PeriodicOK(m, Renewed(ts, c, t), calls)
    BY <2>2, <1>1, <1>6, <1>7, <1>14, RenewOK, Zenon
  <2> QED BY <2>1, <2>3
<1> QED BY <1>2, <1>14, <1>16 DEF mon

\* What informAlarmsFired of config c leaves: the tracker of c has no alarm in the call.
TurnOK(x, s, c, call, calls) ==
  /\ PeriodicOK(x.mon, x.trackers, calls) /\ x.mon.linked = s.mon.linked
  /\ \A d \in Configs : d # c => x.trackers[d] = s.trackers[d]
  /\ InternalAlarm(x.trackers, c) \notin call.alarms \/ ~x.trackers[c].alive

\* The tracker whose alarm is in the call sets the next one; then none of its alarms is.
LEMMA InformedOK ==
  ASSUME NEW s, NEW calls, PeriodicOK(s.mon, s.trackers, calls), NEW c \in Configs, NEW call \in calls
  PROVE  TurnOK(Informed(s, c, call), s, c, call, calls)
<1> DEFINE mon == s.mon
           ts == s.trackers
           x == Informed(s, c, call)
           next == findNextAlarmSec(ts[c].mAlarmSec, c, call.at)
           t == NextTracker(s, c, call)
           new == [ts EXCEPT ![c] = t]
           alarm == InternalAlarm(new, c)
           old == InternalAlarm(ts, c)
           m == addAlarm(mon, alarm)
<1>1. /\ MonOK(mon) /\ PeriodicOK(mon, ts, calls) /\ TrackersOK(ts) /\ CallsOK(calls, ts)
      /\ ts \in [Configs -> [alive : BOOLEAN, gen : Nat, mAlarmSec : Nat, setAt : Nat]]
      /\ \A d \in Configs : ts[d].alive => OnePlace(InternalAlarm(ts, d), mon.mPq, calls)
  BY DEF PeriodicOK, TrackersOK
<1>2. CASE ~(ts[c].alive /\ old \in call.alarms)
  <2>1. x = s
    BY <1>2, Zenon DEF Informed
  <2> HIDE DEF x
  <2>2. /\ PeriodicOK(x.mon, x.trackers, calls) /\ x.mon.linked = s.mon.linked
        /\ \A d \in Configs : d # c => x.trackers[d] = s.trackers[d]
        /\ InternalAlarm(x.trackers, c) \notin call.alarms \/ ~x.trackers[c].alive
    BY <2>1, <1>2
  <2> QED BY <2>2, Zenon DEF x, TurnOK
<1>3. CASE ts[c].alive /\ old \in call.alarms
  <2>1. x = PeriodicState(m, new)
    BY <1>3, Zenon DEF Informed
  <2>2. x.mon = m /\ x.trackers = new
    BY <2>1 DEF PeriodicState
  <2>3. t = [alive |-> TRUE, gen |-> ts[c].gen + 1, mAlarmSec |-> next, setAt |-> call.at]
    BY DEF NextTracker, Tracker
  <2>4. call.at \in Nat /\ ts[c].mAlarmSec \in Nat \ {0} /\ ts[c].gen \in Nat
    BY <1>1, <1>3 DEF CallsOK, TrackersOK, InFuture
  <2>5. next \in Nat \ {0} /\ next >= call.at /\ (Period[c] % MsPerSec = 0 => next > call.at)
    <3> DEFINE first == ts[c].mAlarmSec
               cur == call.at
    <3>1. first \in Nat \ {0} /\ cur \in Nat
      BY <2>4
    <3> HIDE DEF first, cur
    <3>2. /\ findNextAlarmSec(first, c, cur) \in Nat \ {0} /\ findNextAlarmSec(first, c, cur) >= cur
          /\ (Period[c] % MsPerSec = 0 => findNextAlarmSec(first, c, cur) > cur)
      BY <3>1, NextAlarmIsLater
    <3> QED BY <3>2 DEF first, cur
  <2> HIDE DEF mon, ts, t, next, x
  <2>6. /\ t \in [alive : BOOLEAN, gen : Nat, mAlarmSec : Nat, setAt : Nat]
        /\ t.alive = TRUE /\ t.gen = ts[c].gen + 1 /\ t.mAlarmSec = next /\ t.setAt = call.at
    BY <2>3, <2>4, <2>5
  <2>7. InFuture(t, c)
    BY <2>5, <2>6 DEF InFuture
  <2>8. new[c] = t /\ \A d \in Configs : d # c => new[d] = ts[d]
    BY <1>1
  <2>9. alarm.timestampSec \in Nat \ {0} /\ alarm.gen = ts[c].gen + 1 /\ old.gen = ts[c].gen
    BY <2>5, <2>6, <2>8, AlarmFields
  <2>10. new = [ts EXCEPT ![c] = t] /\ alarm = InternalAlarm(new, c) /\ old = InternalAlarm(ts, c) /\ alarm # old
    BY <2>9, <2>4
  <2> HIDE DEF alarm, new, old
  <2>11. MonOK(m) /\ m.mPq = mon.mPq \union {alarm} /\ m.linked = mon.linked
    BY <1>1, <2>9, AddOK
  <2> HIDE DEF m
  <2>12. old \notin mon.mPq
    <3>1. OnePlace(old, mon.mPq, calls)
      BY <1>1, <1>3, <2>10
    <3> QED BY <3>1, <1>3 DEF OnePlace
  <2>13. /\ alarm \in m.mPq
         /\ \A a \in m.mPq : a \in mon.mPq \/ a = alarm
         /\ \A a \in mon.mPq : a \in m.mPq \/ a.config = c
         /\ ts[c].alive => old \notin m.mPq
    BY <2>10, <2>11, <2>12
  <2>14. PeriodicOK(m, new, calls) /\ \A other \in calls : alarm \notin other.alarms
    <3>1. new = Renewed(ts, c, t)
      BY <2>10, Zenon DEF Renewed
    <3>2. QueueRenewed(mon.mPq, m.mPq, ts, c, t)
      BY <3>1, <2>10, <2>13, Zenon DEF QueueRenewed
    <3>3. /\ PeriodicOK(m, Renewed(ts, c, t), calls)
          /\ \A other \in calls : InternalAlarm(Renewed(ts, c, t), c) \notin other.alarms
      BY <3>2, <1>1, <2>6, <2>7, <2>11, RenewOK, Zenon
    <3> QED BY <3>1, <3>3, <2>10, Zenon
  <2>15. /\ PeriodicOK(x.mon, x.trackers, calls) /\ x.mon.linked = s.mon.linked
         /\ \A d \in Configs : d # c => x.trackers[d] = s.trackers[d]
         /\ InternalAlarm(x.trackers, c) \notin call.alarms \/ ~x.trackers[c].alive
    BY <2>2, <2>8, <2>10, <2>11, <2>14 DEF ts, mon
  <2> QED BY <2>15, Zenon DEF x, TurnOK
<1> QED BY <1>2, <1>3

-----------------------------------------------------------------------------
(* The loops over configs: those of resetConfigs (Updated) and of               *)
(* onPeriodicAlarmFired (Informed).                                             *)

\* One config's turn.
Turn(how, call, x, c) == IF how THEN Informed(x, c, call) ELSE Updated(x, c)

\* The loop after the configs of S, from what it left after one config less.
Looped(how, call, s, f, S) ==
  IF S = {} THEN s ELSE LET c == CHOOSE x \in S : TRUE IN Turn(how, call, f[S \ {c}], c)

IsLoop(how, call, s, cs, f) == f = [S \in SUBSET cs |-> Looped(how, call, s, f, S)]

\* One config less is a smaller set of configs.
LEMMA OneConfigLess ==
  ASSUME NEW cs \in SUBSET Configs, NEW S \in SUBSET cs
  PROVE  /\ Cardinality(S) \in Nat /\ Cardinality(S) <= Cardinality(cs)
         /\ Cardinality(cs) \in Nat
         /\ S # {} => LET c == CHOOSE x \in S : TRUE
                      IN  /\ c \in S /\ S \ {c} \in SUBSET cs
                          /\ Cardinality(S \ {c}) = Cardinality(S) - 1
<1>1. IsFiniteSet(cs)
  BY PeriodicAssumption, FS_Subset
<1>2. IsFiniteSet(S) /\ Cardinality(S) <= Cardinality(cs)
  BY <1>1, FS_Subset
<1>3. Cardinality(S) \in Nat /\ Cardinality(cs) \in Nat
  BY <1>1, <1>2, FS_CardinalityType
<1>4. ASSUME S # {}, NEW c, c = CHOOSE x \in S : TRUE
      PROVE  c \in S /\ S \ {c} \in SUBSET cs /\ Cardinality(S \ {c}) = Cardinality(S) - 1
  <2>1. c \in S
    BY <1>4, Zenon
  <2> QED BY <2>1, <1>2, FS_RemoveElement
<1> QED BY <1>2, <1>3, <1>4

\* The recursion over sets of configs defines a function.
LEMMA LoopExists ==
  ASSUME NEW how, NEW call, NEW s, NEW cs \in SUBSET Configs
  PROVE  \E f : IsLoop(how, call, s, cs, f)
<1> DEFINE UpTo(f, n) == \A S \in SUBSET cs : Cardinality(S) <= n => f[S] = Looped(how, call, s, f, S)
           Bad == {n \in Nat : ~\E f : UpTo(f, n)}
<1>1. UpTo([S \in SUBSET cs |-> s], 0)
  <2> DEFINE f == [S \in SUBSET cs |-> s]
  <2> SUFFICES ASSUME NEW S \in SUBSET cs, Cardinality(S) <= 0
               PROVE  f[S] = Looped(how, call, s, f, S)
    OBVIOUS
  <2>1. S = {}
    <3>1. IsFiniteSet(S)
      BY PeriodicAssumption, FS_Subset
    <3> QED BY <3>1, OneConfigLess, FS_EmptySet
  <2> QED BY <2>1 DEF Looped
<1>2. ASSUME NEW n \in Nat, NEW f, UpTo(f, n)
      PROVE  UpTo([S \in SUBSET cs |-> Looped(how, call, s, f, S)], n + 1)
  <2> DEFINE g == [S \in SUBSET cs |-> Looped(how, call, s, f, S)]
  <2> SUFFICES ASSUME NEW S \in SUBSET cs, Cardinality(S) <= n + 1
               PROVE  g[S] = Looped(how, call, s, g, S)
    OBVIOUS
  <2>1. CASE S = {}
    BY <2>1 DEF Looped
  <2>2. CASE S # {}
    <3>1. PICK c : c = CHOOSE x \in S : TRUE
      OBVIOUS
    <3>2. S \ {c} \in SUBSET cs /\ Cardinality(S \ {c}) = Cardinality(S) - 1 /\ Cardinality(S) \in Nat
      BY <2>2, <3>1, OneConfigLess
    <3>3. g[S \ {c}] = Looped(how, call, s, f, S \ {c})
      BY <3>2
    <3>4. f[S \ {c}] = Looped(how, call, s, f, S \ {c})
      <4>1. Cardinality(S \ {c}) <= n
        BY <3>2
      <4> QED BY <4>1, <3>2, <1>2
    <3>5. /\ g[S] = Turn(how, call, f[S \ {c}], c)
          /\ Looped(how, call, s, g, S) = Turn(how, call, g[S \ {c}], c)
      BY <2>2, <3>1, Zenon DEF Looped
    <3> QED BY <3>3, <3>4, <3>5, Zenon
  <2> QED BY <2>1, <2>2
<1>3. Bad = {}
  <2> SUFFICES ASSUME Bad # {} PROVE FALSE
    OBVIOUS
  <2>1. PICK n \in Bad : \A m \in Bad : n <= m
    <3>1. Bad \subseteq Nat
      OBVIOUS
    <3> HIDE DEF Bad
    <3> QED BY <3>1, SmallestNat
  <2>2. n \in Nat /\ ~\E f : UpTo(f, n)
    BY <2>1
  <2>3. n # 0
    BY <1>1, <2>2
  <2>4. n - 1 \in Nat /\ (n - 1) + 1 = n /\ n - 1 \notin Bad
    BY <2>1, <2>2, <2>3
  <2>5. PICK f : UpTo(f, n - 1)
    BY <2>4
  <2> HIDE DEF UpTo, Bad
  <2>6. UpTo([S \in SUBSET cs |-> Looped(how, call, s, f, S)], (n - 1) + 1)
    BY <2>4, <2>5, <1>2
  <2> QED BY <2>2, <2>4, <2>6
<1>4. PICK f : UpTo(f, Cardinality(cs))
  <2>1. Cardinality(cs) \in Nat
    BY OneConfigLess
  <2> QED BY <2>1, <1>3
<1> DEFINE g == [S \in SUBSET cs |-> f[S]]
<1>5. ASSUME NEW S \in SUBSET cs PROVE g[S] = Looped(how, call, s, g, S)
  <2>1. g[S] = Looped(how, call, s, f, S)
    BY <1>4, OneConfigLess
  <2>2. CASE S = {}
    BY <2>1, <2>2 DEF Looped
  <2>3. CASE S # {}
    <3>1. PICK c : c = CHOOSE x \in S : TRUE
      OBVIOUS
    <3>2. g[S \ {c}] = f[S \ {c}]
      BY <2>3, <3>1, OneConfigLess
    <3>3. /\ Looped(how, call, s, f, S) = Turn(how, call, f[S \ {c}], c)
          /\ Looped(how, call, s, g, S) = Turn(how, call, g[S \ {c}], c)
      BY <2>3, <3>1, Zenon DEF Looped
    <3> QED BY <2>1, <3>2, <3>3, Zenon
  <2> QED BY <2>2, <2>3
<1>6. IsLoop(how, call, s, cs, g)
  BY <1>5 DEF IsLoop
<1> QED BY <1>6, Zenon

\* What a loop leaves: a sound state, and after a call no tracker whose alarm is in it.
LoopOK(how, call, calls, s, x, S) ==
  /\ PeriodicOK(x.mon, x.trackers, calls) /\ x.mon.linked = s.mon.linked
  /\ how => \A c \in S : InternalAlarm(x.trackers, c) \notin call.alarms \/ ~x.trackers[c].alive

\* The loop has informed or set up the configs it was given.
LEMMA LoopLeavesOK ==
  ASSUME NEW how \in BOOLEAN, NEW calls, NEW call, how => call \in calls, pNow \in Nat,
         NEW s, PeriodicOK(s.mon, s.trackers, calls),
         NEW cs \in SUBSET Configs, NEW f, IsLoop(how, call, s, cs, f)
  PROVE  LoopOK(how, call, calls, s, f[cs], cs)
<1> DEFINE Right(S) == LoopOK(how, call, calls, s, f[S], S)
           Bad == {Cardinality(S) : S \in {x \in SUBSET cs : ~Right(x)}}
<1> SUFFICES ASSUME ~Right(cs) PROVE FALSE
  OBVIOUS
<1>1. Bad \subseteq Nat /\ Bad # {}
  <2>1. \A S \in SUBSET cs : Cardinality(S) \in Nat
    BY OneConfigLess
  <2> HIDE DEF Right
  <2> QED BY <2>1
<1>2. PICK n \in Bad : \A m \in Bad : n <= m
  <2> HIDE DEF Bad
  <2> QED BY <1>1, SmallestNat
<1>3. PICK S \in SUBSET cs : n = Cardinality(S) /\ ~Right(S)
  BY <1>2
<1>4. f[S] = Looped(how, call, s, f, S)
  BY DEF IsLoop
<1>5. S # {}
  <2> SUFFICES ASSUME S = {} PROVE Right(S)
    BY <1>3
  <2>1. f[S] = s
    BY <1>4 DEF Looped
  <2> QED BY <2>1 DEF LoopOK
<1>6. PICK c : c = CHOOSE x \in S : TRUE
  OBVIOUS
<1>7. /\ c \in S /\ S \ {c} \in SUBSET cs
      /\ Cardinality(S \ {c}) = n - 1 /\ n \in Nat
  BY <1>3, <1>5, <1>6, OneConfigLess
<1>8. Right(S \ {c})
  <2> SUFFICES ASSUME ~Right(S \ {c}) PROVE FALSE
    OBVIOUS
  <2>1. n - 1 \in Bad
    <3> HIDE DEF Right
    <3> QED BY <1>7
  <2>2. n <= n - 1
    BY <2>1, <1>2
  <2> QED BY <2>2, <1>7
<1>9. f[S] = Turn(how, call, f[S \ {c}], c)
  BY <1>4, <1>5, <1>6, Zenon DEF Looped
<1>10. PICK x : x = f[S \ {c}]
  OBVIOUS
<1>11. PICK y : y = f[S]
  OBVIOUS
<1>12. /\ PeriodicOK(x.mon, x.trackers, calls) /\ x.mon.linked = s.mon.linked
       /\ how => \A d \in S \ {c} : InternalAlarm(x.trackers, d) \notin call.alarms \/ ~x.trackers[d].alive
  BY <1>8, <1>10, Zenon DEF LoopOK
<1>13. y = Turn(how, call, x, c) /\ c \in Configs
  BY <1>7, <1>9, <1>10, <1>11
<1>14. LoopOK(how, call, calls, s, y, S)
  <2>1. CASE how
    <3>1. y = Informed(x, c, call)
      BY <2>1, <1>13, Zenon DEF Turn
    <3>2. call \in calls
      BY <2>1
    <3>3. /\ PeriodicOK(y.mon, y.trackers, calls) /\ y.mon.linked = x.mon.linked
          /\ \A d \in Configs : d # c => y.trackers[d] = x.trackers[d]
          /\ InternalAlarm(y.trackers, c) \notin call.alarms \/ ~y.trackers[c].alive
      <4>1. TurnOK(Informed(x, c, call), x, c, call, calls)
        BY <3>2, <1>12, <1>13, InformedOK, Zenon
      <4> QED BY <3>1, <4>1, Zenon DEF TurnOK
    <3>4. ASSUME NEW d \in S PROVE InternalAlarm(y.trackers, d) \notin call.alarms \/ ~y.trackers[d].alive
      <4>1. CASE d = c
        BY <4>1, <3>3
      <4>2. CASE d # c
        <5>1. y.trackers[d] = x.trackers[d]
          BY <4>2, <3>3
        <5>2. InternalAlarm(y.trackers, d) = InternalAlarm(x.trackers, d)
          BY <5>1 DEF InternalAlarm
        <5>3. InternalAlarm(x.trackers, d) \notin call.alarms \/ ~x.trackers[d].alive
          BY <4>2, <2>1, <1>12
        <5> QED BY <5>1, <5>2, <5>3, Zenon
      <4> QED BY <4>1, <4>2
    <3> QED BY <3>3, <3>4, <1>12, Zenon DEF LoopOK
  <2>2. CASE ~how
    <3>1. y = Updated(x, c)
      BY <2>2, <1>13, Zenon DEF Turn
    <3>2. PeriodicOK(y.mon, y.trackers, calls) /\ y.mon.linked = x.mon.linked
      BY <3>1, <1>12, <1>13, UpdatedOK, Zenon
    <3> QED BY <3>2, <2>2, <1>12, Zenon DEF LoopOK
  <2> QED BY <2>1, <2>2
<1> QED BY <1>3, <1>11, <1>14

\* resetConfigs: the loop of UpdatedAll.
LEMMA UpdatedAllOK ==
  ASSUME NEW calls, pNow \in Nat, NEW s, PeriodicOK(s.mon, s.trackers, calls), NEW cs \in SUBSET Configs
  PROVE  LET x == UpdatedAll(s, cs)
         IN  PeriodicOK(x.mon, x.trackers, calls) /\ x.mon.linked = s.mon.linked
<1> DEFINE f == CHOOSE g : IsLoop(FALSE, s, s, cs, g)
<1>1. IsLoop(FALSE, s, s, cs, f)
  BY LoopExists, Zenon
<1>2. UpdatedAll(s, cs) = f[cs]
  BY DEF UpdatedAll, IsLoop, Looped, Turn
<1> HIDE DEF f
<1>3. LoopOK(FALSE, s, calls, s, f[cs], cs)
  BY <1>1, LoopLeavesOK
<1> QED BY <1>2, <1>3, Zenon DEF LoopOK

\* onPeriodicAlarmFired: the loop of InformedAll.
LEMMA InformedAllOK ==
  ASSUME NEW calls, pNow \in Nat, NEW s, PeriodicOK(s.mon, s.trackers, calls), NEW call \in calls
  PROVE  LoopOK(TRUE, call, calls, s, InformedAll(s, call), Configs)
<1> DEFINE f == CHOOSE g : IsLoop(TRUE, call, s, Configs, g)
<1>1. IsLoop(TRUE, call, s, Configs, f)
  BY LoopExists, Zenon
<1>2. InformedAll(s, call) = f[Configs]
  BY DEF InformedAll, IsLoop, Looped, Turn
<1> HIDE DEF f
<1>3. LoopOK(TRUE, call, calls, s, f[Configs], Configs)
  BY <1>1, LoopLeavesOK
<1> QED BY <1>2, <1>3, Zenon

-----------------------------------------------------------------------------
(* The specification of periodic alarms. *)

PeriodicInv ==
  /\ PeriodicOK(pMonitor, trackers, popped)
  /\ pMonitor.linked = (companion = "up")
  /\ companion \in {"up", "dead", "gone"}
  /\ pNow \in Nat /\ informs \in Nat

\* The inductive invariant implies the property.
LEMMA PeriodicInvImplies == PeriodicInv => PeriodicAlarmsSound
<1> SUFFICES ASSUME PeriodicInv PROVE PeriodicAlarmsSound
  OBVIOUS
<1>1. /\ MonOK(pMonitor) /\ TrackersOK(trackers) /\ Queued(pMonitor.mPq, trackers) /\ CallsOK(popped, trackers)
      /\ \A c \in Configs : trackers[c].alive => OnePlace(InternalAlarm(trackers, c), pMonitor.mPq, popped)
  BY Zenon DEF PeriodicInv, PeriodicOK
<1>2. trackers \in [Configs -> [alive : BOOLEAN, gen : Nat, mAlarmSec : Nat, setAt : Nat]]
  BY <1>1 DEF TrackersOK
<1>3. PeriodicTypeOK
  <2>1. pMonitor.mPq \subseteq [config : Configs, gen : Nat, timestampSec : Nat \ {0}]
    <3> SUFFICES ASSUME NEW a \in pMonitor.mPq PROVE a \in [config : Configs, gen : Nat, timestampSec : Nat \ {0}]
      OBVIOUS
    <3>1. PICK c \in Configs : trackers[c].alive /\ a = InternalAlarm(trackers, c)
      BY <1>1 DEF Queued
    <3>2. trackers[c].gen \in Nat /\ trackers[c].mAlarmSec \in Nat \ {0}
      BY <3>1, <1>1, <1>2 DEF TrackersOK, InFuture
    <3> QED BY <3>1, <3>2 DEF InternalAlarm
  <2>2. pMonitor.mRegisteredAlarmTimeSec \in Nat /\ pMonitor.timer \in Nat
    BY <1>1 DEF MonOK
  <2>3. pMonitor.linked <=> companion = "up"
    BY Zenon DEF PeriodicInv
  <2> QED BY <2>1, <2>2, <2>3, <1>2 DEF PeriodicTypeOK, PeriodicInv
<1>4. AlarmsAccounted
  <2>1. pMonitor.mPq \subseteq AliveAlarms
    BY <1>1 DEF Queued, AliveAlarms
  <2>2. ASSUME NEW a \in AliveAlarms PROVE OnePlace(a, pMonitor.mPq, popped)
    <3>1. PICK c \in Configs : trackers[c].alive /\ a = InternalAlarm(trackers, c)
      BY DEF AliveAlarms
    <3> QED BY <3>1, <1>1, Zenon
  <2> QED BY <2>1, <2>2, Zenon DEF AlarmsAccounted, OnePlace
<1>5. PeriodicRegisteredNearSoonest
  BY <1>1, Zenon DEF MonOK, PeriodicRegisteredNearSoonest
<1>6. NextAlarmInFuture
  BY <1>1, Zenon DEF TrackersOK, InFuture, NextAlarmInFuture
<1> QED BY <1>3, <1>4, <1>5, <1>6 DEF PeriodicAlarmsSound

\* The invariant holds initially.
LEMMA PeriodicInvInit == PeriodicInit => PeriodicInv
<1> SUFFICES ASSUME PeriodicInit PROVE PeriodicInv
  OBVIOUS
<1>1. MonOK(pMonitor) /\ pMonitor.mPq = {} /\ pMonitor.linked = TRUE
  BY NewMonitorOK DEF PeriodicInit
<1>2. trackers = [c \in Configs |-> [alive |-> FALSE, gen |-> 0, mAlarmSec |-> 0, setAt |-> 0]]
  BY DEF PeriodicInit, NoTracker, Tracker
<1>3. TrackersOK(trackers) /\ \A c \in Configs : ~trackers[c].alive
  BY <1>2 DEF TrackersOK
<1>4. Queued(pMonitor.mPq, trackers) /\ CallsOK(popped, trackers)
  BY <1>1 DEF PeriodicInit, Queued, CallsOK
<1>5. PeriodicOK(pMonitor, trackers, popped)
  BY <1>1, <1>3, <1>4, Zenon DEF PeriodicOK
<1>6. pNow \in Nat
  <2>1. startMillis \in Nat /\ MsPerSec \in Nat \ {0}
    BY PeriodicAssumption
  <2>2. startMillis \div MsPerSec \in Nat
    BY <2>1, DivisionRoundsDown
  <2> QED BY <2>2 DEF PeriodicInit
<1> QED BY <1>1, <1>5, <1>6 DEF PeriodicInit, PeriodicInv

\* A monitor with the same queue keeps the state sound.
LEMMA SameQueueOK ==
  ASSUME NEW mon, NEW ts, NEW calls, PeriodicOK(mon, ts, calls), NEW m, MonOK(m), m.mPq = mon.mPq
  PROVE  PeriodicOK(m, ts, calls)
  BY Zenon DEF PeriodicOK

WithoutTracker(ts, c) == [ts EXCEPT ![c] = NoTracker(ts[c].gen)]

\* OnConfigRemoved takes the alarm of the config with it.
LEMMA RemovedOK ==
  ASSUME NEW mon, NEW ts, NEW calls, PeriodicOK(mon, ts, calls), NEW c \in Configs
  PROVE  /\ PeriodicOK(removeAlarm(mon, InternalAlarm(ts, c)), WithoutTracker(ts, c), calls)
         /\ removeAlarm(mon, InternalAlarm(ts, c)).linked = mon.linked
<1>0. PICK m, new : m = removeAlarm(mon, InternalAlarm(ts, c)) /\ new = WithoutTracker(ts, c)
  OBVIOUS
<1> DEFINE old == InternalAlarm(ts, c)
<1>1. /\ MonOK(mon) /\ TrackersOK(ts) /\ Queued(mon.mPq, ts) /\ CallsOK(calls, ts)
      /\ \A d \in Configs : ts[d].alive => OnePlace(InternalAlarm(ts, d), mon.mPq, calls)
  BY Zenon DEF PeriodicOK
<1>2. ts \in [Configs -> [alive : BOOLEAN, gen : Nat, mAlarmSec : Nat, setAt : Nat]]
  BY <1>1 DEF TrackersOK
<1>3. /\ new \in [Configs -> [alive : BOOLEAN, gen : Nat, mAlarmSec : Nat, setAt : Nat]]
      /\ ~new[c].alive /\ new[c].gen = ts[c].gen /\ \A d \in Configs : d # c => new[d] = ts[d]
  <2>1. ts[c].gen \in Nat
    BY <1>2
  <2> QED BY <1>0, <1>2, <2>1 DEF WithoutTracker, NoTracker, Tracker
<1>4. MonOK(m) /\ m.mPq = mon.mPq \ {old} /\ m.linked = mon.linked
  BY <1>0, <1>1, RemoveOK
<1>5. \A d \in Configs : d # c => InternalAlarm(new, d) = InternalAlarm(ts, d)
  BY <1>3 DEF InternalAlarm
<1>6. TrackersOK(new)
  <2>1. ASSUME NEW d \in Configs, new[d].alive PROVE InFuture(new[d], d)
    <3>1. d # c /\ new[d] = ts[d]
      BY <1>3, <2>1
    <3>2. ts[d].alive
      BY <3>1, <2>1, Zenon
    <3> QED BY <3>1, <3>2, <1>1, Zenon DEF TrackersOK
  <2> QED BY <1>3, <2>1 DEF TrackersOK
<1>7. Queued(m.mPq, new)
  <2> SUFFICES ASSUME NEW a \in m.mPq PROVE \E d \in Configs : new[d].alive /\ a = InternalAlarm(new, d)
    BY DEF Queued
  <2>1. a \in mon.mPq /\ a # old
    BY <1>4
  <2>2. PICK d \in Configs : ts[d].alive /\ a = InternalAlarm(ts, d)
    BY <2>1, <1>1 DEF Queued
  <2>3. d # c
    BY <2>1, <2>2
  <2>4. new[d].alive
    <3>1. new[d] = ts[d]
      BY <2>3, <1>3
    <3> QED BY <3>1, <2>2, Zenon
  <2> QED BY <2>2, <2>3, <2>4, <1>5
<1>8. CallsOK(calls, new)
  <2>1. \A d \in Configs : new[d].gen = ts[d].gen
    <3> SUFFICES ASSUME NEW d \in Configs PROVE new[d].gen = ts[d].gen
      OBVIOUS
    <3>1. CASE d = c
      BY <3>1, <1>3
    <3>2. CASE d # c
      BY <3>2, <1>3
    <3> QED BY <3>1, <3>2
  <2> QED BY <2>1, <1>1 DEF CallsOK
<1>9. ASSUME NEW d \in Configs, new[d].alive PROVE OnePlace(InternalAlarm(new, d), m.mPq, calls)
  <2> DEFINE a == InternalAlarm(ts, d)
  <2>1. d # c /\ new[d] = ts[d]
    BY <1>3, <1>9
  <2>2. ts[d].alive
    BY <2>1, <1>9, Zenon
  <2>3. a = InternalAlarm(new, d) /\ a.config = d /\ old.config = c /\ OnePlace(a, mon.mPq, calls)
    BY <1>1, <1>5, <2>1, <2>2, AlarmFields
  <2> HIDE DEF a, old
  <2>4. a \in mon.mPq <=> a \in m.mPq
    BY <1>4, <2>1, <2>3
  <2>5. OnePlace(a, m.mPq, calls)
    BY <2>3, <2>4, OnePlaceStays
  <2> QED BY <2>3, <2>5
<1>10. PeriodicOK(m, new, calls)
  BY <1>4, <1>6, <1>7, <1>8, <1>9 DEF PeriodicOK
<1> QED BY <1>0, <1>4, <1>10, Zenon

\* The first half of a call: the due alarms move from the queue to the call.
LEMMA PoppedOK ==
  ASSUME NEW mon, NEW ts, NEW calls, PeriodicOK(mon, ts, calls), NEW sec \in Nat,
         NEW m, m = popSoonerThan(mon, sec), NEW new,
         new = IF SoonerThan(mon, sec) = {} THEN calls
               ELSE calls \union {[at |-> sec, alarms |-> SoonerThan(mon, sec)]}
  PROVE  PeriodicOK(m, ts, new) /\ m.linked = mon.linked
<1> DEFINE fired == SoonerThan(mon, sec)
           call == [at |-> sec, alarms |-> fired]
<1>1. /\ MonOK(mon) /\ TrackersOK(ts) /\ Queued(mon.mPq, ts) /\ CallsOK(calls, ts)
      /\ \A d \in Configs : ts[d].alive => OnePlace(InternalAlarm(ts, d), mon.mPq, calls)
  BY Zenon DEF PeriodicOK
<1>2. MonOK(m) /\ m.mPq = mon.mPq \ fired /\ m.linked = mon.linked
  BY <1>1, PopOK
<1>3. fired \subseteq mon.mPq
  BY DEF SoonerThan
<1>4. call.at = sec /\ call.alarms = fired
  OBVIOUS
<1>5. CASE fired = {}
  <2>1. new = calls /\ m.mPq = mon.mPq
    BY <1>2, <1>5
  <2> QED BY <2>1, <1>1, <1>2, SameQueueOK
<1>6. CASE fired # {}
  <2>1. new = calls \union {call}
    BY <1>6
  <2> HIDE DEF fired, call
  <2>2. Queued(m.mPq, ts)
    BY <1>1, <1>2 DEF Queued
  <2>3. CallsOK(new, ts)
    <3>1. ASSUME NEW a \in fired PROVE a.config \in Configs /\ a.gen \in Nat /\ a.gen <= ts[a.config].gen
      <4>1. PICK d \in Configs : ts[d].alive /\ a = InternalAlarm(ts, d)
        BY <1>1, <1>3 DEF Queued
      <4>2. ts[d].gen \in Nat
        BY <1>1 DEF TrackersOK
      <4>3. a.config = d /\ a.gen = ts[d].gen
        BY <4>1, AlarmFields
      <4> QED BY <4>2, <4>3
    <3> SUFFICES ASSUME NEW x \in new
                 PROVE  x.at \in Nat /\ \A a \in x.alarms : a.config \in Configs /\ a.gen \in Nat /\ a.gen <= ts[a.config].gen
      BY DEF CallsOK
    <3>2. CASE x = call
      BY <3>1, <3>2, <1>4
    <3>3. CASE x \in calls
      BY <3>3, <1>1 DEF CallsOK
    <3> QED BY <3>2, <3>3, <2>1
  <2>4. ASSUME NEW d \in Configs, ts[d].alive PROVE OnePlace(InternalAlarm(ts, d), m.mPq, new)
    <3>1. PICK a : a = InternalAlarm(ts, d)
      OBVIOUS
    <3>2. OnePlace(a, mon.mPq, calls)
      BY <3>1, <2>4, <1>1
    <3>3. CASE a \in fired
      <4>1. a \in mon.mPq /\ \A x \in calls : a \notin x.alarms
        BY <3>2, <3>3, <1>3 DEF OnePlace
      <4>2. call \in new /\ a \in call.alarms /\ \A other \in new \ {call} : a \notin other.alarms
        BY <4>1, <3>3, <2>1, <1>4
      <4>3. a \notin m.mPq
        BY <3>3, <1>2
      <4> QED BY <4>2, <4>3, <3>1, Zenon DEF OnePlace
    <3>4. CASE a \notin fired /\ a \in mon.mPq
      <4>1. a \in m.mPq /\ \A x \in new : a \notin x.alarms
        BY <3>2, <3>4, <2>1, <1>2, <1>4 DEF OnePlace
      <4> QED BY <4>1, <3>1, Zenon DEF OnePlace
    <3>5. CASE a \notin mon.mPq
      <4>1. PICK x \in calls : a \in x.alarms /\ \A other \in calls \ {x} : a \notin other.alarms
        BY <3>2, <3>5, Zenon DEF OnePlace
      <4>2. a \notin call.alarms
        BY <3>5, <1>3, <1>4
      <4>3. x \in new /\ \A other \in new \ {x} : a \notin other.alarms
        BY <4>1, <4>2, <2>1
      <4>4. a \notin m.mPq
        BY <3>5, <1>2
      <4> QED BY <4>1, <4>3, <4>4, <3>1, Zenon DEF OnePlace
    <3> QED BY <3>3, <3>4, <3>5
  <2> QED BY <1>1, <1>2, <2>2, <2>3, <2>4, Zenon DEF PeriodicOK
<1> QED BY <1>5, <1>6

\* The second half of a call: every alarm of the call has been renewed, so it may go.
LEMMA CallGoesOK ==
  ASSUME NEW mon, NEW ts, NEW calls, PeriodicOK(mon, ts, calls), NEW call \in calls,
         \A c \in Configs : InternalAlarm(ts, c) \notin call.alarms \/ ~ts[c].alive
  PROVE  PeriodicOK(mon, ts, calls \ {call})
<1>1. /\ MonOK(mon) /\ TrackersOK(ts) /\ Queued(mon.mPq, ts) /\ CallsOK(calls, ts)
      /\ \A d \in Configs : ts[d].alive => OnePlace(InternalAlarm(ts, d), mon.mPq, calls)
  BY Zenon DEF PeriodicOK
<1>2. CallsOK(calls \ {call}, ts)
  BY <1>1 DEF CallsOK
<1>3. ASSUME NEW d \in Configs, ts[d].alive PROVE OnePlace(InternalAlarm(ts, d), mon.mPq, calls \ {call})
  <2>1. PICK a : a = InternalAlarm(ts, d)
    OBVIOUS
  <2>2. OnePlace(a, mon.mPq, calls) /\ a \notin call.alarms
    BY <1>1, <1>3, <2>1
  <2>3. CASE a \in mon.mPq
    BY <2>1, <2>2, <2>3 DEF OnePlace
  <2>4. CASE a \notin mon.mPq
    <3>1. PICK x \in calls : a \in x.alarms /\ \A other \in calls \ {x} : a \notin other.alarms
      BY <2>2, <2>4, Zenon DEF OnePlace
    <3>2. x \in calls \ {call} /\ \A other \in (calls \ {call}) \ {x} : a \notin other.alarms
      BY <3>1, <2>2
    <3> QED BY <3>1, <3>2, <2>1, <2>4, Zenon DEF OnePlace
  <2> QED BY <2>3, <2>4
<1> QED BY <1>1, <1>2, <1>3, Zenon DEF PeriodicOK

\* The values that handlers work on, and the one they leave.
LEMMA PeriodicValues ==
  /\ PeriodicNow.mon = pMonitor /\ PeriodicNow.trackers = trackers
  /\ \A s : PeriodicBecomes(s) => pMonitor' = s.mon /\ trackers' = s.trackers
  BY DEF PeriodicNow, PeriodicState, PeriodicBecomes

\* A timer that fires, or is lost with the system server, leaves the queue alone.
LEMMA WithoutTimerOK ==
  ASSUME NEW mon, MonOK(mon), NEW linked \in BOOLEAN
  PROVE  /\ MonOK(WithoutTimer(mon, linked)) /\ WithoutTimer(mon, linked).mPq = mon.mPq
         /\ WithoutTimer(mon, linked).linked = linked
<1> DEFINE new == WithoutTimer(mon, linked)
<1>1. PICK timer \in Nat : timer = 0
  OBVIOUS
<1>2. new = [mPq |-> mon.mPq, mRegisteredAlarmTimeSec |-> mon.mRegisteredAlarmTimeSec,
             timer |-> timer, linked |-> linked]
  BY <1>1 DEF WithoutTimer
<1> HIDE DEF new
<1>3. MonOK(new) /\ new.mPq = mon.mPq /\ new.linked = linked
  BY <1>2, TimerOK
<1> QED BY <1>3 DEF new

\* Every step keeps the invariant.
LEMMA PeriodicStepOK == PeriodicInv /\ [PeriodicNext]_pVars => PeriodicInv'
<1> SUFFICES ASSUME PeriodicInv, [PeriodicNext]_pVars PROVE PeriodicInv'
  OBVIOUS
<1> USE DEF PeriodicInv
<1>0. MonOK(pMonitor) /\ pMonitor.linked \in BOOLEAN
  BY Zenon DEF PeriodicOK, MonOK
<1>1. ASSUME NEW c \in Configs, OnConfigUpdated(c) PROVE PeriodicInv'
  <2>1. PeriodicBecomes(Updated(PeriodicNow, c)) /\ UNCHANGED <<informs, popped, companion, pNow>>
    BY <1>1 DEF OnConfigUpdated
  <2>2. PICK s : s = PeriodicNow
    OBVIOUS
  <2>3. PeriodicOK(s.mon, s.trackers, popped) /\ s.mon = pMonitor
    BY <2>2, PeriodicValues, Zenon
  <2>4. PICK x : x = Updated(s, c)
    OBVIOUS
  <2>5. PeriodicOK(x.mon, x.trackers, popped) /\ x.mon.linked = s.mon.linked
    BY <2>3, <2>4, UpdatedOK
  <2>6. pMonitor' = x.mon /\ trackers' = x.trackers
    BY <2>1, <2>2, <2>4, PeriodicValues, Zenon
  <2> QED BY <2>1, <2>3, <2>5, <2>6, Zenon
<1>2. ASSUME NEW c \in Configs, OnConfigRemoved(c) PROVE PeriodicInv'
  <2>1. /\ trackers[c].alive /\ pMonitor' = removeAlarm(pMonitor, InternalAlarm(trackers, c))
        /\ trackers' = [trackers EXCEPT ![c] = NoTracker(trackers[c].gen)]
        /\ UNCHANGED <<informs, popped, companion, pNow>>
    BY <1>2 DEF OnConfigRemoved
  <2>2. PeriodicOK(pMonitor', trackers', popped) /\ pMonitor'.linked = pMonitor.linked
    <3>1. /\ PeriodicOK(removeAlarm(pMonitor, InternalAlarm(trackers, c)), WithoutTracker(trackers, c), popped)
          /\ removeAlarm(pMonitor, InternalAlarm(trackers, c)).linked = pMonitor.linked
      BY RemovedOK, Zenon
    <3> QED BY <2>1, <3>1, Zenon DEF WithoutTracker
  <2> QED BY <2>1, <2>2, Zenon
<1>3. CASE onAlarm
  <2>1. /\ pMonitor' = WithoutTimer(pMonitor, pMonitor.linked) /\ informs' = informs + 1
        /\ UNCHANGED <<trackers, popped, companion, pNow>>
    BY <1>3 DEF onAlarm
  <2>2. MonOK(pMonitor') /\ pMonitor'.mPq = pMonitor.mPq /\ pMonitor'.linked = pMonitor.linked
    BY <2>1, <1>0, WithoutTimerOK
  <2>3. PeriodicOK(pMonitor', trackers, popped)
    BY <2>2, SameQueueOK
  <2>4. informs' \in Nat
    BY <2>1
  <2> QED BY <2>1, <2>2, <2>3, <2>4, Zenon
<1>4. CASE informAlarmForSubscriberTriggeringFired
  <2>1. /\ informs > 0 /\ informs' = informs - 1
        /\ popped' = IF SoonerThan(pMonitor, pNow) = {} THEN popped
                     ELSE popped \union {[at |-> pNow, alarms |-> SoonerThan(pMonitor, pNow)]}
        /\ pMonitor' = popSoonerThan(pMonitor, pNow)
        /\ UNCHANGED <<trackers, companion, pNow>>
    BY <1>4 DEF informAlarmForSubscriberTriggeringFired
  <2>2. PeriodicOK(pMonitor', trackers, popped') /\ pMonitor'.linked = pMonitor.linked
    BY <2>1, PoppedOK
  <2>3. informs' \in Nat
    BY <2>1
  <2> QED BY <2>1, <2>2, <2>3, Zenon
<1>5. ASSUME NEW call \in popped, onPeriodicAlarmFired(call) PROVE PeriodicInv'
  <2>1. /\ popped' = popped \ {call} /\ PeriodicBecomes(InformedAll(PeriodicNow, call))
        /\ UNCHANGED <<informs, companion, pNow>>
    BY <1>5 DEF onPeriodicAlarmFired
  <2>2. PICK s : s = PeriodicNow
    OBVIOUS
  <2>3. PeriodicOK(s.mon, s.trackers, popped) /\ s.mon = pMonitor
    BY <2>2, PeriodicValues, Zenon
  <2>4. PICK x : x = InformedAll(s, call)
    OBVIOUS
  <2>5. LoopOK(TRUE, call, popped, s, x, Configs)
    BY <2>3, <2>4, InformedAllOK
  <2>6. /\ PeriodicOK(x.mon, x.trackers, popped) /\ x.mon.linked = s.mon.linked
        /\ \A c \in Configs : InternalAlarm(x.trackers, c) \notin call.alarms \/ ~x.trackers[c].alive
    BY <2>5, Zenon DEF LoopOK
  <2>7. PeriodicOK(x.mon, x.trackers, popped \ {call})
    BY <2>6, CallGoesOK, Zenon
  <2>8. pMonitor' = x.mon /\ trackers' = x.trackers
    BY <2>1, <2>2, <2>4, PeriodicValues, Zenon
  <2> QED BY <2>1, <2>3, <2>6, <2>7, <2>8, Zenon
<1>6. CASE SystemServerDies
  <2>1. /\ companion' = "dead" /\ pMonitor' = WithoutTimer(pMonitor, FALSE) /\ informs' = 0
        /\ UNCHANGED <<trackers, popped, pNow>>
    BY <1>6 DEF SystemServerDies
  <2>2. MonOK(pMonitor') /\ pMonitor'.mPq = pMonitor.mPq /\ pMonitor'.linked = FALSE
    BY <2>1, <1>0, WithoutTimerOK
  <2>3. PeriodicOK(pMonitor', trackers, popped)
    BY <2>2, SameQueueOK
  <2>4. pMonitor'.linked = (companion' = "up")
    BY <2>1, <2>2
  <2> QED BY <2>1, <2>3, <2>4
<1>7. ASSUME NEW readable \in SUBSET Configs, statsCompanionServiceDied(readable) PROVE PeriodicInv'
  <2> DEFINE cs == {c \in readable : trackers[c].alive}
  <2>1. /\ companion' = "gone" /\ UNCHANGED <<informs, popped, pNow>>
        /\ pMonitor' = setStatsCompanionService(UpdatedAll(PeriodicNow, cs).mon, FALSE)
        /\ trackers' = UpdatedAll(PeriodicNow, cs).trackers
    <3>1. PeriodicBecomes(PeriodicState(setStatsCompanionService(UpdatedAll(PeriodicNow, cs).mon, FALSE),
                                        UpdatedAll(PeriodicNow, cs).trackers))
      BY <1>7, Zenon DEF statsCompanionServiceDied
    <3>2. companion' = "gone" /\ UNCHANGED <<informs, popped, pNow>>
      BY <1>7 DEF statsCompanionServiceDied
    <3> HIDE DEF cs
    <3>3. \A m, ts : PeriodicState(m, ts).mon = m /\ PeriodicState(m, ts).trackers = ts
      BY DEF PeriodicState
    <3>4. PICK m, ts : /\ m = setStatsCompanionService(UpdatedAll(PeriodicNow, cs).mon, FALSE)
                       /\ ts = UpdatedAll(PeriodicNow, cs).trackers
      OBVIOUS
    <3>5. pMonitor' = PeriodicState(m, ts).mon /\ trackers' = PeriodicState(m, ts).trackers
      BY <3>1, <3>4, PeriodicValues, Zenon
    <3>6. pMonitor' = m /\ trackers' = ts
      BY <3>3, <3>5, Zenon
    <3> QED BY <3>2, <3>4, <3>6
  <2>2. cs \in SUBSET Configs
    OBVIOUS
  <2> HIDE DEF cs
  <2>3. PICK s : s = PeriodicNow
    OBVIOUS
  <2>4. PeriodicOK(s.mon, s.trackers, popped)
    BY <2>3, PeriodicValues, Zenon
  <2>5. PICK x : x = UpdatedAll(s, cs)
    OBVIOUS
  <2>6. PeriodicOK(x.mon, x.trackers, popped)
    BY <2>2, <2>4, <2>5, UpdatedAllOK
  <2>7. MonOK(x.mon)
    BY <2>6, Zenon DEF PeriodicOK
  <2>8. pMonitor' = setStatsCompanionService(x.mon, FALSE) /\ trackers' = x.trackers
    BY <2>1, <2>3, <2>5, Zenon
  <2>9. MonOK(pMonitor') /\ pMonitor'.mPq = x.mon.mPq /\ pMonitor'.linked = FALSE
    BY <2>7, <2>8, CompanionOK
  <2>10. PeriodicOK(pMonitor', trackers', popped')
    BY <2>1, <2>6, <2>8, <2>9, SameQueueOK, Zenon
  <2>11. pMonitor'.linked = (companion' = "up")
    BY <2>1, <2>9
  <2> QED BY <2>1, <2>10, <2>11
<1>8. CASE periodicCompanionReady
  <2>1. /\ companion' = "up" /\ UNCHANGED <<trackers, informs, popped, pNow>>
        /\ pMonitor' = setStatsCompanionService(WithoutTimer(pMonitor, pMonitor.linked), TRUE)
    BY <1>8 DEF periodicCompanionReady
  <2>2. PICK m : m = WithoutTimer(pMonitor, pMonitor.linked)
    OBVIOUS
  <2>3. MonOK(m) /\ m.mPq = pMonitor.mPq
    BY <2>2, <1>0, WithoutTimerOK
  <2>4. pMonitor' = setStatsCompanionService(m, TRUE)
    BY <2>1, <2>2
  <2>5. MonOK(pMonitor') /\ pMonitor'.mPq = m.mPq /\ pMonitor'.linked = TRUE
    BY <2>3, <2>4, CompanionOK
  <2>6. PeriodicOK(pMonitor', trackers, popped)
    BY <2>3, <2>5, SameQueueOK
  <2>7. pMonitor'.linked = (companion' = "up")
    BY <2>1, <2>5
  <2> QED BY <2>1, <2>6, <2>7
<1>9. CASE PeriodicTick
  <2>1. UNCHANGED <<pMonitor, trackers, informs, popped, companion>>
    BY <1>9 DEF PeriodicTick
  <2>2. pNow' \in Nat
    BY <1>9 DEF PeriodicTick
  <2> QED BY <2>1, <2>2, Zenon
<1>10. CASE UNCHANGED pVars
  <2>1. UNCHANGED <<pMonitor, trackers, informs, popped, companion, pNow>>
    BY <1>10 DEF pVars
  <2> QED BY <2>1, Zenon
<1> QED
  BY <1>1, <1>2, <1>3, <1>4, <1>5, <1>6, <1>7, <1>8, <1>9, <1>10, Zenon DEF PeriodicNext

\* For every set of configs with any offsets and periods, the alarm of a config that is set
\* up is in the monitor or in exactly one call that popped it, whichever config updates,
\* removals and deaths of the system server come between the halves of a call; it was set
\* for the future, and the registered time is near the soonest (AlarmTracker.cpp,
\* AlarmMonitor.cpp, StatsService.cpp).
THEOREM PeriodicAlarmsAreSound == PeriodicSpec => []PeriodicAlarmsSound
  BY PeriodicInvInit, PeriodicInvImplies, PeriodicStepOK, PTL DEF PeriodicSpec
============================================================================
