---------------------------- MODULE PullManager ----------------------------
(***************************************************************************)
(* The pulled half of statsd:                                              *)
(*   external/StatsPullerManager.cpp   receivers with their next pull      *)
(*                                     times, one alarm for all of them,   *)
(*                                     and the threads that pull for it    *)
(*   external/StatsPuller.cpp          the cache with its cool-down        *)
(*   external/StatsCallbackPuller.cpp  the question to the client, its     *)
(*                                     answer on a binder thread, the      *)
(*                                     timeout                             *)
(*                                                                         *)
(* mLock of the manager is held for the whole of OnAlarmFired and of Pull, *)
(* so every other call waits for mLockHolder to be nobody; the threads of  *)
(* an alarm share only the queues and the locks of the pullers.  A         *)
(* receiver is a metric producer; its destructor unregisters it, under the *)
(* mutex of StatsLogProcessor that the alarm also takes, so a registered   *)
(* receiver is never gone.  One uid may answer for an atom.                *)
(*                                                                         *)
(* What a client answers is the number of the question.  An answer after   *)
(* the wait goes to variables nobody reads any more: no step of the model. *)
(***************************************************************************)
EXTENDS Integers, Sequences, FiniteSets, FiniteSetsExt, SequencesExt

CONSTANTS
  Tags,              \* pulled atoms
  Receivers,         \* [name -> [tag, config]]
  PULLER_THREAD_COUNT,
  PullMinute,        \* one minute, the step of the alarm manager
  Intervals,         \* bucket sizes to register with
  CoolDowns, kMinCoolDownNs,
  PullMaxTime, PullMaxCalls  \* bounds

R == DOMAIN Receivers
NO_ALARM_UPDATE == 1000000

\* Rounded down to minutes, at least one.
RoundedInterval(interval) == Max({(interval \div PullMinute) * PullMinute, PullMinute})

\* All times are below NO_ALARM_UPDATE, which is INT64_MAX.
ASSUME PullAssumption ==
  /\ IsFiniteSet(R) /\ \A r \in R : Receivers[r].tag \in Tags
  /\ PULLER_THREAD_COUNT \in Nat \ {0} /\ PullMinute \in Nat \ {0}
  /\ Intervals \subseteq Nat /\ CoolDowns \subseteq Nat /\ kMinCoolDownNs \in Nat
  /\ PullMaxTime \in Nat \ {0} /\ PullMaxCalls \in Nat
  /\ \A interval \in Intervals : PullMaxTime + (RoundedInterval(interval) + 2) < NO_ALARM_UPDATE

VARIABLES
  pNow,
  mLockHolder,        \* "nobody", "alarm" (OnAlarmFired) or "direct" (Pull)
  eventTimeNs,        \* the time that the holder pulls for
  mReceivers, mNextPullTimeNs, mPullUidProviders,
  mAllPullAtomInfo,   \* tags with a puller; one that is erased lives on in the queue
  pullers,            \* per tag the StatsPuller
  companion,          \* StatsCompanionService: is it there, and its alarm
  minNextPullTimeNs, pullerQueue, pulledData, pendingThreads,   \* of OnAlarmFired
  pullPc, task, wait, result,  \* the threads, and the one that calls Pull: what each
                               \* pulls, the question it waits for, what came of it
  questions,          \* history: the questions asked so far, in order
  told, due, before,  \* history: of the last alarm, and the number of questions before it
  pCalls

registerVars == <<mReceivers, mNextPullTimeNs, mPullUidProviders>>
alarmVars == <<minNextPullTimeNs, pullerQueue, pulledData, pendingThreads, told, due, before>>
threadVars == <<pullPc, task, wait, result>>
pullVars == <<pNow, mLockHolder, eventTimeNs, registerVars, mAllPullAtomInfo, pullers, companion,
              alarmVars, threadVars, questions, pCalls>>

Caller == 0
PullThreads == 1 .. PULLER_THREAD_COUNT
AllThreads == PullThreads \union {Caller}
NoData == 0
Configs == {Receivers[r].config : r \in R}

Receiver(next, interval) == [next |-> next, interval |-> interval]
Companion(up, alarm) == [up |-> up, alarm |-> alarm]
Puller(coolDown, lastPull, lastEvent, good, data) ==
  [coolDown |-> coolDown, mLastPullTimeNs |-> lastPull, mLastEventTimeNs |-> lastEvent,
   mHasGoodData |-> good, mCachedData |-> data]
Task(tag, receivers) == [tag |-> tag, receivers |-> receivers]
Wait(question, answer) == [question |-> question, answer |-> answer]
Result(code, data, asOf) == [code |-> code, data |-> data, asOf |-> asOf]
Pulled(what, outcome) == [what |-> what, outcome |-> outcome]
Question(tag, at, event, inTime) == [tag |-> tag, at |-> at, event |-> event, inTime |-> inTime]

NoTask == Task("none", {})
NotWaiting == Wait(0, "none")
NoResult == Result("none", NoData, 0)

\* A StatsPuller that was never asked.  The times start at 0, the boot.
NewPuller(coolDown) == Puller(Max({coolDown, kMinCoolDownNs}), 0, 0, FALSE, NoData)

PullInit ==
  /\ pNow = 1 /\ pCalls = 0 /\ questions = << >>
  /\ mLockHolder = "nobody" /\ eventTimeNs = 0
  /\ mReceivers = [r \in {} |-> Receiver(0, 0)] /\ mNextPullTimeNs = NO_ALARM_UPDATE
  /\ mPullUidProviders = Configs
  /\ mAllPullAtomInfo = Tags /\ pullers = [t \in Tags |-> NewPuller(kMinCoolDownNs)]
  /\ companion = Companion(TRUE, NO_ALARM_UPDATE)
  /\ minNextPullTimeNs = NO_ALARM_UPDATE /\ pullerQueue = << >> /\ pulledData = << >>
  /\ pendingThreads = 0 /\ told = [r \in R |-> 0] /\ due = {} /\ before = 0
  /\ pullPc = [w \in AllThreads |-> "off"] /\ task = [w \in AllThreads |-> NoTask]
  /\ wait = [w \in AllThreads |-> NotWaiting] /\ result = [w \in AllThreads |-> NoResult]

PullTick ==
  /\ pNow < PullMaxTime /\ pNow' = pNow + 1
  /\ UNCHANGED <<mLockHolder, eventTimeNs, registerVars, mAllPullAtomInfo, pullers, companion,
                 alarmVars, threadVars, questions, pCalls>>

\* A call that takes mLock for a moment.
PullCall ==
  /\ mLockHolder = "nobody" /\ pCalls < PullMaxCalls /\ pCalls' = pCalls + 1
  /\ UNCHANGED <<pNow, mLockHolder, eventTimeNs, alarmVars, threadVars, questions>>

-----------------------------------------------------------------------------
(* The alarm *)

\* updateAlarmLocked
AlarmAt(c, next) == IF c.up /\ next # NO_ALARM_UPDATE THEN Companion(TRUE, next) ELSE c

CompanionIs(up) == AlarmAt(Companion(up, NO_ALARM_UPDATE), mNextPullTimeNs)

\* SetStatsCompanionService, with nullptr when the companion has died.
SetStatsCompanionService ==
  /\ PullCall /\ companion' = CompanionIs(~companion.up)
  /\ UNCHANGED <<registerVars, mAllPullAtomInfo, pullers>>

RegisterReceiver(r) ==
  /\ r \notin DOMAIN mReceivers /\ PullCall
  /\ \E interval \in Intervals, next \in {pNow + 1, pNow + 2} :
       /\ mReceivers' = [s \in DOMAIN mReceivers \union {r} |->
            IF s = r THEN Receiver(next, RoundedInterval(interval)) ELSE mReceivers[s]]
       /\ IF next < mNextPullTimeNs
            THEN mNextPullTimeNs' = next /\ companion' = AlarmAt(companion, next)
          ELSE UNCHANGED <<mNextPullTimeNs, companion>>
  /\ UNCHANGED <<mPullUidProviders, mAllPullAtomInfo, pullers>>

\* The alarm stays as it is.
UnRegisterReceiver(r) ==
  /\ r \in DOMAIN mReceivers /\ PullCall
  /\ mReceivers' = [s \in DOMAIN mReceivers \ {r} |-> mReceivers[s]]
  /\ UNCHANGED <<mNextPullTimeNs, mPullUidProviders, mAllPullAtomInfo, pullers, companion>>

\* RegisterPullUidProvider, UnregisterPullUidProvider
ChangeProvider(config) ==
  /\ PullCall
  /\ mPullUidProviders' = IF config \in mPullUidProviders THEN mPullUidProviders \ {config}
                          ELSE mPullUidProviders \union {config}
  /\ UNCHANGED <<mReceivers, mNextPullTimeNs, mAllPullAtomInfo, pullers, companion>>

RegisterPullAtomCallback(tag) ==
  /\ \E coolDown \in CoolDowns : pullers' = [pullers EXCEPT ![tag] = NewPuller(coolDown)]
  /\ mAllPullAtomInfo' = mAllPullAtomInfo \union {tag}

UnregisterPullAtomCallback(tag) ==
  /\ tag \in mAllPullAtomInfo /\ mAllPullAtomInfo' = mAllPullAtomInfo \ {tag}
  /\ UNCHANGED pullers

\* registerPullAtomCallback and registerNativePullAtomCallback, by who has the permission
registerPullAtomCallback(tag) ==
  PullCall /\ RegisterPullAtomCallback(tag) /\ UNCHANGED <<registerVars, companion>>

unregisterPullAtomCallback(tag) ==
  PullCall /\ UnregisterPullAtomCallback(tag) /\ UNCHANGED <<registerVars, companion>>

-----------------------------------------------------------------------------
(* Caches *)

\* clearCacheLocked leaves mHasGoodData as it is.
Cleared(p) == Puller(p.coolDown, 0, 0, p.mHasGoodData, NoData)

ForceClearPullerCache ==
  /\ PullCall
  /\ pullers' = [t \in Tags |-> IF t \in mAllPullAtomInfo THEN Cleared(pullers[t]) ELSE pullers[t]]
  /\ UNCHANGED <<registerVars, mAllPullAtomInfo, companion>>

ClearPullerCacheIfNecessary ==
  /\ PullCall
  /\ pullers' = [t \in Tags |->
       IF t \in mAllPullAtomInfo /\ pNow - pullers[t].mLastPullTimeNs > pullers[t].coolDown
         THEN Cleared(pullers[t]) ELSE pullers[t]]
  /\ UNCHANGED <<registerVars, mAllPullAtomInfo, companion>>

\* Mutant: the cool-down alone decides.
CacheByCoolDownOnly(p, event) == pNow - p.mLastPullTimeNs < p.coolDown

shouldUseCache(p, event) ==
  p.mLastEventTimeNs = event \/ pNow - p.mLastPullTimeNs < p.coolDown

-----------------------------------------------------------------------------
(* A pull by thread w: StatsPuller::Pull and StatsCallbackPuller::PullInternal *)

\* mLock of the puller is held while its client is waited for.
Locked(tag) == \E v \in AllThreads : pullPc[v] = "wait" /\ task[v].tag = tag

Returns(w, code, data) ==
  /\ pullPc' = [pullPc EXCEPT ![w] = "push"]
  /\ result' = [result EXCEPT ![w] = Result(code, data, pNow)]

\* The call to the client: it is asked, or the call fails, because the client is dead
\* or otherwise.
AskClient(w, tag) ==
  /\ questions' = Append(questions, Question(tag, pNow, eventTimeNs, FALSE))
  /\ pullers' = [pullers EXCEPT ![tag] = Puller(pullers[tag].coolDown, pNow, eventTimeNs, FALSE, NoData)]
  /\ \/ /\ pullPc' = [pullPc EXCEPT ![w] = "wait"]
        /\ wait' = [wait EXCEPT ![w] = Wait(Len(questions) + 1, "none")] /\ UNCHANGED result
     \/ (\E code \in {"FAIL", "DEAD_OBJECT"} : Returns(w, code, NoData)) /\ UNCHANGED wait

UseCache(w, p) ==
  /\ Returns(w, IF p.mHasGoodData THEN "SUCCESS" ELSE "FAIL", p.mCachedData)
  /\ UNCHANGED <<pullers, questions, wait>>

\* The lock of the puller, the cache, the question.
PullBegin(w) ==
  LET tag == task[w].tag
  IN  /\ pullPc[w] = "pull" /\ ~Locked(tag)
      /\ \/ shouldUseCache(pullers[tag], eventTimeNs) /\ UseCache(w, pullers[tag])
         \/ ~shouldUseCache(pullers[tag], eventTimeNs) /\ AskClient(w, tag)
      /\ UNCHANGED <<pNow, mLockHolder, eventTimeNs, registerVars, mAllPullAtomInfo, companion,
                     alarmVars, task, pCalls>>

\* The client answers the question that is waited for.
Answer(w) ==
  /\ pullPc[w] = "wait" /\ wait[w].answer = "none"
  /\ \E answer \in {"success", "failure"} :
       wait' = [wait EXCEPT ![w] = Wait(wait[w].question, answer)]
  /\ UNCHANGED <<pNow, mLockHolder, eventTimeNs, registerVars, mAllPullAtomInfo, pullers, companion,
                 alarmVars, pullPc, task, result, questions, pCalls>>

DataGood(answer, late) == answer = "success" /\ ~late

\* The wait ends with the answer or by the timeout; in both cases the pull as a
\* whole may have taken longer than the timeout.
PullEnd(w, late) ==
  LET tag == task[w].tag
      p == pullers[tag]
      n == wait[w].question
      data == IF DataGood(wait[w].answer, late) THEN n ELSE NoData
  IN  /\ pullPc[w] = "wait" /\ (wait[w].answer # "none" \/ late)
      /\ pullers' = [pullers EXCEPT ![tag] =
           Puller(p.coolDown, p.mLastPullTimeNs, p.mLastEventTimeNs, data # NoData, data)]
      /\ questions' = [questions EXCEPT ![n] =
           Question(questions[n].tag, questions[n].at, questions[n].event,
                    wait[w].answer = "success" /\ ~late)]
      /\ Returns(w, IF data # NoData THEN "SUCCESS" ELSE "FAIL", data)
      /\ wait' = [wait EXCEPT ![w] = NotWaiting]
      /\ UNCHANGED <<pNow, mLockHolder, eventTimeNs, registerVars, mAllPullAtomInfo, companion,
                     alarmVars, task, pCalls>>

\* Pull by a producer, for an event of the time given.
DirectPull(tag) ==
  /\ mLockHolder = "nobody" /\ pCalls < PullMaxCalls /\ pCalls' = pCalls + 1
  /\ tag \in mAllPullAtomInfo /\ mLockHolder' = "direct" /\ eventTimeNs' \in {pNow, pNow - 1}
  /\ pullPc' = [pullPc EXCEPT ![Caller] = "pull"]
  /\ task' = [task EXCEPT ![Caller] = Task(tag, {})]
  /\ UNCHANGED <<pNow, registerVars, mAllPullAtomInfo, pullers, companion, alarmVars, wait, result,
                 questions>>

\* A dead client's puller goes.
Erased(code, tag) == IF code = "DEAD_OBJECT" THEN mAllPullAtomInfo \ {tag} ELSE mAllPullAtomInfo

DirectPullReturns ==
  /\ mLockHolder = "direct" /\ pullPc[Caller] = "push"
  /\ mLockHolder' = "nobody"
  /\ mAllPullAtomInfo' = Erased(result[Caller].code, task[Caller].tag)
  /\ pullPc' = [pullPc EXCEPT ![Caller] = "off"] /\ task' = [task EXCEPT ![Caller] = NoTask]
  /\ result' = [result EXCEPT ![Caller] = NoResult]
  /\ UNCHANGED <<pNow, eventTimeNs, registerVars, pullers, companion, alarmVars, wait, questions, pCalls>>

-----------------------------------------------------------------------------
(* OnAlarmFired *)

DueAt(t) == {r \in DOMAIN mReceivers : mReceivers[r].next <= t}

\* The next time on the receiver's own grid after t.
NextAfter(info, t) ==
  Receiver(info.next + ((t - info.next) \div info.interval + 1) * info.interval, info.interval)

\* mReceivers when those in a set were told at time t.
PutOff(receivers, t) ==
  [r \in DOMAIN mReceivers |-> IF r \in receivers THEN NextAfter(mReceivers[r], t) ELSE mReceivers[r]]

GroupOf(needed, r) == {s \in needed : Receivers[s] = Receivers[r]}
FoundPuller(r) ==
  Receivers[r].config \in mPullUidProviders /\ Receivers[r].tag \in mAllPullAtomInfo

\* Groups without a uid provider or without a puller: they are told of a failure.
FailedGroups(groups) == {s \in groups : \A r \in s : ~FoundPuller(r)}

\* The earliest next time of the receivers that are not pulled for.
MinOfRest(receivers, needed) ==
  Min({NO_ALARM_UPDATE} \union {receivers[r].next : r \in DOMAIN receivers \ needed})

TagOfGroup(s) == Receivers[CHOOSE r \in s : TRUE].tag

\* initPullerQueue: groups with a puller are queued, the others have failed already;
\* receivers that are due and need no pull are told so at once.
initPullerQueue(needed) ==
  LET groups == {GroupOf(needed, r) : r \in needed}
      found == SetToSeq(groups \ FailedGroups(groups))
      failed == SetToSeq(FailedGroups(groups))
  IN  /\ pullerQueue' = [i \in DOMAIN found |-> Task(TagOfGroup(found[i]), found[i])]
      /\ pulledData' = [i \in DOMAIN failed |->
           Pulled(Task("none", failed[i]), Result("FAIL", NoData, pNow))]
      /\ mReceivers' = PutOff(DueAt(pNow) \ needed, pNow)
      /\ minNextPullTimeNs' = MinOfRest(mReceivers', needed)
      /\ told' = [r \in R |-> IF r \in DueAt(pNow) \ needed THEN 1 ELSE 0]
      /\ due' = DueAt(pNow)

\* The alarm fires, and the threads are started.
OnAlarmFired(needed) ==
  /\ companion.up /\ companion.alarm <= pNow /\ mLockHolder = "nobody"
  /\ needed \subseteq DueAt(pNow)
  /\ companion' = Companion(TRUE, NO_ALARM_UPDATE)
  /\ mLockHolder' = "alarm" /\ eventTimeNs' = pNow /\ before' = Len(questions)
  /\ initPullerQueue(needed)
  /\ pendingThreads' = Min({Len(pullerQueue'), PULLER_THREAD_COUNT})
  /\ pullPc' = [w \in AllThreads |-> IF w \in 1 .. pendingThreads' THEN "pop" ELSE pullPc[w]]
  /\ UNCHANGED <<pNow, mNextPullTimeNs, mPullUidProviders, mAllPullAtomInfo, pullers, task, wait,
                 result, questions, pCalls>>

\* processPullerQueue: pop, pull, push, and at the end count down.
WorkerPop(w) ==
  /\ pullPc[w] = "pop"
  /\ \/ /\ pullerQueue = << >> /\ pullPc' = [pullPc EXCEPT ![w] = "exit"]
        /\ UNCHANGED <<pullerQueue, task>>
     \/ /\ pullerQueue # << >> /\ pullPc' = [pullPc EXCEPT ![w] = "pull"]
        /\ task' = [task EXCEPT ![w] = Head(pullerQueue)] /\ pullerQueue' = Tail(pullerQueue)
  /\ UNCHANGED <<pNow, mLockHolder, eventTimeNs, registerVars, mAllPullAtomInfo, pullers, companion,
                 minNextPullTimeNs, pulledData, pendingThreads, told, due, before,
                 wait, result, questions, pCalls>>

WorkerPush(w) ==
  /\ w # Caller /\ pullPc[w] = "push"
  /\ pulledData' = Append(pulledData, Pulled(task[w], result[w]))
  /\ pullPc' = [pullPc EXCEPT ![w] = "pop"] /\ task' = [task EXCEPT ![w] = NoTask]
  /\ result' = [result EXCEPT ![w] = NoResult]
  /\ UNCHANGED <<pNow, mLockHolder, eventTimeNs, registerVars, mAllPullAtomInfo, pullers, companion,
                 minNextPullTimeNs, pullerQueue, pendingThreads, told, due, before,
                 wait, questions, pCalls>>

WorkerExit(w) ==
  /\ pullPc[w] = "exit" /\ pullPc' = [pullPc EXCEPT ![w] = "off"]
  /\ pendingThreads' = pendingThreads - 1
  /\ UNCHANGED <<pNow, mLockHolder, eventTimeNs, registerVars, mAllPullAtomInfo, pullers, companion,
                 minNextPullTimeNs, pullerQueue, pulledData, told, due, before,
                 task, wait, result, questions, pCalls>>

\* The main thread tells the receivers of one result.
ProcessPulled ==
  LET info == Head(pulledData)
      receivers == info.what.receivers
  IN  /\ mLockHolder = "alarm" /\ pulledData # << >> /\ pulledData' = Tail(pulledData)
      /\ mReceivers' = PutOff(receivers, eventTimeNs)
      /\ told' = [r \in R |-> IF r \in receivers THEN told[r] + 1 ELSE told[r]]
      /\ minNextPullTimeNs' = Min({minNextPullTimeNs} \union {mReceivers'[r].next : r \in receivers})
      /\ mAllPullAtomInfo' = Erased(info.outcome.code, info.what.tag)
      /\ UNCHANGED <<pNow, mLockHolder, eventTimeNs, mNextPullTimeNs, mPullUidProviders, pullers,
                     companion, pullerQueue, pendingThreads, due, before, threadVars, questions, pCalls>>

LoopEnds == pendingThreads = 0 /\ pulledData = << >>

AlarmEnds ==
  /\ mLockHolder = "alarm" /\ LoopEnds
  /\ mLockHolder' = "nobody" /\ mNextPullTimeNs' = minNextPullTimeNs
  /\ pullerQueue' = << >> /\ minNextPullTimeNs' = NO_ALARM_UPDATE
  /\ companion' = AlarmAt(companion, minNextPullTimeNs)
  /\ UNCHANGED <<pNow, eventTimeNs, mReceivers, mPullUidProviders, mAllPullAtomInfo, pullers,
                 pulledData, pendingThreads, told, due, before, threadVars, questions, pCalls>>

WorkerStep(w) ==
  PullBegin(w) \/ PullEnd(w, TRUE) \/ PullEnd(w, FALSE) \/ WorkerPop(w) \/ WorkerPush(w) \/ WorkerExit(w)

MainStep == ProcessPulled \/ AlarmEnds \/ DirectPullReturns

PullNext ==
  \/ PullTick \/ SetStatsCompanionService \/ ForceClearPullerCache \/ ClearPullerCacheIfNecessary
  \/ MainStep
  \/ \E r \in R : RegisterReceiver(r) \/ UnRegisterReceiver(r)
  \/ \E config \in Configs : ChangeProvider(config)
  \/ \E tag \in Tags :
       registerPullAtomCallback(tag) \/ unregisterPullAtomCallback(tag) \/ DirectPull(tag)
  \/ \E needed \in SUBSET DOMAIN mReceivers : OnAlarmFired(needed)
  \/ \E w \in AllThreads : WorkerStep(w) \/ Answer(w)

PullSpec == PullInit /\ [][PullNext]_pullVars

\* Threads run, and a wait ends by its timeout at the latest.
PullFairness ==
  /\ \A w \in AllThreads : WF_pullVars(WorkerStep(w))
  /\ WF_pullVars(MainStep)

-----------------------------------------------------------------------------
\* When no alarm is being handled, every receiver will be pulled in time: the one
\* alarm of statsd, and the companion's while there is one, is no later than the
\* receiver's next pull (the minimum taken over pulled, failed and unneeded ones).
AlarmInTime ==
  mLockHolder # "alarm" => \A r \in DOMAIN mReceivers :
    /\ mNextPullTimeNs <= mReceivers[r].next
    /\ companion.up => companion.alarm <= mReceivers[r].next

\* An alarm tells each receiver that is due once, and no other, however its pull
\* ends: with data, from the cache, by a timeout, or for want of a puller.
ReceiversToldOnce ==
  /\ \A r \in R : told[r] <= IF r \in due THEN 1 ELSE 0
  /\ mLockHolder # "alarm" => \A r \in due : told[r] = 1

Timely(tag, outcome) ==
  outcome.data # NoData =>
    LET q == questions[outcome.data]
    IN  /\ q.tag = tag /\ q.inTime /\ outcome.code = "SUCCESS"
        /\ q.event = eventTimeNs \/ outcome.asOf - q.at < pullers[tag].coolDown

\* Data that a pull returns were answered in time to a question for that atom,
\* asked for the same event or less than the cool-down before.
PulledDataTimely ==
  /\ \A i \in DOMAIN pulledData : Timely(pulledData[i].what.tag, pulledData[i].outcome)
  /\ \A w \in AllThreads : pullPc[w] = "push" => Timely(task[w].tag, result[w])

\* Within one alarm an atom is asked for once, even when several configs pull it on
\* several threads ("we will always use the cache after the first pull").
AskedOncePerAlarm ==
  mLockHolder = "alarm" =>
    \A i, j \in (before + 1) .. Len(questions) : questions[i].tag = questions[j].tag => i = j

\* The handling of an alarm ends, with every thread (the countdown of
\* pendingThreads against the queue of results).
AlarmHandled == mLockHolder = "alarm" ~> mLockHolder = "nobody"

\* One alarm serves all receivers: it is set for the one that is due first, each
\* one that is due is told once, with data that came before the timeout of a pull
\* made at most once for it (OnAlarmFired, StatsPuller::Pull).
PullsSound == AlarmInTime /\ ReceiversToldOnce /\ PulledDataTimely /\ AskedOncePerAlarm
=============================================================================
