---------------------------- MODULE LogEventQueue ----------------------------
(***************************************************************************)
(* The way of a pushed atom into statsd and of the news that one was lost: *)
(*   socket/BaseStatsSocketListener.cpp  one thread reads the socket and   *)
(*                                       pushes every event                *)
(*   logd/LogEventQueue.cpp              the bounded queue, a mutex and a  *)
(*                                       condition variable                *)
(*   StatsService.cpp                    readLogs pops events on a thread  *)
(*                                       of its own, stopReadingLogs ends  *)
(*                                       that thread                       *)
(*   guardrail/StatsdStats.cpp           counts the dropped atoms, in a    *)
(*                                       map with a limit                  *)
(*   metrics/MetricsManager.cpp          a report compares the counts with *)
(*                                       the copy kept at the last report  *)
(*                                       and marks metrics as corrupted    *)
(*                                                                         *)
(* A step is what a thread does under one lock; notify_one comes after the *)
(* unlock and is a step of its own.  The reader starts late (Startup), so  *)
(* events queue up before.  An event is a record with its place in the     *)
(* order of arrival (0 for the event that stopReadingLogs pushes) and its  *)
(* atom.  The overflow trace counters of the queue are logging.            *)
(***************************************************************************)
EXTENDS Integers, Sequences, FiniteSets

CONSTANTS
  Atoms,
  mQueueLimit,
  kMaxPushedAtomDroppedStatsSize,
  use_wait_for,        \* flag: waitPop looks again every two seconds
  MaxEvents            \* bound: events that arrive at the socket

ASSUME QueueAssumption ==
  /\ mQueueLimit \in Nat \ {0} /\ kMaxPushedAtomDroppedStatsSize \in Nat
  /\ use_wait_for \in BOOLEAN /\ MaxEvents \in Nat

VARIABLES
  mQueue,
  listener,                  \* the socket thread: [pc, event, success]
  stopper,                   \* the thread in stopReadingLogs
  reader,                    \* the thread in readLogs: [pc, event]
  mIsStopRequested,
  mPushedAtomDropsStats,     \* StatsdStats; 0 is no entry
  mQueueOverflowAtomsStats,  \* the copy of the config's MetricsManager
  sent,                      \* number of events so far
  processed, dropped,        \* history: events given to OnLogEvent, lost
  period,                    \* history: atoms noted as lost since the last
                             \* report or, before the first, since the config
                             \* was added
  report                     \* history: the last report, see processQueueOverflowStats

threads == <<listener, stopper, reader, mIsStopRequested>>
stats == <<mPushedAtomDropsStats, mQueueOverflowAtomsStats, period, report>>
vars == <<mQueue, threads, stats, sent, processed, dropped>>

NoEvent == [id |-> -1, atom |-> "none"]
StopEvent == [id |-> 0, atom |-> "none"]
NoCounts == [a \in Atoms |-> 0]
NoReport == [flagged |-> {}, lost |-> {}, first |-> TRUE]

Init ==
  /\ mQueue = << >>
  /\ listener = [pc |-> "read", event |-> NoEvent, success |-> TRUE]
  /\ stopper = "idle"
  /\ reader = [pc |-> "notStarted", event |-> NoEvent]
  /\ mIsStopRequested = FALSE
  /\ mPushedAtomDropsStats = NoCounts /\ mQueueOverflowAtomsStats = NoCounts
  /\ sent = 0 /\ processed = << >> /\ dropped = {}
  /\ period = [lost |-> {}, first |-> TRUE] /\ report = NoReport

-----------------------------------------------------------------------------
(* Writers. *)

\* The critical section of LogEventQueue::push.
HasRoom == Len(mQueue) < mQueueLimit

Pushed(event) == IF HasRoom THEN Append(mQueue, event) ELSE mQueue

\* The listener reads an event of atom a and pushes it.
processStatsEventBuffer(a) ==
  LET event == [id |-> sent + 1, atom |-> a]
  IN  /\ listener.pc = "read" /\ sent < MaxEvents
      /\ sent' = sent + 1
      /\ mQueue' = Pushed(event)
      /\ listener' = [pc |-> "notify", event |-> event, success |-> HasRoom]
      /\ dropped' = IF HasRoom THEN dropped ELSE dropped \cup {event}
      /\ UNCHANGED <<stopper, reader, mIsStopRequested, stats, processed>>

\* Mutant of Notified: nobody is woken.
NotifiedNobody == reader

\* mCondition.notify_one()
Notified == IF reader.pc = "waiting" THEN [reader EXCEPT !.pc = "waitPop"] ELSE reader

listenerNotify ==
  /\ listener.pc = "notify"
  /\ reader' = Notified
  /\ listener' = IF listener.success
                   THEN [pc |-> "read", event |-> NoEvent, success |-> TRUE]
                   ELSE [listener EXCEPT !.pc = "note"]
  /\ UNCHANGED <<mQueue, stopper, mIsStopRequested, stats, sent, processed, dropped>>

\* The atoms in the map, and the condition of noteAtomDroppedLocked.
Entries == {a \in Atoms : mPushedAtomDropsStats[a] # 0}
Counted(a) == Cardinality(Entries) < kMaxPushedAtomDroppedStatsSize \/ a \in Entries

noteAtomDroppedLocked(a) ==
  mPushedAtomDropsStats' =
    IF Counted(a) THEN [mPushedAtomDropsStats EXCEPT ![a] = @ + 1] ELSE mPushedAtomDropsStats

\* The listener learns of the overflow after push returned.
noteEventQueueOverflow ==
  /\ listener.pc = "note"
  /\ noteAtomDroppedLocked(listener.event.atom)
  /\ period' = [period EXCEPT !.lost = @ \cup {listener.event.atom}]
  /\ listener' = [pc |-> "read", event |-> NoEvent, success |-> TRUE]
  /\ UNCHANGED <<mQueue, stopper, reader, mIsStopRequested, mQueueOverflowAtomsStats, report,
                sent, processed, dropped>>

\* stopReadingLogs, from the destructor: the flag, the push, the notification.
requestStop ==
  /\ stopper = "idle" /\ reader.pc # "notStarted"
  /\ mIsStopRequested' = TRUE /\ stopper' = "push"
  /\ UNCHANGED <<mQueue, listener, reader, stats, sent, processed, dropped>>

pushStopEvent ==
  /\ stopper = "push" /\ stopper' = "notify"
  /\ mQueue' = Pushed(StopEvent)
  /\ UNCHANGED <<listener, reader, mIsStopRequested, stats, sent, processed, dropped>>

stopperNotify ==
  /\ stopper = "notify" /\ stopper' = "done"
  /\ reader' = Notified
  /\ UNCHANGED <<mQueue, listener, mIsStopRequested, stats, sent, processed, dropped>>

-----------------------------------------------------------------------------
(* The reader. *)

Startup ==
  /\ reader.pc = "notStarted"
  /\ reader' = [reader EXCEPT !.pc = "waitPop"]
  /\ UNCHANGED <<mQueue, listener, stopper, mIsStopRequested, stats, sent, processed, dropped>>

\* waitPop with the mutex held: pop, or release it and wait.
waitPop ==
  /\ reader.pc = "waitPop"
  /\ IF mQueue = << >>
       THEN reader' = [reader EXCEPT !.pc = "waiting"] /\ UNCHANGED mQueue
       ELSE /\ reader' = [pc |-> "popped", event |-> Head(mQueue)]
            /\ mQueue' = Tail(mQueue)
  /\ UNCHANGED <<listener, stopper, mIsStopRequested, stats, sent, processed, dropped>>

waitForTimeout ==
  /\ use_wait_for /\ reader.pc = "waiting"
  /\ reader' = [reader EXCEPT !.pc = "waitPop"]
  /\ UNCHANGED <<mQueue, listener, stopper, mIsStopRequested, stats, sent, processed, dropped>>

\* The rest of the loop of readLogs: an event popped after the stop is dropped.
readLogs ==
  /\ reader.pc = "popped"
  /\ IF mIsStopRequested
       THEN /\ reader' = [reader EXCEPT !.pc = "stopped"]
            /\ UNCHANGED processed
       ELSE /\ reader' = [pc |-> "waitPop", event |-> NoEvent]
            /\ processed' = Append(processed, reader.event)
  /\ UNCHANGED <<mQueue, listener, stopper, mIsStopRequested, stats, sent, dropped>>

-----------------------------------------------------------------------------
(* Reports. *)

\* The atoms whose count moved since the copy was taken.
NewlyLost == {a \in Atoms : mPushedAtomDropsStats[a] # 0
                              /\ mQueueOverflowAtomsStats[a] # mPushedAtomDropsStats[a]}

\* What the report is marked for, what it should be marked for, and whether it is
\* the first of its config.
ReportNow == [flagged |-> NewlyLost, lost |-> period.lost, first |-> period.first]

\* Mutant of processQueueOverflowStats: the copy is only taken once.
processQueueOverflowStatsOnce ==
  /\ report' = ReportNow
  /\ mQueueOverflowAtomsStats' =
       IF mQueueOverflowAtomsStats = NoCounts
         THEN mPushedAtomDropsStats ELSE mQueueOverflowAtomsStats

processQueueOverflowStats ==
  /\ report' = ReportNow
  /\ mQueueOverflowAtomsStats' = mPushedAtomDropsStats

\* MetricsManager::onDumpReport, as to data loss.
onDumpReport ==
  /\ processQueueOverflowStats
  /\ period' = [lost |-> {}, first |-> FALSE]
  /\ UNCHANGED <<mQueue, threads, mPushedAtomDropsStats, sent, processed, dropped>>

\* The config is replaced by a new one, whose MetricsManager has no copy yet.
OnConfigAdded ==
  /\ mQueueOverflowAtomsStats' = NoCounts
  /\ period' = [lost |-> {}, first |-> TRUE] /\ report' = NoReport
  /\ UNCHANGED <<mQueue, threads, mPushedAtomDropsStats, sent, processed, dropped>>

Next ==
  \/ \E a \in Atoms : processStatsEventBuffer(a)
  \/ listenerNotify \/ noteEventQueueOverflow
  \/ requestStop \/ pushStopEvent \/ stopperNotify
  \/ Startup \/ waitPop \/ waitForTimeout \/ readLogs
  \/ onDumpReport \/ OnConfigAdded

Spec == Init /\ [][Next]_vars

\* Every thread that can go on does.  Events, reports and the stop need not come.
Fairness ==
  /\ WF_vars(listenerNotify) /\ WF_vars(noteEventQueueOverflow)
  /\ WF_vars(pushStopEvent) /\ WF_vars(stopperNotify)
  /\ WF_vars(Startup) /\ WF_vars(waitPop) /\ WF_vars(readLogs)

LiveSpec == Spec /\ Fairness

-----------------------------------------------------------------------------
TypeOK ==
  /\ mQueue \in Seq([id : 0 .. MaxEvents, atom : Atoms \cup {"none"}])
  /\ Len(mQueue) <= mQueueLimit
  /\ listener.pc \in {"read", "notify", "note"}
  /\ stopper \in {"idle", "push", "notify", "done"}
  /\ reader.pc \in {"notStarted", "waitPop", "waiting", "popped", "stopped"}
  /\ mPushedAtomDropsStats \in [Atoms -> Nat] /\ mQueueOverflowAtomsStats \in [Atoms -> Nat]

InHand == IF reader.pc \in {"popped", "stopped"} THEN <<reader.event>> ELSE << >>

\* What the queue took, in the order in which it leaves.
Taken == processed \o InHand \o mQueue
TakenIds == {Taken[i].id : i \in DOMAIN Taken}
DroppedIds == {e.id : e \in dropped}

\* Every event that arrived is processed, in the reader's hand, queued or was
\* dropped because the queue was full; none is processed twice, and they are
\* processed in the order they arrived.
EventsConserved ==
  /\ (TakenIds \ {StopEvent.id}) \cup DroppedIds = 1 .. sent
  /\ TakenIds \cap DroppedIds = {}
  /\ \A i, j \in DOMAIN Taken :
       i < j /\ Taken[j].id # StopEvent.id => Taken[i].id < Taken[j].id
  /\ \A d, e \in dropped : d.id = e.id => d = e

\* Each event lost to a full queue is counted for its atom, but for the one the
\* listener is about to note, and but for the atoms that find the map full: of
\* them no loss is ever counted.
LossesCounted ==
  /\ Cardinality(Entries) <= kMaxPushedAtomDroppedStatsSize
  /\ \A a \in Atoms : Counted(a) =>
       Cardinality({e \in dropped : e.atom = a})
         = mPushedAtomDropsStats[a]
             + (IF ~listener.success /\ listener.event.atom = a THEN 1 ELSE 0)

\* A loss marks the next report of a config, whenever the listener gets to note it,
\* unless its atom found the map full, and a report after the first one is marked
\* only for losses since the one before.
LossesReported ==
  /\ \A a \in report.lost : Counted(a) => a \in report.flagged
  /\ ~report.first => report.flagged \subseteq report.lost

\* No wake-up is lost: what is in the queue is taken out, also without the
\* timeout of waitPop.
QueueDrains == mQueue # << >> ~> mQueue = << >> \/ reader.pc = "stopped"

\* StatsService.cpp: the event that stopReadingLogs pushes makes readLogs break
\* out of its loop, also when the queue is full and the push fails.
ReaderStops == mIsStopRequested ~> reader.pc = "stopped"

\* A pushed event is processed once and in order or counted as lost, and a counted
\* loss marks the next report; the losses of an atom go uncounted only when the map
\* of counts is full of others.
EventsAccounted == TypeOK /\ EventsConserved /\ LossesCounted /\ LossesReported
=============================================================================
