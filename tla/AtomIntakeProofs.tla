-------------------------- MODULE AtomIntakeProofs --------------------------
(***************************************************************************)
(* How atoms come in, pushed and pulled.                                   *)
(*                                                                         *)
(* Every pushed event is processed once and in order or counted as lost,   *)
(* and a counted loss marks the next report: for every set of atoms, every *)
(* limit of the queue and any number of events.  The order of events is a  *)
(* statement about the sequence Taken, of which a step of the reader moves *)
(* the places between its three parts and a push extends the end.  The     *)
(* losses are counted by the listener after the event was dropped, so the  *)
(* count is one behind just while the listener has an event that was not   *)
(* pushed.  The map of counts has a limit: an atom that finds it full is   *)
(* never counted later, as the atoms in a full map stay the same.  A       *)
(* report is right because the counts never fall behind the copy of a      *)
(* config, and differ from it just for the atoms counted in its period.    *)
(*                                                                         *)
(* An alarm tells each receiver that is due once, with data that are       *)
(* timely, and sets the next alarm for the first of all receivers: for any *)
(* number of receivers, atoms and threads (the second half).  A receiver   *)
(* that is still to be told is in one place, the queue of tasks, a thread  *)
(* or the queue of results, which are disjoint; the minimum of the next    *)
(* times is over the others; a task in the queue has a thread that will    *)
(* come for it, so an alarm does not end without it.  What is cached or on *)
(* its way names a question that was answered in time, and a question of   *)
(* this alarm is the last one of its puller, which will not ask again.     *)
(***************************************************************************)
EXTENDS LogEventQueue, PullManager, SequenceTheorems, FiniteSetTheorems, WellFoundedInduction, TLAPS

Event == [id : 0 .. MaxEvents, atom : Atoms \cup {"none"}]

TypesInv ==
  /\ mQueue \in Seq(Event) /\ Len(mQueue) <= mQueueLimit
  /\ listener = [pc |-> listener.pc, event |-> listener.event, success |-> listener.success]
  /\ listener.pc \in {"read", "notify", "note"} /\ listener.success \in BOOLEAN
  /\ stopper \in {"idle", "push", "notify", "done"}
  /\ reader = [pc |-> reader.pc, event |-> reader.event]
  /\ reader.pc \in {"notStarted", "waitPop", "waiting", "popped", "stopped"}
  /\ reader.pc \in {"popped", "stopped"} => reader.event \in Event
  /\ mIsStopRequested \in BOOLEAN
  /\ sent \in 0 .. MaxEvents /\ processed \in Seq(Event)
  /\ dropped \subseteq Event

\* The events that were taken and those that were dropped, as EventsConserved has it.
LineOK(line, drop, n) ==
  /\ ({line[i].id : i \in DOMAIN line} \ {0}) \cup {e.id : e \in drop} = 1 .. n
  /\ {line[i].id : i \in DOMAIN line} \cap {e.id : e \in drop} = {}
  /\ \A i, j \in DOMAIN line : i < j /\ line[j].id # 0 => line[i].id < line[j].id
  /\ \A d, e \in drop : d.id = e.id => d = e

LineInv == LineOK(Taken, dropped, sent)

Unnoted(a) == IF ~listener.success /\ listener.event.atom = a THEN 1 ELSE 0
Lost(a) == {e \in dropped : e.atom = a}

CountsInv ==
  /\ mPushedAtomDropsStats \in [Atoms -> Nat] /\ mQueueOverflowAtomsStats \in [Atoms -> Nat]
  /\ IsFiniteSet(dropped)
  /\ listener.pc = "read" => listener.success
  /\ listener.pc = "note" => ~listener.success
  /\ ~listener.success => listener.event.atom \in Atoms
  /\ IsFiniteSet(Entries) /\ Cardinality(Entries) <= kMaxPushedAtomDroppedStatsSize
  /\ \A a \in Atoms : Counted(a) => Cardinality(Lost(a)) = mPushedAtomDropsStats[a] + Unnoted(a)

ReportsInv ==
  /\ period = [lost |-> period.lost, first |-> period.first]
  /\ period.lost \subseteq Atoms /\ period.first \in BOOLEAN
  /\ \A a \in Atoms : mQueueOverflowAtomsStats[a] <= mPushedAtomDropsStats[a]
  /\ \A a \in period.lost : Counted(a) => a \in NewlyLost
  /\ ~period.first => NewlyLost \subseteq period.lost
  /\ report.lost \subseteq Atoms
  /\ LossesReported

QueueInv == TypesInv /\ LineInv /\ CountsInv /\ ReportsInv
-----------------------------------------------------------------------------
(* The line of events. *)

\* One more event at the end, or one more that was dropped.
LEMMA LineAppend ==
  ASSUME NEW line \in Seq(Event), NEW drop, NEW n \in Nat, LineOK(line, drop, n),
         NEW e, e.id = n + 1
  PROVE  LineOK(Append(line, e), drop, n + 1)
<1> DEFINE l2 == Append(line, e)
           ids == {line[i].id : i \in DOMAIN line}
           ids2 == {l2[i].id : i \in DOMAIN l2}
           gone == {d.id : d \in drop}
<1>1. /\ DOMAIN l2 = 1 .. (Len(line) + 1) /\ DOMAIN line = 1 .. Len(line) /\ Len(line) \in Nat
      /\ \A i \in DOMAIN line : l2[i] = line[i]
      /\ l2[Len(line) + 1] = e
  OBVIOUS
<1> HIDE DEF l2
<1>2. ids2 = ids \cup {n + 1}
  BY <1>1
<1>3. \A i \in DOMAIN line : line[i].id < n + 1
  <2>1. (ids \ {0}) \cup gone = 1 .. n
    BY DEF LineOK
  <2>2. \A i \in DOMAIN line : line[i].id \in ids
    OBVIOUS
  <2> HIDE DEF ids, gone
  <2>3. ids \subseteq 0 .. n
    BY <2>1
  <2>4. \A x \in ids : x < n + 1
    BY <2>3
  <2> QED BY <2>2, <2>4
<1>4. \A d \in drop : d.id <= n
  <2>1. gone \subseteq 1 .. n
    BY DEF LineOK
  <2> QED BY <2>1
<1>9. n + 1 \notin gone
  BY <1>4
<1>5. (ids2 \ {0}) \cup gone = 1 .. (n + 1)
  <2>1. (ids \ {0}) \cup gone = 1 .. n
    BY DEF LineOK
  <2> HIDE DEF ids, ids2, gone
  <2> QED BY <2>1, <1>2
<1>6. ids2 \cap gone = {}
  <2>1. ids \cap gone = {}
    BY DEF LineOK
  <2> HIDE DEF ids, ids2, gone
  <2> QED BY <2>1, <1>2, <1>9
<1>7. \A i, j \in DOMAIN l2 : i < j /\ l2[j].id # 0 => l2[i].id < l2[j].id
  <2> SUFFICES ASSUME NEW i \in DOMAIN l2, NEW j \in DOMAIN l2, i < j, l2[j].id # 0
               PROVE  l2[i].id < l2[j].id
    OBVIOUS
  <2>1. i \in DOMAIN line
    BY <1>1
  <2>2. CASE j \in DOMAIN line
    BY <2>1, <2>2, <1>1 DEF LineOK
  <2>3. CASE j = Len(line) + 1
    BY <2>1, <2>3, <1>1, <1>3
  <2> QED BY <2>2, <2>3, <1>1
<1>8. \A d, f \in drop : d.id = f.id => d = f
  BY DEF LineOK
<1> QED BY <1>5, <1>6, <1>7, <1>8 DEF LineOK, l2

\* The event that stops the reader does not count.
LEMMA LineStop ==
  ASSUME NEW line \in Seq(Event), NEW drop, NEW n \in Nat, LineOK(line, drop, n),
         NEW e, e.id = 0
  PROVE  LineOK(Append(line, e), drop, n)
<1> DEFINE l2 == Append(line, e)
           ids == {line[i].id : i \in DOMAIN line}
           ids2 == {l2[i].id : i \in DOMAIN l2}
           gone == {d.id : d \in drop}
<1>1. /\ DOMAIN l2 = 1 .. (Len(line) + 1) /\ DOMAIN line = 1 .. Len(line) /\ Len(line) \in Nat
      /\ \A i \in DOMAIN line : l2[i] = line[i]
      /\ l2[Len(line) + 1] = e
  OBVIOUS
<1> HIDE DEF l2
<1>2. ids2 = ids \cup {0}
  BY <1>1
<1>3. gone \subseteq 1 .. n
  BY DEF LineOK
<1>4. (ids2 \ {0}) \cup gone = 1 .. n
  <2>1. (ids \ {0}) \cup gone = 1 .. n
    BY DEF LineOK
  <2> HIDE DEF ids, ids2, gone
  <2> QED BY <2>1, <1>2
<1>5. ids2 \cap gone = {}
  <2>1. ids \cap gone = {}
    BY DEF LineOK
  <2> HIDE DEF ids, ids2, gone
  <2> QED BY <2>1, <1>2, <1>3
<1>6. \A i, j \in DOMAIN l2 : i < j /\ l2[j].id # 0 => l2[i].id < l2[j].id
  <2> SUFFICES ASSUME NEW i \in DOMAIN l2, NEW j \in DOMAIN l2, i < j, l2[j].id # 0
               PROVE  l2[i].id < l2[j].id
    OBVIOUS
  <2>1. i \in DOMAIN line /\ j \in DOMAIN line
    BY <1>1
  <2> QED BY <2>1, <1>1 DEF LineOK
<1>7. \A d, f \in drop : d.id = f.id => d = f
  BY DEF LineOK
<1> QED BY <1>4, <1>5, <1>6, <1>7 DEF LineOK, l2

\* An event refused for lack of room keeps the line in order: it joins the dropped ones instead.
LEMMA LineDrop ==
  ASSUME NEW line \in Seq(Event), NEW drop, NEW n \in Nat, LineOK(line, drop, n),
         NEW e, e.id = n + 1
  PROVE  LineOK(line, drop \cup {e}, n + 1)
<1> DEFINE ids == {line[i].id : i \in DOMAIN line}
           gone == {d.id : d \in drop}
<1>1. {d.id : d \in drop \cup {e}} = gone \cup {n + 1}
  OBVIOUS
<1>2. (ids \ {0}) \cup gone = 1 .. n /\ ids \cap gone = {}
  BY DEF LineOK
<1>3. \A d \in drop : d.id <= n
  <2>1. \A d \in drop : d.id \in gone
    OBVIOUS
  <2> QED BY <2>1, <1>2
<1>4. \A d, f \in drop \cup {e} : d.id = f.id => d = f
  BY <1>3 DEF LineOK
<1> HIDE DEF ids, gone
<1>5. (ids \ {0}) \cup (gone \cup {n + 1}) = 1 .. (n + 1) /\ ids \cap (gone \cup {n + 1}) = {}
  BY <1>2
<1>6. \A i, j \in DOMAIN line : i < j /\ line[j].id # 0 => line[i].id < line[j].id
  BY DEF LineOK
<1> QED BY <1>1, <1>4, <1>5, <1>6 DEF LineOK, ids

\* What the processing thread has taken so far is a sequence of events.
LEMMA TakenIsSeq == TypesInv => Taken \in Seq(Event) /\ InHand \in Seq(Event)
<1> SUFFICES ASSUME TypesInv PROVE Taken \in Seq(Event) /\ InHand \in Seq(Event)
  OBVIOUS
<1>1. InHand \in Seq(Event)
  BY DEF TypesInv, InHand
<1> QED BY <1>1, ConcatProperties DEF TypesInv, Taken

\* Pushing at the end of the queue appends to the whole line.
LEMMA ConcatPush ==
  ASSUME NEW s \in Seq(Event), NEW q \in Seq(Event), NEW e \in Event
  PROVE  s \o Append(q, e) = Append(s \o q, e)
OBVIOUS

\* Popping moves the head of the queue to the hand and leaves the line as it was.
LEMMA ConcatPop ==
  ASSUME NEW s \in Seq(Event), NEW q \in Seq(Event), q # << >>
  PROVE  (s \o << >>) \o q = (s \o <<Head(q)>>) \o Tail(q)
<1>1. Head(q) \in Event /\ Tail(q) \in Seq(Event)
  OBVIOUS
<1>2. q = <<Head(q)>> \o Tail(q)
  BY <1>1
<1>3. (s \o <<Head(q)>>) \o Tail(q) = s \o (<<Head(q)>> \o Tail(q))
  BY <1>1, ConcatAssociative
<1>4. s \o << >> = s
  BY ConcatEmptySeq
<1> QED BY <1>2, <1>3, <1>4

\* Finishing the event in hand leaves the line as it was.
LEMMA ConcatDone ==
  ASSUME NEW s \in Seq(Event), NEW e \in Event
  PROVE  s \o <<e>> = Append(s, e) \o << >>
OBVIOUS
-----------------------------------------------------------------------------
(* Types. *)

\* The types hold initially.
LEMMA TypesInit == Init => TypesInv
<1> SUFFICES ASSUME Init PROVE TypesInv
  OBVIOUS
<1>1. << >> \in Seq(Event) /\ Len(<< >>) = 0
  BY EmptySeq
<1>2. {} \subseteq Event /\ 0 \in 0 .. MaxEvents /\ 0 <= mQueueLimit
  BY QueueAssumption
<1> QED BY <1>1, <1>2 DEF Init, TypesInv

\* A push keeps the queue within its limit.
LEMMA PushedTyped ==
  ASSUME TypesInv, NEW e \in Event
  PROVE  Pushed(e) \in Seq(Event) /\ Len(Pushed(e)) <= mQueueLimit
BY QueueAssumption DEF TypesInv, Pushed, HasRoom

\* Every step keeps the types.
LEMMA TypesNext == TypesInv /\ [Next]_vars => TypesInv'
<1> SUFFICES ASSUME TypesInv, [Next]_vars PROVE TypesInv'
  OBVIOUS
<1> USE QueueAssumption
<1>0. StopEvent \in Event
  BY DEF StopEvent, Event
<1>1. ASSUME NEW a \in Atoms, processStatsEventBuffer(a) PROVE TypesInv'
  <2> DEFINE e == [id |-> sent + 1, atom |-> a]
  <2>1. e \in Event
    BY <1>1 DEF processStatsEventBuffer, TypesInv, Event
  <2>2. mQueue' \in Seq(Event) /\ Len(mQueue') <= mQueueLimit
    BY <1>1, <2>1, PushedTyped DEF processStatsEventBuffer
  <2>3. dropped' \subseteq Event
    BY <1>1, <2>1 DEF processStatsEventBuffer, TypesInv
  <2>4. sent' \in 0 .. MaxEvents
    BY <1>1 DEF processStatsEventBuffer, TypesInv
  <2>5. HasRoom \in BOOLEAN
    BY DEF HasRoom
  <2> QED BY <1>1, <2>2, <2>3, <2>4, <2>5 DEF processStatsEventBuffer, TypesInv
<1>2. CASE listenerNotify
  BY <1>2 DEF listenerNotify, TypesInv, Notified, stats
<1>3. CASE noteEventQueueOverflow
  BY <1>3 DEF noteEventQueueOverflow, TypesInv
<1>4. CASE requestStop
  BY <1>4 DEF requestStop, TypesInv, stats
<1>5. CASE pushStopEvent
  <2>1. mQueue' \in Seq(Event) /\ Len(mQueue') <= mQueueLimit
    BY <1>5, <1>0, PushedTyped DEF pushStopEvent
  <2> QED BY <1>5, <2>1 DEF pushStopEvent, TypesInv, stats
<1>6. CASE stopperNotify
  BY <1>6 DEF stopperNotify, TypesInv, Notified, stats
<1>7. CASE Startup
  BY <1>7 DEF Startup, TypesInv, stats
<1>8. CASE waitPop
  <2>1. CASE mQueue = << >>
    BY <1>8, <2>1 DEF waitPop, TypesInv, stats
  <2>2. CASE mQueue # << >>
    <3>1. Head(mQueue) \in Event /\ Tail(mQueue) \in Seq(Event) /\ Len(Tail(mQueue)) <= mQueueLimit
      BY <2>2 DEF TypesInv
    <3>2. reader' = [pc |-> "popped", event |-> Head(mQueue)] /\ mQueue' = Tail(mQueue)
      BY <1>8, <2>2 DEF waitPop
    <3>3. UNCHANGED <<listener, stopper, mIsStopRequested, sent, processed, dropped>>
      BY <1>8 DEF waitPop
    <3> QED BY <3>1, <3>2, <3>3 DEF TypesInv
  <2> QED BY <2>1, <2>2
<1>9. CASE waitForTimeout
  BY <1>9 DEF waitForTimeout, TypesInv, stats
<1>10. CASE readLogs
  <2>1. UNCHANGED <<mQueue, listener, stopper, mIsStopRequested, sent, dropped>>
    BY <1>10 DEF readLogs
  <2>2. processed' \in Seq(Event)
    <3>1. processed' = processed \/ processed' = Append(processed, reader.event)
      BY <1>10, Zenon DEF readLogs
    <3>2. processed \in Seq(Event) /\ reader.event \in Event
      BY <1>10 DEF readLogs, TypesInv
    <3> QED BY <3>1, <3>2
  <2>3. /\ reader' = [pc |-> reader'.pc, event |-> reader'.event]
        /\ reader'.pc \in {"waitPop", "stopped"}
        /\ reader'.pc = "stopped" => reader'.event \in Event
    BY <1>10 DEF readLogs, TypesInv
  <2> QED BY <2>1, <2>2, <2>3 DEF TypesInv
<1>11. CASE onDumpReport
  BY <1>11 DEF onDumpReport, TypesInv, threads
<1>12. CASE OnConfigAdded
  BY <1>12 DEF OnConfigAdded, TypesInv, threads
<1>13. CASE UNCHANGED vars
  BY <1>13 DEF vars, TypesInv, threads
<1> QED BY <1>1, <1>2, <1>3, <1>4, <1>5, <1>6, <1>7, <1>8, <1>9, <1>10, <1>11, <1>12, <1>13 DEF Next
-----------------------------------------------------------------------------
(* Order and conservation. *)

\* The line is in order initially: nothing was sent.
LEMMA LineInit == Init => LineInv
<1> SUFFICES ASSUME Init PROVE LineInv
  OBVIOUS
<1>1. Taken = << >>
  BY DEF Init, Taken, InHand
<1>2. LineOK(<< >>, {}, 0)
  BY DEF LineOK
<1> QED BY <1>1, <1>2 DEF LineInv, Init

\* A step that moves no event.
LEMMA LineSame ==
  ASSUME LineInv, UNCHANGED <<mQueue, processed, dropped, sent>>, InHand' = InHand
  PROVE  LineInv'
BY DEF LineInv, Taken

\* Every step keeps the line: events are processed in the order they were sent, none twice.
LEMMA LineNext == TypesInv /\ LineInv /\ [Next]_vars => LineInv'
<1> SUFFICES ASSUME TypesInv, LineInv, [Next]_vars PROVE LineInv'
  OBVIOUS
<1>0. Taken \in Seq(Event) /\ InHand \in Seq(Event) /\ processed \o InHand \in Seq(Event)
  BY TakenIsSeq, ConcatProperties DEF TypesInv
<1>1. ASSUME NEW a \in Atoms, processStatsEventBuffer(a) PROVE LineInv'
  <2> DEFINE e == [id |-> sent + 1, atom |-> a]
  <2>1. e \in Event /\ e.id = sent + 1 /\ sent \in Nat
    BY <1>1, QueueAssumption DEF processStatsEventBuffer, TypesInv, Event
  <2>2. InHand' = InHand /\ processed' = processed /\ sent' = sent + 1
    BY <1>1 DEF processStatsEventBuffer, InHand
  <2>3. CASE HasRoom
    <3>1. mQueue' = Append(mQueue, e) /\ dropped' = dropped
      BY <1>1, <2>3 DEF processStatsEventBuffer, Pushed
    <3> HIDE DEF e
    <3>2. Taken' = Append(Taken, e)
      BY <1>0, <2>1, <2>2, <3>1, ConcatPush DEF Taken, TypesInv
    <3>3. LineOK(Append(Taken, e), dropped, sent + 1)
      BY <1>0, <2>1, LineAppend DEF LineInv
    <3> QED BY <2>2, <3>1, <3>2, <3>3 DEF LineInv
  <2>4. CASE ~HasRoom
    <3>1. mQueue' = mQueue /\ dropped' = dropped \cup {e}
      BY <1>1, <2>4 DEF processStatsEventBuffer, Pushed
    <3> HIDE DEF e
    <3>2. Taken' = Taken
      BY <2>2, <3>1 DEF Taken
    <3>3. LineOK(Taken, dropped \cup {e}, sent + 1)
      BY <1>0, <2>1, LineDrop DEF LineInv
    <3> QED BY <2>2, <3>1, <3>2, <3>3 DEF LineInv
  <2> QED BY <2>3, <2>4
<1>2. CASE listenerNotify
  BY <1>2, LineSame DEF listenerNotify, InHand, Notified, TypesInv
<1>3. CASE noteEventQueueOverflow
  BY <1>3, LineSame DEF noteEventQueueOverflow, InHand
<1>4. CASE requestStop
  BY <1>4, LineSame DEF requestStop, InHand
<1>5. CASE pushStopEvent
  <2>1. InHand' = InHand /\ UNCHANGED <<processed, dropped, sent>>
    BY <1>5 DEF pushStopEvent, InHand
  <2>2. StopEvent \in Event /\ StopEvent.id = 0
    BY QueueAssumption DEF StopEvent, Event
  <2>3. CASE HasRoom
    <3>1. mQueue' = Append(mQueue, StopEvent)
      BY <1>5, <2>3 DEF pushStopEvent, Pushed
    <3>2. Taken' = Append(Taken, StopEvent)
      BY <1>0, <2>1, <2>2, <3>1, ConcatPush DEF Taken, TypesInv
    <3>3. LineOK(Append(Taken, StopEvent), dropped, sent)
      <4>1. sent \in Nat
        BY QueueAssumption DEF TypesInv
      <4> QED BY <1>0, <2>2, <4>1, LineStop DEF LineInv
    <3> QED BY <2>1, <3>2, <3>3 DEF LineInv
  <2>4. CASE ~HasRoom
    BY <1>5, <2>1, <2>4, LineSame DEF pushStopEvent, Pushed
  <2> QED BY <2>3, <2>4
<1>6. CASE stopperNotify
  BY <1>6, LineSame DEF stopperNotify, InHand, Notified, TypesInv
<1>7. CASE Startup
  BY <1>7, LineSame DEF Startup, InHand, TypesInv
<1>8. CASE waitPop
  <2>1. CASE mQueue = << >>
    BY <1>8, <2>1, LineSame DEF waitPop, InHand, TypesInv
  <2>2. CASE mQueue # << >>
    <3>1. InHand = << >> /\ InHand' = <<Head(mQueue)>> /\ mQueue' = Tail(mQueue)
      BY <1>8, <2>2 DEF waitPop, InHand
    <3>2. UNCHANGED <<processed, dropped, sent>>
      BY <1>8 DEF waitPop
    <3>3. Taken' = Taken
      BY <2>2, <3>1, <3>2, ConcatPop DEF Taken, TypesInv
    <3> QED BY <3>2, <3>3 DEF LineInv
  <2> QED BY <2>1, <2>2
<1>9. CASE waitForTimeout
  BY <1>9, LineSame DEF waitForTimeout, InHand, TypesInv
<1>10. CASE readLogs
  <2>1. CASE mIsStopRequested
    BY <1>10, <2>1, LineSame DEF readLogs, InHand, TypesInv
  <2>2. CASE ~mIsStopRequested
    <3>1. InHand = <<reader.event>> /\ InHand' = << >> /\ processed' = Append(processed, reader.event)
      BY <1>10, <2>2 DEF readLogs, InHand
    <3>2. UNCHANGED <<mQueue, dropped, sent>> /\ reader.event \in Event
      BY <1>10 DEF readLogs, TypesInv
    <3>3. Taken' = Taken
      BY <3>1, <3>2, ConcatDone DEF Taken, TypesInv
    <3> QED BY <3>2, <3>3 DEF LineInv
  <2> QED BY <2>1, <2>2
<1>11. CASE onDumpReport
  BY <1>11, LineSame DEF onDumpReport, InHand, threads
<1>12. CASE OnConfigAdded
  BY <1>12, LineSame DEF OnConfigAdded, InHand, threads
<1>13. CASE UNCHANGED vars
  BY <1>13, LineSame DEF vars, InHand, threads
<1> QED BY <1>1, <1>2, <1>3, <1>4, <1>5, <1>6, <1>7, <1>8, <1>9, <1>10, <1>11, <1>12, <1>13 DEF Next
-----------------------------------------------------------------------------
(* Counts of losses. *)

\* The drop counters agree with the losses initially.
LEMMA CountsInit == Init => CountsInv
<1> SUFFICES ASSUME Init PROVE CountsInv
  OBVIOUS
<1>1. IsFiniteSet({}) /\ Cardinality({}) = 0
  BY FS_EmptySet
<1>2. \A a \in Atoms : Lost(a) = {} /\ Unnoted(a) = 0
  BY DEF Init, Lost, Unnoted
<1>3. mPushedAtomDropsStats = NoCounts /\ mQueueOverflowAtomsStats = NoCounts
  BY DEF Init
<1>4. NoCounts \in [Atoms -> Nat] /\ \A a \in Atoms : NoCounts[a] = 0
  BY DEF NoCounts
<1>5. listener.pc = "read" /\ listener.success = TRUE /\ dropped = {}
  BY DEF Init
<1>6. \A a \in Atoms : Cardinality(Lost(a)) = mPushedAtomDropsStats[a] + Unnoted(a)
  <2> SUFFICES ASSUME NEW a \in Atoms
               PROVE  Cardinality(Lost(a)) = mPushedAtomDropsStats[a] + Unnoted(a)
    OBVIOUS
  <2>1. Cardinality(Lost(a)) = 0
    BY <1>1, <1>2
  <2>2. mPushedAtomDropsStats[a] = 0 /\ Unnoted(a) = 0
    BY <1>2, <1>3, <1>4
  <2> HIDE DEF Lost, Unnoted
  <2> QED BY <2>1, <2>2
<1>7. Entries = {}
  BY <1>3, <1>4 DEF Entries
<1>8. IsFiniteSet(Entries) /\ Cardinality(Entries) <= kMaxPushedAtomDroppedStatsSize
  BY <1>1, <1>7, QueueAssumption
<1> QED BY <1>1, <1>3, <1>4, <1>5, <1>6, <1>8 DEF CountsInv

\* Noting a loss keeps the map within its limit, and an atom that would not have been
\* counted before is not counted after it.
LEMMA NotedKept ==
  ASSUME CountsInv, NEW b \in Atoms, noteAtomDroppedLocked(b)
  PROVE  /\ mPushedAtomDropsStats' \in [Atoms -> Nat]
         /\ IsFiniteSet(Entries') /\ Cardinality(Entries') <= kMaxPushedAtomDroppedStatsSize
         /\ \A a \in Atoms : Counted(a)' => Counted(a)
         /\ \A a \in Atoms : mPushedAtomDropsStats'[a] =
                              IF a = b /\ Counted(b) THEN mPushedAtomDropsStats[a] + 1
                              ELSE mPushedAtomDropsStats[a]
<1>0. /\ mPushedAtomDropsStats \in [Atoms -> Nat] /\ kMaxPushedAtomDroppedStatsSize \in Nat
      /\ IsFiniteSet(Entries) /\ Cardinality(Entries) <= kMaxPushedAtomDroppedStatsSize
  BY QueueAssumption DEF CountsInv
<1>1. Cardinality(Entries) \in Nat
  BY <1>0, FS_CardinalityType
<1>2. CASE ~Counted(b)
  <2>1. mPushedAtomDropsStats' = mPushedAtomDropsStats
    BY <1>2 DEF noteAtomDroppedLocked
  <2>2. Entries' = Entries
    BY <2>1 DEF Entries
  <2>3. \A a \in Atoms : Counted(a)' => Counted(a)
    BY <2>2 DEF Counted
  <2> QED BY <1>0, <1>2, <2>1, <2>2, <2>3
<1>3. CASE Counted(b)
  <2>1. mPushedAtomDropsStats' = [mPushedAtomDropsStats EXCEPT ![b] = @ + 1]
    BY <1>3 DEF noteAtomDroppedLocked
  <2>2. /\ mPushedAtomDropsStats' \in [Atoms -> Nat]
        /\ \A a \in Atoms : mPushedAtomDropsStats'[a] = IF a = b THEN mPushedAtomDropsStats[a] + 1
                                                       ELSE mPushedAtomDropsStats[a]
    BY <1>0, <2>1
  <2>3. Entries' = Entries \cup {b}
    BY <1>0, <2>2 DEF Entries
  <2>4. CASE b \in Entries
    <3>1. Entries' = Entries
      BY <2>3, <2>4
    <3>2. \A a \in Atoms : Counted(a)' => Counted(a)
      BY <3>1 DEF Counted
    <3> QED BY <1>0, <1>3, <2>2, <3>1, <3>2
  <2>5. CASE b \notin Entries
    <3>1. Cardinality(Entries) < kMaxPushedAtomDroppedStatsSize
      BY <1>3, <2>5 DEF Counted
    <3>2. IsFiniteSet(Entries \cup {b}) /\ Cardinality(Entries \cup {b}) = Cardinality(Entries) + 1
      BY <1>0, <2>5, FS_AddElement
    <3>3. Cardinality(Entries') <= kMaxPushedAtomDroppedStatsSize
      BY <1>0, <1>1, <2>3, <3>1, <3>2
    <3>4. \A a \in Atoms : Counted(a)
      BY <3>1 DEF Counted
    <3> QED BY <1>3, <2>2, <2>3, <3>2, <3>3, <3>4
  <2> QED BY <2>4, <2>5
<1> QED BY <1>2, <1>3

\* A step that neither drops nor counts an event.
LEMMA CountsSame ==
  ASSUME CountsInv, UNCHANGED <<mPushedAtomDropsStats, dropped>>,
         mQueueOverflowAtomsStats' \in [Atoms -> Nat],
         listener'.success = listener.success, listener'.event = listener.event,
         listener'.pc = listener.pc
  PROVE  CountsInv'
<1>1. \A a \in Atoms : Lost(a)' = Lost(a) /\ Unnoted(a)' = Unnoted(a)
  BY DEF Lost, Unnoted
<1>2. Entries' = Entries /\ \A a \in Atoms : Counted(a)' = Counted(a)
  BY DEF Entries, Counted
<1> QED BY <1>1, <1>2 DEF CountsInv

\* Every step keeps the drop counters equal to the losses, up to the one still to be noted.
LEMMA CountsNext == TypesInv /\ LineInv /\ CountsInv /\ [Next]_vars => CountsInv'
<1> SUFFICES ASSUME TypesInv, LineInv, CountsInv, [Next]_vars PROVE CountsInv'
  OBVIOUS
<1>1. ASSUME NEW a \in Atoms, processStatsEventBuffer(a) PROVE CountsInv'
  <2> DEFINE e == [id |-> sent + 1, atom |-> a]
  <2>1. /\ UNCHANGED <<mPushedAtomDropsStats, mQueueOverflowAtomsStats>>
        /\ listener.pc = "read"
        /\ listener' = [pc |-> "notify", event |-> e, success |-> HasRoom]
        /\ dropped' = IF HasRoom THEN dropped ELSE dropped \cup {e}
    BY <1>1 DEF processStatsEventBuffer, stats
  <2>2. \A b \in Atoms : Unnoted(b) = 0
    BY <2>1 DEF CountsInv, Unnoted
  <2>9. Entries' = Entries /\ \A b \in Atoms : Counted(b)' = Counted(b)
    BY <2>1 DEF Entries, Counted
  <2>3. CASE HasRoom
    <3>1. \A b \in Atoms : Lost(b)' = Lost(b) /\ Unnoted(b)' = 0
      BY <2>1, <2>3 DEF Lost, Unnoted
    <3> QED BY <2>1, <2>2, <2>3, <2>9, <3>1 DEF CountsInv
  <2>4. CASE ~HasRoom
    <3>1. e \notin dropped
      <4>1. {d.id : d \in dropped} \subseteq 1 .. sent
        BY DEF LineInv, LineOK
      <4>2. \A d \in dropped : d.id \in 1 .. sent
        BY <4>1
      <4> QED BY <4>2, QueueAssumption DEF TypesInv
    <3>2. IsFiniteSet(dropped')
      BY <2>1, <2>4, FS_AddElement DEF CountsInv
    <3>3. ASSUME NEW b \in Atoms, Counted(b)
          PROVE  Cardinality(Lost(b)') = mPushedAtomDropsStats[b] + Unnoted(b)'
      <4>1. Cardinality(Lost(b)) = mPushedAtomDropsStats[b] /\ mPushedAtomDropsStats[b] \in Nat
        BY <2>2, <3>3 DEF CountsInv
      <4>2. CASE b = a
        <5>1. Lost(b)' = Lost(b) \cup {e} /\ e \notin Lost(b) /\ Unnoted(b)' = 1
          BY <2>1, <2>4, <3>1, <4>2 DEF Lost, Unnoted
        <5>2. IsFiniteSet(Lost(b))
          BY FS_Subset DEF Lost, CountsInv
        <5>3. Cardinality(Lost(b) \cup {e}) = Cardinality(Lost(b)) + 1
          BY <5>1, <5>2, FS_AddElement
        <5> QED BY <4>1, <5>1, <5>3
      <4>3. CASE b # a
        <5>1. Lost(b)' = Lost(b) /\ Unnoted(b)' = 0
          BY <2>1, <2>4, <4>3 DEF Lost, Unnoted
        <5> QED BY <4>1, <5>1
      <4> QED BY <4>2, <4>3
    <3>4. listener'.pc = "notify" /\ listener'.success = FALSE /\ listener'.event.atom \in Atoms
      BY <2>1, <2>4
    <3> QED BY <2>1, <2>9, <3>2, <3>3, <3>4 DEF CountsInv
  <2> QED BY <2>3, <2>4
<1>2. CASE listenerNotify
  <2>1. CASE listener.success
    <3>1. \A a \in Atoms : Lost(a)' = Lost(a) /\ Unnoted(a)' = 0 /\ Unnoted(a) = 0
      BY <1>2, <2>1 DEF listenerNotify, Lost, Unnoted
    <3>2. listener' = [pc |-> "read", event |-> NoEvent, success |-> TRUE]
      BY <1>2, <2>1 DEF listenerNotify
    <3>3. UNCHANGED <<mPushedAtomDropsStats, mQueueOverflowAtomsStats, dropped>>
      BY <1>2 DEF listenerNotify, stats
    <3>4. Entries' = Entries /\ \A a \in Atoms : Counted(a)' = Counted(a)
      BY <3>3 DEF Entries, Counted
    <3> QED BY <3>1, <3>2, <3>3, <3>4 DEF CountsInv
  <2>2. CASE ~listener.success
    <3>1. /\ listener'.pc = "note" /\ listener'.event = listener.event
          /\ listener'.success = listener.success
      BY <1>2, <2>2 DEF listenerNotify, TypesInv
    <3>2. \A a \in Atoms : Lost(a)' = Lost(a) /\ Unnoted(a)' = Unnoted(a)
      BY <1>2, <3>1 DEF listenerNotify, Lost, Unnoted
    <3>3. UNCHANGED <<mPushedAtomDropsStats, mQueueOverflowAtomsStats, dropped>>
      BY <1>2 DEF listenerNotify, stats
    <3>4. Entries' = Entries /\ \A a \in Atoms : Counted(a)' = Counted(a)
      BY <3>3 DEF Entries, Counted
    <3> QED BY <2>2, <3>1, <3>2, <3>3, <3>4 DEF CountsInv
  <2> QED BY <2>1, <2>2
<1>3. CASE noteEventQueueOverflow
  <2> DEFINE b == listener.event.atom
  <2>1. ~listener.success /\ b \in Atoms
    BY <1>3 DEF noteEventQueueOverflow, CountsInv
  <2>2. /\ noteAtomDroppedLocked(b)
        /\ listener' = [pc |-> "read", event |-> NoEvent, success |-> TRUE]
        /\ UNCHANGED <<mQueueOverflowAtomsStats, dropped>>
    BY <1>3 DEF noteEventQueueOverflow
  <2>5. \A a \in Atoms : Unnoted(a) = IF a = b THEN 1 ELSE 0
    BY <2>1 DEF Unnoted
  <2> HIDE DEF b
  <2>3. /\ mPushedAtomDropsStats' \in [Atoms -> Nat]
        /\ IsFiniteSet(Entries') /\ Cardinality(Entries') <= kMaxPushedAtomDroppedStatsSize
        /\ \A a \in Atoms : Counted(a)' => Counted(a)
        /\ \A a \in Atoms : mPushedAtomDropsStats'[a] =
                             IF a = b /\ Counted(b) THEN mPushedAtomDropsStats[a] + 1
                             ELSE mPushedAtomDropsStats[a]
    BY <2>1, <2>2, NotedKept
  <2>4. ASSUME NEW a \in Atoms, Counted(a)'
        PROVE  Cardinality(Lost(a)') = mPushedAtomDropsStats'[a] + Unnoted(a)'
    <3>1. Lost(a)' = Lost(a) /\ Unnoted(a)' = 0
      BY <2>2 DEF Lost, Unnoted
    <3>2. Counted(a)
      BY <2>3, <2>4
    <3>3. Cardinality(Lost(a)) = mPushedAtomDropsStats[a] + Unnoted(a) /\ mPushedAtomDropsStats[a] \in Nat
      BY <3>2 DEF CountsInv
    <3>4. Cardinality(Lost(a)) = mPushedAtomDropsStats'[a] /\ mPushedAtomDropsStats'[a] \in Nat
      BY <2>3, <2>5, <3>2, <3>3
    <3> QED BY <3>1, <3>4
  <2>6. listener'.pc = "read" /\ listener'.success = TRUE
    BY <2>2
  <2> QED BY <2>2, <2>3, <2>4, <2>6 DEF CountsInv
<1>4. CASE requestStop \/ pushStopEvent \/ stopperNotify \/ Startup \/ waitPop \/ waitForTimeout \/ readLogs
  <2>1. UNCHANGED <<mPushedAtomDropsStats, mQueueOverflowAtomsStats, dropped, listener>>
    BY <1>4 DEF requestStop, pushStopEvent, stopperNotify, Startup, waitPop, waitForTimeout, readLogs, stats
  <2>2. mQueueOverflowAtomsStats \in [Atoms -> Nat]
    BY DEF CountsInv
  <2> QED BY <2>1, <2>2, CountsSame
<1>5. CASE onDumpReport
  <2>1. mQueueOverflowAtomsStats' = mPushedAtomDropsStats /\ mPushedAtomDropsStats \in [Atoms -> Nat]
    BY <1>5 DEF onDumpReport, processQueueOverflowStats, CountsInv
  <2> QED BY <1>5, <2>1, CountsSame DEF onDumpReport, threads
<1>6. CASE OnConfigAdded
  <2>1. mQueueOverflowAtomsStats' \in [Atoms -> Nat]
    BY <1>6 DEF OnConfigAdded, NoCounts
  <2> QED BY <1>6, <2>1, CountsSame DEF OnConfigAdded, threads
<1>7. CASE UNCHANGED vars
  <2>1. UNCHANGED <<mPushedAtomDropsStats, mQueueOverflowAtomsStats, dropped, listener>>
    BY <1>7 DEF vars, stats, threads
  <2>2. mQueueOverflowAtomsStats \in [Atoms -> Nat]
    BY DEF CountsInv
  <2> QED BY <2>1, <2>2, CountsSame
<1> QED BY <1>1, <1>2, <1>3, <1>4, <1>5, <1>6, <1>7 DEF Next
-----------------------------------------------------------------------------
(* Reports. *)

\* Nothing was reported initially.
LEMMA ReportsInit == Init => ReportsInv
<1> SUFFICES ASSUME Init PROVE ReportsInv
  OBVIOUS
<1>1. \A a \in Atoms : mPushedAtomDropsStats[a] = 0 /\ mQueueOverflowAtomsStats[a] = 0
  BY DEF Init, NoCounts
<1>2. NewlyLost = {}
  BY <1>1 DEF NewlyLost
<1>3. period = [lost |-> {}, first |-> TRUE] /\ report = [flagged |-> {}, lost |-> {}, first |-> TRUE]
  BY DEF Init, NoReport
<1>4. LossesReported
  BY <1>3 DEF LossesReported
<1>5. report.lost \subseteq Atoms
  BY <1>3
<1> QED BY <1>1, <1>2, <1>3, <1>4, <1>5 DEF ReportsInv

\* A step that leaves the stats alone keeps what the reports said.
LEMMA ReportsSame == ReportsInv /\ UNCHANGED stats => ReportsInv'
BY DEF ReportsInv, stats, LossesReported, NewlyLost, Counted, Entries

\* Every step keeps the reports in agreement with the counters.
LEMMA ReportsNext == CountsInv /\ ReportsInv /\ [Next]_vars => ReportsInv'
<1> SUFFICES ASSUME CountsInv, ReportsInv, [Next]_vars PROVE ReportsInv'
  OBVIOUS
<1>1. CASE noteEventQueueOverflow
  <2> DEFINE b == listener.event.atom
  <2>1. b \in Atoms
    BY <1>1 DEF noteEventQueueOverflow, CountsInv
  <2>2. /\ noteAtomDroppedLocked(b)
        /\ period' = [period EXCEPT !.lost = @ \cup {b}]
        /\ UNCHANGED <<mQueueOverflowAtomsStats, report>>
    BY <1>1 DEF noteEventQueueOverflow
  <2> HIDE DEF b
  <2>3. period' = [lost |-> period.lost \cup {b}, first |-> period.first]
    BY <2>2 DEF ReportsInv
  <2>4. /\ \A a \in Atoms : Counted(a)' => Counted(a)
        /\ \A a \in Atoms : /\ mPushedAtomDropsStats'[a] =
                                 IF a = b /\ Counted(b) THEN mPushedAtomDropsStats[a] + 1
                                 ELSE mPushedAtomDropsStats[a]
                            /\ mPushedAtomDropsStats[a] \in Nat /\ mQueueOverflowAtomsStats[a] \in Nat
                            /\ mQueueOverflowAtomsStats[a] <= mPushedAtomDropsStats[a]
    BY <2>1, <2>2, NotedKept DEF CountsInv, ReportsInv
  <2>5. /\ Counted(b) => b \in NewlyLost'
        /\ NewlyLost \subseteq NewlyLost' /\ NewlyLost' \subseteq NewlyLost \cup {b}
    BY <2>1, <2>2, <2>4 DEF NewlyLost
  <2>6. \A a \in Atoms : mQueueOverflowAtomsStats'[a] <= mPushedAtomDropsStats'[a]
    BY <2>2, <2>4
  <2>7. LossesReported' /\ report'.lost \subseteq Atoms
    BY <2>2, <2>4 DEF ReportsInv, LossesReported
  <2>8. /\ period.lost \subseteq Atoms /\ period.first \in BOOLEAN
        /\ \A a \in period.lost : Counted(a) => a \in NewlyLost
        /\ ~period.first => NewlyLost \subseteq period.lost
    BY DEF ReportsInv
  <2>9. period'.lost = period.lost \cup {b} /\ period'.first = period.first
    BY <2>3
  <2>10. \A a \in period'.lost : Counted(a)' => a \in NewlyLost'
    BY <2>1, <2>4, <2>5, <2>8, <2>9
  <2>11. ~period'.first => NewlyLost' \subseteq period'.lost
    BY <2>5, <2>8, <2>9
  <2> QED BY <2>1, <2>3, <2>6, <2>7, <2>8, <2>9, <2>10, <2>11 DEF ReportsInv
<1>2. CASE onDumpReport
  <2>1. /\ report' = [flagged |-> NewlyLost, lost |-> period.lost, first |-> period.first]
        /\ mQueueOverflowAtomsStats' = mPushedAtomDropsStats
        /\ mPushedAtomDropsStats' = mPushedAtomDropsStats
        /\ period' = [lost |-> {}, first |-> FALSE]
    BY <1>2 DEF onDumpReport, processQueueOverflowStats, ReportNow
  <2>5. Entries' = Entries /\ \A a : Counted(a)' = Counted(a)
    BY <2>1 DEF Counted, Entries
  <2>2. LossesReported' /\ report'.lost \subseteq Atoms
    BY <2>1, <2>5 DEF LossesReported, ReportsInv
  <2>3. NewlyLost' = {}
    BY <2>1 DEF NewlyLost
  <2>4. \A a \in Atoms : mQueueOverflowAtomsStats'[a] <= mPushedAtomDropsStats'[a]
    BY <2>1 DEF CountsInv
  <2> QED BY <2>1, <2>2, <2>3, <2>4 DEF ReportsInv
<1>3. CASE OnConfigAdded
  <2>1. /\ report' = [flagged |-> {}, lost |-> {}, first |-> TRUE]
        /\ mQueueOverflowAtomsStats' = [a \in Atoms |-> 0]
        /\ mPushedAtomDropsStats' = mPushedAtomDropsStats
        /\ period' = [lost |-> {}, first |-> TRUE]
    BY <1>3 DEF OnConfigAdded, NoReport, NoCounts
  <2>2. LossesReported' /\ report'.lost \subseteq Atoms
    BY <2>1 DEF LossesReported
  <2>3. \A a \in Atoms : mQueueOverflowAtomsStats'[a] <= mPushedAtomDropsStats'[a]
    BY <2>1 DEF CountsInv
  <2> QED BY <2>1, <2>2, <2>3 DEF ReportsInv
<1>4. ASSUME NEW a \in Atoms, processStatsEventBuffer(a) PROVE ReportsInv'
  BY <1>4, ReportsSame DEF processStatsEventBuffer
<1>5. CASE listenerNotify \/ requestStop \/ pushStopEvent \/ stopperNotify
  BY <1>5, ReportsSame DEF listenerNotify, requestStop, pushStopEvent, stopperNotify
<1>6. CASE Startup \/ waitPop \/ waitForTimeout \/ readLogs
  BY <1>6, ReportsSame DEF Startup, waitPop, waitForTimeout, readLogs
<1>7. CASE UNCHANGED vars
  BY <1>7, ReportsSame DEF vars
<1> QED BY <1>1, <1>2, <1>3, <1>4, <1>5, <1>6, <1>7 DEF Next
-----------------------------------------------------------------------------
\* The inductive invariant implies the property.
LEMMA QueueInvImplies == QueueInv => EventsAccounted
<1> SUFFICES ASSUME QueueInv PROVE EventsAccounted
  OBVIOUS
<1>1. TypeOK
  BY DEF QueueInv, TypesInv, CountsInv, TypeOK, Event
<1>2. EventsConserved
  BY DEF QueueInv, LineInv, LineOK, EventsConserved, TakenIds, DroppedIds, StopEvent
<1>3. LossesCounted
  BY DEF QueueInv, CountsInv, LossesCounted, Lost, Unnoted
<1> QED BY <1>1, <1>2, <1>3 DEF QueueInv, ReportsInv, EventsAccounted

\* Every event that arrives at the socket (BaseStatsSocketListener) is processed once
\* and in order, waits for it, or was dropped by the full queue and is counted as lost
\* unless the map of counts is full of other atoms (noteAtomDroppedLocked); and what
\* was counted marks the next report of a config.
THEOREM EventsAreAccounted == Spec => []EventsAccounted
<1>1. Init => QueueInv
  BY TypesInit, LineInit, CountsInit, ReportsInit DEF QueueInv
<1>2. QueueInv /\ [Next]_vars => QueueInv'
  BY TypesNext, LineNext, CountsNext, ReportsNext DEF QueueInv
<1> QED BY <1>1, <1>2, QueueInvImplies, PTL DEF Spec

-----------------------------------------------------------------------------
(* The invariant of the pulls *)

\* The types of what threads work on.
Tasks == [tag : Tags, receivers : SUBSET R]
Outcomes == [code : {"none", "SUCCESS", "FAIL", "DEAD_OBJECT"}, data : Nat, asOf : Nat]
PulledTasks == [tag : Tags \union {"none"}, receivers : SUBSET R]
AllPulled == [what : PulledTasks, outcome : Outcomes]
Busy(w) == pullPc[w] \in {"pull", "wait", "push"}

ThreadTypes ==
  /\ pullPc \in [AllThreads -> {"off", "pop", "pull", "wait", "push", "exit"}]
  /\ DOMAIN task = AllThreads /\ \A w \in AllThreads : Busy(w) => task[w] \in Tasks
  /\ DOMAIN wait = AllThreads
  /\ result \in [AllThreads -> Outcomes]
  /\ pullerQueue \in Seq(Tasks)
  /\ pulledData \in Seq(AllPulled)

\* Whose threads run, and how many are counted.
Running == {w \in PullThreads : pullPc[w] # "off"}
HolderInv ==
  /\ mLockHolder \in {"nobody", "alarm", "direct"}
  /\ mLockHolder = "alarm" => pullPc[Caller] = "off"
  /\ mLockHolder = "direct" => Busy(Caller) /\ task[Caller].receivers = {}
  /\ mLockHolder = "nobody" => pullPc[Caller] = "off"
  /\ mLockHolder # "alarm" => Running = {} /\ pullerQueue = << >> /\ pulledData = << >>
  /\ pendingThreads = Cardinality(Running)
  /\ pullerQueue # << >> => \E w \in PullThreads : pullPc[w] = "pop" \/ Busy(w)

ThreadsInv == ThreadTypes /\ HolderInv

-----------------------------------------------------------------------------
Meet(S, T) == S \cap T # {}

\* Receivers that are still to be told, and each in one place.
Queued(r) == \E i \in DOMAIN pullerQueue : r \in pullerQueue[i].receivers
InThread(r) == \E w \in PullThreads : Busy(w) /\ r \in task[w].receivers
InResult(r) == \E i \in DOMAIN pulledData : r \in pulledData[i].what.receivers
Outstanding(r) == Queued(r) \/ InThread(r) \/ InResult(r)

OnePlace ==
  /\ \A r \in R : ~(Queued(r) /\ InThread(r)) /\ ~(Queued(r) /\ InResult(r)) /\ ~(InThread(r) /\ InResult(r))
  /\ \A i, j \in DOMAIN pullerQueue : Meet(pullerQueue[i].receivers, pullerQueue[j].receivers) => i = j
  /\ \A v, w \in PullThreads : Busy(v) /\ Busy(w) /\ Meet(task[v].receivers, task[w].receivers) => v = w
  /\ \A i, j \in DOMAIN pulledData : Meet(pulledData[i].what.receivers, pulledData[j].what.receivers) => i = j

ToldInv ==
  /\ told \in [R -> Nat] /\ due \subseteq R
  /\ \A r \in R : IF Outstanding(r) THEN r \in due /\ told[r] = 0 ELSE told[r] = (IF r \in due THEN 1 ELSE 0)

PlacesInv == OnePlace /\ ToldInv

-----------------------------------------------------------------------------
Infos == {info \in [next : Nat, interval : Nat \ {0}] :
            info.next < NO_ALARM_UPDATE /\ PullMaxTime + info.interval < NO_ALARM_UPDATE}

TimesInv ==
  /\ pNow \in 1 .. PullMaxTime
  /\ DOMAIN mReceivers \subseteq R /\ \A r \in DOMAIN mReceivers : mReceivers[r] \in Infos
  /\ mNextPullTimeNs \in 0 .. NO_ALARM_UPDATE /\ minNextPullTimeNs \in 0 .. NO_ALARM_UPDATE
  /\ companion \in [up : BOOLEAN, alarm : Nat]
  /\ IF mLockHolder # "alarm"
       THEN /\ \A r \in DOMAIN mReceivers : mNextPullTimeNs <= mReceivers[r].next
            /\ companion.up => companion.alarm <= mNextPullTimeNs
     ELSE /\ eventTimeNs \in 1 .. PullMaxTime /\ due \subseteq DOMAIN mReceivers
          /\ companion = Companion(TRUE, NO_ALARM_UPDATE)
          /\ \A r \in DOMAIN mReceivers :
               IF Outstanding(r) THEN mReceivers[r].next <= eventTimeNs
               ELSE minNextPullTimeNs <= mReceivers[r].next

-----------------------------------------------------------------------------
Pullers == [coolDown : Nat, mLastPullTimeNs : Nat, mLastEventTimeNs : Nat, mHasGoodData : BOOLEAN, mCachedData : Nat]
Questions == [tag : Tags, at : Nat, event : Nat, inTime : BOOLEAN]

\* A question that was answered in time.
Answered(n, tag) == n \in DOMAIN questions /\ questions[n].tag = tag /\ questions[n].inTime

CacheGood(t) ==
  pullers[t].mCachedData # NoData =>
    /\ Answered(pullers[t].mCachedData, t) /\ pullers[t].mHasGoodData
    /\ questions[pullers[t].mCachedData].event = pullers[t].mLastEventTimeNs
    /\ questions[pullers[t].mCachedData].at = pullers[t].mLastPullTimeNs

CachesInv == \A t \in Tags : CacheGood(t)

\* The question that thread w waits for is the last of its puller.
WaitsFor(w, n) ==
  /\ n \in DOMAIN questions /\ questions[n].tag = task[w].tag /\ ~questions[n].inTime
  /\ questions[n].event = eventTimeNs
  /\ pullers[task[w].tag].mLastEventTimeNs = eventTimeNs
  /\ pullers[task[w].tag].mLastPullTimeNs = questions[n].at
  /\ pullers[task[w].tag].mCachedData = NoData

WaitsInv ==
  /\ \A w \in AllThreads : pullPc[w] = "wait" => WaitsFor(w, wait[w].question)
  /\ \A v, w \in AllThreads : pullPc[v] = "wait" /\ pullPc[w] = "wait" /\ task[v].tag = task[w].tag => v = w

GoodResult(tag, outcome) ==
  outcome.data # NoData =>
    /\ tag \in Tags /\ Answered(outcome.data, tag) /\ outcome.code = "SUCCESS"
    /\ \/ questions[outcome.data].event = eventTimeNs
       \/ outcome.asOf - questions[outcome.data].at < pullers[tag].coolDown

ResultsInv ==
  /\ \A i \in DOMAIN pulledData : GoodResult(pulledData[i].what.tag, pulledData[i].outcome)
  /\ \A w \in AllThreads : pullPc[w] = "push" => GoodResult(task[w].tag, result[w])

\* Whoever was asked in this alarm knows it.
AskedInv ==
  /\ before \in Nat
  /\ mLockHolder = "alarm" =>
       \A i \in DOMAIN questions : i > before =>
         /\ pullers[questions[i].tag].mLastEventTimeNs = eventTimeNs
         /\ \A j \in DOMAIN questions : j > before /\ questions[i].tag = questions[j].tag => i = j

DataInv ==
  /\ eventTimeNs \in Nat /\ pullers \in [Tags -> Pullers] /\ questions \in Seq(Questions)
  /\ CachesInv /\ WaitsInv /\ ResultsInv /\ AskedInv

PullInv == ThreadsInv /\ PlacesInv /\ TimesInv /\ DataInv

-----------------------------------------------------------------------------
\* A nonempty set of naturals has a smallest member.
LEMMA MinOfNat ==
  ASSUME NEW T, T \subseteq Nat, T # {}
  PROVE  Min(T) \in T /\ \A y \in T : Min(T) <= y
<1>1. PICK x \in T : \A y \in T : ~ (<<y, x>> \in OpToRel(<, Nat))
  BY NatLessThanWellFounded, WFMin, Zenon
<1>2. ASSUME NEW y \in T
      PROVE  x <= y
  <2>1. ~(y < x)
    BY <1>1 DEF OpToRel
  <2> QED
    BY <2>1
<1> QED
  BY <1>2, Zenon DEF Min

\* The larger of two numbers.
LEMMA MaxOfTwo ==
  ASSUME NEW a \in Nat, NEW b \in Nat
  PROVE  Max({a, b}) \in Nat /\ a <= Max({a, b}) /\ b <= Max({a, b})
<1>1. \E x \in {a, b} : \A y \in {a, b} : x >= y
  OBVIOUS
<1>2. Max({a, b}) \in {a, b} /\ \A y \in {a, b} : Max({a, b}) >= y
  BY <1>1, Zenon DEF Max
<1> QED
  BY <1>2

\* A finite set as a sequence has each member once.
LEMMA SetToSeqOnce ==
  ASSUME NEW S, IsFiniteSet(S)
  PROVE  /\ SetToSeq(S) \in Seq(S)
         /\ \A i, j \in DOMAIN SetToSeq(S) : SetToSeq(S)[i] = SetToSeq(S)[j] => i = j
         /\ \A x \in S : \E i \in DOMAIN SetToSeq(S) : SetToSeq(S)[i] = x
<1> DEFINE n == Cardinality(S)
           f == SetToSeq(S)
<1>1. n \in Nat /\ ExistsBijection(1 .. n, S)
  BY FS_CardinalityType
<1>2. \E g \in [1 .. n -> S] : IsInjective(g)
  BY <1>1, Zenon DEF ExistsBijection, Bijection, Injection, IsInjective
<1>3. f \in [1 .. n -> S] /\ IsInjective(f)
  BY <1>2, Zenon DEF SetToSeq
<1>4. f \in Seq(S) /\ DOMAIN f = 1 .. n
  BY <1>1, <1>3
<1>5. \A i, j \in DOMAIN f : f[i] = f[j] => i = j
  BY <1>3, Zenon DEF IsInjective
<1> DEFINE T == {f[i] : i \in 1 .. n}
<1>6. f \in Bijection(1 .. n, T)
  BY <1>3, <1>4, <1>5, Zenon DEF Bijection, Injection, Surjection, IsInjective
<1>7. Cardinality(T) = n
  BY <1>1, <1>6, FS_CountingElements DEF ExistsBijection
<1>8. T \in SUBSET S
  BY <1>3
<1>9. T = S
  BY <1>7, <1>8, FS_Subset
<1>10. \A x \in S : \E i \in DOMAIN f : f[i] = x
  BY <1>9, <1>4
<1> QED
  BY <1>4, <1>5, <1>10

-----------------------------------------------------------------------------
(* Threads *)

\* Nothing that the threads go by changes.
ThreadsRest == UNCHANGED <<mLockHolder, pullerQueue, pulledData, pendingThreads, pullPc, task, wait, result>>

\* Threads that do nothing stay as they are.
LEMMA ThreadsAtRest == ThreadsInv /\ ThreadsRest => ThreadsInv'
  BY DEF ThreadsInv, ThreadTypes, HolderInv, ThreadsRest, Busy, Running

\* A call under mLock leaves the threads alone.
LEMMA CallRest ==
  ASSUME PullCall
  PROVE  ThreadsRest /\ mLockHolder = "nobody" /\ UNCHANGED <<pNow, eventTimeNs, alarmVars, questions>>
  BY DEF PullCall, ThreadsRest, alarmVars, threadVars

\* At first no thread runs.
LEMMA ThreadsStart == PullInit => ThreadsInv
<1> SUFFICES ASSUME PullInit PROVE ThreadsInv
  OBVIOUS
<1>1. Running = {} /\ Cardinality({}) = 0
  BY FS_EmptySet DEF PullInit, Running, AllThreads
<1>2. NoResult \in Outcomes
  BY DEF NoResult, Outcomes, Result, NoData
<1>3. pullerQueue \in Seq(Tasks) /\ pulledData \in Seq({}) /\ Len(pulledData) = 0 
  BY DEF PullInit
<1> QED
  BY <1>1, <1>2, <1>3 DEF PullInit, ThreadsInv, ThreadTypes, HolderInv, Busy, AllThreads, Caller

\* Thread w goes from one place to another while an alarm or a direct pull is handled.
LEMMA RunningKept ==
  ASSUME ThreadTypes, NEW w \in AllThreads, NEW to, pullPc[w] # "off", to # "off",
         pullPc' = [pullPc EXCEPT ![w] = to]
  PROVE  Running' = Running
<1>1. ASSUME NEW v \in PullThreads
      PROVE  (pullPc[v] # "off") <=> (pullPc'[v] # "off")
  BY DEF ThreadTypes, AllThreads
<1> QED
  BY <1>1 DEF Running

\* The places of the code between which w may be.
LEMMA MoveOfThread ==
  ASSUME ThreadsInv, NEW w \in AllThreads, NEW to \in {"pull", "wait", "push"}, Busy(w),
         pullPc' = [pullPc EXCEPT ![w] = to], DOMAIN wait' = AllThreads, result' \in [AllThreads -> Outcomes],
         UNCHANGED <<mLockHolder, pullerQueue, pulledData, pendingThreads, task>>
  PROVE  ThreadsInv' /\ \A v \in AllThreads : Busy(v)' <=> Busy(v)
<1>1. \A v \in AllThreads : Busy(v)' <=> Busy(v)
  BY DEF Busy, ThreadsInv, ThreadTypes
<1>2. Running' = Running
  BY RunningKept DEF Busy, ThreadsInv
<1>3. ThreadTypes'
  BY <1>1 DEF ThreadsInv, ThreadTypes
<1>4. \A v \in AllThreads : pullPc[v] = "off" => pullPc'[v] = "off"
  BY DEF Busy, ThreadsInv, ThreadTypes
<1>5. \A v \in AllThreads : pullPc[v] = "pop" => pullPc'[v] = "pop"
  BY DEF Busy, ThreadsInv, ThreadTypes
<1>6. Caller \in AllThreads /\ PullThreads \subseteq AllThreads
  BY DEF AllThreads
<1>7. HolderInv'
  BY <1>1, <1>2, <1>4, <1>5, <1>6 DEF ThreadsInv, HolderInv
<1> QED
  BY <1>1, <1>3, <1>7 DEF ThreadsInv

\* What is known of the data that a pull may return.
LEMMA ReturnType ==
  ASSUME ThreadsInv, NEW w \in AllThreads, NEW code \in {"SUCCESS", "FAIL", "DEAD_OBJECT"}, NEW data \in Nat,
         pNow \in Nat, Returns(w, code, data)
  PROVE  result' \in [AllThreads -> Outcomes]
<1>1. Result(code, data, pNow) \in Outcomes
  BY DEF Result, Outcomes
<1> QED
  BY <1>1 DEF Returns, ThreadsInv, ThreadTypes

\* What a puller has cached is a number, and so is a question that is waited for.
LEMMA NumbersOfPull ==
  ASSUME PullInv
  PROVE  /\ pNow \in Nat /\ eventTimeNs \in Nat /\ Len(questions) \in Nat
         /\ \A t \in Tags : pullers[t] \in Pullers
         /\ \A w \in AllThreads : pullPc[w] = "wait" => wait[w].question \in Nat
         /\ \A w \in AllThreads : Busy(w) => task[w].tag \in Tags
<1>1. \A w \in AllThreads : pullPc[w] = "wait" => wait[w].question \in Nat
  BY DEF PullInv, DataInv, WaitsInv, WaitsFor
<1>2. \A w \in AllThreads : Busy(w) => task[w].tag \in Tags
  BY DEF PullInv, ThreadsInv, ThreadTypes, Tasks
<1>3. pNow \in Nat /\ eventTimeNs \in Nat /\ Len(questions) \in Nat
  BY DEF PullInv, TimesInv, DataInv
<1> QED
  BY <1>1, <1>2, <1>3 DEF PullInv, DataInv

\* A pull that begins leaves its thread at work.
LEMMA PullBeginThreads ==
  ASSUME PullInv, NEW w \in AllThreads, PullBegin(w)
  PROVE  ThreadsInv' /\ \A v \in AllThreads : Busy(v)' <=> Busy(v)
<1> DEFINE tag == task[w].tag
<1>1. pullPc[w] = "pull" /\ Busy(w)
  BY DEF PullBegin, Busy
<1>2. UNCHANGED <<mLockHolder, pullerQueue, pulledData, pendingThreads, task>>
  BY DEF PullBegin, alarmVars
<1>3. ThreadsInv /\ DOMAIN wait = AllThreads /\ result \in [AllThreads -> Outcomes]
  BY DEF PullInv, ThreadsInv, ThreadTypes
<1>4. tag \in Tags /\ pNow \in Nat /\ pullers[tag].mCachedData \in Nat
  BY <1>1, NumbersOfPull DEF Pullers
<1>5. CASE UseCache(w, pullers[tag])
  <2>1. PICK code \in {"SUCCESS", "FAIL"} : Returns(w, code, pullers[tag].mCachedData)
    BY <1>5 DEF UseCache
  <2>2. result' \in [AllThreads -> Outcomes]
    BY <2>1, <1>3, <1>4, ReturnType
  <2> QED
    BY <1>1, <1>2, <1>3, <1>5, <2>1, <2>2, MoveOfThread DEF Returns, UseCache
<1>6. CASE AskClient(w, tag)
  <2>1. CASE pullPc' = [pullPc EXCEPT ![w] = "wait"] /\ wait' = [wait EXCEPT ![w] = Wait(Len(questions) + 1, "none")]
             /\ UNCHANGED result
    <3>1. DOMAIN wait' = AllThreads
      BY <2>1, <1>3
    <3> QED
      BY <1>1, <1>2, <1>3, <2>1, <3>1, MoveOfThread
  <2>2. CASE (\E code \in {"FAIL", "DEAD_OBJECT"} : Returns(w, code, NoData)) /\ UNCHANGED wait
    <3>1. PICK code \in {"FAIL", "DEAD_OBJECT"} : Returns(w, code, NoData)
      BY <2>2
    <3>2. result' \in [AllThreads -> Outcomes]
      BY <3>1, <1>3, <1>4, ReturnType DEF NoData
    <3> QED
      BY <1>1, <1>2, <1>3, <2>2, <3>1, <3>2, MoveOfThread DEF Returns
  <2> QED
    BY <1>6, <2>1, <2>2 DEF AskClient
<1> QED
  BY <1>5, <1>6 DEF PullBegin

\* So does one that ends: the result is still to be handed over.
LEMMA PullEndThreads ==
  ASSUME PullInv, NEW w \in AllThreads, NEW late \in BOOLEAN, PullEnd(w, late)
  PROVE  ThreadsInv' /\ \A v \in AllThreads : Busy(v)' <=> Busy(v)
<1> DEFINE data == IF DataGood(wait[w].answer, late) THEN wait[w].question ELSE NoData
<1>1. pullPc[w] = "wait" /\ Busy(w)
  BY DEF PullEnd, Busy
<1>2. UNCHANGED <<mLockHolder, pullerQueue, pulledData, pendingThreads, task>>
  BY DEF PullEnd, alarmVars
<1>3. ThreadsInv /\ DOMAIN wait = AllThreads
  BY DEF PullInv, ThreadsInv, ThreadTypes
<1>4. data \in Nat /\ pNow \in Nat
  BY <1>1, NumbersOfPull DEF NoData
<1>5. Returns(w, IF data # NoData THEN "SUCCESS" ELSE "FAIL", data)
  BY DEF PullEnd
<1> HIDE DEF data
<1>6. PICK code \in {"SUCCESS", "FAIL"} : Returns(w, code, data)
  BY <1>5
<1>7. result' \in [AllThreads -> Outcomes]
  BY <1>6, <1>3, <1>4, ReturnType
<1>8. DOMAIN wait' = AllThreads
  BY <1>3 DEF PullEnd
<1> QED
  BY <1>1, <1>2, <1>3, <1>6, <1>7, <1>8, MoveOfThread DEF Returns

\* An answer moves no thread.
LEMMA AnswerThreads ==
  ASSUME PullInv, NEW w \in AllThreads, Answer(w)
  PROVE  ThreadsInv' /\ \A v \in AllThreads : Busy(v)' <=> Busy(v)
<1>1. DOMAIN wait' = AllThreads
  BY DEF Answer, PullInv, ThreadsInv, ThreadTypes
<1>2. UNCHANGED <<mLockHolder, pullerQueue, pulledData, pendingThreads, pullPc, task, result>>
  BY DEF Answer, alarmVars
<1>3. ThreadTypes'
  BY <1>1, <1>2 DEF PullInv, ThreadsInv, ThreadTypes, Busy
<1>4. HolderInv'
  BY <1>2 DEF PullInv, ThreadsInv, HolderInv, Busy, Running
<1> QED
  BY <1>2, <1>3, <1>4 DEF ThreadsInv, Busy

\* The thread that calls Pull is not one of an alarm.
LEMMA CallerApart == Caller \in AllThreads /\ Caller \notin PullThreads /\ PullThreads \subseteq AllThreads
  BY PullAssumption DEF Caller, AllThreads, PullThreads

\* A direct pull is none of the threads that an alarm counts.
LEMMA RunningOfCaller ==
  ASSUME ThreadTypes, NEW to, pullPc' = [pullPc EXCEPT ![Caller] = to]
  PROVE  Running' = Running
<1>1. ASSUME NEW v \in PullThreads
      PROVE  pullPc'[v] = pullPc[v]
  BY CallerApart DEF ThreadTypes
<1> QED
  BY <1>1 DEF Running

\* Outside of an alarm no thread of it runs, and nothing is queued.
LEMMA NobodyAtRest ==
  ASSUME ThreadsInv, mLockHolder # "alarm"
  PROVE  /\ pullerQueue = << >> /\ pulledData = << >> /\ Running = {} /\ pendingThreads = 0
         /\ \A w \in PullThreads : pullPc[w] = "off"
         /\ mLockHolder = "nobody" => \A w \in AllThreads : pullPc[w] = "off"
<1>1. pullerQueue = << >> /\ pulledData = << >> /\ Running = {} /\ pendingThreads = 0
  BY FS_EmptySet DEF ThreadsInv, HolderInv
<1>2. \A w \in PullThreads : pullPc[w] = "off"
  BY <1>1 DEF Running
<1>3. mLockHolder = "nobody" => \A w \in AllThreads : pullPc[w] = "off"
  BY <1>2 DEF ThreadsInv, HolderInv, AllThreads
<1> QED
  BY <1>1, <1>2, <1>3

\* Pull takes mLock and pulls on the thread of its caller.
LEMMA DirectPullThreads ==
  ASSUME ThreadsInv, NEW tag \in Tags, DirectPull(tag)
  PROVE  ThreadsInv'
<1>1. mLockHolder = "nobody" /\ mLockHolder' = "direct"
  BY DEF DirectPull
<1>2. pullPc' = [pullPc EXCEPT ![Caller] = "pull"] /\ task' = [task EXCEPT ![Caller] = Task(tag, {})]
  BY DEF DirectPull
<1>3. UNCHANGED <<pullerQueue, pulledData, pendingThreads, wait, result>>
  BY DEF DirectPull, alarmVars
<1>4. Running' = Running
  BY <1>2, RunningOfCaller DEF ThreadsInv
<1>5. Task(tag, {}) \in Tasks /\ Task(tag, {}).receivers = {}
  BY DEF Task, Tasks
<1>6. \A w \in AllThreads : Busy(w)' => w = Caller
  BY <1>1, <1>2, NobodyAtRest DEF Busy, ThreadsInv, ThreadTypes
<1>7. pullPc'[Caller] = "pull" /\ task'[Caller] = Task(tag, {})
  BY <1>2, CallerApart DEF ThreadsInv, ThreadTypes
<1>8. pullPc' \in [AllThreads -> {"off", "pop", "pull", "wait", "push", "exit"}] /\ DOMAIN task' = AllThreads
  BY <1>2 DEF ThreadsInv, ThreadTypes
<1>9. ThreadTypes'
  BY <1>3, <1>5, <1>6, <1>7, <1>8 DEF ThreadsInv, ThreadTypes
<1>10. HolderInv'
  BY <1>1, <1>3, <1>4, <1>5, <1>7, NobodyAtRest DEF ThreadsInv, HolderInv, Busy
<1> QED
  BY <1>9, <1>10 DEF ThreadsInv

\* It returns and gives mLock back.
LEMMA DirectPullReturnsThreads ==
  ASSUME ThreadsInv, DirectPullReturns
  PROVE  ThreadsInv'
<1>1. mLockHolder = "direct" /\ mLockHolder' = "nobody"
  BY DEF DirectPullReturns
<1>2. pullPc' = [pullPc EXCEPT ![Caller] = "off"] /\ task' = [task EXCEPT ![Caller] = NoTask]
      /\ result' = [result EXCEPT ![Caller] = NoResult]
  BY DEF DirectPullReturns
<1>3. UNCHANGED <<pullerQueue, pulledData, pendingThreads, wait>>
  BY DEF DirectPullReturns, alarmVars
<1>4. Running' = Running
  BY <1>2, RunningOfCaller DEF ThreadsInv
<1>5. NoResult \in Outcomes
  BY DEF NoResult, Outcomes, Result, NoData
<1>6. \A w \in AllThreads : pullPc'[w] = "off"
  BY <1>1, <1>2, NobodyAtRest DEF AllThreads, ThreadsInv, ThreadTypes
<1>8. /\ pullPc' \in [AllThreads -> {"off", "pop", "pull", "wait", "push", "exit"}]
      /\ DOMAIN task' = AllThreads /\ result' \in [AllThreads -> Outcomes]
  BY <1>2, <1>5 DEF ThreadsInv, ThreadTypes
<1>9. ThreadTypes'
  BY <1>3, <1>6, <1>8 DEF ThreadsInv, ThreadTypes, Busy
<1>10. HolderInv'
  BY <1>1, <1>3, <1>4, <1>6, CallerApart, NobodyAtRest DEF ThreadsInv, HolderInv
<1> QED
  BY <1>9, <1>10 DEF ThreadsInv

\* A worker between its pulls.
LEMMA WorkerIs ==
  ASSUME ThreadsInv, NEW w \in AllThreads, pullPc[w] \in {"pop", "exit"} \/ (w # Caller /\ pullPc[w] = "push")
  PROVE  w \in PullThreads /\ mLockHolder = "alarm"
<1>1. w # Caller
  BY DEF ThreadsInv, HolderInv, Busy
<1>2. w \in PullThreads
  BY <1>1 DEF AllThreads
<1> QED
  BY <1>2, NobodyAtRest

\* A thread takes a task, or finds none and leaves.
LEMMA WorkerPopThreads ==
  ASSUME ThreadsInv, NEW w \in AllThreads, WorkerPop(w)
  PROVE  ThreadsInv'
<1>1. pullPc[w] = "pop" /\ UNCHANGED <<mLockHolder, pulledData, pendingThreads, wait, result>>
  BY DEF WorkerPop
<1>2. w \in PullThreads /\ mLockHolder = "alarm" /\ w # Caller
  BY <1>1, WorkerIs, CallerApart
<1>3. PICK to \in {"pull", "exit"} : pullPc' = [pullPc EXCEPT ![w] = to]
  BY DEF WorkerPop
<1>4. Running' = Running
  BY <1>1, <1>3, RunningKept DEF ThreadsInv
<1>5. pullPc'[Caller] = pullPc[Caller]
  BY <1>2, <1>3, CallerApart DEF ThreadsInv, ThreadTypes
<1>6. pullPc' \in [AllThreads -> {"off", "pop", "pull", "wait", "push", "exit"}]
  BY <1>3 DEF ThreadsInv, ThreadTypes
<1>7. CASE pullerQueue = << >> /\ pullPc' = [pullPc EXCEPT ![w] = "exit"] /\ UNCHANGED <<pullerQueue, task>>
  <2>1. \A v \in AllThreads : Busy(v)' => Busy(v)
    BY <1>7 DEF Busy, ThreadsInv, ThreadTypes
  <2>2. ThreadTypes'
    BY <1>1, <1>6, <1>7, <2>1 DEF ThreadsInv, ThreadTypes
  <2>3. HolderInv'
    BY <1>1, <1>2, <1>4, <1>5, <1>7 DEF ThreadsInv, HolderInv
  <2> QED
    BY <2>2, <2>3 DEF ThreadsInv
<1>8. CASE /\ pullerQueue # << >> /\ pullPc' = [pullPc EXCEPT ![w] = "pull"]
           /\ task' = [task EXCEPT ![w] = Head(pullerQueue)] /\ pullerQueue' = Tail(pullerQueue)
  <2>1. Head(pullerQueue) \in Tasks /\ pullerQueue' \in Seq(Tasks)
    BY <1>8 DEF ThreadsInv, ThreadTypes
  <2>2. \A v \in AllThreads : Busy(v)' => v = w \/ Busy(v)
    BY <1>8 DEF Busy, ThreadsInv, ThreadTypes
  <2>3. ThreadTypes'
    BY <1>1, <1>6, <1>8, <2>1, <2>2 DEF ThreadsInv, ThreadTypes
  <2>4. Busy(w)'
    BY <1>8 DEF Busy, ThreadsInv, ThreadTypes
  <2>5. HolderInv'
    BY <1>1, <1>2, <1>4, <1>5, <2>4 DEF ThreadsInv, HolderInv
  <2> QED
    BY <2>3, <2>5 DEF ThreadsInv
<1> QED
  BY <1>7, <1>8 DEF WorkerPop

\* A thread hands its result over and looks for the next task.
LEMMA WorkerPushThreads ==
  ASSUME ThreadsInv, NEW w \in AllThreads, WorkerPush(w)
  PROVE  ThreadsInv'
<1>1. w # Caller /\ pullPc[w] = "push" /\ UNCHANGED <<mLockHolder, pullerQueue, pendingThreads, wait>>
  BY DEF WorkerPush
<1>2. w \in PullThreads /\ mLockHolder = "alarm"
  BY <1>1, WorkerIs
<1>3. /\ pullPc' = [pullPc EXCEPT ![w] = "pop"] /\ task' = [task EXCEPT ![w] = NoTask]
      /\ result' = [result EXCEPT ![w] = NoResult]
      /\ pulledData' = Append(pulledData, Pulled(task[w], result[w]))
  BY DEF WorkerPush
<1>4. Running' = Running
  BY <1>1, <1>3, RunningKept DEF ThreadsInv
<1>5. pullPc'[Caller] = pullPc[Caller] /\ pullPc'[w] = "pop"
  BY <1>1, <1>3, CallerApart DEF ThreadsInv, ThreadTypes
<1>6. NoResult \in Outcomes
  BY DEF NoResult, Outcomes, Result, NoData
<1>7. \A v \in AllThreads : Busy(v)' => v # w /\ Busy(v)
  BY <1>3 DEF Busy, ThreadsInv, ThreadTypes
<1>8. task[w] \in PulledTasks /\ result[w] \in Outcomes
  BY <1>1 DEF Busy, ThreadsInv, ThreadTypes, Tasks, PulledTasks
<1>9. Pulled(task[w], result[w]) \in AllPulled
  BY <1>8 DEF Pulled, AllPulled
<1>10. pulledData' \in Seq(AllPulled)
  BY <1>3, <1>9 DEF ThreadsInv, ThreadTypes
<1>11. /\ pullPc' \in [AllThreads -> {"off", "pop", "pull", "wait", "push", "exit"}]
       /\ DOMAIN task' = AllThreads /\ result' \in [AllThreads -> Outcomes]
       /\ \A v \in AllThreads : v # w => task'[v] = task[v]
  BY <1>3, <1>6 DEF ThreadsInv, ThreadTypes
<1>13. ThreadTypes'
  BY <1>1, <1>7, <1>10, <1>11 DEF ThreadsInv, ThreadTypes
<1>14. HolderInv'
  BY <1>1, <1>2, <1>4, <1>5 DEF ThreadsInv, HolderInv
<1> QED
  BY <1>13, <1>14 DEF ThreadsInv

\* The threads of an alarm can be counted.
LEMMA RunningFinite == IsFiniteSet(Running) /\ Cardinality(Running) \in Nat
<1>1. IsFiniteSet(PullThreads)
  BY PullAssumption, FS_Interval DEF PullThreads
<1>2. Running \subseteq PullThreads
  BY DEF Running
<1> QED
  BY <1>1, <1>2, FS_Subset, FS_CardinalityType

\* A thread that leaves is counted down.
LEMMA WorkerExitThreads ==
  ASSUME ThreadsInv, NEW w \in AllThreads, WorkerExit(w)
  PROVE  ThreadsInv' /\ \A v \in AllThreads : Busy(v)' <=> Busy(v)
<1>1. pullPc[w] = "exit" /\ UNCHANGED <<mLockHolder, pullerQueue, pulledData, task, wait, result>>
  BY DEF WorkerExit
<1>2. w \in PullThreads /\ mLockHolder = "alarm" /\ w # Caller
  BY <1>1, WorkerIs, CallerApart
<1>3. pullPc' = [pullPc EXCEPT ![w] = "off"] /\ pendingThreads' = pendingThreads - 1
  BY DEF WorkerExit
<1>4. Running' = Running \ {w} /\ w \in Running
  BY <1>1, <1>2, <1>3, CallerApart DEF Running, ThreadsInv, ThreadTypes
<1>5. Cardinality(Running') = Cardinality(Running) - 1
  BY <1>4, RunningFinite, FS_RemoveElement
<1>6. \A v \in AllThreads : (Busy(v)' <=> Busy(v)) /\ (pullPc[v] = "pop" => pullPc'[v] = "pop")
  BY <1>1, <1>3 DEF Busy, ThreadsInv, ThreadTypes
<1>7. pullPc'[Caller] = pullPc[Caller]
  BY <1>2, <1>3, CallerApart DEF ThreadsInv, ThreadTypes
<1>8. ThreadTypes'
  BY <1>1, <1>3, <1>6 DEF ThreadsInv, ThreadTypes
<1>9. HolderInv'
  BY <1>1, <1>2, <1>3, <1>5, <1>6, <1>7, CallerApart DEF ThreadsInv, HolderInv
<1> QED
  BY <1>6, <1>8, <1>9 DEF ThreadsInv

\* The main thread takes the first result.
LEMMA ProcessPulledThreads ==
  ASSUME ThreadsInv, ProcessPulled
  PROVE  /\ ThreadsInv' /\ pulledData # << >> /\ Len(pulledData') = Len(pulledData) - 1
         /\ \A i \in DOMAIN pulledData' : i + 1 \in DOMAIN pulledData /\ pulledData'[i] = pulledData[i + 1]
         /\ 1 \in DOMAIN pulledData /\ Head(pulledData) = pulledData[1]
<1>1. UNCHANGED <<mLockHolder, pullerQueue, pendingThreads, pullPc, task, wait, result>>
  BY DEF ProcessPulled, threadVars
<1>2. mLockHolder = "alarm" /\ pulledData # << >> /\ pulledData' = Tail(pulledData)
  BY DEF ProcessPulled
<1>3. pulledData \in Seq(AllPulled)
  BY DEF ThreadsInv, ThreadTypes
<1>4. /\ pulledData' \in Seq(AllPulled)
      /\ Len(pulledData') = Len(pulledData) - 1
      /\ \A i \in DOMAIN pulledData' : i + 1 \in DOMAIN pulledData /\ pulledData'[i] = pulledData[i + 1]
      /\ 1 \in DOMAIN pulledData /\ Head(pulledData) = pulledData[1]
  BY <1>2, <1>3
<1>5. ThreadTypes'
  BY <1>1, <1>4 DEF ThreadsInv, ThreadTypes, Busy
<1>6. HolderInv'
  BY <1>1, <1>2 DEF ThreadsInv, HolderInv, Running, Busy
<1> QED
  BY <1>2, <1>4, <1>5, <1>6 DEF ThreadsInv

\* An alarm ends with the queue empty: no thread left it with a task in it.
LEMMA AlarmEndsThreads ==
  ASSUME ThreadsInv, AlarmEnds
  PROVE  /\ ThreadsInv' /\ pullerQueue = << >> /\ pulledData = << >>
         /\ \A w \in AllThreads : pullPc[w] = "off"
<1>1. UNCHANGED <<pulledData, pendingThreads, pullPc, task, wait, result>>
  BY DEF AlarmEnds, threadVars
<1>2. /\ mLockHolder = "alarm" /\ mLockHolder' = "nobody" /\ pullerQueue' = << >>
      /\ pendingThreads = 0 /\ pulledData = << >>
  BY DEF AlarmEnds, LoopEnds
<1>3. Running = {}
  BY <1>2, RunningFinite, FS_EmptySet DEF ThreadsInv, HolderInv
<1>4. \A w \in PullThreads : pullPc[w] = "off"
  BY <1>3 DEF Running
<1>5. \A w \in AllThreads : pullPc[w] = "off"
  BY <1>2, <1>4 DEF AllThreads, ThreadsInv, HolderInv
<1>6. pullerQueue = << >>
  BY <1>4 DEF ThreadsInv, HolderInv, Busy
<1>7. ThreadTypes'
  BY <1>1, <1>2 DEF ThreadsInv, ThreadTypes, Busy
<1>8. HolderInv'
  BY <1>1, <1>2, <1>3, <1>5, CallerApart DEF ThreadsInv, HolderInv, Running, Busy
<1> QED
  BY <1>2, <1>5, <1>6, <1>7, <1>8 DEF ThreadsInv

-----------------------------------------------------------------------------
(* The queue of an alarm *)

Groups(needed) == {GroupOf(needed, r) : r \in needed}

\* Receivers of one atom and config are one group, and each is in one.
LEMMA GroupsApart ==
  ASSUME NEW needed \in SUBSET R
  PROVE  /\ IsFiniteSet(Groups(needed)) /\ IsFiniteSet(FailedGroups(Groups(needed)))
         /\ IsFiniteSet(Groups(needed) \ FailedGroups(Groups(needed)))
         /\ \A s \in Groups(needed) : s # {} /\ s \subseteq needed
         /\ \A s, t \in Groups(needed) : Meet(s, t) => s = t
         /\ \A r \in needed : r \in GroupOf(needed, r) /\ GroupOf(needed, r) \in Groups(needed)
         /\ \A s \in Groups(needed) : TagOfGroup(s) \in Tags
<1>1. \A r \in needed : r \in GroupOf(needed, r) /\ GroupOf(needed, r) \in Groups(needed)
  BY DEF GroupOf, Groups
<1>2. \A s \in Groups(needed) : s # {} /\ s \subseteq needed
  BY <1>1 DEF GroupOf, Groups
<1>3. \A s, t \in Groups(needed) : Meet(s, t) => s = t
  BY DEF GroupOf, Groups, Meet
<1>4. IsFiniteSet(R)
  BY PullAssumption
<1>5. IsFiniteSet(needed)
  BY <1>4, FS_Subset
<1>6. IsFiniteSet(Groups(needed))
  <2> DEFINE f == [r \in needed |-> GroupOf(needed, r)]
  <2>1. f \in Surjection(needed, Groups(needed))
    BY Zenon DEF Groups, Surjection
  <2> QED
    BY <2>1, <1>5, FS_Surjection
<1>7. FailedGroups(Groups(needed)) \subseteq Groups(needed)
  BY DEF FailedGroups
<1>8. /\ IsFiniteSet(FailedGroups(Groups(needed)))
      /\ IsFiniteSet(Groups(needed) \ FailedGroups(Groups(needed)))
  BY <1>6, <1>7, FS_Subset
<1>9. ASSUME NEW s \in Groups(needed)
      PROVE  TagOfGroup(s) \in Tags
  <2>1. (CHOOSE r \in s : TRUE) \in s
    BY <1>2
  <2> QED
    BY <1>2, <2>1, PullAssumption DEF TagOfGroup
<1> QED
  BY <1>1, <1>2, <1>3, <1>6, <1>8, <1>9

Found(needed) == Groups(needed) \ FailedGroups(Groups(needed))

\* The queue that an alarm starts with has each group with a puller once.
LEMMA QueueOfAlarm ==
  ASSUME NEW needed \in SUBSET R, initPullerQueue(needed)
  PROVE  /\ pullerQueue' \in Seq(Tasks)
         /\ \A i \in DOMAIN pullerQueue' : pullerQueue'[i].receivers \in Found(needed)
         /\ \A i, j \in DOMAIN pullerQueue' : pullerQueue'[i].receivers = pullerQueue'[j].receivers => i = j
         /\ \A s \in Found(needed) : \E i \in DOMAIN pullerQueue' : pullerQueue'[i].receivers = s
<1> DEFINE found == SetToSeq(Found(needed))
<1>1. pullerQueue' = [i \in DOMAIN found |-> Task(TagOfGroup(found[i]), found[i])]
  BY DEF initPullerQueue, Found, Groups
<1>2. /\ found \in Seq(Found(needed))
      /\ \A i, j \in DOMAIN found : found[i] = found[j] => i = j
      /\ \A s \in Found(needed) : \E i \in DOMAIN found : found[i] = s
  <2>1. IsFiniteSet(Found(needed))
    BY GroupsApart DEF Found
  <2> QED
    BY <2>1, SetToSeqOnce
<1> HIDE DEF found
<1>3. \A i \in DOMAIN found : found[i] \in Found(needed)
  BY <1>2
<1>4. \A s \in Found(needed) : s \in SUBSET R /\ TagOfGroup(s) \in Tags
  BY GroupsApart DEF Found
<1>5. \A s \in Found(needed) : Task(TagOfGroup(s), s) \in Tasks /\ Task(TagOfGroup(s), s).receivers = s
  BY <1>4 DEF Task, Tasks
<1>6. DOMAIN pullerQueue' = DOMAIN found /\ \A i \in DOMAIN found : pullerQueue'[i].receivers = found[i] /\ pullerQueue'[i] \in Tasks
  BY <1>1, <1>3, <1>5
<1>7. pullerQueue' \in Seq(Tasks)
  <2>1. pullerQueue' \in [1 .. Len(found) -> Tasks]
    BY <1>1, <1>2, <1>3, <1>5
  <2> QED
    BY <2>1, <1>2
<1> QED
  BY <1>2, <1>3, <1>6, <1>7

\* The groups without a puller have failed at once.
LEMMA FailedOfAlarm ==
  ASSUME NEW needed \in SUBSET R, initPullerQueue(needed), pNow \in Nat
  PROVE  /\ pulledData' \in Seq(AllPulled)
         /\ \A i \in DOMAIN pulledData' : /\ pulledData'[i].what.receivers \in FailedGroups(Groups(needed))
                                          /\ pulledData'[i].outcome.data = NoData
         /\ \A i, j \in DOMAIN pulledData' : pulledData'[i].what.receivers = pulledData'[j].what.receivers => i = j
         /\ \A s \in FailedGroups(Groups(needed)) : \E i \in DOMAIN pulledData' : pulledData'[i].what.receivers = s
<1> DEFINE F == FailedGroups(Groups(needed))
           failed == SetToSeq(F)
           o == Result("FAIL", NoData, pNow)
<1>1. pulledData' = [i \in DOMAIN failed |-> Pulled(Task("none", failed[i]), o)]
  BY DEF initPullerQueue, Groups
<1>2. /\ failed \in Seq(F)
      /\ \A i, j \in DOMAIN failed : failed[i] = failed[j] => i = j
      /\ \A s \in F : \E i \in DOMAIN failed : failed[i] = s
  BY GroupsApart, SetToSeqOnce
<1>3. o \in Outcomes /\ o.data = NoData
  BY DEF Result, Outcomes, NoData
<1>4. \A s \in F : s \in SUBSET R
  BY GroupsApart DEF FailedGroups
<1> HIDE DEF F, failed, o
<1>5. ASSUME NEW s \in F
      PROVE  /\ Pulled(Task("none", s), o) \in AllPulled
             /\ Pulled(Task("none", s), o).what.receivers = s
             /\ Pulled(Task("none", s), o).outcome = o
  <2>1. Task("none", s) \in PulledTasks /\ Task("none", s).receivers = s
    BY <1>4 DEF Task, PulledTasks
  <2> QED
    BY <2>1, <1>3 DEF Pulled, AllPulled
<1>6. \A i \in DOMAIN failed : failed[i] \in F
  BY <1>2
<1>7. DOMAIN pulledData' = DOMAIN failed /\ \A i \in DOMAIN failed :
        pulledData'[i] \in AllPulled /\ pulledData'[i].what.receivers = failed[i] /\ pulledData'[i].outcome.data = NoData
  BY <1>1, <1>3, <1>5, <1>6
<1>8. pulledData' \in Seq(AllPulled)
  <2>1. pulledData' \in [1 .. Len(failed) -> AllPulled]
    BY <1>1, <1>2, <1>5, <1>6
  <2> QED
    BY <2>1, <1>2
<1> QED
  BY <1>2, <1>6, <1>7, <1>8 DEF F

\* The threads that an alarm starts.
LEMMA OnAlarmFiredThreads ==
  ASSUME ThreadsInv, NEW needed \in SUBSET R, OnAlarmFired(needed), pNow \in Nat
  PROVE  ThreadsInv' /\ \A w \in AllThreads : ~Busy(w)'
<1>1. mLockHolder = "nobody" /\ mLockHolder' = "alarm" /\ UNCHANGED <<task, wait, result>>
  BY DEF OnAlarmFired
<1>2. pullerQueue' \in Seq(Tasks) /\ pulledData' \in Seq(AllPulled)
  BY QueueOfAlarm, FailedOfAlarm DEF OnAlarmFired
<1> DEFINE T == {Len(pullerQueue'), PULLER_THREAD_COUNT}
<1>3. T \subseteq Nat /\ T # {}
  BY <1>2, PullAssumption
<1>4. pendingThreads' = Min(T)
  BY DEF OnAlarmFired
<1>5. pendingThreads' \in T /\ \A y \in T : pendingThreads' <= y
  BY <1>3, <1>4, MinOfNat
<1>6. pendingThreads' \in Nat /\ pendingThreads' <= PULLER_THREAD_COUNT /\ (pullerQueue' # << >> => pendingThreads' >= 1)
  BY <1>2, <1>5, PullAssumption
<1>7. \A w \in AllThreads : pullPc[w] = "off"
  BY <1>1, NobodyAtRest
<1>8. pullPc' = [w \in AllThreads |-> IF w \in 1 .. pendingThreads' THEN "pop" ELSE "off"]
  BY <1>7 DEF OnAlarmFired
<1>9. Running' = 1 .. pendingThreads'
  BY <1>6, <1>8, PullAssumption DEF Running, AllThreads, PullThreads
<1>10. Cardinality(Running') = pendingThreads'
  BY <1>6, <1>9, FS_Interval
<1>11. \A w \in AllThreads : ~Busy(w)'
  BY <1>8 DEF Busy
<1>12. pullPc'[Caller] = "off"
  BY <1>6, <1>8, CallerApart DEF Caller
<1>13. pullerQueue' # << >> => \E w \in PullThreads : pullPc'[w] = "pop"
  <2>1. 1 \in PullThreads /\ 1 \in AllThreads
    BY PullAssumption DEF PullThreads, AllThreads
  <2> QED
    BY <1>6, <1>8, <2>1
<1>14. ThreadTypes'
  BY <1>1, <1>2, <1>8, <1>11 DEF ThreadsInv, ThreadTypes
<1>15. HolderInv'
  BY <1>1, <1>10, <1>12, <1>13 DEF HolderInv
<1> QED
  BY <1>11, <1>14, <1>15 DEF ThreadsInv

(* Places *)

\* When tasks stay where they are, so do the receivers.
LEMMA PlacesKept ==
  ASSUME PlacesInv, UNCHANGED <<pullerQueue, pulledData, told, due>>,
         \A v \in PullThreads : (Busy(v)' <=> Busy(v)) /\ (Busy(v) => task'[v] = task[v])
  PROVE  PlacesInv' /\ \A r \in R : Outstanding(r)' <=> Outstanding(r)
<1>1. \A r : (Queued(r)' <=> Queued(r)) /\ (InResult(r)' <=> InResult(r))
  BY DEF Queued, InResult
<1>2. \A r : InThread(r)' <=> InThread(r)
  BY DEF InThread
<1>3. \A r : Outstanding(r)' <=> Outstanding(r)
  BY <1>1, <1>2 DEF Outstanding
<1>4. OnePlace'
  BY <1>1, <1>2 DEF PlacesInv, OnePlace, Meet
<1>5. ToldInv'
  BY <1>3 DEF PlacesInv, ToldInv
<1> QED
  BY <1>3, <1>4, <1>5 DEF PlacesInv

\* A task that is taken from the queue is with its thread instead.
LEMMA WorkerPopPlaces ==
  ASSUME ThreadsInv, PlacesInv, NEW w \in AllThreads, WorkerPop(w)
  PROVE  PlacesInv' /\ \A r \in R : Outstanding(r)' <=> Outstanding(r)
<1>1. pullPc[w] = "pop" /\ UNCHANGED <<pulledData, told, due>>
  BY DEF WorkerPop
<1>2. w \in PullThreads /\ ~Busy(w)
  BY <1>1, WorkerIs DEF Busy
<1>3. CASE pullerQueue = << >> /\ pullPc' = [pullPc EXCEPT ![w] = "exit"] /\ UNCHANGED <<pullerQueue, task>>
  <2>1. \A v \in PullThreads : (Busy(v)' <=> Busy(v)) /\ (Busy(v) => task'[v] = task[v])
    BY <1>1, <1>3, CallerApart DEF Busy, ThreadsInv, ThreadTypes
  <2> QED
    BY <1>1, <1>3, <2>1, PlacesKept
<1>4. CASE /\ pullerQueue # << >> /\ pullPc' = [pullPc EXCEPT ![w] = "pull"]
           /\ task' = [task EXCEPT ![w] = Head(pullerQueue)] /\ pullerQueue' = Tail(pullerQueue)
  <2> DEFINE s == pullerQueue[1].receivers
  <2>1. pullerQueue \in Seq(Tasks) /\ Len(pullerQueue) \in Nat
    BY DEF ThreadsInv, ThreadTypes
  <2>2. /\ \A i \in DOMAIN pullerQueue' : /\ i + 1 \in DOMAIN pullerQueue /\ i + 1 # 1
                                          /\ pullerQueue'[i] = pullerQueue[i + 1]
        /\ 1 \in DOMAIN pullerQueue /\ Head(pullerQueue) = pullerQueue[1]
        /\ \A i \in DOMAIN pullerQueue : i # 1 =>
             i - 1 \in DOMAIN pullerQueue' /\ pullerQueue'[i - 1] = pullerQueue[i]
        /\ \A i \in DOMAIN pullerQueue : i \in Nat
        /\ \A i \in DOMAIN pullerQueue' : i \in Nat
    BY <1>4, <2>1
  <2>3. \A v \in PullThreads : /\ (Busy(v)' <=> Busy(v) \/ v = w)
                               /\ task'[v] = IF v = w THEN pullerQueue[1] ELSE task[v]
    BY <1>4, <2>2, CallerApart DEF Busy, ThreadsInv, ThreadTypes
  <2>4. ASSUME NEW r \in R
        PROVE  /\ Queued(r) <=> Queued(r)' \/ r \in s
               /\ ~(Queued(r)' /\ r \in s)
               /\ InThread(r)' <=> InThread(r) \/ r \in s
               /\ InResult(r)' <=> InResult(r)
    <3>1. Queued(r) <=> Queued(r)' \/ r \in s
      BY <2>2 DEF Queued
    <3>2. ~(Queued(r)' /\ r \in s)
      <4> SUFFICES ASSUME NEW i \in DOMAIN pullerQueue', r \in pullerQueue'[i].receivers, r \in s
                   PROVE  FALSE
        BY DEF Queued
      <4>1. Meet(pullerQueue[i + 1].receivers, pullerQueue[1].receivers)
        BY <2>2 DEF Meet
      <4>2. i + 1 = 1
        BY <2>2, <4>1 DEF PlacesInv, OnePlace
      <4> QED
        BY <4>2, <2>2
    <3>3. InThread(r)' <=> InThread(r) \/ r \in s
      BY <1>2, <2>3 DEF InThread
    <3> QED
      BY <1>1, <3>1, <3>2, <3>3 DEF InResult
  <2>5. s \subseteq R
    <3>1. pullerQueue[1] \in Tasks
      BY <2>1, <2>2
    <3> QED
      BY <3>1 DEF Tasks
  <2> HIDE DEF s
  <2>6. \A r \in R : Outstanding(r)' <=> Outstanding(r)
    BY <2>4 DEF Outstanding
  <2>7. ToldInv'
    BY <1>1, <2>6 DEF PlacesInv, ToldInv
  <2>8. \A r \in R : ~(Queued(r)' /\ InThread(r)') /\ ~(Queued(r)' /\ InResult(r)') /\ ~(InThread(r)' /\ InResult(r)')
    BY <2>4 DEF PlacesInv, OnePlace
  <2>9. \A i, j \in DOMAIN pullerQueue' : Meet(pullerQueue'[i].receivers, pullerQueue'[j].receivers) => i = j
    <3>1. \A i, j \in DOMAIN pullerQueue' : Meet(pullerQueue'[i].receivers, pullerQueue'[j].receivers) => i + 1 = j + 1
      BY <2>2 DEF PlacesInv, OnePlace
    <3> QED
      BY <2>2, <3>1
  <2>10. ASSUME NEW u \in PullThreads, NEW v \in PullThreads, Busy(u)', Busy(v)',
                Meet(task'[u].receivers, task'[v].receivers)
         PROVE  u = v
    <3>1. CASE u # w /\ v # w
      BY <2>3, <2>10, <3>1 DEF PlacesInv, OnePlace
    <3>2. ASSUME NEW t \in PullThreads, t # w, Busy(t)'
          PROVE  ~Meet(task'[t].receivers, task'[w].receivers)
      <4>1. task'[w].receivers = s /\ task'[t] = task[t] /\ Busy(t)
        BY <1>2, <2>3, <3>2 DEF s
      <4>2. ASSUME NEW r \in task[t].receivers, r \in s
            PROVE  FALSE
        <5>1. r \in R /\ InThread(r) /\ Queued(r)
          BY <4>1, <4>2, <2>4, <2>5 DEF InThread
        <5> QED
          BY <5>1 DEF PlacesInv, OnePlace
      <4> QED
        BY <4>1, <4>2 DEF Meet
    <3>3. \A a, b : Meet(a, b) => Meet(b, a)
      BY DEF Meet
    <3> QED
      BY <2>10, <3>1, <3>2, <3>3
  <2>11. OnePlace'
    BY <1>1, <2>8, <2>9, <2>10 DEF PlacesInv, OnePlace
  <2> QED
    BY <2>6, <2>7, <2>11 DEF PlacesInv
<1> QED
  BY <1>3, <1>4 DEF WorkerPop

\* A task that was pulled is among the results instead.
LEMMA WorkerPushPlaces ==
  ASSUME ThreadsInv, PlacesInv, NEW w \in AllThreads, WorkerPush(w)
  PROVE  PlacesInv' /\ \A r \in R : Outstanding(r)' <=> Outstanding(r)
<1>1. w # Caller /\ pullPc[w] = "push" /\ UNCHANGED <<pullerQueue, told, due>>
  BY DEF WorkerPush
<1>2. w \in PullThreads /\ Busy(w)
  BY <1>1, WorkerIs DEF Busy
<1> DEFINE s == task[w].receivers
           p == Pulled(task[w], result[w])
<1>3. p.what.receivers = s /\ s \subseteq R
  BY <1>2, CallerApart DEF Pulled, ThreadsInv, ThreadTypes, Tasks
<1>4. pulledData' = Append(pulledData, p) /\ pulledData \in Seq(AllPulled)
  BY DEF WorkerPush, ThreadsInv, ThreadTypes
<1> HIDE DEF p
<1>5. PICK n \in Nat : n = Len(pulledData)
  BY <1>4
<1>6. /\ DOMAIN pulledData' = DOMAIN pulledData \union {n + 1} /\ n + 1 \notin DOMAIN pulledData
      /\ \A i \in DOMAIN pulledData : pulledData'[i] = pulledData[i]
      /\ pulledData'[n + 1] = p
  BY <1>4, <1>5
<1>7. \A v \in PullThreads : /\ (Busy(v)' <=> Busy(v) /\ v # w)
                             /\ v # w => task'[v] = task[v]
  BY CallerApart DEF WorkerPush, Busy, ThreadsInv, ThreadTypes
<1>8. ASSUME NEW r \in R
      PROVE  /\ Queued(r) <=> Queued(r)'
             /\ InThread(r) <=> InThread(r)' \/ r \in s
             /\ ~(InThread(r)' /\ r \in s)
             /\ InResult(r)' <=> InResult(r) \/ r \in s
  <2>1. InThread(r) <=> InThread(r)' \/ r \in s
    BY <1>2, <1>7 DEF InThread
  <2>2. ~(InThread(r)' /\ r \in s)
    BY <1>2, <1>7 DEF InThread, PlacesInv, OnePlace, Meet
  <2>3. InResult(r)' <=> InResult(r) \/ r \in s
    BY <1>3, <1>6 DEF InResult
  <2> QED
    BY <1>1, <2>1, <2>2, <2>3 DEF Queued
<1> HIDE DEF s
<1>9. \A r \in R : Outstanding(r)' <=> Outstanding(r)
  BY <1>8 DEF Outstanding
<1>10. ToldInv'
  BY <1>1, <1>9 DEF PlacesInv, ToldInv
<1>11. \A r \in R : ~(Queued(r)' /\ InThread(r)') /\ ~(Queued(r)' /\ InResult(r)') /\ ~(InThread(r)' /\ InResult(r)')
  BY <1>8 DEF PlacesInv, OnePlace
<1>12. \A u, v \in PullThreads : Busy(u)' /\ Busy(v)' /\ Meet(task'[u].receivers, task'[v].receivers) => u = v
  BY <1>7 DEF PlacesInv, OnePlace
<1>13. ASSUME NEW i \in DOMAIN pulledData', NEW j \in DOMAIN pulledData',
              Meet(pulledData'[i].what.receivers, pulledData'[j].what.receivers)
       PROVE  i = j
  <2>1. CASE i \in DOMAIN pulledData /\ j \in DOMAIN pulledData
    BY <1>6, <1>13, <2>1 DEF PlacesInv, OnePlace
  <2>2. ASSUME NEW k \in DOMAIN pulledData
        PROVE  ~Meet(pulledData'[k].what.receivers, s)
    <3>1. ASSUME NEW r \in pulledData'[k].what.receivers, r \in s
          PROVE  FALSE
      <4>1. r \in R /\ InResult(r) /\ InThread(r)
        BY <1>3, <1>6, <1>8, <3>1 DEF InResult
      <4> QED
        BY <4>1 DEF PlacesInv, OnePlace
    <3> QED
      BY <3>1 DEF Meet
  <2>3. \A a, b : Meet(a, b) => Meet(b, a)
    BY DEF Meet
  <2> QED
    BY <1>3, <1>6, <1>13, <2>1, <2>2, <2>3
<1>14. OnePlace'
  BY <1>1, <1>11, <1>12, <1>13 DEF PlacesInv, OnePlace
<1> QED
  BY <1>9, <1>10, <1>14 DEF PlacesInv

\* The receivers of the first result are told, and were not told before.
LEMMA ProcessPulledPlaces ==
  ASSUME ThreadsInv, PlacesInv, ProcessPulled
  PROVE  /\ PlacesInv'
         /\ \A r \in R : /\ Outstanding(r)' <=> Outstanding(r) /\ r \notin pulledData[1].what.receivers
                         /\ r \in pulledData[1].what.receivers => Outstanding(r)
         /\ pulledData[1].what.receivers \subseteq due
<1>1. UNCHANGED <<pullerQueue, due, pullPc, task>>
  BY DEF ProcessPulled, threadVars
<1> DEFINE s == pulledData[1].what.receivers
<1>2. /\ Len(pulledData') = Len(pulledData) - 1
      /\ \A i \in DOMAIN pulledData' : i + 1 \in DOMAIN pulledData /\ pulledData'[i] = pulledData[i + 1]
      /\ 1 \in DOMAIN pulledData /\ Head(pulledData) = pulledData[1] /\ ThreadsInv'
  BY ProcessPulledThreads
<1>3. pulledData \in Seq(AllPulled) /\ pulledData' \in Seq(AllPulled)
  BY <1>2 DEF ThreadsInv, ThreadTypes
<1>4. /\ \A i \in DOMAIN pulledData : i # 1 => i - 1 \in DOMAIN pulledData' /\ pulledData'[i - 1] = pulledData[i]
      /\ \A i \in DOMAIN pulledData' : i \in Nat /\ i + 1 # 1
  BY <1>2, <1>3
<1>5. s \subseteq R
  <2>1. pulledData[1] \in AllPulled
    BY <1>2, <1>3
  <2> QED
    BY <2>1 DEF AllPulled, PulledTasks
<1>6. told' = [r \in R |-> IF r \in s THEN told[r] + 1 ELSE told[r]]
  BY <1>2 DEF ProcessPulled
<1>7. ASSUME NEW r \in R
      PROVE  /\ Queued(r)' <=> Queued(r)
             /\ InThread(r) <=> InThread(r)'
             /\ InResult(r) <=> InResult(r)' \/ r \in s
             /\ ~(InResult(r)' /\ r \in s)
  <2>1. InResult(r) <=> InResult(r)' \/ r \in s
    BY <1>2, <1>4 DEF InResult
  <2>2. ~(InResult(r)' /\ r \in s)
    <3> SUFFICES ASSUME NEW i \in DOMAIN pulledData', r \in pulledData'[i].what.receivers, r \in s
                 PROVE  FALSE
      BY DEF InResult
    <3>1. Meet(pulledData[i + 1].what.receivers, pulledData[1].what.receivers)
      BY <1>2 DEF Meet
    <3>2. i + 1 = 1
      BY <1>2, <3>1 DEF PlacesInv, OnePlace
    <3> QED
      BY <3>2, <1>4
  <2> QED
    BY <1>1, <2>1, <2>2 DEF Queued, InThread, Busy
<1> HIDE DEF s
<1>8. \A r \in R : (Outstanding(r)' <=> Outstanding(r) /\ r \notin s) /\ (r \in s => Outstanding(r))
  BY <1>7 DEF Outstanding, PlacesInv, OnePlace
<1>9. s \subseteq due
  BY <1>5, <1>8 DEF PlacesInv, ToldInv
<1>10. ToldInv'
  <2>1. told \in [R -> Nat] /\ due' = due /\ due \subseteq R
    BY <1>1 DEF PlacesInv, ToldInv
  <2>2. told' \in [R -> Nat]
    BY <1>6, <2>1
  <2>3. ASSUME NEW r \in R
        PROVE  IF Outstanding(r)' THEN r \in due /\ told'[r] = 0 ELSE told'[r] = (IF r \in due THEN 1 ELSE 0)
    <3>1. told'[r] = IF r \in s THEN told[r] + 1 ELSE told[r]
      BY <1>6
    <3>2. IF Outstanding(r) THEN r \in due /\ told[r] = 0 ELSE told[r] = (IF r \in due THEN 1 ELSE 0)
      BY DEF PlacesInv, ToldInv
    <3> QED
      BY <1>8, <3>1, <3>2
  <2> QED
    BY <2>1, <2>2, <2>3 DEF ToldInv
<1>11. \A i, j \in DOMAIN pulledData' : Meet(pulledData'[i].what.receivers, pulledData'[j].what.receivers) => i = j
  <2>1. \A i, j \in DOMAIN pulledData' : Meet(pulledData'[i].what.receivers, pulledData'[j].what.receivers) => i + 1 = j + 1
    BY <1>2 DEF PlacesInv, OnePlace
  <2> QED
    BY <1>4, <2>1
<1>12. \A r \in R : ~(Queued(r)' /\ InThread(r)') /\ ~(Queued(r)' /\ InResult(r)') /\ ~(InThread(r)' /\ InResult(r)')
  BY <1>7 DEF PlacesInv, OnePlace
<1>13. OnePlace'
  BY <1>1, <1>11, <1>12 DEF PlacesInv, OnePlace, Busy
<1> QED
  BY <1>8, <1>9, <1>10, <1>13 DEF PlacesInv, s

\* At the start just the receivers that need a pull are still to be told.
LEMMA OnAlarmFiredPlaces ==
  ASSUME ThreadsInv, NEW needed \in SUBSET R, OnAlarmFired(needed), pNow \in Nat, DOMAIN mReceivers \subseteq R
  PROVE  PlacesInv' /\ \A r \in R : Outstanding(r)' <=> r \in needed
<1>1. initPullerQueue(needed) /\ needed \subseteq DueAt(pNow)
  BY DEF OnAlarmFired
<1>2. due' = DueAt(pNow) /\ told' = [r \in R |-> IF r \in DueAt(pNow) \ needed THEN 1 ELSE 0]
  BY <1>1 DEF initPullerQueue
<1>3. \A w \in PullThreads : ~Busy(w)'
  BY OnAlarmFiredThreads, CallerApart
<1>4. /\ \A i \in DOMAIN pullerQueue' : pullerQueue'[i].receivers \in Found(needed)
      /\ \A i, j \in DOMAIN pullerQueue' : pullerQueue'[i].receivers = pullerQueue'[j].receivers => i = j
      /\ \A s \in Found(needed) : \E i \in DOMAIN pullerQueue' : pullerQueue'[i].receivers = s
  BY <1>1, QueueOfAlarm
<1> DEFINE F == FailedGroups(Groups(needed))
<1>5. /\ \A i \in DOMAIN pulledData' : pulledData'[i].what.receivers \in F
      /\ \A i, j \in DOMAIN pulledData' : pulledData'[i].what.receivers = pulledData'[j].what.receivers => i = j
      /\ \A s \in F : \E i \in DOMAIN pulledData' : pulledData'[i].what.receivers = s
  BY <1>1, FailedOfAlarm
<1>6. /\ Groups(needed) = Found(needed) \union F /\ \A s : ~(s \in Found(needed) /\ s \in F)
  BY DEF Found, FailedGroups
<1>7. /\ \A s, t \in Groups(needed) : Meet(s, t) => s = t
      /\ \A s \in Groups(needed) : s \subseteq needed
      /\ \A r \in needed : \E s \in Groups(needed) : r \in s
  <2>1. /\ \A s, t \in Groups(needed) : Meet(s, t) => s = t
        /\ \A s \in Groups(needed) : s \subseteq needed
        /\ \A r \in needed : r \in GroupOf(needed, r) /\ GroupOf(needed, r) \in Groups(needed)
    BY GroupsApart
  <2> QED
    BY <2>1
<1> HIDE DEF F
<1>8. ASSUME NEW r \in R
      PROVE  /\ Queued(r)' <=> \E s \in Found(needed) : r \in s
             /\ InResult(r)' <=> \E s \in F : r \in s
             /\ ~InThread(r)'
  <2>1. Queued(r)' <=> \E s \in Found(needed) : r \in s
    BY <1>4 DEF Queued
  <2>2. InResult(r)' <=> \E s \in F : r \in s
    BY <1>5 DEF InResult
  <2> QED
    BY <1>3, <2>1, <2>2 DEF InThread
<1>9. \A r \in R : Outstanding(r)' <=> r \in needed
  BY <1>6, <1>7, <1>8 DEF Outstanding
<1>10. \A r \in R : ~(Queued(r)' /\ InResult(r)')
  BY <1>6, <1>7, <1>8 DEF Meet
<1>11. \A i, j \in DOMAIN pullerQueue' : Meet(pullerQueue'[i].receivers, pullerQueue'[j].receivers) => i = j
  BY <1>4, <1>6, <1>7
<1>12. \A i, j \in DOMAIN pulledData' : Meet(pulledData'[i].what.receivers, pulledData'[j].what.receivers) => i = j
  BY <1>5, <1>6, <1>7
<1>13. OnePlace'
  BY <1>3, <1>8, <1>10, <1>11, <1>12 DEF OnePlace
<1>14. DueAt(pNow) \subseteq R
  BY DEF DueAt
<1>15. ToldInv'
  BY <1>1, <1>2, <1>9, <1>14 DEF ToldInv
<1> QED
  BY <1>9, <1>13, <1>15 DEF PlacesInv

\* At first nobody is to be told.
LEMMA PlacesStart == PullInit => PlacesInv
<1> SUFFICES ASSUME PullInit PROVE PlacesInv
  OBVIOUS
<1>1. pullerQueue = << >> /\ pulledData = << >> /\ told = [r \in R |-> 0] /\ due = {}
      /\ \A w \in PullThreads : pullPc[w] = "off"
  BY CallerApart DEF PullInit
<1>2. \A r : ~Queued(r) /\ ~InThread(r) /\ ~InResult(r)
  BY <1>1 DEF Queued, InThread, InResult, Busy
<1> QED
  BY <1>1, <1>2 DEF PlacesInv, OnePlace, ToldInv, Outstanding, Busy

(* Times *)

\* The time that means no alarm is a number.
LEMMA NoAlarmIsNumber == NO_ALARM_UPDATE \in Nat
  BY SMT DEF NO_ALARM_UPDATE

\* Times stay right while the receivers and the alarms are left alone.
LEMMA TimesKept ==
  ASSUME TimesInv, \A r \in R : Outstanding(r)' <=> Outstanding(r), pNow' \in 1 .. PullMaxTime,
         UNCHANGED <<mReceivers, mNextPullTimeNs, minNextPullTimeNs, companion, mLockHolder, eventTimeNs, due>>
  PROVE  TimesInv'
<1>1. mLockHolder # "alarm" => TimesInv'
  BY DEF TimesInv
<1>2. ASSUME mLockHolder = "alarm" PROVE TimesInv'
  BY <1>2 DEF TimesInv
<1> QED
  BY <1>1, <1>2

\* Outside of an alarm only the times themselves matter.
LEMMA TimesOutside ==
  ASSUME pNow' \in 1 .. PullMaxTime, mLockHolder' # "alarm",
         DOMAIN mReceivers' \subseteq R, \A r \in DOMAIN mReceivers' : mReceivers'[r] \in Infos,
         mNextPullTimeNs' \in 0 .. NO_ALARM_UPDATE, minNextPullTimeNs' \in 0 .. NO_ALARM_UPDATE,
         companion' \in [up : BOOLEAN, alarm : Nat],
         \A r \in DOMAIN mReceivers' : mNextPullTimeNs' <= mReceivers'[r].next,
         companion'.up => companion'.alarm <= mNextPullTimeNs'
  PROVE  TimesInv'
  BY DEF TimesInv

\* An alarm for a time, or none.
LEMMA AlarmAtTime ==
  ASSUME NEW c \in [up : BOOLEAN, alarm : Nat], NEW next \in 0 .. NO_ALARM_UPDATE,
         c.up => c.alarm <= NO_ALARM_UPDATE
  PROVE  /\ AlarmAt(c, next) \in [up : BOOLEAN, alarm : Nat]
         /\ AlarmAt(c, next).up => AlarmAt(c, next).alarm <= next
<1>1. CASE c.up /\ next # NO_ALARM_UPDATE
  BY <1>1, NoAlarmIsNumber DEF AlarmAt, Companion
<1>2. CASE ~(c.up /\ next # NO_ALARM_UPDATE)
  <2>1. AlarmAt(c, next) = c
    BY <1>2, Zenon DEF AlarmAt
  <2> QED
    BY <1>2, <2>1
<1> QED
  BY <1>1, <1>2

\* What a companion is made of.
LEMMA CompanionNew ==
  ASSUME NEW up \in BOOLEAN, NEW alarm \in Nat
  PROVE  Companion(up, alarm) \in [up : BOOLEAN, alarm : Nat] /\ Companion(up, alarm).alarm = alarm
         /\ Companion(up, alarm).up = up
  BY DEF Companion

\* A companion that comes is given the alarm.
LEMMA SetCompanionTimes ==
  ASSUME TimesInv, SetStatsCompanionService
  PROVE  TimesInv'
<1>1. /\ mLockHolder = "nobody" /\ UNCHANGED <<pNow, mLockHolder, mReceivers, mNextPullTimeNs, minNextPullTimeNs>>
  BY DEF SetStatsCompanionService, PullCall, alarmVars, registerVars
<1> DEFINE c == Companion(~companion.up, NO_ALARM_UPDATE)
<1>2. companion.up \in BOOLEAN
  BY DEF TimesInv
<1>3. c \in [up : BOOLEAN, alarm : Nat] /\ c.alarm = NO_ALARM_UPDATE
  BY <1>2, CompanionNew, NoAlarmIsNumber
<1>4. companion' = AlarmAt(c, mNextPullTimeNs)
  BY DEF SetStatsCompanionService, CompanionIs
<1> HIDE DEF c
<1>5. companion' \in [up : BOOLEAN, alarm : Nat] /\ (companion'.up => companion'.alarm <= mNextPullTimeNs)
  BY <1>3, <1>4, AlarmAtTime, NoAlarmIsNumber DEF TimesInv
<1> QED
  BY <1>1, <1>5, TimesOutside DEF TimesInv

\* An interval is at least a minute.
LEMMA RoundedIntervalType ==
  ASSUME NEW interval \in Intervals
  PROVE  RoundedInterval(interval) \in Nat \ {0} /\ PullMaxTime + (RoundedInterval(interval) + 2) < NO_ALARM_UPDATE
<1> DEFINE a == (interval \div PullMinute) * PullMinute
<1>1. a \in Nat /\ PullMinute \in Nat \ {0}
  BY PullAssumption, SMT
<1>2. RoundedInterval(interval) = Max({a, PullMinute})
  BY DEF RoundedInterval
<1> HIDE DEF a
<1> QED
  BY <1>1, <1>2, MaxOfTwo, PullAssumption

\* A receiver that is due before all others brings the alarm forward.
LEMMA RegisterReceiverTimes ==
  ASSUME TimesInv, NEW x \in R, RegisterReceiver(x)
  PROVE  TimesInv'
<1>1. /\ mLockHolder = "nobody" /\ UNCHANGED <<pNow, mLockHolder, minNextPullTimeNs>>
  BY DEF RegisterReceiver, PullCall, alarmVars
<1>2. PICK interval \in Intervals, next \in {pNow + 1, pNow + 2} :
       /\ mReceivers' = [s \in DOMAIN mReceivers \union {x} |->
            IF s = x THEN Receiver(next, RoundedInterval(interval)) ELSE mReceivers[s]]
       /\ IF next < mNextPullTimeNs
            THEN mNextPullTimeNs' = next /\ companion' = AlarmAt(companion, next)
          ELSE UNCHANGED <<mNextPullTimeNs, companion>>
  BY DEF RegisterReceiver
<1> DEFINE info == Receiver(next, RoundedInterval(interval))
<1>3. pNow \in 1 .. PullMaxTime /\ PullMaxTime \in Nat
  BY PullAssumption DEF TimesInv
<1>4. RoundedInterval(interval) \in Nat \ {0} /\ PullMaxTime + (RoundedInterval(interval) + 2) < NO_ALARM_UPDATE
  BY RoundedIntervalType
<1>5. next \in Nat /\ next < NO_ALARM_UPDATE
  BY <1>3, <1>4, NoAlarmIsNumber
<1>6. info \in Infos /\ info.next = next
  BY <1>3, <1>4, <1>5, NoAlarmIsNumber DEF Infos, Receiver
<1> HIDE DEF info
<1>7. DOMAIN mReceivers' = DOMAIN mReceivers \union {x} /\ \A r \in DOMAIN mReceivers' :
        mReceivers'[r] = IF r = x THEN info ELSE mReceivers[r]
  BY <1>2 DEF info
<1>8. /\ mNextPullTimeNs \in 0 .. NO_ALARM_UPDATE /\ companion \in [up : BOOLEAN, alarm : Nat]
      /\ companion.up => companion.alarm <= mNextPullTimeNs
      /\ \A r \in DOMAIN mReceivers : mReceivers[r] \in Infos /\ mNextPullTimeNs <= mReceivers[r].next
  BY <1>1 DEF TimesInv
<1>9. /\ mNextPullTimeNs' \in 0 .. NO_ALARM_UPDATE /\ companion' \in [up : BOOLEAN, alarm : Nat]
      /\ companion'.up => companion'.alarm <= mNextPullTimeNs'
      /\ mNextPullTimeNs' <= mNextPullTimeNs /\ mNextPullTimeNs' <= next
  <2>1. CASE next < mNextPullTimeNs
    <3>1. next \in 0 .. NO_ALARM_UPDATE /\ (companion.up => companion.alarm <= NO_ALARM_UPDATE)
      BY <1>5, <1>8, NoAlarmIsNumber
    <3>2. mNextPullTimeNs' = next /\ companion' = AlarmAt(companion, next)
      BY <1>2, <2>1
    <3> QED
      BY <1>8, <2>1, <3>1, <3>2, AlarmAtTime
  <2>2. CASE ~(next < mNextPullTimeNs)
    BY <1>2, <1>5, <1>8, <2>2
  <2> QED
    BY <2>1, <2>2
<1>10. \A r \in DOMAIN mReceivers' : mReceivers'[r] \in Infos /\ mNextPullTimeNs' <= mReceivers'[r].next
  <2>1. \A i \in Infos : i.next \in Nat
    BY DEF Infos
  <2> QED
    BY <1>6, <1>7, <1>8, <1>9, <2>1
<1>11. DOMAIN mReceivers' \subseteq R /\ minNextPullTimeNs \in 0 .. NO_ALARM_UPDATE
  BY <1>7 DEF TimesInv
<1> QED
  BY <1>1, <1>3, <1>9, <1>10, <1>11, TimesOutside

\* An alarm may be too early for those who stay, never too late.
LEMMA UnRegisterReceiverTimes ==
  ASSUME TimesInv, NEW x \in R, UnRegisterReceiver(x)
  PROVE  TimesInv'
<1>1. /\ mLockHolder = "nobody" /\ UNCHANGED <<pNow, mLockHolder, mNextPullTimeNs, minNextPullTimeNs, companion>>
  BY DEF UnRegisterReceiver, PullCall, alarmVars
<1>2. DOMAIN mReceivers' \subseteq DOMAIN mReceivers /\ \A r \in DOMAIN mReceivers' : mReceivers'[r] = mReceivers[r]
  BY DEF UnRegisterReceiver
<1>3. mLockHolder # "alarm"
  BY <1>1
<1> QED
  BY <1>1, <1>2, <1>3, TimesOutside DEF TimesInv

-----------------------------------------------------------------------------
\* The next time on the grid of a receiver that is due.
LEMMA NextTime ==
  ASSUME NEW t \in 0 .. PullMaxTime, NEW info \in Infos, info.next <= t
  PROVE  NextAfter(info, t) \in Infos
<1> DEFINE a == t - info.next
           b == info.interval
           k == (a \div b) * b
           n == info.next + (k + b)
<1>1. a \in Nat /\ b \in Nat \ {0} /\ PullMaxTime \in Nat /\ info.next \in Nat
  BY PullAssumption DEF Infos
<1>2. PullMaxTime + b < NO_ALARM_UPDATE
  BY DEF Infos
<1>3. a \div b \in Nat /\ k \in Nat /\ k <= a
  <2> HIDE DEF a, b
  <2> QED
    BY <1>1, SMT
<1>4. n \in Nat /\ n <= t + b
  <2> HIDE DEF k, b
  <2> QED
    BY <1>1, <1>3
<1>5. n < NO_ALARM_UPDATE
  <2> HIDE DEF n, b
  <2> QED
    BY <1>1, <1>2, <1>4, NoAlarmIsNumber
<1>6. (a \div b + 1) * b = k + b
  <2>1. PICK q \in Nat : q = a \div b
    BY <1>3
  <2> HIDE DEF a, b
  <2>2. (q + 1) * b = q * b + b
    BY <1>1
  <2> QED
    BY <2>1, <2>2
<1>7. NextAfter(info, t) = Receiver(n, b)
  BY <1>6 DEF NextAfter
<1> HIDE DEF n
<1>8. Receiver(n, b) \in Infos
  <2> HIDE DEF b
  <2> QED
    BY <1>1, <1>2, <1>4, <1>5 DEF Receiver, Infos
<1> QED
  BY <1>7, <1>8

\* mReceivers when some that are due are put off.
LEMMA PutOffInfos ==
  ASSUME NEW s \in SUBSET DOMAIN mReceivers, NEW t \in 0 .. PullMaxTime, \A r \in DOMAIN mReceivers : mReceivers[r] \in Infos,
         \A r \in s : mReceivers[r].next <= t, mReceivers' = PutOff(s, t)
  PROVE  /\ DOMAIN mReceivers' = DOMAIN mReceivers
         /\ \A r \in DOMAIN mReceivers : /\ mReceivers'[r] \in Infos /\ mReceivers'[r].next \in 0 .. NO_ALARM_UPDATE
                                         /\ r \notin s => mReceivers'[r] = mReceivers[r]
<1>1. DOMAIN mReceivers' = DOMAIN mReceivers
  BY DEF PutOff
<1>2. ASSUME NEW r \in DOMAIN mReceivers
      PROVE  mReceivers'[r] \in Infos /\ (r \notin s => mReceivers'[r] = mReceivers[r])
  <2>1. CASE r \in s
    <3>1. mReceivers'[r] = NextAfter(mReceivers[r], t)
      BY <2>1 DEF PutOff
    <3> QED
      BY <2>1, <3>1, NextTime
  <2>2. CASE r \notin s
    BY <2>2 DEF PutOff
  <2> QED
    BY <2>1, <2>2
<1>3. \A info \in Infos : info.next \in 0 .. NO_ALARM_UPDATE
  BY NoAlarmIsNumber DEF Infos
<1> QED
  BY <1>1, <1>2, <1>3

\* What is kept of a receiver.
LEMMA InfoOf ==
  ASSUME TimesInv
  PROVE  \A r \in DOMAIN mReceivers : mReceivers[r] \in Infos /\ mReceivers[r].next \in Nat
  BY DEF TimesInv, Infos

\* While an alarm is handled, its minimum is over those who are told already.
LEMMA TimesInside ==
  ASSUME pNow' \in 1 .. PullMaxTime, mLockHolder' = "alarm", eventTimeNs' \in 1 .. PullMaxTime,
         DOMAIN mReceivers' \subseteq R, \A r \in DOMAIN mReceivers' : mReceivers'[r] \in Infos,
         mNextPullTimeNs' \in 0 .. NO_ALARM_UPDATE, minNextPullTimeNs' \in 0 .. NO_ALARM_UPDATE,
         companion' = Companion(TRUE, NO_ALARM_UPDATE), due' \subseteq DOMAIN mReceivers',
         \A r \in DOMAIN mReceivers' : Outstanding(r)' => mReceivers'[r].next <= eventTimeNs',
         \A r \in DOMAIN mReceivers' : ~Outstanding(r)' => minNextPullTimeNs' <= mReceivers'[r].next
  PROVE  TimesInv'
<1>1. companion' \in [up : BOOLEAN, alarm : Nat]
  BY CompanionNew, NoAlarmIsNumber
<1> QED
  BY <1>1 DEF TimesInv

\* The minimum starts with the receivers that are not pulled for.
LEMMA OnAlarmFiredTimes ==
  ASSUME ThreadsInv, TimesInv, NEW needed \in SUBSET DOMAIN mReceivers, OnAlarmFired(needed)
  PROVE  TimesInv'
<1>1. /\ DOMAIN mReceivers \subseteq R /\ pNow \in 1 .. PullMaxTime /\ PullMaxTime \in Nat
      /\ \A r \in DOMAIN mReceivers : mReceivers[r] \in Infos
  BY PullAssumption DEF TimesInv
<1>2. /\ pNow' = pNow /\ mLockHolder' = "alarm" /\ eventTimeNs' = pNow /\ mNextPullTimeNs' = mNextPullTimeNs
      /\ companion' = Companion(TRUE, NO_ALARM_UPDATE) /\ needed \subseteq DueAt(pNow)
  BY DEF OnAlarmFired
<1> DEFINE s == DueAt(pNow) \ needed
<1>3. mReceivers' = PutOff(s, pNow) /\ minNextPullTimeNs' = MinOfRest(mReceivers', needed) /\ due' = DueAt(pNow)
  BY DEF OnAlarmFired, initPullerQueue
<1>4. /\ s \in SUBSET DOMAIN mReceivers /\ \A r \in s : mReceivers[r].next <= pNow
      /\ DueAt(pNow) \subseteq DOMAIN mReceivers /\ \A r \in needed : r \notin s /\ mReceivers[r].next <= pNow
  BY <1>2 DEF DueAt
<1> HIDE DEF s
<1>5. /\ DOMAIN mReceivers' = DOMAIN mReceivers
      /\ \A r \in DOMAIN mReceivers : /\ mReceivers'[r] \in Infos /\ mReceivers'[r].next \in 0 .. NO_ALARM_UPDATE
                                      /\ r \notin s => mReceivers'[r] = mReceivers[r]
  <2>1. pNow \in 0 .. PullMaxTime
    BY <1>1
  <2> QED
    BY <1>1, <1>3, <1>4, <2>1, PutOffInfos
<1>6. \A r \in R : Outstanding(r)' <=> r \in needed
  BY <1>1, OnAlarmFiredPlaces
<1> DEFINE T == {NO_ALARM_UPDATE} \union {mReceivers'[r].next : r \in DOMAIN mReceivers' \ needed}
<1>7. T \subseteq 0 .. NO_ALARM_UPDATE /\ T # {}
  BY <1>5, NoAlarmIsNumber
<1>8. minNextPullTimeNs' = Min(T)
  BY <1>3 DEF MinOfRest
<1>9. minNextPullTimeNs' \in T /\ \A y \in T : minNextPullTimeNs' <= y
  <2>1. T \subseteq Nat
    BY <1>7, NoAlarmIsNumber
  <2> HIDE DEF T
  <2> QED
    BY <1>7, <1>8, <2>1, MinOfNat
<1>10. \A r \in DOMAIN mReceivers' \ needed : minNextPullTimeNs' <= mReceivers'[r].next
  BY <1>9
<1>11. minNextPullTimeNs' \in 0 .. NO_ALARM_UPDATE
  BY <1>7, <1>9
<1>12. \A r \in DOMAIN mReceivers' : Outstanding(r)' => mReceivers'[r].next <= eventTimeNs'
  BY <1>1, <1>2, <1>4, <1>5, <1>6
<1>13. \A r \in DOMAIN mReceivers' : ~Outstanding(r)' => minNextPullTimeNs' <= mReceivers'[r].next
  BY <1>1, <1>5, <1>6, <1>10
<1>14. mNextPullTimeNs \in 0 .. NO_ALARM_UPDATE
  BY DEF TimesInv
<1> QED
  BY <1>1, <1>2, <1>3, <1>4, <1>5, <1>11, <1>12, <1>13, <1>14, TimesInside

\* Receivers that are told are put off and enter the minimum.
LEMMA ProcessPulledTimes ==
  ASSUME ThreadsInv, PlacesInv, TimesInv, ProcessPulled
  PROVE  TimesInv'
<1>1. /\ mLockHolder = "alarm" /\ UNCHANGED <<pNow, mLockHolder, eventTimeNs, mNextPullTimeNs, companion, due>>
  BY DEF ProcessPulled
<1>2. /\ DOMAIN mReceivers \subseteq R /\ pNow \in 1 .. PullMaxTime /\ eventTimeNs \in 1 .. PullMaxTime
      /\ mNextPullTimeNs \in 0 .. NO_ALARM_UPDATE /\ minNextPullTimeNs \in 0 .. NO_ALARM_UPDATE
      /\ companion = Companion(TRUE, NO_ALARM_UPDATE) /\ due \subseteq DOMAIN mReceivers
      /\ \A r \in DOMAIN mReceivers : mReceivers[r] \in Infos
  BY <1>1 DEF TimesInv
<1>3. \A r \in DOMAIN mReceivers : /\ Outstanding(r) => mReceivers[r].next <= eventTimeNs
                                   /\ ~Outstanding(r) => minNextPullTimeNs <= mReceivers[r].next
  BY <1>1 DEF TimesInv
<1> DEFINE s == pulledData[1].what.receivers
<1>4. /\ \A r \in R : /\ Outstanding(r)' <=> Outstanding(r) /\ r \notin s
                      /\ r \in s => Outstanding(r)
      /\ s \subseteq due
  BY ProcessPulledPlaces
<1>5. Head(pulledData) = pulledData[1]
  BY ProcessPulledThreads
<1>6. mReceivers' = PutOff(s, eventTimeNs) /\ minNextPullTimeNs' = Min({minNextPullTimeNs} \union {mReceivers'[r].next : r \in s})
  BY <1>5 DEF ProcessPulled
<1> HIDE DEF s
<1>7. s \in SUBSET DOMAIN mReceivers /\ (\A r \in s : mReceivers[r].next <= eventTimeNs) /\ eventTimeNs \in 0 .. PullMaxTime
  BY <1>2, <1>3, <1>4, PullAssumption
<1>8. /\ DOMAIN mReceivers' = DOMAIN mReceivers
      /\ \A r \in DOMAIN mReceivers : /\ mReceivers'[r] \in Infos /\ mReceivers'[r].next \in 0 .. NO_ALARM_UPDATE
                                      /\ r \notin s => mReceivers'[r] = mReceivers[r]
  BY <1>2, <1>6, <1>7, PutOffInfos
<1> DEFINE T == {minNextPullTimeNs} \union {mReceivers'[r].next : r \in s}
<1>9. T \subseteq 0 .. NO_ALARM_UPDATE /\ T # {}
  BY <1>2, <1>7, <1>8
<1>10. minNextPullTimeNs' = Min(T)
  BY <1>6
<1>11. minNextPullTimeNs' \in T /\ \A y \in T : minNextPullTimeNs' <= y
  <2>1. T \subseteq Nat
    BY <1>9, NoAlarmIsNumber
  <2> HIDE DEF T
  <2> QED
    BY <1>9, <1>10, <2>1, MinOfNat
<1>12. minNextPullTimeNs' \in 0 .. NO_ALARM_UPDATE /\ minNextPullTimeNs' <= minNextPullTimeNs
  BY <1>9, <1>11
<1>13. \A r \in s : minNextPullTimeNs' <= mReceivers'[r].next
  BY <1>11
<1>14. \A r \in DOMAIN mReceivers' : Outstanding(r)' => mReceivers'[r].next <= eventTimeNs'
  BY <1>1, <1>2, <1>3, <1>4, <1>8
<1>15. \A r \in DOMAIN mReceivers' : ~Outstanding(r)' => minNextPullTimeNs' <= mReceivers'[r].next
  <2> SUFFICES ASSUME NEW r \in DOMAIN mReceivers, ~Outstanding(r)'
               PROVE  minNextPullTimeNs' <= mReceivers'[r].next
    BY <1>8
  <2>1. CASE r \in s
    BY <1>13, <2>1
  <2>2. CASE r \notin s
    <3>1. minNextPullTimeNs <= mReceivers[r].next /\ mReceivers'[r] = mReceivers[r] /\ mReceivers[r].next \in Nat
      BY <1>2, <1>3, <1>4, <1>8, <2>2, InfoOf
    <3>2. minNextPullTimeNs \in Nat /\ minNextPullTimeNs' \in Nat
      BY <1>2, <1>12, NoAlarmIsNumber
    <3> QED
      BY <1>12, <3>1, <3>2
  <2> QED
    BY <2>1, <2>2
<1>16. due' \subseteq DOMAIN mReceivers'
  BY <1>1, <1>2, <1>8
<1> QED
  BY <1>1, <1>2, <1>8, <1>12, <1>14, <1>15, <1>16, TimesInside

\* When all are told, the minimum is over all and the alarm is set for it.
LEMMA AlarmEndsTimes ==
  ASSUME ThreadsInv, TimesInv, AlarmEnds
  PROVE  TimesInv'
<1>1. /\ mLockHolder = "alarm" /\ mLockHolder' = "nobody" /\ UNCHANGED <<pNow, mReceivers>>
      /\ mNextPullTimeNs' = minNextPullTimeNs /\ minNextPullTimeNs' = NO_ALARM_UPDATE
      /\ companion' = AlarmAt(companion, minNextPullTimeNs)
  BY DEF AlarmEnds
<1>2. /\ pullerQueue = << >> /\ pulledData = << >> /\ \A w \in AllThreads : pullPc[w] = "off"
  BY AlarmEndsThreads
<1>3. \A r : ~Outstanding(r)
  BY <1>2, CallerApart DEF Outstanding, Queued, InThread, InResult, Busy
<1>4. \A r \in DOMAIN mReceivers : minNextPullTimeNs <= mReceivers[r].next
  BY <1>1, <1>3 DEF TimesInv
<1>5. companion \in [up : BOOLEAN, alarm : Nat] /\ companion.alarm = NO_ALARM_UPDATE
  BY <1>1, CompanionNew, NoAlarmIsNumber DEF TimesInv
<1>6. minNextPullTimeNs \in 0 .. NO_ALARM_UPDATE
  BY DEF TimesInv
<1>7. companion' \in [up : BOOLEAN, alarm : Nat] /\ (companion'.up => companion'.alarm <= mNextPullTimeNs')
  BY <1>1, <1>5, <1>6, AlarmAtTime, NoAlarmIsNumber
<1>8. minNextPullTimeNs' \in 0 .. NO_ALARM_UPDATE /\ mNextPullTimeNs' \in 0 .. NO_ALARM_UPDATE
  BY <1>1, <1>6, NoAlarmIsNumber
<1>9. pNow' \in 1 .. PullMaxTime /\ DOMAIN mReceivers' \subseteq R /\ \A r \in DOMAIN mReceivers' : mReceivers'[r] \in Infos
  BY <1>1 DEF TimesInv
<1> QED
  BY <1>1, <1>4, <1>7, <1>8, <1>9, TimesOutside

\* At first there is no receiver and no alarm.
LEMMA TimesStart == PullInit => TimesInv
<1> SUFFICES ASSUME PullInit PROVE TimesInv
  OBVIOUS
<1>1. /\ pNow = 1 /\ mLockHolder = "nobody" /\ DOMAIN mReceivers = {} /\ mNextPullTimeNs = NO_ALARM_UPDATE
      /\ minNextPullTimeNs = NO_ALARM_UPDATE /\ companion = Companion(TRUE, NO_ALARM_UPDATE)
  BY DEF PullInit
<1>2. companion \in [up : BOOLEAN, alarm : Nat] /\ companion.alarm = NO_ALARM_UPDATE
  BY <1>1, CompanionNew, NoAlarmIsNumber
<1> QED
  <2>1. pNow \in 1 .. PullMaxTime /\ NO_ALARM_UPDATE \in 0 .. NO_ALARM_UPDATE
    BY <1>1, NoAlarmIsNumber, PullAssumption
  <2>2. companion.alarm <= mNextPullTimeNs
    <3>1. NO_ALARM_UPDATE <= NO_ALARM_UPDATE
      BY NoAlarmIsNumber
    <3> QED
      BY <1>1, <1>2, <3>1, Zenon
  <2> QED
    BY <1>1, <1>2, <2>1, <2>2 DEF TimesInv

(* Data *)

\* What a puller is made of.
LEMMA PullerNew ==
  ASSUME NEW coolDown \in Nat, NEW lastPull \in Nat, NEW lastEvent \in Nat, NEW good \in BOOLEAN, NEW data \in Nat,
         NEW p, p = Puller(coolDown, lastPull, lastEvent, good, data)
  PROVE  /\ p \in Pullers /\ p.coolDown = coolDown /\ p.mLastPullTimeNs = lastPull
         /\ p.mLastEventTimeNs = lastEvent /\ p.mHasGoodData = good /\ p.mCachedData = data
  BY DEF Puller, Pullers

\* What a question is made of.
LEMMA QuestionNew ==
  ASSUME NEW tag \in Tags, NEW at \in Nat, NEW event \in Nat, NEW inTime \in BOOLEAN,
         NEW q, q = Question(tag, at, event, inTime)
  PROVE  q \in Questions /\ q.tag = tag /\ q.at = at /\ q.event = event /\ q.inTime = inTime
  BY DEF Question, Questions

\* What a result is made of.
LEMMA ResultNew ==
  ASSUME NEW code, NEW data, NEW asOf, NEW o, o = Result(code, data, asOf)
  PROVE  o.code = code /\ o.data = data /\ o.asOf = asOf
  BY DEF Result

\* Nobody pulls, so only the caches count.
LEMMA DataAtRest ==
  ASSUME UNCHANGED questions, before' \in Nat, questions \in Seq(Questions), eventTimeNs' \in Nat, pullers' \in [Tags -> Pullers], CachesInv',
         pulledData' = << >>, \A w \in AllThreads : pullPc'[w] \notin {"wait", "push"},
         mLockHolder' # "alarm"
  PROVE  DataInv'
<1>1. WaitsInv'
  BY DEF WaitsInv
<1>2. ResultsInv'
  BY DEF ResultsInv
<1>3. AskedInv'
  BY DEF AskedInv
<1> QED
  BY <1>1, <1>2, <1>3 DEF DataInv

\* Caches that are emptied or left alone stay right.
LEMMA CachesKept ==
  ASSUME CachesInv, UNCHANGED questions,
         \A t \in Tags : pullers'[t] = pullers[t] \/ pullers'[t].mCachedData = NoData
  PROVE  CachesInv'
<1>1. ASSUME NEW t \in Tags
      PROVE  CacheGood(t)'
  <2>1. CASE pullers'[t] = pullers[t]
    <3>1. CacheGood(t)
      BY DEF CachesInv
    <3> QED
      BY <2>1, <3>1 DEF CacheGood, Answered
  <2>2. CASE pullers'[t].mCachedData = NoData
    BY <2>2 DEF CacheGood, NoData
  <2> QED
    BY <2>1, <2>2
<1> QED
  BY <1>1 DEF CachesInv

\* A new puller has nothing cached.
LEMMA NewPullerIs ==
  ASSUME NEW coolDown \in Nat
  PROVE  NewPuller(coolDown) \in Pullers /\ NewPuller(coolDown).mCachedData = NoData
<1> DEFINE m == Max({coolDown, kMinCoolDownNs})
<1>1. m \in Nat
  BY PullAssumption, MaxOfTwo
<1> HIDE DEF m
<1>2. PICK z \in Nat : z = 0
  OBVIOUS
<1>3. PICK p : p = Puller(m, z, z, FALSE, z)
  OBVIOUS
<1>4. NewPuller(coolDown) = p
  BY <1>2, <1>3 DEF m, NewPuller, NoData
<1>5. p \in Pullers /\ p.mCachedData = z
  BY <1>1, <1>3 DEF Puller, Pullers
<1> QED
  BY <1>2, <1>4, <1>5 DEF NoData

\* A puller that was cleared has nothing cached.
LEMMA ClearedIs ==
  ASSUME NEW p \in Pullers
  PROVE  Cleared(p) \in Pullers /\ Cleared(p).mCachedData = NoData
  BY DEF Cleared, Puller, Pullers, NoData

\* The calls that change pullers are made while nobody pulls.
LEMMA PullersCall ==
  ASSUME ThreadsInv, DataInv, PullCall, pullers' \in [Tags -> Pullers],
         \A t \in Tags : pullers'[t] = pullers[t] \/ pullers'[t].mCachedData = NoData
  PROVE  DataInv'
<1>1. /\ ThreadsRest /\ mLockHolder = "nobody" /\ UNCHANGED <<eventTimeNs, questions, before>>
  BY CallRest DEF alarmVars
<1>2. UNCHANGED <<mLockHolder, pulledData, pullPc>>
  BY <1>1 DEF ThreadsRest
<1>3. pulledData = << >> /\ \A w \in AllThreads : pullPc[w] = "off"
  BY <1>1, NobodyAtRest
<1>4. CachesInv'
  BY <1>1, CachesKept DEF DataInv
<1> QED
  BY <1>1, <1>2, <1>3, <1>4, DataAtRest DEF DataInv, AskedInv

\* A new puller takes no cool-down away from a result that is on its way.
LEMMA RegisterCallbackData ==
  ASSUME ThreadsInv, DataInv, NEW tag \in Tags, registerPullAtomCallback(tag)
  PROVE  DataInv'
<1>1. PICK coolDown \in CoolDowns : pullers' = [pullers EXCEPT ![tag] = NewPuller(coolDown)]
  BY DEF registerPullAtomCallback, RegisterPullAtomCallback
<1>2. NewPuller(coolDown) \in Pullers /\ NewPuller(coolDown).mCachedData = NoData
  BY NewPullerIs, PullAssumption
<1>3. pullers' \in [Tags -> Pullers] /\ \A t \in Tags : pullers'[t] = pullers[t] \/ pullers'[t].mCachedData = NoData
  BY <1>1, <1>2 DEF DataInv
<1> QED
  BY <1>3, PullersCall DEF registerPullAtomCallback

\* Nor does clearing the caches.
LEMMA ForceClearData ==
  ASSUME ThreadsInv, DataInv, ForceClearPullerCache \/ ClearPullerCacheIfNecessary
  PROVE  DataInv'
<1>1. \A t \in Tags : pullers[t] \in Pullers
  BY DEF DataInv
<1>2. DOMAIN pullers' = Tags /\ pullers' = [t \in DOMAIN pullers' |-> pullers'[t]] /\ \A t \in Tags : pullers'[t] \in {pullers[t], Cleared(pullers[t])}
  BY DEF ForceClearPullerCache, ClearPullerCacheIfNecessary
<1>3. pullers' \in [Tags -> Pullers] /\ \A t \in Tags : pullers'[t] = pullers[t] \/ pullers'[t].mCachedData = NoData
  BY <1>1, <1>2, ClearedIs
<1> QED
  BY <1>3, PullersCall DEF ForceClearPullerCache, ClearPullerCacheIfNecessary

\* The caches stay, and no thread holds a result or waits.
LEMMA DirectPullData ==
  ASSUME ThreadsInv, TimesInv, DataInv, NEW tag \in Tags, DirectPull(tag)
  PROVE  DataInv'
<1>1. /\ mLockHolder = "nobody" /\ mLockHolder' = "direct" /\ eventTimeNs' \in {pNow, pNow - 1}
      /\ pullPc' = [pullPc EXCEPT ![Caller] = "pull"] /\ UNCHANGED <<pullers, questions, pulledData, before>>
  BY DEF DirectPull, alarmVars
<1>2. pulledData = << >> /\ \A w \in AllThreads : pullPc[w] = "off"
  BY <1>1, NobodyAtRest
<1>3. \A w \in AllThreads : pullPc'[w] \notin {"wait", "push"}
  BY <1>1, <1>2 DEF ThreadsInv, ThreadTypes
<1>4. eventTimeNs' \in Nat
  BY <1>1 DEF TimesInv
<1>5. CachesInv'
  BY <1>1, CachesKept DEF DataInv
<1> QED
  BY <1>1, <1>2, <1>3, <1>4, <1>5, DataAtRest DEF DataInv, AskedInv

\* A direct pull hands its result to the caller.
LEMMA DirectPullReturnsData ==
  ASSUME ThreadsInv, DataInv, DirectPullReturns
  PROVE  DataInv'
<1>1. /\ mLockHolder = "direct" /\ mLockHolder' = "nobody"
      /\ pullPc' = [pullPc EXCEPT ![Caller] = "off"] /\ UNCHANGED <<eventTimeNs, pullers, questions, pulledData, before>>
  BY DEF DirectPullReturns, alarmVars
<1>2. pulledData = << >> /\ \A w \in PullThreads : pullPc[w] = "off"
  BY <1>1, NobodyAtRest
<1>3. \A w \in AllThreads : pullPc'[w] \notin {"wait", "push"}
  BY <1>1, <1>2 DEF ThreadsInv, ThreadTypes, AllThreads
<1>5. CachesInv'
  BY <1>1, CachesKept DEF DataInv
<1> QED
  BY <1>1, <1>2, <1>3, <1>5, DataAtRest DEF DataInv, AskedInv

\* An alarm ends with no result left.
LEMMA AlarmEndsData ==
  ASSUME ThreadsInv, DataInv, AlarmEnds
  PROVE  DataInv'
<1>1. /\ mLockHolder' = "nobody" /\ UNCHANGED <<eventTimeNs, pullers, questions, pulledData, before, pullPc>>
  BY DEF AlarmEnds, threadVars
<1>2. pulledData = << >> /\ \A w \in AllThreads : pullPc[w] = "off"
  BY AlarmEndsThreads
<1>5. CachesInv'
  BY <1>1, CachesKept DEF DataInv
<1> QED
  BY <1>1, <1>2, <1>5, DataAtRest DEF DataInv, AskedInv

\* At first nothing is cached and nothing asked.
LEMMA DataStart == PullInit => DataInv
<1> SUFFICES ASSUME PullInit PROVE DataInv
  OBVIOUS
<1>1. /\ questions = << >> /\ pulledData = << >> /\ mLockHolder = "nobody" /\ eventTimeNs = 0 /\ before = 0
      /\ pullers = [t \in Tags |-> NewPuller(kMinCoolDownNs)] /\ \A w \in AllThreads : pullPc[w] = "off"
  BY DEF PullInit
<1>2. NewPuller(kMinCoolDownNs) \in Pullers /\ NewPuller(kMinCoolDownNs).mCachedData = NoData
  BY NewPullerIs, PullAssumption
<1>3. pullers \in [Tags -> Pullers] /\ CachesInv
  BY <1>1, <1>2 DEF CachesInv, CacheGood
<1>4. WaitsInv /\ ResultsInv /\ AskedInv
  BY <1>1 DEF WaitsInv, ResultsInv, AskedInv
<1>5. questions \in Seq(Questions) /\ eventTimeNs \in Nat
  BY <1>1
<1> QED
  BY <1>3, <1>4, <1>5 DEF DataInv

-----------------------------------------------------------------------------
\* Nothing is asked or cached.
LEMMA DataKept ==
  ASSUME DataInv, UNCHANGED <<eventTimeNs, pullers, questions, mLockHolder, before>>,
         \A w \in AllThreads : pullPc'[w] = "wait" =>
           pullPc[w] = "wait" /\ task'[w] = task[w] /\ wait'[w].question = wait[w].question,
         \A w \in AllThreads : pullPc'[w] = "push" =>
           pullPc[w] = "push" /\ task'[w] = task[w] /\ result'[w] = result[w],
         \A i \in DOMAIN pulledData' : GoodResult(pulledData'[i].what.tag, pulledData'[i].outcome)
  PROVE  DataInv'
<1>1. CachesInv'
  BY CachesKept DEF DataInv
<1>2. WaitsInv'
  BY DEF DataInv, WaitsInv, WaitsFor
<1>3. ResultsInv'
  BY DEF DataInv, ResultsInv, GoodResult, Answered
<1>4. AskedInv'
  BY DEF DataInv, AskedInv
<1> QED
  BY <1>1, <1>2, <1>3, <1>4 DEF DataInv

\* Data that nobody touches stay right.
LEMMA DataUntouched ==
  ASSUME DataInv, UNCHANGED <<eventTimeNs, pullers, questions, mLockHolder, before, pulledData, pullPc, task, wait, result>>
  PROVE  DataInv'
  BY DataKept DEF DataInv, ResultsInv

\* Taking a task, leaving and an answer change no data.
LEMMA WorkerData ==
  ASSUME ThreadsInv, DataInv, NEW w \in AllThreads, WorkerPop(w) \/ WorkerExit(w) \/ Answer(w)
  PROVE  DataInv'
<1>1. UNCHANGED <<eventTimeNs, pullers, questions, mLockHolder, before, pulledData, result>>
  BY DEF WorkerPop, WorkerExit, Answer, alarmVars
<1>2. /\ \A v \in AllThreads : pullPc'[v] = "push" => pullPc[v] = "push" /\ task'[v] = task[v]
      /\ \A v \in AllThreads : pullPc'[v] = "wait" => pullPc[v] = "wait" /\ task'[v] = task[v]
  BY DEF WorkerPop, WorkerExit, Answer, ThreadsInv, ThreadTypes
<1>3. \A v \in AllThreads : wait'[v].question = wait[v].question
  <2>1. CASE Answer(w)
    <3>1. PICK answer \in {"success", "failure"} : wait' = [wait EXCEPT ![w] = Wait(wait[w].question, answer)]
      BY <2>1 DEF Answer
    <3>2. Wait(wait[w].question, answer).question = wait[w].question
      BY DEF Wait
    <3> QED
      BY <3>1, <3>2 DEF ThreadsInv, ThreadTypes
  <2> QED
    BY <2>1 DEF WorkerPop, WorkerExit
<1>4. \A i \in DOMAIN pulledData' : GoodResult(pulledData'[i].what.tag, pulledData'[i].outcome)
  BY <1>1 DEF DataInv, ResultsInv
<1> QED
  BY <1>1, <1>2, <1>3, <1>4, DataKept

\* A result is handed over as it is.
LEMMA WorkerPushData ==
  ASSUME ThreadsInv, DataInv, NEW w \in AllThreads, WorkerPush(w)
  PROVE  DataInv'
<1>1. UNCHANGED <<eventTimeNs, pullers, questions, mLockHolder, before, wait>> /\ pullPc[w] = "push"
  BY DEF WorkerPush
<1>2. /\ \A v \in AllThreads : pullPc'[v] = "push" => pullPc[v] = "push" /\ task'[v] = task[v] /\ result'[v] = result[v]
      /\ \A v \in AllThreads : pullPc'[v] = "wait" => pullPc[v] = "wait" /\ task'[v] = task[v]
  BY DEF WorkerPush, ThreadsInv, ThreadTypes
<1> DEFINE p == Pulled(task[w], result[w])
<1>3. p.what = task[w] /\ p.outcome = result[w]
  BY DEF Pulled
<1>4. pulledData' = Append(pulledData, p) /\ pulledData \in Seq(AllPulled)
  BY DEF WorkerPush, ThreadsInv, ThreadTypes
<1> HIDE DEF p
<1>5. \A i \in DOMAIN pulledData' : pulledData'[i] = p \/ (i \in DOMAIN pulledData /\ pulledData'[i] = pulledData[i])
  BY <1>4
<1>6. \A i \in DOMAIN pulledData' : GoodResult(pulledData'[i].what.tag, pulledData'[i].outcome)
  BY <1>1, <1>3, <1>5 DEF DataInv, ResultsInv
<1> QED
  BY <1>1, <1>2, <1>6, DataKept

\* Results that stay keep what they are.
LEMMA ProcessPulledData ==
  ASSUME ThreadsInv, DataInv, ProcessPulled
  PROVE  DataInv'
<1>1. UNCHANGED <<eventTimeNs, pullers, questions, mLockHolder, before, pullPc, task, wait, result>>
  BY DEF ProcessPulled, threadVars
<1>2. \A i \in DOMAIN pulledData' : i + 1 \in DOMAIN pulledData /\ pulledData'[i] = pulledData[i + 1]
  BY ProcessPulledThreads
<1>3. \A i \in DOMAIN pulledData' : GoodResult(pulledData'[i].what.tag, pulledData'[i].outcome)
  BY <1>2 DEF DataInv, ResultsInv
<1> QED
  BY <1>1, <1>3, DataKept

\* An alarm starts with failures at most, and with no question of its own.
LEMMA OnAlarmFiredData ==
  ASSUME ThreadsInv, DataInv, NEW needed \in SUBSET R, OnAlarmFired(needed), pNow \in Nat
  PROVE  DataInv'
<1>1. /\ eventTimeNs' = pNow /\ before' = Len(questions) /\ UNCHANGED <<pullers, questions>> /\ initPullerQueue(needed)
  BY DEF OnAlarmFired
<1>2. \A w \in AllThreads : ~Busy(w)'
  BY OnAlarmFiredThreads
<1>3. \A i \in DOMAIN pulledData' : pulledData'[i].outcome.data = NoData
  BY <1>1, FailedOfAlarm
<1>4. CachesInv'
  BY <1>1, CachesKept DEF DataInv
<1>5. WaitsInv'
  BY <1>2 DEF WaitsInv, Busy
<1>6. ResultsInv'
  BY <1>2, <1>3 DEF ResultsInv, GoodResult, Busy
<1>7. questions \in Seq(Questions)
  BY DEF DataInv
<1>8. AskedInv'
  <2>1. before' \in Nat /\ \A i \in DOMAIN questions' : ~(i > before')
    BY <1>1, <1>7
  <2> QED
    BY <2>1 DEF AskedInv
<1> QED
  BY <1>1, <1>4, <1>5, <1>6, <1>8 DEF DataInv

\* A pull that is answered from the cache.
LEMMA UseCacheData ==
  ASSUME PullInv, NEW w \in AllThreads, PullBegin(w), NEW tag \in Tags, tag = task[w].tag,
         shouldUseCache(pullers[tag], eventTimeNs), UseCache(w, pullers[tag])
  PROVE  DataInv'
<1>1. /\ pullPc[w] = "pull" /\ UNCHANGED <<eventTimeNs, mLockHolder, before, pulledData, task>>
  BY DEF PullBegin, alarmVars
<1>2. PICK p \in Pullers : p = pullers[tag]
  BY DEF PullInv, DataInv
<1>3. PICK code : code = IF p.mHasGoodData THEN "SUCCESS" ELSE "FAIL"
  OBVIOUS
<1>4. PICK o : o = Result(code, p.mCachedData, pNow)
  OBVIOUS
<1>5. /\ UNCHANGED <<pullers, questions, wait>>
      /\ pullPc' = [pullPc EXCEPT ![w] = "push"] /\ result' = [result EXCEPT ![w] = o]
  BY <1>2, <1>3, <1>4 DEF UseCache, Returns
<1>6. o.code = code /\ o.data = p.mCachedData /\ o.asOf = pNow
  BY <1>4, ResultNew
<1>7. GoodResult(tag, o)
  <2> SUFFICES ASSUME o.data # NoData
               PROVE  /\ Answered(o.data, tag) /\ o.code = "SUCCESS"
                      /\ \/ questions[o.data].event = eventTimeNs
                         \/ o.asOf - questions[o.data].at < pullers[tag].coolDown
    BY DEF GoodResult
  <2>1. /\ Answered(p.mCachedData, tag) /\ p.mHasGoodData
        /\ questions[p.mCachedData].event = p.mLastEventTimeNs
        /\ questions[p.mCachedData].at = p.mLastPullTimeNs
    BY <1>2, <1>6 DEF PullInv, DataInv, CachesInv, CacheGood
  <2>2. code = "SUCCESS"
    BY <1>3, <2>1, Zenon
  <2>3. p.mLastEventTimeNs = eventTimeNs \/ pNow - p.mLastPullTimeNs < p.coolDown
    BY <1>2 DEF shouldUseCache
  <2> QED
    BY <1>2, <1>6, <2>1, <2>2, <2>3
<1>8. CachesInv'
  BY <1>5, CachesKept DEF PullInv, DataInv
<1>9. \A v \in AllThreads : v # w => pullPc'[v] = pullPc[v] /\ result'[v] = result[v]
  BY <1>5 DEF PullInv, ThreadsInv, ThreadTypes
<1>10. pullPc'[w] = "push" /\ result'[w] = o
  BY <1>5 DEF PullInv, ThreadsInv, ThreadTypes
<1>11. WaitsInv'
  <2>1. \A v \in AllThreads : pullPc'[v] = "wait" => pullPc[v] = "wait"
    BY <1>9, <1>10
  <2> QED
    BY <1>1, <1>5, <2>1 DEF PullInv, DataInv, WaitsInv, WaitsFor
<1>12. \A t, x : GoodResult(t, x)' <=> GoodResult(t, x)
  BY <1>1, <1>5 DEF GoodResult, Answered
<1>13. \A i \in DOMAIN pulledData' : GoodResult(pulledData[i].what.tag, pulledData[i].outcome)'
  BY <1>1, <1>12 DEF PullInv, DataInv, ResultsInv
<1>14. ASSUME NEW v \in AllThreads, pullPc'[v] = "push"
       PROVE  GoodResult(task[v].tag, result[v])'
  <2>1. GoodResult(task'[v].tag, result'[v])
    BY <1>1, <1>7, <1>9, <1>10, <1>14 DEF PullInv, DataInv, ResultsInv
  <2> QED
    BY <1>1, <1>5, <1>12, <2>1
<1>15. ResultsInv'
  BY <1>13, <1>14 DEF ResultsInv
<1>16. AskedInv'
  BY <1>1, <1>5 DEF PullInv, DataInv, AskedInv
<1> QED
  BY <1>1, <1>5, <1>8, <1>11, <1>15, <1>16 DEF PullInv, DataInv

\* A question to a client: another one is added, and the cache of its puller emptied.
LEMMA AskClientData ==
  ASSUME PullInv, NEW w \in AllThreads, PullBegin(w), NEW tag \in Tags, tag = task[w].tag,
         ~shouldUseCache(pullers[tag], eventTimeNs), AskClient(w, tag)
  PROVE  DataInv'
<1>1. /\ pullPc[w] = "pull" /\ ~Locked(tag) /\ UNCHANGED <<eventTimeNs, mLockHolder, before, pulledData, task>>
  BY DEF PullBegin, alarmVars
<1>2. /\ pNow \in Nat /\ eventTimeNs \in Nat /\ pullers[tag] \in Pullers /\ questions \in Seq(Questions)
      /\ pullers \in [Tags -> Pullers]
  BY NumbersOfPull DEF PullInv, DataInv
<1>3. PICK n \in Nat : n = Len(questions)
  BY <1>2
<1>4. PICK q : q = Question(tag, pNow, eventTimeNs, FALSE)
  OBVIOUS
<1>5. PICK cd \in Nat : cd = pullers[tag].coolDown
  BY <1>2 DEF Pullers
<1>6. PICK z \in Nat : z = NoData
  BY DEF NoData
<1>7. PICK p : p = Puller(cd, pNow, eventTimeNs, FALSE, z)
  OBVIOUS
<1>8. q \in Questions /\ q.tag = tag /\ q.at = pNow /\ q.event = eventTimeNs /\ q.inTime = FALSE
  BY <1>2, <1>4 DEF Question, Questions
<1>9. /\ p \in Pullers /\ p.coolDown = cd /\ p.mLastPullTimeNs = pNow
      /\ p.mLastEventTimeNs = eventTimeNs /\ p.mCachedData = NoData
  BY <1>2, <1>6, <1>7 DEF Puller, Pullers
<1>10. questions' = Append(questions, q) /\ pullers' = [pullers EXCEPT ![tag] = p]
  BY <1>4, <1>5, <1>6, <1>7 DEF AskClient
<1>11. /\ questions' \in Seq(Questions) /\ DOMAIN questions' = 1 .. n + 1 /\ DOMAIN questions = 1 .. n
       /\ \A i \in DOMAIN questions : questions'[i] = questions[i]
       /\ questions'[n + 1] = q
  BY <1>2, <1>3, <1>8, <1>10
<1>12. /\ pullers' \in [Tags -> Pullers] /\ pullers'[tag] = p
       /\ \A t \in Tags : t # tag => pullers'[t] = pullers[t]
       /\ \A t \in Tags : pullers'[t].coolDown = pullers[t].coolDown
  BY <1>2, <1>5, <1>9, <1>10
<1>13. \A m, t : Answered(m, t) => Answered(m, t)' /\ questions'[m] = questions[m]
  BY <1>3, <1>11 DEF Answered
<1>14. CachesInv'
  <2>1. ASSUME NEW t \in Tags
        PROVE  CacheGood(t)'
    <3>1. CASE t = tag
      BY <1>9, <1>12, <3>1 DEF CacheGood
    <3>2. CASE t # tag
      <4>1. pullers'[t] = pullers[t] /\ CacheGood(t)
        BY <1>12, <3>2 DEF PullInv, DataInv, CachesInv
      <4> QED
        BY <1>13, <4>1 DEF CacheGood
    <3> QED
      BY <3>1, <3>2
  <2> QED
    BY <2>1 DEF CachesInv
<1>15. /\ \A v \in AllThreads : v # w => /\ pullPc'[v] = pullPc[v] /\ result'[v] = result[v]
                                         /\ wait'[v] = wait[v]
       /\ pullPc'[w] \in {"wait", "push"}
       /\ pullPc'[w] = "wait" => wait'[w].question = n + 1
       /\ pullPc'[w] = "push" => result'[w].data = NoData
  <2>1. CASE pullPc' = [pullPc EXCEPT ![w] = "wait"] /\ wait' = [wait EXCEPT ![w] = Wait(Len(questions) + 1, "none")]
             /\ UNCHANGED result
    <3>1. Wait(n + 1, "none").question = n + 1
      BY DEF Wait
    <3>2. wait' = [wait EXCEPT ![w] = Wait(n + 1, "none")]
      BY <1>3, <2>1
    <3> QED
      BY <2>1, <3>1, <3>2 DEF PullInv, ThreadsInv, ThreadTypes
  <2>2. CASE (\E code \in {"FAIL", "DEAD_OBJECT"} : Returns(w, code, NoData)) /\ UNCHANGED wait
    <3>1. PICK code \in {"FAIL", "DEAD_OBJECT"} : Returns(w, code, NoData)
      BY <2>2
    <3>2. PICK o : o = Result(code, NoData, pNow)
      OBVIOUS
    <3>3. o.data = NoData
      BY <3>2 DEF Result
    <3>4. pullPc' = [pullPc EXCEPT ![w] = "push"] /\ result' = [result EXCEPT ![w] = o]
      BY <3>1, <3>2 DEF Returns
    <3> QED
      BY <2>2, <3>3, <3>4 DEF PullInv, ThreadsInv, ThreadTypes
  <2> QED
    BY <2>1, <2>2 DEF AskClient
<1>16. WaitsInv'
  <2>1. \A v \in AllThreads : v # w /\ pullPc'[v] = "wait" => pullPc[v] = "wait" /\ task[v].tag # tag
    BY <1>1, <1>15 DEF Locked
  <2>2. ASSUME NEW v \in AllThreads, v # w, pullPc'[v] = "wait"
        PROVE  WaitsFor(v, wait[v].question)'
    <3>1. PICK m : m = wait[v].question
      OBVIOUS
    <3>2. WaitsFor(v, m) /\ task[v].tag # tag /\ wait'[v].question = m
      BY <1>15, <2>1, <2>2, <3>1 DEF PullInv, DataInv, WaitsInv
    <3>3. pullers'[task[v].tag] = pullers[task[v].tag] /\ questions'[m] = questions[m] /\ m \in DOMAIN questions'
      <4>1. task[v].tag \in Tags
        BY <2>1, <2>2, NumbersOfPull DEF Busy
      <4> QED
        BY <1>3, <1>11, <1>12, <3>2, <4>1 DEF WaitsFor
    <3> QED
      BY <1>1, <3>2, <3>3 DEF WaitsFor
  <2>3. ASSUME pullPc'[w] = "wait"
        PROVE  WaitsFor(w, wait[w].question)'
    <3>1. wait'[w].question = n + 1 /\ n + 1 \in DOMAIN questions'
      BY <1>11, <1>15, <2>3
    <3> QED
      BY <1>1, <1>8, <1>9, <1>11, <1>12, <3>1 DEF WaitsFor
  <2>4. ASSUME NEW u \in AllThreads, NEW v \in AllThreads, pullPc'[u] = "wait", pullPc'[v] = "wait",
               task'[u].tag = task'[v].tag
        PROVE  u = v
    <3>1. CASE u # w /\ v # w
      BY <1>1, <2>1, <2>4, <3>1 DEF PullInv, DataInv, WaitsInv
    <3>2. CASE u = w \/ v = w
      BY <1>1, <2>1, <2>4, <3>2
    <3> QED
      BY <3>1, <3>2
  <2> QED
    BY <2>2, <2>3, <2>4 DEF WaitsInv
<1>17. \A t, x : GoodResult(t, x) => GoodResult(t, x)'
  <2> SUFFICES ASSUME NEW t, NEW x, GoodResult(t, x), x.data # NoData
               PROVE  GoodResult(t, x)'
    BY DEF GoodResult
  <2>1. Answered(x.data, t) /\ t \in Tags
    BY DEF GoodResult
  <2> QED
    BY <1>1, <1>12, <1>13, <2>1 DEF GoodResult
<1>18. ResultsInv'
  <2>1. \A i \in DOMAIN pulledData' : GoodResult(pulledData[i].what.tag, pulledData[i].outcome)'
    BY <1>1, <1>17 DEF PullInv, DataInv, ResultsInv
  <2>2. ASSUME NEW v \in AllThreads, pullPc'[v] = "push"
        PROVE  GoodResult(task[v].tag, result[v])'
    <3>1. CASE v = w
      BY <1>15, <2>2, <3>1 DEF GoodResult
    <3>2. CASE v # w
      <4>1. GoodResult(task[v].tag, result[v]) /\ task'[v] = task[v] /\ result'[v] = result[v]
        BY <1>1, <1>15, <2>2, <3>2 DEF PullInv, DataInv, ResultsInv
      <4> QED
        BY <1>17, <4>1
    <3> QED
      BY <3>1, <3>2
  <2> QED
    BY <2>1, <2>2 DEF ResultsInv
<1>19. AskedInv'
  <2>1. before \in Nat
    BY DEF PullInv, DataInv, AskedInv
  <2> SUFFICES ASSUME mLockHolder = "alarm", NEW i \in DOMAIN questions', i > before
               PROVE  /\ pullers'[questions'[i].tag].mLastEventTimeNs = eventTimeNs
                      /\ \A j \in DOMAIN questions' : j > before /\ questions'[i].tag = questions'[j].tag => i = j
    BY <1>1, <2>1 DEF AskedInv
  <2>2. pullers[tag].mLastEventTimeNs # eventTimeNs
    BY DEF shouldUseCache
  <2>3. \A j \in DOMAIN questions : j > before => /\ questions[j].tag # tag
                                                  /\ pullers[questions[j].tag].mLastEventTimeNs = eventTimeNs
    BY <2>2 DEF PullInv, DataInv, AskedInv
  <2>4. \A j \in DOMAIN questions' : j \in DOMAIN questions \/ j = n + 1
    BY <1>11
  <2>5. \A j \in DOMAIN questions : questions[j].tag \in Tags
    <3>1. \A j \in DOMAIN questions : questions[j] \in Questions
      BY <1>2
    <3> QED
      BY <3>1 DEF Questions
  <2>6. pullers'[questions'[i].tag].mLastEventTimeNs = eventTimeNs
    <3>1. CASE i \in DOMAIN questions
      <4>1. questions'[i] = questions[i] /\ questions[i].tag # tag /\ questions[i].tag \in Tags
        BY <1>11, <2>3, <2>5, <3>1
      <4>2. pullers'[questions[i].tag] = pullers[questions[i].tag]
        BY <1>12, <4>1
      <4> QED
        BY <2>3, <3>1, <4>1, <4>2
    <3>2. CASE i = n + 1
      BY <1>8, <1>9, <1>11, <1>12, <3>2
    <3> QED
      BY <2>4, <3>1, <3>2
  <2>7. ASSUME NEW j \in DOMAIN questions', j > before, questions'[i].tag = questions'[j].tag
        PROVE  i = j
    <3>1. CASE i \in DOMAIN questions /\ j \in DOMAIN questions
      BY <1>11, <2>7, <3>1 DEF PullInv, DataInv, AskedInv
    <3>2. CASE i = n + 1 \/ j = n + 1
      BY <1>8, <1>11, <2>3, <2>4, <2>7, <3>2
    <3> QED
      BY <2>4, <3>1, <3>2
  <2> QED
    BY <2>6, <2>7
<1> QED
  BY <1>1, <1>2, <1>11, <1>12, <1>14, <1>16, <1>18, <1>19 DEF DataInv

\* A pull begins: from the cache, or with a question.
LEMMA PullBeginData ==
  ASSUME PullInv, NEW w \in AllThreads, PullBegin(w)
  PROVE  DataInv'
<1>1. PICK tag \in Tags : tag = task[w].tag
  BY NumbersOfPull DEF PullBegin, Busy
<1>2. \/ shouldUseCache(pullers[tag], eventTimeNs) /\ UseCache(w, pullers[tag])
      \/ ~shouldUseCache(pullers[tag], eventTimeNs) /\ AskClient(w, tag)
  BY <1>1 DEF PullBegin
<1> QED
  BY <1>1, <1>2, UseCacheData, AskClientData

\* The end of a wait: data that came in time are cached, and the question is marked.
LEMMA PullEndData ==
  ASSUME PullInv, NEW w \in AllThreads, NEW late \in BOOLEAN, PullEnd(w, late)
  PROVE  DataInv'
<1>1. /\ pullPc[w] = "wait" /\ UNCHANGED <<eventTimeNs, mLockHolder, before, pulledData, task>>
  BY DEF PullEnd, alarmVars
<1>2. PICK tag \in Tags : tag = task[w].tag
  BY <1>1, NumbersOfPull DEF Busy
<1>3. PICK n \in Nat : n = wait[w].question
  BY <1>1, NumbersOfPull
<1>4. /\ n \in DOMAIN questions /\ questions[n].tag = tag /\ ~questions[n].inTime
      /\ questions[n].event = eventTimeNs
      /\ pullers[tag].mLastEventTimeNs = eventTimeNs
      /\ pullers[tag].mLastPullTimeNs = questions[n].at
  BY <1>1, <1>2, <1>3 DEF PullInv, DataInv, WaitsInv, WaitsFor
<1>5. /\ pNow \in Nat /\ eventTimeNs \in Nat /\ pullers[tag] \in Pullers /\ questions \in Seq(Questions)
      /\ pullers \in [Tags -> Pullers]
  BY NumbersOfPull DEF PullInv, DataInv
<1>6. questions[n] \in Questions /\ n # NoData
  BY <1>4, <1>5 DEF NoData
<1>7. PICK good \in BOOLEAN : good = DataGood(wait[w].answer, late)
  BY DEF DataGood
<1>8. PICK data \in Nat : data = IF good THEN n ELSE NoData
  BY DEF NoData
<1>9. (data # NoData) = good /\ (data # NoData => data = n)
  BY <1>6, <1>8
<1>10. PICK p : p = Puller(pullers[tag].coolDown, pullers[tag].mLastPullTimeNs, pullers[tag].mLastEventTimeNs, good, data)
  OBVIOUS
<1>11. PICK q : q = Question(questions[n].tag, questions[n].at, questions[n].event, good)
  OBVIOUS
<1>12. /\ p \in Pullers /\ p.coolDown = pullers[tag].coolDown
       /\ p.mLastPullTimeNs = pullers[tag].mLastPullTimeNs
       /\ p.mLastEventTimeNs = eventTimeNs /\ p.mHasGoodData = good /\ p.mCachedData = data
  <2>1. /\ pullers[tag].coolDown \in Nat /\ pullers[tag].mLastPullTimeNs \in Nat
        /\ pullers[tag].mLastEventTimeNs \in Nat
    BY <1>5 DEF Pullers
  <2> QED
    BY <1>4, <1>10, <2>1 DEF Puller, Pullers
<1>13. q \in Questions /\ q.tag = tag /\ q.at = questions[n].at /\ q.event = eventTimeNs /\ q.inTime = good
  <2>1. questions[n].at \in Nat /\ questions[n].event \in Nat
    BY <1>6 DEF Questions
  <2> QED
    BY <1>4, <1>11, <2>1, QuestionNew
<1>14. pullers' = [pullers EXCEPT ![tag] = p]
  BY <1>2, <1>3, <1>7, <1>8, <1>9, <1>10 DEF PullEnd
<1>15. questions' = [questions EXCEPT ![n] = q]
  <2>1. good = (wait[w].answer = "success" /\ ~late)
    BY <1>7 DEF DataGood
  <2> QED
    BY <1>3, <1>11, <2>1 DEF PullEnd
<1>16. PICK o : o = Result(IF data # NoData THEN "SUCCESS" ELSE "FAIL", data, pNow)
  OBVIOUS
<1>17. /\ pullPc' = [pullPc EXCEPT ![w] = "push"] /\ result' = [result EXCEPT ![w] = o]
       /\ wait' = [wait EXCEPT ![w] = NotWaiting]
  BY <1>3, <1>7, <1>8, <1>16 DEF PullEnd, Returns
<1>18. o.data = data /\ (data # NoData => o.code = "SUCCESS")
  BY <1>16 DEF Result
<1>19. /\ questions' \in Seq(Questions) /\ DOMAIN questions' = DOMAIN questions /\ questions'[n] = q
       /\ \A i \in DOMAIN questions : i # n => questions'[i] = questions[i]
  BY <1>4, <1>5, <1>13, <1>15
<1>20. /\ pullers' \in [Tags -> Pullers] /\ pullers'[tag] = p
       /\ \A t \in Tags : t # tag => pullers'[t] = pullers[t]
       /\ \A t \in Tags : /\ pullers'[t].coolDown = pullers[t].coolDown
                          /\ pullers'[t].mLastEventTimeNs = pullers[t].mLastEventTimeNs
  BY <1>4, <1>5, <1>12, <1>14
<1>21. \A m, t : Answered(m, t) => Answered(m, t)' /\ questions'[m] = questions[m]
  BY <1>4, <1>19 DEF Answered
<1>22. data # NoData => Answered(data, tag)' /\ questions'[data] = q
  BY <1>4, <1>9, <1>13, <1>19 DEF Answered
<1>23. CachesInv'
  <2>1. ASSUME NEW t \in Tags
        PROVE  CacheGood(t)'
    <3>1. CASE t = tag
      <4>1. data # NoData => /\ Answered(data, tag)' /\ p.mHasGoodData
                             /\ questions'[data].event = p.mLastEventTimeNs /\ questions'[data].at = p.mLastPullTimeNs
        BY <1>4, <1>9, <1>12, <1>13, <1>22
      <4> QED
        BY <1>12, <1>20, <3>1, <4>1 DEF CacheGood
    <3>2. CASE t # tag
      <4>1. pullers'[t] = pullers[t] /\ CacheGood(t)
        BY <1>20, <3>2 DEF PullInv, DataInv, CachesInv
      <4> QED
        BY <1>21, <4>1 DEF CacheGood
    <3> QED
      BY <3>1, <3>2
  <2> QED
    BY <2>1 DEF CachesInv
<1>24. /\ \A v \in AllThreads : v # w => /\ pullPc'[v] = pullPc[v] /\ result'[v] = result[v]
                                         /\ wait'[v] = wait[v]
       /\ pullPc'[w] = "push" /\ result'[w] = o
  BY <1>17 DEF PullInv, ThreadsInv, ThreadTypes
<1>25. WaitsInv'
  <2>1. \A v \in AllThreads : pullPc'[v] = "wait" => v # w /\ pullPc[v] = "wait" /\ task[v].tag # tag
    BY <1>1, <1>2, <1>24 DEF PullInv, DataInv, WaitsInv
  <2>2. ASSUME NEW v \in AllThreads, pullPc'[v] = "wait"
        PROVE  WaitsFor(v, wait[v].question)'
    <3>1. PICK m : m = wait[v].question
      OBVIOUS
    <3>2. WaitsFor(v, m) /\ task[v].tag # tag /\ wait'[v].question = m
      BY <1>24, <2>1, <2>2, <3>1 DEF PullInv, DataInv, WaitsInv
    <3>3. pullers'[task[v].tag] = pullers[task[v].tag] /\ questions'[m] = questions[m] /\ m \in DOMAIN questions'
      <4>1. task[v].tag \in Tags
        BY <2>1, <2>2, NumbersOfPull DEF Busy
      <4>2. m # n
        BY <1>4, <3>2 DEF WaitsFor
      <4> QED
        BY <1>19, <1>20, <3>2, <4>1, <4>2 DEF WaitsFor
    <3> QED
      BY <1>1, <3>2, <3>3 DEF WaitsFor
  <2>3. \A u, v \in AllThreads : pullPc'[u] = "wait" /\ pullPc'[v] = "wait" /\ task'[u].tag = task'[v].tag => u = v
    BY <1>1, <2>1 DEF PullInv, DataInv, WaitsInv
  <2> QED
    BY <2>2, <2>3 DEF WaitsInv
<1>26. \A t, x : GoodResult(t, x) => GoodResult(t, x)'
  <2> SUFFICES ASSUME NEW t, NEW x, GoodResult(t, x), x.data # NoData
               PROVE  GoodResult(t, x)'
    BY DEF GoodResult
  <2>1. Answered(x.data, t) /\ t \in Tags
    BY DEF GoodResult
  <2> QED
    BY <1>1, <1>20, <1>21, <2>1 DEF GoodResult
<1>27. ResultsInv'
  <2>1. \A i \in DOMAIN pulledData' : GoodResult(pulledData[i].what.tag, pulledData[i].outcome)'
    BY <1>1, <1>26 DEF PullInv, DataInv, ResultsInv
  <2>2. ASSUME NEW v \in AllThreads, pullPc'[v] = "push"
        PROVE  GoodResult(task[v].tag, result[v])'
    <3>1. CASE v = w
      <4>1. GoodResult(tag, o)'
        BY <1>1, <1>13, <1>18, <1>22 DEF GoodResult
      <4> QED
        BY <1>1, <1>2, <1>24, <3>1, <4>1
    <3>2. CASE v # w
      <4>1. GoodResult(task[v].tag, result[v]) /\ task'[v] = task[v] /\ result'[v] = result[v]
        BY <1>1, <1>24, <2>2, <3>2 DEF PullInv, DataInv, ResultsInv
      <4> QED
        BY <1>26, <4>1
    <3> QED
      BY <3>1, <3>2
  <2> QED
    BY <2>1, <2>2 DEF ResultsInv
<1>28. AskedInv'
  <2>1. \A i \in DOMAIN questions : questions'[i].tag = questions[i].tag /\ questions[i].tag \in Tags
    <3>1. \A i \in DOMAIN questions : questions[i] \in Questions
      BY <1>5
    <3>2. \A i \in DOMAIN questions : questions[i].tag \in Tags
      BY <3>1 DEF Questions
    <3> QED
      BY <1>4, <1>13, <1>19, <3>2
  <2> QED
    BY <1>1, <1>19, <1>20, <2>1 DEF PullInv, DataInv, AskedInv
<1> QED
  BY <1>1, <1>5, <1>19, <1>20, <1>23, <1>25, <1>27, <1>28 DEF DataInv

-----------------------------------------------------------------------------
(* The theorem *)

\* The invariant holds at first.
LEMMA PullStart == PullInit => PullInv
  BY ThreadsStart, PlacesStart, TimesStart, DataStart DEF PullInv

\* A call that leaves the receivers' times and the pullers to be seen to.
LEMMA CallKeeps ==
  ASSUME PullInv, PullCall
  PROVE  /\ ThreadsInv' /\ PlacesInv' /\ pNow' = pNow /\ mLockHolder = "nobody"
         /\ \A r \in R : Outstanding(r)' <=> Outstanding(r)
         /\ UNCHANGED <<minNextPullTimeNs, mLockHolder, eventTimeNs, due, questions, before, pulledData, pullPc,
                        task, wait, result>>
<1>1. /\ ThreadsRest /\ mLockHolder = "nobody" /\ UNCHANGED <<pNow, eventTimeNs, alarmVars, questions>>
  BY CallRest
<1>2. ThreadsInv'
  BY <1>1, ThreadsAtRest DEF PullInv
<1>3. UNCHANGED <<minNextPullTimeNs, mLockHolder, eventTimeNs, due, told, questions, before, pullerQueue, pulledData, pullPc,
                        task, wait, result>>
  BY <1>1 DEF ThreadsRest, alarmVars
<1>4. PlacesInv' /\ \A r \in R : Outstanding(r)' <=> Outstanding(r)
  BY <1>3, PlacesKept DEF PullInv, Busy
<1> QED
  BY <1>1, <1>2, <1>3, <1>4

\* Calls that take mLock for a moment.
LEMMA CallStep ==
  ASSUME PullInv,
         \/ SetStatsCompanionService \/ ForceClearPullerCache \/ ClearPullerCacheIfNecessary
         \/ \E r \in R : RegisterReceiver(r) \/ UnRegisterReceiver(r)
         \/ \E config \in Configs : ChangeProvider(config)
         \/ \E tag \in Tags : registerPullAtomCallback(tag) \/ unregisterPullAtomCallback(tag)
  PROVE  PullInv'
<1>1. PullCall
  BY DEF SetStatsCompanionService, ForceClearPullerCache, ClearPullerCacheIfNecessary, RegisterReceiver,
         UnRegisterReceiver, ChangeProvider, registerPullAtomCallback, unregisterPullAtomCallback
<1>2. ThreadsInv /\ PlacesInv /\ TimesInv /\ DataInv /\ pNow \in 1 .. PullMaxTime
  BY DEF PullInv, TimesInv
<1>3. /\ ThreadsInv' /\ PlacesInv' /\ pNow' = pNow
      /\ \A r \in R : Outstanding(r)' <=> Outstanding(r)
      /\ UNCHANGED <<minNextPullTimeNs, mLockHolder, eventTimeNs, due, questions, before, pulledData, pullPc,
                     task, wait, result>>
  BY <1>1, CallKeeps
<1>4. UNCHANGED <<mReceivers, mNextPullTimeNs, companion>> => TimesInv'
  BY <1>2, <1>3, TimesKept
<1>5. UNCHANGED pullers => DataInv'
  BY <1>2, <1>3, DataUntouched
<1>6. TimesInv'
  <2>1. ASSUME NEW x \in R, RegisterReceiver(x) PROVE TimesInv'
    BY <1>2, <2>1, RegisterReceiverTimes
  <2>2. ASSUME NEW x \in R, UnRegisterReceiver(x) PROVE TimesInv'
    BY <1>2, <2>2, UnRegisterReceiverTimes
  <2>3. CASE SetStatsCompanionService
    BY <1>2, <2>3, SetCompanionTimes
  <2>4. CASE ForceClearPullerCache \/ ClearPullerCacheIfNecessary
    BY <1>4, <2>4 DEF ForceClearPullerCache, ClearPullerCacheIfNecessary, registerVars
  <2>5. CASE \E config \in Configs : ChangeProvider(config)
    BY <1>4, <2>5 DEF ChangeProvider
  <2>6. CASE \E tag \in Tags : registerPullAtomCallback(tag) \/ unregisterPullAtomCallback(tag)
    BY <1>4, <2>6 DEF registerPullAtomCallback, unregisterPullAtomCallback, registerVars
  <2> QED
    BY <2>1, <2>2, <2>3, <2>4, <2>5, <2>6
<1>7. DataInv'
  <2>1. CASE ForceClearPullerCache \/ ClearPullerCacheIfNecessary
    BY <1>2, <2>1, ForceClearData
  <2>2. ASSUME NEW tag \in Tags, registerPullAtomCallback(tag) PROVE DataInv'
    BY <1>2, <2>2, RegisterCallbackData
  <2>3. CASE \E tag \in Tags : unregisterPullAtomCallback(tag)
    BY <1>5, <2>3 DEF unregisterPullAtomCallback, UnregisterPullAtomCallback
  <2>4. CASE SetStatsCompanionService \/ (\E r \in R : RegisterReceiver(r) \/ UnRegisterReceiver(r))
             \/ (\E config \in Configs : ChangeProvider(config))
    BY <1>5, <2>4 DEF SetStatsCompanionService, RegisterReceiver, UnRegisterReceiver, ChangeProvider
  <2> QED
    BY <2>1, <2>2, <2>3, <2>4
<1> QED
  BY <1>3, <1>6, <1>7 DEF PullInv

\* Time passes.
LEMMA TickStep ==
  ASSUME PullInv, PullTick
  PROVE  PullInv'
<1>1. /\ UNCHANGED <<mReceivers, mNextPullTimeNs, companion, minNextPullTimeNs, mLockHolder, eventTimeNs, due, told,
                     questions, before, pullerQueue, pulledData, pendingThreads, pullPc, task, wait, result, pullers>>
      /\ pNow < PullMaxTime /\ pNow' = pNow + 1
  BY DEF PullTick, registerVars, alarmVars, threadVars
<1>2. ThreadsInv'
  BY <1>1, ThreadsAtRest DEF PullInv, ThreadsRest
<1>3. PlacesInv' /\ \A r \in R : Outstanding(r)' <=> Outstanding(r)
  BY <1>1, PlacesKept DEF PullInv, Busy
<1>4. pNow' \in 1 .. PullMaxTime
  BY <1>1, PullAssumption DEF PullInv, TimesInv
<1>5. TimesInv'
  BY <1>1, <1>3, <1>4, TimesKept DEF PullInv
<1>6. DataInv'
  BY <1>1, DataUntouched DEF PullInv
<1> QED
  BY <1>2, <1>3, <1>5, <1>6 DEF PullInv

\* The steps of a pull, on whichever thread.
LEMMA WorkerStepKeeps ==
  ASSUME PullInv, NEW w \in AllThreads, WorkerStep(w) \/ Answer(w)
  PROVE  PullInv'
<1>1. ThreadsInv /\ PlacesInv /\ TimesInv /\ DataInv
  BY DEF PullInv
<1>2. UNCHANGED <<pNow, mReceivers, mNextPullTimeNs, minNextPullTimeNs, companion, mLockHolder, eventTimeNs, due, told>>
  BY DEF WorkerStep, Answer, PullBegin, PullEnd, WorkerPop, WorkerPush, WorkerExit, registerVars, alarmVars
<1>3. ASSUME \A r \in R : Outstanding(r)' <=> Outstanding(r)
      PROVE  TimesInv'
  <2>1. pNow' \in 1 .. PullMaxTime
    BY <1>1, <1>2 DEF TimesInv
  <2> QED
    BY <1>1, <1>2, <1>3, <2>1, TimesKept
<1>4. ASSUME \A v \in AllThreads : Busy(v)' <=> Busy(v), UNCHANGED <<pullerQueue, pulledData, task>>
      PROVE  PlacesInv' /\ TimesInv'
  <2>1. PlacesInv' /\ \A r \in R : Outstanding(r)' <=> Outstanding(r)
    BY <1>1, <1>2, <1>4, CallerApart, PlacesKept
  <2> QED
    BY <1>3, <2>1
<1>5. CASE PullBegin(w)
  <2>1. UNCHANGED <<pullerQueue, pulledData, task>>
    BY <1>5 DEF PullBegin, alarmVars
  <2> QED
    BY <1>4, <1>5, <2>1, PullBeginThreads, PullBeginData DEF PullInv
<1>6. ASSUME NEW late \in BOOLEAN, PullEnd(w, late) PROVE PullInv'
  <2>1. UNCHANGED <<pullerQueue, pulledData, task>>
    BY <1>6 DEF PullEnd, alarmVars
  <2> QED
    BY <1>4, <1>6, <2>1, PullEndThreads, PullEndData DEF PullInv
<1>7. CASE WorkerPop(w)
  <2>1. ThreadsInv' /\ DataInv' /\ PlacesInv' /\ \A r \in R : Outstanding(r)' <=> Outstanding(r)
    BY <1>1, <1>7, WorkerPopThreads, WorkerPopPlaces, WorkerData
  <2> QED
    BY <1>3, <2>1 DEF PullInv
<1>8. CASE WorkerPush(w)
  <2>1. ThreadsInv' /\ DataInv' /\ PlacesInv' /\ \A r \in R : Outstanding(r)' <=> Outstanding(r)
    BY <1>1, <1>8, WorkerPushThreads, WorkerPushPlaces, WorkerPushData
  <2> QED
    BY <1>3, <2>1 DEF PullInv
<1>9. CASE WorkerExit(w)
  <2>1. UNCHANGED <<pullerQueue, pulledData, task>>
    BY <1>9 DEF WorkerExit
  <2> QED
    BY <1>1, <1>4, <1>9, <2>1, WorkerExitThreads, WorkerData DEF PullInv
<1>10. CASE Answer(w)
  <2>1. UNCHANGED <<pullerQueue, pulledData, task>>
    BY <1>10 DEF Answer, alarmVars
  <2> QED
    BY <1>1, <1>4, <1>10, <2>1, AnswerThreads, WorkerData DEF PullInv
<1> QED
  BY <1>5, <1>6, <1>7, <1>8, <1>9, <1>10 DEF WorkerStep

\* The ends of a direct pull.
LEMMA DirectStep ==
  ASSUME PullInv, NEW tag \in Tags, DirectPull(tag) \/ DirectPullReturns
  PROVE  PullInv'
<1>1. ThreadsInv /\ PlacesInv /\ TimesInv /\ DataInv /\ pNow \in 1 .. PullMaxTime
  BY DEF PullInv, TimesInv
<1>2. ThreadsInv' /\ DataInv'
  BY <1>1, DirectPullThreads, DirectPullReturnsThreads, DirectPullData, DirectPullReturnsData
<1>3. /\ UNCHANGED <<pNow, mReceivers, mNextPullTimeNs, minNextPullTimeNs, companion, due, told, pullerQueue, pulledData>>
      /\ mLockHolder # "alarm" /\ mLockHolder' # "alarm"
  BY DEF DirectPull, DirectPullReturns, registerVars, alarmVars
<1>4. \A v \in PullThreads : ~Busy(v) /\ ~Busy(v)'
  BY <1>1, <1>2, <1>3, NobodyAtRest DEF Busy, ThreadsInv, HolderInv, Running
<1>5. PlacesInv'
  BY <1>1, <1>3, <1>4, PlacesKept
<1>6. TimesInv'
  BY <1>1, <1>3, TimesOutside DEF TimesInv
<1> QED
  BY <1>2, <1>5, <1>6 DEF PullInv

\* The main thread of an alarm.
LEMMA AlarmStep ==
  ASSUME PullInv, ProcessPulled \/ AlarmEnds \/ \E needed \in SUBSET DOMAIN mReceivers : OnAlarmFired(needed)
  PROVE  PullInv'
<1>1. ThreadsInv /\ PlacesInv /\ TimesInv /\ DataInv /\ pNow \in Nat /\ DOMAIN mReceivers \subseteq R
  <2>1. DOMAIN mReceivers \subseteq R
    BY DEF PullInv, TimesInv
  <2> QED
    BY <2>1, NumbersOfPull DEF PullInv
<1>2. CASE ProcessPulled
  BY <1>1, <1>2, ProcessPulledThreads, ProcessPulledPlaces, ProcessPulledTimes, ProcessPulledData DEF PullInv
<1>3. CASE AlarmEnds
  <2>1. /\ ThreadsInv' /\ pullerQueue = << >> /\ \A w \in AllThreads : pullPc[w] = "off"
    BY <1>1, <1>3, AlarmEndsThreads
  <2>2. UNCHANGED <<pulledData, pullPc, task, told, due>> /\ pullerQueue' = << >>
    BY <1>3 DEF AlarmEnds, threadVars
  <2>3. PlacesInv'
    BY <1>1, <2>1, <2>2, PlacesKept DEF Busy
  <2> QED
    BY <1>1, <1>3, <2>1, <2>3, AlarmEndsTimes, AlarmEndsData DEF PullInv
<1>4. ASSUME NEW needed \in SUBSET DOMAIN mReceivers, OnAlarmFired(needed)
      PROVE  PullInv'
  <2>1. needed \in SUBSET R
    BY <1>1
  <2> QED
    BY <1>1, <1>4, <2>1, OnAlarmFiredThreads, OnAlarmFiredPlaces, OnAlarmFiredTimes, OnAlarmFiredData DEF PullInv
<1> QED
  BY <1>2, <1>3, <1>4

\* Every step keeps the invariant.
LEMMA PullStep == PullInv /\ [PullNext]_pullVars => PullInv'
<1> SUFFICES ASSUME PullInv, [PullNext]_pullVars PROVE PullInv'
  OBVIOUS
<1>1. CASE UNCHANGED pullVars
  <2>1. UNCHANGED <<mReceivers, mNextPullTimeNs, companion, minNextPullTimeNs, mLockHolder, eventTimeNs, due, told, pNow,
                     questions, before, pullerQueue, pulledData, pendingThreads, pullPc, task, wait, result, pullers>>
    BY <1>1 DEF pullVars, registerVars, alarmVars, threadVars
  <2>2. ThreadsInv'
    BY <2>1, ThreadsAtRest DEF PullInv, ThreadsRest
  <2>3. PlacesInv' /\ \A r \in R : Outstanding(r)' <=> Outstanding(r)
    BY <2>1, PlacesKept DEF PullInv, Busy
  <2>4. pNow' \in 1 .. PullMaxTime
    BY <2>1 DEF PullInv, TimesInv
  <2>5. TimesInv'
    BY <2>1, <2>3, <2>4, TimesKept DEF PullInv
  <2>6. DataInv'
    BY <2>1, DataUntouched DEF PullInv
  <2> QED
    BY <2>2, <2>3, <2>5, <2>6 DEF PullInv
<1>2. CASE PullTick
  BY <1>2, TickStep
<1>3. CASE MainStep
  <2>1. ASSUME DirectPullReturns PROVE PullInv'
    <3>1. PICK tag \in Tags : tag = task[Caller].tag
      BY <2>1, CallerApart, NumbersOfPull DEF DirectPullReturns, Busy
    <3> QED
      BY <2>1, DirectStep
  <2> QED
    BY <1>3, <2>1, AlarmStep DEF MainStep
<1>4. CASE \/ SetStatsCompanionService \/ ForceClearPullerCache \/ ClearPullerCacheIfNecessary
           \/ \E r \in R : RegisterReceiver(r) \/ UnRegisterReceiver(r)
           \/ \E config \in Configs : ChangeProvider(config)
           \/ \E tag \in Tags : registerPullAtomCallback(tag) \/ unregisterPullAtomCallback(tag)
  BY <1>4, CallStep
<1>5. CASE \E tag \in Tags : DirectPull(tag)
  BY <1>5, DirectStep
<1>6. CASE \E needed \in SUBSET DOMAIN mReceivers : OnAlarmFired(needed)
  BY <1>6, AlarmStep
<1>7. CASE \E w \in AllThreads : WorkerStep(w) \/ Answer(w)
  BY <1>7, WorkerStepKeeps
<1> QED
  BY <1>1, <1>2, <1>3, <1>4, <1>5, <1>6, <1>7 DEF PullNext

\* What the invariant says of the properties.
LEMMA PullSound == PullInv => PullsSound
<1> SUFFICES ASSUME PullInv PROVE PullsSound
  OBVIOUS
<1>1. AlarmInTime
  <2> SUFFICES ASSUME mLockHolder # "alarm", NEW r \in DOMAIN mReceivers
               PROVE  /\ mNextPullTimeNs <= mReceivers[r].next
                      /\ companion.up => companion.alarm <= mReceivers[r].next
    BY DEF AlarmInTime
  <2>1. /\ mNextPullTimeNs <= mReceivers[r].next /\ (companion.up => companion.alarm <= mNextPullTimeNs)
        /\ mNextPullTimeNs \in Nat /\ companion.alarm \in Nat /\ mReceivers[r].next \in Nat
    BY InfoOf DEF PullInv, TimesInv
  <2> QED
    BY <2>1
<1>2. ReceiversToldOnce
  <2>1. \A r \in R : IF Outstanding(r) THEN r \in due /\ told[r] = 0 ELSE told[r] = (IF r \in due THEN 1 ELSE 0)
    BY DEF PullInv, PlacesInv, ToldInv
  <2>2. mLockHolder # "alarm" => \A r : ~Outstanding(r)
    BY NobodyAtRest DEF PullInv, Outstanding, Queued, InThread, InResult, Busy
  <2>3. due \subseteq R
    BY DEF PullInv, PlacesInv, ToldInv
  <2>4. \A r \in R : told[r] <= IF r \in due THEN 1 ELSE 0
    BY <2>1
  <2> QED
    BY <2>1, <2>2, <2>3, <2>4 DEF ReceiversToldOnce
<1>3. PulledDataTimely
  <2>1. \A t, x : GoodResult(t, x) => Timely(t, x)
    BY DEF GoodResult, Timely, Answered
  <2> QED
    BY <2>1 DEF PulledDataTimely, PullInv, DataInv, ResultsInv
<1>4. AskedOncePerAlarm
  <2> SUFFICES ASSUME mLockHolder = "alarm", NEW i \in (before + 1) .. Len(questions),
                      NEW j \in (before + 1) .. Len(questions), questions[i].tag = questions[j].tag
               PROVE  i = j
    BY DEF AskedOncePerAlarm
  <2>1. before \in Nat /\ questions \in Seq(Questions)
    BY DEF PullInv, DataInv, AskedInv
  <2>2. i \in DOMAIN questions /\ j \in DOMAIN questions /\ i > before /\ j > before
    BY <2>1
  <2> QED
    BY <2>2 DEF PullInv, DataInv, AskedInv
<1> QED
  BY <1>1, <1>2, <1>3, <1>4 DEF PullsSound

\* Pulls are sound, for any receivers, atoms and configs, any number of threads, any
\* intervals and cool-downs: the one alarm is never later than the receiver that is due
\* first, an alarm tells each receiver that is due once, and what it is told came before
\* the timeout, for a question that was asked once for that alarm or was not too old
\* (OnAlarmFired, processPullerQueue, StatsPuller::Pull, StatsCallbackPuller).
THEOREM PullsAreSound == PullSpec => []PullsSound
<1>1. PullSpec => []PullInv
  BY PullStart, PullStep, PTL DEF PullSpec
<1> QED
  BY <1>1, PullSound, PTL
=============================================================================
