---------------------------- MODULE EventMetric ----------------------------
(***************************************************************************)
(* metrics/EventMetricProducer.cpp: every matched atom, its times gathered *)
(* under its field values and, for a metric sliced by state, under the     *)
(* state at the time.  With it what every producer inherits from           *)
(* MetricProducer.cpp to say that atoms were lost on the way: a severity   *)
(* for each reason, which a report shows and some reports reset.           *)
(*                                                                         *)
(* A time is the number of the event.  Sizes are units of size: see the    *)
(* constants.                                                              *)
(***************************************************************************)
EXTENDS Integers, Sequences, FiniteSets, Functions

CONSTANTS
  EventFields,     \* the values an atom may have
  FieldsSize, StateSize, TimeSize,   \* what an atom, a state key and a time take
  EventMaxCalls    \* bound: calls explored

ASSUME EventAssumption ==
  /\ {FieldsSize, StateSize, TimeSize} \subseteq Nat \ {0} /\ EventMaxCalls \in Nat

VARIABLES
  e,         \* the EventMetricProducer
  eState,    \* what StateManager answers
  eHistory   \* history: events taken and where they went, losses and reports

eventVars == <<e, eState, eHistory>>

Reasons == {"SOCKET_LOSS", "QUEUE_OVERFLOW"}
LostAtomTypes == {"kWhat", "kCondition", "kState"}
kNone == 0
kResetOnDump == 1
kUnrecoverable == 2
EventStates == {"off", "on"}
NoState == "none"

NoAtoms == [key \in {} |-> << >>]

EventInit ==
  /\ \E sliced, active \in BOOLEAN :
       e = [mCondition |-> FALSE, mIsActive |-> active, sliced |-> sliced,
            atoms |-> NoAtoms, mTotalDataSize |-> 0, corrupted |-> [r \in Reasons |-> kNone]]
  /\ eState = "off"
  /\ eHistory = [calls |-> 0, taken |-> << >>, gone |-> {}, lost |-> [r \in Reasons |-> {}],
                 report |-> [shown |-> {}, due |-> {}]]

EventCall(history) ==
  /\ eHistory.calls < EventMaxCalls
  /\ eHistory' = [history EXCEPT !.calls = @ + 1]

-----------------------------------------------------------------------------
(* Atoms *)

FieldsIn(atoms) == {key[1] : key \in DOMAIN atoms}

\* What an event adds to mTotalDataSize: its time, its field values unless they
\* are known in any state, the state key unless it is known for these values.
AddedSize(p, key) ==
  TimeSize + (IF key[1] \notin FieldsIn(p.atoms) THEN FieldsSize ELSE 0)
    + (IF p.sliced /\ key \notin DOMAIN p.atoms THEN StateSize ELSE 0)

\* Time t under key in mAggregatedAtoms, or in mAggAtomsAndStates when sliced.
Added(atoms, key, t) ==
  [k \in DOMAIN atoms \union {key} |->
     IF k # key THEN atoms[k]
     ELSE Append(IF key \in DOMAIN atoms THEN atoms[key] ELSE << >>, t)]

WithEvent(p, key, t) ==
  [p EXCEPT !.atoms = Added(@, key, t), !.mTotalDataSize = @ + AddedSize(p, key)]

\* onMatchedLogEventInternalLocked; the sampling may leave any event out.
onEventAtom(fields) ==
  LET key == <<fields, IF e.sliced THEN eState ELSE NoState>>
      t == Len(eHistory.taken) + 1
  IN  /\ e.mIsActive /\ e.mCondition
      /\ e' = WithEvent(e, key, t)
      /\ EventCall([eHistory EXCEPT !.taken = Append(@, key)])
      /\ UNCHANGED eState

onEventConditionChanged ==
  /\ e' = [e EXCEPT !.mCondition = ~@] /\ EventCall(eHistory) /\ UNCHANGED eState

\* activateLocked and flushIfExpire; there is no bucket to flush.
onEventActivation ==
  /\ e' = [e EXCEPT !.mIsActive = ~@] /\ EventCall(eHistory) /\ UNCHANGED eState

\* onStateChanged does nothing: the state is asked for when an event comes.
onEventStateChanged ==
  /\ eState' = CHOOSE s \in EventStates : s # eState
  /\ EventCall(eHistory) /\ UNCHANGED e

-----------------------------------------------------------------------------
(* Losses *)

determineCorruptionSeverity(type) ==
  CASE type = "kWhat" -> kResetOnDump
    [] type = "kCondition" -> kUnrecoverable
    [] type = "kState" -> kNone

\* std::max
Severity(old, new) == IF old < new THEN new ELSE old

\* onMatchedLogEventLostLocked
onEventAtomLost(reason, type) ==
  /\ e' = [e EXCEPT !.corrupted[reason] = Severity(@, determineCorruptionSeverity(type))]
  /\ EventCall([eHistory EXCEPT !.lost[reason] = @ \union {type}])
  /\ UNCHANGED eState

\* resetDataCorruptionFlagsLocked
Unflagged(corrupted) ==
  [r \in Reasons |-> IF corrupted[r] = kUnrecoverable THEN kUnrecoverable ELSE kNone]

-----------------------------------------------------------------------------
(* Reports *)

\* Mutant: only the atoms without a state are cleared.
ErasedButStates(p) ==
  [p EXCEPT !.atoms = IF p.sliced THEN @ ELSE NoAtoms, !.corrupted = Unflagged(@),
            !.mTotalDataSize = 0]

ErasedEvents(p) ==
  [p EXCEPT !.atoms = NoAtoms, !.corrupted = Unflagged(@), !.mTotalDataSize = 0]

\* The sequences of times that left, with their key and the report they left in.
Leaving(p) ==
  {[key |-> key, times |-> p.atoms[key], call |-> eHistory.calls] : key \in DOMAIN p.atoms}

\* What is to be shown: losses of the metric's atoms since the last report that
\* erased, and those of its condition for ever.
Due(lost) == {r \in Reasons : {"kWhat", "kCondition"} \intersect lost[r] # {}}
AfterErase(lost) == [r \in Reasons |-> lost[r] \intersect {"kCondition"}]

Gone == [eHistory EXCEPT !.gone = @ \union Leaving(e), !.lost = AfterErase(@)]

\* onDumpReportLocked
onEventDumpReport ==
  \E erase \in BOOLEAN :
    /\ e' = IF erase THEN ErasedEvents(e) ELSE e
    /\ EventCall([(IF erase THEN Gone ELSE eHistory) EXCEPT
         !.report = [shown |-> {r \in Reasons : e.corrupted[r] # kNone}, due |-> Due(eHistory.lost)]])
    /\ UNCHANGED eState

\* dropDataLocked and clearPastBucketsLocked
onEventDropData ==
  e' = ErasedEvents(e) /\ EventCall(Gone) /\ UNCHANGED eState

EventNext ==
  \/ \E fields \in EventFields : onEventAtom(fields)
  \/ onEventConditionChanged \/ onEventActivation \/ onEventStateChanged
  \/ \E reason \in Reasons, type \in LostAtomTypes : onEventAtomLost(reason, type)
  \/ onEventDumpReport \/ onEventDropData

EventSpec == EventInit /\ [][EventNext]_eventVars

-----------------------------------------------------------------------------
Places(t) == {b \in eHistory.gone \union Leaving(e) : t \in Range(b.times)}

\* An event is in the producer or left it once, under its own values and the state
\* that held when it came, however reports and drops come between.
EventsKeptOnce ==
  \A t \in DOMAIN eHistory.taken :
    /\ Cardinality(Places(t)) = 1
    /\ \A b \in Places(t) : /\ b.key = eHistory.taken[t]
                            /\ Cardinality({i \in DOMAIN b.times : b.times[i] = t}) = 1

\* The places of the times in mAggregatedAtoms or mAggAtomsAndStates.
TimesIn(atoms) == UNION {{key} \X DOMAIN atoms[key] : key \in DOMAIN atoms}

\* mTotalDataSize is the size of what the producer holds (byteSizeLocked decides
\* by it when data are sent or dropped).
EventSizeMatches ==
  e.mTotalDataSize =
    FieldsSize * Cardinality(FieldsIn(e.atoms))
      + (IF e.sliced THEN StateSize * Cardinality(DOMAIN e.atoms) ELSE 0)
      + TimeSize * Cardinality(TimesIn(e.atoms))

\* A report shows a reason exactly when atoms of the metric were lost for it since
\* data were last erased, or atoms of its condition ever (the severities of
\* onMatchedLogEventLostLocked and resetDataCorruptionFlagsLocked).
CorruptionShown == eHistory.report.shown = eHistory.report.due

\* An event is reported once, the size that StatsLogProcessor looks at is that of the
\* events that are kept, and a report shows what was lost.
EventsSound == EventsKeptOnce /\ EventSizeMatches /\ CorruptionShown
=============================================================================
