----------------------------- MODULE Conditions -----------------------------
(***************************************************************************)
(* The condition trackers of a config:                                     *)
(*   condition/SimpleConditionTracker.cpp        starts and stops, counted *)
(*   condition/CombinationConditionTracker.cpp   logic over other ones     *)
(*   condition/condition_util.cpp, ConditionWizard.cpp                     *)
(*   metrics/MetricsManager.cpp                  who is told of a change   *)
(*                                                                         *)
(* One predicate p without dimensions, one q sliced by a dimension, and a  *)
(* combination c of one or both, each over matchers of its own; an event   *)
(* may match any of these.  A link of a metric gives the key of q in full. *)
(* Trackers of events that match no condition are not evaluated: no step.  *)
(***************************************************************************)
EXTENDS Integers, Sequences, FiniteSets, FiniteSetsExt

CONSTANTS
  CondKeys,        \* values of the dimension of q
  CondKinds,       \* configs: [nesting, pInitial, qInitial, operation, children]
  kHardLimit,      \* kDimensionKeySizeHardLimit
  CondMaxEvents    \* bound

VARIABLES
  condKind,    \* the config
  simple,      \* the SimpleConditionTrackers p and q
  unslicedPart,\* mUnSlicedPartCondition of c
  changedCache,\* of the last event
  condCache,   \* conditionCache of the last event
  started,     \* history: how often each key of p and q is started, or kUnknown
  dropped,     \* history: keys of q that hit the guardrail since the last stop of all
  condEvents

condVars == <<condKind, simple, unslicedPart, changedCache, condCache, started, dropped, condEvents>>

kUnknown == -1
kFalse == 0
kTrue == 1
TheKey == "all"   \* DEFAULT_DIMENSION_KEY

\* convertInitialValue gives one of two values.
ASSUME CondAssumption ==
  /\ kHardLimit \in Nat /\ CondMaxEvents \in Nat /\ TheKey \notin CondKeys
  /\ \A kind \in CondKinds :
       {kind.pInitial, kind.qInitial} \subseteq {kUnknown, kFalse} /\ kind.children \in Seq({"p", "q"})

KeysOf(s) == IF s = "p" THEN {TheKey} ELSE CondKeys
InitialOf(kind, s) == IF s = "p" THEN kind.pInitial ELSE kind.qInitial
Children == condKind.children
ToRange(seq) == {seq[n] : n \in DOMAIN seq}
IsSliced == "q" \in ToRange(Children)

StateOf(count) == IF count > 0 THEN kTrue ELSE kFalse

evaluateCombinationCondition(states, operation) ==
  LET hasFalse == kFalse \in ToRange(states)
      hasTrue == kTrue \in ToRange(states)
      Known(b) == IF b THEN kTrue ELSE kFalse
  IN  IF kUnknown \in ToRange(states) THEN kUnknown
      ELSE CASE operation = "AND" -> Known(~hasFalse)
             [] operation = "OR" -> Known(hasTrue)
             [] operation = "NAND" -> Known(hasFalse)
             [] operation = "NOR" -> Known(~hasTrue)
             [] operation = "NOT" -> IF states = << >> THEN kUnknown ELSE Known(states[1] = kFalse)

\* The condition of p, or of q for a key, as a metric's query finds it.
isConditionMet(t, key) ==
  Max({t.mInitialValue} \union {StateOf(t.counts[k]) : k \in {key} \intersect DOMAIN t.counts})

\* The same of the combination c, for a key of q.
QueryC(trackers, key) ==
  evaluateCombinationCondition(
    [n \in DOMAIN Children |-> isConditionMet(trackers[Children[n]], IF Children[n] = "p" THEN TheKey ELSE key)],
    condKind.operation)

\* mUnSlicedChildren holds p at most.
UnslicedOf(cache) ==
  evaluateCombinationCondition(IF "p" \in ToRange(Children) THEN <<cache["p"]>> ELSE << >>,
                               condKind.operation)

CombinedOf(cache) ==
  evaluateCombinationCondition([n \in DOMAIN Children |-> cache[Children[n]]], condKind.operation)

\* mSlicedConditionState and the keys that changed with the last event
SimpleTracker(mInitialValue, counts, toTrue, toFalse) ==
  [mInitialValue |-> mInitialValue, counts |-> counts, toTrue |-> toTrue, toFalse |-> toFalse]

NoCounts == [k \in {} |-> 0]

\* init: what the conditions are before any event.
CondInit ==
  /\ condKind \in CondKinds /\ condEvents = 0 /\ dropped = {}
  /\ simple = [s \in {"p", "q"} |-> SimpleTracker(InitialOf(condKind, s), NoCounts, {}, {})]
  /\ started = [s \in {"p", "q"} |-> [k \in KeysOf(s) |-> InitialOf(condKind, s)]]
  /\ condCache = [s \in {"p", "q"} |-> InitialOf(condKind, s)]
  /\ unslicedPart = IF IsSliced THEN UnslicedOf(condCache) ELSE CombinedOf(condCache)
  /\ changedCache = [s \in {"p", "q", "c"} |-> FALSE]

-----------------------------------------------------------------------------
(* A simple condition: each gives the tracker, its cached condition, and changed *)

Outcome(t, state, changed) == [tracker |-> t, state |-> state, changed |-> changed]

\* Mutant: the keys that stop with all are not named.
StopAllUnnamed(t) ==
  Outcome(SimpleTracker(kFalse, NoCounts, {}, {}), kFalse,
          t.mInitialValue # kFalse \/ DOMAIN t.counts # {})

\* From now on the condition is known to be false.
handleStopAll(t) ==
  Outcome(SimpleTracker(kFalse, NoCounts, {}, {k \in DOMAIN t.counts : t.counts[k] > 0}), kFalse,
          t.mInitialValue # kFalse \/ DOMAIN t.counts # {})

hitGuardRail(s, t, key) ==
  s = "q" /\ key \notin DOMAIN t.counts /\ Cardinality(DOMAIN t.counts) + 1 > kHardLimit

WithCount(counts, key, n) ==
  [k \in DOMAIN counts \union {key} |-> IF k = key THEN n ELSE counts[k]]
Forgotten(counts, key) == [k \in DOMAIN counts \ {key} |-> counts[k]]

\* The tracker after an event for a key.
Counting(t, counts, toTrue, toFalse) == SimpleTracker(t.mInitialValue, counts, toTrue, toFalse)

\* A key that is new: a start counts, a stop only if the condition was not known false.
NewKey(t, key, isStart) ==
  IF isStart THEN Outcome(Counting(t, WithCount(t.counts, key, 1), {key}, {}), kTrue, TRUE)
  ELSE IF t.mInitialValue # kFalse
    THEN Outcome(Counting(t, WithCount(t.counts, key, 0), {}, {key}), kFalse, TRUE)
  ELSE Outcome(t, kFalse, FALSE)

KnownStart(t, key) ==
  Outcome(Counting(t, WithCount(t.counts, key, t.counts[key] + 1),
                   IF t.counts[key] = 0 THEN {key} ELSE {}, {}),
          kTrue, t.counts[key] = 0)

AfterStop(nesting, n) == IF nesting /\ n > 0 THEN n - 1 ELSE 0

KnownStop(t, key) ==
  LET n == AfterStop(condKind.nesting, t.counts[key])
      ended == t.counts[key] > 0 /\ n = 0
  IN  Outcome(Counting(t, IF t.mInitialValue = kFalse /\ n = 0 THEN Forgotten(t.counts, key)
                          ELSE WithCount(t.counts, key, n),
                       {}, IF ended THEN {key} ELSE {}),
              StateOf(n), ended)

handleConditionEvent(s, t, key, isStart) ==
  IF hitGuardRail(s, t, key) THEN Outcome(t, kUnknown, FALSE)
  ELSE IF key \notin DOMAIN t.counts THEN NewKey(t, key, isStart)
  ELSE IF isStart THEN KnownStart(t, key) ELSE KnownStop(t, key)

\* Mutant: it reports its initial value.
ExistingInitial(t) == Outcome(t, t.mInitialValue, FALSE)

\* A condition the event does not match reports what it knows.
Existing(t) ==
  Outcome(t, Max({t.mInitialValue} \union {StateOf(t.counts[k]) : k \in DOMAIN t.counts}), FALSE)

\* evaluateCondition; matched holds the kinds of matchers that matched: stop_all
\* comes before stop, and stop before start.
evaluateCondition(s, matched, key) ==
  LET t == Counting(simple[s], simple[s].counts, {}, {})
  IN  IF "stop_all" \in matched THEN handleStopAll(t)
      ELSE IF matched = {} THEN Existing(t)
      ELSE handleConditionEvent(s, t, IF s = "p" THEN TheKey ELSE key, "stop" \notin matched)

-----------------------------------------------------------------------------
\* History: what starts and stops mean.
StartedAfter(s, matched, key) ==
  [k \in KeysOf(s) |->
     LET n == started[s][k]
     IN  IF "stop_all" \in matched THEN 0
         ELSE IF matched = {} \/ k \notin {key, TheKey} THEN n
         ELSE IF "stop" \in matched THEN (IF condKind.nesting THEN Max({n - 1, 0}) ELSE 0)
         ELSE Max({n, 0}) + 1]

\* Did the combination change, or may it have?
CombinationChanged(p, q, cached) ==
  IF IsSliced THEN \E n \in DOMAIN Children : IF Children[n] = "p" THEN p.changed ELSE q.changed
  ELSE unslicedPart # CombinedOf(cached)

\* onLogEvent of MetricsManager: every condition is evaluated once.
OnEvent(pMatched, qMatched, key) ==
  LET p == evaluateCondition("p", pMatched, key)
      q == evaluateCondition("q", qMatched, key)
      cached == [s \in {"p", "q"} |-> IF s = "p" THEN p.state ELSE q.state]
  IN  /\ condEvents < CondMaxEvents /\ condEvents' = condEvents + 1
      /\ pMatched # {} \/ qMatched # {}
      /\ simple' = [s \in {"p", "q"} |-> IF s = "p" THEN p.tracker ELSE q.tracker]
      /\ condCache' = cached
      /\ unslicedPart' = IF IsSliced THEN UnslicedOf(cached) ELSE CombinedOf(cached)
      /\ changedCache' = [s \in {"p", "q", "c"} |->
           CASE s = "p" -> p.changed [] s = "q" -> q.changed [] s = "c" -> CombinationChanged(p, q, cached)]
      /\ started' = [s \in {"p", "q"} |-> StartedAfter(s, IF s = "p" THEN pMatched ELSE qMatched, key)]
      /\ dropped' = IF "stop_all" \in qMatched THEN {}
                    ELSE IF qMatched # {} /\ hitGuardRail("q", simple["q"], key)
                      THEN dropped \union {key} ELSE dropped
      /\ UNCHANGED condKind

Matches == {{}, {"start"}, {"stop"}, {"start", "stop"}, {"stop_all"}}

CondNext == \E pMatched, qMatched \in Matches, key \in CondKeys : OnEvent(pMatched, qMatched, key)

CondSpec == CondInit /\ [][CondNext]_condVars

-----------------------------------------------------------------------------
Meaning(s, key) == IF started[s][key] = kUnknown THEN kUnknown ELSE StateOf(started[s][key])

\* A query finds what the starts and stops mean, through nesting, values that are
\* unknown at first, keys that are forgotten when they stop, and stops of all; only
\* a key that hit the guardrail may be wrong, until everything stops.
ConditionsMeanEvents ==
  \A s \in {"p", "q"} : \A k \in KeysOf(s) \ dropped : isConditionMet(simple[s], k) = Meaning(s, k)

\* The unsliced part of a combination, which metrics read without a query, is that
\* of its children now.
UnslicedPartCurrent ==
  IF IsSliced THEN unslicedPart = UnslicedOf([s \in {"p", "q"} |-> isConditionMet(simple[s], TheKey)])
  ELSE unslicedPart = QueryC(simple, TheKey)

\* No change of what a query would answer goes untold: the condition is marked as
\* changed, and a sliced one names the key (producers that track the changed keys
\* look at no others).
ChangesTold ==
  [][/\ \A s \in {"p", "q"} : \A k \in KeysOf(s) :
          LET was == isConditionMet(simple[s], k)
              is == isConditionMet(simple'[s], k)
          IN  /\ is # was => changedCache'[s]
              /\ is = kTrue /\ was # kTrue => k \in simple'[s].toTrue
              /\ is # kTrue /\ was = kTrue => k \in simple'[s].toFalse
     /\ \A k \in CondKeys : QueryC(simple', k) # QueryC(simple, k) => changedCache'["c"]]_condVars

\* The trackers answer for a key, and for the part that is not sliced, what the
\* starts and stops of the events so far mean.
ConditionsCurrent == ConditionsMeanEvents /\ UnslicedPartCurrent
=============================================================================
