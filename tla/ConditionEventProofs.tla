------------------------ MODULE ConditionEventProofs ------------------------
(***************************************************************************)
(* What a metric goes by: the conditions of a config (Conditions) and the  *)
(* events of an event metric (EventMetric).                                *)
(*                                                                         *)
(* Conditions, for every set of keys, guardrail and config of trackers: a  *)
(* query finds what the starts and stops mean, and no change of an answer  *)
(* goes untold. A tracker has a count for a key, or its initial value, and *)
(* every handler changes one of them (OneKey) or all: what is to be shown  *)
(* of an event is what becomes of its key.                                 *)
(*                                                                         *)
(* EventMetric, for every set of events and keys: every event is kept or   *)
(* reported once, under its own values and state, the size of the data is  *)
(* that of the events kept, and reports show what was lost. An event is    *)
(* found by its number: what is kept under a key has numbers of events     *)
(* that were taken with that key, so two keys share none.                  *)
(***************************************************************************)
EXTENDS Conditions, EventMetric, FiniteSetTheorems, TLAPS

\* A tracker for the keys K of a predicate.
TrackerOK(t, K) ==
  /\ t.mInitialValue \in {kUnknown, kFalse}
  /\ DOMAIN t.counts \subseteq K
  /\ \A k \in DOMAIN t.counts : t.counts[k] \in Nat

\* What a query finds: the state by the count, or the initial value.
Found(t, key) == IF key \in DOMAIN t.counts THEN StateOf(t.counts[key]) ELSE t.mInitialValue

\* The greater of two states.
LEMMA MaxOfTwo ==
  ASSUME NEW a \in Int, NEW b \in Int
  PROVE  Max({a} \union {b}) = IF a >= b THEN a ELSE b
  BY DEF Max

\* A query is answered by the entry of the key, if there is one.
LEMMA QueryFinds ==
  ASSUME NEW t, NEW K, TrackerOK(t, K), NEW key
  PROVE  isConditionMet(t, key) = Found(t, key) /\ Found(t, key) \in {kUnknown, kFalse, kTrue}
<1>. DEFINE D == {key} \intersect DOMAIN t.counts
            S == {StateOf(t.counts[k]) : k \in D}
<1>0. t.mInitialValue \in {kUnknown, kFalse} /\ t.mInitialValue \in Int
  BY DEF TrackerOK, kUnknown, kFalse
<1>1. CASE key \in DOMAIN t.counts
  <2>1. S = {StateOf(t.counts[key])}
    BY <1>1
  <2>2. StateOf(t.counts[key]) \in {kFalse, kTrue} /\ StateOf(t.counts[key]) \in Int
    BY <1>1 DEF StateOf, kTrue, kFalse
  <2>3. StateOf(t.counts[key]) >= t.mInitialValue
    BY <1>0, <2>2 DEF kUnknown, kFalse, kTrue
  <2>. DEFINE x == StateOf(t.counts[key])
  <2>. HIDE DEF x
  <2>4. Max({t.mInitialValue} \union {x}) = x
    BY <1>0, <2>2, <2>3, MaxOfTwo DEF x, kUnknown, kFalse, kTrue
  <2>. QED
    BY <1>1, <2>1, <2>2, <2>4 DEF isConditionMet, Found, x
<1>2. CASE key \notin DOMAIN t.counts
  <2>1. S = {}
    BY <1>2
  <2>2. Max({t.mInitialValue}) = t.mInitialValue
    BY <1>0 DEF Max
  <2>3. {t.mInitialValue} \union {} = {t.mInitialValue}
    OBVIOUS
  <2>. QED
    BY <1>0, <1>2, <2>1, <2>2, <2>3 DEF isConditionMet, Found
<1>. QED
  BY <1>1, <1>2

-----------------------------------------------------------------------------
(* What an event does to a simple condition *)

\* No change of what a query finds goes untold.
Tells(t, o, K) ==
  \A k \in K :
    /\ Found(o.tracker, k) # Found(t, k) => o.changed
    /\ Found(o.tracker, k) = kTrue /\ Found(t, k) # kTrue => k \in o.tracker.toTrue
    /\ Found(o.tracker, k) # kTrue /\ Found(t, k) = kTrue => k \in o.tracker.toFalse

\* The tracker goes by count n for a key.
Agrees(t, n, k) == n = IF k \in DOMAIN t.counts THEN t.counts[k] ELSE t.mInitialValue

Counts == Nat \union {kUnknown}

\* What a start or a stop makes of a count.
CountAfter(n, isStart) ==
  IF isStart THEN Max({n, 0}) + 1 ELSE IF condKind.nesting THEN Max({n - 1, 0}) ELSE 0

\* Other keys stay as they are, and the key of the event follows it.
Follows(t, o, K, key, isStart) ==
  \A k \in K, n \in Counts :
    Agrees(t, n, k) => Agrees(o.tracker, IF k = key THEN CountAfter(n, isStart) ELSE n, k)

\* Counts after an event, without the maximum.
LEMMA CountAfterIs ==
  ASSUME NEW n \in Counts, NEW isStart \in BOOLEAN
  PROVE  /\ CountAfter(n, isStart) \in Nat
         /\ CountAfter(n, isStart) =
              IF isStart THEN (IF n = kUnknown THEN 1 ELSE n + 1)
              ELSE IF condKind.nesting /\ n > 0 THEN n - 1 ELSE 0
<1>1. n \in Int /\ n >= -1 /\ (n = kUnknown <=> n = -1)
  BY DEF Counts, kUnknown
<1>2. Max({n, 0}) = IF n >= 0 THEN n ELSE 0
  BY <1>1 DEF Max
<1>3. Max({n - 1, 0}) = IF n - 1 >= 0 THEN n - 1 ELSE 0
  <2>1. PICK m \in Int : m = n - 1
    BY <1>1
  <2>2. Max({m, 0}) = IF m >= 0 THEN m ELSE 0
    BY DEF Max
  <2>. QED
    BY <2>1, <2>2
<1>. QED
  BY <1>1, <1>2, <1>3 DEF CountAfter

\* All stop: every key is known to be false, and those that were true are named.
LEMMA StopAllOK ==
  ASSUME NEW t, NEW K, TrackerOK(t, K), NEW o, o = handleStopAll(t)
  PROVE  /\ TrackerOK(o.tracker, K) /\ Tells(t, o, K) /\ \A k \in K : Agrees(o.tracker, 0, k)
         /\ \A k : o.state = Found(o.tracker, k)
<1>1. /\ o.tracker.mInitialValue = kFalse /\ DOMAIN o.tracker.counts = {}
      /\ o.tracker.toFalse = {k \in DOMAIN t.counts : t.counts[k] > 0} /\ o.state = kFalse
      /\ o.changed <=> (t.mInitialValue # kFalse \/ DOMAIN t.counts # {})
  BY DEF handleStopAll, Outcome, SimpleTracker, NoCounts
<1>2. /\ TrackerOK(o.tracker, K)
      /\ \A k : Found(o.tracker, k) = kFalse /\ Agrees(o.tracker, 0, k)
  BY <1>1 DEF TrackerOK, Agrees, Found, kFalse
<1>3. ASSUME NEW k \in K
      PROVE  /\ Found(t, k) # kFalse => o.changed
             /\ Found(t, k) = kTrue => k \in o.tracker.toFalse
  BY <1>1 DEF Found, TrackerOK, StateOf, kFalse, kTrue, kUnknown
<1>4. ASSUME NEW k \in K
      PROVE  /\ Found(o.tracker, k) # Found(t, k) => o.changed
             /\ Found(o.tracker, k) = kTrue /\ Found(t, k) # kTrue => k \in o.tracker.toTrue
             /\ Found(o.tracker, k) # kTrue /\ Found(t, k) = kTrue => k \in o.tracker.toFalse
  <2>1. Found(o.tracker, k) = kFalse /\ kFalse # kTrue
    BY <1>2 DEF kFalse, kTrue
  <2>2. Found(o.tracker, k) # Found(t, k) => o.changed
    BY <1>3, <2>1, Zenon
  <2>3. ~(Found(o.tracker, k) = kTrue)
    BY <2>1
  <2>4. Found(t, k) = kTrue => k \in o.tracker.toFalse
    BY <1>3
  <2>. QED
    BY <2>2, <2>3, <2>4, Zenon
<1>5. Tells(t, o, K)
  BY <1>4 DEF Tells
<1>. QED
  BY <1>1, <1>2, <1>5

\* Tracker u differs from t in the entry of one key.
OneKey(t, u, key) ==
  /\ u.mInitialValue = t.mInitialValue
  /\ \A k : k # key => (k \in DOMAIN u.counts <=> k \in DOMAIN t.counts)
  /\ \A k \in DOMAIN t.counts : k # key => u.counts[k] = t.counts[k]
  /\ key \in DOMAIN u.counts => u.counts[key] \in Nat

\* Then it is a tracker, and the other keys are found as before.
LEMMA OneKeyOK ==
  ASSUME NEW t, NEW K, TrackerOK(t, K), NEW key \in K, NEW u, OneKey(t, u, key)
  PROVE  /\ TrackerOK(u, K)
         /\ \A k : k # key => Found(u, k) = Found(t, k)
         /\ \A k, n : k # key /\ Agrees(t, n, k) => Agrees(u, n, k)
<1>1. DOMAIN u.counts \subseteq K
  BY DEF OneKey, TrackerOK
<1>2. \A k \in DOMAIN u.counts : u.counts[k] \in Nat
  BY DEF OneKey, TrackerOK
<1>3. TrackerOK(u, K)
  BY <1>1, <1>2 DEF OneKey, TrackerOK
<1>4. \A k : k # key => Found(u, k) = Found(t, k)
  BY DEF OneKey, Found
<1>5. \A k, n : k # key /\ Agrees(t, n, k) => Agrees(u, n, k)
  BY DEF OneKey, Agrees
<1>. QED
  BY <1>3, <1>4, <1>5

\* An entry was set.
LEMMA SetIsOneKey ==
  ASSUME NEW t, NEW key, NEW u, u.mInitialValue = t.mInitialValue, NEW n \in Nat,
         u.counts = WithCount(t.counts, key, n)
  PROVE  OneKey(t, u, key) /\ key \in DOMAIN u.counts /\ u.counts[key] = n
<1>1. /\ DOMAIN u.counts = DOMAIN t.counts \union {key} /\ u.counts[key] = n
      /\ \A k \in DOMAIN t.counts : k # key => u.counts[k] = t.counts[k]
  BY DEF WithCount
<1>. QED
  BY <1>1 DEF OneKey

\* An entry was taken out.
LEMMA ForgottenIsOneKey ==
  ASSUME NEW t, NEW key, NEW u, u.mInitialValue = t.mInitialValue,
         u.counts = Forgotten(t.counts, key)
  PROVE  OneKey(t, u, key) /\ key \notin DOMAIN u.counts
<1>1. /\ DOMAIN u.counts = DOMAIN t.counts \ {key}
      /\ \A k \in DOMAIN t.counts : k # key => u.counts[k] = t.counts[k]
  BY DEF Forgotten
<1>. QED
  BY <1>1 DEF OneKey

\* What is left to show of an event: what becomes of its key.
KeyFollows(t, o, key, isStart) ==
  /\ Found(o.tracker, key) # Found(t, key) => o.changed
  /\ Found(o.tracker, key) = kTrue /\ Found(t, key) # kTrue => key \in o.tracker.toTrue
  /\ Found(o.tracker, key) # kTrue /\ Found(t, key) = kTrue => key \in o.tracker.toFalse
  /\ \A n \in Counts : Agrees(t, n, key) => Agrees(o.tracker, CountAfter(n, isStart), key)

\* An event that follows for its key follows for all.
LEMMA KeyIsAll ==
  ASSUME NEW t, NEW K, TrackerOK(t, K), NEW key \in K, NEW isStart \in BOOLEAN, NEW o,
         OneKey(t, o.tracker, key), KeyFollows(t, o, key, isStart)
  PROVE  TrackerOK(o.tracker, K) /\ Tells(t, o, K) /\ Follows(t, o, K, key, isStart)
<1>1. /\ TrackerOK(o.tracker, K)
      /\ \A k : k # key => Found(o.tracker, k) = Found(t, k)
      /\ \A k, n : k # key /\ Agrees(t, n, k) => Agrees(o.tracker, n, k)
  BY OneKeyOK
<1>2. Tells(t, o, K)
  BY <1>1 DEF Tells, KeyFollows
<1>3. ASSUME NEW k \in K, NEW n \in Counts, Agrees(t, n, k)
      PROVE  Agrees(o.tracker, IF k = key THEN CountAfter(n, isStart) ELSE n, k)
  BY <1>1, <1>3 DEF KeyFollows
<1>. QED
  BY <1>1, <1>2, <1>3 DEF Follows

\* An event for a key that is new.
LEMMA NewKeyOK ==
  ASSUME NEW t, NEW K, TrackerOK(t, K), NEW key \in K, key \notin DOMAIN t.counts,
         NEW isStart \in BOOLEAN, NEW o, o = NewKey(t, key, isStart)
  PROVE  /\ TrackerOK(o.tracker, K) /\ Tells(t, o, K) /\ Follows(t, o, K, key, isStart)
         /\ o.state = Found(o.tracker, key)
<1>0. Found(t, key) = t.mInitialValue /\ t.mInitialValue \in {kUnknown, kFalse}
  BY DEF Found, TrackerOK
<1>1. CASE isStart
  <2>1. /\ o.tracker.mInitialValue = t.mInitialValue /\ o.tracker.counts = WithCount(t.counts, key, 1)
        /\ o.tracker.toTrue = {key} /\ o.changed /\ o.state = kTrue
    BY <1>1 DEF NewKey, Outcome, Counting, SimpleTracker
  <2>2. OneKey(t, o.tracker, key) /\ key \in DOMAIN o.tracker.counts /\ o.tracker.counts[key] = 1
    <3>1. PICK u : u = o.tracker
      OBVIOUS
    <3>2. 1 \in Nat /\ u.mInitialValue = t.mInitialValue /\ u.counts = WithCount(t.counts, key, 1)
      BY <2>1, <3>1
    <3>. QED
      BY <3>1, <3>2, SetIsOneKey
  <2>3. Found(o.tracker, key) = kTrue
    BY <2>2 DEF Found, StateOf
  <2>4. \A n \in Counts : Agrees(t, n, key) => Agrees(o.tracker, CountAfter(n, isStart), key)
    <3>. SUFFICES ASSUME NEW n \in Counts, Agrees(t, n, key)
                  PROVE  Agrees(o.tracker, CountAfter(n, isStart), key)
      OBVIOUS
    <3>1. n = kUnknown \/ n = 0
      BY <1>0 DEF Agrees, kFalse
    <3>2. CountAfter(n, isStart) = IF n = kUnknown THEN 1 ELSE n + 1
      BY <1>1, CountAfterIs
    <3>3. CountAfter(n, isStart) = 1
      BY <3>1, <3>2
    <3>. QED
      BY <2>2, <3>3 DEF Agrees
  <2>5. KeyFollows(t, o, key, isStart)
    BY <2>1, <2>3, <2>4 DEF KeyFollows, kTrue, kFalse
  <2>. QED
    BY <2>1, <2>2, <2>3, <2>5, KeyIsAll
<1>2. CASE ~isStart /\ t.mInitialValue # kFalse
  <2>1. /\ o.tracker.mInitialValue = t.mInitialValue /\ o.tracker.counts = WithCount(t.counts, key, 0)
        /\ o.tracker.toFalse = {key} /\ o.changed /\ o.state = kFalse
    BY <1>2 DEF NewKey, Outcome, Counting, SimpleTracker
  <2>2. OneKey(t, o.tracker, key) /\ key \in DOMAIN o.tracker.counts /\ o.tracker.counts[key] = 0
    <3>1. PICK u : u = o.tracker
      OBVIOUS
    <3>2. PICK n \in Nat : n = 0
      OBVIOUS
    <3>3. u.mInitialValue = t.mInitialValue /\ u.counts = WithCount(t.counts, key, n)
      BY <2>1, <3>1, <3>2
    <3>4. OneKey(t, u, key) /\ key \in DOMAIN u.counts /\ u.counts[key] = n
      BY <3>3, SetIsOneKey
    <3>. QED
      BY <3>1, <3>2, <3>4
  <2>3. Found(o.tracker, key) = kFalse
    BY <2>2 DEF Found, StateOf
  <2>4. \A n \in Counts : Agrees(t, n, key) => Agrees(o.tracker, CountAfter(n, isStart), key)
    <3>. SUFFICES ASSUME NEW n \in Counts, Agrees(t, n, key)
                  PROVE  Agrees(o.tracker, CountAfter(n, isStart), key)
      OBVIOUS
    <3>1. n = -1
      BY <1>0, <1>2 DEF Agrees, kUnknown
    <3>2. CountAfter(n, isStart) = IF condKind.nesting /\ n > 0 THEN n - 1 ELSE 0
      BY <1>2, CountAfterIs
    <3>3. CountAfter(n, isStart) = 0
      BY <3>1, <3>2
    <3>. QED
      BY <2>2, <3>3 DEF Agrees
  <2>5. KeyFollows(t, o, key, isStart)
    BY <1>0, <2>1, <2>3, <2>4 DEF KeyFollows, kTrue, kFalse, kUnknown
  <2>. QED
    BY <2>1, <2>2, <2>3, <2>5, KeyIsAll
<1>3. CASE ~isStart /\ t.mInitialValue = kFalse
  <2>1. o.tracker = t /\ o.state = kFalse
    BY <1>3 DEF NewKey, Outcome
  <2>2. OneKey(t, o.tracker, key)
    BY <2>1 DEF OneKey
  <2>3. \A n \in Counts : Agrees(t, n, key) => Agrees(o.tracker, CountAfter(n, isStart), key)
    BY <1>0, <1>3, <2>1, CountAfterIs DEF Agrees, kUnknown, kFalse
  <2>4. KeyFollows(t, o, key, isStart)
    BY <2>1, <2>3 DEF KeyFollows
  <2>. QED
    BY <1>0, <1>3, <2>1, <2>2, <2>4, KeyIsAll
<1>. QED
  BY <1>1, <1>2, <1>3

\* A start of a key that has an entry.
LEMMA KnownStartOK ==
  ASSUME NEW t, NEW K, TrackerOK(t, K), NEW key \in K, key \in DOMAIN t.counts,
         NEW o, o = KnownStart(t, key)
  PROVE  /\ TrackerOK(o.tracker, K) /\ Tells(t, o, K) /\ Follows(t, o, K, key, TRUE)
         /\ o.state = Found(o.tracker, key)
<1>1. /\ o.tracker.mInitialValue = t.mInitialValue
      /\ o.tracker.counts = WithCount(t.counts, key, t.counts[key] + 1)
      /\ o.tracker.toTrue = (IF t.counts[key] = 0 THEN {key} ELSE {})
      /\ o.changed <=> t.counts[key] = 0
      /\ o.state = kTrue
  BY DEF KnownStart, Outcome, Counting, SimpleTracker
<1>2. t.counts[key] \in Nat /\ t.counts[key] + 1 \in Nat
  BY DEF TrackerOK
<1>3. /\ OneKey(t, o.tracker, key) /\ key \in DOMAIN o.tracker.counts
      /\ o.tracker.counts[key] = t.counts[key] + 1
  BY <1>1, <1>2, SetIsOneKey
<1>4. Found(o.tracker, key) = kTrue /\ (Found(t, key) = kTrue <=> t.counts[key] # 0)
  BY <1>2, <1>3 DEF Found, StateOf, kTrue, kFalse
<1>5. \A n \in Counts : Agrees(t, n, key) => Agrees(o.tracker, CountAfter(n, TRUE), key)
  <2>. SUFFICES ASSUME NEW n \in Counts, Agrees(t, n, key)
                PROVE  Agrees(o.tracker, CountAfter(n, TRUE), key)
    OBVIOUS
  <2>1. n = t.counts[key]
    BY DEF Agrees
  <2>2. CountAfter(n, TRUE) = IF n = kUnknown THEN 1 ELSE n + 1
    BY CountAfterIs
  <2>3. n # kUnknown
    BY <1>2, <2>1 DEF kUnknown
  <2>4. CountAfter(n, TRUE) = t.counts[key] + 1
    BY <2>1, <2>2, <2>3
  <2>. QED
    BY <1>3, <2>4 DEF Agrees
<1>6. KeyFollows(t, o, key, TRUE)
  BY <1>1, <1>4, <1>5 DEF KeyFollows
<1>. QED
  BY <1>1, <1>3, <1>4, <1>6, KeyIsAll

\* A stop of a key that has an entry.
LEMMA KnownStopOK ==
  ASSUME NEW t, NEW K, TrackerOK(t, K), NEW key \in K, key \in DOMAIN t.counts,
         NEW o, o = KnownStop(t, key)
  PROVE  /\ TrackerOK(o.tracker, K) /\ Tells(t, o, K) /\ Follows(t, o, K, key, FALSE)
         /\ o.state = Found(o.tracker, key)
<1>. DEFINE n == AfterStop(condKind.nesting, t.counts[key])
<1>1. /\ o.tracker.mInitialValue = t.mInitialValue
      /\ o.tracker.counts = (IF t.mInitialValue = kFalse /\ n = 0 THEN Forgotten(t.counts, key)
                             ELSE WithCount(t.counts, key, n))
      /\ o.tracker.toFalse = (IF t.counts[key] > 0 /\ n = 0 THEN {key} ELSE {})
      /\ o.changed <=> t.counts[key] > 0 /\ n = 0
      /\ o.state = StateOf(n)
  BY DEF KnownStop, Outcome, Counting, SimpleTracker
<1>2. /\ t.counts[key] \in Nat /\ n \in Nat
      /\ n = IF condKind.nesting /\ t.counts[key] > 0 THEN t.counts[key] - 1 ELSE 0
  BY DEF TrackerOK, AfterStop
<1>. HIDE DEF n
<1>3. /\ OneKey(t, o.tracker, key)
      /\ IF t.mInitialValue = kFalse /\ n = 0 THEN key \notin DOMAIN o.tracker.counts
         ELSE key \in DOMAIN o.tracker.counts /\ o.tracker.counts[key] = n
  <2>1. CASE t.mInitialValue = kFalse /\ n = 0
    <3>1. o.tracker.counts = Forgotten(t.counts, key)
      BY <1>1, <2>1
    <3>2. OneKey(t, o.tracker, key) /\ key \notin DOMAIN o.tracker.counts
      BY <1>1, <3>1, ForgottenIsOneKey
    <3>. QED
      BY <2>1, <3>2
  <2>2. CASE ~(t.mInitialValue = kFalse /\ n = 0)
    <3>1. o.tracker.counts = WithCount(t.counts, key, n)
      BY <1>1, <2>2
    <3>2. n \in Nat /\ o.tracker.mInitialValue = t.mInitialValue
      BY <1>1, <1>2
    <3>3. OneKey(t, o.tracker, key) /\ key \in DOMAIN o.tracker.counts /\ o.tracker.counts[key] = n
      <4>. HIDE DEF n
      <4>1. PICK m \in Nat : m = n
        BY <3>2
      <4>2. o.tracker.counts = WithCount(t.counts, key, m)
        BY <3>1, <4>1, Zenon
      <4>3. OneKey(t, o.tracker, key) /\ key \in DOMAIN o.tracker.counts /\ o.tracker.counts[key] = m
        BY <3>2, <4>2, SetIsOneKey
      <4>. QED
        BY <4>1, <4>3
    <3>. QED
      BY <2>2, <3>3
  <2>. QED
    BY <2>1, <2>2
<1>4. Found(o.tracker, key) = StateOf(n) /\ Found(t, key) = StateOf(t.counts[key])
  BY <1>1, <1>3 DEF Found, StateOf, kFalse
<1>5. \A m \in Counts : Agrees(t, m, key) => Agrees(o.tracker, CountAfter(m, FALSE), key)
  BY <1>1, <1>2, <1>3, CountAfterIs DEF Agrees, kFalse
<1>6. KeyFollows(t, o, key, FALSE)
  <2>1. /\ Found(o.tracker, key) = IF n > 0 THEN 1 ELSE 0
        /\ Found(t, key) = IF t.counts[key] > 0 THEN 1 ELSE 0
    BY <1>4 DEF StateOf, kTrue, kFalse
  <2>2. n <= t.counts[key]
    BY <1>2
  <2>3. /\ Found(o.tracker, key) # Found(t, key) => o.changed
        /\ ~(Found(o.tracker, key) = kTrue /\ Found(t, key) # kTrue)
        /\ Found(o.tracker, key) # kTrue /\ Found(t, key) = kTrue => key \in o.tracker.toFalse
    BY <1>1, <1>2, <2>1, <2>2 DEF kTrue
  <2>. QED
    BY <1>5, <2>3 DEF KeyFollows
<1>. QED
  BY <1>1, <1>3, <1>4, <1>6, KeyIsAll

\* An event for a key: it is followed, or the guardrail keeps it out.
LEMMA EventOK ==
  ASSUME NEW s \in {"p", "q"}, NEW t, TrackerOK(t, KeysOf(s)), NEW key \in KeysOf(s),
         NEW isStart \in BOOLEAN, NEW o, o = handleConditionEvent(s, t, key, isStart)
  PROVE  /\ TrackerOK(o.tracker, KeysOf(s)) /\ Tells(t, o, KeysOf(s))
         /\ IF hitGuardRail(s, t, key) THEN s = "q" /\ o.tracker = t
            ELSE Follows(t, o, KeysOf(s), key, isStart) /\ o.state = Found(o.tracker, key)
<1>1. CASE hitGuardRail(s, t, key)
  <2>1. o.tracker = t /\ s = "q"
    BY <1>1 DEF handleConditionEvent, Outcome, hitGuardRail
  <2>2. Tells(t, o, KeysOf(s))
    BY <2>1 DEF Tells
  <2>. QED
    BY <1>1, <2>1, <2>2
<1>2. CASE ~hitGuardRail(s, t, key) /\ key \notin DOMAIN t.counts
  BY <1>2, NewKeyOK DEF handleConditionEvent
<1>3. CASE ~hitGuardRail(s, t, key) /\ key \in DOMAIN t.counts /\ isStart
  <2>1. o = KnownStart(t, key) /\ isStart = TRUE
    BY <1>3 DEF handleConditionEvent
  <2>. QED
    BY <1>3, <2>1, KnownStartOK
<1>4. CASE ~hitGuardRail(s, t, key) /\ key \in DOMAIN t.counts /\ ~isStart
  <2>1. o = KnownStop(t, key) /\ isStart = FALSE
    BY <1>4 DEF handleConditionEvent
  <2>. QED
    BY <1>4, <2>1, KnownStopOK
<1>. QED
  BY <1>1, <1>2, <1>3, <1>4

\* A condition the event does not match is left as it is, and p reports what a
\* query finds.
LEMMA ExistingOK ==
  ASSUME NEW t, NEW K, TrackerOK(t, K), NEW o, o = Existing(t)
  PROVE  /\ o.tracker = t /\ Tells(t, o, K)
         /\ K = {TheKey} => o.state = Found(t, TheKey)
<1>1. o.tracker = t /\ o.state = Max({t.mInitialValue} \union {StateOf(t.counts[k]) : k \in DOMAIN t.counts})
  BY DEF Existing, Outcome
<1>2. Tells(t, o, K)
  BY <1>1 DEF Tells
<1>3. ASSUME K = {TheKey} PROVE o.state = Found(t, TheKey)
  <2>1. {TheKey} \intersect DOMAIN t.counts = DOMAIN t.counts
    BY <1>3 DEF TrackerOK
  <2>2. o.state = isConditionMet(t, TheKey)
    BY <1>1, <2>1 DEF isConditionMet
  <2>. QED
    BY <2>2, QueryFinds
<1>. QED
  BY <1>1, <1>2, <1>3

\* Trackers with the same entries.
SameEntries(t, u) == u.mInitialValue = t.mInitialValue /\ u.counts = t.counts

\* The key hit the guardrail with this event.
Hit(s, matched, key, k) ==
  k = key /\ matched # {} /\ "stop_all" \notin matched /\ hitGuardRail(s, simple[s], key)

\* The count of a key after an event, case by case.
LEMMA StartedAfterIs ==
  ASSUME CondAssumption, NEW s \in {"p", "q"}, NEW matched \in Matches, NEW key \in CondKeys,
         NEW k \in KeysOf(s), NEW eventKey, eventKey = IF s = "p" THEN TheKey ELSE key
  PROVE  StartedAfter(s, matched, key)[k] =
           IF "stop_all" \in matched THEN 0
           ELSE IF matched = {} \/ k # eventKey THEN started[s][k]
           ELSE CountAfter(started[s][k], "stop" \notin matched)
<1>1. k \in {key, TheKey} <=> k = eventKey
  BY DEF KeysOf, CondAssumption
<1>. QED
  BY <1>1 DEF StartedAfter, CountAfter

\* An event that matches a simple condition, or not: nothing goes untold, what p
\* reports is what a query finds, and the counts follow the events but for a key
\* that hit the guardrail.
LEMMA EvaluateOK ==
  ASSUME CondAssumption, NEW s \in {"p", "q"}, NEW matched \in Matches, NEW key \in CondKeys,
         TrackerOK(simple[s], KeysOf(s)), NEW o, o = evaluateCondition(s, matched, key)
  PROVE  /\ TrackerOK(o.tracker, KeysOf(s)) /\ Tells(simple[s], o, KeysOf(s))
         /\ s = "p" => o.state = Found(o.tracker, TheKey)
         /\ \A k \in KeysOf(s) : started[s][k] \in Counts =>
              /\ StartedAfter(s, matched, key)[k] \in Counts
              /\ ("stop_all" \in matched \/ Agrees(simple[s], started[s][k], k)) /\ ~Hit(s, matched, key, k)
                   => Agrees(o.tracker, StartedAfter(s, matched, key)[k], k)
<1>. DEFINE t == Counting(simple[s], simple[s].counts, {}, {})
            K == KeysOf(s)
            eventKey == IF s = "p" THEN TheKey ELSE key
            After(k) == StartedAfter(s, matched, key)[k]
<1>1. SameEntries(simple[s], t)
  BY DEF SameEntries, Counting, SimpleTracker
<1>2. /\ TrackerOK(t, K) /\ eventKey \in K
      /\ \A k : Found(t, k) = Found(simple[s], k)
      /\ \A k, n : Agrees(t, n, k) <=> Agrees(simple[s], n, k)
      /\ hitGuardRail(s, t, eventKey) <=> s = "q" /\ hitGuardRail(s, simple[s], key)
  BY <1>1 DEF TrackerOK, Found, Agrees, hitGuardRail, SameEntries, KeysOf
<1>3. o = IF "stop_all" \in matched THEN handleStopAll(t)
          ELSE IF matched = {} THEN Existing(t)
          ELSE handleConditionEvent(s, t, eventKey, "stop" \notin matched)
  BY DEF evaluateCondition
<1>4. \A k \in K : After(k) = IF "stop_all" \in matched THEN 0
                              ELSE IF matched = {} \/ k # eventKey THEN started[s][k]
                              ELSE CountAfter(started[s][k], "stop" \notin matched)
  BY StartedAfterIs
<1>5. Tells(t, o, K) => Tells(simple[s], o, K)
  BY <1>2 DEF Tells
<1>6. s = "p" => K = {TheKey} /\ eventKey = TheKey
  BY DEF KeysOf
<1>7. \A n \in Counts : CountAfter(n, "stop" \notin matched) \in Nat
  BY CountAfterIs
<1>. HIDE DEF t, K, eventKey, After
<1>8. CASE "stop_all" \in matched
  <2>1. o = handleStopAll(t)
    BY <1>3, <1>8
  <2>2. /\ TrackerOK(o.tracker, K) /\ Tells(t, o, K) /\ \A k \in K : Agrees(o.tracker, 0, k)
        /\ \A k : o.state = Found(o.tracker, k)
    BY <1>2, <2>1, StopAllOK
  <2>3. \A k \in K : After(k) = 0
    BY <1>4, <1>8
  <2>. QED
    BY <1>5, <2>2, <2>3 DEF Counts, K, After
<1>9. CASE "stop_all" \notin matched /\ matched = {}
  <2>1. o = Existing(t)
    BY <1>3, <1>9
  <2>2. o.tracker = t /\ Tells(t, o, K) /\ (K = {TheKey} => o.state = Found(t, TheKey))
    BY <1>2, <2>1, ExistingOK
  <2>3. \A k \in K : After(k) = started[s][k]
    BY <1>4, <1>9
  <2>4. ASSUME NEW k \in K, started[s][k] \in Counts
        PROVE  /\ After(k) \in Counts
               /\ ("stop_all" \in matched \/ Agrees(simple[s], started[s][k], k)) /\ ~Hit(s, matched, key, k)
                    => Agrees(o.tracker, After(k), k)
    BY <1>2, <1>9, <2>2, <2>3, <2>4
  <2>5. TrackerOK(o.tracker, K) /\ Tells(simple[s], o, K) /\ (s = "p" => o.state = Found(o.tracker, TheKey))
    BY <1>2, <1>5, <1>6, <2>2
  <2>. QED
    BY <2>4, <2>5 DEF K, After
<1>10. CASE "stop_all" \notin matched /\ matched # {}
  <2>. DEFINE isStart == "stop" \notin matched
  <2>1. o = handleConditionEvent(s, t, eventKey, isStart) /\ isStart \in BOOLEAN
    BY <1>3, <1>10
  <2>. HIDE DEF isStart
  <2>2. /\ TrackerOK(o.tracker, K) /\ Tells(t, o, K)
        /\ IF hitGuardRail(s, t, eventKey) THEN s = "q" /\ o.tracker = t
           ELSE Follows(t, o, K, eventKey, isStart) /\ o.state = Found(o.tracker, eventKey)
    BY <1>2, <2>1, EventOK DEF K
  <2>3. s = "p" => o.state = Found(o.tracker, TheKey)
    BY <1>6, <2>2
  <2>4. ASSUME NEW k \in K, started[s][k] \in Counts
        PROVE  /\ After(k) \in Counts
               /\ Agrees(t, started[s][k], k) /\ ~Hit(s, matched, key, k) => Agrees(o.tracker, After(k), k)
    <3>1. After(k) = IF k = eventKey THEN CountAfter(started[s][k], isStart) ELSE started[s][k]
      BY <1>4, <1>10 DEF isStart
    <3>2. After(k) \in Counts
      BY <1>7, <2>4, <3>1 DEF Counts, isStart
    <3>3. ASSUME hitGuardRail(s, t, eventKey), Agrees(t, started[s][k], k), ~Hit(s, matched, key, k)
          PROVE  Agrees(o.tracker, After(k), k)
      <4>1. o.tracker = t /\ k # eventKey
        BY <1>2, <1>10, <2>2, <3>3 DEF Hit, eventKey
      <4>. QED
        BY <3>1, <3>3, <4>1
    <3>4. ASSUME ~hitGuardRail(s, t, eventKey), Agrees(t, started[s][k], k)
          PROVE  Agrees(o.tracker, After(k), k)
      BY <2>2, <2>4, <3>1, <3>4 DEF Follows
    <3>. QED
      BY <3>2, <3>3, <3>4
  <2>5. ASSUME NEW k \in K, started[s][k] \in Counts
        PROVE  /\ After(k) \in Counts
               /\ ("stop_all" \in matched \/ Agrees(simple[s], started[s][k], k)) /\ ~Hit(s, matched, key, k)
                    => Agrees(o.tracker, After(k), k)
    BY <1>2, <1>10, <2>4, <2>5
  <2>6. Tells(simple[s], o, K)
    BY <1>5, <2>2
  <2>. QED
    BY <2>2, <2>3, <2>5, <2>6 DEF K, After
<1>. QED
  BY <1>8, <1>9, <1>10

-----------------------------------------------------------------------------
(* The trackers of a config *)

\* The counts follow the events but for keys that hit the guardrail.
CondInv ==
  /\ condKind \in CondKinds
  /\ dropped \subseteq CondKeys
  /\ \A s \in {"p", "q"} : TrackerOK(simple[s], KeysOf(s))
  /\ \A s \in {"p", "q"} : \A k \in KeysOf(s) : started[s][k] \in Counts
  /\ \A s \in {"p", "q"} : \A k \in KeysOf(s) \ dropped : Agrees(simple[s], started[s][k], k)
  /\ UnslicedPartCurrent

\* The children of a config, all p if it is not sliced.
LEMMA ChildrenOK ==
  ASSUME CondAssumption, condKind \in CondKinds
  PROVE  /\ \A n \in DOMAIN Children : Children[n] \in {"p", "q"}
         /\ ~IsSliced => \A n \in DOMAIN Children : Children[n] = "p"
  BY DEF CondAssumption, Children, IsSliced, ToRange

\* Without q, a query for any key and the cached conditions agree once p reports what
\* a query finds; and the part that is not sliced depends on p only.
LEMMA PartsAgree ==
  ASSUME CondAssumption, condKind \in CondKinds, NEW trackers, NEW cache, NEW met,
         cache["p"] = isConditionMet(trackers["p"], TheKey), met["p"] = isConditionMet(trackers["p"], TheKey)
  PROVE  /\ ~IsSliced => \A k : QueryC(trackers, k) = CombinedOf(cache)
         /\ UnslicedOf(met) = UnslicedOf(cache)
<1>1. ASSUME ~IsSliced, NEW k PROVE QueryC(trackers, k) = CombinedOf(cache)
  <2>1. [n \in DOMAIN Children |-> isConditionMet(trackers[Children[n]], IF Children[n] = "p" THEN TheKey ELSE k)]
          = [n \in DOMAIN Children |-> cache[Children[n]]]
    BY <1>1, ChildrenOK
  <2>. QED
    BY <2>1 DEF QueryC, CombinedOf
<1>2. UnslicedOf(met) = UnslicedOf(cache)
  BY DEF UnslicedOf
<1>. QED
  BY <1>1, <1>2

\* The part that is not sliced, after p's condition was evaluated.
LEMMA PartIsCurrent ==
  ASSUME CondAssumption, condKind \in CondKinds, NEW cache,
         cache["p"] = isConditionMet(simple["p"], TheKey),
         unslicedPart = IF IsSliced THEN UnslicedOf(cache) ELSE CombinedOf(cache)
  PROVE  UnslicedPartCurrent
<1>. DEFINE met == [s \in {"p", "q"} |-> isConditionMet(simple[s], TheKey)]
<1>1. met["p"] = isConditionMet(simple["p"], TheKey)
  OBVIOUS
<1>. HIDE DEF met
<1>2. /\ ~IsSliced => QueryC(simple, TheKey) = CombinedOf(cache)
      /\ UnslicedOf(met) = UnslicedOf(cache)
  BY <1>1, PartsAgree
<1>. QED
  BY <1>2 DEF UnslicedPartCurrent, met

\* Before any event the conditions have their initial values.
LEMMA CondInvInit ==
  ASSUME CondAssumption, CondInit
  PROVE  CondInv
<1>1. /\ condKind \in CondKinds /\ dropped = {}
      /\ {condKind.pInitial, condKind.qInitial} \subseteq {kUnknown, kFalse}
      /\ unslicedPart = IF IsSliced THEN UnslicedOf(condCache) ELSE CombinedOf(condCache)
      /\ condCache["p"] = InitialOf(condKind, "p")
  BY DEF CondInit, CondAssumption
<1>2. ASSUME NEW s \in {"p", "q"}
      PROVE  /\ simple[s].mInitialValue = InitialOf(condKind, s) /\ DOMAIN simple[s].counts = {}
             /\ InitialOf(condKind, s) \in {kUnknown, kFalse}
             /\ \A k \in KeysOf(s) : started[s][k] = InitialOf(condKind, s)
  BY <1>1 DEF CondInit, SimpleTracker, NoCounts, InitialOf
<1>3. \A s \in {"p", "q"} : TrackerOK(simple[s], KeysOf(s))
  BY <1>2 DEF TrackerOK
<1>4. \A s \in {"p", "q"} : \A k \in KeysOf(s) : started[s][k] \in Counts
  BY <1>2 DEF Counts, kFalse
<1>5. \A s \in {"p", "q"} : \A k \in KeysOf(s) \ dropped : Agrees(simple[s], started[s][k], k)
  BY <1>2 DEF Agrees
<1>6. condCache["p"] = isConditionMet(simple["p"], TheKey)
  BY <1>1, <1>2, <1>3, QueryFinds DEF Found
<1>. QED
  BY <1>1, <1>3, <1>4, <1>5, <1>6, PartIsCurrent DEF CondInv

\* What an event does to the trackers.
LEMMA EventStep ==
  ASSUME CondAssumption, CondInv, NEW pMatched \in Matches, NEW qMatched \in Matches, NEW key \in CondKeys,
         OnEvent(pMatched, qMatched, key)
  PROVE  CondInv'
<1>. DEFINE matched(s) == IF s = "p" THEN pMatched ELSE qMatched
            o(s) == evaluateCondition(s, matched(s), key)
            cached == [s \in {"p", "q"} |-> IF s = "p" THEN o("p").state ELSE o("q").state]
<1>1. /\ condKind' = condKind /\ condKind \in CondKinds
      /\ \A s \in {"p", "q"} : simple'[s] = o(s).tracker
      /\ \A s \in {"p", "q"} : started'[s] = StartedAfter(s, matched(s), key)
      /\ unslicedPart' = IF IsSliced THEN UnslicedOf(cached) ELSE CombinedOf(cached)
      /\ cached["p"] = o("p").state
  BY DEF OnEvent, CondInv
<1>2. /\ dropped' \subseteq CondKeys
      /\ \A s \in {"p", "q"} : \A k \in KeysOf(s) \ dropped' :
            /\ "stop_all" \in matched(s) \/ k \notin dropped
            /\ ~Hit(s, matched(s), key, k)
  BY DEF OnEvent, CondInv, Hit, hitGuardRail, KeysOf, CondAssumption
<1>3. \A s \in {"p", "q"} : matched(s) \in Matches /\ TrackerOK(simple[s], KeysOf(s))
  BY DEF CondInv
<1>. HIDE DEF o, matched, cached
<1>4. ASSUME NEW s \in {"p", "q"}
      PROVE  /\ TrackerOK(o(s).tracker, KeysOf(s))
             /\ s = "p" => o(s).state = Found(o(s).tracker, TheKey)
             /\ \A k \in KeysOf(s) : started[s][k] \in Counts =>
                  /\ StartedAfter(s, matched(s), key)[k] \in Counts
                  /\ ("stop_all" \in matched(s) \/ Agrees(simple[s], started[s][k], k)) /\ ~Hit(s, matched(s), key, k)
                       => Agrees(o(s).tracker, StartedAfter(s, matched(s), key)[k], k)
  BY <1>3, EvaluateOK DEF o
<1>5. \A s \in {"p", "q"} : TrackerOK(simple'[s], KeysOf(s))
  BY <1>1, <1>4
<1>6. \A s \in {"p", "q"} : \A k \in KeysOf(s) : started'[s][k] \in Counts
  BY <1>1, <1>4 DEF CondInv
<1>7. \A s \in {"p", "q"} : \A k \in KeysOf(s) \ dropped' : Agrees(simple'[s], started'[s][k], k)
  BY <1>1, <1>2, <1>4 DEF CondInv
<1>8. cached["p"] = isConditionMet(simple'["p"], TheKey)
  BY <1>1, <1>4, <1>5, QueryFinds
<1>9. UnslicedPartCurrent'
  <2>. DEFINE met == [s \in {"p", "q"} |-> isConditionMet(simple'[s], TheKey)]
  <2>1. met["p"] = isConditionMet(simple'["p"], TheKey)
    OBVIOUS
  <2>. HIDE DEF met
  <2>2. /\ ~IsSliced => QueryC(simple', TheKey) = CombinedOf(cached)
        /\ UnslicedOf(met) = UnslicedOf(cached)
    BY <1>1, <1>8, <2>1, PartsAgree
  <2>3. IF IsSliced THEN unslicedPart' = UnslicedOf(met) ELSE unslicedPart' = QueryC(simple', TheKey)
    BY <1>1, <2>2
  <2>4. condKind' = condKind
    BY <1>1
  <2>. QED
    BY <2>3, <2>4 DEF UnslicedPartCurrent, met, IsSliced, Children, UnslicedOf, QueryC
<1>. QED
  BY <1>1, <1>2, <1>5, <1>6, <1>7, <1>9 DEF CondInv

\* Nothing changes without an event.
LEMMA CondStutter ==
  ASSUME CondInv, UNCHANGED condVars
  PROVE  CondInv'
<1>1. /\ condKind' = condKind /\ dropped' = dropped /\ simple' = simple /\ started' = started
      /\ unslicedPart' = unslicedPart
  BY DEF condVars
<1>2. UnslicedPartCurrent'
  BY <1>1 DEF CondInv, UnslicedPartCurrent, IsSliced, Children, UnslicedOf, QueryC
<1>. QED
  BY <1>1, <1>2 DEF CondInv

\* The invariant holds of every reachable state.
LEMMA CondInvariant == CondSpec => []CondInv
<1>1. CondInit => CondInv
  BY CondInvInit, CondAssumption
<1>2. CondInv /\ [CondNext]_condVars => CondInv'
  BY EventStep, CondStutter, CondAssumption DEF CondNext
<1>. QED
  BY <1>1, <1>2, PTL DEF CondSpec

\* The counts give a query what the starts and stops mean.
LEMMA CountsMeanEvents ==
  ASSUME CondInv
  PROVE  ConditionsCurrent
<1>1. ASSUME NEW s \in {"p", "q"}, NEW k \in KeysOf(s) \ dropped
      PROVE  isConditionMet(simple[s], k) = Meaning(s, k)
  <2>. DEFINE n == started[s][k]
              t == simple[s]
  <2>1. n \in Counts /\ Agrees(t, n, k) /\ TrackerOK(t, KeysOf(s))
    BY DEF CondInv
  <2>2. isConditionMet(t, k) = Found(t, k)
    BY <2>1, QueryFinds
  <2>. HIDE DEF n, t
  <2>3. Found(t, k) = IF n = kUnknown THEN kUnknown ELSE StateOf(n)
    BY <2>1 DEF Agrees, TrackerOK, Found, StateOf, Counts, kUnknown, kFalse, kTrue
  <2>. QED
    BY <2>2, <2>3 DEF Meaning, n, t
<1>. QED
  BY <1>1 DEF ConditionsCurrent, ConditionsMeanEvents, CondInv

\* For every set of keys, limit and config: a query finds what the starts and stops of
\* the events so far mean, unless the key hit the guardrail, and the part of a
\* combination that metrics read without a query is that of its children now.
THEOREM QueriesAreCurrent == CondSpec => []ConditionsCurrent
<1>1. CondInv => ConditionsCurrent
  BY CountsMeanEvents
<1>. QED
  BY <1>1, CondInvariant, PTL

-----------------------------------------------------------------------------
(* Who is told *)

\* What a query for a key would find changes only with a change that is told.
ChangeTold(s, k) ==
  LET was == isConditionMet(simple[s], k)
      is == isConditionMet(simple'[s], k)
  IN  /\ is # was => changedCache'[s]
      /\ is = kTrue /\ was # kTrue => k \in simple'[s].toTrue
      /\ is # kTrue /\ was = kTrue => k \in simple'[s].toFalse

\* The step of an event tells of every change of a simple condition and of the
\* combination.
LEMMA EventTells ==
  ASSUME CondAssumption, CondInv, NEW pMatched \in Matches, NEW qMatched \in Matches, NEW key \in CondKeys,
         OnEvent(pMatched, qMatched, key)
  PROVE  /\ \A s \in {"p", "q"} : \A k \in KeysOf(s) : ChangeTold(s, k)
         /\ \A k \in CondKeys : QueryC(simple', k) # QueryC(simple, k) => changedCache'["c"]
<1>. DEFINE matched(s) == IF s = "p" THEN pMatched ELSE qMatched
            o(s) == evaluateCondition(s, matched(s), key)
            cached == [s \in {"p", "q"} |-> IF s = "p" THEN o("p").state ELSE o("q").state]
<1>1. /\ condKind \in CondKinds
      /\ \A s \in {"p", "q"} : simple'[s] = o(s).tracker
      /\ cached["p"] = o("p").state
  BY DEF OnEvent, CondInv
<1>2. /\ changedCache'["p"] = o("p").changed
      /\ changedCache'["q"] = o("q").changed
      /\ changedCache'["c"] = CombinationChanged(o("p"), o("q"), cached)
  BY DEF OnEvent
<1>3. \A s \in {"p", "q"} : matched(s) \in Matches /\ TrackerOK(simple[s], KeysOf(s))
  BY DEF CondInv
<1>. HIDE DEF o, matched, cached
<1>4. ASSUME NEW s \in {"p", "q"}
      PROVE  /\ TrackerOK(o(s).tracker, KeysOf(s)) /\ Tells(simple[s], o(s), KeysOf(s))
             /\ s = "p" => o(s).state = Found(o(s).tracker, TheKey)
  BY <1>3, EvaluateOK DEF o
<1>5. ASSUME NEW s \in {"p", "q"}, NEW k \in KeysOf(s)
      PROVE  ChangeTold(s, k)
  <2>1. /\ isConditionMet(simple[s], k) = Found(simple[s], k)
        /\ isConditionMet(simple'[s], k) = Found(o(s).tracker, k)
    BY <1>1, <1>3, <1>4, QueryFinds
  <2>2. changedCache'[s] = o(s).changed /\ simple'[s] = o(s).tracker
    BY <1>1, <1>2
  <2>3. /\ Found(o(s).tracker, k) # Found(simple[s], k) => o(s).changed
        /\ Found(o(s).tracker, k) = kTrue /\ Found(simple[s], k) # kTrue => k \in o(s).tracker.toTrue
        /\ Found(o(s).tracker, k) # kTrue /\ Found(simple[s], k) = kTrue => k \in o(s).tracker.toFalse
    BY <1>4 DEF Tells
  <2>. QED
    BY <2>1, <2>2, <2>3, Zenon DEF ChangeTold
<1>6. ASSUME NEW k \in CondKeys, QueryC(simple', k) # QueryC(simple, k), IsSliced
      PROVE  changedCache'["c"]
  <2>. DEFINE Key(n) == IF Children[n] = "p" THEN TheKey ELSE k
  <2>1. PICK n \in DOMAIN Children :
          isConditionMet(simple'[Children[n]], Key(n)) # isConditionMet(simple[Children[n]], Key(n))
    <3>1. SUFFICES ASSUME \A n \in DOMAIN Children :
                    isConditionMet(simple'[Children[n]], Key(n)) = isConditionMet(simple[Children[n]], Key(n))
                   PROVE  QueryC(simple', k) = QueryC(simple, k)
      BY <1>6
    <3>2. [n \in DOMAIN Children |-> isConditionMet(simple'[Children[n]], Key(n))]
            = [n \in DOMAIN Children |-> isConditionMet(simple[Children[n]], Key(n))]
      BY <3>1
    <3>. QED
      BY <3>2 DEF QueryC
  <2>2. Children[n] \in {"p", "q"} /\ Key(n) \in KeysOf(Children[n])
    BY <1>1, ChildrenOK DEF KeysOf
  <2>3. changedCache'[Children[n]]
    BY <1>5, <2>1, <2>2 DEF ChangeTold
  <2>4. IF Children[n] = "p" THEN o("p").changed ELSE o("q").changed
    BY <1>2, <2>2, <2>3
  <2>. QED
    BY <1>2, <1>6, <2>4 DEF CombinationChanged
<1>7. ASSUME NEW k \in CondKeys, QueryC(simple', k) # QueryC(simple, k), ~IsSliced
      PROVE  changedCache'["c"]
  <2>1. cached["p"] = isConditionMet(simple'["p"], TheKey)
    BY <1>1, <1>4, QueryFinds
  <2>2. QueryC(simple', k) = CombinedOf(cached)
    BY <1>1, <1>7, <2>1, PartsAgree
  <2>. DEFINE met == [s \in {"p", "q"} |-> isConditionMet(simple[s], TheKey)]
  <2>3. met["p"] = isConditionMet(simple["p"], TheKey)
    OBVIOUS
  <2>. HIDE DEF met
  <2>4. QueryC(simple, k) = CombinedOf(met) /\ QueryC(simple, TheKey) = CombinedOf(met)
    BY <1>1, <1>7, <2>3, PartsAgree
  <2>5. unslicedPart = QueryC(simple, TheKey)
    BY <1>7 DEF CondInv, UnslicedPartCurrent
  <2>6. unslicedPart # CombinedOf(cached)
    BY <1>7, <2>2, <2>4, <2>5
  <2>. QED
    BY <1>2, <1>7, <2>6 DEF CombinationChanged
<1>. QED
  BY <1>5, <1>6, <1>7

\* For every set of keys, limit and config: no change of what a query would answer goes
\* untold, by the condition that changed, by the keys it names, or by a combination.
THEOREM EveryChangeIsTold == CondSpec => ChangesTold
<1>1. CondInv /\ [CondNext]_condVars =>
        [/\ \A s \in {"p", "q"} : \A k \in KeysOf(s) : ChangeTold(s, k)
         /\ \A k \in CondKeys : QueryC(simple', k) # QueryC(simple, k) => changedCache'["c"]]_condVars
  BY EventTells, CondAssumption DEF CondNext
<1>. QED
  BY <1>1, CondInvariant, PTL DEF CondSpec, ChangesTold, ChangeTold

-----------------------------------------------------------------------------
(* Event metrics *)

\* The producer's map from a key to the times of its events.
AtomsOK(atoms) ==
  /\ atoms = [key \in DOMAIN atoms |-> atoms[key]]
  /\ IsFiniteSet(DOMAIN atoms) /\ IsFiniteSet(FieldsIn(atoms)) /\ IsFiniteSet(TimesIn(atoms))
  /\ \A key \in DOMAIN atoms : atoms[key] \in Seq(Nat)

\* Times under a key are those of events taken with it, each once.
TimesOf(times, key, taken) ==
  /\ \A i \in DOMAIN times : times[i] \in DOMAIN taken /\ taken[times[i]] = key
  /\ \A i, j \in DOMAIN times : times[i] = times[j] => i = j

Shared(times1, times2) == \E i \in DOMAIN times1, j \in DOMAIN times2 : times1[i] = times2[j]
Has(times, t) == \E i \in DOMAIN times : times[i] = t

KeptInv(atoms, taken, left) ==
  /\ \A key \in DOMAIN atoms : TimesOf(atoms[key], key, taken)
  /\ \A b \in left : TimesOf(b.times, b.key, taken)
  /\ \A b1, b2 \in left : Shared(b1.times, b2.times) => b1 = b2
  /\ \A b \in left, key \in DOMAIN atoms : ~Shared(b.times, atoms[key])
  /\ \A t \in DOMAIN taken :
       (\E b \in left : Has(b.times, t)) \/ (\E key \in DOMAIN atoms : Has(atoms[key], t))

SizeOf(atoms, sliced) ==
  FieldsSize * Cardinality(FieldsIn(atoms))
    + ((IF sliced THEN StateSize * Cardinality(DOMAIN atoms) ELSE 0)
    + TimeSize * Cardinality(TimesIn(atoms)))

\* The severity of a reason tells which kinds of atoms were lost for it.
FlagsInv(corrupted, lost) ==
  /\ corrupted \in [Reasons -> Nat]
  /\ lost \in [Reasons -> SUBSET LostAtomTypes]
  /\ \A r \in Reasons :
       corrupted[r] = IF "kCondition" \in lost[r] THEN kUnrecoverable
                      ELSE IF "kWhat" \in lost[r] THEN kResetOnDump ELSE kNone

\* A record of the producer's fields.
Fields(p) ==
  [mCondition |-> p.mCondition, mIsActive |-> p.mIsActive, sliced |-> p.sliced,
   atoms |-> p.atoms, mTotalDataSize |-> p.mTotalDataSize, corrupted |-> p.corrupted]

\* A record of the history's fields.
HistoryFields(h) ==
  [calls |-> h.calls, taken |-> h.taken, gone |-> h.gone, lost |-> h.lost, report |-> h.report]

EventTypeInv ==
  /\ e = Fields(e) /\ eHistory = HistoryFields(eHistory)
  /\ eHistory.taken \in Seq(EventFields \X (EventStates \union {NoState}))
  /\ eState \in EventStates

EventInv ==
  /\ EventTypeInv
  /\ AtomsOK(e.atoms)
  /\ KeptInv(e.atoms, eHistory.taken, eHistory.gone)
  /\ e.mTotalDataSize = SizeOf(e.atoms, e.sliced)
  /\ FlagsInv(e.corrupted, eHistory.lost)
  /\ CorruptionShown

-----------------------------------------------------------------------------
(* One more event *)

\* The event adds its time to the map and its size to mTotalDataSize.
LEMMA WithEventFields ==
  ASSUME NEW p, NEW key, NEW t, p = Fields(p), NEW q, q = WithEvent(p, key, t)
  PROVE  /\ q = Fields(q) /\ q.sliced = p.sliced /\ q.corrupted = p.corrupted
         /\ q.atoms = Added(p.atoms, key, t)
         /\ q.mTotalDataSize = p.mTotalDataSize + AddedSize(p, key)
<1>. DEFINE at == Added(p.atoms, key, t)
            size == p.mTotalDataSize + AddedSize(p, key)
<1>1. q = [p EXCEPT !.atoms = at, !.mTotalDataSize = size]
  BY DEF WithEvent
<1>. HIDE DEF at, size
<1>2. q = [mCondition |-> p.mCondition, mIsActive |-> p.mIsActive, sliced |-> p.sliced,
           atoms |-> at, mTotalDataSize |-> size, corrupted |-> p.corrupted]
  BY <1>1 DEF Fields
<1>. QED
  BY <1>2 DEF Fields, at, size

\* The number of elements after one is added.
LEMMA OneMore ==
  ASSUME NEW S, IsFiniteSet(S), NEW x
  PROVE  /\ IsFiniteSet(S \union {x}) /\ Cardinality(S) \in Nat
         /\ x \in S => Cardinality(S \union {x}) = Cardinality(S)
         /\ x \notin S => Cardinality(S \union {x}) = Cardinality(S) + 1
<1>1. /\ IsFiniteSet(S \union {x})
      /\ Cardinality(S \union {x}) = IF x \in S THEN Cardinality(S) ELSE Cardinality(S) + 1
  BY FS_AddElement
<1>2. Cardinality(S) \in Nat
  BY FS_CardinalityType
<1>. QED
  BY <1>1, <1>2

\* What the event adds to the keys, the values and the places.
LEMMA AddedSets ==
  ASSUME NEW atoms, AtomsOK(atoms), NEW key, NEW t \in Nat, NEW new, new = Added(atoms, key, t)
  PROVE  /\ DOMAIN new = DOMAIN atoms \union {key}
         /\ FieldsIn(new) = FieldsIn(atoms) \union {key[1]}
         /\ \E place : place \notin TimesIn(atoms) /\ TimesIn(new) = TimesIn(atoms) \union {place}
         /\ \A k \in DOMAIN new : new[k] \in Seq(Nat)
<1>. DEFINE old == IF key \in DOMAIN atoms THEN atoms[key] ELSE << >>
<1>1. /\ \A k \in DOMAIN atoms : atoms[k] \in Seq(Nat)
      /\ old \in Seq(Nat)
  BY DEF AtomsOK
<1>2. /\ DOMAIN new = DOMAIN atoms \union {key}
      /\ \A k \in DOMAIN atoms : k # key => new[k] = atoms[k]
      /\ new[key] = Append(old, t)
  BY DEF Added
<1>3. key \in DOMAIN atoms => old = atoms[key]
  OBVIOUS
<1>4. key \notin DOMAIN atoms => DOMAIN old = {}
  OBVIOUS
<1>. HIDE DEF old
<1>5. FieldsIn(new) = FieldsIn(atoms) \union {key[1]}
  BY <1>2 DEF FieldsIn
<1>6. /\ DOMAIN Append(old, t) = DOMAIN old \union {Len(old) + 1}
      /\ Len(old) + 1 \notin DOMAIN old
      /\ Append(old, t) \in Seq(Nat)
  BY <1>1
<1>7. \A x : x \in TimesIn(atoms) <=> \E k \in DOMAIN atoms : x \in {k} \X DOMAIN atoms[k]
  BY DEF TimesIn
<1>8. \A x : x \in TimesIn(new) <=> \E k \in DOMAIN new : x \in {k} \X DOMAIN new[k]
  BY DEF TimesIn
<1>9. <<key, Len(old) + 1>> \notin TimesIn(atoms)
  BY <1>6, <1>7, <1>3
<1>10. TimesIn(new) = TimesIn(atoms) \union {<<key, Len(old) + 1>>}
  <2>1. ASSUME NEW x \in TimesIn(new) PROVE x \in TimesIn(atoms) \union {<<key, Len(old) + 1>>}
    BY <1>2, <1>3, <1>4, <1>6, <1>7, <1>8
  <2>2. ASSUME NEW x \in TimesIn(atoms) PROVE x \in TimesIn(new)
    BY <1>2, <1>3, <1>4, <1>6, <1>7, <1>8
  <2>3. <<key, Len(old) + 1>> \in TimesIn(new)
    BY <1>2, <1>6, <1>8
  <2>. QED
    BY <2>1, <2>2, <2>3
<1>11. \A k \in DOMAIN new : new[k] \in Seq(Nat)
  BY <1>1, <1>2, <1>6
<1>12. \E place : place \notin TimesIn(atoms) /\ TimesIn(new) = TimesIn(atoms) \union {place}
  BY <1>9, <1>10
<1>. QED
  BY <1>2, <1>5, <1>11, <1>12

\* The new map is one again.
LEMMA AddedOK ==
  ASSUME NEW atoms, AtomsOK(atoms), NEW key, NEW t \in Nat
  PROVE  AtomsOK(Added(atoms, key, t))
<1>. DEFINE new == Added(atoms, key, t)
<1>1. new = [k \in DOMAIN new |-> new[k]]
  BY DEF Added
<1>. HIDE DEF new
<1>2. /\ DOMAIN new = DOMAIN atoms \union {key}
      /\ FieldsIn(new) = FieldsIn(atoms) \union {key[1]}
      /\ \E place : place \notin TimesIn(atoms) /\ TimesIn(new) = TimesIn(atoms) \union {place}
      /\ \A k \in DOMAIN new : new[k] \in Seq(Nat)
  BY AddedSets, Zenon DEF new
<1>3. IsFiniteSet(DOMAIN atoms) /\ IsFiniteSet(FieldsIn(atoms)) /\ IsFiniteSet(TimesIn(atoms))
  BY DEF AtomsOK
<1>4. IsFiniteSet(DOMAIN new) /\ IsFiniteSet(FieldsIn(new)) /\ IsFiniteSet(TimesIn(new))
  <2>1. IsFiniteSet(DOMAIN new)
    <3>1. IsFiniteSet(DOMAIN atoms \union {key})
      BY <1>3, OneMore
    <3>. QED
      BY <1>2, <3>1
  <2>2. IsFiniteSet(FieldsIn(new))
    <3>1. IsFiniteSet(FieldsIn(atoms) \union {key[1]})
      BY <1>3, OneMore
    <3>. QED
      BY <1>2, <3>1
  <2>3. IsFiniteSet(TimesIn(new))
    <3>1. PICK place : TimesIn(new) = TimesIn(atoms) \union {place}
      BY <1>2
    <3>2. IsFiniteSet(TimesIn(atoms) \union {place})
      BY <1>3, OneMore
    <3>. QED
      BY <3>1, <3>2
  <2>. QED
    BY <2>1, <2>2, <2>3
<1>5. AtomsOK(new)
  BY <1>1, <1>2, <1>4 DEF AtomsOK
<1>. QED
  BY <1>5 DEF new

\* The size grows by what the event brings.
LEMMA SizeAdded ==
  ASSUME NEW atoms, AtomsOK(atoms), NEW key, NEW t \in Nat, NEW sliced
  PROVE  SizeOf(Added(atoms, key, t), sliced) =
           SizeOf(atoms, sliced)
             + (TimeSize + (IF key[1] \notin FieldsIn(atoms) THEN FieldsSize ELSE 0)
                  + (IF sliced /\ key \notin DOMAIN atoms THEN StateSize ELSE 0))
<1>. DEFINE new == Added(atoms, key, t)
            d == Cardinality(DOMAIN atoms)
            f == Cardinality(FieldsIn(atoms))
            n == Cardinality(TimesIn(atoms))
<1>. HIDE DEF new
<1>1. IsFiniteSet(DOMAIN atoms) /\ IsFiniteSet(FieldsIn(atoms)) /\ IsFiniteSet(TimesIn(atoms))
  BY DEF AtomsOK
<1>2. /\ DOMAIN new = DOMAIN atoms \union {key}
      /\ FieldsIn(new) = FieldsIn(atoms) \union {key[1]}
      /\ \E place : place \notin TimesIn(atoms) /\ TimesIn(new) = TimesIn(atoms) \union {place}
      /\ \A k \in DOMAIN new : new[k] \in Seq(Nat)
  BY AddedSets, Zenon DEF new
<1>3. /\ d \in Nat /\ (key \in DOMAIN atoms => Cardinality(DOMAIN new) = d)
      /\ key \notin DOMAIN atoms => Cardinality(DOMAIN new) = d + 1
  BY <1>1, <1>2, OneMore, Zenon
<1>4. /\ f \in Nat /\ (key[1] \in FieldsIn(atoms) => Cardinality(FieldsIn(new)) = f)
      /\ key[1] \notin FieldsIn(atoms) => Cardinality(FieldsIn(new)) = f + 1
  BY <1>1, <1>2, OneMore, Zenon
<1>5. n \in Nat /\ Cardinality(TimesIn(new)) = n + 1
  BY <1>1, <1>2, OneMore, Zenon
<1>6. FieldsSize \in Nat /\ StateSize \in Nat /\ TimeSize \in Nat
  BY EventAssumption
<1>7. /\ SizeOf(atoms, sliced) = FieldsSize * f + ((IF sliced THEN StateSize * d ELSE 0) + TimeSize * n)
      /\ SizeOf(new, sliced) = FieldsSize * Cardinality(FieldsIn(new))
            + ((IF sliced THEN StateSize * Cardinality(DOMAIN new) ELSE 0) + TimeSize * Cardinality(TimesIn(new)))
  BY DEF SizeOf
<1>. HIDE DEF d, f, n
<1>8. /\ TimeSize * (n + 1) = TimeSize * n + TimeSize /\ FieldsSize * (f + 1) = FieldsSize * f + FieldsSize
      /\ StateSize * (d + 1) = StateSize * d + StateSize
      /\ TimeSize * n \in Nat /\ FieldsSize * f \in Nat /\ StateSize * d \in Nat
  BY <1>3, <1>4, <1>5, <1>6
<1>9. SizeOf(new, sliced) = SizeOf(atoms, sliced)
             + (TimeSize + (IF key[1] \notin FieldsIn(atoms) THEN FieldsSize ELSE 0)
                  + (IF sliced /\ key \notin DOMAIN atoms THEN StateSize ELSE 0))
  <2>1. TimeSize * Cardinality(TimesIn(new)) = TimeSize * n + TimeSize
    BY <1>5, <1>8
  <2>2. FieldsSize * Cardinality(FieldsIn(new))
          = FieldsSize * f + (IF key[1] \notin FieldsIn(atoms) THEN FieldsSize ELSE 0)
    <3>1. CASE key[1] \in FieldsIn(atoms)
      BY <3>1, <1>4, <1>6, <1>8
    <3>2. CASE key[1] \notin FieldsIn(atoms)
      BY <3>2, <1>4, <1>6, <1>8
    <3>. QED
      BY <3>1, <3>2
  <2>3. StateSize * Cardinality(DOMAIN new)
          = StateSize * d + (IF key \notin DOMAIN atoms THEN StateSize ELSE 0)
    <3>1. CASE key \in DOMAIN atoms
      BY <3>1, <1>3, <1>6, <1>8
    <3>2. CASE key \notin DOMAIN atoms
      BY <3>2, <1>3, <1>6, <1>8
    <3>. QED
      BY <3>1, <3>2
  <2>. QED
    BY <2>1, <2>2, <2>3, <1>6, <1>7, <1>8
<1>. QED
  BY <1>9 DEF new

\* An event is kept under its key, beside all that were kept or left before.
LEMMA KeptAdded ==
  ASSUME NEW atoms, AtomsOK(atoms), NEW S, NEW taken \in Seq(S), NEW key \in S, NEW left,
         KeptInv(atoms, taken, left)
  PROVE  KeptInv(Added(atoms, key, Len(taken) + 1), Append(taken, key), left)
<1>. DEFINE t == Len(taken) + 1
            new == Added(atoms, key, t)
            more == Append(taken, key)
            old == IF key \in DOMAIN atoms THEN atoms[key] ELSE << >>
<1>1. old \in Seq(Nat) /\ t \in Nat /\ t \notin DOMAIN taken
  BY DEF AtomsOK
<1>2. /\ DOMAIN new = DOMAIN atoms \union {key}
      /\ \A k \in DOMAIN atoms : k # key => new[k] = atoms[k]
      /\ new[key] = Append(old, t)
  BY DEF Added
<1>3. /\ DOMAIN more = DOMAIN taken \union {t} /\ more[t] = key
      /\ \A u \in DOMAIN taken : more[u] = taken[u]
  OBVIOUS
<1>4. TimesOf(old, key, taken) /\ \A b \in left : ~Shared(b.times, old)
  BY DEF KeptInv, TimesOf, Shared
<1>5. \A i \in DOMAIN old : Has(IF key \in DOMAIN atoms THEN atoms[key] ELSE << >>, old[i])
  BY DEF Has
<1>6. /\ key \in DOMAIN atoms => old = atoms[key]
      /\ key \notin DOMAIN atoms => DOMAIN old = {}
  OBVIOUS
<1>. HIDE DEF t, new, more, old
<1>7. DEFINE app == Append(old, t)
<1>8. /\ DOMAIN app = DOMAIN old \union {Len(old) + 1}
      /\ Len(old) + 1 \notin DOMAIN old
      /\ app[Len(old) + 1] = t
      /\ \A i \in DOMAIN old : app[i] = old[i]
  BY <1>1
<1>. HIDE DEF app
<1>9. TimesOf(app, key, more)
  BY <1>1, <1>3, <1>4, <1>8 DEF TimesOf
<1>10. \A k \in DOMAIN new : TimesOf(new[k], k, more)
  <2>1. \A k \in DOMAIN atoms : TimesOf(atoms[k], k, more)
    BY <1>3 DEF KeptInv, TimesOf
  <2>. QED
    BY <2>1, <1>2, <1>9 DEF app
<1>11. \A b \in left : TimesOf(b.times, b.key, more)
  BY <1>3 DEF KeptInv, TimesOf
<1>12. \A b \in left, k \in DOMAIN new : ~Shared(b.times, new[k])
  <2>1. \A b \in left : ~Shared(b.times, app)
    BY <1>1, <1>4, <1>8 DEF Shared, KeptInv, TimesOf
  <2>2. \A b \in left, k \in DOMAIN atoms : ~Shared(b.times, atoms[k])
    BY DEF KeptInv
  <2>. QED
    BY <2>1, <2>2, <1>2 DEF app
<1>13. ASSUME NEW u \in DOMAIN more
       PROVE  (\E b \in left : Has(b.times, u)) \/ (\E k \in DOMAIN new : Has(new[k], u))
  <2>1. CASE u = t
    BY <2>1, <1>2, <1>8 DEF Has, app
  <2>2. CASE u \in DOMAIN taken
    <3>1. CASE \E b \in left : Has(b.times, u)
      BY <3>1
    <3>2. CASE \E k \in DOMAIN atoms : Has(atoms[k], u)
      <4>1. PICK k \in DOMAIN atoms : Has(atoms[k], u)
        BY <3>2
      <4>2. CASE k # key
        BY <4>1, <4>2, <1>2
      <4>3. CASE k = key
        BY <4>1, <4>3, <1>2, <1>6, <1>8 DEF Has, app
      <4>. QED
        BY <4>2, <4>3
    <3>. QED
      BY <2>2, <3>1, <3>2 DEF KeptInv
  <2>. QED
    BY <2>1, <2>2, <1>3
<1>14. \A b1, b2 \in left : Shared(b1.times, b2.times) => b1 = b2
  BY DEF KeptInv
<1>15. KeptInv(new, more, left)
  BY <1>10, <1>11, <1>12, <1>13, <1>14 DEF KeptInv
<1>. QED
  BY <1>15 DEF new, more, t

-----------------------------------------------------------------------------
(* Reports and losses *)

\* What leaves in call n: for each key its times.
Batches(atoms, n) == {[key |-> key, times |-> atoms[key], call |-> n] : key \in DOMAIN atoms}

\* What was kept leaves: the times of a key together, each under its key.
LEMMA KeptErased ==
  ASSUME NEW atoms, NEW taken, NEW left, KeptInv(atoms, taken, left), NEW n
  PROVE  KeptInv(NoAtoms, taken, left \union Batches(atoms, n))
<1>. DEFINE out == Batches(atoms, n)
<1>1. DOMAIN NoAtoms = {}
  BY DEF NoAtoms
<1>2. \A b \in out : b.key \in DOMAIN atoms /\ b.times = atoms[b.key]
  BY DEF Batches
<1>3. \A b1, b2 \in out : b1.key = b2.key => b1 = b2
  BY DEF Batches
<1>4. ASSUME NEW key \in DOMAIN atoms PROVE \E b \in out : b.times = atoms[key]
  <2>1. [key |-> key, times |-> atoms[key], call |-> n] \in out
    BY DEF Batches
  <2>. QED
    BY <2>1
<1>. HIDE DEF out
<1>5. \A b \in left \union out : TimesOf(b.times, b.key, taken)
  BY <1>2 DEF KeptInv
<1>6. ASSUME NEW b1 \in left \union out, NEW b2 \in left \union out, Shared(b1.times, b2.times)
      PROVE  b1 = b2
  <2>1. Shared(b2.times, b1.times)
    BY <1>6 DEF Shared
  <2>2. CASE b1 \in left /\ b2 \in left
    BY <1>6, <2>2 DEF KeptInv
  <2>3. ASSUME NEW b \in left, NEW o \in out PROVE ~Shared(b.times, o.times)
    BY <1>2 DEF KeptInv
  <2>4. CASE b1 \in out /\ b2 \in out
    <3>1. b1.key = b2.key
      BY <1>6, <1>5 DEF Shared, TimesOf
    <3>. QED
      BY <3>1, <2>4, <1>3
  <2>. QED
    BY <1>6, <2>1, <2>2, <2>3, <2>4
<1>7. ASSUME NEW t \in DOMAIN taken PROVE \E b \in left \union out : Has(b.times, t)
  BY <1>4 DEF KeptInv
<1>8. KeptInv(NoAtoms, taken, left \union out)
  BY <1>1, <1>5, <1>6, <1>7 DEF KeptInv
<1>. QED
  BY <1>8 DEF out

\* No atoms take no room.
LEMMA NoAtomsOK ==
  ASSUME NEW sliced
  PROVE  AtomsOK(NoAtoms) /\ SizeOf(NoAtoms, sliced) = 0
<1>1. DOMAIN NoAtoms = {} /\ NoAtoms = [key \in DOMAIN NoAtoms |-> NoAtoms[key]]
  BY DEF NoAtoms
<1>2. FieldsIn(NoAtoms) = {} /\ TimesIn(NoAtoms) = {}
  BY <1>1 DEF FieldsIn, TimesIn
<1>3. IsFiniteSet({}) /\ Cardinality({}) = 0
  BY FS_EmptySet
<1>4. FieldsSize * 0 = 0 /\ StateSize * 0 = 0 /\ TimeSize * 0 = 0
  BY EventAssumption
<1>. QED
  BY <1>1, <1>2, <1>3, <1>4 DEF AtomsOK, SizeOf

\* The severity of a reason grows with what is lost for it.
LEMMA FlagsLost ==
  ASSUME NEW corrupted, NEW lost, FlagsInv(corrupted, lost), NEW reason \in Reasons,
         NEW type \in LostAtomTypes
  PROVE  FlagsInv([corrupted EXCEPT ![reason] = Severity(corrupted[reason], determineCorruptionSeverity(type))],
                  [lost EXCEPT ![reason] = lost[reason] \union {type}])
  BY DEF FlagsInv, Severity, determineCorruptionSeverity, kNone, kResetOnDump, kUnrecoverable, LostAtomTypes

\* Only what lasts is flagged after data were erased.
LEMMA FlagsErased ==
  ASSUME NEW corrupted, NEW lost, FlagsInv(corrupted, lost)
  PROVE  FlagsInv(Unflagged(corrupted), AfterErase(lost))
  BY DEF FlagsInv, Unflagged, AfterErase, kNone, kResetOnDump, kUnrecoverable, LostAtomTypes

\* A reason is flagged just when atoms were lost that matter.
LEMMA FlagsShow ==
  ASSUME NEW corrupted, NEW lost, FlagsInv(corrupted, lost)
  PROVE  {r \in Reasons : corrupted[r] # kNone} = Due(lost)
  BY DEF FlagsInv, Due, kNone, kResetOnDump, kUnrecoverable

-----------------------------------------------------------------------------
(* The invariant *)

\* A call leaves the history it is given, one call on.
LEMMA CallFields ==
  ASSUME NEW h, h = HistoryFields(h), EventCall(h)
  PROVE  /\ eHistory' = HistoryFields(eHistory')
         /\ eHistory'.taken = h.taken /\ eHistory'.gone = h.gone /\ eHistory'.lost = h.lost
         /\ eHistory'.report = h.report
  BY DEF EventCall, HistoryFields

\* The fields of the producer after data were erased.
LEMMA ErasedFields ==
  ASSUME NEW p, p = Fields(p), NEW q, q = ErasedEvents(p)
  PROVE  /\ q = Fields(q) /\ q.sliced = p.sliced /\ q.corrupted = Unflagged(p.corrupted)
         /\ q.atoms = NoAtoms /\ q.mTotalDataSize = 0
<1>. DEFINE flags == Unflagged(p.corrupted)
            none == NoAtoms
<1>1. q = [p EXCEPT !.atoms = none, !.corrupted = flags, !.mTotalDataSize = 0]
  BY DEF ErasedEvents
<1>. HIDE DEF flags, none
<1>2. q = [mCondition |-> p.mCondition, mIsActive |-> p.mIsActive, sliced |-> p.sliced,
           atoms |-> none, mTotalDataSize |-> 0, corrupted |-> flags]
  BY <1>1 DEF Fields
<1>. QED
  BY <1>2 DEF Fields, flags, none

\* The history after data were erased.
LEMMA GoneFields ==
  ASSUME eHistory = HistoryFields(eHistory), NEW h, h = Gone
  PROVE  /\ h = HistoryFields(h) /\ h.taken = eHistory.taken /\ h.report = eHistory.report
         /\ h.gone = eHistory.gone \union Leaving(e)
         /\ h.lost = AfterErase(eHistory.lost)
<1>. DEFINE out == eHistory.gone \union Leaving(e)
            lost == AfterErase(eHistory.lost)
<1>1. h = [eHistory EXCEPT !.gone = out, !.lost = lost]
  BY DEF Gone
<1>. HIDE DEF out, lost
<1>2. h = [calls |-> eHistory.calls, taken |-> eHistory.taken, gone |-> out, lost |-> lost,
           report |-> eHistory.report]
  BY <1>1 DEF HistoryFields
<1>. QED
  BY <1>2 DEF HistoryFields, out, lost

\* A report or a drop that erases keeps what the invariant says of atoms, sizes
\* and flags.
LEMMA EraseKeeps ==
  ASSUME EventInv, NEW h, h = Gone, NEW q, q = ErasedEvents(e)
  PROVE  /\ h = HistoryFields(h) /\ h.taken = eHistory.taken /\ h.report = eHistory.report
         /\ q = Fields(q) /\ AtomsOK(q.atoms) /\ KeptInv(q.atoms, h.taken, h.gone)
         /\ q.mTotalDataSize = SizeOf(q.atoms, q.sliced) /\ FlagsInv(q.corrupted, h.lost)
<1>1. /\ h = HistoryFields(h) /\ h.taken = eHistory.taken /\ h.report = eHistory.report
      /\ h.gone = eHistory.gone \union Leaving(e)
      /\ h.lost = AfterErase(eHistory.lost)
  BY GoneFields DEF EventInv, EventTypeInv
<1>2. /\ q = Fields(q) /\ q.sliced = e.sliced /\ q.corrupted = Unflagged(e.corrupted)
      /\ q.atoms = NoAtoms /\ q.mTotalDataSize = 0
  BY ErasedFields DEF EventInv, EventTypeInv
<1>3. AtomsOK(q.atoms) /\ q.mTotalDataSize = SizeOf(q.atoms, q.sliced)
  BY <1>2, NoAtomsOK
<1>4. KeptInv(NoAtoms, eHistory.taken, eHistory.gone \union Leaving(e))
  <2>1. Leaving(e) = Batches(e.atoms, eHistory.calls)
    BY DEF Leaving, Batches
  <2>2. KeptInv(e.atoms, eHistory.taken, eHistory.gone)
    BY DEF EventInv
  <2>3. KeptInv(NoAtoms, eHistory.taken, eHistory.gone \union Batches(e.atoms, eHistory.calls))
    BY <2>2, KeptErased
  <2>. QED
    BY <2>1, <2>3
<1>5. FlagsInv(Unflagged(e.corrupted), AfterErase(eHistory.lost))
  BY FlagsErased DEF EventInv
<1>. QED
  BY <1>1, <1>2, <1>3, <1>4, <1>5

\* The invariant holds at the start.
LEMMA EventInvInit == EventInit => EventInv
<1>. SUFFICES ASSUME EventInit PROVE EventInv
  OBVIOUS
<1>1. PICK sliced, active \in BOOLEAN :
        e = [mCondition |-> FALSE, mIsActive |-> active, sliced |-> sliced,
             atoms |-> NoAtoms, mTotalDataSize |-> 0, corrupted |-> [r \in Reasons |-> kNone]]
  BY DEF EventInit
<1>2. eHistory = [calls |-> 0, taken |-> << >>, gone |-> {}, lost |-> [r \in Reasons |-> {}],
                  report |-> [shown |-> {}, due |-> {}]]
  BY DEF EventInit
<1>3. EventTypeInv
  BY <1>1, <1>2 DEF EventInit, EventTypeInv, Fields, HistoryFields, EventStates
<1>4. AtomsOK(e.atoms) /\ e.mTotalDataSize = SizeOf(e.atoms, e.sliced)
  BY <1>1, NoAtomsOK
<1>5. KeptInv(e.atoms, eHistory.taken, eHistory.gone)
  BY <1>1, <1>2 DEF KeptInv, NoAtoms
<1>6. FlagsInv(e.corrupted, eHistory.lost)
  BY <1>1, <1>2 DEF FlagsInv, kNone
<1>7. CorruptionShown
  BY <1>2 DEF CorruptionShown
<1>. QED
  BY <1>3, <1>4, <1>5, <1>6, <1>7 DEF EventInv

\* Every call keeps it.
LEMMA EventInvStep == EventInv /\ [EventNext]_eventVars => EventInv'
<1>. SUFFICES ASSUME EventInv, [EventNext]_eventVars PROVE EventInv'
  OBVIOUS
<1>0. /\ e = Fields(e) /\ eHistory = HistoryFields(eHistory) /\ eState \in EventStates
      /\ eHistory.taken \in Seq(EventFields \X (EventStates \union {NoState}))
      /\ AtomsOK(e.atoms) /\ KeptInv(e.atoms, eHistory.taken, eHistory.gone)
      /\ e.mTotalDataSize = SizeOf(e.atoms, e.sliced) /\ FlagsInv(e.corrupted, eHistory.lost)
      /\ CorruptionShown
  BY DEF EventInv, EventTypeInv
<1>1. ASSUME NEW fields \in EventFields, onEventAtom(fields) PROVE EventInv'
  <2>. DEFINE key == <<fields, IF e.sliced THEN eState ELSE NoState>>
              t == Len(eHistory.taken) + 1
              h == [eHistory EXCEPT !.taken = Append(@, key)]
  <2>1. e' = WithEvent(e, key, t) /\ EventCall(h) /\ eState' = eState
    BY <1>1 DEF onEventAtom
  <2>2. key \in EventFields \X (EventStates \union {NoState}) /\ t \in Nat
    BY <1>0
  <2>. HIDE DEF key
  <2>3. /\ h = HistoryFields(h) /\ h.taken = Append(eHistory.taken, key) /\ h.gone = eHistory.gone
        /\ h.lost = eHistory.lost /\ h.report = eHistory.report
    <3>. DEFINE more == Append(eHistory.taken, key)
    <3>1. h = [eHistory EXCEPT !.taken = more]
      OBVIOUS
    <3>. HIDE DEF more, h
    <3>2. /\ h = HistoryFields(h) /\ h.taken = more /\ h.gone = eHistory.gone
          /\ h.lost = eHistory.lost /\ h.report = eHistory.report
      BY <1>0, <3>1 DEF HistoryFields
    <3>. QED
      BY <3>2 DEF more
  <2>. HIDE DEF h, t
  <2>4. /\ e' = Fields(e') /\ e'.sliced = e.sliced /\ e'.corrupted = e.corrupted
        /\ e'.atoms = Added(e.atoms, key, t)
        /\ e'.mTotalDataSize = e.mTotalDataSize + AddedSize(e, key)
    BY <1>0, <2>1, WithEventFields
  <2>5. /\ eHistory' = HistoryFields(eHistory')
        /\ eHistory'.taken = Append(eHistory.taken, key) /\ eHistory'.gone = eHistory.gone
        /\ eHistory'.lost = eHistory.lost /\ eHistory'.report = eHistory.report
    BY <2>1, <2>3, CallFields
  <2>6. AtomsOK(Added(e.atoms, key, t))
    BY <1>0, <2>2, AddedOK
  <2>7. KeptInv(Added(e.atoms, key, t), Append(eHistory.taken, key), eHistory.gone)
    BY <1>0, <2>2, KeptAdded DEF t
  <2>8. SizeOf(Added(e.atoms, key, t), e.sliced) = SizeOf(e.atoms, e.sliced) + AddedSize(e, key)
    <3>1. AddedSize(e, key) = (TimeSize + (IF key[1] \notin FieldsIn(e.atoms) THEN FieldsSize ELSE 0)
                  + (IF e.sliced /\ key \notin DOMAIN e.atoms THEN StateSize ELSE 0))
      BY DEF AddedSize
    <3>. QED
      BY <1>0, <2>2, <3>1, SizeAdded
  <2>9. Append(eHistory.taken, key) \in Seq(EventFields \X (EventStates \union {NoState}))
    BY <1>0, <2>2
  <2>. QED
    BY <1>0, <2>1, <2>4, <2>5, <2>6, <2>7, <2>8, <2>9 DEF EventInv, EventTypeInv, CorruptionShown
<1>2. CASE onEventConditionChanged
  <2>1. /\ e' = Fields(e') /\ e'.sliced = e.sliced /\ e'.corrupted = e.corrupted
        /\ e'.atoms = e.atoms /\ e'.mTotalDataSize = e.mTotalDataSize
    BY <1>0, <1>2 DEF onEventConditionChanged, Fields
  <2>2. /\ eHistory' = HistoryFields(eHistory')
        /\ eHistory'.taken = eHistory.taken /\ eHistory'.gone = eHistory.gone
        /\ eHistory'.lost = eHistory.lost /\ eHistory'.report = eHistory.report
    BY <1>0, <1>2, CallFields DEF onEventConditionChanged
  <2>. QED
    BY <1>0, <1>2, <2>1, <2>2 DEF onEventConditionChanged, EventInv, EventTypeInv, CorruptionShown
<1>3. CASE onEventActivation
  <2>1. /\ e' = Fields(e') /\ e'.sliced = e.sliced /\ e'.corrupted = e.corrupted
        /\ e'.atoms = e.atoms /\ e'.mTotalDataSize = e.mTotalDataSize
    BY <1>0, <1>3 DEF onEventActivation, Fields
  <2>2. /\ eHistory' = HistoryFields(eHistory')
        /\ eHistory'.taken = eHistory.taken /\ eHistory'.gone = eHistory.gone
        /\ eHistory'.lost = eHistory.lost /\ eHistory'.report = eHistory.report
    BY <1>0, <1>3, CallFields DEF onEventActivation
  <2>. QED
    BY <1>0, <1>3, <2>1, <2>2 DEF onEventActivation, EventInv, EventTypeInv, CorruptionShown
<1>4. CASE onEventStateChanged
  <2>1. eState' \in EventStates /\ e' = e
    BY <1>4 DEF onEventStateChanged, EventStates
  <2>2. /\ eHistory' = HistoryFields(eHistory')
        /\ eHistory'.taken = eHistory.taken /\ eHistory'.gone = eHistory.gone
        /\ eHistory'.lost = eHistory.lost /\ eHistory'.report = eHistory.report
    BY <1>0, <1>4, CallFields DEF onEventStateChanged
  <2>. QED
    BY <1>0, <2>1, <2>2 DEF EventInv, EventTypeInv, CorruptionShown
<1>5. ASSUME NEW reason \in Reasons, NEW type \in LostAtomTypes, onEventAtomLost(reason, type)
      PROVE  EventInv'
  <2>. DEFINE flags == [e.corrupted EXCEPT ![reason] = Severity(@, determineCorruptionSeverity(type))]
              lost == [eHistory.lost EXCEPT ![reason] = @ \union {type}]
              h == [eHistory EXCEPT !.lost[reason] = @ \union {type}]
  <2>1. e' = [e EXCEPT !.corrupted = flags] /\ EventCall(h) /\ eState' = eState
    BY <1>5 DEF onEventAtomLost
  <2>2. h = [eHistory EXCEPT !.lost = lost]
    OBVIOUS
  <2>3. FlagsInv(flags, lost)
    BY <1>0, FlagsLost
  <2>. HIDE DEF flags, lost, h
  <2>4. /\ e' = Fields(e') /\ e'.sliced = e.sliced /\ e'.corrupted = flags
        /\ e'.atoms = e.atoms /\ e'.mTotalDataSize = e.mTotalDataSize
    BY <1>0, <2>1 DEF Fields
  <2>5. /\ h = HistoryFields(h) /\ h.taken = eHistory.taken /\ h.gone = eHistory.gone
        /\ h.lost = lost /\ h.report = eHistory.report
    BY <1>0, <2>2 DEF HistoryFields
  <2>6. /\ eHistory' = HistoryFields(eHistory')
        /\ eHistory'.taken = eHistory.taken /\ eHistory'.gone = eHistory.gone
        /\ eHistory'.lost = lost /\ eHistory'.report = eHistory.report
    BY <2>1, <2>5, CallFields
  <2>. QED
    BY <1>0, <2>1, <2>3, <2>4, <2>6 DEF EventInv, EventTypeInv, CorruptionShown
<1>6. CASE onEventDumpReport
  <2>1. PICK erase \in BOOLEAN :
          /\ e' = IF erase THEN ErasedEvents(e) ELSE e
          /\ EventCall([(IF erase THEN Gone ELSE eHistory) EXCEPT
               !.report = [shown |-> {r \in Reasons : e.corrupted[r] # kNone}, due |-> Due(eHistory.lost)]])
          /\ eState' = eState
    BY <1>6 DEF onEventDumpReport
  <2>. DEFINE g == IF erase THEN Gone ELSE eHistory
              rep == [shown |-> {r \in Reasons : e.corrupted[r] # kNone}, due |-> Due(eHistory.lost)]
              h == [g EXCEPT !.report = rep]
  <2>2. rep.shown = rep.due
    BY <1>0, FlagsShow
  <2>3. /\ g = HistoryFields(g) /\ g.taken = eHistory.taken
        /\ e' = Fields(e') /\ AtomsOK(e'.atoms) /\ KeptInv(e'.atoms, g.taken, g.gone)
        /\ e'.mTotalDataSize = SizeOf(e'.atoms, e'.sliced) /\ FlagsInv(e'.corrupted, g.lost)
    <3>1. CASE erase
      BY <2>1, <3>1, EraseKeeps
    <3>2. CASE ~erase
      BY <1>0, <2>1, <3>2
    <3>. QED
      BY <3>1, <3>2
  <2>4. EventCall(h)
    BY <2>1
  <2>. HIDE DEF g, rep
  <2>5. /\ h = HistoryFields(h) /\ h.taken = g.taken /\ h.gone = g.gone
        /\ h.lost = g.lost /\ h.report = rep
    BY <2>3 DEF HistoryFields
  <2>. HIDE DEF h
  <2>6. /\ eHistory' = HistoryFields(eHistory')
        /\ eHistory'.taken = g.taken /\ eHistory'.gone = g.gone
        /\ eHistory'.lost = g.lost /\ eHistory'.report = rep
    BY <2>4, <2>5, CallFields
  <2>. QED
    BY <1>0, <2>1, <2>2, <2>3, <2>6 DEF EventInv, EventTypeInv, CorruptionShown
<1>7. CASE onEventDropData
  <2>1. e' = ErasedEvents(e) /\ EventCall(Gone) /\ eState' = eState
    BY <1>7 DEF onEventDropData
  <2>2. PICK h : h = Gone
    OBVIOUS
  <2>3. /\ h = HistoryFields(h) /\ h.taken = eHistory.taken /\ h.report = eHistory.report
        /\ e' = Fields(e') /\ AtomsOK(e'.atoms) /\ KeptInv(e'.atoms, h.taken, h.gone)
        /\ e'.mTotalDataSize = SizeOf(e'.atoms, e'.sliced) /\ FlagsInv(e'.corrupted, h.lost)
    BY <2>1, <2>2, EraseKeeps
  <2>4. /\ eHistory' = HistoryFields(eHistory')
        /\ eHistory'.taken = h.taken /\ eHistory'.gone = h.gone
        /\ eHistory'.lost = h.lost /\ eHistory'.report = h.report
    BY <2>1, <2>2, <2>3, CallFields
  <2>. QED
    BY <1>0, <2>1, <2>3, <2>4 DEF EventInv, EventTypeInv, CorruptionShown
<1>8. CASE UNCHANGED eventVars
  BY <1>8 DEF eventVars, EventInv, EventTypeInv, CorruptionShown
<1>. QED
  BY <1>1, <1>2, <1>3, <1>4, <1>5, <1>6, <1>7, <1>8 DEF EventNext

\* What the invariant says of events, in the words of the property.
LEMMA EventInvImplies == EventInv => EventsSound
<1>. SUFFICES ASSUME EventInv PROVE EventsSound
  OBVIOUS
<1>1. KeptInv(e.atoms, eHistory.taken, eHistory.gone)
  BY DEF EventInv
<1>2. ASSUME NEW b \in Leaving(e) PROVE b.key \in DOMAIN e.atoms /\ b.times = e.atoms[b.key]
  BY DEF Leaving
<1>3. ASSUME NEW b1 \in Leaving(e), NEW b2 \in Leaving(e), b1.key = b2.key PROVE b1 = b2
  BY <1>3 DEF Leaving
<1>4. ASSUME NEW key \in DOMAIN e.atoms PROVE \E b \in Leaving(e) : b.times = e.atoms[key]
  <2>1. [key |-> key, times |-> e.atoms[key], call |-> eHistory.calls] \in Leaving(e)
    BY DEF Leaving
  <2>. QED
    BY <2>1
<1>. DEFINE all == eHistory.gone \union Leaving(e)
<1>5. \A b \in all : TimesOf(b.times, b.key, eHistory.taken)
  BY <1>1, <1>2 DEF KeptInv
<1>6. ASSUME NEW b1 \in all, NEW b2 \in all, Shared(b1.times, b2.times) PROVE b1 = b2
  <2>1. Shared(b2.times, b1.times)
    BY <1>6 DEF Shared
  <2>2. CASE b1 \in eHistory.gone /\ b2 \in eHistory.gone
    BY <1>1, <1>6, <2>2 DEF KeptInv
  <2>3. ASSUME NEW b \in eHistory.gone, NEW o \in Leaving(e) PROVE ~Shared(b.times, o.times)
    BY <1>1, <1>2 DEF KeptInv
  <2>4. CASE b1 \in Leaving(e) /\ b2 \in Leaving(e)
    <3>1. b1.key = b2.key
      BY <1>6, <1>5 DEF Shared, TimesOf
    <3>. QED
      BY <3>1, <2>4, <1>3
  <2>. QED
    BY <1>6, <2>1, <2>2, <2>3, <2>4
<1>7. ASSUME NEW t \in DOMAIN eHistory.taken
      PROVE  /\ Cardinality(Places(t)) = 1
             /\ \A b \in Places(t) : /\ b.key = eHistory.taken[t]
                                      /\ Cardinality({i \in DOMAIN b.times : b.times[i] = t}) = 1
  <2>1. \A b : b \in Places(t) <=> b \in all /\ Has(b.times, t)
    BY DEF Places, Range, Has
  <2>2. \E b \in all : Has(b.times, t)
    BY <1>1, <1>4 DEF KeptInv
  <2>3. \A b1, b2 \in all : Has(b1.times, t) /\ Has(b2.times, t) => b1 = b2
    BY <1>6 DEF Has, Shared
  <2>4. PICK b \in all : Has(b.times, t)
    BY <2>2
  <2>5. Places(t) = {b}
    BY <2>1, <2>3, <2>4
  <2>6. PICK i \in DOMAIN b.times : b.times[i] = t
    BY <2>4 DEF Has
  <2>7. b.key = eHistory.taken[t] /\ {j \in DOMAIN b.times : b.times[j] = t} = {i}
    BY <1>5, <2>6 DEF TimesOf
  <2>8. \A x : Cardinality({x}) = 1
    BY FS_Singleton
  <2>. QED
    BY <2>5, <2>7, <2>8
<1>8. EventsKeptOnce
  BY <1>7 DEF EventsKeptOnce
<1>9. EventSizeMatches
  <2>1. /\ Cardinality(FieldsIn(e.atoms)) \in Nat /\ Cardinality(DOMAIN e.atoms) \in Nat
        /\ Cardinality(TimesIn(e.atoms)) \in Nat
    BY FS_CardinalityType DEF EventInv, AtomsOK
  <2>2. FieldsSize \in Nat /\ StateSize \in Nat /\ TimeSize \in Nat
    BY EventAssumption
  <2>3. e.mTotalDataSize = SizeOf(e.atoms, e.sliced)
    BY DEF EventInv
  <2>. QED
    BY <2>1, <2>2, <2>3 DEF EventSizeMatches, SizeOf
<1>. QED
  BY <1>8, <1>9 DEF EventsSound, EventInv

\* An event metric keeps or reports every event once under its key, knows the size of
\* what it keeps, and shows in a report exactly the losses that matter to it.
THEOREM EventsAreSound == EventSpec => []EventsSound
<1>1. EventInit => EventInv
  BY EventInvInit
<1>2. EventInv /\ [EventNext]_eventVars => EventInv'
  BY EventInvStep
<1>3. EventInv => EventsSound
  BY EventInvImplies
<1>. QED
  BY <1>1, <1>2, <1>3, PTL DEF EventSpec
=============================================================================
