---------------------------- MODULE StateTracker ----------------------------
(***************************************************************************)
(* state/StateManager.cpp and state/StateTracker.cpp: the states of atoms, *)
(* by primary key, and the metrics that slice by them.  Every call comes   *)
(* from a thread that holds the lock of StatsLogProcessor.                 *)
(*                                                                         *)
(* Listeners are metric producers, held by weak pointers.  The manager of  *)
(* a config unregisters its producers when it ends; a producer that an     *)
(* update replaces dies registered, and is told nothing more.  Between     *)
(* calls a producer asks for the state of a key (queryStateValue), so what *)
(* it goes by is the state at its registration and what it was told since. *)
(***************************************************************************)
EXTENDS Integers

CONSTANTS
  StateAtoms, StateKeys, StateListeners,
  StateValues,              \* the values of the state field
  StateMaxCalls             \* bound

kStateUnknown == -1
SaidNested == -2

ASSUME StateAssumption == StateValues \subseteq Nat /\ StateMaxCalls \in Nat

VARIABLES
  mStateTrackers,           \* atom -> [mStateMap : key -> [state, count], mListeners]
  liveListeners,            \* those whose weak pointer can be promoted
  heard,                    \* history: [listener, atom, key] -> the state it goes by
  said,                     \* history: [atom, key] -> what the last event said, or SaidNested
  lossHeard,                \* history: [listener, atom] pairs told of a loss
  stateCalls

stateVars == <<mStateTrackers, liveListeners, heard, said, lossHeard, stateCalls>>

StateCall == stateCalls < StateMaxCalls /\ stateCalls' = stateCalls + 1

StateInit ==
  /\ mStateTrackers = [a \in {} |-> 0] /\ liveListeners = StateListeners
  /\ heard = [x \in StateListeners \X StateAtoms \X StateKeys |-> kStateUnknown]
  /\ said = [x \in StateAtoms \X StateKeys |-> kStateUnknown]
  /\ lossHeard = {} /\ stateCalls = 0

Tracked == DOMAIN mStateTrackers

ListenersOf(a) == IF a \in Tracked THEN mStateTrackers[a].mListeners ELSE {}

StateMapOf(a) == mStateTrackers[a].mStateMap

\* The entry of a key, or the one that mStateMap[primaryKey] makes.
Info(a, k) == IF k \in DOMAIN StateMapOf(a) THEN StateMapOf(a)[k]
              ELSE [state |-> kStateUnknown, count |-> 0]

getStateValue(a, k) == IF a \in Tracked THEN Info(a, k).state ELSE kStateUnknown

-----------------------------------------------------------------------------
(* updateStateForPrimaryKey *)

\* Mutant: a nested event is counted also when its state is unknown.
ChangesCounted(info, new, nested) ==
  /\ new # info.state
  /\ nested /\ info.state # kStateUnknown => info.count = 1

\* Does an event change the state, so that the listeners are told?  A nested event
\* of the other state does so when it makes the count 0.
Changes(info, new, nested) ==
  /\ new # info.state
  /\ nested /\ kStateUnknown \notin {new, info.state} => info.count = 1

\* The entry after the event; one whose state is unknown is erased.
Updated(info, new, nested) ==
  IF Changes(info, new, nested) THEN [state |-> new, count |-> 1]
  ELSE IF ~nested THEN info
  ELSE [info EXCEPT !.count = IF new = info.state THEN @ + 1 ELSE @ - 1]

\* The keys of an atom get a new state.
updateStateForKeys(a, keys, new, nested) ==
  LET map == StateMapOf(a)
      left == IF new = kStateUnknown THEN DOMAIN map \ keys ELSE DOMAIN map \union keys
      told == {k \in keys : Changes(Info(a, k), new, nested)}
  IN  /\ mStateTrackers' = [mStateTrackers EXCEPT ![a].mStateMap =
           [k \in left |-> IF k \in keys THEN Updated(Info(a, k), new, nested) ELSE map[k]]]
      /\ heard' = [x \in DOMAIN heard |->
           IF x[1] \in ListenersOf(a) \intersect liveListeners /\ x[2] = a /\ x[3] \in told
             THEN new ELSE heard[x]]

Say(a, keys, what) ==
  said' = [x \in DOMAIN said |-> IF x[1] = a /\ x[2] \in keys THEN what ELSE said[x]]

-----------------------------------------------------------------------------
(* StateTracker::onLogEvent *)

\* The event has no state field, or one that is no integer.
clearStateForPrimaryKey(a, k) ==
  /\ StateCall /\ a \in Tracked
  /\ updateStateForKeys(a, {k} \intersect DOMAIN StateMapOf(a), kStateUnknown, FALSE)
  /\ Say(a, {k}, kStateUnknown)
  /\ UNCHANGED <<liveListeners, lossHeard>>

\* The event resets the states of all keys.
handleReset(a, new) ==
  /\ StateCall /\ a \in Tracked
  /\ updateStateForKeys(a, DOMAIN StateMapOf(a), new, FALSE)
  /\ Say(a, {k \in StateKeys : said[<<a, k>>] # kStateUnknown}, new)
  /\ UNCHANGED <<liveListeners, lossHeard>>

onStateEvent(a, k, new, nested) ==
  /\ StateCall /\ a \in Tracked
  /\ updateStateForKeys(a, {k}, new, nested)
  /\ Say(a, {k}, IF nested /\ new # kStateUnknown THEN SaidNested ELSE new)
  /\ UNCHANGED <<liveListeners, lossHeard>>

\* Events of the atom were lost at the socket.
onStateEventLost(a) ==
  /\ StateCall /\ a \in Tracked
  /\ lossHeard' = lossHeard \union ((ListenersOf(a) \intersect liveListeners) \X {a})
  /\ UNCHANGED <<mStateTrackers, liveListeners, heard, said>>

-----------------------------------------------------------------------------
(* StateManager *)

registerListener(a, l) ==
  /\ StateCall /\ l \in liveListeners
  /\ mStateTrackers' = [b \in Tracked \union {a} |->
       IF b # a THEN mStateTrackers[b]
       ELSE [mStateMap |-> IF a \in Tracked THEN StateMapOf(a) ELSE [k \in {} |-> 0],
             mListeners |-> ListenersOf(a) \union {l}]]
  /\ heard' = [x \in DOMAIN heard |->
       IF x[1] = l /\ x[2] = a THEN getStateValue(a, x[3]) ELSE heard[x]]
  /\ UNCHANGED <<liveListeners, said, lossHeard>>

\* A tracker goes with its last listener, and what it knew with it.
unregisterListener(a, l) ==
  LET others == ListenersOf(a) \ {l}
      gone == {b \in {a} : others = {}}
  IN  /\ StateCall
      /\ mStateTrackers' = [b \in Tracked \ gone |->
           IF b = a THEN [mStateTrackers[a] EXCEPT !.mListeners = others] ELSE mStateTrackers[b]]
      /\ IF gone = {} THEN UNCHANGED said ELSE Say(a, StateKeys, kStateUnknown)
      /\ UNCHANGED <<liveListeners, heard, lossHeard>>

\* The last strong pointer to a metric producer goes, as when an update replaces it.
ListenerDies(l) ==
  /\ StateCall /\ liveListeners' = liveListeners \ {l}
  /\ UNCHANGED <<mStateTrackers, heard, said, lossHeard>>

StateNext ==
  \E a \in StateAtoms :
    \/ \E k \in StateKeys : clearStateForPrimaryKey(a, k)
    \/ \E new \in StateValues : handleReset(a, new)
    \/ \E k \in StateKeys, new \in StateValues \union {kStateUnknown}, nested \in BOOLEAN :
         onStateEvent(a, k, new, nested)
    \/ onStateEventLost(a)
    \/ \E l \in StateListeners : registerListener(a, l) \/ unregisterListener(a, l)
    \/ \E l \in liveListeners : ListenerDies(l)

StateSpec == StateInit /\ [][StateNext]_stateVars

-----------------------------------------------------------------------------
StateTypeOK ==
  /\ Tracked \subseteq StateAtoms /\ liveListeners \subseteq StateListeners
  /\ \A a \in Tracked :
       /\ mStateTrackers[a] = [mStateMap |-> StateMapOf(a), mListeners |-> ListenersOf(a)]
       /\ ListenersOf(a) \subseteq StateListeners /\ DOMAIN StateMapOf(a) \subseteq StateKeys
  /\ heard \in [StateListeners \X StateAtoms \X StateKeys -> StateValues \union {kStateUnknown}]
  /\ said \in [StateAtoms \X StateKeys -> StateValues \union {kStateUnknown, SaidNested}]

\* A key that is in the map has a known state and a count that is not used up: an
\* entry of mStateMap[primaryKey] does not outlive the call as it was made.
EntriesKnown ==
  \A a \in Tracked : \A k \in DOMAIN StateMapOf(a) :
    StateMapOf(a)[k] \in [state : StateValues, count : Nat \ {0}]

\* There is a tracker for an atom just while a producer is registered for it
\* (addAllAtomIds keeps the atom in use by the trackers).
TrackersHaveListeners == \A a \in Tracked : ListenersOf(a) # {}

\* A producer that lives goes by the state that the tracker holds.
ListenersUpToDate ==
  \A a \in Tracked : \A l \in ListenersOf(a) \intersect liveListeners : \A k \in StateKeys :
    heard[<<l, a, k>>] = getStateValue(a, k)

\* The state is the one of the last event, unless that was a nested one, and a state
\* that a nested event left is a known one.
StateFollowsEvents ==
  \A a \in StateAtoms, k \in StateKeys :
    /\ said[<<a, k>>] = SaidNested => getStateValue(a, k) # kStateUnknown
    /\ said[<<a, k>>] # SaidNested => getStateValue(a, k) = said[<<a, k>>]

\* Listeners go by the states that the events of the atom left, over resets, nested
\* events, clears and the trackers' coming and going.
StatesHeard ==
  StateTypeOK /\ EntriesKnown /\ TrackersHaveListeners /\ ListenersUpToDate /\ StateFollowsEvents
=============================================================================
