------------------------ MODULE RestrictedReceivers ------------------------
(***************************************************************************)
(* How a delegate learns which restricted metrics a config has:            *)
(* setRestrictedMetricsChangedOperation of StatsService.cpp and the        *)
(* receivers of ConfigManager.cpp.  The receiver is registered under one   *)
(* lock and the metrics are read under another; broadcasts are sent by     *)
(* whoever changes the config.  One config, two delegate uids, of which    *)
(* the config allows one at a time.                                        *)
(***************************************************************************)
EXTENDS Integers, FiniteSets

CONSTANTS Delegates, MetricSets, MaxChanges

Nobody == "nobody"

ASSUME ReceiversAssumption == Nobody \notin Delegates /\ MaxChanges \in Nat

VARIABLES
  delegate,  \* the uid the running config allows, or Nobody
  metrics,   \* its metric ids, {} unless it is restricted
  receiver,  \* uid -> "none", or "alive" or "dead" with the number of the intent
  sending,   \* broadcasts on their way: intents collected under the lock
  setting,   \* uid -> a call of setRestrictedMetricsChangedOperation has registered only
  knows,     \* history: uid -> the metrics it was told last
  changes    \* calls so far

receiverVars == <<delegate, metrics, receiver, sending, setting, knows, changes>>

NoReceiver == [state |-> "none", intent |-> 0]

ReceiversInit ==
  /\ delegate = Nobody /\ metrics = {} /\ sending = {} /\ changes = 0
  /\ receiver = [u \in Delegates |-> NoReceiver]
  /\ setting = [u \in Delegates |-> FALSE] /\ knows = [u \in Delegates |-> {}]

Step == changes < MaxChanges /\ changes' = changes + 1

\* SetRestrictedMetricsChangedReceiver, the first half of the call.
setRestrictedMetricsChangedOperation(u) ==
  /\ Step /\ ~setting[u]
  /\ receiver' = [receiver EXCEPT ![u] = [state |-> "alive", intent |-> changes + 1]]
  /\ setting' = [setting EXCEPT ![u] = TRUE]
  /\ UNCHANGED <<delegate, metrics, sending, knows>>

\* The metric ids, if the caller is the delegate of the config.
fillRestrictedMetrics(u) == IF u = delegate THEN metrics ELSE {}

\* The second half, under the lock that a sender of broadcasts holds.
Filled(u) ==
  /\ setting[u] /\ sending = {}
  /\ setting' = [setting EXCEPT ![u] = FALSE]
  /\ knows' = [knows EXCEPT ![u] = fillRestrictedMetrics(u)]
  /\ UNCHANGED <<delegate, metrics, receiver, sending, changes>>

removeRestrictedMetricsChangedOperation(u) ==
  /\ Step /\ ~setting[u] /\ receiver[u].state # "none"
  /\ receiver' = [receiver EXCEPT ![u] = NoReceiver]
  /\ UNCHANGED <<delegate, metrics, sending, setting, knows>>

ReceiverDies(u) ==
  /\ Step /\ receiver[u].state = "alive"
  /\ receiver' = [receiver EXCEPT ![u] = [state |-> "dead", intent |-> receiver[u].intent]]
  /\ UNCHANGED <<delegate, metrics, sending, setting, knows>>

\* SendRestrictedMetricsBroadcast: the receivers of the allowed uid, collected under
\* the lock.  The sender holds the lock of the processor until all are sent.
Collected(u, ids) ==
  IF u # Nobody /\ receiver[u].state # "none"
    THEN {[uid |-> u, intent |-> receiver[u].intent, ids |-> ids]} ELSE {}

\* OnConfigUpdatedLocked: the delegate of a restricted config is told its metrics, that
\* of a restricted config that goes is told there are none.  A delegate that is
\* replaced by another one is not told.
Told(old, new, ids) == IF new # Nobody THEN Collected(new, ids) ELSE Collected(old, {})

ConfigChanges ==
  /\ Step /\ sending = {}
  /\ \E u \in Delegates \union {Nobody}, ids \in MetricSets :
       /\ delegate' = u /\ metrics' = IF u = Nobody THEN {} ELSE ids
       /\ sending' = Told(delegate, u, ids)
  /\ UNCHANGED <<receiver, setting, knows>>

\* Mutant of Gone: whatever intent is registered is removed.
GoneWhoever(b) == [receiver EXCEPT ![b.uid] = NoReceiver]

\* RemoveRestrictedMetricsChangedReceiver for a dead intent: only if it is still the
\* registered one.
Gone(b) == IF receiver[b.uid].intent = b.intent THEN [receiver EXCEPT ![b.uid] = NoReceiver] ELSE receiver

\* One intent of the broadcast is sent, outside the lock of the config manager.
Send(b) ==
  /\ sending' = sending \ {b}
  /\ \E alive \in IF receiver[b.uid].intent = b.intent THEN {receiver[b.uid].state = "alive"} ELSE BOOLEAN :
       IF alive THEN knows' = [knows EXCEPT ![b.uid] = b.ids] /\ UNCHANGED receiver
       ELSE receiver' = Gone(b) /\ UNCHANGED knows
  /\ UNCHANGED <<delegate, metrics, setting, changes>>

ReceiversNext ==
  \/ \E u \in Delegates :
       \/ setRestrictedMetricsChangedOperation(u) \/ Filled(u)
       \/ removeRestrictedMetricsChangedOperation(u) \/ ReceiverDies(u)
  \/ ConfigChanges \/ \E b \in sending : Send(b)

ReceiversSpec == ReceiversInit /\ [][ReceiversNext]_receiverVars

-----------------------------------------------------------------------------
\* A delegate with a live receiver knows the metrics of the config that allows it, once
\* its call has returned and the broadcast is out: registering before reading, under two
\* locks, misses no change.
DelegateUpToDate ==
  \A u \in Delegates :
    (receiver[u].state = "alive" /\ ~setting[u] /\ sending = {} /\ delegate = u) => knows[u] = metrics

\* A registered intent is removed only by its owner or when it is dead itself: not
\* because an older one was found dead (RemoveRestrictedMetricsChangedReceiver).
NewReceiverKept ==
  [][\A u \in Delegates : (receiver[u].state = "alive" /\ receiver'[u].state = "none") => changes' # changes]_receiverVars

\* A delegate's receiver stays, and the delegate knows the metrics of its config.
ReceiversSound == []DelegateUpToDate /\ NewReceiverKept
=============================================================================
