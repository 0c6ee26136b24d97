------------------------- MODULE ActivationBroadcast -------------------------
(***************************************************************************)
(* The broadcasts that tell a uid which of its configs are active.         *)
(* StatsLogProcessor::OnLogEvent compares the active flag of each config   *)
(* before and after the event, and then goes through the uids with a       *)
(* changed config in the order of an unordered_set.  A guardrail spaces    *)
(* the broadcasts of a uid; the loop returns at the first uid it stops.    *)
(* The activations themselves are those of MetricActivation.               *)
(***************************************************************************)
EXTENDS MetricActivation

CONSTANTS Uids,
          uidOf,        \* [Configs -> Uids]
          MinPeriod     \* StatsdStats::kMinActivationBroadcastPeriodNs

VARIABLES lastBroadcast,    \* mLastActivationBroadcastTimes
          told              \* the uids the last event's loop has sent a broadcast for

broadcastVars == <<lastBroadcast, told>>
bvars == <<vars, broadcastVars>>

BroadcastInit == lastBroadcast = [u \in Uids |-> None] /\ told = {}

\* The uids whose set of active configs the step changes.
UidsWithActiveConfigsChanged ==
    {uidOf[c] : c \in {d \in Configs : configActive'[d] # configActive[d]}}

\* The guardrail of one uid.
Guarded(u) == lastBroadcast[u] # None /\ now - lastBroadcast[u] < MinPeriod

\* The loop over the changed uids: reached are the ones it comes to before the return,
\* delivered those whose receiver exists and accepts the broadcast.
SendActivationBroadcasts(reached, delivered) ==
    LET changed == UidsWithActiveConfigsChanged
        stopped == {u \in changed : Guarded(u)}
    IN /\ reached \subseteq changed \ stopped
       /\ stopped = {} => reached = changed
       /\ delivered \subseteq reached
       /\ told' = reached
       /\ lastBroadcast' = [u \in Uids |-> IF u \in delivered THEN now ELSE lastBroadcast[u]]

\* StatsLogProcessor::OnLogEvent: the managers handle the event, then the broadcasts go out.
ProcessorEvent ==
    /\ EventStep
    /\ \E reached, delivered \in SUBSET Uids : SendActivationBroadcasts(reached, delivered)

\* The times are lost when statsd ends.
ProcessorOther ==
    /\ OtherStep
    /\ lastBroadcast' = [u \in Uids |-> IF up' THEN lastBroadcast[u] ELSE None]
    /\ told' = {}

BroadcastNext == ProcessorEvent \/ ProcessorOther

BroadcastSpec == Init /\ BroadcastInit /\ [][BroadcastNext]_bvars
-----------------------------------------------------------------------------
\* A client is called whenever an event changes which of its configs are active
\* (StatsManager.java:360-361), but for its own guardrail: a broadcast of another uid does
\* not keep it from hearing of the change (StatsLogProcessor.cpp:540-549).
ChangeBroadcast ==
    [][EventStep =>
         \A u \in UidsWithActiveConfigsChanged : Guarded(u) \/ u \in told']_bvars
=============================================================================
