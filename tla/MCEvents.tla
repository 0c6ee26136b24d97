------------------------------ MODULE MCEvents ------------------------------
(***************************************************************************)
(* One run for the two ways of atoms into statsd: pushed events            *)
(* (LogEventQueue), and pulls with the alarm that starts them              *)
(* (PullManager).  They share no state: a behaviour is one of the part     *)
(* chosen at the start.                                                    *)
(***************************************************************************)
EXTENDS LogEventQueue, PullManager

VARIABLE part

\* Two metrics of two configs pull the same atom.
MCReceivers == [r1 |-> [tag |-> "A", config |-> "c1"], r2 |-> [tag |-> "A", config |-> "c2"]]

-----------------------------------------------------------------------------
allVars == <<part, vars, pullVars>>

SuiteInit == part \in {"queue", "pull"} /\ Init /\ PullInit

InQueue(A) == part = "queue" /\ A /\ UNCHANGED <<part, pullVars>>
InPull(A) == part = "pull" /\ A /\ UNCHANGED <<part, vars>>

QueueStep == InQueue(Next)
PullStep == InPull(PullNext)

\* The fairness of the parts: Fairness of LogEventQueue, PullFairness.
SuiteFairness ==
  /\ WF_allVars(InQueue(listenerNotify)) /\ WF_allVars(InQueue(noteEventQueueOverflow))
  /\ WF_allVars(InQueue(pushStopEvent)) /\ WF_allVars(InQueue(stopperNotify))
  /\ WF_allVars(InQueue(Startup)) /\ WF_allVars(InQueue(waitPop)) /\ WF_allVars(InQueue(readLogs))
  /\ \A w \in AllThreads : WF_allVars(InPull(WorkerStep(w)))
  /\ WF_allVars(InPull(MainStep))

SuiteSpec == SuiteInit /\ SuiteFairness /\ [][QueueStep \/ PullStep]_allVars

-----------------------------------------------------------------------------
\* Nobody waits for ever: what is queued is taken out, the reader stops when asked
\* to, and the handling of a pull alarm by its threads ends.
WorkersFinish == QueueDrains /\ ReaderStops /\ AlarmHandled
=============================================================================
