--------------------------- MODULE MCReportStore ---------------------------
(***************************************************************************)
(* One run for what statsd keeps on disk: configs and reports              *)
(* (ReportStore), train info (TrainInfo), the database of a restricted     *)
(* config (RestrictedData) and the receivers of its delegates              *)
(* (RestrictedReceivers).  They share no state: a behaviour is one of the  *)
(* part chosen at the start.                                               *)
(***************************************************************************)
EXTENDS ReportStore, TrainInfo, RestrictedData, RestrictedReceivers

VARIABLE part

\* Two configs of one app.
OneUid == <<[uid |-> 11, id |-> 1], [uid |-> 11, id |-> 2]>>

\* The same app for two users: 10123 and 1010123 in miniature.
SuffixUids == <<[uid |-> 111, id |-> 1], [uid |-> 11, id |-> 1]>>

Plain == [valid |-> TRUE, persist |-> FALSE, noReport |-> FALSE, ttl |-> TRUE]
Persist == [valid |-> TRUE, persist |-> TRUE, noReport |-> FALSE, ttl |-> FALSE]
NoReport == [valid |-> TRUE, persist |-> FALSE, noReport |-> TRUE, ttl |-> FALSE]
Invalid == [valid |-> FALSE, persist |-> FALSE, noReport |-> FALSE, ttl |-> FALSE]

AllConfs == (KeyOrder[1] :> {Plain, Persist, Invalid}) @@ (KeyOrder[2] :> {Plain, NoReport})

Scenario(names, number, data, fairly) ==
  [calls |-> names, ops |-> number, items |-> data, fair |-> fairly]

\* Configs come and go; reports are kept and fetched; files are announced; the
\* process or the system server dies with data in memory.
AllScenarios ==
  {Scenario({"addConfiguration", "removeConfiguration", "informOnePackageRemoved",
          "cmd_remove_all_configs", "Restart"}, 3, 0, FALSE),
   Scenario({"getData", "DumpForAdb", "WriteDataToDisk"}, 4, 2, FALSE),
   Scenario({"setDataFetchOperation", "ReceiverGone", "getData", "WriteDataToDisk", "Restart"}, 4, 1, TRUE),
   Scenario({"addConfiguration", "removeConfiguration", "statsCompanionServiceDied",
          "WriteDataToDisk", "Restart"}, 3, 1, FALSE)}

TwoAdds == {Scenario({"addConfiguration"}, 2, 0, FALSE)}

FirstSaved == KeyOrder[1] :> Persist
NothingSaved == << >>

\* Experiment ids: none, several of one event, and one of another experiment.
ThreeLists == {<< >>, <<10, 500>>, <<20>>}

\* At most one kind of operation on the database fails during a call.
SingleFailures == {{}} \union {{op} : op \in Operations}

-----------------------------------------------------------------------------
allVars == <<part, vars, trainVars, restrictedVars, receiverVars>>

SuiteInit ==
  /\ part \in {"store", "train", "restricted", "receivers"}
  /\ Init /\ (part # "store" => scenario.fair)
  /\ TrainInit /\ RestrictedInit /\ ReceiversInit
  /\ part # "restricted" => rconf = "none"

InStore(A) == part = "store" /\ A /\ UNCHANGED <<part, trainVars, restrictedVars, receiverVars>>
StoreStep == InStore(Next)
TrainStep == part = "train" /\ TrainNext /\ UNCHANGED <<part, vars, restrictedVars, receiverVars>>
RestrictedStep == part = "restricted" /\ RestrictedNext /\ UNCHANGED <<part, vars, trainVars, receiverVars>>
ReceiversStep == part = "receivers" /\ ReceiversNext /\ UNCHANGED <<part, vars, trainVars, restrictedVars>>

SuiteSpec ==
  /\ SuiteInit /\ [][StoreStep \/ TrainStep \/ RestrictedStep \/ ReceiversStep]_allVars
  /\ WF_allVars(InStore(scenario.fair /\ OnLogEvent))
  /\ WF_allVars(InStore(scenario.fair /\ Tick))
=============================================================================
