------------------------------ MODULE MCClients ------------------------------
(***************************************************************************)
(* One run for what clients ask of statsd: configs that they add and       *)
(* update (ConfigUpdate, over the pool MainPool below), callbacks for      *)
(* pulls that their library registers (ClientPull) and subscriptions that  *)
(* get atoms as they come (ShellSubscription); and for the two tables that *)
(* the configs share: the apps that the system server tells of (UidMap)    *)
(* and the states that metrics listen for (StateTracker).  They share no   *)
(* state: a behaviour is one of the part chosen at the start.              *)
(***************************************************************************)
EXTENDS ConfigUpdate, ClientPull, ShellSubscription, UidMap, StateTracker

CONSTANT Parts   \* of "config", "pull", "shell", "uids" and "states"

VARIABLE part

-----------------------------------------------------------------------------
(* A pool of configs: one with a valid metric of every type, and configs   *)
(* that differ from it in one node, one order or one reference, lack a     *)
(* node that others name, or exceed a limit.                               *)

Simple(id, atom, fvm) ==
    [id |-> id, kind |-> "simple", atom |-> atom, fvm |-> fvm, op |-> None, child |-> <<>>]
Comb(id, op, child) ==
    [id |-> id, kind |-> "comb", atom |-> None, fvm |-> <<>>, op |-> op, child |-> child]
Pred(id, start, stop, stopAll, dims) ==
    [id |-> id, kind |-> "simple", start |-> start, stop |-> stop, stopAll |-> stopAll,
     op |-> None, child |-> <<>>, dims |-> dims]
CombPred(id, op, child) ==
    [id |-> id, kind |-> "comb", start |-> None, stop |-> None, stopAll |-> None,
     op |-> op, child |-> child, dims |-> {}]
Metric(id, type, what) ==
    [id |-> id, type |-> type, what |-> what, cond |-> None, links |-> <<>>,
     states |-> <<>>, stateLinks |-> <<>>, uidAny |-> FALSE, dims |-> {},
     threshold |-> None, sampled |-> None, agg |-> "sum", filterOk |-> TRUE,
     sampling |-> 100, value |-> <<[agg |-> "sum", all |-> FALSE, bins |-> None]>>,
     direction |-> None, trigger |-> None, sampleType |-> "random_one", pullProb |-> 100]
Fvm(pos, val, replace) == [pos |-> pos, val |-> val, replace |-> replace, child |-> <<>>]

M1 == Simple("m1", 1, <<>>)
M2 == Simple("m2", 2, <<>>)
M3 == Comb("m3", "or", <<"m1", "m2">>)
M4 == Simple("m4", 10, <<>>)
M5 == Simple("m5", 5, <<>>)
P1 == Pred("p1", "m1", "m2", "m5", {"uid"})
P2 == CombPred("p2", "not", <<"p1">>)
P3 == Pred("p3", "m4", None, None, {"uid"})
C1 == [Metric("c1", "count", "m1") EXCEPT !.cond = "p2", !.states = <<1, 2>>]
D1 == [Metric("d1", "duration", "p1") EXCEPT
          !.cond = "p3", !.links = <<[cond |-> "p3", fields |-> {"uid"}]>>, !.dims = {"uid"}]
E1 == Metric("e1", "event", "m3")
V1 == [Metric("v1", "value", "m4") EXCEPT !.cond = "p1"]
K1 == [Metric("k1", "kll", "m2") EXCEPT
          !.cond = "p1", !.links = <<[cond |-> "p2", fields |-> {"uid"}]>>]
G1 == [Metric("g1", "gauge", "m4") EXCEPT !.trigger = "m1", !.sampleType = "first_n"]
Act(m, d) == [metric |-> "c1", event |-> <<[matcher |-> m, deact |-> d]>>]
A1 == [id |-> "a1", metric |-> "c1", threshold |-> 1, buckets |-> 1]
State(id, atom, group) == [id |-> id, atom |-> atom, group |-> group]

Base ==
    [matcher |-> <<M1, M2, M3, M4, M5>>, predicate |-> <<P1, P2, P3>>,
     state |-> <<State(1, 20, 0), State(2, 21, 0)>>,
     metric |-> <<C1, D1, E1, V1, K1, G1>>,
     activation |-> <<Act("m2", "m4")>>, noReport |-> <<"v1">>,
     alert |-> <<A1>>, alarm |-> <<[id |-> "t1", offset |-> 1, period |-> 1]>>,
     subscription |-> <<[id |-> "s1", type |-> "alert", rule |-> "a1", info |-> TRUE],
                        [id |-> "s2", type |-> "alarm", rule |-> "t1", info |-> TRUE]>>,
     anyUid |-> {}, delegate |-> None, certSize |-> 8, sources |-> 1, pullPackages |-> 0,
     pullUnknown |-> FALSE]

\* The states of c1 in the order that set_intersection does not expect.
Unsorted == [Base EXCEPT !.metric[1].states = <<2, 1>>]

Restricted(delegate, ms) ==
    [Base EXCEPT !.delegate = delegate, !.metric = ms, !.activation = <<>>, !.noReport = <<>>,
                 !.alert = <<>>, !.subscription = <<>>]

\* Those that any of three updates may bring.
SmallPool == {
    Base,
    [Base EXCEPT !.matcher = <<M5, M4, M1, M2, M3>>],
    [Base EXCEPT !.matcher[5] = Simple("m5", 6, <<>>)],
    \* A matcher of the unchanged p1 is removed, twice there, or removed with others.
    [Base EXCEPT !.matcher = <<M1, M2, M3, M4>>],
    [Base EXCEPT !.matcher = <<M5, M1, M2, M3, M4, M5>>],
    [Base EXCEPT !.matcher = <<M1, M4, M5>>],
    [Base EXCEPT !.predicate[1] = Pred("p1", "m2", "m1", "m5", {"uid"})],
    Unsorted, [Unsorted EXCEPT !.state[1] = State(1, 20, 1)],
    [Base EXCEPT !.activation = <<Act("m1", None)>>],
    [Base EXCEPT !.certSize = 256],
    Restricted("pkg", <<E1>>), Restricted("pkg2", <<E1>>), Restricted("pkg2", <<C1>>)}

MainPool == SmallPool \cup {
    [Base EXCEPT !.matcher[1] = Simple("m1", 3, <<>>)],
    [Base EXCEPT !.matcher[2] = Simple("m2", 2, <<Fvm("first", "string", TRUE)>>)],
    [Base EXCEPT !.matcher[2] = Simple("m2", 2, <<Fvm("all", "int", FALSE)>>)],
    [Base EXCEPT !.matcher[3] = Comb("m3", "or", <<"m2", "m1">>)],
    [Base EXCEPT !.matcher[3] = Comb("m3", "or", <<"m1", "m3">>)],
    [Base EXCEPT !.matcher = <<M1, M2, M4, M5>>],
    [Base EXCEPT !.matcher = <<M1, M2, M3, M4, M5, M4>>],
    [Base EXCEPT !.matcher[4] = Simple("m4", 11, <<>>)],
    [Base EXCEPT !.predicate = <<P2, P3, P1>>, !.metric = <<E1, D1, C1, G1, V1>>],
    [Base EXCEPT !.predicate[1] = Pred("p1", "m1", "m2", None, {})],
    [Base EXCEPT !.predicate[2] = CombPred("p2", "and", <<"p1", "p1">>)],
    [Base EXCEPT !.predicate[2] = CombPred("p2", "not", <<"p9">>)],
    [Base EXCEPT !.predicate = <<P1, P3>>],
    [Base EXCEPT !.state[2] = State(2, 21, 1)],
    [Base EXCEPT !.state = <<State(1, 20, 0)>>],
    [Base EXCEPT !.metric[1].dims = {"uid"}],
    [Base EXCEPT !.metric[2].links = <<>>],
    [Base EXCEPT !.metric[6].sampling = 50],
    [Base EXCEPT !.metric = <<C1, D1, G1>>, !.noReport = <<>>],
    [Base EXCEPT !.metric = <<D1, E1, V1, K1>>],
    [Base EXCEPT !.activation = <<>>],
    [Base EXCEPT !.activation = <<Act("m1", None), Act("m2", None)>>],
    [Base EXCEPT !.alert[1].buckets = 2],
    [Base EXCEPT !.alert = <<[A1 EXCEPT !.id = "a0", !.metric = "d1"], A1>>],
    [Base EXCEPT !.alert[1].threshold = None],
    [Base EXCEPT !.alarm[1].period = 0],
    [Base EXCEPT !.subscription[1].info = FALSE],
    [Base EXCEPT !.sources = 3],
    [Base EXCEPT !.metric = Append(@, [E1 EXCEPT !.id = "e2"])],
    [Base EXCEPT !.predicate = Append(@, [P1 EXCEPT !.id = "p4"])],
    [Base EXCEPT !.matcher = Append(@, [M5 EXCEPT !.id = "m6"])],
    [Base EXCEPT !.alert = <<A1, [A1 EXCEPT !.id = "a2"], [A1 EXCEPT !.id = "a3"]>>],
    Restricted("pkg", <<E1, [E1 EXCEPT !.id = "e2"]>>),
    Restricted("pkg", <<E1, C1>>)}

-----------------------------------------------------------------------------
\* One subscription over a pipe and two with a callback, of which one pulls.
MCSubscriptions ==
  [f |-> [pipe |-> TRUE, atoms |-> {"a"}, pulls |-> FALSE, interval |-> 0, timeout |-> 2],
   c |-> [pipe |-> FALSE, atoms |-> {"a", "b"}, pulls |-> TRUE, interval |-> 1, timeout |-> 0],
   d |-> [pipe |-> FALSE, atoms |-> {"b"}, pulls |-> FALSE, interval |-> 0, timeout |-> 0]]

\* A system app and another one, whose uid in the SDK sandbox a report may use.
MCApps == {[uid |-> 1, package |-> "p"], [uid |-> 12, package |-> "q"]}

ReportOf(omit, used, allowed) ==
  [omitSystemUids |-> omit, omitUnusedUids |-> omit, usedUids |-> used, allowlistedPackages |-> allowed]

MCOptions == {ReportOf(FALSE, {}, {}), ReportOf(TRUE, {22}, {})}

\* What is left out of a report: system apps, unless allowed, and unused other apps.
ASSUME \A a \in MCApps, omit \in BOOLEAN, used \in SUBSET {1, 12, 22, 32}, allowed \in SUBSET {"p", "q"} :
  omitUid(a, ReportOf(omit, used, allowed)) <=>
    omit /\ a.package \notin allowed /\ (a.uid = 12 => used \subseteq {1})

\* getMinimumTimestampNs as its loop goes over the configs 1, 2 and 3.
LoopMin(m, t) == IF m = 0 \/ t < m THEN t ELSE m
ASSUME \A last \in [1..3 -> -1..2] :
  getMinimumTimestampNs(last) = LoopMin(LoopMin(LoopMin(0, last[1]), last[2]), last[3])

-----------------------------------------------------------------------------
allVars == <<part, vars, clientVars, subVars, uidVars, stateVars>>

\* The parts that are not explored rest in one state.
SuiteInit ==
  /\ part \in Parts /\ Init /\ ClientInit /\ SubInit /\ UidInit /\ StateInit
  /\ part # "pull" => service.up /\ service.waits

InConfig(A) == part = "config" /\ A /\ UNCHANGED <<part, clientVars, subVars, uidVars, stateVars>>
InPull(A) == part = "pull" /\ A /\ UNCHANGED <<part, vars, subVars, uidVars, stateVars>>
InShell(A) == part = "shell" /\ A /\ UNCHANGED <<part, vars, clientVars, uidVars, stateVars>>
InUids(A) == part = "uids" /\ A /\ UNCHANGED <<part, vars, clientVars, subVars, stateVars>>
InStates(A) == part = "states" /\ A /\ UNCHANGED <<part, vars, clientVars, subVars, uidVars>>

SuiteNext ==
  \/ InConfig(Next)
  \/ InPull(ClientNext)
  \/ InShell(SubNext)
  \/ InUids(UidNext)
  \/ InStates(StateNext)

SuiteSpec == SuiteInit /\ [][SuiteNext]_allVars
=============================================================================
