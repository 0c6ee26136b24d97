-------------------------- MODULE MCDurationMetric --------------------------
(***************************************************************************)
(* One run for duration metrics and for the conditions that start and stop *)
(* them.  Of DurationMetric it has one metric of each kind of condition,   *)
(* aggregation and alert; of Conditions one config of each operation, with *)
(* and without nesting, and of the initial values.  The metric has its own *)
(* simple view of a condition, so the parts share no state: a behaviour is *)
(* one of the part chosen at the start.                                    *)
(***************************************************************************)
EXTENDS DurationMetric, Conditions

VARIABLE part

TwoKeys == {<<"w1", "k1">>, <<"w1", "k2">>}
TwoWhats == {<<"w1", "k1">>, <<"w2", "k1">>}
ThreeKeys == TwoKeys \cup TwoWhats

Metric(agg, nested, sliced, alert) ==
  [agg |-> agg, nested |-> nested, sliced |-> sliced, condition |-> TRUE, activation |-> FALSE,
   alert |-> alert, states |-> FALSE, limit |-> 3, keys |-> TwoKeys,
   initial |-> {}]

SumAlert == [Metric("SUM", TRUE, "no", TRUE) EXCEPT !.initial = {<<"w1", "k1">>}]
SumStates == [Metric("SUM", FALSE, "no", FALSE) EXCEPT !.states = TRUE, !.activation = TRUE,
                                                     !.condition = FALSE]
SumQuery == [Metric("SUM", TRUE, "query", TRUE) EXCEPT !.activation = TRUE]
SumLimit == [Metric("SUM", TRUE, "query", FALSE) EXCEPT !.limit = 1, !.keys = ThreeKeys]
SumLinked == [Metric("SUM", FALSE, "opt1", FALSE) EXCEPT !.keys = TwoWhats]
SumCombined == [Metric("SUM", TRUE, "opt1comb", FALSE) EXCEPT !.keys = TwoWhats]
MaxAlert == [Metric("MAX", TRUE, "no", TRUE) EXCEPT !.activation = TRUE]
MaxQuery == Metric("MAX", FALSE, "query", FALSE)

AllConfs == {SumAlert, SumStates, SumQuery, SumLimit, SumLinked, SumCombined, MaxAlert, MaxQuery}

CondKind(nesting, p, q, operation, children) ==
  [nesting |-> nesting, pInitial |-> p, qInitial |-> q, operation |-> operation, children |-> children]
Both == <<"p", "q">>
MCCondKinds ==
  {CondKind(nesting, kUnknown, kFalse, operation, Both) :
     nesting \in BOOLEAN, operation \in {"AND", "OR", "NAND", "NOR"}}
  \union {CondKind(TRUE, p, kUnknown, "AND", Both) : p \in {kUnknown, kFalse}}
  \union {CondKind(TRUE, kUnknown, kFalse, "NOT", children) : children \in {<<"p">>, <<"q">>}}

-----------------------------------------------------------------------------
allVars == <<part, vars, condVars>>

\* The part that is not explored rests in one state.
SuiteInit ==
  /\ part \in {"duration", "conditions"} /\ Init /\ CondInit
  /\ part = "duration" => condKind.children = <<"p">>
  /\ part = "conditions" => conf = SumAlert

DurationStep == part = "duration" /\ Next /\ UNCHANGED <<part, condVars>>
ConditionStep == part = "conditions" /\ CondNext /\ UNCHANGED <<part, vars>>

SuiteSpec == SuiteInit /\ [][DurationStep \/ ConditionStep]_allVars
=============================================================================
