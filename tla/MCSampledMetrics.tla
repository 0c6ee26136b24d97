-------------------------- MODULE MCSampledMetrics --------------------------
(***************************************************************************)
(* One run for the metrics that keep what atoms carry: values and sketches *)
(* (ValueMetric), samples of atoms (GaugeMetric) and whole events          *)
(* (EventMetric).  Of values and gauges it has the kinds of metrics that   *)
(* meet the interesting code paths, each with its limits and with how long *)
(* it is explored.  The parts share no state: a behaviour is one of the    *)
(* part chosen at the start.                                               *)
(***************************************************************************)
EXTENDS ValueMetric, GaugeMetric, EventMetric

VARIABLE part

Kind(dimensions, hardLimit, maxTime, maxUnits, options) ==
  [o \in {"pulled", "diff", "zeroBase", "sliced", "kll", "alert", "condition", "activation",
          "absoluteOnReset", "keepMaxDimensionBucket", "dropOnLimit", "late", "unreliable", "large",
          "restarts"}
     |-> o \in options] @@ [dimensions |-> dimensions, hardLimit |-> hardLimit, maxTime |-> maxTime,
            maxUnits |-> maxUnits]

MCKinds == {
  \* differences of pulled counters: failing pulls, a condition, states, guardrails
  Kind(1, 2, 3, 2, {"pulled", "diff", "condition", "unreliable"}),
  Kind(2, 2, 3, 2, {"pulled", "diff", "sliced", "keepMaxDimensionBucket"}),
  Kind(1, 2, 4, 2, {"pulled", "diff", "sliced", "late", "condition"}),
  Kind(2, 1, 4, 2, {"pulled", "diff", "alert", "zeroBase", "keepMaxDimensionBucket", "dropOnLimit"}),
  Kind(1, 1, 4, 2, {"pulled", "diff", "restarts", "absoluteOnReset"}),
  \* pulled values as they are
  Kind(1, 1, 4, 2, {"pulled", "activation"}),
  \* pushed events, summed and sketched
  Kind(1, 2, 5, 3, {"alert", "large"}),
  Kind(1, 3, 4, 2, {"sliced", "activation", "late", "alert"}),
  Kind(1, 2, 4, 2, {"kll", "condition", "late"}) }

GaugeKind(sampling, dimensions, hardLimit, atomLimit, maxTime, options) ==
  [o \in {"pulled", "trigger", "condition", "sliced", "activation", "alert", "late", "large"}
     |-> o \in options] @@ [sampling |-> sampling, dimensions |-> dimensions,
     hardLimit |-> hardLimit, atomLimit |-> atomLimit, maxTime |-> maxTime]
\* Gauges that are pulled, at random or at a trigger, and pushed ones.
MCGauges == {
  GaugeKind("RANDOM_ONE_SAMPLE", 2, 1, 2, 4, {"pulled", "condition", "late"}),
  GaugeKind("RANDOM_ONE_SAMPLE", 1, 2, 2, 5, {"pulled", "alert"}),
  GaugeKind("FIRST_N_SAMPLES", 1, 1, 2, 7, {"alert", "late", "activation"}),
  GaugeKind("FIRST_N_SAMPLES", 2, 2, 1, 4, {"pulled", "trigger", "sliced"}),
  GaugeKind("CONDITION_CHANGE_TO_TRUE", 1, 1, 2, 4, {"pulled", "condition", "large"}) }

-----------------------------------------------------------------------------
allVars == <<part, vars, gaugeVars, eventVars>>

\* The parts that are not explored rest in one state.
SuiteInit ==
  /\ part \in {"value", "gauge", "event"} /\ Init /\ GaugeInit /\ EventInit
  /\ part # "value" => metric.kll
  /\ part # "gauge" => ~gauge.pulled
  /\ part # "event" => ~e.sliced /\ ~e.mIsActive

ValueStep == part = "value" /\ Next /\ UNCHANGED <<part, gaugeVars, eventVars>>
GaugeStep == part = "gauge" /\ GaugeNext /\ UNCHANGED <<part, vars, eventVars>>
EventStep == part = "event" /\ EventNext /\ UNCHANGED <<part, vars, gaugeVars>>

SuiteSpec == SuiteInit /\ [][ValueStep \/ GaugeStep \/ EventStep]_allVars

-----------------------------------------------------------------------------
\* What a metric cannot report shows in its report: failed and late pulls of
\* values, samples of buckets that were too small.
LossShown == LossIsMarked /\ SampleLossMarked

\* Samples of atoms are those of their bucket, within the limits, and alerts hear of
\* a value or sample at most once, in its own full bucket, and of the last part of
\* that bucket for gauges.
SamplesTold == SamplesSound /\ AlertsToldOnce /\ GaugeAlertsToldOnce /\ GaugeAlertsToldLatest
=============================================================================
