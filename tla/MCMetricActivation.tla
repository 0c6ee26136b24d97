------------------------- MODULE MCMetricActivation -------------------------
\* One metric with an immediate activation, "now", and one for the next boot, "boot".
\* Matcher A activates "now" and deactivates "boot", B activates "boot", X deactivates
\* "now": an event that matches several of them does both in the order of the code.
EXTENDS MetricActivation

MC_metricOf == [a \in Acts |-> "m"]
MC_configOf == [m \in Metrics |-> "c"]
MC_on == [a \in Acts |-> IF a = "boot" THEN "B" ELSE "A"]
MC_off == [a \in Acts |-> IF a = "boot" THEN "A" ELSE "X"]
MC_ttl_ns == [a \in Acts |-> 1]
=============================================================================
