------------------------ MODULE MCActivationBroadcast ------------------------
\* Two uids with a config, a metric and an activation each, activated by different events.
EXTENDS ActivationBroadcast

MC_metricOf == [a \in Acts |-> a]
MC_configOf == [m \in Metrics |-> m]
MC_uidOf == [c \in Configs |-> c]
MC_on == [a \in Acts |-> a]
MC_off == [a \in Acts |-> NoMatcher]
MC_ttl_ns == [a \in Acts |-> IF a = "p" THEN 1 ELSE 2]
=============================================================================
