------------------------ MODULE MetricActivationProofs ------------------------
(***************************************************************************)
(* The active flags of metrics and configs agree with the activations, for *)
(* every number of activations, metrics and configs, every ttl and every   *)
(* configuration of matchers; and no activation outlives the time to live  *)
(* it was granted, across saves, restarts and restores.                    *)
(***************************************************************************)
EXTENDS MetricActivation, TLAPS

States == {"kNotActive", "kActive", "kActiveOnBoot"}

\* A table with its type.
TypedTable(t) ==
    /\ t = [state |-> t.state, start_ns |-> t.start_ns, metric |-> t.metric, config |-> t.config]
    /\ t.state \in [Acts -> States]
    /\ t.metric \in [Metrics -> BOOLEAN]
    /\ t.config \in [Configs -> BOOLEAN]

\* What ActiveByActivation says of the variables, said of a table; likewise for configs.
MetricFlags(t) == \A m \in Metrics : t.metric[m] <=> \E a \in ActsOf(m) : t.state[a] = "kActive"
ConfigFlags(t) ==
    \A c \in Configs : t.config[c] <=> c \in AlwaysActive \/ \E m \in MetricsOf(c) : t.metric[m]

GoodTable(t) == TypedTable(t) /\ MetricFlags(t) /\ ConfigFlags(t)

\* Saved activations exist, and those not saved as active are activations for the boot.
SavedOK(saved) ==
    /\ DOMAIN saved \subseteq Acts
    /\ \A a \in DOMAIN saved : saved[a].state # "ACTIVE" => a \in ActivateOnBoot

\* A snapshot that would turn an activation back to kActiveOnBoot belongs to a life of
\* statsd in which that activation is not active.
SnapshotOK ==
    /\ death = [stage |-> death.stage, at |-> death.at, saved |-> death.saved,
                armed |-> death.armed]
    /\ SavedOK(death.saved)
    /\ \A a \in DOMAIN death.saved : death.saved[a].state # "ACTIVE" => state[a] # "kActive"
    /\ ~up => death = Idle

OnlyBootArmed == \A a \in Acts : state[a] = "kActiveOnBoot" => a \in ActivateOnBoot

FlagsInv ==
    /\ GoodTable(CurrentTable)
    /\ OnlyBootArmed
    /\ file = None \/ SavedOK(file)
    /\ SnapshotOK
-----------------------------------------------------------------------------
\* A fresh table is good.
LEMMA FreshGood == GoodTable(FreshTable)
<1>1. /\ FreshTable.state = [a \in Acts |-> "kNotActive"]
      /\ FreshTable.start_ns = [a \in Acts |-> 0]
      /\ FreshTable.metric = [m \in Metrics |-> FALSE]
      /\ FreshTable.config = [c \in Configs |-> c \in AlwaysActive]
  BY DEF FreshTable
<1>2. TypedTable(FreshTable)
  <2>1. FreshTable.config \in [Configs -> BOOLEAN] /\ FreshTable.metric \in [Metrics -> BOOLEAN]
    BY <1>1
  <2>2. FreshTable.state \in [Acts -> States]
    BY <1>1 DEF States
  <2>3. FreshTable = [state |-> FreshTable.state, start_ns |-> FreshTable.start_ns,
                      metric |-> FreshTable.metric, config |-> FreshTable.config]
    BY <1>1 DEF FreshTable
  <2> QED BY <2>1, <2>2, <2>3 DEF TypedTable
<1>3. MetricFlags(FreshTable)
  BY <1>1 DEF MetricFlags, ActsOf
<1>4. ConfigFlags(FreshTable)
  BY <1>1 DEF ConfigFlags, MetricsOf
<1> QED BY <1>2, <1>3, <1>4 DEF GoodTable

\* flushIfExpire keeps the metrics' flags right if those of the metrics it is not asked to
\* flush are, and those of the others are not set too little.
LEMMA FlushMetricFlags ==
    ASSUME NEW t, NEW ms \in SUBSET Metrics, NEW timeNs, TypedTable(t),
           \A m \in Metrics : ~t.metric[m] => \A a \in ActsOf(m) : t.state[a] # "kActive",
           \A m \in Metrics \ ms : t.metric[m] => \E a \in ActsOf(m) : t.state[a] = "kActive"
    PROVE  /\ TypedTable(FlushIfExpire(t, ms, timeNs))
           /\ MetricFlags(FlushIfExpire(t, ms, timeNs))
           /\ \A a \in Acts : FlushIfExpire(t, ms, timeNs).state[a] \in {t.state[a], "kNotActive"}
<1> DEFINE flushed == {m \in ms : t.metric[m]}
           ns == [a \in Acts |->
                    IF /\ metricOf[a] \in flushed
                       /\ t.state[a] = "kActive"
                       /\ timeNs > ttl_ns[a] + t.start_ns[a]
                    THEN "kNotActive" ELSE t.state[a]]
           nm == [m \in Metrics |-> IF m \in flushed
                    THEN \E a \in ActsOf(m) : ns[a] = "kActive" ELSE t.metric[m]]
           r == FlushIfExpire(t, ms, timeNs)
<1>1. r = [state |-> ns, start_ns |-> t.start_ns, metric |-> nm, config |-> t.config]
  BY DEF FlushIfExpire
<1>2. ns \in [Acts -> States] /\ nm \in [Metrics -> BOOLEAN]
  BY DEF TypedTable, States
<1>7. \A a \in Acts : ns[a] \in {t.state[a], "kNotActive"}
  OBVIOUS
<1> HIDE DEF ns, nm, r, flushed
<1>3. r.state = ns /\ r.metric = nm /\ r.config = t.config /\ r.start_ns = t.start_ns
  BY <1>1
<1>4. TypedTable(r)
  BY <1>1, <1>2, <1>3 DEF TypedTable
<1>5. ASSUME NEW m \in Metrics PROVE nm[m] <=> \E a \in ActsOf(m) : ns[a] = "kActive"
  <2>1. CASE m \in flushed
    BY <2>1 DEF nm
  <2>2. CASE m \notin flushed
    <3>1. \A a \in ActsOf(m) : a \in Acts /\ ns[a] = t.state[a]
      BY <2>2 DEF ActsOf, ns
    <3>2. nm[m] = t.metric[m]
      BY <2>2 DEF nm
    <3>3. t.metric[m] \in BOOLEAN
      BY DEF TypedTable
    <3>4. t.metric[m] <=> \E a \in ActsOf(m) : t.state[a] = "kActive"
      <4>1. t.metric[m] => m \notin ms
        BY <2>2 DEF flushed
      <4> QED BY <4>1, <3>3
    <3> QED BY <3>1, <3>2, <3>4
  <2> QED BY <2>1, <2>2
<1>6. MetricFlags(r)
  BY <1>3, <1>5 DEF MetricFlags
<1> QED BY <1>3, <1>4, <1>6, <1>7 DEF r

\* After cancellations the flags are still right where nothing was cancelled, and never
\* unset with an activation left.
LEMMA CancelFlags ==
    ASSUME NEW t, NEW matched, TypedTable(t), MetricFlags(t)
    PROVE  LET r == CancelEventActivations(t, matched)
               ms == {metricOf[a] : a \in {b \in Acts : off[b] \in matched}}
           IN /\ TypedTable(r)
              /\ \A m \in Metrics : ~r.metric[m] => \A a \in ActsOf(m) : r.state[a] # "kActive"
              /\ \A m \in Metrics \ ms : r.metric[m] => \E a \in ActsOf(m) : r.state[a] = "kActive"
              /\ r.config = t.config
              /\ \A a \in Acts : r.state[a] \in {t.state[a], "kNotActive"}
<1> DEFINE r == CancelEventActivations(t, matched)
           ms == {metricOf[a] : a \in {b \in Acts : off[b] \in matched}}
           ns == [a \in Acts |-> IF off[a] \in matched THEN "kNotActive" ELSE t.state[a]]
<1>1. r = [state |-> ns, start_ns |-> t.start_ns, metric |-> t.metric, config |-> t.config]
  BY DEF CancelEventActivations
<1>2. r.state = ns /\ r.metric = t.metric /\ r.config = t.config /\ r.start_ns = t.start_ns
  BY <1>1
<1>3. ns \in [Acts -> States]
  BY DEF TypedTable, States
<1>4. \A m \in Metrics : ~t.metric[m] => \A a \in ActsOf(m) : ns[a] # "kActive"
  BY DEF MetricFlags, ActsOf
<1>5. \A m \in Metrics \ ms : t.metric[m] => \E a \in ActsOf(m) : ns[a] = "kActive"
  <2> SUFFICES ASSUME NEW m \in Metrics \ ms, t.metric[m]
               PROVE  \E a \in ActsOf(m) : ns[a] = "kActive"
    OBVIOUS
  <2>1. PICK a \in ActsOf(m) : t.state[a] = "kActive"
    BY DEF MetricFlags
  <2>2. a \in Acts /\ off[a] \notin matched
    BY DEF ActsOf
  <2> QED BY <2>1, <2>2
<1>6. \A a \in Acts : ns[a] \in {t.state[a], "kNotActive"}
  OBVIOUS
<1> HIDE DEF ns, r, ms
<1>7. TypedTable(r)
  BY <1>1, <1>2, <1>3 DEF TypedTable
<1> QED BY <1>2, <1>4, <1>5, <1>6, <1>7 DEF r, ms

\* Activations keep the metrics' flags right, unset none, and set only those they name.
LEMMA ActivateFlags ==
    ASSUME NEW t, NEW matched, NEW timeNs, TypedTable(t), MetricFlags(t)
    PROVE  LET r == Activate(t, matched, timeNs)
               ms == {metricOf[a] : a \in {b \in Acts : on[b] \in matched}}
           IN /\ TypedTable(r)
              /\ MetricFlags(r)
              /\ \A m \in Metrics : t.metric[m] => r.metric[m]
              /\ \A m \in Metrics : r.metric[m] => t.metric[m] \/ m \in ms
              /\ \A a \in Acts : r.state[a] = "kActiveOnBoot" /\ t.state[a] # "kActiveOnBoot"
                                    => a \in ActivateOnBoot
              /\ \A a \in ActivateOnBoot : r.state[a] = "kActive" => t.state[a] = "kActive"
<1> DEFINE r == Activate(t, matched, timeNs)
           hit == {a \in Acts : on[a] \in matched}
           immediate == hit \ ActivateOnBoot
           ms == {metricOf[a] : a \in {b \in Acts : on[b] \in matched}}
           ns == [a \in Acts |->
                    CASE a \in immediate -> "kActive"
                      [] a \in hit \cap ActivateOnBoot /\ t.state[a] = "kNotActive" -> "kActiveOnBoot"
                      [] OTHER -> t.state[a]]
           st == [a \in Acts |-> IF a \in immediate THEN timeNs ELSE t.start_ns[a]]
           nm == [m \in Metrics |-> t.metric[m] \/ \E a \in immediate : metricOf[a] = m]
<1>1. r = [state |-> ns, start_ns |-> st, metric |-> nm, config |-> t.config]
  BY DEF Activate
<1>2. \A a \in Acts : /\ a \in immediate => ns[a] = "kActive"
                      /\ a \notin immediate =>
                            \/ ns[a] = t.state[a]
                            \/ /\ a \in ActivateOnBoot /\ t.state[a] = "kNotActive"
                               /\ ns[a] = "kActiveOnBoot"
  OBVIOUS
<1>3. ns \in [Acts -> States]
  <2>1. \A a \in Acts : ns[a] \in States
    BY <1>2 DEF TypedTable, States
  <2> QED BY <2>1
<1>4. nm \in [Metrics -> BOOLEAN]
  OBVIOUS
<1>5. immediate \subseteq Acts /\ \A a \in immediate : metricOf[a] \in ms /\ a \notin ActivateOnBoot
  OBVIOUS
<1>6. \A m \in Metrics : nm[m] <=> t.metric[m] \/ \E a \in immediate : metricOf[a] = m
  OBVIOUS
<1> HIDE DEF ns, nm, r, ms, immediate, hit, st
<1>7. r.state = ns /\ r.metric = nm /\ r.config = t.config /\ r.start_ns = st
  BY <1>1
<1>8. TypedTable(r)
  BY <1>1, <1>7, <1>3, <1>4 DEF TypedTable
<1>9. ASSUME NEW m \in Metrics PROVE nm[m] <=> \E a \in ActsOf(m) : ns[a] = "kActive"
  <2>1. ASSUME nm[m] PROVE \E a \in ActsOf(m) : ns[a] = "kActive"
    <3>1. CASE t.metric[m]
      <4>1. PICK a \in ActsOf(m) : t.state[a] = "kActive"
        BY <3>1 DEF MetricFlags
      <4> QED BY <4>1, <1>2 DEF ActsOf
    <3>2. CASE \E a \in immediate : metricOf[a] = m
      BY <3>2, <1>2, <1>5 DEF ActsOf
    <3> QED BY <2>1, <3>1, <3>2, <1>6
  <2>2. ASSUME NEW a \in ActsOf(m), ns[a] = "kActive" PROVE nm[m]
    <3>1. a \in Acts /\ metricOf[a] = m
      BY DEF ActsOf
    <3>2. CASE a \in immediate
      BY <3>1, <3>2, <1>6
    <3>3. CASE a \notin immediate
      <4>1. t.state[a] = "kActive"
        BY <2>2, <3>1, <3>3, <1>2
      <4> QED BY <4>1, <1>6 DEF MetricFlags
    <3> QED BY <3>2, <3>3
  <2> QED BY <2>1, <2>2
<1>10. MetricFlags(r)
  BY <1>7, <1>9 DEF MetricFlags
<1>11. \A a \in Acts : ns[a] = "kActiveOnBoot" /\ t.state[a] # "kActiveOnBoot"
                           => a \in ActivateOnBoot
  BY <1>2
<1>12. \A a \in ActivateOnBoot : ns[a] = "kActive" => t.state[a] = "kActive"
  BY <1>2, <1>5, ActivationAssumption
<1>13. \A m \in Metrics : nm[m] => t.metric[m] \/ m \in ms
  BY <1>5, <1>6
<1>14. \A m \in Metrics : t.metric[m] => nm[m]
  BY <1>6
<1> QED BY <1>7, <1>8, <1>10, <1>11, <1>12, <1>13, <1>14 DEF r, ms

\* MetricsManager::onLogEvent keeps a good table good; activations for the boot become
\* active in none of its steps, and only they are armed.
LEMMA EventGood ==
    ASSUME NEW matched, NEW timeNs, GoodTable(CurrentTable), OnlyBootArmed
    PROVE  LET r == EventTable(matched, timeNs)
           IN /\ GoodTable(r)
              /\ \A a \in Acts : r.state[a] = "kActiveOnBoot" => a \in ActivateOnBoot
              /\ \A a \in ActivateOnBoot : r.state[a] = "kActive" => state[a] = "kActive"
<1> DEFINE t == CurrentTable
           offMs == {metricOf[a] : a \in {b \in Acts : off[b] \in matched}}
           onMs == {metricOf[a] : a \in {b \in Acts : on[b] \in matched}}
           expired == FlushIfExpire(t, Metrics, timeNs)
           cut == CancelEventActivations(expired, matched)
           cancelled == FlushIfExpire(cut, offMs, timeNs)
           activated == Activate(cancelled, matched, timeNs)
           nc == [c \in Configs |->
                    \/ c \in AlwaysActive
                    \/ \E m \in MetricsOf(c) : cancelled.metric[m]
                    \/ \E m \in MetricsOf(c) \cap onMs : activated.metric[m]]
           r == EventTable(matched, timeNs)
<1>1. r = [state |-> activated.state, start_ns |-> activated.start_ns,
           metric |-> activated.metric, config |-> nc]
  BY DEF EventTable
<1>2. nc \in [Configs -> BOOLEAN]
  OBVIOUS
<1>3. \A c \in Configs : nc[c] <=>
          \/ c \in AlwaysActive
          \/ \E m \in MetricsOf(c) : cancelled.metric[m]
          \/ \E m \in MetricsOf(c) \cap onMs : activated.metric[m]
  OBVIOUS
<1>4. offMs \in SUBSET Metrics
  BY ActivationAssumption
<1>5. t.state = state
  BY DEF CurrentTable
<1> HIDE DEF t
<1>6. TypedTable(t) /\ MetricFlags(t)
  BY DEF GoodTable, t
<1>7. /\ TypedTable(expired) /\ MetricFlags(expired)
      /\ \A a \in Acts : expired.state[a] \in {t.state[a], "kNotActive"}
  <2>1. Metrics \in SUBSET Metrics
    OBVIOUS
  <2>2. \A m \in Metrics : ~t.metric[m] => \A a \in ActsOf(m) : t.state[a] # "kActive"
    BY <1>6 DEF MetricFlags
  <2>3. \A m \in Metrics \ Metrics : t.metric[m] => \E a \in ActsOf(m) : t.state[a] = "kActive"
    OBVIOUS
  <2> QED BY <1>6, <2>1, <2>2, <2>3, FlushMetricFlags
<1> HIDE DEF expired
<1>8. /\ TypedTable(cut)
      /\ \A m \in Metrics : ~cut.metric[m] => \A a \in ActsOf(m) : cut.state[a] # "kActive"
      /\ \A m \in Metrics \ offMs : cut.metric[m] => \E a \in ActsOf(m) : cut.state[a] = "kActive"
      /\ \A a \in Acts : cut.state[a] \in {expired.state[a], "kNotActive"}
  BY <1>7, CancelFlags
<1> HIDE DEF cut
<1>9. /\ TypedTable(cancelled) /\ MetricFlags(cancelled)
      /\ \A a \in Acts : cancelled.state[a] \in {cut.state[a], "kNotActive"}
  BY <1>4, <1>8, FlushMetricFlags
<1> HIDE DEF cancelled, offMs
<1>10. /\ TypedTable(activated) /\ MetricFlags(activated)
       /\ \A m \in Metrics : cancelled.metric[m] => activated.metric[m]
       /\ \A m \in Metrics : activated.metric[m] => cancelled.metric[m] \/ m \in onMs
       /\ \A a \in Acts : activated.state[a] = "kActiveOnBoot" /\ cancelled.state[a] # "kActiveOnBoot"
                             => a \in ActivateOnBoot
       /\ \A a \in ActivateOnBoot : activated.state[a] = "kActive" => cancelled.state[a] = "kActive"
  BY <1>9, ActivateFlags
<1> HIDE DEF activated, onMs, nc, r
<1>11. r.state = activated.state /\ r.metric = activated.metric /\ r.config = nc
       /\ r.start_ns = activated.start_ns
  BY <1>1
<1>12. TypedTable(r)
  BY <1>1, <1>2, <1>10, <1>11 DEF TypedTable
<1>13. MetricFlags(r)
  BY <1>10, <1>11 DEF MetricFlags
<1>14. ConfigFlags(r)
  <2> SUFFICES ASSUME NEW c \in Configs
               PROVE  nc[c] <=> c \in AlwaysActive \/ \E m \in MetricsOf(c) : activated.metric[m]
    BY <1>11 DEF ConfigFlags
  <2>1. \A m \in MetricsOf(c) : m \in Metrics
    BY DEF MetricsOf
  <2> QED BY <2>1, <1>3, <1>10
<1>15. \A a \in Acts : cancelled.state[a] \in {state[a], "kNotActive"}
  BY <1>5, <1>7, <1>8, <1>9
<1>16. \A a \in Acts : activated.state[a] = "kActiveOnBoot" => a \in ActivateOnBoot
  BY <1>10, <1>15 DEF OnlyBootArmed
<1>17. \A a \in ActivateOnBoot : activated.state[a] = "kActive" => state[a] = "kActive"
  BY <1>10, <1>15, ActivationAssumption
<1> QED BY <1>11, <1>12, <1>13, <1>14, <1>16, <1>17 DEF GoodTable, r

\* Loading saved activations keeps a good table good if it disarms none that is active.
LEMMA LoadGood ==
    ASSUME NEW t, NEW saved, NEW timeNs, GoodTable(t), SavedOK(saved),
           \A a \in DOMAIN saved : saved[a].state # "ACTIVE" => t.state[a] # "kActive",
           \A a \in Acts : t.state[a] = "kActiveOnBoot" => a \in ActivateOnBoot
    PROVE  LET r == LoadActiveConfigs(t, saved, timeNs)
           IN /\ GoodTable(r)
              /\ \A a \in Acts : r.state[a] = "kActiveOnBoot" => a \in ActivateOnBoot
<1> DEFINE active == {a \in DOMAIN saved : saved[a].state = "ACTIVE"}
           nm == [m \in Metrics |-> t.metric[m] \/ \E a \in active : metricOf[a] = m]
           ns == [a \in Acts |-> CASE a \in active -> "kActive"
                                   [] a \in DOMAIN saved \ active -> "kActiveOnBoot"
                                   [] OTHER -> t.state[a]]
           st == [a \in Acts |->
                    IF a \in active THEN timeNs + saved[a].remaining - ttl_ns[a]
                                    ELSE t.start_ns[a]]
           nc == [c \in Configs |-> t.config[c] \/ \E m \in MetricsOf(c) : nm[m]]
           r == LoadActiveConfigs(t, saved, timeNs)
<1>1. r = [state |-> ns, start_ns |-> st, metric |-> nm, config |-> nc]
  BY DEF LoadActiveConfigs
<1>2. nm \in [Metrics -> BOOLEAN] /\ nc \in [Configs -> BOOLEAN]
  OBVIOUS
<1>3. /\ active \subseteq Acts
      /\ \A a \in Acts : /\ a \in active => ns[a] = "kActive"
                         /\ a \notin active =>
                              \/ ns[a] = t.state[a]
                              \/ /\ ns[a] = "kActiveOnBoot" /\ t.state[a] # "kActive"
                                 /\ a \in ActivateOnBoot
  BY DEF SavedOK
<1>4. \A m \in Metrics : nm[m] <=> t.metric[m] \/ \E a \in active : metricOf[a] = m
  OBVIOUS
<1>5. \A c \in Configs : nc[c] <=> t.config[c] \/ \E m \in MetricsOf(c) : nm[m]
  OBVIOUS
<1>6. ns \in [Acts -> States]
  <2>1. \A a \in Acts : ns[a] \in States
    BY <1>3 DEF GoodTable, TypedTable, States
  <2> QED BY <2>1
<1> HIDE DEF ns, nm, nc, st, active, r
<1>7. r.state = ns /\ r.metric = nm /\ r.config = nc /\ r.start_ns = st
  BY <1>1
<1>8. TypedTable(r)
  BY <1>1, <1>2, <1>6, <1>7 DEF TypedTable
<1>9. ASSUME NEW m \in Metrics PROVE nm[m] <=> \E a \in ActsOf(m) : ns[a] = "kActive"
  <2>1. ASSUME nm[m] PROVE \E a \in ActsOf(m) : ns[a] = "kActive"
    <3>1. CASE t.metric[m]
      <4>1. PICK a \in ActsOf(m) : t.state[a] = "kActive"
        BY <3>1 DEF GoodTable, MetricFlags
      <4> QED BY <4>1, <1>3 DEF ActsOf
    <3>2. CASE \E a \in active : metricOf[a] = m
      BY <3>2, <1>3 DEF ActsOf
    <3> QED BY <2>1, <3>1, <3>2, <1>4
  <2>2. ASSUME NEW a \in ActsOf(m), ns[a] = "kActive" PROVE nm[m]
    <3>1. a \in Acts /\ metricOf[a] = m
      BY DEF ActsOf
    <3>2. CASE a \in active
      BY <3>1, <3>2, <1>4
    <3>3. CASE a \notin active
      <4>1. t.state[a] = "kActive"
        BY <2>2, <3>1, <3>3, <1>3
      <4> QED BY <4>1, <1>4 DEF GoodTable, MetricFlags
    <3> QED BY <3>2, <3>3
  <2> QED BY <2>1, <2>2
<1>10. MetricFlags(r)
  BY <1>7, <1>9 DEF MetricFlags
<1>11. ConfigFlags(r)
  <2> SUFFICES ASSUME NEW c \in Configs
               PROVE  nc[c] <=> c \in AlwaysActive \/ \E m \in MetricsOf(c) : nm[m]
    BY <1>7 DEF ConfigFlags
  <2>1. t.config[c] <=> c \in AlwaysActive \/ \E m \in MetricsOf(c) : t.metric[m]
    BY DEF GoodTable, ConfigFlags
  <2>2. \A m \in MetricsOf(c) : m \in Metrics
    BY DEF MetricsOf
  <2> QED BY <2>1, <2>2, <1>4, <1>5
<1>12. \A a \in Acts : ns[a] = "kActiveOnBoot" => a \in ActivateOnBoot
  BY <1>3
<1> QED BY <1>7, <1>8, <1>10, <1>11, <1>12 DEF GoodTable, r

\* What is written names activations, and saves as not active only armed ones.
LEMMA WriteOK ==
    ASSUME NEW timeNs, NEW reason, state \in [Acts -> States], OnlyBootArmed
    PROVE  LET w == WriteActiveConfigs(timeNs, reason)
           IN /\ SavedOK(w)
              /\ \A a \in DOMAIN w : w[a].state # "ACTIVE" => state[a] # "kActive"
<1> DEFINE kept == {a \in Acts : /\ state[a] # "kNotActive"
                                 /\ ~(state[a] = "kActive" /\ Deadline(a) < timeNs)}
           w == WriteActiveConfigs(timeNs, reason)
<1>1. DOMAIN w = kept
  BY DEF WriteActiveConfigs
<1>2. \A a \in kept : state[a] = "kActive" => w[a].state = "ACTIVE"
  BY DEF WriteActiveConfigs
<1> HIDE DEF w
<1>3. \A a \in kept : state[a] # "kActive" => a \in ActivateOnBoot
  BY DEF States, OnlyBootArmed
<1> QED BY <1>1, <1>2, <1>3 DEF w, SavedOK

\* Storing a good table makes the variables good.
LEMMA SetGood ==
    ASSUME NEW t, SetTable(t), GoodTable(t)
    PROVE  /\ GoodTable(CurrentTable)'
           /\ state' = t.state
<1>1. /\ state' = t.state /\ metricActive' = t.metric /\ configActive' = t.config
  BY DEF SetTable
<1>2. /\ CurrentTable'.state = t.state /\ CurrentTable'.metric = t.metric
      /\ CurrentTable'.config = t.config
  BY <1>1 DEF CurrentTable
<1>3. TypedTable(CurrentTable)'
  BY <1>1 DEF CurrentTable, GoodTable, TypedTable
<1>4. MetricFlags(CurrentTable)'
  BY <1>2 DEF GoodTable, MetricFlags, ActsOf
<1>5. ConfigFlags(CurrentTable)'
  BY <1>2 DEF GoodTable, ConfigFlags, MetricsOf
<1> QED BY <1>1, <1>3, <1>4, <1>5 DEF GoodTable

\* A step that leaves the tables alone leaves them good.
LEMMA SameGood ==
    ASSUME GoodTable(CurrentTable), UNCHANGED table
    PROVE  GoodTable(CurrentTable)' /\ state' = state
<1>1. CurrentTable' = CurrentTable /\ state' = state
  BY DEF table, CurrentTable
<1> QED BY <1>1 DEF GoodTable, TypedTable, MetricFlags, ConfigFlags, ActsOf, MetricsOf

\* The reset of some configs keeps a good table good and activates nothing.
LEMMA ResetGood ==
    ASSUME NEW unread, GoodTable(CurrentTable), ResetConfigs(unread)
    PROVE  /\ GoodTable(CurrentTable)'
           /\ \A a \in Acts : state'[a] \in {state[a], "kNotActive"}
<1> DEFINE ns == [a \in Acts |-> IF ActConfig(a) \in unread THEN state[a] ELSE FreshTable.state[a]]
           st == [a \in Acts |-> IF ActConfig(a) \in unread
                                 THEN start_ns[a] ELSE FreshTable.start_ns[a]]
           nm == [m \in Metrics |-> configOf[m] \in unread /\ metricActive[m]]
           nc == [c \in Configs |-> IF c \in unread THEN configActive[c] ELSE FreshTable.config[c]]
           r == [state |-> ns, start_ns |-> st, metric |-> nm, config |-> nc]
<1>1. /\ CurrentTable.state = state /\ CurrentTable.metric = metricActive
      /\ CurrentTable.config = configActive
  BY DEF CurrentTable
<1>2. /\ state \in [Acts -> States] /\ metricActive \in [Metrics -> BOOLEAN]
      /\ configActive \in [Configs -> BOOLEAN]
  BY <1>1 DEF GoodTable, TypedTable
<1>3. \A a \in Acts : ns[a] = IF ActConfig(a) \in unread THEN state[a] ELSE "kNotActive"
  BY DEF FreshTable
<1>4. \A c \in Configs : /\ c \in unread => nc[c] = configActive[c]
                         /\ c \notin unread => (nc[c] <=> c \in AlwaysActive)
  <2>1. \A c \in Configs : FreshTable.config[c] <=> c \in AlwaysActive
    BY DEF FreshTable
  <2> QED BY <2>1
<1>5. \A m \in Metrics : nm[m] <=> configOf[m] \in unread /\ metricActive[m]
  OBVIOUS
<1>6. SetTable(r)
  BY DEF ResetConfigs
<1>7. nm \in [Metrics -> BOOLEAN]
  OBVIOUS
<1>8. nc \in [Configs -> BOOLEAN]
  <2>1. FreshTable.config \in [Configs -> BOOLEAN]
    BY FreshGood DEF GoodTable, TypedTable
  <2> QED BY <1>2, <2>1
<1>9. ns \in [Acts -> States]
  BY <1>2 DEF FreshTable, States
<1>10. r.state = ns /\ r.metric = nm /\ r.config = nc /\ r.start_ns = st
  OBVIOUS
<1>11. r = [state |-> r.state, start_ns |-> r.start_ns, metric |-> r.metric, config |-> r.config]
  OBVIOUS
<1> HIDE DEF ns, nm, nc, st, r
<1>12. TypedTable(r)
  BY <1>7, <1>8, <1>9, <1>10, <1>11 DEF TypedTable
<1>13. MetricFlags(r)
  <2> SUFFICES ASSUME NEW m \in Metrics
               PROVE  nm[m] <=> \E a \in ActsOf(m) : ns[a] = "kActive"
    BY <1>10 DEF MetricFlags
  <2>1. metricActive[m] <=> \E a \in ActsOf(m) : state[a] = "kActive"
    BY <1>1 DEF GoodTable, MetricFlags
  <2>2. \A a \in ActsOf(m) : a \in Acts /\ ActConfig(a) = configOf[m]
    BY DEF ActsOf, ActConfig
  <2>3. CASE configOf[m] \in unread
    BY <2>1, <2>2, <2>3, <1>3, <1>5
  <2>4. CASE configOf[m] \notin unread
    BY <2>2, <2>4, <1>3, <1>5
  <2> QED BY <2>3, <2>4
<1>14. ConfigFlags(r)
  <2> SUFFICES ASSUME NEW c \in Configs
               PROVE  nc[c] <=> c \in AlwaysActive \/ \E m \in MetricsOf(c) : nm[m]
    BY <1>10 DEF ConfigFlags
  <2>1. configActive[c] <=> c \in AlwaysActive \/ \E m \in MetricsOf(c) : metricActive[m]
    BY <1>1 DEF GoodTable, ConfigFlags
  <2>2. \A m \in MetricsOf(c) : m \in Metrics /\ configOf[m] = c
    BY DEF MetricsOf
  <2>3. CASE c \in unread
    BY <2>1, <2>2, <2>3, <1>4, <1>5
  <2>4. CASE c \notin unread
    BY <2>2, <2>4, <1>4, <1>5
  <2> QED BY <2>3, <2>4
<1>15. GoodTable(r)
  BY <1>12, <1>13, <1>14 DEF GoodTable
<1>16. GoodTable(CurrentTable)' /\ state' = r.state
  BY <1>6, <1>15, SetGood
<1> QED BY <1>3, <1>10, <1>16
-----------------------------------------------------------------------------
\* The invariant holds initially.
LEMMA FlagsInit == Init => FlagsInv
<1> SUFFICES ASSUME Init PROVE FlagsInv
  OBVIOUS
<1>1. CurrentTable = FreshTable
  BY DEF Init, CurrentTable, FreshTable
<1>2. GoodTable(CurrentTable)
  BY <1>1, FreshGood
<1>3. OnlyBootArmed
  BY DEF Init, FreshTable, OnlyBootArmed
<1>4. SnapshotOK
  BY DEF Init, Idle, SnapshotOK, SavedOK
<1> QED BY <1>2, <1>3, <1>4 DEF FlagsInv, Init

\* The snapshot's part of the invariant, for steps that leave the snapshot alone and make
\* no activation for the boot active.
LEMMA SnapshotKept ==
    ASSUME SnapshotOK, death' = death, ~up' => ~up,
           \A a \in ActivateOnBoot : state'[a] = "kActive" => state[a] = "kActive"
    PROVE  SnapshotOK'
  BY DEF SnapshotOK, SavedOK, Idle

\* Every step keeps the invariant.
LEMMA FlagsStep == FlagsInv /\ [Next]_vars => FlagsInv'
<1> SUFFICES ASSUME FlagsInv, [Next]_vars PROVE FlagsInv'
  OBVIOUS
<1>1. /\ GoodTable(CurrentTable) /\ OnlyBootArmed /\ SnapshotOK
      /\ file = None \/ SavedOK(file)
  BY DEF FlagsInv
<1>2. state \in [Acts -> States]
  BY <1>1 DEF GoodTable, TypedTable, CurrentTable
<1>3. ASSUME UNCHANGED table, file' = file \/ file' = None \/ SavedOK(file'), SnapshotOK'
      PROVE  FlagsInv'
  <2>1. GoodTable(CurrentTable)' /\ state' = state
    BY <1>1, <1>3, SameGood
  <2>2. OnlyBootArmed'
    BY <1>1, <2>1 DEF OnlyBootArmed
  <2>3. (file = None \/ SavedOK(file))'
    BY <1>1, <1>3 DEF SavedOK
  <2> QED BY <1>3, <2>1, <2>2, <2>3 DEF FlagsInv
<1>4. ASSUME UNCHANGED <<table, death>>, ~up' => ~up PROVE SnapshotOK'
  <2>1. state' = state /\ death' = death
    BY <1>4 DEF table
  <2> QED BY <1>1, <1>4, <2>1, SnapshotKept
<1>5. ASSUME NEW matched, NEW timeNs, OnLogEvent(matched, timeNs) PROVE FlagsInv'
  <2> DEFINE r == EventTable(matched, timeNs)
  <2>1. /\ GoodTable(r)
        /\ \A a \in Acts : r.state[a] = "kActiveOnBoot" => a \in ActivateOnBoot
        /\ \A a \in ActivateOnBoot : r.state[a] = "kActive" => state[a] = "kActive"
    BY <1>1, EventGood
  <2>2. SetTable(r) /\ up' = up /\ file' = file /\ death' = death
    BY <1>5 DEF OnLogEvent
  <2> HIDE DEF r
  <2>3. GoodTable(CurrentTable)' /\ state' = r.state
    BY <2>1, <2>2, SetGood
  <2>4. OnlyBootArmed'
    BY <2>1, <2>3 DEF OnlyBootArmed
  <2>5. SnapshotOK'
    BY <1>1, <2>1, <2>2, <2>3, SnapshotKept
  <2>6. (file = None \/ SavedOK(file))'
    BY <1>1, <2>2 DEF SavedOK
  <2> QED BY <2>3, <2>4, <2>5, <2>6 DEF FlagsInv
<1>6. CASE Tick
  BY <1>3, <1>4, <1>6 DEF Tick
<1>7. CASE BeginSave
  BY <1>3, <1>4, <1>7 DEF BeginSave
<1>8. ASSUME NEW written, SaveActiveConfigsToDisk(written) PROVE FlagsInv'
  <2>1. SavedOK(WriteActiveConfigs(saving, "DEVICE_SHUTDOWN"))
    BY <1>1, <1>2, WriteOK
  <2>2. UNCHANGED <<table, death>> /\ up' = up
    BY <1>8 DEF SaveActiveConfigsToDisk
  <2>3. file' = file \/ file' = None \/ file' = WriteActiveConfigs(saving, "DEVICE_SHUTDOWN")
    BY <1>8 DEF SaveActiveConfigsToDisk
  <2>4. file' = file \/ file' = None \/ SavedOK(file')
    BY <2>1, <2>3
  <2> QED BY <1>3, <1>4, <2>2, <2>4
<1>9. CASE CompanionDied
  <2>1. /\ death' = [stage |-> "died", at |-> now, saved |-> [a \in {} |-> None], armed |-> {}]
        /\ UNCHANGED <<table, file>> /\ up /\ up' = up
    BY <1>9 DEF CompanionDied, Idle
  <2>2. SnapshotOK'
    BY <2>1 DEF SnapshotOK, SavedOK
  <2> QED BY <1>3, <2>1, <2>2
<1>10. CASE WriteActiveConfigsToProto
  <2> DEFINE w == WriteActiveConfigs(death.at, "STATSCOMPANION_DIED")
  <2>1. SavedOK(w) /\ \A a \in DOMAIN w : w[a].state # "ACTIVE" => state[a] # "kActive"
    BY <1>1, <1>2, WriteOK
  <2>2. /\ death' = [death EXCEPT !.stage = "written", !.armed = armed, !.saved = w]
        /\ UNCHANGED <<table, file>> /\ up /\ up' = up
    BY <1>10 DEF WriteActiveConfigsToProto
  <2> HIDE DEF w
  <2>3. death' = [stage |-> "written", at |-> death.at, saved |-> w, armed |-> armed]
    BY <1>1, <2>2 DEF SnapshotOK
  <2>4. state' = state
    BY <2>2 DEF table
  <2>5. SnapshotOK'
    BY <2>1, <2>2, <2>3, <2>4 DEF SnapshotOK, SavedOK
  <2> QED BY <1>3, <2>2, <2>5
<1>11. ASSUME NEW unread, ResetConfigs(unread) PROVE FlagsInv'
  <2>1. /\ GoodTable(CurrentTable)'
        /\ \A a \in Acts : state'[a] \in {state[a], "kNotActive"}
    BY <1>1, <1>11, ResetGood
  <2>2. death' = [death EXCEPT !.stage = "reset"] /\ up /\ up' = up /\ file' = file
    BY <1>11 DEF ResetConfigs
  <2>3. death' = [stage |-> "reset", at |-> death.at, saved |-> death.saved, armed |-> death.armed]
    BY <1>1, <2>2 DEF SnapshotOK
  <2>4. OnlyBootArmed'
    BY <1>1, <2>1 DEF OnlyBootArmed
  <2>5. SnapshotOK'
    BY <1>1, <2>1, <2>2, <2>3 DEF SnapshotOK, SavedOK
  <2>6. (file = None \/ SavedOK(file))'
    BY <1>1, <2>2 DEF SavedOK
  <2> QED BY <2>1, <2>4, <2>5, <2>6 DEF FlagsInv
<1>12. CASE SetConfigsActiveState
  <2> DEFINE r == LoadActiveConfigs(CurrentTable, death.saved, death.at)
  <2>1. CurrentTable.state = state
    BY DEF CurrentTable
  <2>2. /\ GoodTable(r)
        /\ \A a \in Acts : r.state[a] = "kActiveOnBoot" => a \in ActivateOnBoot
    BY <1>1, <2>1, LoadGood DEF SnapshotOK, OnlyBootArmed
  <2>3. SetTable(r) /\ death' = Idle /\ file' = file
    BY <1>12 DEF SetConfigsActiveState
  <2> HIDE DEF r
  <2>4. GoodTable(CurrentTable)' /\ state' = r.state
    BY <2>2, <2>3, SetGood
  <2>5. OnlyBootArmed'
    BY <2>2, <2>4 DEF OnlyBootArmed
  <2>6. SnapshotOK'
    BY <2>3 DEF SnapshotOK, SavedOK, Idle
  <2>7. (file = None \/ SavedOK(file))'
    BY <1>1, <2>3 DEF SavedOK
  <2> QED BY <2>4, <2>5, <2>6, <2>7 DEF FlagsInv
<1>13. CASE Exit
  <2>1. SetTable(FreshTable) /\ death' = Idle /\ file' = file
    BY <1>13 DEF Exit
  <2>2. GoodTable(CurrentTable)' /\ state' = FreshTable.state
    BY <2>1, FreshGood, SetGood
  <2>3. OnlyBootArmed'
    BY <2>2 DEF OnlyBootArmed, FreshTable
  <2>4. SnapshotOK'
    BY <2>1 DEF SnapshotOK, SavedOK, Idle
  <2>5. (file = None \/ SavedOK(file))'
    BY <1>1, <2>1 DEF SavedOK
  <2> QED BY <2>2, <2>3, <2>4, <2>5 DEF FlagsInv
<1>14. ASSUME NEW reboot, NEW delay, Startup(reboot, delay) PROVE FlagsInv'
  <2> DEFINE r == IF file = None THEN FreshTable
                  ELSE LoadActiveConfigs(FreshTable, file, now' - delay)
  <2>1. \A a \in Acts : FreshTable.state[a] = "kNotActive"
    BY DEF FreshTable
  <2>2. /\ GoodTable(r)
        /\ \A a \in Acts : r.state[a] = "kActiveOnBoot" => a \in ActivateOnBoot
    <3>1. CASE file = None
      BY <2>1, <3>1, FreshGood
    <3>2. CASE file # None
      <4>1. SavedOK(file)
        BY <1>1, <3>2
      <4>2. \A a \in DOMAIN file : file[a].state # "ACTIVE" => FreshTable.state[a] # "kActive"
        BY <2>1, <4>1 DEF SavedOK
      <4>3. \A a \in Acts : FreshTable.state[a] = "kActiveOnBoot" => a \in ActivateOnBoot
        BY <2>1
      <4>4. LET l == LoadActiveConfigs(FreshTable, file, now' - delay)
            IN /\ GoodTable(l)
               /\ \A a \in Acts : l.state[a] = "kActiveOnBoot" => a \in ActivateOnBoot
        BY <4>1, <4>2, <4>3, FreshGood, LoadGood
      <4> QED BY <3>2, <4>4
    <3> QED BY <3>1, <3>2
  <2>3. SetTable(r) /\ death' = death /\ file' = None /\ ~up
    BY <1>14 DEF Startup
  <2> HIDE DEF r
  <2>4. GoodTable(CurrentTable)' /\ state' = r.state
    BY <2>2, <2>3, SetGood
  <2>5. OnlyBootArmed'
    BY <2>2, <2>4 DEF OnlyBootArmed
  <2>6. SnapshotOK'
    <3>1. death' = Idle
      BY <1>1, <2>3 DEF SnapshotOK
    <3> QED BY <3>1 DEF SnapshotOK, SavedOK, Idle
  <2> QED BY <2>3, <2>4, <2>5, <2>6 DEF FlagsInv
<1>15. CASE UNCHANGED vars
  BY <1>3, <1>4, <1>15 DEF vars
<1> QED
  BY <1>5, <1>6, <1>7, <1>8, <1>9, <1>10, <1>11, <1>12, <1>13, <1>14, <1>15
     DEF Next, EventStep, OtherStep

\* MetricProducer::mIsActive is true exactly while some activation of the metric is kActive,
\* for every configuration of activations, ttls and matchers, through events, saves,
\* restarts, reboots and deaths of the companion service.
THEOREM MetricsActive == Spec => []ActiveByActivation
<1>1. FlagsInv => ActiveByActivation
  BY DEF FlagsInv, GoodTable, MetricFlags, CurrentTable, ActiveByActivation
<1> QED BY <1>1, FlagsInit, FlagsStep, PTL DEF Spec

\* MetricsManager::mIsActive is true exactly when a metric of the config is active or needs
\* no activation, in the same generality.
THEOREM ConfigsActive == Spec => []ConfigActiveByMetric
<1>1. FlagsInv => ConfigActiveByMetric
  BY DEF FlagsInv, GoodTable, ConfigFlags, CurrentTable, ConfigActiveByMetric
<1> QED BY <1>1, FlagsInit, FlagsStep, PTL DEF Spec
-----------------------------------------------------------------------------
(* Time to live.  An activation that is active, saved in the file or in the  *)
(* snapshot of a companion's death has an account: the time it was active    *)
(* since its grant and the time that is left to it.                          *)

ClocksInv ==
    /\ up \in BOOLEAN /\ now \in Nat /\ lastWrite \in Nat /\ restarts \in Nat /\ deaths \in Nat
    /\ saving \in Nat \cup {None} /\ shutdown \in Nat \cup {None} /\ gap \in Nat
    /\ shutdown # None => shutdown <= now
    /\ saving # None => shutdown # None /\ shutdown <= saving /\ saving <= now
    /\ ~up => saving = None /\ shutdown = None
    /\ file # None /\ up => shutdown # None
    /\ death.stage \in {"idle", "died", "written", "reset"}
    /\ death.stage # "idle" => death.at \in Nat /\ death.at <= now

\* Activation a may be active for left more, after what it spent.
Within(a, left) == spent[a] <= ttl_ns[a] + gap /\ spent[a] + left <= ttl_ns[a] + gap

AccountsInv ==
    /\ start_ns \in [Acts -> Int] /\ spent \in [Acts -> Nat]
    /\ \A a \in Acts : state[a] = "kActive" => Within(a, Deadline(a) - now)
    /\ \A a \in Acts : state[a] = "kActiveOnBoot" => spent[a] = 0

\* What this life of statsd will add to the gap if it ends now.
Late == IF up THEN now - shutdown ELSE 0

FileInv ==
    file # None => \A a \in DOMAIN file :
        /\ file[a].state = "ACTIVE" /\ file[a].remaining \in Nat
        /\ spent[a] + file[a].remaining <= ttl_ns[a] + gap + Late

SnapshotInv ==
    \A a \in DOMAIN death.saved :
        /\ death.saved[a].state = "ACTIVE" =>
             /\ death.at \in Nat /\ death.saved[a].remaining \in Nat
             /\ Within(a, death.at + death.saved[a].remaining - now)
             /\ a \in death.armed => death.at + death.saved[a].remaining < now
        /\ death.saved[a].state # "ACTIVE" => spent[a] = 0

ArmedInv ==
    /\ armed \subseteq ActivateOnBoot
    /\ ~up => armed = {}
    /\ \A a \in armed : state[a] = "kActive" => Deadline(a) < now

GrantInv == ClocksInv /\ AccountsInv /\ FileInv /\ SnapshotInv /\ ArmedInv

\* An event starts just the activations that it matches, and arms none that it does not.
LEMMA EventStarts ==
    ASSUME NEW matched, NEW timeNs, GoodTable(CurrentTable), NEW a \in Acts
    PROVE  LET r == EventTable(matched, timeNs)
               starts == on[a] \in matched /\ a \notin ActivateOnBoot
           IN /\ starts => r.state[a] = "kActive" /\ r.start_ns[a] = timeNs
              /\ ~starts /\ r.state[a] = "kActive" => state[a] = "kActive" /\ r.start_ns[a] = start_ns[a]
              /\ r.state[a] = "kActiveOnBoot" /\ state[a] # "kActiveOnBoot"
                   => on[a] \in matched
<1> DEFINE t == CurrentTable
           offMs == {metricOf[b] : b \in {b \in Acts : off[b] \in matched}}
           expired == FlushIfExpire(t, Metrics, timeNs)
           cut == CancelEventActivations(expired, matched)
           cancelled == FlushIfExpire(cut, offMs, timeNs)
           activated == Activate(cancelled, matched, timeNs)
<1>0. t.state = state /\ t.start_ns = start_ns
  BY DEF CurrentTable
<1> HIDE DEF t
<1>1. expired.state[a] \in {t.state[a], "kNotActive"} /\ expired.start_ns = t.start_ns
  BY DEF FlushIfExpire
<1> HIDE DEF expired
<1>2. cut.state[a] \in {expired.state[a], "kNotActive"} /\ cut.start_ns = expired.start_ns
  BY DEF CancelEventActivations
<1> HIDE DEF cut
<1>3. cancelled.state[a] \in {cut.state[a], "kNotActive"} /\ cancelled.start_ns = cut.start_ns
  BY DEF FlushIfExpire
<1> HIDE DEF cancelled, offMs
<1>4. /\ on[a] \in matched /\ a \notin ActivateOnBoot =>
            activated.state[a] = "kActive" /\ activated.start_ns[a] = timeNs
      /\ ~(on[a] \in matched /\ a \notin ActivateOnBoot) =>
            /\ activated.start_ns[a] = cancelled.start_ns[a]
            /\ \/ activated.state[a] = cancelled.state[a]
               \/ activated.state[a] = "kActiveOnBoot" /\ on[a] \in matched
  BY DEF Activate
<1>5. EventTable(matched, timeNs).state = activated.state
      /\ EventTable(matched, timeNs).start_ns = activated.start_ns
  BY DEF EventTable, cancelled, cut, expired, t, offMs
<1> HIDE DEF activated
<1> QED BY <1>0, <1>1, <1>2, <1>3, <1>4, <1>5

\* What loading does to one activation.
LEMMA LoadStarts ==
    ASSUME NEW t, NEW saved, NEW timeNs, NEW a \in Acts
    PROVE  LET r == LoadActiveConfigs(t, saved, timeNs)
           IN /\ a \in DOMAIN saved /\ saved[a].state = "ACTIVE" =>
                    /\ r.state[a] = "kActive"
                    /\ r.start_ns[a] = timeNs + saved[a].remaining - ttl_ns[a]
              /\ a \in DOMAIN saved /\ saved[a].state # "ACTIVE" => r.state[a] = "kActiveOnBoot"
              /\ a \notin DOMAIN saved => r.state[a] = t.state[a] /\ r.start_ns[a] = t.start_ns[a]
  BY DEF LoadActiveConfigs

\* What is written of one activation.
LEMMA WriteStarts ==
    ASSUME NEW timeNs, NEW reason, state \in [Acts -> States]
    PROVE  LET w == WriteActiveConfigs(timeNs, reason)
           IN /\ DOMAIN w \subseteq Acts
              /\ \A a \in DOMAIN w :
                   /\ state[a] = "kActive" =>
                        /\ w[a].state = "ACTIVE" /\ w[a].remaining = Deadline(a) - timeNs
                        /\ ~(Deadline(a) < timeNs)
                   /\ state[a] # "kActive" =>
                        /\ state[a] = "kActiveOnBoot"
                        /\ reason = "DEVICE_SHUTDOWN" => w[a].state = "ACTIVE" /\ w[a].remaining = ttl_ns[a]
                        /\ reason # "DEVICE_SHUTDOWN" => w[a].state = "ACTIVATE_ON_BOOT"
<1> DEFINE kept == {a \in Acts : /\ state[a] # "kNotActive"
                                 /\ ~(state[a] = "kActive" /\ Deadline(a) < timeNs)}
           w == WriteActiveConfigs(timeNs, reason)
<1>1. DOMAIN w = kept
  BY DEF WriteActiveConfigs
<1>2. \A a \in kept :
         /\ state[a] = "kActive" => w[a].state = "ACTIVE" /\ w[a].remaining = Deadline(a) - timeNs
         /\ state[a] # "kActive" =>
              /\ reason = "DEVICE_SHUTDOWN" => w[a].state = "ACTIVE" /\ w[a].remaining = ttl_ns[a]
              /\ reason # "DEVICE_SHUTDOWN" => w[a].state = "ACTIVATE_ON_BOOT"
  BY DEF WriteActiveConfigs
<1> HIDE DEF w
<1>3. \A a \in kept : /\ a \in Acts /\ state[a] \in {"kActive", "kActiveOnBoot"}
                      /\ state[a] = "kActive" => ~(Deadline(a) < timeNs)
  BY DEF States
<1> HIDE DEF kept
<1> QED BY <1>1, <1>2, <1>3 DEF w

\* No activation holds a grant initially.
LEMMA GrantInit == Init => GrantInv
<1> SUFFICES ASSUME Init PROVE GrantInv
  OBVIOUS
<1>1. \A a \in Acts : state[a] = "kNotActive" /\ start_ns[a] = 0 /\ spent[a] = 0
  BY DEF Init, FreshTable
<1>2. AccountsInv
  BY <1>1 DEF Init, FreshTable, AccountsInv
<1>3. ClocksInv
  BY DEF Init, ClocksInv, Idle
<1>4. SnapshotInv
  BY DEF Init, Idle, SnapshotInv
<1> QED BY <1>2, <1>3, <1>4 DEF Init, GrantInv, FileInv, ArmedInv

\* The facts about types that the steps need.
LEMMA GrantTypes ==
    ASSUME FlagsInv, GrantInv
    PROVE  /\ state \in [Acts -> States] /\ OnlyBootArmed
           /\ start_ns \in [Acts -> Int] /\ spent \in [Acts -> Nat]
           /\ ttl_ns \in [Acts -> Nat] /\ gap \in Nat /\ now \in Nat
           /\ DOMAIN death.saved \subseteq Acts
           /\ file # None => DOMAIN file \subseteq Acts
           /\ None \notin Int
<1>1. state \in [Acts -> States] /\ OnlyBootArmed
  BY DEF FlagsInv, GoodTable, TypedTable, CurrentTable
<1>2. DOMAIN death.saved \subseteq Acts /\ (file # None => DOMAIN file \subseteq Acts)
  BY DEF FlagsInv, SnapshotOK, SavedOK
<1> QED BY <1>1, <1>2, ActivationAssumption DEF GrantInv, AccountsInv, ClocksInv

\* A step after which the tables, the clocks and the accounts are as before.
LEMMA GrantSame ==
    ASSUME AccountsInv, ArmedInv, UNCHANGED <<up, now, table, spent, gap, armed>>
    PROVE  AccountsInv' /\ ArmedInv'
  BY DEF AccountsInv, ArmedInv, table, Within, Deadline

\* A log event starts an activation with a grant of one time to live.
LEMMA GrantEvent ==
    ASSUME FlagsInv, GrantInv, NEW matched, NEW timeNs \in Nat, timeNs <= now,
           OnLogEvent(matched, timeNs)
    PROVE  GrantInv'
<1> DEFINE r == EventTable(matched, timeNs)
           starts(a) == on[a] \in matched /\ a \notin ActivateOnBoot
<1>0. /\ state \in [Acts -> States] /\ start_ns \in [Acts -> Int] /\ spent \in [Acts -> Nat]
      /\ ttl_ns \in [Acts -> Nat] /\ gap \in Nat /\ now \in Nat /\ DOMAIN death.saved \subseteq Acts
      /\ file # None => DOMAIN file \subseteq Acts
  BY GrantTypes
<1>1. UNCHANGED <<up, now, file, lastWrite, saving, death, restarts, deaths, gap, shutdown>> /\ up
  BY DEF OnLogEvent
<1>2. /\ GoodTable(CurrentTable)
      /\ \A a \in ActivateOnBoot : r.state[a] = "kActive" => state[a] = "kActive"
  BY EventGood DEF FlagsInv
<1>3. state' = r.state
      /\ start_ns' = [a \in Acts |-> IF r.state[a] = "kActive" THEN r.start_ns[a] ELSE 0]
  BY DEF OnLogEvent, SetTable
<1>4. \A a \in Acts :
         /\ starts(a) => r.state[a] = "kActive" /\ r.start_ns[a] = timeNs
         /\ ~starts(a) /\ r.state[a] = "kActive" => state[a] = "kActive" /\ r.start_ns[a] = start_ns[a]
         /\ r.state[a] = "kActiveOnBoot" /\ state[a] # "kActiveOnBoot" => on[a] \in matched
  BY <1>2, EventStarts
<1> HIDE DEF r
<1>5. \A a \in Acts :
         /\ starts(a) => state'[a] = "kActive" /\ start_ns'[a] = timeNs
         /\ ~starts(a) /\ state'[a] = "kActive" => state[a] = "kActive" /\ start_ns'[a] = start_ns[a]
         /\ state'[a] = "kActiveOnBoot" /\ state[a] # "kActiveOnBoot" => on[a] \in matched
         /\ state'[a] # "kActive" => start_ns'[a] = 0
  BY <1>3, <1>4
<1>6. spent' = [a \in Acts |-> IF a \in Granted(matched) THEN 0 ELSE spent[a]]
  BY DEF OnLogEvent
<1>7. \A a \in Acts : /\ starts(a) => a \in Granted(matched)
                      /\ state'[a] = "kActiveOnBoot" /\ state[a] # "kActiveOnBoot" => a \in Granted(matched)
                      /\ a \in Granted(matched) /\ a \in ActivateOnBoot => state'[a] = "kActiveOnBoot"
  BY <1>5 DEF Granted
<1>8. spent' \in [Acts -> Nat] /\ \A a \in Acts : spent'[a] <= spent[a]
  BY <1>0, <1>6
<1>9. ClocksInv'
  BY <1>1 DEF GrantInv, ClocksInv
<1>10. AccountsInv'
  <2>1. start_ns' \in [Acts -> Int]
    <3>1. \A a \in Acts : start_ns'[a] \in Int
      BY <1>0, <1>5
    <3> QED BY <1>3, <3>1
  <2>2. ASSUME NEW a \in Acts, state'[a] = "kActive" PROVE Within(a, Deadline(a) - now)'
    <3>1. CASE starts(a)
      <4>1. spent'[a] = 0 /\ start_ns'[a] = timeNs
        BY <1>5, <1>6, <1>7, <3>1
      <4> QED BY <1>0, <1>1, <4>1 DEF Within, Deadline
    <3>2. CASE ~starts(a)
      <4>1. state[a] = "kActive" /\ start_ns'[a] = start_ns[a]
        BY <1>5, <2>2, <3>2
      <4>2. Within(a, Deadline(a) - now)
        BY <4>1 DEF GrantInv, AccountsInv
      <4> QED BY <1>0, <1>1, <1>8, <4>1, <4>2 DEF Within, Deadline
    <3> QED BY <3>1, <3>2
  <2>3. ASSUME NEW a \in Acts, state'[a] = "kActiveOnBoot" PROVE spent'[a] = 0
    <3>1. CASE state[a] = "kActiveOnBoot"
      BY <1>6, <3>1 DEF GrantInv, AccountsInv
    <3>2. CASE state[a] # "kActiveOnBoot"
      BY <1>6, <1>7, <2>3, <3>2
    <3> QED BY <3>1, <3>2
  <2> QED BY <1>8, <2>1, <2>2, <2>3 DEF AccountsInv
<1>11. FileInv'
  <2> SUFFICES ASSUME file # None, NEW a \in DOMAIN file
               PROVE  /\ file[a].state = "ACTIVE" /\ file[a].remaining \in Nat
                      /\ spent'[a] + file[a].remaining <= ttl_ns[a] + gap + Late
    BY <1>1 DEF FileInv, Late
  <2>1. /\ file[a].state = "ACTIVE" /\ file[a].remaining \in Nat
        /\ spent[a] + file[a].remaining <= ttl_ns[a] + gap + Late
    BY DEF GrantInv, FileInv
  <2>2. a \in Acts /\ Late \in Int
    BY <1>0, <1>1 DEF Late, GrantInv, ClocksInv
  <2> HIDE DEF Late
  <2> QED BY <1>0, <1>8, <2>1, <2>2
<1>12. SnapshotInv'
  <2> SUFFICES ASSUME NEW a \in DOMAIN death.saved
               PROVE  /\ death.saved[a].state = "ACTIVE" =>
                           /\ death.at \in Nat /\ death.saved[a].remaining \in Nat
                           /\ spent'[a] <= ttl_ns[a] + gap
                           /\ spent'[a] + (death.at + death.saved[a].remaining - now) <= ttl_ns[a] + gap
                           /\ a \in death.armed => death.at + death.saved[a].remaining < now
                      /\ death.saved[a].state # "ACTIVE" => spent'[a] = 0
    BY <1>1 DEF SnapshotInv, Within
  <2>1. a \in Acts /\ spent'[a] <= spent[a] /\ spent'[a] \in Nat /\ spent[a] \in Nat /\ ttl_ns[a] \in Nat
    BY <1>0, <1>8
  <2>2. CASE death.saved[a].state = "ACTIVE"
    <3>1. /\ death.at \in Nat /\ death.saved[a].remaining \in Nat
          /\ Within(a, death.at + death.saved[a].remaining - now)
          /\ a \in death.armed => death.at + death.saved[a].remaining < now
      BY <2>2 DEF GrantInv, SnapshotInv
    <3> QED BY <1>0, <2>1, <2>2, <3>1 DEF Within
  <2>3. CASE death.saved[a].state # "ACTIVE"
    <3>1. spent[a] = 0
      BY <2>3 DEF GrantInv, SnapshotInv
    <3> QED BY <2>1, <2>3, <3>1
  <2> QED BY <2>2, <2>3
<1>13. ArmedInv'
  <2>1. armed' = (armed \ {a \in Acts : off[a] \in matched}) \cup (Granted(matched) \cap ActivateOnBoot)
    BY DEF OnLogEvent
  <2>2. armed \subseteq ActivateOnBoot /\ ActivateOnBoot \subseteq Acts
    BY ActivationAssumption DEF GrantInv, ArmedInv
  <2>3. ASSUME NEW a \in armed', state'[a] = "kActive" PROVE Deadline(a)' < now
    <3>1. a \in Acts /\ a \in ActivateOnBoot
      BY <2>1, <2>2
    <3>2. a \notin Granted(matched)
      BY <1>7, <2>3, <3>1
    <3>3. a \in armed
      BY <2>1, <3>2
    <3>4. state[a] = "kActive" /\ start_ns'[a] = start_ns[a]
      BY <1>5, <2>3, <3>1
    <3>5. Deadline(a) < now
      BY <3>3, <3>4 DEF GrantInv, ArmedInv
    <3> QED BY <3>4, <3>5 DEF Deadline
  <2> QED BY <1>1, <2>1, <2>2, <2>3 DEF ArmedInv
<1> QED BY <1>9, <1>10, <1>11, <1>12, <1>13 DEF GrantInv

\* The clock spends what is left of the running grants.
LEMMA GrantTick ==
    ASSUME FlagsInv, GrantInv, Tick PROVE GrantInv'
<1>0. /\ state \in [Acts -> States] /\ start_ns \in [Acts -> Int] /\ spent \in [Acts -> Nat]
      /\ ttl_ns \in [Acts -> Nat] /\ gap \in Nat /\ now \in Nat /\ DOMAIN death.saved \subseteq Acts
      /\ file # None => DOMAIN file \subseteq Acts
  BY GrantTypes
<1>1. /\ UNCHANGED <<up, table, file, lastWrite, saving, death, restarts, deaths, gap, shutdown, armed>>
      /\ up /\ now' = now + 1
      /\ spent' = [a \in Acts |->
                     IF state[a] = "kActive" /\ now < Deadline(a) THEN spent[a] + 1 ELSE spent[a]]
  BY DEF Tick
<1>2. state' = state /\ start_ns' = start_ns
  BY <1>1 DEF table
<1>3. \A a \in Acts : Deadline(a)' = Deadline(a) /\ Deadline(a) \in Int
  BY <1>0, <1>2 DEF Deadline
<1>4. \A a \in Acts : /\ spent'[a] \in Nat /\ spent[a] <= spent'[a] /\ spent'[a] <= spent[a] + 1
                      /\ state[a] # "kActive" => spent'[a] = spent[a]
                      /\ ~(now < Deadline(a)) => spent'[a] = spent[a]
  BY <1>0, <1>1
<1>5. spent' \in [Acts -> Nat]
  BY <1>0, <1>1
<1>6. ClocksInv'
  BY <1>1 DEF GrantInv, ClocksInv
<1> HIDE DEF Deadline
<1>7. AccountsInv'
  <2>1. ASSUME NEW a \in Acts, state[a] = "kActive"
        PROVE  spent'[a] <= ttl_ns[a] + gap /\ spent'[a] + (Deadline(a) - (now + 1)) <= ttl_ns[a] + gap
    <3>1. spent[a] <= ttl_ns[a] + gap /\ spent[a] + (Deadline(a) - now) <= ttl_ns[a] + gap
      BY <2>1 DEF GrantInv, AccountsInv, Within
    <3> QED BY <1>0, <1>3, <1>4, <3>1
  <2>2. \A a \in Acts : state'[a] = "kActive" => Within(a, Deadline(a) - now)'
    BY <1>1, <1>2, <1>3, <2>1 DEF Within
  <2>3. \A a \in Acts : state'[a] = "kActiveOnBoot" => spent'[a] = 0
    BY <1>2, <1>4 DEF GrantInv, AccountsInv
  <2> QED BY <1>0, <1>2, <1>5, <2>2, <2>3 DEF AccountsInv
<1>8. FileInv'
  <2> SUFFICES ASSUME file # None, NEW a \in DOMAIN file
               PROVE  /\ file[a].state = "ACTIVE" /\ file[a].remaining \in Nat
                      /\ spent'[a] + file[a].remaining <= ttl_ns[a] + gap + Late'
    BY <1>1 DEF FileInv
  <2>1. /\ file[a].state = "ACTIVE" /\ file[a].remaining \in Nat
        /\ spent[a] + file[a].remaining <= ttl_ns[a] + gap + Late
    BY DEF GrantInv, FileInv
  <2>2. a \in Acts
    BY <1>0
  <2>3. shutdown \in Nat
    BY <1>1 DEF GrantInv, ClocksInv
  <2>4. Late = now - shutdown /\ Late' = (now + 1) - shutdown
    BY <1>1 DEF Late
  <2> HIDE DEF Late
  <2> QED BY <1>0, <1>4, <2>1, <2>2, <2>3, <2>4
<1>9. SnapshotInv'
  <2> SUFFICES ASSUME NEW a \in DOMAIN death.saved
               PROVE  /\ death.saved[a].state = "ACTIVE" =>
                           /\ death.at \in Nat /\ death.saved[a].remaining \in Nat
                           /\ spent'[a] <= ttl_ns[a] + gap
                           /\ spent'[a] + (death.at + death.saved[a].remaining - (now + 1)) <= ttl_ns[a] + gap
                           /\ a \in death.armed => death.at + death.saved[a].remaining < now + 1
                      /\ death.saved[a].state # "ACTIVE" => spent'[a] = 0
    BY <1>1 DEF SnapshotInv, Within
  <2>1. a \in Acts /\ spent[a] \in Nat /\ ttl_ns[a] \in Nat
    BY <1>0
  <2>2. CASE death.saved[a].state = "ACTIVE"
    <3>1. /\ death.at \in Nat /\ death.saved[a].remaining \in Nat
          /\ spent[a] <= ttl_ns[a] + gap
          /\ spent[a] + (death.at + death.saved[a].remaining - now) <= ttl_ns[a] + gap
          /\ a \in death.armed => death.at + death.saved[a].remaining < now
      BY <2>2 DEF GrantInv, SnapshotInv, Within
    <3>2. spent'[a] <= ttl_ns[a] + gap
      <4>1. CASE state[a] = "kActive" /\ now < Deadline(a)
        <5>1. spent[a] + (Deadline(a) - now) <= ttl_ns[a] + gap
          BY <2>1, <4>1 DEF GrantInv, AccountsInv, Within
        <5> QED BY <1>0, <1>3, <1>4, <2>1, <4>1, <5>1
      <4>2. CASE ~(state[a] = "kActive" /\ now < Deadline(a))
        BY <1>4, <2>1, <3>1, <4>2
      <4> QED BY <4>1, <4>2
    <3> QED BY <1>0, <1>4, <2>1, <2>2, <3>1, <3>2
  <2>3. CASE death.saved[a].state # "ACTIVE"
    <3>1. spent[a] = 0 /\ state[a] # "kActive"
      BY <2>3 DEF GrantInv, SnapshotInv, FlagsInv, SnapshotOK
    <3> QED BY <1>4, <2>1, <2>3, <3>1
  <2> QED BY <2>2, <2>3
<1>10. ArmedInv'
  <2>1. \A a \in armed : a \in Acts
    BY ActivationAssumption DEF GrantInv, ArmedInv
  <2>2. \A a \in armed : state[a] = "kActive" => Deadline(a) < now + 1
    BY <1>0, <1>3, <2>1 DEF GrantInv, ArmedInv
  <2> QED BY <1>1, <1>2, <1>3, <2>1, <2>2 DEF GrantInv, ArmedInv
<1> QED BY <1>6, <1>7, <1>8, <1>9, <1>10 DEF GrantInv

\* A save reads the clock, and later writes what is left of each activation.
LEMMA GrantSave ==
    ASSUME FlagsInv, GrantInv,
           BeginSave \/ \E written \in BOOLEAN : SaveActiveConfigsToDisk(written)
    PROVE  GrantInv'
<1>0. /\ state \in [Acts -> States] /\ start_ns \in [Acts -> Int] /\ spent \in [Acts -> Nat]
      /\ ttl_ns \in [Acts -> Nat] /\ gap \in Nat /\ now \in Nat /\ DOMAIN death.saved \subseteq Acts
      /\ file # None => DOMAIN file \subseteq Acts
      /\ None \notin Int
  BY GrantTypes
<1>1. /\ UNCHANGED <<up, now, table, death, restarts, deaths, spent, gap, armed>> /\ up
  BY DEF BeginSave, SaveActiveConfigsToDisk, history
<1>2. AccountsInv' /\ ArmedInv'
  BY <1>1, GrantSame DEF GrantInv
<1>3. SnapshotInv'
  BY <1>1 DEF GrantInv, SnapshotInv, Within
<1>4. CASE BeginSave
  <2>1. /\ saving' = now /\ UNCHANGED <<file, lastWrite>>
        /\ shutdown' = IF shutdown = None THEN now ELSE shutdown
    BY <1>4 DEF BeginSave
  <2>2. ClocksInv'
    BY <1>0, <1>1, <2>1 DEF GrantInv, ClocksInv
  <2>3. FileInv'
    <3>1. file # None => shutdown # None
      BY <1>1 DEF GrantInv, ClocksInv
    <3>2. file # None => Late' = Late
      BY <1>1, <2>1, <3>1 DEF Late
    <3> HIDE DEF Late
    <3> QED BY <1>1, <2>1, <3>2 DEF GrantInv, FileInv
  <2> QED BY <1>2, <1>3, <2>2, <2>3 DEF GrantInv
<1>5. ASSUME NEW written \in BOOLEAN, SaveActiveConfigsToDisk(written) PROVE GrantInv'
  <2> DEFINE w == WriteActiveConfigs(saving, "DEVICE_SHUTDOWN")
  <2>1. /\ saving # None /\ saving' = None /\ shutdown' = shutdown
        /\ \/ UNCHANGED <<lastWrite, file>>
           \/ lastWrite' = now /\ file' \in {w, None}
    BY <1>5 DEF SaveActiveConfigsToDisk, history
  <2>2. saving \in Nat /\ shutdown \in Nat /\ shutdown <= saving /\ saving <= now
    BY <2>1 DEF GrantInv, ClocksInv
  <2>3. /\ DOMAIN w \subseteq Acts
        /\ \A a \in DOMAIN w :
              /\ state[a] = "kActive" =>
                   /\ w[a].state = "ACTIVE" /\ w[a].remaining = Deadline(a) - saving
                   /\ ~(Deadline(a) < saving)
              /\ state[a] # "kActive" =>
                   /\ state[a] = "kActiveOnBoot"
                   /\ w[a].state = "ACTIVE" /\ w[a].remaining = ttl_ns[a]
    BY <1>0, WriteStarts
  <2> HIDE DEF w
  <2>4. ClocksInv'
    <3>1. lastWrite' \in Nat
      BY <2>1 DEF GrantInv, ClocksInv
    <3> QED BY <1>1, <2>1, <2>2, <3>1 DEF GrantInv, ClocksInv
  <2>5. Late = now - shutdown /\ Late' = now - shutdown
    BY <1>1, <2>1 DEF Late
  <2>6. \A a \in DOMAIN w : /\ w[a].state = "ACTIVE" /\ w[a].remaining \in Nat
                            /\ spent[a] + w[a].remaining <= ttl_ns[a] + gap + (now - shutdown)
    <3> SUFFICES ASSUME NEW a \in DOMAIN w
                 PROVE  /\ w[a].state = "ACTIVE" /\ w[a].remaining \in Nat
                        /\ spent[a] + w[a].remaining <= ttl_ns[a] + gap + (now - shutdown)
      OBVIOUS
    <3>1. a \in Acts /\ spent[a] \in Nat /\ ttl_ns[a] \in Nat /\ Deadline(a) \in Int
      BY <1>0, <2>3 DEF Deadline
    <3>2. CASE state[a] = "kActive"
      <4>1. spent[a] <= ttl_ns[a] + gap /\ spent[a] + (Deadline(a) - now) <= ttl_ns[a] + gap
        BY <3>1, <3>2 DEF GrantInv, AccountsInv, Within
      <4> HIDE DEF Deadline
      <4> QED BY <1>0, <2>2, <2>3, <3>1, <3>2, <4>1
    <3>3. CASE state[a] # "kActive"
      <4>1. spent[a] = 0
        BY <2>3, <3>1, <3>3 DEF GrantInv, AccountsInv
      <4> QED BY <1>0, <2>2, <2>3, <3>1, <3>3, <4>1
    <3> QED BY <3>2, <3>3
  <2>7. FileInv'
    <3>1. CASE UNCHANGED file
      BY <1>1, <2>5, <3>1 DEF GrantInv, FileInv
    <3>2. CASE file' = None
      BY <3>2 DEF FileInv
    <3>3. CASE file' = w
      BY <1>1, <2>5, <2>6, <3>3 DEF FileInv
    <3> QED BY <2>1, <3>1, <3>2, <3>3
  <2> QED BY <1>2, <1>3, <2>4, <2>7 DEF GrantInv
<1> QED BY <1>4, <1>5

\* The snapshot that is taken when the companion died has the deadlines of the table.
LEMMA GrantDeath ==
    ASSUME FlagsInv, GrantInv, CompanionDied \/ WriteActiveConfigsToProto
    PROVE  GrantInv'
<1>0. /\ state \in [Acts -> States] /\ start_ns \in [Acts -> Int] /\ spent \in [Acts -> Nat]
      /\ ttl_ns \in [Acts -> Nat] /\ gap \in Nat /\ now \in Nat
  BY GrantTypes
<1>1. UNCHANGED <<up, now, table, file, lastWrite, saving, restarts, spent, gap, shutdown, armed>> /\ up
  BY DEF CompanionDied, WriteActiveConfigsToProto, history
<1>2. AccountsInv' /\ ArmedInv'
  BY <1>1, GrantSame DEF GrantInv
<1>3. FileInv'
  BY <1>1 DEF GrantInv, FileInv, Late
<1>4. CASE CompanionDied
  <2>1. /\ death' = [stage |-> "died", at |-> now, saved |-> [a \in {} |-> None], armed |-> {}]
        /\ deaths' = deaths + 1
    BY <1>4 DEF CompanionDied, Idle
  <2>2. SnapshotInv'
    BY <2>1 DEF SnapshotInv
  <2>3. ClocksInv'
    BY <1>1, <2>1 DEF GrantInv, ClocksInv
  <2> QED BY <1>2, <1>3, <2>2, <2>3 DEF GrantInv
<1>5. CASE WriteActiveConfigsToProto
  <2> DEFINE w == WriteActiveConfigs(death.at, "STATSCOMPANION_DIED")
  <2>1. /\ death.stage = "died" /\ deaths' = deaths
        /\ death' = [death EXCEPT !.stage = "written", !.armed = armed, !.saved = w]
    BY <1>5 DEF WriteActiveConfigsToProto
  <2>2. death.at \in Nat /\ death.at <= now
    BY <2>1 DEF GrantInv, ClocksInv
  <2>3. /\ DOMAIN w \subseteq Acts
        /\ \A a \in DOMAIN w :
              /\ state[a] = "kActive" =>
                   /\ w[a].state = "ACTIVE" /\ w[a].remaining = Deadline(a) - death.at
                   /\ ~(Deadline(a) < death.at)
              /\ state[a] # "kActive" =>
                   /\ state[a] = "kActiveOnBoot" /\ w[a].state = "ACTIVATE_ON_BOOT"
    BY <1>0, WriteStarts
  <2> HIDE DEF w
  <2>4. death' = [stage |-> "written", at |-> death.at, saved |-> w, armed |-> armed]
    BY <2>1 DEF FlagsInv, SnapshotOK
  <2>5. ASSUME NEW a \in DOMAIN w
        PROVE  /\ w[a].state = "ACTIVE" =>
                    /\ w[a].remaining \in Nat
                    /\ Within(a, death.at + w[a].remaining - now)
                    /\ a \in armed => death.at + w[a].remaining < now
               /\ w[a].state # "ACTIVE" => spent[a] = 0
    <3>1. a \in Acts /\ Deadline(a) \in Int
      BY <1>0, <2>3 DEF Deadline
    <3>2. CASE state[a] = "kActive"
      <4>1. Within(a, Deadline(a) - now) /\ (a \in armed => Deadline(a) < now)
        BY <3>1, <3>2 DEF GrantInv, AccountsInv, ArmedInv
      <4> HIDE DEF Deadline
      <4>2. w[a].remaining \in Nat /\ death.at + w[a].remaining = Deadline(a)
        BY <1>0, <2>2, <2>3, <3>1, <3>2
      <4>3. w[a].state = "ACTIVE"
        BY <2>3, <3>2
      <4>4. death.at + w[a].remaining - now = Deadline(a) - now
        BY <1>0, <2>2, <4>2
      <4> QED BY <4>1, <4>2, <4>3, <4>4
    <3>3. CASE state[a] # "kActive"
      BY <2>3, <3>1, <3>3 DEF GrantInv, AccountsInv
    <3> QED BY <3>2, <3>3
  <2>6. SnapshotInv'
    BY <1>1, <2>2, <2>4, <2>5 DEF SnapshotInv, Within
  <2>7. ClocksInv'
    BY <1>1, <2>1, <2>2, <2>4 DEF GrantInv, ClocksInv
  <2> QED BY <1>2, <1>3, <2>6, <2>7 DEF GrantInv
<1> QED BY <1>4, <1>5

\* A config reset only ends activations.
LEMMA GrantReset ==
    ASSUME FlagsInv, GrantInv, NEW unread, ResetConfigs(unread)
    PROVE  GrantInv'
<1>0. /\ state \in [Acts -> States] /\ start_ns \in [Acts -> Int]
      /\ ttl_ns \in [Acts -> Nat] /\ now \in Nat
  BY GrantTypes
<1>1. /\ UNCHANGED <<up, now, file, lastWrite, saving, restarts, deaths, spent, gap, shutdown, armed>>
      /\ up /\ death.stage = "written" /\ death' = [death EXCEPT !.stage = "reset"]
  BY DEF ResetConfigs, history
<1>2. death' = [stage |-> "reset", at |-> death.at, saved |-> death.saved, armed |-> death.armed]
  BY <1>1 DEF FlagsInv, SnapshotOK
<1>3. \A a \in Acts : /\ state'[a] \in {state[a], "kNotActive"}
                      /\ state'[a] = "kActive" => start_ns'[a] = start_ns[a]
                      /\ state'[a] # "kActive" => start_ns'[a] = 0
  BY DEF ResetConfigs, SetTable, FreshTable
<1>4. start_ns' \in [Acts -> Int]
  <2>1. \A a \in Acts : start_ns'[a] \in Int
    BY <1>0, <1>3
  <2>2. start_ns' = [a \in Acts |-> start_ns'[a]]
    BY DEF ResetConfigs, SetTable
  <2> QED BY <2>1, <2>2
<1>5. \A a \in Acts : state'[a] = "kActive" => state[a] = "kActive" /\ Deadline(a)' = Deadline(a)
  BY <1>3 DEF Deadline
<1>6. AccountsInv'
  BY <1>1, <1>3, <1>4, <1>5 DEF GrantInv, AccountsInv, Within
<1>7. ArmedInv'
  <2>1. armed \subseteq Acts
    BY ActivationAssumption DEF GrantInv, ArmedInv
  <2> QED BY <1>1, <1>5, <2>1 DEF GrantInv, ArmedInv
<1>8. FileInv'
  BY <1>1 DEF GrantInv, FileInv, Late
<1>9. SnapshotInv'
  BY <1>1, <1>2 DEF GrantInv, SnapshotInv, Within
<1>10. ClocksInv'
  BY <1>1, <1>2 DEF GrantInv, ClocksInv
<1> QED BY <1>6, <1>7, <1>8, <1>9, <1>10 DEF GrantInv

\* The snapshot is restored with its deadlines.
LEMMA GrantRestore ==
    ASSUME FlagsInv, GrantInv, SetConfigsActiveState PROVE GrantInv'
<1> DEFINE r == LoadActiveConfigs(CurrentTable, death.saved, death.at)
           saved == death.saved
<1>0. /\ state \in [Acts -> States] /\ start_ns \in [Acts -> Int] /\ spent \in [Acts -> Nat]
      /\ ttl_ns \in [Acts -> Nat] /\ gap \in Nat /\ now \in Nat /\ DOMAIN saved \subseteq Acts
  BY GrantTypes
<1>1. /\ UNCHANGED <<up, now, file, lastWrite, saving, restarts, deaths, spent, gap, shutdown>>
      /\ up /\ death' = Idle /\ armed' = armed \cap death.armed /\ SetTable(r)
  BY DEF SetConfigsActiveState
<1>2. /\ CurrentTable.state = state /\ CurrentTable.start_ns = start_ns
  BY DEF CurrentTable
<1>3. \A a \in Acts :
         /\ a \in DOMAIN saved /\ saved[a].state = "ACTIVE" =>
               r.state[a] = "kActive" /\ r.start_ns[a] = death.at + saved[a].remaining - ttl_ns[a]
         /\ a \in DOMAIN saved /\ saved[a].state # "ACTIVE" => r.state[a] = "kActiveOnBoot"
         /\ a \notin DOMAIN saved => r.state[a] = state[a] /\ r.start_ns[a] = start_ns[a]
  BY <1>2, LoadStarts
<1> HIDE DEF r
<1>4. /\ state' = r.state
      /\ start_ns' = [a \in Acts |-> IF r.state[a] = "kActive" THEN r.start_ns[a] ELSE 0]
  BY <1>1 DEF SetTable
<1>5. ASSUME NEW a \in Acts, a \in DOMAIN saved, saved[a].state = "ACTIVE"
      PROVE  /\ state'[a] = "kActive" /\ start_ns'[a] \in Int
             /\ Deadline(a)' = death.at + saved[a].remaining
             /\ death.at + saved[a].remaining \in Int
  <2>1. death.at \in Nat /\ saved[a].remaining \in Nat
    BY <1>5 DEF GrantInv, SnapshotInv
  <2>2. state'[a] = "kActive" /\ start_ns'[a] = death.at + saved[a].remaining - ttl_ns[a]
    BY <1>3, <1>4, <1>5
  <2> HIDE DEF saved
  <2> QED BY <1>0, <2>1, <2>2 DEF Deadline
<1>6. ASSUME NEW a \in Acts, a \notin DOMAIN saved
      PROVE  /\ state'[a] = state[a] /\ start_ns'[a] \in Int
             /\ state[a] = "kActive" => Deadline(a)' = Deadline(a)
  <2>1. /\ state'[a] = state[a]
        /\ start_ns'[a] = IF state[a] = "kActive" THEN start_ns[a] ELSE 0
    BY <1>3, <1>4, <1>6
  <2> QED BY <1>0, <2>1 DEF Deadline
<1>7. ASSUME NEW a \in Acts, a \in DOMAIN saved, saved[a].state # "ACTIVE"
      PROVE  state'[a] = "kActiveOnBoot" /\ start_ns'[a] = 0
  BY <1>3, <1>4, <1>7
<1>8. AccountsInv'
  <2>1. start_ns' \in [Acts -> Int]
    <3>1. \A a \in Acts : start_ns'[a] \in Int
      BY <1>5, <1>6, <1>7
    <3> QED BY <1>4, <3>1
  <2>2. ASSUME NEW a \in Acts, state'[a] = "kActive" PROVE Within(a, Deadline(a) - now)'
    <3>1. CASE a \in DOMAIN saved
      <4>1. saved[a].state = "ACTIVE"
        BY <1>7, <2>2, <3>1
      <4>2. Within(a, death.at + saved[a].remaining - now)
        BY <3>1, <4>1 DEF GrantInv, SnapshotInv
      <4>3. Deadline(a)' = death.at + saved[a].remaining
        BY <1>5, <3>1, <4>1
      <4>6. death.at \in Nat /\ saved[a].remaining \in Nat
        BY <3>1, <4>1 DEF GrantInv, SnapshotInv
      <4>4. Deadline(a)' - now' = death.at + saved[a].remaining - now
        BY <1>0, <1>1, <4>3, <4>6
      <4> HIDE DEF saved
      <4>5. /\ spent'[a] <= ttl_ns[a] + gap'
            /\ spent'[a] + (Deadline(a)' - now') <= ttl_ns[a] + gap'
        BY <1>1, <4>2, <4>4 DEF Within
      <4> QED BY <4>5 DEF Within
    <3>2. CASE a \notin DOMAIN saved
      <4>1. state[a] = "kActive" /\ Deadline(a)' = Deadline(a)
        BY <1>6, <2>2, <3>2
      <4>2. Within(a, Deadline(a) - now)
        BY <4>1 DEF GrantInv, AccountsInv
      <4> QED BY <1>1, <4>1, <4>2 DEF Within
    <3> QED BY <3>1, <3>2
  <2>3. ASSUME NEW a \in Acts, state'[a] = "kActiveOnBoot" PROVE spent'[a] = 0
    <3>1. CASE a \in DOMAIN saved
      <4>1. saved[a].state # "ACTIVE"
        BY <1>5, <2>3, <3>1
      <4> QED BY <1>1, <3>1, <4>1 DEF GrantInv, SnapshotInv
    <3>2. CASE a \notin DOMAIN saved
      BY <1>1, <1>6, <2>3, <3>2 DEF GrantInv, AccountsInv
    <3> QED BY <3>1, <3>2
  <2> QED BY <1>0, <1>1, <2>1, <2>2, <2>3 DEF AccountsInv
<1>9. ArmedInv'
  <2>1. armed \subseteq ActivateOnBoot /\ ActivateOnBoot \subseteq Acts
    BY ActivationAssumption DEF GrantInv, ArmedInv
  <2>2. ASSUME NEW a \in armed \cap death.armed, state'[a] = "kActive" PROVE Deadline(a)' < now
    <3>1. CASE a \in DOMAIN saved
      <4>1. saved[a].state = "ACTIVE"
        BY <1>7, <2>1, <2>2, <3>1
      <4>2. death.at + saved[a].remaining < now
        BY <3>1, <4>1 DEF GrantInv, SnapshotInv
      <4> QED BY <1>5, <2>1, <3>1, <4>1, <4>2
    <3>2. CASE a \notin DOMAIN saved
      <4>1. state[a] = "kActive" /\ Deadline(a)' = Deadline(a)
        BY <1>6, <2>1, <2>2, <3>2
      <4> QED BY <4>1 DEF GrantInv, ArmedInv
    <3> QED BY <3>1, <3>2
  <2> QED BY <1>1, <2>1, <2>2 DEF ArmedInv
<1>10. FileInv'
  BY <1>1 DEF GrantInv, FileInv, Late
<1>11. SnapshotInv'
  BY <1>1 DEF SnapshotInv, Idle
<1>12. ClocksInv'
  BY <1>1 DEF GrantInv, ClocksInv, Idle
<1> QED BY <1>8, <1>9, <1>10, <1>11, <1>12 DEF GrantInv

\* The end of the process keeps the accounts of what the file holds.
LEMMA GrantExit ==
    ASSUME FlagsInv, GrantInv, Exit PROVE GrantInv'
<1>0. /\ spent \in [Acts -> Nat] /\ gap \in Nat /\ now \in Nat /\ None \notin Int
      /\ ttl_ns \in [Acts -> Nat]
      /\ file # None => DOMAIN file \subseteq Acts
  BY GrantTypes
<1>1. /\ UNCHANGED <<now, file, restarts, deaths, spent>>
      /\ up /\ up' = FALSE /\ saving' = None /\ death' = Idle /\ lastWrite' = 0
      /\ gap' = gap + IF shutdown = None THEN 0 ELSE now - shutdown
      /\ shutdown' = None /\ armed' = {} /\ SetTable(FreshTable)
  BY DEF Exit
<1>2. shutdown \in Nat \cup {None} /\ (shutdown # None => shutdown <= now)
  BY DEF GrantInv, ClocksInv
<1>3. gap' \in Nat
  BY <1>0, <1>1, <1>2
<1>4. \A a \in Acts : state'[a] = "kNotActive" /\ start_ns'[a] = 0
  BY <1>1 DEF SetTable, FreshTable
<1>5. start_ns' = [a \in Acts |-> 0]
  BY <1>1 DEF SetTable, FreshTable
<1>6. AccountsInv'
  BY <1>0, <1>1, <1>4, <1>5 DEF AccountsInv
<1>7. FileInv'
  <2> SUFFICES ASSUME file # None, NEW a \in DOMAIN file
               PROVE  /\ file[a].state = "ACTIVE" /\ file[a].remaining \in Nat
                      /\ spent[a] + file[a].remaining <= ttl_ns[a] + gap'
    <3>1. Late' = 0
      BY <1>1 DEF Late
    <3> QED BY <1>0, <1>1, <1>3, <3>1 DEF FileInv
  <2>1. /\ file[a].state = "ACTIVE" /\ file[a].remaining \in Nat
        /\ spent[a] + file[a].remaining <= ttl_ns[a] + gap + Late
    BY DEF GrantInv, FileInv
  <2>2. shutdown # None
    BY <1>1 DEF GrantInv, ClocksInv
  <2>3. Late = now - shutdown
    BY <1>1 DEF Late
  <2> HIDE DEF Late
  <2> QED BY <1>0, <1>1, <1>2, <2>1, <2>2, <2>3
<1>8. SnapshotInv'
  BY <1>1 DEF SnapshotInv, Idle
<1>9. ArmedInv'
  BY <1>1 DEF ArmedInv
<1>10. ClocksInv'
  BY <1>1, <1>3 DEF GrantInv, ClocksInv, Idle
<1> QED BY <1>6, <1>7, <1>8, <1>9, <1>10 DEF GrantInv

\* What the file holds is what its activations are still owed.
LEMMA GrantStartup ==
    ASSUME FlagsInv, GrantInv, NEW reboot \in BOOLEAN, NEW delay \in Nat, Startup(reboot, delay)
    PROVE  GrantInv'
<1> DEFINE at == now' - delay
           l == LoadActiveConfigs(FreshTable, file, at)
<1>0. /\ spent \in [Acts -> Nat] /\ gap \in Nat /\ now \in Nat /\ None \notin Int
      /\ ttl_ns \in [Acts -> Nat]
      /\ file # None => DOMAIN file \subseteq Acts
  BY GrantTypes
<1>1. /\ UNCHANGED <<lastWrite, saving, death, deaths, spent, gap, shutdown, armed>>
      /\ ~up /\ up' = TRUE /\ restarts' = restarts + 1 /\ file' = None
      /\ now' = IF reboot THEN delay ELSE now
      /\ now' >= delay
      /\ SetTable(IF file = None THEN FreshTable ELSE l)
  BY DEF Startup, history
<1>2. now' \in Nat /\ at \in Nat /\ at <= now'
  BY <1>0, <1>1
<1>3. death = Idle /\ armed = {} /\ saving = None /\ shutdown = None
  BY <1>1 DEF GrantInv, ClocksInv, ArmedInv, FlagsInv, SnapshotOK
<1>4. \A a \in Acts : FreshTable.state[a] = "kNotActive" /\ FreshTable.start_ns[a] = 0
  BY DEF FreshTable
<1>5. \A a \in Acts : file # None =>
         /\ a \in DOMAIN file /\ file[a].state = "ACTIVE" =>
               l.state[a] = "kActive" /\ l.start_ns[a] = at + file[a].remaining - ttl_ns[a]
         /\ a \notin DOMAIN file => l.state[a] = "kNotActive"
  BY <1>4, LoadStarts
<1>6. file # None => \A a \in DOMAIN file :
         /\ file[a].state = "ACTIVE" /\ file[a].remaining \in Nat
         /\ spent[a] + file[a].remaining <= ttl_ns[a] + gap
  <2>1. Late = 0
    BY <1>1 DEF Late
  <2>2. file # None => \A a \in DOMAIN file :
           /\ file[a].state = "ACTIVE" /\ file[a].remaining \in Nat
           /\ spent[a] + file[a].remaining <= ttl_ns[a] + gap + 0
    BY <2>1 DEF GrantInv, FileInv
  <2>3. file # None => \A a \in DOMAIN file : ttl_ns[a] + gap + 0 = ttl_ns[a] + gap
    BY <1>0
  <2> QED BY <2>2, <2>3
<1> HIDE DEF l, at
<1>7. ASSUME NEW a \in Acts
      PROVE  \/ state'[a] = "kNotActive" /\ start_ns'[a] = 0
             \/ /\ file # None /\ a \in DOMAIN file
                /\ state'[a] = "kActive" /\ start_ns'[a] = at + file[a].remaining - ttl_ns[a]
  <2>1. CASE file = None
    BY <1>1, <1>4, <2>1 DEF SetTable
  <2>2. CASE file # None
    <3>1. /\ state' = l.state
          /\ start_ns' = [b \in Acts |-> IF l.state[b] = "kActive" THEN l.start_ns[b] ELSE 0]
      BY <1>1, <2>2 DEF SetTable
    <3> QED BY <1>5, <1>6, <2>2, <3>1
  <2> QED BY <2>1, <2>2
<1>8. AccountsInv'
  <2>1. start_ns' \in [Acts -> Int]
    <3>1. \A a \in Acts : start_ns'[a] \in Int
      BY <1>0, <1>2, <1>6, <1>7
    <3>2. start_ns' = [a \in Acts |-> start_ns'[a]]
      BY <1>1 DEF SetTable
    <3> QED BY <3>1, <3>2
  <2>2. ASSUME NEW a \in Acts, state'[a] = "kActive" PROVE Within(a, Deadline(a) - now)'
    <3>1. file # None /\ a \in DOMAIN file /\ start_ns'[a] = at + file[a].remaining - ttl_ns[a]
      BY <1>7, <2>2
    <3>2. file[a].remaining \in Nat /\ spent[a] + file[a].remaining <= ttl_ns[a] + gap
      BY <1>6, <3>1
    <3>3. ttl_ns[a] \in Nat /\ spent[a] \in Nat
      BY <1>0
    <3>4. start_ns'[a] + ttl_ns[a] - now' <= file[a].remaining
          /\ start_ns'[a] + ttl_ns[a] - now' \in Int
      BY <1>2, <3>1, <3>2, <3>3
    <3>5. /\ spent[a] <= ttl_ns[a] + gap
          /\ spent[a] + (start_ns'[a] + ttl_ns[a] - now') <= ttl_ns[a] + gap
      BY <1>0, <3>2, <3>3, <3>4
    <3>6. start_ns'[a] \in Int
      BY <1>2, <3>1, <3>2, <3>3
    <3>7. start_ns'[a] + ttl_ns[a] - now' = (start_ns'[a] + ttl_ns[a]) - now'
      BY <1>2, <3>3, <3>6
    <3> QED BY <1>1, <3>5, <3>7 DEF Within, Deadline
  <2>3. \A a \in Acts : state'[a] # "kActiveOnBoot"
    BY <1>7
  <2> QED BY <1>0, <1>1, <2>1, <2>2, <2>3 DEF AccountsInv
<1>9. FileInv'
  BY <1>1 DEF FileInv
<1>10. SnapshotInv'
  BY <1>1, <1>3 DEF SnapshotInv, Idle
<1>11. ArmedInv'
  BY <1>1, <1>3 DEF ArmedInv
<1>12. ClocksInv'
  BY <1>1, <1>2, <1>3 DEF GrantInv, ClocksInv, Idle
<1> QED BY <1>8, <1>9, <1>10, <1>11, <1>12 DEF GrantInv

\* Every step keeps the accounts.
LEMMA GrantStep == FlagsInv /\ GrantInv /\ [Next]_vars => GrantInv'
<1> SUFFICES ASSUME FlagsInv, GrantInv, [Next]_vars PROVE GrantInv'
  OBVIOUS
<1>1. CASE EventStep
  <2>1. PICK matched \in SUBSET Matchers : \E timeNs \in {t \in (now - Lateness)..now : t >= 0} :
            OnLogEvent(matched, timeNs)
    BY <1>1 DEF EventStep
  <2>2. PICK timeNs \in {t \in (now - Lateness)..now : t >= 0} : OnLogEvent(matched, timeNs)
    BY <2>1
  <2>3. timeNs \in Nat /\ timeNs <= now
    BY ActivationAssumption DEF GrantInv, ClocksInv
  <2> QED BY <2>2, <2>3, GrantEvent
<1>2. CASE Tick
  BY <1>2, GrantTick
<1>3. CASE BeginSave \/ \E written \in BOOLEAN : SaveActiveConfigsToDisk(written)
  BY <1>3, GrantSave
<1>4. CASE CompanionDied \/ WriteActiveConfigsToProto
  BY <1>4, GrantDeath
<1>5. CASE \E unread \in SUBSET Configs : ResetConfigs(unread)
  BY <1>5, GrantReset
<1>6. CASE SetConfigsActiveState
  BY <1>6, GrantRestore
<1>7. CASE Exit
  BY <1>7, GrantExit
<1>8. CASE \E reboot \in BOOLEAN, delay \in 0..StartupDelay : Startup(reboot, delay)
  <2>1. \A delay \in 0..StartupDelay : delay \in Nat
    BY ActivationAssumption
  <2> QED BY <1>8, <2>1, GrantStartup
<1>9. CASE UNCHANGED vars
  <2>1. AccountsInv' /\ ArmedInv'
    BY <1>9, GrantSame DEF GrantInv, vars, history
  <2>2. FileInv' /\ SnapshotInv' /\ ClocksInv'
    BY <1>9 DEF GrantInv, vars, history, FileInv, SnapshotInv, ClocksInv, Late, Within
  <2> QED BY <2>1, <2>2 DEF GrantInv
<1> QED BY <1>1, <1>2, <1>3, <1>4, <1>5, <1>6, <1>7, <1>8, <1>9 DEF Next, OtherStep

\* An activation is active for no longer than it was granted but for the time that a
\* process goes on after it read the clock of its first save, and one that waits for the
\* boot is not active before it: whatever is saved, loaded, reset and restored in between
\* (MetricProducer::loadActiveMetricLocked, writeActiveMetricToProtoOutputStream).
THEOREM ActivationsWithinGrant == Spec => []RestoredWithinGrant
<1>1. ASSUME FlagsInv, GrantInv PROVE RestoredWithinGrant
  <2>1. /\ state \in [Acts -> States] /\ start_ns \in [Acts -> Int] /\ spent \in [Acts -> Nat]
        /\ ttl_ns \in [Acts -> Nat] /\ gap \in Nat /\ now \in Nat
        /\ file # None => DOMAIN file \subseteq Acts
    BY <1>1, GrantTypes
  <2>2. metricActive \in [Metrics -> BOOLEAN] /\ configActive \in [Configs -> BOOLEAN]
    BY <1>1 DEF FlagsInv, GoodTable, TypedTable, CurrentTable
  <2>3. armed \subseteq Acts
    BY <1>1, ActivationAssumption DEF GrantInv, ArmedInv
  <2>4. TypeOK
    BY <1>1, <2>1, <2>2, <2>3 DEF TypeOK, GrantInv, ClocksInv, States
  <2>5. TtlNotExceeded
    BY <1>1 DEF GrantInv, AccountsInv, Within, TtlNotExceeded
  <2>6. ArmedWaitsForBoot
    <3> SUFFICES ASSUME NEW a \in armed, state[a] = "kActive" PROVE ~(now <= Deadline(a))
      BY DEF ArmedWaitsForBoot
    <3>1. Deadline(a) < now
      BY <1>1 DEF GrantInv, ArmedInv
    <3>2. Deadline(a) \in Int
      BY <2>1, <2>3 DEF Deadline
    <3> HIDE DEF Deadline
    <3> QED BY <2>1, <3>1, <3>2
  <2> QED BY <2>4, <2>5, <2>6 DEF RestoredWithinGrant
<1> QED BY <1>1, FlagsInit, FlagsStep, GrantInit, GrantStep, PTL DEF Spec
=============================================================================
