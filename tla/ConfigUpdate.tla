--------------------------- MODULE ConfigUpdate ---------------------------
(***************************************************************************)
(* StatsLogProcessor::OnConfigUpdatedLocked and the MetricsManager it      *)
(* creates or updates in place.  A modular update compares the new config  *)
(* with the trackers of the old one, keeps what did not change and         *)
(* replaces the rest; indices of everything kept are refreshed.            *)
(*                                                                         *)
(* mm is the manager of one config key or None.  An object is identified   *)
(* by its id and by "born", the number of the update that created it.      *)
(***************************************************************************)
EXTENDS ConfigParsing

CONSTANTS
    Pool,            \* configs an uploader may send
    LatePool,        \* bound: those it sends after its second one
    PartialInvalid,  \* flags::partial_invalid_configs()
    Delegates,       \* packages restricted metrics are delegated to
    MaxSources,      \* StatsdStats::kMaxLogSourceCount
    MaxPullPackages, \* StatsdStats::kMaxPullAtomPackages
    MaxMetrics,      \* StatsdStats::kMaxMetricCountPerConfig
    MaxConditions,   \* StatsdStats::kMaxConditionCountPerConfig
    MaxMatchers,     \* StatsdStats::kMaxMatcherCountPerConfig
    MaxAlerts,       \* StatsdStats::kMaxAlertCountPerConfig
    MaxUpdates       \* bound: updates in a behaviour

VARIABLES
    mm,         \* mMetricsManagers[key], None if there is none
    config,     \* the last config received, None at start
    gen,        \* number of updates so far
    listeners,  \* StateManager: pairs of a state atom and a producer
    removed,    \* producers onMetricRemove was called on, in order
    told,       \* metrics each delegate was last told it has
    superseded  \* history: delegates that another one took the place of

vars == <<mm, config, gen, listeners, removed, told, superseded>>

IdentityOf(p) == [id |-> p.id, born |-> p.born]

-----------------------------------------------------------------------------
(* Metric producers.                                                       *)

MatcherIndex(env, id) == IF id = None THEN 0 ELSE IndexOf(env.matchers, id)

ConditionIndex(env, m) == IF m.cond = None THEN 0 ELSE IndexOf(env.conds, m.cond)

\* eventActivationMap keeps the first activation of a matcher; an activation
\* object is the pair of its birth and its position.
EventActivationMap(ids, objects) ==
    [m \in Range(ids) |-> objects[Min({i \in DOMAIN ids : ids[i] = m})]]

handleMetricActivation(env, m, born) ==
    LET ev == EventActivations(env, m)
        ids == [i \in DOMAIN ev |-> MatcherIndex(env, ev[i].matcher)]
    IN  [acts   |-> EventActivationMap(ids, [i \in DOMAIN ev |-> <<born, i>>]),
         deacts |-> {<<MatcherIndex(env, ev[i].deact), <<born, i>>>> :
                        i \in {j \in DOMAIN ev : ev[j].deact # None}}]

checkMetricActivationOnConfigUpdate(env, m, old, producer) ==
    \A a \in Range(EventActivations(env, m)) :
        /\ a.matcher \in Ids(old.matchers)
        /\ IndexOf(old.matchers, a.matcher) \in DOMAIN producer.acts

handleMetricActivationOnConfigUpdate(env, m, old, producer) ==
    LET ev == EventActivations(env, m)
        Kept(i) == producer.acts[IndexOf(old.matchers, ev[i].matcher)]
        ids == [i \in DOMAIN ev |-> MatcherIndex(env, ev[i].matcher)]
    IN  [acts   |-> EventActivationMap(ids, [i \in DOMAIN ev |-> Kept(i)]),
         deacts |-> {<<MatcherIndex(env, ev[i].deact), Kept(i)>> :
                        i \in {j \in DOMAIN ev : ev[j].deact # None}}]

\* The matchers a producer listens to, by role; 0 for a role it lacks.
CountWhats(env, m)    == <<MatcherIndex(env, m.what)>>
EventWhats(env, m)    == <<MatcherIndex(env, m.what)>>
ValueWhats(env, m)    == <<MatcherIndex(env, m.what)>>
GaugeWhats(env, m)    == <<MatcherIndex(env, m.what), MatcherIndex(env, m.trigger)>>
DurationWhats(env, m) ==
    LET roles == SimpleMatchers(env.protos[m.what])
    IN  [k \in DOMAIN roles |-> MatcherIndex(env, roles[k])]

Whats(env, m) ==
    CASE m.type = "count"           -> CountWhats(env, m)
      [] m.type = "duration"        -> DurationWhats(env, m)
      [] m.type = "event"           -> EventWhats(env, m)
      [] m.type \in {"value", "kll"} -> ValueWhats(env, m)
      [] m.type = "gauge"           -> GaugeWhats(env, m)

createProducer(env, m, born, pull) ==
    LET act == handleMetricActivation(env, m, born)
    IN  [id |-> m.id, type |-> m.type, hash |-> getMetricProtoHash(env, m), born |-> born,
         whats |-> Whats(env, m), cond |-> ConditionIndex(env, m), pull |-> pull,
         states |-> [k \in DOMAIN m.states |-> env.states[m.states[k]]],
         acts |-> act.acts, deacts |-> act.deacts,
         hasAct |-> m.id \in DOMAIN env.act, alerts |-> <<>>]

createCountMetricProducer(env, m, born)    == createProducer(env, m, born, None)
createDurationMetricProducer(env, m, born) == createProducer(env, m, born, None)
createEventMetricProducer(env, m, born)    == createProducer(env, m, born, None)
createNumericValueMetricProducer(env, m, born) ==
    createProducer(env, m, born, PullTag(env, m.what))
createKllMetricProducer(env, m, born) ==
    createProducer(env, m, born, PullTag(env, m.what))
createGaugeMetricProducer(env, m, born) ==
    createProducer(env, m, born, PullTag(env, m.what))

createMetricProducer(env, m, born) ==
    CASE m.type = "count"    -> createCountMetricProducer(env, m, born)
      [] m.type = "duration" -> createDurationMetricProducer(env, m, born)
      [] m.type = "event"    -> createEventMetricProducer(env, m, born)
      [] m.type = "value"    -> createNumericValueMetricProducer(env, m, born)
      [] m.type = "kll"      -> createKllMetricProducer(env, m, born)
      [] m.type = "gauge"    -> createGaugeMetricProducer(env, m, born)

\* Mutant of onConfigUpdated: the anomaly trackers of a kept producer stay.
onConfigUpdated_keepAlerts(env, m, old, producer) ==
    LET act == handleMetricActivationOnConfigUpdate(env, m, old, producer)
    IN  [producer EXCEPT !.whats = Whats(env, m), !.cond = ConditionIndex(env, m),
                         !.acts = act.acts, !.deacts = act.deacts]

\* MetricProducer::onConfigUpdatedLocked with the index refresh of each type.
onConfigUpdated(env, m, old, producer) ==
    LET act == handleMetricActivationOnConfigUpdate(env, m, old, producer)
    IN  [producer EXCEPT !.whats = Whats(env, m), !.cond = ConditionIndex(env, m),
                         !.acts = act.acts, !.deacts = act.deacts, !.alerts = <<>>]

OfTypes(c, types) ==
    FlattenSeq([k \in DOMAIN types |-> SelectSeq(c.metric, LAMBDA m : m.type = types[k])])

InitOrder == <<"count", "duration", "event", "value", "kll", "gauge">>

RestrictedUnsupported(c) ==
    c.delegate # None /\ \E m \in Range(c.metric) : m.type # "event"

NoReportChecked(c, metrics) ==
    [metrics EXCEPT !.invalid =
        @ \cup {<<"metric", id>> : id \in Range(c.noReport) \ Ids(metrics.producers)}]

initMetrics(env, c, born) ==
    LET Step(acc, m) ==
            IF isNewMetricValid([env EXCEPT !.invalid = acc.invalid], m)
            THEN [acc EXCEPT !.producers = Append(@, createMetricProducer(env, m, born))]
            ELSE [acc EXCEPT !.invalid = @ \cup {<<"metric", m.id>>}]
        start == [producers |-> <<>>, invalid |-> env.invalid \cup MultipleActivations(c),
                  replaced |-> {}]
        done  == FoldLeft(Step, start, OfTypes(c, InitOrder))
    IN  IF RestrictedUnsupported(c)
        THEN [start EXCEPT !.invalid = env.invalid \cup {<<"config", 0>>}]
        ELSE NoReportChecked(c, done)

-----------------------------------------------------------------------------
(* What a modular update keeps.                                            *)

RECURSIVE determineMatcherUpdateStatus(_, _, _, _)
determineMatcherUpdateStatus(protos, old, id, stack) ==
    IF id \notin Ids(old.matchers) THEN "new"
    ELSE IF protos[id] # old.matchers[IndexOf(old.matchers, id)].hash THEN "replace"
    ELSE IF protos[id].kind = "simple" THEN "preserve"
    ELSE LET kids == protos[id].child
             Status(k) == IF \/ kids[k] \notin DOMAIN protos
                             \/ kids[k] \in stack \cup {id}
                          THEN "unknown"
                          ELSE determineMatcherUpdateStatus(protos, old, kids[k],
                                                            stack \cup {id})
             Stops == {k \in DOMAIN kids : Status(k) \in {"unknown", "replace"}}
         IN  IF Stops = {} THEN "preserve" ELSE Status(Min(Stops))

LastOf(nodes) == [id \in Ids(nodes) |-> Last(SelectSeq(nodes, LAMBDA n : n.id = id))]

updateAtomMatchingTrackers(c, old, born) ==
    LET ns      == c.matcher
        nodes   == LastOf(ns)
        status  == [id \in DOMAIN nodes |-> determineMatcherUpdateStatus(nodes, old, id, {})]
        failed  == {id \in DOMAIN nodes :
                        \/ status[id] = "unknown"
                        \/ /\ status[id] \in {"new", "replace"}
                           /\ ~createAtomMatchingTracker(nodes[id])}
        protos  == [id \in DOMAIN nodes \ failed |-> nodes[id]]
        bad     == Duplicated(ns) \cup failed
                     \cup {id \in DOMAIN protos : ~MatcherTrackerValid(protos, id, {})}
        valid   == SelectSeq(ns, LAMBDA m : m.id \notin bad)
        Tracker(id) == IF status[id] = "preserve"
                       THEN old.matchers[IndexOf(old.matchers, id)]
                       ELSE MatcherTracker(nodes[id], born)
        kept    == {id \in DOMAIN nodes : status[id] = "preserve"}
    IN  [trackers |-> InitInOrder([i \in DOMAIN valid |-> Tracker(valid[i].id)], kept),
         replaced |-> {id \in DOMAIN nodes : status[id] = "replace"},
         invalid  |-> {<<"matcher", id>> : id \in bad}]

RECURSIVE determineConditionUpdateStatus(_, _, _, _, _)
determineConditionUpdateStatus(protos, old, replacedMatchers, id, stack) ==
    IF id \notin Ids(old.conds) THEN "new"
    ELSE IF protos[id] # old.conds[IndexOf(old.conds, id)].hash THEN "replace"
    ELSE IF protos[id].kind = "simple"
         THEN IF Range(SimpleMatchers(protos[id])) \cap replacedMatchers # {}
              THEN "replace" ELSE "preserve"
    ELSE LET kids == protos[id].child
             Status(k) == IF \/ kids[k] \notin DOMAIN protos
                             \/ kids[k] \in stack \cup {id}
                          THEN "unknown"
                          ELSE determineConditionUpdateStatus(protos, old, replacedMatchers,
                                                              kids[k], stack \cup {id})
             Stops == {k \in DOMAIN kids : Status(k) \in {"unknown", "replace"}}
         IN  IF Stops = {} THEN "preserve" ELSE Status(Min(Stops))

updateConditions(c, old, matchers, replacedMatchers, invalid, born) ==
    LET ns      == c.predicate
        nodes   == LastOf(ns)
        status  == [id \in DOMAIN nodes |->
                       determineConditionUpdateStatus(nodes, old, replacedMatchers, id, {})]
        failed  == {id \in DOMAIN nodes :
                        \/ status[id] = "unknown"
                        \/ /\ status[id] \in {"new", "replace"}
                           /\ ~createConditionTracker(nodes[id], invalid)}
        protos  == [id \in DOMAIN nodes \ failed |-> nodes[id]]
        bad     == Duplicated(ns) \cup failed
                     \cup {id \in DOMAIN protos : ~ConditionTrackerValid(protos, id, {})}
        valid   == SelectSeq(ns, LAMBDA p : p.id \notin bad)
        objects == [id \in Ids(valid) |-> IF status[id] = "preserve"
                      THEN old.conds[IndexOf(old.conds, id)] ELSE NewCondition(born)]
    IN  [trackers |-> ConditionTrackers(valid, protos, matchers, objects),
         protos   |-> protos,
         replaced |-> {id \in DOMAIN nodes : status[id] = "replace"},
         invalid  |-> {<<"predicate", id>> : id \in bad}]

updateStates(c, old) ==
    LET new == initStates(c)
    IN  [states   |-> new,
         replaced |-> {s \in DOMAIN old.states \cap DOMAIN new : new[s] # old.states[s]}]

\* set_intersection walks both ranges once and expects both to be sorted;
\* slice_by_state is in the order of the config.
RECURSIVE SetIntersects(_, _)
SetIntersects(s, t) ==
    /\ s # <<>> /\ t # <<>>
    /\ \/ Head(s) = Head(t)
       \/ Head(s) < Head(t) /\ SetIntersects(Tail(s), t)
       \/ Head(s) > Head(t) /\ SetIntersects(s, Tail(t))

\* Mutant: deactivation matchers are not looked at.
metricActivationDepsChange_onlyActivation(env, m, replacedMatchers) ==
    \E a \in Range(EventActivations(env, m)) : a.matcher \in replacedMatchers

metricActivationDepsChange(env, m, replacedMatchers) ==
    \E a \in Range(EventActivations(env, m)) : {a.matcher, a.deact} \cap replacedMatchers # {}

MatcherDependencies(m) == IF m.type = "duration" THEN {} ELSE {m.what, m.trigger} \ {None}

ConditionDependencies(m) ==
    ({m.cond} \ {None}) \cup (IF m.type = "duration" THEN {m.what} ELSE {})

StateDependencies(m) == IF m.type \in {"event", "gauge"} THEN <<>> ELSE m.states

\* rep holds the replaced matchers, conditions and states.
determineMetricUpdateStatus(env, m, old, rep) ==
    LET p == old.producers[IndexOf(old.producers, m.id)]
    IN  IF m.id \notin Ids(old.producers) THEN "new"
        ELSE IF \/ p.type # m.type
                \/ p.hash # getMetricProtoHash(env, m)
                \/ MatcherDependencies(m) \cap rep.matchers # {}
                \/ ConditionDependencies(m) \cap rep.conds # {}
                \/ SetIntersects(StateDependencies(m), SetToSortSeq(rep.states, <))
                \/ \E l \in Range(m.links) : l.cond \in rep.conds
                \/ metricActivationDepsChange(env, m, rep.matchers)
             THEN "replace"
             ELSE "preserve"

determineAllMetricUpdateStatuses(env, c, old, rep) ==
    [m \in Range(c.metric) |-> determineMetricUpdateStatus(env, m, old, rep)]

checkMetricUpdate(env, m, old, p) ==
    /\ m.id \in Ids(old.producers)
    /\ checkMetricActivationOnConfigUpdate(env, m, old, p)

\* One metric: u holds what is the same for all metrics of the update.
updateMetric(u, acc, m) ==
    LET p == u.old.producers[IndexOf(u.old.producers, m.id)]
        keep == u.status[m] = "preserve"
    IN  IF \/ ~isNewMetricValid([u.env EXCEPT !.invalid = acc.invalid], m)
           \/ keep /\ ~checkMetricUpdate(u.env, m, u.old, p)
        THEN [acc EXCEPT !.invalid = @ \cup {<<"metric", m.id>>}]
        ELSE IF keep
        THEN [acc EXCEPT !.producers = Append(@, onConfigUpdated(u.env, m, u.old, p))]
        ELSE [acc EXCEPT
                !.producers = Append(@, createMetricProducer(u.env, m, u.born)),
                !.replaced = @ \cup (IF u.status[m] = "replace" THEN {m.id} ELSE {})]

UpdateMetricsOf(u, acc, c, type) ==
    FoldLeft(LAMBDA x, m : updateMetric(u, x, m), acc,
             SelectSeq(c.metric, LAMBDA m : m.type = type))

updateCountMetrics(u, acc, c)    == UpdateMetricsOf(u, acc, c, "count")
updateDurationMetrics(u, acc, c) == UpdateMetricsOf(u, acc, c, "duration")
updateEventMetrics(u, acc, c)    == UpdateMetricsOf(u, acc, c, "event")
updateValueMetrics(u, acc, c)    == UpdateMetricsOf(u, acc, c, "value")
updateGaugeMetrics(u, acc, c)    == UpdateMetricsOf(u, acc, c, "gauge")
updateKllMetrics(u, acc, c)      == UpdateMetricsOf(u, acc, c, "kll")

UpdateAllTypes(u, start, c) ==
    LET pushed == updateEventMetrics(u, updateDurationMetrics(u, updateCountMetrics(u, start, c),
                                                              c), c)
    IN  updateKllMetrics(u, updateGaugeMetrics(u, updateValueMetrics(u, pushed, c), c), c)

updateMetrics(env, c, old, rep, born) ==
    LET start == [producers |-> <<>>, invalid |-> env.invalid \cup MultipleActivations(c),
                  replaced |-> {}]
        u == [env |-> env, old |-> old, born |-> born,
              status |-> determineAllMetricUpdateStatuses(env, c, old, rep)]
    IN  IF RestrictedUnsupported(c)
        THEN [start EXCEPT !.invalid = env.invalid \cup {<<"config", 0>>}]
        ELSE NoReportChecked(c, UpdateAllTypes(u, start, c))

-----------------------------------------------------------------------------
(* Alerts, alarms and subscriptions.                                       *)

isNewAlertValid(a, producers, invalid) ==
    /\ <<"alert", a.id>> \notin invalid
    /\ <<"metric", a.metric>> \notin invalid
    /\ a.metric \in Ids(producers)
    /\ a.threshold # None
    /\ a.threshold >= 0 /\ a.buckets > 0

createAnomalyTracker(a, born) == [id |-> a.id, hash |-> a, born |-> born, subs |-> {}]

addAnomalyTracker(producers, a) ==
    [producers EXCEPT ![IndexOf(producers, a.metric)].alerts = Append(@, a.id)]

AddAlert(acc, a, tracker) ==
    IF isNewAlertValid(a, acc.producers, acc.invalid)
    THEN [acc EXCEPT !.alerts = Append(@, tracker),
                     !.producers = addAnomalyTracker(@, a)]
    ELSE [acc EXCEPT !.invalid = @ \cup {<<"alert", a.id>>}]

\* The subscriptions of rules of this type, an ALERT or an ALARM.
initSubscribers(c, type, rules, invalid) ==
    LET subs == SelectSeq(c.subscription, LAMBDA s : s.type = type)
        Ok(s) == s.info /\ <<type, s.rule>> \notin invalid /\ s.rule \in Ids(rules)
    IN  [rules |-> [i \in DOMAIN rules |->
                      [rules[i] EXCEPT !.subs = {s.id : s \in {x \in Range(subs) :
                                                    Ok(x) /\ x.rule = rules[i].id}}]],
         invalid |-> invalid \cup {<<"subscription", s.id>> : s \in {x \in Range(subs) : ~Ok(x)}}]

AlertSubscribers(c, metrics) ==
    LET subs == initSubscribers(c, "alert", metrics.alerts, metrics.invalid)
    IN  [metrics EXCEPT !.alerts = subs.rules, !.invalid = subs.invalid]

NoAlerts(metrics) ==
    [producers |-> metrics.producers, invalid |-> metrics.invalid, alerts |-> <<>>]

initAlerts(c, metrics, born) ==
    LET Step(acc, a) == AddAlert(acc, a, createAnomalyTracker(a, born))
    IN  AlertSubscribers(c, FoldLeft(Step, NoAlerts(metrics), c.alert))

determineAlertUpdateStatus(a, old, replacedMetrics) ==
    IF a.id \notin Ids(old.alerts) THEN "new"
    ELSE IF \/ old.alerts[IndexOf(old.alerts, a.id)].hash # a
            \/ a.metric \in replacedMetrics
         THEN "replace" ELSE "preserve"

\* AnomalyTracker::onConfigUpdated forgets the subscriptions.
updateAlerts(c, old, metrics, born) ==
    LET Tracker(a) == IF determineAlertUpdateStatus(a, old, metrics.replaced) = "preserve"
                      THEN [old.alerts[IndexOf(old.alerts, a.id)] EXCEPT !.subs = {}]
                      ELSE createAnomalyTracker(a, born)
        Step(acc, a) == AddAlert(acc, a, Tracker(a))
    IN  AlertSubscribers(c, FoldLeft(Step, NoAlerts(metrics), c.alert))

initAlarms(c, invalid, born) ==
    LET Ok(a) == a.offset > 0 /\ a.period > 0
        good  == SelectSeq(c.alarm, Ok)
        rules == [i \in DOMAIN good |->
                    [id |-> good[i].id, hash |-> good[i], born |-> born, subs |-> {}]]
    IN  initSubscribers(c, "alarm", rules,
                        invalid \cup {<<"alarm", a.id>> : a \in {x \in Range(c.alarm) : ~Ok(x)}})

-----------------------------------------------------------------------------
(* The whole config.                                                       *)

CertHashTooLarge(c) == c.certSize > 255

Env(c, matchers, conds, states, invalid) ==
    [matchers |-> matchers, conds |-> conds.trackers, protos |-> conds.protos,
     states |-> states, act |-> MetricToActivation(c), anyUid |-> c.anyUid,
     invalid |-> invalid]

EmptyManager(c, born, invalid) ==
    [matchers |-> <<>>, conds |-> <<>>, states |-> <<>>, producers |-> <<>>,
     alerts |-> <<>>, alarms |-> <<>>, noReport |-> {}, invalid |-> invalid,
     delegate |-> c.delegate, born |-> born]

Assemble(c, born, matchers, conds, states, metrics) ==
    LET alarms == initAlarms(c, metrics.invalid, born)
    IN  [EmptyManager(c, born, alarms.invalid) EXCEPT
            !.matchers = matchers, !.conds = conds, !.states = states,
            !.producers = metrics.producers, !.alerts = metrics.alerts,
            !.alarms = alarms.rules,
            !.noReport = Range(c.noReport) \cap Ids(metrics.producers)]

\* initStatsdConfig, the matchers ms and the conditions cs at hand.
InitFrom(c, born, ms, cs) ==
    LET st  == initStates(c)
        env == Env(c, ms.trackers, cs, st, ms.invalid \cup cs.invalid)
    IN  Assemble(c, born, ms.trackers, cs.trackers, st,
                 initAlerts(c, initMetrics(env, c, born), born))

initStatsdConfig(c, born) ==
    LET Conditions(ms) == initConditions(c, ms.trackers, ms.invalid, born)
        From(ms) == InitFrom(c, born, ms, Conditions(ms))
    IN  IF CertHashTooLarge(c) THEN EmptyManager(c, born, {<<"config", 0>>})
        ELSE From(initAtomMatchingTrackers(c, born))

\* updateStatsdConfig, the matchers ms and the conditions cs at hand.
UpdateFrom(c, old, born, ms, cs) ==
    LET st  == updateStates(c, old)
        env == Env(c, ms.trackers, cs, st.states, ms.invalid \cup cs.invalid)
        rep == [matchers |-> ms.replaced, conds |-> cs.replaced, states |-> st.replaced]
        With(me) ==
          [manager  |-> [Assemble(c, born, ms.trackers, cs.trackers, st.states,
                                  updateAlerts(c, old, me, born)) EXCEPT !.born = old.born],
           replaced |-> me.replaced]
    IN  With(updateMetrics(env, c, old, rep, born))

updateStatsdConfig(c, old, born) ==
    LET Conditions(ms) == updateConditions(c, old, ms.trackers, ms.replaced, ms.invalid, born)
        From(ms) == UpdateFrom(c, old, born, ms, Conditions(ms))
    IN  IF CertHashTooLarge(c)
        THEN [manager  |-> EmptyManager(c, old.born, {<<"config", 0>>}), replaced |-> {}]
        ELSE From(updateAtomMatchingTrackers(c, old, born))

\* createAllLogSourcesFromConfig and verifyGuardrailsAndUpdateStatsdStats.
createAllLogSourcesFromConfig(c) ==
    IF c.sources > MaxSources \/ c.pullPackages > MaxPullPackages \/ c.pullUnknown
    THEN {<<"config", 0>>} ELSE {}

verifyGuardrails(manager) ==
    IF \/ Len(manager.producers) > MaxMetrics
       \/ Len(manager.conds) > MaxConditions
       \/ Len(manager.matchers) > MaxMatchers
       \/ Len(manager.alerts) > MaxAlerts
    THEN {<<"config", 0>>} ELSE {}

Verified(c, manager) ==
    [manager EXCEPT !.invalid = @ \cup createAllLogSourcesFromConfig(c)
                                  \cup verifyGuardrails(manager)]

isConfigValid(manager) ==
    IF PartialInvalid THEN <<"config", 0>> \notin manager.invalid ELSE manager.invalid = {}

SlicedStateAtoms(p) == {p.states[k].atom : k \in DOMAIN p.states}

registerListeners(producers) ==
    UNION {{<<a, IdentityOf(p)>> : a \in SlicedStateAtoms(p)} : p \in Range(producers)}

\* StateManager keeps a tracker while it has a listener, alive or not.
unregisterListeners(ls, producers) == ls \ registerListeners(producers)

\* Old producers that are gone, or have a successor: onMetricRemove.
RemovedBy(old, new, replaced) ==
    SelectSeq(old.producers, LAMBDA p : p.id \notin Ids(new.producers) \/ p.id \in replaced)

ToldOf(new) == IF new.delegate = None THEN told
               ELSE [told EXCEPT ![new.delegate] = Ids(new.producers)]

ToldEmpty(old) == IF old.delegate = None THEN told ELSE [told EXCEPT ![old.delegate] = {}]

DelegateOf(manager) == IF manager = None THEN {} ELSE {manager.delegate} \ {None}

\* The delegate new takes the place of the one there was, which is not told.
SupersededBy(new) == (superseded \cup DelegateOf(mm)) \ DelegateOf(new)

\* A manager made from scratch; the one there was, if any, is destroyed.
CreateManager(c) ==
    \E new \in {Verified(c, initStatsdConfig(c, gen'))} :
      LET ls   == listeners \cup registerListeners(new.producers)
          dead == IF mm = None THEN <<>> ELSE mm.producers
      IN  /\ removed' = removed
          /\ IF isConfigValid(new)
             THEN /\ mm' = new
                  /\ told' = IF new.delegate # None \/ mm = None THEN ToldOf(new)
                             ELSE ToldEmpty(mm)
                  /\ superseded' = IF new.delegate = None THEN superseded ELSE SupersededBy(new)
                  /\ listeners' = unregisterListeners(ls, dead)
             ELSE /\ mm' = None
                  /\ told' = IF mm = None THEN told ELSE ToldEmpty(mm)
                  /\ superseded' = superseded
                  /\ listeners' = unregisterListeners(ls, new.producers \o dead)

\* The producers this update created: those whose status is not preserve.
NewProducers(new) == SelectSeq(new.producers, LAMBDA p : p.born = gen')

updateConfig(c) ==
    \E up \in {updateStatsdConfig(c, mm, gen')} : \E new \in {Verified(c, up.manager)} :
      LET ls   == listeners \cup registerListeners(NewProducers(new))
          gone == RemovedBy(mm, new, up.replaced)
      IN  /\ removed' = IF CertHashTooLarge(c) \/ RestrictedUnsupported(c) THEN removed
                        ELSE removed \o [k \in DOMAIN gone |-> IdentityOf(gone[k])]
          /\ superseded' = SupersededBy(new)
          /\ IF isConfigValid(new)
             THEN /\ mm' = new
                  /\ told' = ToldOf(new)
                  /\ listeners' = ls
             ELSE /\ mm' = None
                  /\ told' = ToldEmpty(new)
                  /\ listeners' = unregisterListeners(ls, new.producers)

OnConfigUpdated(c, modular) ==
    /\ gen < MaxUpdates
    /\ gen' = gen + 1
    /\ config' = c
    /\ IF mm # None /\ modular /\ (mm.delegate = None <=> c.delegate = None)
       THEN updateConfig(c)
       ELSE CreateManager(c)

Init ==
    /\ mm = None
    /\ config = None
    /\ gen = 0
    /\ listeners = {}
    /\ removed = <<>>
    /\ told = [d \in Delegates |-> {}]
    /\ superseded = {}

Next ==
    \E c \in IF gen < 2 THEN Pool ELSE LatePool, modular \in BOOLEAN :
        OnConfigUpdated(c, modular)

Spec == Init /\ [][Next]_vars

-----------------------------------------------------------------------------
(* Properties.                                                             *)

MatcherId(manager, i)   == IF i > 0 THEN manager.matchers[i].id ELSE None
ConditionId(manager, i) == IF i > 0 THEN manager.conds[i].id ELSE None
IdsAt(nodes, indices)   == [k \in DOMAIN indices |-> nodes[indices[k]].id]

\* Conditions with these ids, and those that combine them.
RECURSIVE WithParents(_, _)
WithParents(c, ids) ==
    LET up == ids \cup {p.id : p \in {q \in Range(c.predicate) : Range(q.child) \cap ids # {}}}
    IN  IF up = ids THEN ids ELSE WithParents(c, up)

\* Conditions that rest on a matcher the config does not have, or has and is invalid.
Orphans(c, g) ==
    WithParents(c, {p.id : p \in {q \in Range(c.predicate) :
                        ~(Range(SimpleMatchers(q)) \ {None} \subseteq Ids(g.matchers))}})

\* The entities of c that hang on an orphan.
Loose(c, orphans) ==
    LET metrics == {m.id : m \in {x \in Range(c.metric) :
                      (ConditionDependencies(x) \cup {l.cond : l \in Range(x.links)})
                          \cap orphans # {}}}
        alerts  == {a.id : a \in {x \in Range(c.alert) : x.metric \in metrics}}
        subs    == {s.id : s \in {x \in Range(c.subscription) :
                                     x.type = "alert" /\ x.rule \in alerts}}
    IN  ({"predicate"} \X orphans) \cup ({"metric"} \X metrics)
          \cup ({"alert"} \X alerts) \cup ({"subscription"} \X subs)

Ascending(seq) == \A i, j \in DOMAIN seq : i < j => seq[i] < seq[j]

\* A manager without its loose entities, with every index replaced by the id it
\* stands for and without the identities of its objects.  The states of a metric
\* whose slice_by_state is not ascending are left out.
ById(g, loose) ==
    LET Firm(type, seq) == {x \in Range(seq) : <<type, x.id>> \notin loose}
    IN
    [matchers |-> {<<t.hash, t.tags, IdsAt(g.matchers, t.child)>> : t \in Range(g.matchers)},
     conds |-> {<<c.hash, [k \in DOMAIN c.roles |-> MatcherId(g, c.roles[k])],
                  {MatcherId(g, i) : i \in c.idx}, IdsAt(g.conds, c.child)>> :
                    c \in Firm("predicate", g.conds)},
     producers |-> {<<p.hash, p.type, [k \in DOMAIN p.whats |-> MatcherId(g, p.whats[k])],
                      ConditionId(g, p.cond), p.pull, p.hasAct, p.alerts,
                      IF Ascending(p.hash[1].states) THEN p.states ELSE <<>>,
                      {<<MatcherId(g, i), p.acts[i][2]>> : i \in DOMAIN p.acts},
                      {<<MatcherId(g, d[1]), d[2][2]>> : d \in p.deacts}>> :
                        p \in Firm("metric", g.producers)},
     alerts |-> {<<a.hash, a.subs>> : a \in Firm("alert", g.alerts)},
     alarms |-> {<<a.hash, a.subs>> : a \in Range(g.alarms)},
     rest |-> <<g.states, {id \in g.noReport : <<"metric", id>> \notin loose},
                g.invalid \ loose, g.delegate>>]

\* Types, and no dangling index: every index a tracker or a producer holds is
\* one of the vectors of the manager it is in.
TypeOK ==
    /\ gen \in 0..MaxUpdates
    /\ config = None \/ config \in Pool
    /\ mm # None =>
          /\ isConfigValid(mm)
          /\ \A t \in Range(mm.matchers) \cup Range(mm.conds) \cup Range(mm.producers)
                        \cup Range(mm.alerts) \cup Range(mm.alarms) : t.born \in 1..gen
          /\ \A c \in Range(mm.conds) : c.idx \subseteq DOMAIN mm.matchers
          /\ \A p \in Range(mm.producers) :
                /\ Range(p.whats) \subseteq 0..Len(mm.matchers)
                /\ p.cond \in 0..Len(mm.conds)
                /\ DOMAIN p.acts \subseteq DOMAIN mm.matchers
    /\ \A l \in listeners : l[2].born \in 1..gen

\* After any sequence of updates the manager is wired exactly as a statsd that
\* starts with the last config: updateStatsdConfig refreshes every index,
\* activation, alert and subscription of what it keeps.  Except what hangs on an
\* orphan: an unchanged predicate is kept although its matcher was removed or is
\* invalid now, with the index of the config before (setMatcherIndices), where a
\* fresh tracker has no index or is refused.
UpdateEqualsInit ==
    config # None =>
        \E fresh \in {Verified(config, initStatsdConfig(config, gen))} :
        \E orphans \in {Orphans(config, fresh)} :
            /\ mm # None => isConfigValid(fresh)
            /\ isConfigValid(fresh) /\ orphans = {} => mm # None
            /\ mm # None =>
                  ById(mm, Loose(config, orphans)) = ById(fresh, Loose(config, orphans))

\* All the nodes a metric is built from, through combinations.
RECURSIVE MatcherNodes(_, _)
MatcherNodes(c, ids) ==
    LET here == {n \in Range(c.matcher) : n.id \in ids}
    IN  IF here = {} THEN {}
        ELSE here \cup MatcherNodes(c, UNION {Range(n.child) : n \in here})

RECURSIVE ConditionNodes(_, _)
ConditionNodes(c, ids) ==
    LET here == {n \in Range(c.predicate) : n.id \in ids}
    IN  IF here = {} THEN {}
        ELSE here \cup ConditionNodes(c, UNION {Range(n.child) : n \in here})
                  \cup MatcherNodes(c, UNION {Range(SimpleMatchers(n)) : n \in here})

StateNodes(c, m) == {s \in Range(c.state) : s.id \in Range(m.states)}

\* But for its states.
MetricNodes(c, id) ==
    LET ms == {m \in Range(c.metric) : m.id = id}
        as == {a \in Range(c.activation) : a.metric = id}
    IN  ms \cup as
        \cup ConditionNodes(c, UNION {{m.what, m.cond} \cup {l.cond : l \in Range(m.links)} :
                                        m \in ms})
        \cup MatcherNodes(c, UNION {{m.what, m.trigger} : m \in ms}
                               \cup UNION {{e.matcher, e.deact} :
                                             e \in UNION {Range(a.event) : a \in as}})

\* The config with these matchers only.
HeldConfig(c, ids) == [c EXCEPT !.matcher = SelectSeq(@, LAMBDA m : m.id \in ids)]

Identities == IF mm = None THEN {} ELSE {IdentityOf(p) : p \in Range(mm.producers)}

InPlace == mm # None /\ mm' # None /\ mm'.born = mm.born

\* A modular update keeps a metric's producer, and with it the data of its
\* current bucket, exactly when nothing the metric is built from has changed.
\* Two changes go unnoticed: of a matcher that only one of the two configs has,
\* below a condition (replacedMatchers has ids of both), and of a state of a
\* metric whose slice_by_state is not ascending (set_intersection).
KeptIffUnchanged ==
    [][InPlace =>
        LET both == Ids(mm.matchers) \cap Ids(mm'.matchers)
        IN  \A p \in Range(mm.producers) :
              LET built  == /\ p.id \in Ids(mm'.producers)
                            /\ MetricNodes(HeldConfig(config, both), p.id)
                                 = MetricNodes(HeldConfig(config', both), p.id)
                  states == StateNodes(config, p.hash[1]) = StateNodes(config', p.hash[1])
                  kept   == IdentityOf(p) \in Identities'
              IN  /\ built /\ states => kept
                  /\ kept => built /\ (Ascending(p.hash[1].states) => states)]_vars

\* An anomaly tracker is kept only together with the producer it watches.
AlertKeptWithMetric ==
    [][InPlace =>
        \A a \in Range(mm.alerts) :
            a.born # gen' /\ (\E b \in Range(mm'.alerts) : b.id = a.id /\ b.born = a.born)
              => \E p \in Range(mm.producers) : p.id = a.hash.metric
                                                  /\ IdentityOf(p) \in Identities']_vars

\* onMetricRemove is called once on every producer an update in place drops,
\* and on no other: a restricted metric's table is dropped with it.
RemovedExactly ==
    /\ \A i, j \in DOMAIN removed : i # j => removed[i] # removed[j]
    /\ Range(removed) \cap Identities = {}

DroppedIsRemoved ==
    [][InPlace => (Identities \ Identities') \subseteq Range(removed')]_vars

\* Every live producer sliced by state is a listener of its state atoms.
LiveAreListeners == mm # None => registerListeners(mm.producers) \subseteq listeners

\* A delegate was last told of the metrics of the config that names it, and of
\* no metrics once no config does.  A delegate that a config replaced by another
\* one is not told: both ways of OnConfigUpdatedLocked tell the new delegate only.
DelegateInformed ==
    /\ mm # None /\ mm.delegate # None => /\ mm.delegate \notin superseded
                                          /\ told[mm.delegate] = Ids(mm.producers)
    /\ \A d \in Delegates \ (superseded \cup DelegateOf(mm)) : told[d] = {}

\* After an update in place the manager is what a fresh start would build, and
\* what the old objects registered elsewhere went with them.
UpdateSound ==
    TypeOK /\ UpdateEqualsInit /\ RemovedExactly /\ LiveAreListeners /\ DelegateInformed

\* An update in place keeps the producers and trackers nothing changed for, and
\* removes each one it drops (determineMetricUpdateStatus, updateMetrics).
UpdateKeepsUnchanged == KeptIffUnchanged /\ AlertKeptWithMetric /\ DroppedIsRemoved
=============================================================================
