--------------------------- MODULE ConfigParsing ---------------------------
(***************************************************************************)
(* initStatsdConfig: how MetricsManager turns a StatsdConfig into matcher  *)
(* trackers, condition trackers, metric producers, anomaly trackers and    *)
(* alarm trackers that refer to each other by index.                       *)
(*                                                                         *)
(* A config is a record of sequences of nodes.  A node is its proto, and   *)
(* the proto itself stands for its hash.  The reason an entity is invalid  *)
(* for is left out: "invalid" is a set of <<entity type, id>>.  A tracker  *)
(* carries "born", the number of the config it was created by, which is    *)
(* its object identity.                                                    *)
(***************************************************************************)
EXTENDS Integers, Sequences, FiniteSets, SequencesExt, FiniteSetsExt

CONSTANTS
    None,            \* an unset optional field
    PulledAtoms      \* atoms a puller is registered for

Ids(nodes) == {nodes[i].id : i \in DOMAIN nodes}

\* Position of the tracker or the node with this id: the *TrackerMap lookups.
IndexOf(seq, id) == CHOOSE i \in DOMAIN seq : seq[i].id = id

-----------------------------------------------------------------------------
(* Matchers.  A field value matcher is [pos, val, replace, child].         *)

RECURSIVE FvmPositionsOk(_, _, _)
FvmPositionsOk(f, inAll, inAny) ==
    LET all == inAll \/ f.pos = "all"
        any == inAny \/ f.pos = "any"
    IN  IF f.val = "tuple"
        THEN \A i \in DOMAIN f.child : FvmPositionsOk(f.child[i], all, any)
        ELSE /\ ~(all /\ f.val # "unset")
             /\ ~(any /\ f.val = "unset" /\ f.replace)

validateSimpleAtomMatcher(m) ==
    \A f \in Range(m.fvm) :
        /\ f.val # "unset" \/ f.replace
        /\ f.replace => f.val \in {"unset", "string"}
        /\ FvmPositionsOk(f, FALSE, FALSE)

\* Whether createAtomMatchingTracker returns a tracker.
createAtomMatchingTracker(m) ==
    \/ m.kind = "simple" /\ validateSimpleAtomMatcher(m)
    \/ m.kind = "comb"

MatcherTracker(m, gen) ==
    [id |-> m.id, hash |-> m, born |-> gen, child |-> <<>>,
     tags |-> IF m.kind = "simple" THEN {m.atom} \ {None} ELSE {}]

\* isTrackerValid of the matcher id; protos holds the nodes with a tracker.
RECURSIVE MatcherTrackerValid(_, _, _)
MatcherTrackerValid(protos, id, stack) ==
    LET m == protos[id]
    IN  IF m.kind = "simple" THEN m.atom # None
        ELSE /\ m.op # None
             /\ m.op = "not" => Len(m.child) = 1
             /\ \A ch \in Range(m.child) :
                    /\ ch \in DOMAIN protos
                    /\ ch \notin stack \cup {id}
                    /\ MatcherTrackerValid(protos, ch, stack \cup {id})
                    /\ ~(protos[ch].kind = "simple"
                           /\ \E f \in Range(protos[ch].fvm) : f.replace)

\* CombinationAtomMatchingTracker::init reads the tags its children have now.
MatcherInit(trackers, i) ==
    LET t == trackers[i]
        kids == [k \in DOMAIN t.hash.child |-> IndexOf(trackers, t.hash.child[k])]
    IN  IF t.hash.kind = "simple" THEN t
        ELSE [t EXCEPT !.child = kids,
                       !.tags = @ \cup UNION {trackers[kids[k]].tags : k \in DOMAIN kids}]

\* CombinationAtomMatchingTracker::onConfigUpdated: indices only.
MatcherOnConfigUpdated(trackers, i) ==
    [trackers[i] EXCEPT !.child =
        [k \in DOMAIN trackers[i].hash.child |->
            IndexOf(trackers, trackers[i].hash.child[k])]]

\* Initialise the trackers in config order; those in keep were preserved.
InitInOrder(trackers, keep) ==
    FoldLeft(LAMBDA ts, i :
                [ts EXCEPT ![i] = IF ts[i].id \in keep THEN MatcherOnConfigUpdated(ts, i)
                                                       ELSE MatcherInit(ts, i)],
             trackers, [i \in DOMAIN trackers |-> i])

Duplicated(nodes) ==
    {id \in Ids(nodes) : Cardinality({i \in DOMAIN nodes : nodes[i].id = id}) > 1}

\* The first of the nodes with this id.
FirstNode(nodes, id) == nodes[Min({i \in DOMAIN nodes : nodes[i].id = id})]

initAtomMatchingTrackers(c, gen) ==
    LET ns      == c.matcher
        created == {ns[i].id : i \in {j \in DOMAIN ns : createAtomMatchingTracker(ns[j])}}
        failed  == {ns[i].id : i \in {j \in DOMAIN ns : ~createAtomMatchingTracker(ns[j])}}
        protos  == [id \in created |->
                       FirstNode(SelectSeq(ns, createAtomMatchingTracker), id)]
        bad     == Duplicated(ns) \cup failed
                     \cup {id \in created : ~MatcherTrackerValid(protos, id, {})}
        valid   == SelectSeq(ns, LAMBDA m : m.id \notin bad)
    IN  [trackers |-> InitInOrder([i \in DOMAIN valid |-> MatcherTracker(valid[i], gen)], {}),
         invalid  |-> {<<"matcher", id>> : id \in bad}]

-----------------------------------------------------------------------------
(* Conditions.  A predicate is simple [start, stop, stopAll] or comb.      *)

SimpleMatchers(p) == <<p.start, p.stop, p.stopAll>>

createConditionTracker(p, invalid) ==
    \/ /\ p.kind = "simple"
       /\ \A m \in Range(SimpleMatchers(p)) : <<"matcher", m>> \notin invalid
    \/ /\ p.kind = "comb"
       /\ p.op # None
       /\ p.op = "not" => Len(p.child) = 1

RECURSIVE ConditionTrackerValid(_, _, _)
ConditionTrackerValid(protos, id, stack) ==
    protos[id].kind = "comb" =>
        \A ch \in Range(protos[id].child) :
            /\ ch \in DOMAIN protos
            /\ ch \notin stack \cup {id}
            /\ ConditionTrackerValid(protos, ch, stack \cup {id})

\* setMatcherIndices stops at the first matcher that is not in the config; the
\* index of that role and of those after it stay what they were before.
setMatcherIndices(p, matchers, before) ==
    LET roles == SimpleMatchers(p)
        Ok(k) == \A j \in 1..k : roles[j] = None \/ roles[j] \in Ids(matchers)
    IN  [k \in DOMAIN roles |->
            IF ~Ok(k) THEN before[k]
            ELSE IF roles[k] = None THEN 0 ELSE IndexOf(matchers, roles[k])]

\* mTrackerIndex: the matchers that make the condition be evaluated.
RECURSIVE TrackerIndices(_, _, _)
TrackerIndices(protos, id, matchers) ==
    IF protos[id].kind = "simple"
    THEN LET roles == SimpleMatchers(protos[id])
         IN  {IndexOf(matchers, roles[k]) :
                k \in {i \in DOMAIN roles : /\ roles[i] # None
                                            /\ \A j \in 1..i : roles[j] \in Ids(matchers) \cup {None}}}
    ELSE UNION {TrackerIndices(protos, ch, matchers) : ch \in Range(protos[id].child)}

\* The roles of a new SimpleConditionTracker are uninitialised integers.
Junk == -1
NewCondition(gen) == [born |-> gen, roles |-> <<Junk, Junk, Junk>>]

\* init or onConfigUpdated of the valid conditions ps, from the object each one is in objects.
ConditionTrackers(ps, protos, matchers, objects) ==
    [i \in DOMAIN ps |->
        [id |-> ps[i].id, hash |-> ps[i], born |-> objects[ps[i].id].born,
         roles |-> IF ps[i].kind = "simple"
                   THEN setMatcherIndices(ps[i], matchers, objects[ps[i].id].roles)
                   ELSE <<0, 0, 0>>,
         idx |-> TrackerIndices(protos, ps[i].id, matchers),
         child |-> [k \in DOMAIN ps[i].child |-> IndexOf(ps, ps[i].child[k])]]]

initConditions(c, matchers, invalid, gen) ==
    LET ns      == c.predicate
        Ok(p)   == createConditionTracker(p, invalid)
        created == {ns[i].id : i \in {j \in DOMAIN ns : Ok(ns[j])}}
        failed  == {ns[i].id : i \in {j \in DOMAIN ns : ~Ok(ns[j])}}
        protos  == [id \in created |-> FirstNode(SelectSeq(ns, Ok), id)]
        bad     == Duplicated(ns) \cup failed
                     \cup {id \in created : ~ConditionTrackerValid(protos, id, {})}
        valid   == SelectSeq(ns, LAMBDA p : p.id \notin bad)
    IN  [trackers |-> ConditionTrackers(valid, protos, matchers,
                                      [id \in Ids(valid) |-> NewCondition(gen)]),
         protos   |-> protos,
         invalid  |-> {<<"predicate", id>> : id \in bad}]

-----------------------------------------------------------------------------
(* States and activations.                                                 *)

\* stateAtomIdMap and allStateGroupMaps; the state node is its own hash.
initStates(c) == [id \in Ids(c.state) |-> Last(SelectSeq(c.state, LAMBDA s : s.id = id))]

\* metricToActivationMap: the first activation of each metric.
MetricToActivation(c) ==
    [id \in {c.activation[i].metric : i \in DOMAIN c.activation} |->
        Head(SelectSeq(c.activation, LAMBDA a : a.metric = id))]

MultipleActivations(c) ==
    {<<"metric", c.activation[i].metric>> :
        i \in {j \in DOMAIN c.activation :
                 \E k \in 1..(j - 1) : c.activation[k].metric = c.activation[j].metric}}

EventActivations(env, m) == IF m.id \in DOMAIN env.act THEN env.act[m.id].event ELSE <<>>

getMetricProtoHash(env, m) ==
    <<m, IF m.id \in DOMAIN env.act THEN env.act[m.id] ELSE None>>

-----------------------------------------------------------------------------
(* Validity of metrics.  env holds what was parsed before the metrics.     *)

\* Looking an invalid matcher up fails too: only valid ones have an index.
checkMetricAtomMatchingTrackers(env, id, enforceOneAtom) ==
    /\ <<"matcher", id>> \notin env.invalid
    /\ id \in Ids(env.matchers)
    /\ enforceOneAtom =>
           Cardinality(env.matchers[IndexOf(env.matchers, id)].tags) <= 1

checkMetricWithConditions(env, m) ==
    /\ <<"predicate", m.cond>> \notin env.invalid
    /\ m.cond \in Ids(env.conds)
    /\ \A l \in Range(m.links) : l.cond \in Ids(env.conds)

checkMetricWithStates(env, m) ==
    \A s \in Range(m.states) :
        s \in DOMAIN env.states /\ env.states[s].atom \notin env.anyUid

\* The activation matchers are looked up among the invalid predicates.
checkMetricActivation(env, m) ==
    \A a \in Range(EventActivations(env, m)) :
        /\ <<"predicate", a.matcher>> \notin env.invalid
        /\ a.matcher \in Ids(env.matchers)
        /\ a.deact # None => /\ <<"predicate", a.deact>> \notin env.invalid
                             /\ a.deact \in Ids(env.matchers)

\* sampled is None or the set of sampled fields and the shard count.
checkMetricWithDimensionalSampling(m) ==
    m.sampled # None => /\ m.sampled.shards > 1
                        /\ Cardinality(m.sampled.fields) = 1
                        /\ m.sampled.fields \subseteq m.dims

\* Every state link's fields are a subset of the dimensions in what.
checkMetricWithStateLinks(m) == \A f \in Range(m.stateLinks) : f \subseteq m.dims

checkCommonMetricFields(env, m) ==
    /\ <<"metric", m.id>> \notin env.invalid
    /\ m.what # None
    /\ IF m.cond # None THEN checkMetricWithConditions(env, m) ELSE m.links = <<>>
    /\ IF m.states # <<>> THEN checkMetricWithStates(env, m) ELSE m.stateLinks = <<>>
    /\ checkMetricActivation(env, m)
    /\ ~m.uidAny

isNewCountMetricValid(env, m) ==
    /\ checkCommonMetricFields(env, m)
    /\ checkMetricAtomMatchingTrackers(env, m.what, m.dims # {})
    /\ checkMetricWithStateLinks(m)
    /\ m.threshold # "float"
    /\ checkMetricWithDimensionalSampling(m)

isNewDurationMetricValid(env, m) ==
    /\ checkCommonMetricFields(env, m)
    /\ <<"predicate", m.what>> \notin env.invalid
    /\ m.what \in DOMAIN env.protos
    /\ LET p == env.protos[m.what]
       IN  /\ p.kind = "simple"
           /\ p.start # None
           /\ \A id \in Range(SimpleMatchers(p)) \ {None} :
                  checkMetricAtomMatchingTrackers(env, id, m.dims # {})
           /\ m.states # <<>> => m.agg # "max"
           /\ checkMetricWithStateLinks(m)
           /\ m.threshold \in {None, "int"}
           /\ m.dims \subseteq p.dims
           /\ \A l \in Range(m.links) : l.fields \subseteq p.dims
           /\ checkMetricWithDimensionalSampling(m)

isNewEventMetricValid(env, m) ==
    /\ checkCommonMetricFields(env, m)
    /\ m.filterOk
    /\ checkMetricAtomMatchingTrackers(env, m.what, FALSE)
    /\ m.sampling \in 1..100

\* A histogram with client aggregated bins needs position ALL, every other
\* value field must not have it; value is a sequence of [agg, all, bins].
ValueFieldsOk(m) ==
    LET hist == SelectSeq(m.value, LAMBDA v : v.agg = "histogram")
    IN  /\ m.value # <<>>
        /\ \A v \in Range(m.value) : v.all <=> (v.agg = "histogram" /\ v.bins = "client")
        /\ \A v \in Range(hist) : v.bins # None
        /\ m.value[1].agg = "histogram" => m.threshold = None
        /\ hist # <<>> => m.direction \in {None, "increasing"}

isNewNumericValueMetricValid(env, m) ==
    /\ checkCommonMetricFields(env, m)
    /\ ValueFieldsOk(m)
    /\ checkMetricAtomMatchingTrackers(env, m.what, TRUE)
    /\ checkMetricWithStateLinks(m)
    /\ checkMetricWithDimensionalSampling(m)

\* State links that are no subset end the check early, with no reason.
isNewKllMetricValid(env, m) ==
    /\ checkCommonMetricFields(env, m)
    /\ m.value # <<>>
    /\ \A v \in Range(m.value) : ~v.all
    /\ checkMetricAtomMatchingTrackers(env, m.what, TRUE)
    /\ checkMetricWithStateLinks(m) => checkMetricWithDimensionalSampling(m)

AtomOf(env, id) == Min(env.matchers[IndexOf(env.matchers, id)].tags)

\* The pull tag of a matcher: its atom if a puller exists for it.
PullTag(env, id) == IF AtomOf(env, id) \in PulledAtoms THEN AtomOf(env, id) ELSE None

isNewGaugeMetricValid(env, m) ==
    /\ checkCommonMetricFields(env, m)
    /\ m.filterOk
    /\ checkMetricAtomMatchingTrackers(env, m.what, TRUE)
    /\ m.trigger # None => /\ PullTag(env, m.what) # None
                           /\ m.sampleType = "first_n"
                           /\ checkMetricAtomMatchingTrackers(env, m.trigger, TRUE)
    /\ PullTag(env, m.what) # None => m.sampling = 100
    /\ m.sampling \in 1..100
    /\ m.pullProb \in 1..100
    /\ m.pullProb # 100 => PullTag(env, m.what) # None /\ m.sampleType # "random_one"
    /\ checkMetricWithDimensionalSampling(m)

isNewMetricValid(env, m) ==
    CASE m.type = "count"    -> isNewCountMetricValid(env, m)
      [] m.type = "duration" -> isNewDurationMetricValid(env, m)
      [] m.type = "event"    -> isNewEventMetricValid(env, m)
      [] m.type = "value"    -> isNewNumericValueMetricValid(env, m)
      [] m.type = "kll"      -> isNewKllMetricValid(env, m)
      [] m.type = "gauge"    -> isNewGaugeMetricValid(env, m)
=============================================================================
