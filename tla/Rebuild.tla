------------------------------- MODULE Rebuild -------------------------------
(***************************************************************************)
(* What a new plugin or model makes stale: the plugins of a client         *)
(* (plugins/registry.py), the stamps its artifacts carry                   *)
(* (provenance/stamp.py) and the layers that must be made again            *)
(* (provenance/rebuild_planner.py).                                        *)
(***************************************************************************)
EXTENDS Naturals, Sequences, FiniteSets, FiniteSetsExt

-----------------------------------------------------------------------------
(* Plugins: [protocols, name, version], the protocols those it implements *)

SingleSlots == {"extractor", "chunker", "embedding", "vision", "graph_extractor",
                "reranker", "judge", "evaluator", "language_detector", "memory"}

Protocols == SingleSlots \cup {"retriever"}

EmptyRegistry == [slots |-> <<>>, retrievers |-> <<>>]

\* _validate_version
Versioned(plugin) == plugin.version # ""

InSlot(registry, plugin) ==
    LET slot == CHOOSE p \in Protocols : p \in plugin.protocols
    IN  [registry EXCEPT !.slots = [p \in DOMAIN @ \cup {slot} |-> IF p = slot THEN plugin ELSE @[p]]]

\* The first one stays.
InSlotOnce(registry, plugin) ==
    LET slot == CHOOSE p \in Protocols : p \in plugin.protocols
    IN  [registry EXCEPT !.slots = [p \in DOMAIN @ \cup {slot} |-> IF p \in DOMAIN @ THEN @[p] ELSE plugin]]

\* register_retriever: a retriever joins the others, whatever else it is.
RegisterRetriever(registry, plugin) ==
    IF "retriever" \in plugin.protocols /\ Versioned(plugin)
    THEN [registry EXCEPT !.retrievers = Append(@, plugin)] ELSE registry

\* _classify: exactly one protocol, or it is rejected.
Classified(plugin) == \E p \in Protocols : plugin.protocols \cap Protocols = {p}

\* register: the last one has the slot; a retriever is rejected.
Register(registry, plugin) ==
    IF Classified(plugin) /\ "retriever" \notin plugin.protocols /\ Versioned(plugin)
    THEN InSlot(registry, plugin) ELSE registry

\* use
Use(registry, plugin) ==
    IF ~Classified(plugin) THEN registry
    ELSE IF "retriever" \in plugin.protocols THEN RegisterRetriever(registry, plugin)
    ELSE Register(registry, plugin)

Apply(registry, call) ==
    CASE call.verb = "use" -> Use(registry, call.plugin)
      [] call.verb = "register" -> Register(registry, call.plugin)
      [] OTHER -> RegisterRetriever(registry, call.plugin)

RegistryAfter(calls) ==
    LET registry[i \in 0..Len(calls)] ==
          IF i = 0 THEN EmptyRegistry ELSE Apply(registry[i - 1], calls[i])
    IN  registry[Len(calls)]

-----------------------------------------------------------------------------
(* Stamps: a function from stages to what produced them, <<>> for nothing  *)

Stages == {"extractor", "chunker", "vision", "embedding", "graph_extractor"}

QueryStages == {"reranker", "llm"}

StageStamp(registry, stage) ==
    IF stage \in DOMAIN registry.slots
    THEN <<registry.slots[stage].name, registry.slots[stage].version>> ELSE <<>>

\* ProducedBy, of an artifact that every stage there is contributed to.
ProducedBy(registry) == [stage \in Stages |-> StageStamp(registry, stage)]

\* ModelManifest: the stages of questions are in it, too.
ModelManifest(registry) == [stage \in Stages \cup QueryStages |-> StageStamp(registry, stage)]

-----------------------------------------------------------------------------
(* Layers *)

Layers == {"extract", "ocr", "vision", "eu_chunk", "embedding", "structure", "graph", "community_summary"}

\* _ADJACENCY
Downstream ==
    [l \in Layers |->
        CASE l = "extract" -> {"ocr", "vision"}
          [] l \in {"ocr", "vision"} -> {"eu_chunk"}
          [] l = "eu_chunk" -> {"embedding", "structure", "graph"}
          [] l = "graph" -> {"community_summary"}
          [] OTHER -> {}]

\* One step down only.
ClosureOnce(seeds) == seeds \cup UNION {Downstream[l] : l \in seeds}

\* _downstream_closure
DownstreamClosure(seeds) ==
    LET found[k \in 0..Cardinality(Layers)] ==
          IF k = 0 THEN seeds ELSE found[k - 1] \cup UNION {Downstream[l] : l \in found[k - 1]}
    IN  found[Cardinality(Layers)]

SeedOf ==
    [extractor |-> "extract", chunker |-> "eu_chunk", vision |-> "vision",
     embedding |-> "embedding", graph_extractor |-> "graph"]

\* _changed_stages
ChangedStages(current, stamp) == {SeedOf[s] : s \in {s \in Stages : current[s] # stamp[s]}}

Plan(current, stamp) == DownstreamClosure(ChangedStages(current, stamp))

PlanAll(current, stamps) == UNION {Plan(current, s) : s \in stamps}

-----------------------------------------------------------------------------
(* What is checked *)

\* The rows of the rebuild matrix that rebuild_planner.py opens with.
Matrix ==
    [extractor |-> Layers, vision |-> Layers \ {"extract", "ocr"},
     chunker |-> {"eu_chunk", "embedding", "structure", "graph", "community_summary"},
     embedding |-> {"embedding"}, graph_extractor |-> {"graph", "community_summary"}]

\* Of artifacts stamped after any number of these calls, exactly those layers are
\* made again that the matrix names for a stage whose last accepted plugin is another
\* one by now; a call that is rejected, or gives a slot back, changes nothing.
RebuildsMinimum(calls) ==
    LET accepted(c) == /\ c.plugin.version # "" /\ c.verb # "register_retriever"
                       /\ \E p \in Stages : c.plugin.protocols = {p}
        last(n, stage) ==
            LET of == {i \in 1..n : accepted(calls[i]) /\ stage \in calls[i].plugin.protocols}
            IN  IF of = {} THEN {} ELSE {<<calls[Max(of)].plugin.name, calls[Max(of)].plugin.version>>}
        stale(n) == UNION {Matrix[s] : s \in {s \in Stages : last(n, s) # last(Len(calls), s)}}
        now == ModelManifest(RegistryAfter(calls))
        then(n) == ProducedBy(RegistryAfter(SubSeq(calls, 1, n)))
    IN  /\ \A n \in 0..Len(calls) : Plan(now, then(n)) = stale(n)
        /\ PlanAll(now, {then(n) : n \in 0..Len(calls)}) = UNION {stale(n) : n \in 0..Len(calls)}
=============================================================================
