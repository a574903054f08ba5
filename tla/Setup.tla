-------------------------------- MODULE Setup --------------------------------
(***************************************************************************)
(* How a client comes about: the settings of a configuration and of the    *)
(* environment merged into one (config/loader.py), the models and stores   *)
(* built from it (client.py), and which layers its ingest writes and its   *)
(* questions read (config/signals.py).                                     *)
(***************************************************************************)
EXTENDS Integers, Sequences, FiniteSets, SequencesExt, FiniteSetsExt, Selection

CONSTANTS
    Schema,   \* Schema[p]: what kind of value the setting at path p takes
    Defaults, \* Defaults[p]: its value where nothing is set, "none" for none
    ReadsAs,  \* ReadsAs[v]: the kinds that value v can be read as
    Meaning   \* Meaning[v]: the signals, tiers or place that value v stands for

Signals == {"embedding", "text", "graph", "community", "structure", "wiki"}

Required == {<<"storage", "bucket">>}

TierOrder == <<"authority", "tier_order">>

\* What can be read as a list of tiers stands for one, and no tier is called none.
ASSUME TierAssumption ==
    /\ TierOrder \in DOMAIN Schema
    /\ \A v \in {Defaults[TierOrder]} \cup {v \in DOMAIN ReadsAs : Schema[TierOrder] \in ReadsAs[v]} :
          Meaning[v] \in Seq(STRING) /\ "none" \notin ToSet(Meaning[v])

-----------------------------------------------------------------------------
(* Settings: [path, value], a tree of them a set in which no path leads        *)
(* through another's value                                                     *)

Setting(path, value) == [path |-> path, value |-> value]

Through(p, q) == IsPrefix(p, q) \/ IsPrefix(q, p)

\* Whole sections instead of single settings.
DeepMergeSections(base, overlay) ==
    {s \in base : \A o \in overlay : Head(s.path) # Head(o.path)} \cup overlay

\* _deep_merge: what the overlay says wins, and a value and a section at one path
\* exclude each other.
DeepMerge(base, overlay) ==
    {s \in base : \A o \in overlay : ~Through(s.path, o.path)} \cup overlay

\* _env_to_nested: one variable after the other, as the environment lists them.
EnvToNested(env) ==
    LET tree[i \in 0..Len(env)] == IF i = 0 THEN {} ELSE DeepMerge(tree[i - 1], {env[i]})
    IN  tree[Len(env)]

\* CiteNexusConfig.model_validate: every setting is one of the schema's, and its
\* value can be read as one; what is required is set.
ModelValidate(tree) ==
    IF /\ \A s \in tree : /\ s.path \in DOMAIN Schema /\ s.value \in DOMAIN ReadsAs
                          /\ Schema[s.path] \in ReadsAs[s.value]
       /\ \A p \in Required : \E s \in tree : s.path = p
    THEN [p \in DOMAIN Schema |->
             IF \E s \in tree : s.path = p
             THEN (CHOOSE s \in tree : s.path = p).value ELSE Defaults[p]]
    ELSE <<>>

\* from_config of the loader.
Merged(source, overrides, env) == DeepMerge(DeepMerge(source, overrides), EnvToNested(env))

LoadConfig(source, overrides, env) == ModelValidate(Merged(source, overrides, env))

\* validate_client: only ever warns.
ValidateClient(cfg, allowed) ==
    [config |-> cfg, warned |-> allowed # "none" /\ ~(Meaning[cfg[<<"signals">>]] \subseteq Meaning[allowed])]

-----------------------------------------------------------------------------
(* The client *)

\* resolve_signals: none declared means all.
ResolveSignals(declared) == IF declared = "none" THEN Signals ELSE Meaning[declared]

Switched == {"reranker", "vision", "reformulation", "wiki_distill", "graph_distill", "context_model"}

Named == {"vision", "context_model"}

Models == Switched \cup {"llm", "embedding"}

\* from_config: a model is built if it has an endpoint, and is switched on and named
\* where its section has a switch and no default name.
Built(cfg, m) ==
    /\ cfg[<<m, "endpoint">>] # "none"
    /\ m \in Switched => cfg[<<m, "enabled">>] = "true"
    /\ m \in Named => cfg[<<m, "model">>] # "none"

\* The type of the endpoint selects the protocol, which for one of them needs a limit.
Generator(cfg) ==
    IF ~Built(cfg, "llm") THEN [protocol |-> "none", limit |-> "none"]
    ELSE [protocol |-> cfg[<<"llm", "endpoint">>],
          limit    |-> IF cfg[<<"llm", "endpoint">>] = "anthropic" /\ cfg[<<"llm", "max_tokens">>] \in {"none", "0"}
                       THEN "1024" ELSE cfg[<<"llm", "max_tokens">>]]

\* The two halves of the storage: objects go to the bucket, or to the directory;
\* vectors below the whole of the location, or to the database.
Stores(cfg) ==
    LET place    == Meaning[cfg[<<"storage", "bucket">>]]
        endpoint == IF place.local THEN "none" ELSE cfg[<<"storage", "endpoint_url">>]
    IN  [objects |-> <<place.root, endpoint>>,
         vectors |-> IF cfg[<<"vector_store", "backend">>] = "postgres"
                     THEN <<cfg[<<"vector_store", "uri">>], cfg[<<"vector_store", "table_prefix">>]>>
                     ELSE <<cfg[<<"storage", "bucket">>], endpoint>>]

\* resolved_default_answer_language: the older name still counts.
DefaultAnswerLanguage(cfg) ==
    IF cfg[<<"multilingual", "default_answer_language">>] # "en"
    THEN cfg[<<"multilingual", "default_answer_language">>]
    ELSE cfg[<<"multilingual", "fallback_language">>]

\* LoopBudget of from_config: the hops are those of the graph.
Budget(cfg) == [hops |-> cfg[<<"graph", "max_hops">>], calls |-> cfg[<<"agentic", "max_tool_calls">>],
                units |-> cfg[<<"agentic", "max_evidence_units">>], k |-> cfg[<<"agentic", "search_k">>]]

\* __init__: what each retriever of the client reads.
Retrievers(signals, embedder) ==
    {r \in {"vector", "lexical", "structure", "graph", "wiki"} :
        \/ r = "vector" /\ "embedding" \in signals /\ embedder
        \/ r = "lexical" /\ "text" \in signals
        \/ r \in {"structure", "wiki"} /\ r \in signals
        \/ r = "graph" /\ signals \cap {"graph", "community"} # {}}

Reads(r) == CASE r = "vector" -> {"rows", "vectors"} [] r = "lexical" -> {"rows"} [] OTHER -> {"rows", r}

\* Any signal a layer is navigated by.
WrittenForCommunityOnly(signals, embedder) ==
    (IF signals \cap {"embedding", "text"} # {} THEN {"rows"} \cup (IF embedder THEN {"vectors"} ELSE {}) ELSE {})
      \cup (signals \cap {"structure", "wiki", "graph"})

\* IngestPipeline.ingest and _refresh_incremental: the layers an ingest writes. An
\* embedder is used for text alone, too.
Written(signals, embedder) ==
    (IF signals \cap {"embedding", "text"} # {} THEN {"rows"} \cup (IF embedder THEN {"vectors"} ELSE {}) ELSE {})
      \cup (signals \cap {"structure", "wiki"})
      \cup (IF signals \cap {"graph", "community"} # {} THEN {"graph"} ELSE {})

-----------------------------------------------------------------------------
(* Authority (domain/authority.py) *)

UnknownRank == -1

Rank(order, tier) ==
    IF \E i \in DOMAIN order : order[i] = tier THEN Max({i \in DOMAIN order : order[i] = tier}) - 1
    ELSE UnknownRank

\* OrderedTierProfile.tier under AuthorityPolicy.ordered, and default.v1.
TierOf(policy, tier) == IF policy.profile = "default" THEN 0 ELSE Rank(policy.order, tier)

MeetsFloor(policy, tier) == policy.minimum = "none" \/ TierOf(policy, tier) >= Rank(policy.order, policy.minimum)

\* _authority_policy: anything but the two profiles raises.
AuthorityPolicy(cfg) ==
    LET section(name) == cfg[<<"authority", name>>]
    IN  CASE section("profile") = "default.v1" -> [profile |-> "default", order |-> <<>>, minimum |-> "none"]
          [] section("profile") = "ordered.v1" ->
               [profile |-> "ordered", order |-> Meaning[cfg[TierOrder]], minimum |-> section("minimum_tier")]
          [] OTHER -> [profile |-> "unknown", order |-> <<>>, minimum |-> "none"]

\* CiteNexus.from_config: <<>> where it raises.
Client(cfg) ==
    LET signals  == ResolveSignals(cfg[<<"signals">>])
        embedder == Built(cfg, "embedding")
    IN  IF \/ cfg[<<"vector_store", "backend">>] = "postgres" /\ cfg[<<"vector_store", "uri">>] = "none"
           \/ AuthorityPolicy(cfg).profile = "unknown"
        THEN <<>>
        ELSE [models |-> {m \in Models : Built(cfg, m)}, generator |-> Generator(cfg), stores |-> Stores(cfg),
              retrievers |-> Retrievers(signals, embedder), writes |-> Written(signals, embedder),
              authority |-> AuthorityPolicy(cfg), language |-> DefaultAnswerLanguage(cfg), budget |-> Budget(cfg)]

-----------------------------------------------------------------------------
(* Partitions: a path is a sequence of <<level, value>> (domain/partition.py,  *)
(* access/scope.py, access/prefilter.py)                                       *)

\* resolve_scope: the levels of the hierarchy that the scope gives, from the root down;
\* nothing where one is skipped or unknown, and the code raises.
ResolveScope(scope, hierarchy) ==
    LET given == {i \in DOMAIN hierarchy : hierarchy[i] \in DOMAIN scope}
    IN  IF DOMAIN scope \subseteq ToSet(hierarchy) /\ given = 1..Cardinality(given)
        THEN {[i \in given |-> <<hierarchy[i], scope[hierarchy[i]]>>]} ELSE {}

\* allowed_partition: some allowed path is a prefix.
AllowedPartition(candidate, allowed) == \E a \in allowed : IsPrefix(a, candidate)

\* filter_partitions and apply_acl_predicate, which is only given what the first left.
Filtered(candidates, allowed, predicate) ==
    Within(candidates, {c \in ToSet(candidates) : AllowedPartition(c, allowed) /\ predicate[c]})

-----------------------------------------------------------------------------
(* What is checked of every configuration *)

\* The last layer that says anything on a path, or on a section through it, has the
\* word: the environment after the overrides after the source, and in the environment
\* what no later variable goes through.
LastWordCounts(source, overrides, env) ==
    LET last == {env[i] : i \in {i \in DOMAIN env : \A j \in (i + 1)..Len(env) : ~Through(env[i].path, env[j].path)}}
        said == <<source, overrides, last>>
        cfg  == LoadConfig(source, overrides, env)
        on(p) == {i \in DOMAIN said : \E s \in said[i] : Through(s.path, p)}
        word(p) == IF on(p) = {} THEN {} ELSE {s.value : s \in {s \in said[Max(on(p))] : s.path = p}}
    IN  cfg # <<>> =>
          \A p \in DOMAIN Schema : {cfg[p]} = IF word(p) = {} THEN {Defaults[p]} ELSE word(p)

\* "ingest builds only declared signals, ask queries only declared signals": if there
\* are rows to cite, every layer that a question reads is written by every ingest,
\* and no navigation is written that no question reads.
LayersServed(client) ==
    "rows" \in client.writes =>
        /\ \A r \in client.retrievers : Reads(r) \subseteq client.writes
        /\ client.writes \ {"rows", "vectors"} \subseteq UNION {Reads(r) : r \in client.retrievers}

\* A floor that is named among the tiers keeps out every tier before it, and every
\* tier that is not named.
FloorHolds(policy, tiers) ==
    policy.minimum \in ToSet(policy.order) =>
        \A t \in tiers : MeetsFloor(policy, t) =>
            \E i, j \in DOMAIN policy.order : /\ policy.order[i] = policy.minimum
                                             /\ policy.order[j] = t /\ i <= j

\* Whoever may see a scope may see every scope within it, and one who may see none of
\* the scopes above a partition does not see it; a partition is seen or not, whatever
\* else is listed.
ScopeNarrows(hierarchy, scopes, allowed) ==
    LET paths == UNION {ResolveScope(s, hierarchy) : s \in scopes}
        above(p) == {SubSeq(p, 1, n) : n \in 0..Len(p)}
        seen == {p \in paths : above(p) \cap allowed # {}}
    IN  /\ \A s \in scopes : \A p \in ResolveScope(s, hierarchy) :
              /\ ToSet(p) = {<<l, s[l]>> : l \in DOMAIN s}
              /\ above(p) \subseteq paths
        /\ \A p, q \in paths : AllowedPartition(p, allowed) /\ p \in above(q) => AllowedPartition(q, allowed)
        /\ \A p, q, hidden \in paths :
              ToSet(Filtered(<<p, q>>, allowed, [r \in paths |-> r # hidden])) = (seen \cap {p, q}) \ {hidden}
=============================================================================
