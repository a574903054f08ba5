--------------------------------- MODULE Ask ---------------------------------
(***************************************************************************)
(* The questions of one client in one conversation (client.py ask with     *)
(* strategy "strict", answer/flow.py, memory/store.py): recall, search     *)
(* languages and reformulation, concurrent retrieval, fusion and rerank,   *)
(* the gates of the answer flow in their order, generation candidate by    *)
(* candidate, and the turn saved.                                          *)
(*                                                                         *)
(* The embedder, the rewriting model, the rerank model and the generator   *)
(* are outside the library: each may return anything or raise.  Other      *)
(* askers of the same conversation save turns of their own at any time.    *)
(***************************************************************************)
EXTENDS Retrieval, Functions

CONSTANTS Units,
          About,       \* About[u]: what a unit is about
          Unreadable,  \* units in a script the tokenizer does not claim
          Tier, MaxTier, Floor,
          Claims, Says, \* Says[k]: what a claim is about
          Supports,    \* Supports[k]: units whose own words support claim k
          Blurb,       \* Blurb[k]: units whose situating blurb supports it
          Conflicts,   \* pairs of units that contradict each other
          Questions, Rewrites, \* what is asked, what a model makes of it
          Topics,      \* Topics[t]: what a question or a rewrite is about
          Unclaimed,   \* questions and rewrites in a script not claimed
          Excuse,      \* what the sentence of a refusal is about
          Searches,    \* the search_languages a caller may pass
          Searchable,  \* languages whose script is claimed
          Retrievers,  \* the retrievers of the client, in order
          Semantic,    \* those that rank by the embedder
          Nearest,     \* the lists of units an embedder may come to
          Verbatim,    \* those whose hits carry the passage
          Score,       \* Score[r]: what a retriever's hits score
          Reformulates, Reranks, \* the client has a rewriting model, a rerank model
          TopN, Window, MaxAttempts, MaxTurns, RecallLimit,
          MaxAsks,     \* bound: questions asked
          MaxOthers    \* bound: turns saved by other askers

ASSUME AskAssumption == /\ {TopN, Window, MaxTurns, RecallLimit, MaxAsks, MaxOthers, MaxTier} \subseteq Nat
                        /\ MaxAttempts \in 1..Window
                        /\ Tier \in [Units -> 0..MaxTier] /\ Floor \in 0..MaxTier
                        /\ Supports \in [Claims -> SUBSET Units]

\* Units are finitely many and each has an id; a retriever returns at most k.
ASSUME RetrievalAssumption ==
    /\ IsFiniteSet(Units)
    /\ \A u \in Units : Id[u] \in Nat /\ \A v \in Units : Id[u] = Id[v] => u = v
    /\ Retrievers \in Seq(Range(Retrievers)) /\ \A r \in Range(Retrievers) : Score[r] \in Nat
    /\ \A s \in Nearest : s \in Seq(Units) /\ Len(s) <= Depth
    /\ \A s \in Searches : s \in Seq(Range(s))

VARIABLES turns,      \* the conversation file
          cache,      \* rewrites by <<question, language>>
          asks, others, pc, mode, question, languages,
          context,    \* turns recalled
          extra,      \* rewrites to search with
          lists,      \* lists[i]: what retrieval i returned
          candidates, \* units retrieved, in order
          grounded,   \* those that may be answered from, in order
          attempts,   \* generator calls made
          loaded,     \* the conversation as append read it
          result

asking == <<mode, question, languages>>
vars == <<turns, cache, asks, others, pc, asking, context, extra, lists, candidates, grounded,
          attempts, loaded, result>>

Modes == {"strict", "normal", "exploratory"}
Turn == [question : Questions, claims : SUBSET Claims]

Hits == [unit : Units, score : Nat, verbatim : BOOLEAN]

\* claims: those of the answer, each with its unit.  sides: the units cited by an
\* abstention.  unread: the units told to be unreadable.
Result == [decision : {"pending", "answered", "refused"},
           reason : {"none", "script", "unreadable", "irrelevant", "authority", "gate", "conflict"},
           claims : SUBSET (Claims \X Units), sides : SUBSET Units, unread : SUBSET Units]

Pending == [decision |-> "pending", reason |-> "none", claims |-> {}, sides |-> {}, unread |-> {}]

Refused(reason, unread) == [Pending EXCEPT !.decision = "refused", !.reason = reason, !.unread = unread]

TypeOK == /\ turns \in Seq(Turn) /\ loaded \in Seq(Turn) /\ Len(turns) <= MaxTurns
          /\ pc \in {"idle", "recall", "rewrite", "retrieve", "rank", "screen", "generate",
                     "remember", "save", "raised"}
          /\ asks \in 0..MaxAsks /\ others \in 0..MaxOthers
          /\ mode \in Modes /\ question \in Questions
          /\ context \in SUBSET Turn /\ extra \in Seq(Rewrites)
          /\ lists \in Seq([done : BOOLEAN, hits : Seq(Hits)])
          /\ candidates \in Seq(Hits) /\ grounded \in Seq(Hits)
          /\ attempts \in 0..MaxAttempts
          /\ result \in Result

Init == /\ turns = <<>>
        /\ cache = <<>>
        /\ asks = 0 /\ others = 0
        /\ pc = "idle"
        /\ mode = "strict"
        /\ question = CHOOSE q \in Questions : TRUE
        /\ languages = CHOOSE s \in Searches : TRUE
        /\ context = {} /\ extra = <<>> /\ lists = <<>>
        /\ candidates = <<>> /\ grounded = <<>>
        /\ attempts = 0
        /\ loaded = <<>>
        /\ result = Pending

-----------------------------------------------------------------------------
(* Memory *)

TurnTopics(t) == Topics[t.question] \cup
                 IF t.claims = {} THEN Excuse ELSE UNION {Says[k] : k \in t.claims}

Overlap(t, q) == Cardinality(TurnTopics(t) \cap Topics[q])

\* The turns that share most with the question, of those that share as much the
\* latest; if none shares anything, the last ones.
Recalled(q) ==
    LET hits     == {i \in DOMAIN turns : Overlap(turns[i], q) > 0}
        better(i) == {j \in hits : \/ Overlap(turns[j], q) > Overlap(turns[i], q)
                                   \/ Overlap(turns[j], q) = Overlap(turns[i], q) /\ j > i}
        chosen   == IF hits = {} THEN {i \in DOMAIN turns : i > Len(turns) - RecallLimit}
                    ELSE {i \in hits : Cardinality(better(i)) < RecallLimit}
    IN  {turns[i] : i \in chosen}

\* (The variant forgets to cut.)
LastAll(n, s) == s

Last(n, s) == SubSeq(s, IF Len(s) > n THEN Len(s) - n + 1 ELSE 1, Len(s))

\* A question begins with nothing of the one before it but the conversation, the
\* cache and the result its caller still holds.
Begin ==
    /\ pc \in {"idle", "raised"}
    /\ asks < MaxAsks
    /\ asks' = asks + 1
    /\ mode' \in Modes /\ question' \in Questions /\ languages' \in Searches
    /\ pc' = "recall"
    /\ context' = {} /\ extra' = <<>> /\ lists' = <<>>
    /\ candidates' = <<>> /\ grounded' = <<>>
    /\ attempts' = 0
    /\ loaded' = <<>>
    /\ result' = Pending
    /\ UNCHANGED <<turns, cache, others>>

Recall ==
    /\ pc = "recall"
    /\ context' = Recalled(question)
    /\ pc' = "rewrite"
    /\ UNCHANGED <<turns, cache, asks, others, asking, extra, lists, candidates, grounded, attempts,
                   loaded, result>>

\* append reads the whole conversation ...
Load ==
    /\ pc = "remember"
    /\ loaded' = turns
    /\ pc' = "save"
    /\ UNCHANGED <<turns, cache, asks, others, asking, context, extra, lists, candidates, grounded,
                   attempts, result>>

\* ... and writes what it read back with the new turn.
Save ==
    /\ pc = "save"
    /\ turns' = Last(MaxTurns, Append(loaded, [question |-> question,
                                               claims |-> {x[1] : x \in result.claims}]))
    /\ pc' = "idle"
    /\ UNCHANGED <<cache, asks, others, asking, context, extra, lists, candidates, grounded, attempts,
                   loaded, result>>

\* Another client of the conversation saves a turn.  Only Recall and Save can tell
\* when, so it does so before one of them.
OtherSaves ==
    /\ pc \in {"recall", "save"}
    /\ others < MaxOthers
    /\ others' = others + 1
    /\ \E q \in Questions : turns' = Last(MaxTurns, Append(turns, [question |-> q, claims |-> {}]))
    /\ UNCHANGED <<cache, asks, pc, asking, context, extra, lists, candidates, grounded,
                   attempts, loaded, result>>

-----------------------------------------------------------------------------
(* Search languages and rewrites *)

Named == {languages[i] : i \in DOMAIN languages}

\* Refused before any model is called.
Searched == /\ Named \subseteq Searchable
            /\ Reformulates \/ Len(languages) <= 1

Raise ==
    /\ \/ pc = "rewrite" /\ ~Searched
       \/ pc \in {"retrieve", "rank", "generate"}
    /\ pc' = "raised"
    /\ UNCHANGED <<turns, cache, asks, others, asking, context, extra, lists, candidates, grounded,
                   attempts, loaded, result>>

\* A rewrite in each language, from the cache if it was made before.  A failed or
\* an empty one is "none", and is cached too.
Wanted == {question} \X Named

\* The rewrites in the order of the languages, each once and none the question.
Distinct(cached) ==
    LET made    == [i \in DOMAIN languages |-> cached[<<question, languages[i]>>]]
        first   == {i \in DOMAIN made : \A j \in 1..(i - 1) : made[j] # made[i]}
        useful  == Within([i \in DOMAIN made |-> i], {i \in first : made[i] \notin {"none", question}})
    IN  [n \in DOMAIN useful |-> made[useful[n]]]

Running == [done |-> FALSE, hits |-> <<>>]

Rewrite ==
    /\ pc = "rewrite"
    /\ Searched
    /\ IF Reformulates
       THEN \E new \in [Wanted \ DOMAIN cache -> Rewrites \cup {"none"}] :
              /\ cache' = [x \in DOMAIN cache \cup Wanted |->
                              IF x \in DOMAIN cache THEN cache[x] ELSE new[x]]
              /\ extra' = Distinct(cache')
       ELSE UNCHANGED <<cache, extra>>
    /\ lists' = [i \in 1..(Len(Retrievers) * (1 + Len(extra'))) |-> Running]
    /\ pc' = "retrieve"
    /\ UNCHANGED <<turns, asks, others, asking, context, candidates, grounded, attempts, loaded, result>>

-----------------------------------------------------------------------------
(* Retrieval *)

\* The first query is the question behind what was recalled, the others are the
\* rewrites.
QueryTopics(n) ==
    IF n = 1 THEN Topics[question] \cup UNION {TurnTopics(t) : t \in context}
    ELSE Topics[extra[n - 1]]

EvidenceTopics == UNION {QueryTopics(n) : n \in 1..(1 + Len(extra))}

Related(u, topics) == About[u] \cap topics # {}

\* Retrieval i asks retriever Retriever(i) the query Query(i): all retrievers for the first
\* query, then all for the next.
Retriever(i) == Retrievers[((i - 1) % Len(Retrievers)) + 1]
Query(i) == ((i - 1) \div Len(Retrievers)) + 1

\* The embedder ranks any units it likes; words only lead to units that are about
\* something in the query, the best up to the k asked for.
Found(i) ==
    IF Retriever(i) \in Semantic THEN Nearest
    ELSE LET related == {u \in Units : Related(u, QueryTopics(Query(i)))}
             most    == IF Cardinality(related) < Depth THEN Cardinality(related) ELSE Depth
         IN  {s \in [1..most -> related] : IsInjective(s)}

Listed(i) == {[n \in DOMAIN s |-> Hit(s[n], Score[Retriever(i)], Retriever(i) \in Verbatim)] : s \in Found(i)}

\* The retrievals run on threads of their own and end in any order.
Returns ==
    /\ pc = "retrieve"
    /\ \E i \in DOMAIN lists : /\ ~lists[i].done
                              /\ \E hits \in Listed(i) :
                                    lists' = [lists EXCEPT ![i] = [done |-> TRUE, hits |-> hits]]
    /\ pc' = IF \A i \in DOMAIN lists : lists'[i].done THEN "rank" ELSE "retrieve"
    /\ UNCHANGED <<turns, cache, asks, others, asking, context, extra, candidates, grounded, attempts,
                   loaded, result>>

\* The rerank model names candidates by index, as many and as often as it likes.
Orders == IF Reranks THEN UNION {[1..n -> 1..(Depth + 1)] : n \in 0..Depth} ELSE {<<>>}

Rank ==
    /\ pc = "rank"
    /\ \E fused \in {Fused([i \in DOMAIN lists |-> lists[i].hits])},
          order \in Orders : candidates' = Retrieved(fused, order, TopN, Depth)
    /\ lists' = <<>>
    /\ pc' = "screen"
    /\ UNCHANGED <<turns, cache, asks, others, asking, context, extra, grounded, attempts, loaded, result>>

-----------------------------------------------------------------------------
(* The answer flow *)

\* A question is not readable if any of the words it is searched with is not.
QuestionGap == ({question} \cup {t.question : t \in context} \cup {extra[i] : i \in DOMAIN extra})
                  \cap Unclaimed # {}

Blocked == UnitsOf(candidates) \cap Unreadable

Readable == Within(candidates, {h \in Range(candidates) : h.unit \notin Unreadable})

\* (The variant forgets that some could not be read.)
RelevantOfAll == Within(candidates, {h \in Range(candidates) : Related(h.unit, EvidenceTopics)})

Relevant == Within(Readable, {h \in Range(Readable) : Related(h.unit, EvidenceTopics)})

MeetsFloor(hits) == {h \in Range(hits) : Tier[h.unit] >= Floor}

\* By descending tier, hits of one tier in their order.
ByTier(hits) ==
    LET from[r \in 0..MaxTier] ==
          LET these == Within(hits, {h \in Range(hits) : Tier[h.unit] = r})
          IN  IF r = 0 THEN these ELSE these \o from[r - 1]
    IN  from[MaxTier]

\* (The variant treats the floor as a preference.)
SelectPreferring(hits) == IF mode = "exploratory" THEN hits ELSE ByTier(hits)

Select(hits) ==
    IF mode = "exploratory" THEN hits
    ELSE ByTier(IF mode = "strict" THEN Within(hits, MeetsFloor(hits)) ELSE hits)

\* What the pool is refused for before anything is generated.  (The variant blames
\* the script whenever something could not be read.)
ScreenedBlamingScript ==
    IF QuestionGap THEN Refused("script", {})
    ELSE IF Relevant = <<>>
    THEN IF Blocked # {} THEN Refused("unreadable", {}) ELSE Refused("irrelevant", Blocked)
    ELSE IF Select(Relevant) = <<>> THEN Refused("authority", {})
    ELSE Pending

Screened ==
    IF QuestionGap THEN Refused("script", {})
    ELSE IF Relevant = <<>>
    THEN IF Readable = <<>> /\ Blocked # {} THEN Refused("unreadable", {})
         ELSE Refused("irrelevant", Blocked)
    ELSE IF Select(Relevant) = <<>> THEN Refused("authority", {})
    ELSE Pending

Screen ==
    /\ pc = "screen"
    /\ result' = Screened
    /\ IF result' = Pending THEN pc' = "generate" /\ grounded' = Select(Relevant)
       ELSE pc' = "remember" /\ UNCHANGED grounded
    /\ UNCHANGED <<turns, cache, asks, others, asking, context, extra, lists, candidates, attempts, loaded>>

\* citable_text is the passage, or what was indexed if a hit carries none.
Backs(h, k) == \/ h.unit \in Supports[k]
               \/ ~h.verbatim /\ h.unit \in Blurb[k]

Compared == UnitsOf(First(Window, grounded))

Touching(u) == {pair \in Conflicts : pair \subseteq Compared /\ u \in pair}

Published(u, supported) ==
    IF mode = "strict" /\ Touching(u) # {}
    THEN [Refused("conflict", {}) EXCEPT !.sides = UNION Touching(u)]
    ELSE [decision |-> "answered", reason |-> "none", claims |-> supported \X {u},
          sides |-> {}, unread |-> Blocked]

\* The best candidates one by one; the first whose passage supports some claim of
\* what was generated from it is the one cited, with those claims.
Generate ==
    /\ pc = "generate"
    /\ attempts' = attempts + 1
    /\ \E text \in SUBSET Claims :
         LET top       == grounded[attempts']
             supported == {k \in text : Backs(top, k)}
         IN  IF supported # {} THEN result' = Published(top.unit, supported) /\ pc' = "remember"
             ELSE IF attempts' = MaxAttempts \/ attempts' = Len(grounded)
             THEN result' = Refused("gate", Blocked) /\ pc' = "remember"
             ELSE UNCHANGED <<result, pc>>
    /\ UNCHANGED <<turns, cache, asks, others, asking, context, extra, lists, candidates, grounded, loaded>>

-----------------------------------------------------------------------------
Next == \/ Begin \/ Recall \/ Rewrite \/ Returns \/ Rank \/ Screen \/ Generate
        \/ Load \/ Save \/ Raise \/ OtherSaves

Spec == Init /\ [][Next]_vars

-----------------------------------------------------------------------------
(* Properties *)

\* Units a strict answer may rest on.
Standing == {u \in Units : Tier[u] >= Floor}

Promise == INSTANCE GroundedAnswer
    WITH pool <- UnitsOf(grounded), compared <- Compared, decision <- result.decision,
         cited <- result.claims, sides <- result.sides

\* Cite or abstain: every question is decided as GroundedAnswer says, whatever
\* the models return, the retrievers find and the conversation holds.
ImplementsGroundedAnswer == Promise!Spec

\* What the tokenizer cannot read is never generated from, compared or cited, and
\* whoever gets an answer, or hears that nothing relevant was found, is told of it.
UnreadableToldNotQuoted ==
    /\ UnitsOf(grounded) \cap Unreadable = {}
    /\ result.reason \in {"none", "irrelevant", "gate"} /\ result.decision # "pending" =>
          result.unread = Blocked

\* A refusal blames what stood between the question and an answer: the script
\* only if nothing else was found, the floor only if something relevant was
\* below it and nothing above, the gate only when every candidate it may try was.
RefusalNamesItsCause ==
    LET relevant == {u \in UnitsOf(candidates) \ Unreadable : Related(u, EvidenceTopics)}
    IN  /\ result.reason = "unreadable" =>
              UnitsOf(candidates) # {} /\ UnitsOf(candidates) \subseteq Unreadable
        /\ result.reason = "irrelevant" =>
              relevant = {} /\ (candidates = <<>> \/ ~(UnitsOf(candidates) \subseteq Unreadable))
        /\ result.reason = "authority" =>
              mode = "strict" /\ relevant # {} /\ relevant \cap Standing = {}
        /\ result.reason = "gate" =>
              /\ attempts = MaxAttempts \/ attempts = Len(grounded)
              /\ relevant # {}

\* flow.py, _capability_reason: the script refusal is "reserved for the QUESTION
\* on purpose".
ScriptRefusalIsAboutTheQuestion == result.reason = "script" => question \in Unclaimed

\* types.py, citable_text: "the only text that may be shown or attributed to the
\* source".
QuotesAreVerbatim == \A x \in result.claims : x[2] \in Supports[x[1]]

\* ADR-0013: fan-out is "strictly additive at retrieval - every EU the single-language
\* path found is still found".
FanOutStrictlyAdditive ==
    [][pc = "rank" /\ pc' = "screen" =>
          UnitsOf(First(Depth, Fused([i \in DOMAIN Retrievers |-> lists[i].hits])))
             \subseteq UnitsOf(candidates')]_vars

\* memory/store.py: "Append-only JSON memory per conversation id": a turn only
\* leaves the conversation by age.
TurnsOnlyAgeOut ==
    [][\/ turns' = turns
       \/ \E t \in Turn : turns' = Last(MaxTurns, Append(turns, t))]_turns
=============================================================================
