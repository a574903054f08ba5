----------------------------- MODULE MCDocuments -----------------------------
(* Every short source of each format, written element by element, and every     *)
(* short text, written gap by gap.                                              *)
EXTENDS ModelCalls, Evidence, Schemas, Language, Setup, Rebuild, Crawl

CONSTANT MaxSource, Bounds

\* A chunk has room for a word, and nothing less than nothing is repeated.
ASSUME BoundsAssumption == \A b \in Bounds : b[1] \in Nat \ {0} /\ b[2] \in Nat

VARIABLES kind, source

NoImages == [texts |-> 3, images |-> <<>>]

calls == vars

Element(w, l, r, b) == [what |-> w, level |-> l, rows |-> r, blank |-> b]

Said(what) == {Element(what, 0, 0, b) : b \in BOOLEAN}

HeadingsOf(levels) == {Element("heading", l, 0, FALSE) : l \in levels} \cup {Element("heading", 1, 0, TRUE)}

Says(layer, settings) == {[layer |-> layer, setting |-> Setting(s[1], s[2])] : s \in settings}

InSource ==
    {<<<<"storage", "bucket">>, "s3">>, <<<<"storage", "endpoint_url">>, "http">>, <<<<"signals">>, "signals:text">>,
     <<<<"signals">>, "signals:graph,text">>, <<<<"signals">>, "signals:community,embedding">>,
     <<<<"signals">>, "signals:graph">>, <<<<"embedding", "endpoint">>, "openai">>, <<<<"llm", "endpoint">>, "openai">>,
     <<<<"authority", "tier_order">>, "tiers:blog,statute">>, <<<<"authority", "minimum_tier">>, "statute">>}

InOverrides ==
    {<<<<"llm">>, "text">>, <<<<"llm", "endpoint">>, "anthropic">>, <<<<"authority", "profile">>, "ordered.v1">>,
     <<<<"vision", "endpoint">>, "openai">>, <<<<"authority", "minimum_tier">>, "blog">>}

InEnv ==
    {<<<<"llm">>, "text">>, <<<<"llm", "max_tokens">>, "0">>, <<<<"graph", "max_hops">>, "text">>,
     <<<<"graph", "max_hops">>, "0">>, <<<<"signals">>, "text">>, <<<<"nowhere">>, "text">>,
     <<<<"authority", "profile">>, "ordered.v1">>, <<<<"authority", "profile">>, "text">>,
     <<<<"vector_store", "backend">>, "postgres">>, <<<<"vector_store", "uri">>, "text">>}

Offers(verbs, protocols, names, versions) ==
    [verb : verbs, plugin : [protocols : protocols, name : names, version : versions]]

PluginCalls ==
    LET single == {{"extractor"}, {"graph_extractor"}, {"reranker"}}
    IN  Offers({"use", "register"}, {{"chunker"}, {"vision"}, {"embedding"}}, {"p"}, {"1", "2"})
          \cup Offers({"use", "register_retriever"}, {{}, {"retriever"}, {"retriever", "chunker"}}, {"p"}, {"1"})
          \cup Offers({"use"}, single, {""}, {""}) \cup Offers({"use"}, single, {"3"}, {"3"})

Pieces ==
    [text |-> 0..3,
     docx |-> HeadingsOf(1..3) \cup Said("para") \cup {Element("table", 0, r, FALSE) : r \in {1, 3}},
     markdown |-> HeadingsOf(1..3) \cup Said("para") \cup {Element("code", 0, 0, FALSE)},
     htm |-> HeadingsOf(1..2) \cup {Element("table", 0, 2, FALSE), Element("list", 0, 0, FALSE)}
                \cup {Element(w, 0, 0, FALSE) : w \in {"para", "code", "caption", "figcaption"}},
     pptx |-> {Element("page", 0, r, b) : r \in {0, 1, 3}, b \in BOOLEAN},
     pdf  |-> {Element("page", 0, r, b) : r \in {0, 1, 3}, b \in BOOLEAN},
     xlsx |-> {Element("sheet", 0, r, b) : r \in {1, 3}, b \in BOOLEAN},
     csv  |-> {Element("table", 0, r, FALSE) : r \in {1, 3}},
     txt  |-> Said("para"),
     image |-> Said("image"),
     rtf |-> Said("para"),
     py |-> Said("import") \cup {Element("function", 0, 0, FALSE)} \cup {Element("class", m, 0, FALSE) : m \in 0..2},
     words |-> {"x", "y", "han", "thai", "odd", "1", "superscript", "numero", "mark", "n'", "baht", " "},
     tamil |-> {"C", "e", "v", "a", "o", "-"},
     sql  |-> {<<"create", "t", "(">>, <<"create", "t">>, <<"(">>, <<")">>, <<";">>, <<"'", ")", "'", "'", "'">>,
               <<"--", "'", "nl">>},
     json |-> {<<"paths", ":", "{">>, <<"components", ":", "{">>, <<"schemas", ":", "{">>,
               <<"definitions", ":", "{">>, <<"definitions", ":", "[">>, <<"k", ":", "1">>, <<"k", ":", "{">>,
               <<"k", ":", "[">>, <<"{">>, <<"}">>, <<"]">>},
     setup |-> Says("source", InSource) \cup Says("overrides", InOverrides) \cup Says("env", InEnv),
     plugins |-> PluginCalls,
     web |-> {[from |-> f, to |-> t] : f \in {"home", "a", "b"}, t \in {"a", "b", "c", "gone", "off"}}
               \cup {[from |-> f, to |-> "home"] : f \in {"off", "c"}},
     tree |-> {f \in [parts : {<<"a">>, <<"src", "a">>, <<"src", "vendor", "b">>, <<"vendor">>}, code : BOOLEAN, raises : Raises] :
                 f.code \/ f.raises = "never"}]

\* What is written is characters whose normal form is known.
ASSUME WordsAssumption == Pieces.words \subseteq DOMAIN Normal

\* Either a source is written, or a document's calls are made.
Begin ==
    /\ Init /\ source = <<>>
    /\ kind \in DOMAIN Pieces \cup {"calls"}
    /\ kind # "calls" => doc = NoImages /\ embedder = "none"

\* The brackets that a piece of JSON leaves open, closed.
Closed(data) ==
    LET left == SelectSeq([j \in DOMAIN data |-> Len(data) + 1 - j],
                          LAMBDA j : data[j] \in {"{", "["} /\ SkipValue(data, j) > Len(data))
    IN  data \o [k \in DOMAIN left |-> IF data[left[k]] = "{" THEN "}" ELSE "]"]

Document(pieces) == Closed(<<"{">> \o FlattenSeq(pieces))

\* Settings come layer by layer; a file and the overrides say one thing on a path.
Layered(settings) ==
    \A i, j \in DOMAIN settings : i < j =>
        LET a == settings[i]  b == settings[j]
        IN  /\ ~(a.layer = "overrides" /\ b.layer = "source") /\ ~(a.layer = "env" /\ b.layer # "env")
            /\ a.layer = b.layer /\ a.layer # "env" => ~Through(a.setting.path, b.setting.path)

\* Links come page by page, in the order that each page has them.
PageByPage(web) ==
    \A i, j \in DOMAIN web : i < j /\ web[i].from = web[j].from => \A k \in i..j : web[k].from = web[i].from

WriteElement ==
    /\ kind # "calls" /\ Len(source) < MaxSource[kind]
    /\ \E e \in Pieces[kind] :
         /\ kind = "json" => \E d \in {Document(Append(source, e))} : WellFormed(d)
         /\ kind = "tamil" => InOrder(Append(source, e))
         /\ kind = "setup" => Layered(Append(source, e))
         /\ kind = "web" => PageByPage(Append(source, e))
         /\ kind = "tree" => \A i \in DOMAIN source : source[i].parts # e.parts
         /\ source' = Append(source, e)
    /\ UNCHANGED <<kind, calls>>

Call == kind = "calls" /\ Next /\ UNCHANGED <<kind, source>>

Reading == Begin /\ [][WriteElement \/ Call]_<<kind, source, calls>>

Picture(width, height, pageArea, page, bytes) ==
    [width |-> width, height |-> height, pageArea |-> pageArea, page |-> page, bytes |-> bytes]

\* On a page of 100: large enough, too small, a banner; on no page; not to be loaded.
MCDocuments ==
    {NoImages,
     [texts |-> 0, images |-> <<Picture(5, 1, 100, 1, "stored"), Picture(9, 1, 100, 1, "stored"), Picture(2, 2, 100, 2, "stored")>>],
     [texts |-> 1, images |-> <<Picture(5, 5, 100, 2, "stored"), Picture(5, 5, 0, 3, "stored"), Picture(5, 5, 100, 1, "stored")>>],
     [texts |-> 1, images |-> <<Picture(0, 0, NoArea, 4, "stored"), Picture(5, 5, 100, 1, "none"), Picture(1, 9, 100, 1, "stored"), Picture(1, 8, 100, 3, "unreadable")>>]}

MCEnv == "$KEY" :> "secret" @@ "$GONE" :> ""

MCEndpoints ==
    {[headers |-> h, key |-> k, authHeader |-> a, ownClient |-> o] :
       h \in {<<>>, [title |-> "$KEY"], [title |-> "app", Authorization |-> "old"]},
       k \in {"", "own"}, a \in {"Authorization", "api-key"}, o \in BOOLEAN}

MCCallHeaders == {[type |-> "json"], [type |-> "json", Authorization |-> "$KEY"], [title |-> "$GONE", Authorization |-> "call"]}

MCRequests ==
    {[auth |-> a, body |-> b, sign |-> s] :
       a \in {<<>>, [Authorization |-> "$KEY"], [Authorization |-> "$GONE"]},
       b \in {{"data"}, {"data", "secret"}}, s \in {"none", "aws", "unknown"}}

MCMaxSource ==
    [text |-> 6, docx |-> 4, markdown |-> 4, htm |-> 4, pptx |-> 3, pdf |-> 3, xlsx |-> 3, csv |-> 1, txt |-> 4, py |-> 4, image |-> 1, rtf |-> 1,
     words |-> 4, tamil |-> 6, sql |-> 5, json |-> 5, setup |-> 3, plugins |-> 3, web |-> 4, tree |-> 3]

MCBounds == {<<1, 0>>, <<2, 1>>, <<3, 1>>, <<3, 2>>, <<4, 3>>, <<3, 5>>}

\* Two Latin letters, one each of two spaceless scripts and of a script outside the
\* table, a digit, a mark and a currency sign, two signs that become a digit and
\* letters, and a letter that becomes one outside the table and a letter.
MCScriptOf == [c \in {"x", "y", "n'"} |-> "latin"] @@ ("han" :> "han") @@ [c \in {"thai", "baht"} |-> "thai"]
              @@ [c \in {"odd", "superscript", "numero", " "} |-> "unknown"] @@ [c \in {"1", "mark"} |-> "common"]
MCWordChars == Pieces.words \ {"numero", "baht", " "}
MCLetters == {"x", "y", "n'", "han", "thai", "odd"}
MCNormal == [c \in Pieces.words |-> CASE c = "superscript" -> <<"1">> [] c = "numero" -> <<"x", "y">>
                                       [] c = "n'" -> <<"odd", "x">> [] OTHER -> <<c>>]
MCIsoOf == [latin |-> "en", han |-> "zh", thai |-> "th"]
MCCues == [es |-> [place |-> 1, words |-> {<<"x">>}], fr |-> [place |-> 2, words |-> {<<"x">>, <<"y", "x">>}]]

MCDefaults ==
    [p \in {<<"storage", "endpoint_url">>, <<"embedding", "endpoint">>, <<"llm", "endpoint">>, <<"llm", "max_tokens">>,
            <<"authority", "minimum_tier">>, <<"vector_store", "uri">>, <<"vision", "model">>, <<"context_model", "model">>}
           \cup {<<m, "endpoint">> : m \in Switched} |-> "none"]
      @@ [p \in {<<m, "enabled">> : m \in Switched \ {"reranker"}} |-> "false"]
      @@ [p \in {<<"multilingual", "default_answer_language">>, <<"multilingual", "fallback_language">>} |-> "en"]
      @@ [p \in {<<"graph", "max_hops">>, <<"agentic", "max_tool_calls">>, <<"agentic", "max_evidence_units">>,
                 <<"agentic", "search_k">>} |-> "1"]
      @@ (<<"reranker", "enabled">> :> "true") @@ (<<"storage", "bucket">> :> "dir")
      @@ (<<"vector_store", "backend">> :> "lancedb") @@ (<<"vector_store", "table_prefix">> :> "citenexus")
      @@ (<<"authority", "profile">> :> "default.v1") @@ (<<"authority", "tier_order">> :> "tiers:")
      @@ (<<"signals">> :> "none")
MCSchema ==
    [p \in DOMAIN MCDefaults |->
        CASE p[Len(p)] = "endpoint" -> "endpoint" [] p[Len(p)] = "enabled" -> "flag"
          [] p[Len(p)] \in {"max_tokens", "max_hops", "max_tool_calls", "max_evidence_units", "search_k"} -> "number"
          [] p[Len(p)] = "signals" -> "signals" [] p[Len(p)] = "tier_order" -> "tiers" [] OTHER -> "text"]
MCMeaning ==
    ("none" :> Signals) @@ ("signals:text" :> {"text"}) @@ ("signals:graph,text" :> {"graph", "text"})
      @@ ("signals:community,embedding" :> {"community", "embedding"}) @@ ("signals:graph" :> {"graph"})
      @@ ("tiers:" :> <<>>) @@ ("tiers:blog,statute" :> <<"blog", "statute">>)
      @@ ("dir" :> [local |-> TRUE, root |-> "dir"]) @@ ("s3" :> [local |-> FALSE, root |-> "bucket"])
MCReadsAs ==
    [v \in {"text", "http", "dir", "s3", "statute", "blog", "ordered.v1", "postgres"} |-> {"text"}]
      @@ [v \in {"openai", "anthropic"} |-> {"endpoint"}]
      @@ [v \in {"tiers:", "tiers:blog,statute"} |-> {"tiers"}]
      @@ [v \in DOMAIN MCMeaning \ {"dir", "s3", "none"} |-> {"signals"}] @@ ("0" :> {"text", "number"})

MCDomainOf == [p \in {"home", "a", "b", "c", "gone", "off"} |-> IF p = "off" THEN "other" ELSE "site"]

\* Two headings in three share a word.
MCLabelOf(i) == {i % 2, 2 + (i % 3)}

\* Chunking keeps every word and cuts a sentence, line or paragraph only if it must.
TextKept ==
    kind = "text" => \A b \in Bounds : ChunksCover(source, b[1], b[2]) /\ CutsOnlyWhatIsTooLarge(source, b[1])

\* A source is read by its extension, an image because the caller says so.
Format == FormatOf(IF kind = "image" THEN kind ELSE "", kind)

Sources == DOMAIN Pieces \ {"text", "words", "tamil", "sql", "json", "setup", "plugins", "web", "tree"}

Headed == {"docx", "md", "html"}

\* What a source carries is read: each element of a format into exactly one block,
\* under the headings it stands under, and the words of a heading find its section,
\* in whole blocks and in chunks; tables and objects whole; a drawn text in order.
SourceRead ==
    /\ kind \in Sources =>
         /\ source # <<>> => EachOnce(Format, source)
         /\ source # <<>> /\ Format \in Headed =>
              UnderItsHeadings(Format, source, {"para", "list"} \cup (IF Format = "html" THEN {} ELSE {"heading"}))
         /\ Format \in Headed => \A chunked \in BOOLEAN : SectionsFound(Format, source, 2, chunked)
    /\ kind = "sql" => \A d \in {FlattenSeq(source)} : TablesWhole(d)
    /\ kind = "json" => \A d \in {Document(source)} : ObjectsWhole(d)
    /\ kind = "tamil" => Restored(source)

\* Whole words and stretches of spaceless scripts are found by their tokens, and a
\* text that reports no gap is tokenized whole; an answer is in the language asked
\* for, or in one the question bears out.
WordsRead ==
    kind = "words" =>
        /\ \A chars \in {Normalized(source)} : QuotesAlign(chars) /\ ReadableIsRead(chars)
        /\ \A asked \in {"none", "auto", "ta"}, conversation \in {"none", "de"} :
              GuessBorneOut(source, asked, conversation, "en")

Layer(name) == {source[i].setting : i \in {i \in DOMAIN source : source[i].layer = name}}

Source == {Setting(<<"storage", "bucket">>, "dir")}

Environment ==
    LET env == Within(source, {e \in ToSet(source) : e.layer = "env"}) IN [i \in DOMAIN env |-> env[i].setting]

Levels == {"org", "line", "product", "other"}

Scopes == UNION {[levels -> {"x", "y"}] : levels \in SUBSET Levels}

\* A client is what its settings say, reads what its ingest writes, and rebuilds what
\* a new plugin makes stale; a scope narrows what may be seen.
SetUpAsSaid ==
    /\ kind = "setup" =>
         \A file \in {DeepMerge(Source, Layer("source"))} :
             /\ LastWordCounts(file, Layer("overrides"), Environment)
             /\ \A cfg \in {LoadConfig(file, Layer("overrides"), Environment)} :
                  cfg # <<>> => \A client \in {Client(cfg)} :
                      client # <<>> => LayersServed(client)
                                         /\ FloorHolds(client.authority, {"blog", "statute", "unheard"})
    /\ kind = "setup" /\ source = <<>> =>
         \A allowed \in {{}, {<<>>}, {<<<<"org", "x">>>>}, {<<<<"org", "x">>, <<"line", "y">>>>, <<<<"org", "y">>>>}} :
            ScopeNarrows(<<"org", "line", "product">>, Scopes, allowed)
    /\ kind = "plugins" => RebuildsMinimum(source)

\* Where code comes from: a folder, a repository, something else.
Origins == {<<"folder", FALSE, "none">>, <<"git", TRUE, "unset">>, <<"git", TRUE, "set">>,
            <<"git", FALSE, "unset">>, <<"file", FALSE, "none">>}

\* Beside another document, which the graph may lack.
Beside(graph, dirty) ==
    [documents |-> {<<"b">>}, rows |-> {<<"b">>}, graph |-> graph, dirty |-> dirty, raised |-> FALSE]

\* What is taken in many at a time: a crawl keeps its bounds and its promise of pages;
\* a folder of code, or a schema, is taken in whole, or the graph marked for what it
\* lacks, wherever an ingest or the rebuild raises.
IntakeKept ==
    /\ kind = "web" => \A pages \in {1, 3, 9}, depth \in {1, 2, 3} : CrawlKept(source, "home", pages, depth)
    /\ kind = "tree" =>
         /\ \A signals \in {{"text"}, {"text", "community"}}, origin \in Origins, rebuild \in Rebuilds :
                CodeWhole(signals, [what |-> origin[1], web |-> origin[2], token |-> origin[3],
                                    rebuild |-> rebuild, tree |-> source])
         /\ Len(source) = 1 =>
              \A b \in [1..4 -> BOOLEAN], rebuild \in Rebuilds, graph \in {{}, {<<"b">>}}, dirty \in BOOLEAN :
                SchemaWhole({"text", "graph"}, [suffix |-> "txt", namesOpenapi |-> FALSE, createsTable |-> b[1],
                                                opensObject |-> b[2], hasMarker |-> b[3], connection |-> b[4],
                                                rebuild |-> rebuild, file |-> source[1]],
                            Beside(graph, dirty))

\* What tokenize.py says: a script it does not know tokenizes to nothing.
UnknownIsSilent == kind = "words" => UnknownYieldsNothing(source)

\* What extract/schema_openapi.py says: a document that breaks off raises nothing.
Raising == kind = "json" => \A d \in {Document(source)} : \A n \in DOMAIN d : NeverRaises(SubSeq(d, 1, n))

\* What evidence/chunker.py says: no chunk is larger than the bound.
Bounded == kind = "text" => \A b \in Bounds : ChunksBounded(source, b[1], b[2])

\* What extract/types.py says: a block's path is that of its ancestor headings.
HtmlHeadings == kind = "htm" => UnderItsHeadings(Format, source, {"heading"})

\* What extract/html.py says: blocks come in document order.
HtmlInOrder == kind = "htm" => InDocumentOrder(Format, source)
=============================================================================
