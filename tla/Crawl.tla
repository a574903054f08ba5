-------------------------------- MODULE Crawl --------------------------------
(***************************************************************************)
(* What is taken in many at a time: the crawl of one site (ingest/web.py), *)
(* breadth first, within the domain of the page it starts at, no more than *)
(* so many pages and so deep; the code of a folder or a repository, and a  *)
(* schema (code/facade.py, schema/facade.py), with the graph they need.    *)
(***************************************************************************)
EXTENDS Naturals, Sequences, FiniteSets, SequencesExt, FiniteSetsExt, Selection

CONSTANTS
    DomainOf,  \* DomainOf[p]: the domain of page p
    Unreached, \* pages that cannot be fetched
    SkipDirs   \* directories that hold nobody's own source

\* _links: in document order, without their fragments, those that are web addresses.
Links(web, page) ==
    LET from == Within(web, {link \in ToSet(web) : link.from = page}) IN [k \in DOMAIN from |-> from[k].to]

Queued(page, depth) == [page |-> page, depth |-> depth]

\* The links of a page first.
EnqueueDepthFirst(web, s, entry) ==
    LET links == Links(web, entry.page)
        new   == Within(links, ToSet(links) \ (s.seen \cup {entry.page}))
    IN  [k \in DOMAIN new |-> Queued(new[k], entry.depth + 1)] \o Tail(s.queue)

\* A link that was seen is not queued; one that is queued already is, once more.
Enqueue(web, s, entry) ==
    LET links == Links(web, entry.page)
        new   == Within(links, ToSet(links) \ (s.seen \cup {entry.page}))
    IN  Tail(s.queue) \o [k \in DOMAIN new |-> Queued(new[k], entry.depth + 1)]

\* One turn of the loop of crawl: a page that cannot be fetched is not tried again.
Visit(web, s, maxPages, maxDepth) ==
    IF s.queue = <<>> \/ Len(s.results) >= maxPages THEN s
    ELSE LET entry == Head(s.queue)
             seen  == s.seen \cup {entry.page}
         IN  IF entry.page \in s.seen \/ DomainOf[entry.page] # s.domain
             THEN [s EXCEPT !.queue = Tail(@)]
             ELSE IF entry.page \in Unreached THEN [s EXCEPT !.queue = Tail(@), !.seen = seen]
             ELSE [s EXCEPT !.queue = IF entry.depth >= maxDepth THEN Tail(@) ELSE Enqueue(web, s, entry),
                            !.seen = seen,
                            !.results = Append(@, entry.page)]

\* crawl: every link is queued at most once for each page that has it.
CrawlFrom(web, seed, maxPages, maxDepth) ==
    LET turn[k \in 0..(Len(web) + 1)] ==
          IF k = 0 THEN [queue |-> <<Queued(seed, 0)>>, seen |-> {}, results |-> <<>>, domain |-> DomainOf[seed]]
          ELSE Visit(web, turn[k - 1], maxPages, maxDepth)
    IN  turn[Len(web) + 1].results

\* Pages of the domain, to be had, at no more than so many links from the first one.
Reached(web, seed, depth) ==
    LET fair(pages) == {p \in pages : DomainOf[p] = DomainOf[seed] /\ p \notin Unreached}
        next(pages) == pages \cup fair({web[i].to : i \in {i \in DOMAIN web : web[i].from \in pages}})
        reach[k \in 0..depth] == IF k = 0 THEN fair({seed}) ELSE next(reach[k - 1])
    IN  reach[depth]

\* A crawl never leaves its domain, its depth or its number of pages, and takes no
\* page twice; if it ends before the number of pages, it has them all; and no page
\* comes before one that is nearer.
CrawlKept(web, seed, maxPages, maxDepth) ==
    LET pages == CrawlFrom(web, seed, maxPages, maxDepth)
        within == Reached(web, seed, maxDepth)
        near(p) == Min({d \in 0..maxDepth : p \in Reached(web, seed, d)})
    IN  /\ ToSet(pages) \subseteq within
        /\ IsInjective(pages)
        /\ Len(pages) = Min({maxPages, Cardinality(within)})
        /\ \A i, j \in DOMAIN pages : i < j => near(pages[i]) <= near(pages[j])

-----------------------------------------------------------------------------
(* Code and schemas. A corpus is [documents, rows, graph, dirty, raised]: the  *)
(* documents that are recorded, those whose rows are stored, those whose rows  *)
(* the saved graph was built from, the graph's marker, and whether the last    *)
(* call raised. A file is [parts, code, raises]: its path, whether it is code, *)
(* and where its ingest raises.                                                *)

\* Before a row is written; before the ingest is recorded; before the graph is marked,
\* in the stamp or the purge that follows the record; at the wiki page after that.
Raises == {"read", "record", "mark", "page", "never"}

\* In the scan or the distiller, with nothing saved; before the saved graph is unmarked;
\* in the wiki after that.
Rebuilds == {"distil", "clean", "wiki", "never"}

\* _require_graph_signal
GraphSignal(signals) == signals \cap {"graph", "community"} # {}

\* _walk_code_files: in the order of their paths.
WalkCodeFiles(tree) == Within(tree, {f \in ToSet(tree) : f.code /\ ToSet(f.parts) \cap SkipDirs = {}})

\* _acquire: a folder as it is, a repository cloned. A token that is named and not
\* set stops the clone from a web address, and only that.
Acquired(source) ==
    \/ source.what = "folder"
    \/ source.what = "git" /\ ~(source.web /\ source.token = "unset")

\* The files, one after the other, until one raises. A file that is recorded is
\* unchanged: it can only not be read, and marks nothing. No two have one path.
IngestEach(files, corpus) ==
    LET raising == {i \in DOMAIN files : files[i].raises \in
                      IF files[i].parts \in corpus.documents THEN {"read"} ELSE Raises \ {"never"}}
        last    == IF raising = {} THEN Len(files) ELSE Min(raising)
        through(steps) == {files[i].parts : i \in {i \in 1..last : /\ files[i].parts \notin corpus.documents
                                                                   /\ files[i].raises \in steps}}
    IN  [documents |-> corpus.documents \cup through({"mark", "page", "never"}),
         rows |-> corpus.rows \cup through({"record", "mark", "page", "never"}),
         graph |-> corpus.graph,
         dirty |-> corpus.dirty \/ through({"page", "never"}) # {},
         raised |-> raising # {}]

\* refresh_slow_path: the graph of all the rows there are, and then the wiki.
RefreshSlowPath(rebuild, corpus) ==
    [corpus EXCEPT !.graph = IF rebuild = "distil" THEN @ ELSE corpus.rows,
                   !.dirty = @ /\ rebuild \in {"distil", "clean"},
                   !.raised = rebuild # "never"]

\* Only where something was news, as crawl does it.
TakenInIfNew(files, rebuild, corpus) ==
    LET after == IngestEach(files, corpus)
    IN  IF after.raised \/ after.documents = corpus.documents THEN after ELSE RefreshSlowPath(rebuild, after)

\* One rebuild after the files. What was taken in before anything raised stays.
TakenIn(files, rebuild, corpus) ==
    LET after == IngestEach(files, corpus)
    IN  IF after.raised THEN after ELSE RefreshSlowPath(rebuild, after)

\* CodeFacade.ingest_from
IngestCode(signals, source, corpus) ==
    IF GraphSignal(signals) /\ Acquired(source) THEN TakenIn(WalkCodeFiles(source.tree), source.rebuild, corpus)
    ELSE [corpus EXCEPT !.raised = TRUE]

\* SchemaFacade._classify: by the name, and else by what the text says.
Classify(source) ==
    IF source.suffix = "sql" THEN "schema_sql"
    ELSE IF source.suffix \in {"json", "yaml"} \/ source.namesOpenapi THEN "schema_openapi"
    ELSE IF source.createsTable THEN "schema_sql"
    ELSE IF source.opensObject /\ source.hasMarker THEN "schema_openapi" ELSE "plain"

\* SchemaFacade.ingest_from: never a live database.
IngestSchema(signals, source, corpus) ==
    IF GraphSignal(signals) /\ ~source.connection THEN TakenIn(<<source.file>>, source.rebuild, corpus)
    ELSE [corpus EXCEPT !.raised = TRUE]

\* The graph was built from all there is, and says so.
GraphCurrent(corpus) ==
    corpus.documents \subseteq corpus.graph /\ corpus.graph = corpus.rows /\ ~corpus.dirty

\* A document that is recorded is in the graph, or the graph is marked: but for one,
\* whose ingest raised between the two, and those that were lost before.
GraphMarked(before, after, raisedBetween) ==
    \/ after.dirty
    \/ \E lost \in {{}} \cup {{d} : d \in raisedBetween} :
          after.documents \ after.graph \subseteq (before.documents \ before.graph) \cup lost

RaisedBetween(files) == {f.parts : f \in {f \in ToSet(files) : f.raises = "mark"}}

\* Wherever an ingest or the rebuild raises: a call that returns has taken in all of the
\* first-party code, nothing else, and built the graph from it; one that raises keeps
\* what it recorded, and marks the graph for it but for one document; asking again loses
\* nothing and, once nothing raises, mends everything; and what is refused, for want of
\* the signal or of the source, is refused before anything is taken in.
CodeWhole(signals, source) ==
    LET empty == [documents |-> {}, rows |-> {}, graph |-> {}, dirty |-> FALSE, raised |-> FALSE]
        sound == [source EXCEPT !.rebuild = "never",
                                !.tree = [i \in DOMAIN @ |-> [@[i] EXCEPT !.raises = "never"]]]
        once  == IngestCode(signals, source, empty)
        again == IngestCode(signals, source, once)
        mended == IngestCode(signals, sound, again)
        firstParty == {source.tree[i].parts : i \in {i \in DOMAIN source.tree :
                          source.tree[i].code /\ \A part \in SkipDirs : part \notin ToSet(source.tree[i].parts)}}
    IN  /\ \A c \in {once, again, mended} :
             /\ c.documents \cup c.rows \cup c.graph \subseteq firstParty
             /\ ~c.raised => c.documents = firstParty /\ GraphCurrent(c)
        /\ GraphMarked(empty, once, RaisedBetween(source.tree))
        /\ GraphMarked(once, again, RaisedBetween(source.tree))
        /\ once.documents \subseteq again.documents
        /\ mended.raised => once = [empty EXCEPT !.raised = TRUE] /\ again = once

\* The same of a schema, beside what there is; a live database is always refused.
SchemaWhole(signals, source, corpus) ==
    LET sound == [source EXCEPT !.rebuild = "never", !.file.raises = "never"]
        once  == IngestSchema(signals, source, corpus)
        mended == IngestSchema(signals, sound, once)
    IN  /\ corpus.documents \subseteq once.documents
        /\ once.documents \subseteq corpus.documents \cup {source.file.parts}
        /\ GraphMarked(corpus, once, RaisedBetween(<<source.file>>))
        /\ \A c \in {once, mended} : ~c.raised => source.file.parts \in c.documents /\ GraphCurrent(c)
        /\ source.connection => mended.raised
        /\ mended.raised => once = [corpus EXCEPT !.raised = TRUE]
        /\ \A suffix \in {"sql", "json", "txt"}, named \in BOOLEAN :
              Classify([source EXCEPT !.suffix = suffix, !.namesOpenapi = named]) = "plain"
                 => suffix = "txt" /\ ~source.createsTable
=============================================================================
