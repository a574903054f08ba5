----------------------------- MODULE Knowledge -----------------------------
(***************************************************************************)
(* The navigation of one partition: the graph and the wiki that point at   *)
(* its Evidence Units (graph/store.py, graph/distill.py, graph/            *)
(* retrieve.py, wiki/store.py, wiki/distill.py, wiki/retrieve.py), kept by *)
(* the slow path of the client and read by asks that run beside it.        *)
(*                                                                         *)
(* Every read and every write of a stored object is a step of its own; the *)
(* rows themselves are committed and deleted in one step each (Corpus has  *)
(* their detail).  A word is a content token long enough for the graph; a  *)
(* page's title, summary and keywords are one set of words.  The markdown  *)
(* twins of pages and index and the journal are left out, and so are wikis *)
(* of the legacy single-blob form.                                         *)
(***************************************************************************)
EXTENDS Integers, Sequences, SequencesExt, FiniteSetsExt, Selection

CONSTANTS Docs, Units, DocOf,
          Words,       \* in alphabetical order, a sequence
          Says,        \* Says[u]: the words of a unit
          UnitOrder,   \* UnitOrder[u]: the place of its id among the ids
          PageOf,      \* PageOf[d]: the id of a document's own page
          Slug,        \* Slug[p]: the file name a page id is stored under
          Under,       \* Under[f]: the file names that begin with file name f
          GraphReplies, PageReplies,  \* what the distilling model may reply
          Questions,   \* the sets of words that are asked
          Limit,       \* k: how many candidates a retriever returns
          Writers, Readers, None, MaxOps

ASSUME KnowledgeAssumption ==
    /\ Writers \cap Readers = {} /\ None \notin Writers \cup Readers
    /\ MaxOps \in Nat /\ Limit \in Nat \ {0}

Vocabulary == ToSet(Words)
PageIds == DOMAIN Slug

\* Ids are distinct, and what is asked is a handful of words.
ASSUME CorpusAssumption ==
    /\ IsFiniteSet(Units) /\ IsFiniteSet(Docs) /\ IsFiniteSet(Vocabulary)
    /\ DocOf \in [Units -> Docs] /\ Says \in [Units -> SUBSET Vocabulary]
    /\ UnitOrder \in [Units -> Nat]
    /\ \A u, v \in Units : UnitOrder[u] = UnitOrder[v] => u = v
    /\ PageOf \in [Docs -> PageIds]
    /\ \A q \in Questions : IsFiniteSet(q)

\* A reply is finite and made of what its schema names; what it names need not be.
ASSUME ReplyAssumption ==
    /\ \A reply \in GraphReplies :
           IsFiniteSet(reply.entities) /\ \A r \in reply.relations : r.weight \in Int
    /\ \A reply \in PageReplies :
           /\ reply \in Seq(ToSet(reply))
           /\ \A p \in ToSet(reply) :
                  /\ p = [id |-> p.id, words |-> p.words, links |-> p.links, refs |-> p.refs]
                  /\ p.id \in PageIds \cup {None} /\ p.links \subseteq PageIds

VARIABLES rows,    \* the units of the vector store
          graph,   \* the saved graph
          dirty,   \* its marker
          lock,    \* who holds the rebuild lock of the graph store
          index,   \* the light index of the wiki: page id -> words and links
          pages,   \* the page files: slug -> page
          call,    \* what each thread is doing
          ops,     \* operations begun (bounded by MaxOps)
          marks, rebuilds,  \* history: markers set, and rebuilds by readers
          built,   \* history: the rows the saved graph was built from
          gone     \* history: the units absent ever since a thread's call began

vars == <<rows, graph, dirty, lock, index, pages, call, ops, marks, rebuilds, built, gone>>

Threads == Writers \cup Readers
NoGraph == [nodes |-> {}, edges |-> {}]
Idle == [pc |-> "idle", op |-> "none", doc |-> None, snap |-> {}, draft |-> NoGraph,
         todo |-> <<>>, base |-> <<>>, query |-> {}, score |-> <<>>, found |-> <<>>]

--------------------------------------------------------------------------
(* The graph that is built. *)

Place(w) == CHOOSE i \in DOMAIN Words : Words[i] = w

\* A node per word, an edge per pair of words one unit mentions.
CoMention(snap) ==
    LET both(v, w) == {u \in snap : {v, w} \subseteq Says[u]}
        said       == UNION {Says[u] : u \in snap}
    IN  [nodes |-> {[label |-> w, refs |-> {u \in snap : w \in Says[u]}] : w \in said},
         edges |-> {[source |-> p[1], target |-> p[2], weight |-> Cardinality(both(p[1], p[2]))] :
                        p \in {q \in said \X said : Place(q[1]) < Place(q[2]) /\ both(q[1], q[2]) # {}}}]

\* What survives of a reply: entities with a unit of the corpus under them, and
\* the relations between those.  (The variant keeps every relation.)
GroundedLoosely(reply, snap) ==
    [nodes |-> {n \in {[label |-> e.label, refs |-> e.refs \cap snap] : e \in reply.entities} :
                    n.refs # {}},
     edges |-> {[source |-> r.source, target |-> r.target, weight |-> Max({r.weight, 1})] :
                    r \in reply.relations}]

Grounded(reply, snap) ==
    LET nodes  == {n \in {[label |-> e.label, refs |-> e.refs \cap snap] : e \in reply.entities} :
                      n.label # None /\ n.refs # {}}
        labels == {n.label : n \in nodes}
    IN  [nodes |-> nodes,
         edges |-> {[source |-> r.source, target |-> r.target, weight |-> Max({r.weight, 1})] :
                        r \in {s \in reply.relations : {s.source, s.target} \subseteq labels}}]

\* Any failure of the model, and a reply without a grounded entity, gives the
\* deterministic graph.
GraphsFrom(snap) ==
    {LET g == Grounded(reply, snap) IN IF g.nodes = {} THEN CoMention(snap) ELSE g :
        reply \in GraphReplies} \cup {CoMention(snap)}

--------------------------------------------------------------------------
(* The pages that are built. *)

UnitsOf(snap, d) == {u \in snap : DocOf[u] = d}

DeterministicPage(d, snap) ==
    LET units == UnitsOf(snap, d)
    IN  [id |-> PageOf[d], words |-> UNION {Says[u] : u \in units}, links |-> {}, refs |-> units]

\* Pages without an id or a title are dropped, a repeated id after its first, and
\* of the units named those the corpus does not have.
Sanitised(reply, snap) ==
    LET named == Within(reply, {p \in ToSet(reply) : p.id # None})
        first == {i \in DOMAIN named : \A j \in 1..(i - 1) : named[j].id # named[i].id}
        fresh == Within([i \in DOMAIN named |-> i], first)
    IN  [i \in DOMAIN fresh |-> [named[fresh[i]] EXCEPT !.refs = @ \cap snap]]

PagesFrom(snap, docs) ==
    LET own == SetToSeq({DeterministicPage(d, snap) : d \in docs})
    IN  {IF snap = {} \/ Sanitised(reply, snap) = <<>> THEN own ELSE Sanitised(reply, snap) :
            reply \in PageReplies} \cup {own}

IndexEntry(page) == [words |-> page.words, links |-> page.links]

Put(f, k, v) == [x \in DOMAIN f \cup {k} |-> IF x = k THEN v ELSE f[x]]
Without(f, ks) == [k \in (DOMAIN f) \ ks |-> f[k]]

--------------------------------------------------------------------------
(* Steps. *)

At(t, pc) == call[t].pc = pc
Goto(t, pc) == call' = [call EXCEPT ![t].pc = pc]
Keeps == UNCHANGED <<ops, marks, rebuilds, built, gone>>

Begin(t, c) ==
    /\ At(t, "idle")
    /\ ops < MaxOps
    /\ ops' = ops + 1
    /\ call' = [call EXCEPT ![t] = c]

Init == /\ rows = {} /\ graph = NoGraph /\ dirty = FALSE /\ lock = None
        /\ index = <<>> /\ pages = <<>>
        /\ call = [t \in Threads |-> Idle]
        /\ ops = 0 /\ marks = 0 /\ rebuilds = 0 /\ built = {}
        /\ gone = [t \in Threads |-> Units]

\* CiteNexus.ingest: the pipeline has committed the rows of d.
Ingest(t, d) ==
    /\ Begin(t, [Idle EXCEPT !.pc = "mark", !.op = "ingest", !.doc = d])
    /\ rows' = rows \cup UnitsOf(Units, d)
    /\ gone' = [s \in Threads |-> gone[s] \ UnitsOf(Units, d)]
    /\ UNCHANGED <<graph, dirty, lock, index, pages, marks, rebuilds, built>>

\* CiteNexus.delete: the rows of d go first.
Revoke(t, d) ==
    /\ Begin(t, [Idle EXCEPT !.pc = "scan", !.op = "revoke", !.doc = d])
    /\ UnitsOf(rows, d) # {}
    /\ rows' = rows \ UnitsOf(Units, d)
    /\ UNCHANGED <<graph, dirty, lock, index, pages, marks, rebuilds, built, gone>>

Refresh(t) ==
    /\ Begin(t, [Idle EXCEPT !.pc = "scan", !.op = "refresh"])
    /\ UNCHANGED <<rows, graph, dirty, lock, index, pages, marks, rebuilds, built, gone>>

\* A retriever is asked; the graph's goes through ensure_current first.
Ask(t, op, q) ==
    /\ Begin(t, [Idle EXCEPT !.pc = IF op = "graph" THEN "lock" ELSE "match", !.op = op, !.query = q])
    /\ gone' = [gone EXCEPT ![t] = Units \ rows]
    /\ UNCHANGED <<rows, graph, dirty, lock, index, pages, marks, rebuilds, built>>

MarkDirty(t) ==
    /\ At(t, "mark")
    /\ dirty' = TRUE
    /\ marks' = marks + 1
    /\ Goto(t, "distil")
    /\ UNCHANGED <<rows, graph, lock, index, pages, ops, rebuilds, built, gone>>

\* ensure_current: one reader at a time looks at the marker.  (The variant looks
\* before it waits for the lock.)
TakeLockLate(t) ==
    /\ At(t, "lock") \/ At(t, "late")
    /\ IF At(t, "lock") /\ dirty /\ lock # None
         THEN Goto(t, "late") /\ UNCHANGED <<lock, rebuilds>>
         ELSE /\ lock = None
              /\ LET builds == At(t, "late") \/ dirty
                 IN  /\ lock' = IF builds THEN t ELSE None
                     /\ rebuilds' = IF builds THEN rebuilds + 1 ELSE rebuilds
                     /\ Goto(t, IF builds THEN "scan" ELSE "load")
    /\ UNCHANGED <<rows, graph, dirty, index, pages, ops, marks, built, gone>>

TakeLock(t) ==
    /\ At(t, "lock")
    /\ lock = None
    /\ lock' = IF dirty THEN t ELSE None
    /\ rebuilds' = IF dirty THEN rebuilds + 1 ELSE rebuilds
    /\ Goto(t, IF dirty THEN "scan" ELSE "load")
    /\ UNCHANGED <<rows, graph, dirty, index, pages, ops, marks, built, gone>>

\* build_from_store, by a reader under the lock, by a writer without it.
ScanForGraph(t) ==
    /\ At(t, "scan")
    /\ \E g \in GraphsFrom(rows) :
           call' = [call EXCEPT ![t] = [@ EXCEPT !.pc = "save", !.draft = g, !.snap = rows]]
    /\ UNCHANGED <<rows, graph, dirty, lock, index, pages>> /\ Keeps

SaveGraph(t) ==
    /\ At(t, "save")
    /\ graph' = call[t].draft
    /\ built' = call[t].snap
    /\ call' = [call EXCEPT ![t] = [@ EXCEPT !.pc = "clean", !.draft = NoGraph, !.snap = {}]]
    /\ UNCHANGED <<rows, dirty, lock, index, pages, ops, marks, rebuilds, gone>>

MarkClean(t) ==
    /\ At(t, "clean")
    /\ dirty' = FALSE
    /\ lock' = IF lock = t THEN None ELSE lock
    /\ Goto(t, CASE call[t].op = "graph"  -> "load"
                 [] call[t].op = "revoke" -> "drop"
                 [] OTHER                 -> "distil")
    /\ UNCHANGED <<rows, graph, index, pages>> /\ Keeps

\* integrate_document sees the rows of its document, build_from_store all rows.
DistilPages(t) ==
    /\ At(t, "distil")
    /\ LET one  == call[t].op = "ingest"
           snap == IF one THEN UnitsOf(rows, call[t].doc) ELSE rows
           docs == IF one THEN {call[t].doc} ELSE {DocOf[u] : u \in snap}
       IN  \E todo \in PagesFrom(snap, docs) :
               call' = [call EXCEPT ![t] = [@ EXCEPT !.todo = todo, !.pc = IF one THEN "base" ELSE "clear"]]
    /\ UNCHANGED <<rows, graph, dirty, lock, index, pages>> /\ Keeps

\* save: the page files of the earlier build go, and the index starts anew.
ClearPages(t) ==
    /\ At(t, "clear")
    /\ pages' = <<>>
    /\ Goto(t, "pages")
    /\ UNCHANGED <<rows, graph, dirty, lock, index>> /\ Keeps

ReadBase(t) ==
    /\ At(t, "base")
    /\ call' = [call EXCEPT ![t] = [@ EXCEPT !.pc = "pages", !.base = index]]
    /\ UNCHANGED <<rows, graph, dirty, lock, index, pages>> /\ Keeps

PutPage(t) ==
    /\ At(t, "pages")
    /\ call[t].todo # <<>>
    /\ LET c    == call[t]
           page == Head(c.todo)
       IN  /\ pages' = Put(pages, Slug[page.id], page)
           /\ call' = [call EXCEPT ![t] = [c EXCEPT !.todo = Tail(c.todo),
                                                    !.base = Put(c.base, page.id, IndexEntry(page))]]
    /\ UNCHANGED <<rows, graph, dirty, lock, index>> /\ Keeps

PutIndex(t) ==
    /\ At(t, "pages")
    /\ call[t].todo = <<>>
    /\ index' = call[t].base
    /\ call' = [call EXCEPT ![t] = Idle]
    /\ UNCHANGED <<rows, graph, dirty, lock, pages>> /\ Keeps

\* remove_document: the file of the document's own page, with every file whose
\* name begins like it, then its entry.  (The variant leaves the entry.)
DropPageOnly(t) ==
    /\ At(t, "drop")
    /\ pages' = Without(pages, Under[Slug[PageOf[call[t].doc]]])
    /\ call' = [call EXCEPT ![t] = Idle]
    /\ UNCHANGED <<rows, graph, dirty, lock, index>> /\ Keeps

DropPage(t) ==
    /\ At(t, "drop")
    /\ pages' = Without(pages, Under[Slug[PageOf[call[t].doc]]])
    /\ Goto(t, "list")
    /\ UNCHANGED <<rows, graph, dirty, lock, index>> /\ Keeps

ListSurvivors(t) ==
    /\ At(t, "list")
    /\ call' = [call EXCEPT ![t] = [@ EXCEPT !.pc = "pages", !.base = Without(index, {PageOf[call[t].doc]})]]
    /\ UNCHANGED <<rows, graph, dirty, lock, index, pages>> /\ Keeps

--------------------------------------------------------------------------
(* Reading. *)

\* The graph's retriever: a unit scores one for each node it is under whose
\* label is a word of the question.
NodeScores(g, q) ==
    LET nodes == {n \in g.nodes : n.label \in q}
    IN  [u \in UNION {n.refs : n \in nodes} |-> Cardinality({n \in nodes : u \in n.refs})]

\* The wiki's: a page scores two for each word it shares, and what it links to
\* one, unless something vouches for it better.
PageScores(ix, q) ==
    LET hits(p)    == Cardinality(q \cap ix[p].words)
        matched    == {p \in DOMAIN ix : hits(p) > 0}
        vouched(p) == {2 * hits(m) : m \in matched \cap {p}}
                      \cup {hits(m) : m \in {n \in matched : p \in ix[n].links}}
    IN  [p \in matched \cup UNION {ix[m].links : m \in matched} |-> Max(vouched(p))]

\* Best first, equal scores by id; units the index no longer has are skipped.
\* (The variant takes the navigation's word for them.)
Ranked(score, units) ==
    LET above(u) == {v \in units : score[v] > score[u]
                                   \/ (score[v] = score[u] /\ UnitOrder[v] < UnitOrder[u])}
        all == [i \in 1..Cardinality(units) |-> CHOOSE u \in units : Cardinality(above(u)) = i - 1]
    IN  SubSeq(all, 1, Min({Limit, Len(all)}))

CandidatesUnchecked(score, live) == Ranked(score, DOMAIN score)
Candidates(score, live) == Ranked(score, live \cap DOMAIN score)

LoadGraph(t) ==
    /\ At(t, "load")
    /\ call' = [call EXCEPT ![t] = [@ EXCEPT !.pc = "resolve", !.score = NodeScores(graph, call[t].query)]]
    /\ UNCHANGED <<rows, graph, dirty, lock, index, pages>> /\ Keeps

MatchPages(t) ==
    /\ At(t, "match")
    /\ LET hits == PageScores(index, call[t].query)
       IN  call' = [call EXCEPT ![t] = [@ EXCEPT !.pc = "fetch", !.base = hits]]
    /\ UNCHANGED <<rows, graph, dirty, lock, index, pages>> /\ Keeps

\* A matched page is fetched; one whose file is not there gives nothing.
FetchPage(t) ==
    /\ At(t, "fetch")
    /\ \E p \in DOMAIN call[t].base :
           LET page  == IF Slug[p] \in DOMAIN pages THEN pages[Slug[p]].refs ELSE {}
               score == call[t].score
               best  == [u \in page \cup DOMAIN score |->
                           Max({score[v] : v \in {u} \cap DOMAIN score}
                               \cup {call[t].base[p] : v \in {u} \cap page})]
           IN  call' = [call EXCEPT ![t] = [@ EXCEPT !.score = best, !.base = Without(call[t].base, {p})]]
    /\ UNCHANGED <<rows, graph, dirty, lock, index, pages>> /\ Keeps

FetchedAll(t) ==
    /\ At(t, "fetch")
    /\ call[t].base = <<>>
    /\ Goto(t, "resolve")
    /\ UNCHANGED <<rows, graph, dirty, lock, index, pages>> /\ Keeps

Resolve(t) ==
    /\ At(t, "resolve")
    /\ call' = [call EXCEPT ![t] = [Idle EXCEPT !.found = Candidates(call[t].score, rows)]]
    /\ UNCHANGED <<rows, graph, dirty, lock, index, pages>> /\ Keeps

WriterStep(t) ==
    \/ \E d \in Docs : Ingest(t, d) \/ Revoke(t, d)
    \/ Refresh(t) \/ MarkDirty(t) \/ DistilPages(t) \/ ReadBase(t) \/ ClearPages(t)
    \/ PutPage(t) \/ PutIndex(t) \/ DropPage(t) \/ ListSurvivors(t)

ReaderStep(t) ==
    \/ \E q \in Questions, op \in {"graph", "wiki"} : Ask(t, op, q)
    \/ TakeLock(t) \/ LoadGraph(t) \/ MatchPages(t) \/ FetchPage(t) \/ FetchedAll(t) \/ Resolve(t)

Build(t) == ScanForGraph(t) \/ SaveGraph(t) \/ MarkClean(t)

Next == \/ \E t \in Writers : WriterStep(t)
        \/ \E t \in Readers : ReaderStep(t)
        \/ \E t \in Threads : Build(t)

Spec == Init /\ [][Next]_vars

--------------------------------------------------------------------------
(* Properties. *)

\* wiki/store.py and graph/retrieve.py: navigation is never evidence.  Whatever
\* a stale graph, a stale page or a page being rewritten names, an ask is given
\* no unit that was out of the index from its beginning to its end.
RevokedNotFound ==
    \A t \in Readers : At(t, "idle") => ToSet(call[t].found) \cap gone[t] = {}

\* graph/store.py, ensure_current: "exactly one may write the artifact" and "a
\* distiller is never called twice for the same state".  However many questions
\* arrive at once, each rebuild by a reader uses up a marker of its own.
OneRebuildPerMark == rebuilds <= marks

\* wiki/store.py: the light index is all a query reads.  When the one writer is
\* at rest, every page the index names has its file, the file is that page's
\* own, and the words and links that led to it are the page's.
IndexedPagesLead ==
    (\A t \in Writers : At(t, "idle")) =>
        \A p \in DOMAIN index :
            /\ Slug[p] \in DOMAIN pages
            /\ pages[Slug[p]].id = p
            /\ IndexEntry(pages[Slug[p]]) = index[p]

\* graph/distill.py, the grounding invariant: whatever the model replied, every
\* node of the saved graph stands on units there have been, every edge joins two
\* of its nodes and weighs something.
GraphGrounded ==
    LET labels == {n.label : n \in graph.nodes}
    IN  /\ \A n \in graph.nodes : n.refs # {} /\ n.refs \subseteq Units
        /\ \A e \in graph.edges : {e.source, e.target} \subseteq labels /\ e.weight > 0

\* What navigates the corpus leads to what there is, page by page and node by node.
NavigationGrounded == IndexedPagesLead /\ GraphGrounded

\* graph/store.py, ensure_current: "an ask() always sees a graph consistent with
\* all committed ingests".  With nothing running and the marker down, a read
\* takes the graph as it is.
AskSeesCommitted ==
    (~dirty /\ \A t \in Threads : At(t, "idle")) => built = rows
=============================================================================
