------------------------------- MODULE Corpus -------------------------------
(***************************************************************************)
(* One partition of a bucket and the clients that ingest into it, revoke   *)
(* from it and read its graph (client.py, ingest/pipeline.py).             *)
(*                                                                         *)
(* Every action is one durable write of the backend or of the vector       *)
(* store, in the order the code issues them; between two of them another   *)
(* client may act, and the client may die or the call may raise (Crash).   *)
(* A call works on the copy of the manifest it loaded first and saves that *)
(* copy whole.                                                             *)
(***************************************************************************)
EXTENDS Naturals, EtagManifest

CONSTANTS Clients,     \* client processes sharing the partition
          NoDoc,
          Signals,     \* the signals the clients declare
          Slots,       \* positions of Evidence Units in a document
          Units,       \* Units[s]: the positions the extractor fills for bytes s
          WithImages,  \* checksums whose bytes carry images
          Within,      \* Within[d]: documents whose image keys lie under d's prefix
          IndexWithin  \* IndexWithin[d]: documents whose index key begins with d's

ASSUME NoDocAssumption == NoDoc \notin Docs
ASSUME UnitsAssumption == Units \in [Checksums -> SUBSET Slots]
ASSUME WithinAssumption == /\ Within \in [Docs -> SUBSET Docs]
                           /\ IndexWithin \in [Docs -> SUBSET Docs]
                           /\ \A d \in Docs : d \in Within[d] /\ d \in IndexWithin[d]

HasVectors == Signals \cap {"embedding", "text"} # {}
HasGraph   == Signals \cap {"graph", "community"} # {}

\* A row of the vector store; <<doc, slot>> is its eu_id.
Row == [doc : Docs, slot : Slots, sum : Checksums]

VARIABLES manifest,   \* the saved etag manifest
          blobs,      \* checksums whose raw blob is in the bucket
          images,     \* documents with image blobs
          structure,  \* structure[d]: version of d's structure index
          rows,       \* the vector store
          stamped,    \* the tokenizer manifest names the running tokenizer
          graph,      \* the rows the saved graph was built from
          dirty,      \* the graph's dirty marker
          wiki,       \* documents with a wiki page
          call,       \* call[c]: the call client c is executing
          result      \* result[d]: status the latest call on d returned

durable == <<manifest, blobs, images, structure, rows, stamped, graph, dirty, wiki>>
vars == <<manifest, blobs, images, structure, rows, stamped, graph, dirty, wiki,
          call, result>>

Ops == {"none", "ingest", "delete", "refresh", "ask"}

PCs == {"idle",
        \* IngestPipeline.ingest and what CiteNexus.ingest does after it
        "images", "raw", "structure", "rows", "record", "stamp", "purge",
        "ingested", "page",
        \* CiteNexus.delete
        "delrows", "delstructure", "delimages", "sweep", "forget",
        \* GraphStore.build_from_store and the wiki step after it
        "scan", "save", "clean", "wiki"}

Call == [op : Ops, pc : PCs, doc : Docs \cup {NoDoc}, sum : Checksums \cup {NoSum},
         man : Manifest, todo : SUBSET Checksums, snap : SUBSET Row]

Idle == [op |-> "none", pc |-> "idle", doc |-> NoDoc, sum |-> NoSum,
         man |-> EmptyManifest, todo |-> {}, snap |-> {}]

Results == {"none", "pending", "unchanged", "ingested", "deleted", "absent"}

TypeOK == /\ manifest \in Manifest
          /\ blobs \subseteq Checksums
          /\ images \subseteq Docs
          /\ structure \in [Docs -> Checksums \cup {NoSum}]
          /\ rows \subseteq Row
          /\ stamped \in BOOLEAN
          /\ graph \subseteq Row
          /\ dirty \in BOOLEAN
          /\ wiki \subseteq Docs
          /\ call \in [Clients -> Call]
          /\ result \in [Docs -> Results]

Init == /\ manifest = EmptyManifest
        /\ blobs = {}
        /\ images = {}
        /\ structure = [d \in Docs |-> NoSum]
        /\ rows = {}
        /\ stamped = FALSE
        /\ graph = {}
        /\ dirty = FALSE
        /\ wiki = {}
        /\ call = [c \in Clients |-> Idle]
        /\ result = [d \in Docs |-> "none"]

At(c, pc) == call[c].pc = pc
Goto(c, pc) == call' = [call EXCEPT ![c].pc = pc]
Return(c) == call' = [call EXCEPT ![c] = Idle]

-----------------------------------------------------------------------------
(* Ingest *)

\* The call loads the manifest and goes on only if the bytes are new for d.
\* A crawl loads it again for its next page (pc "ingested").
LoadManifest(c, d, s) ==
    /\ call[c].pc \in {"idle", "ingested"}
    /\ IsChanged(manifest, d, s)
    /\ call' = [call EXCEPT ![c] = [Idle EXCEPT !.op = "ingest", !.pc = "images",
                                                !.doc = d, !.sum = s,
                                                !.man = manifest]]
    /\ result' = [result EXCEPT ![d] = "pending"]
    /\ UNCHANGED durable

\* Unchanged bytes: nothing is written, whatever an earlier call left behind.
SkipUnchanged(c, d, s) ==
    /\ call[c].pc \in {"idle", "ingested"}
    /\ ~IsChanged(manifest, d, s)
    /\ result' = [result EXCEPT ![d] = "unchanged"]
    /\ UNCHANGED <<durable, call>>

PersistImages(c) ==
    /\ At(c, "images")
    /\ images' = IF call[c].sum \in WithImages THEN images \cup {call[c].doc}
                                               ELSE images
    /\ Goto(c, "raw")
    /\ UNCHANGED <<manifest, blobs, structure, rows, stamped, graph, dirty, wiki, result>>

PutRaw(c) ==
    /\ At(c, "raw")
    /\ blobs' = blobs \cup {call[c].sum}
    /\ Goto(c, "structure")
    /\ UNCHANGED <<manifest, images, structure, rows, stamped, graph, dirty, wiki, result>>

\* (The variant writes the index only when there is none.)
PutStructureOnce(c) ==
    /\ At(c, "structure")
    /\ structure' = IF "structure" \in Signals /\ structure[call[c].doc] = NoSum
                    THEN [structure EXCEPT ![call[c].doc] = call[c].sum]
                    ELSE structure
    /\ Goto(c, "rows")
    /\ UNCHANGED <<manifest, blobs, images, rows, stamped, graph, dirty, wiki, result>>

PutStructure(c) ==
    /\ At(c, "structure")
    /\ structure' = IF "structure" \in Signals
                    THEN [structure EXCEPT ![call[c].doc] = call[c].sum]
                    ELSE structure
    /\ Goto(c, "rows")
    /\ UNCHANGED <<manifest, blobs, images, rows, stamped, graph, dirty, wiki, result>>

\* merge_insert on eu_id: the rows of other slots stay, those of an older and
\* longer version of the same document among them.
Upsert(d, s) ==
    {r \in rows : ~(r.doc = d /\ r.slot \in Units[s])}
        \cup [doc : {d}, slot : Units[s], sum : {s}]

UpsertRows(c) ==
    /\ At(c, "rows")
    /\ rows' = IF HasVectors THEN Upsert(call[c].doc, call[c].sum) ELSE rows
    /\ Goto(c, "record")
    /\ UNCHANGED <<manifest, blobs, images, structure, stamped, graph, dirty, wiki, result>>

\* The commit point of an ingest.
RecordManifest(c) ==
    LET recorded == Record(call[c].man, call[c].doc, call[c].sum)
    IN  /\ At(c, "record")
        /\ manifest' = recorded
        /\ call' = [call EXCEPT ![c] = [@ EXCEPT !.pc = "stamp", !.man = recorded]]
        /\ UNCHANGED <<blobs, images, structure, rows, stamped, graph, dirty, wiki, result>>

\* The pipeline hands its IngestResult to its caller.
Ingested(c) == result' = [result EXCEPT ![call[c].doc] = "ingested"]

\* Stamp the tokenizer; with nothing retired the pipeline is done.
StampTokenizer(c) ==
    LET retired == call[c].man.superseded[call[c].doc]
    IN  /\ At(c, "stamp")
        /\ stamped' = TRUE
        /\ IF retired = {}
           THEN /\ Goto(c, "ingested")
                /\ Ingested(c)
           ELSE /\ call' = [call EXCEPT ![c] = [@ EXCEPT !.pc = "purge", !.todo = retired]]
                /\ UNCHANGED result
        /\ UNCHANGED <<manifest, blobs, images, structure, rows, graph, dirty, wiki>>

\* Delete one blob the document holds unless another document owns it now.
\* (The variant forgets the owners.)
ReclaimBlobUnguarded(c, s) ==
    /\ blobs' = blobs \ {s}
    /\ call' = [call EXCEPT ![c].todo = @ \ {s}]

ReclaimBlob(c, s) ==
    /\ blobs' = IF OwnersOf(call[c].man, s, call[c].doc) = {} THEN blobs \ {s}
                                                              ELSE blobs
    /\ call' = [call EXCEPT ![c].todo = @ \ {s}]

PurgeRetired(c) ==
    /\ At(c, "purge")
    /\ \E s \in call[c].todo : ReclaimBlob(c, s)
    /\ UNCHANGED <<manifest, images, structure, rows, stamped, graph, dirty, wiki, result>>

ClearRetired(c) ==
    LET cleared == ClearSuperseded(call[c].man, call[c].doc)
    IN  /\ At(c, "purge")
        /\ call[c].todo = {}
        /\ manifest' = cleared
        /\ call' = [call EXCEPT ![c] = [@ EXCEPT !.pc = "ingested", !.man = cleared]]
        /\ Ingested(c)
        /\ UNCHANGED <<blobs, images, structure, rows, stamped, graph, dirty, wiki>>

\* CiteNexus.ingest of a local source: mark the graph dirty, then write the
\* one wiki page of the document.
MarkDirty(c) ==
    /\ At(c, "ingested")
    /\ dirty' = (dirty \/ HasGraph)
    /\ Goto(c, "page")
    /\ UNCHANGED <<manifest, blobs, images, structure, rows, stamped, graph, wiki, result>>

IntegratePage(c) ==
    /\ At(c, "page")
    /\ wiki' = IF "wiki" \in Signals THEN wiki \cup {call[c].doc} ELSE wiki
    /\ Return(c)
    /\ UNCHANGED <<manifest, blobs, images, structure, rows, stamped, graph, dirty, result>>

\* A fetched URL, or the last page of a crawl: refresh_slow_path instead.  The
\* method is also public, so an idle client may call it.
StartRefresh(c) ==
    /\ call[c].pc \in {"idle", "ingested"}
    /\ call' = [call EXCEPT ![c] = [Idle EXCEPT !.op = "refresh",
                                        !.pc = IF HasGraph THEN "scan" ELSE "wiki"]]
    /\ UNCHANGED <<durable, result>>

-----------------------------------------------------------------------------
(* Revoke *)

DeleteAbsent(c, d) ==
    /\ At(c, "idle")
    /\ manifest.etags[d] = NoSum
    /\ result' = [result EXCEPT ![d] = "absent"]
    /\ UNCHANGED <<durable, call>>

StartDelete(c, d) ==
    /\ At(c, "idle")
    /\ manifest.etags[d] # NoSum
    /\ call' = [call EXCEPT ![c] = [Idle EXCEPT !.op = "delete", !.pc = "delrows",
                                                !.doc = d, !.man = manifest]]
    /\ result' = [result EXCEPT ![d] = "pending"]
    /\ UNCHANGED durable

DeleteRows(c) ==
    /\ At(c, "delrows")
    /\ rows' = {r \in rows : r.doc # call[c].doc}
    /\ Goto(c, "delstructure")
    /\ UNCHANGED <<manifest, blobs, images, structure, stamped, graph, dirty, wiki, result>>

\* delete_prefix(structure/<document_id>.json) takes every key that begins so: the
\* index of "a.json" with that of "a" in an object store, where a prefix is a
\* string, and of "a.json/b" in a file system, where it is a folder too.
DeleteStructure(c) ==
    /\ At(c, "delstructure")
    /\ structure' = [d \in Docs |-> IF d \in IndexWithin[call[c].doc] THEN NoSum
                                                                  ELSE structure[d]]
    /\ Goto(c, "delimages")
    /\ UNCHANGED <<manifest, blobs, images, rows, stamped, graph, dirty, wiki, result>>

\* delete_prefix(raw/images/<document_id>/) takes every key under it, and with
\* the document's own images those of the documents nested under its id.
DeleteImages(c) ==
    /\ At(c, "delimages")
    /\ images' = images \ Within[call[c].doc]
    /\ call' = [call EXCEPT ![c] = [@ EXCEPT !.pc = "sweep",
                                           !.todo = Holdings(call[c].man, call[c].doc)]]
    /\ UNCHANGED <<manifest, blobs, structure, rows, stamped, graph, dirty, wiki, result>>

SweepRaw(c) ==
    /\ At(c, "sweep")
    /\ \E s \in call[c].todo : ReclaimBlob(c, s)
    /\ UNCHANGED <<manifest, images, structure, rows, stamped, graph, dirty, wiki, result>>

\* The graph is rebuilt and the page dropped before the entry is forgotten.
\* (The variants skip the rebuild, or both.)
EndSweepSkipsGraph(c) ==
    /\ At(c, "sweep")
    /\ call[c].todo = {}
    /\ Goto(c, "wiki")
    /\ UNCHANGED <<durable, result>>

EndSweepSkipsNavigation(c) ==
    /\ At(c, "sweep")
    /\ call[c].todo = {}
    /\ Goto(c, "forget")
    /\ UNCHANGED <<durable, result>>

EndSweep(c) ==
    /\ At(c, "sweep")
    /\ call[c].todo = {}
    /\ Goto(c, IF HasGraph THEN "scan" ELSE "wiki")
    /\ UNCHANGED <<durable, result>>

\* The commit point of a revoke.
ForgetDocument(c) ==
    /\ At(c, "forget")
    /\ manifest' = Forget(call[c].man, call[c].doc)
    /\ result' = [result EXCEPT ![call[c].doc] = "deleted"]
    /\ Return(c)
    /\ UNCHANGED <<blobs, images, structure, rows, stamped, graph, dirty, wiki>>

-----------------------------------------------------------------------------
(* Navigation *)

\* ensure_current: a read that finds the marker set rebuilds the graph first.
EnsureCurrent(c) ==
    /\ At(c, "idle")
    /\ HasGraph
    /\ dirty
    /\ call' = [call EXCEPT ![c] = [Idle EXCEPT !.op = "ask", !.pc = "scan"]]
    /\ UNCHANGED <<durable, result>>

\* (The variant takes the marker down before the rebuild.)
ScanRowsMarksClean(c) ==
    /\ At(c, "scan")
    /\ call' = [call EXCEPT ![c] = [@ EXCEPT !.pc = "save", !.snap = rows]]
    /\ dirty' = FALSE
    /\ UNCHANGED <<manifest, blobs, images, structure, rows, stamped, graph, wiki, result>>

ScanRows(c) ==
    /\ At(c, "scan")
    /\ call' = [call EXCEPT ![c] = [@ EXCEPT !.pc = "save", !.snap = rows]]
    /\ UNCHANGED <<durable, result>>

SaveGraph(c) ==
    /\ At(c, "save")
    /\ graph' = call[c].snap
    /\ Goto(c, "clean")
    /\ UNCHANGED <<manifest, blobs, images, structure, rows, stamped, dirty, wiki, result>>

MarkClean(c) ==
    /\ At(c, "clean")
    /\ dirty' = FALSE
    /\ IF call[c].op = "ask" THEN Return(c) ELSE Goto(c, "wiki")
    /\ UNCHANGED <<manifest, blobs, images, structure, rows, stamped, graph, wiki, result>>

\* refresh_slow_path rebuilds the wiki from the store; a revoke removes one page.
UpdateWiki(c) ==
    /\ At(c, "wiki")
    /\ wiki' = IF "wiki" \notin Signals THEN wiki
               ELSE IF call[c].op = "delete" THEN wiki \ {call[c].doc}
                    ELSE {r.doc : r \in rows}
    /\ IF call[c].op = "delete" THEN Goto(c, "forget") ELSE Return(c)
    /\ UNCHANGED <<manifest, blobs, images, structure, rows, stamped, graph, dirty, result>>

-----------------------------------------------------------------------------
\* The client dies, or a step raises: an embedder, a backend, an extractor.
\* What was written stays written, and the call never returns.
Crash(c) ==
    /\ ~At(c, "idle")
    /\ Return(c)
    /\ UNCHANGED <<durable, result>>

Ingest(c) ==
    \/ \E d \in Docs, s \in Checksums : LoadManifest(c, d, s) \/ SkipUnchanged(c, d, s)
    \/ PersistImages(c) \/ PutRaw(c) \/ PutStructure(c) \/ UpsertRows(c)
    \/ RecordManifest(c) \/ StampTokenizer(c) \/ PurgeRetired(c) \/ ClearRetired(c)
    \/ MarkDirty(c) \/ IntegratePage(c)

Delete(c) ==
    \/ \E d \in Docs : DeleteAbsent(c, d) \/ StartDelete(c, d)
    \/ DeleteRows(c) \/ DeleteStructure(c) \/ DeleteImages(c)
    \/ SweepRaw(c) \/ EndSweep(c) \/ ForgetDocument(c)

Navigate(c) ==
    \/ StartRefresh(c) \/ EnsureCurrent(c)
    \/ ScanRows(c) \/ SaveGraph(c) \/ MarkClean(c) \/ UpdateWiki(c)

Next == \E c \in Clients : Ingest(c) \/ Delete(c) \/ Navigate(c) \/ Crash(c)

Spec == Init /\ [][Next]_vars

-----------------------------------------------------------------------------
(* Properties *)

\* EtagManifest.record: a document's current checksum is never among those it
\* has retired, so a purge can never delete the bytes it just committed.
CurrentNeverRetired == CurrentNotRetired(manifest)

\* A row that cites the version its document currently maps to cites bytes
\* that are in the bucket, however calls were interrupted: blobs are put before
\* rows, rows are deleted before blobs, and a blob another document owns stays.
CitedBytesKept ==
    \A r \in rows : manifest.etags[r.doc] = r.sum => r.sum \in blobs

\* CiteNexus.delete: once it returned "deleted", no layer that retrieval reads
\* holds anything of the document, until the document is ingested again.
RevokedIsGone ==
    \A d \in Docs : result[d] = "deleted" =>
        /\ Holdings(manifest, d) = {}
        /\ \A r \in rows \cup graph : r.doc # d
        /\ structure[d] = NoSum
        /\ d \notin images \cup wiki

\* CiteNexus.ingest: once it returned "ingested", and until the next call on the
\* document, its evidence is whole: the manifest names a version whose bytes are
\* in the bucket, whose every unit has a row and whose structure is indexed. The
\* index alone may be gone, and only where its key begins with that of another
\* document there was a call on; it is never that of an older version.
IndexTaken(d) ==
    /\ structure[d] = NoSum
    /\ \E e \in Docs \ {d} : d \in IndexWithin[e] /\ result[e] # "none"

IngestedIsComplete ==
    \A d \in Docs : result[d] = "ingested" =>
        \E s \in blobs :
            /\ manifest.etags[d] = s
            /\ HasVectors =>
                 \A u \in Units[s] : [doc |-> d, slot |-> u, sum |-> s] \in rows
            /\ "structure" \in Signals => structure[d] = s \/ IndexTaken(d)

\* The retired entries keep a blob reachable until it is gone: a step that takes
\* the last record of a blob out of the manifest leaves no such blob behind.
StaysReachable ==
    \A s \in blobs \cap blobs' : Names(manifest, s) => Names(manifest', s)

ReachableUntilReclaimed == [][StaysReachable]_vars

\* CiteNexus.delete, "every other document is untouched", and the same of ingest:
\* no step changes a document that no running call is about, nor takes the bytes
\* it maps to. A revoke may take the images and the index of one whose keys lie
\* under the prefix it deletes, and of no other, and leaves the rest of that one.
Target(d) == \E c \in Clients : call[c].doc = d

UnderPrefix(d, pc, prefix) == \E c \in Clients : At(c, pc) /\ d \in prefix[call[c].doc]

Untouched(d) ==
    /\ Holdings(manifest', d) = Holdings(manifest, d)
    /\ manifest'.etags[d] = manifest.etags[d]
    /\ {r \in rows' : r.doc = d} = {r \in rows : r.doc = d}
    /\ manifest.etags[d] \in blobs => manifest.etags[d] \in blobs'
    /\ \/ structure'[d] = structure[d]
       \/ UnderPrefix(d, "delstructure", IndexWithin) /\ structure'[d] = NoSum
    /\ \/ (d \in images') = (d \in images)
       \/ UnderPrefix(d, "delimages", Within) /\ d \notin images'

OthersUntouched == [][\A d \in Docs : ~Target(d) => Untouched(d)]_vars

\* "Navigation must not point at revoked evidence": whatever was interrupted, the
\* graph and the wiki name only documents the index still knows, by an entry or
\* by a row, so that every page and edge can still be revoked or reported.
Known == {d \in Docs : manifest.etags[d] # NoSum} \cup {r.doc : r \in rows}

NavigationKnown == wiki \cup {r.doc : r \in graph} \subseteq Known

\* GraphStore: the dirty marker is taken down only over a graph built from the
\* rows the store holds, so no committed change is forgotten.
CleanedWhenCurrent == [][dirty /\ ~dirty' => graph = rows]_vars

-----------------------------------------------------------------------------
(* What the documentation says and the code does not keep *)

\* document-revoke: "After a successful revoke no bytes written on behalf of that
\* document_id SHALL remain in the raw layer."  If every document that was ever
\* ingested has been revoked, the raw layer is empty.
RevokeLeavesNoBytes ==
    (\A d \in Docs : result[d] \in {"none", "deleted"}) => blobs = {}

\* ensure_current: "an ask() always sees a graph consistent with all committed
\* ingests."  With no call running and the marker down a read takes the graph as
\* it is, so it must hold every committed row.
AskSeesCommitted ==
    (~dirty /\ HasGraph /\ \A c \in Clients : At(c, "idle")) =>
        {r \in rows : manifest.etags[r.doc] = r.sum} \subseteq graph

\* CiteNexus.delete: "every other document is untouched", its images and its
\* structure index included.
OthersFilesUntouched ==
    [][\A d \in Docs : ~Target(d) =>
          structure'[d] = structure[d] /\ (d \in images => d \in images')]_vars
=============================================================================
