---------------------------- MODULE Corpus_proofs ----------------------------
(***************************************************************************)
(* What TLAPS proves of Corpus and of Reconcile for every set of           *)
(* documents, checksums, clients and signals.                              *)
(*                                                                         *)
(* The first part makes no assumption on the clients.  The second assumes  *)
(* that one client works on a partition: with two, the copy of the         *)
(* manifest a call carries may be stale, and its theorems are false.       *)
(*                                                                         *)
(* The third is about Reconcile.  A desk only reads the partition or calls *)
(* CiteNexus.delete, so that every behaviour of Reconcile is one of Corpus *)
(* and the theorems of the other parts hold of it; the rest is about the   *)
(* report and its remediation, with one client at a time.                  *)
(***************************************************************************)
EXTENDS Reconcile, TLAPS

IngestPCs == {"images", "raw", "structure", "rows", "record", "stamp", "purge",
              "ingested", "page"}
DeletePCs == {"delrows", "delstructure", "delimages", "sweep", "forget"}
GraphPCs  == {"scan", "save", "clean", "wiki"}

\* What a call is doing is what it was started for.
CallOK(r) ==
    /\ r \in Call
    /\ r.pc \in IngestPCs => r.op = "ingest" /\ r.doc \in Docs /\ r.sum \in Checksums
    /\ r.pc \in DeletePCs => r.op = "delete"
    /\ r.pc \in GraphPCs => r.op # "ingest"
    /\ r.op = "delete" => r.doc \in Docs
    /\ r.op \in {"ingest", "delete"} => r.pc # "idle"

PcOK == \A c \in Clients : CallOK(call[c])

TypeInv == TypeOK /\ PcOK

-----------------------------------------------------------------------------
(* The manifest's operations *)

\* EtagManifest.record, clear_superseded and forget return a manifest.
LEMMA ManifestOps ==
    ASSUME NEW m \in Manifest, NEW d \in Docs, NEW s \in Checksums
    PROVE  /\ Record(m, d, s) \in Manifest
           /\ ClearSuperseded(m, d) \in Manifest
           /\ Forget(m, d) \in Manifest
BY DEF Manifest, Record, ClearSuperseded, Forget

\* The manifest of an empty partition is one.
LEMMA EmptyIsManifest == EmptyManifest \in Manifest
BY DEF Manifest, EmptyManifest

\* None of them lets a document's current checksum be among its retired ones.
LEMMA OpsKeepCurrent ==
    ASSUME NEW m \in Manifest, NEW d \in Docs, CurrentNotRetired(m)
    PROVE  /\ \A s \in Checksums : CurrentNotRetired(Record(m, d, s))
           /\ CurrentNotRetired(ClearSuperseded(m, d))
           /\ CurrentNotRetired(Forget(m, d))
BY NoSumAssumption DEF Manifest, CurrentNotRetired, Record, ClearSuperseded, Forget

\* A record names every checksum it named before: nothing becomes unreachable
\* because a newer version was committed.
LEMMA RecordKeepsHoldings ==
    ASSUME NEW m \in Manifest, NEW d \in Docs, NEW s \in Checksums
    PROVE  \A e \in Docs : Holdings(m, e) \subseteq Holdings(Record(m, d, s), e)
BY NoSumAssumption DEF Manifest, Holdings, Record

\* The three operations change the entry of their document only.
LEMMA OpsAreLocal ==
    ASSUME NEW m \in Manifest, NEW d \in Docs, NEW e \in Docs \ {d}, NEW n,
           \/ \E s \in Checksums : n = Record(m, d, s)
           \/ n = ClearSuperseded(m, d)
           \/ n = Forget(m, d)
    PROVE  /\ n.etags[e] = m.etags[e]
           /\ Holdings(n, e) = Holdings(m, e)
BY DEF Manifest, Holdings, Record, ClearSuperseded, Forget

-----------------------------------------------------------------------------
(* Type correctness *)

LEMMA IdleType == CallOK(Idle)
BY EmptyIsManifest DEF Idle, CallOK, Call, Ops, PCs, IngestPCs, DeletePCs, GraphPCs

LEMMA InitType == Init => TypeInv
<1> SUFFICES ASSUME Init PROVE TypeInv
  OBVIOUS
<1>1. TypeOK
  BY EmptyIsManifest, IdleType DEF Init, TypeOK, Results, CallOK
<1>2. PcOK
  BY IdleType DEF Init, PcOK
<1> QED
  BY <1>1, <1>2 DEF TypeInv

\* A step that gives client c the well-formed call r keeps every call well-formed.
LEMMA CallUpdate ==
    ASSUME TypeInv, NEW c \in Clients, NEW r, CallOK(r),
           call' = [call EXCEPT ![c] = r]
    PROVE  call' \in [Clients -> Call] /\ PcOK'
BY DEF TypeInv, TypeOK, PcOK, CallOK

\* A call may move on within its own kind of work.
LEMMA GotoOK ==
    ASSUME NEW r, CallOK(r), NEW pc,
           \/ r.pc \in IngestPCs /\ pc \in IngestPCs
           \/ r.op = "delete" /\ pc \in DeletePCs \cup GraphPCs
           \/ r.pc \in GraphPCs /\ pc \in GraphPCs
    PROVE  CallOK([r EXCEPT !.pc = pc])
BY DEF CallOK, Call, PCs, IngestPCs, DeletePCs, GraphPCs

LEMMA GotoType ==
    ASSUME TypeInv, NEW c \in Clients, NEW pc, Goto(c, pc),
           \/ call[c].pc \in IngestPCs /\ pc \in IngestPCs
           \/ call[c].op = "delete" /\ pc \in DeletePCs \cup GraphPCs
           \/ call[c].pc \in GraphPCs /\ pc \in GraphPCs
    PROVE  call' \in [Clients -> Call] /\ PcOK'
<1>1. CallOK([call[c] EXCEPT !.pc = pc])
  BY GotoOK DEF TypeInv, PcOK
<1> QED
  BY <1>1, CallUpdate DEF Goto

LEMMA ReturnType ==
    ASSUME TypeInv, NEW c \in Clients, Return(c)
    PROVE  call' \in [Clients -> Call] /\ PcOK'
BY IdleType, CallUpdate DEF Return

\* What the types of the calls say of client c's own.
LEMMA CallFields ==
    ASSUME TypeInv, NEW c \in Clients
    PROVE  /\ call[c] \in Call
           /\ call[c].man \in Manifest
           /\ call[c].todo \subseteq Checksums
           /\ call[c].snap \subseteq Row
           /\ call[c].pc \in IngestPCs => call[c].op = "ingest" /\ call[c].doc \in Docs
                                                  /\ call[c].sum \in Checksums
           /\ call[c].pc \in DeletePCs => call[c].op = "delete" /\ call[c].doc \in Docs
           /\ call[c].op = "delete" => call[c].doc \in Docs
BY DEF TypeInv, PcOK, CallOK, Call

\* A call that only reads evidence starts well-formed.
LEMMA ReadCall ==
    ASSUME NEW o \in {"refresh", "ask"}, NEW pc \in GraphPCs
    PROVE  CallOK([Idle EXCEPT !.op = o, !.pc = pc])
BY EmptyIsManifest DEF CallOK, Call, Idle, Ops, PCs, IngestPCs, DeletePCs, GraphPCs

LEMMA IngestType ==
    ASSUME TypeInv, NEW c \in Clients, Ingest(c)
    PROVE  TypeInv'
<1> USE CallFields
<1>1. ASSUME NEW d \in Docs, NEW s \in Checksums, LoadManifest(c, d, s) PROVE TypeInv'
  <2>1. CallOK([Idle EXCEPT !.op = "ingest", !.pc = "images", !.doc = d, !.sum = s,
                           !.man = manifest])
    BY <1>1, EmptyIsManifest DEF LoadManifest, At, TypeInv, PcOK, CallOK, Call, PCs,
       IngestPCs, DeletePCs, GraphPCs, Idle, Ops, TypeOK
  <2>2. call' \in [Clients -> Call] /\ PcOK'
    BY <1>1, <2>1, CallUpdate DEF LoadManifest
  <2>3. result' \in [Docs -> Results]
    BY <1>1 DEF LoadManifest, At, TypeInv, TypeOK, IngestPCs, Results
  <2> QED
    BY <1>1, <2>2, <2>3 DEF LoadManifest, TypeInv, TypeOK, durable
<1>2. ASSUME NEW d \in Docs, NEW s \in Checksums, SkipUnchanged(c, d, s) PROVE TypeInv'
  BY <1>2 DEF SkipUnchanged, durable, TypeInv, TypeOK, PcOK, Results
<1>3. ASSUME PersistImages(c) PROVE TypeInv'
  <2>1. call' \in [Clients -> Call] /\ PcOK'
    BY <1>3, GotoType DEF PersistImages, At, IngestPCs
  <2>2. images' \subseteq Docs
    BY <1>3 DEF PersistImages, At, TypeInv, TypeOK, IngestPCs
  <2> QED
    BY <1>3, <2>1, <2>2 DEF PersistImages, TypeInv, TypeOK
<1>4. ASSUME PutRaw(c) PROVE TypeInv'
  <2>1. call' \in [Clients -> Call] /\ PcOK'
    BY <1>4, GotoType DEF PutRaw, At, IngestPCs
  <2>2. blobs' \subseteq Checksums
    BY <1>4 DEF PutRaw, At, TypeInv, TypeOK, IngestPCs
  <2> QED
    BY <1>4, <2>1, <2>2 DEF PutRaw, TypeInv, TypeOK
<1>5. ASSUME PutStructure(c) PROVE TypeInv'
  <2>1. call' \in [Clients -> Call] /\ PcOK'
    BY <1>5, GotoType DEF PutStructure, At, IngestPCs
  <2>2. structure' \in [Docs -> Checksums \cup {NoSum}]
    BY <1>5 DEF PutStructure, At, TypeInv, TypeOK, IngestPCs
  <2> QED
    BY <1>5, <2>1, <2>2 DEF PutStructure, TypeInv, TypeOK
<1>6. ASSUME UpsertRows(c) PROVE TypeInv'
  <2>1. call' \in [Clients -> Call] /\ PcOK'
    BY <1>6, GotoType DEF UpsertRows, At, IngestPCs
  <2>2. rows' \subseteq Row
    BY <1>6, UnitsAssumption DEF UpsertRows, At, TypeInv, TypeOK, IngestPCs, Row,
       Upsert
  <2> QED
    BY <1>6, <2>1, <2>2 DEF UpsertRows, TypeInv, TypeOK
<1>7. ASSUME RecordManifest(c) PROVE TypeInv'
  <2>1. CallOK([call[c] EXCEPT !.pc = "stamp",
                              !.man = Record(call[c].man, call[c].doc, call[c].sum)])
    BY <1>7, ManifestOps DEF RecordManifest, At, TypeInv, PcOK, CallOK, Call, PCs,
       IngestPCs, DeletePCs, GraphPCs
  <2>2. call' \in [Clients -> Call] /\ PcOK'
    BY <1>7, <2>1, CallUpdate DEF RecordManifest
  <2>3. manifest' \in Manifest
    BY <1>7, ManifestOps DEF RecordManifest, At, TypeInv, TypeOK, IngestPCs
  <2> QED
    BY <1>7, <2>2, <2>3 DEF RecordManifest, TypeInv, TypeOK
<1>8. ASSUME StampTokenizer(c) PROVE TypeInv'
  <2> DEFINE retired == call[c].man.superseded[call[c].doc]
  <2>1. CASE retired = {}
    <3>1. call' \in [Clients -> Call] /\ PcOK'
      BY <1>8, <2>1, GotoType DEF StampTokenizer, At, IngestPCs
    <3> QED
      BY <1>8, <2>1, <3>1 DEF StampTokenizer, Ingested, TypeInv, TypeOK, Results
  <2>2. CASE retired # {}
    <3>1. retired \subseteq Checksums
      BY <1>8 DEF StampTokenizer, At, IngestPCs, Manifest
    <3>2. CallOK([call[c] EXCEPT !.pc = "purge", !.todo = retired])
      BY <1>8, <3>1 DEF StampTokenizer, At, TypeInv, PcOK, CallOK, Call, PCs,
         IngestPCs,
                        DeletePCs, GraphPCs
    <3>3. call' \in [Clients -> Call] /\ PcOK'
      BY <1>8, <2>2, <3>2, CallUpdate DEF StampTokenizer
    <3> QED
      BY <1>8, <2>2, <3>3 DEF StampTokenizer, TypeInv, TypeOK
  <2> QED
    BY <2>1, <2>2
<1>9. ASSUME PurgeRetired(c) PROVE TypeInv'
  <2> PICK s \in call[c].todo : ReclaimBlob(c, s)
    BY <1>9 DEF PurgeRetired
  <2>1. CallOK([call[c] EXCEPT !.todo = call[c].todo \ {s}])
    BY <1>9 DEF PurgeRetired, At, TypeInv, PcOK, CallOK, Call
  <2>2. call' \in [Clients -> Call] /\ PcOK'
    BY <1>9, <2>1, CallUpdate DEF ReclaimBlob
  <2> QED
    BY <1>9, <2>2 DEF PurgeRetired, ReclaimBlob, TypeInv, TypeOK
<1>10. ASSUME ClearRetired(c) PROVE TypeInv'
  <2>1. CallOK([call[c] EXCEPT !.pc = "ingested",
                             !.man = ClearSuperseded(call[c].man, call[c].doc)])
    BY <1>10, ManifestOps DEF ClearRetired, At, TypeInv, PcOK, CallOK, Call, PCs,
       IngestPCs, DeletePCs, GraphPCs
  <2>2. call' \in [Clients -> Call] /\ PcOK'
    BY <1>10, <2>1, CallUpdate DEF ClearRetired
  <2>3. manifest' \in Manifest /\ result' \in [Docs -> Results]
    BY <1>10, ManifestOps DEF ClearRetired, At, TypeInv, TypeOK, IngestPCs,
       Ingested, Results
  <2> QED
    BY <1>10, <2>2, <2>3 DEF ClearRetired, TypeInv, TypeOK
<1>11. ASSUME MarkDirty(c) PROVE TypeInv'
  BY <1>11, GotoType DEF MarkDirty, At, IngestPCs, TypeInv, TypeOK
<1>12. ASSUME IntegratePage(c) PROVE TypeInv'
  <2>1. call' \in [Clients -> Call] /\ PcOK'
    BY <1>12, ReturnType DEF IntegratePage
  <2> QED
    BY <1>12, <2>1 DEF IntegratePage, At, IngestPCs, TypeInv, TypeOK
<1> QED
  BY <1>1, <1>2, <1>3, <1>4, <1>5, <1>6, <1>7, <1>8, <1>9, <1>10, <1>11, <1>12 DEF
     Ingest

LEMMA DeleteType ==
    ASSUME TypeInv, NEW c \in Clients, Delete(c)
    PROVE  TypeInv'
<1> USE CallFields
<1>1. ASSUME NEW d \in Docs, DeleteAbsent(c, d) PROVE TypeInv'
  BY <1>1 DEF DeleteAbsent, durable, TypeInv, TypeOK, PcOK, Results
<1>2. ASSUME NEW d \in Docs, StartDelete(c, d) PROVE TypeInv'
  <2>1. CallOK([Idle EXCEPT !.op = "delete", !.pc = "delrows", !.doc = d, !.man = manifest])
    BY <1>2, EmptyIsManifest DEF StartDelete, At, TypeInv, PcOK, CallOK, Call, PCs,
       IngestPCs, DeletePCs, GraphPCs, Idle, Ops, TypeOK
  <2>2. call' \in [Clients -> Call] /\ PcOK'
    BY <1>2, <2>1, CallUpdate DEF StartDelete
  <2>3. result' \in [Docs -> Results]
    BY <1>2 DEF StartDelete, At, TypeInv, TypeOK, DeletePCs, Results
  <2> QED
    BY <1>2, <2>2, <2>3 DEF StartDelete, TypeInv, TypeOK, durable
<1>3. ASSUME DeleteRows(c) PROVE TypeInv'
  <2>1. call' \in [Clients -> Call] /\ PcOK'
    BY <1>3, GotoType DEF DeleteRows, At, DeletePCs, GraphPCs
  <2>2. rows' \subseteq Row
    BY <1>3 DEF DeleteRows, At, TypeInv, TypeOK, DeletePCs, GraphPCs
  <2> QED
    BY <1>3, <2>1, <2>2 DEF DeleteRows, TypeInv, TypeOK
<1>4. ASSUME DeleteStructure(c) PROVE TypeInv'
  <2>1. call' \in [Clients -> Call] /\ PcOK'
    BY <1>4, GotoType DEF DeleteStructure, At, DeletePCs, GraphPCs
  <2>2. structure' \in [Docs -> Checksums \cup {NoSum}]
    BY <1>4 DEF DeleteStructure, TypeInv, TypeOK
  <2> QED
    BY <1>4, <2>1, <2>2 DEF DeleteStructure, TypeInv, TypeOK
<1>5. ASSUME DeleteImages(c) PROVE TypeInv'
  <2> DEFINE held == Holdings(call[c].man, call[c].doc)
  <2>0. held \in SUBSET Checksums
    BY <1>5 DEF DeleteImages, At, DeletePCs, Holdings, Manifest
  <2>1. CallOK([call[c] EXCEPT !.pc = "sweep", !.todo = held])
    <3> HIDE DEF held
    <3> QED
      BY <1>5, <2>0 DEF DeleteImages, At, TypeInv, PcOK, CallOK, Call, PCs,
         IngestPCs, DeletePCs, GraphPCs
  <2>2. call' \in [Clients -> Call] /\ PcOK'
    BY <1>5, <2>1, CallUpdate DEF DeleteImages
  <2>3. images' \subseteq Docs
    BY <1>5 DEF DeleteImages, At, TypeInv, TypeOK, DeletePCs
  <2> QED
    BY <1>5, <2>2, <2>3 DEF DeleteImages, TypeInv, TypeOK
<1>6. ASSUME SweepRaw(c) PROVE TypeInv'
  <2> PICK s \in call[c].todo : ReclaimBlob(c, s)
    BY <1>6 DEF SweepRaw
  <2>1. CallOK([call[c] EXCEPT !.todo = call[c].todo \ {s}])
    BY <1>6 DEF SweepRaw, At, TypeInv, PcOK, CallOK, Call
  <2>2. call' \in [Clients -> Call] /\ PcOK'
    BY <1>6, <2>1, CallUpdate DEF ReclaimBlob
  <2> QED
    BY <1>6, <2>2 DEF SweepRaw, ReclaimBlob, TypeInv, TypeOK
<1>7. ASSUME EndSweep(c) PROVE TypeInv'
  <2>1. call' \in [Clients -> Call] /\ PcOK'
    BY <1>7, GotoType DEF EndSweep, At, DeletePCs, GraphPCs
  <2> QED
    BY <1>7, <2>1 DEF EndSweep, durable, TypeInv, TypeOK
<1>8. ASSUME ForgetDocument(c) PROVE TypeInv'
  <2>1. call' \in [Clients -> Call] /\ PcOK'
    BY <1>8, ReturnType DEF ForgetDocument
  <2>2. manifest' \in Manifest
    BY <1>8 DEF ForgetDocument, At, DeletePCs, Forget, Manifest
  <2>3. result' \in [Docs -> Results]
    BY <1>8 DEF ForgetDocument, TypeInv, TypeOK, Results
  <2> QED
    BY <1>8, <2>1, <2>2, <2>3 DEF ForgetDocument, TypeInv, TypeOK
<1> QED
  BY <1>1, <1>2, <1>3, <1>4, <1>5, <1>6, <1>7, <1>8 DEF Delete

LEMMA NavigateType ==
    ASSUME TypeInv, NEW c \in Clients, Navigate(c)
    PROVE  TypeInv'
<1> USE CallFields
<1>1. ASSUME StartRefresh(c) PROVE TypeInv'
  <2>1. CallOK([Idle EXCEPT !.op = "refresh", !.pc = IF HasGraph THEN "scan" ELSE "wiki"])
    BY ReadCall DEF GraphPCs
  <2>2. call' \in [Clients -> Call] /\ PcOK'
    BY <1>1, <2>1, CallUpdate DEF StartRefresh
  <2> QED
    BY <1>1, <2>2 DEF StartRefresh, TypeInv, TypeOK, durable
<1>2. ASSUME EnsureCurrent(c) PROVE TypeInv'
  <2>1. CallOK([Idle EXCEPT !.op = "ask", !.pc = "scan"])
    BY ReadCall DEF GraphPCs
  <2>2. call' \in [Clients -> Call] /\ PcOK'
    BY <1>2, <2>1, CallUpdate DEF EnsureCurrent
  <2> QED
    BY <1>2, <2>2 DEF EnsureCurrent, TypeInv, TypeOK, durable
<1>3. ASSUME ScanRows(c) PROVE TypeInv'
  <2>0. rows \in SUBSET Row
    BY DEF TypeInv, TypeOK
  <2>1. CallOK([call[c] EXCEPT !.pc = "save", !.snap = rows])
    BY <1>3, <2>0 DEF ScanRows, At, TypeInv, PcOK, CallOK, Call, PCs, IngestPCs,
       DeletePCs, GraphPCs
  <2>2. call' \in [Clients -> Call] /\ PcOK'
    BY <1>3, <2>1, CallUpdate DEF ScanRows
  <2> QED
    BY <1>3, <2>2 DEF ScanRows, TypeInv, TypeOK, durable
<1>4. ASSUME SaveGraph(c) PROVE TypeInv'
  <2>1. call' \in [Clients -> Call] /\ PcOK'
    BY <1>4, GotoType DEF SaveGraph, At, GraphPCs
  <2>2. graph' \subseteq Row
    BY <1>4 DEF SaveGraph, At, TypeInv, TypeOK, GraphPCs
  <2> QED
    BY <1>4, <2>1, <2>2 DEF SaveGraph, TypeInv, TypeOK
<1>5. ASSUME MarkClean(c) PROVE TypeInv'
  <2>1. call' \in [Clients -> Call] /\ PcOK'
    BY <1>5, GotoType, ReturnType DEF MarkClean, At, GraphPCs
  <2> QED
    BY <1>5, <2>1 DEF MarkClean, TypeInv, TypeOK
<1>6. ASSUME UpdateWiki(c) PROVE TypeInv'
  <2>1. call' \in [Clients -> Call] /\ PcOK'
    BY <1>6, GotoType, ReturnType DEF UpdateWiki, At, GraphPCs, DeletePCs
  <2>2. wiki' \subseteq Docs
    BY <1>6 DEF UpdateWiki, TypeInv, TypeOK, Row
  <2> QED
    BY <1>6, <2>1, <2>2 DEF UpdateWiki, TypeInv, TypeOK
<1> QED
  BY <1>1, <1>2, <1>3, <1>4, <1>5, <1>6 DEF Navigate

LEMMA StepType == TypeInv /\ [Next]_vars => TypeInv'
<1> SUFFICES ASSUME TypeInv, [Next]_vars PROVE TypeInv'
  OBVIOUS
<1>1. CASE UNCHANGED vars
  BY <1>1 DEF vars, TypeInv, TypeOK, PcOK
<1>2. ASSUME NEW c \in Clients, Crash(c) PROVE TypeInv'
  <2>1. call' \in [Clients -> Call] /\ PcOK'
    BY <1>2, ReturnType DEF Crash
  <2> QED
    BY <1>2, <2>1 DEF Crash, durable, TypeInv, TypeOK
<1> QED
  BY <1>1, <1>2, IngestType, DeleteType, NavigateType DEF Next

\* Every reachable state is one of the types declared in Corpus.
THEOREM Typed == Spec => []TypeInv
BY InitType, StepType, PTL DEF Spec

\* The type invariant the runs check holds for every value of the constants.
THEOREM TypeCorrect == Spec => []TypeOK
BY Typed, PTL DEF TypeInv

-----------------------------------------------------------------------------
(* No document's current checksum is ever retired, whatever the clients do *)

\* The strengthening: the copies of the manifest the calls carry have it too,
\* since one of them will be saved.
NeverRetiredInv ==
    /\ CurrentNeverRetired
    /\ \A c \in Clients : CurrentNotRetired(call[c].man)

LEMMA EmptyNotRetired == CurrentNotRetired(EmptyManifest)
BY DEF CurrentNotRetired, EmptyManifest

LEMMA NeverRetiredInit == Init => NeverRetiredInv
BY EmptyNotRetired DEF Init, NeverRetiredInv, CurrentNeverRetired, Idle

\* A step that commits nothing: the manifest stays, and a call carries the copy
\* it had, the saved one, or none.
Quiet == /\ manifest' = manifest
         /\ \A e \in Clients : call'[e].man \in {call[e].man, manifest, EmptyManifest}

LEMMA QuietCall ==
    ASSUME TypeInv, manifest' = manifest, NEW c \in Clients, NEW r,
           call' = [call EXCEPT ![c] = r],
           r.man \in {call[c].man, manifest, EmptyManifest}
    PROVE  Quiet
BY DEF TypeInv, TypeOK, Quiet

LEMMA IngestQuiet ==
    ASSUME TypeInv, NEW c \in Clients, Ingest(c)
    PROVE  Quiet \/ RecordManifest(c) \/ ClearRetired(c)
<1> USE CallFields DEF Call
<1>1. ASSUME NEW d \in Docs, NEW s \in Checksums, LoadManifest(c, d, s) PROVE Quiet
  BY <1>1, QuietCall DEF LoadManifest, durable, Idle
<1>2. ASSUME NEW d \in Docs, NEW s \in Checksums, SkipUnchanged(c, d, s) PROVE Quiet
  BY <1>2 DEF SkipUnchanged, durable, Quiet
<1>3. ASSUME PersistImages(c) PROVE Quiet
  BY <1>3, QuietCall DEF PersistImages, Goto
<1>4. ASSUME PutRaw(c) PROVE Quiet
  BY <1>4, QuietCall DEF PutRaw, Goto
<1>5. ASSUME PutStructure(c) PROVE Quiet
  BY <1>5, QuietCall DEF PutStructure, Goto
<1>6. ASSUME UpsertRows(c) PROVE Quiet
  BY <1>6, QuietCall DEF UpsertRows, Goto
<1>7. ASSUME StampTokenizer(c) PROVE Quiet
  BY <1>7, QuietCall DEF StampTokenizer, Goto
<1>8. ASSUME PurgeRetired(c) PROVE Quiet
  BY <1>8, QuietCall DEF PurgeRetired, ReclaimBlob
<1>9. ASSUME MarkDirty(c) PROVE Quiet
  BY <1>9, QuietCall DEF MarkDirty, Goto
<1>10. ASSUME IntegratePage(c) PROVE Quiet
  BY <1>10, QuietCall DEF IntegratePage, Return, Idle
<1> QED
  BY <1>1, <1>2, <1>3, <1>4, <1>5, <1>6, <1>7, <1>8, <1>9, <1>10 DEF Ingest

LEMMA DeleteQuiet ==
    ASSUME TypeInv, NEW c \in Clients, Delete(c)
    PROVE  Quiet \/ ForgetDocument(c)
<1> USE CallFields DEF Call
<1>1. ASSUME NEW d \in Docs, DeleteAbsent(c, d) PROVE Quiet
  BY <1>1 DEF DeleteAbsent, durable, Quiet
<1>2. ASSUME NEW d \in Docs, StartDelete(c, d) PROVE Quiet
  BY <1>2, QuietCall DEF StartDelete, durable, Idle
<1>3. ASSUME DeleteRows(c) PROVE Quiet
  BY <1>3, QuietCall DEF DeleteRows, Goto
<1>4. ASSUME DeleteStructure(c) PROVE Quiet
  BY <1>4, QuietCall DEF DeleteStructure, Goto
<1>5. ASSUME DeleteImages(c) PROVE Quiet
  BY <1>5, QuietCall DEF DeleteImages
<1>6. ASSUME SweepRaw(c) PROVE Quiet
  BY <1>6, QuietCall DEF SweepRaw, ReclaimBlob
<1>7. ASSUME EndSweep(c) PROVE Quiet
  BY <1>7, QuietCall DEF EndSweep, Goto, durable
<1> QED
  BY <1>1, <1>2, <1>3, <1>4, <1>5, <1>6, <1>7 DEF Delete

LEMMA NavigateQuiet ==
    ASSUME TypeInv, NEW c \in Clients, Navigate(c)
    PROVE  Quiet
<1> USE CallFields DEF Call
<1>1. ASSUME StartRefresh(c) PROVE Quiet
  BY <1>1, QuietCall DEF StartRefresh, Idle, durable
<1>2. ASSUME EnsureCurrent(c) PROVE Quiet
  BY <1>2, QuietCall DEF EnsureCurrent, Idle, durable
<1>3. ASSUME ScanRows(c) PROVE Quiet
  BY <1>3, QuietCall DEF ScanRows, durable
<1>4. ASSUME SaveGraph(c) PROVE Quiet
  BY <1>4, QuietCall DEF SaveGraph, Goto
<1>5. ASSUME MarkClean(c) PROVE Quiet
  BY <1>5, QuietCall DEF MarkClean, Goto, Return, Idle
<1>6. ASSUME UpdateWiki(c) PROVE Quiet
  BY <1>6, QuietCall DEF UpdateWiki, Goto, Return, Idle
<1> QED
  BY <1>1, <1>2, <1>3, <1>4, <1>5, <1>6 DEF Navigate

LEMMA NeverRetiredStep == TypeInv /\ NeverRetiredInv /\ [Next]_vars => NeverRetiredInv'
<1> SUFFICES ASSUME TypeInv, NeverRetiredInv, [Next]_vars PROVE NeverRetiredInv'
  OBVIOUS
<1>1. CASE UNCHANGED vars
  BY <1>1 DEF vars, NeverRetiredInv, CurrentNeverRetired
<1>2. CASE Quiet
  BY <1>2, EmptyNotRetired DEF Quiet, NeverRetiredInv, CurrentNeverRetired
<1>3. ASSUME NEW c \in Clients, RecordManifest(c) PROVE NeverRetiredInv'
  <2> DEFINE m == Record(call[c].man, call[c].doc, call[c].sum)
  <2>1. CurrentNotRetired(m)
    BY <1>3, CallFields, OpsKeepCurrent DEF RecordManifest, At, IngestPCs,
       NeverRetiredInv
  <2>2. call'[c].man = m /\ \A e \in Clients \ {c} : call'[e] = call[e]
    BY <1>3, CallFields DEF RecordManifest, TypeInv, TypeOK, Call
  <2> QED
    BY <1>3, <2>1, <2>2 DEF RecordManifest, NeverRetiredInv, CurrentNeverRetired
<1>4. ASSUME NEW c \in Clients, ClearRetired(c) PROVE NeverRetiredInv'
  <2> DEFINE m == ClearSuperseded(call[c].man, call[c].doc)
  <2>1. CurrentNotRetired(m)
    BY <1>4, CallFields, OpsKeepCurrent DEF ClearRetired, At, IngestPCs,
       NeverRetiredInv
  <2>2. call'[c].man = m /\ \A e \in Clients \ {c} : call'[e] = call[e]
    BY <1>4, CallFields DEF ClearRetired, TypeInv, TypeOK, Call
  <2> QED
    BY <1>4, <2>1, <2>2 DEF ClearRetired, NeverRetiredInv, CurrentNeverRetired
<1>5. ASSUME NEW c \in Clients, ForgetDocument(c) PROVE NeverRetiredInv'
  <2>1. CurrentNotRetired(Forget(call[c].man, call[c].doc))
    BY <1>5, CallFields, OpsKeepCurrent DEF ForgetDocument, At, DeletePCs,
       NeverRetiredInv
  <2>2. \A e \in Clients : call'[e].man \in {call[e].man, EmptyManifest}
    BY <1>5, CallFields DEF ForgetDocument, Return, Idle, TypeInv, TypeOK, Call
  <2> QED
    BY <1>5, <2>1, <2>2, EmptyNotRetired DEF ForgetDocument, NeverRetiredInv,
       CurrentNeverRetired
<1>6. ASSUME NEW c \in Clients, Crash(c) PROVE Quiet
  BY <1>6, QuietCall DEF Crash, Return, durable, Idle
<1> QED
  BY <1>1, <1>2, <1>3, <1>4, <1>5, <1>6, IngestQuiet, DeleteQuiet, NavigateQuiet DEF Next

\* EtagManifest.record's invariant, however calls interleave and die: a purge
\* can never delete the bytes a document currently maps to.
THEOREM NeverRetired == Spec => []CurrentNeverRetired
<1>1. NeverRetiredInv => CurrentNeverRetired
  BY DEF NeverRetiredInv
<1> QED
  BY <1>1, NeverRetiredInit, NeverRetiredStep, Typed, PTL DEF Spec

-----------------------------------------------------------------------------
(* One client per partition: the evidence *)

SoloClient == \A a, b \in Clients : a = b

\* What a call r relies on: its copy of the manifest is the saved one, the bytes
\* it is about to cite are in the bucket, what it purges is on record as retired,
\* and a revoke has removed the document's rows before anything else.
Relies(r) ==
    /\ r.op \in {"ingest", "delete"} => r.man = manifest
    /\ r.pc \in {"structure", "rows", "record"} => r.sum \in blobs
    /\ r.pc = "purge" => r.todo \subseteq manifest.superseded[r.doc]
    /\ r.op = "delete" /\ r.pc # "delrows" => \A row \in rows : row.doc # r.doc

\* The blobs a call is done with are gone, or another document owns them.
Reclaimed(s, d) == s \in blobs => OwnersOf(manifest, s, d) # {}

Swept(r) ==
    /\ r.pc = "purge" =>
         \A s \in manifest.superseded[r.doc] \ r.todo : Reclaimed(s, r.doc)
    /\ r.pc = "sweep" =>
         \A s \in Holdings(manifest, r.doc) \ r.todo : Reclaimed(s, r.doc)
    /\ r.op = "delete" /\ r.pc \in GraphPCs \cup {"forget"} =>
         \A s \in Holdings(manifest, r.doc) : Reclaimed(s, r.doc)

SoloInv == /\ CitedBytesKept
           /\ \A c \in Clients : Relies(call[c]) /\ Swept(call[c])

Inv == TypeInv /\ NeverRetiredInv /\ SoloInv

LEMMA SoloInit == Init => SoloInv
BY DEF Init, SoloInv, CitedBytesKept, Relies, Swept, Idle, GraphPCs

\* The only call is the one that moved.
LEMMA SoloUpdate ==
    ASSUME SoloClient, TypeInv, NEW c \in Clients, NEW r,
           call' = [call EXCEPT ![c] = r]
    PROVE  \A e \in Clients : call'[e] = r
BY DEF SoloClient, TypeInv, TypeOK

LEMMA IngestSolo ==
    ASSUME SoloClient, Inv, NEW c \in Clients, Ingest(c)
    PROVE  SoloInv'
<1> USE CallFields DEF Call, Inv
<1>1. ASSUME NEW d \in Docs, NEW s \in Checksums, LoadManifest(c, d, s) PROVE SoloInv'
  BY <1>1, SoloUpdate DEF LoadManifest, Idle, durable, At, SoloInv,
     CitedBytesKept, Relies, Swept, Reclaimed, IngestPCs, DeletePCs, GraphPCs
<1>2. ASSUME NEW d \in Docs, NEW s \in Checksums, SkipUnchanged(c, d, s) PROVE SoloInv'
  BY <1>2 DEF SkipUnchanged, durable, At, SoloInv, CitedBytesKept,
     Relies, Swept, Reclaimed, IngestPCs, DeletePCs, GraphPCs
<1>3. ASSUME PersistImages(c) PROVE SoloInv'
  BY <1>3, SoloUpdate DEF PersistImages, Goto, At, SoloInv,
     CitedBytesKept, Relies, Swept, Reclaimed, IngestPCs, DeletePCs, GraphPCs
<1>4. ASSUME PutStructure(c) PROVE SoloInv'
  BY <1>4, SoloUpdate DEF PutStructure, Goto, At, SoloInv,
     CitedBytesKept, Relies, Swept, Reclaimed, IngestPCs, DeletePCs, GraphPCs
<1>5. ASSUME StampTokenizer(c) PROVE SoloInv'
  <2> DEFINE d == call[c].doc
             retired == call[c].man.superseded[d]
  <2>1. d \in Docs /\ call[c].op = "ingest" /\ call[c].man = manifest
    BY <1>5 DEF StampTokenizer, At, IngestPCs, SoloInv, Relies
  <2>2. CASE retired = {}
    <3>1. \A e \in Clients : call'[e] = [call[c] EXCEPT !.pc = "ingested"]
      BY <1>5, <2>2, SoloUpdate DEF StampTokenizer, Goto
    <3> QED
      BY <1>5, <2>1, <3>1 DEF StampTokenizer, SoloInv, CitedBytesKept, Relies,
         Swept, GraphPCs
  <2>3. CASE retired # {}
    <3> DEFINE r == [call[c] EXCEPT !.pc = "purge", !.todo = retired]
    <3>0. /\ r.pc = "purge" /\ r.op = call[c].op /\ r.doc = d /\ r.todo = retired
          /\ r.man = call[c].man
      OBVIOUS
    <3>1. \A e \in Clients : call'[e] = r
      BY <1>5, <2>3, SoloUpdate DEF StampTokenizer
    <3> HIDE DEF r
    <3>2. \A e \in Clients : /\ call'[e].pc = "purge" /\ call'[e].op = "ingest"
                              /\ call'[e].doc = d /\ call'[e].todo = retired
                              /\ call'[e].man = manifest
      BY <2>1, <3>0, <3>1
    <3>3. CitedBytesKept' /\ manifest' = manifest
      BY <1>5 DEF StampTokenizer, SoloInv, CitedBytesKept
    <3> QED
      BY <2>1, <3>2, <3>3 DEF SoloInv, Relies, Swept, GraphPCs
  <2> QED
    BY <2>2, <2>3
<1>6. ASSUME MarkDirty(c) PROVE SoloInv'
  BY <1>6, SoloUpdate DEF MarkDirty, Goto, At, SoloInv,
     CitedBytesKept, Relies, Swept, Reclaimed, IngestPCs, DeletePCs, GraphPCs
<1>7. ASSUME IntegratePage(c) PROVE SoloInv'
  BY <1>7, SoloUpdate DEF IntegratePage, Return, Idle, At, SoloInv,
     CitedBytesKept, Relies, Swept, Reclaimed, IngestPCs, DeletePCs, GraphPCs
<1>8. ASSUME PutRaw(c) PROVE SoloInv'
  <2>1. \A e \in Clients : call'[e] = [call[c] EXCEPT !.pc = "structure"]
    BY <1>8, SoloUpdate DEF PutRaw, Goto
  <2>2. call[c].op = "ingest" /\ call[c].man = manifest
    BY <1>8 DEF PutRaw, At, IngestPCs, SoloInv, Relies
  <2>3. CitedBytesKept'
    BY <1>8 DEF PutRaw, SoloInv, CitedBytesKept
  <2> QED
    BY <1>8, <2>1, <2>2, <2>3 DEF PutRaw, SoloInv, Relies, Swept, GraphPCs
<1>9. ASSUME UpsertRows(c) PROVE SoloInv'
  <2>1. \A e \in Clients : call'[e] = [call[c] EXCEPT !.pc = "record"]
    BY <1>9, SoloUpdate DEF UpsertRows, Goto
  <2>2. call[c].op = "ingest" /\ call[c].man = manifest /\ call[c].sum \in blobs
    BY <1>9 DEF UpsertRows, At, IngestPCs, SoloInv, Relies
  <2>3. CitedBytesKept'
    BY <1>9, <2>2 DEF UpsertRows, Upsert, SoloInv, CitedBytesKept
  <2> QED
    BY <1>9, <2>1, <2>2, <2>3 DEF UpsertRows, SoloInv, Relies, Swept, GraphPCs
<1>10. ASSUME RecordManifest(c) PROVE SoloInv'
  <2> DEFINE m == Record(call[c].man, call[c].doc, call[c].sum)
             r == [call[c] EXCEPT !.pc = "stamp", !.man = m]
  <2>0. r.pc = "stamp" /\ r.op = call[c].op /\ r.man = m
    OBVIOUS
  <2>1. \A e \in Clients : call'[e] = r
    BY <1>10, SoloUpdate DEF RecordManifest
  <2>2. /\ call[c].op = "ingest" /\ call[c].man = manifest /\ call[c].sum \in blobs
        /\ call[c].doc \in Docs
    BY <1>10 DEF RecordManifest, At, IngestPCs, SoloInv, Relies
  <2>3. CitedBytesKept'
    BY <1>10, <2>2 DEF RecordManifest, Record, SoloInv, CitedBytesKept, Manifest,
       TypeInv,
          TypeOK, Row
  <2>4. \A e \in Clients : /\ call'[e].pc = "stamp" /\ call'[e].op = "ingest"
                            /\ call'[e].man = manifest'
    <3> HIDE DEF r
    <3> QED
      BY <1>10, <2>0, <2>1, <2>2 DEF RecordManifest
  <2> QED
    BY <2>3, <2>4 DEF SoloInv, Relies, Swept, GraphPCs
<1>11. ASSUME PurgeRetired(c) PROVE SoloInv'
  <2> PICK d : d = call[c].doc
    OBVIOUS
  <2> PICK s \in call[c].todo : ReclaimBlob(c, s)
    BY <1>11 DEF PurgeRetired
  <2>1. \A e \in Clients : call'[e] = [call[c] EXCEPT !.todo = call[c].todo \ {s}]
    BY SoloUpdate DEF ReclaimBlob
  <2>2. /\ d \in Docs /\ call[c].op = "ingest" /\ call[c].pc = "purge"
        /\ call[c].man = manifest
        /\ call[c].todo \subseteq manifest.superseded[d]
    BY <1>11 DEF PurgeRetired, At, IngestPCs, SoloInv, Relies
  <2>3. manifest' = manifest /\ rows' = rows
    BY <1>11 DEF PurgeRetired
  <2>4. blobs' = IF OwnersOf(manifest, s, d) = {} THEN blobs \ {s} ELSE blobs
    BY <2>2 DEF ReclaimBlob
  <2>5. s # manifest.etags[d]
    BY <2>2 DEF NeverRetiredInv, CurrentNeverRetired, CurrentNotRetired
  <2>6. CitedBytesKept'
    BY <2>3, <2>4, <2>5 DEF SoloInv, CitedBytesKept, OwnersOf, TypeInv, TypeOK, Row
  <2>7. Reclaimed(s, d)' /\ \A x : Reclaimed(x, d) => Reclaimed(x, d)'
    BY <2>3, <2>4 DEF Reclaimed
  <2> QED
    BY <2>1, <2>2, <2>3, <2>6, <2>7 DEF SoloInv, Relies, Swept, GraphPCs
<1>12. ASSUME ClearRetired(c) PROVE SoloInv'
  <2> DEFINE m == ClearSuperseded(call[c].man, call[c].doc)
  <2>1. \A e \in Clients : call'[e] = [call[c] EXCEPT !.pc = "ingested", !.man = m]
    BY <1>12, SoloUpdate DEF ClearRetired
  <2>2. call[c].op = "ingest" /\ call[c].man = manifest /\ call[c].doc \in Docs
    BY <1>12 DEF ClearRetired, At, IngestPCs, SoloInv, Relies
  <2>3. manifest' = m /\ m.etags = manifest.etags
    BY <1>12, <2>2 DEF ClearRetired, ClearSuperseded, Manifest, TypeInv, TypeOK
  <2>4. CitedBytesKept'
    BY <1>12, <2>3 DEF ClearRetired, SoloInv, CitedBytesKept
  <2>5. \A e \in Clients : /\ call'[e].pc = "ingested" /\ call'[e].op = "ingest"
                            /\ call'[e].man = manifest'
    BY <2>1, <2>2, <2>3
  <2> QED
    BY <2>4, <2>5 DEF SoloInv, Relies, Swept, GraphPCs
<1> QED
  BY <1>1, <1>2, <1>3, <1>4, <1>5, <1>6, <1>7, <1>8, <1>9, <1>10, <1>11, <1>12 DEF
     Ingest

LEMMA DeleteSolo ==
    ASSUME SoloClient, Inv, NEW c \in Clients, Delete(c)
    PROVE  SoloInv'
<1> USE CallFields DEF Call, Inv
<1>1. ASSUME NEW d \in Docs, DeleteAbsent(c, d) PROVE SoloInv'
  BY <1>1 DEF DeleteAbsent, durable, At, SoloInv, CitedBytesKept,
     Relies, Swept, Reclaimed, IngestPCs, DeletePCs, GraphPCs
<1>2. ASSUME NEW d \in Docs, StartDelete(c, d) PROVE SoloInv'
  BY <1>2, SoloUpdate DEF StartDelete, Idle, durable, At, SoloInv,
     CitedBytesKept, Relies, Swept, Reclaimed, IngestPCs, DeletePCs, GraphPCs
<1>3. ASSUME DeleteStructure(c) PROVE SoloInv'
  BY <1>3, SoloUpdate DEF DeleteStructure, Goto, At, SoloInv,
     CitedBytesKept, Relies, Swept, Reclaimed, IngestPCs, DeletePCs, GraphPCs
<1>4. ASSUME DeleteImages(c) PROVE SoloInv'
  BY <1>4, SoloUpdate DEF DeleteImages, At, SoloInv,
     CitedBytesKept, Relies, Swept, Reclaimed, IngestPCs, DeletePCs, GraphPCs
<1>5. ASSUME EndSweep(c) PROVE SoloInv'
  BY <1>5, SoloUpdate DEF EndSweep, Goto, durable, At, SoloInv,
     CitedBytesKept, Relies, Swept, Reclaimed, IngestPCs, DeletePCs, GraphPCs
<1>6. ASSUME DeleteRows(c) PROVE SoloInv'
  BY <1>6, SoloUpdate DEF DeleteRows, Goto, At, SoloInv,
     CitedBytesKept, Relies, Swept, Reclaimed, IngestPCs, DeletePCs, GraphPCs
<1>7. ASSUME SweepRaw(c) PROVE SoloInv'
  <2> PICK d : d = call[c].doc
    OBVIOUS
  <2> PICK s \in call[c].todo : ReclaimBlob(c, s)
    BY <1>7 DEF SweepRaw
  <2>1. \A e \in Clients : call'[e] = [call[c] EXCEPT !.todo = call[c].todo \ {s}]
    BY SoloUpdate DEF ReclaimBlob
  <2>2. /\ d \in Docs /\ call[c].op = "delete" /\ call[c].pc = "sweep"
        /\ call[c].man = manifest
        /\ \A row \in rows : row.doc # d
    BY <1>7 DEF SweepRaw, At, DeletePCs, SoloInv, Relies
  <2>3. manifest' = manifest /\ rows' = rows
    BY <1>7 DEF SweepRaw
  <2>4. blobs' = IF OwnersOf(manifest, s, d) = {} THEN blobs \ {s} ELSE blobs
    BY <2>2 DEF ReclaimBlob
  <2>5. CitedBytesKept'
    BY <2>2, <2>3, <2>4 DEF SoloInv, CitedBytesKept, OwnersOf, TypeInv, TypeOK, Row
  <2>6. Reclaimed(s, d)' /\ \A x : Reclaimed(x, d) => Reclaimed(x, d)'
    BY <2>3, <2>4 DEF Reclaimed
  <2> QED
    BY <2>1, <2>2, <2>3, <2>5, <2>6 DEF SoloInv, Relies, Swept, GraphPCs
<1>8. ASSUME ForgetDocument(c) PROVE SoloInv'
  <2> DEFINE m == Forget(call[c].man, call[c].doc)
  <2>1. \A e \in Clients : call'[e] = Idle
    BY <1>8, SoloUpdate DEF ForgetDocument, Return
  <2>2. call[c].man = manifest /\ call[c].doc \in Docs
    BY <1>8 DEF ForgetDocument, At, DeletePCs, SoloInv, Relies
  <2>3. m.etags = [manifest.etags EXCEPT ![call[c].doc] = NoSum]
    BY <2>2 DEF Forget
  <2>4. CitedBytesKept'
    BY <1>8, <2>2, <2>3, NoSumAssumption DEF ForgetDocument, SoloInv,
       CitedBytesKept, Manifest,
          TypeInv, TypeOK, Row
  <2> QED
    BY <2>1, <2>4 DEF SoloInv, Relies, Swept, Idle, GraphPCs
<1> QED
  BY <1>1, <1>2, <1>3, <1>4, <1>5, <1>6, <1>7, <1>8 DEF Delete

LEMMA NavigateSolo ==
    ASSUME SoloClient, Inv, NEW c \in Clients, Navigate(c)
    PROVE  SoloInv'
<1> USE CallFields DEF Call, Inv
<1>1. ASSUME StartRefresh(c) PROVE SoloInv'
  BY <1>1, SoloUpdate DEF StartRefresh, Idle, durable, At, SoloInv,
     CitedBytesKept, Relies, Swept, Reclaimed, IngestPCs, DeletePCs, GraphPCs
<1>2. ASSUME EnsureCurrent(c) PROVE SoloInv'
  BY <1>2, SoloUpdate DEF EnsureCurrent, Idle, durable, At, SoloInv,
     CitedBytesKept, Relies, Swept, Reclaimed, IngestPCs, DeletePCs, GraphPCs
<1>3. ASSUME ScanRows(c) PROVE SoloInv'
  BY <1>3, SoloUpdate DEF ScanRows, durable, At, SoloInv,
     CitedBytesKept, Relies, Swept, Reclaimed, IngestPCs, DeletePCs, GraphPCs
<1>4. ASSUME SaveGraph(c) PROVE SoloInv'
  BY <1>4, SoloUpdate DEF SaveGraph, Goto, At, SoloInv,
     CitedBytesKept, Relies, Swept, Reclaimed, IngestPCs, DeletePCs, GraphPCs
<1>5. ASSUME MarkClean(c) PROVE SoloInv'
  BY <1>5, SoloUpdate DEF MarkClean, Goto, Return, Idle, At, SoloInv,
     CitedBytesKept, Relies, Swept, Reclaimed, IngestPCs, DeletePCs, GraphPCs
<1>6. ASSUME UpdateWiki(c) PROVE SoloInv'
  BY <1>6, SoloUpdate DEF UpdateWiki, Goto, Return, Idle, At, SoloInv,
     CitedBytesKept, Relies, Swept, Reclaimed, IngestPCs, DeletePCs, GraphPCs
<1> QED
  BY <1>1, <1>2, <1>3, <1>4, <1>5, <1>6 DEF Navigate

LEMMA SoloStep == SoloClient /\ Inv /\ [Next]_vars => SoloInv'
<1> SUFFICES ASSUME SoloClient, Inv, [Next]_vars PROVE SoloInv'
  OBVIOUS
<1>1. CASE UNCHANGED vars
  BY <1>1 DEF vars, Inv, SoloInv, CitedBytesKept, Relies, Swept, Reclaimed,
     OwnersOf, Holdings
<1>2. ASSUME NEW c \in Clients, Crash(c) PROVE SoloInv'
  <2>1. \A e \in Clients : call'[e] = Idle
    BY <1>2, SoloUpdate DEF Crash, Return, Inv
  <2>2. CitedBytesKept'
    BY <1>2 DEF Crash, durable, Inv, SoloInv, CitedBytesKept
  <2> QED
    BY <2>1, <2>2 DEF SoloInv, Relies, Swept, Idle, GraphPCs
<1> QED
  BY <1>1, <1>2, IngestSolo, DeleteSolo, NavigateSolo DEF Next

LEMMA Invariance == ASSUME SoloClient PROVE Spec => []Inv
<1>1. Init => Inv
  BY InitType, NeverRetiredInit, SoloInit DEF Inv
<1>2. Inv /\ [Next]_vars => Inv'
  BY StepType, NeverRetiredStep, SoloStep DEF Inv
<1> QED
  BY <1>1, <1>2, PTL DEF Spec

\* Whatever was interrupted, a row of a document's current version cites bytes
\* that are in the bucket.
THEOREM CitedBytes == ASSUME SoloClient PROVE Spec => []CitedBytesKept
<1>1. Inv => CitedBytesKept
  BY DEF Inv, SoloInv
<1> QED
  BY <1>1, Invariance, PTL

-----------------------------------------------------------------------------
(* One client per partition: what a step may never do *)

\* Clearing or forgetting a document whose blobs are reclaimed loses no record of a
\* blob that is still there.
LEMMA GoneOrOwned ==
    ASSUME NEW m \in Manifest, NEW d \in Docs, NEW n, NEW B,
           \/ /\ n = ClearSuperseded(m, d)
              /\ \A s \in m.superseded[d] \cap B : OwnersOf(m, s, d) # {}
           \/ /\ n = Forget(m, d)
              /\ \A s \in Holdings(m, d) \cap B : OwnersOf(m, s, d) # {}
    PROVE  \A s \in B : Names(m, s) => Names(n, s)
<1> SUFFICES ASSUME NEW s \in B, NEW e \in Docs, s \in Holdings(m, e)
             PROVE  \E f \in Docs : s \in Holdings(n, f)
  BY DEF Names
<1>1. s # NoSum
  BY NoSumAssumption DEF Holdings, Manifest
<1>2. CASE e # d
  BY <1>2 DEF Holdings, ClearSuperseded, Forget, Manifest
<1>3. ASSUME NEW f \in OwnersOf(m, s, d) PROVE f \in Docs /\ s \in Holdings(n, f)
  BY <1>1, <1>3 DEF OwnersOf, Holdings, ClearSuperseded, Forget, Manifest
<1>4. CASE e = d
  BY <1>1, <1>3, <1>4 DEF Holdings, ClearSuperseded, Manifest
<1> QED
  BY <1>2, <1>4

\* The last record of a blob leaves the manifest only when the blob is gone.
LEMMA ReachableStep ==
    ASSUME SoloClient, Inv, [Next]_vars
    PROVE  StaysReachable
<1> USE DEF Inv, StaysReachable
<1>1. CASE UNCHANGED vars
  BY <1>1 DEF vars
<1>2. CASE Quiet
  BY <1>2 DEF Quiet
<1>3. ASSUME NEW c \in Clients, RecordManifest(c) PROVE StaysReachable
  <2>1. manifest' = Record(manifest, call[c].doc, call[c].sum)
    BY <1>3, CallFields DEF RecordManifest, At, IngestPCs, SoloInv, Relies
  <2>2. manifest \in Manifest /\ call[c].doc \in Docs /\ call[c].sum \in Checksums
    BY <1>3, CallFields DEF RecordManifest, At, IngestPCs, TypeInv, TypeOK
  <2> QED
    BY <2>1, <2>2, RecordKeepsHoldings DEF Names
<1>4. ASSUME NEW c \in Clients, ClearRetired(c) PROVE StaysReachable
  <2> PICK d : d = call[c].doc
    OBVIOUS
  <2>1. manifest \in Manifest /\ d \in Docs
    BY <1>4, CallFields DEF ClearRetired, At, IngestPCs, TypeInv, TypeOK
  <2>2. manifest' = ClearSuperseded(manifest, d)
    BY <1>4, CallFields DEF ClearRetired, At, IngestPCs, SoloInv, Relies
  <2>3. \A s \in manifest.superseded[d] : Reclaimed(s, d)
    BY <1>4 DEF ClearRetired, At, SoloInv, Swept
  <2> QED
    BY <2>1, <2>2, <2>3, GoneOrOwned DEF Reclaimed
<1>5. ASSUME NEW c \in Clients, ForgetDocument(c) PROVE StaysReachable
  <2> PICK d : d = call[c].doc
    OBVIOUS
  <2>1. manifest \in Manifest /\ d \in Docs
    BY <1>5, CallFields DEF ForgetDocument, At, DeletePCs, TypeInv, TypeOK
  <2>2. manifest' = Forget(manifest, d)
    BY <1>5, CallFields DEF ForgetDocument, At, DeletePCs, SoloInv, Relies
  <2>3. \A s \in Holdings(manifest, d) : Reclaimed(s, d)
    BY <1>5, CallFields DEF ForgetDocument, At, DeletePCs, SoloInv, Swept
  <2> QED
    BY <2>1, <2>2, <2>3, GoneOrOwned DEF Reclaimed
<1>6. ASSUME NEW c \in Clients, Crash(c) PROVE Quiet
  BY <1>6, QuietCall DEF Crash, Return, durable, Idle
<1> QED
  BY <1>1, <1>2, <1>3, <1>4, <1>5, <1>6, IngestQuiet, DeleteQuiet, NavigateQuiet DEF Next

\* As long as a blob is in the bucket, no step takes its last record out of the
\* manifest: a purge or a revoke deletes first and forgets after.
THEOREM Reachable == ASSUME SoloClient PROVE Spec => ReachableUntilReclaimed
<1>1. Inv /\ [Next]_vars => [StaysReachable]_vars
  BY ReachableStep
<1> QED
  BY <1>1, Invariance, PTL DEF Spec, ReachableUntilReclaimed

\* The steps that write nothing a document is made of but through its own call.
LEMMA Still ==
    ASSUME NEW d \in Docs, UNCHANGED <<manifest, rows, structure, blobs, images>>
    PROVE  Untouched(d)
BY DEF Untouched, Holdings

LEMMA ReclaimSpares ==
    ASSUME Inv, NEW c \in Clients, NEW s \in call[c].todo, ReclaimBlob(c, s),
           call[c].man = manifest, UNCHANGED <<manifest, rows, structure, images>>,
           NEW d \in Docs, d # call[c].doc
    PROVE  Untouched(d)
<1>1. manifest.etags[d] \in blobs => manifest.etags[d] \in blobs'
  BY DEF ReclaimBlob, OwnersOf
<1> QED
  BY <1>1 DEF Untouched, Holdings

LEMMA OthersStep ==
    ASSUME SoloClient, Inv, [Next]_vars, NEW d \in Docs, ~Target(d)
    PROVE  Untouched(d)
<1> USE CallFields DEF Inv
<1>1. \A c \in Clients : d # call[c].doc
  BY DEF Target
<1>2. CASE UNCHANGED vars
  BY <1>2, Still DEF vars
<1>3. ASSUME NEW c \in Clients, Ingest(c) PROVE Untouched(d)
  <2>1. ASSUME NEW e \in Docs, NEW s \in Checksums,
               LoadManifest(c, e, s) \/ SkipUnchanged(c, e, s)
        PROVE  Untouched(d)
    BY <2>1, Still DEF LoadManifest, SkipUnchanged, durable
  <2>2. CASE \/ StampTokenizer(c) \/ MarkDirty(c) \/ IntegratePage(c)
    BY <2>2, Still DEF StampTokenizer, MarkDirty, IntegratePage
  <2>9. CASE PersistImages(c)
    BY <1>1, <2>9 DEF PersistImages, Untouched, Holdings
  <2>3. CASE PutRaw(c)
    BY <2>3 DEF PutRaw, Untouched, Holdings
  <2>4. CASE PutStructure(c)
    BY <1>1, <2>4 DEF PutStructure, Untouched, Holdings, TypeInv, TypeOK
  <2>5. CASE UpsertRows(c)
    <3>1. {r \in rows' : r.doc = d} = {r \in rows : r.doc = d}
      BY <1>1, <2>5 DEF UpsertRows, Upsert
    <3> QED
      BY <2>5, <3>1 DEF UpsertRows, Untouched, Holdings
  <2>6. CASE RecordManifest(c)
    <3>1. manifest' = Record(manifest, call[c].doc, call[c].sum)
      BY <2>6 DEF RecordManifest, At, IngestPCs, SoloInv, Relies
    <3>2. /\ Holdings(manifest', d) = Holdings(manifest, d)
          /\ manifest'.etags[d] = manifest.etags[d]
      BY <1>1, <2>6, <3>1, OpsAreLocal DEF RecordManifest, At, IngestPCs, TypeInv,
         TypeOK
    <3> QED
      BY <2>6, <3>2 DEF RecordManifest, Untouched
  <2>7. CASE PurgeRetired(c)
    <3>1. call[c].man = manifest
      BY <2>7 DEF PurgeRetired, At, IngestPCs, SoloInv, Relies
    <3> QED
      BY <1>1, <2>7, <3>1, ReclaimSpares DEF PurgeRetired
  <2>8. CASE ClearRetired(c)
    <3>1. manifest' = ClearSuperseded(manifest, call[c].doc)
      BY <2>8 DEF ClearRetired, At, IngestPCs, SoloInv, Relies
    <3>2. /\ Holdings(manifest', d) = Holdings(manifest, d)
          /\ manifest'.etags[d] = manifest.etags[d]
      BY <1>1, <2>8, <3>1, OpsAreLocal DEF ClearRetired, At, IngestPCs, TypeInv,
         TypeOK
    <3> QED
      BY <2>8, <3>2 DEF ClearRetired, Untouched
  <2> QED
    BY <1>3, <2>1, <2>2, <2>3, <2>4, <2>5, <2>6, <2>7, <2>8, <2>9 DEF Ingest
<1>4. ASSUME NEW c \in Clients, Delete(c) PROVE Untouched(d)
  <2>1. ASSUME NEW e \in Docs, DeleteAbsent(c, e) \/ StartDelete(c, e)
        PROVE  Untouched(d)
    BY <2>1, Still DEF DeleteAbsent, StartDelete, durable
  <2>2. CASE EndSweep(c)
    BY <2>2, Still DEF EndSweep, durable
  <2>7. CASE DeleteImages(c)
    BY <2>7 DEF DeleteImages, Untouched, Holdings, UnderPrefix
  <2>3. CASE DeleteRows(c)
    <3>1. {r \in rows' : r.doc = d} = {r \in rows : r.doc = d}
      BY <1>1, <2>3 DEF DeleteRows
    <3> QED
      BY <2>3, <3>1 DEF DeleteRows, Untouched, Holdings
  <2>4. CASE DeleteStructure(c)
    BY <2>4 DEF DeleteStructure, Untouched, Holdings, UnderPrefix
  <2>5. CASE SweepRaw(c)
    <3>1. call[c].man = manifest
      BY <2>5 DEF SweepRaw, At, DeletePCs, SoloInv, Relies
    <3> QED
      BY <1>1, <2>5, <3>1, ReclaimSpares DEF SweepRaw
  <2>6. CASE ForgetDocument(c)
    <3>1. manifest' = Forget(manifest, call[c].doc)
      BY <2>6 DEF ForgetDocument, At, DeletePCs, SoloInv, Relies
    <3>2. /\ Holdings(manifest', d) = Holdings(manifest, d)
          /\ manifest'.etags[d] = manifest.etags[d]
      BY <1>1, <2>6, <3>1, OpsAreLocal DEF ForgetDocument, At, DeletePCs, TypeInv,
         TypeOK
    <3> QED
      BY <2>6, <3>2 DEF ForgetDocument, Untouched
  <2> QED
    BY <1>4, <2>1, <2>2, <2>3, <2>4, <2>5, <2>6, <2>7 DEF Delete
<1>5. ASSUME NEW c \in Clients, Navigate(c) \/ Crash(c) PROVE Untouched(d)
  BY <1>5, Still DEF Navigate, StartRefresh, EnsureCurrent, ScanRows, SaveGraph,
     MarkClean,
     UpdateWiki, Crash, durable
<1> QED
  BY <1>2, <1>3, <1>4, <1>5 DEF Next

\* An ingest or a revoke leaves every other document's record, rows and bytes as they
\* were, and its index and images too, but for those whose keys lie under the prefixes
\* that a revoke deletes.
THEOREM Others == ASSUME SoloClient PROVE Spec => OthersUntouched
<1>1. Inv /\ [Next]_vars => [\A d \in Docs : ~Target(d) => Untouched(d)]_vars
  BY OthersStep
<1> QED
  BY <1>1, Invariance, PTL DEF Spec, OthersUntouched

-----------------------------------------------------------------------------
(* One client per partition: what a call has done when it returns          *)
(*                                                                         *)
(* A call of many writes keeps its promise because of what the earlier     *)
(* writes left at each of its steps.  The invariant says just that, step   *)
(* by step, and TLC checks it on both instances of Corpus.                 *)

\* A call has answered for its document only once it is done with it.
Answers(r) ==
    /\ r.op = "ingest" => result[r.doc] # "deleted"
    /\ r.op = "ingest" /\ r.pc \notin {"ingested", "page"} => result[r.doc] = "pending"
    /\ r.op = "delete" => result[r.doc] = "pending"

\* What a call has stored by the time it gets to a step.
Stores(r) ==
    /\ r.pc \in {"rows", "record", "stamp", "purge"} /\ "structure" \in Signals =>
         structure[r.doc] = r.sum
    /\ r.pc \in {"record", "stamp", "purge"} /\ HasVectors =>
         \A u \in Units[r.sum] : [doc |-> r.doc, slot |-> u, sum |-> r.sum] \in rows
    /\ r.pc \in {"stamp", "purge"} => r.sum \in blobs /\ manifest.etags[r.doc] = r.sum
    /\ r.pc \in {"ingested", "page"} \/ r.op = "delete" => manifest.etags[r.doc] # NoSum

\* What a revoke has removed by then.
Removes(r) == r.op = "delete" =>
    /\ r.pc \notin {"delrows", "delstructure"} => structure[r.doc] = NoSum
    /\ r.pc \notin {"delrows", "delstructure", "delimages"} => r.doc \notin images
    /\ r.pc \in {"clean", "wiki", "forget"} => \A row \in graph : row.doc # r.doc
    /\ r.pc = "forget" => r.doc \notin wiki

\* A rebuild carries the rows there are, and one that ends has saved them.
Rebuilds(r) ==
    /\ r.pc \in {"scan", "save", "clean"} => HasGraph
    /\ r.pc = "save" => r.snap = rows
    /\ r.pc = "clean" => graph = rows

\* A layer that is not declared stays empty.
Undeclared == /\ ~HasGraph => graph = {}
              /\ "wiki" \notin Signals => wiki = {}

LayerInv == /\ Undeclared
            /\ RevokedIsGone /\ IngestedIsComplete /\ NavigationKnown
            /\ \A c \in Clients : /\ Answers(call[c]) /\ Stores(call[c])
                                  /\ Removes(call[c]) /\ Rebuilds(call[c])

\* The four of one call.
CallParts(r) == Answers(r) /\ Stores(r) /\ Removes(r) /\ Rebuilds(r)

\* What the invariants say of the only call.
LEMMA CallLayers ==
    ASSUME Inv, LayerInv, NEW c \in Clients
    PROVE  /\ Undeclared /\ RevokedIsGone /\ IngestedIsComplete /\ NavigationKnown
           /\ Answers(call[c]) /\ Stores(call[c]) /\ Removes(call[c]) /\ Rebuilds(call[c])
           /\ TypeInv /\ TypeOK /\ CallOK(call[c]) /\ Relies(call[c])
BY DEF LayerInv, Inv, SoloInv, TypeInv, PcOK

\* An answer changes for one document only.
LEMMA NewAnswer ==
    ASSUME TypeOK, RevokedIsGone, IngestedIsComplete, NavigationKnown, Undeclared,
           NEW d \in Docs, NEW a \in Results \ {"deleted", "ingested", "none"},
           UNCHANGED durable, result' = [result EXCEPT ![d] = a]
    PROVE  RevokedIsGone' /\ IngestedIsComplete' /\ NavigationKnown' /\ Undeclared'
<1>1. \A e \in Docs : result'[e] \in {"deleted", "ingested"} => result'[e] = result[e]
  BY DEF TypeOK
<1>2. RevokedIsGone'
  BY <1>1 DEF RevokedIsGone, Holdings, durable
<1>3. IngestedIsComplete'
  <2>1. \A e \in Docs : IndexTaken(e) => IndexTaken(e)'
    BY DEF IndexTaken, durable, TypeOK
  <2> QED
    BY <1>1, <2>1 DEF IngestedIsComplete, IndexTaken, durable
<1> QED
  BY <1>2, <1>3 DEF NavigationKnown, Known, Undeclared, durable

\* The evidence of an ingested document stays whole while its rows stay.
LEMMA WholeKept ==
    ASSUME TypeOK, IngestedIsComplete, NEW d \in Docs,
           UNCHANGED <<manifest, blobs, structure, result>>,
           \A e \in Docs : result[e] = "ingested" => e # d,
           \A e \in Docs \ {d}, s \in Checksums, u \in Slots :
              [doc |-> e, slot |-> u, sum |-> s] \in rows =>
                 [doc |-> e, slot |-> u, sum |-> s] \in rows'
    PROVE  IngestedIsComplete'
<1> SUFFICES ASSUME NEW e \in Docs, result[e] = "ingested"
             PROVE  \E s \in blobs :
                      /\ manifest.etags[e] = s
                      /\ HasVectors =>
                           \A u \in Units[s] : [doc |-> e, slot |-> u, sum |-> s] \in rows'
                      /\ "structure" \in Signals => structure[e] = s \/ IndexTaken(e)
  BY DEF IngestedIsComplete, IndexTaken
<1> PICK s \in blobs :
           /\ manifest.etags[e] = s
           /\ HasVectors => \A u \in Units[s] : [doc |-> e, slot |-> u, sum |-> s] \in rows
           /\ "structure" \in Signals => structure[e] = s \/ IndexTaken(e)
  BY DEF IngestedIsComplete, IndexTaken
<1>1. s \in Checksums /\ \A u \in Units[s] : u \in Slots
  BY UnitsAssumption DEF TypeOK
<1> QED
  BY <1>1

\* A step of the only call keeps the invariant if it keeps each part.
LEMMA LayerParts ==
    ASSUME Undeclared', RevokedIsGone', IngestedIsComplete', NavigationKnown',
           NEW r, \A e \in Clients : call'[e] = r, CallParts(r)'
    PROVE  LayerInv'
BY DEF LayerInv, CallParts

LEMMA IngestLayers ==
    ASSUME SoloClient, Inv, LayerInv, NEW c \in Clients, Ingest(c)
    PROVE  LayerInv'
<1>0. /\ Undeclared /\ RevokedIsGone /\ IngestedIsComplete /\ NavigationKnown
      /\ Answers(call[c]) /\ Stores(call[c]) /\ Removes(call[c]) /\ Rebuilds(call[c])
      /\ TypeInv /\ TypeOK /\ CallOK(call[c]) /\ Relies(call[c])
  BY CallLayers
<1> USE <1>0, CallFields
<1>1. ASSUME NEW d \in Docs, NEW s \in Checksums, LoadManifest(c, d, s) PROVE LayerInv'
  <2> PICK r : r = [Idle EXCEPT !.op = "ingest", !.pc = "images", !.doc = d, !.sum = s,
                                !.man = manifest]
    OBVIOUS
  <2>1. \A e \in Clients : call'[e] = r
    BY <1>1, SoloUpdate DEF LoadManifest
  <2>2. r.op = "ingest" /\ r.pc = "images" /\ r.doc = d
    BY DEF Idle
  <2>3. UNCHANGED durable /\ result' = [result EXCEPT ![d] = "pending"]
    BY <1>1 DEF LoadManifest
  <2>4. CallParts(r)'
    BY <2>2, <2>3 DEF CallParts, Answers, Stores, Removes, Rebuilds, durable, TypeOK
  <2>5. RevokedIsGone' /\ IngestedIsComplete' /\ Undeclared' /\ NavigationKnown'
    BY <2>3, NewAnswer DEF Results
  <2> QED
    BY <2>1, <2>4, <2>5, LayerParts
<1>2. ASSUME NEW d \in Docs, NEW s \in Checksums, SkipUnchanged(c, d, s) PROVE LayerInv'
  <2> PICK r : r = call[c]
    OBVIOUS
  <2>1. \A e \in Clients : call'[e] = r
    BY <1>2 DEF SkipUnchanged, SoloClient
  <2>2. r.pc \in {"idle", "ingested"} /\ (r.op = "ingest" => r.pc = "ingested") /\ r.op # "delete"
    BY <1>2 DEF SkipUnchanged, CallOK, IngestPCs
  <2>3. UNCHANGED durable /\ result' = [result EXCEPT ![d] = "unchanged"]
    BY <1>2 DEF SkipUnchanged
  <2>4. CallParts(r)'
    BY <2>2, <2>3 DEF CallParts, Answers, Stores, Removes, Rebuilds, durable
  <2>5. RevokedIsGone' /\ IngestedIsComplete' /\ Undeclared' /\ NavigationKnown'
    BY <2>3, NewAnswer DEF Results
  <2> QED
    BY <2>1, <2>4, <2>5, LayerParts
<1>3. ASSUME PersistImages(c) PROVE LayerInv'
  <2> PICK r : r = [call[c] EXCEPT !.pc = "raw"]
    OBVIOUS
  <2>1. \A e \in Clients : call'[e] = r
    BY <1>3, SoloUpdate DEF PersistImages, Goto
  <2>2. /\ r.op = "ingest" /\ r.pc = "raw" /\ r.doc \in Docs
        /\ result[r.doc] = "pending" /\ r.doc = call[c].doc
    BY <1>3 DEF PersistImages, At, Call, IngestPCs, Answers
  <2>3. UNCHANGED <<manifest, blobs, structure, rows, stamped, graph, dirty, wiki, result>>
    BY <1>3 DEF PersistImages
  <2>4. CallParts(r)'
    BY <2>2, <2>3 DEF CallParts, Answers, Stores, Removes, Rebuilds
  <2>5. RevokedIsGone'
    BY <1>3, <2>2, <2>3 DEF RevokedIsGone, PersistImages, Holdings
  <2>6. IngestedIsComplete' /\ Undeclared' /\ NavigationKnown'
    BY <2>3 DEF IngestedIsComplete, IndexTaken, Undeclared, NavigationKnown, Known
  <2> QED
    BY <2>1, <2>4, <2>5, <2>6, LayerParts
<1>4. ASSUME PutRaw(c) PROVE LayerInv'
  <2> PICK r : r = [call[c] EXCEPT !.pc = "structure"]
    OBVIOUS
  <2>1. \A e \in Clients : call'[e] = r
    BY <1>4, SoloUpdate DEF PutRaw, Goto
  <2>2. r.op = "ingest" /\ r.pc = "structure" /\ result[r.doc] = "pending"
    BY <1>4 DEF PutRaw, At, Call, IngestPCs, Answers
  <2>3. /\ UNCHANGED <<manifest, images, structure, rows, stamped, graph, dirty, wiki, result>>
        /\ blobs \subseteq blobs'
    BY <1>4 DEF PutRaw
  <2>4. CallParts(r)'
    BY <2>2, <2>3 DEF CallParts, Answers, Stores, Removes, Rebuilds
  <2>5. RevokedIsGone' /\ IngestedIsComplete' /\ Undeclared' /\ NavigationKnown'
    BY <2>3 DEF RevokedIsGone, IngestedIsComplete, IndexTaken, Undeclared, NavigationKnown, Known,
       Holdings
  <2> QED
    BY <2>1, <2>4, <2>5, LayerParts
<1>5. ASSUME PutStructure(c) PROVE LayerInv'
  <2> PICK r : r = [call[c] EXCEPT !.pc = "rows"]
    OBVIOUS
  <2>1. \A e \in Clients : call'[e] = r
    BY <1>5, SoloUpdate DEF PutStructure, Goto
  <2>2. /\ r.op = "ingest" /\ r.pc = "rows" /\ r.doc \in Docs /\ r.doc = call[c].doc
        /\ r.sum = call[c].sum /\ result[r.doc] = "pending"
    BY <1>5 DEF PutStructure, At, Call, IngestPCs, Answers
  <2>3. UNCHANGED <<manifest, blobs, images, rows, stamped, graph, dirty, wiki, result>>
    BY <1>5 DEF PutStructure
  <2>4. /\ \A e \in Docs \ {r.doc} : structure'[e] = structure[e]
        /\ "structure" \in Signals => structure'[r.doc] = r.sum
    BY <1>5, <2>2 DEF PutStructure, TypeOK
  <2>5. CallParts(r)'
    BY <2>2, <2>3, <2>4 DEF CallParts, Answers, Stores, Removes, Rebuilds
  <2>6. RevokedIsGone' /\ IngestedIsComplete'
    <3>1. \A e \in Docs : result[e] \in {"deleted", "ingested"} => structure'[e] = structure[e]
      BY <2>2, <2>4
    <3>2. RevokedIsGone'
      BY <2>3, <3>1 DEF RevokedIsGone, Holdings
    <3>3. IngestedIsComplete'
      BY <2>3, <3>1 DEF IngestedIsComplete, IndexTaken
    <3> QED
      BY <3>2, <3>3
  <2>7. Undeclared' /\ NavigationKnown'
    BY <2>3 DEF Undeclared, NavigationKnown, Known
  <2> QED
    BY <2>1, <2>5, <2>6, <2>7, LayerParts
<1>6. ASSUME UpsertRows(c) PROVE LayerInv'
  <2> PICK r : r = [call[c] EXCEPT !.pc = "record"]
    OBVIOUS
  <2>1. \A e \in Clients : call'[e] = r
    BY <1>6, SoloUpdate DEF UpsertRows, Goto
  <2>2. /\ r.op = "ingest" /\ r.pc = "record" /\ r.doc \in Docs /\ r.doc = call[c].doc
        /\ r.sum = call[c].sum /\ result[r.doc] = "pending"
        /\ "structure" \in Signals => structure[r.doc] = r.sum
    BY <1>6 DEF UpsertRows, At, Call, IngestPCs, Answers, Stores
  <2>3. UNCHANGED <<manifest, blobs, images, structure, stamped, graph, dirty, wiki, result>>
    BY <1>6 DEF UpsertRows
  <2>4. /\ \A x \in rows : x.doc # r.doc => x \in rows'
        /\ \A x \in rows' : x.doc # r.doc => x \in rows
        /\ HasVectors =>
             \A u \in Units[r.sum] : [doc |-> r.doc, slot |-> u, sum |-> r.sum] \in rows'
    BY <1>6, <2>2 DEF UpsertRows, Upsert
  <2>5. \A x \in rows : \E y \in rows' : y.doc = x.doc
    <3> SUFFICES ASSUME NEW x \in rows, x.doc = r.doc, HasVectors, x.slot \in Units[r.sum]
                 PROVE  \E y \in rows' : y.doc = r.doc
      BY <1>6, <2>2 DEF UpsertRows, Upsert
    <3> QED
      BY <2>4
  <2>6. CallParts(r)'
    BY <2>2, <2>3, <2>4 DEF CallParts, Answers, Stores, Removes, Rebuilds
  <2>7. IngestedIsComplete'
    <3>1. \A e \in Docs : result[e] = "ingested" => e # r.doc
      BY <2>2
    <3>2. \A e \in Docs \ {r.doc}, s \in Checksums, u \in Slots :
             [doc |-> e, slot |-> u, sum |-> s] \in rows =>
                [doc |-> e, slot |-> u, sum |-> s] \in rows'
      BY <2>4
    <3>3. r.doc \in Docs /\ UNCHANGED <<manifest, blobs, structure, result>>
      BY <2>2, <2>3
    <3> QED
      BY <3>1, <3>2, <3>3, WholeKept
  <2>8. RevokedIsGone'
    <3> SUFFICES ASSUME NEW e \in Docs, result[e] = "deleted"
                 PROVE  \A x \in rows' : x.doc # e
      BY <2>3 DEF RevokedIsGone, Holdings
    <3> QED
      BY <2>2, <2>4 DEF RevokedIsGone
  <2>9. Undeclared' /\ NavigationKnown'
    <3>1. Known \subseteq Known'
      BY <2>3, <2>5 DEF Known
    <3> QED
      BY <2>3, <3>1 DEF Undeclared, NavigationKnown
  <2> QED
    BY <2>1, <2>6, <2>7, <2>8, <2>9, LayerParts
<1>7. ASSUME RecordManifest(c) PROVE LayerInv'
  <2> PICK m : m = Record(call[c].man, call[c].doc, call[c].sum)
    OBVIOUS
  <2> PICK r : r = [call[c] EXCEPT !.pc = "stamp", !.man = m]
    OBVIOUS
  <2>1. \A e \in Clients : call'[e] = r
    BY <1>7, SoloUpdate DEF RecordManifest
  <2>2. /\ r.op = "ingest" /\ r.pc = "stamp" /\ r.doc \in Docs /\ r.doc = call[c].doc
        /\ r.sum = call[c].sum /\ r.sum \in Checksums /\ r.sum \in blobs
        /\ result[r.doc] = "pending" /\ call[c].man = manifest
        /\ "structure" \in Signals => structure[r.doc] = r.sum
        /\ HasVectors =>
             \A u \in Units[r.sum] : [doc |-> r.doc, slot |-> u, sum |-> r.sum] \in rows
    <3>1. call[c].pc = "record"
      BY <1>7 DEF RecordManifest, At
    <3>2. r.op = call[c].op /\ r.pc = "stamp" /\ r.doc = call[c].doc /\ r.sum = call[c].sum
      BY DEF Call
    <3> QED
      BY <3>1, <3>2 DEF IngestPCs, Answers, Stores, Relies
  <2>3. UNCHANGED <<blobs, images, structure, rows, stamped, graph, dirty, wiki, result>>
    BY <1>7 DEF RecordManifest
  <2>4. /\ manifest' = m /\ manifest'.etags[r.doc] = r.sum
        /\ \A e \in Docs \ {r.doc} : /\ manifest'.etags[e] = manifest.etags[e]
                                     /\ Holdings(manifest', e) = Holdings(manifest, e)
    <3>1. manifest' = m /\ m = Record(manifest, r.doc, r.sum)
      BY <1>7, <2>2 DEF RecordManifest
    <3>2. m.etags[r.doc] = r.sum
      BY <2>2, <3>1 DEF Record, Manifest
    <3>3. \A e \in Docs \ {r.doc} : /\ m.etags[e] = manifest.etags[e]
                                    /\ Holdings(m, e) = Holdings(manifest, e)
      BY <2>2, <3>1, OpsAreLocal
    <3> QED
      BY <3>1, <3>2, <3>3
  <2>5. CallParts(r)'
    BY <2>2, <2>3, <2>4 DEF CallParts, Answers, Stores, Removes, Rebuilds
  <2>6. RevokedIsGone' /\ IngestedIsComplete'
    BY <2>2, <2>3, <2>4 DEF RevokedIsGone, IngestedIsComplete, IndexTaken
  <2>7. Undeclared' /\ NavigationKnown'
    <3>1. Known \subseteq Known'
      BY <2>2, <2>3, <2>4, NoSumAssumption DEF Known
    <3> QED
      BY <2>3, <3>1 DEF Undeclared, NavigationKnown
  <2> QED
    BY <2>1, <2>5, <2>6, <2>7, LayerParts
<1>8. ASSUME StampTokenizer(c) PROVE LayerInv'
  <2> PICK d : d = call[c].doc
    OBVIOUS
  <2>1. /\ call[c].pc = "stamp" /\ call[c].op = "ingest" /\ d \in Docs /\ call[c].sum \in Checksums
        /\ result[d] = "pending"
    BY <1>8 DEF StampTokenizer, At, IngestPCs, Answers
  <2>2. UNCHANGED <<manifest, blobs, images, structure, rows, graph, dirty, wiki>>
    BY <1>8 DEF StampTokenizer
  <2>3. CASE call[c].man.superseded[d] = {}
    <3> PICK r : r = [call[c] EXCEPT !.pc = "ingested"]
      OBVIOUS
    <3>1. \A e \in Clients : call'[e] = r
      BY <1>8, <2>3, SoloUpdate DEF StampTokenizer, Goto
    <3>2. r.op = "ingest" /\ r.pc = "ingested" /\ r.doc = d
      BY <2>1 DEF Call
    <3>3. result' = [result EXCEPT ![d] = "ingested"]
      BY <1>8, <2>3 DEF StampTokenizer, Ingested
    <3>4. CallParts(r)'
      BY <2>1, <2>2, <3>2, <3>3, NoSumAssumption DEF CallParts, Answers, Stores, Removes,
         Rebuilds, TypeOK
    <3>5. Undeclared' /\ NavigationKnown'
      BY <2>2 DEF Undeclared, NavigationKnown, Known
    <3>6. \A e \in Docs : /\ result'[e] = "deleted" => result[e] = "deleted"
                          /\ result'[e] = "ingested" => result[e] = "ingested" \/ e = d
      BY <3>3 DEF TypeOK
    <3>7. RevokedIsGone'
      BY <2>2, <3>6 DEF RevokedIsGone, Holdings
    <3>8. IngestedIsComplete'
      <4>1. \A e \in Docs : IndexTaken(e) => IndexTaken(e)'
        BY <2>2, <3>3 DEF IndexTaken, TypeOK
      <4> QED
        BY <2>1, <2>2, <3>6, <4>1 DEF IngestedIsComplete, Stores
    <3> QED
      BY <3>1, <3>4, <3>5, <3>7, <3>8, LayerParts
  <2>4. CASE call[c].man.superseded[d] # {}
    <3> PICK r : r = [call[c] EXCEPT !.pc = "purge", !.todo = call[c].man.superseded[d]]
      OBVIOUS
    <3>1. \A e \in Clients : call'[e] = r
      BY <1>8, <2>4, SoloUpdate DEF StampTokenizer
    <3>2. r.op = "ingest" /\ r.pc = "purge" /\ r.doc = d /\ r.sum = call[c].sum
      BY <2>1 DEF Call
    <3>3. UNCHANGED result
      BY <1>8, <2>4 DEF StampTokenizer
    <3>4. CallParts(r)'
      BY <2>1, <2>2, <3>2, <3>3 DEF CallParts, Answers, Stores, Removes, Rebuilds
    <3>5. RevokedIsGone' /\ IngestedIsComplete' /\ Undeclared' /\ NavigationKnown'
      BY <2>2, <3>3 DEF RevokedIsGone, IngestedIsComplete, IndexTaken, Undeclared,
         NavigationKnown, Known,
         Holdings
    <3> QED
      BY <3>1, <3>4, <3>5, LayerParts
  <2> QED
    BY <2>3, <2>4
<1>9. ASSUME PurgeRetired(c) PROVE LayerInv'
  <2> PICK s \in call[c].todo : ReclaimBlob(c, s)
    BY <1>9 DEF PurgeRetired
  <2> PICK r : r = [call[c] EXCEPT !.todo = call[c].todo \ {s}]
    OBVIOUS
  <2>1. \A e \in Clients : call'[e] = r
    BY SoloUpdate DEF ReclaimBlob
  <2>2. /\ r.op = "ingest" /\ r.pc = "purge" /\ r.doc = call[c].doc /\ r.sum = call[c].sum
        /\ r.doc \in Docs /\ r.sum \in Checksums /\ result[r.doc] = "pending"
        /\ call[c].man = manifest /\ s \in manifest.superseded[r.doc]
    <3>1. call[c].pc = "purge"
      BY <1>9 DEF PurgeRetired, At
    <3>2. r.op = call[c].op /\ r.pc = call[c].pc /\ r.doc = call[c].doc /\ r.sum = call[c].sum
      BY DEF Call
    <3> QED
      BY <3>1, <3>2 DEF IngestPCs, Answers, Relies
  <2>3. UNCHANGED <<manifest, images, structure, rows, stamped, graph, dirty, wiki, result>>
    BY <1>9 DEF PurgeRetired
  <2>4. \A e \in Docs : manifest.etags[e] \in blobs => manifest.etags[e] \in blobs'
    <3>1. s # manifest.etags[r.doc]
      BY <2>2 DEF Inv, NeverRetiredInv, CurrentNeverRetired, CurrentNotRetired
    <3> QED
      BY <2>2, <3>1 DEF ReclaimBlob, OwnersOf
  <2>5. CallParts(r)'
    BY <2>2, <2>3, <2>4 DEF CallParts, Answers, Stores, Removes, Rebuilds
  <2>6. RevokedIsGone' /\ Undeclared' /\ NavigationKnown'
    BY <2>3 DEF RevokedIsGone, Undeclared, NavigationKnown, Known, Holdings
  <2>7. IngestedIsComplete'
    BY <2>3, <2>4 DEF IngestedIsComplete, IndexTaken
  <2> QED
    BY <2>1, <2>5, <2>6, <2>7, LayerParts
<1>10. ASSUME ClearRetired(c) PROVE LayerInv'
  <2> PICK d : d = call[c].doc
    OBVIOUS
  <2> PICK m : m = ClearSuperseded(call[c].man, d)
    OBVIOUS
  <2> PICK r : r = [call[c] EXCEPT !.pc = "ingested", !.man = m]
    OBVIOUS
  <2>1. \A e \in Clients : call'[e] = r
    BY <1>10, SoloUpdate DEF ClearRetired
  <2>2. /\ call[c].pc = "purge" /\ call[c].op = "ingest" /\ d \in Docs
        /\ call[c].sum \in Checksums /\ result[d] = "pending"
        /\ r.op = "ingest" /\ r.pc = "ingested" /\ r.doc = d
        /\ call[c].man = manifest
    <3>1. call[c].pc = "purge"
      BY <1>10 DEF ClearRetired, At
    <3>2. r.op = call[c].op /\ r.pc = "ingested" /\ r.doc = d
      BY DEF Call
    <3> QED
      BY <3>1, <3>2 DEF IngestPCs, Answers, Relies
  <2>3. /\ UNCHANGED <<blobs, images, structure, rows, stamped, graph, dirty, wiki>>
        /\ result' = [result EXCEPT ![d] = "ingested"]
    BY <1>10 DEF ClearRetired, Ingested
  <2>4. /\ manifest'.etags = manifest.etags
        /\ \A e \in Docs : Holdings(manifest', e) \subseteq Holdings(manifest, e)
    BY <1>10, <2>2 DEF ClearRetired, ClearSuperseded, Manifest, TypeOK, Holdings
  <2>5. CallParts(r)'
    BY <2>2, <2>3, <2>4, NoSumAssumption DEF CallParts, Answers, Stores, Removes, Rebuilds, TypeOK
  <2>6. \A e \in Docs : /\ result'[e] = "deleted" => result[e] = "deleted"
                        /\ result'[e] = "ingested" => result[e] = "ingested" \/ e = d
    BY <2>3 DEF TypeOK
  <2>7. RevokedIsGone'
    BY <2>3, <2>4, <2>6 DEF RevokedIsGone
  <2>8. IngestedIsComplete'
    <3>1. \A e \in Docs : IndexTaken(e) => IndexTaken(e)'
      BY <2>3 DEF IndexTaken, TypeOK
    <3> QED
      BY <2>2, <2>3, <2>4, <2>6, <3>1 DEF IngestedIsComplete, Stores
  <2>9. Undeclared' /\ NavigationKnown'
    BY <2>3, <2>4 DEF Undeclared, NavigationKnown, Known
  <2> QED
    BY <2>1, <2>5, <2>7, <2>8, <2>9, LayerParts
<1>11. ASSUME MarkDirty(c) PROVE LayerInv'
  <2> PICK r : r = [call[c] EXCEPT !.pc = "page"]
    OBVIOUS
  <2>1. \A e \in Clients : call'[e] = r
    BY <1>11, SoloUpdate DEF MarkDirty, Goto
  <2>2. r.op = "ingest" /\ r.pc = "page" /\ r.doc = call[c].doc /\ call[c].pc = "ingested"
    BY <1>11 DEF MarkDirty, At, Call, IngestPCs
  <2>3. UNCHANGED <<manifest, blobs, images, structure, rows, stamped, graph, wiki, result>>
    BY <1>11 DEF MarkDirty
  <2>4. CallParts(r)'
    BY <2>2, <2>3 DEF CallParts, Answers, Stores, Removes, Rebuilds, IngestPCs
  <2>5. RevokedIsGone' /\ IngestedIsComplete' /\ Undeclared' /\ NavigationKnown'
    BY <2>3 DEF RevokedIsGone, IngestedIsComplete, IndexTaken, Undeclared, NavigationKnown, Known,
       Holdings
  <2> QED
    BY <2>1, <2>4, <2>5, LayerParts
<1>12. ASSUME IntegratePage(c) PROVE LayerInv'
  <2> PICK r : r = Idle
    OBVIOUS
  <2>1. \A e \in Clients : call'[e] = r
    BY <1>12, SoloUpdate DEF IntegratePage, Return
  <2>2. r.op = "none" /\ r.pc = "idle"
    BY DEF Idle
  <2>3. UNCHANGED <<manifest, blobs, images, structure, rows, stamped, graph, dirty, result>>
    BY <1>12 DEF IntegratePage
  <2>4. /\ call[c].doc \in Docs /\ result[call[c].doc] # "deleted"
        /\ manifest.etags[call[c].doc] # NoSum
        /\ wiki' = IF "wiki" \in Signals THEN wiki \cup {call[c].doc} ELSE wiki
    BY <1>12 DEF IntegratePage, At, IngestPCs, Answers, Stores
  <2>5. CallParts(r)'
    BY <2>2 DEF CallParts, Answers, Stores, Removes, Rebuilds
  <2>6. RevokedIsGone'
    BY <2>3, <2>4 DEF RevokedIsGone, Holdings
  <2>7. IngestedIsComplete' /\ Undeclared' /\ NavigationKnown'
    BY <2>3, <2>4 DEF IngestedIsComplete, IndexTaken, Undeclared, NavigationKnown, Known
  <2> QED
    BY <2>1, <2>5, <2>6, <2>7, LayerParts
<1> QED
  BY <1>1, <1>2, <1>3, <1>4, <1>5, <1>6, <1>7, <1>8, <1>9, <1>10, <1>11, <1>12 DEF Ingest

LEMMA DeleteLayers ==
    ASSUME SoloClient, Inv, LayerInv, NEW c \in Clients, Delete(c)
    PROVE  LayerInv'
<1>0. /\ Undeclared /\ RevokedIsGone /\ IngestedIsComplete /\ NavigationKnown
      /\ Answers(call[c]) /\ Stores(call[c]) /\ Removes(call[c]) /\ Rebuilds(call[c])
      /\ TypeInv /\ TypeOK /\ CallOK(call[c]) /\ Relies(call[c])
  BY CallLayers
<1> USE <1>0, CallFields
<1>1. ASSUME NEW d \in Docs, DeleteAbsent(c, d) PROVE LayerInv'
  <2> PICK r : r = call[c]
    OBVIOUS
  <2>1. \A e \in Clients : call'[e] = r
    BY <1>1 DEF DeleteAbsent, SoloClient
  <2>2. r.pc = "idle" /\ r.op # "ingest" /\ r.op # "delete"
    BY <1>1 DEF DeleteAbsent, At, CallOK
  <2>3. UNCHANGED durable /\ result' = [result EXCEPT ![d] = "absent"]
    BY <1>1 DEF DeleteAbsent
  <2>4. CallParts(r)'
    BY <2>2, <2>3 DEF CallParts, Answers, Stores, Removes, Rebuilds, durable
  <2>5. RevokedIsGone' /\ IngestedIsComplete' /\ Undeclared' /\ NavigationKnown'
    BY <2>3, NewAnswer DEF Results
  <2> QED
    BY <2>1, <2>4, <2>5, LayerParts
<1>2. ASSUME NEW d \in Docs, StartDelete(c, d) PROVE LayerInv'
  <2> PICK r : r = [Idle EXCEPT !.op = "delete", !.pc = "delrows", !.doc = d, !.man = manifest]
    OBVIOUS
  <2>1. \A e \in Clients : call'[e] = r
    BY <1>2, SoloUpdate DEF StartDelete
  <2>2. r.op = "delete" /\ r.pc = "delrows" /\ r.doc = d
    BY DEF Idle
  <2>3. /\ UNCHANGED durable /\ result' = [result EXCEPT ![d] = "pending"]
        /\ manifest.etags[d] # NoSum
    BY <1>2 DEF StartDelete
  <2>4. CallParts(r)'
    BY <2>2, <2>3 DEF CallParts, Answers, Stores, Removes, Rebuilds, durable, TypeOK
  <2>5. RevokedIsGone' /\ IngestedIsComplete' /\ Undeclared' /\ NavigationKnown'
    BY <2>3, NewAnswer DEF Results
  <2> QED
    BY <2>1, <2>4, <2>5, LayerParts
<1>3. ASSUME DeleteRows(c) PROVE LayerInv'
  <2> PICK r : r = [call[c] EXCEPT !.pc = "delstructure"]
    OBVIOUS
  <2>1. \A e \in Clients : call'[e] = r
    BY <1>3, SoloUpdate DEF DeleteRows, Goto
  <2>2. /\ r.op = "delete" /\ r.pc = "delstructure" /\ r.doc \in Docs /\ r.doc = call[c].doc
        /\ result[r.doc] = "pending" /\ manifest.etags[r.doc] # NoSum
    BY <1>3 DEF DeleteRows, At, Call, DeletePCs, Answers, Stores
  <2>3. /\ UNCHANGED <<manifest, blobs, images, structure, stamped, graph, dirty, wiki, result>>
        /\ rows' = {x \in rows : x.doc # r.doc}
    BY <1>3, <2>2 DEF DeleteRows
  <2>4. CallParts(r)'
    BY <2>2, <2>3 DEF CallParts, Answers, Stores, Removes, Rebuilds
  <2>5. RevokedIsGone'
    BY <2>3 DEF RevokedIsGone, Holdings
  <2>6. IngestedIsComplete'
    <3>1. \A e \in Docs : result[e] = "ingested" => e # r.doc
      BY <2>2
    <3>2. \A e \in Docs \ {r.doc}, s \in Checksums, u \in Slots :
             [doc |-> e, slot |-> u, sum |-> s] \in rows =>
                [doc |-> e, slot |-> u, sum |-> s] \in rows'
      BY <2>3
    <3>3. r.doc \in Docs /\ UNCHANGED <<manifest, blobs, structure, result>>
      BY <2>2, <2>3
    <3> QED
      BY <3>1, <3>2, <3>3, WholeKept
  <2>7. Undeclared' /\ NavigationKnown'
    <3>1. Known \subseteq Known'
      BY <2>2, <2>3 DEF Known
    <3> QED
      BY <2>3, <3>1 DEF Undeclared, NavigationKnown
  <2> QED
    BY <2>1, <2>4, <2>5, <2>6, <2>7, LayerParts
<1>4. ASSUME DeleteStructure(c) PROVE LayerInv'
  <2> PICK r : r = [call[c] EXCEPT !.pc = "delimages"]
    OBVIOUS
  <2>1. \A e \in Clients : call'[e] = r
    BY <1>4, SoloUpdate DEF DeleteStructure, Goto
  <2>2. /\ r.op = "delete" /\ r.pc = "delimages" /\ r.doc \in Docs /\ r.doc = call[c].doc
        /\ result[r.doc] = "pending" /\ manifest.etags[r.doc] # NoSum
    BY <1>4 DEF DeleteStructure, At, Call, DeletePCs, Answers, Stores
  <2>3. UNCHANGED <<manifest, blobs, images, rows, stamped, graph, dirty, wiki, result>>
    BY <1>4 DEF DeleteStructure
  <2>4. /\ structure'[r.doc] = NoSum
        /\ \A e \in Docs : \/ structure'[e] = structure[e]
                           \/ structure'[e] = NoSum /\ e \in IndexWithin[r.doc]
    BY <1>4, <2>2, WithinAssumption DEF DeleteStructure, TypeOK
  <2>5. CallParts(r)'
    BY <2>2, <2>3, <2>4 DEF CallParts, Answers, Stores, Removes, Rebuilds
  <2>6. RevokedIsGone'
    BY <2>2, <2>3, <2>4 DEF RevokedIsGone, Holdings
  <2>7. IngestedIsComplete'
    <3>1. \A e \in Docs : result[e] = "ingested" => structure'[e] = structure[e] \/ IndexTaken(e)'
      BY <2>2, <2>3, <2>4 DEF IndexTaken
    <3>2. \A e \in Docs : IndexTaken(e) => IndexTaken(e)'
      BY <2>3, <2>4 DEF IndexTaken
    <3> QED
      BY <2>3, <3>1, <3>2 DEF IngestedIsComplete, IndexTaken
  <2>8. Undeclared' /\ NavigationKnown'
    BY <2>3 DEF Undeclared, NavigationKnown, Known
  <2> QED
    BY <2>1, <2>5, <2>6, <2>7, <2>8, LayerParts
<1>5. ASSUME DeleteImages(c) PROVE LayerInv'
  <2> PICK held : held = Holdings(call[c].man, call[c].doc)
    OBVIOUS
  <2> PICK r : r = [call[c] EXCEPT !.pc = "sweep", !.todo = held]
    OBVIOUS
  <2>1. \A e \in Clients : call'[e] = r
    BY <1>5, SoloUpdate DEF DeleteImages
  <2>2. /\ r.op = "delete" /\ r.pc = "sweep" /\ r.doc \in Docs /\ r.doc = call[c].doc
        /\ result[r.doc] = "pending" /\ manifest.etags[r.doc] # NoSum
        /\ structure[r.doc] = NoSum
    BY <1>5 DEF DeleteImages, At, Call, DeletePCs, Answers, Stores, Removes
  <2>3. /\ UNCHANGED <<manifest, blobs, structure, rows, stamped, graph, dirty, wiki, result>>
        /\ images' \subseteq images /\ r.doc \notin images'
    BY <1>5, <2>2, WithinAssumption DEF DeleteImages
  <2>4. CallParts(r)'
    BY <2>2, <2>3 DEF CallParts, Answers, Stores, Removes, Rebuilds
  <2>5. RevokedIsGone' /\ IngestedIsComplete' /\ Undeclared' /\ NavigationKnown'
    BY <2>3 DEF RevokedIsGone, IngestedIsComplete, IndexTaken, Undeclared, NavigationKnown, Known,
       Holdings
  <2> QED
    BY <2>1, <2>4, <2>5, LayerParts
<1>6. ASSUME SweepRaw(c) PROVE LayerInv'
  <2> PICK s \in call[c].todo : ReclaimBlob(c, s)
    BY <1>6 DEF SweepRaw
  <2> PICK r : r = [call[c] EXCEPT !.todo = call[c].todo \ {s}]
    OBVIOUS
  <2>1. \A e \in Clients : call'[e] = r
    BY SoloUpdate DEF ReclaimBlob
  <2>2. /\ r.op = "delete" /\ r.pc = "sweep" /\ r.doc = call[c].doc /\ r.doc \in Docs
        /\ result[r.doc] = "pending" /\ manifest.etags[r.doc] # NoSum
        /\ structure[r.doc] = NoSum /\ r.doc \notin images
        /\ call[c].man = manifest
    <3>1. call[c].pc = "sweep"
      BY <1>6 DEF SweepRaw, At
    <3>2. r.op = call[c].op /\ r.pc = call[c].pc /\ r.doc = call[c].doc
      BY DEF Call
    <3> QED
      BY <3>1, <3>2 DEF DeletePCs, Answers, Stores, Removes, Relies
  <2>3. UNCHANGED <<manifest, images, structure, rows, stamped, graph, dirty, wiki, result>>
    BY <1>6 DEF SweepRaw
  <2>4. \A e \in Docs \ {r.doc} : manifest.etags[e] \in blobs => manifest.etags[e] \in blobs'
    BY <2>2 DEF ReclaimBlob, OwnersOf
  <2>5. CallParts(r)'
    BY <2>2, <2>3 DEF CallParts, Answers, Stores, Removes, Rebuilds
  <2>6. RevokedIsGone' /\ Undeclared' /\ NavigationKnown'
    BY <2>3 DEF RevokedIsGone, Undeclared, NavigationKnown, Known, Holdings
  <2>7. IngestedIsComplete'
    <3>1. \A e \in Docs : result[e] = "ingested" => e # r.doc
      BY <2>2
    <3> QED
      BY <2>3, <2>4, <3>1 DEF IngestedIsComplete, IndexTaken
  <2> QED
    BY <2>1, <2>5, <2>6, <2>7, LayerParts
<1>7. ASSUME EndSweep(c) PROVE LayerInv'
  <2> PICK r : r = [call[c] EXCEPT !.pc = IF HasGraph THEN "scan" ELSE "wiki"]
    OBVIOUS
  <2>1. \A e \in Clients : call'[e] = r
    BY <1>7, SoloUpdate DEF EndSweep, Goto
  <2>2. /\ r.op = "delete" /\ r.doc = call[c].doc /\ r.pc = (IF HasGraph THEN "scan" ELSE "wiki")
        /\ result[r.doc] = "pending" /\ manifest.etags[r.doc] # NoSum
        /\ structure[r.doc] = NoSum /\ r.doc \notin images
    BY <1>7 DEF EndSweep, At, Call, DeletePCs, Answers, Stores, Removes
  <2>3. UNCHANGED durable /\ UNCHANGED result
    BY <1>7 DEF EndSweep
  <2>4. CallParts(r)'
    BY <2>2, <2>3 DEF CallParts, Answers, Stores, Removes, Rebuilds, Undeclared, durable
  <2>5. RevokedIsGone' /\ IngestedIsComplete' /\ Undeclared' /\ NavigationKnown'
    BY <2>3 DEF RevokedIsGone, IngestedIsComplete, IndexTaken, Undeclared, NavigationKnown, Known,
       Holdings, durable
  <2> QED
    BY <2>1, <2>4, <2>5, LayerParts
<1>8. ASSUME ForgetDocument(c) PROVE LayerInv'
  <2> PICK d : d = call[c].doc
    OBVIOUS
  <2> PICK r : r = Idle
    OBVIOUS
  <2>1. \A e \in Clients : call'[e] = r
    BY <1>8, SoloUpdate DEF ForgetDocument, Return
  <2>2. /\ d \in Docs /\ result[d] = "pending" /\ call[c].man = manifest
        /\ structure[d] = NoSum /\ d \notin images /\ d \notin wiki
        /\ \A x \in rows \cup graph : x.doc # d
        /\ r.op = "none" /\ r.pc = "idle"
    BY <1>8 DEF ForgetDocument, At, DeletePCs, Answers, Removes, Relies, Idle
  <2>3. /\ UNCHANGED <<blobs, images, structure, rows, stamped, graph, dirty, wiki>>
        /\ result' = [result EXCEPT ![d] = "deleted"]
    BY <1>8 DEF ForgetDocument
  <2>4. /\ Holdings(manifest', d) = {}
        /\ \A e \in Docs \ {d} : /\ manifest'.etags[e] = manifest.etags[e]
                                 /\ Holdings(manifest', e) = Holdings(manifest, e)
    <3>1. manifest' = Forget(manifest, d)
      BY <1>8, <2>2 DEF ForgetDocument
    <3>2. Holdings(manifest', d) = {}
      BY <2>2, <3>1 DEF Forget, Manifest, Holdings, TypeOK
    <3>3. \A e \in Docs \ {d} : /\ manifest'.etags[e] = manifest.etags[e]
                                /\ Holdings(manifest', e) = Holdings(manifest, e)
      BY <2>2, <3>1, OpsAreLocal DEF TypeOK
    <3> QED
      BY <3>2, <3>3
  <2>5. CallParts(r)'
    BY <2>2 DEF CallParts, Answers, Stores, Removes, Rebuilds
  <2>6. \A e \in Docs : e # d => result'[e] = result[e]
    BY <2>3 DEF TypeOK
  <2>7. RevokedIsGone'
    BY <2>2, <2>3, <2>4, <2>6 DEF RevokedIsGone
  <2>8. IngestedIsComplete'
    <3>1. \A e \in Docs : result'[e] = "ingested" => e # d /\ result[e] = "ingested"
      BY <2>2, <2>3 DEF TypeOK
    <3> QED
      BY <2>3, <2>4, <3>1 DEF IngestedIsComplete, IndexTaken
  <2>9. Undeclared' /\ NavigationKnown'
    <3>1. Known \ {d} \subseteq Known'
      BY <2>3, <2>4 DEF Known
    <3> QED
      BY <2>2, <2>3, <3>1 DEF Undeclared, NavigationKnown
  <2> QED
    BY <2>1, <2>5, <2>7, <2>8, <2>9, LayerParts
<1> QED
  BY <1>1, <1>2, <1>3, <1>4, <1>5, <1>6, <1>7, <1>8 DEF Delete

LEMMA NavigateLayers ==
    ASSUME SoloClient, Inv, LayerInv, NEW c \in Clients, Navigate(c)
    PROVE  LayerInv'
<1>0. /\ Undeclared /\ RevokedIsGone /\ IngestedIsComplete /\ NavigationKnown
      /\ Answers(call[c]) /\ Stores(call[c]) /\ Removes(call[c]) /\ Rebuilds(call[c])
      /\ TypeInv /\ TypeOK /\ CallOK(call[c]) /\ Relies(call[c])
  BY CallLayers
<1> USE <1>0, CallFields
<1>1. ASSUME StartRefresh(c) PROVE LayerInv'
  <2> PICK r : r = [Idle EXCEPT !.op = "refresh", !.pc = IF HasGraph THEN "scan" ELSE "wiki"]
    OBVIOUS
  <2>1. \A e \in Clients : call'[e] = r
    BY <1>1, SoloUpdate DEF StartRefresh
  <2>2. r.op = "refresh" /\ r.pc = IF HasGraph THEN "scan" ELSE "wiki"
    BY DEF Idle
  <2>3. UNCHANGED durable /\ UNCHANGED result
    BY <1>1 DEF StartRefresh
  <2>4. CallParts(r)'
    BY <2>2, <2>3 DEF CallParts, Answers, Stores, Removes, Rebuilds
  <2>5. RevokedIsGone' /\ IngestedIsComplete' /\ Undeclared' /\ NavigationKnown'
    BY <2>3 DEF RevokedIsGone, IngestedIsComplete, IndexTaken, Undeclared, NavigationKnown, Known,
       Holdings, durable
  <2> QED
    BY <2>1, <2>4, <2>5, LayerParts
<1>2. ASSUME EnsureCurrent(c) PROVE LayerInv'
  <2> PICK r : r = [Idle EXCEPT !.op = "ask", !.pc = "scan"]
    OBVIOUS
  <2>1. \A e \in Clients : call'[e] = r
    BY <1>2, SoloUpdate DEF EnsureCurrent
  <2>2. r.op = "ask" /\ r.pc = "scan" /\ HasGraph
    BY <1>2 DEF Idle, EnsureCurrent
  <2>3. UNCHANGED durable /\ UNCHANGED result
    BY <1>2 DEF EnsureCurrent
  <2>4. CallParts(r)'
    BY <2>2, <2>3 DEF CallParts, Answers, Stores, Removes, Rebuilds
  <2>5. RevokedIsGone' /\ IngestedIsComplete' /\ Undeclared' /\ NavigationKnown'
    BY <2>3 DEF RevokedIsGone, IngestedIsComplete, IndexTaken, Undeclared, NavigationKnown, Known,
       Holdings, durable
  <2> QED
    BY <2>1, <2>4, <2>5, LayerParts
<1>3. ASSUME ScanRows(c) PROVE LayerInv'
  <2> PICK r : r = [call[c] EXCEPT !.pc = "save", !.snap = rows]
    OBVIOUS
  <2>1. \A e \in Clients : call'[e] = r
    BY <1>3, SoloUpdate DEF ScanRows
  <2>2. /\ r.op = call[c].op /\ r.doc = call[c].doc /\ r.pc = "save" /\ r.snap = rows
        /\ call[c].pc = "scan" /\ r.op # "ingest" /\ HasGraph
    <3>1. r.op = call[c].op /\ r.doc = call[c].doc /\ r.pc = "save" /\ r.snap = rows
      BY DEF Call
    <3> QED
      BY <1>3, <3>1 DEF ScanRows, At, Rebuilds, CallOK, GraphPCs
  <2>3. UNCHANGED durable /\ UNCHANGED result
    BY <1>3 DEF ScanRows
  <2>4. CallParts(r)'
    BY <2>2, <2>3 DEF CallParts, Answers, Stores, Removes, Rebuilds, durable
  <2>5. RevokedIsGone' /\ IngestedIsComplete' /\ Undeclared' /\ NavigationKnown'
    BY <2>3 DEF RevokedIsGone, IngestedIsComplete, IndexTaken, Undeclared, NavigationKnown, Known,
       Holdings, durable
  <2> QED
    BY <2>1, <2>4, <2>5, LayerParts
<1>4. ASSUME SaveGraph(c) PROVE LayerInv'
  <2> PICK r : r = [call[c] EXCEPT !.pc = "clean"]
    OBVIOUS
  <2>1. \A e \in Clients : call'[e] = r
    BY <1>4, SoloUpdate DEF SaveGraph, Goto
  <2>2. /\ r.op = call[c].op /\ r.doc = call[c].doc /\ r.pc = "clean"
        /\ call[c].pc = "save" /\ r.op # "ingest" /\ HasGraph
    BY <1>4 DEF SaveGraph, At, Call, CallOK, GraphPCs, Rebuilds
  <2>3. /\ UNCHANGED <<manifest, blobs, images, structure, rows, stamped, dirty, wiki, result>>
        /\ graph' = rows
    BY <1>4, <2>2 DEF SaveGraph, Rebuilds
  <2>4. CallParts(r)'
    BY <2>2, <2>3 DEF CallParts, Answers, Stores, Removes, Rebuilds, Relies
  <2>5. RevokedIsGone' /\ IngestedIsComplete' /\ Undeclared' /\ NavigationKnown'
    BY <2>2, <2>3 DEF RevokedIsGone, IngestedIsComplete, IndexTaken, Undeclared, NavigationKnown,
       Known,
       Holdings
  <2> QED
    BY <2>1, <2>4, <2>5, LayerParts
<1>5. ASSUME MarkClean(c) PROVE LayerInv'
  <2>1. UNCHANGED <<manifest, blobs, images, structure, rows, stamped, graph, wiki, result>>
    BY <1>5 DEF MarkClean
  <2>2. RevokedIsGone' /\ IngestedIsComplete' /\ Undeclared' /\ NavigationKnown'
    BY <2>1 DEF RevokedIsGone, IngestedIsComplete, IndexTaken, Undeclared, NavigationKnown, Known,
       Holdings
  <2>3. CASE call[c].op = "ask"
    <3>1. \A e \in Clients : call'[e] = Idle
      BY <1>5, <2>3, SoloUpdate DEF MarkClean, Return
    <3> PICK r : r = Idle
      OBVIOUS
    <3>2. CallParts(r)'
      BY DEF CallParts, Answers, Stores, Removes, Rebuilds, Idle
    <3> QED
      BY <2>2, <3>1, <3>2, LayerParts
  <2>4. CASE call[c].op # "ask"
    <3> PICK r : r = [call[c] EXCEPT !.pc = "wiki"]
      OBVIOUS
    <3>1. \A e \in Clients : call'[e] = r
      BY <1>5, <2>4, SoloUpdate DEF MarkClean, Goto
    <3>2. /\ r.op = call[c].op /\ r.doc = call[c].doc /\ r.pc = "wiki"
          /\ call[c].pc = "clean" /\ r.op # "ingest"
      BY <1>5 DEF MarkClean, At, Call, CallOK, GraphPCs
    <3>3. CallParts(r)'
      BY <2>1, <3>2 DEF CallParts, Answers, Stores, Removes, Rebuilds
    <3> QED
      BY <2>2, <3>1, <3>3, LayerParts
  <2> QED
    BY <2>3, <2>4
<1>6. ASSUME UpdateWiki(c) PROVE LayerInv'
  <2>1. /\ UNCHANGED <<manifest, blobs, images, structure, rows, stamped, graph, dirty, result>>
        /\ wiki' \subseteq wiki \cup {x.doc : x \in rows}
        /\ "wiki" \notin Signals => wiki' = wiki
    BY <1>6 DEF UpdateWiki
  <2>2. RevokedIsGone' /\ IngestedIsComplete' /\ Undeclared' /\ NavigationKnown'
    BY <2>1 DEF RevokedIsGone, IngestedIsComplete, IndexTaken, Undeclared, NavigationKnown, Known,
       Holdings
  <2>3. CASE call[c].op # "delete"
    <3>1. \A e \in Clients : call'[e] = Idle
      BY <1>6, <2>3, SoloUpdate DEF UpdateWiki, Return
    <3> PICK r : r = Idle
      OBVIOUS
    <3>2. CallParts(r)'
      BY DEF CallParts, Answers, Stores, Removes, Rebuilds, Idle
    <3> QED
      BY <2>2, <3>1, <3>2, LayerParts
  <2>4. CASE call[c].op = "delete"
    <3> PICK r : r = [call[c] EXCEPT !.pc = "forget"]
      OBVIOUS
    <3>1. \A e \in Clients : call'[e] = r
      BY <1>6, <2>4, SoloUpdate DEF UpdateWiki, Goto
    <3>2. r.op = "delete" /\ r.doc = call[c].doc /\ r.pc = "forget" /\ call[c].pc = "wiki"
      BY <1>6, <2>4 DEF UpdateWiki, At, Call
    <3>3. r.doc \notin wiki'
      BY <1>6, <2>4, <3>2 DEF UpdateWiki, Undeclared
    <3>4. CallParts(r)'
      BY <2>1, <2>4, <3>2, <3>3 DEF CallParts, Answers, Stores, Removes, Rebuilds
    <3> QED
      BY <2>2, <3>1, <3>4, LayerParts
  <2> QED
    BY <2>3, <2>4
<1> QED
  BY <1>1, <1>2, <1>3, <1>4, <1>5, <1>6 DEF Navigate

LEMMA LayerInit == Init => LayerInv
<1> SUFFICES ASSUME Init PROVE LayerInv
  OBVIOUS
<1>1. \A c \in Clients : call[c].op = "none" /\ call[c].pc = "idle"
  BY DEF Init, Idle
<1> QED
  BY <1>1 DEF Init, LayerInv, Undeclared, RevokedIsGone, IngestedIsComplete, IndexTaken,
     NavigationKnown,
     Known, Answers, Stores, Removes, Rebuilds

LEMMA LayerStep == SoloClient /\ Inv /\ LayerInv /\ [Next]_vars => LayerInv'
<1> SUFFICES ASSUME SoloClient, Inv, LayerInv, [Next]_vars PROVE LayerInv'
  OBVIOUS
<1>1. CASE UNCHANGED vars
  BY <1>1 DEF vars, LayerInv, Undeclared, RevokedIsGone, IngestedIsComplete, IndexTaken,
     NavigationKnown,
     Known, Answers, Stores, Removes, Rebuilds, Holdings
<1>2. ASSUME NEW c \in Clients, Crash(c) PROVE LayerInv'
  <2>1. \A e \in Clients : call'[e] = Idle
    BY <1>2, SoloUpdate DEF Crash, Return, Inv
  <2>2. UNCHANGED durable /\ UNCHANGED result
    BY <1>2 DEF Crash
  <2> PICK r : r = Idle
    OBVIOUS
  <2>3. CallParts(r)'
    BY DEF CallParts, Answers, Stores, Removes, Rebuilds, Idle
  <2>4. RevokedIsGone' /\ IngestedIsComplete' /\ Undeclared' /\ NavigationKnown'
    BY <2>2 DEF LayerInv, RevokedIsGone, IngestedIsComplete, IndexTaken, Undeclared,
       NavigationKnown, Known,
       Holdings, durable
  <2> QED
    BY <2>1, <2>3, <2>4, LayerParts
<1> QED
  BY <1>1, <1>2, IngestLayers, DeleteLayers, NavigateLayers DEF Next

LEMMA Layered == ASSUME SoloClient PROVE Spec => [](Inv /\ LayerInv)
BY Invariance, LayerInit, LayerStep, PTL DEF Spec

\* CiteNexus.delete: "deleted" means gone from rows, structure, images, graph, wiki and
\* manifest, whichever signals are declared and however earlier calls were cut short.
THEOREM Revoked == ASSUME SoloClient PROVE Spec => []RevokedIsGone
<1>1. LayerInv => RevokedIsGone
  BY DEF LayerInv
<1> QED
  BY <1>1, Layered, PTL

\* CiteNexus.ingest: "ingested" means bytes, rows and entry are all there, and the
\* index but where another document's revoke may have taken it with its own.
THEOREM Complete == ASSUME SoloClient PROVE Spec => []IngestedIsComplete
<1>1. LayerInv => IngestedIsComplete
  BY DEF LayerInv
<1> QED
  BY <1>1, Layered, PTL

\* Graph and wiki name only documents the index still knows.
THEOREM NavigationStaysKnown == ASSUME SoloClient PROVE Spec => []NavigationKnown
<1>1. LayerInv => NavigationKnown
  BY DEF LayerInv
<1> QED
  BY <1>1, Layered, PTL

\* Only a rebuild that has saved the rows there are takes the dirty marker down.
LEMMA CleanStep ==
    ASSUME Inv, LayerInv, [Next]_vars, dirty, ~dirty'
    PROVE  graph = rows
<1>1. ASSUME NEW c \in Clients, MarkClean(c) PROVE graph = rows
  BY <1>1 DEF MarkClean, At, LayerInv, Rebuilds
<1>2. ~UNCHANGED dirty
  OBVIOUS
<1>3. ASSUME NEW c \in Clients, Ingest(c) PROVE FALSE
  BY <1>3 DEF Ingest, LoadManifest, SkipUnchanged, PersistImages, PutRaw, PutStructure,
     UpsertRows, RecordManifest, StampTokenizer, PurgeRetired, ClearRetired, MarkDirty,
     IntegratePage, durable, Inv, TypeInv, TypeOK
<1>4. ASSUME NEW c \in Clients, Delete(c) PROVE FALSE
  BY <1>2, <1>4 DEF Delete, DeleteAbsent, StartDelete, DeleteRows, DeleteStructure, DeleteImages,
     SweepRaw, EndSweep, ForgetDocument, durable
<1>5. ASSUME NEW c \in Clients, Navigate(c) PROVE MarkClean(c)
  BY <1>2, <1>5 DEF Navigate, StartRefresh, EnsureCurrent, ScanRows, SaveGraph, UpdateWiki, durable
<1>6. ASSUME NEW c \in Clients, Crash(c) PROVE FALSE
  BY <1>2, <1>6 DEF Crash, durable
<1> QED
  BY <1>1, <1>2, <1>3, <1>4, <1>5, <1>6 DEF Next, vars

\* GraphStore: the marker falls only over a graph built from the rows the store holds.
THEOREM CleanMeansCurrent == ASSUME SoloClient PROVE Spec => CleanedWhenCurrent
<1>1. Inv /\ LayerInv /\ [Next]_vars => [dirty /\ ~dirty' => graph = rows]_vars
  BY CleanStep
<1> QED
  BY <1>1, Layered, PTL DEF Spec, CleanedWhenCurrent

-----------------------------------------------------------------------------
(* Reconcile implements Corpus *)

\* What a desk holds is what it was given: a scan has its corpus manifest, a
\* remediation has its report.
DeskOK == /\ desk \in [Clients -> Desk]
          /\ report \in Report \cup {NoReport}
          /\ \A c \in Clients : desk[c].pc = "scan" => desk[c].agreed \in Agreed

\* Whatever a desk does, the partition takes a step of Corpus or none.
LEMMA DeskStep == DeskOK /\ [ReconcileNext]_rvars => [Next]_vars
<1> SUFFICES ASSUME DeskOK, [ReconcileNext]_rvars PROVE [Next]_vars
  OBVIOUS
<1>1. CASE UNCHANGED rvars
  BY <1>1 DEF rvars, vars
<1>2. ASSUME NEW c \in Clients, Work(c) PROVE [Next]_vars
  BY <1>2 DEF Work, Next
<1>3. ASSUME NEW c \in Clients, Die(c) PROVE [Next]_vars
  BY <1>3 DEF Die, Next
<1>4. ASSUME NEW c \in Clients, RevokeOrphan(c) PROVE [Next]_vars
  <2>1. desk[c].todo \subseteq Docs
    BY DEF DeskOK, Desk
  <2> QED
    BY <1>4, <2>1 DEF RevokeOrphan, Delete, Next
<1>5. ASSUME NEW c \in Clients, ScanAndReport(c) \/ Remediate(c) \/ EndRemediate(c)
               \/ \E agreed \in Agreed : LoadEntries(c, agreed)
      PROVE  [Next]_vars
  BY <1>5 DEF ScanAndReport, Remediate, EndRemediate, LoadEntries
<1> QED
  BY <1>1, <1>2, <1>3, <1>4, <1>5 DEF ReconcileNext

LEMMA FreeType == Free \in Desk
BY EmptyIsManifest DEF Free, Desk

\* A diff of a corpus manifest and an index of the partition is a report.
LEMMA DiffType ==
    ASSUME TypeOK, NEW m \in Manifest, NEW agreed \in Agreed, NEW index \in EnumerateIndex(m)
    PROVE  Diff(agreed, index) \in Report
<1>1. DOMAIN index \subseteq Docs /\ \A d \in DOMAIN index : index[d] \in Checksums
  BY DEF EnumerateIndex
<1> PICK orphans : orphans = {d \in DOMAIN index : agreed.versions[d] = {}}
  OBVIOUS
<1> PICK drifted : drifted = {[doc |-> d, sum |-> index[d],
                               superseded |-> index[d] \in agreed.versions[d]] :
                                d \in {e \in DOMAIN index : /\ agreed.versions[e] # {}
                                                            /\ agreed.current[e] # index[e]}}
  OBVIOUS
<1> PICK missing : missing = {d \in Docs \ DOMAIN index : agreed.current[d] # NoSum}
  OBVIOUS
<1>2. orphans \in SUBSET Docs /\ missing \in SUBSET Docs
  BY <1>1
<1>3. drifted \in SUBSET [doc : Docs, sum : Checksums, superseded : BOOLEAN]
  <2> SUFFICES ASSUME NEW d \in DOMAIN index
               PROVE  [doc |-> d, sum |-> index[d], superseded |-> index[d] \in agreed.versions[d]]
                        \in [doc : Docs, sum : Checksums, superseded : BOOLEAN]
    OBVIOUS
  <2>1. (index[d] \in agreed.versions[d]) \in BOOLEAN
    OBVIOUS
  <2> QED
    BY <1>1, <2>1
<1>4. Diff(agreed, index) = [agreed |-> agreed, orphans |-> orphans, drifted |-> drifted,
                             missing |-> missing]
  BY DEF Diff
<1> QED
  BY <1>2, <1>3, <1>4 DEF Report

LEMMA DeskInit == ReconcileInit => Init /\ DeskOK
BY FreeType DEF ReconcileInit, DeskOK, Free

LEMMA DeskType == TypeOK /\ DeskOK /\ [ReconcileNext]_rvars => DeskOK'
<1> SUFFICES ASSUME TypeOK, DeskOK, [ReconcileNext]_rvars PROVE DeskOK'
  OBVIOUS
<1>1. CASE UNCHANGED <<desk, report>>
  BY <1>1 DEF DeskOK
<1>2. ASSUME NEW c \in Clients, desk' = [desk EXCEPT ![c] = Free],
             report' \in Report \cup {NoReport}
      PROVE  DeskOK'
  BY <1>2, FreeType DEF DeskOK, Free
<1>3. ASSUME NEW c \in Clients, ScanAndReport(c) PROVE DeskOK'
  <2> PICK index \in EnumerateIndex(desk[c].man) : report' = Diff(desk[c].agreed, index)
    BY <1>3 DEF ScanAndReport
  <2>1. report' \in Report
    BY <1>3, DiffType DEF ScanAndReport, DeskOK, Desk
  <2> QED
    BY <1>2, <1>3, <2>1 DEF ScanAndReport
<1>4. ASSUME NEW c \in Clients, NEW agreed \in Agreed, LoadEntries(c, agreed) PROVE DeskOK'
  BY <1>4 DEF LoadEntries, DeskOK, Desk, TypeOK
<1>5. ASSUME NEW c \in Clients, Remediate(c) PROVE DeskOK'
  BY <1>5 DEF Remediate, DeskOK, Desk, Report
<1>6. ASSUME NEW c \in Clients, RevokeOrphan(c) PROVE DeskOK'
  BY <1>6 DEF RevokeOrphan, DeskOK, Desk
<1>7. ASSUME NEW c \in Clients, Work(c) PROVE DeskOK'
  BY <1>1, <1>7 DEF Work
<1>8. ASSUME NEW c \in Clients, Die(c) \/ EndRemediate(c) PROVE DeskOK'
  BY <1>2, <1>8 DEF Die, EndRemediate, DeskOK
<1> QED
  BY <1>1, <1>3, <1>4, <1>5, <1>6, <1>7, <1>8 DEF ReconcileNext, rvars

\* The types of Reconcile, for any clients, documents and corpus manifests.
LEMMA ReconcileTyped == ReconcileSpec => [](TypeInv /\ DeskOK)
<1>1. ReconcileInit => TypeInv /\ DeskOK
  BY DeskInit, InitType
<1>2. TypeInv /\ DeskOK /\ [ReconcileNext]_rvars => (TypeInv /\ DeskOK)'
  BY DeskStep, StepType, DeskType DEF TypeInv
<1> QED
  BY <1>1, <1>2, PTL DEF ReconcileSpec

THEOREM ReconcileTypeCorrect == ReconcileSpec => []ReconcileTypeOK
<1>1. TypeInv /\ DeskOK => ReconcileTypeOK
  BY DEF TypeInv, DeskOK, ReconcileTypeOK
<1> QED
  BY <1>1, ReconcileTyped, PTL

\* Reconciling and remediating adds no behaviour to the partition: each of its
\* steps is a step of an ordinary client, so that what is proved of Corpus holds
\* of it too.
THEOREM ReconcileImplementsCorpus == ReconcileSpec => Spec
<1>1. ReconcileInit => Init
  BY DEF ReconcileInit
<1> QED
  BY <1>1, DeskStep, ReconcileTyped, PTL DEF ReconcileSpec, Spec

-----------------------------------------------------------------------------
(* One client per partition: remediation *)

\* No entry, no history: a document the manifest does not map holds nothing.
NoHistoryAlone == \A d \in Docs : manifest.etags[d] = NoSum => manifest.superseded[d] = {}

\* A client that is idle is about no document.
IdleIsFree == \A c \in Clients : At(c, "idle") => call[c] = Idle

\* A scan reads what its manifest was loaded with, since nobody wrote in between.
ScanIsFresh == \A c \in Clients : desk[c].pc = "scan" => At(c, "idle") /\ desk[c].man = manifest

\* While it remediates a client is idle or revokes an orphan of the report; the
\* orphans it is done with hold nothing, but for the one it is revoking.
Revoking(c, d) == call[c].op = "delete" /\ call[c].doc = d

Progress(c) ==
    /\ report \in Report
    /\ desk[c].todo \subseteq report.orphans
    /\ At(c, "idle") \/ \E d \in report.orphans : Revoking(c, d)
    /\ \A d \in report.orphans \ desk[c].todo : Holdings(manifest, d) = {} \/ Revoking(c, d)

DeskInv == /\ NoHistoryAlone
           /\ IdleIsFree
           /\ ScanIsFresh
           /\ \A c \in Clients : desk[c].pc = "remediate" => Progress(c)

LEMMA HistoryStep ==
    ASSUME SoloClient, Inv, NoHistoryAlone, [Next]_vars
    PROVE  NoHistoryAlone'
<1> USE CallFields DEF Inv
<1>1. CASE manifest' = manifest
  BY <1>1 DEF NoHistoryAlone
<1>2. ASSUME NEW c \in Clients, RecordManifest(c) PROVE NoHistoryAlone'
  <2>1. /\ call[c].man = manifest /\ call[c].sum \in Checksums /\ call[c].doc \in Docs
        /\ manifest' = Record(call[c].man, call[c].doc, call[c].sum)
    BY <1>2 DEF RecordManifest, At, IngestPCs, SoloInv, Relies
  <2> QED
    BY <2>1, NoSumAssumption DEF NoHistoryAlone, Record, Manifest
<1>3. ASSUME NEW c \in Clients, ClearRetired(c) PROVE NoHistoryAlone'
  <2>1. /\ call[c].man = manifest /\ call[c].doc \in Docs
        /\ manifest' = ClearSuperseded(call[c].man, call[c].doc)
    BY <1>3 DEF ClearRetired, At, IngestPCs, SoloInv, Relies
  <2> QED
    BY <2>1 DEF NoHistoryAlone, ClearSuperseded, Manifest
<1>4. ASSUME NEW c \in Clients, ForgetDocument(c) PROVE NoHistoryAlone'
  <2>1. /\ call[c].man = manifest /\ call[c].doc \in Docs
        /\ manifest' = Forget(call[c].man, call[c].doc)
    BY <1>4 DEF ForgetDocument, At, DeletePCs, SoloInv, Relies
  <2> QED
    BY <2>1 DEF NoHistoryAlone, Forget, Manifest
<1>5. ASSUME NEW c \in Clients, Crash(c) PROVE manifest' = manifest
  BY <1>5 DEF Crash, durable
<1> QED
  BY <1>1, <1>2, <1>3, <1>4, <1>5, IngestQuiet, DeleteQuiet, NavigateQuiet DEF Next, Quiet, vars

\* A call that moved on is at work, or has returned.
LEMMA IdleUpdate ==
    ASSUME TypeInv, IdleIsFree, NEW c \in Clients, NEW r, call' = [call EXCEPT ![c] = r],
           r.pc = "idle" => r = Idle
    PROVE  IdleIsFree'
BY DEF TypeInv, TypeOK, IdleIsFree, At

LEMMA IdleGoto ==
    ASSUME TypeInv, IdleIsFree, NEW c \in Clients, NEW pc, Goto(c, pc), pc # "idle"
    PROVE  IdleIsFree'
<1>1. [call[c] EXCEPT !.pc = pc].pc # "idle"
  BY CallFields DEF Call
<1> QED
  BY <1>1, IdleUpdate DEF Goto

LEMMA IdleReturn ==
    ASSUME TypeInv, IdleIsFree, NEW c \in Clients, Return(c)
    PROVE  IdleIsFree'
BY IdleUpdate DEF Return

LEMMA IdleReclaim ==
    ASSUME TypeInv, IdleIsFree, NEW c \in Clients, NEW s, ReclaimBlob(c, s), ~At(c, "idle")
    PROVE  IdleIsFree'
<1>1. [call[c] EXCEPT !.todo = call[c].todo \ {s}].pc # "idle"
  BY CallFields DEF Call, At
<1> QED
  BY <1>1, IdleUpdate DEF ReclaimBlob

LEMMA IdleStep ==
    ASSUME TypeInv, IdleIsFree, [Next]_vars
    PROVE  IdleIsFree'
<1>1. ASSUME UNCHANGED call PROVE IdleIsFree'
  BY <1>1 DEF IdleIsFree, At
<1>2. ASSUME NEW c \in Clients, Ingest(c) PROVE IdleIsFree'
  <2>1. ASSUME NEW d \in Docs, NEW s \in Checksums, LoadManifest(c, d, s) PROVE IdleIsFree'
    <3>1. [Idle EXCEPT !.op = "ingest", !.pc = "images", !.doc = d, !.sum = s,
                       !.man = manifest].pc = "images"
      BY DEF Idle
    <3> QED
      BY <2>1, <3>1, IdleUpdate DEF LoadManifest
  <2>2. ASSUME RecordManifest(c) PROVE IdleIsFree'
    <3> PICK r : r = [call[c] EXCEPT !.pc = "stamp",
                          !.man = Record(call[c].man, call[c].doc, call[c].sum)]
      OBVIOUS
    <3>1. r.pc = "stamp"
      BY CallFields DEF Call
    <3> QED
      BY <2>2, <3>1, IdleUpdate DEF RecordManifest
  <2>3. ASSUME StampTokenizer(c) PROVE IdleIsFree'
    <3> PICK r : r = [call[c] EXCEPT !.pc = "purge",
                          !.todo = call[c].man.superseded[call[c].doc]]
      OBVIOUS
    <3>1. r.pc = "purge"
      BY CallFields DEF Call
    <3> QED
      BY <2>3, <3>1, IdleUpdate, IdleGoto DEF StampTokenizer
  <2>4. ASSUME ClearRetired(c) PROVE IdleIsFree'
    <3> PICK r : r = [call[c] EXCEPT !.pc = "ingested",
                          !.man = ClearSuperseded(call[c].man, call[c].doc)]
      OBVIOUS
    <3>1. r.pc = "ingested"
      BY CallFields DEF Call
    <3> QED
      BY <2>4, <3>1, IdleUpdate DEF ClearRetired
  <2>5. ASSUME PurgeRetired(c) PROVE IdleIsFree'
    BY <2>5, IdleReclaim DEF PurgeRetired, At
  <2> QED
    BY <1>1, <1>2, <2>1, <2>2, <2>3, <2>4, <2>5, IdleGoto, IdleReturn DEF Ingest,
       SkipUnchanged, PersistImages, PutRaw, PutStructure, UpsertRows, MarkDirty, IntegratePage
<1>3. ASSUME NEW c \in Clients, Delete(c) PROVE IdleIsFree'
  <2>1. ASSUME NEW d \in Docs, StartDelete(c, d) PROVE IdleIsFree'
    <3>1. [Idle EXCEPT !.op = "delete", !.pc = "delrows", !.doc = d, !.man = manifest].pc
            = "delrows"
      BY DEF Idle
    <3> QED
      BY <2>1, <3>1, IdleUpdate DEF StartDelete
  <2>2. ASSUME DeleteImages(c) PROVE IdleIsFree'
    <3> PICK r : r = [call[c] EXCEPT !.pc = "sweep",
                          !.todo = Holdings(call[c].man, call[c].doc)]
      OBVIOUS
    <3>1. r.pc = "sweep"
      BY CallFields DEF Call
    <3> QED
      BY <2>2, <3>1, IdleUpdate DEF DeleteImages
  <2>3. ASSUME SweepRaw(c) PROVE IdleIsFree'
    BY <2>3, IdleReclaim DEF SweepRaw, At
  <2>4. ASSUME EndSweep(c) PROVE IdleIsFree'
    BY <2>4, IdleGoto DEF EndSweep
  <2> QED
    BY <1>1, <1>3, <2>1, <2>2, <2>3, <2>4, IdleGoto, IdleReturn DEF Delete, DeleteAbsent,
       DeleteRows, DeleteStructure, ForgetDocument
<1>4. ASSUME NEW c \in Clients, Navigate(c) PROVE IdleIsFree'
  <2>1. ASSUME StartRefresh(c) \/ EnsureCurrent(c) PROVE IdleIsFree'
    <3>1. /\ [Idle EXCEPT !.op = "refresh", !.pc = IF HasGraph THEN "scan" ELSE "wiki"].pc
               # "idle"
          /\ [Idle EXCEPT !.op = "ask", !.pc = "scan"].pc = "scan"
      BY DEF Idle
    <3> QED
      BY <2>1, <3>1, IdleUpdate DEF StartRefresh, EnsureCurrent
  <2>2. ASSUME ScanRows(c) PROVE IdleIsFree'
    <3> PICK r : r = [call[c] EXCEPT !.pc = "save", !.snap = rows]
      OBVIOUS
    <3>1. r.pc = "save"
      BY CallFields DEF Call
    <3> QED
      BY <2>2, <3>1, IdleUpdate DEF ScanRows
  <2> QED
    BY <1>4, <2>1, <2>2, IdleGoto, IdleReturn DEF Navigate, SaveGraph, MarkClean, UpdateWiki
<1>5. ASSUME NEW c \in Clients, Crash(c) PROVE IdleIsFree'
  BY <1>5, IdleReturn DEF Crash
<1> QED
  BY <1>1, <1>2, <1>3, <1>4, <1>5 DEF Next, vars

\* A revoke goes on about its document until it forgets it.
LEMMA RevokeGoesOn ==
    ASSUME SoloClient, Inv, NEW c \in Clients, call[c].op = "delete", Delete(c) \/ Navigate(c)
    PROVE  \/ ForgetDocument(c)
           \/ /\ manifest' = manifest
              /\ call'[c].op = "delete" /\ call'[c].doc = call[c].doc
<1>1. call[c].pc \notin IngestPCs \cup {"idle"} /\ TypeInv /\ TypeOK
  BY DEF Inv, TypeInv, PcOK, CallOK
<1> USE <1>1, CallFields DEF Call
<1>2. ASSUME NEW pc, Goto(c, pc) PROVE call'[c].op = "delete" /\ call'[c].doc = call[c].doc
  BY <1>2 DEF Goto, TypeOK
<1>3. ASSUME NEW s, ReclaimBlob(c, s) PROVE call'[c].op = "delete" /\ call'[c].doc = call[c].doc
  BY <1>3 DEF ReclaimBlob, TypeOK
<1>4. ASSUME DeleteImages(c) \/ ScanRows(c)
      PROVE  call'[c].op = "delete" /\ call'[c].doc = call[c].doc
  <2> PICK r \in {[call[c] EXCEPT !.pc = "sweep", !.todo = Holdings(call[c].man, call[c].doc)],
                  [call[c] EXCEPT !.pc = "save", !.snap = rows]} :
                call' = [call EXCEPT ![c] = r]
    BY <1>4 DEF DeleteImages, ScanRows
  <2>1. r.op = call[c].op /\ r.doc = call[c].doc
    OBVIOUS
  <2> QED
    BY <2>1 DEF TypeOK
<1>5. ASSUME Delete(c) PROVE ForgetDocument(c) \/ (manifest' = manifest /\ call'[c].op = "delete"
                                                     /\ call'[c].doc = call[c].doc)
  BY <1>2, <1>3, <1>4, <1>5 DEF Delete, DeleteAbsent, StartDelete, DeleteRows, DeleteStructure,
     DeleteImages, SweepRaw, EndSweep, At, durable
<1>6. ASSUME Navigate(c) PROVE manifest' = manifest /\ call'[c].op = "delete"
                                                     /\ call'[c].doc = call[c].doc
  BY <1>2, <1>4, <1>6 DEF Navigate, StartRefresh, EnsureCurrent, ScanRows, SaveGraph, MarkClean,
     UpdateWiki, At, durable, IngestPCs
<1> QED
  BY <1>5, <1>6

LEMMA DeskInvInit == ReconcileInit => DeskInv
BY DEF ReconcileInit, Init, EmptyManifest, DeskInv, NoHistoryAlone, IdleIsFree, ScanIsFresh, At,
   Free

LEMMA DeskInvStep ==
    SoloClient /\ Inv /\ DeskOK /\ DeskInv /\ [ReconcileNext]_rvars => DeskInv'
<1> SUFFICES ASSUME SoloClient, Inv, DeskOK, DeskInv, [ReconcileNext]_rvars
             PROVE  DeskInv'
  OBVIOUS
<1>1. NoHistoryAlone' /\ IdleIsFree'
  BY DeskStep, HistoryStep, IdleStep DEF DeskInv, Inv
<1>2. \A c \in Clients : desk[c] \in Desk /\ (desk[c].pc = "remediate" => Progress(c))
  BY DEF DeskOK, DeskInv
<1>3. ASSUME NEW c \in Clients, desk'[c].pc = "idle" PROVE DeskInv'
  BY <1>1, <1>3 DEF DeskInv, ScanIsFresh, SoloClient
<1>4. ASSUME NEW c \in Clients, desk'[c].pc = "remediate", Progress(c)' PROVE DeskInv'
  BY <1>1, <1>4 DEF DeskInv, ScanIsFresh, SoloClient
<1>5. CASE UNCHANGED rvars
  BY <1>5 DEF rvars, DeskInv, NoHistoryAlone, IdleIsFree, ScanIsFresh, Progress, Revoking, At
<1>6. ASSUME NEW c \in Clients, Work(c) PROVE DeskInv'
  <2>1. UNCHANGED <<desk, report>>
    BY <1>6 DEF Work
  <2>2. CASE desk[c].pc = "idle"
    BY <1>3, <2>1, <2>2
  <2>3. CASE desk[c].pc # "idle"
    <3>1. /\ desk[c].pc = "remediate" /\ Progress(c) /\ ~At(c, "idle")
          /\ Delete(c) \/ Navigate(c)
      BY <1>2, <1>6, <2>3 DEF Work
    <3> PICK d \in report.orphans : Revoking(c, d)
      BY <3>1 DEF Progress
    <3>2. CASE ForgetDocument(c)
      <4>1. /\ manifest' = Forget(manifest, d) /\ d \in Docs /\ manifest \in Manifest
            /\ call' = [call EXCEPT ![c] = Idle] /\ call'[c] = Idle
        BY <3>1, <3>2, CallFields DEF ForgetDocument, Revoking, Return, Inv, SoloInv, Relies,
           TypeInv, TypeOK
      <4>2. /\ Holdings(manifest', d) = {}
            /\ \A e \in Docs \ {d} : Holdings(manifest', e) = Holdings(manifest, e)
        <5>1. Holdings(manifest', d) = {}
          BY <4>1 DEF Forget, Manifest, Holdings
        <5> QED
          BY <4>1, <5>1, OpsAreLocal
      <4>3. report.orphans \subseteq Docs
        BY <3>1 DEF Progress, Report
      <4>4. Progress(c)'
        BY <2>1, <3>1, <4>1, <4>2, <4>3 DEF Progress, Revoking, At, Idle
      <4> QED
        BY <1>4, <2>1, <3>1, <4>4
    <3>3. CASE manifest' = manifest /\ call'[c].op = "delete" /\ call'[c].doc = d
      <4>1. Progress(c)'
        BY <2>1, <3>1, <3>3 DEF Progress, Revoking
      <4> QED
        BY <1>4, <2>1, <3>1, <4>1
    <3> QED
      BY <3>1, <3>2, <3>3, RevokeGoesOn DEF Revoking
  <2> QED
    BY <2>2, <2>3
<1>7. ASSUME NEW c \in Clients, Die(c) \/ EndRemediate(c) \/ ScanAndReport(c) PROVE DeskInv'
  <2>1. desk'[c].pc = "idle"
    BY <1>7 DEF Die, EndRemediate, ScanAndReport, DeskOK, Free
  <2> QED
    BY <1>3, <2>1
<1>8. ASSUME NEW c \in Clients, NEW agreed \in Agreed, LoadEntries(c, agreed) PROVE DeskInv'
  <2>1. /\ desk'[c].pc = "scan" /\ desk'[c].man = manifest /\ At(c, "idle")
        /\ UNCHANGED <<manifest, call>>
    BY <1>2, <1>8 DEF LoadEntries, DeskOK, Desk, vars
  <2> QED
    BY <1>1, <2>1 DEF DeskInv, ScanIsFresh, SoloClient, At
<1>9. ASSUME NEW c \in Clients, Remediate(c) PROVE DeskInv'
  <2>1. /\ desk'[c].pc = "remediate" /\ desk'[c].todo = report.orphans /\ At(c, "idle")
        /\ report \in Report /\ UNCHANGED <<manifest, call, report>>
    BY <1>2, <1>9 DEF Remediate, DeskOK, Desk, vars
  <2>2. Progress(c)'
    BY <2>1 DEF Progress, At
  <2> QED
    BY <1>4, <2>1, <2>2
<1>10. ASSUME NEW c \in Clients, RevokeOrphan(c) PROVE DeskInv'
  <2> PICK d \in desk[c].todo : /\ StartDelete(c, d) \/ DeleteAbsent(c, d)
                                /\ desk' = [desk EXCEPT ![c].todo = @ \ {d}]
    BY <1>10 DEF RevokeOrphan
  <2>1. /\ desk[c].pc = "remediate" /\ Progress(c) /\ report' = report /\ manifest' = manifest
        /\ At(c, "idle") /\ d \in report.orphans /\ d \in Docs
    BY <1>2, <1>10 DEF RevokeOrphan, StartDelete, DeleteAbsent, durable, Progress, Report
  <2>2. desk'[c].pc = "remediate" /\ desk'[c].todo = desk[c].todo \ {d}
    BY <1>2, <2>1 DEF DeskOK, Desk
  <2>3. \A e : ~Revoking(c, e)
    BY <2>1 DEF Inv, TypeInv, PcOK, CallOK, At, Revoking
  <2>4. CASE StartDelete(c, d)
    <3>1. Revoking(c, d)'
      BY <2>4 DEF StartDelete, Revoking, Idle, Inv, TypeInv, TypeOK
    <3>2. Progress(c)'
      BY <2>1, <2>2, <2>3, <3>1 DEF Progress
    <3> QED
      BY <1>4, <2>2, <3>2
  <2>5. CASE DeleteAbsent(c, d)
    <3>1. Holdings(manifest, d) = {} /\ call' = call
      BY <2>1, <2>5 DEF DeleteAbsent, DeskInv, NoHistoryAlone, Holdings
    <3>2. Progress(c)'
      BY <2>1, <2>2, <2>3, <3>1 DEF Progress, At
    <3> QED
      BY <1>4, <2>2, <3>2
  <2> QED
    BY <2>4, <2>5
<1> QED
  BY <1>5, <1>6, <1>7, <1>8, <1>9, <1>10 DEF ReconcileNext

LEMMA Desks ==
    ASSUME SoloClient
    PROVE  ReconcileSpec => [](Inv /\ LayerInv /\ DeskOK /\ DeskInv)
<1>1. ReconcileSpec => [](Inv /\ LayerInv)
  BY ReconcileImplementsCorpus, Layered, PTL
<1>2. Inv /\ DeskOK /\ DeskInv /\ [ReconcileNext]_rvars => DeskInv'
  BY DeskInvStep
<1> QED
  BY <1>1, <1>2, ReconcileTyped, DeskInvInit, PTL DEF ReconcileSpec

\* CiteNexus.remediate: once its revokes have returned no orphan of the report has
\* a record left, and one that was there to delete is gone from the index.
THEOREM RemediationIsForgetting ==
    ASSUME SoloClient PROVE ReconcileSpec => []RemediationForgets
<1>1. Inv /\ LayerInv /\ DeskOK /\ DeskInv => RemediationForgets
  <2> SUFFICES ASSUME Inv, LayerInv, DeskOK, DeskInv, NEW c \in Clients, Remediated(c),
                      NEW d \in report.orphans
               PROVE  /\ Holdings(manifest, d) = {}
                      /\ result[d] = "deleted" => d \notin Known
    BY DEF RemediationForgets
  <2>1. Progress(c) /\ desk[c].todo = {} /\ call[c].op # "delete"
    BY DEF Remediated, DeskInv, Inv, TypeInv, PcOK, CallOK, At
  <2>2. Holdings(manifest, d) = {} /\ d \in Docs
    BY <2>1 DEF Progress, Revoking, Report
  <2>3. manifest.etags[d] = NoSum
    BY <2>2 DEF Holdings
  <2> QED
    BY <2>2, <2>3 DEF LayerInv, RevokedIsGone, Known
<1> QED
  BY <1>1, Desks, PTL

\* CiteNexus.reconcile: an empty report is only given when exactly the documents with
\* a current version are indexed, each at that version.
LEMMA AgreementStep ==
    ASSUME Inv, DeskOK, DeskInv, NEW c \in Clients, ScanAndReport(c), Clean(report')
    PROVE  Agree(report'.agreed)
<1> PICK agreed : agreed = desk[c].agreed
  OBVIOUS
<1> PICK index \in EnumerateIndex(desk[c].man) : report' = Diff(agreed, index)
  BY DEF ScanAndReport
<1>1. index \in EnumerateIndex(manifest) /\ TypeOK
  BY DEF ScanAndReport, DeskInv, ScanIsFresh, Inv, TypeInv
<1>2. DOMAIN index = Known /\ Known \subseteq Docs
  BY <1>1 DEF EnumerateIndex, Known, Stored, TypeOK, Row
<1>3. \A d \in DOMAIN index : /\ index[d] \in Checksums
                              /\ IF manifest.etags[d] # NoSum THEN index[d] = manifest.etags[d]
                                 ELSE \E r \in rows : r.doc = d /\ r.sum = index[d]
  BY <1>1 DEF EnumerateIndex
<1>4. /\ report'.agreed = agreed
      /\ \A d \in DOMAIN index : agreed.versions[d] # {} /\ agreed.current[d] = index[d]
      /\ \A d \in Docs \ DOMAIN index : agreed.current[d] = NoSum
  <2>1. /\ report'.agreed = agreed
        /\ report'.orphans = {d \in DOMAIN index : agreed.versions[d] = {}}
        /\ report'.missing = {d \in Docs \ DOMAIN index : agreed.current[d] # NoSum}
        /\ \A d \in DOMAIN index : agreed.versions[d] # {} /\ agreed.current[d] # index[d] =>
             [doc |-> d, sum |-> index[d], superseded |-> index[d] \in agreed.versions[d]]
               \in report'.drifted
    BY DEF Diff
  <2> QED
    BY <2>1 DEF Clean
<1>5. Known = {d \in Docs : agreed.current[d] # NoSum}
  BY <1>2, <1>3, <1>4, NoSumAssumption
<1> QED
  BY <1>2, <1>3, <1>4, <1>5 DEF Agree

THEOREM CleanReportsAgree ==
    ASSUME SoloClient PROVE ReconcileSpec => CleanReportMeansAgreement
<1>1. ASSUME Inv, DeskOK, DeskInv, [ReconcileNext]_rvars, report' # report, Clean(report')
      PROVE  Agree(report'.agreed)
  <2> PICK c \in Clients : ScanAndReport(c)
    BY <1>1 DEF ReconcileNext, rvars, Work, Die, Remediate, RevokeOrphan, EndRemediate,
       LoadEntries
  <2> QED
    BY <1>1, AgreementStep
<1>2. Inv /\ DeskOK /\ DeskInv /\ [ReconcileNext]_rvars =>
        [report' # report /\ Clean(report') => Agree(report'.agreed)]_rvars
  BY <1>1
<1> QED
  BY <1>2, Desks, PTL DEF ReconcileSpec, CleanReportMeansAgreement

\* CiteNexus.remediate "acts on nothing else": a document that is no orphan of the
\* report keeps its record, its rows and its bytes, and its index and images where
\* their keys do not lie under those of an orphan.
THEOREM RemediationSparing ==
    ASSUME SoloClient PROVE ReconcileSpec => RemediationSparesOthers
<1>1. ASSUME Inv, DeskOK, DeskInv, [ReconcileNext]_rvars, NEW c \in Clients,
             desk[c].pc = "remediate", NEW d \in Docs \ report.orphans
      PROVE  Untouched(d)
  <2>1. Progress(c)
    BY <1>1 DEF DeskInv
  <2>2. ~Target(d)
    <3>1. call[c].doc # d
      BY <1>1, <2>1, NoDocAssumption DEF DeskInv, IdleIsFree, Idle, Progress, Revoking
    <3> QED
      BY <3>1 DEF Target, SoloClient
  <2> QED
    BY <1>1, <2>2, DeskStep, OthersStep
<1>2. Inv /\ DeskOK /\ DeskInv /\ [ReconcileNext]_rvars =>
        [\A c \in Clients : desk[c].pc = "remediate" =>
            \A d \in Docs \ report.orphans : Untouched(d)]_rvars
  BY <1>1
<1> QED
  BY <1>2, Desks, PTL DEF ReconcileSpec, RemediationSparesOthers
=============================================================================
