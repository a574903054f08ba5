------------------------------ MODULE Reconcile ------------------------------
(***************************************************************************)
(* Reconciliation of a partition with a declared corpus, and the separate  *)
(* remediation of its report (reconcile/engine.py), composed with Corpus:  *)
(* remediation goes through CiteNexus.delete, and between a report and its *)
(* remediation the partition may change.                                   *)
(*                                                                         *)
(* The audit lines both calls append are left out: nothing reads them.     *)
(***************************************************************************)
EXTENDS Corpus

CONSTANTS Agreed,     \* the corpus manifests callers declare
          NoReport

\* A corpus manifest: the declared versions of each document and the one among
\* them that is current.  The validator rejects a second current version.
CorpusManifest ==
    {m \in [versions : [Docs -> SUBSET Checksums],
            current : [Docs -> Checksums \cup {NoSum}]] :
        \A d \in Docs : m.current[d] \in m.versions[d] \cup {NoSum}}

ASSUME AgreedAssumption == Agreed \subseteq CorpusManifest

VARIABLES desk,    \* desk[c]: the reconcile or remediate call of client c
          report   \* the report the callers hold; it may be stale

rvars == <<manifest, blobs, images, structure, rows, stamped, graph, dirty, wiki,
           call, result, desk, report>>

Report == [agreed : Agreed, orphans : SUBSET Docs, missing : SUBSET Docs,
           drifted : SUBSET [doc : Docs, sum : Checksums, superseded : BOOLEAN]]

Desk == [pc : {"idle", "scan", "remediate"}, agreed : Agreed \cup {NoReport},
         man : Manifest, todo : SUBSET Docs]

Free == [pc |-> "idle", agreed |-> NoReport, man |-> EmptyManifest, todo |-> {}]

ReconcileTypeOK == /\ TypeOK
                   /\ desk \in [Clients -> Desk]
                   /\ report \in Report \cup {NoReport}

ReconcileInit == /\ Init
                 /\ desk = [c \in Clients |-> Free]
                 /\ report = NoReport

-----------------------------------------------------------------------------
Stored(d) == \E r \in rows : r.doc = d

\* What is indexed: the etag manifest's entries, and with them the documents only
\* the scan knows, at the checksum of the row the scan met first.  (The variant
\* enumerates the manifest only.)
EnumerateEntries(m) ==
    {[d \in {e \in Docs : m.etags[e] # NoSum} |-> m.etags[d]]}

EnumerateIndex(m) ==
    {index \in [{d \in Docs : m.etags[d] # NoSum \/ Stored(d)} -> Checksums] :
        \A d \in DOMAIN index :
            IF m.etags[d] # NoSum THEN index[d] = m.etags[d]
                                  ELSE \E r \in rows : r.doc = d /\ r.sum = index[d]}

\* The diff.  A declared document is never an orphan.
Diff(agreed, index) ==
    [agreed |-> agreed,
     orphans |-> {d \in DOMAIN index : agreed.versions[d] = {}},
     drifted |-> {[doc |-> d, sum |-> index[d],
                   superseded |-> index[d] \in agreed.versions[d]] :
                      d \in {e \in DOMAIN index : /\ agreed.versions[e] # {}
                                                  /\ agreed.current[e] # index[e]}},
     missing |-> {d \in Docs \ DOMAIN index : agreed.current[d] # NoSum}]

\* reconcile: load the etag manifest, then scan the store and report.
LoadEntries(c, agreed) ==
    /\ At(c, "idle")
    /\ desk[c].pc = "idle"
    /\ desk' = [desk EXCEPT ![c] = [@ EXCEPT !.pc = "scan", !.agreed = agreed,
                                             !.man = manifest]]
    /\ UNCHANGED <<vars, report>>

ScanAndReport(c) ==
    /\ desk[c].pc = "scan"
    /\ \E index \in EnumerateIndex(desk[c].man) : report' = Diff(desk[c].agreed, index)
    /\ desk' = [desk EXCEPT ![c] = Free]
    /\ UNCHANGED vars

\* remediate: one revoke per orphan of the report, whatever became of it since.
\* (The variant revokes the drifted documents too.)
RemediateDrifted(c) ==
    /\ At(c, "idle")
    /\ desk[c].pc = "idle"
    /\ report # NoReport
    /\ desk' = [desk EXCEPT ![c] =
                  [@ EXCEPT !.pc = "remediate",
                            !.todo = report.orphans \cup {x.doc : x \in report.drifted}]]
    /\ UNCHANGED <<vars, report>>

Remediate(c) ==
    /\ At(c, "idle")
    /\ desk[c].pc = "idle"
    /\ report # NoReport
    /\ desk' = [desk EXCEPT ![c] = [@ EXCEPT !.pc = "remediate", !.todo = report.orphans]]
    /\ UNCHANGED <<vars, report>>

RevokeOrphan(c) ==
    /\ desk[c].pc = "remediate"
    /\ \E d \in desk[c].todo :
         /\ StartDelete(c, d) \/ DeleteAbsent(c, d)
         /\ desk' = [desk EXCEPT ![c].todo = @ \ {d}]
    /\ UNCHANGED report

EndRemediate(c) ==
    /\ desk[c].pc = "remediate"
    /\ At(c, "idle")
    /\ desk[c].todo = {}
    /\ desk' = [desk EXCEPT ![c] = Free]
    /\ UNCHANGED <<vars, report>>

\* A client that is not at its desk makes any call; one that remediates goes on
\* with the revoke it is in.
Work(c) ==
    /\ \/ desk[c].pc = "idle" /\ (Ingest(c) \/ Delete(c) \/ Navigate(c))
       \/ desk[c].pc = "remediate" /\ ~At(c, "idle") /\ (Delete(c) \/ Navigate(c))
    /\ UNCHANGED <<desk, report>>

Die(c) ==
    /\ \/ Crash(c)
       \/ At(c, "idle") /\ desk[c].pc # "idle" /\ UNCHANGED vars
    /\ desk' = [desk EXCEPT ![c] = Free]
    /\ UNCHANGED report

ReconcileNext ==
    \E c \in Clients :
        \/ Work(c) \/ Die(c) \/ ScanAndReport(c)
        \/ Remediate(c) \/ RevokeOrphan(c) \/ EndRemediate(c)
        \/ \E agreed \in Agreed : LoadEntries(c, agreed)

ReconcileSpec == ReconcileInit /\ [][ReconcileNext]_rvars

-----------------------------------------------------------------------------
(* Properties *)

\* CiteNexus.reconcile: "an empty report means the declared corpus and the index
\* agree at document level": exactly the documents with a current version are
\* there, each at that version.
Clean(rep) == rep.orphans = {} /\ rep.missing = {} /\ rep.drifted = {}

Agree(agreed) ==
    /\ Known = {d \in Docs : agreed.current[d] # NoSum}
    /\ \A d \in Known :
         \/ manifest.etags[d] = agreed.current[d]
         \/ /\ manifest.etags[d] = NoSum
            /\ \E r \in rows : r.doc = d /\ r.sum = agreed.current[d]

CleanReportMeansAgreement ==
    [][report' # report /\ Clean(report') => Agree(report'.agreed)]_rvars

\* CiteNexus.remediate acts on the orphans "nothing else": while it runs, and
\* through every revoke it makes, a document that is not an orphan of the report,
\* a declared one above all, keeps its record, its rows and its bytes, and its files
\* where their keys do not lie under those of an orphan.
RemediationSparesOthers ==
    [][\A c \in Clients : desk[c].pc = "remediate" =>
          \A d \in Docs \ report.orphans : Untouched(d)]_rvars

\* Once the revokes of a remediation have all returned, no orphan of the report
\* has a record left, and one that was there to delete is gone from the index.
Remediated(c) == desk[c].pc = "remediate" /\ desk[c].todo = {} /\ At(c, "idle")

RemediationForgets ==
    \A c \in Clients : Remediated(c) =>
        \A d \in report.orphans :
            /\ Holdings(manifest, d) = {}
            /\ result[d] = "deleted" => d \notin Known

\* The reconciliation spec: after remediation "a follow-up reconciliation reports
\* no orphans", so no orphan of the report is known to the index any more.
RemediationLeavesNoOrphan ==
    \A c \in Clients : Remediated(c) => report.orphans \cap Known = {}
=============================================================================
