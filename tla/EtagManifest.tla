---------------------------- MODULE EtagManifest ----------------------------
(***************************************************************************)
(* The etag manifest of one partition (storage/manifest.py, EtagManifest): *)
(* which checksum each document currently maps to, and which checksums it  *)
(* has retired.  The content-addressed raw blob of a checksum is shared by *)
(* every document with those bytes, so this record is the reference count  *)
(* that decides whether a blob may be deleted.                             *)
(*                                                                         *)
(* The code keeps the retired checksums as a list without duplicates; no   *)
(* caller depends on its order, so a set stands for it here.               *)
(***************************************************************************)

CONSTANTS Docs,       \* document ids
          Checksums,  \* sha256 of the bytes of a document version
          NoSum       \* "no entry"

ASSUME NoSumAssumption == NoSum \notin Checksums

Manifest == [etags : [Docs -> Checksums \cup {NoSum}],
             superseded : [Docs -> SUBSET Checksums]]

EmptyManifest == [etags |-> [d \in Docs |-> NoSum],
                  superseded |-> [d \in Docs |-> {}]]

\* The document is new or its checksum differs.
IsChanged(m, d, s) == m.etags[d] # s

\* Variants of Record: the first ingest retires "no entry"; the checksum that
\* comes back stays retired; the replaced checksum is dropped, not retired.
RecordRetiresNone(m, d, s) ==
    [etags |-> [m.etags EXCEPT ![d] = s],
     superseded |-> [m.superseded EXCEPT ![d] = (@ \cup {m.etags[d]}) \ {s}]]

RecordKeepsRetired(m, d, s) ==
    [etags |-> [m.etags EXCEPT ![d] = s],
     superseded |-> [m.superseded EXCEPT ![d] = @ \cup ({m.etags[d]} \ {NoSum})]]

RecordDropsPrevious(m, d, s) == [m EXCEPT !.etags[d] = s]

\* Point d at s and retire what it pointed at; a retired checksum that comes
\* back is un-retired.

Record(m, d, s) ==
    [etags |-> [m.etags EXCEPT ![d] = s],
     superseded |-> [m.superseded EXCEPT
                        ![d] = (@ \cup ({m.etags[d]} \ {NoSum})) \ {s}]]

ClearSuperseded(m, d) == [m EXCEPT !.superseded[d] = {}]

\* Drop d and its history.  (The variant keeps the history.)
ForgetKeepsRetired(m, d) == [m EXCEPT !.etags[d] = NoSum]

Forget(m, d) == [etags |-> [m.etags EXCEPT ![d] = NoSum],
                 superseded |-> [m.superseded EXCEPT ![d] = {}]]

\* The OTHER documents that currently map to s.  A retired reference is not
\* an owner.  (The variant counts the retired references instead.)
OwnersByHistory(m, s, d) == {e \in Docs \ {d} : s \in m.superseded[e]}

OwnersOf(m, s, d) == {e \in Docs \ {d} : m.etags[e] = s}

\* Every checksum d is on record for having written.
Holdings(m, d) == ({m.etags[d]} \ {NoSum}) \cup m.superseded[d]

-----------------------------------------------------------------------------
\* A manifest never lists a document's current checksum among its retired ones.
CurrentNotRetired(m) == \A d \in Docs : m.etags[d] \notin m.superseded[d]

\* Some document's record names s.
Names(m, s) == \E d \in Docs : s \in Holdings(m, d)
=============================================================================
