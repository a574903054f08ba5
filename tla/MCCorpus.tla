------------------------------ MODULE MCCorpus ------------------------------
(* Small instances of Corpus for TLC. *)
EXTENDS Corpus, TLC

CONSTANTS d1, d2, v1, v2

\* v2 is shorter than v1 and carries the images.
MCUnits == (v1 :> {1, 2}) @@ (v2 :> {1})

\* Both versions fill one slot.
MCSameUnit == (v1 :> {1}) @@ (v2 :> {1})

\* With MCSameUnit, MCFlat and no images nothing tells the two documents, or the
\* two versions, apart.
MCSymmetry == Permutations({d1, d2}) \cup Permutations({v1, v2})

\* No document id is a path prefix of another.
MCFlat == (d1 :> {d1}) @@ (d2 :> {d2})

\* d2's id lies under d1's, as "reports/q1" under "reports".
MCNested == (d1 :> {d1, d2}) @@ (d2 :> {d2})

\* The key of d2's index begins with that of d1's, as "a.json.json" with "a.json".
MCIndexed == (d1 :> {d1, d2}) @@ (d2 :> {d2})
=============================================================================
