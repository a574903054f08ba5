----------------------------- MODULE MCReconcile -----------------------------
(* Small instances of Reconcile for TLC. *)
EXTENDS Reconcile, TLC

CONSTANTS d1, d2, v1, v2

\* Both versions fill one slot, and no document id is a prefix of another.
MCUnits == (v1 :> {1}) @@ (v2 :> {1})
MCFlat == (d1 :> {d1}) @@ (d2 :> {d2})

\* d1 is declared, at v1 and, once revised, at v2 with v1 superseded; d2 is not.
MCAgreed ==
    {[versions |-> (d1 :> {v1}) @@ (d2 :> {}), current |-> (d1 :> v1) @@ (d2 :> NoSum)],
     [versions |-> (d1 :> {v1, v2}) @@ (d2 :> {}), current |-> (d1 :> v2) @@ (d2 :> NoSum)]}
=============================================================================
