------------------------------ MODULE Retrieval ------------------------------
(***************************************************************************)
(* Retrieval: the lists of several retrievers fused by reciprocal rank     *)
(* (retrieve/fusion.py), reordered by the rerank model (retrieve/          *)
(* rerank.py), and the turns recalled for a question (memory/store.py).    *)
(*                                                                         *)
(* A hit is a unit, the score its retriever gave it and whether it carries *)
(* the verbatim passage beside the text that was indexed.  Fused scores    *)
(* are exact: every share 1 / (k + rank + 1) is multiplied by the product  *)
(* of all the denominators that occur.                                     *)
(***************************************************************************)
EXTENDS Naturals, Sequences, FiniteSets, Selection

CONSTANTS Id,       \* Id[u]: the order of unit ids
          RrfK,     \* the constant of the fusion
          Depth     \* the longest list a retriever returns

ASSUME RankAssumption == RrfK \in Nat /\ Depth \in Nat

Hit(unit, score, verbatim) == [unit |-> unit, score |-> score, verbatim |-> verbatim]

\* What being at this rank, counted from one, contributes.
Share(rank) ==
    LET product[r \in 0..Depth] == IF r = 0 THEN 1
                                  ELSE IF r = rank THEN product[r - 1]
                                  ELSE product[r - 1] * (RrfK + r)
    IN  product[Depth]

\* What one list contributes to a unit, at each rank it has it.
ListScore(hits, u) ==
    LET sum[r \in 0..Len(hits)] == IF r = 0 THEN 0
                                   ELSE IF hits[r].unit = u THEN sum[r - 1] + Share(r)
                                   ELSE sum[r - 1]
    IN  sum[Len(hits)]

FusedScore(lists, u) ==
    LET sum[i \in 0..Len(lists)] == IF i = 0 THEN 0 ELSE sum[i - 1] + ListScore(lists[i], u)
    IN  sum[Len(lists)]

Places(lists, u) == {p \in (DOMAIN lists) \X (1..Depth) :
                        p[2] \in DOMAIN lists[p[1]] /\ lists[p[1]][p[2]].unit = u}

\* The payload kept for a unit is its best-scored hit, the earliest of those.
Payload(lists, u) ==
    LET hit(p) == lists[p[1]][p[2]]
        places == Places(lists, u)
        best   == {p \in places : \A q \in places : hit(p).score >= hit(q).score}
        first  == CHOOSE p \in best : \A q \in best : p[1] < q[1] \/ (p[1] = q[1] /\ p[2] <= q[2])
    IN  hit(first)

UnitsOf(hits) == {hits[i].unit : i \in DOMAIN hits}

Fused(lists) ==
    LET units    == UNION {UnitsOf(lists[i]) : i \in DOMAIN lists}
        score    == [u \in units |-> FusedScore(lists, u)]
        above(u) == {v \in units : score[v] > score[u] \/ (score[v] = score[u] /\ Id[v] < Id[u])}
    IN  [i \in 1..Cardinality(units) |->
            Payload(lists, CHOOSE u \in units : Cardinality(above(u)) = i - 1)]

\* The rerank model names candidates by index, in its order; an index that names
\* none is skipped and a candidate it does not name keeps its place at the end.
Reranked(hits, order) ==
    LET named  == Within(order, DOMAIN hits)
        chosen == {named[i] : i \in DOMAIN named}
        all    == named \o Within([i \in DOMAIN hits |-> i], DOMAIN hits \ chosen)
    IN  [i \in DOMAIN all |-> hits[all[i]]]

First(n, s) == SubSeq(s, 1, IF n < Len(s) THEN n ELSE Len(s))

\* What the engine returns: only the head of the fused list is reranked.
Retrieved(fused, order, topN, k) ==
    First(k, Reranked(First(topN, fused), order) \o SubSeq(fused, topN + 1, Len(fused)))
==============================================================================
