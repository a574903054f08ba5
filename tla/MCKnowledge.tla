---------------------------- MODULE MCKnowledge ----------------------------
(* A small instance of Knowledge for TLC. *)
EXTENDS Knowledge, TLC

CONSTANTS d1, d2, u1, u2, invented, p1, p2, concept

MCDocOf == (u1 :> d1) @@ (u2 :> d2)
MCWords == <<"gold", "tin">>
MCSays == (u1 :> {"gold", "tin"}) @@ (u2 :> {"tin"})
MCUnitOrder == (u1 :> 1) @@ (u2 :> 2)
MCPageOf == (d1 :> p1) @@ (d2 :> p2)

\* No two page ids share a file name, and none is the beginning of another.
MCSlug == [p \in {p1, p2, concept} |-> p]
MCUnder == [p \in {p1, p2, concept} |-> {p}]

\* An entity the corpus does not have under it, and a relation that touches it.
MCGraphReplies ==
    {[entities  |-> {[label |-> "gold", refs |-> {u1, invented}], [label |-> "tin", refs |-> {invented}]},
      relations |-> {[source |-> "gold", target |-> "tin", weight |-> 0]}]}

\* A concept page that links to a document's page, once more under the same id,
\* and a page without an id.
MCPageReplies ==
    {<<[id |-> None, words |-> {"tin"}, links |-> {}, refs |-> {u1}],
       [id |-> concept, words |-> {"gold"}, links |-> {p2}, refs |-> {u1, invented}],
       [id |-> concept, words |-> {}, links |-> {}, refs |-> {}]>>}

MCQuestions == {{"gold"}, {"gold", "tin"}}
=============================================================================
