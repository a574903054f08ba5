-------------------------------- MODULE MCAsk --------------------------------
(* Units "a" and "b" contradict each other, "c" is below the floor, "d" is in  *)
(* a script the tokenizer does not claim, and so is the question "q2"; "q3"    *)
(* has no word that counts.                                                    *)
EXTENDS Ask, TLC

MCUnits == {"a", "b", "c", "d"}
MCId == "a" :> 1 @@ "b" :> 2 @@ "c" :> 3 @@ "d" :> 4
MCAbout == "a" :> {"x"} @@ "b" :> {"x"} @@ "c" :> {"y"} @@ "d" :> {"y"}
MCTier == "a" :> 1 @@ "b" :> 1 @@ "c" :> 0 @@ "d" :> 1
MCSupports == "k1" :> {"a", "c"} @@ "k2" :> {"b"}
MCSays == "k1" :> {"x"} @@ "k2" :> {"x"}
MCBlurb == "k1" :> {"b"} @@ "k2" :> {}
MCConflicts == {{"a", "b"}}
MCTopics == "q1" :> {"x"} @@ "q2" :> {"x"} @@ "q3" :> {} @@ "r1" :> {"y"}
MCSearches == {<<"en">>, <<"te">>}
MCSearchesTwo == {<<"en", "ta">>}
MCRetrievers == <<"vector", "graph">>
MCRetrieversWiki == <<"vector", "wiki">>
MCNearest == {<<"a", "b">>, <<"b", "c">>, <<"c", "d">>, <<"d", "a">>}
MCScore == "vector" :> 1 @@ "graph" :> 2 @@ "wiki" :> 2
==============================================================================
