--------------------------- MODULE MCVerifyAnswer ---------------------------
(* Four units: two Dutch ones that disagree, one English, one below the floor. *)
EXTENDS VerifyAnswer

MCEvidence == <<"nl1", "nl2", "en", "low">>
MCTier == [u \in Units |-> CASE u = "low" -> 1 [] u = "en" -> 3 [] OTHER -> 2]
MCForeign == {"en"}

Both(u, o, rule) == {<<u, o, rule>>, <<o, u, rule>>}
MCDisagree == Both("nl1", "nl2", "value") \cup Both("nl2", "en", "negation")

MCPieces ==
    {Piece("plain", <<>>, cited, <<>>) : cited \in {<<>>, <<"nl1">>, <<"low", "nl2">>, <<"gone">>}}
      \cup {Piece("plain", <<>>, <<"nl1", "en">>, <<"part">>)}
      \cup {Piece("lead", words, <<"en">>, <<"part">>) :
              words \in {<<"content", "reference", "count">>, <<"stop", "frame">>, <<"frame", "only">>, <<"only">>}}
      \cup {Piece("item", <<>>, <<"nl1">>, <<>>), Piece("bare", <<>>, <<"nl2">>, <<>>)}

Option(checker, required, paraphrase, eager, fallible) ==
    [checker |-> checker, required |-> required, paraphrase |-> paraphrase,
     eager |-> eager, fallible |-> fallible]

MCOptions == {Option(FALSE, FALSE, FALSE, FALSE, FALSE), Option(TRUE, TRUE, TRUE, FALSE, FALSE),
              Option(TRUE, FALSE, FALSE, FALSE, TRUE), Option(TRUE, TRUE, TRUE, TRUE, FALSE)}
=============================================================================
