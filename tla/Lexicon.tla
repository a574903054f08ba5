------------------------------ MODULE Lexicon -------------------------------
(***************************************************************************)
(* Texts as the guards of answer/ read them, sequences of tokens, clause   *)
(* breaks and sentence breaks; and the word lists the guards share         *)
(* (answer/tables.py, ActorLexicon, the glossary) as constants, with what  *)
(* the guards read from them alone.                                        *)
(***************************************************************************)
EXTENDS FiniteSets, FiniteSetsExt, Selection

CONSTANTS Break,  \* a clause break
          Stop    \* a sentence break

ASSUME BreakAssumption == Break # Stop

TokensOf(text) == Within(text, {text[i] : i \in DOMAIN text} \ {Break, Stop})

\* Where the parts of a text lie that the marks cut it into.
Parts(text, marks) ==
    LET cuts == {i \in DOMAIN text : text[i] \in marks}
    IN  {<<c + 1, Min({x \in cuts \cup {Len(text) + 1} : x > c}) - 1>> : c \in cuts \cup {0}}

Between(text, marks) == {SubSeq(text, p[1], p[2]) : p \in Parts(text, marks)}

Clauses(text) == Between(text, {Break, Stop})

\* The sentences that say something, by where they lie.
Sentences(text) == {p \in Parts(text, {Stop}) : TokensOf(SubSeq(text, p[1], p[2])) # <<>>}

At(text, p) == SubSeq(text, p[1], p[2])

Found(s) == {s[i] : i \in DOMAIN s}

Count(s, t) == Cardinality({i \in DOMAIN s : s[i] = t})

\* find_spans: where a phrase starts.
Starts(s, phrase) ==
    {i \in 1..(Len(s) - Len(phrase) + 1) : SubSeq(s, i, i + Len(phrase) - 1) = phrase}

\* has_any: one of the phrases occurs.
HasAny(s, phrases) == \E phrase \in phrases : Starts(s, phrase) # {}

\* What stands before the first of some places, and from a place on.
Before(s, places) == IF places = {} THEN s ELSE SubSeq(s, 1, Min(places) - 1)

Rest(s, i) == SubSeq(s, i, Len(s))

Gap(i, j) == IF i < j THEN j - i ELSE i - j

\* nearest: of the places within the limit the closest, the earlier on a tie.
Nearest(i, limit, places) ==
    {j \in places : /\ Gap(i, j) <= limit
                    /\ \A k \in places : Gap(i, j) < Gap(i, k) \/ (Gap(i, j) = Gap(i, k) /\ j <= k)}

-----------------------------------------------------------------------------
(* The word lists *)

CONSTANTS Markers,       \* POLARITY_MARKERS
          Stopwords,     \* is_stopword and CONTEXT_STOP
          Short,         \* other words of less than four letters
          Numerals,      \* tokens with a number
          ShortNumerals, \* those of them of less than four characters
          BoundPhrases,  \* BOUND_PHRASES: <<phrase, "upper" or "lower">>
          Comparatives,  \* SPLIT_COMPARATIVES: <<word, "upper" or "lower">>
          Than, Exceeds, \* "than" and "dan"; EXCEED_VERBS
          Articles,
          Actors, Terms, \* actor ids, and Terms[a]: the words for one
          Reader, Pronouns,  \* second_person and its pronouns
          Inflections,   \* pairs of words that are one word plus a short ending
          Glossary       \* <<word, phrase in the other language>>, both ways

ASSUME LexiconAssumption == Reader \in Actors \cup {""} /\ "" \notin Actors

\* condition_content: short words are verbs and particles; digits count.
Content(t) == t \notin Stopwords \cup Short

Translations(w) == {g[2] : g \in {h \in Glossary : h[1] = w}}

\* What a claim carries: its words, whether it is in another language than the
\* unit, and whether the glossary may show presence only.
Carrier(claim, cross, satisfyOnly) ==
    [claim |-> Found(TokensOf(claim)), cross |-> cross, satisfyOnly |-> satisfyOnly]

\* Carrier.carried: "has", "lacks", or no verdict.
Carried(c, w) ==
    IF w \in c.claim \/ \E t \in c.claim : <<w, t>> \in Inflections THEN "has"
    ELSE IF ~c.cross THEN "lacks"
    ELSE IF Translations(w) = {} THEN IF w \in Numerals THEN "lacks" ELSE "unknown"
    ELSE IF \E tr \in Translations(w) : Found(tr) \subseteq c.claim THEN "has"
    ELSE IF c.satisfyOnly THEN "unknown" ELSE "lacks"

ActorTerm(w) == \E a \in Actors : w \in Terms[a]

SameActorClass(v, w) == \E a \in Actors : {v, w} \subseteq Terms[a]

\* claim_names_role: by a term; claim_names_actor: or by the reader's pronoun.
NamesRole(words, w) == \E a \in Actors : w \in Terms[a] /\ Terms[a] \cap words # {}

NamesActor(words, w) ==
    NamesRole(words, w) \/ (Reader # "" /\ w \in Terms[Reader] /\ Pronouns \cap words # {})

-----------------------------------------------------------------------------
(* Bounds: "no later than" negates nothing *)

\* split_bounds: "may not exceed", "not be higher than".
SplitBounds(s) ==
    UNION {LET near == {j \in (i + 1)..(i + 4) : j <= Len(s) /\
                          \/ s[j] \in Exceeds
                          \/ /\ j < Len(s) /\ s[j + 1] \in Than
                             /\ \E c \in Comparatives : c[1] = s[j]}
           IN  {[marker |-> i,
                 direction |-> IF s[j] \in Exceeds THEN "upper"
                               ELSE (CHOOSE c \in Comparatives : c[1] = s[j])[2]] :
                   j \in {x \in near : x = Min(near)}} :
           i \in {x \in DOMAIN s : s[x] \in Markers}}

Directions(s) ==
    {b[2] : b \in {p \in BoundPhrases : Starts(s, p[1]) # {}}} \cup {b.direction : b \in SplitBounds(s)}

\* bound_marker_positions: the places that bound the claim as the passage is bounded.
BoundPlaces(s, directions) ==
    UNION {UNION {i..(i + Len(b[1]) - 1) : i \in Starts(s, b[1])} : b \in {p \in BoundPhrases : p[2] \in directions}}
      \cup {b.marker : b \in {x \in SplitBounds(s) : x.direction \in directions}}
=============================================================================
