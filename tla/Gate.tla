-------------------------------- MODULE Gate --------------------------------
(***************************************************************************)
(* The faithfulness gate of answer/verify.py and the guards that read      *)
(* tokens (answer/verify_guards.py, answer/verify_guards_model.py).        *)
(*                                                                         *)
(* A text is a sequence of tokens and clause breaks.  The tables of the    *)
(* code are constants: which token is a polarity marker, restricts what    *)
(* came before it, starts a clause of its own, bounds a number, names      *)
(* something.  A guard is the condition under which the code refuses.      *)
(***************************************************************************)
EXTENDS Lexicon

CONSTANTS Negatives,     \* NEGATIVE_WORDS
          Restrictive,   \* RESTRICTIVE_TAIL
          Coordinators,  \* COORDINATORS
          Swaps,         \* POLARITY_SWAPS, as pairs
          During, Universals,  \* DURING_WORDS, UNIVERSALS
          MaxSingleGap, MaxTotalGap

ASSUME GapAssumption == MaxSingleGap \in Nat /\ MaxTotalGap \in Nat

-----------------------------------------------------------------------------
(* Alignment *)

\* One cell of the table: what is known of a claim's prefix that ends here.
Cheapest(cells) ==
    {c \in cells : \A d \in cells : c.total < d.total \/ (c.total = d.total /\ c.single <= d.single)}

Extend(cell, gap) ==
    [total |-> cell.total + gap, single |-> IF gap > cell.single THEN gap ELSE cell.single,
     start |-> cell.start]

\* state[i][j]: the cheapest way to match the first i tokens of the claim so that
\* the i-th falls on the j-th of the passage; empty if there is none.
\* (The variant keeps one running minimum over all of the passage before j and
\* measures the gap from there.)
TableFromMinimum(claim, passage) ==
    LET state[i \in 1..Len(claim)] ==
          [j \in 1..Len(passage) |->
             IF passage[j] # claim[i] THEN {}
             ELSE IF i = 1 THEN {[total |-> 0, single |-> 0, start |-> j]}
             ELSE LET before == UNION {{[k |-> k, total |-> c.total, single |-> c.single, start |-> c.start] :
                                          c \in state[i - 1][k]} : k \in 1..(j - 1)}
                      least  == {b \in before : \A o \in before :
                                   b.total < o.total \/ (b.total = o.total /\ b.k <= o.k)}
                  IN  {Extend(b, j - b.k - 1) :
                          b \in {x \in least : /\ j - x.k - 1 <= MaxSingleGap
                                               /\ x.total + j - x.k - 1 <= MaxTotalGap}}]
    IN  state[Len(claim)]

Table(claim, passage) ==
    LET state[i \in 1..Len(claim)] ==
          [j \in 1..Len(passage) |->
             IF passage[j] # claim[i] THEN {}
             ELSE IF i = 1 THEN {[total |-> 0, single |-> 0, start |-> j]}
             ELSE Cheapest({c \in UNION {{Extend(c, j - k - 1) : c \in state[i - 1][k]} :
                                           k \in {x \in 1..(j - 1) : j - x - 1 <= MaxSingleGap}} :
                               c.total <= MaxTotalGap})]
    IN  state[Len(claim)]

\* align: the match with the smallest total, the leftmost of those.  An empty set
\* is the code's None.
Align(claim, passage) ==
    IF claim = <<>> \/ passage = <<>> THEN {}
    ELSE LET last == Table(claim, passage)
             ends == UNION {{[start |-> c.start, end |-> j, total |-> c.total, single |-> c.single] :
                               c \in last[j]} : j \in DOMAIN passage}
         IN  {e \in ends : \A f \in ends : e.total < f.total \/ (e.total = f.total /\ e.end <= f.end)}

Span(passage, a) == SubSeq(passage, a.start, a.end)

\* _polarity_preserved: with multiplicity.  (The variant counts a marker once.)
PolarityKeptOnce(claim, matched) == Found(matched) \cap Markers \subseteq Found(claim)

PolarityPreserved(claim, matched) ==
    \A t \in Found(matched) \cap Markers : Count(claim, t) >= Count(matched, t)

\* is_supported: the frozen predicate, set containment.
IsSupported(claim, passage) ==
    TokensOf(claim) # <<>> /\ Found(TokensOf(claim)) \subseteq Found(TokensOf(passage))

IsSupportedV2(claim, passage) ==
    \E a \in Align(TokensOf(claim), TokensOf(passage)) :
        PolarityPreserved(TokensOf(claim), Span(TokensOf(passage), a))

-----------------------------------------------------------------------------
(* Guards over tokens: each is the condition of a refusal *)

\* What follows a match in its clause.
After(clause, a) == SubSeq(clause, a.end + 1, Len(clause))

\* clause_negation_guard: a marker inside the match that the claim drops, or one
\* shortly after it in the same clause.
ClauseNegation(claim, passage) ==
    \E clause \in Clauses(passage) :
        \E a \in Align(TokensOf(claim), clause) :
            \/ ~PolarityPreserved(TokensOf(claim), Span(clause, a))
            \/ \E i \in 1..MaxSingleGap :
                  /\ i <= Len(After(clause, a))
                  /\ After(clause, a)[i] \in Markers \ Found(claim)
                  /\ \A j \in 1..i : After(clause, a)[j] \notin Coordinators

\* truncation_guard: each clause the claim is cut from goes on to narrow it.
Truncation(claim, passage) ==
    LET matches == UNION {{After(clause, a) : a \in Align(TokensOf(claim), clause)} :
                             clause \in Clauses(passage)}
    IN  /\ matches # {}
        /\ \A tail \in matches : tail # <<>> /\ Head(tail) \in Restrictive

\* negation_guard: a negated claim needs a negated passage.  A marker inside a
\* bound ("no later than") is no negation if the passage bounds alike.
Negation(claim, passage) ==
    LET tokens == TokensOf(claim)
        bounds == BoundPlaces(tokens, Directions(TokensOf(passage)))
    IN  /\ \E i \in DOMAIN tokens : tokens[i] \in Markers /\ i \notin bounds
        /\ Found(TokensOf(passage)) \cap (Markers \cup Negatives) = {}

\* polarity_swap_guard: the claim is the passage with one polarity word swapped.
PolaritySwap(claim, passage) ==
    LET tokens == TokensOf(claim)
    IN  /\ Align(tokens, TokensOf(passage)) = {}
        /\ \E i \in DOMAIN tokens : \E s \in Swaps :
              s[1] = tokens[i] /\ Align([tokens EXCEPT ![i] = s[2]], TokensOf(passage)) # {}

\* during_scopes: what follows "during", but for "the".
Periods(tokens) ==
    {tokens[IF tokens[i + 1] \in {"the", "de", "het"} /\ i + 2 <= Len(tokens) THEN i + 2 ELSE i + 1] :
        i \in {k \in 1..(Len(tokens) - 1) : tokens[k] \in During}}

\* scope_guard: a claim about every period over a passage about particular ones.
Scope(claim, passage) ==
    /\ Periods(TokensOf(claim)) \cap Universals # {}
    /\ Periods(TokensOf(passage)) # {}
    /\ Periods(TokensOf(passage)) \cap Universals = {}

-----------------------------------------------------------------------------
(* Properties of one claim and one passage *)

Distance(e, n) == e[n] - e[1] + 1 - n

\* Every way to find the claim in the passage, in order, within the gaps.
Embeddings(claim, passage) ==
    {e \in [DOMAIN claim -> DOMAIN passage] :
        /\ \A i \in DOMAIN claim : passage[e[i]] = claim[i]
        /\ \A i \in 1..(Len(claim) - 1) : e[i] < e[i + 1] /\ e[i + 1] - e[i] - 1 <= MaxSingleGap
        /\ Distance(e, Len(claim)) <= MaxTotalGap}

\* "Never looser, never stricter" than the predicate it computes: the table finds
\* a match exactly if there is one, and the least of them.
AlignsAsDefined(claim, passage) ==
    LET n     == Len(claim)
        all   == Embeddings(claim, passage)
        least == {e \in all : \A f \in all :
                    \/ Distance(e, n) < Distance(f, n)
                    \/ Distance(e, n) = Distance(f, n) /\ e[n] <= f[n]}
    IN  claim # <<>> /\ passage # <<>> =>
          {<<a.start, a.end, a.total>> : a \in Align(claim, passage)}
            = {<<e[1], e[n], Distance(e, n)>> : e \in least}

Verbatim(claim, passage) ==
    \E i \in DOMAIN passage :
        i + Len(claim) - 1 <= Len(passage) /\ SubSeq(passage, i, i + Len(claim) - 1) = claim

\* The claim is the passage without a marker that stood between two words.
WithoutInnerMarker(claim, passage) ==
    \E i \in 2..(Len(passage) - 1) :
        passage[i] \in Markers /\ claim = SubSeq(passage, 1, i - 1) \o SubSeq(passage, i + 1, Len(passage))

\* Words of the claim in an order the passage has nowhere.
Inverted(claim, passage) ==
    \E i, j \in DOMAIN claim :
        i < j /\ \A x, y \in DOMAIN passage : passage[x] = claim[i] /\ passage[y] = claim[j] => x > y

\* ADR-0009: an answer that inverts the parties of a passage, or drops a negation
\* inside it and so stands there nowhere as written, is refused; and what is
\* accepted, the frozen predicate accepted.
InversionsRefused(claim, passage) ==
    /\ Break \notin Found(passage) =>
         \/ ~IsSupportedV2(claim, passage)
         \/ ~Inverted(claim, passage) /\ (WithoutInnerMarker(claim, passage) => Verbatim(claim, passage))
    /\ IsSupportedV2(claim, passage) => IsSupported(claim, passage)
=============================================================================
