------------------------------- MODULE Conflict -------------------------------
(***************************************************************************)
(* Conflict detection and collapse of near-duplicates (answer/conflict.py).*)
(*                                                                         *)
(* A passage is what _features reads from it: its folded content words,    *)
(* how many negations, its numbers (in cents), whether each has one        *)
(* reading, its units, and whether it reports what others say.             *)
(***************************************************************************)
EXTENDS Integers, Sequences, FiniteSets

CONSTANTS Inclusions,   \* CONFLICT_INCLUSION_PAIRS: <<inclusive, exclusive>>
          Antonyms,     \* CONFLICT_ANTONYMS, unordered pairs
          ScopeWords,   \* CONFLICT_SCOPE_MARKERS
          VatMarkers, VatRates,  \* rates in hundredths: 121 for 21 %
          Rank,         \* Rank[w]: place of a word in sorted order
          TopK          \* CONFLICT_TOP_K

\* The words of the inclusion pairs.
Marking == {p[1] : p \in Inclusions} \cup {p[2] : p \in Inclusions}

\* No word says inclusive in one pair and exclusive in another; no two of those words
\* share a place; the window has room for two.
ASSUME TablesAssumption ==
    /\ \A p \in Inclusions \cup Antonyms : p = <<p[1], p[2]>>
    /\ \A p, q \in Inclusions : p[1] # q[2]
    /\ \A v, w \in Marking : Rank[v] \in Nat /\ (Rank[v] = Rank[w] => v = w)
    /\ TopK \in Nat \ {0, 1}

MinContent == 3
MaxSymdiff == 3
MaxResidual == 1
VatTolerance == 1

Smaller(x, y) == IF x < y THEN x ELSE y

Odd(n) == n % 2 = 1

Figures(p) == p.numbers

Divergence(a, b) == (a.content \ b.content) \cup (b.content \ a.content)

\* Long enough, about the same subject (an overlap of 0.60), in the same scope,
\* and nobody else's words.
Comparable(a, b) ==
    LET least == Smaller(Cardinality(a.content), Cardinality(b.content))
    IN  /\ least >= MinContent
        /\ 5 * Cardinality(a.content \cap b.content) >= 3 * least
        /\ Cardinality(Divergence(a, b)) <= MaxSymdiff
        /\ Divergence(a, b) \cap ScopeWords = {}
        /\ ~a.reported /\ ~b.reported

Residual(a, b, pair) == Divergence(a, b) \ {pair[1], pair[2]}

\* Pairs of words, one on each side only, that differ in nothing but themselves
\* and one more word, and stand in a table.
Opposed(a, b, table) ==
    {pair \in (a.content \ b.content) \X (b.content \ a.content) :
        pair \in table /\ Cardinality(Residual(a, b, pair)) <= MaxResidual}

BothWays(table) == table \cup {<<p[2], p[1]>> : p \in table}

\* The first such pair in sorted order.
FirstPair(pairs) ==
    CHOOSE p \in pairs : \A q \in pairs :
        \/ Rank[p[1]] < Rank[q[1]]
        \/ p[1] = q[1] /\ Rank[p[2]] <= Rank[q[2]]

The(S) == CHOOSE x \in S : TRUE

Abs(x) == IF x < 0 THEN -x ELSE x

\* One price quoted with and without VAT: one amount differs on each side, both
\* have one reading, and a rate leads from one to the other within a cent.
VatConsistent(incl, excl) ==
    LET onlyIncl == Figures(incl) \ Figures(excl)
        onlyExcl == Figures(excl) \ Figures(incl)
    IN  /\ Cardinality(onlyIncl) = 1 /\ Cardinality(onlyExcl) = 1
        /\ incl.units = excl.units
        /\ The(onlyIncl) \notin incl.ambiguous /\ The(onlyExcl) \notin excl.ambiguous
        /\ \E rate \in VatRates :
              Abs(The(onlyExcl) * rate - 100 * The(onlyIncl)) <= 100 * VatTolerance

\* One passage says inclusive, the other exclusive: a conflict unless the amounts
\* are one price.
InclusionVerdict(a, b, inclusiveLeft) ==
    LET incl == IF inclusiveLeft THEN a ELSE b
        excl == IF inclusiveLeft THEN b ELSE a
        vat  == (a.content \cup b.content) \cap VatMarkers # {}
    IN  IF /\ Figures(a) # Figures(b)
           /\ vat
           /\ Odd(a.negations) = Odd(b.negations)
           /\ VatConsistent(incl, excl)
        THEN "none" ELSE "inclusion"

NegationRule(a, b) ==
    /\ Odd(a.negations) # Odd(b.negations)
    /\ Cardinality(Divergence(a, b)) <= MaxResidual

ValueRule(a, b) ==
    /\ ~(Figures(a) \subseteq Figures(b)) /\ ~(Figures(b) \subseteq Figures(a))
    /\ a.units = b.units
    /\ Cardinality(Divergence(a, b)) <= MaxResidual

\* detect_conflict: the rule that finds a disagreement.  Inclusion owns its
\* verdict.  (The variant knows each inclusion pair in one orientation only.)
DetectWith(a, b, inclusions) ==
    LET incl == Opposed(a, b, inclusions)
    IN  IF ~Comparable(a, b) THEN "none"
        ELSE IF incl # {} THEN InclusionVerdict(a, b, FirstPair(incl) \in Inclusions)
        ELSE IF Opposed(a, b, BothWays(Antonyms)) # {} THEN "antonym"
        ELSE IF NegationRule(a, b) THEN "negation"
        ELSE IF ValueRule(a, b) THEN "value"
        ELSE "none"

DetectOneWay(a, b) == DetectWith(a, b, Inclusions)

DetectConflict(a, b) == DetectWith(a, b, BothWays(Inclusions))

-----------------------------------------------------------------------------
(* Near-duplicates *)

\* The tokens of a passage, one negation marker standing for all.
TokenSet(p) ==
    p.content \cup {<<"number", n>> : n \in Figures(p)}
      \cup (IF p.negations > 0 THEN {"not"} ELSE {})

Length(p) == Cardinality(p.content) + Cardinality(Figures(p)) + p.negations

\* Jaccard of at least 0.80 at nearly the same length.
Close(a, b) ==
    /\ 5 * Cardinality(TokenSet(a) \cap TokenSet(b)) >= 4 * Cardinality(TokenSet(a) \cup TokenSet(b))
    /\ Abs(Length(a) - Length(b)) <= 2

\* is_near_duplicate: a conflict is looked for first.
IsNearDuplicate(a, b) ==
    /\ DetectConflict(a, b) = "none"
    /\ \/ a = b
       \/ /\ Figures(a) = Figures(b)
          /\ Odd(a.negations) = Odd(b.negations)
          /\ Close(a, b)

-----------------------------------------------------------------------------
(* Sequences of passages *)

Window(passages) == 1..Smaller(TopK, Len(passages))

\* find_conflicts: the pairs within the window, each once.
FindConflicts(passages) ==
    {p \in Window(passages) \X Window(passages) :
        p[1] < p[2] /\ DetectConflict(passages[p[1]], passages[p[2]]) # "none"}

\* collapse_near_duplicates: what survives, each passage compared to the kept.
CollapseNearDuplicates(passages) ==
    LET kept[i \in 0..Len(passages)] ==
          IF i = 0 THEN {}
          ELSE IF \E k \in kept[i - 1] : IsNearDuplicate(passages[i], passages[k])
               THEN kept[i - 1]
               ELSE kept[i - 1] \cup {i}
    IN  kept[Len(passages)]

-----------------------------------------------------------------------------
(* Properties of two passages *)

\* The order of two candidates is the order of retrieval.  It decides neither
\* whether they disagree nor by which rule.
ConflictSymmetric(a, b) == DetectConflict(a, b) = DetectConflict(b, a)

\* "A contradiction collapsed into a corroboration" is the worst outcome: passages
\* that share their words count as one source only if they agree in polarity and
\* figures, and if they do not, the conflict is found unless one reports others.
NeverCorroborates(a, b) ==
    a.content = b.content /\ Cardinality(a.content) >= MinContent =>
      LET polarity == Odd(a.negations) # Odd(b.negations)
          figures  == ~(Figures(a) \subseteq Figures(b)) /\ ~(Figures(b) \subseteq Figures(a))
      IN  /\ polarity \/ figures => CollapseNearDuplicates(<<a, b>>) = {1, 2}
          /\ (polarity \/ (figures /\ a.units = b.units)) /\ ~a.reported /\ ~b.reported
               => FindConflicts(<<a, b>>) = {<<1, 2>>}
=============================================================================
