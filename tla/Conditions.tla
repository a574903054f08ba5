------------------------------ MODULE Conditions ------------------------------
(***************************************************************************)
(* What limits a statement.  The hedge guard (answer/verify_hedges.py):    *)
(* what the source permits, bounds or softens is not claimed without, and  *)
(* no absolute is claimed that the source does not state.  The exclusion   *)
(* guard (answer/verify_exclusions.py): a group the unit excludes is not   *)
(* claimed to be included.  The condition guard                            *)
(* (answer/verify_conditions.py and answer/verify_conjunct_presence.py): a *)
(* condition the source attaches to a rule is not dropped from the rule.   *)
(***************************************************************************)
EXTENDS Lexicon

CONSTANTS Absolutizers,     \* phrases
          HedgePhrases,     \* <<phrase, class>>
          HedgeEquivalents, \* <<phrase, class>>: hedge a claim, not a unit
          Purposes,         \* phrases that open a purpose clause: "so that"
          Tot, UpTo,        \* "tot"; "tot" and "to"
          Amounts,          \* numerals with a sign: money, percentages
          Degrees,          \* before "mogelijk": "zo", "as"
          Copulas, Complements

CONSTANTS Openers, Subordinating, ExclusionOpeners, \* one word; the last two within Openers
          OpenerPhrases,      \* two words, <<phrase, bounds from below>>
          PartyRestrictors,   \* "met", "die": open a restriction after a party
          Concessives, ExceptionOpeners, \* phrases
          ClaimConditions,    \* phrases by which a claim states a condition
          ScopeQualifiers,
          Consequents,        \* phrases: "dan", "then", "in dat geval"
          VerbSubjects,       \* after the verb that opens a conditional sentence
          Nots, Then,         \* "niet" and "not"; "dan"
          Ands,               \* "en", "and"
          PresenceOpeners, PresenceJoiners, \* open a condition, join its conjuncts
          PresenceWords,      \* words that open a claim's condition otherwise, in order
          CrossMarkers        \* phrases of a claim in another language

-------------------------------------------------------------------------------
\* Hedges and exclusions

HedgeClasses == {"permission", "upper", "softener"}

\* A purpose clause does not hedge the main fact.
BeforePurpose(s) == Before(s, UNION {Starts(s, p) : p \in Purposes})

\* A modal with a negation within five words is a prohibition, unless the negation
\* bounds a number.
Prohibited(s, end) ==
    \E k \in (end + 1)..(end + 5) :
        k <= Len(s) /\ s[k] \in Markers /\ k \notin {b.marker : b \in SplitBounds(s)}

\* TOT_AMOUNT, TO_SAME_AMOUNT
UpToAmount(s) == \E i \in 1..(Len(s) - 1) : s[i] = Tot /\ s[i + 1] \in Amounts
UpToNumber(s) == \E i \in 1..(Len(s) - 1) : s[i] \in UpTo /\ s[i + 1] \in Numerals

\* The classes of a text's phrases alone.
PhraseHedges(text) ==
    LET s == BeforePurpose(TokensOf(text))
    IN  (IF \E b \in SplitBounds(s) : b.direction = "upper" THEN {"upper"} ELSE {})
          \cup {h[2] : h \in {p \in HedgePhrases : \E i \in Starts(s, p[1]) :
                                p[2] = "permission" => ~Prohibited(s, i + Len(p[1]) - 1)}}

\* hedges_in: "tot" before an amount is an upper bound too, wherever it stands.
HedgesIn(text) == PhraseHedges(text) \cup (IF UpToAmount(TokensOf(text)) THEN {"upper"} ELSE {})

\* "is allowed", "possible to": said of the fact, not of a degree.
Predicative(s, from, to) ==
    \/ \E k \in (from - 3)..(from - 1) : k >= 1 /\ s[k] \in Copulas
    \/ to < Len(s) /\ s[to + 1] \in Complements

\* claim_hedge_equivalents.
EquivalentHedges(text) ==
    LET s == TokensOf(text)
        hedges(p, i) ==
            LET to == i + Len(p[1]) - 1
            IN  /\ ~\E k \in {i - 1, i - 2} : k >= 1 /\ s[k] \in Degrees
                /\ p[2] = "permission" => Predicative(s, i, to)
                /\ ~\E k \in ((i - 3)..(to + 3)) \ (i..to) : k \in DOMAIN s /\ s[k] \in Markers
    IN  {p[2] : p \in {x \in HedgeEquivalents : \E i \in Starts(s, x[1]) : hedges(x, i)}}

\* CLAIM_RANGE: a claim that states both ends.
StatesRange(s) ==
    \E i \in 1..(Len(s) - 2) : s[i] \in Numerals /\ s[i + 1] \in UpTo /\ s[i + 2] \in Numerals

\* How much of a sentence the claim repeats; a shared value anchors it twice over.
Shared(c, s) ==
    Cardinality({t \in Found(s) : Content(t) /\ Carried(c, t) = "has"})
      + 2 * Cardinality({i \in DOMAIN s : s[i] \in Numerals \cap c.claim})

\* The one sentence the claim repeats most of.
Repeated(c, passage) ==
    LET of(p) == Shared(c, TokensOf(At(passage, p)))
    IN  {At(passage, p) : p \in {x \in Sentences(passage) :
            of(x) >= 2 /\ \A y \in Sentences(passage) \ {x} : of(y) < of(x)}}

\* hedge_guard, for a claim that states a fact of its own.
HedgeGuard(claim, passage, cross) ==
    LET tokens == TokensOf(claim)
    IN  \/ HasAny(tokens, Absolutizers) /\ ~HasAny(TokensOf(passage), Absolutizers)
        \/ \E best \in Repeated(Carrier(claim, cross, FALSE), passage) :
              \E class \in HedgesIn(best) \ (HedgesIn(claim) \cup EquivalentHedges(claim)) :
                 class = "upper" =>
                   /\ ~StatesRange(tokens)
                   /\ ~("upper" \notin PhraseHedges(best) /\ UpToNumber(tokens))

-----------------------------------------------------------------------------
(* Property *)

\* A sentence said without its only hedge is refused.
HedgeKept(passage) ==
    \A h \in HedgePhrases : \A i \in Starts(passage, h[1]) :
        LET claim == SubSeq(passage, 1, i - 1) \o Rest(passage, i + Len(h[1]))
        IN  /\ Stop \notin Found(passage)
            /\ Cardinality({w \in Found(TokensOf(claim)) : Content(w)}) >= 2
            /\ Found(passage) \cap (Markers \cup UpTo) = {}
            /\ ~HasAny(passage, Purposes)
            /\ ~HasAny(claim, {p[1] : p \in HedgePhrases \cup HedgeEquivalents})
            => HedgeGuard(claim, passage, FALSE)

-----------------------------------------------------------------------------
(* The exclusion guard *)

CONSTANTS ExclusionMarkers, ExcludedPredicates, \* phrases before and after a group
          UniversalWords, GroupVerbs, GroupPrepositions, Joiners, Relatives,
          ForWords, NegativeParticles, \* "voor", "for"; "niet", "not", "geen", "no"
          Refusals,                    \* _BOUND_OR_NEGATION
          UnitWords                    \* words of a unit: a frequency, not everyone

UntilVerb(s) == Before(s, {i \in DOMAIN s : s[i] \in GroupVerbs})

BeforeRelative(s) == Before(s, {i \in DOMAIN s : s[i] \in Relatives})

\* A group: its head, and what its first preposition adds.
Group(s) ==
    LET marks == {i \in DOMAIN s : s[i] \in GroupPrepositions /\ \E j \in 1..(i - 1) : Content(s[j])}
        mark  == IF marks = {} THEN Len(s) + 1 ELSE Min(marks)
    IN  [head |-> SelectSeq(SubSeq(s, 1, mark - 1), Content),
         qualified |-> marks # {},
         qualifier |-> SelectSeq(SubSeq(s, mark + 1, Len(s)), Content)]

\* split_groups: a relative clause describes the group and ends the list.
SplitGroups(s) == {g \in {Group(part) : part \in Between(BeforeRelative(s), Joiners)} : g.head # <<>>}

\* excluded_groups, of a sentence.
ExcludedGroups(s) ==
    UNION {UNION {SplitGroups(UntilVerb(Rest(s, i + Len(m)))) : i \in Starts(s, m)} : m \in ExclusionMarkers}
      \cup (IF Len(s) > 1 /\ s[1] \in ForWords /\ Found(s) \cap NegativeParticles # {}
            THEN SplitGroups(UntilVerb(Rest(s, 2))) ELSE {})
      \cup UNION {SplitGroups(SubSeq(s, 1, i - 1)) : i \in UNION {Starts(s, p) : p \in ExcludedPredicates}}

\* A claim that is negated, or excludes something itself, includes nobody.
Restates(tokens) == ExcludedGroups(tokens) # {} \/ Found(tokens) \cap Refusals # {}

\* "Everyone", unless it counts time: "elke week".
Universal(tokens) ==
    \E i \in DOMAIN tokens :
        /\ tokens[i] \in UniversalWords
        /\ i < Len(tokens) => tokens[i + 1] \notin Numerals \cup UnitWords

\* An actor is carried by any word for it.
GroupCarried(c, w) ==
    IF ActorTerm(w) THEN IF NamesRole(c.claim, w) THEN "has" ELSE "lacks" ELSE Carried(c, w)

Assessed(c, words) == SelectSeq(words, LAMBDA w : GroupCarried(c, w) # "unknown")

\* The claim is about a group: it carries all of it that it can be asked about.
\* Where a role heads the group the rest of the head describes the role.  A
\* qualifier is judged as a whole, or by its number.
AboutGroup(c, g) ==
    LET roles == \E i \in DOMAIN g.head : ActorTerm(g.head[i])
        known == Assessed(c, SelectSeq(g.head, LAMBDA w : roles => ActorTerm(w)) \o g.qualifier)
    IN  /\ g.qualified =>
             /\ Assessed(c, g.qualifier) # <<>>
             /\ Assessed(c, g.qualifier) = g.qualifier \/ Found(g.qualifier) \cap Numerals # {}
        /\ known # <<>>
        /\ \A i \in DOMAIN known : GroupCarried(c, known[i]) = "has"

\* exclusion_guard.
ExclusionGuard(claim, passage, cross) ==
    LET tokens == TokensOf(claim)
        c      == Carrier(claim, cross, FALSE)
    IN  /\ ~Restates(tokens)
        /\ \E p \in Sentences(passage) : \E g \in ExcludedGroups(TokensOf(At(passage, p))) :
              Universal(tokens) \/ AboutGroup(c, g)

-----------------------------------------------------------------------------
(* Property *)

\* A claim that names each word of an excluded group, and denies nothing, is
\* refused, whatever else it says.
ExclusionKept(passage, claim) ==
    \A m \in ExclusionMarkers : \A i \in Starts(passage, m) :
        LET group == UntilVerb(Rest(passage, i + Len(m)))
        IN  /\ Found(passage) \cap {Break, Stop} = {} /\ ~HasAny(claim, ExclusionMarkers \cup ExcludedPredicates)
            /\ Found(claim) \cap (Refusals \cup NegativeParticles) = {}
            /\ \E j \in DOMAIN group : Content(group[j])
            /\ Found(group) \cap Relatives = {}
            /\ \A j \in DOMAIN group :
                  group[j] \in GroupPrepositions => j < Len(group) /\ Content(group[j + 1])
            /\ {w \in Found(group) : Content(w)} \subseteq Found(claim)
            => ExclusionGuard(claim, passage, FALSE)

-------------------------------------------------------------------------------
\* Conditions

ASSUME OpenerAssumption == Subordinating \cup ExclusionOpeners \subseteq Openers

IsShared(c, t) == Content(t) /\ Carried(c, t) = "has"

\* How much of a sentence the claim states, each word once; over two languages a
\* role or a hedge of the same class counts as the word.
Stated(c, claim, s, cross) ==
    Cardinality({t \in Found(s) :
        /\ t \notin Stopwords
        /\ \/ Carried(c, t) = "has"
           \/ cross /\ NamesRole(c.claim, t)
           \/ cross /\ HedgesIn(<<t>>) \cap HedgesIn(claim) # {}})

\* The sentences the claim may be about: all that it states most of.
Ties(c, claim, passage, cross) ==
    LET of(p) == Stated(c, claim, TokensOf(At(passage, p)), cross)
    IN  {p \in Sentences(passage) : of(p) >= 2 /\ \A q \in Sentences(passage) : of(q) <= of(p)}

\* lacks: none of a condition's words is in the claim, or at least half is missing;
\* over two languages, none of those the glossary knows, if it knows half.
Missing(c, words) == SelectSeq(words, LAMBDA w : Content(w) /\ Carried(c, w) = "lacks")

Lacks(c, words, half) ==
    LET content == Len(SelectSeq(words, Content))
        known   == Len(SelectSeq(words, LAMBDA w : Content(w) /\ Carried(c, w) # "unknown"))
        missing == Len(Missing(c, words))
    IN  /\ known > 0
        /\ IF c.cross THEN missing = known /\ 2 * known >= content
           ELSE IF half THEN 2 * missing >= content /\ missing > 0
           ELSE missing = content

\* The claim states a condition of its own.
Conditioned(tokens) ==
    \/ HasAny(tokens, ClaimConditions)
    \/ \E i \in DOMAIN tokens : tokens[i] \in Openers /\ (i = 1 \/ tokens[i - 1] \notin Nots)

\* lacks_segment: of such a claim more than half must be missing.
LacksSegment(c, words, tokens) ==
    /\ Lacks(c, words, TRUE)
    /\ ~c.cross /\ Conditioned(tokens) => 2 * Len(Missing(c, words)) > Len(SelectSeq(words, Content))

\* A restriction of a subject the claim does not speak about, to the clause's end.
OutOfScope(c, s) ==
    LET opens == {i \in 2..Len(s) : /\ s[i] \in PartyRestrictors
                                    /\ i = 2 \/ (i = 3 /\ s[1] \in Articles)
                                    /\ ActorTerm(s[i - 1]) /\ ~NamesActor(c.claim, s[i - 1])}
    IN  IF opens = {} THEN {} ELSE Min(opens)..Len(s)

\* in_subject_of_role: the clause opens with a role and has no verb up to here.
InSubject(s, i) ==
    LET start == IF Len(s) > 1 /\ s[1] \in Articles THEN 2 ELSE 1
    IN  /\ start <= Len(s) /\ ActorTerm(s[start])
        /\ \A k \in (start + 1)..(i - 1) : s[k] \notin GroupVerbs

\* Where a condition opens.  An exclusion that the claim makes too is left to the
\* exclusion guard, a bound from below to the bounds.
Opens(s, i, tokens) ==
    LET phrases == {p \in OpenerPhrases : i \in Starts(s, p[1])}
    IN  \/ s[i] \in PartyRestrictors /\ i > 1 /\ (ActorTerm(s[i - 1]) \/ InSubject(s, i))
        \/ phrases # {} /\ \E p \in phrases : ~(p[2] /\ "lower" \in Directions(tokens))
        \/ /\ phrases = {}
           /\ s[i] \in Openers /\ (i = 1 \/ s[i - 1] \notin Nots)
           /\ s[i] \in ExclusionOpeners => Found(tokens) \cap Refusals = {}

\* The condition: up to the next word the claim shares, or a whole clause if the
\* opener subordinates and the claim speaks of more than that clause.  (The variant
\* always stops at the shared word.)
UpToShared(c, s, i) == Before(Rest(s, i + 1), {k \in DOMAIN Rest(s, i + 1) : IsShared(c, Rest(s, i + 1)[k])})

SegmentShort(c, s, i, best) == UpToShared(c, s, i)

Segment(c, s, i, best) ==
    LET count(t) == Len(SelectSeq(t, LAMBDA w : IsShared(c, w)))
    IN  IF s[i] \in Subordinating /\ count(best) > count(Rest(s, i + 1)) THEN Rest(s, i + 1)
        ELSE UpToShared(c, s, i)

DropsCondition(c, s, best, tokens) ==
    \E i \in 1..(Len(s) - 1) :
        /\ i \notin OutOfScope(c, s)
        /\ Opens(s, i, tokens)
        /\ s[i] \in Openers \/ Segment(c, s, i, best) # <<>>
        /\ LacksSegment(c, Segment(c, s, i, best), tokens)

\* "vaste en variabele toeslagen": through coordinations to a shared word.
DropsQualifier(c, s) ==
    \E i \in 1..(Len(s) - 1) :
        /\ s[i] \in ScopeQualifiers /\ Lacks(c, <<s[i]>>, FALSE)
        /\ \E n \in 0..Len(s) :
              LET j == i + 1 + 2 * n
              IN  /\ j <= Len(s) /\ IsShared(c, s[j])
                  /\ \A m \in 0..(n - 1) : s[i + 1 + 2 * m] \in Ands

\* A coordinated requirement between two shared words.
DropsRequirement(c, s) ==
    \E i \in 1..(Len(s) - 3) :
        /\ IsShared(c, s[i]) /\ s[i + 1] \in Ands /\ Content(s[i + 2]) /\ IsShared(c, s[i + 3])
        /\ Lacks(c, <<s[i + 2]>>, FALSE)

\* A sentence that opens with "then" holds under the one before it.
DropsAntecedent(c, passage, p) ==
    LET s == TokensOf(At(passage, p))
        before == {q \in Sentences(passage) : q[2] < p[1]}
    IN  /\ Len(s) > 1 /\ \E phrase \in Consequents : 1 \in Starts(s, phrase)
        /\ \E q \in before : (\A r \in before : r[1] <= q[1]) /\ Lacks(c, TokensOf(At(passage, q)), TRUE)

\* A conditional sentence that opens with its verb: up to ", dan".
DropsVerbClause(c, sentence) ==
    LET s == TokensOf(sentence)
        thens == {i \in DOMAIN s : s[i] = Then /\ i > 3}
    IN  /\ Len(s) > 2 /\ s[2] \in VerbSubjects /\ s[1] \notin Stopwords
        /\ thens # {} /\ Starts(sentence, <<Break, Then>>) # {}
        /\ Lacks(c, SubSeq(s, 1, Min(thens) - 1), FALSE)

Concedes(tokens, s) ==
    HasAny(tokens, Concessives) /\ ~HasAny(s, Concessives) /\ HasAny(s, ExceptionOpeners)

-----------------------------------------------------------------------------
(* Conjuncts *)

\* What follows the first word of a set, clause breaks included.
FromOn(text, words) ==
    LET at == {i \in DOMAIN text : text[i] \in words}
    IN  IF at = {} THEN <<>> ELSE Rest(text, Min(at) + 1)

\* A list after a comma belongs to the condition while a coordinator joins it.
Coordinated(text, joiners) ==
    SubSeq(text, 1, Max({p[2] : p \in {q \in Parts(text, {Break}) :
                                       q[1] = 1 \/ Found(At(text, q)) \cap joiners # {}}}))

\* Where the conjuncts of a sentence's condition lie, in what follows its opener,
\* and the words of one that the rule itself does not have.  In Dutch the last one
\* ends in a verb they share.
ConditionOf(sentence) == Coordinated(FromOn(sentence, PresenceOpeners), PresenceJoiners)

ConjunctWords(sentence, p) ==
    LET rule == Found(Before(sentence, {i \in DOMAIN sentence : sentence[i] \in PresenceOpeners}))
    IN  SelectSeq(TokensOf(At(ConditionOf(sentence), p)), LAMBDA t : Content(t) /\ t \notin rule)

Conjuncts(sentence) ==
    {p \in Parts(ConditionOf(sentence), {Break} \cup PresenceJoiners) : ConjunctWords(sentence, p) # <<>>}

Required(sentence, p, dutch) ==
    LET words == ConjunctWords(sentence, p)
    IN  IF dutch /\ Len(words) > 1 /\ words[Len(words)] \notin Numerals
             /\ \A q \in Conjuncts(sentence) : q[1] <= p[1]
        THEN SubSeq(words, 1, Len(words) - 1) ELSE words

\* The claim's own condition.
OwnCondition(claim) ==
    LET others == {k \in DOMAIN PresenceWords : PresenceWords[k] \in Found(claim)}
    IN  IF Found(claim) \cap PresenceOpeners # {} THEN {FromOn(claim, PresenceOpeners)}
        ELSE IF others # {} THEN {FromOn(claim, {PresenceWords[Min(others)]})} ELSE {}

\* dropped_conjunct: the claim's condition has fewer conjuncts than the unit's, and
\* one of the unit's is not there.
DroppedConjunct(c, claim, sentence, dutch) ==
    LET n == Cardinality(Conjuncts(sentence))
    IN  /\ n >= 2
        /\ \E p \in Conjuncts(sentence) :
              \A i \in DOMAIN Required(sentence, p, dutch) : Carried(c, Required(sentence, p, dutch)[i]) # "has"
        /\ \E own \in OwnCondition(claim) : Cardinality(Parts(own, {Break} \cup PresenceJoiners)) < n

-----------------------------------------------------------------------------

\* condition_guard.  presence is VerifyOptions.conjunct_presence: where a claim in
\* another language states a condition, the glossary may show words present only.
\* dutch says that the unit is.
ConditionGuard(claim, passage, cross, presence, dutch) ==
    LET tokens == TokensOf(claim)
        satisfy == presence /\ cross /\ HasAny(tokens, CrossMarkers)
        c == Carrier(claim, cross, satisfy)
    IN  /\ cross => Glossary # {}
        /\ \E p \in Ties(c, claim, passage, cross) :
              LET sentence == At(passage, p)
                  best == TokensOf(sentence)
              IN  \/ satisfy /\ DroppedConjunct(Carrier(claim, cross, FALSE), claim, sentence, dutch)
                  \/ Concedes(tokens, best)
                  \/ DropsAntecedent(c, passage, p)
                  \/ DropsVerbClause(c, sentence)
                  \/ \E s \in Clauses(sentence) :
                        \/ DropsCondition(c, s, best, tokens)
                        \/ DropsQualifier(c, s)
                        \/ DropsRequirement(c, s)

-----------------------------------------------------------------------------
(* Property *)

\* A rule said without the condition that follows it in the passage is refused: if
\* the condition subordinates, half of its words being dropped is enough.
ConditionKept(passage) ==
    \A i \in 2..(Len(passage) - 1) :
        LET rule      == SubSeq(passage, 1, i - 1)
            condition == SelectSeq(Rest(passage, i + 1), Content)
            dropped   == SelectSeq(condition, LAMBDA w : Carried(Carrier(rule, FALSE, FALSE), w) = "lacks")
        IN  /\ passage[i] \in Subordinating
            /\ Found(passage) \cap (Nots \cup {Break, Stop}) = {} /\ ~Conditioned(rule)
            /\ Cardinality({w \in Found(rule) : Content(w)}) >= 2
            /\ dropped # <<>> /\ 2 * Len(dropped) >= Len(condition)
            => ConditionGuard(rule, passage, FALSE, FALSE, FALSE)

===============================================================================
