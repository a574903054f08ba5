----------------------------- MODULE Oppositions -----------------------------
(***************************************************************************)
(* Guards over pairs of opposites: qualifiers (qualifier_guard in          *)
(* answer/verify_guards_model.py, verify_qualifier_pairs.py), acts         *)
(* (verify_verbpairs.py), sender and recipient (verify_relations.py),      *)
(* kinds of one thing (verify_subtypes.py), defined terms                  *)
(* (verify_definitions.py) and the language-free part of a condition       *)
(* (verify_conjuncts.py).                                                  *)
(***************************************************************************)
EXTENDS Conditions, Parties

CONSTANTS Opposites,        \* QUALIFIER_PAIRS: <<forms, forms>>
          Relational,       \* those of them that compare ("before", "earlier")
          NumberPairs,      \* QualifierPair: <<forms, forms>>
          Acts,             \* VerbPair: <<phrases, phrases>>; two words are a verb and its particle
          Transfers,        \* RELATION_VERBS: <<verb, class>>
          RecipientMarkers, \* "aan", "bij", "to"
          SubtypeHeads,     \* sets of forms of one head
          Compounds,        \* <<word, form>>: a compound that ends in a head's form
          BareBefore,       \* words before a bare use
          Written,          \* defined terms as they are written
          Capitals,         \* proper names
          ConjunctOpeners   \* "mits", "only if"
CONSTANTS QualifierWindow, QualifierNumberWindow

ASSUME QualifierAssumption == QualifierWindow \in Nat /\ QualifierNumberWindow \in Nat

Sides == {<<1, 2>>, <<2, 1>>}

ContextAt(s, places) == {s[k] : k \in {x \in places : x \in DOMAIN s /\ s[x] \notin Stopwords}}

-----------------------------------------------------------------------------
(* Qualifiers *)

\* The words around a place, but for the pair's own.
Around(s, i, pair) == ContextAt(s, ((i - QualifierWindow)..(i + QualifierWindow)) \ {i}) \ (pair[1] \cup pair[2])

NamesBoth(s, i, other) ==
    \E k \in ((i - QualifierWindow)..(i + QualifierWindow)) \ {i} : k \in DOMAIN s /\ s[k] \in other

NextContent(s, i) ==
    LET after == {k \in (i + 1)..Len(s) : s[k] \notin Stopwords}
    IN  IF after = {} THEN {} ELSE {s[Min(after)]}

\* "before X" for "after X": the same word follows.
RelationalSwap(s, i, passage, same, other) ==
    LET at(forms) == \E u \in Clauses(passage) : \E j \in DOMAIN u :
                        u[j] \in forms /\ NextContent(u, j) = NextContent(s, i)
    IN  NextContent(s, i) # {} /\ at(other) /\ ~at(same)

\* How well a place of the passage fits the claim's; the best of one side.
Scores(context, passage, pair, forms) ==
    UNION {{Cardinality(Around(c, k, pair) \cap context) : k \in {x \in DOMAIN c : c[x] \in forms}} :
              c \in Clauses(passage)}

\* qualifier_guard.  (The variant forgets to weigh the two sides.)
SwappedAnywhere(context, passage, pair, same, other) == Scores(context, passage, pair, other) # {}

Swapped(context, passage, pair, same, other) ==
    LET mine == Scores(context, passage, pair, same)  theirs == Scores(context, passage, pair, other)
    IN  theirs # {} /\ (mine = {} \/ Max(theirs) > Max(mine))

QualifierGuard(claim, passage) ==
    \E pair \in Opposites : \E side \in Sides : \E s \in Clauses(claim) :
        \E i \in {x \in DOMAIN s : s[x] \in pair[side[1]]} :
            LET same == pair[side[1]]  other == pair[side[2]]
            IN  /\ ~NamesBoth(s, i, other)
                /\ IF pair \in Relational THEN RelationalSwap(s, i, passage, same, other)
                   ELSE Swapped(Around(s, i, pair), passage, pair, same, other)

\* qualifier_pair_guard: the side of a number is that of the nearest form.
SideNear(s, i, pair) ==
    LET near == Nearest(i, QualifierNumberWindow, {j \in DOMAIN s : s[j] \in pair[1] \cup pair[2]})
    IN  {IF s[j] \in pair[1] THEN 1 ELSE 2 : j \in near}

QualifierPairGuard(claim, passage) ==
    \E pair \in NumberPairs : \E s \in Clauses(claim) : \E i \in {x \in DOMAIN s : s[x] \in Numerals} :
        \E side \in SideNear(s, i, pair) :
            LET holding == {u \in Clauses(passage) : s[i] \in Found(u)}
            IN  /\ \A u \in holding : Found(u) \cap pair[side] = {}
                /\ \E u \in holding : \E j \in DOMAIN u :
                      u[j] = s[i] /\ SideNear(u, j, pair) \ {side} # {}

-----------------------------------------------------------------------------
(* Acts *)

\* Where the forms of one act stand; a separable verb stands in two places.
FormPlaces(s, forms) ==
    UNION {{i \in DOMAIN s : Len(f) = 1 /\ s[i] = f[1]}
             \cup UNION {LET after == {k \in (i + 1)..Len(s) : s[k] = f[2]}
                         IN  IF after = {} THEN {} ELSE {i, Min(after)} :
                         i \in {x \in DOMAIN s : Len(f) = 2 /\ s[x] = f[1]}} : f \in forms}

\* side_in: the one act of a clause that names one only.
ActOf(s, pair) ==
    {side[1] : side \in {x \in Sides : FormPlaces(s, pair[x[1]]) # {} /\ FormPlaces(s, pair[x[2]]) = {}}}

\* verb_pair_guard: the other act in a clause about the same thing, the claim's own
\* nowhere in the unit.  A short number is no such thing.
VerbPairGuard(claim, passage, cross) ==
    /\ cross => Glossary # {}
    /\ \E pair \in Acts : \E s \in Clauses(claim) : \E act \in ActOf(s, pair) :
          LET rest(u) == {u[i] : i \in DOMAIN u \ (FormPlaces(u, pair[1]) \cup FormPlaces(u, pair[2]))}
              c == [claim |-> rest(s), cross |-> cross, satisfyOnly |-> FALSE]
          IN  /\ \A u \in Clauses(passage) : act \notin ActOf(u, pair)
              /\ \E u \in Clauses(passage) : ActOf(u, pair) # {} /\ \E w \in rest(u) \ ShortNumerals : IsShared(c, w)

-----------------------------------------------------------------------------
(* Sender and recipient *)

TransfersAt(s) == {i \in DOMAIN s : \E t \in Transfers : t[1] = s[i]}

TransferClass(w) == {t[2] : t \in {x \in Transfers : x[1] = w}}

Mentions(s) == {i \in DOMAIN s : ActorOf(s[i]) # {} /\ ~IsPronoun(s[i])}

\* "aan de werkgever": behind a marker, an article between them or not.
MarkedRecipient(s, i) ==
    \/ i > 1 /\ s[i - 1] \in RecipientMarkers
    \/ i > 2 /\ s[i - 1] \in Articles /\ s[i - 2] \in RecipientMarkers

ActorsAt(s, places) == UNION {ActorOf(s[i]) : i \in places}

\* directions_in: who a clause says transfers to whom.  It is resolved for two
\* actors and one kind of transfer.  English puts the recipient after the verb,
\* Dutch the sender before it.
RecipientOf(s, verb, english) ==
    LET marked == {i \in Mentions(s) : MarkedRecipient(s, i)}
        after  == {i \in Mentions(s) : i > verb}
        before == {i \in Mentions(s) : i < verb}
        others(i) == ActorsAt(s, Mentions(s)) \ ActorOf(s[i])
    IN  IF marked # {} THEN ActorOf(s[Max(marked)])
        ELSE IF english /\ after # {} THEN ActorOf(s[Min(after)])
        ELSE others(IF before # {} THEN Max(before) ELSE Min(Mentions(s)))

DirectionOf(s, english) ==
    LET actors == ActorsAt(s, Mentions(s))
    IN  IF \/ TransfersAt(s) = {}
           \/ Cardinality(UNION {TransferClass(s[i]) : i \in TransfersAt(s)}) # 1
           \/ Cardinality(actors) # 2
        THEN {}
        ELSE LET recipient == RecipientOf(s, Max(TransfersAt(s)), english)
             IN  {[class |-> TransferClass(s[Max(TransfersAt(s))]),
                   sender |-> actors \ recipient, recipient |-> recipient]}

Transferred(text, english) == UNION {DirectionOf(s, english) : s \in Clauses(text)}

\* relation_guard.
RelationGuard(claim, claimEnglish, passage, english) ==
    \E d \in Transferred(claim, claimEnglish) :
        /\ d \notin Transferred(passage, english)
        /\ [d EXCEPT !.sender = d.recipient, !.recipient = d.sender] \in Transferred(passage, english)

-----------------------------------------------------------------------------
(* Kinds and definitions *)

\* bare_use: no modifier stands before it.
BareUse(s, i) ==
    i = 1 \/ s[i - 1] \in Stopwords \cup Articles \cup Numerals \cup UnitWords \cup GroupPrepositions \cup BareBefore

\* subtype_guard: the claim is about a thing, the passage only about kinds of it.
SubtypeGuard(claim, passage) ==
    LET tokens == TokensOf(claim)  unit == TokensOf(passage)
    IN  \E forms \in SubtypeHeads :
          LET heads  == {i \in DOMAIN unit : unit[i] \in forms}
              scoped == {i \in heads : i > 1 /\ unit[i - 1] \in ScopeQualifiers}
          IN  /\ \E i \in DOMAIN tokens : tokens[i] \in forms /\ BareUse(tokens, i)
              /\ heads = scoped
              /\ scoped # {} \/ \E i \in DOMAIN unit : \E f \in forms : <<unit[i], f>> \in Compounds

\* A term as it is written, but not where a sentence starts anyway.
WritesTerm(text, term) ==
    \E p \in Sentences(text) : \E i \in 2..Len(TokensOf(At(text, p))) : TokensOf(At(text, p))[i] = term

\* definition_guard, for the definitions <<qualifier, noun, term>> that the unit
\* has or its document gives it.
DefinitionGuard(claim, definitions, cross) ==
    LET c == Carrier(claim, cross, FALSE)
        tokens == TokensOf(claim)
    IN  /\ cross => Glossary # {}
        /\ \E d \in definitions :
              /\ Carried(c, d[2]) = "has" /\ Carried(c, d[1]) = "lacks"
              /\ ~\E i \in 2..Len(tokens) : d[3] \in Written /\ tokens[i] = d[3]

\* A definition of another unit of the document governs a unit that uses its term.
Governing(own, documents, passage) ==
    own \cup {d \in documents :
                IF d[3] \in Written THEN WritesTerm(passage, d[3])
                ELSE Starts(TokensOf(passage), <<d[1], d[2]>>) # {}}

-----------------------------------------------------------------------------
(* The language-free part of a condition *)

\* language_free: its numbers and, but for the first word, its names.
LanguageFree(s) == {s[i] : i \in {x \in DOMAIN s : s[x] \in Numerals \/ (s[x] \in Capitals /\ x > 1)}}

\* The sentence a claim follows: one that holds a token no other holds, if all such
\* tokens agree; else the one the claim repeats most of.
Anchors(claim, passage) ==
    {p \in Sentences(passage) : \E t \in LanguageFree(TokensOf(claim)) :
        /\ t \in LanguageFree(TokensOf(At(passage, p)))
        /\ \A q \in Sentences(passage) \ {p} : t \notin LanguageFree(TokensOf(At(passage, q)))}

RepeatedWords(c, passage) ==
    LET of(p) == Cardinality({t \in Found(TokensOf(At(passage, p))) : IsShared(c, t)})
    IN  {p \in Sentences(passage) : of(p) >= 2 /\ \A q \in Sentences(passage) \ {p} : of(q) < of(p)}

Followed(c, claim, passage) ==
    LET anchors == Anchors(claim, passage)
    IN  IF Cardinality(anchors) > 1 THEN {} ELSE IF anchors # {} THEN anchors ELSE RepeatedWords(c, passage)

\* conjunct_token_guard: a conjunct none of whose numbers or names the claim has.
ConjunctTokenGuard(claim, passage, cross) ==
    \E p \in Followed(Carrier(claim, cross, FALSE), claim, passage) :
        LET condition == Coordinated(FromOn(At(passage, p), ConjunctOpeners), Ands)
            parts == {q \in Parts(condition, {Break} \cup Ands) : TokensOf(At(condition, q)) # <<>>}
        IN  /\ Cardinality(parts) >= 2
            /\ \E q \in parts :
                  LET free == LanguageFree(TokensOf(At(condition, q)))
                  IN  free # {} /\ free \cap Found(claim) = {}

-----------------------------------------------------------------------------
(* The guards together, but for those over figures, names, definitions and the *)
(* rows of a table                                                             *)

\* guards: each may refuse, whatever the others say.
Guards(c, passage) ==
    \/ RoleGuard(c, passage)
    \/ HedgeGuard(c, passage, FALSE)
    \/ ExclusionGuard(c, passage, FALSE)
    \/ ConditionGuard(c, passage, FALSE, FALSE, FALSE)
    \/ PartySwap(c, passage)
    \/ Negation(c, passage) \/ ClauseNegation(c, passage) \/ Truncation(c, passage)
    \/ QualifierGuard(c, passage) \/ QualifierPairGuard(c, passage)
    \/ VerbPairGuard(c, passage, FALSE) \/ SubtypeGuard(c, passage)
    \/ RelationGuard(c, TRUE, passage, TRUE) \/ RelationGuard(c, FALSE, passage, FALSE)
    \/ ConjunctTokenGuard(c, passage, FALSE)
    \/ PolaritySwap(c, passage) \/ Scope(c, passage)

\* The same over two languages, through the glossary.
GuardsAcross(c, passage, presence) ==
    \/ HedgeGuard(c, passage, TRUE)
    \/ ExclusionGuard(c, passage, TRUE)
    \/ ConditionGuard(c, passage, TRUE, presence, TRUE)
    \/ SubjectSwap(c, passage, TRUE)
    \/ VerbPairGuard(c, passage, TRUE)
    \/ ConjunctTokenGuard(c, passage, TRUE)

\* _gate_guards: what the alignment of the gate may have passed over, in the claim or
\* in the item of a list that it was made of.
GateGuards(c, item, passage) ==
    \/ ClauseNegation(c, passage) \/ Truncation(c, passage)
    \/ item # <<>> /\ Truncation(item, passage)
    \/ ExclusionGuard(c, passage, FALSE) \/ SubtypeGuard(c, passage)
    \/ ConditionGuard(c, passage, FALSE, FALSE, FALSE)
    \/ ConjunctTokenGuard(c, passage, FALSE)
    \/ HedgeGuard(c, passage, FALSE)
    \/ RoleGuard(c, passage)
    \/ RelationGuard(c, TRUE, passage, TRUE) \/ RelationGuard(c, FALSE, passage, FALSE)
    \/ PairValue(c, passage)

-----------------------------------------------------------------------------
(* Property *)

\* Each side of a pair is kept: a clause that names one side, and the other side
\* nowhere, is not claimed of the other side.
SideKept(passage) ==
    \A pair \in Opposites \ Relational : \A i \in DOMAIN passage :
        \A form \in pair[2] :
            /\ Found(passage) \cap {Break, Stop} = {}
            /\ passage[i] \in pair[1]
            /\ Found(passage) \cap pair[2] = {}
            => \/ QualifierGuard([passage EXCEPT ![i] = form], passage)
               \/ \E k \in DOMAIN passage \ {i} : passage[k] \in pair[1]

\* Two actors exchanged around a transfer are refused.
DirectionKept(passage, english) ==
    \A i, j \in Mentions(passage) :
        LET claim == [passage EXCEPT ![i] = passage[j], ![j] = passage[i]]
        IN  /\ Found(passage) \cap {Break, Stop} = {}
            /\ Mentions(passage) = {i, j} /\ ActorOf(passage[i]) # ActorOf(passage[j])
            /\ Cardinality(TransfersAt(passage)) = 1
            => RelationGuard(claim, english, passage, english)
=============================================================================
