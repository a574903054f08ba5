------------------------------- MODULE Parties -------------------------------
(***************************************************************************)
(* Who a rule is about.  The role guard (answer/verify_roles.py): a fact   *)
(* the unit states for one actor may not be claimed for another.  Party    *)
(* swaps (answer/verify_parties.py): what the unit says of one party is    *)
(* not claimed of another, even of parties no lexicon lists.               *)
(***************************************************************************)
EXTENDS Gate

CONSTANTS Slots,       \* <<word, slot>>: what a word says an actor does
          Shares,      \* <<compound, actor>>: a share of an actor ("employer's share")
          NonSubjects, \* prepositions: the actor after one does not do it
          NumberWindow, ActorWindow

CONSTANTS Determiners, Of,       \* introduce a party; "van" joins two words into one
          Heads,                 \* pairs of compounds of one head
          Modals, ReaderSubjects,
          NounClass,             \* <<noun, class>>: what the glossary says a noun is
          Particles, Separable   \* <<verb, particle>>; <<stem, particle, verb in the other language>>

-------------------------------------------------------------------------------
\* The role guard

ASSUME WindowAssumption == NumberWindow \in Nat /\ ActorWindow \in Nat

\* ActorLexicon.classify, for one word.  A term wins over the reader's pronoun, a
\* pronoun over a share.
NamedActor(w) == {a \in Actors : w \in Terms[a]}

IsPronoun(w) == NamedActor(w) = {} /\ w \in Pronouns /\ Reader # ""

ShareOf(w) == IF NamedActor(w) = {} /\ ~IsPronoun(w) THEN {s[2] : s \in {x \in Shares : x[1] = w}} ELSE {}

ActorOf(w) == NamedActor(w) \cup (IF IsPronoun(w) THEN {Reader} ELSE ShareOf(w))

SlotOf(w) == IF ShareOf(w) # {} THEN {"source"} ELSE {s[2] : s \in {x \in Slots : x[1] = w}}

ContentWord(w) == ActorOf(w) = {} /\ SlotOf(w) = {} /\ w \notin Numerals /\ Content(w)

HasSlot(w) == SlotOf(w) # {}
HasActor(w) == ActorOf(w) # {}

SlotPlaces(s)  == {j \in DOMAIN s : HasSlot(s[j])}
ActorPlaces(s) == {j \in DOMAIN s : HasActor(s[j])}

\* An actor that does what the slot says: not one behind a preposition.  (The
\* variant looks only at actors before the slot.)
Behind(s, j) ==
    /\ j > 1 /\ ~IsPronoun(s[j])
    /\ s[j - 1] \in NonSubjects \/ (j > 2 /\ s[j - 1] \in Articles /\ s[j - 2] \in NonSubjects)

SubjectsBefore(s, slot) == {j \in ActorPlaces(s) : ~Behind(s, j) /\ j < slot}

Subjects(s, slot) == {j \in ActorPlaces(s) : ~Behind(s, j)}

Bind(slot, w) == {[slot |-> slot, actor |-> a, pronoun |-> IsPronoun(w)] : a \in ActorOf(w)}

\* binding: the slot and the actor of the fact at a place, if they are resolved.  A
\* number without a slot word in the whole clause is its nearest actor's.
Binding(s, i) ==
    LET slot == IF HasSlot(s[i]) THEN {i} ELSE Nearest(i, NumberWindow, SlotPlaces(s))
    IN  IF slot = {}
        THEN IF s[i] \notin Numerals \/ SlotPlaces(s) # {} THEN {}
             ELSE UNION {Bind("", s[j]) : j \in Nearest(i, NumberWindow, ActorPlaces(s))}
        ELSE UNION {UNION {IF HasActor(s[k]) THEN Bind(sl, s[k])
                           ELSE UNION {Bind(sl, s[j]) : j \in Nearest(k, ActorWindow, Subjects(s, k))} :
                             sl \in SlotOf(s[k])} : k \in slot}

\* shares_content: half of the claim's content words, and at least two.
SharesContent(s, content) ==
    LET shared == Cardinality(content \cap Found(s)) IN shared >= 2 /\ 2 * shared >= Cardinality(content)

\* The facts of a claim's clause: its numbers, or its slots if it has none.
FactPlaces(s) ==
    IF Found(s) \cap Numerals # {} THEN {i \in DOMAIN s : s[i] \in Numerals} ELSE SlotPlaces(s)

SameFact(w, u) == IF w \in Numerals THEN u = w ELSE SlotOf(u) \cap SlotOf(w) # {}

\* The actors the unit states a claim's fact for.
StatedFor(s, i, bound, passage) ==
    LET content == {w \in Found(s) : ContentWord(w)}
    IN  UNION {{b.actor : b \in {x \in UNION {Binding(u, j) : j \in {k \in DOMAIN u : SameFact(s[i], u[k])}} :
                                    x.slot = bound.slot}} :
               u \in {c \in Clauses(passage) : s[i] \in Numerals \/ SharesContent(c, content)}}

\* role_guard.
RoleGuard(claim, passage) ==
    \E s \in Clauses(claim) : \E i \in FactPlaces(s) : \E b \in Binding(s, i) :
        /\ s[i] \in Numerals \/ ~b.pronoun
        /\ StatedFor(s, i, b, passage) # {}
        /\ b.actor \notin StatedFor(s, i, b, passage)

-----------------------------------------------------------------------------
(* Property *)

\* A clause whose number has one slot word and one actor nearby, in front of it or
\* after it but not behind a preposition, states that number for that actor: with
\* another actor in the same place it is refused.
Plain(s) ==
    \E slots \in {SlotPlaces(s)}, actors \in {ActorPlaces(s)} :
      \E i \in DOMAIN s, k \in slots, j \in actors :
        /\ {x \in DOMAIN s : s[x] \in Numerals} = {i}
        /\ slots = {k} /\ actors = {j} /\ j # k
        /\ NamedActor(s[j]) # {}
        /\ Gap(i, k) <= NumberWindow /\ Gap(k, j) <= ActorWindow
        /\ ~\E x \in 1..(j - 1) : s[x] \in NonSubjects

OtherActor(s, claim) ==
    /\ Len(claim) = Len(s)
    /\ \E j \in DOMAIN s : /\ \A x \in DOMAIN s \ {j} : claim[x] = s[x]
                           /\ NamedActor(s[j]) # {} /\ NamedActor(claim[j]) # {}
                           /\ NamedActor(s[j]) # NamedActor(claim[j])
                           /\ SlotOf(claim[j]) = {} /\ SlotOf(s[j]) = {}

ActorKept(claim, passage) ==
    Break \notin Found(passage) /\ Stop \notin Found(passage) /\ Plain(passage) /\ OtherActor(passage, claim)
        => RoleGuard(claim, passage)

-------------------------------------------------------------------------------
\* Party swaps

PartyWord(t) == t \notin Stopwords \cup Numerals

WithoutArticles(s) == SelectSeq(s, LAMBDA t : t \notin Articles)

SentenceTokens(text) == {TokensOf(At(text, p)) : p \in Sentences(text)}

\* unit_parties: what a determiner introduces, one word or "X van Y".
PartiesOf(passage) ==
    UNION {UNION {{<<s[i + 1]>>} \cup
                  (IF i + 3 <= Len(s) /\ s[i + 2] = Of /\ PartyWord(s[i + 3])
                   THEN {SubSeq(s, i + 1, i + 3)} ELSE {}) :
                     i \in {x \in 1..(Len(s) - 1) : s[x] \in Determiners /\ PartyWord(s[x + 1])}} :
              s \in SentenceTokens(passage)}

Aligns(tokens, passage) == \E s \in SentenceTokens(passage) : Align(tokens, WithoutArticles(s)) # {}

Occurrences(tokens, passage) ==
    UNION {{[at |-> i, party |-> p, pronoun |-> FALSE] : i \in Starts(tokens, p)} : p \in PartiesOf(passage)}
      \cup {[at |-> i, party |-> <<tokens[i]>>, pronoun |-> TRUE] : i \in {x \in DOMAIN tokens : tokens[x] \in Pronouns}}

ClassOf(p) == IF Len(p) = 1 THEN NamedActor(p[1]) ELSE {}

SameParty(p, q, pronoun) ==
    p = q \/ (IF pronoun THEN {Reader} ELSE ClassOf(p)) \cap ClassOf(q) # {}

Replace(s, o, party) == SubSeq(s, 1, o.at - 1) \o party \o Rest(s, o.at + Len(o.party))

\* Two occurrences exchanged, the later one first: the place of the other stays.
Exchange(s, a, b) ==
    LET first == IF a.at < b.at THEN a ELSE b  later == IF a.at < b.at THEN b ELSE a
    IN  Replace(Replace(s, later, first.party), first, later.party)

Apart(a, b) == a.at + Len(a.party) <= b.at \/ b.at + Len(b.party) <= a.at

-----------------------------------------------------------------------------
(* Numbers bound to a word *)

\* Where a party stands in a clause that has its articles.
PlacesOf(s, party) ==
    {i \in DOMAIN s : s[i] = party[1] /\ \E e \in i..Len(s) : WithoutArticles(SubSeq(s, i, e)) = party}

\* The word that governs a number: the last before it, else the first after it.
Governor(s, at, own, other) ==
    LET places(p, S) == PlacesOf(s, p) \cap S
        pick(S, Best(_)) ==
            LET o == places(own, S)  p == places(other, S)
            IN  IF Best(o \cup p) \in o \cap p THEN "unresolved"
                ELSE IF Best(o \cup p) \in o THEN "own" ELSE "other"
        before == 1..(at - 1)  after == (at + 1)..Len(s)
        any(S) == places(own, S) \cup places(other, S) # {}
    IN  IF any(before) THEN pick(before, Max)
        ELSE IF any(after) THEN pick(after, Min) ELSE "unresolved"

\* bind_value: the unit's word for any of the claim's numbers.
BindValue(claim, passage, own, other) ==
    LET numbers   == Found(claim) \cap Numerals
        governors == UNION {{Governor(s, i, own, other) : i \in {x \in DOMAIN s : s[x] \in numbers}} :
                               s \in Clauses(passage)}
    IN  IF numbers = {} THEN "no number"
        ELSE IF "own" \in governors THEN "own"
        ELSE IF "other" \in governors THEN "other" ELSE "unresolved"

\* counterpart_of: two words of one head, or followed by one word.
Counterparts(o, p, passage) ==
    /\ Len(o) = 1 /\ Len(p) = 1
    /\ LET next(w) == UNION {{s[i + 1] : i \in {x \in 1..(Len(s) - 1) : s[x] = w /\ PartyWord(s[x + 1])}} :
                                s \in SentenceTokens(passage)}
       IN  {<<o[1], p[1]>>, <<p[1], o[1]>>} \cap Heads # {} \/ next(o[1]) \cap next(p[1]) # {}

\* pair_value_guard: a number said of one word of a pair that is the other's.
PairValue(claim, passage) ==
    LET tokens == WithoutArticles(TokensOf(claim))
    IN  \E o, p \in PartiesOf(passage) :
          /\ o # p /\ Starts(tokens, o) # {} /\ Starts(tokens, p) = {}
          /\ Counterparts(o, p, passage)
          /\ BindValue(claim, passage, o, p) = "other"

\* One party stands where the unit has another; of the reader only a third party
\* says so, and not if the unit binds the claim's number to the claim's own word.
PartyReplaced(claim, passage) ==
    LET tokens == WithoutArticles(TokensOf(claim))
    IN  \E o \in Occurrences(tokens, passage) : \E p \in PartiesOf(passage) :
          /\ ~SameParty(o.party, p, o.pronoun)
          /\ o.pronoun => ClassOf(p) = {}
          /\ Aligns(Replace(tokens, o, p), passage)
          /\ BindValue(claim, passage, o.party, p) \notin {"own", "unresolved"}

PartiesExchanged(claim, passage) ==
    LET tokens == WithoutArticles(TokensOf(claim))
    IN  \E a, b \in Occurrences(tokens, passage) :
          /\ a.pronoun => b.pronoun
          /\ Apart(a, b) /\ ~SameParty(a.party, b.party, a.pronoun)
          /\ Aligns(Exchange(tokens, a, b), passage)

\* party_swap_guard.
PartySwap(claim, passage) ==
    LET tokens == WithoutArticles(TokensOf(claim))
    IN  /\ tokens # <<>>
        /\ IF Aligns(tokens, passage) THEN PairValue(claim, passage)
           ELSE PartyReplaced(claim, passage) \/ PartiesExchanged(claim, passage)

-----------------------------------------------------------------------------
(* Subjects across languages *)

\* subject_of: who does what the verb says.  A Dutch sentence may have it inverted.
SubjectOf(s, verb, dutch) ==
    IF Len(s) > 1 /\ s[1] \in Determiners /\ PartyWord(s[2])
         /\ (verb = 3 \/ (verb = 4 /\ s[3] \in Modals))
    THEN {s[2]}
    ELSE IF dutch /\ verb + 2 <= Len(s) /\ s[verb + 1] \in Determiners /\ PartyWord(s[verb + 2])
    THEN {s[verb + 2]}
    ELSE {}

\* verb_matches: a separable verb needs its particle further on.
VerbMatches(s, j, verb) ==
    /\ PartyWord(s[j])
    /\ \A p \in Particles : p[1] = s[j] => p[2] \in Found(Rest(s, j + 1))
    /\ \/ <<verb>> \in Translations(s[j])
       \/ \E k \in (j + 1)..Len(s) : <<s[j], s[k], verb>> \in Separable

VerbAfter(tokens, i) ==
    LET at == {k \in i..Len(tokens) : tokens[k] \notin Modals}
    IN  IF at = {} THEN {} ELSE {tokens[Min(at)]}

\* The unit's subjects that can be a party.
SubjectParties(passage, dutch) ==
    {w \in UNION {(IF Len(s) > 2 /\ s[1] \in Determiners /\ PartyWord(s[2]) THEN {s[2]} ELSE {})
                    \cup UNION {SubjectOf(s, j, dutch) : j \in {x \in 2..Len(s) : Translations(s[x]) # {}}} :
                    s \in SentenceTokens(passage)} :
       ActorTerm(w) \/ \A c \in NounClass : c[1] = w => c[2] \in {"party", "group"}}

IsParty(w) == \E c \in NounClass : c[1] = w /\ c[2] \in {"party", "group"}

\* Who the unit says does it.
Doers(passage, verb, dutch) ==
    UNION {UNION {SubjectOf(s, j, dutch) : j \in {x \in DOMAIN s : VerbMatches(s, x, verb)}} :
              s \in SentenceTokens(passage)}

\* subject_swap_guard: over two languages, through the glossary.
SubjectSwap(claim, passage, dutch) ==
    LET tokens == TokensOf(claim)
    IN  \/ \E p \in SubjectParties(passage, dutch) : \E f \in Translations(p) : \E i \in Starts(tokens, f) :
              \E verb \in VerbAfter(tokens, i + Len(f)) :
                 \E doers \in {Doers(passage, verb, dutch)} :
                    doers # {} /\ \A w \in doers : w # p /\ ~SameActorClass(w, p)
        \/ \E i \in DOMAIN tokens : \E verb \in VerbAfter(tokens, i + 1) :
              /\ tokens[i] \in ReaderSubjects
              /\ \E doers \in {Doers(passage, verb, dutch)} :
                    doers # {} /\ \A w \in doers : ~ActorTerm(w) /\ IsParty(w)

-----------------------------------------------------------------------------
(* Property *)

\* A sentence with two of its parties exchanged is refused, unless one lexicon
\* class holds both or the exchange leaves its words in their order.
PartiesKept(passage) ==
    LET tokens == WithoutArticles(passage)
    IN  \A a, b \in {o \in Occurrences(tokens, passage) : ~o.pronoun} :
          LET claim == Exchange(tokens, a, b)
          IN  /\ Found(passage) \cap {Break, Stop} = {}
              /\ Apart(a, b) /\ ~SameParty(a.party, b.party, FALSE)
              /\ a.at < b.at
              /\ Starts(claim, a.party) # {} /\ Starts(claim, b.party) # {}
              => Align(claim, tokens) # {} \/ PartySwap(claim, passage)

===============================================================================
