------------------------------- MODULE MCRules -------------------------------
(* Every short text over a small vocabulary, one vocabulary per kind of rule,   *)
(* written piece by piece; every pair of spellings; every pair of passages.     *)
EXTENDS Parties, Oppositions, Figures, Lines, Conflict, Tables

CONSTANT MaxText

VARIABLES kind, text, other

Vocabulary ==
    [order     |-> {"wage", "desk", "not"},
     role      |-> {"employer", "employee", "you", "pays", "gets", "5", "for", "wage"},
     hedge     |-> {"wage", "may", "maximum", "in", "principle", "always", "not", "tot", "5"},
     exclusion |-> {"wage", "employee", "all", "except", "with", "or", "are", "excluded", "no"},
     condition |-> {"wage", "desk", "provided", "only", "employee", "with", "and"},
     party     |-> {"the", "bank", "desk", "wage", "of", "5", "pays"},
     pair      |-> {"gross", "net", "5", "wage", "|", "apply", "use", "before", "after"},
     transfer  |-> {"employer", "employee", "tells", "pays", "to", "the"},
     kinds     |-> {"leave", "fixed", "sickleave", "only", "then", ".", "wage", "desk"},
     period    |-> {"during", "the", "every", "week", "wage", "a"},
     cross     |-> {"wage", "desk", "provided", "may", "and", "employee", "except", "|"},
     anchor    |-> {"provided", "and", "5", "wage", "desk", "|", ".", "Bob"},
     dates     |-> {"1", "-6", "2026", "-2026", "june", ":30", "am"},
     amounts   |-> {"eur", "1", "000", "p", "~1", "per", "month", "cents"},
     periods   |-> {"4", "three", "half", "or", "working", "day", "month", "maximum"},
     split     |-> {"x", "word", "art", "3", ".", "danda", " ", "nl", "("},
     line      |-> {"#", "|", "the", "Bank", "WAB", "W3", "5", "may", "May", "leave:", "not", "as-it-is", "article"},
     glossary  |-> {"take up", "up alone", "goes up", "goes", "went", "leave", "odd"}]

\* Breaks are marks between the words.
ASSUME MarksAssumption == {Break, Stop} \cap Vocabulary["order"] = {}

\* The items of the vocabularies of figures, as they are written.
Number(digits, gap) == Figure(Spelled(<<digits>>, <<>>, FALSE), gap)

Item(w) ==
    CASE w = "1" -> Number(<<1>>, " ") [] w = "-6" -> Number(<<6>>, "-")
      [] w = ":30" -> Number(<<3, 0>>, ":") [] w = "2026" -> Number(<<2, 0, 2, 6>>, " ")
      [] w = "-2026" -> Number(<<2, 0, 2, 6>>, "-") [] w = "4" -> Number(<<4>>, " ")
      [] w = "000" -> Number(<<0, 0, 0>>, " ") [] w = "~1" -> Number(<<1>>, "")
      [] w = "st" -> Word("st", "")
      [] OTHER -> Word(w, " ")

Items(words) == [i \in DOMAIN words |-> Item(words[i])]

Figurative == {"dates", "amounts", "periods"}

\* The fields of a line as they are written.
OneField(word, form, ends) == Field(<<Part(word, form)>>, "word", FALSE, ends)

FieldOf(w) ==
    CASE w \in {"#", "|"} -> Field(<<>>, IF w = "#" THEN "marker" ELSE "cell", FALSE, FALSE)
      [] w = "Bank" -> OneField("bank", "Capital", FALSE) [] w = "May" -> OneField("may", "Capital", FALSE)
      [] w = "WAB" -> OneField("wab", "CAPITALS", FALSE)  [] w = "W3" -> OneField("w3", "mixed", FALSE)
      [] w = "5" -> OneField("5", "number", FALSE)        [] w = "leave:" -> OneField("leave", "plain", TRUE)
      [] w = "as-it-is" -> Field(<<Part("as", "plain"), Part("it", "plain"), Part("is", "plain")>>, "word", FALSE, FALSE)
      [] OTHER -> OneField(w, "plain", FALSE)

Line(words) == [i \in DOMAIN words |-> FieldOf(words[i])]

\* The glossary's entries: forms of one separable verb, of one word alone, of none.
EntryOf(w) ==
    CASE w = "take up" -> GlossaryEntry("neemt", "takes", "opnemen", "take", "op", "verb")
      [] w = "up alone" -> GlossaryEntry("neemt", "takes", "nemen", "take", "", "verb")
      [] w = "goes up" -> GlossaryEntry("gaat", "rises", "opgaan", "rise", "op", "")
      [] w = "goes" -> GlossaryEntry("gaat", "goes", "gaan", "go", "", "verb")
      [] w = "went" -> GlossaryEntry("ging", "went", "gaan", "go", "", "")
      [] w = "leave" -> GlossaryEntry("verlof", "leave", "", "", "", "noun")
      [] w = "odd" -> GlossaryEntry("opneemt", "takes", "opnemen", "", "", "")

Entries(words) == [i \in DOMAIN words |-> EntryOf(words[i])]

Declared == {[full |-> "nl", primary |-> "nl"], [full |-> "en", primary |-> "en"]}

Languages == {Undeclared, [full |-> "nl", primary |-> "nl"], [full |-> "en", primary |-> "en"],
              [full |-> "de-ch", primary |-> "de"], [full |-> "hi", primary |-> "hi"]}

Groups == {<<0>>, <<5>>, <<1, 0>>, <<5, 0, 0>>, <<0, 0, 0>>, <<1, 2, 3, 4>>}

Groupings == [group : Groups, mark : {".", ","}]

\* The spelling that pieces make; the first one's mark is not written.
SpellingOf(pieces) ==
    Spelled([i \in DOMAIN pieces |-> pieces[i].group],
            [i \in 1..(Len(pieces) - 1) |-> pieces[i + 1].mark], FALSE)

Passages ==
    [content : {{"w1", "w2", "vat"} \cup x : x \in SUBSET {"incl", "excl", "adults", "approved", "rejected"}},
     negations : {0, 1}, numbers : {{}, {100}, {121}, {100, 200}}, ambiguous : {{}}, units : {{}},
     reported : {FALSE}]
    \cup
    [content : {{"w1", "w2", "vat"}}, negations : {0, 1, 2}, numbers : {{}, {100}, {121}, {200}, {100, 200}},
     ambiguous : {{}, {100}}, units : {{}, {"ms"}}, reported : {TRUE, FALSE}]

Begin == kind \in DOMAIN Vocabulary \cup {"number", "passages"} /\ text = <<>> /\ other = <<>>

WriteText ==
    /\ kind \in DOMAIN Vocabulary /\ Len(text) < MaxText[kind] /\ other = <<>>
    /\ \E w \in Vocabulary[kind] : text' = Append(text, w)
    /\ UNCHANGED <<kind, other>>

WriteClaim ==
    /\ kind = "order" /\ Len(other) < 3
    /\ \E w \in Vocabulary[kind] : other' = Append(other, w)
    /\ UNCHANGED <<kind, text>>

WriteNumber ==
    /\ kind = "number" /\ other = <<>> /\ Len(text) < 3
    /\ \E p \in Groupings : (text = <<>> => p.mark = ".") /\ text' = Append(text, p)
    /\ UNCHANGED <<kind, other>>

WriteOther ==
    /\ kind = "number" /\ Len(text) \in 1..2 /\ Len(other) < 2
    /\ \E p \in Groupings : (other = <<>> => p.mark = ".") /\ other' = Append(other, p)
    /\ UNCHANGED <<kind, text>>

Retrieve ==
    /\ kind = "passages" /\ text = <<>>
    /\ \E p \in Passages : text' = <<p>>
    /\ UNCHANGED <<kind, other>>

Compare ==
    /\ kind = "passages" /\ text # <<>> /\ other = <<>>
    /\ \E p \in Passages : other' = <<p>>
    /\ UNCHANGED <<kind, text>>

WriteOn == WriteText \/ WriteClaim \/ WriteNumber \/ WriteOther \/ Retrieve \/ Compare

Writing == Begin /\ [][WriteOn]_<<kind, text, other>>

-----------------------------------------------------------------------------

(* Constants *)

Unworded == {"dates", "amounts", "periods", "split", "line", "glossary"}

Translation ==
    [w \in {"wage", "desk", "provided", "may", "and", "employee", "except"} |->
        CASE w = "wage" -> "loon" [] w = "desk" -> "bureau" [] w = "provided" -> "mits" [] w = "may" -> "mag"
          [] w = "and" -> "en" [] w = "employee" -> "werknemer" [] w = "except" -> "behalve"]

MCGlossary == {<<w, <<Translation[w]>>>> : w \in {"wage", "desk"}}
                \cup {<<Translation[w], <<w>>>> : w \in {"wage", "desk"}}
MCTerms == [a \in {"employee", "employer"} |-> IF a = "employee" THEN {"employee", "werknemer"} ELSE {a}]
MCBounds == {<<<<"maximum">>, "upper">>}
MCSwaps == {<<"no", "a">>, <<"a", "no">>}
MCSlots == {<<"pays", "source">>, <<"gets", "recipient">>, <<"may", "permission">>, <<"mag", "permission">>}
MCHedges == {<<<<"may">>, "permission">>, <<<<"mag">>, "permission">>, <<<<"maximum">>, "upper">>,
             <<<<"in", "principle">>, "softener">>}
MCAlways == {<<"always">>}
MCExcept == {<<"except">>, <<"behalve">>, <<"not", "for">>}
MCExcluded == {<<"are", "excluded">>}
MCExceptions == {<<"mits">>, <<"provided">>, <<"behalve">>, <<"except">>}
MCThen == {<<"then">>, <<"dan">>}
MCPresenceWords == <<"with", "met", "after", "na", "on", "op">>
MCCross == {<<"mits">>, <<"provided">>, <<"before">>, <<"after">>, <<"only">>, <<"behalve">>, <<"except">>, <<"with">>}
MCOpposites == {<<{"before"}, {"after"}>>, <<{"employer"}, {"employee", "werknemer"}>>, <<{"gross"}, {"net"}>>}
MCRelational == {<<{"before"}, {"after"}>>}
MCNumberPairs == {<<{"gross"}, {"net"}>>}
MCActs == {<<{<<"apply">>}, {<<"use">>}>>}
MCTransfers == {<<"tells", "inform">>, <<"pays", "pay">>, <<"provided", "give">>}
MCSubtypes == {{"leave"}}
MCCompounds == {<<"sickleave", "leave">>}

MCUnit == <<"een", "twee", "drie", "vier", "vijf", "zes", "zeven", "acht", "negen">>
MCTeen == [n \in 10..19 |-> <<"tien", "elf", "twaalf", "dertien", "veertien", "vijftien", "zestien", "zeventien",
                               "achttien", "negentien">>[n - 9]]
MCTen == [n \in {10 * k : k \in 2..9} |-> <<"twintig", "dertig", "veertig", "vijftig", "zestig", "zeventig",
                                              "tachtig", "negentig">>[(n \div 10) - 1]]
MCUnits == [w \in Found(MCUnit) |-> CHOOSE n \in 1..9 : MCUnit[n] = w]
MCTeens == [w \in {MCTeen[n] : n \in 10..19} |-> CHOOSE n \in 10..19 : MCTeen[n] = w]
MCTens == [w \in {MCTen[10 * k] : k \in 2..9} |-> CHOOSE n \in {10 * k : k \in 2..9} : MCTen[n] = w]
MCMonths == [w \in {"june"} |-> 6]
MCOrdinals == [w \in {"third"} |-> 3]
MCNumberWords == [w \in {"three"} |-> 3]
MCMorphemes == [w \in {} |-> <<>>]
MCTimeUnits == [w \in {"day", "month", "week", "hour"} |-> w]
MCCompoundUnits == [w \in {} |-> ""]
MCModifiers == [w \in {"working"} |-> "workday"]

MCRank == [w \in {"w1", "w2", "vat", "incl", "excl", "adults", "approved", "rejected"} |->
             CASE w = "adults" -> 1 [] w = "approved" -> 2 [] w = "excl" -> 3 [] w = "incl" -> 4
               [] w = "rejected" -> 5 [] w = "vat" -> 6 [] w = "w1" -> 7 [] w = "w2" -> 8]
MCInclusions == {<<"incl", "excl">>}
MCAntonyms == {<<"approved", "rejected">>}

MCAbbreviations == {<<"art">>}
MCParticled == {<<"opneemt", "op", "neemt">>, <<"opnemen", "op", "nemen">>, <<"opgaan", "op", "gaan">>}
MCAliases == [w \in {<<"wab">>} |-> {<<"balanced", "act">>}]

MCMaxText == [k \in DOMAIN Vocabulary |->
    IF k \in {"condition", "party", "split"} THEN 5 ELSE IF k \in {"line", "glossary"} THEN 3 ELSE 4]

-----------------------------------------------------------------------------
(* The constants are what the code's tables have of the vocabularies *)

AllWords ==
    UNION ({Vocabulary[k] : k \in DOMAIN Vocabulary \ Unworded} \cup {{Translation[w]} : w \in DOMAIN Translation})

Used(words) == words \cap AllWords

InUse(phrases) == {p \in phrases : Found(p) \subseteq AllWords}

Classed(phrases) == {p \in phrases : Found(p[1]) \subseteq AllWords}

WordsClassed(words) == {p \in words : p[1] \in AllWords}

BothSides(pairs) ==
    {p \in {<<Used(q[1]), Used(q[2])>> : q \in pairs} : p[1] # {} /\ p[2] # {}}

AsPairs(f) == {<<w, f[w]>> : w \in DOMAIN f}

ASSUME ClaimTables ==
    /\ Markers = Used(POLARITY_MARKERS) /\ Negatives = Used(NEGATIVE_WORDS) /\ Refusals = Used(BOUND_OR_NEGATION)
    /\ Stopwords = Used(STOPWORDS \cup CONTEXT_STOP) /\ Articles = Used(ARTICLES) /\ Modals = Used(MODAL_WORDS)
    /\ BoundPhrases = Classed(BOUND_PHRASES) /\ Comparatives = WordsClassed(SPLIT_COMPARATIVES)
    /\ Restrictive = Used(RESTRICTIVE_TAIL) /\ Coordinators = Used(COORDINATORS)
    /\ Swaps = {s \in POLARITY_SWAPS : {s[1], s[2]} \subseteq AllWords}
    /\ During = Used(DURING_WORDS) /\ Universals = Used(UNIVERSALS)

ASSUME ActorTables ==
    LET lexicon == DEFAULT_ACTOR_LEXICON
    IN  /\ Actors = {a \in DOMAIN lexicon.actors : Used(lexicon.actors[a]) # {}}
        /\ Terms = [a \in Actors |-> Used(lexicon.actors[a])]
        /\ Reader = lexicon.second_person /\ Pronouns = Used(lexicon.second_person_terms)
        /\ Slots = WordsClassed(lexicon.slots) /\ NonSubjects = Used(NON_SUBJECT)
        /\ Determiners = Used(PARTY_DETERMINERS) /\ ReaderSubjects = Used(READER_SUBJECTS)
        /\ Transfers = WordsClassed(RELATION_VERBS) /\ RecipientMarkers = Used(RECIPIENT_MARKERS)
        /\ Opposites = BothSides(QUALIFIER_PAIRS) /\ NumberPairs = BothSides(DEFAULT_QUALIFIER_PAIRS)
        /\ Acts = {<<InUse(p[1]), InUse(p[2])>> : p \in DEFAULT_VERB_PAIRS}
        /\ SubtypeHeads = {Used(h) : h \in DEFAULT_SUBTYPE_HEADS} \ {{}}

ASSUME LimitTables ==
    /\ HedgePhrases = Classed(HEDGE_PHRASES) /\ HedgeEquivalents = Classed(HEDGE_EQUIVALENTS)
    /\ Absolutizers = InUse(ABSOLUTIZERS) /\ Copulas = Used(PERMISSION_COPULAS)
    /\ Complements = Used(PERMISSION_COMPLEMENTS) /\ Tot \in UpTo
    /\ Amounts \cup ShortNumerals \subseteq Numerals
    /\ ExclusionMarkers = InUse(EXCLUSION_MARKERS) /\ ExcludedPredicates = InUse(EXCLUDED_PREDICATES)
    /\ UniversalWords = Used(UNIVERSAL_WORDS) /\ GroupVerbs = Used(GROUP_VERBS)
    /\ GroupPrepositions = Used(GROUP_PREPOSITIONS) /\ UnitWords = Used({u[1] : u \in TIME_UNITS})
    /\ Openers = Used(CONDITION_OPENERS) /\ OpenerPhrases = InUse(CONDITION_PHRASES)
    /\ Subordinating = Used(SUBORDINATING_OPENERS) /\ ExclusionOpeners = Used(EXCLUSION_OPENERS)
    /\ Concessives = InUse(CONCESSIVES) /\ ExceptionOpeners = InUse(EXCEPTION_OPENERS)
    /\ ClaimConditions = InUse({<<w>> : w \in CLAIM_CONDITION_MARKERS})
    /\ PartyRestrictors = Used(PARTY_RESTRICTORS) /\ ScopeQualifiers = Used(SCOPE_QUALIFIERS)
    /\ CrossMarkers = InUse(CROSS_CONDITION_MARKERS) /\ Used(PRESENCE_FUNCTION_WORDS) = {}

ASSUME FigureTables ==
    /\ AsPairs(DutchUnits) = DUTCH_UNITS /\ AsPairs(DutchTeens) = DUTCH_TEENS /\ AsPairs(DutchTens) = DUTCH_TENS
    /\ Duizend = "duizend" /\ Honderd = "honderd" /\ "en" \in LinkEn
    /\ AsPairs(NumberWords) \subseteq NUMBER_WORDS /\ AsPairs(Ordinals) \subseteq ORDINAL_WORDS
    /\ AsPairs(Months) \subseteq MONTH_NUMBER /\ AsPairs(TimeUnits) \subseteq TIME_UNITS
    /\ CountFunctionWords \subseteq COUNT_FUNCTION_WORDS
    /\ DecimalComma \subseteq DECIMAL_COMMA_LANGUAGES /\ DecimalPoint \subseteq DECIMAL_POINT_LANGUAGES
    /\ Lakh = DecimalPoint \cap LAKH_GROUPING_LANGUAGES

ASSUME LineTables ==
    /\ Inclusions \subseteq CONFLICT_INCLUSION_PAIRS /\ Antonyms \subseteq CONFLICT_ANTONYMS
    /\ ScopeWords = CONFLICT_SCOPE_MARKERS \cap DOMAIN Rank
    /\ \A a \in Abbreviations : Len(a) = 1 /\ a[1] \in ABBREVIATIONS
    /\ NumberNames \subseteq {n[1] : n \in NUMBER_WORDS} \ {"een", "one"}
    /\ Currencies \subseteq CURRENCY_CODES /\ References \subseteq LIST_REFERENCE_NOUNS
    /\ Attributions \subseteq LEAD_IN_ATTRIBUTION
    /\ \A p \in Particled : p[2] \in SEPARABLE_PARTICLES

-----------------------------------------------------------------------------

\* align finds a match exactly if there is one within the gaps, and the least of
\* them ("the optimal alignment", ADR-0009); an answer that turns a passage around, or
\* drops a negation inside it, is refused.
Alignment == kind = "order" => AlignsAsDefined(other, text) /\ InversionsRefused(other, text)

\* The numbers tried in Dutch words.
Tried == 1..2099

\* A number is read to a value only if every writer the declared language allows
\* means that value, and a guard lets a number pass only as the passage's.
FiguresBacked ==
    kind = "number" =>
        /\ text # <<>> => \A l \in Languages : ReadsWhatWasWritten(SpellingOf(text), l)
        /\ text # <<>> /\ other # <<>> =>
              \A l \in Languages, m \in Declared \cup {Undeclared} : FigureBacked(SpellingOf(text), l, SpellingOf(other), m)
        /\ text = <<>> => FiguresAgree
        /\ text = <<>> => \A n \in Tried : DutchNumber(DutchWritten(n, MCUnit, MCTeen, MCTen, "en")) = {n}

\* Whether and by which rule two passages conflict does not hang on the order they
\* were retrieved in, and what disagrees never counts as one source.
Conflicts ==
    kind = "passages" =>
        /\ text = <<>> => NegationsAgree
        /\ other # <<>> => ConflictSymmetric(text[1], other[1]) /\ NeverCorroborates(text[1], other[1])

\* A heading restricts with the words a list's items do; a month's two names are one
\* month; a frame that may lead a list says nothing that could be wrong.
LinesAgree ==
    /\ LIST_EXCLUSIVES = {p[1] : p \in Found(HeadingRules.exclusives["nl"]) \cup Found(HeadingRules.exclusives["en"])}
    /\ \A i \in 1..12, w \in {1, 2} : <<Calendar[i][w], i>> \in MONTH_NUMBER
    /\ \A f \in DEFAULT_LEAD_IN_FRAMES :
          Found(f) \cap (POLARITY_MARKERS \cup LIST_EXCLUSIVES \cup ({n[1] : n \in NUMBER_WORDS} \ {"een"})) = {}

Translated(passage) ==
    [i \in DOMAIN passage |-> IF passage[i] \in DOMAIN Translation THEN Translation[passage[i]] ELSE passage[i]]

\* A guard "only ever refuses": but never a claim that says what its passage says,
\* word for word, or in another language word for word.
QuotationPasses ==
    kind \in DOMAIN Vocabulary /\ text # <<>> /\ other = <<>> =>
        /\ kind \notin Unworded => ~Guards(text, text) /\ (Len(text) < 4 => ~GateGuards(text, text, text))
        /\ kind \in Figurative =>
              \A items \in {Items(text)}, l \in Declared :
                  ~NumberGuard(items, l, items, l) /\ ~UnitGuard(items, l, items, l)
        /\ kind = "split" => SplitsCleanly(text)
        /\ kind = "line" => NamesKept(Line(text))
        /\ kind = "glossary" =>
              GlossaryWhole(Entries(text), {"neemt", "nemen", "gaat", "ging"}) /\ ParsedAnyhow(Entries(text))
        /\ kind = "cross" => \A presence \in BOOLEAN : ~GuardsAcross(Translated(text), text, presence)

\* What a passage limits is not claimed without the limit: its actor, its hedge, its
\* exception, its condition, its parties.
LimitsKept ==
    other = <<>> =>
        /\ text = <<>> => BoundsAgree /\ OpenersAgree /\ SidesApart /\ LinesAgree
        /\ kind = "line" =>
              /\ \A language \in {"", "nl", "en", "fr"}, words \in {{"bank", "balanced"}, {"wab", "mei"}} :
                    ExemptionIsSafe(Line(text), language, words, {"bank", "balanced", "act"})
              /\ \A item \in {{"bank", "not"}, {"leave", "5"}, {"the", "leave", "only"}} : LeadInAddsNothing(Line(text), item)
        /\ kind = "role" => \A j \in DOMAIN text, w \in {"employer", "employee"} : ActorKept([text EXCEPT ![j] = w], text)
        /\ kind = "hedge" => HedgeKept(text)
        /\ kind = "exclusion" => \A i \in DOMAIN text : ExclusionKept(text, Rest(text, i) \o <<"wage">>)
        /\ kind \in {"condition", "cross", "anchor"} => ConditionKept(text)
        /\ kind = "party" => PartiesKept(text)
        /\ kind = "pair" => SideKept(text)
        /\ kind \in Figurative =>
              \A items \in {Items(text)}, l \in Declared :
                  /\ \A digits \in {<<2>>, <<2, 0>>, <<0, 2, 0>>, <<2, 0, 0, 2>>} : FigureKept(items, digits, l)
                  /\ PeriodKept(items, {"week"}, l)
        /\ kind = "transfer" => \A english \in BOOLEAN : DirectionKept(text, english)
=============================================================================
