-------------------------------- MODULE Lines --------------------------------
(***************************************************************************)
(* Lines of an answer: where a claim ends (answer/segment.py), which names *)
(* it carries (verify_guards.py), whether a heading or a list's lead-in    *)
(* may go unchecked (answer/heading.py, verify_union.py), and the glossary *)
(* the guards read them with (answer/glossary.py).                         *)
(*                                                                         *)
(* For splitting, a text is a sequence of pieces: a letter, a longer word, *)
(* a digit, a terminator, white space, a line break, an opening mark.  For *)
(* the rest a line is a sequence of fields:                                *)
(*   parts   what hyphens join, each with its form: "plain", "Capital",    *)
(*           "CAPITALS", "mixed" (letters and digits) or "number";         *)
(*   shape   "word", "marker" (a list marker or hash alone), "cell" (a     *)
(*           table's bar) or "quantity" (an ordinal, a number and its unit);*)
(*   quoted, ends: opens with a quote; ends a sentence or a label.         *)
(***************************************************************************)
EXTENDS Lexicon, SequencesExt

CONSTANTS Letters,        \* single letters
          Digit,
          Terminators, SpacedTerminators, \* TERMINATORS; those that need a space after them
          Whites, Newline,
          OpeningMarks,
          Abbreviations,  \* each as its pieces
          NumberNames,    \* NUMBER_WORDS but for "een" and "one"
          Currencies,
          References,     \* LIST_REFERENCE_NOUNS
          Attributions,   \* LEAD_IN_ATTRIBUTION
          Particled,      \* <<word, particle, rest>>: a separable verb and its parts
          Aliases         \* Aliases[w]: what the caller accepts for a name; each is its tokens

-----------------------------------------------------------------------------
(* Claims *)

IsDigit(text, i) == i \in DOMAIN text /\ text[i] \in Digit

EndsRun(text, i) ==
    /\ text[i] \in Terminators
    /\ ~(i < Len(text) /\ text[i + 1] \in Terminators)

\* The first terminator of the run that ends here.
RunStart(text, i) == Max({1} \cup {k \in 2..i : text[k - 1] \notin Terminators})

\* _preceding_word: back to white space, without the marks that open it.
PrecedingWord(text, start, i) ==
    LET to    == RunStart(text, i) - 1
        white == {k \in start..to : text[k] \in Whites}
        from  == IF white = {} THEN start ELSE Max(white) + 1
        core  == {k \in from..to : text[k] \notin OpeningMarks}
    IN  IF core = {} THEN <<>> ELSE SubSeq(text, Min(core), to)

IsAbbreviated(word) ==
    word \in Abbreviations \/ (Len(word) = 1 /\ word[1] \in Letters)

\* (The variant breaks at an abbreviation.)
ClaimEndsAtAny(text, start, i) ==
    \/ text[i] = Newline
    \/ EndsRun(text, i) /\ (i < Len(text) => text[i + 1] \in Whites)

\* Whether a claim that began at start ends here.
ClaimEnds(text, start, i) ==
    \/ text[i] = Newline
    \/ /\ EndsRun(text, i)
       /\ ~(IsDigit(text, i - 1) /\ IsDigit(text, i + 1))
       /\ ~IsAbbreviated(PrecedingWord(text, start, i))
       /\ (text[RunStart(text, i)] \in SpacedTerminators /\ i < Len(text)) => text[i + 1] \in Whites

Strip(text) ==
    LET core == {i \in DOMAIN text : text[i] \notin Whites}
    IN  IF core = {} THEN <<>> ELSE SubSeq(text, Min(core), Max(core))

\* split_claims: the claims, in order.
SplitClaims(text) ==
    LET cut == FoldLeft(LAMBDA c, i :
                            IF i = Len(text) \/ ClaimEnds(text, c.start, i)
                            THEN [claims |-> Append(c.claims, Strip(SubSeq(text, c.start, i))), start |-> i + 1]
                            ELSE c,
                        [claims |-> <<>>, start |-> 1], [i \in DOMAIN text |-> i])
    IN  SelectSeq(cut.claims, LAMBDA c : c # <<>>)

-----------------------------------------------------------------------------
(* Names *)

Part(word, form) == [word |-> word, form |-> form]

Field(parts, shape, quoted, ends) ==
    [parts |-> parts, shape |-> shape, quoted |-> quoted, ends |-> ends]

Forms(field) == {field.parts[i].form : i \in DOMAIN field.parts}

Words(field) == [i \in DOMAIN field.parts |-> field.parts[i].word]

\* tokenize_v2 of a line: hyphens and marks part words.
Tokens(line) == FlattenSeq([i \in DOMAIN line |-> Words(line[i])])

IsUpper(part) == part.form \in {"Capital", "CAPITALS", "mixed"}

HasDigits(field) == \E i \in DOMAIN field.parts : field.parts[i].form \in {"mixed", "number"}

CapitalisedParts(field) == SelectSeq(field.parts, IsUpper)

\* A name by its form: an acronym, or letters and digits.
Strong(field) ==
    \/ Forms(field) = {"CAPITALS"} \/ "mixed" \in Forms(field)
    \/ "number" \in Forms(field) /\ Forms(field) # {"number"}

\* Every capital of a line that a sentence does not begin with is a name.
IsName(field, initial) ==
    /\ field.shape = "word"
    /\ ~(Len(field.parts) > 1 /\ CapitalisedParts(field) = <<>> /\ ~HasDigits(field))
    /\ Words(field) \notin {<<c>> : c \in Currencies}
    /\ Words(field) \notin {<<l>> : l \in Letters}
    /\ Strong(field) \/ ~(initial \/ field.quoted \/ ~IsUpper(field.parts[1]))

\* What follows a marker, a cell's bar, or the end of a sentence or label is initial.
StartsAfter(field) ==
    \/ field.shape \in {"marker", "cell"}
    \/ /\ field.ends /\ field.shape = "word"
       /\ ~(Len(field.parts) > 1 /\ CapitalisedParts(field) = <<>> /\ ~HasDigits(field))
       /\ Words(field) \notin {<<c>> : c \in Currencies}

Initial(line, i) == i = 1 \/ StartsAfter(line[i - 1])

\* names.
NamesOf(line) == {line[i] : i \in {k \in DOMAIN line : IsName(line[k], Initial(line, k))}}

Calendar ==
    << <<"january", "januari">>, <<"february", "februari">>, <<"march", "maart">>, <<"april", "april">>,
       <<"may", "mei">>, <<"june", "juni">>, <<"july", "juli">>, <<"august", "augustus">>,
       <<"september", "september">>, <<"october", "oktober">>, <<"november", "november">>,
       <<"december", "december">>, <<"monday", "maandag">>, <<"tuesday", "dinsdag">>,
       <<"wednesday", "woensdag">>, <<"thursday", "donderdag">>, <<"friday", "vrijdag">>,
       <<"saturday", "zaterdag">>, <<"sunday", "zondag">> >>

\* CALENDAR_FOLD: either language's word to the Dutch one; other words to nothing.
Folded(word) == {Calendar[i][2] : i \in {k \in DOMAIN Calendar : word \in {Calendar[k][1], Calendar[k][2]}}}

CalendarWords == UNION {{pair[1], pair[2]} : pair \in Found(Calendar)}

\* What a passage has: its words, and the months and weekdays under one spelling.
Having(words) == words \cup UNION {Folded(w) : w \in words}

\* (The variant takes one word of an alias for all of it.)
AliasPartPresent(words, have) ==
    words \in DOMAIN Aliases /\ \E alias \in Aliases[words] : Found(alias) \cap have # {}

\* An alias counts only when every one of its words is present.
AliasPresent(words, have) ==
    words \in DOMAIN Aliases /\ \E alias \in Aliases[words] : Found(alias) \subseteq have

Present(word, have) == word \in have \/ Folded(word) \cap have # {} \/ AliasPresent(<<word>>, have)

AllPresent(parts, have) == \A p \in Found(parts) : Present(p.word, have)

\* Of "Wwft-related" the capitalised parts suffice.
IsAbsent(name, have) ==
    /\ ~AllPresent(name.parts, have)
    /\ ~AliasPresent(Words(name), have)
    /\ \/ HasDigits(name) \/ CapitalisedParts(name) = <<>>
       \/ ~AllPresent(CapitalisedParts(name), have)

\* absent_name: one of the names is not in the passage.
AbsentName(names, words) == \E n \in names : IsAbsent(n, Having(words))

\* name_guard_with: the document's id counts as the passage's words.
NameGuard(line, words) == AbsentName(NamesOf(line), words)

-----------------------------------------------------------------------------
(* Headings *)

\* DEFAULT_HEADING_RULES.
HeadingRules ==
    [modals |->
        [nl |-> << <<"mag">>, <<"mogen">>, <<"moet">>, <<"moeten">>, <<"verplicht">>, <<"verplichte">>,
                   <<"recht", "op">> >>,
         en |-> << <<"must">>, <<"may">>, <<"shall">>, <<"entitled">> >>],
     exclusives |->
        [nl |-> << <<"alleen">>, <<"uitsluitend">>, <<"enkel">>, <<"slechts">> >>,
         en |-> << <<"only">>, <<"solely">>, <<"exclusively">> >>],
     verbs |->
        [nl |-> << <<"is">>, <<"zijn">>, <<"wordt">>, <<"worden">>, <<"heeft">>, <<"hebben">>, <<"krijgt">>,
                   <<"krijg">>, <<"krijgen">>, <<"geldt">>, <<"gelden">>, <<"kan">>, <<"kun">>, <<"kunt">>,
                   <<"kunnen">>, <<"betaalt">>, <<"betalen">>, <<"valt">>, <<"vallen">>, <<"blijft">>,
                   <<"blijven">>, <<"gaat">>, <<"gaan">>, <<"loopt">>, <<"telt">>, <<"vervalt">>,
                   <<"ontvang">>, <<"ontvangt">>, <<"bouw">>, <<"bouwt">>, <<"neem">>, <<"neemt">> >>,
         en |-> << <<"is">>, <<"are">>, <<"has">>, <<"have">>, <<"can">>, <<"will">>, <<"get">>, <<"gets">>,
                   <<"applies">>, <<"apply">>, <<"pays">>, <<"pay">>, <<"counts">>, <<"remains">>,
                   <<"stays">>, <<"receive">>, <<"receives">>, <<"take">>, <<"takes">>, <<"need">>,
                   <<"needs">>, <<"does">>, <<"do">> >>],
     verbWords |-> 5]

\* heading_text: without the hashes, bullets and numbers it starts with.
HeadingText(line) ==
    LET text == {i \in DOMAIN line : line[i].shape # "marker"}
    IN  IF text = {} THEN <<>> ELSE SubSeq(line, Min(text), Len(line))

\* _table_for: a language without a table reads every table.
TableFor(table, language) ==
    IF language \in DOMAIN table THEN Found(table[language])
    ELSE UNION {Found(table[l]) : l \in DOMAIN table}

\* calendar_capital: "May" and "Mei", where they are written only so.
CalendarCapital(word, line) ==
    /\ word \in CalendarWords
    /\ \A i \in DOMAIN line : word \in Found(Words(line[i])) => line[i].shape = "word" /\ IsUpper(line[i].parts[1])

\* _match_table: a phrase of the table, but for what may be skipped.
MatchTable(line, table, skip) ==
    \E entry \in table :
        /\ Starts(Tokens(line), entry) # {}
        /\ ~(Len(entry) = 1 /\ skip /\ CalendarCapital(entry[1], line))

\* A figure, or a word for a number.
StatesNumber(line) ==
    \/ \E i \in DOMAIN line : HasDigits(line[i])
    \/ Found(Tokens(line)) \cap NumberNames # {}

\* heading_needs_check_with: the rule the heading states, or "".
StatesRule(line, language, rules) ==
    CASE MatchTable(line, TableFor(rules.modals, language), TRUE) -> "modal"
      [] MatchTable(line, TableFor(rules.exclusives, language), FALSE) -> "exclusive"
      [] StatesNumber(line) -> "number"
      [] /\ Len(Tokens(line)) > (IF rules.verbWords = 0 THEN 5 ELSE rules.verbWords)
         /\ MatchTable(line, TableFor(rules.verbs, language), FALSE) -> "verb"
      [] OTHER -> ""

HeadingNeedsCheckWith(heading, language, rules) == StatesRule(HeadingText(heading), language, rules)

HeadingNeedsCheck(heading, language) == HeadingNeedsCheckWith(heading, language, HeadingRules)

\* _title_case: two capitals, and none of the words but function words without one.
TitleCase(line) ==
    LET worded == {i \in DOMAIN line : line[i].shape = "word" /\ line[i].parts[1].form # "number"}
        upper  == {i \in worded : IsUpper(line[i].parts[1])}
    IN  /\ \A i \in worded \ upper : Len(line[i].parts) = 1 /\ line[i].parts[1].word \in Stopwords
        /\ Cardinality(upper) >= 2

\* heading_name_unsupported: where every word has a capital only its form makes a name.
HeadingNameUnsupported(heading, words) ==
    LET text  == HeadingText(heading)
        names == IF TitleCase(text) THEN {n \in NamesOf(text) : Strong(n)} ELSE NamesOf(text)
    IN  AbsentName(names, words)

\* The two questions a host asks before it serves a heading unchecked.
Exempt(heading, language, words) ==
    HeadingNeedsCheck(heading, language) = "" /\ ~HeadingNameUnsupported(heading, words)
-----------------------------------------------------------------------------
(* The lead-in of a list, joined to an item another unit supports *)

\* "artikel" and "article", and the number after one.
IsReference(line, i) == \E w \in References : Words(line[i]) = <<w>>

Refers(line, i) == IsReference(line, i) \/ (i > 1 /\ IsReference(line, i - 1) /\ HasDigits(line[i]))

Named(line) == UNION {Found(Words(n)) : n \in NamesOf(line)}

\* lead_in_scope and _free_lead_in_token: a word that is no reference, no source and
\* no function word must be in the item's unit; a negation always.
FreeInLeadIn(word, lead) == word \in Stopwords \cup Attributions \cup Named(lead)

\* (The variant takes a negation for a function word.)
BeyondItemOrFree(word, lead, item) == word \notin item /\ ~FreeInLeadIn(word, lead)

BeyondItem(word, lead, item) == word \notin item /\ (word \in Markers \/ ~FreeInLeadIn(word, lead))

LeadInRefused(lead, item) ==
    \E i \in DOMAIN lead : ~Refers(lead, i) /\ \E w \in Found(Words(lead[i])) : BeyondItem(w, lead, item)

-----------------------------------------------------------------------------
(* The glossary *)

GlossaryEntry(nl, en, lemmaNl, lemmaEn, sep, class) ==
    [nl |-> nl, en |-> en, lemma_nl |-> lemmaNl, lemma_en |-> lemmaEn, sep |-> sep, class |-> class]

\* A cell by its column's name; the last column of a name counts, no column is empty.
Cell(header, line, name) ==
    LET columns == {i \in DOMAIN header : header[i] = name}
    IN  IF columns = {} \/ Max(columns) > Len(line) THEN "" ELSE line[Max(columns)]

\* parse_glossary_tsv: a header without nl or en is an error, here no entries.
ParseGlossary(header, lines) ==
    IF ~({"nl", "en"} \subseteq Found(header)) THEN <<>>
    ELSE SelectSeq([i \in DOMAIN lines |->
                      GlossaryEntry(Cell(header, lines[i], "nl"), Cell(header, lines[i], "en"),
                                    Cell(header, lines[i], "lemma_nl"), Cell(header, lines[i], "lemma_en"),
                                    Cell(header, lines[i], "sep"), Cell(header, lines[i], "class"))],
                   LAMBDA e : e.nl # "" /\ e.en # "")

OfLemma(entries, lemma) == {e \in Found(entries) : lemma # "" /\ e.lemma_nl = lemma}

NlForms(entries, lemma) == UNION {{e.nl, e.lemma_nl} : e \in OfLemma(entries, lemma)}

EnForms(entries, lemma) == UNION {{e.en, e.lemma_en} : e \in OfLemma(entries, lemma)} \ {""}

\* expand_glossary: the pairs.
TermPairs(entries) ==
    {<<e.nl, e.en>> : e \in Found(entries)}
      \cup UNION {NlForms(entries, l) \X EnForms(entries, l) : l \in {e.lemma_nl : e \in Found(entries)}}

\* The places whose entry says it last.
LastPlace(places) == {i \in places : \A j \in places : j <= i}

\* (The variant has the last entry decide.)
ParticleOfLast(entries, form) ==
    {entries[i].sep : i \in LastPlace({k \in DOMAIN entries : entries[k].nl = form})} \ {""}

\* A form needs its particle, unless some entry has it as a verb on its own.
ParticleOf(entries, form) ==
    IF \E e \in Found(entries) : e.nl = form /\ e.sep = "" THEN {}
    ELSE {entries[i].sep : i \in LastPlace({k \in DOMAIN entries : entries[k].nl = form})}

ClassNamed(entries, form) ==
    {entries[i].class : i \in LastPlace({k \in DOMAIN entries : /\ entries[k].class # ""
                                                             /\ form \in {entries[k].nl, entries[k].lemma_nl}})}

\* prepare_glossary: the keys a sentence may write with the particle apart.
SeparableKeys(entries) ==
    {[particle |-> c[2], rest |-> c[3], translations |-> {p[2] : p \in {q \in TermPairs(entries) : q[1] = c[1]}}] :
        c \in {x \in Particled : \E p \in TermPairs(entries) : p[1] = x[1]}}

-----------------------------------------------------------------------------
(* Properties *)

\* The claims are the text, in order and without gaps; each of them is one claim; an
\* abbreviation, an initial or a number stays with what follows it on its line.
SplitsCleanly(text) ==
    LET claims == SplitClaims(text)
        inked(t) == SelectSeq(t, LAMBDA x : x \notin Whites)
    IN  /\ inked(FlattenSeq(claims)) = inked(text)
        /\ \A c \in Found(claims) : SplitClaims(c) = <<c>> /\ Newline \notin Found(c)
        /\ \A i \in 2..(Len(text) - 1) :
              IsDigit(text, i - 1) /\ text[i] \in Terminators /\ IsDigit(text, i + 1) =>
                  \E c \in Found(claims) : Starts(c, SubSeq(text, i - 1, i + 1)) # {}
        /\ Newline \notin Found(text) =>
              \A k \in 1..(Len(claims) - 1) : ~IsAbbreviated(PrecedingWord(claims[k], 1, Len(claims[k])))

\* Both questions "can only turn an exemption into a refusal", and an exemption is
\* safe: an unknown language exempts no more than a known one; a longer heading no more than
\* a shorter one; evidence takes nothing back; and what is exempt has no figure and,
\* but for a sentence's first word, no acronym and no capital its evidence lacks.
ExemptionIsSafe(heading, language, words, more) ==
    /\ Exempt(heading, "", words) => Exempt(heading, language, words)
    /\ Exempt(heading, language, words) =>
          /\ Exempt(heading, language, words \cup more)
          /\ \A i \in DOMAIN heading :
                i < Len(heading) => HeadingNeedsCheck(SubSeq(heading, 1, i), language) = ""
          /\ \A f \in Found(HeadingText(heading)) :
                /\ ~HasDigits(f)
                /\ Strong(f) /\ f.shape = "word" /\ Len(f.parts) = 1 /\ f.parts[1].word \notin Currencies =>
                      \/ Len(Words(f)) = 1 /\ f.parts[1].word \in Letters
                      \/ f.parts[1].word \in words
                      \/ \E e \in Found(Calendar) : f.parts[1].word \in Found(e) /\ Found(e) \cap words # {}
                      \/ Words(f) \in DOMAIN Aliases /\ \E a \in Aliases[Words(f)] :
                            \A w \in Found(a) : w \in words \/ Folded(w) \cap Having(words) # {}

\* A line whose every name the passage has is never refused for a name; nor is one in
\* the other language's months.
NamesKept(line) == ~NameGuard(line, Found(Tokens(line)))

\* A lead-in adds a source to its item, never a negation and never a figure.
LeadInAddsNothing(lead, item) ==
    ~LeadInRefused(lead, item) =>
        \A i \in DOMAIN lead :
            /\ Found(Words(lead[i])) \cap Markers \subseteq item
            /\ (\E p \in Found(lead[i].parts) : p.form = "number" /\ p.word \notin item)
                 => i > 1 /\ IsReference(lead, i - 1)

\* However a file orders its columns and its entries, every NL form of a lemma
\* translates to every EN form, and a form any entry has as a verb needs no particle.
GlossaryWhole(entries, forms) ==
    /\ TermPairs(Reverse(entries)) = TermPairs(entries)
    /\ \A e, f \in Found(entries) :
          e.lemma_nl # "" /\ e.lemma_nl = f.lemma_nl =>
              {<<e.nl, f.en>>, <<e.lemma_nl, f.en>>} \subseteq TermPairs(entries)
    /\ \A form \in forms :
          (ParticleOf(entries, form) = {}) = (ParticleOf(Reverse(entries), form) = {})
    /\ \A e \in Found(entries) : e.sep = "" => ParticleOf(entries, e.nl) = {}

\* A file gives the entries it was written from, whatever the order of its columns.
LaidOut(entries, header) ==
    [i \in DOMAIN entries |-> [c \in DOMAIN header |-> entries[i][header[c]]]]

ParsedAnyhow(entries) ==
    \A header \in {<<"nl", "en", "lemma_nl", "lemma_en", "sep", "class">>,
                   <<"class", "sep", "lemma_en", "lemma_nl", "en", "nl">>} :
        ParseGlossary(header, LaidOut(entries, header)) = entries
=============================================================================
