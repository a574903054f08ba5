------------------------------- MODULE Figures -------------------------------
(***************************************************************************)
(* What the number and unit guards read in a text: clock times, dates,     *)
(* grouped digits, money rates, counted nouns and quantities               *)
(* (answer/numbers.py, answer/verify_guards.py, verify_guards_model.py).   *)
(*                                                                         *)
(* A text is a sequence of items: a word or a number, and the gap before   *)
(* it: "" (nothing), " " (white space), ":", "-", "/" or "'".              *)
(***************************************************************************)
EXTENDS Numbers, FiniteSetsExt, Selection

CONSTANTS AmWords, PmWords,   \* begin with am, with pm
          HourWords,          \* uur, u
          Months,             \* a month's name to its number
          DaySuffixes, OrdinalSuffixes,
          MoneySigns, MoneyWords, CentWords,
          Symbols,            \* are no letters
          Ordinals,           \* an ordinal word to its number
          NumberWords,        \* a spelled-out value to its number
          DutchUnits, DutchTeens, DutchTens, Duizend, Honderd, LinkEn,
          Morphemes,          \* the parts a Dutch word is written from
          TimeUnits,          \* a unit word to its class
          CompoundUnits,      \* a Dutch compound to the class it ends in
          UnitModifiers, QuantityLinks, RangeBoundWords, RateWords,
          CountFunctionWords, EndsInE, Eens,  \* een, one
          HalfSign, HalfWords, HalfYears, YearWords

\* A number has no word.
ASSUME BlankAssumption == "" \notin CentWords \cup DOMAIN NumberWords \cup DOMAIN Morphemes

NoNumber == Spelled(<<>>, <<>>, FALSE)

Blank == [word |-> "", number |-> NoNumber, gap |-> " "]

Word(w, gap) == [word |-> w, number |-> NoNumber, gap |-> gap]

Figure(n, gap) == [word |-> "", number |-> n, gap |-> gap]

IsNumber(item) == item.number.groups # <<>>

\* Digits alone, of so many figures.
Digits(item, lengths) ==
    IsNumber(item) /\ item.number.marks = <<>> /\ Len(item.number.groups[1]) \in lengths

IntAt(text, i) == IntOf(text[i].number.groups[1])

Follows(text, i, gaps) == i \in DOMAIN text /\ text[i].gap \in gaps

WordAt(text, i, gaps, words) == Follows(text, i, gaps) /\ text[i].word \in words

IsLetters(item) == item.word \notin Symbols \cup {""}

\* "p50", "ipv4": digits glued to a letter.
IsIdentifier(text, i) == i > 1 /\ text[i].gap = "" /\ IsLetters(text[i - 1])

Erased(text, places) == [i \in DOMAIN text |-> IF i \in places THEN Blank ELSE text[i]]

\* finditer: of the spans the leftmost, then the leftmost after it.
Leftmost(text, spans) ==
    LET found[i \in 0..Len(text)] ==
          IF i = 0 THEN {}
          ELSE LET before == found[i - 1]
               IN  IF \A s \in before : s.to < i THEN before \cup {s \in spans : s.at = i} ELSE before
    IN  found[Len(text)]

Covered(spans) == UNION {s.at..s.to : s \in spans}

\* What has been read of a text, and what is left of the text.
Fresh(text) == [times |-> {}, dates |-> {}, text |-> text]

-----------------------------------------------------------------------------
(* Clock times *)

IsHour(text, i) == ~IsIdentifier(text, i) /\ Digits(text[i], 1..2) /\ IntAt(text, i) <= 23

IsMinute(text, i) == Follows(text, i, {":"}) /\ Digits(text[i], {2}) /\ IntAt(text, i) <= 59

\* 9.30 is one number.
IsHourDotMinute(text, i) ==
    /\ IsNumber(text[i]) /\ ~IsIdentifier(text, i) /\ text[i].number.marks = <<".">>
    /\ Len(text[i].number.groups[1]) \in 1..2 /\ IntAt(text, i) <= 23
    /\ Len(text[i].number.groups[2]) = 2 /\ IntOf(text[i].number.groups[2]) <= 59

TwentyFour(hour, pm) == IF pm /\ hour < 12 THEN hour + 12 ELSE IF ~pm /\ hour = 12 THEN 0 ELSE hour

\* The pattern ends in am or pm, also where a longer word begins so.
AmPmSpans(text) ==
    LET span(i, to, minute) ==
            {[at |-> i, to |-> to, time |-> <<TwentyFour(IntAt(text, i), text[to].word \in PmWords), minute>>]}
        said(i) == WordAt(text, i, {"", " "}, AmWords \cup PmWords)
    IN  UNION {IF IsHour(text, i) /\ said(i + 1) THEN span(i, i + 1, 0)
               ELSE IF IsHourDotMinute(text, i) /\ said(i + 1)
                    THEN span(i, i + 1, IntOf(text[i].number.groups[2]))
               ELSE IF IsHour(text, i) /\ IsMinute(text, i + 1) /\ said(i + 2)
                    THEN span(i, i + 2, IntAt(text, i + 1))
               ELSE {} : i \in {j \in DOMAIN text : IsNumber(text[j]) /\ IntAt(text, j) \in 1..12}}

ColonSpans(text) ==
    {[at |-> i, to |-> i + 1, time |-> <<IntAt(text, i), IntAt(text, i + 1)>>] :
        i \in {j \in DOMAIN text : IsHour(text, j) /\ IsMinute(text, j + 1)}}

\* The word that makes 9.30 a time is not erased.
DotSpans(text) ==
    {[at |-> i, to |-> i, time |-> <<IntAt(text, i), IntOf(text[i].number.groups[2])>>] :
        i \in {j \in DOMAIN text : IsHourDotMinute(text, j) /\ WordAt(text, j + 1, {"", " "}, HourWords)}}

ReadTimes(read, spans) ==
    [read EXCEPT !.times = @ \cup {s.time : s \in spans}, !.text = Erased(@, Covered(spans))]

\* clock_times: the times, then the text without them.
AmPmRead(read) == ReadTimes(read, Leftmost(read.text, AmPmSpans(read.text)))
ColonRead(read) == ReadTimes(read, Leftmost(read.text, ColonSpans(read.text)))
DotRead(read) == ReadTimes(read, Leftmost(read.text, DotSpans(read.text)))

ClockTimes(text) == DotRead(ColonRead(AmPmRead(Fresh(text))))

-----------------------------------------------------------------------------
(* Dates *)

IsDay(text, i) == i \in DOMAIN text /\ ~IsIdentifier(text, i) /\ Digits(text[i], 1..2) /\ IntAt(text, i) <= 39

IsYear(text, i, gaps) ==
    Follows(text, i, gaps) /\ Digits(text[i], {4}) /\ IntAt(text, i) \in 1900..2099

\* A span's end and year, when a year may follow its last place.
WithYear(text, at, last, day, month, gaps) ==
    LET to == IF IsYear(text, last + 1, gaps) THEN last + 1 ELSE last
    IN  [at |-> at, to |-> to, day |-> day, month |-> month,
         year |-> IF to = last THEN 0 ELSE IntAt(text, to)]

Suffixed(text, i) == IF WordAt(text, i + 1, {""}, DaySuffixes) THEN i + 1 ELSE i

DayMonthSpans(text) ==
    {WithYear(text, i, Suffixed(text, i) + 1, IntAt(text, i), Months[text[Suffixed(text, i) + 1].word], {" "}) :
        i \in {j \in DOMAIN text : IsDay(text, j) /\ WordAt(text, Suffixed(text, j) + 1, {" "}, DOMAIN Months)}}

MonthDaySpans(text) ==
    {WithYear(text, i, Suffixed(text, i + 1), IntAt(text, i + 1), Months[text[i].word], {" "}) :
        i \in {j \in DOMAIN text : /\ text[j].word \in DOMAIN Months
                                   /\ IsDay(text, j + 1) /\ text[j + 1].gap = " "}}

\* 1.6.2026 is one number.
DottedSpans(text) ==
    {[at |-> i, to |-> i, day |-> IntAt(text, i), month |-> IntOf(text[i].number.groups[2]),
      year |-> IntOf(text[i].number.groups[3])] :
        i \in {j \in DOMAIN text : /\ text[j].number.marks = <<".", ".">> /\ ~IsIdentifier(text, j)
                                   /\ \A k \in 1..2 : Len(text[j].number.groups[k]) \in 1..2
                                   /\ IntOf(text[j].number.groups[3]) \in 1900..2099}}

\* Without a year only a hyphen makes a date.
NumericSpans(text) ==
    {s \in {WithYear(text, i, i + 1, IntAt(text, i), IntAt(text, i + 1), {"-", "/"}) :
              i \in {j \in DOMAIN text : /\ IsDay(text, j) /\ IsDay(text, j + 1) /\ IntAt(text, j + 1) <= 19
                                         /\ text[j + 1].gap \in {"-", "/"}}} :
        s.year # 0 \/ text[s.at + 1].gap = "-"}

Valid(spans) == {s \in spans : ValidDate(s.day, s.month)}

ReadDates(read, spans) ==
    [read EXCEPT !.dates = @ \cup {[day |-> s.day, month |-> s.month, year |-> s.year, spelling |-> <<>>] : s \in spans},
                 !.text = Erased(@, Covered(spans))]

\* date_spans: written dates, then numeric ones.
DayMonthRead(read) == ReadDates(read, Valid(Leftmost(read.text, DayMonthSpans(read.text))))
MonthDayRead(read) == ReadDates(read, Valid(Leftmost(read.text, MonthDaySpans(read.text))))

ReadNumeric(read, spans, language) ==
    [read EXCEPT !.dates = @ \cup UNION {ReadDate(s.day, s.month, s.year, language) : s \in spans},
                 !.text = Erased(@, Covered({s \in spans : ValidDate(s.day, s.month) \/ ValidDate(s.month, s.day)}))]

NumericRead(read, language) ==
    ReadNumeric(read, Leftmost(read.text, NumericSpans(read.text) \cup DottedSpans(read.text)), language)

\* dates_in: the dates, and the text without them.
DatesIn(read, language) == NumericRead(MonthDayRead(DayMonthRead(read)), language)

-----------------------------------------------------------------------------
(* Grouped digits *)

\* How many groups of three follow a place, each after the gap.
GroupsAfter(text, i, gap) ==
    Cardinality({k \in 1..(Len(text) - i) :
                    \A j \in 1..k : /\ IsNumber(text[i + j]) /\ text[i + j].gap = gap
                                    /\ Len(text[i + j].number.groups[1]) = 3
                                    /\ j < k => text[i + j].number.marks = <<>>})

OneNumber(text, r) ==
    LET lead == [k \in 1..(r.to - r.at + 1) |-> text[r.at + k - 1].number.groups[1]]
    IN  [text[r.at] EXCEPT !.number = [text[r.to].number EXCEPT !.groups = <<Joined(lead)>> \o Tail(@)]]

\* Joins each run, a span, to one number.
Join(text, runs) ==
    LET kept == Within([i \in DOMAIN text |-> i], {i \in DOMAIN text : \A r \in runs : i \notin (r.at + 1)..r.to})
    IN  [n \in DOMAIN kept |-> IF \E r \in runs : r.at = kept[n]
                               THEN OneNumber(text, CHOOSE r \in runs : r.at = kept[n]) ELSE text[kept[n]]]

Leads(item, lengths) == Digits(item, lengths) /\ item.number.groups[1][1] # 0

\* After a currency sign; one of letters stands apart.
AfterSign(text, i) ==
    i > 1 /\ text[i].gap \in {"", " "} /\ text[i - 1].word \in MoneySigns /\ ~IsIdentifier(text, i)

\* After a currency sign, at most four groups (one a pass).
MoneyRuns(text) ==
    {[at |-> i, to |-> i + Min({4, GroupsAfter(text, i, " ")})] :
        i \in {j \in DOMAIN text : /\ AfterSign(text, j)
                                   /\ Leads(text[j], 1..9) /\ GroupsAfter(text, j, " ") > 0}}

\* _join_grouped: a run that touches another number stays as it is written.
GroupedRuns(text, gap) ==
    {r \in Leftmost(text, {[at |-> i, to |-> i + GroupsAfter(text, i, gap)] :
                              i \in {j \in DOMAIN text : Leads(text[j], 1..3) /\ GroupsAfter(text, j, gap) > 0}}) :
        /\ ~IsIdentifier(text, r.at)
        /\ text[r.at].gap # "'"
        /\ text[r.to].number.marks = <<>> =>
              ~(Follows(text, r.to + 1, {" ", "'"}) /\ IsNumber(text[r.to + 1]))
        /\ ~(Follows(text, r.to + 1, {""}) /\ IsLetters(text[r.to + 1]))}

JoinMoney(text) == Join(text, MoneyRuns(text))
JoinGrouped(text, gap) == Join(text, GroupedRuns(text, gap))

\* join_spaced_thousands: spaces only where the language writes a decimal comma.
JoinSpacedThousands(text, language) ==
    JoinGrouped(IF DecimalMarkOf(language) = "," THEN JoinGrouped(JoinMoney(text), " ") ELSE JoinMoney(text), "'")

\* numbers_in: every number that is not part of an identifier, with its unit.
NumbersOf(joined, language, verbatim) ==
    LET united(i) == Follows(joined, i + 1, {"", " "}) /\ IsLetters(joined[i + 1])
    IN  {[raw |-> Raw(joined[i].number), reading |-> ReadWith(joined[i].number, language, verbatim),
          unit |-> IF united(i) THEN joined[i + 1].word ELSE "",
          attached |-> united(i) /\ joined[i + 1].gap = ""] :
            i \in {j \in DOMAIN joined : IsNumber(joined[j]) /\ ~IsIdentifier(joined, j)}}

NumbersIn(text, language, verbatim) == NumbersOf(JoinSpacedThousands(text, language), language, verbatim)

Unequivocal(found) ==
    {[raw |-> f.raw, reading |-> f.reading] :
        f \in {g \in found : \A h \in found : h.raw = g.raw => h.reading = g.reading}}

\* verbatim_in: the readings of the numbers a unit spells, unless it reads one
\* spelling in two ways.
VerbatimIn(text, language) == Unequivocal(NumbersIn(text, language, {}))

-----------------------------------------------------------------------------
(* Values in words *)

\* _parse_dutch_number below a hundred: one part, or a unit "en" a ten.
DutchSmall(parts) ==
    IF Len(parts) = 1
    THEN {t[parts[1]] : t \in {u \in {DutchUnits, DutchTeens, DutchTens} : parts[1] \in DOMAIN u}}
    ELSE IF Len(parts) = 3 /\ parts[2] \in LinkEn /\ parts[3] \in DOMAIN DutchTens /\ parts[1] \in DOMAIN DutchUnits
    THEN {DutchUnits[parts[1]] + DutchTens[parts[3]]}
    ELSE {}

First(parts, part) == {i \in DOMAIN parts : parts[i] = part /\ \A j \in 1..(i - 1) : parts[j] # part}

HundredAt(parts) == CHOOSE i \in First(parts, Honderd) : TRUE

TimesHundred(parts) ==
    IF HundredAt(parts) = 1 THEN {1}
    ELSE IF HundredAt(parts) = 2 /\ parts[1] \in DOMAIN DutchUnits THEN {DutchUnits[parts[1]]} ELSE {}

BeyondHundred(parts) ==
    IF HundredAt(parts) = Len(parts) THEN {0}
    ELSE DutchSmall(SubSeq(parts, HundredAt(parts) + 1, Len(parts)))

\* Below a thousand: perhaps a unit, "honderd", perhaps a rest below a hundred.
DutchHundreds(parts) ==
    IF First(parts, Honderd) = {} THEN DutchSmall(parts)
    ELSE {t * 100 + r : t \in TimesHundred(parts), r \in BeyondHundred(parts)}

\* Any: perhaps a count, "duizend", perhaps a rest, read from the back.
DutchNumber(parts) ==
    LET from[i \in 1..(Len(parts) + 1)] ==
            LET own == SubSeq(parts, i, Len(parts))
            IN  IF First(own, Duizend) = {} THEN DutchHundreds(own)
                ELSE LET at    == CHOOSE k \in First(own, Duizend) : TRUE
                         times == IF at = 1 THEN {1} ELSE DutchHundreds(SubSeq(own, 1, at - 1))
                         rest  == IF at = Len(own) THEN {0} ELSE from[i + at]
                     IN  {t * 1000 + r : t \in times, r \in rest}
    IN  from[1]

\* number_word_value: the value, or none.
NumberWordValue(word) ==
    IF word \in DOMAIN NumberWords THEN {Known(<<NumberWords[word], <<>>>>)}
    ELSE IF word \in DOMAIN Morphemes THEN {Known(<<n, <<>>>>) : n \in DutchNumber(Morphemes[word])}
    ELSE {}

\* number_value: of an item.
NumberValue(item, language, verbatim) ==
    IF item.word = HalfSign THEN {Known(<<0, <<5>>>>)}
    ELSE IF IsNumber(item) THEN {ReadWith([item.number EXCEPT !.dash = FALSE], language, verbatim)}
    ELSE NumberWordValue(item.word)

\* unit_scan: words and numbers, whatever stands between them.
UnitScan(text) == SelectSeq(text, LAMBDA item : IsNumber(item) \/ IsLetters(item) \/ item.word = HalfSign)

\* unit_of: the class of a unit word.
UnitOf(item) ==
    IF item.word \in DOMAIN TimeUnits THEN {TimeUnits[item.word]}
    ELSE IF item.word \in DOMAIN CompoundUnits THEN {CompoundUnits[item.word]}
    ELSE {}

-----------------------------------------------------------------------------
(* Values are a whole number and decimals *)

Scaled(v) == IntOf(<<v[1]>> \o v[2])

Decimal(n, places) ==
    <<n \div 10^places, Trimmed([i \in 1..places |-> (n \div 10^(places - i)) % 10])>>

Times(v, k) == Decimal(Scaled(v) * k, Len(v[2]))

Halved(v) == Decimal(Scaled(v) * 5, Len(v[2]) + 1)

Hundredth(v) == Decimal(Scaled(v), Len(v[2]) + 2)

\* cents_as_euros.
CentsAsEuros(m) ==
    IF m.unit \in CentWords /\ m.reading.known THEN Known(Hundredth(m.reading.value)) ELSE m.reading

-----------------------------------------------------------------------------
(* Money rates and quantities *)

BeforeMoney(text, i) == WordAt(text, i + 1, {"", " "}, MoneyWords)

\* RATE_PERIOD: perhaps a word, then "per", then the period.
PeriodAt(text, i) ==
    LET per(j) == IF WordAt(text, j, {"", " "}, RateWords) /\ Follows(text, j + 1, {"", " "})
                  THEN UnitOf(text[j + 1])
                  ELSE IF Follows(text, j, {"/"}) THEN UnitOf(text[j]) ELSE {}
    IN  IF per(i) # {} THEN per(i)
        ELSE IF Follows(text, i, {" "}) /\ IsLetters(text[i]) THEN per(i + 1) ELSE {}

\* money_rates: the rates, and the text without the amounts.
MoneyRates(text, language, verbatim) ==
    LET money      == {i \in DOMAIN text : IsNumber(text[i]) /\ (AfterSign(text, i) \/ BeforeMoney(text, i))}
        ends(i)    == {j \in {i + 1, i + 2} : IF j = i + 1 THEN AfterSign(text, i) ELSE BeforeMoney(text, i)}
        rate(i, j) == {[amount |-> ReadWith([text[i].number EXCEPT !.dash = FALSE], language, verbatim), period |-> p] :
                          p \in PeriodAt(text, j)}
    IN  [rates |-> UNION {UNION {rate(i, j) : j \in ends(i)} : i \in money}, text |-> Erased(text, money)]

\* Past the numbers that share a unit, "30, 60 of maximaal 90", and past a value
\* said twice, "drie (3)".
PastNumbers(items, value, i) ==
    LET n          == Len(items)
        past(j, v) == IF j <= n THEN IF value[j] = v THEN j + 1 ELSE j ELSE j
        second(j)  == IF items[j + 1].word \in RangeBoundWords /\ j + 2 <= n THEN j + 2 ELSE j + 1
        end[j \in 1..(n + 2)] ==
            IF j >= n \/ j - i > 6 THEN j
            ELSE IF items[j].word \notin QuantityLinks THEN j
            ELSE IF value[second(j)] = {} THEN j
            ELSE end[past(second(j) + 1, value[second(j)])]
    IN  end[past(i + 1, value[i])]

\* Half of a value, after "halve"; the unit stands a word further.
HalfOf(v, word) == IF word \in HalfWords /\ v.known THEN Known(Halved(v.value)) ELSE v

\* The unit of a number is the item at j, or the next one.
CountedAt(items, value, v, j) ==
    LET next == j + 1 \in DOMAIN items
    IN  IF j \notin DOMAIN items THEN {}
        ELSE IF items[j].word \in DOMAIN UnitModifiers /\ next /\ UnitOf(items[j + 1]) = {"day"}
        THEN {[value |-> v, unit |-> UnitModifiers[items[j].word]]}
        ELSE IF UnitOf(items[j]) # {} THEN {[value |-> v, unit |-> u] : u \in UnitOf(items[j])}
        ELSE IF next /\ value[j] = {} /\ items[j + 1].word \in DOMAIN TimeUnits
        THEN {[value |-> HalfOf(v, items[j].word), unit |-> TimeUnits[items[j + 1].word]]}
        ELSE {}

SixMonths == [value |-> Known(<<6, <<>>>>), unit |-> "month"]

\* "half a year" is six months; "half" of anything else is not read.
HalfAt(items, j) == IF j \in DOMAIN items /\ items[j].word \in YearWords THEN {SixMonths} ELSE {}

\* An ordinal counts only a compound of years.
OrdinalAt(word, next) ==
    IF UnitOf(next) = {"year"} /\ next.word \notin DOMAIN TimeUnits
    THEN {[value |-> Known(<<Ordinals[word], <<>>>>), unit |-> "year"]}
    ELSE {}

QuantityAt(items, value, i) ==
    IF items[i].word \in HalfYears THEN {SixMonths}
    ELSE IF items[i].word = "half"
    THEN HalfAt(items, IF i < Len(items) /\ items[i + 1].word = "a" THEN i + 2 ELSE i + 1)
    ELSE IF items[i].word \in DOMAIN Ordinals /\ i < Len(items) THEN OrdinalAt(items[i].word, items[i + 1])
    ELSE UNION {CountedAt(items, value, v, PastNumbers(items, value, i)) : v \in value[i]}

QuantitiesOf(items, value) == UNION {QuantityAt(items, value, i) : i \in DOMAIN items}

ValuesOf(items, language, verbatim) == [i \in DOMAIN items |-> NumberValue(items[i], language, verbatim)]

ItemsOf(text, language, verbatim) == UnitScan(MoneyRates(ClockTimes(text).text, language, verbatim).text)

QuantitiesIn(items, language, verbatim) == QuantitiesOf(items, ValuesOf(items, language, verbatim))

\* quantities: the values with their unit's class.
Quantities(text, language, verbatim) == QuantitiesIn(ItemsOf(text, language, verbatim), language, verbatim)

-----------------------------------------------------------------------------
(* Guards: the condition of a refusal *)

\* A number word and the word after it, which it counts.
Counts(words, i, language) ==
    /\ i < Len(words) /\ words[i].word \notin Eens /\ NumberWordValue(words[i].word) # {}
    /\ words[i + 1].word \notin CountFunctionWords /\ UnitOf(words[i + 1]) = {}
    /\ NumberValue(words[i + 1], language, {}) = {}

SameItem(a, b) == a.word = b.word /\ a.number = b.number

\* What the passage counts the same words to, so many of them.
CountedTo(words, i, span, others, language) ==
    UNION {NumberValue(others[k], language, {}) :
              k \in {j \in 1..(Len(others) - span) :
                        others[j].word \notin Eens /\ \A x \in 1..span : SameItem(others[j + x], words[i + x])}}

\* count_conflict: a counted noun of the claim that the passage counts otherwise.
CountConflict(words, others, language) ==
    \E i \in {j \in DOMAIN words : Counts(words, j, language)} :
        \E span \in {IF words[i + 1].word \in EndsInE /\ i + 2 <= Len(words) THEN 2 ELSE 1} :
            \E values \in {CountedTo(words, i, span, others, language)} :
                values # {} /\ NumberWordValue(words[i].word) \cap values = {}

IsOrdinal(m) == m.attached /\ m.unit \in OrdinalSuffixes

WordsOf(text) == {text[i].word : i \in DOMAIN text}

NumbersHeld(read, words) ==
    {CentsAsEuros(m) : m \in read} \cup UNION {NumberWordValue(w) : w \in words \ {"een"}}

OrdinalsHeld(read, words) ==
    {m.reading : m \in {x \in read : IsOrdinal(x)}} \cup {Known(<<Ordinals[w], <<>>>>) : w \in words \cap DOMAIN Ordinals}

\* Of the numbers a claim reads one that the passage, with its own, does not hold.
Unheld(claimed, read, words) ==
    \E m \in claimed : CentsAsEuros(m) \notin IF IsOrdinal(m) THEN OrdinalsHeld(read, words) ELSE NumbersHeld(read, words)

\* Over what has been read of the two texts.
NumbersDiffer(c, claimLanguage, p, passageLanguage) ==
    \/ \E d \in c.dates : \A e \in p.dates : ~SameDate(d, e)
    \/ ~(c.times \subseteq p.times)
    \/ \E read \in {NumbersIn(p.text, passageLanguage, {})} :
          Unheld(NumbersIn(c.text, claimLanguage, Unequivocal(read)), read, WordsOf(p.text))
    \/ CountConflict(UnitScan(c.text), UnitScan(p.text), passageLanguage)

\* number_guard: each time, date and number of the claim is one of the passage.
NumberGuard(claim, claimLanguage, passage, passageLanguage) ==
    NumbersDiffer(DatesIn(ClockTimes(claim), claimLanguage), claimLanguage,
                  DatesIn(ClockTimes(passage), passageLanguage), passageLanguage)

\* same_quantity_in: the same period in years, months or weeks.
SameQuantity(q, p) ==
    \/ q = p
    \/ /\ q.value.known /\ p.value.known
       /\ \E f \in {<<"year", "month", 12>>, <<"year", "week", 52>>} :
             \/ q.unit = f[1] /\ p.unit = f[2] /\ p.value.value = Times(q.value.value, f[3])
             \/ /\ q.unit = f[2] /\ p.unit = f[1] /\ q.value.value = Times(p.value.value, f[3])
                /\ f[2] = "week" => p.value.value[2] = <<>>

SamePeriodFamily(a, b) == {a, b} \subseteq {"day", "workday"}

RatesDiffer(claimed, rates) ==
    \E r \in claimed \ rates : \E p \in rates :
        p.amount = r.amount /\ p.period # r.period /\ ~SamePeriodFamily(p.period, r.period)

QuantitiesDiffer(claimed, have) ==
    \E q \in claimed :
        /\ \A p \in have : ~SameQuantity(q, p)
        /\ \E p \in have : p.value = q.value \/ p.unit = q.unit

UnitsDiffer(said, claimLanguage, told, passageLanguage, verbatim) ==
    \/ RatesDiffer(MoneyRates(said, claimLanguage, verbatim).rates, MoneyRates(told, passageLanguage, {}).rates)
    \/ QuantitiesDiffer(Quantities(said, claimLanguage, verbatim), Quantities(told, passageLanguage, {}))

UnitsDifferOver(said, claimLanguage, told, passageLanguage) ==
    UnitsDiffer(said, claimLanguage, told, passageLanguage, VerbatimIn(told, passageLanguage))

\* unit_guard: a quantity of the claim has its value, or its unit, swapped for
\* another of the passage; a rate has its period swapped.
UnitGuard(claim, claimLanguage, passage, passageLanguage) ==
    UnitsDifferOver(ClockTimes(claim).text, claimLanguage, ClockTimes(passage).text, passageLanguage)

-----------------------------------------------------------------------------
(* Properties *)

\* A number that the guard lets pass over a passage of one number is that number:
\* copied as it is spelled, or the same amount to every writer.
FigureBacked(claim, claimLanguage, passage, passageLanguage) ==
    LET meant(f, language) ==
            UNION {Meanings(f, mark, ReadsLakh(language)) : mark \in Conventions(language)}
    IN  ~claim.dash /\ ~passage.dash
          /\ ~NumberGuard(<<Figure(claim, " ")>>, claimLanguage, <<Figure(passage, " ")>>, passageLanguage)
        => \/ Raw(claim) = Raw(passage)
           \/ \A x \in meant(claim, claimLanguage), y \in meant(passage, passageLanguage) : x = y

\* A figure that is none of the passage's, and as long, is refused in the place of any
\* of them, be that a part of a date, of a time or of a grouped number.
FigureKept(passage, digits, language) ==
    \A i \in DOMAIN passage :
        Digits(passage[i], {Len(digits)}) /\ ~IsIdentifier(passage, i)
        => NumberGuard([passage EXCEPT ![i].number.groups = <<digits>>], language, passage, language)

\* The places of the units that count a period: after a number that is no money, or
\* after the "per" of a price.
PeriodPlaces(text) ==
    {i \in 2..Len(text) :
        /\ UnitOf(text[i]) # {}
        /\ \/ /\ IsNumber(text[i - 1]) /\ text[i - 1].gap # ":"
              /\ ~AfterSign(text, i - 1)
           \/ /\ i > 3 /\ text[i - 1].word \in RateWords /\ IsNumber(text[i - 2]) /\ AfterSign(text, i - 2)}

\* A unit that is none of the passage's is refused in the place of one that counts a
\* period.
PeriodKept(passage, words, language) ==
    \A i \in PeriodPlaces(passage), w \in words :
        UnitGuard([passage EXCEPT ![i].word = w], language, passage, language)

\* A Dutch number is read as it is written: units before tens, "honderd" and
\* "duizend" with no "een" before them.
DutchWritten(n, unit, teen, ten, en) ==
    LET small(k) == IF k = 0 THEN <<>> ELSE IF k < 10 THEN <<unit[k]>> ELSE IF k < 20 THEN <<teen[k]>>
                    ELSE IF k % 10 = 0 THEN <<ten[k]>> ELSE <<unit[k % 10], en, ten[k - (k % 10)]>>
        hundreds(k) == (IF k \div 100 = 0 THEN <<>> ELSE IF k \div 100 = 1 THEN <<Honderd>>
                        ELSE <<unit[k \div 100], Honderd>>) \o small(k % 100)
    IN  (IF n < 1000 THEN <<>> ELSE IF n < 2000 THEN <<Duizend>> ELSE hundreds(n \div 1000) \o <<Duizend>>)
          \o hundreds(n % 1000)
=============================================================================
