------------------------------- MODULE Numbers -------------------------------
(***************************************************************************)
(* Locale-aware reading of numbers and dates (answer/numbers.py).          *)
(*                                                                         *)
(* A number is spelled as groups of digits joined by marks, a language is  *)
(* a full tag with its primary subtag.                                     *)
(***************************************************************************)
EXTENDS Integers, Sequences, FiniteSets

CONSTANTS DecimalComma, DecimalPoint, Lakh  \* language tags, as in the tables

ASSUME TableAssumption == DecimalComma \cap DecimalPoint = {}

Undeclared == [full |-> "", primary |-> ""]

\* groups: the digit groups; marks: what joins them; dash: the Dutch ",-".
Spelled(groups, marks, dash) == [groups |-> groups, marks |-> marks, dash |-> dash]

Raw(n) == [groups |-> n.groups, marks |-> n.marks]

MarksOf(n) == {n.marks[i] : i \in DOMAIN n.marks}

IntOf(digits) ==
    LET v[i \in 0..Len(digits)] == IF i = 0 THEN 0 ELSE v[i - 1] * 10 + digits[i]
    IN  v[Len(digits)]

Joined(groups) ==
    LET all[i \in 0..Len(groups)] == IF i = 0 THEN <<>> ELSE all[i - 1] \o groups[i]
    IN  all[Len(groups)]

\* _canonical: a value is its whole part and its decimals without trailing zeros.
Trimmed(decimals) ==
    LET kept == {i \in DOMAIN decimals : \A j \in DOMAIN decimals : j > i => decimals[j] = 0}
        last == {i \in kept : decimals[i] # 0}
    IN  IF last = {} THEN <<>> ELSE SubSeq(decimals, 1, CHOOSE i \in last : TRUE)

Value(groups, decimals) == <<IntOf(Joined(groups)), Trimmed(decimals)>>

Known(value) == [known |-> TRUE, value |-> value, spelling |-> <<>>]

\* A number that is not read is equal to its own spelling only.
Unread(n) == [known |-> FALSE, value |-> <<0, <<>>>>, spelling |-> n]

Thousands(groups) ==
    /\ Len(groups[1]) \in 1..3
    /\ groups[1][1] # 0
    /\ \A i \in 2..Len(groups) : Len(groups[i]) = 3

\* The mark a declared language fixes; a region's tag wins over its language.
DecimalMarkOf(language) ==
    IF language.full \in DecimalComma THEN ","
    ELSE IF language.full \in DecimalPoint THEN "."
    ELSE IF language.primary \in DecimalComma THEN ","
    ELSE IF language.primary \in DecimalPoint THEN "."
    ELSE "none"

ReadsLakh(language) == language.full \in Lakh \/ language.primary \in Lakh

Leading(s) == SubSeq(s, 1, Len(s) - 1)

\* 1,00,000: two-digit groups, a last one of three, then perhaps a point.
LakhForm(n) ==
    LET decimal == Len(n.marks) > 0 /\ n.marks[Len(n.marks)] = "."
        whole   == IF decimal THEN Leading(n.groups) ELSE n.groups
        marks   == IF decimal THEN Leading(n.marks) ELSE n.marks
    IN  /\ Len(whole) > 2
        /\ \A i \in DOMAIN marks : marks[i] = ","
        /\ Len(whole[1]) \in 1..2 /\ whole[1][1] # 0
        /\ \A i \in 2..(Len(whole) - 1) : Len(whole[i]) = 2
        /\ Len(whole[Len(whole)]) = 3

ReadLakh(n) ==
    IF n.marks[Len(n.marks)] = "." THEN Value(Leading(n.groups), n.groups[Len(n.groups)])
    ELSE Value(n.groups, <<>>)

ReadDashed(n) ==
    IF "," \in MarksOf(n) \/ (Len(n.groups) > 1 /\ ~Thousands(n.groups)) THEN Unread(n)
    ELSE Known(Value(n.groups, <<>>))

ReadBothMarks(n) ==
    LET whole == Leading(n.groups)
    IN  IF n.marks[Len(n.marks)] \in {n.marks[i] : i \in 1..(Len(n.marks) - 1)} \/ ~Thousands(whole)
        THEN Unread(n)
        ELSE Known(Value(whole, n.groups[Len(n.groups)]))

\* One mark before exactly three digits: 1.500 is 1500 or 1.5.
ReadThreeDigits(n, mark) ==
    IF mark = "none" THEN Unread(n)
    ELSE IF n.marks[1] = mark THEN Known(Value(<<n.groups[1]>>, n.groups[2]))
    ELSE Known(Value(n.groups, <<>>))

ReadNumberWith(n, language, mark) ==
    IF n.dash THEN ReadDashed(n)
    ELSE IF n.marks = <<>> THEN Known(Value(n.groups, <<>>))
    ELSE IF LakhForm(n) /\ ReadsLakh(language) THEN Known(ReadLakh(n))
    ELSE IF Cardinality(MarksOf(n)) = 2 THEN ReadBothMarks(n)
    ELSE IF Len(n.marks) > 1 THEN IF Thousands(n.groups) THEN Known(Value(n.groups, <<>>)) ELSE Unread(n)
    ELSE IF Len(n.groups[2]) # 3 \/ ~Thousands(n.groups) THEN Known(Value(<<n.groups[1]>>, n.groups[2]))
    ELSE ReadThreeDigits(n, mark)

\* read_number.
ReadNumber(n, language) == ReadNumberWith(n, language, DecimalMarkOf(language))

-----------------------------------------------------------------------------
(* Numbers of a text *)

\* read_with: a number the claim copies keeps the unit's reading.  (The variant
\* reads a number by any other that begins alike.)
ReadWithPrefix(f, language, verbatim) ==
    LET hits == {v \in verbatim : v.raw.groups[1] = f.groups[1]}
    IN  IF ~f.dash /\ hits # {} THEN (CHOOSE v \in hits : TRUE).reading ELSE ReadNumber(f, language)

ReadWith(f, language, verbatim) ==
    LET hits == {v \in verbatim : v.raw = Raw(f)}
    IN  IF ~f.dash /\ hits # {} THEN (CHOOSE v \in hits : TRUE).reading ELSE ReadNumber(f, language)

-----------------------------------------------------------------------------
(* Dates *)

ValidDate(d, m) == d \in 1..31 /\ m \in 1..12

\* A numeric date a-b-year.  Dutch puts the day first; elsewhere a date that can be
\* read both ways is its spelling.
ReadDate(a, b, year, language) ==
    IF language.primary = "nl" /\ ValidDate(a, b) THEN {[day |-> a, month |-> b, year |-> year, spelling |-> <<>>]}
    ELSE IF ValidDate(a, b) /\ ValidDate(b, a) /\ a # b
         THEN {[day |-> 0, month |-> 0, year |-> 0, spelling |-> <<a, b, year>>]}
    ELSE IF ValidDate(a, b) THEN {[day |-> a, month |-> b, year |-> year, spelling |-> <<>>]}
    ELSE IF ValidDate(b, a) THEN {[day |-> b, month |-> a, year |-> year, spelling |-> <<>>]}
    ELSE {}

SameDate(x, y) ==
    IF x.spelling # <<>> \/ y.spelling # <<>> THEN x.spelling = y.spelling
    ELSE /\ x.day = y.day /\ x.month = y.month
         /\ (x.year = 0 \/ y.year = 0 \/ x.year = y.year)

-----------------------------------------------------------------------------
(* Properties of one spelling *)

\* What a writer means who puts this mark before decimals, groups by thousands
\* with the other mark, or groups by lakh; empty if such a writer spells no such
\* number.
Meanings(n, mark, lakh) ==
    LET decimal == n.marks # <<>> /\ n.marks[Len(n.marks)] = mark
        whole   == IF decimal THEN Leading(n.groups) ELSE n.groups
        marks   == IF decimal THEN Leading(n.marks) ELSE n.marks
        tail    == IF decimal THEN n.groups[Len(n.groups)] ELSE <<>>
        grouped == \/ Len(whole) = 1
                   \/ Thousands(whole)
                   \/ lakh /\ LakhForm(n)
    IN  IF grouped /\ (\A i \in DOMAIN marks : marks[i] # mark) THEN {Value(whole, tail)} ELSE {}

Conventions(language) ==
    IF DecimalMarkOf(language) = "none" THEN {",", "."} ELSE {DecimalMarkOf(language)}

\* ADR-0015: "a false equal hides a real conflict", so a number is read to a value
\* only if every writer the declared language allows means that value, and one a
\* declared language leaves in no doubt is always read.
ReadsWhatWasWritten(n, language) ==
    ~n.dash =>
      LET reading == ReadNumber(n, language)
          meant   == UNION {Meanings(n, mark, ReadsLakh(language)) : mark \in Conventions(language)}
      IN  /\ reading.known => meant \subseteq {reading.value}
          /\ DecimalMarkOf(language) # "none" /\ meant # {} => reading.known
=============================================================================
