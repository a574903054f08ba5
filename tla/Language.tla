------------------------------ MODULE Language ------------------------------
(***************************************************************************)
(* Tokens, scripts and languages: the Unicode tokenizer and the scripts it *)
(* claims (tokenize.py), the detector that works from scripts alone        *)
(* (lang/detect.py) and the choice of the language an answer is written in *)
(* (lang/fallback.py).                                                     *)
(*                                                                         *)
(* A character is a member of a small set; what Unicode says of it is      *)
(* given: its script in the table, whether it forms words, and what it     *)
(* becomes under normalisation and case folding.                           *)
(***************************************************************************)
EXTENDS Naturals, Sequences, SequencesExt, FiniteSetsExt, Selection

CONSTANTS ScriptOf,    \* ScriptOf[c]: a script, "common" or "unknown"
          WordChars,   \* letters, numbers and marks
          Letters,
          Normal,      \* Normal[c]: the characters it normalises to
          Continuous,  \* scripts written without spaces
          Supported,   \* the scripts that are claimed
          IsoOf,       \* IsoOf[s]: the language the detector takes a script for
          Cues         \* Cues[l]: the words that give a Latin language away

\* A character becomes characters; what has no script of its own is not one of those
\* without spaces (CONTINUOUS_SCRIPTS).
ASSUME LanguageAssumption ==
    /\ \A c \in DOMAIN Normal : Normal[c] \in Seq(DOMAIN Normal)
    /\ {"common", "unknown"} \cap Continuous = {}

Normalized(text) == FlattenSeq([i \in DOMAIN text |-> Normal[text[i]]])

\* One run of word characters of one script: pairs of neighbours where no spaces
\* are written, nothing where the script is unknown, else the run itself.
RunTokens(run, script) ==
    IF run = <<>> \/ script = "unknown" THEN <<>>
    ELSE IF script \in Continuous /\ Len(run) > 1
    THEN [i \in 1..(Len(run) - 1) |-> <<run[i], run[i + 1]>>]
    ELSE <<run>>

NoRun == [out |-> <<>>, run |-> <<>>, script |-> "common"]

Flushed(s) == [out |-> s.out \o RunTokens(s.run, s.script), run |-> <<>>, script |-> "common"]

Extended(s, c) == [out |-> s.out, run |-> Append(s.run, c),
                   script |-> IF s.script = "common" THEN ScriptOf[c] ELSE s.script]

\* (The variant carries the script of a run into the next word.)
ScanSticky(s, c) ==
    IF c \notin WordChars THEN [Flushed(s) EXCEPT !.script = s.script]
    ELSE IF ScriptOf[c] # "common" /\ s.script \notin {"common", ScriptOf[c]}
    THEN Extended(Flushed(s), c)
    ELSE Extended(s, c)

Scan(s, c) ==
    IF c \notin WordChars THEN Flushed(s)
    ELSE IF ScriptOf[c] # "common" /\ s.script \notin {"common", ScriptOf[c]}
    THEN Extended(Flushed(s), c)
    ELSE Extended(s, c)

\* tokenize_v2, of characters that are normalised and of a text as it is.
Scanned(chars) ==
    LET scan[i \in 0..Len(chars)] == IF i = 0 THEN NoRun ELSE Scan(scan[i - 1], chars[i])
    IN  Flushed(scan[Len(chars)]).out

Tokens(text) == Scanned(Normalized(text))

ScriptsIn(text) == {ScriptOf[c] : c \in ToSet(text) \cap WordChars} \ {"common"}

Unsupported(text) == ScriptsIn(text) \ Supported

--------------------------------------------------------------------------

\* HeuristicDetector: the script most letters are in, the first met among equals.
LetterScripts(text) == LET found == Within(text, Letters) IN [i \in DOMAIN found |-> ScriptOf[found[i]]]

Occurrences(s, seq) == Cardinality({i \in DOMAIN seq : seq[i] = s})

FirstOf(s, seq) == Min({i \in DOMAIN seq : seq[i] = s})

Dominant(scripts) ==
    CHOOSE s \in ToSet(scripts) : \A t \in ToSet(scripts) :
        \/ Occurrences(s, scripts) > Occurrences(t, scripts)
        \/ /\ Occurrences(s, scripts) = Occurrences(t, scripts)
           /\ FirstOf(s, scripts) <= FirstOf(t, scripts)

\* A word between spaces.
Stands(word, text) ==
    \E i \in DOMAIN text :
        LET after == i + Len(word)
        IN  /\ after <= Len(text) + 1
            /\ SubSeq(text, i, after - 1) = word
            /\ i = 1 \/ text[i - 1] = " "
            /\ after = Len(text) + 1 \/ text[after] = " "

LatinLanguage(text, default) ==
    LET hits(l) == Cardinality({w \in Cues[l].words : Stands(w, text)})
        best    == {l \in DOMAIN Cues : hits(l) > 0
                        /\ \A m \in DOMAIN Cues : hits(l) > hits(m)
                                \/ (hits(l) = hits(m) /\ Cues[l].place <= Cues[m].place)}
    IN  IF best = {} THEN default ELSE CHOOSE l \in best : TRUE

\* Confidence is the share of the letters in that script; half is reliable.
Undetected(default) == [language |-> default, reliable |-> FALSE]

Detected(text, default) ==
    LET scripts == LetterScripts(text)
        top     == Dominant(scripts)
        iso     == IF top \in DOMAIN IsoOf THEN IsoOf[top] ELSE default
    IN  IF scripts = <<>> THEN Undetected(default)
        ELSE [language |-> IF top = "latin" THEN LatinLanguage(text, iso) ELSE iso,
              reliable |-> 2 * Occurrences(top, scripts) >= Len(scripts)]

\* What was asked for, else a reliable detection, else the conversation's language.
\* (The variant takes a detection for what it is worth.)
LanguageByChainUnsure(detection, asked, conversation, default) ==
    IF asked \notin {"none", "auto"} THEN asked
    ELSE IF asked = "auto" THEN detection.language
    ELSE IF conversation # "none" THEN conversation ELSE default

LanguageByChain(detection, asked, conversation, default) ==
    IF asked \notin {"none", "auto"} THEN asked
    ELSE IF detection.reliable THEN detection.language
    ELSE IF conversation # "none" THEN conversation ELSE default

\* A detection is made only where "auto" asks for one.
AnswerLanguage(question, asked, conversation, default) ==
    LET detection == IF asked = "auto" THEN Detected(question, "en") ELSE Undetected("en")
    IN  LanguageByChain(detection, asked, conversation, default)

--------------------------------------------------------------------------

IsBlock(short, long) ==
    \E i \in 0..Len(long) : i + Len(short) <= Len(long) /\ SubSeq(long, i + 1, i + Len(short)) = short

\* Word characters of one spaceless script.
Spaceless(chars) == \E s \in Continuous : \A c \in chars : c \in WordChars /\ ScriptOf[c] = s

\* A quotation chars[i + 1 .. j] begins and ends beside what forms no word, or cuts
\* a stretch of a spaceless script of which it takes at least two characters.
CutBefore(chars, i, j) ==
    \/ i = 0 \/ ~({chars[i], chars[i + 1]} \subseteq WordChars)
    \/ i + 2 <= j /\ Spaceless({chars[i], chars[i + 1], chars[i + 2]})

CutAfter(chars, i, j) ==
    \/ j = Len(chars) \/ ~({chars[j], chars[j + 1]} \subseteq WordChars)
    \/ i + 2 <= j /\ Spaceless({chars[j - 1], chars[j], chars[j + 1]})

\* tokenize.py: "a verbatim quote of its own source" is accepted.  What is quoted
\* in whole words, or cut so that no character of a spaceless script is left by
\* itself, tokenizes to a block of the source's tokens.
QuotesAlign(chars) ==
    \A i \in 0..Len(chars) : \A j \in (i + 1)..Len(chars) :
        CutBefore(chars, i, j) /\ CutAfter(chars, i, j)
            => IsBlock(Scanned(SubSeq(chars, i + 1, j)), Scanned(chars))

\* tokenize.py: only a script that the table does not know "produces no tokens at all":
\* every letter of a script is in some token, and if no script is unknown after
\* normalisation, so is every word character.
ReadableIsRead(chars) ==
    LET lost == (ToSet(chars) \cap WordChars) \ UNION {ToSet(t) : t \in ToSet(Scanned(chars))}
    IN  /\ \A c \in lost : ScriptOf[c] \in {"common", "unknown"}
        /\ "unknown" \notin ScriptsIn(chars) => lost = {}

\* tokenize.py:95: what is not in the table is named "unknown" and "tokenizes to
\* nothing, so nothing downstream can rank or cite it".
UnknownYieldsNothing(text) ==
    (text # <<>> /\ ToSet(text) \subseteq WordChars /\ ScriptsIn(text) = {"unknown"}) => Tokens(text) = <<>>

\* lang/fallback.py: the caller's word outranks the classifier, and a language
\* that is guessed is one that at least half of the question's letters bear out.
GuessBorneOut(text, asked, conversation, default) ==
    LET chosen  == AnswerLanguage(text, asked, conversation, default)
        scripts == LetterScripts(text)
    IN  chosen \notin {asked, conversation, default} =>
            /\ asked = "auto"
            /\ \E s \in ToSet(scripts) :
                  /\ 2 * Occurrences(s, scripts) >= Len(scripts)
                  /\ s \in DOMAIN IsoOf => IF s = "latin" THEN chosen \in {IsoOf[s]} \cup DOMAIN Cues
                                                           ELSE chosen = IsoOf[s]
=============================================================================
