-------------------------------- MODULE Schemas --------------------------------
(***************************************************************************)
(* The scanners that find schema objects in a script and in a JSON         *)
(* document (extract/schema_sql.py, extract/schema_openapi.py), each       *)
(* object a span of the source, verbatim.  A source is a sequence of       *)
(* tokens; a position past the end is Len + 1.                             *)
(***************************************************************************)
EXTENDS Integers, Sequences, FiniteSets, FiniteSetsExt, SequencesExt

First(data, i, Is(_)) == Min({j \in i..Len(data) : Is(j)} \cup {Len(data) + 1})

-----------------------------------------------------------------------------
(* CREATE TABLE statements: "create" stands for CREATE TABLE and IF NOT EXISTS *)

\* _skip_quoted: a doubled quote is a quote.
SkipQuoted(data, i) ==
    LET past[k \in 1..(Len(data) + 2)] ==
            IF k > Len(data) THEN Len(data) + 1
            ELSE IF data[k] # "'" THEN past[k + 1]
            ELSE IF k < Len(data) /\ data[k + 1] = "'" THEN past[k + 2]
            ELSE k + 1
    IN  past[i + 1]

\* A comment ends with its line, or behind its closing mark.
PastComment(data, i) ==
    IF data[i] = "--" THEN First(data, i, LAMBDA j : data[j] = "nl")
    ELSE Min({Len(data) + 1, First(data, i, LAMBDA j : data[j] = "*/") + 1})

SkipBlanks(data, i) ==
    LET past[k \in 1..(Len(data) + 1)] ==
            IF k > Len(data) THEN k
            ELSE IF data[k] = "nl" THEN past[k + 1]
            ELSE IF data[k] \in {"--", "/*"} THEN past[PastComment(data, k)]
            ELSE k
    IN  past[i]

ReadName(data, i) ==
    IF i > Len(data) THEN i
    ELSE IF data[i] = "'" THEN SkipQuoted(data, i)
    ELSE IF data[i] = "t" THEN i + 1 ELSE i

\* Up to the first closing parenthesis, wherever it stands.
PastColumnsFlat(data, i) ==
    IF i <= Len(data) /\ data[i] = "(" THEN Min({Len(data) + 1, First(data, i, LAMBDA j : data[j] = ")") + 1})
    ELSE i

\* The columns, over quotes and comments, up to the parenthesis that closes them.
PastColumns(data, i) ==
    LET past[k \in 1..(Len(data) + 1), depth \in 0..Len(data)] ==
            IF k > Len(data) THEN k
            ELSE IF data[k] = "'" THEN past[SkipQuoted(data, k), depth]
            ELSE IF data[k] \in {"--", "/*"} THEN past[PastComment(data, k), depth]
            ELSE IF data[k] = "(" THEN past[k + 1, depth + 1]
            ELSE IF data[k] = ")" THEN (IF depth = 1 THEN k + 1 ELSE past[k + 1, depth - 1])
            ELSE past[k + 1, depth]
    IN  IF i <= Len(data) /\ data[i] = "(" THEN past[i, 0] ELSE i

\* The options of the table up to the semicolon: over quotes, not over comments.
PastOptions(data, i) ==
    LET past[k \in 1..(Len(data) + 1)] ==
            IF k > Len(data) THEN k
            ELSE IF data[k] = ";" THEN k + 1
            ELSE IF data[k] = "'" THEN past[SkipQuoted(data, k)]
            ELSE past[k + 1]
    IN  past[i]

StatementEnd(data, i) == PastOptions(data, PastColumns(data, SkipBlanks(data, i)))

\* find_tables: from every CREATE TABLE to the end of its statement.
FindTables(data) ==
    LET from[i \in 1..(Len(data) + 1)] ==
            IF i > Len(data) THEN <<>>
            ELSE IF data[i] # "create" THEN from[i + 1]
            ELSE LET end == StatementEnd(data, ReadName(data, SkipBlanks(data, i + 1)))
                 IN  <<<<i, end - 1>>>> \o from[end]
    IN  from[1]

\* A script without a table is one block of text.
SqlBlocks(data) == IF FindTables(data) = <<>> THEN <<<<1, Len(data)>>>> ELSE FindTables(data)

-----------------------------------------------------------------------------
(* Objects of a JSON document: a string is one token, commas are left out *)

Marks == {"{", "}", "[", "]", ":", "1"}

\* _skip_value: past the bracket that closes the one the value begins with.
SkipValue(data, i) ==
    LET past[k \in 1..(Len(data) + 1), depth \in 0..Len(data)] ==
            IF k > Len(data) THEN k
            ELSE IF data[k] \in {"{", "["} THEN past[k + 1, depth + 1]
            ELSE IF data[k] \in {"}", "]"} THEN (IF depth = 1 THEN k + 1 ELSE past[k + 1, depth - 1])
            ELSE past[k + 1, depth]
    IN  IF i > Len(data) THEN i
        ELSE IF data[i] \in {"{", "["} THEN past[i, 0]
        ELSE i + 1

\* _members: of the object that starts at a place, until what is no member.
Members(data, start) ==
    LET from[i \in 1..(Len(data) + 2)] ==
            IF i > Len(data) \/ data[i] = "}" THEN <<>>
            ELSE IF data[i] \in Marks \/ i = Len(data) \/ data[i + 1] # ":" THEN <<>>
            ELSE LET end == SkipValue(data, i + 2)
                 IN  <<[key |-> data[i], start |-> i, value |-> i + 2, end |-> end]>> \o from[end]
    IN  from[start + 1]

MembersAt(data, m) == Range(Members(data, m.value))

IsObject(data, m) == m.value <= Len(data) /\ data[m.value] = "{"

TopMembers(data) ==
    IF data = <<>> \/ data[1] # "{" THEN {}
    ELSE Range(Members(data, 1))

\* find_objects: endpoints, component schemas and definitions.
FindObjects(data) ==
    LET top == {m \in TopMembers(data) : IsObject(data, m)}
        direct == {m \in top : m.key \in {"paths", "definitions"}}
        parts == UNION {MembersAt(data, m) : m \in {x \in top : x.key = "components"}}
        schemas == {m \in parts : m.key = "schemas" /\ IsObject(data, m)}
    IN  {<<m.start, m.end - 1>> : m \in UNION {MembersAt(data, s) : s \in direct \cup schemas}}

OpenapiBlocks(data) == IF FindObjects(data) = {} THEN {<<1, Len(data)>>} ELSE FindObjects(data)

\* The byte after a colon is read without asking whether there is one.
FindRaises(data) ==
    \/ \E m \in TopMembers(data) : m.value > Len(data)
    \/ \E m \in TopMembers(data) : /\ m.key = "components" /\ IsObject(data, m)
                                   /\ \E p \in MembersAt(data, m) : p.key = "schemas" /\ p.value > Len(data)

-----------------------------------------------------------------------------
(* Properties *)

\* A lexer of the whole script: is a token code, part of a string, or of a comment?
ModesOf(data) ==
    LET next(modes, t) ==
            LET before == IF modes = <<>> \/ modes[Len(modes)] = "ends" THEN "code" ELSE modes[Len(modes)]
            IN  Append(modes, CASE before = "string" -> IF t = "'" THEN "ends" ELSE "string"
                                [] before = "line"   -> IF t = "nl" THEN "code" ELSE "line"
                                [] before = "block"  -> IF t = "*/" THEN "ends" ELSE "block"
                                [] t = "'"           -> "string"
                                [] t = "--"          -> "line"
                                [] t = "/*"          -> "block"
                                [] OTHER             -> "code")
    IN  FoldLeft(next, <<>>, data)

DepthAt(data, mode, from, k) ==
    Cardinality({j \in from..k : mode[j] = "code" /\ data[j] = "("})
      - Cardinality({j \in from..k : mode[j] = "code" /\ data[j] = ")"})

\* Each table of a script is one unit, from its CREATE to its own semicolon, whatever
\* its columns hold in strings and comments: two tables never share one unit and none
\* is cut short. It is so where nothing is commented outside the columns.
TablesWhole(data) ==
    \A mode \in {ModesOf(data)} :
      LET depth(i, k) == DepthAt(data, mode, i, k)
          marks(t) == {i \in DOMAIN data : mode[i] = "code" /\ data[i] = t}
          ends(i) == {k \in marks(";") : i < k /\ depth(i, k) = 0}
      IN  \A starts \in {marks("create")} : \A end \in {[i \in starts |-> Min(ends(i) \cup {Len(data) + 1})]} :
            \A outer \in {{k \in DOMAIN data : \E i \in starts : i < k /\ k < end[i] /\ depth(i, k) > 0}} :
              /\ {i \in DOMAIN data : mode[i] # "code"} \cup marks("(") \subseteq outer
              /\ \A i \in starts : /\ end[i] <= Len(data) /\ i \notin outer
                                   /\ \A k \in i..end[i] : depth(i, k) >= 0
                                   /\ \A j \in starts : j <= i \/ end[i] < j
              => Range(SqlBlocks(data)) = IF starts = {} THEN {<<1, Len(data)>>} ELSE {<<i, end[i]>> : i \in starts}

\* Where every bracket that is opened is closed, and the brackets a place lies in.
Closes(data) == [j \in {k \in DOMAIN data : data[k] \in {"{", "["}} |-> SkipValue(data, j) - 1]

Around(closes, p) == {j \in DOMAIN closes : j < p /\ p <= closes[j]}

KeyOf(data, j) == IF j > 2 /\ data[j - 1] = ":" THEN data[j - 2] ELSE ""

IsKey(data, p) == data[p] \notin Marks /\ p < Len(data) /\ data[p + 1] = ":"

WellFormed(data) ==
    \A closes \in {Closes(data)} : \A p \in 2..Len(data) : \A around \in {Around(closes, p)} :
      /\ around # {}
      /\ data[p] \in {"{", "[", "1"} /\ data[p - 1] # ":" => data[Max(around)] = "["
      /\ IsKey(data, p) => data[Max(around)] = "{"
      /\ data[p] \in {"}", "]"} => /\ closes[Max(around)] = p
                                   /\ (data[Max(around)] = "{" <=> data[p] = "}")

\* In a well-formed document the units are its endpoints, component schemas and
\* definitions, each with the whole of its value, however deep values nest and
\* wherever else the same keys occur.
ObjectsWhole(data) ==
    \A closes \in {Closes(data)} :
      LET keys(p) == {<<Cardinality(Around(closes, j)), KeyOf(data, j), data[j]>> : j \in Around(closes, p)}
          named == {{<<0, "", "{">>, <<1, k, "{">>} : k \in {"paths", "definitions"}}
                     \cup {{<<0, "", "{">>, <<1, "components", "{">>, <<2, "schemas", "{">>}}
      IN  WellFormed(data) =>
            \A units \in {{<<p, SkipValue(data, p + 2) - 1>> :
                            p \in {q \in DOMAIN data : IsKey(data, q) /\ keys(q) \in named}}} :
              OpenapiBlocks(data) = IF units = {} THEN {<<1, Len(data)>>} ELSE units

\* What extract/schema_openapi.py says: it never raises.
NeverRaises(data) == ~FindRaises(data)
=============================================================================
