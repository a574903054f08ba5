------------------------------ MODULE Extraction ------------------------------
(***************************************************************************)
(* The extractors (extract/): each reads one format into an ordered list   *)
(* of blocks.  A source is the sequence of its elements; the text of a     *)
(* block is named by the element, and the row of it, that it was read from.*)
(* An element is [what, level, rows, blank]: rows of a table count the     *)
(* header, level is that of a heading, or how many methods a class has.    *)
(***************************************************************************)
EXTENDS Naturals, Sequences, FiniteSets, FiniteSetsExt, SequencesExt

Headings == {"heading"}

Indices(src, whats) == SelectSeq([i \in DOMAIN src |-> i], LAMBDA i : src[i].what \in whats)

Start == [blocks |-> <<>>, order |-> 0, stack |-> <<>>]

Emit(acc, kind, i, row, level, path, blank) ==
    [acc EXCEPT !.order = @ + 1,
                !.blocks = Append(@, [order |-> acc.order, kind |-> kind, of |-> i, row |-> row,
                                      level |-> level, path |-> path, blank |-> blank])]

PathOf(stack) == [k \in DOMAIN stack |-> stack[k].at]

\* A heading of the same level would stand under its neighbour.
LeftOpen(stack, level) == SelectSeq(stack, LAMBDA h : h.level <= level)

\* A heading closes those of its level and below, and stands over what follows.
Left(stack, level) == SelectSeq(stack, LAMBDA h : h.level < level)

Open(acc, i, level, path, blank) ==
    [Emit(acc, "heading", i, 0, level, path, blank)
       EXCEPT !.stack = Append(Left(acc.stack, level), [level |-> level, at |-> i])]

KindOf(what) == IF what = "code" THEN "code" ELSE "paragraph"

\* Headings and what stands under them, in the order of the source; the path of a
\* heading may be taken before or after it closes others.
Walk(acc, src, whats, keepBlank, closesFirst) ==
    LET path(a, i) == PathOf(IF closesFirst THEN Left(a.stack, src[i].level) ELSE a.stack)
        read(a, i) ==
            IF src[i].what \in Headings
            THEN IF src[i].blank /\ ~keepBlank THEN a
                 ELSE Open(a, i, src[i].level, path(a, i), src[i].blank)
            ELSE IF src[i].blank THEN a
            ELSE Emit(a, KindOf(src[i].what), i, 0, 0, PathOf(a.stack), FALSE)
    IN  FoldLeft(read, acc, Indices(src, Headings \cup whats))

\* The rows of a table under its header, one block each; a header alone is none.
RowsOf(acc, src, i) ==
    FoldLeft(LAMBDA a, r : Emit(a, "table", i, r, r - 1, <<0>>, FALSE), acc,
             [r \in 1..(IF src[i].rows = 0 THEN 0 ELSE src[i].rows - 1) |-> r])

Tables(acc, src) == FoldLeft(LAMBDA a, i : RowsOf(a, src, i), acc, Indices(src, {"table"}))

Apart(acc, src, what) ==
    FoldLeft(LAMBDA a, i : IF src[i].blank THEN a ELSE Emit(a, KindOf(what), i, 0, 0, <<>>, FALSE),
             acc, Indices(src, {what}))

-----------------------------------------------------------------------------
(* The formats *)

\* docx: the tables of the document come after all its paragraphs.
Docx(src) == Tables(Walk(Start, src, {"para"}, FALSE, TRUE), src)

\* md: also a heading that says nothing is a heading.
Md(src) == Walk(Start, src, {"para", "code"}, TRUE, TRUE)

\* html: a heading is given the path before it closes others;
\* tables, code and captions are pulled out and come last.
Html(src) ==
    LET text == Walk(Start, src, {"para", "list"}, FALSE, FALSE)
    IN  Apart(Apart(Apart(Tables(text, src), src, "code"), src, "caption"), src, "figcaption")

\* The text of a page, also when there is none, then its tables.
Paged(src, kind) ==
    FoldLeft(LAMBDA a, i : RowsOf(Emit(a, kind, i, 0, i - 1, <<>>, src[i].blank), src, i),
             Start, Indices(src, {"page"}))

Pptx(src) == Paged(src, "slide")

Pdf(src) == Paged(src, "paragraph")

\* xlsx: the name of a sheet, then its rows under the first one, unless the first
\* one or the row is blank.
Xlsx(src) ==
    FoldLeft(LAMBDA a, i :
               LET sheet == Emit(a, "heading", i, 0, 1, <<>>, FALSE)
               IN  IF src[i].blank THEN sheet ELSE RowsOf(sheet, src, i),
             Start, Indices(src, {"sheet"}))

\* csv: one table, whose rows number the blocks.
Csv(src) == FoldLeft(LAMBDA a, i : RowsOf(a, src, i), Start, Indices(src, {"table"}))

\* txt: the paragraphs that say something; anything else is one paragraph.
Txt(src) == Walk(Start, src, {"para"}, FALSE, TRUE)

Plain(src) == Emit(Start, "paragraph", 1, 0, 0, <<>>, src = <<>>)

\* image: what is unknown or too large leaves an empty block.
ImageBlock(src) == Emit(Start, "image", 1, 0, 0, <<>>, src[1].blank)

\* code: what precedes the first symbol, then each symbol, a class before its
\* methods; what stands between symbols is not read.
Code(src) ==
    LET symbols  == Indices(src, {"function", "class"})
        preamble == 1..(IF symbols = <<>> THEN Len(src) ELSE symbols[1] - 1)
        symbol(a, i) ==
            FoldLeft(LAMBDA c, m : Emit(c, "code", i, m, 1, <<i>>, FALSE),
                     Emit(a, "code", i, 0, 0, <<>>, FALSE),
                     [m \in 1..(IF src[i].what = "class" THEN src[i].level ELSE 0) |-> m])
        first == IF \E i \in preamble : ~src[i].blank THEN Emit(Start, "code", 0, 0, 0, <<>>, FALSE) ELSE Start
        all == FoldLeft(symbol, first, symbols)
    IN  IF all.blocks = <<>> THEN Plain(src) ELSE all

Read(format, src) ==
    (CASE format = "docx" -> Docx(src) [] format = "md" -> Md(src) [] format = "html" -> Html(src)
       [] format = "pptx" -> Pptx(src) [] format = "pdf" -> Pdf(src)
       [] format = "xlsx" -> Xlsx(src) [] format = "csv" -> Csv(src) [] format = "txt" -> Txt(src)
       [] format = "code" -> Code(src) [] format = "image" -> ImageBlock(src)
       [] OTHER -> Plain(src)).blocks

\* extractor_for: what the caller says it is, else the extension, else plain text.
FormatOf(said, extension) ==
    LET byExtension ==
          [txt |-> "txt", md |-> "md", markdown |-> "md", csv |-> "csv", html |-> "html", htm |-> "html",
           py |-> "code", go |-> "code", sql |-> "sql", docx |-> "docx", pptx |-> "pptx",
           xlsx |-> "xlsx", pdf |-> "pdf"]
    IN  IF said # "" THEN said
        ELSE IF extension \in DOMAIN byExtension THEN byExtension[extension] ELSE "plain"

StructureType(format, src) ==
    CASE format = "docx" -> "heading_tree"
      [] format \in {"md", "html"} ->
           IF \E b \in Range(Read(format, src)) : b.kind = "heading" THEN "heading_tree" ELSE "none"
      [] format = "pptx" -> "slide_sequence" [] format = "pdf" -> "page_layout"
      [] format = "xlsx" ->
           IF \E b \in Range(Read(format, src)) : b.kind = "table" THEN "table_schema" ELSE "none"
      [] format = "csv" -> IF src = <<>> THEN "none" ELSE "table_schema"
      [] format = "code" -> IF \E b \in Range(Read(format, src)) : b.kind = "code" THEN "code_ast" ELSE "none"
      [] OTHER -> "none"

-----------------------------------------------------------------------------
(* Properties *)

\* What a format carries of a source: the elements it reads that say something,
\* every row of a table but its header, and of code what precedes the first symbol,
\* the symbols and their methods.
Carried(format, src) ==
    LET reads == [docx |-> {"heading", "para"}, md |-> {"heading", "para", "code"},
                  html |-> {"heading", "para", "list", "code", "caption", "figcaption"},
                  pptx |-> {"page"}, pdf |-> {"page"}, xlsx |-> {"sheet"}, csv |-> {}, txt |-> {"para"},
                  code |-> {"function", "class"}, image |-> {}, plain |-> {}]
        always == IF format = "md" THEN {"heading"} ELSE {"page", "sheet"}
        tabled(e) == CASE format \in {"docx", "html", "csv"} -> e.what = "table"
                       [] format \in {"pptx", "pdf"}  -> TRUE
                       [] format = "xlsx"             -> ~e.blank
                       [] OTHER                       -> FALSE
        symbols == {i \in DOMAIN src : src[i].what \in {"function", "class"}}
        others == {i \in DOMAIN src : ~src[i].blank /\ \A j \in symbols : i < j}
        upTo(n) == 1..n
    IN  (IF format \in {"image", "plain"} THEN {<<1, 0>>} ELSE {})
          \cup {<<i, 0>> : i \in {x \in DOMAIN src : /\ src[x].what \in reads[format]
                                                /\ (~src[x].blank \/ src[x].what \in always)}}
          \cup UNION {{<<i, r>> : r \in upTo(src[i].rows - 1)} : i \in {x \in DOMAIN src : tabled(src[x])}}
          \cup (IF format # "code" THEN {}
                ELSE UNION {{<<i, m>> : m \in upTo(src[i].level)} : i \in symbols}
                       \cup (IF others # {} THEN {<<0, 0>>} ELSE IF symbols = {} THEN {<<1, 0>>} ELSE {}))

\* Every block has its own number, counted from 0 as units are named, and what the
\* format carries is in exactly one block: nothing is lost, cited twice or renamed.
EachOnce(format, src) ==
    LET blocks == Read(format, src)
    IN  /\ \A i \in DOMAIN blocks : blocks[i].order = i - 1
        /\ {<<b.of, b.row>> : b \in Range(blocks)} = Carried(format, src)
        /\ Len(blocks) = Cardinality(Carried(format, src))

\* Text says where it stands: under exactly the headings that enclose it in the
\* source (what html pulls out and the rows of tables do not say it; what html
\* says of a heading is wrong).
UnderItsHeadings(format, src, whats) ==
    LET counts(h) == src[h].what = "heading" /\ (src[h].blank => format = "md")
    IN  \A b \in Range(Read(format, src)) :
          src[b.of].what \in whats =>
            Range(b.path) =
              {h \in 1..(b.of - 1) :
                 /\ counts(h)
                 /\ b.kind = "heading" => src[h].level < b.level
                 /\ \A k \in (h + 1)..(b.of - 1) : counts(k) => src[h].level < src[k].level}

\* What extract/html.py says: everything in document order.
InDocumentOrder(format, src) ==
    LET blocks == Read(format, src)
    IN  \A i \in 1..(Len(blocks) - 1) : blocks[i].of <= blocks[i + 1].of

-----------------------------------------------------------------------------
(* Left-side vowel signs in the text of a PDF (extract/pdf.py): a producer    *)
(* may have written them as drawn, before the consonants they follow.         *)
(* Characters are "C" a consonant, "e" a left-side vowel sign, "v" the virama  *)
(* that joins two consonants, "a" the right half of a two-part vowel, "o" the   *)
(* two halves composed, and "-" anything else.                                *)

IsConsonant(text, i) == i \in DOMAIN text /\ text[i] = "C"

\* _is_visual_order_tamil: a sign that follows no consonant.
IsVisualOrder(text) == \E i \in DOMAIN text : text[i] = "e" /\ ~IsConsonant(text, i - 1)

\* Without the consonants that a virama joins.
ClusterAlone(text, i) == i

\* The last character of the cluster that starts at i: consonants joined by viramas.
ClusterEnd(text, i) ==
    LET end[k \in 1..Len(text)] ==
            IF k + 2 <= Len(text) /\ text[k + 1] = "v" /\ text[k + 2] = "C" THEN end[k + 2] ELSE k
    IN  end[i]

\* Every sign behind the cluster it stands before; one before no consonant stays.
Reorder(text) ==
    LET from[i \in 1..(Len(text) + 1)] ==
            IF i > Len(text) THEN <<>>
            ELSE IF text[i] = "e" /\ IsConsonant(text, i + 1)
            THEN SubSeq(text, i + 1, ClusterEnd(text, i + 1)) \o <<"e">> \o from[ClusterEnd(text, i + 1) + 1]
            ELSE <<text[i]>> \o from[i + 1]
    IN  from[1]

Compose(text) ==
    LET from[i \in 1..(Len(text) + 1)] ==
            IF i > Len(text) THEN <<>>
            ELSE IF text[i] = "e" /\ i < Len(text) /\ text[i + 1] = "a" THEN <<"o">> \o from[i + 2]
            ELSE <<text[i]>> \o from[i + 1]
    IN  from[1]

\* _repair_left_vowel_order
Repair(text) == IF IsVisualOrder(text) THEN Compose(Reorder(text)) ELSE text

-----------------------------------------------------------------------------
(* Property *)

\* A text that is in order: vowel signs follow consonants, nothing is decomposed.
InOrder(text) ==
    \A i \in DOMAIN text :
      /\ text[i] \in {"e", "o", "a", "v"} => IsConsonant(text, i - 1)
      /\ text[i] = "v" /\ i < Len(text) => text[i + 1] \in {"C", "-"}

\* The same text as drawn: the signs, and the left halves, before their clusters.
Drawn(text) ==
    LET halves == FlattenSeq([i \in DOMAIN text |-> IF text[i] = "o" THEN <<"e", "a">> ELSE <<text[i]>>])
        starts(i) == {j \in 1..i : /\ halves[j] = "C"
                                   /\ (j = 1 \/ halves[j - 1] # "v")
                                   /\ ClusterEnd(halves, j) = i}
        signed(j) == \E i \in 1..(Len(halves) - 1) : halves[i + 1] = "e" /\ j \in starts(i)
    IN  FlattenSeq([j \in DOMAIN halves |->
          IF halves[j] = "e" THEN <<>> ELSE IF signed(j) THEN <<"e", halves[j]>> ELSE <<halves[j]>>])

\* A text in order is not touched; one that a producer drew comes back in order,
\* wherever the drawing shows, and repairing it again changes nothing: a passage is
\* quoted as its source has it (extract/pdf.py).
Restored(text) ==
    InOrder(text) =>
      /\ Repair(text) = text
      /\ IsVisualOrder(Drawn(text)) => Repair(Drawn(text)) = text
=============================================================================
