------------------------------ MODULE Evidence ------------------------------
(***************************************************************************)
(* Evidence units of a document (evidence/): a block of text is cut on its *)
(* natural boundaries into pieces that fit, and the pieces are packed into *)
(* chunks that overlap; each chunk is one unit.  The structure index       *)
(* (evidence/structure.py) and the retriever that reads it                 *)
(* (retrieve/structure.py): headings as a tree, slides as a sequence, every *)
(* node anchored in one block, resolved to the stored units of that block. *)
(*                                                                         *)
(* A text of n words is the sequence of its n - 1 gaps: what separates two *)
(* words, from 0 (a space) over 1 (a sentence end) and 2 (a line break) to *)
(* 3 (a blank line).  A piece is <<first word, last word>>.                *)
(***************************************************************************)
EXTENDS Extraction, Selection

Size(piece) == piece[2] - piece[1] + 1

Whole(gaps) == <<1, Len(gaps) + 1>>

\* _split_units: at the coarsest boundary there is, in the end every word alone.
SplitUnits(gaps, piece) ==
    LET inner == piece[1]..(piece[2] - 1)
        cuts  == {g \in inner : \A h \in inner : gaps[h] <= gaps[g]}
        ends  == Within([w \in 1..piece[2] |-> w], cuts \cup {piece[2]})
    IN  [i \in DOMAIN ends |-> <<IF i = 1 THEN piece[1] ELSE ends[i - 1] + 1, ends[i]>>]

\* _fit_pieces: split again until every piece fits.
FitPieces(gaps, maxTokens) ==
    LET words == 1..(Len(gaps) + 1)
        fit[piece \in words \X words] ==
            IF Size(piece) <= maxTokens THEN <<piece>>
            ELSE LET units == SplitUnits(gaps, piece)
                 IN  FlattenSeq([i \in DOMAIN units |-> fit[units[i]]])
    IN  fit[Whole(gaps)]

SizeOf(pieces) ==
    LET size[n \in 0..Len(pieces)] == IF n = 0 THEN 0 ELSE size[n - 1] + Size(pieces[n])
    IN  size[Len(pieces)]

\* With the piece that goes past the overlap.
OverlapTailOver(pieces, overlap) ==
    LET last(k) == SubSeq(pieces, Len(pieces) - k + 1, Len(pieces))
    IN  last(Min({k \in DOMAIN pieces : SizeOf(last(k)) >= overlap} \cup {Len(pieces)}))

\* _overlap_tail: the last pieces that together stay within the overlap.
OverlapTail(pieces, overlap) ==
    LET last(k) == SubSeq(pieces, Len(pieces) - k + 1, Len(pieces))
    IN  last(Max({k \in 0..Len(pieces) : SizeOf(last(k)) <= overlap}))

\* A piece that would make the chunk too large starts the next one, behind the tail of
\* the last; whether it fits behind the tail is not asked.
PackNext(acc, piece, maxTokens, overlap) ==
    IF acc.current # <<>> /\ SizeOf(acc.current) + Size(piece) > maxTokens
    THEN [chunks  |-> Append(acc.chunks, acc.current),
          current |-> Append(OverlapTail(acc.current, overlap), piece)]
    ELSE [chunks |-> acc.chunks, current |-> Append(acc.current, piece)]

\* _pack: piece after piece, and what is left is a chunk too.
Pack(pieces, maxTokens, overlap) ==
    LET packed[i \in 0..Len(pieces)] ==
            IF i = 0 THEN [chunks |-> <<>>, current |-> <<>>]
            ELSE PackNext(packed[i - 1], pieces[i], maxTokens, overlap)
        end == packed[Len(pieces)]
    IN  IF end.current = <<>> THEN end.chunks ELSE Append(end.chunks, end.current)

\* chunk_text: a chunk is the words from its first piece to its last.
ChunkText(gaps, maxTokens, wanted) ==
    LET overlap == Min({wanted, maxTokens - 1})
        chunks  == IF Size(Whole(gaps)) <= maxTokens THEN <<<<Whole(gaps)>>>>
                   ELSE Pack(FitPieces(gaps, maxTokens), maxTokens, overlap)
    IN  [i \in DOMAIN chunks |-> <<chunks[i][1][1], chunks[i][Len(chunks[i])][2]>>]

\* contextualize: what is indexed may carry the model's words before the chunk;
\* a failure or an empty reply leaves the chunk alone.
Indexed(passage, reply) == IF reply \in {"", "failed"} THEN <<passage>> ELSE <<reply, passage>>

\* build_chunked_units: the chunks of every block that is not blank.
ChunkedUnits(blocks, maxTokens, overlap, reply) ==
    FlattenSeq([b \in DOMAIN blocks |->
        IF blocks[b].blank THEN <<>>
        ELSE LET chunks == ChunkText(blocks[b].gaps, maxTokens, overlap)
             IN  [c \in DOMAIN chunks |->
                    [id |-> <<blocks[b].order, c - 1>>, passage |-> chunks[c],
                     text |-> Indexed(chunks[c], reply), path |-> blocks[b].path]]])

\* build_evidence_units: one unit to a block, named by the block.
WholeUnits(blocks) ==
    LET said == SelectSeq(blocks, LAMBDA b : ~b.blank)
    IN  [i \in DOMAIN said |->
           [id |-> <<said[i].order>>, passage |-> Whole(said[i].gaps),
            text |-> <<Whole(said[i].gaps)>>, path |-> said[i].path]]

-----------------------------------------------------------------------------
(* Properties *)

\* The words of a text are all there, in order: chunks start at the first word,
\* each goes on where the one before ended or within its tail, the last one ends
\* at the last word. A chunk holds at most the
\* overlap more than the bound (evidence/chunker.py).
ChunksCover(gaps, maxTokens, overlap) ==
    LET chunks == ChunkText(gaps, maxTokens, overlap)
    IN  /\ chunks[1][1] = 1 /\ chunks[Len(chunks)][2] = Len(gaps) + 1
        /\ \A i \in 1..(Len(chunks) - 1) :
             LET a == chunks[i]  b == chunks[i + 1]
             IN  /\ a[1] <= b[1] /\ a[2] < b[2]
                 /\ b[1] <= a[2] + 1 /\ a[2] + 1 - b[1] <= overlap
        /\ \A i \in DOMAIN chunks : Size(chunks[i]) <= maxTokens + Min({overlap, maxTokens - 1})

\* A word is cut from the next one in its sentence, its line or its paragraph only
\* when the whole does not fit.
CutsOnlyWhatIsTooLarge(gaps, maxTokens) ==
    LET pieces == FitPieces(gaps, maxTokens)
    IN  \A i \in 1..(Len(pieces) - 1) :
          LET cut == pieces[i][2]
              joined == {g \in DOMAIN gaps : \A h \in Min({g, cut})..Max({g, cut}) : gaps[h] <= gaps[cut]}
          IN  Cardinality(joined) + 1 > maxTokens

\* What evidence/chunker.py says of its chunks: they are size-bounded.
ChunksBounded(gaps, maxTokens, overlap) ==
    \A c \in Range(ChunkText(gaps, maxTokens, overlap)) : Size(c) <= maxTokens

-----------------------------------------------------------------------------
(* The structure index *)

CONSTANT LabelOf(_)   \* the words of a heading, by the element it was read from

\* _heading_tree: the headings that say something, each under the one that is
\* open above its level.
HeadingTree(blocks) ==
    LET add(acc, b) ==
            LET left == SelectSeq(acc.stack, LAMBDA h : h.level < b.level)
                parent == IF left = <<>> THEN {} ELSE {left[Len(left)].id}
            IN  [nodes |-> Append(acc.nodes, [id |-> b.order, parent |-> parent, label |-> LabelOf(b.of)]),
                 stack |-> Append(left, [level |-> b.level, id |-> b.order])]
    IN  FoldLeft(add, [nodes |-> <<>>, stack |-> <<>>],
                 SelectSeq(blocks, LAMBDA b : b.kind = "heading" /\ ~b.blank)).nodes

SlideSequence(blocks) ==
    LET slides == SelectSeq(blocks, LAMBDA b : b.kind = "slide" /\ ~b.blank)
    IN  [i \in DOMAIN slides |-> [id |-> slides[i].order, parent |-> {}, label |-> LabelOf(slides[i].of)]]

\* build_structure: any other type has no nodes, and that is no error.
BuildStructure(type, blocks) ==
    CASE type = "heading_tree" -> HeadingTree(blocks)
      [] type = "slide_sequence" -> SlideSequence(blocks)
      [] OTHER -> <<>>

\* Only one level down.
ChildRefs(node, nodes) == {node.id} \cup {c.id : c \in {m \in nodes : m.parent = {node.id}}}

\* _descendant_eu_refs: a node and every node beneath it. A parent comes before
\* its children, so the nodes' order bounds the descent.
DescendantRefs(node, nodes) ==
    LET under[n \in {m.id : m \in nodes}] ==
            {n} \cup UNION {under[c.id] : c \in {m \in nodes : m.parent = {n}}}
    IN  under[node.id]

\* _resolve_refs: the unit of that name, else the chunks of the block.
ResolveRefs(ref, ids) ==
    IF <<ref>> \in ids THEN {<<ref>>} ELSE {id \in ids : Len(id) = 2 /\ id[1] = ref}

\* The best count of matched words over the nodes that cover a block.
Hits(query, nodes, ref) ==
    Max({0} \cup {Cardinality(query \cap n.label) :
                    n \in {m \in nodes : query \cap m.label # {} /\ ref \in DescendantRefs(m, nodes)}})

\* retrieve: every unit of every covered block, the most words matched first.
StructureRetrieve(query, index, ids, k) ==
    LET nodes == Range(index)
        found == UNION {{[id |-> id, score |-> Hits(query, nodes, n.id)] : id \in ResolveRefs(n.id, ids)} :
                           n \in {m \in nodes : Hits(query, nodes, m.id) > 0}}
        before(a, b) ==
            \/ a.score > b.score
            \/ /\ a.score = b.score
               /\ \/ a.id[1] < b.id[1]
                  \/ a.id[1] = b.id[1] /\ Len(a.id) = 2 /\ Len(b.id) = 2 /\ a.id[2] < b.id[2]
    IN  [i \in 1..Min({k, Cardinality(found)}) |->
           CHOOSE c \in found : Cardinality({d \in found : before(d, c)}) = i - 1]

-----------------------------------------------------------------------------
(* Properties *)

\* The headings of the source that stand over an element: before it, of a lower
\* level than every heading from there on, and than the element's own.
Enclosing(src, i, level, Counts(_)) ==
    {h \in 1..(i - 1) :
       /\ src[h].what = "heading" /\ Counts(h) /\ src[h].level < level
       /\ \A k \in (h + 1)..(i - 1) : src[k].what = "heading" /\ Counts(k) => src[h].level < src[k].level}

\* The section that a retrieved unit lies in, by the source alone: its heading's
\* own, and those that stand over it.
Sections(src, i) == {i} \cup Enclosing(src, i, src[i].level, LAMBDA h : ~src[h].blank)

\* Asking for the words of a heading finds the stored units of that heading and of
\* the headings under it, chunked or not, and no other (retrieve/structure.py).
SectionsFound(format, src, words, chunked) ==
    LET blocks == Read(format, src)
        index  == BuildStructure(StructureType(format, src), blocks)
        texts  == [i \in DOMAIN blocks |-> [order |-> blocks[i].order, blank |-> blocks[i].blank,
                                            path |-> blocks[i].path, gaps |-> [w \in 1..(words - 1) |-> 0]]]
        ids    == {u.id : u \in Range(IF chunked THEN ChunkedUnits(texts, 1, 0, "") ELSE WholeUnits(texts))}
        headed == {b \in Range(blocks) : b.kind = "heading" /\ ~b.blank}
    IN  StructureType(format, src) = "heading_tree" =>
          \A query \in SUBSET UNION {LabelOf(b.of) : b \in headed} :
            {c.id : c \in Range(StructureRetrieve(query, index, ids, Cardinality(ids)))}
              = {id \in ids : \E b \in headed : /\ b.order = id[1]
                                              /\ \E h \in Sections(src, b.of) : LabelOf(h) \cap query # {}}
=============================================================================
