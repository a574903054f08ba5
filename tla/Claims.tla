-------------------------------- MODULE Claims --------------------------------
(***************************************************************************)
(* From the writer's answer to the claims that are checked: the part of    *)
(* answer/verify_answer.py that attaches citations and joins list items.   *)
(*                                                                         *)
(* A piece is what split_claims returns with the markers that follow it:   *)
(*   kind   "plain", "bare" (a list marker alone), "item" (a marker and    *)
(*          text) or "lead" (text that ends in a colon);                   *)
(*   words  of a lead, each by what the tables know of it: "frame" (of a   *)
(*          content-free lead-in), "stop", "polarity", "only" (exclusive), *)
(*          "count" (a number from 2 to 12), "reference" (article, annex), *)
(*          "unit" or "content";                                           *)
(*   cited, facets: the ids of its markers, in order.                      *)
(***************************************************************************)
EXTENDS Naturals, Sequences

IdsIn(s) == {s[i] : i \in DOMAIN s}

AppendUnique(s, new) ==
    LET f[i \in 0..Len(new)] ==
          IF i = 0 THEN s
          ELSE IF new[i] \in IdsIn(f[i - 1]) THEN f[i - 1] ELSE Append(f[i - 1], new[i])
    IN  f[Len(new)]

Piece(kind, words, cited, facets) ==
    [kind |-> kind, words |-> words, cited |-> cited, facets |-> facets]

\* strip_list_qualifiers: "only", or how many items follow; a number that names a
\* provision or a quantity counts nothing.
Qualifies(words, i) ==
    \/ words[i] = "only"
    \/ /\ words[i] = "count"
       /\ i > 1 => words[i - 1] # "reference"
       /\ i < Len(words) => words[i + 1] # "unit"

Counted(words) == \E i \in DOMAIN words : Qualifies(words, i)

\* content_free_lead_in: frames and stopwords only, and no polarity among them.
ContentFree(words) ==
    /\ "frame" \in IdsIn(words)
    /\ IdsIn(words) \subseteq {"frame", "stop"}

\* A lead-in has words of its own besides its qualifiers, and says something.
Joins(words) ==
    /\ \E i \in DOMAIN words : ~Qualifies(words, i)
    /\ Counted(words) \/ ~ContentFree(words)

\* A bare marker and the piece after it are one item, which cites what both cite.
Whole(held, p) ==
    IF held = <<>> THEN p
    ELSE Piece("item", p.words, AppendUnique(held[1].cited, p.cited),
               AppendUnique(held[1].facets, p.facets))

MergeOne(done, pieces, i) ==
    LET whole == Whole(done.held, pieces[i])
    IN  IF whole.kind = "bare" /\ i < Len(pieces)
        THEN [out |-> done.out, held |-> <<whole>>]
        ELSE [out |-> Append(done.out, whole), held |-> <<>>]

MergeBareMarkers(pieces) ==
    LET f[i \in 0..Len(pieces)] ==
          IF i = 0 THEN [out |-> <<>>, held |-> <<>>] ELSE MergeOne(f[i - 1], pieces, i)
    IN  f[Len(pieces)].out

\* A claim.  A joined one keeps what its lead-in and its item cited.
Claim(source, cited, facets, joined, leadCited, itemCited) ==
    [source |-> source, cited |-> cited, facets |-> facets, joined |-> joined,
     leadCited |-> leadCited, itemCited |-> itemCited]

Alone(p, i) == Claim(i, p.cited, p.facets, FALSE, <<>>, <<>>)

\* What the code carries down the list: the lead-in in force (its index, 0 for
\* none) and the index in the output of a lead-in that is a claim itself.
Scan(out, lead, own) == [out |-> out, lead |-> lead, own |-> own]

Cites(claim, p) ==
    [claim EXCEPT !.cited = AppendUnique(@, p.cited), !.facets = AppendUnique(@, p.facets)]

AtPlain(scan, pieces, i) ==
    LET p     == pieces[i]
        opens == p.kind = "lead" /\ i < Len(pieces) /\ pieces[i + 1].kind = "item"
    IN  IF ~opens THEN Scan(Append(scan.out, Alone(p, i)), 0, 0)
        ELSE IF Counted(p.words)
        THEN Scan(Append(scan.out, Alone(p, i)), i, Len(scan.out) + 1)
        ELSE Scan(scan.out, i, 0)

\* An item under a lead-in takes over what it cites; a lead-in with words of its
\* own is joined to the item's text; a counted one also rests on the item's units.
\* (The variant leaves the lead-in's markers behind.)
AtItemAlone(scan, pieces, i) ==
    Scan(Append(scan.out, Alone(pieces[i], i)), scan.lead, scan.own)

AtItem(scan, pieces, i) ==
    IF scan.lead = 0 THEN AtItemAlone(scan, pieces, i)
    ELSE LET p    == pieces[i]
             lead == pieces[scan.lead]
             item == IF Joins(lead.words) THEN Claim(i, p.cited, p.facets, TRUE, lead.cited, p.cited)
                     ELSE Alone(p, i)
             joined == Cites(item, lead)
             out  == IF scan.own = 0 THEN scan.out
                     ELSE [scan.out EXCEPT ![scan.own] = Cites(@, joined)]
         IN  Scan(Append(out, joined), scan.lead, scan.own)

JoinOne(scan, pieces, i) ==
    IF pieces[i].kind = "item" THEN AtItem(scan, pieces, i) ELSE AtPlain(scan, pieces, i)

JoinListItems(pieces) ==
    LET merged == MergeBareMarkers(pieces)
        f[i \in 0..Len(merged)] ==
          IF i = 0 THEN Scan(<<>>, 0, 0) ELSE JoinOne(f[i - 1], merged, i)
    IN  f[Len(merged)].out
=============================================================================
