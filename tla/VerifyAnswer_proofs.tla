-------------------------- MODULE VerifyAnswer_proofs --------------------------
(***************************************************************************)
(* Proofs about verify_answer, for any answer, any evidence and standing of*)
(* its units, any options, and whatever the gate, the guards and the checker*)
(* find.                                                                   *)
(*                                                                         *)
(* The last sections are about the rules it judges by: near-duplicates and *)
(* disagreements, the alignment of the gate, the reading of numbers, the   *)
(* number guard, Dutch numbers in words; and about what the rules' run     *)
(* writes, in which they hold at every step.                               *)
(*                                                                         *)
(* CheckInv carries what each path established of a verdict from its check to*)
(* the result; SettledInv what the settlement of conflicts leaves.  That no*)
(* marker is lost is an induction over the pieces, in JoinIs.              *)
(***************************************************************************)
EXTENDS VerifyAnswer, MCRules, Foundations

-----------------------------------------------------------------------------
(* Sequences of ids *)

\* The ids of a sequence are its elements.
LEMMA IdsAre == ASSUME NEW s PROVE IdsIn(s) = Elements(s)
BY DEF IdsIn, Elements

\* The ids of a typed sequence have the type.
LEMMA IdsTyped == ASSUME NEW X, NEW s \in Seq(X) PROVE IdsIn(s) \subseteq X
BY DEF IdsIn

\* Appending an id adds it.
LEMMA IdsOfAppend ==
    ASSUME NEW X, NEW s \in Seq(X), NEW e \in X
    PROVE  IdsIn(Append(s, e)) = IdsIn(s) \cup {e}
BY IdsAre, RanAppend

\* Within keeps the ids that are in the set.
LEMMA IdsWithin ==
    ASSUME NEW X, NEW s \in Seq(X), NEW S
    PROVE  Within(s, S) \in Seq(X) /\ IdsIn(Within(s, S)) = IdsIn(s) \cap S
BY IdsAre, WithinIs

\* Nothing is in the empty sequence.
LEMMA EmptyIds == IdsIn(<<>>) = {}
BY DEF IdsIn

\* A sequence without ids is empty.
LEMMA NonemptyIds ==
    ASSUME NEW X, NEW s \in Seq(X)
    PROVE  s = <<>> <=> IdsIn(s) = {}
<1>1. CASE s = <<>>
  BY <1>1, EmptyIds
<1>2. CASE s # <<>>
  <2>1. 1 \in DOMAIN s BY <1>2
  <2>2. s[1] \in IdsIn(s) BY <2>1 DEF IdsIn
  <2> QED BY <1>2, <2>2
<1> QED BY <1>1, <1>2

\* What AppendUnique computes, one id after the other.
LEMMA UniqueUnfolds ==
    ASSUME NEW X, NEW s \in Seq(X), NEW new \in Seq(X)
    PROVE  \E f : /\ AppendUnique(s, new) = f[Len(new)]
                  /\ f[0] = s
                  /\ \A i \in 1..Len(new) : f[i] = IF new[i] \in IdsIn(f[i - 1]) THEN f[i - 1]
                                                   ELSE Append(f[i - 1], new[i])
<1> DEFINE V == Seq(X)
           G == [i \in 1..Len(new) |-> [x \in V |-> IF new[i] \in IdsIn(x) THEN x ELSE Append(x, new[i])]]
           K(g) == [i \in 0..Len(new) |-> IF i = 0 THEN s
                                          ELSE IF new[i] \in IdsIn(g[i - 1]) THEN g[i - 1]
                                          ELSE Append(g[i - 1], new[i])]
           kept == CHOOSE g : g = K(g)
<1>1. G \in [1..Len(new) -> [V -> V]]
  OBVIOUS
<1>2. PICK f : Recurs(f, Len(new), V, s, G)
  <2>1. Len(new) \in Nat /\ s \in V OBVIOUS
  <2> HIDE DEF V, G
  <2> QED BY <1>1, <2>1, SeqRecursion
<1>3. f \in [0..Len(new) -> V] /\ f[0] = s /\ \A i \in 1..Len(new) : f[i] = G[i][f[i - 1]]
  BY <1>2 DEF Recurs
<1>4. f = K(f)
  <2>1. \A i \in 0..Len(new) : f[i] = K(f)[i]
    <3> SUFFICES ASSUME NEW i \in 0..Len(new) PROVE f[i] = K(f)[i]
      OBVIOUS
    <3>1. CASE i = 0 BY <3>1, <1>3
    <3>2. CASE i # 0
      <4>1. i \in 1..Len(new) /\ i - 1 \in 0..Len(new) BY <3>2
      <4>2. f[i] = G[i][f[i - 1]] /\ f[i - 1] \in V BY <4>1, <1>3
      <4> QED BY <4>1, <4>2, <3>2
    <3> QED BY <3>1, <3>2
  <2>2. f = [i \in 0..Len(new) |-> f[i]]
    BY <1>3, Zenon
  <2> QED BY <2>1, <2>2
<1>5. kept = K(kept)
  BY <1>4, Zenon
<1>6. AppendUnique(s, new) = kept[Len(new)]
  BY DEF AppendUnique
<1>7. kept[0] = s /\ \A i \in 1..Len(new) : kept[i] = IF new[i] \in IdsIn(kept[i - 1]) THEN kept[i - 1]
                                                      ELSE Append(kept[i - 1], new[i])
  <2> HIDE DEF kept
  <2>1. \A i \in 0..Len(new) : kept[i] = K(kept)[i]
     BY <1>5
  <2> QED BY <2>1
<1> HIDE DEF kept
<1> QED
  BY <1>6, <1>7

\* AppendUnique holds the ids of both sequences.
LEMMA UniqueIs ==
    ASSUME NEW X, NEW s \in Seq(X), NEW new \in Seq(X)
    PROVE  /\ AppendUnique(s, new) \in Seq(X)
           /\ IdsIn(AppendUnique(s, new)) = IdsIn(s) \cup IdsIn(new)
<1>1. PICK f : /\ AppendUnique(s, new) = f[Len(new)]
               /\ f[0] = s
               /\ \A i \in 1..Len(new) : f[i] = IF new[i] \in IdsIn(f[i - 1]) THEN f[i - 1]
                                                ELSE Append(f[i - 1], new[i])
  BY UniqueUnfolds
<1> DEFINE Good(i) == f[i] \in Seq(X) /\ IdsIn(f[i]) = IdsIn(s) \cup {new[j] : j \in 1..i}
           T == {i \in Nat : i <= Len(new) => Good(i)}
<1>2. 0 \in T
  <2>1. {new[j] : j \in 1..0} = {}
    OBVIOUS
  <2>2. Good(0)
    BY <1>1, <2>1
  <2> HIDE DEF Good
  <2> QED BY <2>2
<1>3. ASSUME NEW i \in Nat, i \in T PROVE i + 1 \in T
  <2> SUFFICES ASSUME i + 1 <= Len(new) PROVE Good(i + 1)
    OBVIOUS
  <2> DEFINE k == f[i]
  <2>1. k \in Seq(X) /\ IdsIn(k) = IdsIn(s) \cup {new[j] : j \in 1..i}
    BY <1>3
  <2>2. i + 1 \in 1..Len(new) /\ (i + 1) - 1 = i
    OBVIOUS
  <2>3. f[i + 1] = IF new[i + 1] \in IdsIn(k) THEN k ELSE Append(k, new[i + 1])
    BY <2>2, <1>1
  <2>4. new[i + 1] \in X
    BY <2>2
  <2>5. {new[j] : j \in 1..(i + 1)} = {new[j] : j \in 1..i} \cup {new[i + 1]}
    BY <2>2
  <2> HIDE DEF k
  <2>6. IdsIn(Append(k, new[i + 1])) = IdsIn(k) \cup {new[i + 1]}
    BY <2>1, <2>4, IdsOfAppend
  <2>7. CASE new[i + 1] \in IdsIn(k)
    BY <2>1, <2>3, <2>5, <2>7 DEF k
  <2>8. CASE new[i + 1] \notin IdsIn(k)
    BY <2>1, <2>3, <2>4, <2>5, <2>6, <2>8 DEF k
  <2> QED BY <2>7, <2>8
<1>4. \A i \in Nat : i \in T
  <2> HIDE DEF T
  <2> QED BY <1>2, <1>3, Induct
<1>5. Good(Len(new))
  <2> HIDE DEF Good
  <2>1. Len(new) \in Nat OBVIOUS
  <2> QED BY <2>1, <1>4
<1>6. {new[j] : j \in 1..Len(new)} = IdsIn(new)
  BY DEF IdsIn
<1> QED
  BY <1>1, <1>5, <1>6


-----------------------------------------------------------------------------
(* From the pieces to the claims *)

Kinds == {p.kind : p \in Pieces} \cup {"item"}
Wordings == {p.words : p \in Pieces}

AllPieces == [kind : Kinds, words : Wordings, cited : Seq(Marked), facets : Seq(Marked)]

AllClaims == [source : Nat, cited : Seq(Marked), facets : Seq(Marked), joined : BOOLEAN,
              leadCited : Seq(Marked), itemCited : Seq(Marked)]

Marks(s) == UNION {IdsIn(s[i].cited) : i \in DOMAIN s}

MarksUpTo(s, n) == UNION {IdsIn(s[i].cited) : i \in 1..n}

\* What the writer writes is a piece.
LEMMA PiecesTyped == Pieces \subseteq AllPieces
BY PiecesAssumption DEF AllPieces, Kinds, Wordings, Piece

\* The ids cited up to the end are all of them.
LEMMA MarksAll ==
    ASSUME NEW X, NEW s \in Seq(X)
    PROVE  MarksUpTo(s, Len(s)) = Marks(s) /\ MarksUpTo(s, 0) = {}
BY DEF Marks, MarksUpTo

\* Nothing cites nothing.
LEMMA MarksNone == Marks(<<>>) = {}
BY DEF Marks

\* One piece further, its ids are added.
LEMMA MarksNext ==
    ASSUME NEW s, NEW n \in Nat
    PROVE  MarksUpTo(s, n + 1) = MarksUpTo(s, n) \cup IdsIn(s[n + 1].cited)
<1>1. 1..(n + 1) = (1..n) \cup {n + 1}
  OBVIOUS
<1> QED BY <1>1 DEF MarksUpTo

\* A piece before n cites among the first n.
LEMMA MarksAt ==
    ASSUME NEW s, NEW n \in Nat, NEW j \in 1..n
    PROVE  IdsIn(s[j].cited) \subseteq MarksUpTo(s, n)
BY DEF MarksUpTo

\* Appending a piece or a claim adds what it cites.
LEMMA MarksAppend ==
    ASSUME NEW X, NEW s \in Seq(X), NEW e \in X
    PROVE  Marks(Append(s, e)) = Marks(s) \cup IdsIn(e.cited)
<1> DEFINE t == Append(s, e)
<1>1. /\ DOMAIN t = (DOMAIN s) \cup {Len(s) + 1}
      /\ \A i \in DOMAIN s : t[i] = s[i]
      /\ t[Len(s) + 1] = e
  OBVIOUS
<1> HIDE DEF t
<1>2. Marks(t) = Marks(s) \cup IdsIn(e.cited)
  BY <1>1 DEF Marks
<1> QED BY <1>2 DEF t

\* A claim that is replaced by one that cites more adds what that one cites.
LEMMA MarksExcept ==
    ASSUME NEW X, NEW s \in Seq(X), NEW e \in X, NEW n \in DOMAIN s, IdsIn(s[n].cited) \subseteq IdsIn(e.cited)
    PROVE  /\ [s EXCEPT ![n] = e] \in Seq(X)
           /\ Len([s EXCEPT ![n] = e]) = Len(s)
           /\ Marks([s EXCEPT ![n] = e]) = Marks(s) \cup IdsIn(e.cited)
<1> DEFINE t == [s EXCEPT ![n] = e]
<1>1. /\ DOMAIN t = DOMAIN s
      /\ \A i \in DOMAIN s : i # n => t[i] = s[i]
      /\ t[n] = e
  OBVIOUS
<1>2. t \in Seq(X) /\ Len(t) = Len(s)
  OBVIOUS
<1> HIDE DEF t
<1>3. Marks(t) = Marks(s) \cup IdsIn(e.cited)
  <2>1. ASSUME NEW x \in Marks(t) PROVE x \in Marks(s) \cup IdsIn(e.cited)
    <3>1. PICK i \in DOMAIN t : x \in IdsIn(t[i].cited)
      BY DEF Marks
    <3>2. CASE i = n
      BY <1>1, <3>1, <3>2
    <3>3. CASE i # n
      <4>1. i \in DOMAIN s /\ x \in IdsIn(s[i].cited)
        BY <1>1, <3>1, <3>3
      <4> QED BY <4>1 DEF Marks
    <3> QED BY <3>2, <3>3
  <2>2. ASSUME NEW x \in Marks(s) PROVE x \in Marks(t)
    <3>1. PICK i \in DOMAIN s : x \in IdsIn(s[i].cited)
      BY DEF Marks
    <3>2. i \in DOMAIN t /\ x \in IdsIn(t[i].cited)
      BY <1>1, <3>1
    <3> QED BY <3>2 DEF Marks
  <2>3. IdsIn(e.cited) \subseteq Marks(t)
    <3>1. n \in DOMAIN t /\ t[n].cited = e.cited
      BY <1>1
    <3> QED BY <3>1 DEF Marks
  <2> QED BY <2>1, <2>2, <2>3
<1> QED BY <1>2, <1>3 DEF t

Merging == [out : Seq(AllPieces), held : {<<>>} \cup {<<p>> : p \in AllPieces}]

\* A bare marker and its item cite together what each cites (_append_unique).
LEMMA WholeIs ==
    ASSUME NEW held \in {<<>>} \cup {<<p>> : p \in AllPieces}, NEW p \in AllPieces
    PROVE  Whole(held, p) \in AllPieces /\ IdsIn(Whole(held, p).cited) = Marks(held) \cup IdsIn(p.cited)
<1>1. CASE held = <<>>
  BY <1>1, MarksNone DEF Whole
<1>2. CASE held # <<>>
  <2>1. PICK q \in AllPieces : held = <<q>>
    BY <1>2
  <2>2. Marks(held) = IdsIn(q.cited) /\ held[1] = q
    <3>1. held = Append(<<>>, q) /\ <<>> \in Seq(AllPieces) BY <2>1
    <3>2. Marks(Append(<<>>, q)) = Marks(<<>>) \cup IdsIn(q.cited)
      BY <3>1, MarksAppend, Zenon
    <3>3. held[1] = q BY <2>1
    <3>4. Marks(held) = Marks(Append(<<>>, q)) BY <3>1
    <3> QED BY <3>2, <3>3, <3>4, MarksNone
  <2>3. Whole(held, p) = [kind |-> "item", words |-> p.words, cited |-> AppendUnique(q.cited, p.cited),
                          facets |-> AppendUnique(q.facets, p.facets)]
    BY <1>2, <2>2 DEF Whole, Piece
  <2>4. /\ p.cited \in Seq(Marked) /\ q.cited \in Seq(Marked)
        /\ p.facets \in Seq(Marked) /\ q.facets \in Seq(Marked) /\ p.words \in Wordings /\ "item" \in Kinds
    BY <2>1 DEF AllPieces, Kinds
  <2>5. /\ AppendUnique(q.cited, p.cited) \in Seq(Marked) /\ AppendUnique(q.facets, p.facets) \in Seq(Marked)
        /\ IdsIn(AppendUnique(q.cited, p.cited)) = IdsIn(q.cited) \cup IdsIn(p.cited)
    BY <2>4, UniqueIs
  <2> QED BY <2>2, <2>3, <2>4, <2>5 DEF AllPieces
<1> QED BY <1>1, <1>2

\* Merging one piece loses none of the ids read so far.
LEMMA MergeOneIs ==
    ASSUME NEW pieces \in Seq(AllPieces), NEW x \in Merging, NEW i \in 1..Len(pieces)
    PROVE  LET y == MergeOne(x, pieces, i)
           IN  /\ y \in Merging
               /\ y.held # <<>> => i < Len(pieces)
               /\ Marks(y.out) \cup Marks(y.held) = Marks(x.out) \cup Marks(x.held) \cup IdsIn(pieces[i].cited)
<1> DEFINE whole == Whole(x.held, pieces[i])
           y == MergeOne(x, pieces, i)
<1>1. pieces[i] \in AllPieces /\ x.held \in {<<>>} \cup {<<p>> : p \in AllPieces} /\ x.out \in Seq(AllPieces)
  BY DEF Merging
<1>2. whole \in AllPieces /\ IdsIn(whole.cited) = Marks(x.held) \cup IdsIn(pieces[i].cited)
  BY <1>1, WholeIs
<1>3. y = IF whole.kind = "bare" /\ i < Len(pieces) THEN [out |-> x.out, held |-> <<whole>>]
          ELSE [out |-> Append(x.out, whole), held |-> <<>>]
  BY DEF MergeOne
<1> HIDE DEF y, whole
<1>4. CASE whole.kind = "bare" /\ i < Len(pieces)
  <2>1. y.out = x.out /\ y.held = <<whole>> /\ y \in Merging
    BY <1>1, <1>2, <1>3, <1>4 DEF Merging
  <2>2. Marks(<<whole>>) = IdsIn(whole.cited)
    <3>0. whole \in AllPieces BY <1>2
    <3>1. <<whole>> = Append(<<>>, whole) /\ <<>> \in Seq(AllPieces) BY <3>0
    <3>2. Marks(Append(<<>>, whole)) = Marks(<<>>) \cup IdsIn(whole.cited)
      BY <3>0, <3>1, MarksAppend, Zenon
    <3>3. Marks(<<whole>>) = Marks(Append(<<>>, whole)) BY <3>1
    <3> QED BY <3>2, <3>3, MarksNone
  <2> QED BY <1>2, <1>4, <2>1, <2>2 DEF y
<1>5. CASE ~(whole.kind = "bare" /\ i < Len(pieces))
  <2>1. y.out = Append(x.out, whole) /\ y.held = <<>> /\ y \in Merging
    BY <1>1, <1>2, <1>3, <1>5 DEF Merging
  <2>2. Marks(Append(x.out, whole)) = Marks(x.out) \cup IdsIn(whole.cited)
    BY <1>1, <1>2, MarksAppend
  <2> QED BY <1>2, <2>1, <2>2, MarksNone DEF y
<1> QED BY <1>4, <1>5

\* What MergeBareMarkers computes, one piece after the other.
LEMMA MergeUnfolds ==
    ASSUME NEW pieces \in Seq(AllPieces)
    PROVE  \E f : /\ MergeBareMarkers(pieces) = f[Len(pieces)].out
                  /\ f[0] = [out |-> <<>>, held |-> <<>>]
                  /\ \A i \in 1..Len(pieces) : f[i] = MergeOne(f[i - 1], pieces, i)
<1> DEFINE V == Merging
           a == [out |-> <<>>, held |-> <<>>]
           G == [i \in 1..Len(pieces) |-> [x \in V |-> MergeOne(x, pieces, i)]]
           K(g) == [i \in 0..Len(pieces) |-> IF i = 0 THEN [out |-> <<>>, held |-> <<>>]
                                             ELSE MergeOne(g[i - 1], pieces, i)]
           kept == CHOOSE g : g = K(g)
<1>1. G \in [1..Len(pieces) -> [V -> V]]
  BY MergeOneIs
<1>2. PICK f : Recurs(f, Len(pieces), V, a, G)
  <2>1. Len(pieces) \in Nat /\ a \in V BY DEF Merging
  <2> HIDE DEF V, G, a
  <2> QED BY <1>1, <2>1, SeqRecursion
<1>3. f \in [0..Len(pieces) -> V] /\ f[0] = a /\ \A i \in 1..Len(pieces) : f[i] = G[i][f[i - 1]]
  BY <1>2 DEF Recurs
<1>4. f = K(f)
  <2>1. \A i \in 0..Len(pieces) : f[i] = K(f)[i]
    <3> SUFFICES ASSUME NEW i \in 0..Len(pieces) PROVE f[i] = K(f)[i]
      OBVIOUS
    <3>1. CASE i = 0 BY <3>1, <1>3
    <3>2. CASE i # 0
      <4>1. i \in 1..Len(pieces) /\ i - 1 \in 0..Len(pieces) BY <3>2
      <4>2. f[i] = G[i][f[i - 1]] /\ f[i - 1] \in V BY <4>1, <1>3
      <4> QED BY <4>1, <4>2, <3>2
    <3> QED BY <3>1, <3>2
  <2>2. f = [i \in 0..Len(pieces) |-> f[i]]
    BY <1>3
  <2> QED BY <2>1, <2>2
<1>5. kept = K(kept)
  BY <1>4
<1>6. MergeBareMarkers(pieces) = kept[Len(pieces)].out
  BY DEF MergeBareMarkers
<1>7. kept[0] = a /\ \A i \in 1..Len(pieces) : kept[i] = MergeOne(kept[i - 1], pieces, i)
  <2> HIDE DEF kept
  <2>1. \A i \in 0..Len(pieces) : kept[i] = K(kept)[i]
     BY <1>5
  <2> QED BY <2>1
<1> HIDE DEF kept
<1> QED
  BY <1>6, <1>7

\* Merging bare markers keeps every id: a last marker stays a piece of its own.
LEMMA MergeIs ==
    ASSUME NEW pieces \in Seq(AllPieces)
    PROVE  MergeBareMarkers(pieces) \in Seq(AllPieces) /\ Marks(MergeBareMarkers(pieces)) = Marks(pieces)
<1>1. PICK f : /\ MergeBareMarkers(pieces) = f[Len(pieces)].out
               /\ f[0] = [out |-> <<>>, held |-> <<>>]
               /\ \A i \in 1..Len(pieces) : f[i] = MergeOne(f[i - 1], pieces, i)
  BY MergeUnfolds
<1> DEFINE Good(i) == /\ f[i] \in Merging
                      /\ f[i].held # <<>> => i < Len(pieces)
                      /\ Marks(f[i].out) \cup Marks(f[i].held) = MarksUpTo(pieces, i)
           T == {i \in Nat : i <= Len(pieces) => Good(i)}
<1>2. 0 \in T
  <2>1. f[0] \in Merging /\ f[0].held = <<>> /\ f[0].out = <<>>
    BY <1>1 DEF Merging
  <2>2. Good(0)
    BY <2>1, MarksNone, MarksAll
  <2> HIDE DEF Good
  <2> QED BY <2>2
<1>3. ASSUME NEW i \in Nat, i \in T PROVE i + 1 \in T
  <2> SUFFICES ASSUME i + 1 <= Len(pieces) PROVE Good(i + 1)
    OBVIOUS
  <2> DEFINE x == f[i]
  <2>1. x \in Merging /\ Marks(x.out) \cup Marks(x.held) = MarksUpTo(pieces, i)
    BY <1>3
  <2>2. i + 1 \in 1..Len(pieces) /\ (i + 1) - 1 = i
    OBVIOUS
  <2>3. f[i + 1] = MergeOne(x, pieces, i + 1)
    BY <2>2, <1>1
  <2> HIDE DEF x
  <2>4. /\ MergeOne(x, pieces, i + 1) \in Merging
        /\ MergeOne(x, pieces, i + 1).held # <<>> => i + 1 < Len(pieces)
        /\ Marks(MergeOne(x, pieces, i + 1).out) \cup Marks(MergeOne(x, pieces, i + 1).held)
             = Marks(x.out) \cup Marks(x.held) \cup IdsIn(pieces[i + 1].cited)
    BY <2>1, <2>2, MergeOneIs
  <2>5. MarksUpTo(pieces, i + 1) = MarksUpTo(pieces, i) \cup IdsIn(pieces[i + 1].cited)
    BY MarksNext
  <2> QED BY <2>1, <2>3, <2>4, <2>5
<1>4. \A i \in Nat : i \in T
  <2> HIDE DEF T
  <2> QED BY <1>2, <1>3, Induct
<1>5. Good(Len(pieces))
  <2> HIDE DEF Good
  <2>1. Len(pieces) \in Nat OBVIOUS
  <2> QED BY <2>1, <1>4
<1>6. f[Len(pieces)].held = <<>> /\ f[Len(pieces)].out \in Seq(AllPieces)
  BY <1>5 DEF Merging
<1> QED
  BY <1>1, <1>5, <1>6, MarksAll, MarksNone


\* A claim that takes over citations cites both.
LEMMA CitesIs ==
    ASSUME NEW c \in AllClaims, NEW p, p.cited \in Seq(Marked), p.facets \in Seq(Marked)
    PROVE  Cites(c, p) \in AllClaims /\ IdsIn(Cites(c, p).cited) = IdsIn(c.cited) \cup IdsIn(p.cited)
<1>1. /\ c.cited \in Seq(Marked) /\ c.facets \in Seq(Marked)
  BY DEF AllClaims
<1>2. /\ AppendUnique(c.cited, p.cited) \in Seq(Marked)
      /\ AppendUnique(c.facets, p.facets) \in Seq(Marked)
      /\ IdsIn(AppendUnique(c.cited, p.cited)) = IdsIn(c.cited) \cup IdsIn(p.cited)
  BY <1>1, UniqueIs
<1>3. Cites(c, p) = [c EXCEPT !.cited = AppendUnique(c.cited, p.cited), !.facets = AppendUnique(c.facets, p.facets)]
  BY DEF Cites
<1> HIDE DEF Cites
<1> QED BY <1>2, <1>3 DEF AllClaims

Scanning(n) == [out : Seq(AllClaims), lead : 0..n, own : Nat]

\* After i pieces: either every id is in the output, or a lead-in that waits for the
\* item after it holds the rest.
CarriedOver(pieces, scan, i) ==
    \/ Marks(scan.out) = MarksUpTo(pieces, i)
    \/ /\ scan.lead = i /\ i \in 1..(Len(pieces) - 1) /\ pieces[i + 1].kind = "item"
       /\ Marks(scan.out) \cup IdsIn(pieces[i].cited) = MarksUpTo(pieces, i)

\* A piece that is a claim of its own cites what the piece does.
LEMMA AloneIs ==
    ASSUME NEW p \in AllPieces, NEW i \in Nat
    PROVE  Alone(p, i) \in AllClaims /\ Alone(p, i).cited = p.cited
<1>1. p.cited \in Seq(Marked) /\ p.facets \in Seq(Marked) /\ <<>> \in Seq(Marked)
  BY DEF AllPieces
<1>2. Alone(p, i) = [source |-> i, cited |-> p.cited, facets |-> p.facets, joined |-> FALSE,
                     leadCited |-> <<>>, itemCited |-> <<>>]
  BY DEF Alone, Claim
<1> QED BY <1>1, <1>2 DEF AllClaims

\* An item takes its own ids to the output, and those of the lead-in in force.
LEMMA ItemIs ==
    ASSUME NEW pieces \in Seq(AllPieces), NEW i \in 1..Len(pieces), NEW x \in Scanning(Len(pieces))
    PROVE  /\ AtItem(x, pieces, i) \in Scanning(Len(pieces))
           /\ Marks(AtItem(x, pieces, i).out) =
                Marks(x.out) \cup IdsIn(pieces[i].cited)
                  \cup (IF x.lead = 0 THEN {} ELSE IdsIn(pieces[x.lead].cited))
           /\ AtItem(x, pieces, i).lead = x.lead
<1> DEFINE p == pieces[i]
           lead == pieces[x.lead]
           y == AtItem(x, pieces, i)
<1>1. /\ p \in AllPieces /\ p.cited \in Seq(Marked) /\ p.facets \in Seq(Marked) /\ i \in Nat
      /\ x.out \in Seq(AllClaims) /\ x.lead \in 0..Len(pieces) /\ x.own \in Nat /\ Len(pieces) \in Nat
  <2>1. x.out \in Seq(AllClaims) /\ x.lead \in 0..Len(pieces) /\ x.own \in Nat
    BY DEF Scanning
  <2>2. p \in AllPieces /\ i \in Nat /\ Len(pieces) \in Nat
    OBVIOUS
  <2> HIDE DEF p
  <2>3. p.cited \in Seq(Marked) /\ p.facets \in Seq(Marked)
    BY <2>2 DEF AllPieces
  <2> QED BY <2>1, <2>2, <2>3
<1>2. CASE x.lead = 0
  <2>1. y = Scan(Append(x.out, Alone(p, i)), x.lead, x.own)
    BY <1>2 DEF AtItem, AtItemAlone
  <2>2. Alone(p, i) \in AllClaims /\ Alone(p, i).cited = p.cited
    BY <1>1, AloneIs
  <2>3. Append(x.out, Alone(p, i)) \in Seq(AllClaims)
    BY <1>1, <2>2
  <2>4. Marks(Append(x.out, Alone(p, i))) = Marks(x.out) \cup IdsIn(p.cited)
    BY <1>1, <2>2, MarksAppend
  <2>5. /\ y \in Scanning(Len(pieces)) /\ y.out = Append(x.out, Alone(p, i)) /\ y.lead = x.lead
    <3> HIDE DEF y
    <3> HIDE DEF p
    <3> QED BY <1>1, <2>1, <2>3 DEF Scan, Scanning
  <2> QED BY <1>2, <2>4, <2>5
<1>3. CASE x.lead # 0
  <2> DEFINE item == IF Joins(lead.words) THEN Claim(i, p.cited, p.facets, TRUE, lead.cited, p.cited)
                     ELSE Alone(p, i)
             joined == Cites(item, lead)
             out == IF x.own = 0 THEN x.out ELSE [x.out EXCEPT ![x.own] = Cites(x.out[x.own], joined)]
  <2>1. y = Scan(Append(out, joined), x.lead, x.own)
    BY <1>3 DEF AtItem
  <2>2. lead \in AllPieces /\ lead.cited \in Seq(Marked) /\ lead.facets \in Seq(Marked)
    <3>1. x.lead \in 1..Len(pieces) BY <1>1, <1>3
    <3>2. lead \in AllPieces BY <3>1
    <3> HIDE DEF lead
    <3> QED BY <3>2 DEF AllPieces
  <2>3. item \in AllClaims /\ IdsIn(item.cited) = IdsIn(p.cited)
    <3>1. CASE ~Joins(lead.words)
      <4>1. item = Alone(p, i) BY <3>1
      <4> HIDE DEF item, p
      <4> QED BY <4>1, <1>1, AloneIs
    <3>2. CASE Joins(lead.words)
      <4>1. item = [source |-> i, cited |-> p.cited, facets |-> p.facets, joined |-> TRUE,
                    leadCited |-> lead.cited, itemCited |-> p.cited]
        BY <3>2 DEF Claim
      <4> HIDE DEF item, p, lead
      <4> QED BY <4>1, <1>1, <2>2 DEF AllClaims
    <3> QED BY <3>1, <3>2
  <2> HIDE DEF item
  <2>4. joined \in AllClaims /\ IdsIn(joined.cited) = IdsIn(p.cited) \cup IdsIn(lead.cited)
    <3> HIDE DEF lead, p
    <3>1. Cites(item, lead) \in AllClaims /\ IdsIn(Cites(item, lead).cited) = IdsIn(item.cited) \cup IdsIn(lead.cited)
      BY <2>2, <2>3, CitesIs
    <3> QED BY <3>1, <2>3
  <2> HIDE DEF joined
  <2>5. out \in Seq(AllClaims) /\ Marks(out) \cup IdsIn(joined.cited) = Marks(x.out) \cup IdsIn(joined.cited)
    <3>1. CASE x.own = 0
      BY <1>1, <3>1
    <3>2. CASE x.own # 0 /\ x.own \in DOMAIN x.out
      <4> DEFINE own == Cites(x.out[x.own], joined)
      <4>1. x.out[x.own] \in AllClaims BY <1>1, <3>2
      <4>2. joined.cited \in Seq(Marked) /\ joined.facets \in Seq(Marked)
        BY <2>4 DEF AllClaims
      <4>3. own \in AllClaims /\ IdsIn(own.cited) = IdsIn(x.out[x.own].cited) \cup IdsIn(joined.cited)
        BY <4>1, <4>2, CitesIs
      <4> HIDE DEF own
      <4>4. /\ [x.out EXCEPT ![x.own] = own] \in Seq(AllClaims)
            /\ Marks([x.out EXCEPT ![x.own] = own]) = Marks(x.out) \cup IdsIn(own.cited)
        <5>1. x.out \in Seq(AllClaims) BY <1>1
        <5>2. own \in AllClaims /\ IdsIn(x.out[x.own].cited) \subseteq IdsIn(own.cited) BY <4>3
        <5> QED BY <5>1, <5>2, <3>2, MarksExcept
      <4>5. out = [x.out EXCEPT ![x.own] = own]
        BY <3>2 DEF own
      <4>6. IdsIn(x.out[x.own].cited) \subseteq Marks(x.out)
        BY <3>2 DEF Marks
      <4> HIDE DEF out
      <4> QED BY <4>3, <4>4, <4>5, <4>6
    <3>3. CASE x.own # 0 /\ x.own \notin DOMAIN x.out
      <4>1. out = x.out
        BY <1>1, <3>3
      <4> QED BY <4>1, <1>1
    <3> QED BY <3>1, <3>2, <3>3
  <2> HIDE DEF out
  <2>6. Append(out, joined) \in Seq(AllClaims) /\ Marks(Append(out, joined)) = Marks(out) \cup IdsIn(joined.cited)
    BY <2>4, <2>5, MarksAppend
  <2>7. y \in Scanning(Len(pieces)) /\ y.out = Append(out, joined) /\ y.lead = x.lead
    <3> HIDE DEF y
    <3> HIDE DEF p, lead
    <3> QED BY <1>1, <2>1, <2>6 DEF Scan, Scanning
  <2> HIDE DEF y, p, lead
  <2>8. Marks(y.out) = Marks(x.out) \cup IdsIn(p.cited) \cup IdsIn(lead.cited)
    BY <2>4, <2>5, <2>6, <2>7
  <2> QED BY <1>3, <2>7, <2>8 DEF y, p, lead
<1> QED BY <1>2, <1>3

\* A piece that is no item takes its ids to the output, unless it opens a list.
LEMMA PlainIs ==
    ASSUME NEW pieces \in Seq(AllPieces), NEW i \in 1..Len(pieces), NEW x \in Scanning(Len(pieces))
    PROVE  LET y == AtPlain(x, pieces, i)
           IN  /\ y \in Scanning(Len(pieces)) /\ y.lead \in {0, i}
               /\ \/ Marks(y.out) = Marks(x.out) \cup IdsIn(pieces[i].cited)
                  \/ /\ y.lead = i /\ i \in 1..(Len(pieces) - 1) /\ pieces[i + 1].kind = "item"
                     /\ Marks(y.out) = Marks(x.out)
<1> DEFINE p == pieces[i]
           opens == p.kind = "lead" /\ i < Len(pieces) /\ pieces[i + 1].kind = "item"
           y == AtPlain(x, pieces, i)
           appended == Append(x.out, Alone(p, i))
<1>1. /\ p \in AllPieces /\ i \in Nat /\ i \in 0..Len(pieces) /\ Len(pieces) \in Nat
      /\ x.out \in Seq(AllClaims) /\ Len(x.out) + 1 \in Nat
  BY DEF Scanning
<1>2. Alone(p, i) \in AllClaims /\ Alone(p, i).cited = p.cited
  BY <1>1, AloneIs
<1>3. appended \in Seq(AllClaims) /\ Marks(appended) = Marks(x.out) \cup IdsIn(p.cited)
  BY <1>1, <1>2, MarksAppend
<1>4. \/ y = Scan(appended, 0, 0)
      \/ y = Scan(appended, i, Len(x.out) + 1)
      \/ y = Scan(x.out, i, 0) /\ opens
  BY DEF AtPlain
<1>5. /\ Scan(appended, 0, 0) \in Scanning(Len(pieces)) /\ Scan(appended, 0, 0).out = appended
      /\ Scan(appended, 0, 0).lead = 0
  BY <1>1, <1>3 DEF Scan, Scanning
<1>6. /\ Scan(appended, i, Len(x.out) + 1) \in Scanning(Len(pieces))
      /\ Scan(appended, i, Len(x.out) + 1).out = appended
      /\ Scan(appended, i, Len(x.out) + 1).lead = i
  BY <1>1, <1>3 DEF Scan, Scanning
<1>7. /\ Scan(x.out, i, 0) \in Scanning(Len(pieces)) /\ Scan(x.out, i, 0).out = x.out
      /\ Scan(x.out, i, 0).lead = i
  BY <1>1 DEF Scan, Scanning
<1>8. opens => i \in 1..(Len(pieces) - 1) /\ pieces[i + 1].kind = "item"
  BY <1>1
<1> HIDE DEF y, appended, opens, p
<1>9. /\ y \in Scanning(Len(pieces)) /\ y.lead \in {0, i}
      /\ \/ Marks(y.out) = Marks(x.out) \cup IdsIn(p.cited)
         \/ /\ y.lead = i /\ i \in 1..(Len(pieces) - 1) /\ pieces[i + 1].kind = "item"
            /\ Marks(y.out) = Marks(x.out)
  BY <1>3, <1>4, <1>5, <1>6, <1>7, <1>8
<1> QED BY <1>9 DEF y, p

\* One piece of join_list_items: ids in the output or waiting stay so.
LEMMA JoinOneIs ==
    ASSUME NEW pieces \in Seq(AllPieces), NEW i \in Nat, i + 1 \in 1..Len(pieces),
           NEW x \in Scanning(Len(pieces))
    PROVE  LET y == JoinOne(x, pieces, i + 1)
           IN  /\ y \in Scanning(Len(pieces))
               /\ x.lead <= i /\ CarriedOver(pieces, x, i) => y.lead <= i + 1 /\ CarriedOver(pieces, y, i + 1)
<1> DEFINE y == JoinOne(x, pieces, i + 1)
           here == IdsIn(pieces[i + 1].cited)
<1>1. MarksUpTo(pieces, i + 1) = MarksUpTo(pieces, i) \cup here
  BY MarksNext
<1>2. x.lead \in 0..Len(pieces)
  BY DEF Scanning
<1>3. CASE pieces[i + 1].kind = "item"
  <2>1. y = AtItem(x, pieces, i + 1)
    BY <1>3 DEF JoinOne
  <2>2. /\ y \in Scanning(Len(pieces)) /\ y.lead = x.lead
        /\ Marks(y.out) = Marks(x.out) \cup here \cup (IF x.lead = 0 THEN {} ELSE IdsIn(pieces[x.lead].cited))
    BY <2>1, ItemIs
  <2>3. ASSUME x.lead <= i, CarriedOver(pieces, x, i) PROVE Marks(y.out) = MarksUpTo(pieces, i + 1)
    <3>1. x.lead # 0 => IdsIn(pieces[x.lead].cited) \subseteq MarksUpTo(pieces, i)
      BY <1>2, <2>3, MarksAt
    <3>2. CASE Marks(x.out) = MarksUpTo(pieces, i)
      BY <1>1, <2>2, <3>1, <3>2
    <3>3. CASE /\ x.lead = i /\ i # 0
               /\ Marks(x.out) \cup IdsIn(pieces[i].cited) = MarksUpTo(pieces, i)
      BY <1>1, <2>2, <3>3
    <3> QED BY <2>3, <3>2, <3>3 DEF CarriedOver
  <2> HIDE DEF y
  <2>4. x.lead <= i /\ CarriedOver(pieces, x, i) => y.lead <= i + 1 /\ CarriedOver(pieces, y, i + 1)
    BY <1>2, <2>2, <2>3 DEF CarriedOver
  <2> QED BY <2>2, <2>4 DEF y
<1>4. CASE pieces[i + 1].kind # "item"
  <2>1. y = AtPlain(x, pieces, i + 1)
    BY <1>4 DEF JoinOne
  <2>2. /\ y \in Scanning(Len(pieces)) /\ y.lead \in {0, i + 1}
        /\ \/ Marks(y.out) = Marks(x.out) \cup here
           \/ /\ y.lead = i + 1 /\ i + 1 \in 1..(Len(pieces) - 1) /\ pieces[(i + 1) + 1].kind = "item"
              /\ Marks(y.out) = Marks(x.out)
    BY <2>1, PlainIs
  <2>3. CarriedOver(pieces, x, i) => Marks(x.out) = MarksUpTo(pieces, i)
    BY <1>4 DEF CarriedOver
  <2> HIDE DEF y
  <2>4. CarriedOver(pieces, x, i) => CarriedOver(pieces, y, i + 1)
    BY <1>1, <2>2, <2>3 DEF CarriedOver
  <2> QED BY <2>2, <2>4 DEF y
<1> QED BY <1>3, <1>4


\* What JoinListItems computes, one piece after the other.
LEMMA JoinUnfolds ==
    ASSUME NEW pieces \in Seq(AllPieces), MergeBareMarkers(pieces) \in Seq(AllPieces)
    PROVE  LET merged == MergeBareMarkers(pieces)
           IN  \E f : /\ JoinListItems(pieces) = f[Len(merged)].out
                      /\ f[0] = Scan(<<>>, 0, 0)
                      /\ \A i \in 1..Len(merged) : f[i] = JoinOne(f[i - 1], merged, i)
<1> DEFINE merged == MergeBareMarkers(pieces)
           n == Len(merged)
           V == Scanning(n)
           a == Scan(<<>>, 0, 0)
           G == [i \in 1..n |-> [x \in V |-> JoinOne(x, merged, i)]]
           K(g) == [i \in 0..n |-> IF i = 0 THEN Scan(<<>>, 0, 0) ELSE JoinOne(g[i - 1], merged, i)]
           kept == CHOOSE g : g = K(g)
<1>0. merged \in Seq(AllPieces) /\ n \in Nat
  OBVIOUS
<1>6. JoinListItems(pieces) = kept[n].out
  BY DEF JoinListItems
<1> HIDE DEF merged
<1>1. G \in [1..n -> [V -> V]]
  <2>1. ASSUME NEW i \in 1..n, NEW x \in V PROVE JoinOne(x, merged, i) \in V
    <3>1. i - 1 \in Nat /\ (i - 1) + 1 = i
      BY <1>0
    <3>2. JoinOne(x, merged, (i - 1) + 1) \in V
      BY <1>0, <3>1, JoinOneIs
    <3> QED BY <3>1, <3>2
  <2> HIDE DEF V
  <2> QED BY <2>1
<1>2. PICK f : Recurs(f, n, V, a, G)
  <2>1. a \in V BY <1>0 DEF Scan, Scanning
  <2> HIDE DEF V, G, a, n
  <2> QED BY <1>0, <1>1, <2>1, SeqRecursion
<1>3. f \in [0..n -> V] /\ f[0] = a /\ \A i \in 1..n : f[i] = G[i][f[i - 1]]
  BY <1>2 DEF Recurs
<1>4. f = K(f)
  <2>1. \A i \in 0..n : f[i] = K(f)[i]
    <3> SUFFICES ASSUME NEW i \in 0..n PROVE f[i] = K(f)[i]
      OBVIOUS
    <3>1. CASE i = 0 BY <3>1, <1>3
    <3>2. CASE i # 0
      <4>1. i \in 1..n /\ i - 1 \in 0..n BY <1>0, <3>2
      <4>2. f[i] = G[i][f[i - 1]] /\ f[i - 1] \in V BY <4>1, <1>3
      <4> QED BY <4>1, <4>2, <3>2
    <3> QED BY <3>1, <3>2
  <2>2. f = [i \in 0..n |-> f[i]]
    BY <1>3
  <2> QED BY <2>1, <2>2
<1>5. kept = K(kept)
  BY <1>4
<1>7. kept[0] = a /\ \A i \in 1..n : kept[i] = JoinOne(kept[i - 1], merged, i)
  <2> HIDE DEF kept
  <2>1. \A i \in 0..n : kept[i] = K(kept)[i]
     BY <1>5
  <2> QED BY <1>0, <2>1
<1> HIDE DEF kept
<1> QED
  BY <1>6, <1>7 DEF merged

\* join_list_items loses no id and makes none up, whatever the answer.
LEMMA JoinIs ==
    ASSUME NEW pieces \in Seq(Pieces)
    PROVE  JoinListItems(pieces) \in Seq(AllClaims) /\ Marks(JoinListItems(pieces)) = Marks(pieces)
<1> DEFINE merged == MergeBareMarkers(pieces)
           n == Len(merged)
<1>0. pieces \in Seq(AllPieces)
  BY PiecesTyped
<1>1. merged \in Seq(AllPieces) /\ Marks(merged) = Marks(pieces) /\ n \in Nat
  BY <1>0, MergeIs
<1>2. PICK f : /\ JoinListItems(pieces) = f[n].out
               /\ f[0] = Scan(<<>>, 0, 0)
               /\ \A i \in 1..n : f[i] = JoinOne(f[i - 1], merged, i)
  BY <1>0, <1>1, JoinUnfolds
<1> HIDE DEF merged
<1> DEFINE Good(i) == f[i] \in Scanning(n) /\ f[i].lead <= i /\ CarriedOver(merged, f[i], i)
           T == {i \in Nat : i <= n => Good(i)}
<1>3. 0 \in T
  <2>1. f[0] \in Scanning(n) /\ f[0].lead = 0 /\ f[0].out = <<>>
    BY <1>1, <1>2 DEF Scan, Scanning
  <2>2. Marks(f[0].out) = MarksUpTo(merged, 0)
    BY <1>1, <2>1, MarksNone, MarksAll
  <2>3. Good(0)
    BY <2>1, <2>2 DEF CarriedOver
  <2> HIDE DEF Good
  <2> QED BY <2>3
<1>4. ASSUME NEW i \in Nat, i \in T PROVE i + 1 \in T
  <2> SUFFICES ASSUME i + 1 <= n PROVE Good(i + 1)
    OBVIOUS
  <2> DEFINE x == f[i]
  <2>1. x \in Scanning(n) /\ x.lead <= i /\ CarriedOver(merged, x, i)
    BY <1>1, <1>4
  <2>2. i + 1 \in 1..n /\ (i + 1) - 1 = i
    BY <1>1
  <2>3. f[i + 1] = JoinOne(x, merged, i + 1)
    BY <2>2, <1>2
  <2> HIDE DEF x
  <2>4. /\ JoinOne(x, merged, i + 1) \in Scanning(n)
        /\ JoinOne(x, merged, i + 1).lead <= i + 1
        /\ CarriedOver(merged, JoinOne(x, merged, i + 1), i + 1)
    BY <1>1, <2>1, <2>2, JoinOneIs
  <2> QED BY <2>3, <2>4
<1>5. \A i \in Nat : i \in T
  <2> HIDE DEF T
  <2> QED BY <1>3, <1>4, Induct
<1>6. Good(n)
  <2> HIDE DEF Good
  <2> QED BY <1>1, <1>5
<1>7. f[n].out \in Seq(AllClaims)
  BY <1>6 DEF Scanning
<1>8. Marks(f[n].out) = MarksUpTo(merged, n)
  BY <1>1, <1>6 DEF CarriedOver
<1> QED
  BY <1>1, <1>2, <1>7, <1>8, MarksAll


-----------------------------------------------------------------------------
(* What a claim may be checked against *)

\* Finitely many units, and the selected are among them.
LEMMA UnitsFinite == IsFiniteSet(Units) /\ IsFiniteSet(Selected) /\ Selected \subseteq Units
<1>1. IsFiniteSet(1..Len(Evidence))
  <2>1. Len(Evidence) \in Nat BY EvidenceAssumption
  <2> QED BY <2>1, FS_Interval
<1>2. OnDomain(Evidence, 1..Len(Evidence)) /\ Image(Evidence, 1..Len(Evidence)) = Units
  BY EvidenceAssumption DEF OnDomain, Image, Units, IdsIn
<1>3. IsFiniteSet(Units)
  BY <1>1, <1>2, FiniteImage
<1>4. Selected \subseteq Units
  BY DEF Selected
<1> QED BY <1>3, <1>4, FS_Subset

\* u stands before o in the order in which units are tried.
Ahead == {p \in Units \X Units : \/ Tier[p[1]] > Tier[p[2]]
                                 \/ Tier[p[1]] = Tier[p[2]] /\ Place(p[1]) < Place(p[2])}

\* Every unit has a place.
LEMMA PlaceIs ==
    ASSUME NEW u \in Units
    PROVE  Place(u) \in DOMAIN Evidence /\ Place(u) \in Nat /\ Evidence[Place(u)] = u
<1>1. \E i \in DOMAIN Evidence : Evidence[i] = u
  BY DEF Units, IdsIn
<1>2. Place(u) \in DOMAIN Evidence /\ Evidence[Place(u)] = u
  BY <1>1 DEF Place
<1>3. DOMAIN Evidence \subseteq Nat
  BY EvidenceAssumption
<1> QED BY <1>2, <1>3

\* The sort key of select_by_authority orders the units strictly: ids are unique.
LEMMA AheadOrders == StrictOrder(Ahead, Selected)
<1>1. \A u \in Units : Tier[u] \in Nat /\ Place(u) \in Nat
  BY PlaceIs, EvidenceAssumption
<1>2. \A u, v \in Units : u # v => Place(u) # Place(v)
  BY PlaceIs
<1>3. \A u, v \in Units : <<u, v>> \in Ahead <=> \/ Tier[u] > Tier[v]
                                                 \/ Tier[u] = Tier[v] /\ Place(u) < Place(v)
  BY DEF Ahead
<1>4. Selected \subseteq Units
  BY UnitsFinite
<1>5. \A u \in Selected : <<u, u>> \notin Ahead
  BY <1>1, <1>3, <1>4
<1>6. \A u, v \in Selected : u # v => <<u, v>> \in Ahead \/ <<v, u>> \in Ahead
  <2> SUFFICES ASSUME NEW u \in Selected, NEW v \in Selected, u # v
               PROVE  <<u, v>> \in Ahead \/ <<v, u>> \in Ahead
    OBVIOUS
  <2>1. /\ Tier[u] \in Nat /\ Tier[v] \in Nat /\ Place(u) \in Nat /\ Place(v) \in Nat
        /\ Place(u) # Place(v)
    BY <1>1, <1>2, <1>4
  <2> QED BY <2>1, <1>3, <1>4
<1>7. \A u, v, w \in Selected : <<u, v>> \in Ahead /\ <<v, w>> \in Ahead => <<u, w>> \in Ahead
  BY <1>1, <1>3, <1>4
<1> QED BY <1>5, <1>6, <1>7 DEF StrictOrder

\* The selected units can be put in the order the code sorts them in.
LEMMA OrderExists ==
    SelectedInOrder \in [1..Cardinality(Selected) -> Selected]
<1> DEFINE n == Cardinality(Selected)
           rank(u) == Cardinality(Above(Ahead, Selected, u))
           s == [i \in 1..n |-> CHOOSE u \in Selected : rank(u) = i - 1]
<1>1. n \in Nat
  BY UnitsFinite, FS_CardinalityType
<1>2. /\ \A u \in Selected : rank(u) \in 0..(n - 1)
      /\ \A u, v \in Selected : <<u, v>> \in Ahead => rank(u) < rank(v)
      /\ \A i \in 1..n : \E u \in Selected : rank(u) = i - 1
  BY UnitsFinite, AheadOrders, Ranking
<1> HIDE DEF rank
<1>3. \A i \in 1..n : s[i] \in Selected /\ rank(s[i]) = i - 1
  BY <1>2
<1> HIDE DEF n
<1>4. s \in [1..n -> Selected]
  BY <1>2
<1>5. \A i, j \in DOMAIN s : i < j =>
            \/ Tier[s[i]] > Tier[s[j]]
            \/ Tier[s[i]] = Tier[s[j]] /\ Place(s[i]) < Place(s[j])
  <2> HIDE DEF s
  <2> SUFFICES ASSUME NEW i \in 1..n, NEW j \in 1..n, i < j
               PROVE  \/ Tier[s[i]] > Tier[s[j]]
                      \/ Tier[s[i]] = Tier[s[j]] /\ Place(s[i]) < Place(s[j])
    BY <1>4
  <2>1. s[i] \in Selected /\ s[j] \in Selected /\ rank(s[i]) = i - 1 /\ rank(s[j]) = j - 1
    BY <1>3
  <2>2. i \in Int /\ j \in Int
    BY <1>1
  <2>3. s[i] # s[j]
    BY <2>1, <2>2
  <2>4. <<s[j], s[i]>> \notin Ahead
    BY <1>2, <2>1, <2>2
  <2>5. <<s[i], s[j]>> \in Ahead
    BY <2>1, <2>3, <2>4, AheadOrders DEF StrictOrder
  <2> QED BY <2>5 DEF Ahead
<1> HIDE DEF s
<1> QED
  BY <1>4, <1>5 DEF SelectedInOrder, n

\* A sequence is one of whatever holds its elements.
LEMMA Narrow ==
    ASSUME NEW X, NEW s \in Seq(X), NEW Y, IdsIn(s) \subseteq Y
    PROVE  s \in Seq(Y)
BY DEF IdsIn

\* The units a claim is checked against.
LEMMA CandidatesAre ==
    ASSUME NEW c \in AllClaims
    PROVE  /\ Candidates(c) \in Seq(Units) /\ IdsIn(Candidates(c)) \subseteq Selected
           /\ Cited(c) => IdsIn(Candidates(c)) \subseteq IdsIn(c.cited)
<1>1. c.cited \in Seq(Marked)
  BY DEF AllClaims
<1>2. CASE Cited(c)
  <2>1. Candidates(c) = Within(c.cited, Selected)
    BY <1>2 DEF Candidates
  <2>2. Candidates(c) \in Seq(Marked) /\ IdsIn(Candidates(c)) = IdsIn(c.cited) \cap Selected
    BY <1>1, <2>1, IdsWithin
  <2>3. IdsIn(Candidates(c)) \subseteq Units
    BY <2>2, UnitsFinite
  <2> QED BY <2>2, <2>3, Narrow
<1>3. CASE ~Cited(c)
  <2>1. Candidates(c) = <<>> \/ Candidates(c) = SelectedInOrder
    BY <1>3 DEF Candidates
  <2>2. SelectedInOrder \in Seq(Units) /\ IdsIn(SelectedInOrder) \subseteq Selected
    <3>1. Cardinality(Selected) \in Nat
      BY UnitsFinite, FS_CardinalityType
    <3>2. SelectedInOrder \in Seq(Selected)
      BY <3>1, OrderExists
    <3> HIDE DEF SelectedInOrder
    <3>3. IdsIn(SelectedInOrder) \subseteq Selected
      BY <3>2, IdsTyped
    <3> QED BY <3>2, <3>3, UnitsFinite, Narrow
  <2>3. <<>> \in Seq(Units) /\ IdsIn(<<>>) = {}
    BY EmptyIds
  <2> QED BY <1>3, <2>1, <2>2, <2>3
<1> QED BY <1>2, <1>3

\* What is learnt keeps what was known.
LEMMA LearntIs ==
    ASSUME NEW f, NEW S, NEW values, NEW heard \in Learnt(f, S, values)
    PROVE  /\ DOMAIN heard = DOMAIN f \cup S
           /\ \A x \in DOMAIN f : heard[x] = f[x]
<1>1. PICK g \in [S \ DOMAIN f -> values] : heard = With(f, g)
  BY DEF Learnt
<1>2. DOMAIN heard = DOMAIN f \cup DOMAIN g /\ \A x \in DOMAIN f : heard[x] = f[x]
  BY <1>1 DEF With
<1> QED BY <1>1, <1>2

\* A growing sequence of anything.
Listed(s) == s \in Seq(IdsIn(s))

\* Appending to a sequence of anything.
LEMMA Grows ==
    ASSUME NEW s, Listed(s), NEW e
    PROVE  /\ Listed(Append(s, e)) /\ Len(Append(s, e)) = Len(s) + 1 /\ Len(s) \in Nat
           /\ DOMAIN Append(s, e) = (DOMAIN s) \cup {Len(s) + 1} /\ DOMAIN s = 1..Len(s)
           /\ Append(s, e)[Len(s) + 1] = e /\ \A i \in DOMAIN s : Append(s, e)[i] = s[i]
<1> DEFINE X == IdsIn(s) \cup {e}
<1>1. s \in Seq(X)
  <2>1. s \in Seq(IdsIn(s)) /\ IdsIn(s) \subseteq X BY DEF Listed
  <2> HIDE DEF X
  <2> QED BY <2>1, Narrow
<1>2. e \in X
  OBVIOUS
<1> HIDE DEF X
<1>3. Append(s, e) \in Seq(X) /\ IdsIn(Append(s, e)) = X
  BY <1>1, <1>2, IdsOfAppend DEF X
<1>4. Listed(Append(s, e))
  BY <1>3 DEF Listed
<1> QED BY <1>1, <1>2, <1>4


-----------------------------------------------------------------------------
(* The check of one claim *)

Working == {"gate", "veto", "quote", "model", "union", "reason", "next"}

IsVerdict(v) == v = [sources |-> v.sources, by |-> v.by, reason |-> v.reason, grounds |-> v.grounds,
                     denied |-> v.denied, guarded |-> v.guarded, unheard |-> v.unheard]

\* Sources that a claim c may rest on.
MayRest(c, sources) ==
    /\ sources \in Seq(Units) /\ IdsIn(sources) \subseteq Selected
    /\ Cited(c) => IdsIn(sources) \subseteq IdsIn(c.cited)

Truthful(c, v) ==
    /\ v.reason.by = "model" => v.unheard = {}
    /\ v.reason.by = "guarded" /\ ~c.joined => IdsIn(Candidates(c)) \subseteq v.guarded

Held(c, v) ==
    /\ IsVerdict(v) /\ MayRest(c, v.sources) /\ IdsIn(v.sources) \cap v.denied = {}
    /\ Truthful(c, v)

\* A verdict conflicts have not touched yet.
NewlyMade(v) == v.grounds = IdsIn(v.sources) /\ v.reason.by # "unresolved"

\* What a step does to the claim that is checked.
Moved ==
    /\ UNCHANGED <<answer, opts, claims, result>>
    /\ \/ /\ verdicts' = verdicts /\ stage' \in (Working \cup {"error"}) \ {"gate"}
          /\ stage' = "veto" => MayRest(Current, now'.sources)
          /\ stage' = "union" => Current.joined
       \/ \E v : /\ verdicts' = Append(verdicts, v) /\ Held(Current, v) /\ NewlyMade(v)
                 /\ stage' = IF Len(verdicts) + 1 = Len(claims) THEN "conflicts" ELSE "next"

\* The verdict Judged appends, part by part.
LEMMA JudgedIs ==
    ASSUME NEW sources, NEW by, NEW reason, Judged(sources, by, reason)
    PROVE  \E v : /\ verdicts' = Append(verdicts, v) /\ IsVerdict(v)
                  /\ v.sources = sources /\ v.reason = reason /\ v.grounds = IdsIn(sources)
                  /\ v.denied = {u \in Units : {u} \in DOMAIN scores' /\ Contradicts(scores'[{u}])}
                  /\ v.guarded = {u \in DOMAIN refused' : refused'[u]}
                  /\ v.unheard = {u \in considered' : {u} \notin DOMAIN scores'}
                  /\ stage' = IF Len(verdicts) + 1 = Len(claims) THEN "conflicts" ELSE "next"
<1> DEFINE v == [sources |-> sources, by |-> by, reason |-> reason, grounds |-> IdsIn(sources),
                 denied  |-> {u \in Units : {u} \in DOMAIN scores' /\ Contradicts(scores'[{u}])},
                 guarded |-> {u \in DOMAIN refused' : refused'[u]},
                 unheard |-> {u \in considered' : {u} \notin DOMAIN scores'}]
<1>1. verdicts' = Append(verdicts, v) /\ stage' = IF Len(verdicts) + 1 = Len(claims) THEN "conflicts" ELSE "next"
  BY DEF Judged
<1>2. /\ IsVerdict(v) /\ v.sources = sources /\ v.reason = reason /\ v.grounds = IdsIn(sources)
      /\ v.denied = {u \in Units : {u} \in DOMAIN scores' /\ Contradicts(scores'[{u}])}
      /\ v.guarded = {u \in DOMAIN refused' : refused'[u]}
      /\ v.unheard = {u \in considered' : {u} \notin DOMAIN scores'}
  BY DEF IsVerdict
<1> HIDE DEF v
<1> QED BY <1>1, <1>2

Reasons == {"none", "uncited", "unsupported", "below the floor", "unknown citation", "contradicted", "union"}

\* A claim that stands after its check.
LEMMA Stands ==
    ASSUME NEW sources, NEW by, NEW reason, Judged(sources, by, reason),
           UNCHANGED <<answer, opts, claims, result>>,
           MayRest(Current, sources), reason.by \in Reasons,
           \A u \in IdsIn(sources) : {u} \in DOMAIN scores' => ~Contradicts(scores'[{u}])
    PROVE  Moved
<1>1. PICK v : /\ verdicts' = Append(verdicts, v) /\ IsVerdict(v)
               /\ v.sources = sources /\ v.reason = reason /\ v.grounds = IdsIn(sources)
               /\ v.denied = {u \in Units : {u} \in DOMAIN scores' /\ Contradicts(scores'[{u}])}
               /\ v.guarded = {u \in DOMAIN refused' : refused'[u]}
               /\ v.unheard = {u \in considered' : {u} \notin DOMAIN scores'}
               /\ stage' = IF Len(verdicts) + 1 = Len(claims) THEN "conflicts" ELSE "next"
  BY JudgedIs
<1>2. IdsIn(v.sources) \cap v.denied = {}
  BY <1>1
<1>3. Held(Current, v) /\ NewlyMade(v)
  BY <1>1, <1>2 DEF Held, NewlyMade, Truthful, Reasons
<1> QED BY <1>1, <1>3 DEF Moved

\* A claim that falls.
LEMMA Falls ==
    ASSUME NEW by, NEW reason, Judged(<<>>, by, reason),
           UNCHANGED <<answer, opts, claims, result>>,
           \/ reason.by \in Reasons
           \/ reason.by = "guarded" /\ (Current.joined \/
                IdsIn(Candidates(Current)) \subseteq {u \in DOMAIN refused' : refused'[u]})
           \/ reason.by = "model" /\ {u \in considered' : {u} \notin DOMAIN scores'} = {}
    PROVE  Moved
<1>1. PICK v : /\ verdicts' = Append(verdicts, v) /\ IsVerdict(v)
               /\ v.sources = <<>> /\ v.reason = reason /\ v.grounds = IdsIn(<<>>)
               /\ v.denied = {u \in Units : {u} \in DOMAIN scores' /\ Contradicts(scores'[{u}])}
               /\ v.guarded = {u \in DOMAIN refused' : refused'[u]}
               /\ v.unheard = {u \in considered' : {u} \notin DOMAIN scores'}
               /\ stage' = IF Len(verdicts) + 1 = Len(claims) THEN "conflicts" ELSE "next"
  BY JudgedIs
<1>2. IdsIn(v.sources) = {} /\ MayRest(Current, v.sources)
  BY <1>1, EmptyIds DEF MayRest
<1>3. Truthful(Current, v) /\ v.reason.by # "unresolved"
  BY <1>1 DEF Truthful, Reasons
<1>4. Held(Current, v) /\ NewlyMade(v)
  BY <1>1, <1>2, <1>3 DEF Held, NewlyMade
<1> QED BY <1>1, <1>4 DEF Moved

\* What a reason names.
LEMMA BecauseIs ==
    /\ \A by : Because(by).by = by
    /\ NoRefusal.by = "none"
BY DEF Because, NoRefusal

\* A claim without a candidate has a reason of its own.
LEMMA WhyNotIs == ASSUME NEW c PROVE WhyNoCandidate(c) \in Reasons
BY DEF WhyNoCandidate, Reasons

\* A claim may rest on less.
LEMMA MayRestWithin ==
    ASSUME NEW c, NEW s, MayRest(c, s), NEW S
    PROVE  MayRest(c, Within(s, S)) /\ IdsIn(Within(s, S)) = IdsIn(s) \cap S
<1>1. s \in Seq(Units)
  BY DEF MayRest
<1>2. Within(s, S) \in Seq(Units) /\ IdsIn(Within(s, S)) = IdsIn(s) \cap S
  BY <1>1, IdsWithin
<1> QED BY <1>2 DEF MayRest

\* A claim may rest on any of its candidates.
LEMMA CandidatesMayRest ==
    ASSUME Current \in AllClaims
    PROVE  MayRest(Current, Candidates(Current))
BY CandidatesAre DEF MayRest

\* The gate: over a cited claim all that admit, over another the first.
LEMMA GateMoves ==
    ASSUME Gate, Current \in AllClaims, scores = <<>>
    PROVE  Moved
<1> DEFINE candidates == Candidates(Current)
<1>1. PICK found \in [IdsIn(candidates) -> {"fails", "guarded", "admits"}] :
        LET admitted == Within(candidates, {u \in IdsIn(candidates) : found[u] = "admits"})
            sources  == IF Cited(Current) \/ admitted = <<>> THEN admitted ELSE <<Head(admitted)>>
        IN  /\ UNCHANGED <<scores, considered>>
            /\ IF candidates = <<>> THEN Judged(<<>>, "", Because(WhyNoCandidate(Current)))
               ELSE IF sources # <<>> /\ ~opts.checker THEN Judged(sources, "gate", NoRefusal)
               ELSE /\ now' = [Unjudged EXCEPT !.sources = sources]
                    /\ stage' = IF sources # <<>> THEN "veto"
                                ELSE IF opts.checker /\ Cited(Current) THEN "quote"
                                ELSE "reason"
                    /\ UNCHANGED verdicts
  BY DEF Gate
<1> DEFINE admitted == Within(candidates, {u \in IdsIn(candidates) : found[u] = "admits"})
           sources  == IF Cited(Current) \/ admitted = <<>> THEN admitted ELSE <<Head(admitted)>>
<1>2. UNCHANGED <<answer, opts, claims, result>>
  BY DEF Gate
<1>3. scores' = <<>>
  BY <1>1
<1>4. MayRest(Current, admitted)
  BY CandidatesMayRest, MayRestWithin
<1>5. /\ candidates = <<>> => Judged(<<>>, "", Because(WhyNoCandidate(Current)))
      /\ candidates # <<>> /\ sources # <<>> /\ ~opts.checker => Judged(sources, "gate", NoRefusal)
      /\ candidates # <<>> /\ ~(sources # <<>> /\ ~opts.checker) =>
           /\ now' = [Unjudged EXCEPT !.sources = sources]
           /\ stage' \in {"veto", "quote", "reason"}
           /\ verdicts' = verdicts
  BY <1>1
<1> HIDE DEF admitted, candidates
<1>6. MayRest(Current, sources)
  <2>1. CASE Cited(Current) \/ admitted = <<>>
    BY <1>4, <2>1
  <2>2. CASE ~Cited(Current) /\ admitted # <<>>
    <3>1. sources = <<Head(admitted)>> /\ admitted \in Seq(Units) /\ IdsIn(admitted) \subseteq Selected
      BY <1>4, <2>2 DEF MayRest
    <3>2. Head(admitted) \in IdsIn(admitted)
      BY <2>2, <3>1 DEF IdsIn
    <3>3. Head(admitted) \in Units /\ Head(admitted) \in Selected
      BY <3>1, <3>2, UnitsFinite
    <3>4. IdsIn(sources) = {Head(admitted)}
      BY <3>1 DEF IdsIn
    <3> HIDE DEF sources
    <3>5. sources \in Seq(Units)
      BY <3>1, <3>3
    <3> QED BY <2>2, <3>3, <3>4, <3>5 DEF MayRest
  <2> QED BY <2>1, <2>2
<1> HIDE DEF sources
<1>7. CASE candidates = <<>>
  <2>1. Judged(<<>>, "", Because(WhyNoCandidate(Current)))
    BY <1>5, <1>7
  <2>2. Because(WhyNoCandidate(Current)).by \in Reasons
    BY BecauseIs, WhyNotIs
  <2> QED BY <1>2, <2>1, <2>2, Falls
<1>8. CASE candidates # <<>> /\ sources # <<>> /\ ~opts.checker
  <2>1. Judged(sources, "gate", NoRefusal)
    BY <1>5, <1>8
  <2>2. NoRefusal.by \in Reasons
    BY BecauseIs DEF Reasons
  <2>3. DOMAIN scores' = {}
    BY <1>3
  <2> QED BY <1>2, <1>6, <2>1, <2>2, <2>3, Stands
<1>9. CASE candidates # <<>> /\ ~(sources # <<>> /\ ~opts.checker)
  <2>1. now'.sources = sources /\ stage' \in {"veto", "quote", "reason"} /\ verdicts' = verdicts
    BY <1>5, <1>9 DEF Unjudged
  <2> QED BY <1>2, <1>6, <2>1 DEF Moved, Working
<1> QED BY <1>7, <1>8, <1>9

\* A failing checker leaves the verdicts alone.
LEMMA RaiseMoves ==
    ASSUME Raise, UNCHANGED <<answer, opts, claims, result>>
    PROVE  Moved
BY DEF Raise, Moved, Working

\* The veto keeps of the sources of the gate those the checker does not deny.
LEMMA VetoMoves ==
    ASSUME Veto, MayRest(Current, now.sources)
    PROVE  Moved
<1>1. PICK heard \in Learnt(scores, Alones(IdsIn(now.sources)), Answers) :
         LET kept == KeptByChecker(now.sources, heard)
         IN  /\ scores' = heard
             /\ IF Failed(heard) THEN Raise
                ELSE IF kept # <<>> THEN Judged(kept, "gate", NoRefusal)
                ELSE Judged(<<>>, "", Because("contradicted"))
  BY DEF Veto
<1> DEFINE kept == KeptByChecker(now.sources, heard)
<1>2. UNCHANGED <<answer, opts, claims, result>>
  BY DEF Veto
<1>3. MayRest(Current, kept) /\ IdsIn(kept) \subseteq {u \in IdsIn(now.sources) : ~Contradicts(heard[{u}])}
  <2> DEFINE S == {u \in IdsIn(now.sources) : ~Contradicts(heard[{u}])}
  <2>1. kept = Within(now.sources, S)
    BY DEF KeptByChecker
  <2> HIDE DEF kept, S
  <2>2. MayRest(Current, kept) /\ IdsIn(kept) \subseteq S
    BY <2>1, MayRestWithin
  <2> QED BY <2>2 DEF S
<1>4. \/ Raise
      \/ Judged(kept, "gate", NoRefusal)
      \/ Judged(<<>>, "", Because("contradicted"))
  BY <1>1
<1>5. scores' = heard
  BY <1>1
<1> HIDE DEF kept
<1>6. CASE Raise
  BY <1>2, <1>6, RaiseMoves
<1>7. CASE Judged(kept, "gate", NoRefusal)
  <2>1. NoRefusal.by \in Reasons
    BY BecauseIs DEF Reasons
  <2>2. \A u \in IdsIn(kept) : {u} \in DOMAIN scores' => ~Contradicts(scores'[{u}])
    BY <1>3, <1>5
  <2> QED BY <1>2, <1>3, <1>7, <2>1, <2>2, Stands
<1>8. CASE Judged(<<>>, "", Because("contradicted"))
  <2>1. Because("contradicted").by \in Reasons
    BY BecauseIs DEF Reasons
  <2> QED BY <1>2, <1>8, <2>1, Falls
<1> QED BY <1>4, <1>6, <1>7, <1>8

\* A path of the model admits only what the checker was heard to accept.
LEMMA PathMoves ==
    ASSUME NEW units, NEW by, NEW next, MayRest(Current, units), ModelPath(units, by, next),
           next \in Working \ {"gate", "veto"}, next = "union" => Current.joined,
           UNCHANGED <<answer, opts, claims, result>>
    PROVE  Moved
<1>1. PICK known \in Learnt(refused, IdsIn(units), BOOLEAN) :
      \E heard \in Learnt(scores, Asked(IdsIn(units), known), Answers) :
        LET admitted == Admitted(units, known, heard)
        IN  /\ refused' = known /\ scores' = heard /\ considered' = considered \cup IdsIn(units)
            /\ IF Failed(heard) THEN Raise
               ELSE IF admitted # <<>> THEN Judged(admitted, by, NoRefusal)
               ELSE stage' = next /\ UNCHANGED <<now, verdicts>>
  BY DEF ModelPath
<1>2. PICK heard \in Learnt(scores, Asked(IdsIn(units), known), Answers) :
        LET admitted == Admitted(units, known, heard)
        IN  /\ refused' = known /\ scores' = heard /\ considered' = considered \cup IdsIn(units)
            /\ IF Failed(heard) THEN Raise
               ELSE IF admitted # <<>> THEN Judged(admitted, by, NoRefusal)
               ELSE stage' = next /\ UNCHANGED <<now, verdicts>>
  BY <1>1
<1> DEFINE admitted == Admitted(units, known, heard)
<1>3. MayRest(Current, admitted) /\ \A u \in IdsIn(admitted) : ~Contradicts(heard[{u}])
  <2> DEFINE S == {u \in IdsIn(units) : ~known[u] /\ Accepts(heard[{u}])}
  <2>1. admitted = Within(units, S)
    BY DEF Admitted
  <2>2. \A u \in S : ~Contradicts(heard[{u}])
    BY DEF Accepts
  <2> HIDE DEF admitted, S
  <2>3. MayRest(Current, admitted) /\ IdsIn(admitted) \subseteq S
    BY <2>1, MayRestWithin
  <2> QED BY <2>2, <2>3
<1>4. \/ Raise
      \/ Judged(admitted, by, NoRefusal)
      \/ stage' = next /\ verdicts' = verdicts
  BY <1>2
<1>5. scores' = heard
  BY <1>2
<1> HIDE DEF admitted
<1>6. CASE Raise
  BY <1>6, RaiseMoves
<1>7. CASE Judged(admitted, by, NoRefusal)
  <2>1. NoRefusal.by \in Reasons
    BY BecauseIs DEF Reasons
  <2>2. \A u \in IdsIn(admitted) : {u} \in DOMAIN scores' => ~Contradicts(scores'[{u}])
    BY <1>3, <1>5
  <2> QED BY <1>3, <1>7, <2>1, <2>2, Stands
<1>8. CASE stage' = next /\ verdicts' = verdicts
  BY <1>8 DEF Moved, Working
<1> QED BY <1>4, <1>6, <1>7, <1>8

\* The quote path.
LEMMA QuoteMoves ==
    ASSUME Quote, Current \in AllClaims
    PROVE  Moved
<1>1. PICK anchored \in SUBSET IdsIn(Candidates(Current)) :
        ModelPath(Within(Candidates(Current), anchored), "quote", "model")
  BY DEF Quote
<1>2. UNCHANGED <<answer, opts, claims, result>>
  BY DEF Quote
<1>3. MayRest(Current, Within(Candidates(Current), anchored))
  BY CandidatesMayRest, MayRestWithin
<1> QED BY <1>1, <1>2, <1>3, PathMoves DEF Working

\* The model path, over units it is allowed to look at.
LEMMA ModelMoves ==
    ASSUME Model, Current \in AllClaims
    PROVE  Moved
<1> DEFINE next == IF Current.joined /\ Current.itemCited # <<>> THEN "union" ELSE "reason"
<1>1. ModelPath(Within(Candidates(Current), Allowed), "model", next)
  BY DEF Model
<1>2. UNCHANGED <<answer, opts, claims, result>>
  BY DEF Model
<1>3. MayRest(Current, Within(Candidates(Current), Allowed))
  BY CandidatesMayRest, MayRestWithin
<1>4. next \in Working \ {"gate", "veto"} /\ (next = "union" => Current.joined)
  BY DEF Working
<1> HIDE DEF next
<1> QED BY <1>1, <1>2, <1>3, <1>4, PathMoves


\* The union path: each premise of an admitted pair was heard, and denied nothing.
LEMMA UnionMoves ==
    ASSUME Union, Current \in AllClaims, Current.joined
    PROVE  Moved
<1> DEFINE pairs == Pairs(Current)
           reason(heard, p) == PairReason(p, heard)
           admitted(guarded, heard) == {p \in pairs \ guarded : reason(heard, p) = ""}
           sources(guarded, heard) == {p[1] : p \in admitted(guarded, heard)} \cup {p[2] : p \in admitted(guarded, heard)}
           kept(guarded, heard) == Within(Candidates(Current), sources(guarded, heard))
<1>1. UNCHANGED <<answer, opts, claims, result>>
  BY DEF Union
<1>2. CASE pairs = {}
  <2>1. stage' = "reason" /\ verdicts' = verdicts
    BY <1>2 DEF Union
  <2> QED BY <1>1, <2>1 DEF Moved, Working
<1>3. CASE pairs # {}
  <2>1. PICK guarded \in SUBSET pairs : \E heard \in Learnt(scores, UnionAsked(pairs, guarded), Answers) :
           IF Failed(heard) THEN scores' = heard /\ Raise
           ELSE IF admitted(guarded, heard) # {}
           THEN /\ scores' = heard
                /\ Judged(kept(guarded, heard), "union", NoRefusal)
           ELSE IF pairs \ guarded = {} THEN scores' = heard /\ Judged(<<>>, "", Because("guarded"))
           ELSE \E first \in pairs \ guarded :
                     IF reason(heard, first) = "contradicted"
                     THEN scores' = heard /\ Judged(<<>>, "", Because("contradicted"))
                     ELSE \E late \in Learnt(heard, {Together(p) : p \in pairs}, Answers) :
                            /\ scores' = late
                            /\ IF Failed(late) THEN Raise
                               ELSE Judged(<<>>, "", [by |-> "union", best |-> Bests({late[Together(p)] : p \in pairs})])
    BY <1>3 DEF Union
  <2>2. PICK heard \in Learnt(scores, UnionAsked(pairs, guarded), Answers) :
           IF Failed(heard) THEN scores' = heard /\ Raise
           ELSE IF admitted(guarded, heard) # {}
           THEN /\ scores' = heard
                /\ Judged(kept(guarded, heard), "union", NoRefusal)
           ELSE IF pairs \ guarded = {} THEN scores' = heard /\ Judged(<<>>, "", Because("guarded"))
           ELSE \E first \in pairs \ guarded :
                     IF reason(heard, first) = "contradicted"
                     THEN scores' = heard /\ Judged(<<>>, "", Because("contradicted"))
                     ELSE \E late \in Learnt(heard, {Together(p) : p \in pairs}, Answers) :
                            /\ scores' = late
                            /\ IF Failed(late) THEN Raise
                               ELSE Judged(<<>>, "", [by |-> "union", best |-> Bests({late[Together(p)] : p \in pairs})])
    BY <2>1
  <2> DEFINE here == kept(guarded, heard)
             best(late) == [by |-> "union", best |-> Bests({late[Together(p)] : p \in pairs})]
  <2>3. MayRest(Current, here) /\ \A u \in IdsIn(here) : ~Contradicts(heard[{u}])
    <3> DEFINE S == sources(guarded, heard)
    <3>1. \A u \in S : ~Contradicts(heard[{u}])
      <4> SUFFICES ASSUME NEW u \in S PROVE ~Contradicts(heard[{u}])
        OBVIOUS
      <4>1. PICK p \in admitted(guarded, heard) : u = p[1] \/ u = p[2]
        OBVIOUS
      <4>2. {u} \in Premises(p) /\ PairReason(p, heard) = ""
        BY <4>1 DEF Premises
      <4> QED BY <4>2 DEF PairReason
    <3>2. MayRest(Current, here) /\ IdsIn(here) \subseteq S
      <4>1. here = Within(Candidates(Current), S)
        OBVIOUS
      <4> HIDE DEF S, here
      <4> QED BY <4>1, CandidatesMayRest, MayRestWithin
    <3> QED BY <3>1, <3>2
  <2>4. \/ Raise
        \/ scores' = heard /\ Judged(here, "union", NoRefusal)
        \/ Judged(<<>>, "", Because("guarded"))
        \/ Judged(<<>>, "", Because("contradicted"))
        \/ \E late : Judged(<<>>, "", best(late))
    BY <2>2
  <2>5. \A late : best(late).by = "union"
    OBVIOUS
  <2>6. Because("guarded").by = "guarded" /\ Because("contradicted").by = "contradicted" /\ NoRefusal.by = "none"
    BY BecauseIs
  <2> HIDE DEF here, best
  <2>7. CASE Raise
    BY <1>1, <2>7, RaiseMoves
  <2>8. CASE scores' = heard /\ Judged(here, "union", NoRefusal)
    <3>1. \A u \in IdsIn(here) : {u} \in DOMAIN scores' => ~Contradicts(scores'[{u}])
      BY <2>3, <2>8
    <3>2. NoRefusal.by \in Reasons
      BY <2>6 DEF Reasons
    <3> QED BY <1>1, <2>3, <2>8, <3>1, <3>2, Stands
  <2>9. CASE Judged(<<>>, "", Because("guarded"))
    BY <1>1, <2>6, <2>9, Falls
  <2>10. CASE Judged(<<>>, "", Because("contradicted"))
    <3>1. Because("contradicted").by \in Reasons
      BY <2>6 DEF Reasons
    <3> QED BY <1>1, <2>10, <3>1, Falls
  <2>11. CASE \E late : Judged(<<>>, "", best(late))
    <3>1. PICK late : Judged(<<>>, "", best(late))
      BY <2>11
    <3>2. best(late).by \in Reasons
      BY <2>5 DEF Reasons
    <3> QED BY <1>1, <3>1, <3>2, Falls
  <2> QED BY <2>4, <2>7, <2>8, <2>9, <2>10, <2>11
<1> QED BY <1>2, <1>3

\* F0: the reason is told from scores that are all heard, or from guards of all units.
LEMMA ReasonMoves ==
    ASSUME Reason, Current \in AllClaims
    PROVE  Moved
<1>1. UNCHANGED <<answer, opts, claims, result>> /\ refused' = refused /\ considered' = considered
  BY DEF Reason
<1>2. CASE AllGuarded
  <2>1. Judged(<<>>, "", Because("guarded"))
    BY <1>2 DEF Reason
  <2>2. Because("guarded").by = "guarded"
    BY BecauseIs
  <2>3. IdsIn(Candidates(Current)) \subseteq {u \in DOMAIN refused' : refused'[u]}
    BY <1>1, <1>2 DEF AllGuarded
  <2> QED BY <1>1, <2>1, <2>2, <2>3, Falls
<1>3. CASE ~AllGuarded
  <2> DEFINE best(heard) == [by |-> "model", best |-> Bests({heard[p] : p \in Alones(considered) \cap DOMAIN heard})]
  <2>1. PICK heard \in Learnt(scores, Late(scores), Answers) :
              /\ scores' = heard
              /\ IF Failed(heard) THEN Raise
                 ELSE IF considered = {} THEN Judged(<<>>, "", Because("unsupported"))
                 ELSE Judged(<<>>, "", best(heard))
    BY <1>3 DEF Reason
  <2>2. {u \in considered' : {u} \notin DOMAIN scores'} = {}
    <3>1. DOMAIN heard = DOMAIN scores \cup Late(scores)
      BY LearntIs
    <3>2. \A u \in considered : {u} \in DOMAIN heard
      BY <3>1 DEF Late, Alones
    <3> QED BY <1>1, <2>1, <3>2
  <2>3. Because("unsupported").by = "unsupported" /\ best(heard).by = "model"
    BY BecauseIs
  <2>4. Raise \/ Judged(<<>>, "", Because("unsupported")) \/ Judged(<<>>, "", best(heard))
    BY <2>1
  <2> HIDE DEF best
  <2>5. CASE Raise
    BY <1>1, <2>5, RaiseMoves
  <2>6. CASE Judged(<<>>, "", Because("unsupported"))
    <3>1. Because("unsupported").by \in Reasons
      BY <2>3 DEF Reasons
    <3> QED BY <1>1, <2>6, <3>1, Falls
  <2>7. CASE Judged(<<>>, "", best(heard))
    BY <1>1, <2>2, <2>3, <2>7, Falls
  <2> QED BY <2>4, <2>5, <2>6, <2>7
<1> QED BY <1>2, <1>3

-----------------------------------------------------------------------------
(* The invariant of the check, claim after claim *)

AllHeld == \A i \in DOMAIN verdicts : Held(claims[i], verdicts[i])

AllFresh == \A i \in DOMAIN verdicts : NewlyMade(verdicts[i])

CheckInv ==
    /\ answer \in Seq(Pieces) /\ claims \in Seq(AllClaims) /\ Listed(verdicts)
    /\ stage \in Working \cup {"writing", "conflicts", "error", "assemble", "done"}
    /\ stage = "writing" => verdicts = <<>>
    /\ stage # "writing" => Marks(claims) = Marks(answer)
    /\ stage \in Working => Len(verdicts) < Len(claims)
    /\ stage \in {"writing", "gate"} => scores = <<>>
    /\ stage = "veto" => MayRest(Current, now.sources)
    /\ stage = "union" => Current.joined
    /\ AllHeld
    /\ stage \notin {"assemble", "done"} => AllFresh

\* The claim that is checked is one.
LEMMA CurrentTyped ==
    ASSUME CheckInv, stage \in Working
    PROVE  Current \in AllClaims
<1>1. claims \in Seq(AllClaims) /\ Len(verdicts) < Len(claims) /\ Listed(verdicts)
  BY DEF CheckInv
<1>2. Len(verdicts) \in Nat
  BY <1>1 DEF Listed
<1> QED BY <1>1, <1>2 DEF Current

\* Initially nothing is judged.
LEMMA CheckInit == Init => CheckInv
<1> SUFFICES ASSUME Init PROVE CheckInv
  OBVIOUS
<1>1. /\ answer = <<>> /\ claims = <<>> /\ verdicts = <<>> /\ stage = "writing" /\ scores = <<>>
  BY DEF Init
<1>2. Listed(<<>>) /\ DOMAIN verdicts = {}
  BY <1>1 DEF Listed
<1> QED BY <1>1, <1>2 DEF CheckInv, AllHeld, AllFresh, Working

\* A step of the check keeps the invariant.
LEMMA MovedKeeps ==
    ASSUME CheckInv, Moved, stage \in Working
    PROVE  CheckInv'
<1>1. /\ UNCHANGED <<answer, opts, claims>>
      /\ answer \in Seq(Pieces) /\ claims \in Seq(AllClaims) /\ Listed(verdicts)
      /\ Len(verdicts) < Len(claims) /\ Marks(claims) = Marks(answer) /\ AllHeld /\ AllFresh
  BY DEF CheckInv, Moved, Working
<1>2. Len(verdicts) \in Nat /\ Len(claims) \in Nat
  BY <1>1 DEF Listed
<1>3. CASE verdicts' = verdicts
  <2>1. /\ stage' \in (Working \cup {"error"}) \ {"gate"}
        /\ stage' = "veto" => MayRest(Current, now'.sources)
        /\ stage' = "union" => Current.joined
    <3>1. \A v : Append(verdicts, v) # verdicts
      <4> SUFFICES ASSUME NEW v, Append(verdicts, v) = verdicts PROVE FALSE
        OBVIOUS
      <4>1. Len(Append(verdicts, v)) = Len(verdicts) + 1
        BY <1>1, Grows
      <4> QED BY <4>1, <1>2
    <3> QED BY <1>3, <3>1 DEF Moved
  <2> QED
    BY <1>1, <1>3, <2>1 DEF CheckInv, Working, AllHeld, AllFresh, Held, NewlyMade, MayRest, Truthful, Candidates,
       Cited, Current
<1>4. CASE verdicts' # verdicts
  <2>1. PICK v : /\ verdicts' = Append(verdicts, v) /\ Held(Current, v) /\ NewlyMade(v)
                 /\ stage' = IF Len(verdicts) + 1 = Len(claims) THEN "conflicts" ELSE "next"
    BY <1>4 DEF Moved
  <2>2. /\ Listed(verdicts') /\ Len(verdicts') = Len(verdicts) + 1
        /\ DOMAIN verdicts' = (DOMAIN verdicts) \cup {Len(verdicts) + 1} /\ DOMAIN verdicts = 1..Len(verdicts)
        /\ verdicts'[Len(verdicts) + 1] = v /\ \A i \in DOMAIN verdicts : verdicts'[i] = verdicts[i]
    BY <1>1, <2>1, Grows
  <2>3. \A i \in DOMAIN verdicts' : Held(claims[i], verdicts'[i]) /\ NewlyMade(verdicts'[i])
    BY <1>1, <2>1, <2>2 DEF AllHeld, AllFresh, Current
  <2>4. AllHeld' /\ AllFresh'
    BY <1>1, <2>3 DEF AllHeld, AllFresh, Held, NewlyMade, MayRest, Truthful, Candidates, Cited
  <2>5. stage' \in {"conflicts", "next"} /\ (stage' = "next" => Len(verdicts') < Len(claims'))
    BY <1>1, <1>2, <2>1, <2>2
  <2> QED
    BY <1>1, <2>2, <2>4, <2>5 DEF CheckInv, Working, Listed
<1> QED BY <1>3, <1>4


\* The empty sequence has every type.
LEMMA EmptyTyped == ASSUME NEW X PROVE <<>> \in Seq(X)
OBVIOUS

\* Next, one action at a time.
LEMMA NextCases ==
    ASSUME Next
    PROVE  \/ Write \/ Parse \/ NextClaim \/ Gate \/ Veto \/ Quote \/ Model \/ Union \/ Reason
           \/ Resolve \/ Assemble
BY DEF Next

\* Each step of the check moves the current claim.
LEMMA CheckingMoves ==
    ASSUME CheckInv, Gate \/ Veto \/ Quote \/ Model \/ Union \/ Reason
    PROVE  stage \in Working /\ Moved
<1>1. stage \in Working
  BY DEF Gate, Veto, Quote, Model, Union, Reason, Working
<1>2. Current \in AllClaims
  BY <1>1, CurrentTyped
<1>3. (stage = "gate" => scores = <<>>) /\ (stage = "veto" => MayRest(Current, now.sources))
      /\ (stage = "union" => Current.joined)
  BY DEF CheckInv
<1>4. /\ Gate => stage = "gate"
      /\ Veto => stage = "veto"
      /\ Union => stage = "union"
  BY DEF Gate, Veto, Union
<1>5. CASE Gate BY <1>1, <1>2, <1>3, <1>4, <1>5, GateMoves
<1>6. CASE Veto BY <1>1, <1>3, <1>4, <1>6, VetoMoves
<1>7. CASE Quote BY <1>1, <1>2, <1>7, QuoteMoves
<1>8. CASE Model BY <1>1, <1>2, <1>8, ModelMoves
<1>9. CASE Union BY <1>1, <1>2, <1>3, <1>4, <1>9, UnionMoves
<1>10. CASE Reason BY <1>1, <1>2, <1>10, ReasonMoves
<1> QED BY <1>1, <1>5, <1>6, <1>7, <1>8, <1>9, <1>10

\* What the settlement of conflicts does to one verdict.
Settled(v, w) ==
    /\ IsVerdict(w) /\ w.sources \in Seq(Units) /\ IdsIn(w.sources) \subseteq IdsIn(v.sources)
    /\ w.denied = v.denied /\ w.unheard = v.unheard /\ w.guarded = v.guarded /\ w.grounds = v.grounds
    /\ w.reason = v.reason \/ w.reason.by \in {"outranked", "unresolved"}

\* What a settlement leaves of a verdict holds what the verdict did.
LEMMA SettledHeld ==
    ASSUME NEW c, NEW v, NEW w, Held(c, v), Settled(v, w)
    PROVE  Held(c, w)
BY DEF Held, Settled, MayRest, Truthful

KeptOf(i, spared) ==
    Within(verdicts[i].sources, {u \in IdsIn(verdicts[i].sources) : Against(i, u, spared) = {}})

EffectsOf(i, spared) == UNION {Against(i, u, spared) : u \in IdsIn(verdicts[i].sources)}

DroppedBy(i, spared) == Supported(verdicts[i]) /\ KeptOf(i, spared) = <<>>

AllEffects(spared) == UNION {EffectsOf(i, spared) : i \in DOMAIN verdicts}

SidesOf(spared) == {d \in AllEffects(spared) : Unresolved(d)}

LostBy(i, spared) == \E d \in EffectsOf(i, spared) : ~Unresolved(d)

\* What Resolve does, in parts.
LEMMA ResolveIs ==
    ASSUME Resolve
    PROVE  \E spared \in SUBSET Sparable :
             /\ verdicts' = [i \in DOMAIN verdicts |->
                   IF DroppedBy(i, spared)
                   THEN [verdicts[i] EXCEPT !.sources = <<>>, !.by = "",
                            !.reason = Because(IF LostBy(i, spared) THEN "outranked" ELSE "unresolved")]
                   ELSE [verdicts[i] EXCEPT !.sources = KeptOf(i, spared)]]
             /\ result' = [spared |-> spared, conflicts |-> AllEffects(spared),
                           sides |-> {d[1] : d \in SidesOf(spared)} \cup {d[2] : d \in SidesOf(spared)},
                           dropped |-> {i \in DOMAIN verdicts : DroppedBy(i, spared)}]
             /\ stage = "conflicts" /\ stage' = "assemble"
             /\ UNCHANGED <<answer, opts, claims>>
BY Zenon DEF Resolve, KeptOf, EffectsOf, DroppedBy, AllEffects, SidesOf, LostBy

\* What Resolve does to one verdict.
LEMMA ResolveEach ==
    ASSUME NEW spared, NEW i \in DOMAIN verdicts, NEW c, Held(c, verdicts[i]),
           verdicts' = [j \in DOMAIN verdicts |->
                   IF DroppedBy(j, spared)
                   THEN [verdicts[j] EXCEPT !.sources = <<>>, !.by = "",
                            !.reason = Because(IF LostBy(j, spared) THEN "outranked" ELSE "unresolved")]
                   ELSE [verdicts[j] EXCEPT !.sources = KeptOf(j, spared)]]
    PROVE  /\ Settled(verdicts[i], verdicts'[i])
           /\ DroppedBy(i, spared) => /\ verdicts'[i].sources = <<>>
                                      /\ verdicts'[i].reason.by = IF LostBy(i, spared) THEN "outranked" ELSE "unresolved"
           /\ ~DroppedBy(i, spared) => /\ verdicts'[i].sources = KeptOf(i, spared)
                                       /\ verdicts'[i].by = verdicts[i].by
                                       /\ verdicts'[i].reason = verdicts[i].reason
           /\ IdsIn(KeptOf(i, spared)) = {u \in IdsIn(verdicts[i].sources) : Against(i, u, spared) = {}}
<1> DEFINE v == verdicts[i]
           w == verdicts'[i]
           kept == KeptOf(i, spared)
           reason == Because(IF LostBy(i, spared) THEN "outranked" ELSE "unresolved")
<1>1. IsVerdict(v) /\ v.sources \in Seq(Units)
  BY DEF Held, MayRest
<1>2. kept \in Seq(Units) /\ IdsIn(kept) = {u \in IdsIn(v.sources) : Against(i, u, spared) = {}}
  <2> DEFINE S == {u \in IdsIn(v.sources) : Against(i, u, spared) = {}}
  <2>1. kept = Within(v.sources, S) /\ S \subseteq IdsIn(v.sources)
    BY DEF KeptOf
  <2> HIDE DEF kept, S, v
  <2>2. kept \in Seq(Units) /\ IdsIn(kept) = IdsIn(v.sources) \cap S
    BY <1>1, <2>1, IdsWithin
  <2>3. IdsIn(kept) = S
    BY <2>1, <2>2
  <2> QED BY <2>2, <2>3 DEF S
<1>3. reason.by = IF LostBy(i, spared) THEN "outranked" ELSE "unresolved"
  BY BecauseIs
<1>4. w = IF DroppedBy(i, spared) THEN [v EXCEPT !.sources = <<>>, !.by = "", !.reason = reason]
          ELSE [v EXCEPT !.sources = kept]
  OBVIOUS
<1> HIDE DEF v, w, kept, reason
<1>5. v = [sources |-> v.sources, by |-> v.by, reason |-> v.reason, grounds |-> v.grounds,
           denied |-> v.denied, guarded |-> v.guarded, unheard |-> v.unheard]
  BY <1>1 DEF IsVerdict
<1>6. CASE DroppedBy(i, spared)
  <2>1. w = [sources |-> <<>>, by |-> "", reason |-> reason, grounds |-> v.grounds,
             denied |-> v.denied, guarded |-> v.guarded, unheard |-> v.unheard]
    BY <1>4, <1>5, <1>6
  <2>2. IdsIn(<<>>) = {}
    BY EmptyIds
  <2>3. <<>> \in Seq(Units)
    BY EmptyTyped
  <2> QED BY <1>2, <1>3, <1>6, <2>1, <2>2, <2>3 DEF Settled, IsVerdict, v, w, kept
<1>7. CASE ~DroppedBy(i, spared)
  <2>1. w = [sources |-> kept, by |-> v.by, reason |-> v.reason, grounds |-> v.grounds,
             denied |-> v.denied, guarded |-> v.guarded, unheard |-> v.unheard]
    BY <1>4, <1>5, <1>7
  <2> QED BY <1>2, <1>7, <2>1 DEF Settled, IsVerdict, v, w, kept
<1> QED BY <1>6, <1>7

\* Resolve keeps the invariant: it only takes sources away.
LEMMA ResolveKeeps ==
    ASSUME CheckInv, Resolve
    PROVE  CheckInv'
<1>1. PICK spared \in SUBSET Sparable :
             /\ verdicts' = [i \in DOMAIN verdicts |->
                   IF DroppedBy(i, spared)
                   THEN [verdicts[i] EXCEPT !.sources = <<>>, !.by = "",
                            !.reason = Because(IF LostBy(i, spared) THEN "outranked" ELSE "unresolved")]
                   ELSE [verdicts[i] EXCEPT !.sources = KeptOf(i, spared)]]
             /\ stage = "conflicts" /\ stage' = "assemble"
             /\ UNCHANGED <<answer, opts, claims>>
  BY ResolveIs
<1>2. /\ answer \in Seq(Pieces) /\ claims \in Seq(AllClaims) /\ Listed(verdicts) /\ AllHeld
      /\ Marks(claims) = Marks(answer)
  BY <1>1 DEF CheckInv
<1>3. DOMAIN verdicts' = DOMAIN verdicts /\ verdicts' = [i \in DOMAIN verdicts |-> verdicts'[i]]
  BY <1>1
<1>4. Listed(verdicts')
  <2>1. Len(verdicts) \in Nat /\ DOMAIN verdicts = 1..Len(verdicts)
    BY <1>2 DEF Listed
  <2>2. \A i \in 1..Len(verdicts) : verdicts'[i] \in IdsIn(verdicts')
    BY <1>3, <2>1 DEF IdsIn
  <2>3. verdicts' \in [1..Len(verdicts) -> IdsIn(verdicts')]
    BY <1>3, <2>1, <2>2
  <2> QED BY <2>1, <2>3 DEF Listed
<1>5. \A i \in DOMAIN verdicts' : Held(claims[i], verdicts'[i])
  <2> SUFFICES ASSUME NEW i \in DOMAIN verdicts PROVE Held(claims[i], verdicts'[i])
    BY <1>3
  <2>1. Held(claims[i], verdicts[i])
    BY <1>2 DEF AllHeld
  <2>2. Settled(verdicts[i], verdicts'[i])
    BY <1>1, <2>1, ResolveEach, Zenon
  <2> QED BY <2>1, <2>2, SettledHeld
<1>6. AllHeld'
  <2>1. opts' = opts /\ claims' = claims
    BY <1>1
  <2> QED BY <2>1, <1>5 DEF AllHeld, Held, MayRest, Truthful, Candidates, Cited
<1> QED
  BY <1>1, <1>2, <1>4, <1>6 DEF CheckInv, Working, Listed

\* Every step keeps the invariant of the check.
LEMMA CheckStep ==
    ASSUME CheckInv, [Next]_vars
    PROVE  CheckInv'
<1>1. CASE Write
  <2>1. PICK p \in Pieces : answer' = Append(answer, p)
    BY <1>1 DEF Write
  <2>2. /\ stage = "writing" /\ UNCHANGED <<opts, claims, verdicts, stage, now, scores, result>>
    BY <1>1 DEF Write, perClaim
  <2>3. answer' \in Seq(Pieces)
    BY <2>1 DEF CheckInv
  <2> QED BY <2>2, <2>3 DEF CheckInv, Working, AllHeld, AllFresh, Held, NewlyMade, MayRest, Truthful, Candidates,
             Cited, Current, Listed
<1>2. CASE Parse
  <2>1. /\ stage = "writing" /\ claims' = JoinListItems(answer)
        /\ stage' = IF claims' = <<>> THEN "conflicts" ELSE "gate"
        /\ UNCHANGED <<answer, opts, verdicts, now, scores, result>>
    BY <1>2 DEF Parse, perClaim
  <2>2. verdicts = <<>> /\ scores = <<>> /\ answer \in Seq(Pieces)
    BY <2>1 DEF CheckInv
  <2>3. claims' \in Seq(AllClaims) /\ Marks(claims') = Marks(answer)
    BY <2>1, <2>2, JoinIs
  <2>4. claims' # <<>> => Len(verdicts') < Len(claims')
    BY <2>1, <2>2, <2>3
  <2>5. Listed(verdicts') /\ DOMAIN verdicts' = {}
    BY <2>1, <2>2 DEF Listed
  <2> QED BY <2>1, <2>2, <2>3, <2>4, <2>5 DEF CheckInv, Working, AllHeld, AllFresh, Listed
<1>3. CASE NextClaim
  <2>1. /\ stage = "next" /\ stage' = "gate" /\ scores' = <<>>
        /\ UNCHANGED <<answer, opts, claims, verdicts, now, result>>
    BY <1>3 DEF NextClaim
  <2> QED BY <2>1 DEF CheckInv, Working, AllHeld, AllFresh, Held, NewlyMade, MayRest, Truthful, Candidates,
             Cited, Current, Listed
<1>4. CASE Gate \/ Veto \/ Quote \/ Model \/ Union \/ Reason
  BY <1>4, CheckingMoves, MovedKeeps
<1>5. CASE Resolve
  BY <1>5, ResolveKeeps
<1>6. CASE Assemble
  <2>1. /\ stage = "assemble" /\ stage' = "done"
        /\ UNCHANGED <<answer, opts, claims, verdicts, now, scores>>
    BY <1>6 DEF Assemble, perClaim
  <2> QED BY <2>1 DEF CheckInv, Working, AllHeld, AllFresh, Held, NewlyMade, MayRest, Truthful, Candidates,
             Cited, Current, Listed
<1>7. CASE UNCHANGED vars
  <2>1. UNCHANGED <<answer, opts, claims, verdicts, stage, now, scores>>
    BY <1>7 DEF vars
  <2> QED BY <2>1 DEF CheckInv, Working, AllHeld, AllFresh, Held, NewlyMade, MayRest, Truthful, Candidates,
             Cited, Current, Listed
<1> QED BY <1>1, <1>2, <1>3, <1>4, <1>5, <1>6, <1>7, NextCases

\* The invariant of verify_answer: claims are typed and cite what the answer cited,
\* and every verdict holds what its path established.
THEOREM CheckedAlways == Spec => []CheckInv
BY CheckInit, CheckStep, PTL DEF Spec

\* No claim rests on a unit it did not cite, on one below the floor or on one the
\* checker denied, in any run of verify_answer (_verify_claim).
THEOREM VerdictsHaveStanding == Spec => []SourcesHaveStanding
<1>1. CheckInv => SourcesHaveStanding
  BY DEF CheckInv, AllHeld, Held, MayRest, SourcesHaveStanding, Selected
<1> QED BY <1>1, CheckedAlways, PTL

\* A refusal that reports scores has heard every unit the model path considered; one
\* that names a guard has a guard for every candidate (F0 of _verify_claim).
THEOREM ReasonsAreHonest == Spec => []ReasonIsHonest
<1>1. CheckInv => ReasonIsHonest
  BY DEF CheckInv, AllHeld, Held, Truthful, ReasonIsHonest
<1> QED BY <1>1, CheckedAlways, PTL

\* Every id the answer cited is cited by a claim, and no other (parse_citations,
\* join_list_items).
THEOREM NoMarkerIsLost == Spec => []MarkersReachClaims
<1>1. CheckInv => MarkersReachClaims
  BY DEF CheckInv, Marks, MarkersReachClaims
<1> QED BY <1>1, CheckedAlways, PTL


-----------------------------------------------------------------------------
(* Conflicts *)

SourcesTyped == Listed(verdicts) /\ \A i \in DOMAIN verdicts : verdicts[i].sources \in Seq(Units)

\* What Rests computes, one verdict after the other.
LEMMA RestsUnfold ==
    ASSUME SourcesTyped
    PROVE  \E f : /\ Rests = f[Len(verdicts)]
                  /\ f[0] = <<>>
                  /\ \A i \in 1..Len(verdicts) : f[i] = AppendUnique(f[i - 1], verdicts[i].sources)
<1> DEFINE n == Len(verdicts)
           V == Seq(Units)
           G == [i \in 1..n |-> [x \in V |-> AppendUnique(x, verdicts[i].sources)]]
           K(g) == [i \in 0..n |-> IF i = 0 THEN <<>> ELSE AppendUnique(g[i - 1], verdicts[i].sources)]
           kept == CHOOSE g : g = K(g)
<1>0. n \in Nat /\ \A i \in 1..n : verdicts[i].sources \in Seq(Units)
  BY DEF SourcesTyped, Listed
<1>1. G \in [1..n -> [V -> V]]
  <2>1. ASSUME NEW i \in 1..n, NEW x \in V PROVE AppendUnique(x, verdicts[i].sources) \in V
    BY <1>0, UniqueIs
  <2> HIDE DEF V
  <2> QED BY <2>1
<1>2. PICK f : Recurs(f, n, V, <<>>, G)
  <2>1. <<>> \in V BY EmptyTyped
  <2> HIDE DEF V, G, n
  <2> QED BY <1>0, <1>1, <2>1, SeqRecursion
<1>3. f \in [0..n -> V] /\ f[0] = <<>> /\ \A i \in 1..n : f[i] = G[i][f[i - 1]]
  BY <1>2 DEF Recurs
<1>4. f = K(f)
  <2>1. \A i \in 0..n : f[i] = K(f)[i]
    <3> SUFFICES ASSUME NEW i \in 0..n PROVE f[i] = K(f)[i]
      OBVIOUS
    <3>1. CASE i = 0 BY <3>1, <1>3
    <3>2. CASE i # 0
      <4>1. i \in 1..n /\ i - 1 \in 0..n BY <1>0, <3>2
      <4>2. f[i] = G[i][f[i - 1]] /\ f[i - 1] \in V BY <4>1, <1>3
      <4> QED BY <4>1, <4>2, <3>2
    <3> QED BY <3>1, <3>2
  <2>2. f = [i \in 0..n |-> f[i]]
    BY <1>3
  <2> QED BY <2>1, <2>2
<1>5. kept = K(kept)
  BY <1>4
<1>6. Rests = kept[n]
  BY DEF Rests
<1>7. kept[0] = <<>> /\ \A i \in 1..n : kept[i] = AppendUnique(kept[i - 1], verdicts[i].sources)
  <2> HIDE DEF kept
  <2>1. \A i \in 0..n : kept[i] = K(kept)[i]
     BY <1>5
  <2> QED BY <1>0, <2>1
<1> HIDE DEF kept
<1> QED
  BY <1>6, <1>7

\* The units looked at for conflicts are those some claim rests on.
LEMMA RestsAre ==
    ASSUME SourcesTyped
    PROVE  /\ Rests \in Seq(Units)
           /\ \A i \in DOMAIN verdicts : IdsIn(verdicts[i].sources) \subseteq IdsIn(Rests)
<1>0. Len(verdicts) \in Nat /\ DOMAIN verdicts = 1..Len(verdicts)
      /\ \A i \in 1..Len(verdicts) : verdicts[i].sources \in Seq(Units)
  BY DEF SourcesTyped, Listed
<1>1. PICK f : /\ Rests = f[Len(verdicts)]
               /\ f[0] = <<>>
               /\ \A i \in 1..Len(verdicts) : f[i] = AppendUnique(f[i - 1], verdicts[i].sources)
  BY RestsUnfold
<1> DEFINE Good(i) == /\ f[i] \in Seq(Units)
                      /\ \A j \in 1..i : IdsIn(verdicts[j].sources) \subseteq IdsIn(f[i])
           T == {i \in Nat : i <= Len(verdicts) => Good(i)}
<1>2. 0 \in T
  <2>1. f[0] \in Seq(Units) BY <1>1, EmptyTyped
  <2>2. 1..0 = {} OBVIOUS
  <2>3. Good(0) BY <2>1, <2>2
  <2> HIDE DEF Good
  <2> QED BY <2>3
<1>3. ASSUME NEW i \in Nat, i \in T PROVE i + 1 \in T
  <2> SUFFICES ASSUME i + 1 <= Len(verdicts) PROVE Good(i + 1)
    OBVIOUS
  <2> DEFINE x == f[i]
             new == verdicts[i + 1].sources
  <2>1. x \in Seq(Units) /\ \A j \in 1..i : IdsIn(verdicts[j].sources) \subseteq IdsIn(x)
    BY <1>0, <1>3
  <2>2. i + 1 \in 1..Len(verdicts) /\ (i + 1) - 1 = i
    BY <1>0
  <2>3. f[i + 1] = AppendUnique(x, new) /\ new \in Seq(Units)
    BY <2>2, <1>0, <1>1
  <2> HIDE DEF x, new
  <2>4. AppendUnique(x, new) \in Seq(Units) /\ IdsIn(AppendUnique(x, new)) = IdsIn(x) \cup IdsIn(new)
    BY <2>1, <2>3, UniqueIs
  <2>5. \A j \in 1..(i + 1) : IdsIn(verdicts[j].sources) \subseteq IdsIn(f[i + 1])
    <3> SUFFICES ASSUME NEW j \in 1..(i + 1) PROVE IdsIn(verdicts[j].sources) \subseteq IdsIn(f[i + 1])
      OBVIOUS
    <3>1. CASE j = i + 1 BY <3>1, <2>3, <2>4 DEF new
    <3>2. CASE j \in 1..i BY <3>2, <2>1, <2>3, <2>4
    <3> QED BY <3>1, <3>2
  <2> QED BY <2>3, <2>4, <2>5
<1>4. \A i \in Nat : i \in T
  <2> HIDE DEF T
  <2> QED BY <1>2, <1>3, Induct
<1>5. Good(Len(verdicts))
  <2> HIDE DEF Good
  <2> QED BY <1>0, <1>4
<1> QED
  BY <1>0, <1>1, <1>5

\* A disagreement of a unit a claim rests on with a selected unit is found, from one
\* side or the other.
LEMMA FoundIs ==
    ASSUME Rests \in Seq(Units), NEW u \in IdsIn(Rests) \cap Selected, NEW o \in Selected, u # o,
           NEW d \in Disagree, {d[1], d[2]} = {u, o}
    PROVE  \E e \in FoundConflicts : {e[1], e[2]} = {u, o} /\ e[1] # e[2]
<1> DEFINE T == {n \in DOMAIN Rests : Rests[n] \in {u, o}}
<1>1. T \subseteq Nat /\ T # {}
  BY DEF IdsIn
<1>2. PICK n \in T : \A m \in T : n <= m
  BY <1>1, NatMin
<1>3. PICK a \in {u, o} : Rests[n] = a
  BY <1>2
<1>4. PICK b \in {u, o} : b # a
  BY <1>3
<1>5. PICK e \in Disagree : e = <<a, b, d[3]>>
  <2>1. d = <<d[1], d[2], d[3]>> /\ <<d[2], d[1], d[3]>> \in Disagree
    BY DisagreeAssumption
  <2>2. (a = d[1] /\ b = d[2]) \/ (a = d[2] /\ b = d[1])
    BY <1>3, <1>4
  <2> QED BY <2>1, <2>2
<1>6. e[1] = a /\ e[2] = b
  BY <1>5
<1>7. n \in DOMAIN Rests /\ n \in Nat /\ \A j \in 1..n : j < n => Rests[j] \notin {u, o}
  <2>1. n \in DOMAIN Rests /\ n \in Nat /\ DOMAIN Rests = 1..Len(Rests)
    BY <1>1, <1>2
  <2>2. ASSUME NEW j \in 1..n, j < n, Rests[j] \in {u, o} PROVE FALSE
    <3>1. j \in DOMAIN Rests BY <2>1
    <3>2. j \in T BY <2>2, <3>1
    <3>3. n <= j BY <1>2, <3>2
    <3> QED BY <2>1, <2>2, <3>3
  <2> QED BY <2>1, <2>2
<1>8. b \notin {Rests[j] : j \in 1..n}
  <2> SUFFICES ASSUME NEW j \in 1..n, b = Rests[j] PROVE FALSE
    OBVIOUS
  <2>1. CASE j < n BY <1>4, <1>7, <2>1
  <2>2. CASE j = n BY <1>3, <1>4, <2>2
  <2> QED BY <1>7, <2>1, <2>2
<1>9. e \in FoundConflicts
  BY <1>3, <1>4, <1>6, <1>7, <1>8 DEF FoundConflicts
<1>10. {e[1], e[2]} = {u, o} /\ e[1] # e[2]
  BY <1>3, <1>4, <1>6
<1> QED
  BY <1>9, <1>10

Uncontested(i, spared) ==
    \A u \in IdsIn(verdicts[i].sources) : \A d \in Disagree :
            u \in {d[1], d[2]} /\ {d[1], d[2]} \subseteq Selected /\ d[1] # d[2] =>
               \/ Outranks(u, CHOOSE o \in {d[1], d[2]} : o # u)
               \/ d[3] = "value" /\ verdicts[i].by \in {"gate", "quote"} /\ <<i, {d[1], d[2]}>> \in spared

\* What nothing counts against stands uncontested.
LEMMA SparedOnly ==
    ASSUME SourcesTyped, NEW i \in DOMAIN verdicts, NEW spared \in SUBSET Sparable,
           NEW u \in IdsIn(verdicts[i].sources), u \in Selected, Against(i, u, spared) = {},
           NEW d \in Disagree, u \in {d[1], d[2]}, {d[1], d[2]} \subseteq Selected, d[1] # d[2]
    PROVE  \/ Outranks(u, CHOOSE o \in {d[1], d[2]} : o # u)
           \/ d[3] = "value" /\ verdicts[i].by \in {"gate", "quote"} /\ <<i, {d[1], d[2]}>> \in spared
<1>1. PICK o \in {d[1], d[2]} : o # u
  OBVIOUS
<1>2. {d[1], d[2]} = {u, o} /\ o \in Selected
  BY <1>1
<1>3. (CHOOSE x \in {d[1], d[2]} : x # u) = o
  BY <1>1
<1>4. u \in IdsIn(Rests) /\ Rests \in Seq(Units)
  BY RestsAre
<1>5. PICK e \in FoundConflicts : {e[1], e[2]} = {u, o} /\ e[1] # e[2]
  <2>1. u \in IdsIn(Rests) \cap Selected /\ o \in Selected /\ u # o
    BY <1>1, <1>2, <1>4
  <2>2. Rests \in Seq(Units) /\ {d[1], d[2]} = {u, o}
    BY <1>2, <1>4
  <2> QED BY <2>1, <2>2, FoundIs
<1>6. CASE Outranks(u, o)
  BY <1>3, <1>6
<1>7. CASE ~Outranks(u, o)
  <2>1. e \in EffectsOn(u)
    <3>1. (e[1] = u /\ e[2] = o) \/ (e[1] = o /\ e[2] = u)
      BY <1>5
    <3> QED BY <3>1, <1>7 DEF EffectsOn
  <2>2. <<i, {e[1], e[2]}>> \in spared
    BY <2>1 DEF Against
  <2>3. PICK x \in (DOMAIN verdicts) \X {{c[1], c[2]} : c \in FoundConflicts} :
          /\ x = <<i, {e[1], e[2]}>>
          /\ \E c \in FoundConflicts : x[2] = {c[1], c[2]} /\ MaySpare(verdicts[x[1]], c)
    BY <2>2 DEF Sparable
  <2>4. PICK c \in FoundConflicts : x[2] = {c[1], c[2]} /\ MaySpare(verdicts[x[1]], c)
    BY <2>3
  <2>5. x[1] = i /\ x[2] = {u, o}
    BY <2>3, <1>5
  <2>6. c[3] = "value" /\ verdicts[i].by \in {"gate", "quote"} /\ c \in Disagree /\ {c[1], c[2]} = {d[1], d[2]}
    BY <2>4, <2>5, <1>2 DEF MaySpare, FoundConflicts
  <2>7. d[3] = "value"
    BY <2>6, DisagreeAssumption
  <2> QED BY <1>2, <1>5, <2>2, <2>6, <2>7
<1> QED BY <1>6, <1>7


Undecided == {i \in DOMAIN verdicts : verdicts[i].reason.by = "unresolved"}

\* Both sides of every disagreement that took claim i away are on record.
CitesBoth(i, cited) ==
    /\ \A u \in verdicts[i].grounds :
          u \in cited /\ \E d \in Disagree : u = d[1] /\ d[2] \in cited
    /\ cited # {}

SettledInv ==
    /\ stage \in {"assemble", "done"} => \A i \in DOMAIN verdicts : Uncontested(i, result.spared)
    /\ stage = "assemble" =>
         /\ \A i \in Undecided : i \in result.dropped /\ CitesBoth(i, result.sides)
         /\ Selected = {} => result.dropped = {}
    /\ stage = "done" => RefusalCitesBothSides

\* The sources of the verdicts are selected units.
LEMMA HeldTyped ==
    ASSUME CheckInv
    PROVE  /\ SourcesTyped
           /\ \A i \in DOMAIN verdicts : IdsIn(verdicts[i].sources) \subseteq Selected
BY DEF CheckInv, AllHeld, Held, MayRest, SourcesTyped

\* What counts against a unit is a disagreement of it.
LEMMA EffectsDisagree ==
    ASSUME NEW u, NEW d \in EffectsOn(u)
    PROVE  d \in Disagree /\ u \in {d[1], d[2]}
BY DEF EffectsOn, FoundConflicts

\* A claim that fell without being outranked leaves both sides of what it fell over.
LEMMA DroppedShown ==
    ASSUME NEW spared, NEW i \in DOMAIN verdicts, verdicts[i].sources \in Seq(Units),
           DroppedBy(i, spared), ~LostBy(i, spared),
           IdsIn(KeptOf(i, spared)) = {u \in IdsIn(verdicts[i].sources) : Against(i, u, spared) = {}},
           NEW sides, sides = {d[1] : d \in SidesOf(spared)} \cup {d[2] : d \in SidesOf(spared)}
    PROVE  /\ \A u \in IdsIn(verdicts[i].sources) :
                 u \in sides /\ \E d \in Disagree : u = d[1] /\ d[2] \in sides
           /\ sides # {}
<1>1. IdsIn(KeptOf(i, spared)) = {}
  BY EmptyIds DEF DroppedBy
<1>2. \E u : u \in IdsIn(verdicts[i].sources)
  BY NonemptyIds DEF DroppedBy, Supported
<1>3. ASSUME NEW u \in IdsIn(verdicts[i].sources)
      PROVE  u \in sides /\ \E d \in Disagree : u = d[1] /\ d[2] \in sides
  <2>1. PICK d \in Against(i, u, spared) : TRUE
    BY <1>1
  <2>2. d \in EffectsOf(i, spared)
    BY <2>1 DEF EffectsOf
  <2>3. d \in SidesOf(spared)
    BY <2>2 DEF LostBy, SidesOf, AllEffects
  <2>4. d[1] \in sides /\ d[2] \in sides
    BY <2>3
  <2>5. d \in Disagree /\ u \in {d[1], d[2]}
    BY <2>1, EffectsDisagree DEF Against
  <2>6. CASE u = d[1]
    BY <2>4, <2>5, <2>6
  <2>7. CASE u = d[2]
    <3>1. PICK e \in Disagree : e = <<d[2], d[1], d[3]>>
      BY <2>5, DisagreeAssumption
    <3>2. e[1] = u /\ e[2] = d[1]
      BY <2>7, <3>1
    <3> QED BY <2>4, <2>7, <3>2
  <2> QED BY <2>5, <2>6, <2>7
<1> QED BY <1>2, <1>3

\* After Resolve nothing that stands is contested and what fell is on record.
LEMMA ResolveSettles ==
    ASSUME CheckInv, Resolve
    PROVE  SettledInv'
<1>1. PICK spared \in SUBSET Sparable :
             /\ verdicts' = [i \in DOMAIN verdicts |->
                   IF DroppedBy(i, spared)
                   THEN [verdicts[i] EXCEPT !.sources = <<>>, !.by = "",
                            !.reason = Because(IF LostBy(i, spared) THEN "outranked" ELSE "unresolved")]
                   ELSE [verdicts[i] EXCEPT !.sources = KeptOf(i, spared)]]
             /\ result' = [spared |-> spared, conflicts |-> AllEffects(spared),
                           sides |-> {d[1] : d \in SidesOf(spared)} \cup {d[2] : d \in SidesOf(spared)},
                           dropped |-> {i \in DOMAIN verdicts : DroppedBy(i, spared)}]
             /\ stage = "conflicts" /\ stage' = "assemble"
             /\ UNCHANGED <<answer, opts, claims>>
  BY ResolveIs
<1> DEFINE sides == {d[1] : d \in SidesOf(spared)} \cup {d[2] : d \in SidesOf(spared)}
<1>2. /\ result'.spared = spared /\ result'.sides = sides
      /\ result'.dropped = {i \in DOMAIN verdicts : DroppedBy(i, spared)}
  BY <1>1
<1>3. DOMAIN verdicts' = DOMAIN verdicts
  BY <1>1
<1>4. SourcesTyped /\ \A i \in DOMAIN verdicts : IdsIn(verdicts[i].sources) \subseteq Selected
  BY HeldTyped
<1>5. \A i \in DOMAIN verdicts : Held(claims[i], verdicts[i]) /\ NewlyMade(verdicts[i])
  BY <1>1, Zenon DEF CheckInv, AllHeld, AllFresh
<1>6. ASSUME NEW i \in DOMAIN verdicts
      PROVE  /\ Settled(verdicts[i], verdicts'[i])
             /\ DroppedBy(i, spared) => /\ verdicts'[i].sources = <<>>
                                        /\ verdicts'[i].reason.by = IF LostBy(i, spared) THEN "outranked" ELSE "unresolved"
             /\ ~DroppedBy(i, spared) => /\ verdicts'[i].sources = KeptOf(i, spared)
                                         /\ verdicts'[i].by = verdicts[i].by
                                         /\ verdicts'[i].reason = verdicts[i].reason
             /\ IdsIn(KeptOf(i, spared)) = {u \in IdsIn(verdicts[i].sources) : Against(i, u, spared) = {}}
  BY <1>1, <1>5, ResolveEach, Zenon
<1>7. ASSUME NEW i \in DOMAIN verdicts', NEW u \in IdsIn(verdicts'[i].sources), NEW d \in Disagree,
             u \in {d[1], d[2]}, {d[1], d[2]} \subseteq Selected, d[1] # d[2]
      PROVE  \/ Outranks(u, CHOOSE o \in {d[1], d[2]} : o # u)
             \/ d[3] = "value" /\ verdicts'[i].by \in {"gate", "quote"} /\ <<i, {d[1], d[2]}>> \in spared
  <2>1. i \in DOMAIN verdicts
    BY <1>3
  <2>2. ~DroppedBy(i, spared)
    <3>1. IdsIn(<<>>) = {} BY EmptyIds
    <3> QED BY <1>6, <1>7, <2>1, <3>1
  <2>3. u \in IdsIn(verdicts[i].sources) /\ Against(i, u, spared) = {} /\ verdicts'[i].by = verdicts[i].by
    BY <1>6, <1>7, <2>1, <2>2
  <2>4. u \in Selected
    BY <1>4, <2>1, <2>3
  <2>5. \/ Outranks(u, CHOOSE o \in {d[1], d[2]} : o # u)
        \/ d[3] = "value" /\ verdicts[i].by \in {"gate", "quote"} /\ <<i, {d[1], d[2]}>> \in spared
    BY <1>4, <1>7, <2>1, <2>3, <2>4, SparedOnly
  <2> QED BY <2>3, <2>5
<1>8. \A i \in DOMAIN verdicts' : Uncontested(i, result.spared)'
  BY <1>2, <1>7 DEF Uncontested, Outranks, Selected, Excluded
<1>9. ASSUME NEW i \in DOMAIN verdicts, verdicts'[i].reason.by = "unresolved"
      PROVE  /\ i \in result'.dropped
             /\ \A u \in verdicts'[i].grounds :
                   u \in sides /\ \E d \in Disagree : u = d[1] /\ d[2] \in sides
             /\ sides # {}
  <2>1. NewlyMade(verdicts[i]) /\ verdicts[i].sources \in Seq(Units)
    BY <1>4, <1>5 DEF SourcesTyped
  <2>2. DroppedBy(i, spared) /\ ~LostBy(i, spared)
    BY <1>6, <1>9, <2>1 DEF NewlyMade
  <2>3. verdicts'[i].grounds = IdsIn(verdicts[i].sources)
    BY <1>6, <2>1 DEF NewlyMade, Settled
  <2>4. /\ \A u \in IdsIn(verdicts[i].sources) :
                 u \in sides /\ \E d \in Disagree : u = d[1] /\ d[2] \in sides
        /\ sides # {}
    <3> DEFINE these == sides
    <3>1. these = {d[1] : d \in SidesOf(spared)} \cup {d[2] : d \in SidesOf(spared)}
      OBVIOUS
    <3>2. IdsIn(KeptOf(i, spared)) = {u \in IdsIn(verdicts[i].sources) : Against(i, u, spared) = {}}
      BY <1>6
    <3> HIDE DEF these
    <3>3. /\ \A u \in IdsIn(verdicts[i].sources) :
                 u \in these /\ \E d \in Disagree : u = d[1] /\ d[2] \in these
          /\ these # {}
      BY <2>1, <2>2, <3>1, <3>2, DroppedShown, Zenon
    <3> QED BY <3>3 DEF these
  <2> HIDE DEF sides
  <2> QED BY <1>2, <2>2, <2>3, <2>4
<1>10. ASSUME Selected = {} PROVE result'.dropped = {}
  <2> SUFFICES ASSUME NEW i \in DOMAIN verdicts, DroppedBy(i, spared) PROVE FALSE
    BY <1>2
  <2>1. IdsIn(verdicts[i].sources) = {} /\ verdicts[i].sources \in Seq(Units)
    BY <1>4, <1>10 DEF SourcesTyped
  <2> QED BY <2>1, NonemptyIds DEF DroppedBy, Supported
<1> HIDE DEF sides
<1>11. \A i \in Undecided' : i \in result'.dropped /\ CitesBoth(i, result.sides)'
  BY <1>2, <1>3, <1>9 DEF Undecided, CitesBoth
<1>12. Selected' = {} => result'.dropped = {}
  BY <1>10 DEF Selected, Excluded
<1>13. stage' = "assemble"
  BY <1>1
<1> QED
  BY <1>8, <1>11, <1>12, <1>13 DEF SettledInv

\* Whether a claim is contested hangs on the verdicts and what was spared.
LEMMA UncontestedSame ==
    ASSUME verdicts' = verdicts, result'.spared = result.spared, NEW i
    PROVE  Uncontested(i, result.spared)' <=> Uncontested(i, result.spared)
BY DEF Uncontested, Outranks, Selected, Excluded

\* The result cites both sides of what is undecided.
LEMMA AssembleSettles ==
    ASSUME CheckInv, SettledInv, Assemble
    PROVE  SettledInv'
<1>1. /\ stage = "assemble" /\ stage' = "done" /\ verdicts' = verdicts
      /\ result' =
         IF Answered = {}
         THEN [decision |-> "refused", refusal |-> Refusal, missing |-> MissingFacets,
               spared |-> result.spared]
         ELSE [decision |-> IF Answered # DOMAIN verdicts \/ MissingFacets # {}
                            THEN "partial" ELSE "answered",
               refusal  |-> [why |-> "", cited |-> {}],
               missing  |-> MissingFacets, spared |-> result.spared]
  BY DEF Assemble
<1>2. result'.spared = result.spared
  BY <1>1
<1>3. \A i \in DOMAIN verdicts' : Uncontested(i, result.spared)'
  <2> SUFFICES ASSUME NEW i \in DOMAIN verdicts PROVE Uncontested(i, result.spared)'
    BY <1>1
  <2>1. Uncontested(i, result.spared)
    BY <1>1 DEF SettledInv
  <2> QED BY <1>1, <1>2, <2>1, UncontestedSame
<1>4. result'.decision = "refused" => result'.refusal = Refusal
  BY <1>1
<1>5. /\ \A i \in Undecided : i \in result.dropped /\ CitesBoth(i, result.sides)
      /\ Selected = {} => result.dropped = {}
  BY <1>1 DEF SettledInv
<1>6. Undecided # {} => Refusal.why = "conflict" /\ Refusal.cited = result.sides
  <2> SUFFICES ASSUME NEW i \in Undecided PROVE Refusal.why = "conflict" /\ Refusal.cited = result.sides
    OBVIOUS
  <2>1. verdicts # <<>>
    BY DEF Undecided
  <2>2. result.dropped # {} /\ result.sides # {}
    BY <1>5 DEF CitesBoth
  <2>3. Refusal = [why |-> "conflict", cited |-> result.sides]
    BY <2>1, <2>2 DEF Refusal
  <2> QED BY <2>3
<1>7. Selected = {} /\ Units # {} /\ verdicts # <<>> => Refusal.why = "authority"
  <2> SUFFICES ASSUME Selected = {}, Units # {}, verdicts # <<>> PROVE Refusal.why = "authority"
    OBVIOUS
  <2>1. Excluded # {}
    BY DEF Selected
  <2>2. result.dropped = {}
    BY <1>5
  <2>3. Refusal = [why |-> "authority", cited |-> {}]
    BY <2>1, <2>2 DEF Refusal
  <2> QED BY <2>3
<1>8. RefusalCitesBothSides'
  <2> SUFFICES ASSUME result'.decision = "refused" PROVE RefusalCitesBothSides'
    BY DEF RefusalCitesBothSides
  <2>1. result'.refusal = Refusal
    BY <1>4
  <2>2. \A i \in Undecided : \A u \in verdicts[i].grounds :
            u \in Refusal.cited /\ \E d \in Disagree : u = d[1] /\ d[2] \in Refusal.cited
    BY <1>5, <1>6 DEF CitesBoth
  <2>3. Undecided # {} => Refusal.why = "conflict"
    BY <1>6
  <2> HIDE DEF Refusal
  <2> QED BY <1>1, <1>7, <2>1, <2>2, <2>3 DEF RefusalCitesBothSides, Undecided, Selected, Excluded
<1> QED BY <1>1, <1>3, <1>8 DEF SettledInv

\* No other step reaches the settlement.
LEMMA OthersSettle ==
    ASSUME SettledInv, [Next]_vars, ~Resolve, ~Assemble
    PROVE  SettledInv'
<1>1. CASE UNCHANGED vars
  <2>1. UNCHANGED <<stage, verdicts, result>> /\ UNCHANGED <<answer, opts, claims>>
    BY <1>1 DEF vars
  <2>2. \A i \in DOMAIN verdicts : Uncontested(i, result.spared)' <=> Uncontested(i, result.spared)
    BY <2>1, UncontestedSame
  <2>3. RefusalCitesBothSides' <=> RefusalCitesBothSides
    BY <2>1 DEF RefusalCitesBothSides, Done, Selected, Excluded
  <2>4. Undecided' = Undecided /\ \A i : CitesBoth(i, result.sides)' <=> CitesBoth(i, result.sides)
    BY <2>1 DEF Undecided, CitesBoth
  <2>5. Selected' = Selected
    BY DEF Selected, Excluded
  <2> QED BY <2>1, <2>2, <2>3, <2>4, <2>5 DEF SettledInv
<1>2. CASE ~UNCHANGED vars
  <2>1. stage' \notin {"assemble", "done"}
    BY <1>2, NextCases, Zenon DEF Write, Parse, NextClaim, Gate, Veto, Quote, Model, ModelPath, Union, Reason, Judged, Raise
  <2> QED BY <2>1 DEF SettledInv
<1> QED BY <1>1, <1>2

\* Whatever the answer, the options and what checker and guards say: a claim that
\* stands is uncontested by its equals, and a refusal over a conflict cites both sides
\* (the conflict loop and the assembly of verify_answer).
THEOREM ConflictsAreSettled == Spec => []ConflictsSettled
<1>1. Init => SettledInv
  BY DEF Init, SettledInv
<1>2. CheckInv /\ SettledInv /\ [Next]_vars => SettledInv'
  BY ResolveSettles, AssembleSettles, OthersSettle
<1>3. SettledInv => ConflictsSettled
  BY DEF SettledInv, ConflictsSettled, StandsUncontested, RefusalCitesBothSides, Uncontested, Answered, Done
<1> QED BY <1>1, <1>2, <1>3, CheckedAlways, PTL DEF Spec

-----------------------------------------------------------------------------
(* Disagreements between passages, and repetitions *)

\* What two passages share and where they part is the same either way round.
LEMMA DivergenceSymmetric ==
    ASSUME NEW a, NEW b
    PROVE  Divergence(a, b) = Divergence(b, a)
BY DEF Divergence

\* Nor does it matter to whether they are comparable.
LEMMA ComparableSymmetric ==
    ASSUME NEW a, NEW b, IsFiniteSet(a.content), IsFiniteSet(b.content)
    PROVE  Comparable(a, b) <=> Comparable(b, a)
<1>1. Cardinality(a.content) \in Nat /\ Cardinality(b.content) \in Nat
  BY FS_CardinalityType
<1>2. Smaller(Cardinality(a.content), Cardinality(b.content)) = Smaller(Cardinality(b.content), Cardinality(a.content))
  BY <1>1 DEF Smaller
<1>3. a.content \cap b.content = b.content \cap a.content
  OBVIOUS
<1> QED
  BY <1>2, <1>3, DivergenceSymmetric DEF Comparable

\* Turned round, a pair that opposes a and b opposes b and a.
LEMMA OpposedTurned ==
    ASSUME NEW a, NEW b, NEW T, \A p \in T : p = <<p[1], p[2]>>, NEW p \in Opposed(a, b, BothWays(T))
    PROVE  p = <<p[1], p[2]>> /\ <<p[2], p[1]>> \in Opposed(b, a, BothWays(T))
<1>1. /\ p \in (a.content \ b.content) \X (b.content \ a.content)
      /\ p \in BothWays(T) /\ Cardinality(Residual(a, b, p)) <= MaxResidual
  BY DEF Opposed
<1>2. p = <<p[1], p[2]>>
  BY <1>1
<1> DEFINE q == <<p[2], p[1]>>
<1>3. q \in (b.content \ a.content) \X (a.content \ b.content) /\ q[1] = p[2] /\ q[2] = p[1]
  BY <1>1
<1>4. q \in BothWays(T)
  <2>1. CASE p \in T
    BY <2>1 DEF BothWays
  <2>2. CASE p \in {<<t[2], t[1]>> : t \in T}
    <3>1. PICK t \in T : p = <<t[2], t[1]>>
      BY <2>2
    <3>2. q = <<t[1], t[2]>>
      BY <3>1
    <3>3. q = t
      BY <3>1, <3>2
    <3> QED
      BY <3>1, <3>3 DEF BothWays
  <2> QED
    BY <1>1, <2>1, <2>2 DEF BothWays
<1>5. Residual(b, a, q) = Residual(a, b, p)
  BY <1>3, DivergenceSymmetric DEF Residual
<1> HIDE DEF q
<1>6. q \in Opposed(b, a, BothWays(T))
  BY <1>1, <1>3, <1>4, <1>5 DEF Opposed
<1> QED
  BY <1>2, <1>6 DEF q

\* So two passages are opposed either way round or not at all.
LEMMA OpposedSymmetric ==
    ASSUME NEW a, NEW b, NEW T, \A p \in T : p = <<p[1], p[2]>>
    PROVE  Opposed(a, b, BothWays(T)) # {} <=> Opposed(b, a, BothWays(T)) # {}
<1>1. \A p \in Opposed(a, b, BothWays(T)) : <<p[2], p[1]>> \in Opposed(b, a, BothWays(T))
  BY OpposedTurned
<1>2. \A p \in Opposed(b, a, BothWays(T)) : <<p[2], p[1]>> \in Opposed(a, b, BothWays(T))
  BY OpposedTurned
<1> QED
  BY <1>1, <1>2

\* A set with two elements has at least two.
LEMMA TwoElements ==
    ASSUME NEW S, IsFiniteSet(S), NEW x \in S, NEW y \in S, x # y
    PROVE  Cardinality(S) >= 2
<1>1. IsFiniteSet({x}) /\ Cardinality({x}) = 1
  BY FS_Singleton
<1>2. IsFiniteSet({x} \cup {y}) /\ Cardinality({x} \cup {y}) = 2
  <2>1. y \notin {x}
    OBVIOUS
  <2>2. IsFiniteSet({x} \cup {y}) /\ Cardinality({x} \cup {y}) = Cardinality({x}) + 1
    BY <1>1, <2>1, FS_AddElement
  <2> QED
    BY <1>1, <2>2
<1>3. ({x} \cup {y}) \in SUBSET S
  OBVIOUS
<1>4. Cardinality({x} \cup {y}) <= Cardinality(S)
  BY <1>3, FS_Subset
<1>5. Cardinality(S) \in Nat
  BY FS_CardinalityType
<1> QED
  BY <1>2, <1>4, <1>5

\* Two pairs that oppose the same passages have a word in common: otherwise each would
\* leave two words over.
LEMMA OpposedMeet ==
    ASSUME NEW a, NEW b, IsFiniteSet(a.content), IsFiniteSet(b.content), NEW T,
           NEW p \in Opposed(a, b, T), NEW q \in Opposed(a, b, T)
    PROVE  p[1] = q[1] \/ p[2] = q[2]
<1> SUFFICES ASSUME p[1] # q[1], p[2] # q[2] PROVE FALSE
  OBVIOUS
<1>1. /\ p[1] \in a.content \ b.content /\ p[2] \in b.content \ a.content
      /\ q[1] \in a.content \ b.content /\ q[2] \in b.content \ a.content
      /\ Cardinality(Residual(a, b, p)) <= 1
  BY DEF Opposed, MaxResidual
<1>2. q[1] \in Residual(a, b, p) /\ q[2] \in Residual(a, b, p) /\ q[1] # q[2]
  BY <1>1 DEF Residual, Divergence
<1>3. IsFiniteSet(Residual(a, b, p))
  <2>1. IsFiniteSet(a.content \cup b.content)
    BY FS_Union
  <2>2. Residual(a, b, p) \in SUBSET (a.content \cup b.content)
    BY DEF Residual, Divergence
  <2> QED
    BY <2>1, <2>2, FS_Subset
<1>4. Cardinality(Residual(a, b, p)) \in Nat /\ Cardinality(Residual(a, b, p)) >= 2
  BY <1>2, <1>3, TwoElements, FS_CardinalityType
<1> QED
  BY <1>1, <1>4

\* The first pair is one of them.
LEMMA FirstPairIs ==
    ASSUME NEW pairs, pairs # {}, pairs \subseteq BothWays(Inclusions)
    PROVE  FirstPair(pairs) \in pairs
<1>1. \A p \in pairs : p = <<p[1], p[2]>> /\ p[1] \in Marking /\ p[2] \in Marking
  <2> SUFFICES ASSUME NEW p \in pairs PROVE p = <<p[1], p[2]>> /\ p[1] \in Marking /\ p[2] \in Marking
    OBVIOUS
  <2>1. CASE p \in Inclusions
    BY <2>1, TablesAssumption DEF Marking
  <2>2. CASE p \notin Inclusions
    <3>1. PICK t \in Inclusions : p = <<t[2], t[1]>>
      BY <2>2 DEF BothWays
    <3> QED
      BY <3>1 DEF Marking
  <2> QED
    BY <2>1, <2>2
<1>2. \A w \in Marking : Rank[w] \in Nat
  BY TablesAssumption
<1>3. \A v, w \in Marking : Rank[v] = Rank[w] => v = w
  BY TablesAssumption
<1> DEFINE firsts == {Rank[p[1]] : p \in pairs}
<1>4. firsts \subseteq Nat /\ firsts # {}
  BY <1>1, <1>2
<1>5. PICK n \in firsts : \A m \in firsts : n <= m
  <2> HIDE DEF firsts
  <2> QED
    BY <1>4, NatMin
<1>6. PICK p \in pairs : Rank[p[1]] = n
  BY <1>5
<1> DEFINE seconds == {Rank[q[2]] : q \in {q \in pairs : q[1] = p[1]}}
<1>7. seconds \subseteq Nat /\ seconds # {}
  BY <1>1, <1>2, <1>6
<1>8. PICK k \in seconds : \A m \in seconds : k <= m
  <2> HIDE DEF seconds
  <2> QED
    BY <1>7, NatMin
<1>9. PICK r \in pairs : r[1] = p[1] /\ Rank[r[2]] = k
  BY <1>8
<1>10. ASSUME NEW q \in pairs
       PROVE  Rank[r[1]] < Rank[q[1]] \/ (r[1] = q[1] /\ Rank[r[2]] <= Rank[q[2]])
  <2>1. Rank[r[1]] <= Rank[q[1]] /\ Rank[r[1]] \in Nat /\ Rank[q[1]] \in Nat
    BY <1>1, <1>2, <1>5, <1>6, <1>9
  <2>2. CASE Rank[r[1]] = Rank[q[1]]
    <3>1. r[1] = q[1]
      BY <2>2, <1>1, <1>3
    <3>2. Rank[q[2]] \in seconds
      BY <3>1, <1>9
    <3> QED
      BY <3>1, <3>2, <1>8, <1>9
  <2> QED
    BY <2>1, <2>2
<1> QED
  BY <1>10 DEF FirstPair

\* Every pair of the tables is one way round only.
LEMMA OneWayRound ==
    ASSUME NEW p \in BothWays(Inclusions)
    PROVE  p \in Inclusions <=> <<p[2], p[1]>> \notin Inclusions
<1>1. CASE p \in Inclusions
  <2>1. <<p[2], p[1]>>[1] = p[2]
    OBVIOUS
  <2> QED
    BY <1>1, <2>1, TablesAssumption
<1>2. CASE p \notin Inclusions
  <2>1. PICK t \in Inclusions : p = <<t[2], t[1]>>
    BY <1>2 DEF BothWays
  <2>2. <<p[2], p[1]>> = <<t[1], t[2]>> /\ t = <<t[1], t[2]>>
    BY <2>1, TablesAssumption
  <2> QED
    BY <1>2, <2>1, <2>2
<1> QED
  BY <1>1, <1>2

\* All pairs that oppose two passages mark the same one of them inclusive.
LEMMA SameSide ==
    ASSUME NEW a, NEW b, IsFiniteSet(a.content), IsFiniteSet(b.content),
           NEW p \in Opposed(a, b, BothWays(Inclusions)), NEW q \in Opposed(a, b, BothWays(Inclusions))
    PROVE  p \in Inclusions <=> q \in Inclusions
<1>1. p \in BothWays(Inclusions) /\ q \in BothWays(Inclusions)
  BY DEF Opposed
<1>2. p[1] = q[1] \/ p[2] = q[2]
  BY OpposedMeet
<1>3. \A x \in BothWays(Inclusions), y \in Inclusions :
        x[1] = y[1] \/ x[2] = y[2] => x \in Inclusions
  <2> SUFFICES ASSUME NEW x \in BothWays(Inclusions), NEW y \in Inclusions,
                      x[1] = y[1] \/ x[2] = y[2], x \notin Inclusions
               PROVE  FALSE
    OBVIOUS
  <2>1. PICK t \in Inclusions : x = <<t[2], t[1]>>
    BY DEF BothWays
  <2>2. t[2] = y[1] \/ t[1] = y[2]
    BY <2>1
  <2> QED
    BY <2>2, TablesAssumption
<1> QED
  BY <1>1, <1>2, <1>3

\* The verdict is the same if the same passage is the inclusive one.
LEMMA VerdictSymmetric ==
    ASSUME NEW a, NEW b, NEW p, NEW q, p \in Inclusions <=> q \notin Inclusions
    PROVE  InclusionVerdict(a, b, p \in Inclusions) = InclusionVerdict(b, a, q \in Inclusions)
<1>1. a.content \cup b.content = b.content \cup a.content
  OBVIOUS
<1>2. CASE p \in Inclusions
  BY <1>1, <1>2 DEF InclusionVerdict
<1>3. CASE p \notin Inclusions
  BY <1>1, <1>3 DEF InclusionVerdict
<1> QED
  BY <1>2, <1>3

\* Whether two passages conflict, and by which rule, does not hang on the order they
\* were retrieved in (answer/conflict.py, detect_conflict): the first pair found may be
\* another one way round, but it marks the same passage inclusive.
THEOREM ConflictIsSymmetric ==
    ASSUME NEW a, NEW b, IsFiniteSet(a.content), IsFiniteSet(b.content)
    PROVE  ConflictSymmetric(a, b)
<1> DEFINE P == Opposed(a, b, BothWays(Inclusions))
           Q == Opposed(b, a, BothWays(Inclusions))
           Antonym(x, y) == Opposed(x, y, BothWays(Antonyms)) # {}
<1>1. Comparable(a, b) <=> Comparable(b, a)
  BY ComparableSymmetric
<1>2. \A p \in Inclusions \cup Antonyms : p = <<p[1], p[2]>>
  BY TablesAssumption
<1>3. P # {} <=> Q # {}
  BY <1>2, OpposedSymmetric
<1>4. Antonym(a, b) <=> Antonym(b, a)
  BY <1>2, OpposedSymmetric
<1>5. ASSUME P # {}
      PROVE  InclusionVerdict(a, b, FirstPair(P) \in Inclusions) = InclusionVerdict(b, a, FirstPair(Q) \in Inclusions)
  <2> DEFINE p == FirstPair(P)
             q == FirstPair(Q)
             r == <<p[2], p[1]>>
  <2>1. P \subseteq BothWays(Inclusions) /\ Q \subseteq BothWays(Inclusions)
    BY DEF Opposed
  <2>2. p \in P /\ q \in Q
    BY <1>3, <1>5, <2>1, FirstPairIs
  <2>3. r \in Q
    BY <1>2, <2>2, OpposedTurned
  <2>4. p \in Inclusions <=> r \notin Inclusions
    BY <2>1, <2>2, OneWayRound
  <2>5. r \in Inclusions <=> q \in Inclusions
    BY <2>2, <2>3, SameSide
  <2>6. p \in Inclusions <=> q \notin Inclusions
    <3> HIDE DEF p, q, r
    <3> QED
      BY <2>4, <2>5
  <2> HIDE DEF P, Q, r
  <2> QED
    BY <2>6, VerdictSymmetric
<1>6. NegationRule(a, b) <=> NegationRule(b, a)
  BY DivergenceSymmetric DEF NegationRule
<1>7. ValueRule(a, b) <=> ValueRule(b, a)
  BY DivergenceSymmetric DEF ValueRule
<1> HIDE DEF P, Q, Antonym
<1>8. DetectConflict(a, b) =
        IF ~Comparable(a, b) THEN "none"
        ELSE IF P # {} THEN InclusionVerdict(a, b, FirstPair(P) \in Inclusions)
        ELSE IF Antonym(a, b) THEN "antonym"
        ELSE IF NegationRule(a, b) THEN "negation"
        ELSE IF ValueRule(a, b) THEN "value" ELSE "none"
  BY DEF DetectConflict, DetectWith, P, Antonym
<1>9. DetectConflict(b, a) =
        IF ~Comparable(b, a) THEN "none"
        ELSE IF Q # {} THEN InclusionVerdict(b, a, FirstPair(Q) \in Inclusions)
        ELSE IF Antonym(b, a) THEN "antonym"
        ELSE IF NegationRule(b, a) THEN "negation"
        ELSE IF ValueRule(b, a) THEN "value" ELSE "none"
  BY DEF DetectConflict, DetectWith, Q, Antonym
<1> QED
  BY <1>1, <1>3, <1>4, <1>5, <1>6, <1>7, <1>8, <1>9 DEF ConflictSymmetric

\* The disagreements among units, as a set of conflicts and their rules.
DisagreementsOf(S, passage) ==
    {d \in S \X S \X {"inclusion", "antonym", "negation", "value"} :
        DetectConflict(passage[d[1]], passage[d[2]]) = d[3]}

\* What verify_answer assumes of the disagreements among its units, DisagreeAssumption,
\* is true of those that detect_conflict finds, whatever passages the units carry.
THEOREM DisagreementIsMutual ==
    ASSUME NEW S, NEW passage, \A u \in S : IsFiniteSet(passage[u].content)
    PROVE  LET D == DisagreementsOf(S, passage)
           IN  /\ \A d \in D : d = <<d[1], d[2], d[3]>> /\ <<d[2], d[1], d[3]>> \in D
               /\ \A d, e \in D : {d[1], d[2]} = {e[1], e[2]} => d[3] = e[3]
<1> DEFINE R == {"inclusion", "antonym", "negation", "value"}
           D == DisagreementsOf(S, passage)
<1>1. \A u, v \in S : DetectConflict(passage[u], passage[v]) = DetectConflict(passage[v], passage[u])
  BY ConflictIsSymmetric DEF ConflictSymmetric
<1>2. ASSUME NEW d \in D
      PROVE  /\ d = <<d[1], d[2], d[3]>> /\ d[1] \in S /\ d[2] \in S /\ d[3] \in R
             /\ DetectConflict(passage[d[1]], passage[d[2]]) = d[3]
  BY DEF DisagreementsOf
<1>3. ASSUME NEW u \in S, NEW v \in S, NEW k \in R, DetectConflict(passage[u], passage[v]) = k
      PROVE  <<u, v, k>> \in D
  BY <1>3 DEF DisagreementsOf
<1> HIDE DEF D, R
<1>4. ASSUME NEW d \in D PROVE <<d[2], d[1], d[3]>> \in D
  BY <1>1, <1>2, <1>3
<1>5. ASSUME NEW d \in D, NEW e \in D, {d[1], d[2]} = {e[1], e[2]} PROVE d[3] = e[3]
  <2>1. (d[1] = e[1] /\ d[2] = e[2]) \/ (d[1] = e[2] /\ d[2] = e[1])
    BY <1>5
  <2> QED
    BY <2>1, <1>1, <1>2
<1> QED
  BY <1>2, <1>4, <1>5 DEF D

\* What the collapse computes, one passage after the other.
LEMMA CollapseUnfolds ==
    ASSUME NEW X, NEW s \in Seq(X)
    PROVE  \E kept : /\ CollapseNearDuplicates(s) = kept[Len(s)]
                     /\ kept[0] = {}
                     /\ \A i \in 1..Len(s) :
                          kept[i] = IF \E k \in kept[i - 1] : IsNearDuplicate(s[i], s[k]) THEN kept[i - 1]
                                                                                        ELSE kept[i - 1] \cup {i}
<1> DEFINE n == Len(s)
           V == SUBSET Nat
           Twin(i, x) == \E k \in x : IsNearDuplicate(s[i], s[k])
           G == [i \in 1..n |-> [x \in V |-> IF Twin(i, x) THEN x ELSE x \cup {i}]]
           K(g) == [i \in 0..n |-> IF i = 0 THEN {}
                                   ELSE IF Twin(i, g[i - 1]) THEN g[i - 1] ELSE g[i - 1] \cup {i}]
           kept == CHOOSE g : g = K(g)
<1>0. n \in Nat
  OBVIOUS
<1>1. G \in [1..n -> [V -> V]]
  <2> HIDE DEF Twin
  <2>1. ASSUME NEW i \in 1..n, NEW x \in V PROVE (IF Twin(i, x) THEN x ELSE x \cup {i}) \in V
    BY <1>0
  <2> HIDE DEF V
  <2> QED
    BY <2>1
<1> HIDE DEF Twin
<1>2. PICK f : Recurs(f, n, V, {}, G)
  <2>1. {} \in V
    OBVIOUS
  <2> HIDE DEF V, G
  <2> QED
    BY <1>0, <1>1, <2>1, SeqRecursion
<1>3. f \in [0..n -> V] /\ f[0] = {} /\ \A i \in 1..n : f[i] = G[i][f[i - 1]]
  <2> HIDE DEF V, G
  <2> QED
    BY <1>2 DEF Recurs
<1>4. f = K(f)
  <2>1. ASSUME NEW i \in 0..n PROVE f[i] = K(f)[i]
    <3>1. CASE i = 0
      BY <3>1, <1>3
    <3>2. CASE i # 0
      <4>1. i \in 1..n /\ i - 1 \in 0..n
        BY <3>2, <1>0
      <4>2. f[i - 1] \in V /\ f[i] = G[i][f[i - 1]]
        <5> HIDE DEF V, G
        <5> QED
          BY <4>1, <1>3
      <4> QED
        BY <4>1, <4>2, <3>2
    <3> QED
      BY <3>1, <3>2
  <2>2. f = [i \in 0..n |-> f[i]]
    BY <1>3
  <2> QED
    BY <2>1, <2>2
<1>5. kept = K(kept)
  BY <1>4
<1>6. CollapseNearDuplicates(s) = kept[n]
  BY DEF CollapseNearDuplicates, Twin
<1>7. kept[0] = {} /\ \A i \in 1..n : kept[i] = IF Twin(i, kept[i - 1]) THEN kept[i - 1] ELSE kept[i - 1] \cup {i}
  <2> HIDE DEF kept
  <2>1. \A i \in 0..n : kept[i] = K(kept)[i]
    BY <1>5
  <2>2. kept[0] = {}
    <3>1. 0 \in 0..n
      BY <1>0
    <3>2. kept[0] = K(kept)[0]
      BY <2>1, <3>1
    <3>3. K(kept)[0] = {}
      BY <3>1
    <3> QED
      BY <3>2, <3>3
  <2>3. ASSUME NEW i \in 1..n
        PROVE  kept[i] = IF Twin(i, kept[i - 1]) THEN kept[i - 1] ELSE kept[i - 1] \cup {i}
    <3>1. i \in 0..n /\ i # 0
      BY <1>0
    <3> QED
      BY <2>1, <3>1
  <2> QED
    BY <2>2, <2>3
<1> HIDE DEF kept
<1> QED
  BY <1>6, <1>7 DEF Twin

\* Each of the first m passages is kept or stands behind an earlier one that is, and
\* no two that are kept are near-duplicates.
Represented(s, m, kept) ==
    /\ kept \subseteq 1..m
    /\ \A i \in (1..m) \ kept : \E k \in kept : k < i /\ IsNearDuplicate(s[i], s[k])
    /\ \A i, k \in kept : k < i => ~IsNearDuplicate(s[i], s[k])

\* The collapse of near-duplicates loses no passage but to one that it repeats, and
\* leaves no repetition (answer/conflict.py, collapse_near_duplicates), for any list.
THEOREM CollapseKeepsOneOfEach ==
    ASSUME NEW X, NEW s \in Seq(X)
    PROVE  Represented(s, Len(s), CollapseNearDuplicates(s))
<1>1. PICK kept : /\ CollapseNearDuplicates(s) = kept[Len(s)]
                  /\ kept[0] = {}
                  /\ \A i \in 1..Len(s) :
                       kept[i] = IF \E k \in kept[i - 1] : IsNearDuplicate(s[i], s[k]) THEN kept[i - 1]
                                                                                     ELSE kept[i - 1] \cup {i}
  BY CollapseUnfolds, Zenon
<1> DEFINE T == {m \in Nat : m <= Len(s) => Represented(s, m, kept[m])}
<1>2. 0 \in T
  BY <1>1 DEF Represented
<1>3. ASSUME NEW m \in Nat, m \in T PROVE m + 1 \in T
  <2> SUFFICES ASSUME m + 1 <= Len(s) PROVE Represented(s, m + 1, kept[m + 1])
    OBVIOUS
  <2>1. Len(s) \in Nat /\ m + 1 \in 1..Len(s) /\ (m + 1) - 1 = m
    OBVIOUS
  <2>2. kept[m + 1] = IF \E k \in kept[m] : IsNearDuplicate(s[m + 1], s[k]) THEN kept[m]
                                                                         ELSE kept[m] \cup {m + 1}
    BY <1>1, <2>1
  <2>3. Represented(s, m, kept[m])
    BY <1>3, <2>1
  <2> DEFINE old == kept[m]
  <2>4. /\ old \subseteq 1..m
        /\ \A i \in (1..m) \ old : \E k \in old : k < i /\ IsNearDuplicate(s[i], s[k])
        /\ \A i, k \in old : k < i => ~IsNearDuplicate(s[i], s[k])
    BY <2>3 DEF Represented
  <2>5. 1..(m + 1) = (1..m) \cup {m + 1} /\ m + 1 \notin 1..m /\ \A k \in 1..m : k < m + 1 /\ ~(m + 1 < k)
    OBVIOUS
  <2> HIDE DEF old
  <2>6. CASE \E k \in old : IsNearDuplicate(s[m + 1], s[k])
    <3>1. kept[m + 1] = old
      BY <2>2, <2>6 DEF old
    <3>2. \E k \in old : k < m + 1 /\ IsNearDuplicate(s[m + 1], s[k])
      BY <2>4, <2>5, <2>6
    <3> QED
      BY <2>4, <2>5, <3>1, <3>2 DEF Represented
  <2>7. CASE ~\E k \in old : IsNearDuplicate(s[m + 1], s[k])
    <3>1. kept[m + 1] = old \cup {m + 1}
      BY <2>2, <2>7 DEF old
    <3>2. \A i, k \in old \cup {m + 1} : k < i => ~IsNearDuplicate(s[i], s[k])
      BY <2>4, <2>5, <2>7
    <3> QED
      BY <2>4, <2>5, <3>1, <3>2 DEF Represented
  <2> QED
    BY <2>6, <2>7
<1> HIDE DEF T
<1>4. \A m \in Nat : m \in T
  BY <1>2, <1>3, Induct
<1>5. Len(s) \in Nat
  OBVIOUS
<1> QED
  BY <1>1, <1>4, <1>5 DEF T

\* Passages that share their words conflict if they part in polarity or figures.
LEMMA SharedWordsConflict ==
    ASSUME NEW a, NEW b, IsFiniteSet(a.content), a.content = b.content, Cardinality(a.content) >= MinContent,
           ~a.reported, ~b.reported,
           NegationRule(a, b) \/ ValueRule(a, b)
    PROVE  DetectConflict(a, b) # "none"
<1>1. Divergence(a, b) = {} /\ a.content \ b.content = {} /\ a.content \cap b.content = a.content
  BY DEF Divergence
<1>2. Cardinality(a.content) \in Nat /\ Cardinality(Divergence(a, b)) = 0
  BY <1>1, FS_CardinalityType, FS_EmptySet
<1>3. Smaller(Cardinality(a.content), Cardinality(b.content)) = Cardinality(a.content)
  BY <1>2 DEF Smaller
<1>4. 5 * Cardinality(a.content \cap b.content) >= 3 * Cardinality(a.content)
  <2>1. Cardinality(a.content \cap b.content) = Cardinality(a.content)
    BY <1>1
  <2>2. \A n \in Nat : 5 * n >= 3 * n
    OBVIOUS
  <2> QED
    BY <1>2, <2>1, <2>2
<1>5. Comparable(a, b)
  <2>1. Cardinality(Divergence(a, b)) <= MaxSymdiff
    BY <1>2 DEF MaxSymdiff
  <2> QED
    BY <1>1, <1>3, <1>4, <2>1 DEF Comparable
<1>6. \A T : Opposed(a, b, T) = {}
  BY <1>1 DEF Opposed
<1>7. DetectConflict(a, b) = IF NegationRule(a, b) THEN "negation"
                             ELSE IF ValueRule(a, b) THEN "value" ELSE "none"
  BY <1>5, <1>6 DEF DetectConflict, DetectWith
<1> QED
  BY <1>7

\* Passages that share their words and part in polarity or figures never count as one
\* source, and unless one reports others the conflict is found (answer/conflict.py).
THEOREM ContradictionsCountTwice ==
    ASSUME NEW a, NEW b, IsFiniteSet(a.content)
    PROVE  NeverCorroborates(a, b)
<1> DEFINE polarity == Odd(a.negations) # Odd(b.negations)
           figures  == ~(Figures(a) \subseteq Figures(b)) /\ ~(Figures(b) \subseteq Figures(a))
           s == <<a, b>>
<1> SUFFICES ASSUME a.content = b.content, Cardinality(a.content) >= MinContent
             PROVE  /\ polarity \/ figures => CollapseNearDuplicates(s) = {1, 2}
                    /\ (polarity \/ (figures /\ a.units = b.units)) /\ ~a.reported /\ ~b.reported
                         => FindConflicts(s) = {<<1, 2>>}
  BY DEF NeverCorroborates
<1>1. s \in Seq({a, b}) /\ Len(s) = 2 /\ s[1] = a /\ s[2] = b
  OBVIOUS
<1>2. ASSUME polarity \/ figures PROVE CollapseNearDuplicates(s) = {1, 2}
  <2>1. a # b /\ ~(Figures(a) = Figures(b) /\ Odd(a.negations) = Odd(b.negations))
    BY <1>2
  <2>2. ~IsNearDuplicate(b, a)
    BY <2>1 DEF IsNearDuplicate
  <2> DEFINE kept == CollapseNearDuplicates(s)
  <2> HIDE DEF kept, s
  <2>3. Represented(s, 2, kept)
    BY <1>1, CollapseKeepsOneOfEach DEF kept
  <2>4. /\ kept \subseteq 1..2
        /\ \A i \in (1..2) \ kept : \E k \in kept : k < i /\ IsNearDuplicate(s[i], s[k])
    BY <2>3 DEF Represented
  <2>5. 1..2 = {1, 2}
    OBVIOUS
  <2>6. 1 \in kept
    BY <2>4, <2>5
  <2>7. 2 \in kept
    BY <1>1, <2>2, <2>4, <2>5
  <2> QED
    BY <2>4, <2>5, <2>6, <2>7 DEF kept
<1>3. ASSUME polarity \/ (figures /\ a.units = b.units), ~a.reported, ~b.reported
      PROVE  FindConflicts(s) = {<<1, 2>>}
  <2>1. Cardinality(Divergence(a, b)) <= MaxResidual
    <3>1. Divergence(a, b) = {}
      BY DEF Divergence
    <3> QED
      BY <3>1, FS_EmptySet DEF MaxResidual
  <2>2. NegationRule(a, b) \/ ValueRule(a, b)
    BY <1>3, <2>1 DEF NegationRule, ValueRule
  <2>3. DetectConflict(a, b) # "none"
    BY <1>3, <2>2, SharedWordsConflict
  <2>4. Window(s) = {1, 2}
    <3>1. Smaller(TopK, Len(s)) = 2
      BY <1>1, TablesAssumption DEF Smaller
    <3> QED
      BY <3>1 DEF Window
  <2>5. FindConflicts(s) = {p \in {1, 2} \X {1, 2} : p[1] < p[2] /\ DetectConflict(s[p[1]], s[p[2]]) # "none"}
    BY <2>4 DEF FindConflicts
  <2> HIDE DEF s
  <2>6. \A p \in {1, 2} \X {1, 2} : p[1] < p[2] <=> p = <<1, 2>>
    OBVIOUS
  <2> QED
    BY <1>1, <2>3, <2>5, <2>6
<1> QED
  BY <1>2, <1>3

-----------------------------------------------------------------------------
(* What the gate's alignment accepts *)

\* Cells of the alignment table, and the cheapest way to go on from a row.
Cells == [total : Nat, single : Nat, start : Nat]

Reach(row, j) ==
    {c \in UNION {{Extend(c, j - k - 1) : c \in row[k]} : k \in {x \in 1..(j - 1) : j - x - 1 <= MaxSingleGap}} :
        c.total <= MaxTotalGap}

FirstRow(t, passage) ==
    [j \in 1..Len(passage) |-> IF passage[j] # t THEN {} ELSE {[total |-> 0, single |-> 0, start |-> j]}]

NextRow(row, t, passage) ==
    [j \in 1..Len(passage) |-> IF passage[j] # t THEN {} ELSE Cheapest(Reach(row, j))]

Rows(passage) == [1..Len(passage) -> SUBSET Cells]

\* A cell with a gap is a cell.
LEMMA ExtendIs ==
    ASSUME NEW c \in Cells, NEW g \in Nat
    PROVE  Extend(c, g) \in Cells /\ Extend(c, g).total = c.total + g /\ Extend(c, g).start = c.start
BY DEF Extend, Cells

\* What is reached at a place: cells of the places before it, a gap further.
LEMMA ReachIs ==
    ASSUME NEW m \in Nat, NEW row \in [1..m -> SUBSET Cells], NEW j \in 1..m
    PROVE  /\ Reach(row, j) \subseteq Cells
           /\ \A d \in Reach(row, j) :
                \E k \in 1..(j - 1) : \E c \in row[k] :
                   /\ j - k - 1 <= MaxSingleGap /\ d.total <= MaxTotalGap
                   /\ d.total = c.total + j - k - 1 /\ d.start = c.start
<1>1. ASSUME NEW k \in 1..(j - 1), NEW c \in row[k]
      PROVE  /\ k \in 1..m /\ j - k - 1 \in Nat /\ c \in Cells /\ c.total \in Nat
             /\ Extend(c, j - k - 1) \in Cells /\ Extend(c, j - k - 1).start = c.start
             /\ Extend(c, j - k - 1).total = c.total + j - k - 1
  <2>1. k \in 1..m /\ j - k - 1 \in Nat /\ c \in Cells
    OBVIOUS
  <2>2. c.total \in Nat
    BY <2>1 DEF Cells
  <2> QED
    BY <2>1, <2>2, ExtendIs
<1>2. ASSUME NEW d \in Reach(row, j)
      PROVE  \E k \in 1..(j - 1) : \E c \in row[k] :
                j - k - 1 <= MaxSingleGap /\ d.total <= MaxTotalGap /\ d = Extend(c, j - k - 1)
  BY DEF Reach
<1> QED
  BY <1>1, <1>2

\* A cell within the gaps is reached from.
LEMMA ReachesOn ==
    ASSUME NEW m \in Nat, NEW row \in [1..m -> SUBSET Cells], NEW j \in 1..m,
           NEW k \in 1..(j - 1), NEW c \in row[k],
           j - k - 1 <= MaxSingleGap, c.total + j - k - 1 <= MaxTotalGap
    PROVE  \E d \in Reach(row, j) : d.total = c.total + j - k - 1
<1>1. k \in 1..m /\ j - k - 1 \in Nat /\ c \in Cells
  OBVIOUS
<1>2. c.total \in Nat
  BY <1>1 DEF Cells
<1>3. Extend(c, j - k - 1).total = c.total + j - k - 1
  BY <1>1, <1>2, ExtendIs
<1>4. Extend(c, j - k - 1) \in Reach(row, j)
  BY <1>1, <1>3 DEF Reach
<1> QED
  BY <1>3, <1>4

\* Of some cells there is a cheapest one, and it costs no more than any.
LEMMA CheapestIs ==
    ASSUME NEW S, S \subseteq Cells
    PROVE  /\ Cheapest(S) \subseteq S
           /\ \A d \in S : \E c \in Cheapest(S) : c.total <= d.total
<1>1. Cheapest(S) \subseteq S
  BY DEF Cheapest
<1>2. ASSUME NEW d \in S PROVE \E c \in Cheapest(S) : c.total <= d.total
  <2> DEFINE T == {c.total : c \in S}
  <2>1. T \subseteq Nat /\ T # {}
    BY DEF Cells
  <2>2. PICK t \in T : \A u \in T : t <= u
    <3> HIDE DEF T
    <3> QED BY <2>1, NatMin
  <2> DEFINE W == {c.single : c \in {x \in S : x.total = t}}
  <2>3. W \subseteq Nat /\ W # {}
    BY DEF Cells
  <2>4. PICK w \in W : \A u \in W : w <= u
    <3> HIDE DEF W
    <3> QED BY <2>3, NatMin
  <2>5. PICK c \in S : c.total = t /\ c.single = w
    OBVIOUS
  <2>6. ASSUME NEW e \in S PROVE c.total < e.total \/ (c.total = e.total /\ c.single <= e.single)
    <3>1. e.total \in T /\ t <= e.total /\ e.total \in Nat /\ t \in Nat
      BY <2>1, <2>2
    <3>2. e.total = t => e.single \in W /\ w <= e.single
      BY <2>4
    <3> QED BY <2>5, <3>1, <3>2
  <2>7. c \in Cheapest(S)
    BY <2>6 DEF Cheapest
  <2>8. c.total <= d.total
    BY <2>2, <2>5
  <2> QED BY <2>7, <2>8
<1> QED BY <1>1, <1>2

\* A row that follows a row.
LEMMA NextRowTyped ==
    ASSUME NEW X, NEW passage \in Seq(X), NEW row \in Rows(passage), NEW t
    PROVE  NextRow(row, t, passage) \in Rows(passage)
<1>1. ASSUME NEW j \in 1..Len(passage) PROVE Cheapest(Reach(row, j)) \subseteq Cells
  <2>1. Len(passage) \in Nat /\ row \in [1..Len(passage) -> SUBSET Cells]
    BY DEF Rows
  <2>2. Reach(row, j) \subseteq Cells
    BY <2>1, ReachIs
  <2> QED BY <2>2, CheapestIs
<1> QED BY <1>1 DEF NextRow, Rows

\* What the table computes, one word of the claim after the other.
LEMMA TableUnfolds ==
    ASSUME NEW X, NEW claim \in Seq(X), NEW passage \in Seq(X), claim # <<>>
    PROVE  \E rows : /\ Table(claim, passage) = rows[Len(claim)]
                     /\ rows \in [1..Len(claim) -> Rows(passage)]
                     /\ rows[1] = FirstRow(claim[1], passage)
                     /\ \A i \in 2..Len(claim) : rows[i] = NextRow(rows[i - 1], claim[i], passage)
<1> DEFINE n == Len(claim)
           V == Rows(passage)
           first == FirstRow(claim[1], passage)
           G == [i \in 1..(n - 1) |-> [x \in V |-> NextRow(x, claim[i + 1], passage)]]
           K(g) == [i \in 1..n |-> [j \in 1..Len(passage) |->
                      IF passage[j] # claim[i] THEN {}
                      ELSE IF i = 1 THEN {[total |-> 0, single |-> 0, start |-> j]}
                      ELSE Cheapest(Reach(g[i - 1], j))]]
           rows == CHOOSE g : g = K(g)
<1>0. n \in Nat /\ n >= 1 /\ n - 1 \in Nat
  OBVIOUS
<1>1. G \in [1..(n - 1) -> [V -> V]]
  BY NextRowTyped
<1>2. first \in V
  BY DEF FirstRow, Rows, Cells
<1>3. PICK f : Recurs(f, n - 1, V, first, G)
  <2> HIDE DEF V, G, first, n
  <2> QED BY <1>0, <1>1, <1>2, SeqRecursion
<1>4. f \in [0..(n - 1) -> V] /\ f[0] = first /\ \A i \in 1..(n - 1) : f[i] = G[i][f[i - 1]]
  <2> HIDE DEF V, G, first, n
  <2> QED BY <1>3 DEF Recurs
<1> DEFINE h == [i \in 1..n |-> f[i - 1]]
<1>5. h \in [1..n -> V] /\ h[1] = first
  <2> HIDE DEF V, G, first, n
  <2> QED BY <1>0, <1>4
<1>6. ASSUME NEW i \in 2..n PROVE h[i] = NextRow(h[i - 1], claim[i], passage)
  <2>1. i - 1 \in 1..(n - 1) /\ i - 1 \in 1..n /\ i \in 1..n /\ (i - 1) + 1 = i /\ (i - 1) - 1 \in 0..(n - 1)
    <3> HIDE DEF n
    <3> QED BY <1>0
  <2>2. h[i] = f[i - 1] /\ h[i - 1] = f[(i - 1) - 1]
    <3> HIDE DEF n
    <3> QED BY <2>1
  <2>3. f[i - 1] = G[i - 1][f[(i - 1) - 1]] /\ f[(i - 1) - 1] \in V
    <3> HIDE DEF V, G, first, n
    <3> QED BY <1>4, <2>1
  <2>4. \A x \in V : G[i - 1][x] = NextRow(x, claim[i], passage)
    <3> HIDE DEF V, n
    <3> QED BY <2>1
  <2> HIDE DEF V, G, h, n
  <2> QED BY <2>2, <2>3, <2>4
<1>7. h = K(h)
  <2>1. ASSUME NEW i \in 1..n PROVE h[i] = K(h)[i]
    <3>1. CASE i = 1
      <4>1. K(h)[1] = first
        <5> HIDE DEF h
        <5> QED BY <3>1 DEF FirstRow
      <4> HIDE DEF h, K, first
      <4> QED BY <3>1, <4>1, <1>5
    <3>2. CASE i # 1
      <4>1. i \in 2..n
        <5> HIDE DEF n, h, K
        <5> QED BY <3>2, <1>0
      <4>2. K(h)[i] = NextRow(h[i - 1], claim[i], passage)
        <5> HIDE DEF h
        <5> QED BY <3>2 DEF NextRow
      <4> HIDE DEF h, K
      <4> QED BY <4>1, <4>2, <1>6
    <3> QED BY <3>1, <3>2
  <2>2. h = [i \in 1..n |-> h[i]]
    OBVIOUS
  <2>3. K(h) = [i \in 1..n |-> K(h)[i]]
    <3> HIDE DEF h, n
    <3> QED OBVIOUS
  <2> HIDE DEF h, K, n
  <2> QED BY <2>1, <2>2, <2>3
<1>8. rows = K(rows)
  <2> HIDE DEF K, h
  <2> QED BY <1>7
<1>9. Table(claim, passage) = rows[n]
  BY DEF Table, Reach
<1> HIDE DEF rows
<1>10. rows[1] = first
  <2>1. rows[1] = K(rows)[1]
    <3> HIDE DEF K
    <3> QED BY <1>8
  <2>2. 1 \in 1..n
    BY <1>0
  <2> QED BY <2>1, <2>2 DEF FirstRow
<1>11. ASSUME NEW i \in 2..n PROVE rows[i] = NextRow(rows[i - 1], claim[i], passage)
  <2>1. rows[i] = K(rows)[i]
    <3> HIDE DEF K
    <3> QED BY <1>8
  <2>2. i \in 1..n /\ i # 1
    BY <1>0
  <2> QED BY <2>1, <2>2 DEF NextRow
<1>12. rows \in [1..n -> V]
  <2> DEFINE T == {i \in Nat : i + 1 <= n => rows[i + 1] \in V}
  <2>1. 0 \in T
    <3> HIDE DEF V, first
    <3> QED BY <1>2, <1>10
  <2>2. ASSUME NEW i \in Nat, i \in T PROVE i + 1 \in T
    <3> SUFFICES ASSUME i + 2 <= n PROVE rows[i + 2] \in V
      <4> HIDE DEF V, n
      <4> QED BY <1>0
    <3>1. i + 2 \in 2..n /\ (i + 2) - 1 = i + 1 /\ i + 1 <= n
      BY <1>0
    <3>2. rows[i + 1] \in V
      <4> HIDE DEF V, n
      <4> QED BY <2>2, <3>1
    <3>3. rows[i + 2] = NextRow(rows[i + 1], claim[i + 2], passage)
      <4> HIDE DEF V, n
      <4> QED BY <1>11, <3>1
    <3> QED BY <3>2, <3>3, NextRowTyped
  <2> HIDE DEF T
  <2>3. \A i \in Nat : i \in T
    BY <2>1, <2>2, Induct
  <2>4. \A i \in 1..n : rows[i] \in V
    <3> SUFFICES ASSUME NEW i \in 1..n PROVE rows[i] \in V
      OBVIOUS
    <3>1. i - 1 \in Nat /\ (i - 1) + 1 = i /\ i <= n
      BY <1>0
    <3> HIDE DEF V, n
    <3> QED BY <2>3, <3>1 DEF T
  <2>5. rows = [i \in 1..n |-> rows[i]]
    <3>1. K(rows) = [i \in 1..n |-> K(rows)[i]]
      <4> HIDE DEF n
      <4> QED OBVIOUS
    <3> HIDE DEF K, n
    <3> QED BY <3>1, <1>8
  <2> HIDE DEF V, n
  <2> QED BY <2>4, <2>5
<1> HIDE DEF V, first
<1> QED BY <1>9, <1>10, <1>11, <1>12 DEF V, first

\* The ways to find the first i words of a claim, the i-th at place j.
FirstParts(claim, passage, i, j) ==
    {e \in [1..i -> 1..Len(passage)] :
        /\ \A x \in 1..i : passage[e[x]] = claim[x]
        /\ \A x \in 1..(i - 1) : e[x] < e[x + 1] /\ e[x + 1] - e[x] - 1 <= MaxSingleGap
        /\ Distance(e, i) <= MaxTotalGap
        /\ e[i] = j}

\* A row's cells are ways to find the prefix, and none is cheaper than a cell.
RowExact(row, claim, passage, i) ==
    \A j \in 1..Len(passage) :
        /\ \A c \in row[j] : \E e \in FirstParts(claim, passage, i, j) :
              e[1] = c.start /\ Distance(e, i) = c.total
        /\ \A e \in FirstParts(claim, passage, i, j) : \E c \in row[j] : c.total <= Distance(e, i)

\* A way to find one word costs nothing.
LEMMA FirstRowExact ==
    ASSUME NEW X, NEW claim \in Seq(X), NEW passage \in Seq(X), claim # <<>>
    PROVE  RowExact(FirstRow(claim[1], passage), claim, passage, 1)
<1> DEFINE m == Len(passage)
           row == FirstRow(claim[1], passage)
<1>0. m \in Nat /\ MaxTotalGap \in Nat /\ MaxSingleGap \in Nat
  BY GapAssumption
<1>1. ASSUME NEW j \in 1..m, NEW c \in row[j]
      PROVE  \E e \in FirstParts(claim, passage, 1, j) : e[1] = c.start /\ Distance(e, 1) = c.total
  <2>1. passage[j] = claim[1] /\ c.total = 0 /\ c.start = j
    BY DEF FirstRow
  <2> DEFINE e == [x \in 1..1 |-> j]
  <2>2. e \in [1..1 -> 1..m] /\ e[1] = j
    OBVIOUS
  <2>3. Distance(e, 1) = 0
    BY <2>2 DEF Distance
  <2>4. \A x \in 1..1 : x = 1
    OBVIOUS
  <2>5. 1..(1 - 1) = {}
    OBVIOUS
  <2> HIDE DEF e
  <2>6. e \in FirstParts(claim, passage, 1, j)
    BY <2>1, <2>2, <2>3, <2>4, <2>5, <1>0 DEF FirstParts
  <2> QED BY <2>1, <2>2, <2>3, <2>6
<1>2. ASSUME NEW j \in 1..m, NEW e \in FirstParts(claim, passage, 1, j)
      PROVE  \E c \in row[j] : c.total <= Distance(e, 1)
  <2>1. 1 \in 1..1 /\ e \in [1..1 -> 1..m] /\ e[1] = j /\ passage[e[1]] = claim[1]
    BY DEF FirstParts
  <2>2. Distance(e, 1) = 0
    BY <2>1 DEF Distance
  <2>3. row[j] = {[total |-> 0, single |-> 0, start |-> j]}
    BY <2>1 DEF FirstRow
  <2> HIDE DEF row
  <2> QED BY <2>2, <2>3
<1> QED BY <1>1, <1>2 DEF RowExact

\* The next row of an exact row is exact.
LEMMA NextRowExact ==
    ASSUME NEW X, NEW claim \in Seq(X), NEW passage \in Seq(X), NEW i \in Nat, i >= 1, i + 1 <= Len(claim),
           NEW row \in Rows(passage), RowExact(row, claim, passage, i)
    PROVE  RowExact(NextRow(row, claim[i + 1], passage), claim, passage, i + 1)
<1> DEFINE m == Len(passage)
           next == NextRow(row, claim[i + 1], passage)
<1>0. m \in Nat /\ MaxTotalGap \in Nat /\ MaxSingleGap \in Nat
  BY GapAssumption
<1>1. row \in [1..m -> SUBSET Cells]
  BY DEF Rows
<1>2. ASSUME NEW j \in 1..m
      PROVE  next[j] = IF passage[j] # claim[i + 1] THEN {} ELSE Cheapest(Reach(row, j))
  BY DEF NextRow
<1> HIDE DEF next, m
<1>3. ASSUME NEW j \in 1..m, NEW d \in next[j]
      PROVE  \E e \in FirstParts(claim, passage, i + 1, j) : e[1] = d.start /\ Distance(e, i + 1) = d.total
  <2>1. passage[j] = claim[i + 1] /\ d \in Cheapest(Reach(row, j))
    BY <1>2
  <2>2. Reach(row, j) \subseteq Cells
    BY <1>0, <1>1, ReachIs
  <2>3. d \in Reach(row, j)
    BY <2>1, <2>2, CheapestIs
  <2>4. PICK k \in 1..(j - 1) : \E c \in row[k] :
                   /\ j - k - 1 <= MaxSingleGap /\ d.total <= MaxTotalGap
                   /\ d.total = c.total + j - k - 1 /\ d.start = c.start
    BY <2>3, <1>0, <1>1, ReachIs
  <2>5. PICK c \in row[k] :
                   /\ j - k - 1 <= MaxSingleGap /\ d.total <= MaxTotalGap
                   /\ d.total = c.total + j - k - 1 /\ d.start = c.start
    BY <2>4
  <2>6. k \in 1..m /\ k < j /\ k \in Int /\ j \in Int
    BY <1>0
  <2>7. PICK e \in FirstParts(claim, passage, i, k) : e[1] = c.start /\ Distance(e, i) = c.total
    BY <2>6 DEF RowExact, m
  <2>8. /\ e \in [1..i -> 1..m] /\ e[i] = k
        /\ \A x \in 1..i : passage[e[x]] = claim[x]
        /\ \A x \in 1..(i - 1) : e[x] < e[x + 1] /\ e[x + 1] - e[x] - 1 <= MaxSingleGap
    BY <2>7 DEF FirstParts, m
  <2> DEFINE f == [x \in 1..(i + 1) |-> IF x <= i THEN e[x] ELSE j]
  <2>9. /\ f \in [1..(i + 1) -> 1..m] /\ f[i + 1] = j /\ f[1] = e[1]
        /\ \A x \in 1..i : f[x] = e[x]
    BY <2>8
  <2> HIDE DEF f
  <2>10. \A x \in 1..(i + 1) : passage[f[x]] = claim[x]
    <3> SUFFICES ASSUME NEW x \in 1..(i + 1) PROVE passage[f[x]] = claim[x]
      OBVIOUS
    <3>1. CASE x \in 1..i BY <3>1, <2>8, <2>9
    <3>2. CASE x = i + 1 BY <3>2, <2>1, <2>9
    <3> QED BY <3>1, <3>2
  <2>11. \A x \in 1..((i + 1) - 1) : f[x] < f[x + 1] /\ f[x + 1] - f[x] - 1 <= MaxSingleGap
    <3>0. (i + 1) - 1 = i
      OBVIOUS
    <3> SUFFICES ASSUME NEW x \in 1..i PROVE f[x] < f[x + 1] /\ f[x + 1] - f[x] - 1 <= MaxSingleGap
      BY <3>0
    <3>1. CASE x \in 1..(i - 1)
      <4>1. x + 1 \in 1..i
        BY <3>1
      <4> QED BY <3>1, <4>1, <2>8, <2>9
    <3>2. CASE x = i
      <4>1. f[x] = k /\ f[x + 1] = j
        BY <3>2, <2>8, <2>9
      <4> QED BY <4>1, <2>5, <2>6
    <3> QED BY <3>1, <3>2
  <2>12. Distance(f, i + 1) = d.total
    <3>1. c.total = k - e[1] + 1 - i
      BY <2>7, <2>8 DEF Distance
    <3>2. e[1] \in Int
      <4>1. 1 \in 1..i /\ e \in [1..i -> 1..m] BY <1>0, <2>8
      <4>2. e[1] \in 1..m BY <4>1
      <4> QED BY <4>2
    <3>3. Distance(f, i + 1) = j - e[1] + 1 - (i + 1)
      BY <2>9 DEF Distance
    <3>4. c.total \in Int /\ d.total = c.total + j - k - 1
      BY <3>1, <3>2, <2>5, <2>6
    <3> DEFINE u == e[1]
               t == c.total
    <3>5. u \in Int /\ t \in Int /\ t = k - u + 1 - i
      BY <3>1, <3>2, <3>4
    <3> HIDE DEF u, t
    <3>6. j - u + 1 - (i + 1) = t + j - k - 1
      BY <3>5, <2>6
    <3> QED BY <3>3, <3>4, <3>6 DEF u, t
  <2>13. f \in FirstParts(claim, passage, i + 1, j)
    BY <2>5, <2>9, <2>10, <2>11, <2>12 DEF FirstParts, m
  <2> QED BY <2>5, <2>7, <2>9, <2>12, <2>13
<1>4. ASSUME NEW j \in 1..m, NEW f \in FirstParts(claim, passage, i + 1, j)
      PROVE  \E d \in next[j] : d.total <= Distance(f, i + 1)
  <2>1. /\ f \in [1..(i + 1) -> 1..m] /\ f[i + 1] = j
        /\ \A x \in 1..(i + 1) : passage[f[x]] = claim[x]
        /\ \A x \in 1..((i + 1) - 1) : f[x] < f[x + 1] /\ f[x + 1] - f[x] - 1 <= MaxSingleGap
        /\ Distance(f, i + 1) <= MaxTotalGap
    BY DEF FirstParts, m
  <2> DEFINE k == f[i]
             e == [x \in 1..i |-> f[x]]
  <2>2. /\ i \in 1..(i + 1) /\ 1 \in 1..(i + 1) /\ i + 1 \in 1..(i + 1) /\ i \in 1..((i + 1) - 1)
        /\ 1 \in 1..i /\ i \in 1..i /\ \A x \in 1..i : x \in 1..(i + 1)
    OBVIOUS
  <2>3. k \in 1..m /\ k < j /\ j - k - 1 <= MaxSingleGap /\ f[1] \in 1..m
    BY <2>1, <2>2
  <2>4. /\ e \in [1..i -> 1..m] /\ e[i] = k /\ e[1] = f[1]
        /\ \A x \in 1..i : e[x] = f[x]
    BY <2>1, <2>2
  <2> HIDE DEF e, k
  <2>5. k \in Int /\ j \in Int /\ f[1] \in Int /\ k \in 1..(j - 1)
    BY <2>3, <1>0
  <2>6. Distance(e, i) = k - f[1] + 1 - i /\ Distance(f, i + 1) = j - f[1] + 1 - (i + 1)
    BY <2>1, <2>4 DEF Distance
  <2>7. Distance(f, i + 1) = Distance(e, i) + j - k - 1 /\ Distance(e, i) \in Int
    BY <2>5, <2>6
  <2>8. e \in FirstParts(claim, passage, i, k)
    <3>1. \A x \in 1..i : passage[e[x]] = claim[x]
      BY <2>1, <2>2, <2>4
    <3>2. \A x \in 1..(i - 1) : e[x] < e[x + 1] /\ e[x + 1] - e[x] - 1 <= MaxSingleGap
      <4> SUFFICES ASSUME NEW x \in 1..(i - 1) PROVE e[x] < e[x + 1] /\ e[x + 1] - e[x] - 1 <= MaxSingleGap
        OBVIOUS
      <4>1. x \in 1..i /\ x + 1 \in 1..i /\ x \in 1..((i + 1) - 1)
        OBVIOUS
      <4> QED BY <4>1, <2>1, <2>4
    <3>3. Distance(e, i) <= MaxTotalGap
      BY <2>1, <2>5, <2>7, <1>0
    <3> QED BY <3>1, <3>2, <3>3, <2>4 DEF FirstParts, m
  <2>9. PICK c \in row[k] : c.total <= Distance(e, i)
    BY <2>3, <2>8 DEF RowExact, m
  <2>10. c.total \in Nat
    BY <2>3, <1>1 DEF Cells
  <2>11. c.total + j - k - 1 <= Distance(f, i + 1) /\ Distance(f, i + 1) \in Int
    BY <2>5, <2>7, <2>9, <2>10
  <2>12. c.total + j - k - 1 <= MaxTotalGap
    <3>1. Distance(f, i + 1) <= MaxTotalGap
      BY <2>1
    <3> QED BY <3>1, <2>5, <2>10, <2>11, <1>0
  <2>13. PICK d \in Reach(row, j) : d.total = c.total + j - k - 1
    BY <2>3, <2>5, <2>9, <2>12, <1>0, <1>1, ReachesOn
  <2>14. Reach(row, j) \subseteq Cells
    BY <1>0, <1>1, ReachIs
  <2>15. PICK b \in Cheapest(Reach(row, j)) : b.total <= d.total
    BY <2>14, CheapestIs
  <2>16. passage[j] = claim[i + 1]
    BY <2>1, <2>2
  <2>17. b \in next[j]
    BY <1>2, <2>15, <2>16
  <2>18. b.total \in Nat /\ d.total \in Nat
    <3>1. Cheapest(Reach(row, j)) \subseteq Cells
      BY <2>14, CheapestIs
    <3> QED BY <3>1, <2>14 DEF Cells
  <2>19. b.total <= Distance(f, i + 1)
    BY <2>11, <2>13, <2>15, <2>18
  <2> QED BY <2>17, <2>19
<1> QED BY <1>3, <1>4 DEF RowExact, next, m

\* The last row of the table is exact.
LEMMA TableExact ==
    ASSUME NEW X, NEW claim \in Seq(X), NEW passage \in Seq(X), claim # <<>>
    PROVE  /\ Table(claim, passage) \in Rows(passage)
           /\ RowExact(Table(claim, passage), claim, passage, Len(claim))
<1> DEFINE n == Len(claim)
<1>0. n \in Nat /\ n >= 1
  OBVIOUS
<1>1. PICK rows : /\ Table(claim, passage) = rows[n]
                  /\ rows \in [1..n -> Rows(passage)]
                  /\ rows[1] = FirstRow(claim[1], passage)
                  /\ \A i \in 2..n : rows[i] = NextRow(rows[i - 1], claim[i], passage)
  BY TableUnfolds
<1> DEFINE T == {i \in Nat : i + 1 <= n => RowExact(rows[i + 1], claim, passage, i + 1)}
<1>2. 0 \in T
  BY <1>1, FirstRowExact
<1>3. ASSUME NEW i \in Nat, i \in T PROVE i + 1 \in T
  <2> SUFFICES ASSUME i + 2 <= n PROVE RowExact(rows[i + 2], claim, passage, i + 2)
    <3>1. (i + 1) + 1 = i + 2 OBVIOUS
    <3> QED BY <3>1
  <2>1. /\ i + 1 <= n /\ i + 1 \in Nat /\ i + 1 >= 1 /\ (i + 1) + 1 = i + 2 /\ i + 2 \in 2..n
        /\ (i + 2) - 1 = i + 1 /\ i + 1 \in 1..n
    BY <1>0
  <2>2. RowExact(rows[i + 1], claim, passage, i + 1) /\ rows[i + 1] \in Rows(passage)
    BY <1>1, <1>3, <2>1
  <2>3. rows[i + 2] = NextRow(rows[i + 1], claim[i + 2], passage)
    BY <1>1, <2>1
  <2>4. RowExact(NextRow(rows[i + 1], claim[(i + 1) + 1], passage), claim, passage, (i + 1) + 1)
    BY <2>1, <2>2, NextRowExact
  <2> QED BY <2>1, <2>3, <2>4
<1> HIDE DEF T
<1>4. \A i \in Nat : i \in T
  BY <1>2, <1>3, Induct
<1>5. n - 1 \in Nat /\ (n - 1) + 1 = n /\ n \in 1..n
  BY <1>0
<1>6. RowExact(rows[n], claim, passage, n)
  <2>1. (n - 1) \in T BY <1>4, <1>5
  <2> HIDE DEF n
  <2> QED BY <1>5, <2>1 DEF T
<1> QED BY <1>1, <1>5, <1>6

\* The ways to find a claim are those to find its last prefix.
LEMMA EmbeddingsAre ==
    ASSUME NEW X, NEW claim \in Seq(X), NEW passage \in Seq(X), claim # <<>>
    PROVE  /\ \A e \in Embeddings(claim, passage) :
                e[Len(claim)] \in 1..Len(passage) /\ e \in FirstParts(claim, passage, Len(claim), e[Len(claim)])
           /\ \A j : FirstParts(claim, passage, Len(claim), j) \subseteq Embeddings(claim, passage)
<1>1. DOMAIN claim = 1..Len(claim) /\ DOMAIN passage = 1..Len(passage) /\ Len(claim) \in 1..Len(claim)
  OBVIOUS
<1> QED
  BY <1>1 DEF Embeddings, FirstParts

\* A match that align returns: a cell of the last row, its place, and none better.
Best(claim, passage, a) ==
    /\ a.end \in 1..Len(passage)
    /\ \E c \in Table(claim, passage)[a.end] : a.start = c.start /\ a.total = c.total
    /\ \A j \in 1..Len(passage) : \A c \in Table(claim, passage)[j] :
          a.total < c.total \/ (a.total = c.total /\ a.end <= j)

\* What align returns is such matches, and each of them.
LEMMA AlignIs ==
    ASSUME NEW X, NEW claim \in Seq(X), NEW passage \in Seq(X), claim # <<>>, passage # <<>>
    PROVE  /\ \A a \in Align(claim, passage) : Best(claim, passage, a)
           /\ \A j \in 1..Len(passage) : \A c \in Table(claim, passage)[j] :
                Best(claim, passage, [start |-> c.start, end |-> j, total |-> c.total]) =>
                  \E a \in Align(claim, passage) : a.start = c.start /\ a.end = j /\ a.total = c.total
<1> DEFINE last == Table(claim, passage)
           End(c, j) == [start |-> c.start, end |-> j, total |-> c.total, single |-> c.single]
           ends == UNION {{End(c, j) : c \in last[j]} : j \in 1..Len(passage)}
<1>0. DOMAIN passage = 1..Len(passage)
  OBVIOUS
<1>1. Align(claim, passage) =
        {e \in ends : \A f \in ends : e.total < f.total \/ (e.total = f.total /\ e.end <= f.end)}
  BY <1>0 DEF Align
<1>2. ASSUME NEW e \in ends
      PROVE  \E j \in 1..Len(passage) : \E c \in last[j] : e.start = c.start /\ e.end = j /\ e.total = c.total
  <2> HIDE DEF last
  <2> QED OBVIOUS
<1>3. ASSUME NEW j \in 1..Len(passage), NEW c \in last[j]
      PROVE  /\ End(c, j) \in ends /\ End(c, j).start = c.start
             /\ End(c, j).end = j /\ End(c, j).total = c.total
  <2> HIDE DEF last
  <2> QED OBVIOUS
<1> HIDE DEF ends, End
<1>4. ASSUME NEW a \in Align(claim, passage) PROVE Best(claim, passage, a)
  <2>1. a \in ends /\ \A f \in ends : a.total < f.total \/ (a.total = f.total /\ a.end <= f.end)
    BY <1>1
  <2>2. PICK j \in 1..Len(passage) : \E c \in last[j] : a.start = c.start /\ a.end = j /\ a.total = c.total
    BY <2>1, <1>2
  <2>3. ASSUME NEW k \in 1..Len(passage), NEW c \in last[k]
        PROVE  a.total < c.total \/ (a.total = c.total /\ a.end <= k)
    BY <2>1, <1>3
  <2> QED BY <2>2, <2>3 DEF Best
<1>5. ASSUME NEW j \in 1..Len(passage), NEW c \in last[j],
             Best(claim, passage, [start |-> c.start, end |-> j, total |-> c.total])
      PROVE  \E a \in Align(claim, passage) : a.start = c.start /\ a.end = j /\ a.total = c.total
  <2>1. \A k \in 1..Len(passage) : \A d \in last[k] : c.total < d.total \/ (c.total = d.total /\ j <= k)
    BY <1>5 DEF Best
  <2> DEFINE a == End(c, j)
  <2>2. a \in ends /\ a.start = c.start /\ a.end = j /\ a.total = c.total
    BY <1>3
  <2> HIDE DEF a
  <2>3. ASSUME NEW f \in ends PROVE a.total < f.total \/ (a.total = f.total /\ a.end <= f.end)
    <3>1. PICK k \in 1..Len(passage) : \E d \in last[k] : f.end = k /\ f.total = d.total
      BY <1>2
    <3> QED BY <3>1, <2>1, <2>2
  <2>4. a \in Align(claim, passage)
    BY <1>1, <2>2, <2>3
  <2> QED BY <2>2, <2>4
<1> QED
  BY <1>4, <1>5

\* align finds a claim in a passage exactly if its words stand there in order within
\* the gaps, and finds the tightest such place, the leftmost of those, whatever the
\* claim, the passage and the limits (answer/verify.py; ADR-0009, "the optimal
\* alignment").
THEOREM AlignmentIsExact ==
    ASSUME NEW X, NEW claim \in Seq(X), NEW passage \in Seq(X)
    PROVE  AlignsAsDefined(claim, passage)
<1> SUFFICES ASSUME claim # <<>>, passage # <<>> PROVE AlignsAsDefined(claim, passage)
  BY DEF AlignsAsDefined
<1> DEFINE n == Len(claim)
           m == Len(passage)
           all == Embeddings(claim, passage)
           least == {e \in all : \A f \in all :
                       \/ Distance(e, n) < Distance(f, n)
                       \/ Distance(e, n) = Distance(f, n) /\ e[n] <= f[n]}
           last == Table(claim, passage)
           S == {<<a.start, a.end, a.total>> : a \in Align(claim, passage)}
           T == {<<e[1], e[n], Distance(e, n)>> : e \in least}
<1>0. n \in Nat /\ m \in Nat /\ n >= 1
  OBVIOUS
<1>1. \A j \in 1..m :
        /\ \A c \in last[j] : \E e \in FirstParts(claim, passage, n, j) : e[1] = c.start /\ Distance(e, n) = c.total
        /\ \A e \in FirstParts(claim, passage, n, j) : \E c \in last[j] : c.total <= Distance(e, n)
  BY TableExact DEF RowExact
<1>2. \A j \in 1..m : \A c \in last[j] : c.total \in Nat /\ c.start \in Nat
  <2>1. last \in [1..m -> SUBSET Cells]
    BY TableExact DEF Rows
  <2> HIDE DEF last
  <2> QED BY <2>1 DEF Cells
<1>3. \A e \in all : e[n] \in 1..m /\ e \in FirstParts(claim, passage, n, e[n])
  BY EmbeddingsAre
<1>4. \A j \in 1..m : \A e \in FirstParts(claim, passage, n, j) : e \in all /\ e[n] = j
  BY EmbeddingsAre DEF FirstParts
<1>5. \A e \in all : e[1] \in Int /\ Distance(e, n) = e[n] - e[1] + 1 - n /\ Distance(e, n) \in Int
  <2> SUFFICES ASSUME NEW e \in all PROVE e[1] \in Int /\ Distance(e, n) = e[n] - e[1] + 1 - n /\ Distance(e, n) \in Int
    OBVIOUS
  <2>1. e \in [1..n -> 1..m]
    BY <1>3 DEF FirstParts
  <2> HIDE DEF n, m, all
  <2>2. e[1] \in Int /\ e[n] \in Int
    BY <2>1, <1>0
  <2> QED BY <2>2, <1>0 DEF Distance
<1>6. \A a \in Align(claim, passage) : Best(claim, passage, a)
  BY AlignIs
<1>7. \A j \in 1..m : \A c \in last[j] :
        Best(claim, passage, [start |-> c.start, end |-> j, total |-> c.total]) =>
          \E a \in Align(claim, passage) : a.start = c.start /\ a.end = j /\ a.total = c.total
  BY AlignIs
<1>8. \A a : Best(claim, passage, a) =>
        /\ a.end \in 1..m
        /\ \E c \in last[a.end] : a.start = c.start /\ a.total = c.total
        /\ \A j \in 1..m : \A c \in last[j] : a.total < c.total \/ (a.total = c.total /\ a.end <= j)
  BY DEF Best
<1>9. ASSUME NEW j \in 1..m, NEW c \in last[j],
             \A k \in 1..m : \A d \in last[k] : c.total < d.total \/ (c.total = d.total /\ j <= k)
      PROVE  Best(claim, passage, [start |-> c.start, end |-> j, total |-> c.total])
  BY <1>9 DEF Best
<1> HIDE DEF all, last, n, m
<1>10. ASSUME NEW a \in Align(claim, passage) PROVE <<a.start, a.end, a.total>> \in T
  <2>1. /\ a.end \in 1..m
        /\ \A j \in 1..m : \A c \in last[j] : a.total < c.total \/ (a.total = c.total /\ a.end <= j)
    BY <1>6, <1>8
  <2>2. PICK c \in last[a.end] : a.start = c.start /\ a.total = c.total
    BY <1>6, <1>8
  <2>3. PICK e \in FirstParts(claim, passage, n, a.end) : e[1] = c.start /\ Distance(e, n) = c.total
    BY <1>1, <2>1
  <2>4. e \in all /\ e[n] = a.end
    BY <1>4, <2>1, <2>3
  <2>5. ASSUME NEW f \in all
        PROVE  Distance(e, n) < Distance(f, n) \/ (Distance(e, n) = Distance(f, n) /\ e[n] <= f[n])
    <3>1. f[n] \in 1..m /\ f \in FirstParts(claim, passage, n, f[n])
      BY <1>3
    <3>2. PICK d \in last[f[n]] : d.total <= Distance(f, n)
      BY <1>1, <3>1
    <3>3. a.total < d.total \/ (a.total = d.total /\ a.end <= f[n])
      BY <2>1, <3>1
    <3>4. d.total \in Nat /\ a.total \in Nat /\ Distance(f, n) \in Int
      BY <1>2, <1>5, <2>1, <2>2, <3>1
    <3> QED BY <2>2, <2>3, <2>4, <3>2, <3>3, <3>4
  <2>6. e \in least
    BY <2>4, <2>5
  <2>7. <<e[1], e[n], Distance(e, n)>> = <<a.start, a.end, a.total>>
    BY <2>2, <2>3, <2>4
  <2> HIDE DEF least
  <2> QED BY <2>6, <2>7
<1>11. ASSUME NEW e \in least PROVE <<e[1], e[n], Distance(e, n)>> \in S
  <2>1. e \in all /\ \A f \in all :
          Distance(e, n) < Distance(f, n) \/ (Distance(e, n) = Distance(f, n) /\ e[n] <= f[n])
    OBVIOUS
  <2> HIDE DEF least
  <2> DEFINE j == e[n]
  <2>2. j \in 1..m /\ e \in FirstParts(claim, passage, n, j)
    BY <1>3, <2>1
  <2>3. PICK c \in last[j] : c.total <= Distance(e, n)
    BY <1>1, <2>2
  <2>4. PICK g \in FirstParts(claim, passage, n, j) : g[1] = c.start /\ Distance(g, n) = c.total
    BY <1>1, <2>2
  <2>5. g \in all /\ g[n] = j
    BY <1>4, <2>2
  <2>6. Distance(e, n) = c.total /\ c.total \in Nat
    BY <1>2, <1>5, <2>1, <2>2, <2>3, <2>4, <2>5
  <2>7. e[1] = c.start
    <3>1. Distance(e, n) = j - e[1] + 1 - n /\ Distance(g, n) = j - g[1] + 1 - n /\ e[1] \in Int /\ g[1] \in Int
      BY <1>5, <2>1, <2>5
    <3>2. j \in Int
      BY <2>2, <1>0
    <3> HIDE DEF j
    <3>3. j - e[1] + 1 - n = j - g[1] + 1 - n
      BY <3>1, <2>4, <2>6
    <3>4. e[1] = g[1]
      BY <3>1, <3>2, <3>3, <1>0
    <3> QED BY <3>4, <2>4
  <2>8. ASSUME NEW k \in 1..m, NEW d \in last[k] PROVE c.total < d.total \/ (c.total = d.total /\ j <= k)
    <3>1. PICK f \in FirstParts(claim, passage, n, k) : Distance(f, n) = d.total
      BY <1>1
    <3>2. f \in all /\ f[n] = k
      BY <1>4
    <3> QED BY <2>1, <2>6, <3>1, <3>2
  <2>9. Best(claim, passage, [start |-> c.start, end |-> j, total |-> c.total])
    <3> HIDE DEF j
    <3> QED BY <1>9, <2>2, <2>8
  <2>10. PICK a \in Align(claim, passage) : a.start = c.start /\ a.end = j /\ a.total = c.total
    <3> HIDE DEF j
    <3> QED BY <1>7, <2>2, <2>9
  <2>11. <<e[1], e[n], Distance(e, n)>> = <<a.start, a.end, a.total>>
    BY <2>6, <2>7, <2>10
  <2> QED BY <2>10, <2>11
<1>12. S = T
  <2>1. S \subseteq T
    <3> HIDE DEF T
    <3> QED BY <1>10
  <2>2. T \subseteq S
    <3> HIDE DEF S, least
    <3> QED BY <1>11
  <2> QED BY <2>1, <2>2
<1> QED BY <1>12 DEF AlignsAsDefined, all, n

\* What align finds is a way to find the claim.
LEMMA AlignedSomewhere ==
    ASSUME NEW X, NEW claim \in Seq(X), NEW passage \in Seq(X), NEW a \in Align(claim, passage)
    PROVE  /\ claim # <<>>
           /\ \E e \in Embeddings(claim, passage) : a.start = e[1] /\ a.end = e[Len(claim)]
<1>1. claim # <<>> /\ passage # <<>>
  BY DEF Align
<1> DEFINE n == Len(claim)
           all == Embeddings(claim, passage)
           least == {e \in all : \A f \in all :
                       \/ Distance(e, n) < Distance(f, n)
                       \/ Distance(e, n) = Distance(f, n) /\ e[n] <= f[n]}
<1>2. {<<b.start, b.end, b.total>> : b \in Align(claim, passage)} = {<<e[1], e[n], Distance(e, n)>> : e \in least}
  BY <1>1, AlignmentIsExact DEF AlignsAsDefined
<1>3. PICK e \in least : <<a.start, a.end, a.total>> = <<e[1], e[n], Distance(e, n)>>
  <2> HIDE DEF least
  <2> QED BY <1>2
<1>4. a.start = e[1] /\ a.end = e[n]
  BY <1>3
<1> QED BY <1>1, <1>3, <1>4

\* The places of the words lie at least as far apart as the words.
LEMMA EmbeddingsSpread ==
    ASSUME NEW X, NEW claim \in Seq(X), NEW passage \in Seq(X), NEW e \in Embeddings(claim, passage)
    PROVE  /\ e \in [1..Len(claim) -> 1..Len(passage)]
           /\ \A i \in 1..Len(claim) : passage[e[i]] = claim[i]
           /\ \A i, j \in 1..Len(claim) : i <= j => e[j] - e[i] >= j - i
<1> DEFINE n == Len(claim)
           m == Len(passage)
<1>0. n \in Nat /\ m \in Nat /\ DOMAIN claim = 1..n /\ DOMAIN passage = 1..m
  OBVIOUS
<1>1. /\ e \in [1..n -> 1..m]
      /\ \A i \in 1..n : passage[e[i]] = claim[i]
      /\ \A i \in 1..(n - 1) : e[i] < e[i + 1]
  BY <1>0 DEF Embeddings
<1> HIDE DEF n, m
<1>2. ASSUME NEW i \in 1..n PROVE \A j \in 1..n : i <= j => e[j] - e[i] >= j - i
  <2> DEFINE T == {k \in Nat : i + k <= n => e[i + k] - e[i] >= k}
  <2>1. 0 \in T
    <3>1. e[i] \in Int /\ i + 0 = i
      BY <1>0, <1>1
    <3> QED BY <3>1
  <2>2. ASSUME NEW k \in Nat, k \in T PROVE k + 1 \in T
    <3> SUFFICES ASSUME i + (k + 1) <= n PROVE e[i + (k + 1)] - e[i] >= k + 1
      OBVIOUS
    <3>1. i + k \in 1..(n - 1) /\ i + k \in 1..n /\ (i + k) + 1 = i + (k + 1) /\ i + (k + 1) \in 1..n
      BY <1>0
    <3>2. e[i + k] < e[i + (k + 1)]
      BY <1>1, <3>1
    <3>3. e[i] \in Int /\ e[i + k] \in Int /\ e[i + (k + 1)] \in Int
      BY <1>0, <1>1, <3>1
    <3>4. e[i + k] - e[i] >= k
      BY <2>2, <3>1, <1>0
    <3> QED BY <3>2, <3>3, <3>4
  <2> HIDE DEF T
  <2>3. \A k \in Nat : k \in T
    BY <2>1, <2>2, Induct
  <2>4. ASSUME NEW j \in 1..n, i <= j PROVE e[j] - e[i] >= j - i
    <3>1. j - i \in Nat /\ i + (j - i) = j /\ j <= n
      BY <2>4, <1>0
    <3>2. i + (j - i) <= n => e[i + (j - i)] - e[i] >= j - i
      BY <2>3, <3>1 DEF T
    <3> QED BY <3>1, <3>2
  <2> QED BY <2>4
<1> QED BY <1>1, <1>2 DEF n, m

\* A sequence without the i-th element.
LEMMA WithoutOne ==
    ASSUME NEW X, NEW s \in Seq(X), NEW i \in 2..(Len(s) - 1), NEW r,
           r = SubSeq(s, 1, i - 1) \o SubSeq(s, i + 1, Len(s))
    PROVE  /\ r \in Seq(X) /\ Len(r) = Len(s) - 1
           /\ \A x \in 1..(Len(s) - 1) : r[x] = IF x < i THEN s[x] ELSE s[x + 1]
<1> DEFINE m == Len(s)
           p == SubSeq(s, 1, i - 1)
           q == SubSeq(s, i + 1, m)
<1>0. m \in Nat /\ i \in Int /\ 2 <= i /\ i <= m - 1
  OBVIOUS
<1>1. p \in Seq(X) /\ Len(p) = i - 1 /\ \A x \in 1..(i - 1) : p[x] = s[x]
  OBVIOUS
<1>2. q \in Seq(X) /\ Len(q) = m - i /\ \A x \in 1..(m - i) : q[x] = s[i + x]
  OBVIOUS
<1> HIDE DEF p, q
<1>3. r \in Seq(X) /\ Len(r) = m - 1
  BY <1>0, <1>1, <1>2 DEF p, q
<1>4. ASSUME NEW x \in 1..(m - 1) PROVE r[x] = IF x < i THEN s[x] ELSE s[x + 1]
  <2>1. r[x] = IF x <= Len(p) THEN p[x] ELSE q[x - Len(p)]
    <3>1. r = p \o q /\ x \in 1..(Len(p) + Len(q))
      BY <1>0, <1>1, <1>2 DEF p, q
    <3>2. (p \o q)[x] = IF x <= Len(p) THEN p[x] ELSE q[x - Len(p)]
      <4>1. p \in Seq(X) /\ q \in Seq(X) /\ x \in 1..(Len(p) + Len(q))
        BY <3>1, <1>1, <1>2
      <4> QED BY <4>1
    <3> QED BY <3>1, <3>2
  <2>2. CASE x < i
    BY <1>0, <1>1, <2>1, <2>2
  <2>3. CASE ~(x < i)
    <3>1. ~(x <= Len(p)) /\ x - Len(p) \in 1..(m - i) /\ i + (x - Len(p)) = x + 1
      BY <1>0, <1>1, <2>3
    <3> QED BY <1>2, <2>1, <2>3, <3>1
  <2> QED BY <2>2, <2>3
<1> QED BY <1>3, <1>4

\* It has the element once less.
LEMMA OneLess ==
    ASSUME NEW X, NEW s \in Seq(X), NEW i \in 2..(Len(s) - 1), NEW r,
           r = SubSeq(s, 1, i - 1) \o SubSeq(s, i + 1, Len(s))
    PROVE  Count(r, s[i]) < Count(s, s[i])
<1> DEFINE m == Len(s)
           t == s[i]
           A == {x \in 1..(m - 1) : r[x] = t}
           B == {x \in 1..m : s[x] = t}
           C == B \ {i}
           f == [x \in A |-> IF x < i THEN x ELSE x + 1]
<1>0. m \in Nat /\ i \in 1..m /\ i \in Int
  OBVIOUS
<1>1. /\ r \in Seq(X) /\ Len(r) = m - 1
      /\ \A x \in 1..(m - 1) : r[x] = IF x < i THEN s[x] ELSE s[x + 1]
  BY WithoutOne, Zenon
<1>2. Count(r, t) = Cardinality(A) /\ Count(s, t) = Cardinality(B)
  <2>1. DOMAIN r = 1..(m - 1) /\ DOMAIN s = 1..m
    BY <1>1
  <2> QED BY <2>1 DEF Count
<1>3. IsFiniteSet(B) /\ IsFiniteSet(C) /\ Cardinality(C) = Cardinality(B) - 1 /\ Cardinality(B) \in Nat
  <2>1. IsFiniteSet(1..m)
    BY <1>0, FS_Interval
  <2>2. B \subseteq 1..m /\ i \in B
    BY <1>0
  <2> HIDE DEF B
  <2>3. IsFiniteSet(B)
    BY <2>1, <2>2, FS_Subset
  <2>4. IsFiniteSet(C) /\ Cardinality(C) = Cardinality(B) - 1
    BY <2>2, <2>3, FS_RemoveElement
  <2> QED BY <2>3, <2>4, FS_CardinalityType
<1>4. f \in Injection(A, C)
  <2>1. ASSUME NEW x \in A PROVE (IF x < i THEN x ELSE x + 1) \in C
    <3>1. x \in 1..(m - 1) /\ t = IF x < i THEN s[x] ELSE s[x + 1]
      BY <1>1
    <3> HIDE DEF t, A, m
    <3> QED BY <3>1, <1>0
  <2>2. ASSUME NEW x \in A, NEW y \in A, f[x] = f[y] PROVE x = y
    <3>1. x \in Int /\ y \in Int
      BY <1>0
    <3>2. (IF x < i THEN x ELSE x + 1) = (IF y < i THEN y ELSE y + 1)
      BY <2>2
    <3> HIDE DEF A, f
    <3> QED BY <3>1, <3>2, <1>0
  <2> HIDE DEF A, C
  <2>3. f \in [A -> C]
    BY <2>1
  <2> HIDE DEF f
  <2> QED BY <2>2, <2>3 DEF Injection, IsInjective
<1>5. Cardinality(A) <= Cardinality(C) /\ Cardinality(A) \in Nat
  <2> HIDE DEF A, C, f
  <2>1. IsFiniteSet(A) /\ Cardinality(A) <= Cardinality(C)
    BY <1>3, <1>4, FS_Injection
  <2> QED BY <2>1, FS_CardinalityType
<1> HIDE DEF A, B, C
<1> QED BY <1>2, <1>3, <1>5

\* An answer that turns a passage around, or drops a negation inside it and stands
\* there nowhere as written, is refused, and what is accepted the frozen predicate
\* accepts (answer/verify.py, is_supported_v2; ADR-0009), for texts of any length that
\* are tokens alone.
THEOREM InversionsAreRefused ==
    ASSUME NEW X, NEW claim \in Seq(X), NEW passage \in Seq(X),
           TokensOf(claim) = claim, TokensOf(passage) = passage
    PROVE  InversionsRefused(claim, passage)
<1> SUFFICES ASSUME NEW a \in Align(claim, passage), PolarityPreserved(claim, Span(passage, a))
             PROVE  /\ claim # <<>> /\ Found(claim) \subseteq Found(passage)
                    /\ ~Inverted(claim, passage)
                    /\ WithoutInnerMarker(claim, passage) => Verbatim(claim, passage)
  BY DEF InversionsRefused, IsSupportedV2, IsSupported
<1> DEFINE n == Len(claim)
           m == Len(passage)
<1>0. n \in Nat /\ m \in Nat /\ DOMAIN claim = 1..n /\ DOMAIN passage = 1..m
  OBVIOUS
<1>1. claim # <<>>
  BY AlignedSomewhere
<1>2. PICK e \in Embeddings(claim, passage) : a.start = e[1] /\ a.end = e[n]
  BY AlignedSomewhere
<1>3. /\ e \in [1..n -> 1..m]
      /\ \A i \in 1..n : passage[e[i]] = claim[i]
      /\ \A i, j \in 1..n : i <= j => e[j] - e[i] >= j - i
  BY EmbeddingsSpread
<1>4. n >= 1
  BY <1>1
<1>5. Found(claim) \subseteq Found(passage)
  BY <1>0, <1>3 DEF Found
<1>6. ~Inverted(claim, passage)
  <2> SUFFICES ASSUME NEW i \in 1..n, NEW j \in 1..n, i < j,
                      \A x, y \in 1..m : passage[x] = claim[i] /\ passage[y] = claim[j] => x > y
               PROVE  FALSE
    BY <1>0 DEF Inverted
  <2> HIDE DEF n, m
  <2>1. e[i] > e[j] /\ e[i] \in Int /\ e[j] \in Int
    <3>1. e[i] \in 1..m /\ e[j] \in 1..m /\ passage[e[i]] = claim[i] /\ passage[e[j]] = claim[j]
      BY <1>3
    <3> QED BY <3>1, <1>0
  <2>2. e[j] - e[i] >= j - i
    BY <1>0, <1>3
  <2> QED BY <2>1, <2>2, <1>0
<1>7. ASSUME WithoutInnerMarker(claim, passage) PROVE Verbatim(claim, passage)
  <2>1. PICK i \in 2..(m - 1) :
          passage[i] \in Markers /\ claim = SubSeq(passage, 1, i - 1) \o SubSeq(passage, i + 1, m)
    BY <1>7 DEF WithoutInnerMarker
  <2>2. n = m - 1
    BY <2>1, WithoutOne
  <2>3. e[1] \in 1..m /\ e[n] \in 1..m /\ e[n] - e[1] >= n - 1
    <3>1. 1 \in 1..n /\ n \in 1..n
      BY <1>0, <1>4
    <3> HIDE DEF n, m
    <3> QED BY <3>1, <1>3, <1>4
  <2>4. CASE e[n] - e[1] = n - 1
    <3>1. ASSUME NEW x \in 1..n PROVE e[x] = e[1] + x - 1
      <4> HIDE DEF n, m
      <4>1. 1 \in 1..n /\ n \in 1..n /\ 1 <= x /\ x <= n
        BY <1>0, <1>4
      <4>2. e[x] - e[1] >= x - 1 /\ e[n] - e[x] >= n - x
        BY <4>1, <1>3
      <4>3. e[x] \in Int /\ e[1] \in Int /\ e[n] \in Int
        BY <4>1, <1>0, <1>3
      <4> DEFINE u == e[1]
                 v == e[x]
                 w == e[n]
      <4>4. u \in Int /\ v \in Int /\ w \in Int /\ x \in Int /\ v - u >= x - 1 /\ w - v >= n - x /\ w - u = n - 1
        BY <4>2, <4>3, <2>4, <1>0
      <4> HIDE DEF u, v, w
      <4>5. v = u + x - 1
        BY <4>4, <1>0
      <4> QED BY <4>5 DEF u, v
    <3> DEFINE k == e[1]
               s == SubSeq(passage, k, k + n - 1)
    <3>2. k \in 1..m /\ k + n - 1 \in 1..m /\ k + n - 1 <= m
      <4> HIDE DEF n, m
      <4> QED BY <2>3, <2>4, <1>0
    <3> HIDE DEF k
    <3>3. Len(s) = n /\ s \in Seq(X) /\ \A x \in 1..n : s[x] = passage[k + x - 1]
      BY <3>2, <1>0, <1>4
    <3>4. \A x \in 1..n : s[x] = claim[x]
      <4> HIDE DEF s, n, m
      <4> QED BY <3>1, <3>3, <1>3 DEF k
    <3> HIDE DEF s
    <3>5. s = claim
      BY <3>3, <3>4
    <3> QED BY <3>2, <3>5, <1>0 DEF Verbatim, s
  <2>5. CASE e[n] - e[1] # n - 1
    <3>1. e[1] = 1 /\ e[n] = m
      <4> HIDE DEF n, m
      <4> QED BY <2>2, <2>3, <2>5, <1>0
    <3>2. Span(passage, a) = passage
      <4>1. Span(passage, a) = SubSeq(passage, 1, m)
        BY <3>1, <1>2 DEF Span
      <4> QED BY <4>1
    <3>3. passage[i] \in Found(passage) \cap Markers
      BY <2>1, <1>0 DEF Found
    <3>4. Count(claim, passage[i]) >= Count(passage, passage[i])
      BY <3>2, <3>3 DEF PolarityPreserved
    <3>5. Count(claim, passage[i]) < Count(passage, passage[i])
      BY <2>1, OneLess
    <3>6. Count(claim, passage[i]) \in Nat /\ Count(passage, passage[i]) \in Nat
      <4>1. ASSUME NEW s \in Seq(X), NEW t PROVE Count(s, t) \in Nat
        <5>1. IsFiniteSet(1..Len(s)) /\ DOMAIN s = 1..Len(s)
          BY FS_Interval
        <5>2. IsFiniteSet({x \in DOMAIN s : s[x] = t})
          BY <5>1, FS_Subset
        <5> QED BY <5>2, FS_CardinalityType DEF Count
      <4> QED BY <4>1
    <3> QED BY <3>4, <3>5, <3>6
  <2> QED BY <2>4, <2>5
<1> QED BY <1>1, <1>5, <1>6, <1>7

-----------------------------------------------------------------------------
(* What is read of a number *)

Comma == ","

Point == "."

\* A spelling as the code cuts it: a mark between any two groups of digits.
Spelling(n) ==
    \E D : /\ n.groups \in Seq(Seq(D)) /\ n.groups # <<>>
           /\ n.marks \in Seq({Comma, Point})
           /\ Len(n.groups) = Len(n.marks) + 1

\* Neither mark is the other, nor none.
LEMMA MarksDiffer == Comma # Point /\ Comma # "none" /\ Point # "none"
BY Zenon DEF Comma, Point

\* What is before the last.
LEMMA LeadingIs ==
    ASSUME NEW X, NEW s \in Seq(X), s # <<>>
    PROVE  /\ Leading(s) \in Seq(X) /\ Len(Leading(s)) = Len(s) - 1
           /\ \A i \in 1..(Len(s) - 1) : Leading(s)[i] = s[i]
<1>1. Len(s) \in Nat /\ Len(s) >= 1
  OBVIOUS
<1> DEFINE k == Len(s) - 1
<1>2. k \in Nat /\ k <= Len(s)
  BY <1>1
<1> HIDE DEF k
<1>3. /\ SubSeq(s, 1, k) \in Seq(X) /\ Len(SubSeq(s, 1, k)) = k
      /\ \A i \in 1..k : SubSeq(s, 1, k)[i] = s[i]
  BY <1>1, <1>2
<1> QED BY <1>3 DEF Leading, k

\* A spelling has one group more than marks.
LEMMA SpellingIs ==
    ASSUME NEW n, Spelling(n)
    PROVE  /\ Len(n.marks) \in Nat /\ DOMAIN n.marks = 1..Len(n.marks)
           /\ n.marks = <<>> <=> Len(n.marks) = 0
           /\ \A i \in 1..Len(n.marks) : n.marks[i] \in {Comma, Point}
           /\ Len(n.groups) = Len(n.marks) + 1
           /\ Len(Leading(n.groups)) = Len(n.marks)
           /\ n.marks # <<>> => /\ DOMAIN Leading(n.marks) = 1..(Len(n.marks) - 1)
                                /\ \A i \in 1..(Len(n.marks) - 1) : Leading(n.marks)[i] = n.marks[i]
           /\ Len(n.marks) = 1 => Leading(n.groups) = <<n.groups[1]>>
<1>1. PICK D : /\ n.groups \in Seq(Seq(D)) /\ n.groups # <<>>
               /\ n.marks \in Seq({Comma, Point})
               /\ Len(n.groups) = Len(n.marks) + 1
  BY DEF Spelling
<1> DEFINE g == n.groups
           m == n.marks
           k == Len(m)
<1>2. g \in Seq(Seq(D)) /\ g # <<>> /\ m \in Seq({Comma, Point}) /\ Len(g) = k + 1
  BY <1>1
<1> HIDE DEF g, m
<1>3. /\ k \in Nat /\ DOMAIN m = 1..k /\ (m = <<>> <=> k = 0)
      /\ \A i \in 1..k : m[i] \in {Comma, Point}
  BY <1>2
<1>4. Leading(g) \in Seq(Seq(D)) /\ Len(Leading(g)) = k /\ \A i \in 1..k : Leading(g)[i] = g[i]
  <2>1. /\ Leading(g) \in Seq(Seq(D)) /\ Len(Leading(g)) = Len(g) - 1
        /\ \A i \in 1..(Len(g) - 1) : Leading(g)[i] = g[i]
    BY <1>2, LeadingIs
  <2>2. Len(g) - 1 = k
    BY <1>2, <1>3
  <2> QED BY <2>1, <2>2
<1>5. ASSUME m # <<>> PROVE DOMAIN Leading(m) = 1..(k - 1) /\ \A i \in 1..(k - 1) : Leading(m)[i] = m[i]
  <2>1. Leading(m) \in Seq({Comma, Point}) /\ Len(Leading(m)) = k - 1 /\ \A i \in 1..(k - 1) : Leading(m)[i] = m[i]
    BY <1>2, <1>3, <1>5, LeadingIs, Zenon
  <2> QED BY <2>1
<1>6. ASSUME k = 1 PROVE Leading(g) = <<g[1]>>
  BY <1>4, <1>6
<1> QED BY <1>2, <1>3, <1>4, <1>5, <1>6 DEF g, m

\* Whether both marks occur is whether there are two.
LEMMA MarksAre ==
    ASSUME NEW n, Spelling(n)
    PROVE  Cardinality(MarksOf(n)) = 2 <=> MarksOf(n) = {Comma, Point}
<1> DEFINE M == MarksOf(n)
<1>1. M \subseteq {Comma, Point}
  BY SpellingIs DEF MarksOf
<1> HIDE DEF M
<1>2. M \in {{}, {Comma}, {Point}, {Comma, Point}}
  BY <1>1
<1>3. Cardinality({}) = 0 /\ Cardinality({Comma}) = 1 /\ Cardinality({Point}) = 1
  BY FS_EmptySet, FS_Singleton
<1>4. Cardinality({Comma, Point}) = 2
  <2>1. IsFiniteSet({Comma}) /\ Point \notin {Comma} /\ {Comma, Point} = {Comma} \cup {Point}
    BY FS_Singleton, MarksDiffer
  <2>2. Cardinality({Comma} \cup {Point}) = Cardinality({Comma}) + 1
    BY <2>1, FS_AddElement
  <2>3. Cardinality({Comma} \cup {Point}) = 2
    BY <2>2, <1>3
  <2> QED BY <2>1, <2>3
<1>5. {} # {Comma, Point} /\ {Comma} # {Comma, Point} /\ {Point} # {Comma, Point}
  BY MarksDiffer
<1>6. Cardinality(M) = 2 <=> M = {Comma, Point}
  BY <1>2, <1>3, <1>4, <1>5
<1> QED BY <1>6 DEF M

\* In lakh form only the last mark may be a point, and there are at least two before it.
LEMMA LakhIs ==
    ASSUME NEW n, Spelling(n), LakhForm(n)
    PROVE  LET k == Len(n.marks)
           IN  /\ k > 1
               /\ \A i \in 1..(k - 1) : n.marks[i] = Comma
               /\ n.marks[k] = Point => k > 2
<1> DEFINE k == Len(n.marks)
<1>1. ASSUME k > 0, n.marks[k] = Point
      PROVE  Len(Leading(n.groups)) > 2 /\ \A i \in DOMAIN Leading(n.marks) : Leading(n.marks)[i] = Comma
  BY <1>1, Zenon DEF LakhForm, Comma, Point
<1>2. ASSUME ~(k > 0 /\ n.marks[k] = Point)
      PROVE  Len(n.groups) > 2 /\ \A i \in DOMAIN n.marks : n.marks[i] = Comma
  BY <1>2, Zenon DEF LakhForm, Comma, Point
<1>3. /\ k \in Nat /\ DOMAIN n.marks = 1..k /\ Len(n.groups) = k + 1 /\ Len(Leading(n.groups)) = k
      /\ n.marks = <<>> <=> k = 0
      /\ n.marks # <<>> => /\ DOMAIN Leading(n.marks) = 1..(k - 1)
                           /\ \A i \in 1..(k - 1) : Leading(n.marks)[i] = n.marks[i]
  BY SpellingIs
<1> HIDE DEF k
<1>4. CASE k > 0 /\ n.marks[k] = Point
  BY <1>1, <1>3, <1>4 DEF k
<1>5. CASE ~(k > 0 /\ n.marks[k] = Point)
  <2>1. k + 1 > 2 /\ \A i \in 1..k : n.marks[i] = Comma
    BY <1>2, <1>3, <1>5
  <2>2. k > 1 /\ \A i \in 1..(k - 1) : i \in 1..k
    BY <2>1, <1>3
  <2> QED BY <2>1, <2>2, <1>5 DEF k
<1> QED BY <1>4, <1>5

\* A writer's whole part is grouped.
Grouped(whole, n, lakh) == Len(whole) = 1 \/ Thousands(whole) \/ (lakh /\ LakhForm(n))

\* What Meanings is, by whether the last mark is the writer's.
LEMMA MeaningsAre ==
    ASSUME NEW n, Spelling(n), NEW mark, NEW lakh
    PROVE  LET k == Len(n.marks)
           IN  /\ k > 0 /\ n.marks[k] = mark =>
                    Meanings(n, mark, lakh) =
                      IF Grouped(Leading(n.groups), n, lakh) /\ \A i \in 1..(k - 1) : n.marks[i] # mark
                      THEN {Value(Leading(n.groups), n.groups[k + 1])} ELSE {}
               /\ k = 0 \/ n.marks[k] # mark =>
                    Meanings(n, mark, lakh) =
                      IF Grouped(n.groups, n, lakh) /\ \A i \in 1..k : n.marks[i] # mark
                      THEN {Value(n.groups, <<>>)} ELSE {}
<1> DEFINE k == Len(n.marks)
           last == n.marks[k]
<1>0. /\ k \in Nat /\ Len(n.groups) = k + 1 /\ DOMAIN n.marks = 1..k
      /\ (n.marks = <<>> <=> k = 0)
      /\ n.marks # <<>> => /\ DOMAIN Leading(n.marks) = 1..(k - 1)
                           /\ \A i \in 1..(k - 1) : Leading(n.marks)[i] = n.marks[i]
  BY SpellingIs
<1>1. ASSUME k > 0, last = mark
      PROVE  Meanings(n, mark, lakh) =
               IF Grouped(Leading(n.groups), n, lakh) /\ \A i \in 1..(k - 1) : n.marks[i] # mark
               THEN {Value(Leading(n.groups), n.groups[k + 1])} ELSE {}
  <2>1. n.marks # <<>> /\ n.marks[Len(n.marks)] = mark
    BY <1>0, <1>1
  <2>2. Meanings(n, mark, lakh) =
          IF Grouped(Leading(n.groups), n, lakh) /\ \A i \in DOMAIN Leading(n.marks) : Leading(n.marks)[i] # mark
          THEN {Value(Leading(n.groups), n.groups[Len(n.groups)])} ELSE {}
    BY <2>1, Zenon DEF Meanings, Grouped
  <2>3. /\ DOMAIN Leading(n.marks) = 1..(k - 1) /\ Len(n.groups) = k + 1
        /\ \A i \in 1..(k - 1) : Leading(n.marks)[i] = n.marks[i]
    BY <1>0, <2>1
  <2> HIDE DEF k
  <2> QED BY <2>2, <2>3
<1>2. ASSUME k = 0 \/ last # mark
      PROVE  Meanings(n, mark, lakh) =
               IF Grouped(n.groups, n, lakh) /\ \A i \in 1..k : n.marks[i] # mark
               THEN {Value(n.groups, <<>>)} ELSE {}
  <2>1. ~(n.marks # <<>> /\ n.marks[Len(n.marks)] = mark)
    BY <1>0, <1>2
  <2>2. Meanings(n, mark, lakh) =
          IF Grouped(n.groups, n, lakh) /\ \A i \in DOMAIN n.marks : n.marks[i] # mark
          THEN {Value(n.groups, <<>>)} ELSE {}
    BY <2>1, Zenon DEF Meanings, Grouped
  <2> QED BY <2>2, <1>0
<1> QED BY <1>1, <1>2

\* The mark of a language is a mark or none, and a writer has it.
LEMMA ConventionsAre ==
    ASSUME NEW language
    PROVE  /\ DecimalMarkOf(language) \in {Comma, Point, "none"}
           /\ Conventions(language) \subseteq {Comma, Point}
           /\ DecimalMarkOf(language) # "none" => Conventions(language) = {DecimalMarkOf(language)}
<1>1. DecimalMarkOf(language) \in {Comma, Point, "none"}
  BY Zenon DEF DecimalMarkOf, Comma, Point
<1>2. Conventions(language) = IF DecimalMarkOf(language) = "none" THEN {Comma, Point}
                              ELSE {DecimalMarkOf(language)}
  BY Zenon DEF Conventions, Comma, Point
<1> QED BY <1>1, <1>2

\* What is read of a number is what a writer means by it.
Agrees(n, lakh, mark, reading) == reading.known => Meanings(n, mark, lakh) \subseteq {reading.value}

\* A value that is known.
LEMMA KnownIs == ASSUME NEW v PROVE Known(v).known /\ Known(v).value = v
BY DEF Known

\* And one that is not.
LEMMA UnreadIs == ASSUME NEW n PROVE ~Unread(n).known
BY DEF Unread

\* Without a mark there is one reading.
LEMMA ReadPlain ==
    ASSUME NEW n, Spelling(n), n.marks = <<>>, NEW lakh, NEW mark
    PROVE  Meanings(n, mark, lakh) \subseteq {Value(n.groups, <<>>)}
BY SpellingIs, MeaningsAre

\* A number in lakh form that is read so.
LEMMA ReadInLakh ==
    ASSUME NEW n, Spelling(n), LakhForm(n), NEW lakh, NEW mark \in {Comma, Point}
    PROVE  Meanings(n, mark, lakh) \subseteq {ReadLakh(n)}
<1> DEFINE k == Len(n.marks)
<1>1. k \in Nat /\ k > 1 /\ (\A i \in 1..(k - 1) : n.marks[i] = Comma) /\ (n.marks[k] = Point => k > 2)
      /\ n.marks[k] \in {Comma, Point} /\ Len(n.groups) = k + 1
  BY SpellingIs, LakhIs
<1>2. ReadLakh(n) = IF n.marks[k] = Point THEN Value(Leading(n.groups), n.groups[Len(n.groups)])
                    ELSE Value(n.groups, <<>>)
  BY Zenon DEF ReadLakh, Point
<1>3. 1 \in 1..(k - 1) /\ n.marks[1] = Comma
  BY <1>1
<1> HIDE DEF k
<1>4. CASE n.marks[k] = mark
  <2>1. CASE mark = Point
    BY <1>1, <1>2, <1>4, <2>1, MeaningsAre DEF k
  <2>2. CASE mark = Comma
    BY <1>1, <1>3, <1>4, <2>2, MeaningsAre DEF k
  <2> QED BY <2>1, <2>2
<1>5. CASE n.marks[k] # mark
  <2>1. CASE mark = Point
    <3>1. n.marks[k] = Comma
      BY <1>1, <1>5, <2>1
    <3> QED BY <1>1, <1>2, <1>5, <3>1, MarksDiffer, MeaningsAre DEF k
  <2>2. CASE mark = Comma
    <3>1. 1 \in 1..k
      BY <1>1
    <3> QED BY <1>3, <1>5, <2>2, <3>1, MeaningsAre DEF k
  <2> QED BY <2>1, <2>2
<1> QED BY <1>4, <1>5

\* A number with both marks.
LEMMA ReadBoth ==
    ASSUME NEW n, Spelling(n), MarksOf(n) = {Comma, Point}, NEW lakh, NEW mark \in {Comma, Point}
    PROVE  /\ Agrees(n, lakh, mark, ReadBothMarks(n))
           /\ ~(lakh /\ LakhForm(n)) /\ Meanings(n, mark, lakh) # {} => ReadBothMarks(n).known
<1> DEFINE k == Len(n.marks)
           whole == Leading(n.groups)
           last == n.marks[k]
<1>1. /\ k \in Nat /\ DOMAIN n.marks = 1..k /\ Len(n.groups) = k + 1 /\ Len(whole) = k
      /\ \A i \in 1..k : n.marks[i] \in {Comma, Point}
  BY SpellingIs
<1>2. PICK p \in 1..k : n.marks[p] = Comma
  BY <1>1 DEF MarksOf
<1>3. PICK q \in 1..k : n.marks[q] = Point
  BY <1>1 DEF MarksOf
<1>4. k > 1 /\ p # q
  BY <1>1, <1>2, <1>3, MarksDiffer
<1>5. ReadBothMarks(n) = IF last \in {n.marks[i] : i \in 1..(k - 1)} \/ ~Thousands(whole)
                         THEN Unread(n) ELSE Known(Value(whole, n.groups[k + 1]))
  BY <1>1 DEF ReadBothMarks
<1> HIDE DEF k, whole
<1>6. CASE last = mark
  <2>1. Meanings(n, mark, lakh) =
          IF Grouped(whole, n, lakh) /\ \A i \in 1..(k - 1) : n.marks[i] # mark
          THEN {Value(whole, n.groups[k + 1])} ELSE {}
    BY <1>4, <1>6, MeaningsAre DEF k, whole
  <2>2. ReadBothMarks(n).known =>
          ReadBothMarks(n).value = Value(whole, n.groups[k + 1])
    BY <1>5, KnownIs, UnreadIs
  <2>3. ASSUME ~(lakh /\ LakhForm(n)), Meanings(n, mark, lakh) # {} PROVE ReadBothMarks(n).known
    <3>1. Thousands(whole) /\ last \notin {n.marks[i] : i \in 1..(k - 1)}
      BY <1>1, <1>4, <1>6, <2>1, <2>3 DEF Grouped
    <3> QED BY <1>5, <3>1, KnownIs
  <2> QED BY <2>1, <2>2, <2>3 DEF Agrees
<1>7. CASE last # mark
  <2>1. \E i \in 1..k : n.marks[i] = mark
    BY <1>2, <1>3
  <2>2. Meanings(n, mark, lakh) = {}
    BY <1>7, <2>1, MeaningsAre DEF k
  <2> QED BY <2>2 DEF Agrees
<1> QED BY <1>6, <1>7

\* A number with one mark, several times.
LEMMA ReadSeveral ==
    ASSUME NEW n, Spelling(n), MarksOf(n) # {Comma, Point}, Len(n.marks) > 1, NEW lakh,
           ~(lakh /\ LakhForm(n)), NEW mark \in {Comma, Point}
    PROVE  IF Thousands(n.groups) THEN Meanings(n, mark, lakh) \subseteq {Value(n.groups, <<>>)}
           ELSE Meanings(n, mark, lakh) = {}
<1> DEFINE k == Len(n.marks)
           last == n.marks[k]
<1>1. /\ k \in Nat /\ k > 1 /\ DOMAIN n.marks = 1..k /\ Len(n.groups) = k + 1
      /\ \A i \in 1..k : n.marks[i] \in {Comma, Point}
  BY SpellingIs
<1>2. \A i, j \in 1..k : n.marks[i] = n.marks[j]
  BY <1>1 DEF MarksOf
<1>3. Grouped(n.groups, n, lakh) <=> Thousands(n.groups)
  BY <1>1 DEF Grouped
<1> HIDE DEF k
<1>4. CASE last = mark
  <2>1. 1 \in 1..(k - 1) /\ n.marks[1] = mark
    BY <1>1, <1>2, <1>4
  <2>2. Meanings(n, mark, lakh) = {}
    BY <1>1, <1>4, <2>1, MeaningsAre DEF k
  <2> QED BY <2>2
<1>5. CASE last # mark
  BY <1>3, <1>5, MeaningsAre DEF k
<1> QED BY <1>4, <1>5

\* A number with one mark.
LEMMA ReadSingle ==
    ASSUME NEW n, Spelling(n), Len(n.marks) = 1, NEW lakh, NEW mark \in {Comma, Point}
    PROVE  /\ mark = n.marks[1] => Meanings(n, mark, lakh) = {Value(<<n.groups[1]>>, n.groups[2])}
           /\ mark # n.marks[1] => IF Thousands(n.groups) THEN Meanings(n, mark, lakh) = {Value(n.groups, <<>>)}
                                   ELSE Meanings(n, mark, lakh) = {}
<1>1. /\ Len(n.groups) = 2 /\ Leading(n.groups) = <<n.groups[1]>> /\ Len(Leading(n.groups)) = 1
      /\ 1..(1 - 1) = {} /\ 1..1 = {1}
  <2>1. 1..(1 - 1) = {} /\ 1..1 = {1} /\ 1 + 1 = 2
    OBVIOUS
  <2>2. Len(n.groups) = Len(n.marks) + 1 /\ Len(Leading(n.groups)) = Len(n.marks)
        /\ (Len(n.marks) = 1 => Leading(n.groups) = <<n.groups[1]>>)
    BY SpellingIs
  <2> QED BY <2>1, <2>2
<1>2. ~LakhForm(n)
  BY LakhIs
<1>3. Grouped(Leading(n.groups), n, lakh) /\ (Grouped(n.groups, n, lakh) <=> Thousands(n.groups))
  BY <1>1, <1>2 DEF Grouped
<1>4. ASSUME mark = n.marks[1] PROVE Meanings(n, mark, lakh) = {Value(<<n.groups[1]>>, n.groups[2])}
  BY <1>1, <1>3, <1>4, MeaningsAre
<1>5. ASSUME mark # n.marks[1]
      PROVE  IF Thousands(n.groups) THEN Meanings(n, mark, lakh) = {Value(n.groups, <<>>)}
             ELSE Meanings(n, mark, lakh) = {}
  BY <1>1, <1>3, <1>5, MeaningsAre
<1> QED BY <1>4, <1>5

\* A number is read to a value only if every writer whom the declared language allows
\* means that value, and one that a declared language leaves in no doubt is always read
\* (answer/numbers.py, read_number; ADR-0015, "a false equal hides a real conflict"), for
\* any groups of digits and any language.
THEOREM NumbersReadAsWritten ==
    ASSUME NEW n, Spelling(n), NEW language
    PROVE  ReadsWhatWasWritten(n, language)
<1> DEFINE d == DecimalMarkOf(language)
           lakh == ReadsLakh(language)
           C == Conventions(language)
           reading == ReadNumber(n, language)
<1>1. d \in {Comma, Point, "none"} /\ C \subseteq {Comma, Point} /\ (d # "none" => C = {d})
  BY ConventionsAre
<1>2. SUFFICES ASSUME ~n.dash
               PROVE  /\ \A mark \in C : Agrees(n, lakh, mark, reading)
                      /\ d # "none" /\ Meanings(n, d, lakh) # {} => reading.known
  <2> DEFINE meant == UNION {Meanings(n, mark, lakh) : mark \in C}
  <2>1. ASSUME \A mark \in C : Agrees(n, lakh, mark, reading), reading.known PROVE meant \subseteq {reading.value}
    <3> HIDE DEF reading, lakh, C
    <3> QED BY <2>1 DEF Agrees
  <2>2. ASSUME d # "none", meant # {} PROVE Meanings(n, d, lakh) # {}
    <3> HIDE DEF lakh, C, d
    <3> QED BY <2>2, <1>1
  <2>3. ASSUME ~n.dash => /\ reading.known => meant \subseteq {reading.value}
                          /\ d # "none" /\ meant # {} => reading.known
        PROVE  ReadsWhatWasWritten(n, language)
    BY <2>3, Zenon DEF ReadsWhatWasWritten
  <2> HIDE DEF reading, lakh, C, d, meant
  <2> QED BY <2>1, <2>2, <2>3
<1>3. \A mark \in C : mark \in {Comma, Point}
  BY <1>1
<1>4. reading = ReadNumberWith(n, language, d)
  BY DEF ReadNumber
<1> HIDE DEF reading, lakh, C, d
<1>5. CASE n.marks = <<>>
  <2>1. reading = Known(Value(n.groups, <<>>))
    BY <1>2, <1>4, <1>5 DEF ReadNumberWith
  <2> QED BY <2>1, <1>5, KnownIs, ReadPlain DEF Agrees
<1>6. CASE n.marks # <<>> /\ LakhForm(n) /\ lakh
  <2>1. reading = Known(ReadLakh(n))
    BY <1>2, <1>4, <1>6 DEF ReadNumberWith, lakh
  <2> QED BY <2>1, <1>3, <1>6, KnownIs, ReadInLakh DEF Agrees
<1>7. CASE n.marks # <<>> /\ ~(lakh /\ LakhForm(n)) /\ MarksOf(n) = {Comma, Point}
  <2>1. reading = ReadBothMarks(n)
    BY <1>2, <1>4, <1>7, MarksAre DEF ReadNumberWith, lakh
  <2> QED BY <2>1, <1>1, <1>3, <1>7, ReadBoth
<1>8. CASE n.marks # <<>> /\ ~(lakh /\ LakhForm(n)) /\ MarksOf(n) # {Comma, Point} /\ Len(n.marks) > 1
  <2>1. reading = IF Thousands(n.groups) THEN Known(Value(n.groups, <<>>)) ELSE Unread(n)
    BY <1>2, <1>4, <1>8, MarksAre DEF ReadNumberWith, lakh
  <2> QED BY <2>1, <1>1, <1>3, <1>8, KnownIs, UnreadIs, ReadSeveral DEF Agrees
<1>9. CASE n.marks # <<>> /\ ~(lakh /\ LakhForm(n)) /\ MarksOf(n) # {Comma, Point} /\ ~(Len(n.marks) > 1)
  <2>1. Len(n.marks) = 1 /\ n.marks[1] \in {Comma, Point} /\ Len(n.groups) = 2
    <3> DEFINE k == Len(n.marks)
    <3>1. k \in Nat /\ (n.marks = <<>> <=> k = 0) /\ Len(n.groups) = k + 1
          /\ \A i \in 1..k : n.marks[i] \in {Comma, Point}
      BY SpellingIs
    <3>0. n.marks # <<>> /\ ~(k > 1)
      BY <1>9
    <3> HIDE DEF k
    <3>2. k = 1
      BY <3>0, <3>1
    <3>3. 1 \in 1..k
      BY <3>2
    <3> QED BY <3>1, <3>2, <3>3 DEF k
  <2>2. reading = IF Len(n.groups[2]) # 3 \/ ~Thousands(n.groups) THEN Known(Value(<<n.groups[1]>>, n.groups[2]))
                  ELSE ReadThreeDigits(n, d)
    BY <1>2, <1>4, <1>9, MarksAre DEF ReadNumberWith, lakh
  <2>3. CASE Len(n.groups[2]) # 3 \/ ~Thousands(n.groups)
    <3>1. ~Thousands(n.groups)
      <4>1. ASSUME Thousands(n.groups) PROVE Len(n.groups[2]) = 3
        BY <4>1, <2>1 DEF Thousands
      <4> QED BY <4>1, <2>3
    <3>2. reading = Known(Value(<<n.groups[1]>>, n.groups[2]))
      BY <2>2, <3>1
    <3> QED BY <3>1, <3>2, <2>1, <1>3, KnownIs, ReadSingle DEF Agrees
  <2>4. CASE ~(Len(n.groups[2]) # 3 \/ ~Thousands(n.groups))
    <3>1. reading = IF d = "none" THEN Unread(n)
                    ELSE IF n.marks[1] = d THEN Known(Value(<<n.groups[1]>>, n.groups[2]))
                    ELSE Known(Value(n.groups, <<>>))
      BY <2>2, <2>4 DEF ReadThreeDigits
    <3> QED BY <3>1, <2>1, <2>4, <1>1, <1>3, KnownIs, UnreadIs, ReadSingle DEF Agrees
  <2> QED BY <2>3, <2>4
<1> QED BY <1>5, <1>6, <1>7, <1>8, <1>9

\* Within leaves a sequence as it is whose elements are all in the set.
LEMMA WithinAll ==
    ASSUME NEW X, NEW s \in Seq(X), NEW S, \A i \in 1..Len(s) : s[i] \in S
    PROVE  Within(s, S) = s
<1>3. PICK kept : /\ Within(s, S) = kept[Len(s)]
                  /\ kept[0] = <<>>
                  /\ \A i \in 1..Len(s) : kept[i] = IF s[i] \in S THEN Append(kept[i - 1], s[i])
                                                                 ELSE kept[i - 1]
  BY WithinUnfolds
<1> DEFINE T == {n \in Nat : n <= Len(s) => kept[n] = SubSeq(s, 1, n)}
<1>4. 0 \in T
  <2>1. SubSeq(s, 1, 0) = <<>> OBVIOUS
  <2> QED BY <1>3, <2>1
<1>5. ASSUME NEW n \in Nat, n \in T PROVE n + 1 \in T
  <2> SUFFICES ASSUME n + 1 <= Len(s) PROVE kept[n + 1] = SubSeq(s, 1, n + 1)
    OBVIOUS
  <2>1. kept[n] = SubSeq(s, 1, n) BY <1>5
  <2>2. n + 1 \in 1..Len(s) /\ (n + 1) - 1 = n OBVIOUS
  <2>3. kept[n + 1] = Append(kept[n], s[n + 1]) BY <1>3, <2>2
  <2>4. Append(SubSeq(s, 1, n), s[n + 1]) = SubSeq(s, 1, n + 1) BY <2>2
  <2> QED BY <2>1, <2>3, <2>4
<1> HIDE DEF T
<1>6. \A n \in Nat : n \in T
  BY <1>4, <1>5, Induct
<1>7. kept[Len(s)] = SubSeq(s, 1, Len(s))
  BY <1>6 DEF T
<1>8. SubSeq(s, 1, Len(s)) = s
  OBVIOUS
<1> QED
  BY <1>3, <1>7, <1>8

-----------------------------------------------------------------------------
(* The texts a rule is asked about *)

\* What TokensOf leaves of a text: all of it, if no break is in it.
LEMMA TokensOfWords ==
    ASSUME NEW X, {Break, Stop} \cap X = {}, NEW s \in Seq(X)
    PROVE  TokensOf(s) = s
<1> DEFINE S == {s[i] : i \in DOMAIN s} \ {Break, Stop}
<1>1. \A i \in 1..Len(s) : s[i] \in S
  OBVIOUS
<1>2. TokensOf(s) = Within(s, S)
  BY DEF TokensOf
<1> HIDE DEF S
<1> QED
  BY <1>1, <1>2, WithinAll

\* What is written of an order are words on both sides; of passages, at most one on a
\* side, and the second only against a first; of a number, pieces.
Worded == kind = "order" => text \in Seq(Vocabulary["order"]) /\ other \in Seq(Vocabulary["order"])

Faced ==
    kind = "passages" =>
        text \in Seq(Passages) /\ other \in Seq(Passages) /\ (other # <<>> => text # <<>>)

Pieced == kind = "number" => text \in Seq(Groupings) /\ other \in Seq(Groupings)

Drafted == Worded /\ Faced /\ Pieced

\* Nothing is written at first.
LEMMA DraftedFirst == ASSUME Begin PROVE Drafted
BY DEF Begin, Drafted, Worded, Faced, Pieced

\* Each step writes one word, one piece or one passage, of its kind.
LEMMA DraftedOn ==
    ASSUME Drafted, [WriteOn]_<<kind, text, other>>
    PROVE  Drafted'
<1>0. Worded /\ Faced /\ Pieced
  BY DEF Drafted
<1> SUFFICES Worded' /\ Faced' /\ Pieced'
  BY DEF Drafted
<1>1. CASE WriteText
  <2>1. PICK w \in Vocabulary[kind] : text' = Append(text, w) BY <1>1 DEF WriteText
  <2>2. kind' = kind /\ other' = other BY <1>1 DEF WriteText
  <2>3. kind # "passages" /\ kind # "number" BY <1>1 DEF WriteText, Vocabulary
  <2>4. Worded' BY <1>0, <2>1, <2>2 DEF Worded
  <2> QED BY <2>2, <2>3, <2>4 DEF Faced, Pieced
<1>2. CASE WriteClaim
  <2>1. PICK w \in Vocabulary[kind] : other' = Append(other, w) BY <1>2 DEF WriteClaim
  <2>2. kind' = kind /\ text' = text /\ kind = "order" BY <1>2 DEF WriteClaim
  <2>3. Worded' BY <1>0, <2>1, <2>2 DEF Worded
  <2> QED BY <2>2, <2>3 DEF Faced, Pieced
<1>3. CASE WriteNumber
  <2>1. PICK p \in Groupings : text' = Append(text, p) BY <1>3 DEF WriteNumber
  <2>2. kind' = kind /\ other' = other /\ kind = "number" BY <1>3 DEF WriteNumber
  <2>3. Pieced' BY <1>0, <2>1, <2>2 DEF Pieced
  <2> QED BY <2>2, <2>3 DEF Worded, Faced
<1>4. CASE WriteOther
  <2>1. PICK p \in Groupings : other' = Append(other, p) BY <1>4 DEF WriteOther
  <2>2. kind' = kind /\ text' = text /\ kind = "number" BY <1>4 DEF WriteOther
  <2>3. Pieced' BY <1>0, <2>1, <2>2 DEF Pieced
  <2> QED BY <2>2, <2>3 DEF Worded, Faced
<1>5. CASE Retrieve
  <2>1. PICK p \in Passages : text' = <<p>> BY <1>5 DEF Retrieve
  <2>2. kind' = kind /\ other' = other /\ kind = "passages" BY <1>5 DEF Retrieve
  <2>3. <<p>> \in Seq(Passages) /\ <<p>> # <<>> OBVIOUS
  <2> HIDE DEF Passages
  <2>4. Faced' BY <1>0, <2>1, <2>2, <2>3 DEF Faced
  <2> QED BY <2>2, <2>4 DEF Worded, Pieced
<1>6. CASE Compare
  <2>1. PICK p \in Passages : other' = <<p>> BY <1>6 DEF Compare
  <2>2. kind' = kind /\ text' = text /\ kind = "passages" /\ text # <<>> BY <1>6 DEF Compare
  <2>3. <<p>> \in Seq(Passages) OBVIOUS
  <2> HIDE DEF Passages
  <2>4. Faced' BY <1>0, <2>1, <2>2, <2>3 DEF Faced
  <2> QED BY <2>2, <2>4 DEF Worded, Pieced
<1>7. CASE UNCHANGED <<kind, text, other>>
  BY <1>0, <1>7 DEF Worded, Faced, Pieced
<1> QED
  BY <1>1, <1>2, <1>3, <1>4, <1>5, <1>6, <1>7 DEF WriteOn

\* The words of two texts in one order: what TLC tries over every pair of short
\* texts.
LEMMA AlignmentFromWords == ASSUME Drafted PROVE Alignment
<1> SUFFICES ASSUME kind = "order" PROVE AlignsAsDefined(other, text) /\ InversionsRefused(other, text)
  BY DEF Alignment
<1> DEFINE X == Vocabulary["order"]
<1>1. text \in Seq(X) /\ other \in Seq(X)
  BY DEF Drafted, Worded
<1>2. {Break, Stop} \cap X = {}
  BY MarksAssumption
<1> HIDE DEF X
<1>3. TokensOf(text) = text /\ TokensOf(other) = other
  BY <1>1, <1>2, TokensOfWords
<1>4. AlignsAsDefined(other, text)
  BY <1>1, AlignmentIsExact
<1>5. InversionsRefused(other, text)
  BY <1>1, <1>3, InversionsAreRefused
<1> QED
  BY <1>4, <1>5

\* A claim is aligned exactly where its words stand in order within the gaps, at the
\* tightest such place, and one that turns a passage around or drops a negation
\* inside it is refused: in every behaviour of the rules' run, whatever the gaps
\* allowed, the marks and the word lists (answer/verify.py; ADR-0009).
THEOREM AlignmentHolds == Writing => []Alignment
<1>1. Writing => []Drafted
  BY DraftedFirst, DraftedOn, PTL DEF Writing
<1> QED
  BY <1>1, AlignmentFromWords, PTL

\* The words of a passage retrieved are finitely many.
LEMMA PassagesFinite == ASSUME NEW p \in Passages PROVE IsFiniteSet(p.content)
<1> DEFINE Base == {"w1", "w2", "vat"}
           Extra == {"incl", "excl", "adults", "approved", "rejected"}
<1>1. IsFiniteSet(Base) /\ IsFiniteSet(Extra)
  <2>1. IsFiniteSet({"w1"}) /\ IsFiniteSet({"w2"}) /\ IsFiniteSet({"vat"})
    BY FS_Singleton
  <2>2. IsFiniteSet(({"w1"} \cup {"w2"}) \cup {"vat"})
    BY <2>1, FS_Union
  <2>3. Base = ({"w1"} \cup {"w2"}) \cup {"vat"}
    OBVIOUS
  <2>4. IsFiniteSet({"incl"}) /\ IsFiniteSet({"excl"}) /\ IsFiniteSet({"adults"})
        /\ IsFiniteSet({"approved"}) /\ IsFiniteSet({"rejected"})
    BY FS_Singleton
  <2>5. IsFiniteSet(({"incl"} \cup {"excl"}) \cup {"adults"})
    BY <2>4, FS_Union
  <2>6. IsFiniteSet({"approved"} \cup {"rejected"})
    BY <2>4, FS_Union
  <2>7. IsFiniteSet((({"incl"} \cup {"excl"}) \cup {"adults"}) \cup ({"approved"} \cup {"rejected"}))
    BY <2>5, <2>6, FS_Union
  <2>8. Extra = (({"incl"} \cup {"excl"}) \cup {"adults"}) \cup ({"approved"} \cup {"rejected"})
    OBVIOUS
  <2> QED BY <2>2, <2>3, <2>7, <2>8
<1> DEFINE Few == {Base \cup x : x \in SUBSET Extra}
<1>2. p.content \subseteq Base \cup Extra
  <2> HIDE DEF Base, Extra
  <2>1. CASE p \in [content : Few, negations : {0, 1}, numbers : {{}, {100}, {121}, {100, 200}},
                    ambiguous : {{}}, units : {{}}, reported : {FALSE}]
    <3>1. p.content \in Few BY <2>1
    <3> QED BY <3>1
  <2>2. CASE p \in [content : {Base}, negations : {0, 1, 2}, numbers : {{}, {100}, {121}, {200}, {100, 200}},
                    ambiguous : {{}, {100}}, units : {{}, {"ms"}}, reported : {TRUE, FALSE}]
    <3>1. p.content \in {Base} BY <2>2
    <3> QED BY <3>1
  <2> QED BY <2>1, <2>2 DEF Passages, Base, Extra
<1>3. IsFiniteSet(Base \cup Extra)
  BY <1>1, FS_Union
<1> HIDE DEF Base, Extra
<1> QED
  BY <1>2, <1>3, FS_Subset

\* The code's negations are its markers without those that restrict a scope, and no
\* pair of opposites is a pair of anything else (answer/conflict.py).
LEMMA NegationsAreApart == NegationsAgree
<1>1. CONFLICT_NEGATIONS = (POLARITY_MARKERS \ SCOPE_RESTRICTORS) \cup NEGATION_EXTRAS
  BY SMTT(60) DEF CONFLICT_NEGATIONS, POLARITY_MARKERS, SCOPE_RESTRICTORS, NEGATION_EXTRAS
<1>2. ASSUME NEW p \in CONFLICT_ANTONYMS PROVE p[1] # p[2]
  BY DEF CONFLICT_ANTONYMS
<1>3. ASSUME NEW p \in CONFLICT_ANTONYMS
      PROVE  p[1] \notin CONFLICT_SCOPE_MARKERS /\ p[2] \notin CONFLICT_SCOPE_MARKERS
  BY DEF CONFLICT_ANTONYMS, CONFLICT_SCOPE_MARKERS
<1>4. ASSUME NEW p \in CONFLICT_ANTONYMS PROVE p \notin CONFLICT_INCLUSION_PAIRS
  BY DEF CONFLICT_ANTONYMS, CONFLICT_INCLUSION_PAIRS
<1>5. ASSUME NEW p \in CONFLICT_ANTONYMS PROVE <<p[2], p[1]>> \notin CONFLICT_ANTONYMS
  BY DEF CONFLICT_ANTONYMS
<1>6. ASSUME NEW p \in CONFLICT_ANTONYMS PROVE {p[1], p[2]} \cap CONFLICT_SCOPE_MARKERS = {}
  BY <1>3
<1> QED
  BY <1>1, <1>2, <1>4, <1>5, <1>6 DEF NegationsAgree

\* Two passages retrieved are what the symmetry and the counting are proved of.
LEMMA ConflictsFromPassages == ASSUME Drafted PROVE Conflicts
<1> SUFFICES ASSUME kind = "passages", other # <<>>
             PROVE  ConflictSymmetric(text[1], other[1]) /\ NeverCorroborates(text[1], other[1])
  BY NegationsAreApart DEF Conflicts
<1>1. text \in Seq(Passages) /\ other \in Seq(Passages) /\ text # <<>>
  BY DEF Drafted, Faced
<1>2. text[1] \in Passages /\ other[1] \in Passages
  BY <1>1
<1>3. IsFiniteSet(text[1].content) /\ IsFiniteSet(other[1].content)
  BY <1>2, PassagesFinite
<1>4. ConflictSymmetric(text[1], other[1])
  BY <1>3, ConflictIsSymmetric
<1>5. NeverCorroborates(text[1], other[1])
  BY <1>3, ContradictionsCountTwice
<1> QED
  BY <1>4, <1>5

\* Whether and by which rule two passages conflict does not hang on which came first,
\* passages that disagree never count as one source, and the tables the rules read
\* are apart: in every behaviour of the rules' run (answer/conflict.py).
THEOREM ConflictsHold == Writing => []Conflicts
<1>1. Writing => []Drafted
  BY DraftedFirst, DraftedOn, PTL DEF Writing
<1> QED
  BY <1>1, ConflictsFromPassages, PTL

-----------------------------------------------------------------------------
(* The number guard over a text of one number *)

\* Of no spans none is the leftmost.
LEMMA NoneLeftmost ==
    ASSUME NEW X, NEW items \in Seq(X)
    PROVE  Leftmost(items, {}) = {}
<1> DEFINE K(g) == [i \in 0..Len(items) |->
                      IF i = 0 THEN {}
                      ELSE LET before == g[i - 1]
                           IN  IF \A s \in before : s.to < i THEN before \cup {s \in {} : s.at = i} ELSE before]
           found == CHOOSE g : g = K(g)
           f == [i \in 0..Len(items) |-> {}]
<1>0. Len(items) \in Nat
  OBVIOUS
<1>1. f = K(f)
  <2>1. ASSUME NEW i \in 0..Len(items) PROVE K(f)[i] = {}
    <3>1. CASE i = 0 BY <3>1
    <3>2. CASE i # 0
      <4>1. i - 1 \in 0..Len(items) BY <3>2, <1>0
      <4>2. f[i - 1] = {} BY <4>1
      <4> QED BY <3>2, <4>2
    <3> QED BY <3>1, <3>2
  <2> QED BY <2>1
<1>2. found = K(found)
  BY <1>1
<1>3. Leftmost(items, {}) = found[Len(items)]
  BY DEF Leftmost
<1> DEFINE T == {n \in Nat : n <= Len(items) => found[n] = {}}
<1>4. \A i \in 0..Len(items) : found[i] = IF i = 0 THEN {}
         ELSE IF \A s \in found[i - 1] : s.to < i THEN found[i - 1] \cup {s \in {} : s.at = i} ELSE found[i - 1]
  BY <1>2, Zenon
<1> HIDE DEF found
<1>5. 0 \in T
  BY <1>0, <1>4
<1>6. ASSUME NEW n \in Nat, n \in T PROVE n + 1 \in T
  <2> SUFFICES ASSUME n + 1 <= Len(items) PROVE found[n + 1] = {}
    OBVIOUS
  <2>1. n + 1 \in 0..Len(items) /\ n + 1 # 0 /\ (n + 1) - 1 = n BY <1>0
  <2>2. found[n] = {} BY <1>6, <1>0
  <2> QED BY <2>1, <2>2, <1>4
<1> HIDE DEF T
<1>7. \A n \in Nat : n \in T
  BY <1>5, <1>6, Induct
<1> QED BY <1>0, <1>3, <1>7 DEF T

\* Nothing erased.
LEMMA NothingErased ==
    ASSUME NEW X, NEW items \in Seq(X)
    PROVE  Covered({}) = {} /\ Erased(items, {}) = items
BY DEF Covered, Erased

\* A text of one number.
Single(t, n) ==
    /\ t \in Seq({Figure(n, " ")}) /\ Len(t) = 1 /\ DOMAIN t = {1}
    /\ t[1].number = n /\ t[1].word = "" /\ t[1].gap = " "

\* It is a text of one number.
LEMMA OneIs == ASSUME NEW n PROVE Single(<<Figure(n, " ")>>, n)
<1>1. Figure(n, " ").number = n /\ Figure(n, " ").word = "" /\ Figure(n, " ").gap = " "
  BY DEF Figure
<1> DEFINE f == Figure(n, " ")
<1> HIDE DEF f
<1>2. <<f>> \in Seq({f}) /\ Len(<<f>>) = 1 /\ DOMAIN <<f>> = {1} /\ <<f>>[1] = f
  OBVIOUS
<1> QED BY <1>1, <1>2 DEF Single, f

\* A date in points: 1.6.2026.
DottedNumber(n) == n.marks = <<".", ".">> /\ \A k \in 1..2 : Len(n.groups[k]) \in 1..2

\* What is read of a text is a record of three fields.
Fields == {"times", "dates", "text"}

\* Nothing is read of a text at first.
LEMMA FreshIs ==
    ASSUME NEW t
    PROVE  /\ Fresh(t) = [x \in Fields |-> Fresh(t)[x]]
           /\ Fresh(t).times = {} /\ Fresh(t).dates = {} /\ Fresh(t).text = t
BY DEF Fresh, Fields

\* Nothing changes that is set to what it is.
LEMMA SetAsItIs ==
    ASSUME NEW f, f = [x \in Fields |-> f[x]], NEW b, NEW c, f.text = c
    PROVE  /\ f.dates = b => [f EXCEPT !.dates = b, !.text = c] = f
           /\ f.times = b => [f EXCEPT !.times = b, !.text = c] = f
BY DEF Fields

\* No clock time is in it.
LEMMA NoTimes == ASSUME NEW t, NEW n, Single(t, n) PROVE ClockTimes(t) = Fresh(t)
<1>domain. DOMAIN t = {1}
  BY DEF Single
<1>0. (\A i \in DOMAIN t : i = 1) /\ 2 \notin DOMAIN t /\ 3 \notin DOMAIN t
  BY <1>domain
<1>1. AmPmSpans(t) = {}
  <2> DEFINE places == {j \in DOMAIN t : IsNumber(t[j]) /\ IntAt(t, j) \in 1..12}
  <2>1. \A i \in places : i = 1 BY <1>0
  <2>2. ~WordAt(t, 2, {"", " "}, AmWords \cup PmWords) /\ ~WordAt(t, 3, {"", " "}, AmWords \cup PmWords)
    BY <1>0 DEF WordAt, Follows
  <2>3. 1 + 1 = 2 /\ 1 + 2 = 3 OBVIOUS
  <2> HIDE DEF places
  <2> QED BY <2>1, <2>2, <2>3 DEF AmPmSpans, places
<1>2. ColonSpans(t) = {}
  <2>1. ~IsMinute(t, 2) BY <1>0 DEF IsMinute, Follows
  <2>3. 1 + 1 = 2 OBVIOUS
  <2> QED BY <2>1, <1>0, <2>3 DEF ColonSpans
<1>3. DotSpans(t) = {}
  <2>1. ~WordAt(t, 2, {"", " "}, HourWords) BY <1>0 DEF WordAt, Follows
  <2>3. 1 + 1 = 2 OBVIOUS
  <2> QED BY <2>1, <1>0, <2>3 DEF DotSpans
<1>4. Leftmost(t, {}) = {} /\ Covered({}) = {} /\ Erased(t, {}) = t
  BY NoneLeftmost, NothingErased DEF Single
<1>5. Fresh(t).text = t /\ Fresh(t).times = {}
  BY DEF Fresh
<1>6. ReadTimes(Fresh(t), {}) = Fresh(t)
  <2> DEFINE f == Fresh(t)
  <2>1. f.times = {} /\ f.text = t /\ f = [x \in Fields |-> f[x]]
    BY FreshIs
  <2>2. {s.time : s \in {}} = {} /\ {} \cup {} = {}
    OBVIOUS
  <2>3. ReadTimes(f, {}) = [f EXCEPT !.times = f.times \cup {s.time : s \in {}}, !.text = Erased(f.text, Covered({}))]
    BY Zenon DEF ReadTimes
  <2> HIDE DEF f
  <2>4. ReadTimes(f, {}) = [f EXCEPT !.times = {}, !.text = t]
    BY <2>1, <2>2, <2>3, <1>4
  <2>5. [f EXCEPT !.times = {}, !.text = t] = f
    BY <2>1, SetAsItIs, Zenon
  <2> QED BY <2>4, <2>5 DEF f
<1>7. AmPmRead(Fresh(t)) = Fresh(t) /\ ColonRead(Fresh(t)) = Fresh(t) /\ DotRead(Fresh(t)) = Fresh(t)
  BY <1>1, <1>2, <1>3, <1>4, <1>5, <1>6 DEF AmPmRead, ColonRead, DotRead
<1> QED BY <1>7 DEF ClockTimes

\* Nor a date, unless it is one in points.
LEMMA NoDates ==
    ASSUME NEW t, NEW n, Single(t, n), ~DottedNumber(n), NEW language
    PROVE  DatesIn(Fresh(t), language) = Fresh(t)
<1>domain. DOMAIN t = {1}
  BY DEF Single
<1>0. (\A i \in DOMAIN t : i = 1) /\ 2 \notin DOMAIN t /\ 3 \notin DOMAIN t
  BY <1>domain
<1>01. 1 + 1 = 2 /\ 2 + 1 = 3
  OBVIOUS
<1>02. ~IsDay(t, 2)
  BY <1>0 DEF IsDay
<1>1. DayMonthSpans(t) = {}
  <2>1. Suffixed(t, 1) = 1 BY <1>0, <1>01 DEF Suffixed, WordAt, Follows
  <2>2. ~WordAt(t, 2, {" "}, DOMAIN Months) BY <1>0 DEF WordAt, Follows
  <2> QED BY <2>1, <2>2, <1>0, <1>01 DEF DayMonthSpans
<1>2. MonthDaySpans(t) = {}
  <2> QED BY <1>0, <1>01, <1>02 DEF MonthDaySpans
<1>3. NumericSpans(t) = {}
  <2> QED BY <1>0, <1>01, <1>02 DEF NumericSpans
<1>4. DottedSpans(t) = {}
  <2>1. t[1].number = n BY DEF Single
  <2> DEFINE reading(i) == [at |-> i, to |-> i, day |-> IntAt(t, i), month |-> IntOf(t[i].number.groups[2]),
                            year |-> IntOf(t[i].number.groups[3])]
             marked(j) == t[j].number.marks = <<".", ".">>
             short(j) == \A k \in 1..2 : Len(t[j].number.groups[k]) \in 1..2
             yearly(j) == IntOf(t[j].number.groups[3]) \in 1900..2099
             dotted == {j \in DOMAIN t : /\ marked(j) /\ ~IsIdentifier(t, j)
                                         /\ short(j)
                                         /\ yearly(j)}
  <2>2. \A j \in DOMAIN t : ~(marked(j) /\ short(j))
    BY <2>1, <1>0 DEF DottedNumber
  <2>4. DottedSpans(t) = {reading(i) : i \in dotted}
    BY Zenon DEF DottedSpans
  <2> HIDE DEF reading, marked, short, yearly
  <2>3. dotted = {}
    BY <2>2
  <2> HIDE DEF dotted
  <2> QED BY <2>3, <2>4
<1>5. Leftmost(t, {}) = {} /\ Covered({}) = {} /\ Erased(t, {}) = t
  BY NoneLeftmost, NothingErased DEF Single
<1> DEFINE f == Fresh(t)
           dated(x) == [day |-> x.day, month |-> x.month, year |-> x.year, spelling |-> <<>>]
<1>6. f.dates = {} /\ f.text = t /\ f = [x \in Fields |-> f[x]]
  BY FreshIs
<1> HIDE DEF f
<1>fields. f.dates = {} /\ f.text = t /\ [f EXCEPT !.dates = {}, !.text = t] = f
  BY <1>6, SetAsItIs, Zenon
<1>7. ReadDates(f, {}) = f
  <2>1. {dated(s) : s \in {}} = {}
    OBVIOUS
  <2>2. ReadDates(f, {}) = [f EXCEPT !.dates = f.dates \cup {dated(s) : s \in {}}, !.text = Erased(f.text, Covered({}))]
    BY Zenon DEF ReadDates
  <2> HIDE DEF dated
  <2>3. f.dates \cup {dated(s) : s \in {}} = {}
    BY <2>1, <1>fields
  <2>4. Erased(f.text, Covered({})) = t
    BY <1>5, <1>fields
  <2> QED BY <2>2, <2>3, <2>4, <1>fields
<1>8. ReadNumeric(f, {}, language) = f
  <2>1. /\ {s \in {} : ValidDate(s.day, s.month) \/ ValidDate(s.month, s.day)} = {}
        /\ UNION {ReadDate(s.day, s.month, s.year, language) : s \in {}} = {}
    OBVIOUS
  <2>2. ReadNumeric(f, {}, language)
          = [f EXCEPT !.dates = f.dates \cup UNION {ReadDate(s.day, s.month, s.year, language) : s \in {}},
                      !.text = Erased(f.text, Covered({s \in {} : ValidDate(s.day, s.month) \/ ValidDate(s.month, s.day)}))]
    BY Zenon DEF ReadNumeric
  <2>3. f.dates \cup UNION {ReadDate(s.day, s.month, s.year, language) : s \in {}} = {}
    BY <2>1, <1>fields
  <2>4. Erased(f.text, Covered({s \in {} : ValidDate(s.day, s.month) \/ ValidDate(s.month, s.day)})) = t
    BY <2>1, <1>5, <1>fields
  <2> QED BY <2>2, <2>3, <2>4, <1>fields
<1>9. Valid({}) = {} /\ {} \cup {} = {}
  BY DEF Valid
<1>10. DayMonthRead(f) = f
  BY <1>1, <1>5, <1>fields, <1>7, <1>9 DEF DayMonthRead
<1>11. MonthDayRead(f) = f
  BY <1>2, <1>5, <1>fields, <1>7, <1>9 DEF MonthDayRead
<1>12. NumericRead(f, language) = f
  BY <1>3, <1>4, <1>5, <1>fields, <1>8, <1>9 DEF NumericRead
<1> QED BY <1>10, <1>11, <1>12 DEF DatesIn, f

\* Joining no runs leaves a text as it is.
LEMMA NothingJoined ==
    ASSUME NEW X, NEW s \in Seq(X)
    PROVE  Join(s, {}) = s
<1> DEFINE ids == [i \in DOMAIN s |-> i]
           S == {i \in DOMAIN s : \A r \in {} : i \notin (r.at + 1)..r.to}
           kept == Within(ids, S)
<1>1. ids \in Seq(Nat) /\ Len(ids) = Len(s) /\ \A i \in 1..Len(ids) : ids[i] \in S
  OBVIOUS
<1> HIDE DEF S
<1>2. kept = ids
  BY <1>1, WithinAll
<1>3. Join(s, {}) = [n \in DOMAIN kept |-> IF \E r \in {} : r.at = kept[n]
                       THEN OneNumber(s, CHOOSE r \in {} : r.at = kept[n]) ELSE s[kept[n]]]
  BY Zenon DEF Join, S
<1> HIDE DEF kept
<1>4. Join(s, {}) = [n \in DOMAIN kept |-> s[kept[n]]]
  BY <1>3
<1> QED BY <1>2, <1>4

\* A number alone is joined with nothing.
LEMMA StandsAlone ==
    ASSUME NEW t, NEW n, Single(t, n), NEW language
    PROVE  JoinSpacedThousands(t, language) = t
<1>1. DOMAIN t = {1} /\ Len(t) = 1
  BY DEF Single
<1>2. ~AfterSign(t, 1)
  BY DEF AfterSign
<1>3. MoneyRuns(t) = {}
  BY <1>1, <1>2 DEF MoneyRuns
<1>4. ASSUME NEW gap PROVE GroupsAfter(t, 1, gap) = 0
  <2>1. 1..(Len(t) - 1) = {} /\ \A S : S \subseteq {} => S = {}
    BY <1>1
  <2> DEFINE S == {k \in 1..(Len(t) - 1) :
                     \A j \in 1..k : /\ IsNumber(t[1 + j]) /\ t[1 + j].gap = gap
                                     /\ Len(t[1 + j].number.groups[1]) = 3
                                     /\ j < k => t[1 + j].number.marks = <<>>}
  <2>2. S = {}
    BY <2>1
  <2>3. GroupsAfter(t, 1, gap) = Cardinality(S)
    BY Zenon DEF GroupsAfter
  <2> HIDE DEF S
  <2> QED BY <2>2, <2>3, FS_EmptySet
<1>5. ASSUME NEW gap PROVE GroupedRuns(t, gap) = {}
  <2>1. {j \in DOMAIN t : Leads(t[j], 1..3) /\ GroupsAfter(t, j, gap) > 0} = {}
    BY <1>1, <1>4
  <2> DEFINE J == {j \in DOMAIN t : Leads(t[j], 1..3) /\ GroupsAfter(t, j, gap) > 0}
             S == {[at |-> i, to |-> i + GroupsAfter(t, i, gap)] : i \in J}
  <2>2. S = {}
    <3>1. J = {} BY <2>1
    <3> HIDE DEF J
    <3> QED BY <3>1
  <2>3. Leftmost(t, S) = {}
    <3> HIDE DEF S
    <3> QED BY <2>2, NoneLeftmost DEF Single
  <2>4. GroupedRuns(t, gap) \subseteq Leftmost(t, S)
    BY DEF GroupedRuns
  <2> QED BY <2>3, <2>4
<1>6. Join(t, {}) = t
  BY NothingJoined DEF Single
<1>7. JoinMoney(t) = t
  BY <1>3, <1>6 DEF JoinMoney
<1>8. ASSUME NEW gap PROVE JoinGrouped(t, gap) = t
  BY <1>5, <1>6 DEF JoinGrouped
<1> QED BY <1>7, <1>8 DEF JoinSpacedThousands

\* The number that is read of it.
NumberOf(n, reading) == [raw |-> Raw(n), reading |-> reading, unit |-> "", attached |-> FALSE]

\* The one figure of a text is the one number read of it.
LEMMA OneIsRead ==
    ASSUME NEW t, NEW n, Single(t, n), n.groups # <<>>, NEW language, NEW verbatim
    PROVE  NumbersIn(t, language, verbatim) = {NumberOf(n, ReadWith(n, language, verbatim))}
<1>1. DOMAIN t = {1} /\ t[1].number = n
  BY DEF Single
<1>2. NumbersIn(t, language, verbatim) = NumbersOf(t, language, verbatim)
  BY StandsAlone DEF NumbersIn
<1>3. IsNumber(t[1]) /\ ~IsIdentifier(t, 1)
  BY <1>1 DEF IsNumber, IsIdentifier
<1> DEFINE united(i) == Follows(t, i + 1, {"", " "}) /\ IsLetters(t[i + 1])
           read(i) == [raw |-> Raw(t[i].number), reading |-> ReadWith(t[i].number, language, verbatim),
                       unit |-> IF united(i) THEN t[i + 1].word ELSE "",
                       attached |-> united(i) /\ t[i + 1].gap = ""]
           places == {j \in DOMAIN t : IsNumber(t[j]) /\ ~IsIdentifier(t, j)}
<1>4. NumbersOf(t, language, verbatim) = {read(i) : i \in places}
  BY Zenon DEF NumbersOf
<1>5. ~united(1)
  <2>1. 1 + 1 \notin DOMAIN t BY <1>1
  <2> QED BY <2>1 DEF Follows
<1>6. read(1) = NumberOf(n, ReadWith(n, language, verbatim))
  <2> HIDE DEF united
  <2>1. (united(1) /\ t[1 + 1].gap = "") = FALSE BY <1>5
  <2>2. (IF united(1) THEN t[1 + 1].word ELSE "") = "" BY <1>5
  <2> QED BY <2>1, <2>2, <1>1, Zenon DEF NumberOf
<1>7. places = {1}
  BY <1>1, <1>3
<1> HIDE DEF read, places
<1> QED BY <1>2, <1>4, <1>6, <1>7

\* A number that is not read to a value is read to its spelling.
LEMMA ReadOrSpelled ==
    ASSUME NEW n, NEW language
    PROVE  ReadNumber(n, language).known \/ ReadNumber(n, language) = Unread(n)
<1> DEFINE d == DecimalMarkOf(language)
<1>1. \A v : Known(v).known
  BY DEF Known
<1>2. ReadDashed(n).known \/ ReadDashed(n) = Unread(n)
  BY <1>1 DEF ReadDashed
<1>3. ReadBothMarks(n).known \/ ReadBothMarks(n) = Unread(n)
  BY <1>1 DEF ReadBothMarks
<1>4. ReadThreeDigits(n, d).known \/ ReadThreeDigits(n, d) = Unread(n)
  BY <1>1 DEF ReadThreeDigits
<1> HIDE DEF d
<1>5. ReadNumberWith(n, language, d).known \/ ReadNumberWith(n, language, d) = Unread(n)
  BY <1>1, <1>2, <1>3, <1>4 DEF ReadNumberWith
<1> QED BY <1>5 DEF ReadNumber, d

\* Two texts of one number, no dates, and the first passes over the second.
Passes(s, m, k, t, n, l) ==
    /\ Single(s, m) /\ Single(t, n) /\ m.groups # <<>> /\ n.groups # <<>>
    /\ ~DottedNumber(m) /\ ~DottedNumber(n) /\ ~NumberGuard(s, k, t, l)

SameFigure(m, k, n, l) == Raw(m) = Raw(n) \/ ReadNumber(m, k) = ReadNumber(n, l)

\* The number guard over two texts of one number each: if it lets the claim's pass, it
\* is the passage's as it is spelled, or it is read as the passage's is.
LEMMA GuardOfOne ==
    ASSUME NEW s, NEW m, NEW k, NEW t, NEW n, NEW l, Passes(s, m, k, t, n, l)
    PROVE  SameFigure(m, k, n, l)
<1>0. /\ Single(s, m) /\ Single(t, n) /\ m.groups # <<>> /\ n.groups # <<>>
      /\ ~DottedNumber(m) /\ ~DottedNumber(n) /\ ~NumberGuard(s, k, t, l)
  BY DEF Passes
<1> SUFFICES ASSUME Raw(m) # Raw(n) PROVE ReadNumber(m, k) = ReadNumber(n, l)
  BY DEF SameFigure
<1>1. DatesIn(ClockTimes(s), k) = Fresh(s) /\ DatesIn(ClockTimes(t), l) = Fresh(t)
  BY <1>0, NoTimes, NoDates
<1>2. Fresh(s).text = s /\ Fresh(t).text = t
  BY FreshIs
<1>3. ~NumbersDiffer(Fresh(s), k, Fresh(t), l)
  BY <1>0, <1>1 DEF NumberGuard
<1> DEFINE read == NumbersIn(t, l, {})
           V == Unequivocal(read)
           claimed == NumbersIn(s, k, V)
<1>4. ~Unheld(claimed, read, WordsOf(t))
  BY <1>2, <1>3, Zenon DEF NumbersDiffer
<1>5. read = {NumberOf(n, ReadWith(n, l, {}))}
  BY <1>0, OneIsRead
<1>6. ReadWith(n, l, {}) = ReadNumber(n, l)
  <2>1. {v \in {} : v.raw = Raw(n)} = {} OBVIOUS
  <2> QED BY <2>1 DEF ReadWith
<1> DEFINE p == NumberOf(n, ReadNumber(n, l))
<1>7. p.raw = Raw(n) /\ p.reading = ReadNumber(n, l) /\ p.unit = "" /\ p.attached = FALSE
  BY DEF NumberOf
<1>8. read = {p}
  BY <1>5, <1>6
<1> HIDE DEF p, read
<1>9. \A v \in V : v.raw = Raw(n)
  <2>1. \A v \in V : v.raw = p.raw
    BY <1>8 DEF Unequivocal
  <2> QED BY <2>1, <1>7
<1> HIDE DEF V
<1>10. ReadWith(m, k, V) = ReadNumber(m, k)
  <2>1. {v \in V : v.raw = Raw(m)} = {} BY <1>9
  <2> QED BY <2>1 DEF ReadWith
<1> DEFINE c == NumberOf(m, ReadNumber(m, k))
<1>11. c.reading = ReadNumber(m, k) /\ c.unit = "" /\ c.attached = FALSE
  BY DEF NumberOf
<1>12. claimed = {c}
  BY <1>0, <1>10, OneIsRead
<1> HIDE DEF c, claimed
<1>13. ~IsOrdinal(c)
  BY <1>11 DEF IsOrdinal
<1>14. CentsAsEuros(c) = ReadNumber(m, k) /\ CentsAsEuros(p) = ReadNumber(n, l)
  BY <1>7, <1>11, BlankAssumption DEF CentsAsEuros
<1>15. CentsAsEuros(c) \in NumbersHeld(read, WordsOf(t))
  BY <1>4, <1>12, <1>13 DEF Unheld
<1>16. WordsOf(t) = {""}
  <2>1. DOMAIN t = {1} BY <1>0 DEF Single
  <2>2. WordsOf(t) = {t[1].word} BY <2>1 DEF WordsOf
  <2>3. t[1].word = "" BY <1>0 DEF Single
  <2> QED BY <2>2, <2>3
<1>17. NumberWordValue("") = {}
  BY BlankAssumption DEF NumberWordValue
<1>18. UNION {NumberWordValue(w) : w \in WordsOf(t) \ {"een"}} = {}
  BY <1>16, <1>17
<1>19. {CentsAsEuros(x) : x \in read} = {CentsAsEuros(p)}
  BY <1>8
<1>20. NumbersHeld(read, WordsOf(t)) = {CentsAsEuros(p)}
  BY <1>18, <1>19 DEF NumbersHeld
<1> QED BY <1>14, <1>15, <1>20

\* A date in points is a number to no writer.
LEMMA DottedMeansNothing ==
    ASSUME NEW n, Spelling(n), DottedNumber(n), NEW mark \in {Comma, Point}, NEW lakh
    PROVE  Meanings(n, mark, lakh) = {}
<1>1. Len(n.marks) = 2 /\ n.marks[1] = Point /\ n.marks[2] = Point
  <2>1. n.marks = <<Point, Point>> BY Zenon DEF DottedNumber, Point
  <2> QED BY <2>1
<1>2. Len(n.groups) = 3 /\ Len(n.groups[2]) \in 1..2
  <2>1. Len(n.groups) = Len(n.marks) + 1
    BY SpellingIs
  <2>2. \A k \in 1..2 : Len(n.groups[k]) \in 1..2
    BY Zenon DEF DottedNumber
  <2> QED BY <1>1, <2>1, <2>2
<1>3. ~Thousands(n.groups)
  BY <1>2 DEF Thousands
<1>4. ~LakhForm(n)
  BY <1>1, LakhIs, MarksDiffer
<1>5. ~Grouped(n.groups, n, lakh)
  BY <1>2, <1>3, <1>4 DEF Grouped
<1>6. CASE mark = Point
  <2>1. 1 \in 1..(2 - 1) OBVIOUS
  <2> QED BY <1>1, <1>6, <2>1, MeaningsAre
<1>7. CASE mark = Comma
  BY <1>1, <1>5, <1>7, MeaningsAre, MarksDiffer
<1> QED BY <1>6, <1>7

\* What any writer a language allows may mean.
Meant(f, language) == UNION {Meanings(f, mark, ReadsLakh(language)) : mark \in Conventions(language)}

\* A date in points means nothing in any language.
LEMMA DottedMeantNothing ==
    ASSUME NEW n, Spelling(n), DottedNumber(n), NEW language
    PROVE  Meant(n, language) = {}
<1>1. Conventions(language) \subseteq {Comma, Point}
  BY ConventionsAre
<1>2. \A mark \in Conventions(language) : Meanings(n, mark, ReadsLakh(language)) = {}
  BY <1>1, DottedMeansNothing
<1> QED BY <1>2 DEF Meant

\* What is read is all that is meant.
LEMMA ReadIsMeant ==
    ASSUME NEW n, Spelling(n), ~n.dash, NEW language, ReadNumber(n, language).known
    PROVE  Meant(n, language) \subseteq {ReadNumber(n, language).value}
<1>1. ReadsWhatWasWritten(n, language)
  BY NumbersReadAsWritten
<1> QED BY <1>1, Zenon DEF ReadsWhatWasWritten, Meant

\* A number that the guard lets pass over a passage of one number is that number:
\* copied as it is spelled, or the same amount to every writer the two languages allow
\* (answer/verify_guards.py, number_guard), for any two spellings and languages.
THEOREM FiguresAreBacked ==
    ASSUME NEW m, Spelling(m), NEW n, Spelling(n), NEW k, NEW l
    PROVE  FigureBacked(m, k, n, l)
<1> SUFFICES ASSUME ~m.dash, ~n.dash,
                    ~NumberGuard(<<Figure(m, " ")>>, k, <<Figure(n, " ")>>, l)
             PROVE  Raw(m) = Raw(n) \/ \A x \in Meant(m, k), y \in Meant(n, l) : x = y
  BY Zenon DEF FigureBacked, Meant
<1>1. CASE DottedNumber(m) \/ DottedNumber(n)
  BY <1>1, DottedMeantNothing
<1>2. CASE ~DottedNumber(m) /\ ~DottedNumber(n)
  <2>1. m.groups # <<>> /\ n.groups # <<>>
    BY DEF Spelling
  <2>2. Single(<<Figure(m, " ")>>, m) /\ Single(<<Figure(n, " ")>>, n)
    BY OneIs
  <2>3. Raw(m) = Raw(n) \/ ReadNumber(m, k) = ReadNumber(n, l)
    <3> DEFINE s == <<Figure(m, " ")>>
               t == <<Figure(n, " ")>>
    <3>1. Single(s, m) /\ Single(t, n) /\ ~NumberGuard(s, k, t, l)
      BY <2>2
    <3> HIDE DEF s, t
    <3>2. Passes(s, m, k, t, n, l)
      BY <1>2, <2>1, <3>1 DEF Passes
    <3>3. SameFigure(m, k, n, l)
      BY <3>2, GuardOfOne
    <3> QED BY <3>3 DEF SameFigure
  <2>4. ASSUME ReadNumber(m, k) = ReadNumber(n, l), ReadNumber(n, l).known
        PROVE  \A x \in Meant(m, k), y \in Meant(n, l) : x = y
    <3> DEFINE r == ReadNumber(n, l)
    <3>1. Meant(m, k) \subseteq {r.value} /\ Meant(n, l) \subseteq {r.value}
      BY <2>4, ReadIsMeant
    <3> HIDE DEF r
    <3> QED BY <3>1
  <2>5. ASSUME ReadNumber(m, k) = ReadNumber(n, l), ~ReadNumber(n, l).known
        PROVE  Raw(m) = Raw(n)
    <3>1. ReadNumber(m, k) = Unread(m) /\ ReadNumber(n, l) = Unread(n)
      BY <2>5, ReadOrSpelled
    <3>2. Unread(m).spelling = m /\ Unread(n).spelling = n
      BY DEF Unread
    <3> QED BY <2>5, <3>1, <3>2
  <2> QED BY <2>3, <2>4, <2>5
<1> QED BY <1>1, <1>2

-----------------------------------------------------------------------------
(* Dutch numbers in words *)

\* What is read of the words from a place on, given what is read after "duizend".
From(parts, i) == SubSeq(parts, i, Len(parts))

ThousandAt(own) == CHOOSE k \in First(own, Duizend) : TRUE

TimesThousand(own) ==
    IF ThousandAt(own) = 1 THEN {1} ELSE DutchHundreds(SubSeq(own, 1, ThousandAt(own) - 1))

Beyond(own, after) == IF ThousandAt(own) = Len(own) THEN {0} ELSE after

ReadOn(own, after) ==
    IF First(own, Duizend) = {} THEN DutchHundreds(own)
    ELSE {t * 1000 + r : t \in TimesThousand(own), r \in Beyond(own, after)}

Once(parts) == \A i, j \in 1..Len(parts) : parts[i] = Duizend /\ parts[j] = Duizend => i = j

\* Words with "duizend" once are what is before it, a thousand times, and what is
\* after it.
LEMMA ThousandsUnfold ==
    ASSUME NEW X, NEW parts \in Seq(X), Once(parts)
    PROVE  DutchNumber(parts) = ReadOn(parts, DutchHundreds(From(parts, 1 + ThousandAt(parts))))
<1> DEFINE n == Len(parts)
           own(i) == From(parts, i)
           K(g) == [i \in 1..(n + 1) |-> ReadOn(own(i), g[i + ThousandAt(own(i))])]
           from == CHOOSE g : g = K(g)
           f == [i \in 1..(n + 1) |-> ReadOn(own(i), DutchHundreds(own(i + ThousandAt(own(i)))))]
<1>0. n \in Nat
  OBVIOUS
<1>1. DutchNumber(parts) = from[1]
  BY DEF DutchNumber, ReadOn, TimesThousand, Beyond, ThousandAt, From
<1>2. \A i \in 1..(n + 1) : own(i) \in Seq(X) /\ Len(own(i)) = n - i + 1
         /\ \A k \in 1..Len(own(i)) : own(i)[k] = parts[i + k - 1]
  BY DEF From
<1>3. ASSUME NEW i \in 1..(n + 1), First(own(i), Duizend) # {}
      PROVE  /\ ThousandAt(own(i)) \in 1..Len(own(i))
             /\ parts[i + ThousandAt(own(i)) - 1] = Duizend
  <2>1. ThousandAt(own(i)) \in First(own(i), Duizend)
    BY <1>3 DEF ThousandAt
  <2>2. ThousandAt(own(i)) \in DOMAIN own(i) /\ own(i)[ThousandAt(own(i))] = Duizend
    BY <2>1 DEF First
  <2> QED BY <2>2, <1>2
<1>4. ASSUME NEW i \in 1..(n + 1), First(own(i), Duizend) # {}, ThousandAt(own(i)) # Len(own(i))
      PROVE  f[i + ThousandAt(own(i))] = DutchHundreds(own(i + ThousandAt(own(i))))
  <2> DEFINE a == ThousandAt(own(i))
             j == i + a
  <2>1. a \in 1..Len(own(i)) /\ parts[i + a - 1] = Duizend /\ Len(own(i)) = n - i + 1
    BY <1>2, <1>3, <1>4
  <2>2. a # Len(own(i))
    BY <1>4
  <2> HIDE DEF a, own
  <2>3. j \in 1..(n + 1) /\ i + a - 1 \in 1..n /\ i + a - 1 < j
    BY <2>1, <2>2, <1>0
  <2> HIDE DEF j
  <2>4. First(own(j), Duizend) = {}
    <3> SUFFICES ASSUME NEW k \in First(own(j), Duizend) PROVE FALSE
      OBVIOUS
    <3>1. k \in DOMAIN own(j) /\ own(j)[k] = Duizend
      BY DEF First
    <3>0. own(j) \in Seq(X) /\ Len(own(j)) = n - j + 1 /\ \A x \in 1..Len(own(j)) : own(j)[x] = parts[j + x - 1]
      BY <2>3, <1>2
    <3>2. k \in 1..Len(own(j)) /\ Len(own(j)) = n - j + 1 /\ parts[j + k - 1] = Duizend
      BY <3>0, <3>1
    <3>3. j + k - 1 \in 1..n /\ j + k - 1 # i + a - 1
      BY <3>2, <2>3, <1>0
    <3> QED BY <3>2, <3>3, <2>1, <2>3 DEF Once
  <2>5. f[j] = ReadOn(own(j), DutchHundreds(own(j + ThousandAt(own(j)))))
    BY <2>3 DEF own
  <2>6. f[j] = DutchHundreds(own(j))
    BY <2>4, <2>5 DEF ReadOn
  <2> QED BY <2>6 DEF j, a, own
<1>5. ASSUME NEW i \in 1..(n + 1) PROVE f[i] = ReadOn(own(i), f[i + ThousandAt(own(i))])
  <2>1. f[i] = ReadOn(own(i), DutchHundreds(own(i + ThousandAt(own(i)))))
    OBVIOUS
  <2> HIDE DEF f, own
  <2>2. CASE First(own(i), Duizend) = {}
    BY <2>1, <2>2 DEF ReadOn
  <2>3. CASE First(own(i), Duizend) # {} /\ ThousandAt(own(i)) = Len(own(i))
    BY <2>1, <2>3 DEF ReadOn, Beyond
  <2>4. CASE First(own(i), Duizend) # {} /\ ThousandAt(own(i)) # Len(own(i))
    BY <2>1, <2>4, <1>4
  <2> QED BY <2>2, <2>3, <2>4
<1>6. f = K(f)
  <2>1. K(f) = [i \in 1..(n + 1) |-> ReadOn(own(i), f[i + ThousandAt(own(i))])]
    OBVIOUS
  <2>2. f = [i \in 1..(n + 1) |-> f[i]]
    OBVIOUS
  <2> HIDE DEF f, own, K
  <2> QED BY <2>1, <2>2, <1>5
<1>7. from = K(from)
  <2> HIDE DEF f, K
  <2> QED BY <1>6
<1>8. \A i \in 1..(n + 1) : from[i] = ReadOn(own(i), from[i + ThousandAt(own(i))])
  <2>1. K(from) = [i \in 1..(n + 1) |-> ReadOn(own(i), from[i + ThousandAt(own(i))])]
    BY Zenon
  <2> HIDE DEF from, K, own
  <2> QED BY <2>1, <1>7
<1>9. own(1) = parts
  BY DEF From
<1> HIDE DEF from, K, f
<1>10. CASE First(parts, Duizend) = {}
  <2>1. from[1] = ReadOn(parts, from[1 + ThousandAt(parts)])
    BY <1>0, <1>8, <1>9
  <2> QED BY <2>1, <1>1, <1>10 DEF ReadOn
<1>11. CASE First(parts, Duizend) # {} /\ ThousandAt(parts) = Len(parts)
  <2>1. from[1] = ReadOn(parts, from[1 + ThousandAt(parts)])
    BY <1>0, <1>8, <1>9
  <2> QED BY <2>1, <1>1, <1>11 DEF ReadOn, Beyond
<1>12. CASE First(parts, Duizend) # {} /\ ThousandAt(parts) # Len(parts)
  <2> DEFINE a == ThousandAt(parts)
             j == 1 + a
  <2>1. a \in 1..n /\ parts[1 + a - 1] = Duizend
    BY <1>0, <1>3, <1>9, <1>12
  <2>2. a # n BY <1>12
  <2> HIDE DEF a
  <2>3. j \in 1..(n + 1) /\ a \in 1..n /\ a < j /\ parts[a] = Duizend
    BY <2>1, <2>2, <1>0
  <2> HIDE DEF j
  <2>4. First(own(j), Duizend) = {}
    <3> SUFFICES ASSUME NEW k \in First(own(j), Duizend) PROVE FALSE
      OBVIOUS
    <3>1. k \in DOMAIN own(j) /\ own(j)[k] = Duizend
      BY DEF First
    <3>2. k \in 1..Len(own(j)) /\ Len(own(j)) = n - j + 1 /\ parts[j + k - 1] = Duizend
      <4> HIDE DEF own
      <4> QED BY <3>1, <2>3, <1>2
    <3>3. j + k - 1 \in 1..n /\ j + k - 1 # a
      BY <3>2, <2>3, <1>0
    <3> QED BY <3>2, <3>3, <2>3 DEF Once
  <2>5. from[j] = ReadOn(own(j), from[j + ThousandAt(own(j))])
    BY <1>8, <2>3
  <2> HIDE DEF own
  <2>6. from[j] = DutchHundreds(own(j))
    BY <2>4, <2>5 DEF ReadOn
  <2>7. from[1] = ReadOn(parts, from[j])
    <3>1. from[1] = ReadOn(own(1), from[1 + ThousandAt(own(1))])
      BY <1>0, <1>8
    <3> QED BY <3>1, <1>9 DEF j, a
  <2> QED BY <1>1, <2>6, <2>7 DEF own, j, a
<1> QED BY <1>10, <1>11, <1>12

\* Of the words before a mark, the mark and the words after it.
Cut(p, mark, s) == (p \o <<mark>>) \o s

\* What stands where.
PutTogether(c, p, mark, s) ==
    /\ Len(c) = Len(p) + 1 + Len(s)
    /\ \A i \in 1..Len(p) : c[i] = p[i]
    /\ c[Len(p) + 1] = mark
    /\ \A i \in 1..Len(s) : c[Len(p) + 1 + i] = s[i]

\* The pieces stand in their order.
LEMMA CutAt ==
    ASSUME NEW X, NEW p \in Seq(X), NEW s \in Seq(X), NEW mark \in X
    PROVE  Cut(p, mark, s) \in Seq(X) /\ PutTogether(Cut(p, mark, s), p, mark, s)
<1> DEFINE n == Len(p)
           m == Len(s)
           c == Cut(p, mark, s)
           q == p \o <<mark>>
           k == Len(q)
<1>0. n \in Nat /\ m \in Nat
  OBVIOUS
<1>1. q \in Seq(X)
  OBVIOUS
<1>2. k = n + 1 /\ q[n + 1] = mark /\ \A i \in 1..n : q[i] = p[i]
  OBVIOUS
<1> HIDE DEF q
<1>3. /\ q \o s \in Seq(X) /\ Len(q \o s) = k + m
      /\ \A i \in 1..k : (q \o s)[i] = q[i]
      /\ \A i \in 1..m : (q \o s)[k + i] = s[i]
  BY <1>1
<1>4. c = q \o s
  BY DEF Cut, q
<1> HIDE DEF c, k
<1>5. /\ c \in Seq(X) /\ Len(c) = k + m
      /\ \A i \in 1..k : c[i] = q[i]
      /\ \A i \in 1..m : c[k + i] = s[i]
  BY <1>3, <1>4
<1> HIDE DEF m, n
<1>6. /\ Len(c) = n + 1 + m
      /\ \A i \in 1..n : c[i] = p[i]
      /\ c[n + 1] = mark
      /\ \A i \in 1..m : c[n + 1 + i] = s[i]
  BY <1>0, <1>2, <1>5
<1> QED BY <1>5, <1>6 DEF c, m, n, PutTogether

\* The mark stands first, and what is before and after it is what was put there.
IsCut(c, p, mark, s) ==
    /\ Len(c) = Len(p) + 1 + Len(s)
    /\ First(c, mark) = {Len(p) + 1}
    /\ SubSeq(c, 1, Len(p)) = p
    /\ SubSeq(c, Len(p) + 2, Len(c)) = s

\* The mark stands first where it is put, if it is not among the words before it.
LEMMA CutIs ==
    ASSUME NEW X, NEW p \in Seq(X), NEW s \in Seq(X), NEW mark \in X,
           \A i \in 1..Len(p) : p[i] # mark
    PROVE  Cut(p, mark, s) \in Seq(X) /\ IsCut(Cut(p, mark, s), p, mark, s)
<1> DEFINE n == Len(p)
           m == Len(s)
           c == Cut(p, mark, s)
<1>0. n \in Nat /\ m \in Nat
  OBVIOUS
<1>01. c \in Seq(X) /\ PutTogether(c, p, mark, s)
  BY CutAt
<1> HIDE DEF c
<1>1. /\ c \in Seq(X) /\ Len(c) = n + 1 + m
      /\ \A i \in 1..n : c[i] = p[i]
      /\ c[n + 1] = mark
      /\ \A i \in 1..m : c[n + 1 + i] = s[i]
  BY <1>01 DEF PutTogether
<1>2. First(c, mark) = {n + 1}
  <2>1. n + 1 \in First(c, mark)
    BY <1>0, <1>1 DEF First
  <2>2. ASSUME NEW i \in First(c, mark) PROVE i = n + 1
    <3>1. i \in 1..Len(c) /\ c[i] = mark /\ \A j \in 1..(i - 1) : c[j] # mark
      BY <1>1, <2>2 DEF First
    <3>2. ~(i <= n) BY <3>1, <1>1, <1>0
    <3>3. ~(i > n + 1) BY <3>1, <1>1, <1>0
    <3> QED BY <3>1, <3>2, <3>3, <1>0
  <2> QED BY <2>1, <2>2
<1>3. SubSeq(c, 1, n) = p
  <2>1. SubSeq(c, 1, n) \in Seq(X) /\ Len(SubSeq(c, 1, n)) = n /\ \A i \in 1..n : SubSeq(c, 1, n)[i] = c[i]
    BY <1>0, <1>1
  <2> QED BY <2>1, <1>0, <1>1
<1>4. SubSeq(c, n + 2, Len(c)) = s
  <2> DEFINE r == SubSeq(c, n + 2, n + 1 + m)
  <2>1. r \in Seq(X) /\ Len(r) = m /\ \A i \in 1..m : r[i] = c[(n + 2) + i - 1]
    BY <1>0, <1>1
  <2> HIDE DEF r
  <2>2. \A i \in 1..m : (n + 2) + i - 1 = n + 1 + i
    BY <1>0
  <2>3. \A i \in 1..m : r[i] = s[i]
    BY <2>1, <2>2, <1>1
  <2>4. r = s
    BY <2>1, <2>3, <1>0
  <2> QED BY <2>4, <1>1 DEF r
<1> QED BY <1>1, <1>2, <1>3, <1>4 DEF c, IsCut

\* Where the mark is not.
LEMMA NotThere ==
    ASSUME NEW X, NEW s \in Seq(X), NEW mark, \A i \in 1..Len(s) : s[i] # mark
    PROVE  First(s, mark) = {}
BY DEF First

\* Words with "honderd" are what is before it, a hundred times, and what is after it.
LEMMA HundredsRead ==
    ASSUME NEW c, First(c, Honderd) # {}
    PROVE  DutchHundreds(c) = {t * 100 + r : t \in TimesHundred(c), r \in BeyondHundred(c)}
BY DEF DutchHundreds

\* "honderd" once: what is before it, a hundred times, and what is after it.
LEMMA HundredsUnfold ==
    ASSUME NEW X, NEW p \in Seq(X), NEW s \in Seq(X), Honderd \in X,
           \A i \in 1..Len(p) : p[i] # Honderd, Len(p) <= 1,
           NEW t \in Nat, NEW r \in Nat,
           p = <<>> => t = 1,
           p # <<>> => p[1] \in DOMAIN DutchUnits /\ DutchUnits[p[1]] = t,
           s = <<>> => r = 0,
           s # <<>> => DutchSmall(s) = {r}
    PROVE  DutchHundreds(Cut(p, Honderd, s)) = {t * 100 + r}
<1> DEFINE c == Cut(p, Honderd, s)
           n == Len(p)
           at == HundredAt(c)
<1>0. c \in Seq(X) /\ IsCut(c, p, Honderd, s)
  BY CutIs
<1> HIDE DEF c
<1>1. /\ Len(c) = n + 1 + Len(s) /\ First(c, Honderd) = {n + 1}
      /\ SubSeq(c, 1, n) = p /\ SubSeq(c, n + 2, Len(c)) = s
  BY <1>0 DEF IsCut
<1>2. n \in Nat /\ Len(s) \in Nat /\ n <= 1 /\ (n = 0 <=> p = <<>>) /\ (Len(s) = 0 <=> s = <<>>)
  OBVIOUS
<1> HIDE DEF n
<1>21. n = 0 \/ n = 1
  BY <1>2
<1>3. at = n + 1
  BY <1>1 DEF HundredAt
<1>4. DutchHundreds(c) = {x * 100 + y : x \in TimesHundred(c), y \in BeyondHundred(c)}
  <2>1. First(c, Honderd) # {} BY <1>1
  <2> QED BY <2>1, HundredsRead
<1>5. TimesHundred(c) = {t}
  <2>0. n = 0 \/ n = 1 BY <1>21
  <2>1. CASE n = 0
    <3>1. at = 1 /\ t = 1 BY <2>1, <1>2, <1>3
    <3> QED BY <3>1 DEF TimesHundred
  <2>2. CASE n = 1
    <3>1. c[1] = p[1]
      <4>1. SubSeq(c, 1, 1)[1] = c[1] BY <1>0, <1>1, <1>2, <2>2
      <4> QED BY <4>1, <1>1, <2>2
    <3>2. at = 2 /\ p # <<>> BY <2>2, <1>2, <1>3
    <3> QED BY <3>1, <3>2 DEF TimesHundred
  <2> QED BY <2>0, <2>1, <2>2
<1>6. BeyondHundred(c) = {r}
  <2>1. CASE Len(s) = 0
    <3>1. at = Len(c) /\ r = 0 BY <2>1, <1>1, <1>2, <1>3
    <3> QED BY <3>1 DEF BeyondHundred
  <2>2. CASE Len(s) # 0
    <3>1. at # Len(c) /\ at + 1 = n + 2 BY <2>2, <1>1, <1>2, <1>3
    <3>2. DutchSmall(s) = {r} BY <2>2, <1>2
    <3> QED BY <3>1, <3>2, <1>1 DEF BeyondHundred
  <2> QED BY <2>1, <2>2
<1> DEFINE T == TimesHundred(c)
           R == BeyondHundred(c)
<1> HIDE DEF T, R
<1>7. {x * 100 + y : x \in T, y \in R} = {t * 100 + r}
  BY <1>5, <1>6 DEF T, R
<1> QED BY <1>4, <1>7 DEF c, T, R

\* A table read as a function.
LEMMA PairsAre ==
    ASSUME NEW f, NEW w, NEW i
    PROVE  /\ <<w, i>> \in AsPairs(f) => w \in DOMAIN f /\ f[w] = i
           /\ w \in DOMAIN f => w \in Firsts(AsPairs(f))
<1>1. ASSUME <<w, i>> \in AsPairs(f) PROVE w \in DOMAIN f /\ f[w] = i
  <2>1. PICK v \in DOMAIN f : <<w, i>> = <<v, f[v]>>
    BY <1>1 DEF AsPairs
  <2> QED BY <2>1
<1>2. ASSUME w \in DOMAIN f PROVE w \in Firsts(AsPairs(f))
  <2>1. <<w, f[w]>> \in AsPairs(f)
    BY <1>2 DEF AsPairs
  <2>2. <<w, f[w]>>[1] = w
    OBVIOUS
  <2> QED BY <2>1, <2>2 DEF Firsts
<1> QED BY <1>1, <1>2

\* The words that are none of numbers below a hundred.
Scales == {"duizend", "honderd"}

\* The words of the units, of the teens and of the tens are in their own tables only.
LEMMA UnitIs ==
    ASSUME NEW k \in 1..9
    PROVE  /\ <<MCUnit[k], k>> \in DUTCH_UNITS
           /\ MCUnit[k] \notin Firsts(DUTCH_TEENS) \cup Firsts(DUTCH_TENS) \cup Scales
<1>1. k = 1 \/ k = 2 \/ k = 3 \/ k = 4 \/ k = 5 \/ k = 6 \/ k = 7 \/ k = 8 \/ k = 9
  OBVIOUS
<1>2. <<MCUnit[k], k>> \in DUTCH_UNITS
  BY <1>1 DEF MCUnit, DUTCH_UNITS
<1>3. MCUnit[k] \notin Firsts(DUTCH_TEENS)
  BY <1>1 DEF MCUnit, DUTCH_TEENS, Firsts
<1>4. MCUnit[k] \notin Firsts(DUTCH_TENS)
  BY <1>1 DEF MCUnit, DUTCH_TENS, Firsts
<1>5. MCUnit[k] \notin Scales
  BY <1>1 DEF MCUnit, Scales
<1> QED BY <1>2, <1>3, <1>4, <1>5

\* A teen's word is in the table of the teens only.
LEMMA TeenIs ==
    ASSUME NEW k \in 10..19
    PROVE  /\ <<MCTeen[k], k>> \in DUTCH_TEENS
           /\ MCTeen[k] \notin Firsts(DUTCH_UNITS) \cup Firsts(DUTCH_TENS) \cup Scales
<1>1. k = 10 \/ k = 11 \/ k = 12 \/ k = 13 \/ k = 14 \/ k = 15 \/ k = 16 \/ k = 17 \/ k = 18 \/ k = 19
  OBVIOUS
<1>2. <<MCTeen[k], k>> \in DUTCH_TEENS
  BY <1>1 DEF MCTeen, DUTCH_TEENS
<1>3. MCTeen[k] \notin Firsts(DUTCH_UNITS)
  BY <1>1 DEF MCTeen, DUTCH_UNITS, Firsts
<1>4. MCTeen[k] \notin Firsts(DUTCH_TENS)
  BY <1>1 DEF MCTeen, DUTCH_TENS, Firsts
<1>5. MCTeen[k] \notin Scales
  BY <1>1 DEF MCTeen, Scales
<1> QED BY <1>2, <1>3, <1>4, <1>5

\* A ten's word is in the table of the tens only.
LEMMA TenIs ==
    ASSUME NEW q \in 2..9
    PROVE  /\ <<MCTen[10 * q], 10 * q>> \in DUTCH_TENS
           /\ MCTen[10 * q] \notin Firsts(DUTCH_UNITS) \cup Firsts(DUTCH_TEENS) \cup Scales
<1> DEFINE names == <<"twintig", "dertig", "veertig", "vijftig", "zestig", "zeventig", "tachtig", "negentig">>
<1>0. MCTen[10 * q] = names[((10 * q) \div 10) - 1]
  BY DEF MCTen
<1>01. ((10 * q) \div 10) - 1 = q - 1
  OBVIOUS
<1>1. MCTen[10 * q] = names[q - 1]
  BY <1>0, <1>01
<1>2. q = 2 \/ q = 3 \/ q = 4 \/ q = 5 \/ q = 6 \/ q = 7 \/ q = 8 \/ q = 9
  OBVIOUS
<1>3. <<names[q - 1], 10 * q>> \in DUTCH_TENS
  BY <1>2 DEF DUTCH_TENS
<1>4. names[q - 1] \notin Firsts(DUTCH_UNITS)
  BY <1>2 DEF DUTCH_UNITS, Firsts
<1>5. names[q - 1] \notin Firsts(DUTCH_TEENS)
  BY <1>2 DEF DUTCH_TEENS, Firsts
<1>6. names[q - 1] \notin Scales
  BY <1>2 DEF Scales
<1> HIDE DEF names
<1> QED BY <1>1, <1>3, <1>4, <1>5, <1>6

\* A word of one table only is read as the table has it.
LEMMA OneWord ==
    ASSUME NEW f \in {DutchUnits, DutchTeens, DutchTens}, NEW w, w \in DOMAIN f,
           \A g \in {DutchUnits, DutchTeens, DutchTens} : w \in DOMAIN g => g = f
    PROVE  DutchSmall(<<w>>) = {f[w]}
<1> DEFINE U == {u \in {DutchUnits, DutchTeens, DutchTens} : w \in DOMAIN u}
<1>1. U = {f}
  OBVIOUS
<1>2. Len(<<w>>) = 1 /\ <<w>>[1] = w
  OBVIOUS
<1>3. DutchSmall(<<w>>) = {t[w] : t \in U}
  BY <1>2 DEF DutchSmall
<1> HIDE DEF U
<1> QED BY <1>1, <1>3

\* What the tables read.
LEMMA UnitReads ==
    ASSUME NEW k \in 1..9
    PROVE  /\ MCUnit[k] \in DOMAIN DutchUnits /\ DutchUnits[MCUnit[k]] = k
           /\ MCUnit[k] \notin DOMAIN DutchTeens /\ MCUnit[k] \notin DOMAIN DutchTens
           /\ MCUnit[k] # Duizend /\ MCUnit[k] # Honderd
BY UnitIs, PairsAre, FigureTables DEF Scales

\* What the tables read of a teen's word.
LEMMA TeenReads ==
    ASSUME NEW k \in 10..19
    PROVE  /\ MCTeen[k] \in DOMAIN DutchTeens /\ DutchTeens[MCTeen[k]] = k
           /\ MCTeen[k] \notin DOMAIN DutchUnits /\ MCTeen[k] \notin DOMAIN DutchTens
           /\ MCTeen[k] # Duizend /\ MCTeen[k] # Honderd
BY TeenIs, PairsAre, FigureTables DEF Scales

\* What the tables read of a ten's word.
LEMMA TenReads ==
    ASSUME NEW q \in 2..9
    PROVE  /\ MCTen[10 * q] \in DOMAIN DutchTens /\ DutchTens[MCTen[10 * q]] = 10 * q
           /\ MCTen[10 * q] \notin DOMAIN DutchUnits /\ MCTen[10 * q] \notin DOMAIN DutchTeens
           /\ MCTen[10 * q] # Duizend /\ MCTen[10 * q] # Honderd
BY TenIs, PairsAre, FigureTables DEF Scales

-----------------------------------------------------------------------------
(* Dutch numbers as they are written *)

\* The words of a number below a hundred, and of one below a thousand.
Small(k) ==
    IF k = 0 THEN <<>> ELSE IF k < 10 THEN <<MCUnit[k]>> ELSE IF k < 20 THEN <<MCTeen[k]>>
    ELSE IF k % 10 = 0 THEN <<MCTen[k]>> ELSE <<MCUnit[k % 10], "en", MCTen[k - (k % 10)]>>

Multiplier(k) == IF k = 1 THEN <<>> ELSE <<MCUnit[k]>>

Hundreds(k) == IF k \div 100 = 0 THEN Small(k % 100) ELSE Cut(Multiplier(k \div 100), Honderd, Small(k % 100))

\* The words there are.
DutchWords ==
    {MCUnit[k] : k \in 1..9} \cup {MCTeen[k] : k \in 10..19} \cup {MCTen[10 * q] : q \in 2..9}
        \cup {"en", Honderd, Duizend}

\* Words without a mark.
Without(s, mark) == \A i \in 1..Len(s) : s[i] # mark

\* The marks are apart.
LEMMA ScalesDiffer == "en" # Honderd /\ "en" # Duizend /\ Honderd # Duizend
BY FigureTables

\* A number of two figures is its ten and its unit.
LEMMA TwoFigures ==
    ASSUME NEW k \in 20..99
    PROVE  \E q \in 2..9, r \in 0..9 : k = 10 * q + r /\ k % 10 = r
<1>1. k \div 10 \in 2..9 /\ k % 10 \in 0..9 /\ k = 10 * (k \div 10) + (k % 10)
  OBVIOUS
<1> QED BY <1>1

\* What Small writes, by the number's size.
LEMMA SmallIs ==
    /\ Small(0) = <<>>
    /\ \A k \in 1..9 : Small(k) = <<MCUnit[k]>>
    /\ \A k \in 10..19 : Small(k) = <<MCTeen[k]>>
    /\ \A q \in 2..9 : Small(10 * q) = <<MCTen[10 * q]>>
    /\ \A q \in 2..9, r \in 1..9 : Small(10 * q + r) = <<MCUnit[r], "en", MCTen[10 * q]>>
<1>1. ASSUME NEW k \in 1..9 PROVE Small(k) = <<MCUnit[k]>>
  BY DEF Small
<1>2. ASSUME NEW k \in 10..19 PROVE Small(k) = <<MCTeen[k]>>
  BY DEF Small
<1>3. ASSUME NEW q \in 2..9 PROVE Small(10 * q) = <<MCTen[10 * q]>>
  <2>1. ~(10 * q = 0) /\ ~(10 * q < 10) /\ ~(10 * q < 20) /\ (10 * q) % 10 = 0
    OBVIOUS
  <2> QED BY <2>1 DEF Small
<1>4. ASSUME NEW q \in 2..9, NEW r \in 1..9 PROVE Small(10 * q + r) = <<MCUnit[r], "en", MCTen[10 * q]>>
  <2> DEFINE k == 10 * q + r
  <2>1. ~(k = 0) /\ ~(k < 10) /\ ~(k < 20) /\ k % 10 = r /\ k - r = 10 * q /\ r # 0
    OBVIOUS
  <2> HIDE DEF k
  <2>2. Small(k) = <<MCUnit[r], "en", MCTen[k - r]>>
    BY <2>1 DEF Small
  <2> QED BY <2>1, <2>2 DEF k
<1>5. Small(0) = <<>>
  BY DEF Small
<1> QED BY <1>1, <1>2, <1>3, <1>4, <1>5

\* Below a hundred, what is written is words, and is read as the number.
SmallFits(k) ==
    /\ Small(k) \in Seq(DutchWords) /\ Without(Small(k), Honderd) /\ Without(Small(k), Duizend)
    /\ k = 0 => Small(k) = <<>>
    /\ k # 0 => Small(k) # <<>> /\ DutchSmall(Small(k)) = {k}

\* A number below a hundred is read as it is written.
LEMMA SmallReads == ASSUME NEW k \in 0..99 PROVE SmallFits(k)
<1>0. /\ \A j \in 1..9 : MCUnit[j] \in DutchWords
      /\ \A j \in 10..19 : MCTeen[j] \in DutchWords
      /\ \A q \in 2..9 : MCTen[10 * q] \in DutchWords
      /\ "en" \in DutchWords
  BY DEF DutchWords
<1>1. CASE k = 0
  <2>1. Small(k) = <<>> BY <1>1, SmallIs
  <2>2. <<>> \in Seq(DutchWords) OBVIOUS
  <2>3. Without(Small(k), Honderd) /\ Without(Small(k), Duizend)
    BY <2>1 DEF Without
  <2> QED BY <1>1, <2>1, <2>2, <2>3 DEF SmallFits
<1>2. CASE k \in 1..9
  <2>0. k # 0 BY <1>2
  <2>1. Small(k) = <<MCUnit[k]>> BY <1>2, SmallIs
  <2>2. DutchSmall(<<MCUnit[k]>>) = {DutchUnits[MCUnit[k]]}
    BY <1>2, UnitReads, OneWord
  <2>3. DutchSmall(<<MCUnit[k]>>) = {k} BY <1>2, <2>2, UnitReads
  <2>4. MCUnit[k] # Honderd /\ MCUnit[k] # Duizend BY <1>2, UnitReads
  <2>5. <<MCUnit[k]>> \in Seq(DutchWords) /\ <<MCUnit[k]>> # <<>> BY <1>0, <1>2
  <2> QED BY <2>0, <2>1, <2>3, <2>4, <2>5 DEF SmallFits, Without
<1>3. CASE k \in 10..19
  <2>0. k # 0 BY <1>3
  <2>1. Small(k) = <<MCTeen[k]>> BY <1>3, SmallIs
  <2>2. DutchSmall(<<MCTeen[k]>>) = {DutchTeens[MCTeen[k]]}
    BY <1>3, TeenReads, OneWord
  <2>3. DutchSmall(<<MCTeen[k]>>) = {k} BY <1>3, <2>2, TeenReads
  <2>4. MCTeen[k] # Honderd /\ MCTeen[k] # Duizend BY <1>3, TeenReads
  <2>5. <<MCTeen[k]>> \in Seq(DutchWords) /\ <<MCTeen[k]>> # <<>> BY <1>0, <1>3
  <2> QED BY <2>0, <2>1, <2>3, <2>4, <2>5 DEF SmallFits, Without
<1>4. CASE k \in 20..99
  <2>0. PICK q \in 2..9, r \in 0..9 : k = 10 * q + r BY <1>4, TwoFigures
  <2>1. /\ MCTen[10 * q] \in DOMAIN DutchTens /\ DutchTens[MCTen[10 * q]] = 10 * q
        /\ MCTen[10 * q] # Honderd /\ MCTen[10 * q] # Duizend /\ MCTen[10 * q] \in DutchWords
    BY <1>0, TenReads
  <2>2. CASE r = 0
    <3>1. k = 10 * q /\ k # 0 BY <2>0, <2>2
    <3>2. Small(k) = <<MCTen[k]>> BY <3>1, SmallIs
    <3>3. DutchSmall(<<MCTen[k]>>) = {DutchTens[MCTen[k]]}
      BY <3>1, TenReads, OneWord
    <3>4. DutchSmall(<<MCTen[k]>>) = {k} BY <3>1, <3>3, <2>1
    <3>5. <<MCTen[k]>> \in Seq(DutchWords) /\ <<MCTen[k]>> # <<>> BY <2>1, <3>1
    <3>6. Without(<<MCTen[k]>>, Honderd) /\ Without(<<MCTen[k]>>, Duizend)
      BY <2>1, <3>1 DEF Without
    <3> QED BY <3>1, <3>2, <3>4, <3>5, <3>6 DEF SmallFits
  <2>3. CASE r # 0
    <3> DEFINE u == MCUnit[r]
               t == MCTen[10 * q]
               s == <<u, "en", t>>
    <3>0. r \in 1..9 /\ k # 0 BY <2>0, <2>3, <1>4
    <3>1. Small(k) = s BY <2>0, <3>0, SmallIs
    <3>2. u \in DOMAIN DutchUnits /\ DutchUnits[u] = r /\ u # Honderd /\ u # Duizend /\ u \in DutchWords
      BY <1>0, <3>0, UnitReads
    <3> HIDE DEF u, t
    <3>3. Len(s) = 3 /\ s[1] = u /\ s[2] = "en" /\ s[3] = t
      OBVIOUS
    <3>4. s \in Seq(DutchWords) /\ s # <<>>
      BY <1>0, <2>1, <3>2 DEF t
    <3> HIDE DEF s
    <3>5. DutchSmall(s) = {DutchUnits[u] + DutchTens[t]}
      BY <2>1, <3>2, <3>3, FigureTables DEF DutchSmall, t
    <3>6. DutchSmall(s) = {k}
      BY <2>0, <2>1, <3>2, <3>5 DEF t
    <3>7. Without(s, Honderd) /\ Without(s, Duizend)
      BY <2>1, <3>2, <3>3, ScalesDiffer DEF Without, t
    <3> QED BY <3>0, <3>1, <3>4, <3>6, <3>7 DEF SmallFits
  <2> QED BY <2>2, <2>3
<1> QED BY <1>1, <1>2, <1>3, <1>4

\* Words with neither mark, or with "honderd" once: never with "duizend".
HundredsFit(k) ==
    /\ Hundreds(k) \in Seq(DutchWords) /\ Without(Hundreds(k), Duizend)
    /\ k = 0 => Hundreds(k) = <<>>
    /\ k # 0 => Hundreds(k) # <<>> /\ DutchHundreds(Hundreds(k)) = {k}

\* What is before "honderd" is no mark.
MultiplierFits(k) ==
    /\ Multiplier(k) \in Seq(DutchWords) /\ Len(Multiplier(k)) <= 1
    /\ Without(Multiplier(k), Honderd) /\ Without(Multiplier(k), Duizend)
    /\ Multiplier(k) = <<>> => k = 1
    /\ Multiplier(k) # <<>> => Multiplier(k)[1] \in DOMAIN DutchUnits /\ DutchUnits[Multiplier(k)[1]] = k

\* A count of hundreds is read as it is written.
LEMMA MultiplierReads == ASSUME NEW k \in 1..9 PROVE MultiplierFits(k)
<1>1. CASE k = 1
  <2>1. Multiplier(k) = <<>> BY <1>1 DEF Multiplier
  <2>2. <<>> \in Seq(DutchWords) /\ Len(<<>>) = 0 OBVIOUS
  <2>3. Without(<<>>, Honderd) /\ Without(<<>>, Duizend) BY <2>2 DEF Without
  <2>4. MultiplierFits(k) <=>
          /\ <<>> \in Seq(DutchWords) /\ Len(<<>>) <= 1
          /\ Without(<<>>, Honderd) /\ Without(<<>>, Duizend)
          /\ k = 1
    BY <2>1 DEF MultiplierFits
  <2> QED BY <1>1, <2>2, <2>3, <2>4
<1>2. CASE k # 1
  <2> DEFINE u == MCUnit[k]
  <2>1. Multiplier(k) = <<u>> BY <1>2 DEF Multiplier
  <2>2. u \in DOMAIN DutchUnits /\ DutchUnits[u] = k /\ u # Honderd /\ u # Duizend
    BY UnitReads
  <2>3. u \in DutchWords BY DEF DutchWords
  <2> HIDE DEF u
  <2>4. <<u>> \in Seq(DutchWords) /\ <<u>> # <<>> /\ Len(<<u>>) = 1 /\ <<u>>[1] = u BY <2>3
  <2>5. Without(<<u>>, Honderd) /\ Without(<<u>>, Duizend) BY <2>2, <2>4 DEF Without
  <2> QED BY <2>1, <2>2, <2>4, <2>5 DEF MultiplierFits
<1> QED BY <1>1, <1>2

\* Three pieces that are each without a mark make a whole without it.
LEMMA CutWithout ==
    ASSUME NEW X, NEW p \in Seq(X), NEW s \in Seq(X), NEW mark \in X, NEW bar,
           Without(p, bar), Without(s, bar), mark # bar
    PROVE  Cut(p, mark, s) \in Seq(X) /\ Cut(p, mark, s) # <<>> /\ Without(Cut(p, mark, s), bar)
<1> DEFINE n == Len(p)
           m == Len(s)
           c == Cut(p, mark, s)
<1>0. n \in Nat /\ m \in Nat
  OBVIOUS
<1>01. c \in Seq(X) /\ PutTogether(c, p, mark, s)
  BY CutAt
<1> HIDE DEF c
<1>2. /\ c \in Seq(X) /\ Len(c) = n + 1 + m
      /\ \A i \in 1..n : c[i] = p[i]
      /\ c[n + 1] = mark
      /\ \A i \in 1..m : c[n + 1 + i] = s[i]
  BY <1>01 DEF PutTogether
<1>3. ASSUME NEW i \in 1..(n + 1 + m) PROVE c[i] # bar
  <2>1. CASE i <= n
    BY <1>0, <1>2, <2>1 DEF Without
  <2>2. CASE i = n + 1
    BY <1>0, <1>2, <2>2
  <2>3. CASE i > n + 1
    <3> DEFINE j == i - (n + 1)
    <3>1. j \in 1..m /\ i = n + 1 + j BY <1>0, <2>3
    <3> HIDE DEF j
    <3> QED BY <1>2, <3>1 DEF Without
  <2> QED BY <1>0, <2>1, <2>2, <2>3
<1>4. c # <<>>
  BY <1>0, <1>2
<1> QED BY <1>2, <1>3, <1>4 DEF c, Without

\* Below a thousand, and below a million and above nothing.
BelowThousand(k) == k \in 0..999

BelowMillion(n) == n \in Nat /\ 0 < n /\ n \div 1000 < 1000

\* A number below a thousand is read as it is written.
LEMMA HundredsReadBack == ASSUME NEW k, BelowThousand(k) PROVE HundredsFit(k)
<1> DEFINE h == k \div 100
           r == k % 100
<1>1. h \in 0..9 /\ r \in 0..99 /\ k = h * 100 + r
  BY DEF BelowThousand
<1>2. Hundreds(k) = IF h = 0 THEN Small(r) ELSE Cut(Multiplier(h), Honderd, Small(r))
  BY DEF Hundreds
<1> HIDE DEF h, r
<1>3. SmallFits(r)
  BY <1>1, SmallReads
<1>4. CASE h = 0
  <2>1. Hundreds(k) = Small(r) /\ k = r BY <1>1, <1>2, <1>4
  <2>2. First(Small(r), Honderd) = {}
    BY <1>3, NotThere DEF SmallFits, Without
  <2>3. DutchHundreds(Small(r)) = DutchSmall(Small(r))
    BY <2>2 DEF DutchHundreds
  <2> QED BY <1>3, <2>1, <2>3 DEF SmallFits, HundredsFit
<1>5. CASE h # 0
  <2> DEFINE p == Multiplier(h)
             s == Small(r)
             c == Cut(p, Honderd, s)
  <2>1. Hundreds(k) = c /\ h \in 1..9 /\ k # 0 BY <1>1, <1>2, <1>5
  <2>2. MultiplierFits(h) BY <2>1, MultiplierReads
  <2>3. Honderd \in DutchWords /\ Honderd # Duizend BY ScalesDiffer DEF DutchWords
  <2>4. /\ p \in Seq(DutchWords) /\ Without(p, Honderd) /\ Without(p, Duizend) /\ Len(p) <= 1
        /\ p = <<>> => h = 1
        /\ p # <<>> => p[1] \in DOMAIN DutchUnits /\ DutchUnits[p[1]] = h
    BY <2>2 DEF MultiplierFits
  <2>5. /\ s \in Seq(DutchWords) /\ Without(s, Duizend)
        /\ s = <<>> => r = 0
        /\ s # <<>> => DutchSmall(s) = {r}
    BY <1>3 DEF SmallFits
  <2> HIDE DEF p, s
  <2>6. DutchHundreds(Cut(p, Honderd, s)) = {h * 100 + r}
    <3>1. h \in Nat /\ r \in Nat BY <1>1
    <3> QED BY <2>3, <2>4, <2>5, <3>1, HundredsUnfold DEF Without
  <2>7. c \in Seq(DutchWords) /\ c # <<>> /\ Without(c, Duizend)
    BY <2>3, <2>4, <2>5, CutWithout
  <2> HIDE DEF c
  <2>8. DutchHundreds(c) = {k} BY <2>6, <1>1 DEF c
  <2> QED BY <2>1, <2>7, <2>8 DEF HundredsFit
<1> QED BY <1>4, <1>5

\* What is before "duizend".
ThousandsOf(n) == IF n < 2000 THEN <<>> ELSE Hundreds(n \div 1000)

Dutch(n) == IF n < 1000 THEN Hundreds(n) ELSE Cut(ThousandsOf(n), Duizend, Hundreds(n % 1000))

\* A number below a million is read as it is written.
LEMMA DutchReadBack ==
    ASSUME NEW n, BelowMillion(n)
    PROVE  DutchNumber(Dutch(n)) = {n}
<1>00. n \in Nat /\ 0 < n /\ n \div 1000 < 1000
  BY DEF BelowMillion
<1>0. n < 1000 \/ n >= 1000
  BY <1>00
<1>1. CASE n < 1000
  <2> DEFINE c == Hundreds(n)
  <2>1. Dutch(n) = c BY <1>1 DEF Dutch
  <2>2. n \in 0..999 /\ n # 0 BY <1>00, <1>1
  <2>21. HundredsFit(n)
    <3>1. BelowThousand(n) BY <2>2 DEF BelowThousand
    <3> QED BY <3>1, HundredsReadBack
  <2>3. c \in Seq(DutchWords) /\ Without(c, Duizend) /\ DutchHundreds(c) = {n}
    BY <2>2, <2>21 DEF HundredsFit
  <2> HIDE DEF c
  <2>4. First(c, Duizend) = {} BY <2>3, NotThere DEF Without
  <2>5. Once(c) BY <2>3 DEF Once, Without
  <2>6. DutchNumber(c) = ReadOn(c, DutchHundreds(From(c, 1 + ThousandAt(c))))
    BY <2>3, <2>5, ThousandsUnfold
  <2>7. DutchNumber(c) = DutchHundreds(c) BY <2>4, <2>6 DEF ReadOn
  <2> QED BY <2>1, <2>3, <2>7
<1>2. CASE n >= 1000
  <2> DEFINE t == n \div 1000
             r == n % 1000
             p == ThousandsOf(n)
             s == Hundreds(r)
             c == Cut(p, Duizend, s)
  <2>1. t \in 1..999 /\ r \in 0..999 /\ n = t * 1000 + r /\ (n < 2000 <=> t = 1)
    BY <1>00, <1>2
  <2>01. ~(n < 1000) BY <1>00, <1>2
  <2>2. Dutch(n) = c BY <2>01 DEF Dutch
  <2>3. p = IF t = 1 THEN <<>> ELSE Hundreds(t) BY <2>1 DEF ThousandsOf
  <2> HIDE DEF t, r
  <2>4. HundredsFit(t) /\ HundredsFit(r)
    <3>1. BelowThousand(t) /\ BelowThousand(r) BY <2>1 DEF BelowThousand
    <3> QED BY <3>1, HundredsReadBack
  <2>5. /\ p \in Seq(DutchWords) /\ Without(p, Duizend)
        /\ p = <<>> => t = 1
        /\ p # <<>> => DutchHundreds(p) = {t}
    <3>1. CASE t = 1
      <4>1. p = <<>> BY <3>1, <2>3
      <4>2. <<>> \in Seq(DutchWords) /\ Len(<<>>) = 0 OBVIOUS
      <4> HIDE DEF p
      <4> QED BY <3>1, <4>1, <4>2 DEF Without
    <3>2. CASE t # 1
      <4>1. p = Hundreds(t) /\ t # 0 BY <2>1, <2>3, <3>2
      <4> HIDE DEF p
      <4> QED BY <4>1, <2>4 DEF HundredsFit
    <3> QED BY <3>1, <3>2
  <2>6. /\ s \in Seq(DutchWords) /\ Without(s, Duizend)
        /\ s = <<>> => r = 0
        /\ s # <<>> => DutchHundreds(s) = {r}
    BY <2>4 DEF HundredsFit
  <2> HIDE DEF p, s
  <2>7. Duizend \in DutchWords BY DEF DutchWords
  <2>8. c \in Seq(DutchWords) /\ IsCut(c, p, Duizend, s)
    BY <2>5, <2>6, <2>7, CutIs DEF Without
  <2> DEFINE k == Len(p)
             m == Len(s)
             at == ThousandAt(c)
  <2> HIDE DEF c
  <2>9. /\ Len(c) = k + 1 + m /\ First(c, Duizend) = {k + 1}
        /\ SubSeq(c, 1, k) = p /\ SubSeq(c, k + 2, Len(c)) = s
    BY <2>8 DEF IsCut
  <2>10. k \in Nat /\ m \in Nat /\ (k = 0 <=> p = <<>>) /\ (m = 0 <=> s = <<>>)
    BY <2>5, <2>6
  <2>11. at = k + 1 BY <2>9 DEF ThousandAt
  <2>12. Once(c)
    <3> SUFFICES ASSUME NEW i \in 1..Len(c), c[i] = Duizend PROVE i = k + 1
      BY DEF Once
    <3>0. Len(c) = k + 1 + m BY <2>9
    <3>1. CASE i <= k
      <4>1. SubSeq(c, 1, k)[i] = c[i] BY <2>8, <2>10, <3>0, <3>1
      <4> QED BY <4>1, <2>9, <2>5, <2>10, <3>1 DEF Without
    <3>2. CASE i > k + 1
      <4> DEFINE j == i - (k + 1)
      <4>1. j \in 1..m /\ (k + 2) + j - 1 = i BY <3>0, <3>2, <2>10
      <4> HIDE DEF j
      <4>2. SubSeq(c, k + 2, Len(c))[j] = c[(k + 2) + j - 1] BY <2>8, <2>10, <3>0, <4>1
      <4>3. SubSeq(c, k + 2, Len(c)) = s BY <2>9
      <4>4. s[j] = c[i] BY <4>1, <4>2, <4>3
      <4>5. s[j] # Duizend BY <4>1, <2>6 DEF Without
      <4> QED BY <4>4, <4>5
    <3> QED BY <3>1, <3>2, <2>10
  <2>13. DutchNumber(c) = ReadOn(c, DutchHundreds(From(c, 1 + at)))
    BY <2>8, <2>12, ThousandsUnfold
  <2>14. TimesThousand(c) = {t}
    <3>1. CASE k = 0
      <4>1. at = 1 /\ t = 1 BY <3>1, <2>5, <2>10, <2>11
      <4> QED BY <4>1 DEF TimesThousand
    <3>2. CASE k # 0
      <4>1. at # 1 /\ at - 1 = k /\ p # <<>> BY <3>2, <2>10, <2>11
      <4>2. DutchHundreds(p) = {t} BY <4>1, <2>5
      <4> DEFINE x == SubSeq(c, 1, at - 1)
      <4>3. x = p BY <4>1, <2>9
      <4>4. TimesThousand(c) = DutchHundreds(x) BY <4>1 DEF TimesThousand
      <4> HIDE DEF x
      <4> QED BY <4>2, <4>3, <4>4
    <3> QED BY <3>1, <3>2
  <2>15. Beyond(c, DutchHundreds(From(c, 1 + at))) = {r}
    <3>1. CASE m = 0
      <4>1. at = Len(c) /\ r = 0 BY <3>1, <2>6, <2>9, <2>10, <2>11
      <4> QED BY <4>1 DEF Beyond
    <3>2. CASE m # 0
      <4>1. at # Len(c) /\ 1 + at = k + 2 BY <3>2, <2>9, <2>10, <2>11
      <4>2. From(c, k + 2) = s BY <2>9 DEF From
      <4>3. DutchHundreds(s) = {r} BY <3>2, <2>6, <2>10
      <4> QED BY <4>1, <4>2, <4>3 DEF Beyond
    <3> QED BY <3>1, <3>2
  <2>16. First(c, Duizend) # {} BY <2>9
  <2> DEFINE T == TimesThousand(c)
             R == Beyond(c, DutchHundreds(From(c, 1 + at)))
  <2>17. DutchNumber(c) = {x * 1000 + y : x \in T, y \in R}
    BY <2>13, <2>16 DEF ReadOn
  <2> HIDE DEF T, R
  <2>18. {x * 1000 + y : x \in T, y \in R} = {t * 1000 + r}
    BY <2>14, <2>15 DEF T, R
  <2>19. DutchNumber(c) = {n} BY <2>1, <2>17, <2>18
  <2> QED BY <2>2, <2>19
<1> QED BY <1>0, <1>1, <1>2

\* How the words are put together is how the reading takes them apart.
LEMMA EmptyBefore ==
    ASSUME NEW X, NEW s \in Seq(X), NEW mark
    PROVE  <<>> \o s = s /\ <<mark>> \o s = Cut(<<>>, mark, s)
<1>1. <<>> \o s = s
  OBVIOUS
<1>2. <<>> \o <<mark>> = <<mark>>
  OBVIOUS
<1> QED BY <1>1, <1>2 DEF Cut

\* Below a thousand, the property's words are those that are read back.
LEMMA WrittenBelowThousand ==
    ASSUME NEW k, BelowThousand(k)
    PROVE  (IF k \div 100 = 0 THEN <<>> ELSE IF k \div 100 = 1 THEN <<Honderd>>
            ELSE <<MCUnit[k \div 100], Honderd>>) \o Small(k % 100) = Hundreds(k)
<1> DEFINE h == k \div 100
           s == Small(k % 100)
           e == IF h = 0 THEN <<>> ELSE IF h = 1 THEN <<Honderd>> ELSE <<MCUnit[h], Honderd>>
<1> SUFFICES e \o s = Hundreds(k)
  OBVIOUS
<1>0. k % 100 \in 0..99
  BY DEF BelowThousand
<1>1. s \in Seq(DutchWords)
  BY <1>0, SmallReads DEF SmallFits
<1>2. Hundreds(k) = IF h = 0 THEN s ELSE Cut(Multiplier(h), Honderd, s)
  BY DEF Hundreds
<1>3. <<>> \o s = s /\ <<Honderd>> \o s = Cut(<<>>, Honderd, s)
  BY <1>1, EmptyBefore
<1>4. <<MCUnit[h], Honderd>> = <<MCUnit[h]>> \o <<Honderd>>
  OBVIOUS
<1> HIDE DEF s, h
<1>5. CASE h = 0
  BY <1>2, <1>3, <1>5
<1>6. CASE h = 1
  <2>1. Multiplier(h) = <<>> BY <1>6 DEF Multiplier
  <2> QED BY <1>2, <1>3, <1>6, <2>1
<1>7. CASE h # 0 /\ h # 1
  <2>1. Multiplier(h) = <<MCUnit[h]>> BY <1>7 DEF Multiplier
  <2>2. e = <<MCUnit[h]>> \o <<Honderd>> BY <1>4, <1>7
  <2> QED BY <1>2, <1>7, <2>1, <2>2 DEF Cut
<1> QED BY <1>5, <1>6, <1>7

\* Below a million, the property's words are those that are read back.
LEMMA WrittenIsDutch ==
    ASSUME NEW n, BelowMillion(n)
    PROVE  DutchWritten(n, MCUnit, MCTeen, MCTen, "en") = Dutch(n)
<1> DEFINE hundreds(k) == (IF k \div 100 = 0 THEN <<>> ELSE IF k \div 100 = 1 THEN <<Honderd>>
                           ELSE <<MCUnit[k \div 100], Honderd>>) \o Small(k % 100)
<1>00. n \in Nat /\ 0 < n /\ n \div 1000 < 1000
  BY DEF BelowMillion
<1>0. n < 1000 \/ (~(n < 1000) /\ n < 2000) \/ (~(n < 1000) /\ ~(n < 2000))
  BY <1>00
<1>1. DutchWritten(n, MCUnit, MCTeen, MCTen, "en")
        = (IF n < 1000 THEN <<>> ELSE IF n < 2000 THEN <<Duizend>> ELSE hundreds(n \div 1000) \o <<Duizend>>)
            \o hundreds(n % 1000)
  BY DEF DutchWritten, Small
<1>2. n % 1000 \in 0..999 /\ n \div 1000 \in 0..999 /\ (n < 1000 => n % 1000 = n)
  BY <1>00
<1>21. BelowThousand(n % 1000) /\ BelowThousand(n \div 1000)
  BY <1>2 DEF BelowThousand
<1>3. ASSUME NEW k, BelowThousand(k) PROVE hundreds(k) = Hundreds(k)
  BY <1>3, WrittenBelowThousand
<1> HIDE DEF hundreds
<1> DEFINE s == Hundreds(n % 1000)
           p == Hundreds(n \div 1000)
<1>31. HundredsFit(n % 1000)
  BY <1>21, HundredsReadBack
<1>4. s \in Seq(DutchWords)
  BY <1>31 DEF HundredsFit
<1>5. <<>> \o s = s /\ <<Duizend>> \o s = Cut(<<>>, Duizend, s)
  BY <1>4, EmptyBefore
<1> SUFFICES DutchWritten(n, MCUnit, MCTeen, MCTen, "en") = Dutch(n)
  OBVIOUS
<1> DEFINE w == DutchWritten(n, MCUnit, MCTeen, MCTen, "en")
           lead == hundreds(n \div 1000)
           rest == hundreds(n % 1000)
<1>51. lead = p /\ rest = s
  BY <1>21, <1>3
<1>52. w = (IF n < 1000 THEN <<>> ELSE IF n < 2000 THEN <<Duizend>> ELSE lead \o <<Duizend>>) \o rest
  BY <1>1, Zenon
<1> HIDE DEF w, lead, rest, p, s
<1>61. n < 1000 => w = <<>> \o s
  BY <1>51, <1>52
<1>62. ~(n < 1000) /\ n < 2000 => w = <<Duizend>> \o s
  BY <1>51, <1>52
<1>63. ~(n < 1000) /\ ~(n < 2000) => w = (p \o <<Duizend>>) \o s
  BY <1>51, <1>52
<1> USE DEF p, s
<1>7. Dutch(n) = IF n < 1000 THEN Hundreds(n)
                 ELSE Cut(IF n < 2000 THEN <<>> ELSE p, Duizend, s)
  BY DEF Dutch, ThousandsOf
<1>8. n < 1000 => Hundreds(n) = s
  BY <1>2
<1> HIDE DEF s, p, w
<1>9. CASE n < 1000
  BY <1>5, <1>61, <1>7, <1>8, <1>9 DEF w
<1>10. CASE ~(n < 1000) /\ n < 2000
  BY <1>5, <1>62, <1>7, <1>10 DEF w
<1>11. CASE ~(n < 1000) /\ ~(n < 2000)
  BY <1>63, <1>7, <1>11 DEF w, Cut
<1> QED BY <1>0, <1>9, <1>10, <1>11

\* A Dutch number in words is read as the number it was written for: units before
\* tens, "honderd" and "duizend" with no "een" before them, for every number below a
\* million (answer/verify_guards_model.py, _parse_dutch_number).
THEOREM DutchNumbersAreRead ==
    ASSUME NEW n, BelowMillion(n)
    PROVE  DutchNumber(DutchWritten(n, MCUnit, MCTeen, MCTen, "en")) = {n}
BY WrittenIsDutch, DutchReadBack

-----------------------------------------------------------------------------
(* The figures of the rules' run *)

\* The pieces of a number make a spelling.
LEMMA PiecesSpell ==
    ASSUME NEW s \in Seq(Groupings), s # <<>>
    PROVE  Spelling(SpellingOf(s))
<1> DEFINE n == SpellingOf(s)
           g == [i \in DOMAIN s |-> s[i].group]
           m == [i \in 1..(Len(s) - 1) |-> s[i + 1].mark]
           k == Len(s)
<1>1. k \in Nat /\ k >= 1 /\ DOMAIN s = 1..k
  OBVIOUS
<1>2. \A i \in 1..k : s[i].group \in Groups /\ s[i].mark \in {Comma, Point}
  <2>1. ASSUME NEW i \in 1..k PROVE s[i] \in Groupings
    BY <1>1
  <2>2. ASSUME NEW p \in Groupings PROVE p.group \in Groups /\ p.mark \in {Comma, Point}
    BY Zenon DEF Groupings, Comma, Point
  <2> QED BY <2>1, <2>2
<1>3. Groups \subseteq Seq(Nat)
  BY DEF Groups
<1>4. g \in Seq(Seq(Nat)) /\ g # <<>> /\ Len(g) = k
  <2>1. g = [i \in 1..k |-> s[i].group] BY <1>1
  <2>2. \A i \in 1..k : s[i].group \in Seq(Nat) BY <1>2, <1>3
  <2> QED BY <1>1, <2>1, <2>2
<1>5. m \in Seq({Comma, Point}) /\ Len(m) = k - 1
  <2>1. \A i \in 1..(k - 1) : s[i + 1].mark \in {Comma, Point}
    <3>1. ASSUME NEW i \in 1..(k - 1) PROVE i + 1 \in 1..k BY <1>1
    <3> QED BY <3>1, <1>2
  <2>2. k - 1 \in Nat BY <1>1
  <2> QED BY <2>1, <2>2
<1>6. n.groups = g /\ n.marks = m
  BY DEF SpellingOf, Spelled
<1> HIDE DEF n, g, m, k
<1>7. n.groups \in Seq(Seq(Nat)) /\ n.groups # <<>> /\ n.marks \in Seq({Comma, Point})
      /\ Len(n.groups) = Len(n.marks) + 1
  BY <1>1, <1>4, <1>5, <1>6
<1>8. Spelling(n)
  BY <1>7 DEF Spelling
<1> QED BY <1>8 DEF n

\* A number word means what its parts mean, a compound's unit what its last word means,
\* and no language reads a mark two ways (answer/numbers.py, verify_guards_model.py).
LEMMA FigureTablesAgree == FiguresAgree
<1>1. DUTCH_UNITS \cup DUTCH_TEENS \subseteq NUMBER_WORDS
  BY SMTT(60) DEF DUTCH_UNITS, DUTCH_TEENS, NUMBER_WORDS
<1>2. \A t \in DUTCH_TENS : t[1] \in Firsts(NUMBER_WORDS) => t \in NUMBER_WORDS
  BY SMTT(60) DEF DUTCH_TENS, NUMBER_WORDS, Firsts
<1>3. IsFunction(NUMBER_WORDS)
  BY SMTT(60) DEF IsFunction, NUMBER_WORDS
<1>4. IsFunction(ORDINAL_WORDS)
  BY SMTT(60) DEF IsFunction, ORDINAL_WORDS
<1>5. IsFunction(MONTH_NUMBER)
  BY SMTT(60) DEF IsFunction, MONTH_NUMBER
<1>6. IsFunction(TIME_UNITS)
  BY SMTT(60) DEF IsFunction, TIME_UNITS, Each
<1>7. Firsts(NUMBER_WORDS) \cap (Firsts(ORDINAL_WORDS) \cup Firsts(TIME_UNITS) \cup COUNT_FUNCTION_WORDS) = {}
  BY SMTT(60) DEF Firsts, NUMBER_WORDS, ORDINAL_WORDS, TIME_UNITS, Each, COUNT_FUNCTION_WORDS
<1>8. \A i \in DOMAIN UNIT_SUFFIXES :
        UNIT_SUFFIXES[i][1] \in Firsts(TIME_UNITS) => UNIT_SUFFIXES[i] \in TIME_UNITS
  BY SMTT(60) DEF Firsts, TIME_UNITS, Each, UNIT_SUFFIXES
<1>9. DECIMAL_COMMA_LANGUAGES \cap DECIMAL_POINT_LANGUAGES = {}
  BY SMTT(60) DEF DECIMAL_COMMA_LANGUAGES, DECIMAL_POINT_LANGUAGES
<1>10. LAKH_GROUPING_LANGUAGES \subseteq DECIMAL_POINT_LANGUAGES
  BY SMTT(60) DEF LAKH_GROUPING_LANGUAGES, DECIMAL_POINT_LANGUAGES
<1> QED
  BY <1>1, <1>2, <1>3, <1>4, <1>5, <1>6, <1>7, <1>8, <1>9, <1>10 DEF FiguresAgree

\* The numbers the run writes in words are below a million.
LEMMA CountsAreRead ==
    \A n \in Tried : DutchNumber(DutchWritten(n, MCUnit, MCTeen, MCTen, "en")) = {n}
<1> TAKE n \in Tried
<1>1. BelowMillion(n)
  BY DEF Tried, BelowMillion
<1> QED BY <1>1, DutchNumbersAreRead

\* Two numbers of pieces are what the guard is proved of.
LEMMA FiguresFromPieces == ASSUME Drafted PROVE FiguresBacked
<1>1. ASSUME kind = "number" PROVE text \in Seq(Groupings) /\ other \in Seq(Groupings)
  BY <1>1 DEF Drafted, Pieced
<1>2. ASSUME kind = "number", text # <<>> PROVE Spelling(SpellingOf(text))
  BY <1>1, <1>2, PiecesSpell
<1>3. ASSUME kind = "number", other # <<>> PROVE Spelling(SpellingOf(other))
  BY <1>1, <1>3, PiecesSpell
<1>4. ASSUME kind = "number", text # <<>>
      PROVE  \A l \in Languages : ReadsWhatWasWritten(SpellingOf(text), l)
  BY <1>2, <1>4, NumbersReadAsWritten
<1>5. ASSUME kind = "number", text # <<>>, other # <<>>
      PROVE  \A l \in Languages, m \in Declared \cup {Undeclared} :
                FigureBacked(SpellingOf(text), l, SpellingOf(other), m)
  BY <1>2, <1>3, <1>5, FiguresAreBacked
<1> DEFINE Read == \A l \in Languages : ReadsWhatWasWritten(SpellingOf(text), l)
           Backed == \A l \in Languages, m \in Declared \cup {Undeclared} :
                        FigureBacked(SpellingOf(text), l, SpellingOf(other), m)
           Spoken == \A n \in Tried : DutchNumber(DutchWritten(n, MCUnit, MCTeen, MCTen, "en")) = {n}
<1>6. FiguresBacked <=>
        (kind = "number" =>
            /\ text # <<>> => Read
            /\ text # <<>> /\ other # <<>> => Backed
            /\ text = <<>> => FiguresAgree
            /\ text = <<>> => Spoken)
  BY DEF FiguresBacked
<1>7. Spoken
  BY CountsAreRead
<1>8. (kind = "number" /\ text # <<>> => Read) /\ (kind = "number" /\ text # <<>> /\ other # <<>> => Backed)
  BY <1>4, <1>5
<1> HIDE DEF Read, Backed, Spoken
<1> QED
  BY <1>6, <1>7, <1>8, FigureTablesAgree

\* A number is read to a value only if every writer the declared language allows means
\* it, the guard lets one pass only as the passage's own, the tables of figures agree,
\* and Dutch numbers are read as they are written: in every behaviour of the rules' run
\* (answer/numbers.py, verify_guards.py; ADR-0015).
THEOREM FiguresBackedAlways == Writing => []FiguresBacked
<1>1. Writing => []Drafted
  BY DraftedFirst, DraftedOn, PTL DEF Writing
<1> QED
  BY <1>1, FiguresFromPieces, PTL
=============================================================================
