----------------------------- MODULE Ask_proofs -----------------------------
(***************************************************************************)
(* Proofs about a strict question, for any corpus, retrievers, tiers, claims,*)
(* conflicts and conversation, and whatever the embedder, the rewriting and*)
(* the rerank model and the generator return.                              *)
(*                                                                         *)
(* RetrievedInv says what the retrieval hands over; PhaseInv that a question*)
(* is undecided until its last step and its pool is what is fit to be      *)
(* answered from.  Beside them the two properties are inductive, and every *)
(* step is one of GroundedAnswer or none of its.                           *)
(***************************************************************************)
EXTENDS Ask, Foundations

(* Retrieval *)

\* The hits a retriever may return: with their passage, if all of them carry it.
Quoting == \A r \in Range(Retrievers) : r \in Verbatim
Given == {h \in Hits : Quoting => h.verbatim}

\* A sequence is one of whatever its elements are.
LEMMA SeqOf ==
    ASSUME NEW X, NEW s \in Seq(X), NEW Y, Elements(s) \subseteq Y
    PROVE  s \in Seq(Y)
<1>1. \A i \in 1..Len(s) : s[i] \in Y
  BY DEF Elements
<1> QED
  BY <1>1

\* The head of a sequence.
LEMMA FirstIs ==
    ASSUME NEW X, NEW s \in Seq(X), NEW n \in Nat
    PROVE  /\ First(n, s) \in Seq(X)
           /\ Len(First(n, s)) = (IF n < Len(s) THEN n ELSE Len(s))
           /\ \A i \in 1..Len(First(n, s)) : First(n, s)[i] = s[i]
BY DEF First

\* What a rank contributes is a number.
LEMMA ShareNat == \A rank : Share(rank) \in Nat
<1> SUFFICES ASSUME NEW rank PROVE Share(rank) \in Nat
  OBVIOUS
<1> DEFINE G == [r \in 1..Depth |-> [x \in Nat |-> IF r = rank THEN x ELSE x * (RrfK + r)]]
           K(g) == [r \in 0..Depth |-> IF r = 0 THEN 1
                                      ELSE IF r = rank THEN g[r - 1] ELSE g[r - 1] * (RrfK + r)]
           product == CHOOSE g : g = K(g)
<1>0. Depth \in Nat /\ RrfK \in Nat
  BY RankAssumption
<1>1. G \in [1..Depth -> [Nat -> Nat]]
  BY <1>0
<1>2. PICK f : Recurs(f, Depth, Nat, 1, G)
  <2>1. 1 \in Nat OBVIOUS
  <2> HIDE DEF G
  <2> QED BY <1>0, <1>1, <2>1, SeqRecursion
<1>3. f \in [0..Depth -> Nat] /\ f[0] = 1 /\ \A r \in 1..Depth : f[r] = G[r][f[r - 1]]
  BY <1>2 DEF Recurs
<1>4. f = K(f)
  <2>1. ASSUME NEW r \in 0..Depth PROVE f[r] = K(f)[r]
    <3>1. CASE r = 0 BY <3>1, <1>3
    <3>2. CASE r # 0
      <4>1. r \in 1..Depth /\ r - 1 \in 0..Depth BY <3>2, <1>0
      <4>2. f[r] = G[r][f[r - 1]] /\ f[r - 1] \in Nat BY <4>1, <1>3
      <4> QED BY <4>1, <4>2, <3>2
    <3> QED BY <3>1, <3>2
  <2>2. f = [r \in 0..Depth |-> f[r]]
    BY <1>3
  <2> QED BY <2>1, <2>2
<1>5. product = K(product)
  BY <1>4
<1>6. Share(rank) = product[Depth]
  BY DEF Share
<1> HIDE DEF product
<1> DEFINE T == {r \in Nat : r <= Depth => product[r] \in Nat}
<1>7. \A r \in Nat : r \in T
  <2>1. 0 \in T
    <3>1. product[0] = K(product)[0] BY <1>5
    <3>2. K(product)[0] = 1 BY <1>0
    <3> HIDE DEF K
    <3> QED BY <3>1, <3>2
  <2>2. ASSUME NEW r \in Nat, r \in T PROVE r + 1 \in T
    <3> SUFFICES ASSUME r + 1 <= Depth PROVE product[r + 1] \in Nat
      OBVIOUS
    <3>1. product[r] \in Nat
      BY <2>2, <1>0
    <3>2. r + 1 \in 0..Depth /\ r + 1 # 0 /\ (r + 1) - 1 = r
      BY <1>0
    <3>3. product[r + 1] = K(product)[r + 1] BY <1>5
    <3>4. K(product)[r + 1] = IF r + 1 = rank THEN product[r] ELSE product[r] * (RrfK + (r + 1))
      BY <3>2
    <3>5. RrfK + (r + 1) \in Nat /\ \A x, y \in Nat : x * y \in Nat
      BY <1>0
    <3> HIDE DEF K
    <3> QED BY <3>1, <3>3, <3>4, <3>5
  <2> HIDE DEF T
  <2> QED BY <2>1, <2>2, Induct
<1> QED
  BY <1>0, <1>6, <1>7

\* What a list contributes is a number.
LEMMA ListScoreNat ==
    ASSUME NEW hits, Len(hits) \in Nat, NEW u
    PROVE  ListScore(hits, u) \in Nat
<1> DEFINE n == Len(hits)
           G == [r \in 1..n |-> [x \in Nat |-> IF hits[r].unit = u THEN x + Share(r) ELSE x]]
           K(g) == [r \in 0..Len(hits) |-> IF r = 0 THEN 0
                                  ELSE IF hits[r].unit = u THEN g[r - 1] + Share(r) ELSE g[r - 1]]
           sum == CHOOSE g : g = K(g)
<1>1. G \in [1..n -> [Nat -> Nat]]
  BY ShareNat
<1>2. PICK f : Recurs(f, n, Nat, 0, G)
  <2>1. 0 \in Nat /\ n \in Nat OBVIOUS
  <2> HIDE DEF G, n
  <2> QED BY <1>1, <2>1, SeqRecursion
<1>3. f \in [0..n -> Nat] /\ f[0] = 0 /\ \A r \in 1..n : f[r] = G[r][f[r - 1]]
  BY <1>2 DEF Recurs
<1>4. f = K(f)
  <2>1. ASSUME NEW r \in 0..n PROVE f[r] = K(f)[r]
    <3>1. CASE r = 0 BY <3>1, <1>3
    <3>2. CASE r # 0
      <4>1. r \in 1..n /\ r - 1 \in 0..n BY <3>2
      <4>2. f[r] = G[r][f[r - 1]] /\ f[r - 1] \in Nat BY <4>1, <1>3
      <4> QED BY <4>1, <4>2, <3>2
    <3> QED BY <3>1, <3>2
  <2>2. f = [r \in 0..n |-> f[r]]
    BY <1>3
  <2> QED BY <2>1, <2>2
<1>5. sum = K(sum)
  BY <1>4
<1>6. ListScore(hits, u) = sum[n]
  BY DEF ListScore
<1> HIDE DEF sum
<1> DEFINE T == {r \in Nat : r <= n => sum[r] \in Nat}
<1>7. \A r \in Nat : r \in T
  <2>1. 0 \in T
    <3>1. sum[0] = K(sum)[0] BY <1>5
    <3>2. K(sum)[0] = 0 OBVIOUS
    <3> HIDE DEF K
    <3> QED BY <3>1, <3>2
  <2>2. ASSUME NEW r \in Nat, r \in T PROVE r + 1 \in T
    <3> SUFFICES ASSUME r + 1 <= n PROVE sum[r + 1] \in Nat
      OBVIOUS
    <3>1. sum[r] \in Nat
      BY <2>2
    <3>2. r + 1 \in 0..n /\ r + 1 # 0 /\ (r + 1) - 1 = r
      OBVIOUS
    <3>3. sum[r + 1] = K(sum)[r + 1] BY <1>5
    <3>4. K(sum)[r + 1] = IF hits[r + 1].unit = u THEN sum[r] + Share(r + 1) ELSE sum[r]
      BY <3>2
    <3>5. Share(r + 1) \in Nat BY ShareNat
    <3> HIDE DEF K
    <3> QED BY <3>1, <3>3, <3>4, <3>5
  <2> HIDE DEF T
  <2> QED BY <2>1, <2>2, Induct
<1> QED
  BY <1>6, <1>7

\* A fused score is a number.
LEMMA FusedScoreNat ==
    ASSUME NEW many \in Seq(Seq(Given)), NEW u
    PROVE  FusedScore(many, u) \in Nat
<1> DEFINE n == Len(many)
           G == [i \in 1..n |-> [x \in Nat |-> x + ListScore(many[i], u)]]
           K(g) == [i \in 0..Len(many) |-> IF i = 0 THEN 0 ELSE g[i - 1] + ListScore(many[i], u)]
           sum == CHOOSE g : g = K(g)
<1>0. \A i \in 1..n : ListScore(many[i], u) \in Nat
  <2> SUFFICES ASSUME NEW i \in 1..n PROVE ListScore(many[i], u) \in Nat
    OBVIOUS
  <2>1. Len(many[i]) \in Nat OBVIOUS
  <2> QED BY <2>1, ListScoreNat
<1>1. G \in [1..n -> [Nat -> Nat]]
  BY <1>0
<1>2. PICK f : Recurs(f, n, Nat, 0, G)
  <2>1. 0 \in Nat /\ n \in Nat OBVIOUS
  <2> HIDE DEF G, n
  <2> QED BY <1>1, <2>1, SeqRecursion
<1>3. f \in [0..n -> Nat] /\ f[0] = 0 /\ \A i \in 1..n : f[i] = G[i][f[i - 1]]
  BY <1>2 DEF Recurs
<1>4. f = K(f)
  <2>1. ASSUME NEW i \in 0..n PROVE f[i] = K(f)[i]
    <3>1. CASE i = 0 BY <3>1, <1>3
    <3>2. CASE i # 0
      <4>1. i \in 1..n /\ i - 1 \in 0..n BY <3>2
      <4>2. f[i] = G[i][f[i - 1]] /\ f[i - 1] \in Nat BY <4>1, <1>3
      <4> QED BY <4>1, <4>2, <3>2
    <3> QED BY <3>1, <3>2
  <2>2. f = [i \in 0..n |-> f[i]]
    BY <1>3
  <2> QED BY <2>1, <2>2
<1>5. sum = K(sum)
  BY <1>4
<1>6. FusedScore(many, u) = sum[n]
  BY DEF FusedScore
<1> HIDE DEF sum
<1> DEFINE T == {i \in Nat : i <= n => sum[i] \in Nat}
<1>7. \A i \in Nat : i \in T
  <2>1. 0 \in T
    <3>1. sum[0] = K(sum)[0] BY <1>5
    <3>2. K(sum)[0] = 0 OBVIOUS
    <3> HIDE DEF K
    <3> QED BY <3>1, <3>2
  <2>2. ASSUME NEW i \in Nat, i \in T PROVE i + 1 \in T
    <3> SUFFICES ASSUME i + 1 <= n PROVE sum[i + 1] \in Nat
      OBVIOUS
    <3>1. sum[i] \in Nat
      BY <2>2
    <3>2. i + 1 \in 1..n /\ i + 1 \in 0..n /\ i + 1 # 0 /\ (i + 1) - 1 = i
      OBVIOUS
    <3>3. sum[i + 1] = K(sum)[i + 1] BY <1>5
    <3>4. K(sum)[i + 1] = sum[i] + ListScore(many[i + 1], u)
      BY <3>2
    <3>5. ListScore(many[i + 1], u) \in Nat BY <1>0, <3>2
    <3> HIDE DEF K
    <3> QED BY <3>1, <3>3, <3>4, <3>5
  <2> HIDE DEF T
  <2> QED BY <2>1, <2>2, Induct
<1> QED
  BY <1>6, <1>7


\* The lists that are fused: hits of the corpus, none longer than a retriever may return.
ListsOK(many) == many \in Seq(Seq(Given)) /\ \A i \in DOMAIN many : Len(many[i]) <= Depth

\* The payload kept for a unit that was retrieved is a hit that was retrieved.
LEMMA PayloadIs ==
    ASSUME NEW many, ListsOK(many), NEW u, NEW i \in DOMAIN many, u \in UnitsOf(many[i])
    PROVE  Payload(many, u) \in Given
<1> DEFINE places == Places(many, u)
           hit(p) == many[p[1]][p[2]]
           R == {e \in places \X places :
                    \/ hit(e[1]).score > hit(e[2]).score
                    \/ /\ hit(e[1]).score = hit(e[2]).score
                       /\ e[1][1] < e[2][1] \/ (e[1][1] = e[2][1] /\ e[1][2] < e[2][2])}
           best == {p \in places : \A q \in places : hit(p).score >= hit(q).score}
<1>0. Depth \in Nat /\ Len(many) \in Nat /\ DOMAIN many = 1..Len(many)
  BY RankAssumption DEF ListsOK
<1>1. places \subseteq (1..Len(many)) \X (1..Depth) /\ \A p \in places : hit(p) \in Given
  BY <1>0 DEF Places, ListsOK
<1>2. IsFiniteSet(places)
  <2>1. IsFiniteSet(1..Len(many)) /\ IsFiniteSet(1..Depth)
    BY <1>0, FS_Interval
  <2>2. IsFiniteSet((1..Len(many)) \X (1..Depth))
    BY <2>1, FS_Product
  <2>3. places \in SUBSET ((1..Len(many)) \X (1..Depth))
    BY <1>1
  <2> HIDE DEF places
  <2> QED BY <2>2, <2>3, FS_Subset
<1>3. places # {}
  <2>1. PICK n \in DOMAIN many[i] : many[i][n].unit = u
    BY DEF UnitsOf
  <2>2. n \in 1..Depth
    BY <1>0 DEF ListsOK
  <2>3. <<i, n>> \in places
    BY <2>1, <2>2 DEF Places
  <2> QED BY <2>3
<1>4. \A p \in places : hit(p).score \in Nat /\ p[1] \in Nat /\ p[2] \in Nat /\ p = <<p[1], p[2]>>
  BY <1>1 DEF Given, Hits
<1>5. \A p, q \in places : <<p, q>> \in R <=>
                              \/ hit(p).score > hit(q).score
                              \/ /\ hit(p).score = hit(q).score
                                 /\ p[1] < q[1] \/ (p[1] = q[1] /\ p[2] < q[2])
  OBVIOUS
<1> HIDE DEF R, places, hit
<1>6. StrictOrder(R, places)
  <2>1. \A p \in places : <<p, p>> \notin R
    BY <1>4, <1>5
  <2>2. \A p, q \in places : p # q => <<p, q>> \in R \/ <<q, p>> \in R
    BY <1>4, <1>5
  <2>3. \A p, q, s \in places : <<p, q>> \in R /\ <<q, s>> \in R => <<p, s>> \in R
    BY <1>4, <1>5
  <2> QED BY <2>1, <2>2, <2>3 DEF StrictOrder
<1>7. PICK f \in places : Cardinality(Above(R, places, f)) = 0
  <2>1. Cardinality(places) \in Nat /\ Cardinality(places) # 0
    BY <1>2, <1>3, FS_CardinalityType, FS_EmptySet
  <2>2. 1 \in 1..Cardinality(places) /\ 1 - 1 = 0
    BY <2>1
  <2> QED BY <1>2, <1>6, <2>2, Ranking
<1>8. Above(R, places, f) = {}
  <2>1. Above(R, places, f) \in SUBSET places
    BY DEF Above
  <2>2. IsFiniteSet(Above(R, places, f))
    BY <1>2, <2>1, FS_Subset
  <2> QED BY <1>7, <2>2, FS_EmptySet
<1>9. \A q \in places : <<q, f>> \notin R
  BY <1>8 DEF Above
<1>10. f \in best /\ \A q \in best : f[1] < q[1] \/ (f[1] = q[1] /\ f[2] <= q[2])
  <2>1. \A q \in places : /\ hit(f).score >= hit(q).score
                          /\ hit(q).score = hit(f).score => ~(q[1] < f[1] \/ (q[1] = f[1] /\ q[2] < f[2]))
    <3> SUFFICES ASSUME NEW q \in places
                 PROVE  /\ hit(f).score >= hit(q).score
                        /\ hit(q).score = hit(f).score => ~(q[1] < f[1] \/ (q[1] = f[1] /\ q[2] < f[2]))
      OBVIOUS
    <3>1. <<q, f>> \notin R
      BY <1>9
    <3>2. ~(\/ hit(q).score > hit(f).score
            \/ /\ hit(q).score = hit(f).score
               /\ q[1] < f[1] \/ (q[1] = f[1] /\ q[2] < f[2]))
      BY <1>5, <3>1
    <3>3. hit(q).score \in Nat /\ hit(f).score \in Nat
      BY <1>4
    <3> QED BY <3>2, <3>3
  <2>2. f \in best
    BY <2>1
  <2>3. ASSUME NEW q \in best PROVE f[1] < q[1] \/ (f[1] = q[1] /\ f[2] <= q[2])
    <3>1. q \in places /\ hit(q).score >= hit(f).score
      OBVIOUS
    <3>2. hit(q).score \in Nat /\ hit(f).score \in Nat /\ q[1] \in Nat /\ q[2] \in Nat /\ f[1] \in Nat /\ f[2] \in Nat
      BY <1>4, <3>1
    <3>3. ~(q[1] < f[1] \/ (q[1] = f[1] /\ q[2] < f[2]))
      BY <2>1, <3>1, <3>2
    <3> HIDE DEF best
    <3> QED BY <3>2, <3>3
  <2> HIDE DEF best
  <2> QED BY <2>2, <2>3
<1> DEFINE first == CHOOSE p \in best : \A q \in best : p[1] < q[1] \/ (p[1] = q[1] /\ p[2] <= q[2])
<1>11. first \in best
  <2> HIDE DEF best
  <2> QED BY <1>10
<1>12. first \in places
  <2> HIDE DEF first
  <2> QED BY <1>11
<1>13. Payload(many, u) = hit(first)
  BY DEF Payload, hit, places
<1> HIDE DEF first
<1> QED
  BY <1>1, <1>12, <1>13 DEF places, hit

\* Fusion gives hits.
LEMMA FusedIs ==
    ASSUME NEW many, ListsOK(many)
    PROVE  Fused(many) \in Seq(Given)
<1> DEFINE units == UNION {UnitsOf(many[i]) : i \in DOMAIN many}
           score == [u \in units |-> FusedScore(many, u)]
           above(u) == {v \in units : score[v] > score[u] \/ (score[v] = score[u] /\ Id[v] < Id[u])}
           R == {e \in units \X units : \/ score[e[1]] > score[e[2]]
                                        \/ score[e[1]] = score[e[2]] /\ Id[e[1]] < Id[e[2]]}
           n == Cardinality(units)
           ranked(i) == CHOOSE u \in units : Cardinality(above(u)) = i - 1
<1>1. units \in SUBSET Units
  <2>1. ASSUME NEW i \in DOMAIN many, NEW m \in DOMAIN many[i] PROVE many[i][m].unit \in Units
    <3>1. many[i] \in Seq(Given) BY DEF ListsOK
    <3>2. many[i][m] \in Given BY <3>1
    <3> QED BY <3>2 DEF Given, Hits
  <2> QED BY <2>1 DEF UnitsOf
<1>2. IsFiniteSet(units) /\ n \in Nat
  <2> HIDE DEF units
  <2> QED BY <1>1, RetrievalAssumption, FS_Subset, FS_CardinalityType
<1>3. \A u \in units : score[u] \in Nat
  BY FusedScoreNat DEF ListsOK
<1>4. \A u, v \in units : <<u, v>> \in R <=> \/ score[u] > score[v]
                                             \/ score[u] = score[v] /\ Id[u] < Id[v]
  OBVIOUS
<1>5. \A u \in units : above(u) = Above(R, units, u)
  BY DEF Above
<1> HIDE DEF units, score, R, above
<1>6. StrictOrder(R, units)
  <2>1. \A u \in units : Id[u] \in Nat /\ \A v \in units : Id[u] = Id[v] => u = v
    BY <1>1, RetrievalAssumption
  <2> QED BY <1>3, <1>4, <2>1 DEF StrictOrder
<1>7. \A i \in 1..n : \E u \in units : Cardinality(above(u)) = i - 1
  <2>1. \A i \in 1..n : \E u \in units : Cardinality(Above(R, units, u)) = i - 1
    BY <1>2, <1>6, Ranking
  <2> QED BY <2>1, <1>5
<1>8. ASSUME NEW i \in 1..n PROVE Payload(many, ranked(i)) \in Given
  <2>1. ranked(i) \in units
    BY <1>7
  <2>2. PICK j \in DOMAIN many : ranked(i) \in UnitsOf(many[j])
    BY <2>1 DEF units
  <2> HIDE DEF ranked
  <2> QED BY <2>2, PayloadIs
<1>9. Fused(many) = [i \in 1..n |-> Payload(many, ranked(i))]
  BY DEF Fused, units, score, above
<1> HIDE DEF n, ranked
<1> QED
  BY <1>2, <1>8, <1>9

\* Reranking gives hits, whatever indexes the model names.
LEMMA RerankedIs ==
    ASSUME NEW hits \in Seq(Given), NEW order \in Seq(Nat)
    PROVE  Reranked(hits, order) \in Seq(Given)
<1> DEFINE named == Within(order, DOMAIN hits)
           chosen == {named[i] : i \in DOMAIN named}
           places == [i \in DOMAIN hits |-> i]
           rest == Within(places, DOMAIN hits \ chosen)
           all == named \o rest
<1>1. named \in Seq(DOMAIN hits)
  <2>1. named \in Seq(Nat) /\ Elements(named) = Elements(order) \cap DOMAIN hits
    BY WithinIs
  <2>2. Elements(named) \subseteq DOMAIN hits
    BY <2>1
  <2> HIDE DEF named
  <2> QED BY <2>1, <2>2, SeqOf
<1>2. rest \in Seq(DOMAIN hits)
  <2>1. places \in Seq(DOMAIN hits)
    OBVIOUS
  <2> HIDE DEF places, chosen
  <2> QED BY <2>1, WithinIs
<1>3. Reranked(hits, order) = [i \in DOMAIN all |-> hits[all[i]]]
  BY DEF Reranked
<1> HIDE DEF named, rest
<1>4. all \in Seq(DOMAIN hits)
  BY <1>1, <1>2
<1> HIDE DEF all
<1>5. DOMAIN all = 1..Len(all) /\ Len(all) \in Nat /\ \A i \in 1..Len(all) : hits[all[i]] \in Given
  BY <1>4
<1> QED
  BY <1>3, <1>4, <1>5

\* And so does the cut.
LEMMA RetrievedIs ==
    ASSUME NEW fused \in Seq(Given), NEW order \in Seq(Nat)
    PROVE  Retrieved(fused, order, TopN, Depth) \in Seq(Given)
<1>0. TopN \in Nat /\ Depth \in Nat
  BY AskAssumption, RankAssumption
<1>1. Reranked(First(TopN, fused), order) \in Seq(Given)
  BY <1>0, FirstIs, RerankedIs
<1>2. SubSeq(fused, TopN + 1, Len(fused)) \in Seq(Given)
  BY <1>0
<1>3. Reranked(First(TopN, fused), order) \o SubSeq(fused, TopN + 1, Len(fused)) \in Seq(Given)
  BY <1>1, <1>2
<1> QED
  BY <1>0, <1>3, FirstIs DEF Retrieved

-----------------------------------------------------------------------------
(* What may be answered from *)

LEMMA RangeIs == \A s : Range(s) = Elements(s)
BY DEF Range, Elements

LEMMA NoElements ==
    ASSUME NEW X, NEW s \in Seq(X)
    PROVE  s = <<>> <=> Elements(s) = {}
<1>1. s = <<>> => Elements(s) = {}
  BY DEF Elements
<1>2. ASSUME s # <<>> PROVE Elements(s) # {}
  <2>1. 1 \in DOMAIN s
    BY <1>2
  <2> QED BY <2>1 DEF Elements
<1> QED
  BY <1>1, <1>2

LEMMA UnitsAre ==
    ASSUME NEW s
    PROVE  UnitsOf(s) = {h.unit : h \in Elements(s)}
BY DEF UnitsOf, Elements

\* The elements of two sequences joined.
LEMMA JoinedElements ==
    ASSUME NEW X, NEW s \in Seq(X), NEW t \in Seq(X)
    PROVE  Elements(s \o t) = Elements(s) \cup Elements(t)
<1> DEFINE j == s \o t
<1>1. /\ j \in Seq(X) /\ DOMAIN j = 1..(Len(s) + Len(t)) /\ DOMAIN s = 1..Len(s) /\ DOMAIN t = 1..Len(t)
      /\ \A i \in 1..Len(s) : j[i] = s[i]
      /\ \A i \in 1..Len(t) : j[Len(s) + i] = t[i]
      /\ Len(s) \in Nat /\ Len(t) \in Nat
  OBVIOUS
<1> HIDE DEF j
<1>2. ASSUME NEW x \in Elements(j) PROVE x \in Elements(s) \cup Elements(t)
  <2>1. PICK i \in 1..(Len(s) + Len(t)) : x = j[i]
    BY <1>1 DEF Elements
  <2>2. CASE i \in 1..Len(s)
    BY <1>1, <2>1, <2>2 DEF Elements
  <2>3. CASE i \notin 1..Len(s)
    <3>1. i - Len(s) \in 1..Len(t) /\ i = Len(s) + (i - Len(s))
      BY <1>1, <2>3
    <3>2. x = t[i - Len(s)]
      BY <1>1, <2>1, <3>1
    <3> QED BY <1>1, <3>1, <3>2 DEF Elements
  <2> QED BY <2>2, <2>3
<1>3. ASSUME NEW x \in Elements(s) \cup Elements(t) PROVE x \in Elements(j)
  <2>1. CASE x \in Elements(s)
    <3>1. PICK i \in 1..Len(s) : x = s[i]
      BY <1>1, <2>1 DEF Elements
    <3>2. i \in DOMAIN j /\ j[i] = x
      BY <1>1, <3>1
    <3> QED BY <3>2 DEF Elements
  <2>2. CASE x \in Elements(t)
    <3>1. PICK i \in 1..Len(t) : x = t[i]
      BY <1>1, <2>2 DEF Elements
    <3>2. Len(s) + i \in DOMAIN j /\ j[Len(s) + i] = x
      BY <1>1, <3>1
    <3> QED BY <3>2 DEF Elements
  <2> QED BY <2>1, <2>2
<1> QED
  BY <1>2, <1>3 DEF j

\* Ordering by tier loses no hit and adds none.
LEMMA ByTierIs ==
    ASSUME NEW hits \in Seq(Given)
    PROVE  ByTier(hits) \in Seq(Given) /\ Elements(ByTier(hits)) = Elements(hits)
<1> DEFINE these(r) == Within(hits, {h \in Range(hits) : Tier[h.unit] = r})
           G == [r \in 1..MaxTier |-> [x \in Seq(Given) |-> these(r) \o x]]
           K(g) == [r \in 0..MaxTier |-> IF r = 0 THEN these(r) ELSE these(r) \o g[r - 1]]
           from == CHOOSE g : g = K(g)
           upto(r) == {h \in Elements(hits) : Tier[h.unit] <= r}
<1>0. MaxTier \in Nat /\ \A h \in Elements(hits) : Tier[h.unit] \in 0..MaxTier
  <2>1. \A h \in Elements(hits) : h \in Given
    BY DEF Elements
  <2> QED BY <2>1, AskAssumption DEF Given, Hits
<1>1. \A r : /\ these(r) \in Seq(Given)
             /\ Elements(these(r)) = {h \in Elements(hits) : Tier[h.unit] = r}
  <2> SUFFICES ASSUME NEW r PROVE /\ these(r) \in Seq(Given)
                                  /\ Elements(these(r)) = {h \in Elements(hits) : Tier[h.unit] = r}
    OBVIOUS
  <2> DEFINE S == {h \in Range(hits) : Tier[h.unit] = r}
  <2>1. Within(hits, S) \in Seq(Given) /\ Elements(Within(hits, S)) = Elements(hits) \cap S
    <3> HIDE DEF S
    <3> QED BY WithinIs
  <2>2. Elements(hits) \cap S = {h \in Elements(hits) : Tier[h.unit] = r}
    BY RangeIs
  <2> QED BY <2>1, <2>2
<1>2. ByTier(hits) = from[MaxTier]
  BY DEF ByTier
<1> HIDE DEF these
<1>3. G \in [1..MaxTier -> [Seq(Given) -> Seq(Given)]]
  BY <1>1
<1>4. PICK f : Recurs(f, MaxTier, Seq(Given), these(0), G)
  <2>1. these(0) \in Seq(Given) BY <1>1
  <2> HIDE DEF G
  <2> QED BY <1>0, <1>3, <2>1, SeqRecursion
<1>5. f \in [0..MaxTier -> Seq(Given)] /\ f[0] = these(0) /\ \A r \in 1..MaxTier : f[r] = G[r][f[r - 1]]
  BY <1>4 DEF Recurs
<1>6. f = K(f)
  <2>1. ASSUME NEW r \in 0..MaxTier PROVE f[r] = K(f)[r]
    <3>1. CASE r = 0 BY <3>1, <1>5
    <3>2. CASE r # 0
      <4>1. r \in 1..MaxTier /\ r - 1 \in 0..MaxTier BY <3>2, <1>0
      <4>2. f[r] = G[r][f[r - 1]] /\ f[r - 1] \in Seq(Given) BY <4>1, <1>5
      <4> QED BY <4>1, <4>2, <3>2
    <3> QED BY <3>1, <3>2
  <2>2. f = [r \in 0..MaxTier |-> f[r]]
    BY <1>5
  <2> QED BY <2>1, <2>2
<1>7. from = K(from)
  BY <1>6
<1> HIDE DEF from
<1> DEFINE T == {r \in Nat : r <= MaxTier => from[r] \in Seq(Given) /\ Elements(from[r]) = upto(r)}
<1>8. \A r \in Nat : r \in T
  <2>1. 0 \in T
    <3>1. from[0] = K(from)[0] BY <1>7
    <3>2. K(from)[0] = these(0) BY <1>0
    <3>3. {h \in Elements(hits) : Tier[h.unit] = 0} = upto(0) BY <1>0
    <3> HIDE DEF K, upto
    <3> QED BY <1>1, <3>1, <3>2, <3>3
  <2>2. ASSUME NEW r \in Nat, r \in T PROVE r + 1 \in T
    <3> SUFFICES ASSUME r + 1 <= MaxTier
                 PROVE  from[r + 1] \in Seq(Given) /\ Elements(from[r + 1]) = upto(r + 1)
      OBVIOUS
    <3>1. from[r] \in Seq(Given) /\ Elements(from[r]) = upto(r)
      BY <2>2, <1>0
    <3>2. r + 1 \in 0..MaxTier /\ r + 1 # 0 /\ (r + 1) - 1 = r
      BY <1>0
    <3>3. from[r + 1] = K(from)[r + 1] BY <1>7
    <3>4. K(from)[r + 1] = these(r + 1) \o from[r]
      BY <3>2
    <3>5. upto(r + 1) = {h \in Elements(hits) : Tier[h.unit] = r + 1} \cup upto(r)
      BY <1>0
    <3> HIDE DEF K, upto
    <3>6. these(r + 1) \in Seq(Given) /\ Elements(these(r + 1)) = {h \in Elements(hits) : Tier[h.unit] = r + 1}
      BY <1>1
    <3>7. Elements(these(r + 1) \o from[r]) = Elements(these(r + 1)) \cup Elements(from[r])
      BY <3>1, <3>6, JoinedElements
    <3>8. these(r + 1) \o from[r] \in Seq(Given)
      BY <3>1, <3>6
    <3> QED BY <3>1, <3>3, <3>4, <3>5, <3>6, <3>7, <3>8
  <2> HIDE DEF T
  <2> QED BY <2>1, <2>2, Induct
<1>9. upto(MaxTier) = Elements(hits)
  BY <1>0
<1> HIDE DEF upto
<1> QED
  BY <1>0, <1>2, <1>8, <1>9

\* What the floor and the mode leave.
LEMMA SelectIs ==
    ASSUME NEW hits \in Seq(Given)
    PROVE  /\ Select(hits) \in Seq(Given)
           /\ Elements(Select(hits)) = IF mode = "strict" THEN {h \in Elements(hits) : Tier[h.unit] >= Floor}
                                       ELSE Elements(hits)
<1>1. /\ Within(hits, MeetsFloor(hits)) \in Seq(Given)
      /\ Elements(Within(hits, MeetsFloor(hits))) = Elements(hits) \cap MeetsFloor(hits)
  BY WithinIs
<1>2. Elements(hits) \cap MeetsFloor(hits) = {h \in Elements(hits) : Tier[h.unit] >= Floor}
  BY RangeIs DEF MeetsFloor
<1>3. CASE mode = "exploratory"
  BY <1>3 DEF Select
<1>4. CASE mode = "strict"
  <2>1. Select(hits) = ByTier(Within(hits, MeetsFloor(hits)))
    BY <1>4 DEF Select
  <2> QED BY <1>1, <1>2, <1>4, <2>1, ByTierIs
<1>5. CASE mode \notin {"exploratory", "strict"}
  <2>1. Select(hits) = ByTier(hits)
    BY <1>5 DEF Select
  <2> QED BY <1>5, <2>1, ByTierIs
<1> QED
  BY <1>3, <1>4, <1>5

\* What could be read.
LEMMA ReadableIs ==
    ASSUME candidates \in Seq(Given)
    PROVE  /\ Readable \in Seq(Given)
           /\ Elements(Readable) = {h \in Elements(candidates) : h.unit \notin Unreadable}
<1> DEFINE S == {h \in Range(candidates) : h.unit \notin Unreadable}
<1>1. Within(candidates, S) \in Seq(Given) /\ Elements(Within(candidates, S)) = Elements(candidates) \cap S
  <2> HIDE DEF S
  <2> QED BY WithinIs
<1>2. Elements(candidates) \cap S = {h \in Elements(candidates) : h.unit \notin Unreadable}
  BY RangeIs
<1> QED
  BY <1>1, <1>2 DEF Readable

\* What could be read and is about what was asked.
LEMMA RelevantIs ==
    ASSUME candidates \in Seq(Given)
    PROVE  /\ Relevant \in Seq(Given)
           /\ Elements(Relevant) = {h \in Elements(candidates) : /\ h.unit \notin Unreadable
                                                                 /\ Related(h.unit, EvidenceTopics)}
<1> DEFINE S == {h \in Range(Readable) : Related(h.unit, EvidenceTopics)}
<1>0. /\ Readable \in Seq(Given)
      /\ Elements(Readable) = {h \in Elements(candidates) : h.unit \notin Unreadable}
  BY ReadableIs
<1>1. Within(Readable, S) \in Seq(Given) /\ Elements(Within(Readable, S)) = Elements(Readable) \cap S
  <2> HIDE DEF S
  <2> QED BY <1>0, WithinIs
<1>2. Elements(Readable) \cap S = {h \in Elements(Readable) : Related(h.unit, EvidenceTopics)}
  BY RangeIs
<1> QED
  BY <1>0, <1>1, <1>2 DEF Relevant

\* What an answer is selected from, in terms of what was retrieved.
Fit(h) == /\ h.unit \notin Unreadable /\ Related(h.unit, EvidenceTopics)
          /\ mode = "strict" => Tier[h.unit] >= Floor

\* What is selected is what is fit.
LEMMA GroundIs ==
    ASSUME candidates \in Seq(Given)
    PROVE  /\ Select(Relevant) \in Seq(Given)
           /\ Elements(Select(Relevant)) = {h \in Elements(candidates) : Fit(h)}
<1>1. /\ Relevant \in Seq(Given)
      /\ Elements(Relevant) = {h \in Elements(candidates) : /\ h.unit \notin Unreadable
                                                            /\ Related(h.unit, EvidenceTopics)}
  BY RelevantIs
<1>2. /\ Select(Relevant) \in Seq(Given)
      /\ Elements(Select(Relevant)) = IF mode = "strict" THEN {h \in Elements(Relevant) : Tier[h.unit] >= Floor}
                                      ELSE Elements(Relevant)
  BY <1>1, SelectIs
<1> QED
  BY <1>1, <1>2 DEF Fit

-----------------------------------------------------------------------------
(* What is retrieved *)

List == [done : BOOLEAN, hits : Seq(Given)]

RetrievedInv ==
    /\ candidates \in Seq(Given) /\ mode \in Modes
    /\ pc \in {"recall", "rewrite"} => languages \in Searches
    /\ Len(extra) \in Nat
    /\ lists \in Seq(List) /\ \A i \in DOMAIN lists : Len(lists[i].hits) <= Depth
    /\ lists # <<>> => Len(Retrievers) # 0

LEMMA RetrievedInit == ASSUME Init PROVE RetrievedInv
<1>1. Len(<<>>) = 0 /\ DOMAIN <<>> = {}
  OBVIOUS
<1> QED
  BY <1>1 DEF Init, RetrievedInv, Modes

\* The rewrites are finitely many.
LEMMA DistinctIs ==
    ASSUME languages \in Searches, NEW cached
    PROVE  Len(Distinct(cached)) \in Nat
<1> DEFINE made == [i \in DOMAIN languages |-> cached[<<question, languages[i]>>]]
           first == {i \in DOMAIN made : \A j \in 1..(i - 1) : made[j] # made[i]}
           places == [i \in DOMAIN made |-> i]
           S == {i \in first : made[i] \notin {"none", question}}
           useful == Within(places, S)
           term(n) == made[useful[n]]
<1>1. languages \in Seq(Range(languages))
  BY RetrievalAssumption
<1>2. places \in Seq(Nat)
  <2>1. DOMAIN made = 1..Len(languages) /\ Len(languages) \in Nat
    BY <1>1
  <2> HIDE DEF made
  <2> QED BY <2>1
<1>3. useful \in Seq(Nat)
  <2> HIDE DEF places, S
  <2> QED BY <1>2, WithinIs
<1>4. Distinct(cached) = [n \in DOMAIN useful |-> term(n)]
  BY DEF Distinct
<1> HIDE DEF useful, term
<1>5. DOMAIN useful = 1..Len(useful) /\ Len(useful) \in Nat
  BY <1>3
<1> DEFINE T == {term(n) : n \in 1..Len(useful)}
<1>6. [n \in 1..Len(useful) |-> term(n)] \in [1..Len(useful) -> T]
  OBVIOUS
<1> HIDE DEF T
<1>7. [n \in 1..Len(useful) |-> term(n)] \in Seq(T)
  BY <1>5, <1>6
<1> QED
  BY <1>4, <1>5, <1>7

\* A retriever returns hits, at most k.
LEMMA ListedIs ==
    ASSUME NEW i \in DOMAIN lists, RetrievedInv, NEW hits \in Listed(i)
    PROVE  hits \in Seq(Given) /\ Len(hits) <= Depth
<1>0. Depth \in Nat
  BY RankAssumption
<1>1. Retriever(i) \in Range(Retrievers)
  <2>1. Len(Retrievers) \in Nat /\ Len(Retrievers) # 0 /\ i \in Nat /\ i >= 1
    BY RetrievalAssumption DEF RetrievedInv
  <2>2. ((i - 1) % Len(Retrievers)) + 1 \in 1..Len(Retrievers)
    BY <2>1
  <2>3. DOMAIN Retrievers = 1..Len(Retrievers)
    BY RetrievalAssumption
  <2> QED BY <2>2, <2>3 DEF Retriever, Range
<1> DEFINE r == Retriever(i)
<1>2. PICK s \in Found(i) : hits = [n \in DOMAIN s |-> Hit(s[n], Score[r], r \in Verbatim)]
  BY DEF Listed
<1>3. s \in Seq(Units) /\ Len(s) <= Depth
  <2>1. CASE r \in Semantic
    BY <2>1, RetrievalAssumption DEF Found
  <2>2. CASE r \notin Semantic
    <3> DEFINE related == {u \in Units : Related(u, QueryTopics(Query(i)))}
               most == IF Cardinality(related) < Depth THEN Cardinality(related) ELSE Depth
    <3>1. IsFiniteSet(related)
      <4>1. related \in SUBSET Units OBVIOUS
      <4> HIDE DEF related
      <4> QED BY <4>1, RetrievalAssumption, FS_Subset
    <3>2. Cardinality(related) \in Nat
      <4> HIDE DEF related
      <4> QED BY <3>1, FS_CardinalityType
    <3>3. most \in Nat /\ most <= Depth
      <4> HIDE DEF related
      <4> QED BY <3>2, <1>0
    <3>4. s \in [1..most -> related]
      BY <2>2 DEF Found
    <3>5. related \subseteq Units OBVIOUS
    <3> HIDE DEF most, related
    <3> QED BY <3>3, <3>4, <3>5
  <2> QED BY <2>1, <2>2
<1>4. ASSUME NEW n \in DOMAIN s PROVE Hit(s[n], Score[r], r \in Verbatim) \in Given
  <2>1. s[n] \in Units BY <1>3
  <2>2. Score[r] \in Nat BY <1>1, RetrievalAssumption
  <2>3. Quoting => (r \in Verbatim) = TRUE BY <1>1 DEF Quoting
  <2>4. Hit(s[n], Score[r], r \in Verbatim) \in Hits
    BY <2>1, <2>2 DEF Hit, Hits
  <2> QED BY <2>3, <2>4 DEF Given, Hit
<1>5. DOMAIN s = 1..Len(s) /\ Len(s) \in Nat
  BY <1>3
<1> HIDE DEF r
<1>6. hits \in [1..Len(s) -> Given]
  BY <1>2, <1>4, <1>5
<1> QED
  BY <1>3, <1>5, <1>6

\* The pool is a sequence of hits.
LEMMA RankIs ==
    ASSUME RetrievedInv, Rank
    PROVE  candidates' \in Seq(Given)
<1> DEFINE many == [i \in DOMAIN lists |-> lists[i].hits]
<1>0. Depth \in Nat
  BY RankAssumption
<1>1. ListsOK(many)
  <2>1. DOMAIN lists = 1..Len(lists) /\ Len(lists) \in Nat /\ \A i \in DOMAIN lists : lists[i] \in List
    BY DEF RetrievedInv
  <2>2. \A i \in DOMAIN lists : lists[i].hits \in Seq(Given) /\ Len(lists[i].hits) <= Depth
    BY <2>1 DEF RetrievedInv, List
  <2>3. many \in [1..Len(lists) -> Seq(Given)] /\ \A i \in DOMAIN many : Len(many[i]) <= Depth
    BY <2>1, <2>2
  <2> HIDE DEF many
  <2> QED BY <2>1, <2>3 DEF ListsOK
<1>2. PICK order \in Orders : candidates' = Retrieved(Fused(many), order, TopN, Depth)
  BY DEF Rank
<1>3. order \in Seq(Nat)
  <2>1. CASE Reranks
    <3>1. PICK n \in 0..Depth : order \in [1..n -> 1..(Depth + 1)]
      BY <2>1 DEF Orders
    <3> QED BY <1>0, <3>1
  <2>2. CASE ~Reranks
    BY <2>2 DEF Orders
  <2> QED BY <2>1, <2>2
<1> HIDE DEF many
<1> QED
  BY <1>1, <1>2, <1>3, FusedIs, RetrievedIs

\* Retrieval keeps its types.
LEMMA RetrievedStep == ASSUME RetrievedInv, [Next]_vars PROVE RetrievedInv'
<1>0. CASE UNCHANGED vars
  BY <1>0 DEF RetrievedInv, vars, asking
<1> SUFFICES ASSUME Next PROVE RetrievedInv'
  BY <1>0
<1>1. CASE Begin
  <2>1. Len(<<>>) = 0 /\ DOMAIN <<>> = {} /\ <<>> \in Seq(List) /\ <<>> \in Seq(Given)
    OBVIOUS
  <2> QED BY <1>1, <2>1 DEF Begin, RetrievedInv
<1>2. CASE Recall \/ Load \/ Save \/ OtherSaves \/ Raise \/ Screen \/ Generate
  <2>1. /\ UNCHANGED <<candidates, mode, languages, extra, lists>>
        /\ pc' \in {"recall", "rewrite"} => pc \in {"recall", "rewrite"}
    BY <1>2 DEF Recall, Load, Save, OtherSaves, Raise, Screen, Generate, asking
  <2> QED BY <2>1 DEF RetrievedInv
<1>3. CASE Rewrite
  <2>1. languages \in Searches /\ UNCHANGED <<candidates, mode, languages>> /\ pc' = "retrieve"
    BY <1>3 DEF Rewrite, RetrievedInv, asking
  <2>2. Len(extra') \in Nat
    <3>1. extra' = extra \/ extra' = Distinct(cache')
      BY <1>3 DEF Rewrite
    <3> QED BY <2>1, <3>1, DistinctIs DEF RetrievedInv
  <2> DEFINE m == Len(Retrievers) * (1 + Len(extra'))
  <2>3. lists' = [i \in 1..m |-> Running]
    BY <1>3 DEF Rewrite
  <2>4. m \in Nat /\ (Len(Retrievers) = 0 => m = 0)
    <3>1. Len(Retrievers) \in Nat
      BY RetrievalAssumption
    <3>2. \A x, y \in Nat : x * (1 + y) \in Nat /\ (x = 0 => x * (1 + y) = 0)
      OBVIOUS
    <3> QED BY <2>2, <3>1, <3>2
  <2> HIDE DEF m
  <2>5. Running \in List /\ Running.hits = <<>>
    BY DEF Running, List
  <2>6. lists' \in Seq(List) /\ DOMAIN lists' = 1..m /\ \A i \in DOMAIN lists' : lists'[i] = Running
    BY <2>3, <2>4, <2>5
  <2>7. lists' # <<>> => Len(Retrievers) # 0
    BY <2>3, <2>4
  <2>8. \A i \in DOMAIN lists' : Len(lists'[i].hits) <= Depth
    BY <2>5, <2>6, RankAssumption
  <2> QED BY <2>1, <2>2, <2>6, <2>7, <2>8 DEF RetrievedInv
<1>4. CASE Returns
  <2>1. UNCHANGED <<candidates, mode, languages, extra>> /\ pc' \in {"retrieve", "rank"}
    BY <1>4 DEF Returns, asking
  <2>0. PICK i \in DOMAIN lists : \E hits \in Listed(i) : lists' = [lists EXCEPT ![i] = [done |-> TRUE, hits |-> hits]]
    BY <1>4 DEF Returns
  <2>2. PICK hits \in Listed(i) : lists' = [lists EXCEPT ![i] = [done |-> TRUE, hits |-> hits]]
    BY <2>0
  <2>3. hits \in Seq(Given) /\ Len(hits) <= Depth
    BY ListedIs
  <2>4. [done |-> TRUE, hits |-> hits] \in List
    BY <2>3 DEF List
  <2>5. PICK l : l = [done |-> TRUE, hits |-> hits]
    OBVIOUS
  <2>6. l \in List /\ Len(l.hits) <= Depth /\ lists' = [lists EXCEPT ![i] = l]
    BY <2>2, <2>3, <2>4, <2>5
  <2>7. lists' \in Seq(List) /\ DOMAIN lists' = DOMAIN lists
    BY <2>6 DEF RetrievedInv
  <2>8. \A j \in DOMAIN lists' : Len(lists'[j].hits) <= Depth
    BY <2>6, <2>7 DEF RetrievedInv
  <2>9. lists # <<>>
    OBVIOUS
  <2> QED BY <2>1, <2>7, <2>8, <2>9 DEF RetrievedInv
<1>5. CASE Rank
  <2>1. UNCHANGED <<mode, languages, extra>> /\ pc' = "screen" /\ lists' = <<>>
    BY <1>5 DEF Rank, asking
  <2>2. candidates' \in Seq(Given)
    BY <1>5, RankIs
  <2>3. DOMAIN <<>> = {} /\ <<>> \in Seq(List)
    OBVIOUS
  <2> QED BY <2>1, <2>2, <2>3 DEF RetrievedInv
<1> QED
  BY <1>1, <1>2, <1>3, <1>4, <1>5 DEF Next

-----------------------------------------------------------------------------
(* What is decided, and why *)

Before == {"recall", "rewrite", "retrieve", "rank", "screen"}
Asking == Before \cup {"generate", "raised"}

Ground(g) == g \in Seq(Given) /\ Elements(g) = {h \in Elements(candidates) : Fit(h)}

PhaseInv ==
    /\ pc \in Asking => result = Pending
    /\ pc \in Before => grounded = <<>> /\ attempts = 0
    /\ grounded = <<>> \/ Ground(grounded)
    /\ attempts \in Nat
    /\ pc = "generate" => grounded # <<>> /\ attempts < MaxAttempts /\ attempts < Len(grounded)

\* Who is told of what could not be read.
Told == result.reason \in {"none", "irrelevant", "gate"} /\ result.decision # "pending" => result.unread = Blocked

LEMMA TopicsKeep ==
    ASSUME UNCHANGED <<question, context, extra>>
    PROVE  EvidenceTopics' = EvidenceTopics
BY DEF EvidenceTopics, QueryTopics, TurnTopics

LEMMA GroundKeeps ==
    ASSUME UNCHANGED <<candidates, mode, question, context, extra>>, NEW g, Ground(g)
    PROVE  Ground(g)'
<1>1. EvidenceTopics' = EvidenceTopics
  BY TopicsKeep
<1>2. \A h : Fit(h)' <=> Fit(h)
  BY <1>1 DEF Fit, Related
<1> QED
  BY <1>2 DEF Ground

LEMMA CauseKeeps ==
    ASSUME UNCHANGED <<candidates, mode, question, context, extra, result, attempts, grounded>>,
           Told, RefusalNamesItsCause
    PROVE  Told' /\ RefusalNamesItsCause'
<1>1. EvidenceTopics' = EvidenceTopics
  BY TopicsKeep
<1>2. UnitsOf(candidates)' = UnitsOf(candidates)
  BY DEF UnitsOf
<1>3. Told'
  BY <1>2 DEF Told, Blocked
<1>4. RefusalNamesItsCause'
  BY <1>1, <1>2 DEF RefusalNamesItsCause, Related
<1> QED
  BY <1>3, <1>4

LEMMA PendingIs == Pending.decision = "pending" /\ Pending.reason = "none" /\ Pending.claims = {} /\ Pending.sides = {}
BY DEF Pending

\* What a refusal is made of.
LEMMA RefusedIs ==
    \A reason, unread : /\ Refused(reason, unread).decision = "refused"
                        /\ Refused(reason, unread).reason = reason
                        /\ Refused(reason, unread).unread = unread
                        /\ Refused(reason, unread).claims = {} /\ Refused(reason, unread).sides = {}
BY DEF Refused, Pending

LEMMA PendingExplains ==
    ASSUME result = Pending
    PROVE  Told /\ RefusalNamesItsCause
BY PendingIs DEF Told, RefusalNamesItsCause

\* What all other steps leave alone.
LEMMA StillStep ==
    ASSUME PhaseInv, Next, ~Begin, ~Screen, ~Generate
    PROVE  /\ UNCHANGED <<result, grounded, attempts>>
           /\ \/ grounded = <<>> /\ result = Pending
              \/ UNCHANGED <<candidates, mode, question, context, extra>>
           /\ pc' \in Asking => pc \in Asking
           /\ pc' \in Before => pc \in Before
           /\ pc' = "generate" => pc = "generate"
<1>1. CASE Recall \/ Rewrite \/ Returns \/ Rank
  BY <1>1 DEF Recall, Rewrite, Returns, Rank, PhaseInv, Asking, Before
<1>2. CASE Load \/ Save \/ OtherSaves \/ Raise
  BY <1>2 DEF Load, Save, OtherSaves, Raise, asking, Asking, Before
<1> QED
  BY <1>1, <1>2 DEF Next

LEMMA BeginStep ==
    ASSUME Begin
    PROVE  PhaseInv' /\ Told' /\ RefusalNamesItsCause'
<1>1. result' = Pending /\ grounded' = <<>> /\ attempts' = 0 /\ pc' = "recall"
  BY DEF Begin
<1>2. (result = Pending)' => Told' /\ RefusalNamesItsCause'
  BY PendingExplains, PTL
<1> QED
  BY <1>1, <1>2 DEF PhaseInv, Asking, Before

\* Units that could be read and are about what was asked.
RelevantUnits == {u \in UnitsOf(candidates) \ Unreadable : Related(u, EvidenceTopics)}

LEMMA RelevantUnitsAre ==
    ASSUME candidates \in Seq(Given)
    PROVE  /\ RelevantUnits = {h.unit : h \in Elements(Relevant)}
           /\ Relevant = <<>> <=> RelevantUnits = {}
           /\ Readable = <<>> <=> UnitsOf(candidates) \subseteq Unreadable
<1>1. /\ Relevant \in Seq(Given) /\ Readable \in Seq(Given)
      /\ Elements(Readable) = {h \in Elements(candidates) : h.unit \notin Unreadable}
      /\ Elements(Relevant) = {h \in Elements(candidates) : /\ h.unit \notin Unreadable
                                                            /\ Related(h.unit, EvidenceTopics)}
  BY ReadableIs, RelevantIs
<1>2. UnitsOf(candidates) = {h.unit : h \in Elements(candidates)}
  BY UnitsAre
<1>3. RelevantUnits = {h.unit : h \in Elements(Relevant)}
  BY <1>1, <1>2 DEF RelevantUnits
<1>4. Relevant = <<>> <=> Elements(Relevant) = {}
  BY <1>1, NoElements
<1>5. Readable = <<>> <=> Elements(Readable) = {}
  BY <1>1, NoElements
<1>6. Elements(Relevant) = {} <=> RelevantUnits = {}
  BY <1>3
<1>7. Elements(Readable) = {} <=> UnitsOf(candidates) \subseteq Unreadable
  BY <1>1, <1>2
<1> QED
  BY <1>3, <1>4, <1>5, <1>6, <1>7

\* If nothing relevant is selected, all of it is below the floor of a strict question.
LEMMA NothingSelected ==
    ASSUME candidates \in Seq(Given), Relevant # <<>>, Select(Relevant) = <<>>
    PROVE  mode = "strict" /\ RelevantUnits # {} /\ RelevantUnits \cap Standing = {}
<1>1. Relevant \in Seq(Given) /\ Select(Relevant) \in Seq(Given)
  BY RelevantIs, GroundIs
<1>2. Elements(Select(Relevant)) = IF mode = "strict" THEN {h \in Elements(Relevant) : Tier[h.unit] >= Floor}
                                   ELSE Elements(Relevant)
  BY <1>1, SelectIs
<1>3. Elements(Relevant) # {} /\ Elements(Select(Relevant)) = {}
  <2>1. Elements(Relevant) # {}
    BY <1>1, NoElements
  <2>2. Elements(<<>>) = {}
    BY DEF Elements
  <2> QED BY <2>1, <2>2
<1>4. RelevantUnits = {h.unit : h \in Elements(Relevant)} /\ RelevantUnits # {}
  BY RelevantUnitsAre
<1> QED
  BY <1>2, <1>3, <1>4 DEF Standing

\* What the gates before generation decide, they decide for its cause.
LEMMA ScreenStep ==
    ASSUME RetrievedInv, PhaseInv, Screen
    PROVE  PhaseInv' /\ Told' /\ RefusalNamesItsCause'
<1>0. /\ candidates \in Seq(Given) /\ grounded = <<>> /\ attempts = 0 /\ result = Pending
      /\ UNCHANGED <<candidates, mode, question, context, extra, attempts>>
      /\ result' = Screened
  BY DEF Screen, RetrievedInv, PhaseInv, Asking, Before, asking
<1>1. EvidenceTopics' = EvidenceTopics /\ UnitsOf(candidates)' = UnitsOf(candidates) /\ Blocked' = Blocked
  BY <1>0, TopicsKeep DEF UnitsOf, Blocked
<1>2. RelevantUnits' = RelevantUnits
  BY <1>1 DEF RelevantUnits, Related
<1>3. RefusalNamesItsCause' <=>
        /\ result'.reason = "unreadable" =>
              UnitsOf(candidates) # {} /\ UnitsOf(candidates) \subseteq Unreadable
        /\ result'.reason = "irrelevant" =>
              RelevantUnits = {} /\ (candidates = <<>> \/ ~(UnitsOf(candidates) \subseteq Unreadable))
        /\ result'.reason = "authority" =>
              mode = "strict" /\ RelevantUnits # {} /\ RelevantUnits \cap Standing = {}
        /\ result'.reason = "gate" =>
              /\ attempts' = MaxAttempts \/ attempts' = Len(grounded')
              /\ RelevantUnits # {}
  BY <1>0, <1>1, <1>2 DEF RefusalNamesItsCause, RelevantUnits
<1>4. Told' <=> (result'.reason \in {"none", "irrelevant", "gate"} /\ result'.decision # "pending"
                   => result'.unread = Blocked)
  BY <1>1 DEF Told
<1>5. CASE Screened = Pending
  <2>1. Relevant # <<>> /\ Select(Relevant) # <<>>
    BY <1>5, PendingIs, RefusedIs DEF Screened
  <2>2. grounded' = Select(Relevant) /\ pc' = "generate"
    BY <1>0, <1>5 DEF Screen
  <2>3. Ground(grounded')
    BY <1>0, <2>2, GroundIs DEF Ground
  <2>4. Ground(grounded)'
    <3>1. PICK g : g = grounded'
      OBVIOUS
    <3>2. Ground(g)'
      BY <1>0, <2>3, <3>1, GroundKeeps
    <3> QED BY <3>1, <3>2 DEF Ground
  <2>5. Len(grounded') > 0
    <3>1. grounded' \in Seq(Given) /\ grounded' # <<>>
      BY <2>1, <2>2, <2>3 DEF Ground
    <3> QED BY <3>1
  <2>6. PhaseInv'
    <3>1. MaxAttempts \in Nat /\ MaxAttempts > 0
      BY AskAssumption
    <3> QED BY <1>0, <1>5, <2>1, <2>2, <2>4, <2>5, <3>1 DEF PhaseInv, Asking, Before
  <2> QED BY <1>0, <1>3, <1>4, <1>5, <2>6, PendingIs
<1>6. CASE Screened # Pending
  <2>1. pc' = "remember" /\ grounded' = <<>>
    BY <1>0, <1>6 DEF Screen
  <2>2. PhaseInv'
    BY <1>0, <2>1 DEF PhaseInv, Asking, Before
  <2>3. CASE QuestionGap
    <3>1. Screened = Refused("script", {})
      BY <2>3 DEF Screened
    <3> QED BY <1>0, <1>3, <1>4, <2>2, <3>1, RefusedIs
  <2>4. CASE ~QuestionGap /\ Relevant = <<>> /\ Readable = <<>> /\ Blocked # {}
    <3>1. Screened = Refused("unreadable", {})
      BY <2>4 DEF Screened
    <3>2. UnitsOf(candidates) # {} /\ UnitsOf(candidates) \subseteq Unreadable
      BY <1>0, <2>4, RelevantUnitsAre DEF Blocked
    <3> QED BY <1>0, <1>3, <1>4, <2>2, <3>1, <3>2, RefusedIs
  <2>5. CASE ~QuestionGap /\ Relevant = <<>> /\ ~(Readable = <<>> /\ Blocked # {})
    <3>1. Screened = Refused("irrelevant", Blocked)
      BY <2>5 DEF Screened
    <3>2. RelevantUnits = {}
      BY <1>0, <2>5, RelevantUnitsAre
    <3>3. candidates = <<>> \/ ~(UnitsOf(candidates) \subseteq Unreadable)
      <4>1. SUFFICES ASSUME candidates # <<>>, UnitsOf(candidates) \subseteq Unreadable PROVE FALSE
        OBVIOUS
      <4>2. Readable = <<>>
        BY <1>0, <4>1, RelevantUnitsAre
      <4>3. UnitsOf(candidates) # {}
        <5>1. 1 \in DOMAIN candidates
          BY <1>0, <4>1
        <5> QED BY <5>1 DEF UnitsOf
      <4> QED BY <2>5, <4>1, <4>2, <4>3 DEF Blocked
    <3> QED BY <1>0, <1>3, <1>4, <2>2, <3>1, <3>2, <3>3, RefusedIs
  <2>6. CASE ~QuestionGap /\ Relevant # <<>>
    <3>1. Screened = Refused("authority", {}) /\ Select(Relevant) = <<>>
      BY <1>6, <2>6 DEF Screened
    <3>2. mode = "strict" /\ RelevantUnits # {} /\ RelevantUnits \cap Standing = {}
      BY <1>0, <2>6, <3>1, NothingSelected
    <3> QED BY <1>0, <1>3, <1>4, <2>2, <3>1, <3>2, RefusedIs
  <2> QED BY <2>3, <2>4, <2>5, <2>6
<1> QED
  BY <1>5, <1>6


\* What a call of the generator comes to.
LEMMA GenerateIs ==
    ASSUME PhaseInv, Generate
    PROVE  /\ pc = "generate" /\ result = Pending /\ attempts' = attempts + 1
           /\ UNCHANGED <<candidates, mode, question, context, extra, grounded>>
           /\ \E supported \in SUBSET Claims :
                /\ \A k \in supported : Backs(grounded[attempts + 1], k)
                /\ \/ /\ supported # {} /\ pc' = "remember"
                      /\ result' = Published(grounded[attempts + 1].unit, supported)
                   \/ /\ attempts' = MaxAttempts \/ attempts' = Len(grounded)
                      /\ result' = Refused("gate", Blocked) /\ pc' = "remember"
                   \/ /\ attempts' # MaxAttempts /\ attempts' # Len(grounded)
                      /\ UNCHANGED <<result, pc>>
<1>1. /\ pc = "generate" /\ attempts' = attempts + 1
      /\ UNCHANGED <<candidates, mode, question, context, extra, grounded>>
  BY DEF Generate, asking
<1>2. result = Pending
  BY <1>1 DEF PhaseInv, Asking
<1>3. PICK text \in SUBSET Claims :
         LET top       == grounded[attempts']
             supported == {k \in text : Backs(top, k)}
         IN  IF supported # {} THEN result' = Published(top.unit, supported) /\ pc' = "remember"
             ELSE IF attempts' = MaxAttempts \/ attempts' = Len(grounded)
             THEN result' = Refused("gate", Blocked) /\ pc' = "remember"
             ELSE UNCHANGED <<result, pc>>
  BY DEF Generate
<1> DEFINE top == grounded[attempts + 1]
           supported == {k \in text : Backs(top, k)}
<1>4. /\ \/ /\ supported # {} /\ pc' = "remember"
            /\ result' = Published(top.unit, supported)
         \/ /\ attempts' = MaxAttempts \/ attempts' = Len(grounded)
            /\ result' = Refused("gate", Blocked) /\ pc' = "remember"
         \/ /\ attempts' # MaxAttempts /\ attempts' # Len(grounded)
            /\ UNCHANGED <<result, pc>>
  BY <1>1, <1>3
<1>5. supported \in SUBSET Claims /\ \A k \in supported : Backs(top, k)
  OBVIOUS
<1> HIDE DEF supported
<1> QED
  BY <1>1, <1>2, <1>4, <1>5

\* What is published of a supported claim.
LEMMA PublishedIs ==
    ASSUME NEW u, NEW supported
    PROVE  \/ /\ mode = "strict" /\ Touching(u) # {}
              /\ Published(u, supported).decision = "refused" /\ Published(u, supported).reason = "conflict"
              /\ Published(u, supported).claims = {} /\ Published(u, supported).sides = UNION Touching(u)
           \/ /\ mode = "strict" => Touching(u) = {}
              /\ Published(u, supported).decision = "answered" /\ Published(u, supported).reason = "none"
              /\ Published(u, supported).claims = supported \X {u} /\ Published(u, supported).sides = {}
              /\ Published(u, supported).unread = Blocked
<1>1. CASE mode = "strict" /\ Touching(u) # {}
  <2>1. Published(u, supported) = [Refused("conflict", {}) EXCEPT !.sides = UNION Touching(u)]
    BY <1>1 DEF Published
  <2> QED BY <1>1, <2>1 DEF Refused, Pending
<1>2. CASE ~(mode = "strict" /\ Touching(u) # {})
  BY <1>2 DEF Published
<1> QED
  BY <1>1, <1>2

\* What the generation decides, it decides for its cause.
LEMMA GenerateStep ==
    ASSUME RetrievedInv, PhaseInv, Generate
    PROVE  PhaseInv' /\ Told' /\ RefusalNamesItsCause'
<1>0. /\ pc = "generate" /\ result = Pending /\ attempts' = attempts + 1
      /\ UNCHANGED <<candidates, mode, question, context, extra, grounded>>
  BY GenerateIs
<1>1. PICK supported \in SUBSET Claims :
           \/ /\ supported # {} /\ pc' = "remember"
              /\ result' = Published(grounded[attempts + 1].unit, supported)
           \/ /\ attempts' = MaxAttempts \/ attempts' = Len(grounded)
              /\ result' = Refused("gate", Blocked) /\ pc' = "remember"
           \/ /\ attempts' # MaxAttempts /\ attempts' # Len(grounded)
              /\ UNCHANGED <<result, pc>>
  BY GenerateIs
<1>2. /\ candidates \in Seq(Given) /\ attempts \in Nat /\ attempts < MaxAttempts /\ attempts < Len(grounded)
      /\ grounded # <<>> /\ Ground(grounded)
  BY <1>0 DEF RetrievedInv, PhaseInv
<1>3. MaxAttempts \in Nat /\ Len(grounded) \in Nat
  BY <1>2, AskAssumption DEF Ground
<1>4. Ground(grounded)'
  <2>1. PICK g : g = grounded
    OBVIOUS
  <2>2. Ground(g)'
    BY <1>0, <1>2, <2>1, GroundKeeps
  <2> QED BY <1>0, <2>1, <2>2 DEF Ground
<1>5. Blocked' = Blocked /\ EvidenceTopics' = EvidenceTopics
  BY <1>0, TopicsKeep DEF Blocked, UnitsOf
<1>6. {u \in UnitsOf(candidates) \ Unreadable : Related(u, EvidenceTopics)} # {}
  <2>1. grounded \in Seq(Given) /\ Elements(grounded) = {h \in Elements(candidates) : Fit(h)}
    BY <1>2 DEF Ground
  <2>2. Elements(grounded) # {}
    BY <1>2, <2>1, NoElements
  <2>3. UnitsOf(candidates) = {h.unit : h \in Elements(candidates)}
    BY UnitsAre
  <2>4. PICK h \in Elements(candidates) : Fit(h)
    BY <2>1, <2>2
  <2> QED BY <2>3, <2>4 DEF Fit
<1>7. {u \in UnitsOf(candidates) \ Unreadable : Related(u, EvidenceTopics)}' # {}
  BY <1>0, <1>5, <1>6 DEF UnitsOf, Related
<1>8. CASE supported # {} /\ pc' = "remember" /\ result' = Published(grounded[attempts + 1].unit, supported)
  <2>1. /\ result'.reason \in {"conflict", "none"}
        /\ result'.reason = "none" => result'.unread = Blocked
    BY <1>8, PublishedIs
  <2>2. Told' /\ RefusalNamesItsCause'
    BY <1>5, <2>1 DEF Told, RefusalNamesItsCause
  <2>3. PhaseInv'
    BY <1>0, <1>2, <1>4, <1>8 DEF PhaseInv, Asking, Before
  <2> QED BY <2>2, <2>3
<1>9. CASE /\ attempts' = MaxAttempts \/ attempts' = Len(grounded)
           /\ result' = Refused("gate", Blocked) /\ pc' = "remember"
  <2>1. result'.reason = "gate" /\ result'.unread = Blocked
    BY <1>9, RefusedIs
  <2>2. Told'
    BY <1>5, <2>1 DEF Told
  <2>3. RefusalNamesItsCause'
    BY <1>0, <1>7, <1>9, <2>1 DEF RefusalNamesItsCause
  <2>4. PhaseInv'
    BY <1>0, <1>2, <1>4, <1>9 DEF PhaseInv, Asking, Before
  <2> QED BY <2>2, <2>3, <2>4
<1>10. CASE attempts' # MaxAttempts /\ attempts' # Len(grounded) /\ UNCHANGED <<result, pc>>
  <2>1. attempts' < MaxAttempts /\ attempts' < Len(grounded')
    BY <1>0, <1>2, <1>3, <1>10
  <2>2. PhaseInv'
    BY <1>0, <1>2, <1>4, <1>10, <2>1 DEF PhaseInv, Asking, Before
  <2>3. (result = Pending)' => Told' /\ RefusalNamesItsCause'
    BY PendingExplains, PTL
  <2> QED BY <1>0, <1>10, <2>2, <2>3
<1> QED
  BY <1>1, <1>8, <1>9, <1>10

Verdicts == PhaseInv /\ Told /\ RefusalNamesItsCause

LEMMA VerdictsInit == ASSUME Init PROVE Verdicts
<1>1. result = Pending /\ grounded = <<>> /\ attempts = 0 /\ pc = "idle"
  BY DEF Init
<1> QED
  BY <1>1, PendingExplains DEF Verdicts, PhaseInv, Asking, Before

LEMMA VerdictsStep == ASSUME RetrievedInv, Verdicts, [Next]_vars PROVE Verdicts'
<1>1. CASE UNCHANGED vars
  <2>1. UNCHANGED <<candidates, mode, question, context, extra, result, attempts, grounded, pc>>
    BY <1>1 DEF vars, asking
  <2>2. PICK g : g = grounded
    OBVIOUS
  <2>3. Ground(g) => Ground(g)'
    BY <2>1, GroundKeeps
  <2>4. Ground(grounded) => Ground(grounded)'
    BY <2>1, <2>2, <2>3 DEF Ground
  <2>5. PhaseInv'
    BY <2>1, <2>4 DEF Verdicts, PhaseInv
  <2>6. Told' /\ RefusalNamesItsCause'
    BY <2>1, CauseKeeps DEF Verdicts
  <2> QED BY <2>5, <2>6 DEF Verdicts
<1>2. CASE Begin
  BY <1>2, BeginStep DEF Verdicts
<1>3. CASE Screen
  BY <1>3, ScreenStep DEF Verdicts
<1>4. CASE Generate
  BY <1>4, GenerateStep DEF Verdicts
<1>5. CASE Next /\ ~Begin /\ ~Screen /\ ~Generate
  <2>0. PhaseInv
    BY DEF Verdicts
  <2>1. /\ UNCHANGED <<result, grounded, attempts>>
        /\ \/ grounded = <<>> /\ result = Pending
           \/ UNCHANGED <<candidates, mode, question, context, extra>>
        /\ pc' \in Asking => pc \in Asking
        /\ pc' \in Before => pc \in Before
        /\ pc' = "generate" => pc = "generate"
    BY <1>5, <2>0, StillStep
  <2>2. CASE grounded = <<>> /\ result = Pending
    <3>1. (result = Pending)' => Told' /\ RefusalNamesItsCause'
      BY PendingExplains, PTL
    <3>2. PhaseInv'
      BY <2>0, <2>1, <2>2 DEF PhaseInv
    <3> QED BY <2>1, <2>2, <3>1, <3>2 DEF Verdicts
  <2>3. CASE UNCHANGED <<candidates, mode, question, context, extra>>
    <3>1. PICK g : g = grounded
      OBVIOUS
    <3>2. Ground(g) => Ground(g)'
      BY <2>3, GroundKeeps
    <3>3. Ground(grounded) => Ground(grounded)'
      BY <2>1, <3>1, <3>2 DEF Ground
    <3>4. PhaseInv'
      BY <2>0, <2>1, <3>3 DEF PhaseInv
    <3>5. Told' /\ RefusalNamesItsCause'
      BY <2>1, <2>3, CauseKeeps DEF Verdicts
    <3> QED BY <3>4, <3>5 DEF Verdicts
  <2> QED BY <2>1, <2>2, <2>3
<1> QED
  BY <1>1, <1>2, <1>3, <1>4, <1>5

LEMMA AskInvariant == Spec => [](RetrievedInv /\ Verdicts)
<1>1. Init => RetrievedInv /\ Verdicts
  BY RetrievedInit, VerdictsInit
<1>2. RetrievedInv /\ Verdicts /\ [Next]_vars => RetrievedInv' /\ Verdicts'
  BY RetrievedStep, VerdictsStep
<1> QED
  BY <1>1, <1>2, PTL DEF Spec

\* answer/flow.py: for any corpus, any retrievers and models, and whoever else writes to the
\* conversation, nothing the tokenizer cannot read is answered from, and whoever is answered,
\* or told that nothing relevant was found, is told of it.
THEOREM UnreadableIsTold == Spec => []UnreadableToldNotQuoted
<1>1. PhaseInv => UnitsOf(grounded) \cap Unreadable = {}
  <2>1. UnitsOf(grounded) = {h.unit : h \in Elements(grounded)}
    BY UnitsAre
  <2>2. grounded = <<>> => Elements(grounded) = {}
    BY DEF Elements
  <2>3. Ground(grounded) => \A h \in Elements(grounded) : h.unit \notin Unreadable
    BY DEF Ground, Fit
  <2> QED BY <2>1, <2>2, <2>3 DEF PhaseInv
<1>2. RetrievedInv /\ Verdicts => UnreadableToldNotQuoted
  BY <1>1 DEF Verdicts, Told, UnreadableToldNotQuoted
<1> QED
  BY <1>2, AskInvariant, PTL

\* answer/flow.py: a refusal blames what stood between the question and an answer, whatever
\* the models return and the retrievers find.
THEOREM RefusalsNameTheirCause == Spec => []RefusalNamesItsCause
<1>1. RetrievedInv /\ Verdicts => RefusalNamesItsCause
  BY DEF Verdicts
<1> QED
  BY <1>1, AskInvariant, PTL

-----------------------------------------------------------------------------
(* Cite or abstain *)

\* What is compared is the head of the pool.
LEMMA ComparedIs ==
    ASSUME NEW s \in Seq(Given)
    PROVE  /\ UnitsOf(First(Window, s)) \subseteq UnitsOf(s)
           /\ \A i \in 1..Len(s) : i <= Window => s[i].unit \in UnitsOf(First(Window, s))
<1>1. Window \in Nat
  BY AskAssumption
<1> DEFINE f == First(Window, s)
<1>2. /\ f \in Seq(Given) /\ Len(f) = (IF Window < Len(s) THEN Window ELSE Len(s))
      /\ \A i \in 1..Len(f) : f[i] = s[i]
  BY <1>1, FirstIs
<1>3. DOMAIN f = 1..Len(f) /\ DOMAIN s = 1..Len(s) /\ Len(f) \in Nat /\ Len(s) \in Nat
  BY <1>2
<1> HIDE DEF f
<1>4. UnitsOf(f) \subseteq UnitsOf(s)
  BY <1>1, <1>2, <1>3 DEF UnitsOf
<1>5. ASSUME NEW i \in 1..Len(s), i <= Window PROVE s[i].unit \in UnitsOf(f)
  <2>1. i \in DOMAIN f /\ f[i] = s[i]
    BY <1>1, <1>2, <1>3, <1>5
  <2> QED BY <2>1 DEF UnitsOf
<1> QED
  BY <1>4, <1>5 DEF f

LEMMA NothingGathered ==
    ASSUME grounded = <<>>
    PROVE  UnitsOf(grounded) = {} /\ Compared = {}
<1>1. UnitsOf(<<>>) = {}
  BY DEF UnitsOf
<1>2. First(Window, <<>>) = <<>>
  BY AskAssumption DEF First
<1> QED
  BY <1>1, <1>2 DEF Compared

\* What the abstract answer may rest on.
LEMMA GatheredIs ==
    ASSUME Ground(grounded)
    PROVE  /\ grounded \in Seq(Given)
           /\ UnitsOf(grounded) \subseteq Units
           /\ mode = "strict" => UnitsOf(grounded) \subseteq Standing
           /\ Compared \subseteq UnitsOf(grounded)
<1>1. grounded \in Seq(Given) /\ \A h \in Elements(grounded) : Fit(h) /\ h \in Given
  BY DEF Ground, Elements
<1>2. UnitsOf(grounded) = {h.unit : h \in Elements(grounded)}
  BY UnitsAre
<1>3. UnitsOf(grounded) \subseteq Units
  BY <1>1, <1>2 DEF Given, Hits
<1>4. mode = "strict" => UnitsOf(grounded) \subseteq Standing
  BY <1>1, <1>2, <1>3 DEF Fit, Standing
<1> QED
  BY <1>1, <1>3, <1>4, ComparedIs DEF Compared

LEMMA PromiseInit == ASSUME Init PROVE Promise!Init
<1>1. mode = "strict" /\ grounded = <<>> /\ result = Pending
  BY DEF Init
<1> QED
  BY <1>1, NothingGathered, PendingIs DEF Promise!Init

\* A question begins as the abstract one does.
LEMMA PromiseBegin == ASSUME Begin PROVE Promise!AskNext
<1>1. mode' \in Modes /\ grounded' = <<>> /\ result' = Pending
  BY DEF Begin
<1>2. (grounded = <<>>)' => (UnitsOf(grounded) = {})' /\ (Compared = {})'
  BY NothingGathered, PTL
<1> QED
  BY <1>1, <1>2, PendingIs DEF Promise!AskNext, Modes

\* The gates gather or abstain.
LEMMA PromiseScreen ==
    ASSUME RetrievedInv, Verdicts, Verdicts', Screen
    PROVE  Promise!Gather \/ Promise!Abstain
<1>0. result = Pending /\ result' = Screened /\ mode' = mode /\ grounded = <<>>
  BY DEF Screen, Verdicts, PhaseInv, Asking, Before, asking
<1>1. CASE Screened = Pending
  <2>1. pc' = "generate"
    BY <1>0, <1>1 DEF Screen
  <2>2. Ground(grounded)'
    BY <2>1 DEF Verdicts, PhaseInv
  <2>3. Ground(grounded)' =>
          /\ (UnitsOf(grounded) \subseteq Units)'
          /\ (mode = "strict" => UnitsOf(grounded) \subseteq Standing)'
          /\ (Compared \subseteq UnitsOf(grounded))'
    BY GatheredIs, PTL
  <2>4. Standing' = Standing
    BY DEF Standing
  <2> QED BY <1>0, <1>1, <2>2, <2>3, <2>4, PendingIs DEF Promise!Gather, Promise!Admissible
<1>2. CASE Screened # Pending
  <2>1. grounded' = grounded
    BY <1>0, <1>2 DEF Screen
  <2>2. UnitsOf(grounded)' = UnitsOf(grounded) /\ Compared' = Compared
    BY <2>1 DEF UnitsOf, Compared, First
  <2>3. \E reason, unread : result' = Refused(reason, unread)
    BY <1>0, <1>2 DEF Screened
  <2>4. result'.decision = "refused" /\ result'.claims = {} /\ result'.sides = {}
    BY <2>3, RefusedIs
  <2> QED BY <1>0, <2>2, <2>4, PendingIs DEF Promise!Abstain
<1> QED
  BY <1>1, <1>2

\* Generation answers, abstains or goes on.
LEMMA PromiseGenerate ==
    ASSUME Quoting, RetrievedInv, Verdicts, Generate
    PROVE  Promise!Answer \/ Promise!Abstain \/ UNCHANGED Promise!vars
<1>0. /\ PhaseInv /\ pc = "generate" /\ result = Pending /\ attempts' = attempts + 1
      /\ mode' = mode /\ grounded' = grounded
  BY GenerateIs DEF Verdicts
<1> DEFINE top == grounded[attempts + 1]
<1>1. PICK supported \in SUBSET Claims :
          /\ \A k \in supported : Backs(top, k)
          /\ \/ supported # {} /\ result' = Published(top.unit, supported)
             \/ result' = Refused("gate", Blocked)
             \/ UNCHANGED result
  BY <1>0, GenerateIs
<1>2. UnitsOf(grounded)' = UnitsOf(grounded) /\ Compared' = Compared
  BY <1>0 DEF UnitsOf, Compared, First
<1>3. CASE UNCHANGED result
  BY <1>0, <1>2, <1>3 DEF Promise!vars
<1>4. CASE result' = Refused("gate", Blocked)
  <2>1. result'.decision = "refused" /\ result'.claims = {} /\ result'.sides = {}
    BY <1>4, RefusedIs
  <2> QED BY <1>0, <1>2, <2>1, PendingIs DEF Promise!Abstain
<1>5. CASE supported # {} /\ result' = Published(top.unit, supported)
  <2>1. /\ grounded \in Seq(Given) /\ attempts \in Nat /\ attempts < MaxAttempts /\ attempts < Len(grounded)
        /\ Compared \subseteq UnitsOf(grounded)
    BY <1>0, GatheredIs DEF PhaseInv
  <2>2. Window \in Nat /\ MaxAttempts \in Nat /\ MaxAttempts <= Window /\ Len(grounded) \in Nat
    BY <2>1, AskAssumption
  <2>3. attempts + 1 \in 1..Len(grounded) /\ attempts + 1 <= Window
    BY <2>1, <2>2
  <2>4. top \in Given /\ top.unit \in Compared
    BY <2>1, <2>3, ComparedIs DEF Compared
  <2>5. \A k \in supported : top.unit \in Supports[k]
    BY <1>1, <2>4 DEF Backs, Given, Hits
  <2> DEFINE u == top.unit
  <2>6. u \in Compared /\ u \in UnitsOf(grounded) /\ \A k \in supported : u \in Supports[k]
    BY <2>1, <2>4, <2>5
  <2> HIDE DEF u
  <2>7. result' = Published(u, supported)
    BY <1>5 DEF u
  <2>8. CASE /\ mode = "strict" /\ Touching(u) # {}
             /\ Published(u, supported).decision = "refused"
             /\ Published(u, supported).claims = {} /\ Published(u, supported).sides = UNION Touching(u)
    <3>1. UNION Touching(u) \subseteq Compared
      BY DEF Touching
    <3>2. \E pair \in Conflicts : pair \subseteq UNION Touching(u)
      BY <2>8 DEF Touching
    <3> QED BY <1>0, <1>2, <2>7, <2>8, <3>1, <3>2, PendingIs DEF Promise!Abstain
  <2>9. CASE /\ mode = "strict" => Touching(u) = {}
             /\ Published(u, supported).decision = "answered"
             /\ Published(u, supported).claims = supported \X {u} /\ Published(u, supported).sides = {}
    <3> DEFINE claims == supported \X {u}
    <3>1. claims # {} /\ {x[2] : x \in claims} = {u}
      <4>1. PICK k \in supported : TRUE
        BY <1>5
      <4>2. <<k, u>> \in claims /\ <<k, u>>[2] = u
        BY <4>1
      <4>3. \A x \in claims : x[2] = u
        OBVIOUS
      <4> HIDE DEF claims
      <4> QED BY <4>2, <4>3
    <3>2. \A x \in claims : x[1] \in Claims /\ x[2] \in UnitsOf(grounded) \cap Supports[x[1]]
      BY <2>6
    <3> HIDE DEF claims
    <3>3. mode = "strict" => ~Promise!Contested({x[2] : x \in claims})
      BY <2>9, <3>1 DEF Promise!Contested, Touching
    <3>4. result'.claims = claims /\ result'.decision = "answered"
      BY <2>7, <2>9 DEF claims
    <3> QED BY <1>0, <1>2, <3>1, <3>2, <3>3, <3>4, PendingIs DEF Promise!Answer
  <2> QED BY <2>8, <2>9, PublishedIs
<1> QED
  BY <1>1, <1>3, <1>4, <1>5

LEMMA PromiseStep ==
    ASSUME Quoting, RetrievedInv, Verdicts, Verdicts', [Next]_vars
    PROVE  [Promise!Next]_Promise!vars
<1>1. CASE UNCHANGED vars
  <2>1. UNCHANGED <<mode, grounded, result>>
    BY <1>1 DEF vars, asking
  <2>2. UnitsOf(grounded)' = UnitsOf(grounded) /\ Compared' = Compared
    BY <2>1 DEF UnitsOf, Compared, First
  <2> QED BY <2>1, <2>2 DEF Promise!vars
<1>2. CASE Begin
  BY <1>2, PromiseBegin DEF Promise!Next
<1>3. CASE Screen
  BY <1>3, PromiseScreen DEF Promise!Next
<1>4. CASE Generate
  BY <1>4, PromiseGenerate DEF Promise!Next
<1>5. CASE Next /\ ~Begin /\ ~Screen /\ ~Generate
  <2>1. UNCHANGED <<grounded, result>>
    BY <1>5, StillStep DEF Verdicts
  <2>2. mode' = mode
    BY <1>5 DEF Next, Recall, Rewrite, Returns, Rank, Load, Save, Raise, OtherSaves, asking
  <2>3. UnitsOf(grounded)' = UnitsOf(grounded) /\ Compared' = Compared
    BY <2>1 DEF UnitsOf, Compared, First
  <2> QED BY <2>1, <2>2, <2>3 DEF Promise!vars
<1> QED
  BY <1>1, <1>2, <1>3, <1>4, <1>5

\* Cite or abstain: where every retriever returns passages, an ask decides as GroundedAnswer
\* says, for any corpus, tiers, claims, conflicts, conversation and models.
THEOREM AskCitesOrAbstains ==
    ASSUME Quoting
    PROVE  Spec => ImplementsGroundedAnswer
<1>1. RetrievedInv /\ Verdicts /\ (RetrievedInv /\ Verdicts)' /\ [Next]_vars => [Promise!Next]_Promise!vars
  BY PromiseStep
<1> QED
  BY <1>1, PromiseInit, AskInvariant, PTL DEF Spec, ImplementsGroundedAnswer, Promise!Spec
=============================================================================
