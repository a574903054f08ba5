----------------------------- MODULE Foundations -----------------------------
(***************************************************************************)
(* What the proofs about several components need of numbers, finite sets and*)
(* sequences: a least number, induction and recursion over data stated for *)
(* sets, what Within keeps, and ranks in a finite order.                   *)
(***************************************************************************)
EXTENDS Integers, Sequences, Selection, FiniteSets, FunctionTheorems, FiniteSetTheorems,
        SequenceTheorems, WellFoundedInduction, TLAPS

\* A nonempty set of numbers has a least one.
LEMMA NatMin ==
    ASSUME NEW T, T \subseteq Nat, T # {}
    PROVE  \E n \in T : \A m \in T : n <= m
<1> DEFINE Upto(n) == T \cap (0..n)
           F == {Upto(n) : n \in T}
           R == StrictSubsetOrdering(Nat)
<1>1. \A n \in T : IsFiniteSet(Upto(n))
  <2> SUFFICES ASSUME NEW n \in T PROVE IsFiniteSet(Upto(n))
    OBVIOUS
  <2>1. IsFiniteSet(0..n)
    BY FS_Interval
  <2> QED
    BY <2>1, FS_Intersection
<1>2. F \subseteq FiniteSubsetsOf(Nat)
  BY <1>1 DEF FiniteSubsetsOf
<1>3. \E x \in F : \A y \in F : ~(<<y, x>> \in R)
  <2>1. F # {} OBVIOUS
  <2>2. IsWellFoundedOn(R, FiniteSubsetsOf(Nat))
    BY FS_StrictSubsetOrderingWellFounded
  <2> HIDE DEF F, R
  <2> QED BY <1>2, <2>1, <2>2, WFMin
<1>4. PICK n \in T : \A m \in T : ~(<<Upto(m), Upto(n)>> \in R)
  BY <1>3
<1>5. ASSUME NEW m \in T, m < n PROVE FALSE
  <2>1. Upto(m) \in SUBSET Nat /\ Upto(n) \in SUBSET Nat
    OBVIOUS
  <2>2. Upto(m) \subseteq Upto(n) /\ n \in Upto(n) /\ n \notin Upto(m)
    BY <1>5
  <2>3. <<Upto(m), Upto(n)>> \in R
    BY <2>1, <2>2 DEF StrictSubsetOrdering
  <2> QED BY <2>3, <1>4
<1> QED
  BY <1>4, <1>5

\* Induction over the numbers, for a set of them.
LEMMA Induct ==
    ASSUME NEW S, 0 \in S, \A n \in Nat : n \in S => n + 1 \in S
    PROVE  \A n \in Nat : n \in S
<1> DEFINE T == Nat \ S
<1>1. SUFFICES ASSUME T # {} PROVE FALSE
  OBVIOUS
<1>2. PICK n \in T : \A m \in T : n <= m
  BY <1>1, NatMin
<1>3. n # 0 /\ n - 1 \in Nat /\ n - 1 \notin T
  BY <1>2
<1> QED
  BY <1>3

Image(f, S) == {f[x] : x \in S}

OnDomain(f, S) == f = [x \in S |-> f[x]]

\* The image of a finite set is finite.
LEMMA FiniteImage ==
    ASSUME NEW S, IsFiniteSet(S), NEW f, OnDomain(f, S)
    PROVE  IsFiniteSet(Image(f, S))
<1>1. f \in Surjection(S, Image(f, S))
  BY DEF Surjection, Image, OnDomain
<1> QED
  BY <1>1, FS_Surjection

Recurs(f, n, V, a, G) ==
    f \in [0..n -> V] /\ f[0] = a /\ \A i \in 1..n : f[i] = G[i][f[i - 1]]

\* A recursion over 0..n that stays among V has a function that follows it.
LEMMA SeqRecursion ==
    ASSUME NEW n \in Nat, NEW V, NEW a \in V, NEW G \in [1..n -> [V -> V]]
    PROVE  \E f : Recurs(f, n, V, a, G)
<1> DEFINE S == {m \in Nat : m <= n =>
                    \E f \in [0..m -> V] : f[0] = a /\ \A i \in 1..m : f[i] = G[i][f[i - 1]]}
<1>1. 0 \in S
  <2> DEFINE f == [i \in 0..0 |-> a]
  <2>1. f \in [0..0 -> V] /\ f[0] = a /\ 1..0 = {}
    OBVIOUS
  <2>2. \A i \in 1..0 : f[i] = G[i][f[i - 1]]
    BY <2>1
  <2> HIDE DEF f
  <2> QED BY <2>1, <2>2
<1>2. ASSUME NEW m \in Nat, m \in S PROVE m + 1 \in S
  <2> SUFFICES ASSUME m + 1 <= n
              PROVE  \E f \in [0..(m + 1) -> V] : f[0] = a /\ \A i \in 1..(m + 1) : f[i] = G[i][f[i - 1]]
    OBVIOUS
  <2>1. PICK f \in [0..m -> V] : f[0] = a /\ \A i \in 1..m : f[i] = G[i][f[i - 1]]
    BY <1>2
  <2> DEFINE g == [i \in 0..(m + 1) |-> IF i <= m THEN f[i] ELSE G[m + 1][f[m]]]
  <2>2. G[m + 1] \in [V -> V] /\ f[m] \in V
    OBVIOUS
  <2>3. g \in [0..(m + 1) -> V]
    BY <2>2
  <2>4. g[0] = a
    BY <2>1
  <2>5. ASSUME NEW i \in 1..(m + 1) PROVE g[i] = G[i][g[i - 1]]
    <3>1. CASE i <= m
      BY <3>1, <2>1
    <3>2. CASE i = m + 1
      BY <3>2
    <3> QED BY <3>1, <3>2
  <2> HIDE DEF g
  <2> QED BY <2>3, <2>4, <2>5
<1> HIDE DEF S
<1>3. \A m \in Nat : m \in S
  BY <1>1, <1>2, Induct
<1> QED
  BY <1>3 DEF S, Recurs

Elements(s) == {s[i] : i \in DOMAIN s}

\* What Within computes, one element after the other.
LEMMA WithinUnfolds ==
    ASSUME NEW X, NEW s \in Seq(X), NEW S
    PROVE  \E kept : /\ Within(s, S) = kept[Len(s)]
                     /\ kept[0] = <<>>
                     /\ \A i \in 1..Len(s) : kept[i] = IF s[i] \in S THEN Append(kept[i - 1], s[i])
                                                                    ELSE kept[i - 1]
<1> DEFINE V == Seq(X)
           G == [i \in 1..Len(s) |-> [x \in V |-> IF s[i] \in S THEN Append(x, s[i]) ELSE x]]
           K(g) == [i \in 0..Len(s) |-> IF i = 0 THEN <<>>
                                        ELSE IF s[i] \in S THEN Append(g[i - 1], s[i]) ELSE g[i - 1]]
           kept == CHOOSE g : g = K(g)
<1>1. G \in [1..Len(s) -> [V -> V]]
  OBVIOUS
<1>2. PICK f : Recurs(f, Len(s), V, <<>>, G)
  <2>1. Len(s) \in Nat /\ <<>> \in V OBVIOUS
  <2> HIDE DEF V, G
  <2> QED BY <1>1, <2>1, SeqRecursion
<1>3. f \in [0..Len(s) -> V] /\ f[0] = <<>> /\ \A i \in 1..Len(s) : f[i] = G[i][f[i - 1]]
  BY <1>2 DEF Recurs
<1>4. f = K(f)
  <2>1. \A i \in 0..Len(s) : f[i] = K(f)[i]
    <3> SUFFICES ASSUME NEW i \in 0..Len(s) PROVE f[i] = K(f)[i]
      OBVIOUS
    <3>1. CASE i = 0 BY <3>1, <1>3
    <3>2. CASE i # 0
      <4>1. i \in 1..Len(s) /\ i - 1 \in 0..Len(s) BY <3>2
      <4>2. f[i] = G[i][f[i - 1]] /\ f[i - 1] \in V BY <4>1, <1>3
      <4> QED BY <4>1, <4>2, <3>2
    <3> QED BY <3>1, <3>2
  <2>2. f = [i \in 0..Len(s) |-> f[i]]
    BY <1>3
  <2> QED BY <2>1, <2>2
<1>5. kept = K(kept)
  BY <1>4
<1>6. Within(s, S) = kept[Len(s)]
  BY DEF Within
<1>7. kept[0] = <<>> /\ \A i \in 1..Len(s) : kept[i] = IF s[i] \in S THEN Append(kept[i - 1], s[i])
                                                                    ELSE kept[i - 1]
  <2> HIDE DEF kept
  <2>1. \A i \in 0..Len(s) : kept[i] = K(kept)[i]
     BY <1>5
  <2> QED BY <2>1
<1> HIDE DEF kept
<1> QED
  BY <1>6, <1>7

\* Appending adds one element.
LEMMA RanAppend ==
    ASSUME NEW X, NEW s \in Seq(X), NEW e \in X
    PROVE  Elements(Append(s, e)) = Elements(s) \cup {e}
<1> DEFINE t == Append(s, e)
<1>1. /\ t \in Seq(X) /\ DOMAIN t = 1..(Len(s) + 1) /\ DOMAIN s = 1..Len(s)
      /\ \A i \in 1..Len(s) : t[i] = s[i]
      /\ t[Len(s) + 1] = e
      /\ Len(s) \in Nat
  OBVIOUS
<1> HIDE DEF t
<1>2. ASSUME NEW x \in Elements(t) PROVE x \in Elements(s) \cup {e}
  <2>1. PICK i \in 1..(Len(s) + 1) : x = t[i]
    BY <1>1 DEF Elements
  <2>2. CASE i = Len(s) + 1
    BY <1>1, <2>1, <2>2
  <2>3. CASE i \in 1..Len(s)
    BY <1>1, <2>1, <2>3 DEF Elements
  <2> QED BY <1>1, <2>2, <2>3
<1>3. ASSUME NEW x \in Elements(s) \cup {e} PROVE x \in Elements(t)
  <2>1. CASE x = e
    <3>1. Len(s) + 1 \in DOMAIN t BY <1>1
    <3> QED BY <1>1, <2>1, <3>1 DEF Elements
  <2>2. CASE x \in Elements(s)
    <3>1. PICK i \in 1..Len(s) : x = s[i]
      BY <1>1, <2>2 DEF Elements
    <3>2. i \in DOMAIN t /\ t[i] = x BY <1>1, <3>1
    <3> QED BY <3>2 DEF Elements
  <2> QED BY <2>1, <2>2
<1> QED
  BY <1>2, <1>3 DEF t

\* Within keeps of a sequence exactly the elements that are in the set.
LEMMA WithinIs ==
    ASSUME NEW X, NEW s \in Seq(X), NEW S
    PROVE  /\ Within(s, S) \in Seq(X)
           /\ Elements(Within(s, S)) = Elements(s) \cap S
           /\ Len(Within(s, S)) <= Len(s)
<1>1. PICK kept : /\ Within(s, S) = kept[Len(s)]
                  /\ kept[0] = <<>>
                  /\ \A i \in 1..Len(s) : kept[i] = IF s[i] \in S THEN Append(kept[i - 1], s[i])
                                                                 ELSE kept[i - 1]
  BY WithinUnfolds
<1> DEFINE Good(i) == /\ kept[i] \in Seq(X)
                      /\ Elements(kept[i]) = {s[j] : j \in 1..i} \cap S
                      /\ Len(kept[i]) <= i
           T == {i \in Nat : i <= Len(s) => Good(i)}
<1>2. 0 \in T
  <2>1. Elements(<<>>) = {} /\ {s[j] : j \in 1..0} = {} /\ Len(<<>>) = 0 /\ <<>> \in Seq(X)
    BY DEF Elements
  <2>0. kept[0] = <<>>
    BY <1>1
  <2>2. Good(0)
    <3>1. Elements(kept[0]) = {} BY <2>0, <2>1
    <3>2. kept[0] \in Seq(X) /\ Len(kept[0]) <= 0 BY <2>0
    <3>3. {s[j] : j \in 1..0} \cap S = {} BY <2>1
    <3> QED BY <3>1, <3>2, <3>3
  <2> HIDE DEF Good
  <2> QED BY <2>2
<1>3. ASSUME NEW i \in Nat, i \in T PROVE i + 1 \in T
  <2> SUFFICES ASSUME i + 1 <= Len(s) PROVE Good(i + 1)
    OBVIOUS
  <2> DEFINE k == kept[i]
  <2>1. Good(i)
    BY <1>3
  <2>2. i + 1 \in 1..Len(s) /\ (i + 1) - 1 = i
    OBVIOUS
  <2>3. kept[i + 1] = IF s[i + 1] \in S THEN Append(k, s[i + 1]) ELSE k
    BY <2>2, <1>1
  <2>4. s[i + 1] \in X
    BY <2>2
  <2>5. {s[j] : j \in 1..(i + 1)} = {s[j] : j \in 1..i} \cup {s[i + 1]}
    BY <2>2
  <2> HIDE DEF k
  <2>6. Elements(Append(k, s[i + 1])) = Elements(k) \cup {s[i + 1]}
    <3>1. k \in Seq(X) BY <2>1 DEF k
    <3> QED BY <3>1, <2>4, RanAppend
  <2>7. CASE s[i + 1] \in S
    BY <2>1, <2>3, <2>4, <2>5, <2>6, <2>7 DEF k
  <2>8. CASE s[i + 1] \notin S
    BY <2>1, <2>3, <2>5, <2>8 DEF k
  <2> QED BY <2>7, <2>8
<1>4. \A i \in Nat : i \in T
  <2> HIDE DEF T
  <2> QED BY <1>2, <1>3, Induct
<1>5. Good(Len(s))
  <2> HIDE DEF Good
  <2>1. Len(s) \in Nat OBVIOUS
  <2> QED BY <2>1, <1>4
<1>6. {s[j] : j \in 1..Len(s)} = Elements(s)
  BY DEF Elements
<1> QED
  BY <1>1, <1>5, <1>6

Above(R, S, u) == {v \in S : <<v, u>> \in R}

\* R orders S strictly and totally.
StrictOrder(R, S) ==
    /\ \A u \in S : <<u, u>> \notin R
    /\ \A u, v \in S : u # v => <<u, v>> \in R \/ <<v, u>> \in R
    /\ \A u, v, w \in S : <<u, v>> \in R /\ <<v, w>> \in R => <<u, w>> \in R

\* In a finite strict total order the number of elements above an element is its
\* rank: below the size, growing along the order, and each rank is someone's.
LEMMA Ranking ==
    ASSUME NEW S, IsFiniteSet(S), NEW R, StrictOrder(R, S)
    PROVE  /\ \A u \in S : Cardinality(Above(R, S, u)) \in 0..(Cardinality(S) - 1)
           /\ \A u, v \in S : <<u, v>> \in R => Cardinality(Above(R, S, u)) < Cardinality(Above(R, S, v))
           /\ \A i \in 1..Cardinality(S) : \E u \in S : Cardinality(Above(R, S, u)) = i - 1
<1> DEFINE n == Cardinality(S)
           A(u) == Above(R, S, u)
           rank == [u \in S |-> Cardinality(A(u)) + 1]
<1>1. n \in Nat
  BY FS_CardinalityType
<1>2. ASSUME NEW u \in S PROVE IsFiniteSet(A(u)) /\ Cardinality(A(u)) \in Nat /\ Cardinality(A(u)) < n
  <2>1. A(u) \in SUBSET S /\ u \notin A(u)
    BY DEF Above, StrictOrder
  <2>2. IsFiniteSet(A(u)) /\ Cardinality(A(u)) <= n /\ (n = Cardinality(A(u)) => S = A(u))
    BY <2>1, FS_Subset
  <2>3. Cardinality(A(u)) \in Nat
    BY <2>2, FS_CardinalityType
  <2> HIDE DEF n, A
  <2> QED BY <2>1, <2>2, <2>3, <1>1
<1>3. ASSUME NEW u \in S, NEW v \in S, <<u, v>> \in R PROVE Cardinality(A(u)) < Cardinality(A(v))
  <2>1. A(u) \in SUBSET A(v)
    BY <1>3 DEF Above, StrictOrder
  <2>2. u \in A(v) /\ u \notin A(u)
    BY <1>3 DEF Above, StrictOrder
  <2>3. IsFiniteSet(A(v))
    BY <1>2
  <2>4. Cardinality(A(u)) <= Cardinality(A(v)) /\ (Cardinality(A(v)) = Cardinality(A(u)) => A(v) = A(u))
    BY <2>1, <2>3, FS_Subset
  <2>5. Cardinality(A(u)) \in Nat /\ Cardinality(A(v)) \in Nat
    BY <1>2
  <2> HIDE DEF A
  <2> QED BY <2>2, <2>4, <2>5
<1>4. rank \in Injection(S, 1..n)
  <2>1. rank \in [S -> 1..n]
    <3> SUFFICES ASSUME NEW u \in S PROVE Cardinality(A(u)) + 1 \in 1..n
      OBVIOUS
    <3>1. Cardinality(A(u)) \in Nat /\ Cardinality(A(u)) < n BY <1>2
    <3> HIDE DEF A, n
    <3> QED BY <3>1, <1>1
  <2>2. ASSUME NEW u \in S, NEW v \in S, rank[u] = rank[v] PROVE u = v
    <3>1. Cardinality(A(u)) \in Nat /\ Cardinality(A(v)) \in Nat
      BY <1>2
    <3>2. Cardinality(A(u)) = Cardinality(A(v))
      BY <3>1, <2>2
    <3>3. <<u, v>> \notin R /\ <<v, u>> \notin R
      BY <3>1, <3>2, <1>3
    <3> QED BY <3>3 DEF StrictOrder
  <2> HIDE DEF rank
  <2> QED BY <2>1, <2>2 DEF Injection, IsInjective
<1>5. rank \in Surjection(S, 1..n)
  <2>1. IsFiniteSet(1..n) /\ Cardinality(1..n) = n
    <3> HIDE DEF n
    <3>1. n \in Int BY <1>1
    <3>2. IsFiniteSet(1..n) /\ Cardinality(1..n) = IF 1 > n THEN 0 ELSE n - 1 + 1
      BY <3>1, FS_Interval
    <3> QED BY <3>2, <1>1
  <2> HIDE DEF rank
  <2>2. Cardinality(S) = Cardinality(1..n) <=> rank \in Surjection(S, 1..n)
    BY <1>4, <2>1, FS_Injection
  <2> QED BY <2>1, <2>2
<1>6. ASSUME NEW i \in 1..n PROVE \E u \in S : Cardinality(A(u)) = i - 1
  <2>1. PICK u \in S : rank[u] = i
    <3> HIDE DEF rank
    <3> QED BY <1>5 DEF Surjection
  <2>2. Cardinality(A(u)) \in Nat /\ rank[u] = Cardinality(A(u)) + 1
    BY <1>2
  <2> HIDE DEF A, rank
  <2> QED BY <2>1, <2>2
<1>7. \A u \in S : Cardinality(A(u)) \in 0..(n - 1)
  <2> SUFFICES ASSUME NEW u \in S PROVE Cardinality(A(u)) \in 0..(n - 1)
    OBVIOUS
  <2>1. Cardinality(A(u)) \in Nat /\ Cardinality(A(u)) < n BY <1>2
  <2> HIDE DEF A, n
  <2> QED BY <2>1, <1>1
<1> QED
  BY <1>3, <1>6, <1>7
=============================================================================
