--------------------------- MODULE DeepAsk_proofs ---------------------------
(***************************************************************************)
(* What holds of a deep-ask run for any units, tiers, claims, conflicts    *)
(* and budgets, whatever the tools and models return.                      *)
(***************************************************************************)
EXTENDS DeepAsk, FiniteSetTheorems, TLAPS

-----------------------------------------------------------------------------
(* Sequences without repetition, and the order of selection *)

Distinct(s) == \A i, j \in DOMAIN s : s[i] = s[j] => i = j

StrictOrder(S, R) ==
    /\ \A u, v \in S : u # v => <<u, v>> \in R \/ <<v, u>> \in R
    /\ \A u, v \in S : <<u, v>> \in R => <<v, u>> \notin R
    /\ \A u, v, w \in S : <<u, v>> \in R /\ <<v, w>> \in R => <<u, w>> \in R

\* Arranged lists each element of S once and in the order R: an element has the
\* position that counts the elements before it.
LEMMA Arrange ==
    ASSUME NEW S, IsFiniteSet(S), NEW R, StrictOrder(S, R)
    PROVE  /\ Arranged(S, R) \in [1..Cardinality(S) -> S]
           /\ Distinct(Arranged(S, R))
           /\ Members(Arranged(S, R)) = S
           /\ \A i, j \in 1..Cardinality(S) :
                 i < j => <<Arranged(S, R)[i], Arranged(S, R)[j]>> \in R
<1> DEFINE n == Cardinality(S)
           below(u) == {v \in S : <<v, u>> \in R}
           before == [u \in S |-> Cardinality(below(u))]
           pos == [u \in S |-> before[u] + 1]
           s == Arranged(S, R)
<1>0. n \in Nat
  BY FS_CardinalityType
<1>1. \A u \in S : IsFiniteSet(below(u)) /\ before[u] = Cardinality(below(u))
  <2> TAKE u \in S
  <2>1. below(u) \in SUBSET S
    OBVIOUS
  <2> QED
    BY <2>1, FS_Subset
<1>1a. \A u \in S : before[u] \in Nat
  <2> HIDE DEF before, below
  <2> QED
    BY <1>1, FS_CardinalityType
<1>2. ASSUME NEW u \in S, NEW v \in S, <<u, v>> \in R PROVE before[u] < before[v]
  <2>1. below(u) \in SUBSET below(v)
    BY <1>2 DEF StrictOrder
  <2>2. u \in below(v) /\ u \notin below(u)
    BY <1>2 DEF StrictOrder
  <2>3. before[u] <= before[v] /\ before[u] # before[v]
    BY <1>1, <2>1, <2>2, FS_Subset
  <2> HIDE DEF before
  <2> QED
    BY <1>1a, <2>3
<1>3. \A u \in S : before[u] + 1 \in 1..n
  <2> TAKE u \in S
  <2>1. IsFiniteSet(S \ {u}) /\ Cardinality(S \ {u}) = n - 1
    BY FS_RemoveElement
  <2>2. below(u) \in SUBSET (S \ {u})
    BY DEF StrictOrder
  <2>3. Cardinality(below(u)) <= Cardinality(S \ {u})
    BY <2>1, <2>2, FS_Subset
  <2> HIDE DEF before, n, below
  <2>4. before[u] \in Nat /\ before[u] <= n - 1
    BY <1>1, <1>1a, <2>1, <2>3
  <2> QED
    BY <1>0, <2>4
<1>4. pos \in Injection(S, 1..n)
  <2>1. pos \in [S -> 1..n]
    BY <1>3
  <2>2. ASSUME NEW u \in S, NEW v \in S, pos[u] = pos[v] PROVE u = v
    <3>1. before[u] + 1 = before[v] + 1
      BY <2>2
    <3> HIDE DEF before
    <3>2. ~(before[u] < before[v]) /\ ~(before[v] < before[u])
      BY <1>1a, <3>1
    <3> QED
      BY <1>2, <3>2 DEF StrictOrder
  <2> HIDE DEF pos
  <2> QED
    BY <2>1, <2>2 DEF Injection, IsInjective
<1>5. pos \in Surjection(S, 1..n)
  <2>1. IsFiniteSet(1..n) /\ Cardinality(1..n) = n
    BY <1>0, FS_Interval
  <2> HIDE DEF pos
  <2> QED
    BY <1>4, <2>1, FS_Injection
<1>6. \A i \in 1..n : s[i] \in S /\ before[s[i]] = i - 1
  <2> TAKE i \in 1..n
  <2>1. PICK u \in S : pos[u] = i
    BY <1>5 DEF Surjection
  <2>2. before[u] + 1 = i
    BY <2>1
  <2> HIDE DEF before, n
  <2>3. before[u] = i - 1
    BY <1>1a, <2>2
  <2>4. \E w \in S : Cardinality({v \in S : <<v, w>> \in R}) = i - 1
    BY <1>1, <2>3
  <2>5. s[i] = CHOOSE w \in S : Cardinality({v \in S : <<v, w>> \in R}) = i - 1
    BY DEF Arranged, n
  <2>6. s[i] \in S /\ Cardinality({v \in S : <<v, s[i]>> \in R}) = i - 1
    <3> HIDE DEF s
    <3> QED
      BY <2>4, <2>5
  <2> QED
    BY <1>1, <2>6
<1>7. s \in [1..n -> S]
  BY <1>6 DEF Arranged
<1> HIDE DEF before, s, n, pos
<1>8. ASSUME NEW u \in S, NEW v \in S, before[u] = before[v] PROVE u = v
  <2>1. ~(before[u] < before[v]) /\ ~(before[v] < before[u])
    BY <1>1a, <1>8
  <2> QED
    BY <1>2, <2>1 DEF StrictOrder
<1>9. \A u \in S : s[before[u] + 1] = u
  <2> TAKE u \in S
  <2>1. s[before[u] + 1] \in S /\ before[s[before[u] + 1]] = (before[u] + 1) - 1
    BY <1>3, <1>6
  <2>2. before[s[before[u] + 1]] = before[u]
    BY <1>1a, <2>1
  <2> QED
    BY <1>8, <2>1, <2>2
<1>10. Distinct(s)
  <2> SUFFICES ASSUME NEW i \in 1..n, NEW j \in 1..n, s[i] = s[j] PROVE i = j
    BY <1>7 DEF Distinct
  <2>1. i - 1 = j - 1
    BY <1>6
  <2> QED
    BY <1>0, <2>1
<1>11. Members(s) = S
  BY <1>3, <1>7, <1>9 DEF Members
<1>12. ASSUME NEW i \in 1..n, NEW j \in 1..n, i < j PROVE <<s[i], s[j]>> \in R
  <2>1. s[i] \in S /\ s[j] \in S /\ before[s[i]] = i - 1 /\ before[s[j]] = j - 1
    BY <1>6
  <2>2. s[i] # s[j] /\ ~(before[s[j]] < before[s[i]])
    BY <1>0, <1>12, <2>1
  <2> QED
    BY <1>2, <2>1, <2>2 DEF StrictOrder
<1> QED
  BY <1>7, <1>10, <1>11, <1>12 DEF s, n

\* A sequence has finitely many members, and as many as it is long if none repeats.
LEMMA MembersFinite ==
    ASSUME NEW A, NEW s \in Seq(A)
    PROVE  /\ Members(s) \subseteq A
           /\ IsFiniteSet(Members(s))
           /\ Cardinality(Members(s)) \in Nat
           /\ Cardinality(Members(s)) <= Len(s)
           /\ Distinct(s) => Cardinality(Members(s)) = Len(s)
<1>1. Len(s) \in Nat /\ DOMAIN s = 1..Len(s)
  OBVIOUS
<1>2. s \in Surjection(1..Len(s), Members(s))
  BY <1>1 DEF Members, Surjection
<1>3. IsFiniteSet(1..Len(s)) /\ Cardinality(1..Len(s)) = Len(s)
  BY <1>1, FS_Interval
<1>4. Distinct(s) => s \in Injection(1..Len(s), Members(s))
  BY <1>1, <1>2 DEF Distinct, Injection, IsInjective, Surjection
<1>5. Members(s) \subseteq A
  BY <1>1 DEF Members
<1> QED
  BY <1>2, <1>3, <1>4, <1>5, FS_Surjection, FS_CardinalityType

LEMMA EarlierOrder ==
    ASSUME NEW A, NEW s \in Seq(A)
    PROVE  /\ \A u \in Members(s) : Index(s, u) \in DOMAIN s /\ s[Index(s, u)] = u
           /\ StrictOrder(Members(s), Earlier(s))
<1>1. ASSUME NEW u \in Members(s)
      PROVE  Index(s, u) \in DOMAIN s /\ s[Index(s, u)] = u
  <2>1. \E i \in DOMAIN s : s[i] = u
    BY DEF Members
  <2> QED
    BY <2>1 DEF Index
<1>2. \A u \in Members(s) : Index(s, u) \in DOMAIN s /\ s[Index(s, u)] = u
  BY <1>1
<1>2a. \A u \in Members(s) : Index(s, u) \in Nat
  BY <1>2
<1>3. \A u, v \in Members(s) : <<u, v>> \in Earlier(s) <=> Index(s, u) < Index(s, v)
  BY DEF Earlier
<1>4. \A u, v \in Members(s) : u # v => Index(s, u) # Index(s, v)
  BY <1>2
<1> QED
  BY <1>2, <1>2a, <1>3, <1>4 DEF StrictOrder

LEMMA SubOrder ==
    ASSUME NEW S, NEW T \in SUBSET S, NEW R, StrictOrder(S, R)
    PROVE  StrictOrder(T, R)
BY DEF StrictOrder

LEMMA KeepFacts ==
    ASSUME NEW A, NEW s \in Seq(A), NEW S
    PROVE  /\ Keep(s, S) \in Seq(A)
           /\ Distinct(Keep(s, S))
           /\ Members(Keep(s, S)) = Members(s) \cap S
           /\ \A i, j \in DOMAIN Keep(s, S) :
                 i < j => Index(s, Keep(s, S)[i]) < Index(s, Keep(s, S)[j])
<1> DEFINE T == Members(s) \cap S
<1>1. IsFiniteSet(T) /\ Cardinality(T) \in Nat /\ T \subseteq A
  BY MembersFinite, FS_Subset, FS_CardinalityType
<1>2. StrictOrder(T, Earlier(s))
  BY EarlierOrder, SubOrder
<1>3. /\ Arranged(T, Earlier(s)) \in [1..Cardinality(T) -> T]
      /\ Distinct(Arranged(T, Earlier(s)))
      /\ Members(Arranged(T, Earlier(s))) = T
      /\ \A i, j \in 1..Cardinality(T) :
            i < j => <<Arranged(T, Earlier(s))[i], Arranged(T, Earlier(s))[j]>> \in Earlier(s)
  BY <1>1, <1>2, Arrange
<1>4. Arranged(T, Earlier(s)) \in Seq(A)
  <2> HIDE DEF T
  <2>1. Arranged(T, Earlier(s)) \in [1..Cardinality(T) -> A]
    BY <1>1, <1>3
  <2> QED
    BY <1>1, <2>1
<1>5. \A i, j \in DOMAIN Arranged(T, Earlier(s)) :
         i < j => Index(s, Arranged(T, Earlier(s))[i]) < Index(s, Arranged(T, Earlier(s))[j])
  BY <1>3 DEF Earlier
<1> QED
  BY <1>3, <1>4, <1>5 DEF Keep

\* By standing first, and within it in the order the units came in.
LEMMA PrecedesOrder ==
    ASSUME NEW s \in Seq(Units)
    PROVE  StrictOrder(Members(s), Precedes(s))
<1>1. CASE mode = "exploratory"
  BY <1>1, EarlierOrder DEF Precedes
<1>2. CASE mode # "exploratory"
  <2>1. \A u \in Members(s) : Tier[u] \in Nat
    BY MembersFinite, TierAssumption
  <2>2. \A u, v \in Members(s) :
           <<u, v>> \in Precedes(s) <=>
              \/ Tier[u] > Tier[v]
              \/ Tier[u] = Tier[v] /\ <<u, v>> \in Earlier(s)
    BY <1>2 DEF Precedes
  <2>3. StrictOrder(Members(s), Earlier(s))
    BY EarlierOrder
  <2>4. \A u, v \in Members(s) : u # v => <<u, v>> \in Precedes(s) \/ <<v, u>> \in Precedes(s)
    <3>1. \A u, v \in Members(s) : Tier[u] > Tier[v] \/ Tier[v] > Tier[u] \/ Tier[u] = Tier[v]
      BY <2>1
    <3> QED
      BY <2>2, <2>3, <3>1 DEF StrictOrder
  <2>5. \A u, v \in Members(s) : <<u, v>> \in Precedes(s) => <<v, u>> \notin Precedes(s)
    BY <2>1, <2>2, <2>3 DEF StrictOrder
  <2>6. \A u, v, w \in Members(s) :
           <<u, v>> \in Precedes(s) /\ <<v, w>> \in Precedes(s) => <<u, w>> \in Precedes(s)
    BY <2>1, <2>2, <2>3 DEF StrictOrder
  <2> QED
    BY <2>4, <2>5, <2>6 DEF StrictOrder
<1> QED
  BY <1>1, <1>2

LEMMA SelectFacts ==
    ASSUME NEW s \in Seq(Units)
    PROVE  /\ Select(s) \in Seq(Units)
           /\ Distinct(Select(s))
           /\ Members(Select(s)) = Admissible(s)
           /\ Len(Select(s)) \in Nat /\ Len(Select(s)) <= Len(s)
           /\ mode # "exploratory" =>
                \A i, j \in DOMAIN Select(s) :
                    i < j => Tier[Select(s)[i]] >= Tier[Select(s)[j]]
<1> DEFINE T == Admissible(s)
           sel == Arranged(T, Precedes(s))
<1>1. T \in SUBSET Members(s)
  BY DEF Admissible
<1>2. /\ IsFiniteSet(T) /\ Cardinality(T) \in Nat /\ T \subseteq Units
      /\ Cardinality(T) <= Len(s)
  <2>1. Cardinality(T) <= Cardinality(Members(s)) /\ IsFiniteSet(T)
    BY <1>1, MembersFinite, FS_Subset
  <2>2. Cardinality(Members(s)) <= Len(s) /\ Cardinality(Members(s)) \in Nat
    BY MembersFinite
  <2>3. Cardinality(T) \in Nat
    BY <2>1, FS_CardinalityType
  <2>4. T \subseteq Units
    BY <1>1, MembersFinite
  <2> HIDE DEF T
  <2>5. Cardinality(T) <= Len(s)
    BY <2>1, <2>2, <2>3
  <2> QED
    BY <2>1, <2>3, <2>4, <2>5
<1>3. StrictOrder(T, Precedes(s))
  BY <1>1, PrecedesOrder, SubOrder
<1> HIDE DEF T
<1>4. /\ sel \in [1..Cardinality(T) -> T]
      /\ Distinct(sel)
      /\ Members(sel) = T
      /\ \A i, j \in 1..Cardinality(T) : i < j => <<sel[i], sel[j]>> \in Precedes(s)
  BY <1>2, <1>3, Arrange
<1>5. Select(s) = sel
  BY DEF Select, T
<1> HIDE DEF sel
<1>6. sel \in [1..Cardinality(T) -> Units]
  BY <1>2, <1>4
<1>7. sel \in Seq(Units) /\ Len(sel) = Cardinality(T) /\ DOMAIN sel = 1..Cardinality(T)
  BY <1>2, <1>6
<1>8. ASSUME mode # "exploratory", NEW i \in DOMAIN sel, NEW j \in DOMAIN sel, i < j
      PROVE  Tier[sel[i]] >= Tier[sel[j]]
  <2>1. Tier[sel[i]] > Tier[sel[j]] \/ Tier[sel[i]] = Tier[sel[j]]
    BY <1>4, <1>7, <1>8 DEF Precedes
  <2>2. Tier[sel[i]] \in Nat /\ Tier[sel[j]] \in Nat
    BY <1>6, <1>7, TierAssumption
  <2> QED
    BY <2>1, <2>2
<1> QED
  BY <1>2, <1>4, <1>5, <1>7, <1>8 DEF T

LEMMA FirstFacts ==
    ASSUME NEW A, NEW s \in Seq(A), NEW n \in Nat, Distinct(s)
    PROVE  /\ First(n, s) \in Seq(A)
           /\ Len(First(n, s)) <= n
           /\ Distinct(First(n, s))
           /\ Members(First(n, s)) \subseteq Members(s)
           /\ Len(s) <= n => First(n, s) = s
<1> DEFINE m == IF n < Len(s) THEN n ELSE Len(s)
<1>1. m \in Nat /\ m <= n /\ m <= Len(s) /\ (Len(s) <= n => m = Len(s))
  OBVIOUS
<1>2. First(n, s) = SubSeq(s, 1, m)
  BY DEF First
<1> HIDE DEF m
<1>3. /\ SubSeq(s, 1, m) \in Seq(A)
      /\ Len(SubSeq(s, 1, m)) = m
      /\ DOMAIN SubSeq(s, 1, m) = 1..m
      /\ \A i \in 1..m : SubSeq(s, 1, m)[i] = s[i]
  BY <1>1
<1>4. DOMAIN s = 1..Len(s) /\ 1..m \subseteq 1..Len(s)
  BY <1>1
<1>5. Distinct(SubSeq(s, 1, m)) /\ Members(SubSeq(s, 1, m)) \subseteq Members(s)
  BY <1>3, <1>4 DEF Distinct, Members
<1>6. m = Len(s) => SubSeq(s, 1, m) = s
  BY <1>3
<1> QED
  BY <1>1, <1>2, <1>3, <1>5, <1>6

LEMMA JoinFacts ==
    ASSUME NEW A, NEW s \in Seq(A), NEW t \in Seq(A), Distinct(s), Distinct(t),
           Members(s) \cap Members(t) = {}
    PROVE  /\ s \o t \in Seq(A)
           /\ Len(s \o t) = Len(s) + Len(t)
           /\ Distinct(s \o t)
           /\ Members(s \o t) = Members(s) \cup Members(t)
<1> DEFINE st == s \o t
<1>1. /\ st \in Seq(A)
      /\ Len(st) = Len(s) + Len(t)
      /\ DOMAIN st = 1..(Len(s) + Len(t))
      /\ \A i \in 1..Len(s) : st[i] = s[i]
      /\ \A i \in 1..Len(t) : st[Len(s) + i] = t[i]
  OBVIOUS
<1>2. DOMAIN s = 1..Len(s) /\ DOMAIN t = 1..Len(t) /\ Len(s) \in Nat /\ Len(t) \in Nat
  OBVIOUS
<1> HIDE DEF st
<1>3. \A i \in DOMAIN st : \/ i \in DOMAIN s /\ st[i] = s[i]
                           \/ i - Len(s) \in DOMAIN t /\ st[i] = t[i - Len(s)]
  <2> SUFFICES ASSUME NEW i \in DOMAIN st, ~(i \in DOMAIN s)
               PROVE  i - Len(s) \in DOMAIN t /\ st[i] = t[i - Len(s)]
    BY <1>1, <1>2
  <2>1. i - Len(s) \in 1..Len(t) /\ i = Len(s) + (i - Len(s))
    BY <1>1, <1>2
  <2> QED
    BY <1>1, <1>2, <2>1
<1>4. Members(st) \subseteq Members(s) \cup Members(t)
  BY <1>3 DEF Members
<1>5. Members(s) \cup Members(t) \subseteq Members(st)
  <2>1. \A i \in DOMAIN s : i \in DOMAIN st /\ st[i] = s[i]
    BY <1>1, <1>2
  <2>2. \A i \in DOMAIN t : Len(s) + i \in DOMAIN st /\ st[Len(s) + i] = t[i]
    BY <1>1, <1>2
  <2> QED
    BY <2>1, <2>2 DEF Members
<1>6. ASSUME NEW i \in DOMAIN st, NEW j \in DOMAIN st, st[i] = st[j] PROVE i = j
  <2>1. CASE i \in DOMAIN s /\ st[i] = s[i] /\ j \in DOMAIN s /\ st[j] = s[j]
    BY <1>6, <2>1 DEF Distinct
  <2>2. CASE /\ i - Len(s) \in DOMAIN t /\ st[i] = t[i - Len(s)]
             /\ j - Len(s) \in DOMAIN t /\ st[j] = t[j - Len(s)]
    <3>1. i - Len(s) = j - Len(s)
      BY <1>6, <2>2 DEF Distinct
    <3> QED
      BY <1>1, <1>2, <3>1
  <2>3. ~(st[i] \in Members(s) /\ st[i] \in Members(t))
    OBVIOUS
  <2> QED
    BY <1>3, <1>6, <2>1, <2>2, <2>3 DEF Members
<1> QED
  BY <1>1, <1>4, <1>5, <1>6 DEF Distinct, st

-----------------------------------------------------------------------------
(* The inductive invariant *)

TypeInv == /\ mode \in Modes
           /\ budget \in Budgets
           /\ pc \in PCs
           /\ expired \in BOOLEAN
           /\ pool \in Seq(Units)
           /\ hops \in Nat
           /\ toolCalls \in Nat
           /\ withheld \in Nat
           /\ stop \in StopReasons
           /\ generated \in BOOLEAN
           /\ result \in Result

\* A hop starts with room in the pool, and the pool holds no unit twice and, for a
\* strict question, none below the floor.
PoolInv == /\ Distinct(pool)
           /\ Len(pool) <= Room
           /\ pc \in {"hop", "search", "decide"} => Len(pool) < Room
           /\ mode = "strict" => \A u \in Members(pool) : MeetsFloor(u)

\* The search that a hop is about to make is paid for already, and what a search
\* withholds is bounded by what it may return.
CostInv == /\ hops <= budget.maxHops
           /\ toolCalls <= hops
           /\ toolCalls <= budget.maxToolCalls
           /\ pc = "search" => toolCalls < hops /\ toolCalls < budget.maxToolCalls
           /\ withheld <= toolCalls * budget.searchK

\* There is no answer before the end, and the generator runs over evidence only.
AnswerInv == /\ pc # "done" => result = Pending
             /\ pc \in {"generate", "generating"} \/ generated => pool # <<>>
             /\ RefusalExplained
             /\ EachClaimBySingleUnit
             /\ StrictAnswerUncontested
             /\ mode = "strict" => \A u \in result.sources : MeetsFloor(u)

IInv == TypeInv /\ PoolInv /\ CostInv /\ AnswerInv

LEMMA Products ==
    ASSUME NEW k \in Nat
    PROVE  \A m, n \in Nat : /\ m * k \in Nat
                             /\ (m + 1) * k = m * k + k
                             /\ m <= n => m * k <= n * k
OBVIOUS

-----------------------------------------------------------------------------
(* One search *)

\* What a hop pools is new, fits the pool and comes from what was selected.
LEMMA FreshFacts ==
    ASSUME pool \in Seq(Units), Room \in Nat, Len(pool) <= Room,
           NEW s \in Seq(Units)
    PROVE  /\ Fresh(s) \in Seq(Units)
           /\ Distinct(Fresh(s))
           /\ Len(pool) + Len(Fresh(s)) <= Room
           /\ Members(Fresh(s)) \subseteq Members(s)
           /\ Members(Fresh(s)) \cap Members(pool) = {}
<1> DEFINE room == Room - Len(pool)
           new == Keep(s, Units \ Members(pool))
<1>1. room \in Nat
  OBVIOUS
<1>2. new \in Seq(Units) /\ Distinct(new) /\ Members(new) = Members(s) \cap (Units \ Members(pool))
  BY KeepFacts
<1>3. Fresh(s) = First(room, new)
  BY DEF Fresh
<1> HIDE DEF new
<1>4. /\ First(room, new) \in Seq(Units)
      /\ Distinct(First(room, new))
      /\ Len(First(room, new)) <= room
      /\ Members(First(room, new)) \subseteq Members(new)
  <2> HIDE DEF room
  <2> QED
    BY <1>1, <1>2, FirstFacts
<1>5. Len(pool) + Len(Fresh(s)) <= Room
  <2>1. Len(Fresh(s)) \in Nat
    BY <1>3, <1>4
  <2> QED
    BY <1>3, <1>4, <2>1
<1> HIDE DEF room
<1> QED
  BY <1>2, <1>3, <1>4, <1>5

LEMMA RowsFacts ==
    ASSUME budget.searchK \in Nat, NEW rows \in Rows
    PROVE  rows \in Seq(Units) /\ Len(rows) \in Nat /\ Len(rows) <= budget.searchK
<1>1. PICK n \in 0..budget.searchK : rows \in [1..n -> Units]
  BY DEF Rows
<1> QED
  BY <1>1

LEMMA BudgetFacts ==
    ASSUME budget \in Budgets
    PROVE  /\ budget.maxHops \in Nat /\ budget.maxToolCalls \in Nat
           /\ budget.maxUnits \in Nat /\ Room \in Nat /\ Room > 0 /\ budget.searchK \in Nat
<1>1. budget \in [maxHops : Nat, maxToolCalls : Nat, maxUnits : Nat, searchK : Nat]
  BY BudgetAssumption
<1> QED
  BY <1>1 DEF Room

LEMMA SearchFacts ==
    ASSUME TypeInv, PoolInv, SearchReturns
    PROVE  /\ pool' \in Seq(Units)
           /\ Distinct(pool')
           /\ Len(pool') <= Room
           /\ Members(pool) \subseteq Members(pool')
           /\ mode = "strict" => \A u \in Members(pool') : MeetsFloor(u)
           /\ withheld' \in Nat
           /\ withheld' <= withheld + budget.searchK
           /\ pc' \in {"finish", "decide"}
           /\ pc' = "decide" => Len(pool') < Room
           /\ stop' \in StopReasons
<1>0. /\ Room \in Nat /\ budget.searchK \in Nat
      /\ pool \in Seq(Units) /\ withheld \in Nat /\ stop \in StopReasons
  BY BudgetFacts DEF TypeInv
<1>1. PICK rows \in Rows :
         /\ pool' = pool \o Fresh(Select(rows))
         /\ withheld' = withheld + (Len(rows) - Len(Select(rows)))
         /\ IF Len(pool') >= Room THEN Stop("budget")
            ELSE IF NothingNew(Fresh(Select(rows)), Len(rows) - Len(Select(rows)))
                 THEN Stop("no_new_evidence")
            ELSE pc' = "decide" /\ UNCHANGED stop
  BY DEF SearchReturns
<1>2. rows \in Seq(Units) /\ Len(rows) \in Nat /\ Len(rows) <= budget.searchK
  BY <1>0, RowsFacts
<1>3. /\ Select(rows) \in Seq(Units)
      /\ Members(Select(rows)) = Admissible(rows)
      /\ Len(Select(rows)) \in Nat /\ Len(Select(rows)) <= Len(rows)
  BY <1>2, SelectFacts
<1> DEFINE fresh == Fresh(Select(rows))
           excluded == Len(rows) - Len(Select(rows))
<1>4. /\ fresh \in Seq(Units)
      /\ Distinct(fresh)
      /\ Len(pool) + Len(fresh) <= Room
      /\ Members(fresh) \subseteq Admissible(rows)
      /\ Members(fresh) \cap Members(pool) = {}
  BY <1>0, <1>3, FreshFacts DEF PoolInv
<1>5. excluded \in Nat /\ excluded <= budget.searchK
  BY <1>0, <1>2, <1>3
<1>6. /\ pool' = pool \o fresh
      /\ withheld' = withheld + excluded
      /\ IF Len(pool') >= Room THEN Stop("budget")
         ELSE IF NothingNew(fresh, excluded) THEN Stop("no_new_evidence")
         ELSE pc' = "decide" /\ UNCHANGED stop
  BY <1>1
<1> HIDE DEF fresh, excluded
<1>7. /\ pool' \in Seq(Units)
      /\ Len(pool') = Len(pool) + Len(fresh)
      /\ Distinct(pool')
      /\ Members(pool') = Members(pool) \cup Members(fresh)
  BY <1>0, <1>4, <1>6, JoinFacts DEF PoolInv
<1>8. mode = "strict" => \A u \in Members(pool') : MeetsFloor(u)
  BY <1>4, <1>7 DEF PoolInv, Admissible
<1>9. withheld' \in Nat /\ withheld' <= withheld + budget.searchK
  BY <1>0, <1>5, <1>6
<1>10. Len(pool') \in Nat /\ Len(pool') <= Room
  BY <1>4, <1>7
<1>11. /\ pc' \in {"finish", "decide"}
       /\ pc' = "decide" => Len(pool') < Room
       /\ stop' \in StopReasons
  BY <1>0, <1>6, <1>10 DEF Stop, StopReasons
<1> QED
  BY <1>7, <1>8, <1>9, <1>10, <1>11

-----------------------------------------------------------------------------
(* One answer *)

\* The unit a claim is attributed to is pooled, supports the claim on its own, and
\* is the highest that does.
LEMMA GateFacts ==
    ASSUME pool \in Seq(Units), mode = "strict" => \A u \in Members(pool) : MeetsFloor(u),
           NEW text \in SUBSET Claims, NEW x \in Gate(text)
    PROVE  /\ x \in Claims \X Units
           /\ x[1] \in text
           /\ x[2] \in Members(pool)
           /\ x[2] \in Supports[x[1]]
           /\ mode # "exploratory" =>
                \A u \in Members(pool) \cap Supports[x[1]] : Tier[u] <= Tier[x[2]]
<1>1. PICK k \in text : Supporting(k) # <<>> /\ x = <<k, Head(Supporting(k))>>
  BY DEF Gate
<1>2. /\ Ordered \in Seq(Units)
      /\ Members(Ordered) = Members(pool)
      /\ mode # "exploratory" =>
           \A i, j \in DOMAIN Ordered : i < j => Tier[Ordered[i]] >= Tier[Ordered[j]]
  BY SelectFacts DEF Ordered, Admissible
<1> DEFINE s == Supporting(k)
<1>3. /\ s \in Seq(Units)
      /\ Members(s) = Members(pool) \cap Supports[k]
      /\ \A i, j \in DOMAIN s : i < j => Index(Ordered, s[i]) < Index(Ordered, s[j])
  BY <1>2, KeepFacts DEF Supporting
<1>4. s # <<>> /\ x[1] = k /\ x[2] = Head(s)
  BY <1>1
<1> HIDE DEF s
<1>5. 1 \in DOMAIN s /\ x[2] = s[1]
  BY <1>3, <1>4
<1>6. x[2] \in Members(s)
  BY <1>5 DEF Members
<1>7. x \in Claims \X Units
  <2>1. x[2] \in Units
    BY <1>3, <1>6, MembersFinite
  <2> QED
    BY <1>1, <2>1
<1>8. ASSUME mode # "exploratory", NEW u \in Members(pool) \cap Supports[k]
      PROVE  Tier[u] <= Tier[x[2]]
  <2>1. PICK j \in DOMAIN s : u = s[j]
    BY <1>3 DEF Members
  <2>2. Tier[u] \in Nat
    BY MembersFinite, TierAssumption
  <2>3. CASE j = 1
    BY <1>5, <2>1, <2>2, <2>3
  <2>4. CASE j # 1
    <3>1. 1 < j
      BY <1>3, <2>1, <2>4
    <3>2. Index(Ordered, x[2]) < Index(Ordered, u)
      BY <1>3, <1>5, <2>1, <3>1
    <3>3. u \in Members(Ordered) /\ x[2] \in Members(Ordered)
      BY <1>2, <1>3, <1>6
    <3>4. /\ Index(Ordered, u) \in DOMAIN Ordered /\ Ordered[Index(Ordered, u)] = u
          /\ Index(Ordered, x[2]) \in DOMAIN Ordered /\ Ordered[Index(Ordered, x[2])] = x[2]
      BY <1>2, <3>3, EarlierOrder
    <3>5. Tier[x[2]] >= Tier[u]
      BY <1>2, <1>8, <3>2, <3>4
    <3>6. Tier[x[2]] \in Nat
      BY <1>7, TierAssumption
    <3> QED
      BY <2>2, <3>5, <3>6
  <2> QED
    BY <2>3, <2>4
<1> QED
  BY <1>1, <1>3, <1>4, <1>6, <1>7, <1>8

\* A set of tiers has a lowest one: the first of it in ascending order.
LEMMA LowestTierFacts ==
    ASSUME NEW S \in SUBSET Units, S # {}
    PROVE  LowestTier(S) \in 0..MaxTier
<1> DEFINE T == {Tier[u] : u \in S}
           R == {p \in T \X T : p[1] < p[2]}
<1>1. T \subseteq 0..MaxTier /\ T # {}
  BY TierAssumption
<1>2. IsFiniteSet(T)
  <2>1. IsFiniteSet(0..MaxTier)
    BY TierAssumption, FS_Interval
  <2> HIDE DEF T
  <2> QED
    BY <1>1, <2>1, FS_Subset
<1>3. StrictOrder(T, R)
  <2> HIDE DEF T
  <2>1. \A u, v \in T : <<u, v>> \in R <=> u < v
    OBVIOUS
  <2>2. \A u \in T : u \in Nat
    BY <1>1
  <2> HIDE DEF R
  <2> QED
    BY <2>1, <2>2 DEF StrictOrder
<1> HIDE DEF R, T
<1>4. /\ Members(Arranged(T, R)) = T
      /\ Arranged(T, R) \in [1..Cardinality(T) -> T]
      /\ \A i, j \in 1..Cardinality(T) : i < j => <<Arranged(T, R)[i], Arranged(T, R)[j]>> \in R
  BY <1>2, <1>3, Arrange
<1>5. Cardinality(T) \in Nat /\ 1 \in 1..Cardinality(T)
  BY <1>1, <1>2, FS_CardinalityType, FS_EmptySet
<1> DEFINE low == Arranged(T, R)[1]
<1>6. low \in T
  BY <1>4, <1>5
<1>7. \A r \in T : low <= r
  <2> TAKE r \in T
  <2>1. PICK i \in 1..Cardinality(T) : r = Arranged(T, R)[i]
    BY <1>4 DEF Members
  <2>2. low \in Nat /\ r \in Nat
    <3> HIDE DEF low
    <3> QED
      BY <1>1, <1>6, TierAssumption
  <2>3. CASE i = 1
    BY <2>1, <2>2, <2>3
  <2>4. CASE i # 1
    <3>1. <<low, r>> \in R
      BY <1>4, <1>5, <2>1, <2>4
    <3>2. low < r
      BY <3>1 DEF R
    <3> QED
      BY <2>2, <3>2
  <2> QED
    BY <2>3, <2>4
<1> HIDE DEF low
<1>8. \E r \in {Tier[u] : u \in S} : \A u \in S : r <= Tier[u]
  BY <1>6, <1>7 DEF T
<1>9. LowestTier(S) \in T
  BY <1>8 DEF LowestTier, T
<1> QED
  BY <1>1, <1>9

LEMMA RefusalFacts ==
    ASSUME NEW r \in Reasons \ {"none"}
    PROVE  /\ Refusal(r) \in Result
           /\ Refusal(r).decision = "refused" /\ Refusal(r).reason = r
           /\ Refusal(r).cited = {} /\ Refusal(r).sources = {}
           /\ Refusal(r).floorApplied = (withheld > 0)
<1>1. Refusal(r) = [decision |-> "refused", reason |-> r, cited |-> {}, sources |-> {},
                    conflicts |-> {}, tier |-> 0, floorApplied |-> withheld > 0]
  BY DEF Refusal
<1>2. 0 \in 0..MaxTier /\ "refused" \in Decisions /\ (withheld > 0) \in BOOLEAN
  BY TierAssumption DEF Decisions
<1>3. \A b \in BOOLEAN :
         [decision |-> "refused", reason |-> r, cited |-> {}, sources |-> {},
          conflicts |-> {}, tier |-> 0, floorApplied |-> b] \in Result
  BY <1>2 DEF Result
<1>4. Refusal(r) \in Result
  BY <1>1, <1>2, <1>3
<1> QED
  BY <1>1, <1>4

LEMMA PublishFacts ==
    ASSUME TypeInv, PoolInv, NEW text \in SUBSET Claims, NEW r, r = Publish(text)
    PROVE  /\ r \in Result
           /\ r.reason \in {"none", "gate", "conflict"}
           /\ r.decision = "refused" <=> r.reason # "none"
           /\ r.floorApplied <=> withheld > 0
           /\ r.cited \subseteq Gate(text)
           /\ mode = "strict" =>
                /\ r.sources \subseteq Members(pool)
                /\ r.cited # {} => Touching(r.cited) = {}
                /\ r.reason = "conflict" => \E pair \in Conflicts : pair \subseteq r.sources
           /\ r.decision # "pending"
           /\ r.reason = "none" <=> r.cited # {}
           /\ r.reason = "conflict" => mode = "strict" /\ r.sources \subseteq Compared
<1> DEFINE cited == Gate(text)
<1>0. /\ pool \in Seq(Units)
      /\ mode = "strict" => \A u \in Members(pool) : MeetsFloor(u)
  BY DEF TypeInv, PoolInv
<1>1. /\ cited \subseteq Claims \X Units
      /\ CitedUnits(cited) \subseteq Members(pool)
  BY <1>0, GateFacts DEF CitedUnits
<1>2. /\ Found \subseteq Conflicts
      /\ \A pair \in Found : pair \subseteq Compared /\ pair \subseteq Members(pool)
  <2>1. /\ Ordered \in Seq(Units) /\ Distinct(Ordered)
        /\ Members(Ordered) \subseteq Members(pool)
    BY <1>0, SelectFacts DEF Ordered, Admissible
  <2>2. Compared \subseteq Members(Ordered)
    BY <2>1, FirstFacts, BudgetAssumption DEF Compared
  <2> QED
    BY <2>1, <2>2 DEF Found
<1>3. Touching(cited) \subseteq Found
  BY DEF Touching
<1>4. Members(pool) \subseteq Units
  BY <1>0, MembersFinite
<1>5. CASE cited = {}
  <2> DEFINE q == Refusal("gate")
  <2>1. r = q
    BY <1>5 DEF Publish
  <2>2. /\ q \in Result /\ q.decision = "refused" /\ q.reason = "gate"
        /\ q.cited = {} /\ q.sources = {} /\ q.floorApplied = (withheld > 0)
    BY RefusalFacts DEF Reasons
  <2> HIDE DEF q
  <2> QED
    BY <2>1, <2>2
<1>6. CASE cited # {} /\ mode = "strict" /\ Touching(cited) # {}
  <2> DEFINE q == Refusal("conflict")
             tc == Touching(cited)
             f == Found
  <2>1. r = [q EXCEPT !.sources = UNION tc, !.conflicts = f]
    BY <1>6 DEF Publish
  <2>2. /\ q \in Result /\ q.decision = "refused" /\ q.reason = "conflict"
        /\ q.cited = {} /\ q.floorApplied = (withheld > 0)
    BY RefusalFacts DEF Reasons
  <2>3. UNION tc \subseteq Members(pool) /\ UNION tc \subseteq Compared
    BY <1>2, <1>3
  <2>4. \E pair \in Conflicts : pair \subseteq UNION tc
    BY <1>2, <1>3, <1>6
  <2>5. f \in SUBSET Conflicts /\ UNION tc \in SUBSET Units
    BY <1>2, <1>4, <2>3
  <2> HIDE DEF q, tc, f
  <2>6. /\ r \in Result /\ r.decision = q.decision /\ r.reason = q.reason /\ r.cited = q.cited
        /\ r.sources = UNION tc /\ r.floorApplied = q.floorApplied
    BY <2>1, <2>2, <2>5 DEF Result
  <2> QED
    BY <1>6, <2>2, <2>3, <2>4, <2>6
<1>7. CASE cited # {} /\ ~(mode = "strict" /\ Touching(cited) # {})
  <2> DEFINE d == IF {x[1] : x \in cited} = text THEN "answered" ELSE "partial"
             sources == CitedUnits(cited)
             tier == LowestTier(CitedUnits(cited))
             f == Found
  <2>1. r = [decision |-> d, reason |-> "none", cited |-> cited, sources |-> sources,
             conflicts |-> f, tier |-> tier, floorApplied |-> withheld > 0]
    BY <1>7 DEF Publish
  <2>2. d \in {"answered", "partial"}
    OBVIOUS
  <2>3. sources \in SUBSET Units /\ sources # {} /\ sources \subseteq Members(pool)
    BY <1>1, <1>4, <1>7 DEF CitedUnits
  <2>4. tier \in 0..MaxTier
    BY <2>3, LowestTierFacts
  <2>5. f \in SUBSET Conflicts
    BY <1>2
  <2>6. cited \in SUBSET (Claims \X Units) /\ (withheld > 0) \in BOOLEAN
    BY <1>1
  <2>7. mode = "strict" => Touching(cited) = {}
    BY <1>7
  <2> HIDE DEF d, sources, tier, f, cited
  <2>8. \A b \in BOOLEAN :
           [decision |-> d, reason |-> "none", cited |-> cited, sources |-> sources,
            conflicts |-> f, tier |-> tier, floorApplied |-> b] \in Result
    BY <2>2, <2>3, <2>4, <2>5, <2>6 DEF Result, Decisions, Reasons
  <2>9. r \in Result
    BY <2>1, <2>6, <2>8
  <2>10. /\ r.decision = d /\ r.reason = "none" /\ r.cited = cited /\ r.sources = sources
         /\ r.floorApplied = (withheld > 0)
    BY <2>1
  <2> QED
    BY <1>7, <2>2, <2>3, <2>7, <2>9, <2>10 DEF cited
<1> QED
  BY <1>5, <1>6, <1>7

\* If the whole pool is compared, no contradiction in it escapes.
LEMMA WindowFacts ==
    ASSUME pool \in Seq(Units), mode = "strict", \A u \in Members(pool) : MeetsFloor(u),
           Len(pool) <= Window, NEW cited, Touching(cited) = {}
    PROVE  \A pair \in Conflicts :
              pair \subseteq Members(pool) => pair \cap CitedUnits(cited) = {}
<1>1. /\ Ordered \in Seq(Units) /\ Distinct(Ordered)
      /\ Members(Ordered) = Members(pool)
      /\ Len(Ordered) \in Nat /\ Len(Ordered) <= Len(pool)
  BY SelectFacts DEF Ordered, Admissible
<1>2. Len(Ordered) <= Window
  BY <1>1, BudgetAssumption
<1>3. First(Window, Ordered) = Ordered
  BY <1>1, <1>2, FirstFacts, BudgetAssumption
<1>4. Compared = Members(pool)
  BY <1>1, <1>3 DEF Compared
<1> QED
  BY <1>4 DEF Touching, Found

-----------------------------------------------------------------------------
(* The invariant is inductive *)

LEMMA InitInv == Init => IInv
<1> SUFFICES ASSUME Init PROVE IInv
  OBVIOUS
<1>1. /\ budget.maxHops \in Nat /\ budget.maxToolCalls \in Nat
      /\ Room \in Nat /\ Room > 0 /\ budget.searchK \in Nat
  BY BudgetFacts DEF Init
<1>2. Pending \in Result
  BY TierAssumption DEF Pending, Result, Decisions, Reasons
<1>3. TypeInv
  <2>1. expired \in BOOLEAN /\ generated \in BOOLEAN
    BY DEF Init
  <2>2. /\ mode \in Modes /\ budget \in Budgets /\ pc \in PCs /\ stop \in StopReasons
        /\ pool \in Seq(Units) /\ hops \in Nat /\ toolCalls \in Nat /\ withheld \in Nat
    BY DEF Init, PCs, StopReasons
  <2>3. result \in Result
    BY <1>2 DEF Init
  <2> QED
    BY <2>1, <2>2, <2>3 DEF TypeInv
<1>4. PoolInv
  BY <1>1 DEF Init, PoolInv, Distinct, Members
<1>5. CostInv
  BY <1>1 DEF Init, CostInv
<1>6. AnswerInv
  BY DEF Init, AnswerInv, RefusalExplained, EachClaimBySingleUnit, StrictAnswerUncontested,
         Pending
<1> QED
  BY <1>3, <1>4, <1>5, <1>6 DEF IInv

LEMMA TypeStep == IInv /\ [Next]_vars => TypeInv'
<1> SUFFICES ASSUME IInv, [Next]_vars PROVE TypeInv'
  OBVIOUS
<1> USE DEF TypeInv
<1>0. TypeInv /\ PoolInv
  BY DEF IInv
<1>1. CASE Hop
  BY <1>0, <1>1 DEF Hop, Stop, Search, StopReasons, PCs
<1>2. CASE SearchReturns
  <2>1. UNCHANGED <<mode, budget, expired, hops, generated, result>> /\ toolCalls' \in Nat
    BY <1>0, <1>2 DEF SearchReturns
  <2>2. /\ pool' \in Seq(Units) /\ withheld' \in Nat
        /\ pc' \in {"finish", "decide"} /\ stop' \in StopReasons
    BY <1>0, <1>2, SearchFacts
  <2> QED
    BY <1>0, <2>1, <2>2 DEF PCs
<1>3. CASE Decide
  BY <1>0, <1>3 DEF Decide, Stop, StopReasons, PCs
<1>4. CASE GatherTimesOut
  BY <1>0, <1>4 DEF GatherTimesOut, Stop, StopReasons, PCs
<1>5. CASE Finish
  <2>1. Refusal("authority") \in Result /\ Refusal("no evidence") \in Result
    BY RefusalFacts DEF Reasons
  <2> QED
    BY <1>0, <1>5, <2>1 DEF Finish, PCs
<1>6. CASE StartGenerator
  BY <1>0, <1>6 DEF StartGenerator, PCs
<1>7. CASE GeneratorReturns
  <2>1. result' \in Result
    BY <1>0, <1>7, PublishFacts DEF GeneratorReturns
  <2> QED
    BY <1>0, <1>7, <2>1 DEF GeneratorReturns, PCs
<1>8. CASE GenerationTimesOut
  <2>1. Refusal("timeout") \in Result
    BY RefusalFacts DEF Reasons
  <2> QED
    BY <1>0, <1>8, <2>1 DEF GenerationTimesOut, StopReasons, PCs
<1>9. CASE Raise
  BY <1>0, <1>9 DEF Raise, PCs
<1>10. CASE Deadline
  BY <1>0, <1>10 DEF Deadline
<1>11. CASE UNCHANGED vars
  BY <1>0, <1>11 DEF vars
<1> QED
  BY <1>1, <1>2, <1>3, <1>4, <1>5, <1>6, <1>7, <1>8, <1>9, <1>10, <1>11 DEF Next, Loop

\* Only a search adds to the pool, and it leaves room or ends the loop.
LEMMA PoolStep == IInv /\ [Next]_vars => PoolInv'
<1> SUFFICES ASSUME IInv, [Next]_vars PROVE PoolInv'
  OBVIOUS
<1>0. TypeInv /\ PoolInv
  BY DEF IInv
<1>1. CASE SearchReturns
  <2>1. UNCHANGED <<mode, budget>>
    BY <1>1 DEF SearchReturns
  <2>2. /\ Distinct(pool') /\ Len(pool') <= Room
        /\ mode = "strict" => \A u \in Members(pool') : MeetsFloor(u)
        /\ pc' \in {"finish", "decide"}
        /\ pc' = "decide" => Len(pool') < Room
    BY <1>0, <1>1, SearchFacts
  <2>3. Room' = Room
    BY <2>1 DEF Room
  <2> QED
    BY <2>1, <2>2, <2>3 DEF PoolInv
<1>2. CASE ~SearchReturns
  <2>1. UNCHANGED <<mode, budget, pool>>
    BY <1>2 DEF Next, Loop, Hop, Decide, GatherTimesOut, Finish, StartGenerator,
                GeneratorReturns, GenerationTimesOut, Raise, Deadline, vars
  <2>2. pc' \in {"hop", "search", "decide"} => pc \in {"hop", "search", "decide"}
    BY <1>2 DEF Next, Loop, Hop, Decide, GatherTimesOut, Finish, StartGenerator, Stop, Search,
                GeneratorReturns, GenerationTimesOut, Raise, Deadline, vars
  <2>3. Room' = Room
    BY <2>1 DEF Room
  <2> QED
    BY <1>0, <2>1, <2>2, <2>3 DEF PoolInv
<1> QED
  BY <1>1, <1>2

\* A hop pays for its search before it makes it.
LEMMA CostStep == IInv /\ [Next]_vars => CostInv'
<1> SUFFICES ASSUME IInv, [Next]_vars PROVE CostInv'
  OBVIOUS
<1>0. TypeInv /\ PoolInv /\ CostInv
  BY DEF IInv
<1>0a. /\ budget.maxHops \in Nat /\ budget.maxToolCalls \in Nat /\ budget.searchK \in Nat
       /\ hops \in Nat /\ toolCalls \in Nat /\ withheld \in Nat
  BY <1>0, BudgetFacts DEF TypeInv
<1>1. CASE Hop
  BY <1>0, <1>0a, <1>1 DEF Hop, Stop, Search, CostInv
<1>2. CASE SearchReturns
  <2>1. /\ pc = "search" /\ toolCalls' = toolCalls + 1 /\ UNCHANGED <<budget, hops>>
    BY <1>2 DEF SearchReturns
  <2>2. /\ withheld' \in Nat /\ withheld' <= withheld + budget.searchK
        /\ pc' # "search"
    BY <1>0, <1>2, SearchFacts
  <2>3. (toolCalls + 1) * budget.searchK = toolCalls * budget.searchK + budget.searchK
    BY <1>0a, Products
  <2>4. toolCalls * budget.searchK \in Nat
    BY <1>0a, Products
  <2>5. withheld' <= (toolCalls + 1) * budget.searchK
    <3> DEFINE m == toolCalls * budget.searchK
    <3>1. withheld <= m /\ m \in Nat
      BY <1>0, <2>4 DEF CostInv
    <3> HIDE DEF m
    <3>2. withheld' <= m + budget.searchK
      BY <1>0a, <2>2, <3>1
    <3> QED
      BY <2>3, <3>2 DEF m
  <2>6. hops <= budget.maxHops /\ toolCalls + 1 <= hops /\ toolCalls + 1 <= budget.maxToolCalls
    BY <1>0, <1>0a, <2>1 DEF CostInv
  <2> QED
    BY <2>1, <2>2, <2>5, <2>6 DEF CostInv
<1>3. CASE ~Hop /\ ~SearchReturns
  <2>1. UNCHANGED <<budget, hops, toolCalls, withheld>> /\ (pc' = "search" => pc = "search")
    BY <1>3 DEF Next, Loop, Decide, GatherTimesOut, Finish, StartGenerator, Stop,
                GeneratorReturns, GenerationTimesOut, Raise, Deadline, vars
  <2> QED
    BY <1>0, <2>1 DEF CostInv
<1> QED
  BY <1>1, <1>2, <1>3

\* Before the end the result is pending; each of the three ways to end gives a
\* result that says why, and only the gate's cites claims.
LEMMA AnswerStep == IInv /\ [Next]_vars => AnswerInv'
<1> SUFFICES ASSUME IInv, [Next]_vars PROVE AnswerInv'
  OBVIOUS
<1>0. TypeInv /\ PoolInv /\ AnswerInv
  BY DEF IInv
<1>1. ASSUME pc \notin {"done"}, pc' # "done", UNCHANGED <<mode, result>>,
             pc' \in {"generate", "generating"} \/ generated' => pool' # <<>>
      PROVE  AnswerInv'
  <2>1. result' = Pending
    BY <1>0, <1>1 DEF AnswerInv
  <2>2. result'.cited = {} /\ result'.sources = {} /\ result'.reason = "none"
    BY <2>1 DEF Pending
  <2>3. EachClaimBySingleUnit' /\ StrictAnswerUncontested'
    BY <2>2 DEF EachClaimBySingleUnit, StrictAnswerUncontested
  <2>4. RefusalExplained'
    BY <1>1 DEF RefusalExplained
  <2>5. mode' = "strict" => \A u \in result'.sources : MeetsFloor(u)
    BY <2>2
  <2> QED
    BY <1>1, <2>1, <2>3, <2>4, <2>5 DEF AnswerInv
<1>2. CASE Hop
  BY <1>0, <1>1, <1>2 DEF Hop, Stop, Search, AnswerInv
<1>3. CASE SearchReturns
  <2>1. /\ pc = "search" /\ UNCHANGED <<mode, generated, result>>
        /\ pc' \in {"finish", "decide"}
    BY <1>0, <1>3, SearchFacts DEF SearchReturns
  <2>2. generated' => pool' # <<>>
    <3>1. Members(pool) \subseteq Members(pool')
      BY <1>0, <1>3, SearchFacts
    <3>2. pool # <<>> => pool[1] \in Members(pool)
      <4>1. pool # <<>> => 1 \in DOMAIN pool
        BY <1>0 DEF TypeInv
      <4> QED
        BY <4>1 DEF Members
    <3>3. Members(<<>>) = {}
      BY DEF Members
    <3> QED
      BY <1>0, <2>1, <3>1, <3>2, <3>3 DEF AnswerInv
  <2> QED
    BY <1>1, <2>1, <2>2
<1>4. CASE Decide
  BY <1>0, <1>1, <1>4 DEF Decide, Stop, AnswerInv
<1>5. CASE GatherTimesOut
  BY <1>0, <1>1, <1>5 DEF GatherTimesOut, Abandons, Stop, AnswerInv
<1>6. CASE Finish /\ pool # <<>>
  BY <1>0, <1>1, <1>6 DEF Finish, AnswerInv
<1>7. ASSUME NEW r \in Reasons \ {"none"}, pc # "done", pc' = "done",
             result' = Refusal(r), r # "conflict",
             pool = <<>> <=> r \in {"authority", "no evidence"},
             pool = <<>> => (r = "authority" <=> withheld > 0),
             UNCHANGED <<mode, pool, withheld, generated>>
      PROVE  AnswerInv'
  <2>1. /\ result'.decision = "refused" /\ result'.reason = r
        /\ result'.cited = {} /\ result'.sources = {}
        /\ result'.floorApplied <=> withheld > 0
    BY <1>7, RefusalFacts
  <2>2. generated => pool # <<>>
    BY <1>0 DEF AnswerInv
  <2>3. RefusalExplained'
    BY <1>7, <2>1, <2>2 DEF RefusalExplained
  <2>4. EachClaimBySingleUnit' /\ StrictAnswerUncontested'
    BY <1>7, <2>1 DEF EachClaimBySingleUnit, StrictAnswerUncontested
  <2> QED
    BY <1>7, <2>1, <2>2, <2>3, <2>4 DEF AnswerInv
<1>8. CASE Finish /\ pool = <<>>
  BY <1>0, <1>7, <1>8 DEF Finish, Reasons, TypeInv
<1>9. CASE StartGenerator
  BY <1>0, <1>1, <1>9 DEF StartGenerator, AnswerInv
<1>10. CASE GeneratorReturns
  <2>1. PICK text \in SUBSET Claims : result' = Publish(text)
    BY <1>10 DEF GeneratorReturns
  <2>2. pc' = "done" /\ pool # <<>> /\ UNCHANGED <<mode, pool, withheld, generated>>
    BY <1>0, <1>10 DEF GeneratorReturns, AnswerInv
  <2>3. /\ result'.reason \in {"none", "gate", "conflict"}
        /\ result'.decision = "refused" <=> result'.reason # "none"
        /\ result'.floorApplied <=> withheld > 0
        /\ result'.cited \subseteq Gate(text)
        /\ mode = "strict" =>
             /\ result'.sources \subseteq Members(pool)
             /\ result'.cited # {} => Touching(result'.cited) = {}
             /\ result'.reason = "conflict" =>
                  \E pair \in Conflicts : pair \subseteq result'.sources
    BY <1>0, <2>1, PublishFacts
  <2>4. pool \in Seq(Units) /\ (mode = "strict" => \A u \in Members(pool) : MeetsFloor(u))
    BY <1>0 DEF TypeInv, PoolInv
  <2>5. RefusalExplained'
    BY <2>2, <2>3 DEF RefusalExplained
  <2>6. EachClaimBySingleUnit'
    BY <2>2, <2>3, <2>4, GateFacts DEF EachClaimBySingleUnit
  <2>7. StrictAnswerUncontested'
    <3>1. ASSUME mode = "strict", result'.cited # {}, Len(pool) <= Window
          PROVE  \A pair \in Conflicts :
                    pair \subseteq Members(pool) => pair \cap CitedUnits(result'.cited) = {}
      BY <2>3, <2>4, <3>1, WindowFacts
    <3> QED
      BY <2>2, <2>3, <3>1 DEF StrictAnswerUncontested, CitedUnits
  <2>8. mode' = "strict" => \A u \in result'.sources : MeetsFloor(u)
    BY <2>2, <2>3, <2>4
  <2> QED
    BY <2>2, <2>5, <2>6, <2>7, <2>8 DEF AnswerInv
<1>11. CASE GenerationTimesOut
  BY <1>0, <1>7, <1>11 DEF GenerationTimesOut, Abandons, Reasons, AnswerInv
<1>12. CASE Raise
  BY <1>0, <1>1, <1>12 DEF Raise, AnswerInv
<1>13. CASE Deadline
  BY <1>0, <1>1, <1>13 DEF Deadline, AnswerInv
<1>14. CASE UNCHANGED vars
  BY <1>0, <1>14 DEF vars, AnswerInv, RefusalExplained, EachClaimBySingleUnit,
                     StrictAnswerUncontested, CitedUnits
<1> QED
  BY <1>2, <1>3, <1>4, <1>5, <1>6, <1>8, <1>9, <1>10, <1>11, <1>12, <1>13, <1>14
     DEF Next, Loop

LEMMA Invariance == Spec => []IInv
<1>1. IInv /\ [Next]_vars => IInv'
  BY TypeStep, PoolStep, CostStep, AnswerStep DEF IInv
<1> QED
  BY InitInv, <1>1, PTL DEF Spec

-----------------------------------------------------------------------------
(* The theorems *)

\* Every state of every run is well typed; what is withheld in all is bounded by
\* what the searches may return.
THEOREM TypeCorrect == Spec => []TypeOK
<1>1. IInv => TypeOK
  <2> SUFFICES ASSUME IInv PROVE TypeOK
    OBVIOUS
  <2>1. TypeInv /\ CostInv
    BY DEF IInv
  <2>2. budget.maxHops \in Nat /\ budget.searchK \in Nat
    BY <2>1, BudgetFacts DEF TypeInv
  <2>3. hops \in 0..budget.maxHops /\ toolCalls \in 0..budget.maxHops
    BY <2>1, <2>2 DEF TypeInv, CostInv
  <2>4. withheld \in 0..(budget.maxHops * budget.searchK)
    <3> DEFINE m == toolCalls * budget.searchK
               n == budget.maxHops * budget.searchK
    <3>1. m \in Nat /\ n \in Nat /\ m <= n
      BY <2>2, <2>3, Products
    <3>2. withheld \in Nat /\ withheld <= m
      BY <2>1 DEF TypeInv, CostInv
    <3> HIDE DEF m, n
    <3>3. withheld \in 0..n
      BY <3>1, <3>2
    <3> QED
      BY <3>3 DEF n
  <2> QED
    BY <2>1, <2>3, <2>4 DEF TypeInv, TypeOK
<1> QED
  BY Invariance, <1>1, PTL

\* No run exceeds its LoopBudget in hops, tool calls or units, one unit aside where
\* none is allowed, and no unit takes two places of the pool.
THEOREM BudgetKept == Spec => []WithinBudget
<1>1. IInv => WithinBudget
  <2> SUFFICES ASSUME IInv PROVE WithinBudget
    OBVIOUS
  <2>1. Cardinality(Members(pool)) = Len(pool)
    BY MembersFinite DEF IInv, TypeInv, PoolInv
  <2>2. Len(pool) <= budget.maxUnits \/ Len(pool) = 1
    <3>1. pool \in Seq(Units) /\ budget.maxUnits \in Nat /\ Len(pool) <= Room
      BY BudgetFacts DEF IInv, TypeInv, PoolInv
    <3> DEFINE n == Len(pool)
               m == budget.maxUnits
    <3>2. n \in Nat /\ m \in Nat /\ n <= IF m = 0 THEN 1 ELSE m
      BY <3>1 DEF Room
    <3> HIDE DEF n, m
    <3>3. n <= m \/ n = 1
      BY <3>2
    <3> QED
      BY <3>3 DEF n, m
  <2> QED
    BY <2>1, <2>2 DEF IInv, PoolInv, CostInv, WithinBudget
<1> QED
  BY Invariance, <1>1, PTL

\* Every claim that passes the gate is supported by the one pooled unit it is
\* attributed to, the highest that supports it.
THEOREM ClaimsSupported == Spec => []EachClaimBySingleUnit
<1>1. IInv => EachClaimBySingleUnit
  BY DEF IInv, AnswerInv
<1> QED
  BY Invariance, <1>1, PTL

\* A strict run neither pools nor cites a unit below the floor.
THEOREM FloorKept == Spec => []NoStandingNoPool
<1>1. IInv => NoStandingNoPool
  BY DEF IInv, PoolInv, AnswerInv, NoStandingNoPool
<1> QED
  BY Invariance, <1>1, PTL

\* A strict answer cites neither side of a contradiction within a pool that fits
\* the window, and an abstention over a conflict cites both sides.
THEOREM ConflictsSurface == Spec => []StrictAnswerUncontested
<1>1. IInv => StrictAnswerUncontested
  BY DEF IInv, AnswerInv
<1> QED
  BY Invariance, <1>1, PTL

\* A refusal names its cause, and one over an empty pool never cost a generation.
THEOREM RefusalsExplained == Spec => []RefusalExplained
<1>1. IInv => RefusalExplained
  BY DEF IInv, AnswerInv
<1> QED
  BY Invariance, <1>1, PTL

-----------------------------------------------------------------------------
(* Cite or abstain *)

\* What is compared is pooled, in every state and so in the next.
LEMMA ComparedFacts ==
    pool \in Seq(Units) => Compared \subseteq Members(pool) /\ Members(pool) \subseteq Units
<1> SUFFICES ASSUME pool \in Seq(Units)
             PROVE  Compared \subseteq Members(pool) /\ Members(pool) \subseteq Units
  OBVIOUS
<1>1. /\ Ordered \in Seq(Units) /\ Distinct(Ordered)
      /\ Members(Ordered) \subseteq Members(pool)
  BY SelectFacts DEF Ordered, Admissible
<1>2. Compared \subseteq Members(Ordered)
  BY <1>1, FirstFacts, BudgetAssumption DEF Compared
<1> QED
  BY <1>1, <1>2, MembersFinite

LEMMA ComparedNext ==
    (pool \in Seq(Units) => Compared \subseteq Members(pool) /\ Members(pool) \subseteq Units)'
BY ComparedFacts, PTL

\* A run begins as a question does: nothing gathered, nothing decided.
LEMMA PromiseInit == Init => Promise!Init
<1> SUFFICES ASSUME Init PROVE Promise!Init
  OBVIOUS
<1>1. Members(pool) = {} /\ result = Pending /\ mode \in Modes /\ pool \in Seq(Units)
  BY DEF Init, Members
<1>2. Compared = {}
  BY <1>1, ComparedFacts
<1> QED
  BY <1>1, <1>2 DEF Promise!Init, Pending, Modes

\* A search gathers, and a strict one only what has standing.
LEMMA SearchGathers ==
    ASSUME IInv, SearchReturns
    PROVE  Promise!Gather
<1>1. pc = "search" /\ UNCHANGED <<mode, result>> /\ result = Pending
  BY DEF SearchReturns, IInv, AnswerInv
<1>2. pool' \in Seq(Units) /\ (mode = "strict" => \A u \in Members(pool') : MeetsFloor(u))
  BY SearchFacts DEF IInv
<1>3. Compared' \subseteq Members(pool') /\ Members(pool') \subseteq Units
  BY <1>2, ComparedNext
<1>4. Promise!Admissible(Members(pool'))
  BY <1>2, <1>3 DEF Promise!Admissible, Standing
<1> QED
  BY <1>1, <1>3, <1>4 DEF Promise!Gather, Pending

\* Every other step leaves what was gathered as it is.
LEMMA GatheredKept ==
    ASSUME [Next]_vars, ~SearchReturns
    PROVE  UNCHANGED <<mode, Members(pool), Compared>>
<1>1. UNCHANGED <<mode, pool>>
  BY DEF Next, Loop, Hop, Decide, GatherTimesOut, Finish, StartGenerator,
         GeneratorReturns, GenerationTimesOut, Raise, Deadline, vars
<1> QED
  BY <1>1 DEF Compared, Ordered, Select, Admissible, Precedes, Members, First, Earlier

\* A refusal over what is missing, too late or unsupported shows no sides.
LEMMA RefusalAbstains ==
    ASSUME NEW r \in Reasons \ {"none", "conflict"}, result = Pending, result' = Refusal(r),
           UNCHANGED <<mode, Members(pool), Compared>>
    PROVE  Promise!Abstain
BY RefusalFacts DEF Promise!Abstain, Pending

\* The gate answers with what each claim is supported by, or abstains and says over
\* which contradiction.
LEMMA GateDecides ==
    ASSUME IInv, GeneratorReturns
    PROVE  Promise!Answer \/ Promise!Abstain
<1>0. result = Pending /\ pool \in Seq(Units) /\ TypeInv /\ PoolInv
  BY DEF GeneratorReturns, IInv, AnswerInv, TypeInv
<1>1. PICK text \in SUBSET Claims : result' = Publish(text)
  BY DEF GeneratorReturns
<1>2. UNCHANGED <<mode, Members(pool), Compared>>
  BY GatheredKept DEF GeneratorReturns, Next, SearchReturns
<1>3. /\ result'.decision \in Decisions
      /\ result'.reason \in {"none", "gate", "conflict"}
      /\ result'.decision = "refused" <=> result'.reason # "none"
      /\ result'.reason = "none" <=> result'.cited # {}
      /\ result'.decision # "pending"
      /\ result'.cited \subseteq Gate(text)
      /\ mode = "strict" /\ result'.cited # {} => Touching(result'.cited) = {}
      /\ result'.reason = "conflict" =>
           /\ mode = "strict"
           /\ result'.sources \subseteq Compared
           /\ \E pair \in Conflicts : pair \subseteq result'.sources
  <2>1. /\ result' \in Result
        /\ result'.reason \in {"none", "gate", "conflict"}
        /\ result'.decision = "refused" <=> result'.reason # "none"
        /\ result'.cited \subseteq Gate(text)
        /\ mode = "strict" /\ result'.cited # {} => Touching(result'.cited) = {}
        /\ result'.reason = "conflict" =>
             (mode = "strict" => \E pair \in Conflicts : pair \subseteq result'.sources)
    BY <1>0, <1>1, PublishFacts
  <2>2. /\ result'.reason = "none" <=> result'.cited # {}
        /\ result'.reason = "conflict" => mode = "strict" /\ result'.sources \subseteq Compared
        /\ result'.decision # "pending"
    BY <1>0, <1>1, PublishFacts
  <2>3. result'.decision \in Decisions
    BY <2>1 DEF Result
  <2> QED
    BY <2>1, <2>2, <2>3
<1>4. CASE result'.reason = "none"
  <2>1. \A x \in result'.cited : x[1] \in Claims /\ x[2] \in Members(pool) \cap Supports[x[1]]
    BY <1>0, <1>3, GateFacts DEF PoolInv
  <2>2. mode = "strict" => ~Promise!Contested({x[2] : x \in result'.cited})
    BY <1>3, <1>4 DEF Promise!Contested, Touching, Found, CitedUnits
  <2>3. Promise!Answer
    BY <1>0, <1>2, <1>3, <1>4, <2>1, <2>2 DEF Promise!Answer, Pending, Decisions
  <2> QED
    BY <2>3
<1>5. CASE result'.reason # "none"
  <2>1. Promise!Abstain
    BY <1>0, <1>2, <1>3, <1>5 DEF Promise!Abstain, Pending
  <2> QED
    BY <2>1
<1> QED
  BY <1>4, <1>5

\* Each step of a run gathers, decides once, or is no step of the promise at all.
LEMMA PromiseStep == IInv /\ [Next]_vars => [Promise!Next]_(Promise!vars)
<1> SUFFICES ASSUME IInv, [Next]_vars PROVE [Promise!Next]_(Promise!vars)
  OBVIOUS
<1>1. CASE SearchReturns
  BY <1>1, SearchGathers DEF Promise!Next
<1>2. CASE GeneratorReturns
  BY <1>2, GateDecides DEF Promise!Next
<1>3. CASE Finish /\ pool = <<>>
  <2>1. result = Pending /\ UNCHANGED <<mode, Members(pool), Compared>>
    BY <1>3, GatheredKept DEF Finish, SearchReturns, IInv, AnswerInv
  <2>2. \/ result' = Refusal("authority")
        \/ result' = Refusal("no evidence")
    BY <1>3 DEF Finish
  <2> QED
    BY <2>1, <2>2, RefusalAbstains DEF Promise!Next, Reasons
<1>4. CASE GenerationTimesOut
  <2>1. result = Pending /\ UNCHANGED <<mode, Members(pool), Compared>>
    BY <1>4, GatheredKept DEF GenerationTimesOut, Abandons, SearchReturns, IInv, AnswerInv
  <2> QED
    BY <1>4, <2>1, RefusalAbstains DEF GenerationTimesOut, Promise!Next, Reasons
<1>5. ASSUME ~SearchReturns, UNCHANGED result
      PROVE  [Promise!Next]_(Promise!vars)
  BY <1>5, GatheredKept DEF Promise!vars
<1>6. CASE \/ Hop \/ Decide \/ GatherTimesOut \/ StartGenerator \/ Raise \/ Deadline
           \/ UNCHANGED vars \/ (Finish /\ pool # <<>>)
  <2>1. UNCHANGED result
    BY <1>6 DEF Hop, Decide, GatherTimesOut, Finish, StartGenerator, Raise, Deadline, vars
  <2> QED
    BY <1>1, <1>5, <2>1
<1> QED
  BY <1>1, <1>2, <1>3, <1>4, <1>6 DEF Next, Loop

\* Deep-ask keeps the promise of an answer: whatever the tools and models return, each
\* claim rests on a unit that supports it, a strict answer on units of standing that
\* no compared unit contradicts, and every other run abstains.
THEOREM DeepAskCitesOrAbstains == Spec => ImplementsGroundedAnswer
<1>1. Init => Promise!Init
  BY PromiseInit
<1>2. IInv /\ [Next]_vars => [Promise!Next]_(Promise!vars)
  BY PromiseStep
<1> QED
  BY <1>1, <1>2, Invariance, PTL DEF Spec, ImplementsGroundedAnswer, Promise!Spec

=============================================================================
