------------------------------- MODULE DeepAsk -------------------------------
(***************************************************************************)
(* One deep-ask run (answer/agentic.py): the library-scripted gather loop  *)
(* under its LoopBudget, then the per-claim gate over the pooled Evidence  *)
(* Units.                                                                  *)
(*                                                                         *)
(* The search tool, the decision model and the generator are outside the   *)
(* library: each may return anything, raise, or hang.  Each runs on its    *)
(* own thread and is abandoned at the deadline, so all the loop ever sees  *)
(* of time is whether the deadline has passed.                             *)
(***************************************************************************)
EXTENDS Naturals, Sequences, FiniteSets

CONSTANTS Units,         \* Evidence Units a search may return
          Tier,          \* Tier[u]: rank of u's authority tier, 0 = unknown
          MaxTier,
          Floor,         \* minimum rank of the policy, 0 = no floor
          Claims,        \* claims a generated answer may make
          Supports,      \* Supports[k]: units whose own text supports claim k
          Conflicts,     \* pairs of units whose texts contradict each other
          Window,        \* CONFLICT_TOP_K
          Budgets        \* the LoopBudgets a flow may be given

ASSUME TierAssumption == /\ MaxTier \in Nat
                         /\ Tier \in [Units -> 0..MaxTier]
                         /\ Floor \in 0..MaxTier
ASSUME ClaimsAssumption == /\ Supports \in [Claims -> SUBSET Units]
                           /\ \A pair \in Conflicts : pair \subseteq Units
ASSUME BudgetAssumption == /\ Window \in Nat
                           /\ Budgets \subseteq [maxHops : Nat, maxToolCalls : Nat,
                                               maxUnits : Nat, searchK : Nat]

VARIABLES mode,      \* trust mode of the question
          budget,    \* the LoopBudget, without its timeout
          pc,
          expired,   \* the whole-loop deadline has passed
          pool,      \* pooled units, in pooling order
          hops, toolCalls, withheld,
          stop,      \* stop_reason
          generated, \* the generator has been called
          result

vars == <<mode, budget, pc, expired, pool, hops, toolCalls, withheld, stop, generated, result>>

Modes == {"strict", "normal", "exploratory"}
PCs == {"hop", "search", "decide", "finish", "generate", "generating", "done", "raised"}
StopReasons == {"budget", "timeout", "no_new_evidence", "sufficient"}
Reasons == {"none", "no evidence", "authority", "timeout", "gate", "conflict"}
Decisions == {"pending", "answered", "partial", "refused"}

\* cited: the claims of the answer, each with the unit it is attributed to.
\* sources: the units cited by an abstention.  conflicts: the pairs counted.
Result == [decision : Decisions, reason : Reasons, cited : SUBSET (Claims \X Units),
           sources : SUBSET Units, conflicts : SUBSET Conflicts,
           tier : 0..MaxTier, floorApplied : BOOLEAN]

Pending == [decision |-> "pending", reason |-> "none", cited |-> {}, sources |-> {},
            conflicts |-> {}, tier |-> 0, floorApplied |-> FALSE]

Members(s) == {s[i] : i \in DOMAIN s}

TypeOK == /\ mode \in Modes
          /\ budget \in Budgets
          /\ pc \in PCs
          /\ expired \in BOOLEAN
          /\ pool \in Seq(Units)
          /\ hops \in 0..budget.maxHops
          /\ toolCalls \in 0..budget.maxHops
          /\ withheld \in 0..(budget.maxHops * budget.searchK)
          /\ stop \in StopReasons
          /\ generated \in BOOLEAN
          /\ result \in Result

Init == /\ mode \in Modes
        /\ budget \in Budgets
        /\ pc = "hop"
        /\ expired = FALSE
        /\ pool = <<>>
        /\ hops = 0
        /\ toolCalls = 0
        /\ withheld = 0
        /\ stop = "budget"
        /\ generated = FALSE
        /\ result = Pending

-----------------------------------------------------------------------------
(* Selection by authority *)

\* The elements of S in the order R, which is a strict total order on S.
Arranged(S, R) ==
    [i \in 1..Cardinality(S) |->
        CHOOSE u \in S : Cardinality({v \in S : <<v, u>> \in R}) = i - 1]

Index(units, u) == CHOOSE i \in DOMAIN units : units[i] = u

Earlier(units) == {p \in Members(units) \X Members(units) :
                      Index(units, p[1]) < Index(units, p[2])}

\* The elements of a sequence that are in S, in their order.
Keep(units, S) == Arranged(Members(units) \cap S, Earlier(units))

MeetsFloor(u) == Tier[u] >= Floor

\* By descending tier, units of one tier in the order they came in; exploratory
\* questions ignore tiers.
Precedes(units) ==
    IF mode = "exploratory" THEN Earlier(units)
    ELSE {p \in Members(units) \X Members(units) :
             \/ Tier[p[1]] > Tier[p[2]]
             \/ Tier[p[1]] = Tier[p[2]] /\ p \in Earlier(units)}

\* Strict questions drop what is below the floor.  (The variant drops nothing.)
SelectWithoutFloor(units) == Arranged(Members(units), Precedes(units))

Admissible(units) == {u \in Members(units) : mode = "strict" => MeetsFloor(u)}

Select(units) == Arranged(Admissible(units), Precedes(units))

-----------------------------------------------------------------------------
(* The gather loop *)

Stop(reason) == pc' = "finish" /\ stop' = reason

Search == hops' = hops + 1 /\ pc' = "search" /\ UNCHANGED stop

\* The head of one hop.  A loop that runs out of hops keeps the reason it was
\* initialised with.  (The variant makes one hop too many.)
HopOnceMore ==
    /\ pc = "hop"
    /\ IF hops > budget.maxHops THEN Stop("budget") /\ UNCHANGED hops ELSE Search
    /\ UNCHANGED <<mode, budget, expired, pool, toolCalls, withheld, generated, result>>

Hop ==
    /\ pc = "hop"
    /\ \/ /\ \/ hops = budget.maxHops
             \/ ~expired /\ toolCalls >= budget.maxToolCalls
          /\ Stop("budget")
          /\ UNCHANGED hops
       \/ /\ hops < budget.maxHops
          /\ expired
          /\ Stop("timeout")
          /\ UNCHANGED hops
       \/ /\ hops < budget.maxHops
          /\ toolCalls < budget.maxToolCalls
          /\ ~expired
          /\ Search
    /\ UNCHANGED <<mode, budget, expired, pool, toolCalls, withheld, generated, result>>

\* The size of the pool is looked at after a unit is pooled, never before: a budget of
\* no units pools one.
Room == IF budget.maxUnits = 0 THEN 1 ELSE budget.maxUnits

\* Units are pooled one by one until the pool is full.  (The variant looks at the
\* size only after the whole hop.)
First(n, units) == SubSeq(units, 1, IF n < Len(units) THEN n ELSE Len(units))

FreshUncapped(units) == Keep(units, Units \ Members(pool))

Fresh(units) ==
    First(Room - Len(pool), Keep(units, Units \ Members(pool)))

\* A hop that pools nothing ends the loop, unless it was withheld something.
NothingNew(fresh, excluded) == fresh = <<>> /\ excluded = 0

Rows == {s \in UNION {[1..n -> Units] : n \in 0..budget.searchK} :
            \A i, j \in DOMAIN s : s[i] = s[j] => i = j}

SearchReturns ==
    /\ pc = "search"
    /\ ~expired
    /\ \E rows \in Rows :
         LET selected == Select(rows)
             excluded == Len(rows) - Len(selected)
             fresh    == Fresh(selected)
         IN  /\ pool' = pool \o fresh
             /\ withheld' = withheld + excluded
             /\ IF Len(pool') >= Room THEN Stop("budget")
                ELSE IF NothingNew(fresh, excluded) THEN Stop("no_new_evidence")
                ELSE pc' = "decide" /\ UNCHANGED stop
    /\ toolCalls' = toolCalls + 1
    /\ UNCHANGED <<mode, budget, expired, hops, generated, result>>

\* The decision model sees the pool; it may be content, ask for more, or neither.
Decide ==
    /\ pc = "decide"
    /\ ~expired
    /\ \/ Stop("sufficient")
       \/ pc' = "hop" /\ UNCHANGED stop
       \/ Stop("no_new_evidence")
    /\ UNCHANGED <<mode, budget, expired, pool, hops, toolCalls, withheld, generated, result>>

\* _run_bounded: a call that starts after the deadline, or is still running at it,
\* is abandoned.  (The variant waits for it.)
WaitsFor(at) == pc = at /\ expired /\ FALSE

Abandons(at) == pc = at /\ expired

GatherTimesOut ==
    /\ Abandons("search") \/ Abandons("decide")
    /\ Stop("timeout")
    /\ UNCHANGED <<mode, budget, expired, pool, hops, toolCalls, withheld, generated, result>>

-----------------------------------------------------------------------------
(* The answer *)

Ordered == Select(pool)

\* (The variant leaves floorApplied at its default.)
RefusalByDefault(reason) == [Pending EXCEPT !.decision = "refused", !.reason = reason]

Refusal(reason) == [decision |-> "refused", reason |-> reason, cited |-> {}, sources |-> {},
                    conflicts |-> {}, tier |-> 0, floorApplied |-> withheld > 0]

\* Nothing pooled: refuse without calling the generator, and say whether there
\* was nothing or nothing of standing.
Finish ==
    /\ pc = "finish"
    /\ IF pool = <<>>
       THEN /\ pc' = "done"
            /\ result' = Refusal(IF withheld > 0 THEN "authority" ELSE "no evidence")
       ELSE pc' = "generate" /\ UNCHANGED result
    /\ UNCHANGED <<mode, budget, expired, pool, hops, toolCalls, withheld, stop, generated>>

Supporting(k) == Keep(Ordered, Supports[k])

\* (The variant takes the union of the pool for one unit.)
GatePooled(text) ==
    {<<k, Head(Ordered)>> : k \in {x \in text : Supports[x] \cap Members(pool) # {}}}

\* The single-EU gate: a claim is attributed to the first unit that supports it
\* on its own.
Gate(text) == {<<k, Head(Supporting(k))>> : k \in {x \in text : Supporting(x) # <<>>}}

Compared == Members(First(Window, Ordered))

Found == {pair \in Conflicts : pair \subseteq Compared}

CitedUnits(cited) == {x[2] : x \in cited}

\* (The variant looks for conflicts between two cited units only.)
TouchingInside(cited) == {pair \in Found : pair \subseteq CitedUnits(cited)}

Touching(cited) == {pair \in Found : pair \cap CitedUnits(cited) # {}}

LowestTier(units) == CHOOSE r \in {Tier[u] : u \in units} : \A u \in units : r <= Tier[u]

Publish(text) ==
    LET cited == Gate(text)
    IN  IF cited = {} THEN Refusal("gate")
        ELSE IF mode = "strict" /\ Touching(cited) # {}
        THEN [Refusal("conflict") EXCEPT !.sources = UNION Touching(cited),
                                         !.conflicts = Found]
        ELSE [decision |-> IF {x[1] : x \in cited} = text THEN "answered" ELSE "partial",
              reason |-> "none", cited |-> cited, sources |-> CitedUnits(cited),
              conflicts |-> Found, tier |-> LowestTier(CitedUnits(cited)),
              floorApplied |-> withheld > 0]

StartGenerator ==
    /\ pc = "generate"
    /\ ~expired
    /\ pc' = "generating"
    /\ generated' = TRUE
    /\ UNCHANGED <<mode, budget, expired, pool, hops, toolCalls, withheld, stop, result>>

GeneratorReturns ==
    /\ pc = "generating"
    /\ ~expired
    /\ \E text \in SUBSET Claims : result' = Publish(text)
    /\ pc' = "done"
    /\ UNCHANGED <<mode, budget, expired, pool, hops, toolCalls, withheld, stop, generated>>

\* Not started in time, or cut off: a partial generation is discarded.
GenerationTimesOut ==
    /\ Abandons("generate") \/ Abandons("generating")
    /\ pc' = "done"
    /\ stop' = "timeout"
    /\ result' = Refusal("timeout")
    /\ UNCHANGED <<mode, budget, expired, pool, hops, toolCalls, withheld, generated>>

\* What a tool or a model raises is raised by ask.
Raise ==
    /\ pc \in {"search", "decide", "generating"}
    /\ ~expired
    /\ pc' = "raised"
    /\ UNCHANGED <<mode, budget, expired, pool, hops, toolCalls, withheld, stop, generated, result>>

Deadline ==
    /\ ~expired
    /\ pc \notin {"done", "raised"}
    /\ expired' = TRUE
    /\ UNCHANGED <<mode, budget, pc, pool, hops, toolCalls, withheld, stop, generated, result>>

-----------------------------------------------------------------------------
\* What the library does of its own accord; the rest is tools, models and time.
Loop == Hop \/ GatherTimesOut \/ Finish \/ StartGenerator \/ GenerationTimesOut

Next == Loop \/ SearchReturns \/ Decide \/ GeneratorReturns \/ Raise \/ Deadline

\* The library's own steps are taken and time passes.  No tool and no model is
\* assumed to answer.
Fairness == WF_vars(Loop) /\ WF_vars(Deadline)

Spec == Init /\ [][Next]_vars /\ Fairness

-----------------------------------------------------------------------------
(* Properties *)

\* LoopBudget, "hard cost bounds": hops, tool calls and pooled units, a first unit
\* aside, which is pooled even where none is allowed.
WithinBudget ==
    /\ hops <= budget.maxHops
    /\ toolCalls <= budget.maxToolCalls
    /\ toolCalls <= hops
    /\ Len(pool) <= budget.maxUnits \/ Len(pool) = 1
    /\ Cardinality(Members(pool)) = Len(pool)

\* The gate, at every exit and whatever the budget did: each claim of an answer is
\* supported by the one pooled unit it is attributed to, and no pooled unit of
\* higher standing supports it too, unless the mode ignores standing.
EachClaimBySingleUnit ==
    \A x \in result.cited :
        /\ x[2] \in Members(pool)
        /\ x[2] \in Supports[x[1]]
        /\ mode # "exploratory" =>
             \A u \in Members(pool) \cap Supports[x[1]] : Tier[u] <= Tier[x[2]]

\* The floor of a strict question is enforced before the pool: no unit below it
\* takes a slot, is shown to a model, is compared for conflicts or is cited.
NoStandingNoPool ==
    mode = "strict" => \A u \in Members(pool) \cup result.sources : MeetsFloor(u)

\* A strict answer never takes one side: no unit it cites contradicts another
\* pooled unit, as long as the pool fits the window that is compared; and an
\* abstention over a conflict cites both of its sides.
StrictAnswerUncontested ==
    mode = "strict" =>
        /\ result.cited # {} /\ Len(pool) <= Window =>
             \A pair \in Conflicts :
                 pair \subseteq Members(pool) => pair \cap CitedUnits(result.cited) = {}
        /\ result.reason = "conflict" =>
             \E pair \in Conflicts : pair \subseteq result.sources

\* A refusal says why.  It names standing exactly when units were found and every
\* one of them was withheld, and neither that refusal nor one over an empty pool
\* has called the generator.
RefusalExplained ==
    pc = "done" =>
        /\ pool = <<>> <=> result.reason \in {"authority", "no evidence"}
        /\ pool = <<>> => ~generated /\ (result.reason = "authority" <=> withheld > 0)
        /\ result.decision = "refused" <=> result.reason # "none"
        /\ result.floorApplied <=> withheld > 0

\* The timeout bounds the entire run: it ends although every tool call and every
\* model call may hang.
Terminates == <>(pc \in {"done", "raised"})

\* deep-ask: a tool call that outlives the timeout "is bounded by timeout_s and the
\* loop proceeds to answer from the pool gathered so far".
TimeoutAnswersFromPool == (pc = "finish" /\ stop = "timeout" /\ pool # <<>>) ~> generated

\* Units a strict answer may rest on.
Standing == {u \in Units : MeetsFloor(u)}

Promise == INSTANCE GroundedAnswer
    WITH pool <- Members(pool), compared <- Compared, cited <- result.cited,
         decision <- IF result.decision = "partial" THEN "answered" ELSE result.decision,
         sides <- IF result.reason = "conflict" THEN result.sources ELSE {}

\* Cite or abstain: deep-ask decides a question as GroundedAnswer says; a partial
\* answer is an answer.
ImplementsGroundedAnswer == Promise!Spec
=============================================================================
