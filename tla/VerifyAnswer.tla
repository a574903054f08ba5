---------------------------- MODULE VerifyAnswer ----------------------------
(***************************************************************************)
(* verify_answer: the answer of a caller's own writer is checked, claim by *)
(* claim, against the evidence it cites (answer/verify_answer.py and       *)
(* answer/verify_union.py).                                                *)
(*                                                                         *)
(* What the gate, the guards and the injected checker find of a claim in a *)
(* unit is chosen when the code asks for it and stays the same from then   *)
(* on: the guards are functions of the two texts, the checker is cached.   *)
(***************************************************************************)
EXTENDS Claims, Integers, FiniteSets, Selection

CONSTANTS Pieces,     \* what the writer may write (see Claims)
          MaxPieces,
          Evidence,   \* the units, in the caller's order
          Tier,       \* Tier[u]: the standing of a unit, higher outranks lower
          Floor,      \* the least standing the caller accepts; 0 for no floor
          Foreign,    \* units in a declared language other than the answer's
          Disagree,   \* <<u, o, rule>>: detect_conflict, both ways round
          Facets,     \* the parts of the question
          Options     \* the options of VerifyOptions the caller may pass

Units == IdsIn(Evidence)

\* Every unit has an id of its own: the code raises InvalidEvidenceError otherwise.
ASSUME EvidenceAssumption ==
    /\ Evidence \in Seq(Units)
    /\ \A i, j \in DOMAIN Evidence : Evidence[i] = Evidence[j] => i = j
    /\ Floor \in Nat /\ Tier \in [Units -> Nat]

Marked == UNION {IdsIn(p.cited) \cup IdsIn(p.facets) : p \in Pieces}

ASSUME PiecesAssumption ==
    \A p \in Pieces : /\ p = Piece(p.kind, p.words, p.cited, p.facets)
                      /\ p.cited \in Seq(Marked) /\ p.facets \in Seq(Marked)

\* detect_conflict reads the passages the same either way round.
ASSUME DisagreeAssumption ==
    /\ \A d \in Disagree : d = <<d[1], d[2], d[3]>> /\ <<d[2], d[1], d[3]>> \in Disagree
    /\ \A d, e \in Disagree : {d[1], d[2]} = {e[1], e[2]} => d[3] = e[3]

VARIABLES answer,    \* the pieces written so far
          opts,
          claims,    \* parse_citations of the answer
          verdicts,  \* one per claim checked so far
          stage,
          now,       \* the claim being checked: sources, by, reason
          refused,   \* refused[u]: a guard refuses the claim over u
          scores,    \* scores[p]: what the checker said of the units p as one premise
          considered, \* the units the model path looked at
          result

vars == <<answer, opts, claims, verdicts, stage, now, refused, scores, considered, result>>
perClaim == <<refused, scores, considered>>

\* The checker's pair of scores, as far as the thresholds tell them apart.
Entails == [entailed |-> 1, contradicted |-> 0]
Neutral == [entailed |-> 0, contradicted |-> 0]
Denies  == [entailed |-> 0, contradicted |-> 1]
Fails   == [entailed |-> -1, contradicted |-> -1]

Contradicts(s) == s.contradicted = 1
Accepts(s) == s.entailed = 1 /\ ~Contradicts(s)

\* select_by_authority in strict mode.
Excluded == {u \in Units : Floor > 0 /\ Tier[u] < Floor}
Selected == Units \ Excluded

Place(u) == CHOOSE i \in DOMAIN Evidence : Evidence[i] = u

SelectedInOrder ==
    CHOOSE s \in [1..Cardinality(Selected) -> Selected] :
        \A i, j \in DOMAIN s : i < j =>
            \/ Tier[s[i]] > Tier[s[j]]
            \/ Tier[s[i]] = Tier[s[j]] /\ Place(s[i]) < Place(s[j])

Current == claims[Len(verdicts) + 1]

NoRefusal == [by |-> "none"]

Unjudged == [sources |-> <<>>, by |-> "", reason |-> NoRefusal]
Because(by) == [by |-> by]

TypeOK ==
    /\ Len(verdicts) <= Len(claims)
    /\ \A i \in DOMAIN verdicts : IdsIn(verdicts[i].sources) \subseteq Units
    /\ DOMAIN refused \subseteq Units
    /\ considered \subseteq DOMAIN refused \cap Selected

Init ==
    /\ answer = <<>> /\ opts \in Options /\ claims = <<>> /\ verdicts = <<>>
    /\ stage = "writing" /\ now = Unjudged
    /\ refused = <<>> /\ scores = <<>> /\ considered = {}
    /\ result = NoRefusal

-----------------------------------------------------------------------------
(* The answer *)

Write ==
    /\ stage = "writing" /\ Len(answer) < MaxPieces
    /\ \E p \in Pieces : answer' = Append(answer, p)
    /\ UNCHANGED <<opts, claims, verdicts, stage, now, perClaim, result>>

Parse ==
    /\ stage = "writing"
    /\ claims' = JoinListItems(answer)
    /\ stage' = IF claims' = <<>> THEN "conflicts" ELSE "gate"
    /\ UNCHANGED <<answer, opts, verdicts, now, perClaim, result>>

-----------------------------------------------------------------------------
(* One claim *)

Cited(c) == c.cited # <<>>

\* The units a claim may be checked against.  (The variant lets a citation reach a
\* unit below the floor.)
CandidatesAnywhere(c) ==
    IF Cited(c) THEN Within(c.cited, Units)
    ELSE IF opts.required THEN <<>> ELSE SelectedInOrder

Candidates(c) ==
    IF Cited(c) THEN Within(c.cited, Selected)
    ELSE IF opts.required THEN <<>> ELSE SelectedInOrder

WhyNoCandidate(c) ==
    IF ~Cited(c) THEN IF opts.required THEN "uncited" ELSE "unsupported"
    ELSE IF \E id \in IdsIn(c.cited) : id \in Excluded THEN "below the floor"
    ELSE "unknown citation"

With(f, g) == [x \in DOMAIN f \cup DOMAIN g |-> IF x \in DOMAIN f THEN f[x] ELSE g[x]]

\* The highest entailment, and the least contradiction among those.
Bests(heard) ==
    {s \in heard : \A o \in heard :
        s.entailed > o.entailed \/ (s.entailed = o.entailed /\ s.contradicted <= o.contradicted)}

Alones(units) == {{u} : u \in units}

\* What is not known yet of the elements of S is chosen among values.
Learnt(f, S, values) == {With(f, g) : g \in [S \ DOMAIN f -> values]}

Answers == IF opts.fallible THEN {Entails, Neutral, Denies, Fails}
           ELSE {Entails, Neutral, Denies}

Failed(heard) == \E p \in DOMAIN heard : heard[p] = Fails

\* The end of the judgement of one claim.  Beside the verdict are kept the sources
\* it has before conflicts are looked at, the units the checker denied, those a
\* guard refused, and those considered that were never scored.
Judged(sources, by, reason) ==
    /\ verdicts' = Append(verdicts,
          [sources |-> sources, by |-> by, reason |-> reason, grounds |-> IdsIn(sources),
           denied  |-> {u \in Units : {u} \in DOMAIN scores' /\ Contradicts(scores'[{u}])},
           guarded |-> {u \in DOMAIN refused' : refused'[u]},
           unheard |-> {u \in considered' : {u} \notin DOMAIN scores'}])
    /\ stage' = IF Len(verdicts) + 1 = Len(claims) THEN "conflicts" ELSE "next"
    /\ now' = Unjudged

\* SupportCheckerError: a failing checker is an error of the call, never a score.
Raise ==
    /\ stage' = "error" /\ now' = Unjudged
    /\ UNCHANGED <<verdicts>>

NextClaim ==
    /\ stage = "next" /\ stage' = "gate"
    /\ refused' = <<>> /\ scores' = <<>> /\ considered' = {}
    /\ UNCHANGED <<answer, opts, claims, verdicts, now, result>>

\* The gate over one candidate: it fails, passes and is refused by a guard, or
\* admits.  An uncited claim takes the first unit that admits it.
Gate ==
    /\ stage = "gate"
    /\ LET candidates == Candidates(Current)
       IN  \E found \in [IdsIn(candidates) -> {"fails", "guarded", "admits"}] :
             LET admitted == Within(candidates, {u \in IdsIn(candidates) : found[u] = "admits"})
                 sources  == IF Cited(Current) \/ admitted = <<>> THEN admitted ELSE <<Head(admitted)>>
                 read     == IF Cited(Current) \/ admitted = <<>> THEN IdsIn(candidates)
                             ELSE {candidates[i] : i \in 1..(CHOOSE i \in DOMAIN candidates :
                                                               candidates[i] = Head(admitted))}
             IN  /\ \A u \in IdsIn(candidates) \ read : found[u] = "fails"
                 /\ refused' = [u \in {x \in read : found[x] = "guarded"} |-> TRUE]
                 /\ UNCHANGED <<scores, considered>>
                 /\ IF candidates = <<>> THEN Judged(<<>>, "", Because(WhyNoCandidate(Current)))
                    ELSE IF sources # <<>> /\ ~opts.checker THEN Judged(sources, "gate", NoRefusal)
                    ELSE /\ now' = [Unjudged EXCEPT !.sources = sources]
                         /\ stage' = IF sources # <<>> THEN "veto"
                                     ELSE IF opts.checker /\ Cited(Current) THEN "quote"
                                     ELSE "reason"
                         /\ UNCHANGED verdicts
    /\ UNCHANGED <<answer, opts, claims, result>>

\* A source of the gate that the checker says contradicts the claim is removed.
\* (The variant keeps the claim if any of its sources stands.)
KeptIfAny(sources, heard) ==
    IF \E u \in IdsIn(sources) : ~Contradicts(heard[{u}]) THEN sources ELSE <<>>

KeptByChecker(sources, heard) ==
    Within(sources, {u \in IdsIn(sources) : ~Contradicts(heard[{u}])})

Veto ==
    /\ stage = "veto"
    /\ \E heard \in Learnt(scores, Alones(IdsIn(now.sources)), Answers) :
         LET kept == KeptByChecker(now.sources, heard)
         IN  /\ scores' = heard
             /\ UNCHANGED <<refused, considered>>
             /\ IF Failed(heard) THEN Raise
                ELSE IF kept # <<>> THEN Judged(kept, "gate", NoRefusal)
                ELSE Judged(<<>>, "", Because("contradicted"))
    /\ UNCHANGED <<answer, opts, claims, result>>

\* admit, over a sequence of units: the guards first, then the checker over those
\* they let pass (over all of them in eager scoring).
Asked(units, known) == Alones({u \in units : opts.eager \/ ~known[u]})

Admitted(units, known, heard) ==
    Within(units, {u \in IdsIn(units) : ~known[u] /\ Accepts(heard[{u}])})

\* One path of the model over the units it may look at.
ModelPath(units, by, next) ==
    \E known \in Learnt(refused, IdsIn(units), BOOLEAN) :
      \E heard \in Learnt(scores, Asked(IdsIn(units), known), Answers) :
        LET admitted == Admitted(units, known, heard)
        IN  /\ refused' = known /\ scores' = heard /\ considered' = considered \cup IdsIn(units)
            /\ IF Failed(heard) THEN Raise
               ELSE IF admitted # <<>> THEN Judged(admitted, by, NoRefusal)
               ELSE stage' = next /\ UNCHANGED <<now, verdicts>>

\* Units in which the gate finds every quote of the claim.
Quote ==
    /\ stage = "quote"
    /\ \E anchored \in SUBSET IdsIn(Candidates(Current)) :
         ModelPath(Within(Candidates(Current), anchored), "quote", "model")
    /\ UNCHANGED <<answer, opts, claims, result>>

Allowed == IF opts.paraphrase THEN Units ELSE Foreign

Model ==
    /\ stage = "model"
    /\ ModelPath(Within(Candidates(Current), Allowed), "model",
                 IF Current.joined /\ Current.itemCited # <<>> THEN "union" ELSE "reason")
    /\ UNCHANGED <<answer, opts, claims, result>>

-----------------------------------------------------------------------------
(* Union: a joined item over the lead-in's unit and its own together *)

Pairs(c) ==
    {p \in IdsIn(Candidates(c)) \X IdsIn(Candidates(c)) :
        /\ p[1] \in IdsIn(c.leadCited) \ IdsIn(c.itemCited) /\ p[1] \in Allowed
        /\ p[2] \in IdsIn(c.itemCited) /\ p[2] \in Allowed}

Together(pair) == {pair[1], pair[2]}

Premises(pair) == {{pair[1]}, {pair[2]}, Together(pair)}

\* What the model says of one pair: each premise may contradict, the two together
\* have to entail.
PairReason(pair, heard) ==
    IF \E p \in Premises(pair) : Contradicts(heard[p]) THEN "contradicted"
    ELSE IF heard[Together(pair)].entailed = 0 THEN "unsupported"
    ELSE ""

UnionAsked(pairs, guarded) == UNION {Premises(p) : p \in IF opts.eager THEN pairs ELSE pairs \ guarded}

\* Pairs no guard refused are scored and any the model accepts admits both its
\* units.  If none does, the first model refusal decides between a contradiction
\* and a lack of support, and then the premises the guards refused are scored too.
Union ==
    /\ stage = "union"
    /\ considered' = considered
    /\ refused' = refused
    /\ LET pairs == Pairs(Current)
       IN  IF pairs = {} THEN stage' = "reason" /\ UNCHANGED <<scores, now, verdicts>>
           ELSE \E guarded \in SUBSET pairs :
             \E heard \in Learnt(scores, UnionAsked(pairs, guarded), Answers) :
               LET reason(p) == PairReason(p, heard)
                   open      == pairs \ guarded
                   admitted  == {p \in open : reason(p) = ""}
                   sources   == {p[1] : p \in admitted} \cup {p[2] : p \in admitted}
               IN  IF Failed(heard) THEN scores' = heard /\ Raise
                   ELSE IF admitted # {}
                   THEN /\ scores' = heard
                        /\ Judged(Within(Candidates(Current), sources), "union", NoRefusal)
                   ELSE IF open = {} THEN scores' = heard /\ Judged(<<>>, "", Because("guarded"))
                   ELSE \E first \in open :
                     IF reason(first) = "contradicted"
                     THEN scores' = heard /\ Judged(<<>>, "", Because("contradicted"))
                     ELSE \E late \in Learnt(heard, {Together(p) : p \in pairs}, Answers) :
                            /\ scores' = late
                            /\ IF Failed(late) THEN Raise
                               ELSE Judged(<<>>, "", [by |-> "union", best |-> Bests({late[Together(p)] : p \in pairs})])
    /\ UNCHANGED <<answer, opts, claims, result>>

-----------------------------------------------------------------------------
(* F0: the reason of a claim nothing admitted *)

AllGuarded == \A u \in IdsIn(Candidates(Current)) : u \in DOMAIN refused /\ refused[u]

\* The units whose score the guards deferred.  (The variant reports the best of the
\* scores it happens to have.)
LateNone(known) == {}

Late(known) == Alones(considered) \ DOMAIN known

Reason ==
    /\ stage = "reason"
    /\ UNCHANGED <<refused, considered>>
    /\ IF AllGuarded THEN UNCHANGED scores /\ Judged(<<>>, "", Because("guarded"))
       ELSE \E heard \in Learnt(scores, Late(scores), Answers) :
              /\ scores' = heard
              /\ IF Failed(heard) THEN Raise
                 ELSE IF considered = {} THEN Judged(<<>>, "", Because("unsupported"))
                 ELSE Judged(<<>>, "", [by |-> "model",
                                        best |-> Bests({heard[p] : p \in Alones(considered) \cap DOMAIN heard})])
    /\ UNCHANGED <<answer, opts, claims, result>>

-----------------------------------------------------------------------------
(* Conflicts, over the claims together *)

Supported(v) == v.sources # <<>>

Outranks(u, o) == Tier[u] > Tier[o]

\* The units claims rest on, in the order they are looked at.
Rests ==
    LET f[i \in 0..Len(verdicts)] ==
          IF i = 0 THEN <<>> ELSE AppendUnique(f[i - 1], verdicts[i].sources)
    IN  f[Len(verdicts)]

\* Every conflict of such a unit with another selected unit.  A pair is looked at
\* once, from the unit that comes first.
FoundConflicts ==
    {d \in Disagree : \E i \in DOMAIN Rests :
        /\ d[1] = Rests[i]
        /\ d[2] \in Selected \ {Rests[j] : j \in 1..i}}

\* The conflicts that count against u: it lost, or nobody did.  (The variant charges
\* only the unit from which the conflict was found.)
EffectsOneSided(u) == {d \in FoundConflicts : d[1] = u /\ ~Outranks(u, d[2])}

EffectsOn(u) ==
    {d \in FoundConflicts :
        \/ d[1] = u /\ ~Outranks(u, d[2])
        \/ d[2] = u /\ ~Outranks(u, d[1])}

Unresolved(d) == ~Outranks(d[1], d[2]) /\ ~Outranks(d[2], d[1])

\* A value conflict spares a claim that rests on its own words and carries none of
\* the figures that differ.
MaySpare(v, d) == d[3] = "value" /\ v.by \in {"gate", "quote"}

Sparable ==
    {x \in (DOMAIN verdicts) \X {{d[1], d[2]} : d \in FoundConflicts} :
        \E d \in FoundConflicts : x[2] = {d[1], d[2]} /\ MaySpare(verdicts[x[1]], d)}

Against(i, u, spared) == {d \in EffectsOn(u) : <<i, {d[1], d[2]}>> \notin spared}

Resolve ==
    /\ stage = "conflicts"
    /\ \E spared \in SUBSET Sparable :
         LET v(i)       == verdicts[i]
             effects(i) == UNION {Against(i, u, spared) : u \in IdsIn(v(i).sources)}
             kept(i)    == Within(v(i).sources, {u \in IdsIn(v(i).sources) : Against(i, u, spared) = {}})
             lost(i)    == \E d \in effects(i) : ~Unresolved(d)
             dropped(i) == Supported(v(i)) /\ kept(i) = <<>>
             all        == UNION {effects(i) : i \in DOMAIN verdicts}
             sides      == {d \in all : Unresolved(d)}
         IN  /\ verdicts' = [i \in DOMAIN verdicts |->
                   IF dropped(i)
                   THEN [v(i) EXCEPT !.sources = <<>>, !.by = "",
                                     !.reason = Because(IF lost(i) THEN "outranked" ELSE "unresolved")]
                   ELSE [v(i) EXCEPT !.sources = kept(i)]]
             /\ result' = [spared |-> spared, conflicts |-> all,
                           sides |-> {d[1] : d \in sides} \cup {d[2] : d \in sides},
                           dropped |-> {i \in DOMAIN verdicts : dropped(i)}]
    /\ stage' = "assemble"
    /\ UNCHANGED <<answer, opts, claims, now, perClaim>>

Answered == {i \in DOMAIN verdicts : Supported(verdicts[i])}

MissingFacets == Facets \ UNION {IdsIn(claims[i].facets) : i \in Answered}

\* Why nothing is answered.  (The variant names the gate whatever happened.)
RefusalByGate == [why |-> "gate", cited |-> {}]

Refusal ==
    IF verdicts = <<>> THEN [why |-> "no claims", cited |-> {}]
    ELSE IF result.dropped # {} /\ result.sides # {} THEN [why |-> "conflict", cited |-> result.sides]
    ELSE IF Excluded # {} /\ Selected = {} THEN [why |-> "authority", cited |-> {}]
    ELSE [why |-> "gate", cited |-> {}]

Assemble ==
    /\ stage = "assemble" /\ stage' = "done"
    /\ result' =
         IF Answered = {}
         THEN [decision |-> "refused", refusal |-> Refusal, missing |-> MissingFacets,
               spared |-> result.spared]
         ELSE [decision |-> IF Answered # DOMAIN verdicts \/ MissingFacets # {}
                            THEN "partial" ELSE "answered",
               refusal  |-> [why |-> "", cited |-> {}],
               missing  |-> MissingFacets, spared |-> result.spared]
    /\ UNCHANGED <<answer, opts, claims, verdicts, now, perClaim>>

Next ==
    \/ Write \/ Parse \/ NextClaim
    \/ Gate \/ Veto \/ Quote \/ Model \/ Union \/ Reason
    \/ Resolve \/ Assemble

Spec == Init /\ [][Next]_vars

-----------------------------------------------------------------------------
(* Properties *)

Done == stage = "done"

\* What the writer cited, and knew the id of, is cited by some claim: neither a
\* structural lead-in nor a bare list marker takes its citations with it.
MarkersReachClaims ==
    stage \notin {"writing"} =>
      UNION {IdsIn(answer[i].cited) : i \in DOMAIN answer}
        = UNION {IdsIn(claims[i].cited) : i \in DOMAIN claims}

\* A claim rests only on units it cited, if it cited any, and never on one below the
\* caller's floor, whichever of the four paths admitted it; and on none that the
\* checker was heard to say contradicts it: the checker can veto the gate and cannot
\* be outvoted.
SourcesHaveStanding ==
    \A i \in DOMAIN verdicts :
        LET sources == IdsIn(verdicts[i].sources)
        IN  /\ sources \cap Excluded = {}
            /\ Cited(claims[i]) => sources \subseteq IdsIn(claims[i].cited)
            /\ sources \cap verdicts[i].denied = {}

\* "The output is the same as the default lazy scoring": a refusal that reports the
\* model's scores has heard every unit the model path looked at, the guard-refused
\* ones included; one that names a guard has a guard for every unit.
ReasonIsHonest ==
    \A i \in DOMAIN verdicts :
        /\ verdicts[i].reason.by = "model" => verdicts[i].unheard = {}
        /\ verdicts[i].reason.by = "guarded" /\ ~claims[i].joined =>
              IdsIn(Candidates(claims[i])) \subseteq verdicts[i].guarded

\* When the call returns, a claim that stands rests on no unit which another
\* admissible unit of the same standing or higher disagrees with, unless the
\* disagreement is over figures the claim does not carry.
StandsUncontested ==
    Done => \A i \in Answered : \A u \in IdsIn(verdicts[i].sources) :
        \A d \in Disagree :
            u \in {d[1], d[2]} /\ {d[1], d[2]} \subseteq Selected /\ d[1] # d[2] =>
               \/ Outranks(u, CHOOSE o \in {d[1], d[2]} : o # u)
               \/ d[3] = "value" /\ verdicts[i].by \in {"gate", "quote"} /\ <<i, {d[1], d[2]}>> \in result.spared

\* A refusal because sources disagree cites both sides of every disagreement that
\* took a claim away, and is given only if one did.
RefusalCitesBothSides ==
    Done /\ result.decision = "refused" =>
      LET undecided == {i \in DOMAIN verdicts : verdicts[i].reason.by = "unresolved"}
      IN  /\ undecided # {} => result.refusal.why = "conflict"
          /\ \A i \in undecided : \A u \in verdicts[i].grounds :
                /\ u \in result.refusal.cited
                /\ \E d \in Disagree : u = d[1] /\ d[2] \in result.refusal.cited
          /\ Selected = {} /\ Units # {} /\ verdicts # <<>> => result.refusal.why = "authority"

\* Sources that disagree are never settled in silence: whichever claim stands is
\* uncontested, and a refusal shows what it could not settle.
ConflictsSettled == StandsUncontested /\ RefusalCitesBothSides
=============================================================================
