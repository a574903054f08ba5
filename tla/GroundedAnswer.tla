---------------------------- MODULE GroundedAnswer ----------------------------
(***************************************************************************)
(* What an answer promises, whichever flow gives it: cite or abstain.      *)
(*                                                                         *)
(* A question is asked in a trust mode.  Evidence is gathered and compared *)
(* for contradictions; then the question is decided once.  An answer cites *)
(* every claim to one unit that supports it.  A strict answer rests only   *)
(* on units of standing, and on none that a compared unit contradicts; a   *)
(* strict abstention over a contradiction shows both of its sides.         *)
(***************************************************************************)
CONSTANTS Units, Claims,
          Supports,   \* Supports[k]: units whose own words support claim k
          Conflicts,  \* pairs of units that contradict each other
          Standing    \* units a strict answer may rest on

VARIABLES mode, 
          pool,       \* units the answer may cite
          compared,   \* those of them compared with one another
          decision,   \* "pending", "answered" or "refused"
          cited,      \* the claims of the answer, each with its unit
          sides       \* the units an abstention shows

vars == <<mode, pool, compared, decision, cited, sides>>

Init == /\ mode \in {"strict", "normal", "exploratory"}
        /\ pool = {}
        /\ compared = {}
        /\ decision = "pending"
        /\ cited = {}
        /\ sides = {}

Admissible(units) == units \subseteq Units /\ (mode = "strict" => units \subseteq Standing)

Gather == /\ decision = "pending"
          /\ Admissible(pool')
          /\ compared' \subseteq pool'
          /\ UNCHANGED <<mode, decision, cited, sides>>

Contested(units) == \E pair \in Conflicts : pair \subseteq compared /\ pair \cap units # {}

Answer == /\ decision = "pending"
          /\ decision' = "answered"
          /\ cited' # {}
          /\ \A x \in cited' : x[1] \in Claims /\ x[2] \in pool \cap Supports[x[1]]
          /\ mode = "strict" => ~Contested({x[2] : x \in cited'})
          /\ UNCHANGED <<mode, pool, compared>>

Abstain == /\ decision = "pending"
           /\ decision' = "refused"
           /\ cited' = {}
           /\ \/ sides' = {}
              \/ /\ mode = "strict"
                 /\ sides' \subseteq compared
                 /\ \E pair \in Conflicts : pair \subseteq sides'
           /\ UNCHANGED <<mode, pool, compared>>

\* The next question of the same client.
AskNext == /\ decision' = "pending"
           /\ mode' \in {"strict", "normal", "exploratory"}
           /\ pool' = {}
           /\ compared' = {}
           /\ cited' = {}
           /\ sides' = {}

Next == Gather \/ Answer \/ Abstain \/ AskNext

Spec == Init /\ [][Next]_vars
===============================================================================
