------------------------------ MODULE MCDeepAsk ------------------------------
(* Small instances of DeepAsk for TLC. *)
EXTENDS DeepAsk, TLC

CONSTANTS u1, u2, u3, u4, k1, k2, k3

\* u1 is below the floor, u2 is at it, u3 and u4 are above it.
MCTier == (u1 :> 0) @@ (u2 :> 1) @@ (u3 :> 2) @@ (u4 :> 2)

\* k1 is supported by a low and by a high unit, k2 by the middle one alone, k3 by
\* none.
MCSupports == (k1 :> {u1, u3}) @@ (k2 :> {u2}) @@ (k3 :> {})

\* The two units that support different claims contradict each other.
MCConflicts == {{u2, u3}}

\* The tool calls run out before the hops, the hops before the tool calls, and there
\* is room for no unit at all.
MCBudgets == {[maxHops |-> 4, maxToolCalls |-> 3, maxUnits |-> 3, searchK |-> 2],
              [maxHops |-> 2, maxToolCalls |-> 3, maxUnits |-> 3, searchK |-> 2],
              [maxHops |-> 2, maxToolCalls |-> 2, maxUnits |-> 0, searchK |-> 2]}
=============================================================================
