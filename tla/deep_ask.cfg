SPECIFICATION Spec
CONSTANTS
    u1 = u1
    u2 = u2
    u3 = u3
    u4 = u4
    k1 = k1
    k2 = k2
    k3 = k3
    Units = {u1, u2, u3, u4}
    Tier <- MCTier
    MaxTier = 2
    Floor = 1
    Claims = {k1, k2, k3}
    Supports <- MCSupports
    Conflicts <- MCConflicts
    Window = 2
    Budgets <- MCBudgets
INVARIANTS WithinBudget RefusalExplained
PROPERTIES Terminates ImplementsGroundedAnswer
CHECK_DEADLOCK FALSE
