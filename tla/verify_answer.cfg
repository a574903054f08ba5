SPECIFICATION Spec
CONSTANTS
    Pieces <- MCPieces
    MaxPieces = 2
    Evidence <- MCEvidence
    Tier <- MCTier
    Floor = 2
    Foreign <- MCForeign
    Disagree <- MCDisagree
    Facets = {"part"}
    Options <- MCOptions
INVARIANTS MarkersReachClaims SourcesHaveStanding ReasonIsHonest ConflictsSettled
CHECK_DEADLOCK FALSE
