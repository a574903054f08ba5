SPECIFICATION Spec
CONSTANTS
    RrfK = 60
    Depth = 2
    Units <- MCUnits
    Id <- MCId
    About <- MCAbout
    Unreadable = {"d"}
    Tier <- MCTier
    MaxTier = 1
    Floor = 1
    Claims = {"k1", "k2"}
    Says <- MCSays
    Supports <- MCSupports
    Blurb <- MCBlurb
    Conflicts <- MCConflicts
    Questions = {"q1", "q2", "q3"}
    Rewrites = {"r1"}
    Topics <- MCTopics
    Unclaimed = {"q2"}
    Excuse = {}
    Searches <- MCSearches
    Searchable = {"en", "ta"}
    Retrievers <- MCRetrievers
    Semantic = {"vector"}
    Nearest <- MCNearest
    Verbatim = {"vector", "graph"}
    Score <- MCScore
    Reformulates = TRUE
    Reranks = TRUE
    TopN = 1
    Window = 2
    MaxAttempts = 2
    MaxTurns = 2
    RecallLimit = 1
    MaxAsks = 2
    MaxOthers = 1
INVARIANTS UnreadableToldNotQuoted RefusalNamesItsCause
PROPERTIES ImplementsGroundedAnswer
CHECK_DEADLOCK FALSE
