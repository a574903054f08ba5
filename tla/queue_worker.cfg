SPECIFICATION Spec
CONSTANTS
    Hashes = {h1, h2}
    NoHash = NoHash
    Workers = {w1}
    MaxAttempts = 2
    MaxCrashes = 2
    MaxCalls = 2
INVARIANTS DoneHasRun AttemptsPerKill
PROPERTIES EventuallySettled
CHECK_DEADLOCK FALSE
