SPECIFICATION Spec
CONSTANTS
    d1 = d1
    d2 = d2
    u1 = u1
    u2 = u2
    invented = invented
    p1 = p1
    p2 = p2
    concept = concept
    None = None
    Docs = {d1, d2}
    Units = {u1, u2}
    DocOf <- MCDocOf
    Words <- MCWords
    Says <- MCSays
    UnitOrder <- MCUnitOrder
    PageOf <- MCPageOf
    Slug <- MCSlug
    Under <- MCUnder
    GraphReplies <- MCGraphReplies
    PageReplies <- MCPageReplies
    Questions <- MCQuestions
    Limit = 1
    Writers = {w}
    Readers = {r1, r2}
    MaxOps = 4
INVARIANTS RevokedNotFound OneRebuildPerMark NavigationGrounded
CHECK_DEADLOCK FALSE
