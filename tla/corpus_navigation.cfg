SPECIFICATION Spec
CONSTANTS
    d1 = d1
    d2 = d2
    v1 = v1
    v2 = v2
    Docs = {d1, d2}
    Checksums = {v1, v2}
    NoSum = NoSum
    NoDoc = NoDoc
    Clients = {c1}
    Signals = {"text", "graph", "wiki"}
    Slots = {1, 2}
    Units <- MCSameUnit
    WithImages = {}
    Within <- MCFlat
    IndexWithin <- MCFlat
SYMMETRY MCSymmetry
INVARIANTS NavigationKnown
PROPERTIES CleanedWhenCurrent
