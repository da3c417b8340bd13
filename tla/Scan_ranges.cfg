SPECIFICATION FairSpec
CONSTANTS
    Iterators = {i1, i2}
    Strings = {"a", "b"}
    Scans <- MCScans
    MaxPages = 3
INVARIANTS
    IndInv
    EqualIsSameElement
PROPERTIES
    WalksTheElements
    IncrementReturns
