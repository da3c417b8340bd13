SPECIFICATION Spec
CONSTANTS
    Texts = {Sum, Bad, Empty}
    Valid = {Sum, Empty}
    Empty = Empty
    NoSha = NoSha
    MaxSent = 3
    MaxMoves = 2
INVARIANTS
    IndInv
    KnownWasLoaded
    HandlesViewCache
PROPERTIES
    NoscriptWasForgotten
