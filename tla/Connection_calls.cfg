SPECIFICATION FairSpec
CONSTANTS
    MaxConnects = 2
    MaxPending = 2
    CanThrow = TRUE
    CanRefuse = TRUE
    CanClose = TRUE
    Ndebug = FALSE
INVARIANTS
    AssertionsHold
    OnlyFailuresCrash
    OutcomePublished
    MessageComplete
    DisconnectedIsOver
    NoLoopLeft
    IndInv
PROPERTIES
    JoinReturns
    IdleDestructorReturns
