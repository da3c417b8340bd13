SPECIFICATION FairSpec
CONSTANTS
    MaxConnects = 1
    MaxPending = 1
    CanThrow = FALSE
    CanRefuse = FALSE
    CanClose = FALSE
    Ndebug = FALSE
PROPERTIES
    DestructorReturns
