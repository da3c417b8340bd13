SPECIFICATION Spec
CONSTANTS
    Threads = {t1, t2}
    Nobody = Nobody
    LoopThread = LoopThread
    CanLoseLink = TRUE
    Batches = {b1, b2}
    Owner <- MCOwner
    MaxUnanswered = 3
    MaxCommands = 2
    Ndebug = FALSE
    None = None
    ErrorAnswers <- MCErrorAnswers
INVARIANTS
    UnansweredBound
    PipelineAligned
    AnswersReachTheirSlot
    StoresFindTheirNode
    RepliesComplete
    ListInOrder
    ThrowVerdict
    LoopWillWrite
SYMMETRY
    MCSymmetry
