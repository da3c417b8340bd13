SPECIFICATION Spec
CONSTANTS
    Threads = {t1}
    Nobody = Nobody
    LoopThread = LoopThread
    CanLoseLink = FALSE
    Batches = {b1}
    Owner <- MCOwner
    MaxUnanswered = 2
    MaxCommands = 1
    Ndebug = FALSE
    None = None
    ErrorAnswers <- MCErrorAnswers
INVARIANTS
    NoCallbackAfterBatch
