SPECIFICATION Spec
CONSTANTS
    Threads = {t1}
    Nobody = Nobody
    LoopThread = LoopThread
    CanLoseLink = FALSE
    Batches = {b1, b2}
    Owner <- MCOwner
    MaxUnanswered = 2
    MaxCommands = 2
    Ndebug = FALSE
    None = None
    ErrorAnswers <- MCErrorAnswers
PROPERTIES
    FreedSlotWakesAWaiter
