SPECIFICATION FairSpec
CONSTANTS
    Threads = {t1}
    Nobody = Nobody
    LoopThread = LoopThread
    CanLoseLink = TRUE
    Batches = {b1}
    Owner <- MCOwner
    MaxUnanswered = 2
    MaxCommands = 3
    Ndebug = TRUE
    None = None
    ErrorAnswers <- MCErrorAnswers
INVARIANTS
    TypeOK
    CountersExact
    IndInv
    AnswerIndInv
PROPERTIES
    ImplementsCommandLog
    EveryCommandCompletes
