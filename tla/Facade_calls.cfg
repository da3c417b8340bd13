SPECIFICATION Spec
CONSTANTS
    Fields = {"a", "b"}
    ServerReplies <- Replies_two
    Strings = {"", "OK", "s", "t", "OOM", "MISCONF", "low", "six", "seven",
               "3", "999999", "1000003"}
    MaxNesting = 2
    Scores <- Members
    ScoreText <- Texts_of_scores
    Bounds = {3, 999999, 1000002}
    MaxCommands = 2
INVARIANTS
    IndInv
    ErrorsReported
    DecodesAsSent
    LostReadsAsZero
    SetAsAsked
    RangeAsAsked
    FailuresExplained
