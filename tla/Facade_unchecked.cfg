SPECIFICATION Spec
CONSTANTS
    Fields = {"a"}
    ServerReplies <- Replies_one
    Strings = {"", "OK", "s", "t", "OOM", "MISCONF", "low", "six", "seven",
               "3", "999999", "1000003"}
    MaxNesting = 2
    Scores <- Members
    ScoreText <- Texts_of_scores
    Bounds = {3, 999999}
    MaxCommands = 1
INVARIANT
    ExpectedAlternative
