SPECIFICATION FairSpec
CONSTANTS
    w1 = w1
    Workers = {w1}
    Interruptions = {"cancelled"}
    Answers <- AnswerEvents
    MaxInterrupts = 1
    MaxCrashes = 0
PROPERTIES
    CleanupCompletes
