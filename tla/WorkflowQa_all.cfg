SPECIFICATION FairSpec
CONSTANTS
    w1 = w1
    Workers = {w1}
    Interruptions = {"cancelled", "timed-out"}
    Answers <- AnswerEvents
    MaxInterrupts = 2
    MaxCrashes = 1
INVARIANTS
    SagaInv
    ExecutionAuthorized
    TerminalAudited
    StagesOnce
    EndsOnce
PROPERTIES
    SettledForGood
    LifecycleSpec
    Progress
