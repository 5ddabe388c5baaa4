SPECIFICATION FairSpec
CONSTANTS
    Cases = {c1, c2}
    Workers = {w1, w2}
    MaxCrashes = 2
INVARIANTS
    Inv
    TerminalTruthful
PROPERTIES
    ReportSpec
    EventuallyReported
