SPECIFICATION SpecOfOne
CONSTANTS
    Last = 2
    Rank <- TwoStages
    Digests = {d1, d2}
    None = None
    Workers = {w1, w2}
    MaxAsked = 3
    MaxCrashes = 1
    Interruptions = {"cancelled"}
    MaxInterrupts = 1
SYMMETRY Interchangeable
INVARIANTS
    Inv
    ToldTruthful
    TerminalDecided
PROPERTIES
    JournalSpec
    ForwardOnly
    InterruptionKept
