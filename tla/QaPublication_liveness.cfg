SPECIFICATION FairSpec
CONSTANTS
    Last = 2
    Rank <- TwoStages
    Digests = {d1, d2}
    None = None
    Workers = {w1}
    MaxAsked = 2
    MaxCrashes = 1
PROPERTIES
    EventuallyTold
