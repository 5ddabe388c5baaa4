SPECIFICATION FairSpec
CONSTANTS
    Cases = {c1, c2}
    Workers = {w1}
    MaxCrashes = 1
PROPERTIES
    EventuallyPublished
