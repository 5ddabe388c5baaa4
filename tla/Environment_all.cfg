SPECIFICATION FairSpec
CONSTANTS
    Ports = {p1}
    MaxDirs = 2
    MaxTroubles = 1
    Expires = TRUE
INVARIANTS
    NothingLeft
    ReadyMeansUp
    NoStrayProcess
PROPERTIES
    EventsAnswered
CHECK_DEADLOCK FALSE
