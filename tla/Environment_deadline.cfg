SPECIFICATION FairSpec
CONSTANTS
    Ports = {p1}
    MaxDirs = 2
    MaxTroubles = 1
    Expires = TRUE
PROPERTIES
    EndedAfterDeadline
CHECK_DEADLOCK FALSE
