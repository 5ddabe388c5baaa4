SPECIFICATION LocksSpec
CONSTANTS
    p1 = p1
    p2 = p2
    p3 = p3
    q1 = q1
    q2 = q2
    q3 = q3
    Dead = Dead
    Nothing = Nothing
    MaxFiles = 1
    MaxReusedFiles = 2
    MaxCrashes = 1
    MaxKills = 1
SYMMETRY Interchangeable
INVARIANTS
    MutualExclusion
    AnswersTrue
PROPERTIES
    NoLostUpdate
CHECK_DEADLOCK FALSE
