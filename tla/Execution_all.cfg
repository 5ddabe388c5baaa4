SPECIFICATION FairSpec
CONSTANTS
    w1 = w1
    w2 = w2
    w3 = w3
    g1 = g1
    g2 = g2
    None = None
    Workers = {w1, w2, w3}
    Grants = {g1, g2}
    GrantOf <- TwoGrants
    CaseCount = 2
    Plans <- TwoCases
    MaxFaults = 1
INVARIANTS
    Inv
    SingleUse
    ResultsStand
PROPERTIES
    Answered
CHECK_DEADLOCK FALSE
