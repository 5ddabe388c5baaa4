SPECIFICATION Spec
CONSTANTS
    Launchers = {h1, h2}
    NoLauncher = NoLauncher
    Checkers = {h1, h2}
    NoChecker = NoChecker
    MaxDirs = 2
    Handlers = {h1, h2}
    Ports = {p1, p2}
    Slots = {h1}
    MaxGen = 2
    MaxEntries = 2
    MaxFaults = 3
    Procs = {h1, h2}
    Callers = {h1, h2}
    NoCaller = NoCaller
    MaxBreaks = 1
    Ghost = Ghost
    None = None
    MaxCrashes = 1
    MaxKills = 1
    Dead = Dead
    NoFile = NoFile
    MaxFiles = 2
    NoUser = NoUser
    NetLimit = 1
    CpuLimit = 2
    Costs = {1, 2}
    MaxRuns = 3
    MaxHostRuns = 2
    Limits = {1, 2}
    MaxHalts = 1
INVARIANTS
    StartedOnce
    CleanedMeansStopped
    ClaimComplete
    WorkspaceSound
    HomesAccounted
    BudgetKept
    LineageSound
PROPERTIES
    NotTaken
    RevokedNeverStarts
    PartsProgress
CHECK_DEADLOCK FALSE
