SPECIFICATION FairSpec
CONSTANTS
    MaxTurns = 2
    MaxLogs = 1
    MaxDepth = 3
    Modules = {"lib","util"}
    Known = {"lib","util"}
    Tools = {"fetch"}
    HasTimeout = TRUE
INVARIANTS
    TimeoutsCharged
    ReportIsOwn
PROPERTY
    TurnEnds
CHECK_DEADLOCK FALSE
