CONSTANTS
    NumRuns = 3
    MaxIterations = 2
    MaxEmptyRetries = 1
    HistoryWindow = 5
    Trigger = 2
    Keep = 1
    UseCompactor = TRUE
    MaxFaults = 0
    Overlap = FALSE
SPECIFICATION FairSpec
INVARIANTS
    ReplayedOnce
    ResultsKeepScripts
    SnapshotIsLatestWork
PROPERTIES
    RunReturns
CHECK_DEADLOCK FALSE
