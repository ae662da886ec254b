CONSTANTS
    NumRuns = 4
    MaxIterations = 2
    MaxEmptyRetries = 0
    HistoryWindow = 5
    Trigger = 2
    Keep = 1
    UseCompactor = TRUE
    MaxFaults = 0
    Overlap = FALSE
SPECIFICATION Spec
INVARIANTS
    NothingDropped
CHECK_DEADLOCK FALSE
