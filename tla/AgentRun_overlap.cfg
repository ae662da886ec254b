CONSTANTS
    NumRuns = 2
    MaxIterations = 1
    MaxEmptyRetries = 0
    HistoryWindow = 8
    Trigger = 2
    Keep = 1
    UseCompactor = TRUE
    MaxFaults = 1
    Overlap = TRUE
SPECIFICATION Spec
INVARIANTS
    TraceTellsOutcome
    LoneScriptWasInFlight
CHECK_DEADLOCK FALSE
