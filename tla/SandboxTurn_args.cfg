SPECIFICATION Spec
CONSTANTS
    MaxTurns = 2
    MaxLogs = 1
    MaxDepth = 3
    Modules = {"lib","util"}
    Known = {"lib","util"}
    Tools = {"fetch"}
    HasTimeout = TRUE
INVARIANT ArgsIntact
CHECK_DEADLOCK FALSE
