CONSTANTS
    Suites = {s1, s2}
    CaseIds = {k1, k2}
    Callers = {c1}
    Thresholds = {0, 5}
    Rubrics <- MCRubrics
    Replies <- MCReplies
    Allowance = 6
    MessageFrame = 1
    MaxFoldRounds = 2
    MessageCosts = {2, 5, 7}
    ReplyCosts = {1, 3, 7}
    MaxOlder = 3
    Procs = {p1, p2}
    Sessions = {x1, x2}
    Rows = {a, b}
    Snapshots = {d}
    Windows = {0, 2}
    NoData = none
    Nobody = nobody
    MaxRows = 3
    PromptAllowance = 10
    SystemCost = 2
    MarkerCost = 2
    WideCount = 4
    ElidedCost = 1
    Costs = {1, 3}
    MaxPrior = 3
    MaxTurns = 3
SPECIFICATION Spec
INVARIANTS
    VerdictsEarned
    NoRunLeftRunning
    NoSilentHole
    FitsOrOver
    TokensHonest
    DropsLeast
    NoStrandedResult
PROPERTIES
    CompactionEnds
    StoresKeepLog
CHECK_DEADLOCK FALSE
