CONSTANTS
    Procs = {p1, p2}
    Sessions = {s1, s2}
    Questions = {q}
    NoSession = none
    NoQuestion = nothing
    Instants = {3, 4}
    MaxSteps = 1
SPECIFICATION Spec
SYMMETRY Symmetry
INVARIANTS
    ApprovalWasGiven
    GrantsAreStanding
    NoOrphanSteps
    ContinuesLatest
