CONSTANTS
    Runs = {r1, r2}
    Callers = {c1}
    Reaper = reaper
    Sessions = {k1, k2}
    Sandboxes = {s1, s2, s3}
    None = None
SPECIFICATION Spec
SYMMETRY Symmetry
INVARIANTS
    ExclusiveUse
    BoundToUser
    CleanedExactlyOnce
