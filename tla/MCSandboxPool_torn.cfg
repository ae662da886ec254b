CONSTANTS
    Runs = {r1}
    Callers = {c1}
    Reaper = reaper
    Sessions = {k1}
    Sandboxes = {s1}
    None = None
SPECIFICATION Spec
INVARIANTS
    UsedSandboxIsLive
