CONSTANTS
    Runs = {r1, r2}
    Callers = {c1}
    Reaper = reaper
    Sessions = {k1}
    Sandboxes = {s1, s2}
    None = None
SPECIFICATION FairSpec
PROPERTIES
    CheckoutReturns
    IdleIsReaped
    SwapOnlyBetweenRuns
    ImplementsLease
