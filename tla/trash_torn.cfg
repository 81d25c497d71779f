CONSTANTS
    f1 = f1
    f2 = f2
    Files = {f1, f2}
    Unref = {f2}
    MaxBatches = 2
    MaxUndos = 0
    Cap = 4
    Torn = TRUE
    MaxKills = 1
    MaxUser = 0
SPECIFICATION Spec
INVARIANTS
    ClaimJournaled
CHECK_DEADLOCK FALSE
