CONSTANTS
    f1 = f1
    f2 = f2
    Files = {f1, f2}
    Unref = {f2}
    MaxBatches = 2
    MaxUndos = 1
    Cap = 4
    Torn = FALSE
    MaxKills = 2
    MaxUser = 1
SPECIFICATION Spec
INVARIANTS
    TypeOK
    NothingLost
    ClaimJournaled
    Reachable
PROPERTIES
    OnlyIndexed
    ReceiptFirst
    StrandedReturns
CHECK_DEADLOCK FALSE
