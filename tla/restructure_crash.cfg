CONSTANTS
    f1 = f1
    f2 = f2
    a = a
    b = b
    x = x
    R = R
    S = S
    None = None
    Files = {f1, f2}
    Paths = {a, b, x}
    Roots = {R, S}
    RootOf <- OneRoot
    Home <- HomeAB
    MaxPlan = 2
    MaxRuns = 3
    MaxRestarts = 2
    Faults = {"kill", "journal", "append", "move", "truncate", "stream", "record"}
SPECIFICATION Spec
INVARIANTS
    TypeOK
    RetryCanFinish
PROPERTIES
    ImplementsUndoLog
