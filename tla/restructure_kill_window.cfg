CONSTANTS
    f1 = f1
    f2 = f2
    a = a
    b = b
    x = x
    R = R
    S = S
    None = None
    Files = {f1, f2}
    Paths = {a, b, x}
    Roots = {R}
    RootOf <- OneRoot
    Home <- HomeAB
    MaxPlan = 1
    MaxRuns = 1
    MaxRestarts = 1
    Faults = {"kill"}
SPECIFICATION Spec
INVARIANTS
    StaleRowRecorded
