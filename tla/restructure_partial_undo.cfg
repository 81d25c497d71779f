CONSTANTS
    f1 = f1
    f2 = f2
    a = a
    b = b
    x = x
    R = R
    S = S
    None = None
    Files = {f1, f2}
    Paths = {a, b, x}
    Roots = {R}
    RootOf <- OneRoot
    Home <- HomeAB
    MaxPlan = 2
    MaxRuns = 2
    MaxRestarts = 0
    Faults = {"moveback"}
SPECIFICATION Spec
INVARIANTS
    RetryCanFinish
