CONSTANTS
    f1 = f1
    f2 = f2
    a = a
    b = b
    A = A
    B = B
    d1 = d1
    w1 = w1
    d2 = d2
    w2 = w2
    None = None
    Files = {f1, f2}
    Paths = {a, b}
    Dirs = {A, B}
    DirOf <- Parent
    Ids = {1, 2, 3, 4, 5}
    Decoders = {d1}
    Workers = {w1}
    Cap = 1
    Batch = 2
    Starts <- Begin
    Faults = {"list", "read", "bare", "db", "hide", "status", "load", "gpu"}
    MaxTroubles = 2
SPECIFICATION Spec
INVARIANTS
    TypeOK
    CompletedWhole
    CompletedExact
    Recorded
PROPERTIES
    StayPut
    NotHidden
    Concludes
