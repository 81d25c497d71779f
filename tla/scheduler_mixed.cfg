CONSTANTS
    scan = scan
    chat = chat
    model = model
    index = index
    Requests = {scan, chat, model, index}
    Interactive = {chat, model}
    Patient = {scan}
    Queued = {chat, model}
    Demand <- Mixed
    Cpu = 2
    Io = 1
    Gpu = 3
    Total = 32
    Readings = {2, 20}
    MaxChanges = 1
SPECIFICATION Spec
INVARIANTS
    TypeOK
    Ledger
    WithinCapacity
PROPERTIES
    InteractiveFirst
    NobodyStranded
    PatienceKept
