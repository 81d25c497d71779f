CONSTANTS
    s1 = s1
    deep = deep
    move = move
    wipe = wipe
    Main = Main
    None = None
    Requests = {s1}
    KindOf <- Kind
    MaxControls = 0
SPECIFICATION Spec
INVARIANTS
    ShutdownDelivered
