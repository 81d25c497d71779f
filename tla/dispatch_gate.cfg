CONSTANTS
    s1 = s1
    deep = deep
    move = move
    wipe = wipe
    Main = Main
    None = None
    Requests = {s1, deep, move, wipe}
    KindOf <- Kind
    MaxControls = 2
SPECIFICATION Spec
INVARIANTS
    TypeOK
    Serialized
    WipeLast
    CancelDelivered
    CancelAimed
    SidebarTruth
