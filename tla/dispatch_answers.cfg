CONSTANTS
    s1 = s1
    deep = deep
    move = move
    wipe = wipe
    Main = Main
    None = None
    Requests = {s1, deep, wipe}
    KindOf <- Kind
    MaxControls = 2
SPECIFICATION Spec
PROPERTIES
    Answered
    LoopServes
    ShutdownEnds
