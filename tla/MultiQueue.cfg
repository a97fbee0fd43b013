SPECIFICATION MQSpec
CONSTANTS
    x1 = x1  x2 = x2  x3 = x3
    Threads = {t1, t2}
    Tasks = {x1, x2, x3}
    Prio <- MCPrio
    Dummy = 2
    C = 1
    Kinds <- MCKinds
    PushSize = 3
    PopSize = 3
    Attempts = 2
    None = none
INVARIANTS MQTypeOK EachElementOnce MinPublished LocksReleased BatchOrder
SYMMETRY Symmetry
CHECK_DEADLOCK FALSE
