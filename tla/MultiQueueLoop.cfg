SPECIFICATION Spec
CONSTANTS
    N = 2
    Threads <- MCThreads
    Tasks = {x1}
    Prio <- MCPrio
    Dummy = 1
    C = 2
    Kinds <- MCKinds
    PushSize = 2
    PopSize = 2
    Attempts = 1
    None = none
INVARIANTS NoWorkAfterDetection
CHECK_DEADLOCK FALSE
