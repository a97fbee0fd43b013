SPECIFICATION FairSpec
CONSTANTS
    N = 4
    Dist = 9
    UseStealing = TRUE
INVARIANTS EachIndexOnce ReductionComplete
PROPERTIES LoopEnds
CHECK_DEADLOCK FALSE
