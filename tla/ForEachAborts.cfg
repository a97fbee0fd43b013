SPECIFICATION FairSpec
CONSTANTS
    N = 3
    Tasks = {a, b}
    Limit = 1
    CouldAbort = TRUE
    NeedsBreak = TRUE
    PackageOf <- MCPackageOf
    MaxPackages = 3
    MaxAborts = 2
    MaxLoops = 2
CHECK_DEADLOCK FALSE
INVARIANTS
    TypeOK
    OneToken
    AllCommitted
PROPERTIES
    LoopEnds
