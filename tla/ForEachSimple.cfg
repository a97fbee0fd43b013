SPECIFICATION Spec
CONSTANTS
    N = 4
    Tasks = {a, b, c}
    Limit = 1
    CouldAbort = FALSE
    NeedsBreak = FALSE
    PackageOf <- MCPackageOf
    MaxPackages = 2
    MaxAborts = 0
    MaxLoops = 1
CHECK_DEADLOCK FALSE
SYMMETRY TaskSymmetry
INVARIANTS
    NoWorkAfterGlobalTerm
