SPECIFICATION FairConflictSpec
CONSTANTS
    Contexts = {c1, c2, c3}
    Lockables = {l1, l2}
    Null = Null
INVARIANTS MutualExclusion ListsIntact
PROPERTY IterationsEnd
