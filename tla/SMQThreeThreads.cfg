SPECIFICATION Spec
CONSTANTS
    Threads = {t1, t2, t3}
    Tasks = {1, 2}
    Prio <- MCPrio
    StealBatchSize = 2
    SpuriousCas = FALSE
    Dummy = Dummy
    Torn = Torn
SYMMETRY ThreadSymmetry
INVARIANTS
    TypeOK
    StealIntegrity
    FillOnlyStolen
    NothingTwice
    EmptyPopOwnsNothing
