SPECIFICATION FairSpec
CONSTANTS
    Threads = {t1, t2}
    Tasks = {1, 2, 3}
    Prio <- MCPrio
    StealBatchSize = 3
    SpuriousCas = FALSE
    Dummy = Dummy
    Torn = Torn
INVARIANTS
    BatchBestLast
PROPERTIES
    ExtractsBest
    ImplementsWorkList
    AllDelivered
