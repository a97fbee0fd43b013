SPECIFICATION FairSpec
CONSTANTS
    MaxThreads = 5
    PackageOf <- PackageMap
    SenseValues = 2
    Commands <- ForEachCommands
    Counts = {5}
    MaxRuns = 2
INVARIANTS TypeOK RunIsComplete CommandsInStep NobodyIsStuck
PROPERTIES ImplementsBarrier ShutdownEnds
CHECK_DEADLOCK FALSE
