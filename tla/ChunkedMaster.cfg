SPECIFICATION FairSpec
CONSTANTS
    Threads = {0, 1, 2}
    Tasks = {a, b, c}
    PackageCount = 2
    PackageOf <- TwoPackages
    ChunkSize = 2
PROPERTIES ImplementsWorkList AllDelivered
