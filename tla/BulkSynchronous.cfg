SPECIFICATION FairSpec
CONSTANTS
    N = 2
    Tasks = {a, b, c}
    PackageOf <- Packages
    MaxPackages = 2
    MaxAborts = 2
INVARIANTS RoundsDoNotMix EmptyIsFinal ItemsKept
PROPERTY RoundsEnd
