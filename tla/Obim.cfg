SPECIFICATION FairSpec
CONSTANTS
    t1 = t1  t2 = t2
    x1 = x1  x2 = x2  x3 = x3
    Threads = {t1, t2}
    Tasks = {x1, x2, x3}
    IndexOf <- MCIndexOf
    LeaderOf <- OnePackage
    Classes <- MCClasses
    None = None
INVARIANTS MapsFollowLog
PROPERTIES ImplementsWorkList AllDelivered
CHECK_DEADLOCK FALSE
