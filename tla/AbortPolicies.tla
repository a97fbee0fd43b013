--------------------------- MODULE AbortPolicies ---------------------------
(* AbortHandler (Runtime/ParallelWork.h): which thread gets an item that    *)
(* was aborted, so that contended items move to fewer and fewer threads.    *)
EXTENDS Integers

CONSTANTS
    Threads,          \* 0..(activeThreads - 1)
    PackageOf,        \* PackageOf[t]: LL::getPackageForSelf(t)
    MaxPackages       \* LL::getMaxPackages()

\* LL::getLeaderForPackage: the first thread of the package.
LeaderForPackage(package) ==
    CHOOSE t \in Threads : /\ PackageOf[t] = package
                        /\ \A u \in Threads : PackageOf[u] = package => t <= u

\* basicPolicy: up the tree of packages.
BasicPolicy(t) == LeaderForPackage(PackageOf[t] \div 2)

\* doublePolicy: retry locally every other time, otherwise up the tree of
\* the package, and from its leader up the tree of packages.
DoublePolicy(t, retries) ==
    LET leader == LeaderForPackage(PackageOf[t])
    IN  IF (retries - 1) % 2 = 1 THEN t
        ELSE IF t # leader THEN leader + (t - leader) \div 2
        ELSE BasicPolicy(t)

\* AbortHandler::push: the thread that gets an item aborted once more.
QueueFor(t, retries) ==
    IF MaxPackages > 2 THEN BasicPolicy(t) ELSE DoublePolicy(t, retries)
=============================================================================
