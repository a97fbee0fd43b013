---------------------------- MODULE TopoBarrier ----------------------------
(* TopoBarrier (src/Barrier.cpp): the barrier every loop uses.  The        *)
(* threads of a package report to its leader, the leaders along a tree of  *)
(* fan-in four; the release goes down a binary tree of packages, and       *)
(* everybody in a package spins on one sense word.                         *)
(*                                                                         *)
(* The words are cut where another thread can look: each read that ends a  *)
(* spin, each store and each fetch-and-sub is one action.                  *)
EXTENDS Integers, FiniteSets

CONSTANTS
    MaxThreads,       \* getMaxThreads
    PackageOf,        \* getPackageForThread
    SenseValues       \* how many values an unsigned has

Threads == 0..(MaxThreads - 1)
Packages == {PackageOf[t] : t \in Threads}

ASSUME ThreadAssumption ==
    /\ MaxThreads \in Nat \ {0} /\ SenseValues \in Nat \ {0, 1}
    /\ PackageOf \in [Threads -> Nat]

(* finalizePackageData numbers a package when it meets its first thread.   *)
ASSUME PackageAssumption ==
    /\ PackageOf[0] = 0
    /\ \A t \in Threads : \A p \in 0..PackageOf[t] : \E u \in 0..t : PackageOf[u] = p

VARIABLES
    active,           \* the P of the last _reinit
    childnotready, havechild, parentsense,    \* of each package
    sense,            \* of each thread
    at,               \* where a thread is in wait
    entered, left     \* history: waits entered and left

nodeVars == <<childnotready, havechild, parentsense>>
barVars == <<active, nodeVars, sense, at, entered, left>>

Leader(t) == \A u \in Threads : PackageOf[u] = PackageOf[t] => t <= u
First(n) == 0..(n - 1)
Used(n) == {PackageOf[t] : t \in First(n)}

ParentNode(p) == (p - 1) \div 4
Arrivals(p, n) == {q \in Used(n) : q # 0 /\ ParentNode(q) = p}
Locals(p, n) == {t \in First(n) : PackageOf[t] = p /\ ~Leader(t)}
HaveChild(p, n) == Cardinality(Arrivals(p, n)) + Cardinality(Locals(p, n))
WakeNodeTooFar(p, i) == 2 * p + 2 + i
WakeNode(p, i) == 2 * p + 1 + i

Reinit(n) ==
    /\ active' = n
    /\ havechild' = [p \in Packages |-> IF p \in Used(n) THEN HaveChild(p, n) ELSE havechild[p]]
    /\ childnotready' =
          [p \in Packages |-> IF p \in Used(n) THEN HaveChild(p, n) ELSE childnotready[p]]
    /\ parentsense' = [p \in Packages |-> IF p \in Used(n) THEN 0 ELSE parentsense[p]]
    /\ sense' = [t \in Threads |-> IF t \in First(n) THEN 1 ELSE sense[t]]

Constructed(n) ==
    /\ active = n
    /\ havechild = [p \in Packages |-> IF p \in Used(n) THEN HaveChild(p, n) ELSE 0]
    /\ childnotready = havechild
    /\ parentsense = [p \in Packages |-> 0]
    /\ sense = [t \in Threads |-> IF t \in First(n) THEN 1 ELSE 0]
    /\ at = [t \in Threads |-> "out"]
    /\ entered = [t \in Threads |-> 0]
    /\ left = [t \in Threads |-> 0]

At(t, label) == at[t] = label
Move(t, label) == at' = [at EXCEPT ![t] = label]
Node(t) == PackageOf[t]

Enter(t) ==
    /\ At(t, "out")
    /\ entered' = [entered EXCEPT ![t] = @ + 1]
    /\ Move(t, IF Leader(t) THEN "gather" ELSE "arrive")
    /\ UNCHANGED <<active, nodeVars, sense, left>>

GatherAtOnce(t) ==
    /\ At(t, "gather")
    /\ Move(t, "reset")
    /\ UNCHANGED <<active, nodeVars, sense, entered, left>>

Gather(t) ==
    /\ At(t, "gather") /\ childnotready[Node(t)] = 0
    /\ Move(t, "reset")
    /\ UNCHANGED <<active, nodeVars, sense, entered, left>>

AfterArrival(t) == IF t = 0 THEN "wakeFirst" ELSE "await"

ResetForgotten(t) ==
    /\ At(t, "reset")
    /\ Move(t, IF Node(t) = 0 THEN AfterArrival(t) ELSE "report")
    /\ UNCHANGED <<active, nodeVars, sense, entered, left>>

Reset(t) ==
    /\ At(t, "reset")
    /\ childnotready' = [childnotready EXCEPT ![Node(t)] = havechild[Node(t)]]
    /\ Move(t, IF Node(t) = 0 THEN AfterArrival(t) ELSE "report")
    /\ UNCHANGED <<active, havechild, parentsense, sense, entered, left>>

CountDown(p) ==
    /\ childnotready' = [childnotready EXCEPT ![p] = @ - 1]
    /\ UNCHANGED <<active, havechild, parentsense, sense, entered, left>>

Report(t) == At(t, "report") /\ CountDown(ParentNode(Node(t))) /\ Move(t, AfterArrival(t))

Arrive(t) == At(t, "arrive") /\ CountDown(Node(t)) /\ Move(t, AfterArrival(t))

SameSense(t) == UNCHANGED sense
NextSense(t) == sense' = [sense EXCEPT ![t] = (@ + 1) % SenseValues]

(* The end of the spin on parentsense; others than leaders are done then.  *)
Released(t) == At(t, "await") /\ parentsense[Node(t)] = sense[t]

LeaderReleased(t) ==
    /\ Released(t) /\ Leader(t)
    /\ Move(t, "wakeFirst")
    /\ UNCHANGED <<active, nodeVars, sense, entered, left>>

OtherReleased(t) ==
    /\ Released(t) /\ ~Leader(t)
    /\ left' = [left EXCEPT ![t] = @ + 1]
    /\ NextSense(t) /\ Move(t, "out")
    /\ UNCHANGED <<active, nodeVars, entered>>

Signal(t, p) ==
    /\ parentsense' = IF p \in Used(active) THEN [parentsense EXCEPT ![p] = sense[t]] ELSE parentsense
    /\ UNCHANGED <<active, childnotready, havechild, entered>>

WakeFirst(t) ==
    /\ At(t, "wakeFirst") /\ Signal(t, WakeNode(Node(t), 0))
    /\ Move(t, "wakeSecond") /\ UNCHANGED <<sense, left>>

WakeSecond(t) ==
    /\ At(t, "wakeSecond") /\ Signal(t, WakeNode(Node(t), 1))
    /\ \/ /\ t = 0 /\ Move(t, "wakeOwn") /\ UNCHANGED <<sense, left>>
       \/ /\ t # 0 /\ Move(t, "out") /\ NextSense(t)
          /\ left' = [left EXCEPT ![t] = @ + 1]

WakeOwn(t) ==
    /\ At(t, "wakeOwn") /\ Signal(t, Node(t))
    /\ left' = [left EXCEPT ![t] = @ + 1]
    /\ NextSense(t) /\ Move(t, "out")

InWait(t) ==
    \/ Gather(t) \/ Reset(t) \/ Report(t) \/ Arrive(t)
    \/ LeaderReleased(t) \/ OtherReleased(t)
    \/ WakeFirst(t) \/ WakeSecond(t) \/ WakeOwn(t)

(* A thread that waits for others in one of the two loops of wait.         *)
Spins(t) ==
    \/ At(t, "gather") /\ childnotready[Node(t)] # 0
    \/ At(t, "await") /\ parentsense[Node(t)] # sense[t]

----------------------------------------------------------------------------
(* Types; a counter never goes below zero or above the arrivals it awaits, *)
(* and a leader in "reset" has none left to wait for (nobody of the next   *)
(* wait can count down what the leader has not yet set up again).          *)
Labels == {"out", "gather", "reset", "report", "arrive", "await",
           "wakeFirst", "wakeSecond", "wakeOwn"}

BarrierTypeOK ==
    /\ active \in 1..MaxThreads
    /\ havechild \in [Packages -> Nat]
    /\ childnotready \in [Packages -> Nat]
    /\ \A p \in Packages : childnotready[p] <= havechild[p]
    /\ parentsense \in [Packages -> 0..(SenseValues - 1)]
    /\ sense \in [Threads -> 0..(SenseValues - 1)]
    /\ at \in [Threads -> Labels]
    /\ entered \in [Threads -> Nat] /\ left \in [Threads -> Nat]
    /\ \A t \in Threads : At(t, "reset") => childnotready[Node(t)] = 0
=============================================================================
