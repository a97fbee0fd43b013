-------------------------- MODULE ThreadPoolProofs --------------------------
(* Proofs about TopoBarrier and ThreadPool for any number of threads, any  *)
(* packages, any commands and any number of runs: the tree of the barrier  *)
(* and its sense words, the tree that wakes the threads, and the barrier   *)
(* they use wait after wait as an implementation of the abstract one.      *)
EXTENDS ThreadPool, FiniteSetTheorems, WellFoundedInduction, TLAPS

-----------------------------------------------------------------------------
(* The values of an unsigned.                                              *)

LEMMA Quotient ==
    ASSUME NEW S \in Nat \ {0}, NEW a \in Nat
    PROVE  /\ a \div S \in Nat /\ a % S \in 0..(S - 1)
           /\ a = S * (a \div S) + (a % S)
PROOF OBVIOUS

LEMMA Remainder ==
    ASSUME NEW S \in Nat \ {0}, NEW q \in Nat, NEW r \in 0..(S - 1), NEW a \in Nat, a = S * q + r
    PROVE  a % S = r
PROOF
<1> DEFINE q2 == a \div S
           r2 == a % S
<1>1. q2 \in Nat /\ r2 \in 0..(S - 1) /\ a = S * q2 + r2
  BY Quotient
<1> HIDE DEF q2, r2
<1>2. ASSUME NEW x \in Nat, NEW y \in Nat, x < y
      PROVE  S * x + S <= S * y
  <2>1. PICK d \in Nat : y = x + 1 + d
    <3>1. y - x - 1 \in Nat /\ y = x + 1 + (y - x - 1)
      BY <1>2
    <3> QED BY <3>1
  <2>2. S * y = S * x + S + S * d /\ S * d >= 0 /\ S * x \in Nat
    BY <2>1
  <2> QED BY <2>2
<1>3. ~(q < q2) /\ ~(q2 < q)
  <2>1. S * q \in Nat /\ S * q2 \in Nat
    BY <1>1
  <2>2. q < q2 => S * q + S <= S * q2
    BY <1>1, <1>2
  <2>3. q2 < q => S * q2 + S <= S * q
    BY <1>1, <1>2
  <2> QED BY <1>1, <2>1, <2>2, <2>3
<1>4. q = q2
  BY <1>1, <1>3
<1>5. S * q \in Nat
  OBVIOUS
<1>6. r2 = r
  BY <1>1, <1>4, <1>5
<1> QED BY <1>6 DEF r2

LEMMA NextValue ==
    ASSUME NEW S \in Nat \ {0, 1}, NEW a \in Nat
    PROVE  /\ a % S \in 0..(S - 1)
           /\ ((a % S) + 1) % S = (a + 1) % S
           /\ a % S # (a + 1) % S
PROOF
<1> DEFINE q == a \div S
           r == a % S
<1>1. q \in Nat /\ r \in 0..(S - 1) /\ a = S * q + r
  BY Quotient
<1> HIDE DEF q, r
<1>2. CASE r + 1 < S
  <2>1. a + 1 = S * q + (r + 1) /\ r + 1 \in 0..(S - 1) /\ r + 1 = S * 0 + (r + 1)
    BY <1>1, <1>2
  <2>2. (a + 1) % S = r + 1 /\ (r + 1) % S = r + 1
    BY <1>1, <2>1, Remainder
  <2> QED BY <1>1, <2>2 DEF r
<1>3. CASE r + 1 = S
  <2>1. a + 1 = S * (q + 1) + 0 /\ r + 1 = S * 1 + 0 /\ 0 \in 0..(S - 1) /\ q + 1 \in Nat
    BY <1>1, <1>3
  <2>2. (a + 1) % S = 0 /\ (r + 1) % S = 0
    BY <1>1, <2>1, Remainder
  <2> QED BY <1>1, <1>3, <2>2 DEF r
<1> QED BY <1>1, <1>2, <1>3
-----------------------------------------------------------------------------
(* Packages and their leaders.                                             *)

LEMMA LeaderExists ==
    ASSUME NEW t \in Threads
    PROVE  \E u \in Threads : Leader(u) /\ Node(u) = Node(t) /\ u <= t
PROOF
<1> DEFINE Members == {u \in Threads : PackageOf[u] = PackageOf[t]}
           R == OpToRel(<, Nat)
<1>1. Members \subseteq Nat /\ t \in Members
  BY ThreadAssumption DEF Threads
<1>2. PICK v \in Members : \A u \in Members : ~(<<u, v>> \in R)
  <2> HIDE DEF Members
  <2> QED BY <1>1, NatLessThanWellFounded, WFMin
<1>3. \A u \in Members : v <= u
  <2> SUFFICES ASSUME NEW u \in Members PROVE v <= u
    OBVIOUS
  <2>1. ~(<<u, v>> \in R)
    BY <1>2
  <2>2. u \in Nat /\ v \in Nat
    BY <1>1
  <2> QED BY <2>1, <2>2 DEF OpToRel
<1> QED BY <1>1, <1>3 DEF Leader, Node

LEMMA LeaderUnique ==
    ASSUME NEW t \in Threads, NEW u \in Threads, Leader(t), Leader(u), Node(t) = Node(u)
    PROVE  t = u
PROOF BY DEF Leader, Node, Threads

LEMMA ZeroLeads ==
    /\ 0 \in Threads /\ Node(0) = 0 /\ Leader(0)
    /\ \A t \in Threads : Leader(t) /\ Node(t) = 0 => t = 0
PROOF
<1>1. 0 \in Threads /\ Node(0) = 0 /\ Leader(0)
  BY ThreadAssumption, PackageAssumption DEF Threads, Leader, Node
<1> QED BY <1>1, LeaderUnique

LEMMA NodeTypes ==
    ASSUME NEW t \in Threads
    PROVE  Node(t) \in Nat /\ Node(t) \in Packages /\ t \in Nat
PROOF BY ThreadAssumption DEF Node, Packages, Threads

\* Packages are numbered from zero on, whatever the number of threads.
LEMMA UsedDown ==
    ASSUME NEW n \in 1..MaxThreads, NEW t \in First(n), NEW q \in Nat, q <= Node(t)
    PROVE  \E u \in First(n) : Leader(u) /\ Node(u) = q
PROOF
<1>1. t \in Threads /\ First(n) \subseteq Threads
  BY ThreadAssumption DEF First, Threads
<1>2. PICK v \in 0..t : PackageOf[v] = q
  BY <1>1, NodeTypes, PackageAssumption DEF Node
<1>3. v \in Threads /\ v <= t
  BY <1>1, <1>2, ThreadAssumption DEF Threads
<1>4. PICK u \in Threads : Leader(u) /\ Node(u) = Node(v) /\ u <= v
  BY <1>3, LeaderExists
<1>5. u \in First(n)
  BY <1>1, <1>3, <1>4, ThreadAssumption DEF First, Threads
<1> QED BY <1>2, <1>4, <1>5 DEF Node

LEMMA GatherParent ==
    ASSUME NEW n \in 1..MaxThreads, NEW u \in First(n), Node(u) # 0
    PROVE  /\ ParentNode(Node(u)) \in Nat /\ ParentNode(Node(u)) < Node(u)
           /\ \E t \in First(n) : Leader(t) /\ Node(t) = ParentNode(Node(u))
PROOF
<1>1. Node(u) \in Nat \ {0}
  BY NodeTypes, ThreadAssumption DEF First, Threads
<1>2. ParentNode(Node(u)) \in Nat /\ ParentNode(Node(u)) < Node(u)
  BY <1>1 DEF ParentNode
<1> QED BY <1>1, <1>2, UsedDown

LEMMA WakeParent ==
    ASSUME NEW n \in 1..MaxThreads, NEW u \in First(n), Node(u) # 0
    PROVE  \E t \in First(n), i \in {0, 1} : Leader(t) /\ Node(u) = WakeNode(Node(t), i)
PROOF
<1>1. Node(u) \in Nat \ {0}
  BY NodeTypes, ThreadAssumption DEF First, Threads
<1> DEFINE q == (Node(u) - 1) \div 2
<1>2. q \in Nat /\ q < Node(u) /\ (Node(u) = 2 * q + 1 + 0 \/ Node(u) = 2 * q + 1 + 1)
  BY <1>1
<1>3. PICK t \in First(n) : Leader(t) /\ Node(t) = q
  BY <1>1, <1>2, UsedDown
<1> QED BY <1>2, <1>3 DEF WakeNode

LEMMA WakeUnique ==
    ASSUME NEW p \in Nat, NEW q \in Nat, NEW i \in {0, 1}, NEW j \in {0, 1}
    PROVE  /\ WakeNode(p, i) = WakeNode(q, j) => p = q /\ i = j
           /\ WakeNode(p, i) # 0
PROOF BY DEF WakeNode

LEMMA PackageSets ==
    ASSUME NEW n \in 1..MaxThreads, NEW p
    PROVE  /\ IsFiniteSet(Arrivals(p, n)) /\ IsFiniteSet(Locals(p, n))
           /\ Cardinality(Arrivals(p, n)) \in Nat /\ Cardinality(Locals(p, n)) \in Nat
PROOF
<1>1. IsFiniteSet(First(n))
  BY FS_Interval, ThreadAssumption DEF First
<1>2. IsFiniteSet(Used(n))
  <2>1. [t \in First(n) |-> PackageOf[t]] \in Surjection(First(n), Used(n))
    BY DEF Surjection, Used
  <2> QED BY <1>1, <2>1, FS_Surjection
<1>3. Arrivals(p, n) \subseteq Used(n) /\ Locals(p, n) \subseteq First(n)
  BY DEF Arrivals, Locals
<1>4. IsFiniteSet(Arrivals(p, n)) /\ IsFiniteSet(Locals(p, n))
  BY <1>1, <1>2, <1>3, FS_Subset
<1> QED BY <1>4, FS_CardinalityType

-----------------------------------------------------------------------------
(* The barrier.                                                            *)

Active == First(active)

\* How many waits a thread has gathered its children for, and reported.
Gathered(t) == IF at[t] \in {"gather", "reset"} THEN entered[t] - 1 ELSE entered[t]
Arrived(t) ==
    IF at[t] \in {"gather", "reset", "report", "arrive"} THEN entered[t] - 1 ELSE entered[t]
\* The waits that everybody has arrived at.
Round == Gathered(0)

\* The releases of a package that a leader has signalled, and those a thread saw.
Woke(t, i) ==
    IF at[t] = "wakeOwn" \/ (at[t] = "wakeSecond" /\ i = 0) THEN left[t] + 1 ELSE left[t]
Saw(t) == IF at[t] \in {"wakeFirst", "wakeSecond", "wakeOwn"} THEN left[t] + 1 ELSE left[t]

\* The packages and threads below the leader t that are still to arrive.
PendingNodes(t) ==
    {q \in Arrivals(Node(t), active) :
        \E u \in Active : Leader(u) /\ Node(u) = q /\ Arrived(u) = Gathered(t)}
PendingLocals(t) == {u \in Locals(Node(t), active) : Arrived(u) = Gathered(t)}

Below(t) ==
    {u \in Active : \/ ~Leader(u) /\ Node(u) = Node(t)
                    \/ Leader(u) /\ Node(u) # 0 /\ ParentNode(Node(u)) = Node(t)}

BarrierTypes ==
    /\ active \in 1..MaxThreads
    /\ havechild \in [Packages -> Nat] /\ childnotready \in [Packages -> Nat]
    /\ parentsense \in [Packages -> 0..(SenseValues - 1)]
    /\ sense \in [Threads -> 0..(SenseValues - 1)]
    /\ at \in [Threads -> Labels]
    /\ entered \in [Threads -> Nat] /\ left \in [Threads -> Nat]
    /\ \A p \in Packages \ Used(active) : childnotready[p] <= havechild[p]

\* Where a thread can be, and that only active threads are in wait.
LabelsInv ==
    \A t \in Threads :
        /\ at[t] = "out" => entered[t] = left[t]
        /\ at[t] # "out" => t < active /\ entered[t] = left[t] + 1
        /\ Leader(t) => at[t] # "arrive"
        /\ ~Leader(t) => at[t] \in {"out", "arrive", "await"}
        /\ t = 0 => at[t] \notin {"report", "await"}
        /\ t # 0 => at[t] # "wakeOwn"

\* Nobody is more than one wait ahead of the round or behind it.
RoundInv ==
    \A t \in Active :
        /\ sense[t] = (left[t] + 1) % SenseValues
        /\ left[t] <= Round /\ Round <= Arrived(t)
        /\ at[t] \in {"wakeFirst", "wakeSecond", "wakeOwn"} => entered[t] = Round

\* The counter of a package is that of the children its leader still waits for.
TreeInv ==
    \A t \in Active : Leader(t) =>
        /\ havechild[Node(t)] = HaveChild(Node(t), active)
        /\ childnotready[Node(t)] = Cardinality(PendingNodes(t)) + Cardinality(PendingLocals(t))
        /\ \A u \in Below(t) : Gathered(t) <= Arrived(u)
        /\ at[t] = "reset" => childnotready[Node(t)] = 0

\* The word of a package tells the last release; nobody is ahead of it.
ReleaseInv ==
    /\ \A t, u \in Active, i \in {0, 1} : Leader(t) /\ Node(u) = WakeNode(Node(t), i) =>
          /\ parentsense[Node(u)] = Woke(t, i) % SenseValues
          /\ Saw(u) <= Woke(t, i)
    /\ \A u \in Active : Node(u) = 0 =>
          /\ parentsense[0] = left[0] % SenseValues
          /\ left[u] <= left[0]

BarrierInv == BarrierTypes /\ LabelsInv /\ RoundInv /\ TreeInv /\ ReleaseInv


-----------------------------------------------------------------------------
(* The pool, when all loops use one number of threads.                     *)
(* getSystemBarrier reinitializes the barrier when the number changes,     *)
(* and threads may still be in its last wait.                              *)
OneCount == \E n : Counts = {n}

\* How many commands of a kind an array has before an index.
Count(kind, i) == Cardinality({j \in DOMAIN Commands : j < i /\ Commands[j] = kind})
Total(kind) == Count(kind, Len(Commands) + 1)
\* The commands of a kind before a RunCommand pointer, in all runs.
Passed(kind, ptr) ==
    IF ptr = Null THEN 0 ELSE (ptr.run - 1) * Total(kind) + Count(kind, ptr.index)

Pointers == {Null} \cup [run : Nat \ {0}, index : 1..(Len(Commands) + 1)]

Places == {"client", "barrier", "run", "clean", "release", "join", "exit", "launch", "acquire",
           "cascade", "begin", "end", "command", "wait"}

PoolTypes ==
    /\ starts \in [Threads -> Nat] /\ shutdown \in BOOLEAN
    /\ activeThreads \in 1..MaxThreads /\ starting \in 0..MaxThreads
    /\ workBegin \in Pointers /\ workEnd \in Pointers
    /\ pc \in [Threads -> Places] /\ runs \in Nat
    /\ workPtr \in [Threads -> Pointers] /\ workEndL \in [Threads -> Pointers]
    /\ called \in [Threads -> Nat] /\ due \in [Threads -> Nat]

\* The main thread is in its own part of a run.
Working == pc[0] \in {"cascade", "begin", "end", "command", "wait"}

MainInv ==
    /\ pc[0] \notin {"launch", "acquire"}
    /\ shutdown <=> pc[0] \in {"release", "join", "exit"}
    /\ runs > 0 \/ pc[0] \in {"barrier", "run"} => activeThreads \in Counts
    /\ runs > 0 \/ pc[0] = "run" => active \in Counts
    /\ Working => /\ runs > 0 /\ starting = activeThreads
                  /\ workBegin = Begin(runs) /\ workEnd = End(runs)
    /\ runs = 0 => \A t \in Threads : entered[t] = 0 /\ left[t] = 0 /\ at[t] = "out"
    /\ \A t \in Threads : due[t] = IF t \in LoopThreads THEN runs * Calls ELSE 0

\* A thread that has not begun the current run, and one that has woken others for it.
Old(t) == workPtr[t].run # runs /\ pc[t] \notin {"cascade", "begin"}
Cascaded(t) == ~Old(t) /\ pc[t] # "cascade"

\* A thread that is through the commands it last worked on, or waits for the last time.
Finished(t) ==
    \/ workPtr[t] = Null
    \/ workPtr[t].index = Len(Commands) + 1
    \/ workPtr[t].index = Len(Commands) /\ pc[t] = "wait"

\* Where a thread of the loops is, and what it has done.
Place(t) ==
    /\ t # 0 => pc[t] \in {"launch", "acquire", "cascade", "begin", "end", "command", "wait"}
    /\ called[t] = Passed("call", workPtr[t])
    /\ left[t] = Passed("wait", workPtr[t])
    /\ pc[t] = "wait" <=> at[t] # "out"
    /\ pc[t] = "wait" => /\ workPtr[t].index \in DOMAIN Commands
                         /\ Commands[workPtr[t].index] = "wait"
    /\ workPtr[t].run \in {runs, runs - 1}
    /\ pc[t] \in {"end", "command", "wait"} => workPtr[t] # Null
    /\ pc[t] \in {"command", "wait"} => workEndL[t] = End(workPtr[t].run)
    /\ pc[t] \in {"cascade", "begin"} => workPtr[t].run # runs /\ Working
    /\ pc[t] = "end" => workPtr[t] = Begin(runs) /\ Working
    /\ Old(t) \/ pc[t] \notin {"end", "command", "wait"} => Finished(t)
    /\ Working \/ (workPtr[t].run = runs /\ Finished(t))

\* The others never leave the loop of launch.
Aside(t) ==
    /\ pc[t] \in {"launch", "acquire"} /\ starts[t] = 0
    /\ workPtr[t] = Null /\ called[t] = 0 /\ at[t] = "out"

PlaceInv == /\ \A t \in LoopThreads : Place(t)
            /\ \A t \in Threads \ LoopThreads : Aside(t)

\* The tree that wakes the threads of a run: one post each, by the parent.
WakeInv ==
    /\ starts[0] = 0 /\ ~Old(0)
    /\ \A t, u \in LoopThreads : u = 2 * t + 1 \/ u = 2 * t + 2 =>
          /\ starts[u] = IF Old(u) /\ Cascaded(t) THEN 1 ELSE 0
          /\ ~Old(u) => Cascaded(t)

\* After shutdown, the only commands left are the last waits.
EndPlace(t) ==
    /\ called[t] = due[t]
    /\ pc[t] = "wait" <=> at[t] # "out"
    /\ pc[t] = "wait" => /\ runs > 0 /\ workEndL[t] = End(runs)
                         /\ workPtr[t] = [run |-> runs, index |-> Len(Commands)]
    /\ pc[t] = "command" => workPtr[t] = workEndL[t]
    /\ pc[t] = "end" => workPtr[t] = Null

EndInv ==
    /\ workBegin = Null /\ workEnd = Null
    /\ \A t \in Threads : EndPlace(t)

PoolInv ==
    /\ PoolTypes /\ MainInv
    /\ ~shutdown => PlaceInv /\ WakeInv
    /\ shutdown => EndInv

IInv == BarrierInv /\ PoolInv
-----------------------------------------------------------------------------
(* What the invariant of the barrier says of one thread.                   *)

LEMMA BarrierFacts ==
    ASSUME BarrierInv
    PROVE  /\ active \in 1..MaxThreads /\ Active \subseteq Threads /\ 0 \in Active
           /\ \A u \in Threads : u \in Nat /\ entered[u] \in Nat /\ left[u] \in Nat
           /\ \A u \in Threads : Arrived(u) \in Nat /\ Gathered(u) \in Nat
           /\ Round \in Nat
           /\ \A u \in Threads : at[u] # "out" => u \in Active
PROOF
<1>1. active \in 1..MaxThreads /\ Active \subseteq Threads /\ 0 \in Active
  BY ThreadAssumption DEF BarrierInv, BarrierTypes, Active, First, Threads
<1>2. \A u \in Threads : u \in Nat /\ entered[u] \in Nat /\ left[u] \in Nat
  BY ThreadAssumption DEF BarrierInv, BarrierTypes, Threads
<1>3. \A u \in Threads : Arrived(u) \in Nat /\ Gathered(u) \in Nat
  BY <1>2 DEF BarrierInv, LabelsInv, Arrived, Gathered
<1>4. \A u \in Threads : at[u] # "out" => u \in Active
  BY <1>1, <1>2 DEF BarrierInv, LabelsInv, Active, First
<1> QED BY <1>1, <1>2, <1>3, <1>4 DEF Round

LEMMA BarrierArguments ==
    ASSUME BarrierInv, NEW t \in Active
    PROVE  /\ Node(t) \in Nat /\ Node(t) \in Packages
           /\ parentsense[Node(t)] \in Nat
           /\ at[t] = "out" <=> entered[t] = left[t]
           /\ left[t] <= Round /\ Round <= Arrived(t) /\ Arrived(t) <= entered[t]
           /\ entered[t] <= left[t] + 1
           /\ Woke(t, 0) <= Round /\ Woke(t, 1) <= Round
           /\ left[t] <= Woke(t, 0) /\ left[t] <= Woke(t, 1)
PROOF
<1>1. t \in Threads /\ Node(t) \in Nat /\ Node(t) \in Packages
  BY BarrierFacts, NodeTypes
<1>2. entered[t] \in Nat /\ left[t] \in Nat /\ Round \in Nat /\ Arrived(t) \in Nat
  BY <1>1, BarrierFacts
<1>3. at[t] = "out" => entered[t] = left[t]
  BY <1>1 DEF BarrierInv, LabelsInv
<1>4. at[t] # "out" => entered[t] = left[t] + 1
  BY <1>1 DEF BarrierInv, LabelsInv
<1>5. left[t] <= Round /\ Round <= Arrived(t)
  BY DEF BarrierInv, RoundInv
<1>6. at[t] \in {"wakeFirst", "wakeSecond", "wakeOwn"} => entered[t] = Round
  BY DEF BarrierInv, RoundInv
<1>7. Arrived(t) <= entered[t]
  BY <1>2 DEF Arrived
<1>8. Woke(t, 0) <= Round /\ Woke(t, 1) <= Round
  BY <1>2, <1>4, <1>5, <1>6 DEF Woke
<1>9. left[t] <= Woke(t, 0) /\ left[t] <= Woke(t, 1)
  BY <1>2 DEF Woke
<1>10. parentsense[Node(t)] \in Nat
  BY <1>1, ThreadAssumption DEF BarrierInv, BarrierTypes
<1> QED BY <1>1, <1>2, <1>3, <1>4, <1>5, <1>7, <1>8, <1>9, <1>10

\* What else a thread is to others stays as long as these do.
LEMMA SameViews ==
    ASSUME NEW u, at'[u] = at[u], entered'[u] = entered[u], left'[u] = left[u]
    PROVE  /\ Arrived(u)' = Arrived(u) /\ Gathered(u)' = Gathered(u)
           /\ Saw(u)' = Saw(u) /\ Woke(u, 0)' = Woke(u, 0) /\ Woke(u, 1)' = Woke(u, 1)
PROOF BY DEF Arrived, Gathered, Saw, Woke

LEMMA SameTree ==
    ASSUME TreeInv, UNCHANGED <<active, havechild, childnotready>>,
           \A u \in Active : Arrived(u)' = Arrived(u),
           \A u \in Active : Leader(u) => Gathered(u)' = Gathered(u),
           \A u \in Active : Leader(u) /\ at'[u] = "reset" => childnotready[Node(u)] = 0
    PROVE  TreeInv'
PROOF
<1>1. Active' = Active
  BY DEF Active
<1>2. ASSUME NEW t \in Active, Leader(t)
      PROVE  /\ PendingNodes(t)' = PendingNodes(t)
             /\ PendingLocals(t)' = PendingLocals(t)
             /\ Below(t)' = Below(t)
  <2>1. PendingNodes(t)' = PendingNodes(t)
    BY <1>1, <1>2 DEF PendingNodes
  <2>2. Locals(Node(t), active) \subseteq Active
    BY DEF Locals, Active
  <2>3. PendingLocals(t)' = PendingLocals(t)
    BY <1>2, <2>2 DEF PendingLocals
  <2>4. Below(t)' = Below(t)
    BY <1>1 DEF Below
  <2> QED BY <2>1, <2>3, <2>4
<1>3. \A t \in Active : Below(t) \subseteq Active
  BY DEF Below
<1> QED BY <1>1, <1>2, <1>3 DEF TreeInv

LEMMA SameRelease ==
    ASSUME ReleaseInv, UNCHANGED <<active, parentsense, left>>,
           \A u \in Active : Woke(u, 0)' = Woke(u, 0) /\ Woke(u, 1)' = Woke(u, 1),
           \A u \in Active : Saw(u)' = Saw(u)
    PROVE  ReleaseInv'
PROOF
<1>1. Active' = Active
  BY DEF Active
<1>2. \A t \in Active, i \in {0, 1} : Woke(t, i)' = Woke(t, i)
  OBVIOUS
<1> QED BY <1>1, <1>2 DEF ReleaseInv

-----------------------------------------------------------------------------
(* The steps of the barrier that count nothing.                            *)

LEMMA EnterStep ==
    ASSUME BarrierInv, NEW t \in Active, Enter(t)
    PROVE  BarrierInv'
PROOF
<1>0. t \in Threads /\ Active \subseteq Threads
  BY BarrierFacts
<1>1. /\ at[t] = "out" /\ at'[t] = IF Leader(t) THEN "gather" ELSE "arrive"
      /\ entered'[t] = entered[t] + 1
      /\ \A u \in Threads \ {t} : at'[u] = at[u] /\ entered'[u] = entered[u]
      /\ UNCHANGED <<active, nodeVars, sense, left>>
  BY <1>0 DEF Enter, At, Move, BarrierInv, BarrierTypes
<1>2. BarrierTypes'
  BY <1>0, <1>1 DEF BarrierInv, BarrierTypes, nodeVars, Enter, Move, Labels
<1>3. LabelsInv'
  BY <1>0, <1>1, BarrierFacts DEF BarrierInv, LabelsInv, Active, First
<1>4. \A u \in Active : /\ Arrived(u)' = Arrived(u) /\ Saw(u)' = Saw(u)
                        /\ Woke(u, 0)' = Woke(u, 0) /\ Woke(u, 1)' = Woke(u, 1)
                        /\ Leader(u) => Gathered(u)' = Gathered(u)
  <2>1. \A u \in Active \ {t} : /\ Arrived(u)' = Arrived(u) /\ Saw(u)' = Saw(u)
                                /\ Woke(u, 0)' = Woke(u, 0) /\ Woke(u, 1)' = Woke(u, 1)
                                /\ Gathered(u)' = Gathered(u)
    BY <1>0, <1>1, SameViews
  <2>2. /\ Arrived(t)' = Arrived(t) /\ Saw(t)' = Saw(t)
        /\ Woke(t, 0)' = Woke(t, 0) /\ Woke(t, 1)' = Woke(t, 1)
        /\ Leader(t) => Gathered(t)' = Gathered(t)
    BY <1>0, <1>1, BarrierFacts DEF Arrived, Saw, Woke, Gathered
  <2> QED BY <2>1, <2>2
<1>5. Round' = Round
  BY <1>4, BarrierFacts, ZeroLeads DEF Round
<1>6. RoundInv'
  BY <1>0, <1>1, <1>4, <1>5 DEF BarrierInv, RoundInv, Active
<1>7. TreeInv'
  BY <1>0, <1>1, <1>4, SameTree DEF BarrierInv, TreeInv, nodeVars
<1>8. ReleaseInv'
  BY <1>1, <1>4, SameRelease DEF BarrierInv, nodeVars
<1> QED BY <1>2, <1>3, <1>6, <1>7, <1>8 DEF BarrierInv

LEMMA GatherStep ==
    ASSUME BarrierInv, NEW t \in Threads, Gather(t)
    PROVE  BarrierInv'
PROOF
<1>0. t \in Active /\ Active \subseteq Threads
  BY BarrierFacts DEF Gather, At
<1>1. /\ at[t] = "gather" /\ at'[t] = "reset" /\ childnotready[Node(t)] = 0
      /\ \A u \in Threads \ {t} : at'[u] = at[u]
      /\ UNCHANGED <<active, nodeVars, sense, entered, left>>
  BY <1>0 DEF Gather, At, Move, BarrierInv, BarrierTypes
<1>2. BarrierTypes'
  BY <1>0, <1>1 DEF BarrierInv, BarrierTypes, nodeVars, Gather, Move, Labels
<1>3. LabelsInv'
  BY <1>0, <1>1, BarrierFacts DEF BarrierInv, LabelsInv, Active, First
<1>4. \A u \in Active : /\ Arrived(u)' = Arrived(u) /\ Saw(u)' = Saw(u)
                        /\ Woke(u, 0)' = Woke(u, 0) /\ Woke(u, 1)' = Woke(u, 1)
                        /\ Gathered(u)' = Gathered(u)
  <2>1. \A u \in Active \ {t} : /\ Arrived(u)' = Arrived(u) /\ Saw(u)' = Saw(u)
                                /\ Woke(u, 0)' = Woke(u, 0) /\ Woke(u, 1)' = Woke(u, 1)
                                /\ Gathered(u)' = Gathered(u)
    BY <1>0, <1>1, SameViews
  <2>2. /\ Arrived(t)' = Arrived(t) /\ Saw(t)' = Saw(t)
        /\ Woke(t, 0)' = Woke(t, 0) /\ Woke(t, 1)' = Woke(t, 1)
        /\ Gathered(t)' = Gathered(t)
    BY <1>0, <1>1 DEF Arrived, Saw, Woke, Gathered
  <2> QED BY <2>1, <2>2
<1>5. Round' = Round
  BY <1>4, BarrierFacts DEF Round
<1>6. RoundInv'
  BY <1>0, <1>1, <1>4, <1>5 DEF BarrierInv, RoundInv, Active
<1>7. TreeInv'
  BY <1>0, <1>1, <1>4, SameTree DEF BarrierInv, TreeInv, nodeVars
<1>8. ReleaseInv'
  BY <1>1, <1>4, SameRelease DEF BarrierInv, nodeVars
<1> QED BY <1>2, <1>3, <1>6, <1>7, <1>8 DEF BarrierInv

-----------------------------------------------------------------------------
(* The tree of arrivals.                                                   *)

LEMMA PendingSets ==
    ASSUME BarrierInv, NEW t
    PROVE  /\ IsFiniteSet(PendingNodes(t)) /\ IsFiniteSet(PendingLocals(t))
           /\ Cardinality(PendingNodes(t)) \in Nat /\ Cardinality(PendingLocals(t)) \in Nat
           /\ Cardinality(PendingNodes(t)) = 0 <=> PendingNodes(t) = {}
           /\ Cardinality(PendingLocals(t)) = 0 <=> PendingLocals(t) = {}
           /\ Cardinality(PendingNodes(t)) <= Cardinality(Arrivals(Node(t), active))
           /\ Cardinality(PendingLocals(t)) <= Cardinality(Locals(Node(t), active))
PROOF
<1>1. /\ IsFiniteSet(Arrivals(Node(t), active)) /\ IsFiniteSet(Locals(Node(t), active))
      /\ PendingNodes(t) \subseteq Arrivals(Node(t), active)
      /\ PendingLocals(t) \subseteq Locals(Node(t), active)
  BY PackageSets DEF BarrierInv, BarrierTypes, PendingNodes, PendingLocals
<1>2. IsFiniteSet(PendingNodes(t)) /\ IsFiniteSet(PendingLocals(t))
  BY <1>1, FS_Subset
<1> QED BY <1>1, <1>2, FS_Subset, FS_CardinalityType, FS_EmptySet

\* The children of a leader are those below it.
LEMMA ChildrenBelow ==
    ASSUME BarrierInv, NEW t \in Active, Leader(t)
    PROVE  /\ \A u \in Below(t) : u \in Active /\ u # 0
           /\ \A u \in Active : ~Leader(u) => (u \in Locals(Node(t), active) <=> u \in Below(t))
           /\ \A u \in Active : Leader(u) => (Node(u) \in Arrivals(Node(t), active) <=> u \in Below(t))
           /\ \A u \in Locals(Node(t), active) : u \in Active /\ ~Leader(u)
           /\ \A q \in Arrivals(Node(t), active) : \E u \in Active : Leader(u) /\ Node(u) = q
PROOF
<1>1. /\ active \in 1..MaxThreads /\ Active \subseteq Threads
  BY BarrierFacts
<1>2. \A u \in Below(t) : u \in Active /\ u # 0
  BY ZeroLeads DEF Below
<1>3. \A u \in Active : ~Leader(u) => (u \in Locals(Node(t), active) <=> u \in Below(t))
  BY DEF Locals, Below, Node, Active
<1>4. \A u \in Active : Leader(u) => (Node(u) \in Arrivals(Node(t), active) <=> u \in Below(t))
  BY DEF Arrivals, Below, Node, Active, Used
<1>5. \A u \in Locals(Node(t), active) : u \in Active /\ ~Leader(u)
  BY DEF Locals, Active
<1>6. ASSUME NEW q \in Arrivals(Node(t), active)
      PROVE  \E u \in Active : Leader(u) /\ Node(u) = q
  <2>1. PICK v \in First(active) : Node(v) = q
    BY DEF Arrivals, Used, Node
  <2>2. v \in Threads /\ Node(v) \in Nat
    BY <1>1, NodeTypes DEF Active
  <2> QED BY <1>1, <2>1, <2>2, UsedDown DEF Active
<1> QED BY <1>2, <1>3, <1>4, <1>5, <1>6

\* A child that is still to arrive is counted.
LEMMA PendingCounts ==
    ASSUME BarrierInv, NEW t \in Active, Leader(t), NEW u \in Below(t),
           Arrived(u) = Gathered(t)
    PROVE  childnotready[Node(t)] # 0
PROOF
<1>1. childnotready[Node(t)] = Cardinality(PendingNodes(t)) + Cardinality(PendingLocals(t))
  BY DEF BarrierInv, TreeInv
<1>2. u \in Active /\ (Leader(u) => Node(u) \in PendingNodes(t)) /\ (~Leader(u) => u \in PendingLocals(t))
  BY ChildrenBelow DEF PendingNodes, PendingLocals
<1>3. /\ Cardinality(PendingNodes(t)) \in Nat /\ Cardinality(PendingLocals(t)) \in Nat
      /\ Cardinality(PendingNodes(t)) # 0 \/ Cardinality(PendingLocals(t)) # 0
  BY <1>2, PendingSets
<1> QED BY <1>1, <1>3

\* When the counter of the root is zero, everybody has arrived.
LEMMA TreeComplete ==
    ASSUME BarrierInv, childnotready[0] = 0, NEW u \in Active, u # 0
    PROVE  Round + 1 <= Arrived(u)
PROOF
<1> DEFINE LateNodes == {p \in Nat : \E v \in Active : /\ Leader(v) /\ Node(v) = p /\ v # 0
                                                       /\ Arrived(v) = Round}
<1>1. /\ active \in 1..MaxThreads /\ Active \subseteq Threads /\ Active = First(active)
      /\ 0 \in Active /\ Node(0) = 0 /\ Leader(0)
      /\ Round \in Nat /\ \A v \in Active : Arrived(v) \in Nat /\ Gathered(v) \in Nat
      /\ \A v \in Active : Arrived(v) <= Gathered(v) /\ Round <= Arrived(v)
  <2>1. \A v \in Active : Arrived(v) <= Gathered(v)
    BY BarrierFacts DEF Arrived, Gathered
  <2> QED BY <2>1, BarrierFacts, ZeroLeads DEF Active, BarrierInv, RoundInv
<1>2. ASSUME NEW t \in Active, Leader(t), NEW v \in Below(t), Arrived(v) = Round
      PROVE  Node(t) \in LateNodes
  <2>1. v \in Active /\ Gathered(t) <= Arrived(v)
    BY <1>2 DEF Below, BarrierInv, TreeInv
  <2>2. CASE t = 0
    <3>1. Arrived(v) = Gathered(0)
      BY <1>2 DEF Round
    <3> QED BY <1>1, <1>2, <2>2, <3>1, PendingCounts
  <2>3. CASE t # 0
    <3>1. Arrived(t) = Round
      BY <1>1, <1>2, <2>1
    <3> QED BY <1>1, <1>2, <2>3, <3>1, NodeTypes
  <2> QED BY <2>2, <2>3
<1>3. LateNodes = {}
  <2> SUFFICES ASSUME LateNodes # {} PROVE FALSE
    OBVIOUS
  <2> DEFINE R == OpToRel(<, Nat)
  <2>1. PICK p \in LateNodes : \A q \in LateNodes : ~(<<q, p>> \in R)
    <3>1. LateNodes \subseteq Nat
      OBVIOUS
    <3> HIDE DEF LateNodes
    <3> QED BY <3>1, NatLessThanWellFounded, WFMin
  <2>2. PICK v \in Active : Leader(v) /\ Node(v) = p /\ v # 0 /\ Arrived(v) = Round
    OBVIOUS
  <2>3. Node(v) # 0
    BY <1>1, <2>2, ZeroLeads
  <2>4. PICK t \in Active : Leader(t) /\ Node(t) = ParentNode(Node(v))
    BY <1>1, <2>3, GatherParent
  <2>5. Node(t) < Node(v) /\ Node(t) \in Nat /\ Node(v) \in Nat
    BY <1>1, <2>3, <2>4, GatherParent, NodeTypes
  <2>6. v \in Below(t)
    BY <2>2, <2>3, <2>4 DEF Below
  <2>7. Node(t) \in LateNodes
    BY <1>2, <2>2, <2>4, <2>6
  <2> QED BY <2>1, <2>2, <2>5, <2>7 DEF OpToRel
<1>4. Arrived(u) # Round
  <2> SUFFICES ASSUME Arrived(u) = Round PROVE FALSE
    OBVIOUS
  <2>1. CASE Leader(u)
    BY <1>1, <1>3, <2>1, NodeTypes
  <2>2. CASE ~Leader(u)
    <3>1. PICK t \in Active : Leader(t) /\ Node(t) = Node(u)
      BY <1>1, UsedDown, NodeTypes
    <3>2. u \in Below(t)
      BY <2>2, <3>1 DEF Below
    <3> QED BY <1>2, <1>3, <3>1, <3>2
  <2> QED BY <2>1, <2>2
<1> QED BY <1>1, <1>4

\* What a reset does to the counter of the leader itself, and to the others.
LEMMA ResetTree ==
    ASSUME BarrierInv, NEW t \in Active, Leader(t), at[t] = "reset",
           UNCHANGED <<active, havechild>>,
           childnotready' = [childnotready EXCEPT ![Node(t)] = havechild[Node(t)]],
           at'[t] # "reset",
           Gathered(t)' = Gathered(t) + 1,
           \A u \in Active \ {t} : at'[u] = at[u] /\ Arrived(u)' = Arrived(u) /\ Gathered(u)' = Gathered(u),
           t # 0 => Arrived(t)' = Arrived(t)
    PROVE  TreeInv'
PROOF
<1>1. Active' = Active /\ t \in Threads /\ Active \subseteq Threads
  BY BarrierFacts DEF Active
<1>2. \A u \in Active : u # 0 => Arrived(u)' = Arrived(u)
  OBVIOUS
<1>3. \A v \in Active : Below(v)' = Below(v)
  BY <1>1 DEF Below
<1>4. ASSUME NEW v \in Active, Leader(v), v # t
      PROVE  /\ havechild'[Node(v)] = HaveChild(Node(v), active')
             /\ childnotready'[Node(v)] = Cardinality(PendingNodes(v)') + Cardinality(PendingLocals(v)')
             /\ \A u \in Below(v)' : Gathered(v)' <= Arrived(u)'
             /\ at'[v] = "reset" => childnotready'[Node(v)] = 0
  <2>1. Node(v) # Node(t)
    BY <1>1, <1>4, LeaderUnique
  <2>2. childnotready'[Node(v)] = childnotready[Node(v)]
    BY <1>1, <2>1, NodeTypes DEF BarrierInv, BarrierTypes
  <2>3. PendingNodes(v)' = PendingNodes(v)
    <3>1. \A q \in Arrivals(Node(v), active) : \A u \in Active : Leader(u) /\ Node(u) = q => u # 0
      BY ZeroLeads DEF Arrivals
    <3> QED BY <1>1, <1>2, <1>4, <3>1 DEF PendingNodes
  <2>4. PendingLocals(v)' = PendingLocals(v)
    <3>1. \A u \in Locals(Node(v), active) : u \in Active /\ u # 0
      BY ZeroLeads DEF Locals, Active
    <3> QED BY <1>1, <1>2, <1>4, <3>1 DEF PendingLocals
  <2>5. \A u \in Below(v) : Gathered(v)' <= Arrived(u)'
    BY <1>2, <1>4, ChildrenBelow DEF BarrierInv, TreeInv
  <2> QED BY <1>3, <1>4, <2>2, <2>3, <2>4, <2>5 DEF BarrierInv, TreeInv
<1>5. \A u \in Below(t) : Arrived(u)' = Gathered(t)'
  <2> SUFFICES ASSUME NEW u \in Below(t) PROVE Arrived(u)' = Gathered(t)'
    OBVIOUS
  <2>1. u \in Active /\ u # 0 /\ u \in Threads
    BY <1>1, ChildrenBelow
  <2>2. Gathered(t) <= Arrived(u)
    BY DEF BarrierInv, TreeInv
  <2>3. Arrived(u) # Gathered(t)
    BY PendingCounts DEF BarrierInv, TreeInv
  <2>4. Arrived(u) <= Gathered(t) + 1
    <3>1. Arrived(u) <= entered[u] /\ entered[u] <= left[u] + 1 /\ left[u] <= Round
      BY <2>1, BarrierArguments
    <3>2. Round <= Arrived(t) /\ Arrived(t) = Gathered(t)
      BY BarrierArguments DEF Arrived, Gathered
    <3> QED BY <1>1, <2>1, <3>1, <3>2, BarrierFacts
  <2> QED BY <1>1, <1>2, <2>1, <2>2, <2>3, <2>4, BarrierFacts
<1>6. PendingNodes(t)' = Arrivals(Node(t), active)
  <2>1. \A q \in Arrivals(Node(t), active) :
            \E u \in Active : Leader(u) /\ Node(u) = q /\ Arrived(u)' = Gathered(t)'
    BY <1>5, ChildrenBelow
  <2> QED BY <1>1, <2>1 DEF PendingNodes
<1>7. PendingLocals(t)' = Locals(Node(t), active)
  <2>1. \A u \in Locals(Node(t), active) : Arrived(u)' = Gathered(t)'
    BY <1>5, ChildrenBelow
  <2> QED BY <2>1 DEF PendingLocals
<1>8. /\ havechild'[Node(t)] = HaveChild(Node(t), active')
      /\ childnotready'[Node(t)] = Cardinality(PendingNodes(t)') + Cardinality(PendingLocals(t)')
  <2>1. Node(t) \in Packages /\ childnotready'[Node(t)] = havechild[Node(t)]
    BY <1>1, NodeTypes DEF BarrierInv, BarrierTypes
  <2> QED BY <1>6, <1>7, <2>1 DEF BarrierInv, TreeInv, HaveChild
<1>9. \A u \in Below(t)' : Gathered(t)' <= Arrived(u)'
  BY <1>1, <1>3, <1>5, BarrierFacts
<1> QED BY <1>1, <1>4, <1>8, <1>9 DEF TreeInv

LEMMA ResetStep ==
    ASSUME BarrierInv, NEW t \in Threads, Reset(t)
    PROVE  BarrierInv'
PROOF
<1>0. t \in Active /\ Active \subseteq Threads /\ at[t] = "reset" /\ Leader(t)
  BY BarrierFacts DEF Reset, At, BarrierInv, LabelsInv
<1>1. /\ at'[t] = IF t = 0 THEN "wakeFirst" ELSE "report"
      /\ \A u \in Threads \ {t} : at'[u] = at[u]
      /\ childnotready' = [childnotready EXCEPT ![Node(t)] = havechild[Node(t)]]
      /\ UNCHANGED <<active, havechild, parentsense, sense, entered, left>>
  <2>1. Node(t) = 0 <=> t = 0
    BY <1>0, ZeroLeads
  <2> QED BY <1>0, <2>1 DEF Reset, At, Move, AfterArrival, BarrierInv, BarrierTypes
<1>2. entered[t] = left[t] + 1 /\ left[t] \in Nat /\ entered[t] \in Nat
  BY <1>0, BarrierFacts DEF BarrierInv, LabelsInv
<1>3. BarrierTypes'
  <2>1. Node(t) \in Packages /\ Node(t) \in Used(active)
    BY <1>0, NodeTypes DEF Used, Active, Node
  <2>2. childnotready' \in [Packages -> Nat]
    BY <1>1, <2>1 DEF BarrierInv, BarrierTypes
  <2>3. \A p \in Packages \ Used(active) : childnotready'[p] = childnotready[p]
    BY <1>1, <2>1 DEF BarrierInv, BarrierTypes
  <2>4. at' \in [Threads -> Labels]
    BY <1>0, <1>1 DEF Reset, Move, AfterArrival, BarrierInv, BarrierTypes, Labels
  <2> QED BY <1>1, <2>2, <2>3, <2>4 DEF BarrierInv, BarrierTypes
<1>4. LabelsInv'
  BY <1>0, <1>1, BarrierFacts DEF BarrierInv, LabelsInv, Active, First
<1>5. \A u \in Active \ {t} : /\ Arrived(u)' = Arrived(u) /\ Saw(u)' = Saw(u)
                              /\ Woke(u, 0)' = Woke(u, 0) /\ Woke(u, 1)' = Woke(u, 1)
                              /\ Gathered(u)' = Gathered(u)
  BY <1>0, <1>1, SameViews
<1>6. /\ Gathered(t)' = Gathered(t) + 1 /\ Gathered(t) = left[t]
      /\ t # 0 => Arrived(t)' = Arrived(t) /\ Saw(t)' = Saw(t)
      /\ t = 0 => Arrived(t)' = Arrived(t) + 1
      /\ Woke(t, 0)' = Woke(t, 0) /\ Woke(t, 1)' = Woke(t, 1)
  BY <1>0, <1>1, <1>2 DEF Arrived, Saw, Woke, Gathered
<1>7. TreeInv'
  BY <1>0, <1>1, <1>5, <1>6, ResetTree
<1>8. RoundInv'
  <2>1. CASE t # 0
    <3>1. Round' = Round
      BY <1>5, <2>1, BarrierFacts DEF Round
    <3>2. \A u \in Active : Arrived(u)' = Arrived(u)
      BY <1>5, <1>6, <2>1
    <3> QED BY <1>0, <1>1, <2>1, <3>1, <3>2 DEF BarrierInv, RoundInv, Active
  <2>2. CASE t = 0
    <3>1. Round' = Round + 1 /\ Round \in Nat /\ Round = left[0] /\ entered[0] = Round'
      BY <1>2, <1>6, <2>2 DEF Round
    <3>2. childnotready[0] = 0
      BY <1>0, <2>2, ZeroLeads DEF BarrierInv, TreeInv
    <3>3. ASSUME NEW u \in Active, u # 0
          PROVE  /\ left[u] <= Round' /\ Round' <= Arrived(u)'
                 /\ at'[u] \notin {"wakeFirst", "wakeSecond", "wakeOwn"}
      <4>1. Round + 1 <= Arrived(u) /\ left[u] <= Round /\ Arrived(u) <= entered[u]
        BY <3>2, <3>3, TreeComplete, BarrierArguments
      <4>2. Arrived(u) \in Nat /\ entered[u] \in Nat /\ left[u] \in Nat
        BY <1>0, <3>3, BarrierFacts
      <4>3. entered[u] # Round
        BY <3>1, <4>1, <4>2
      <4> QED BY <1>0, <1>1, <1>5, <2>2, <3>1, <3>3, <4>1, <4>2, <4>3 DEF BarrierInv, RoundInv
    <3>4. left[0] <= Round' /\ Round' <= Arrived(0)'
      BY <1>1, <1>2, <2>2, <3>1 DEF Arrived
    <3> QED BY <1>0, <1>1, <2>2, <3>1, <3>3, <3>4 DEF BarrierInv, RoundInv, Active
  <2> QED BY <2>1, <2>2
<1>9. ReleaseInv'
  <2>1. \A u \in Active : Woke(u, 0)' = Woke(u, 0) /\ Woke(u, 1)' = Woke(u, 1)
    BY <1>5, <1>6
  <2>2. \A v, u \in Active, i \in {0, 1} : Leader(v) /\ Node(u) = WakeNode(Node(v), i) => u # 0
    BY <1>0, NodeTypes, WakeUnique, ZeroLeads
  <2>3. \A u \in Active : u # 0 => Saw(u)' = Saw(u)
    BY <1>5, <1>6
  <2>4. \A v \in Active, i \in {0, 1} : Woke(v, i)' = Woke(v, i)
    BY <2>1
  <2> QED BY <1>1, <2>2, <2>3, <2>4 DEF BarrierInv, ReleaseInv, Active
<1> QED BY <1>3, <1>4, <1>7, <1>8, <1>9 DEF BarrierInv

\* One child of the leader v arrives, and the counter goes down by one.
LEMMA ArriveTree ==
    ASSUME BarrierInv, NEW v \in Active, Leader(v), NEW t \in Below(v),
           Arrived(t) = Gathered(v), Arrived(t)' = Arrived(t) + 1,
           Leader(t) => Gathered(t)' = Gathered(t),
           at'[t] # "reset",
           UNCHANGED <<active, havechild>>,
           childnotready' = [childnotready EXCEPT ![Node(v)] = @ - 1],
           \A u \in Active \ {t} : at'[u] = at[u] /\ Arrived(u)' = Arrived(u) /\ Gathered(u)' = Gathered(u)
    PROVE  TreeInv' /\ childnotready' \in [Packages -> Nat]
PROOF
<1>1. /\ Active' = Active /\ Active \subseteq Threads /\ t \in Active /\ t # 0
      /\ Arrived(t) \in Nat
  BY BarrierFacts, ChildrenBelow DEF Active
<1>2. \A u \in Active : Below(u)' = Below(u) /\ (Leader(u) => Gathered(u)' = Gathered(u))
  BY <1>1 DEF Below
<1>3. childnotready[Node(v)] \in Nat \ {0} /\ Node(v) \in Packages /\ at[v] # "reset"
  <2>1. Node(v) \in Packages
    BY <1>1, NodeTypes
  <2>2. childnotready[Node(v)] # 0
    BY PendingCounts
  <2> QED BY <2>1, <2>2 DEF BarrierInv, BarrierTypes, TreeInv
<1>4. childnotready' \in [Packages -> Nat] /\ childnotready'[Node(v)] = childnotready[Node(v)] - 1
  BY <1>3 DEF BarrierInv, BarrierTypes
<1>5. ASSUME NEW u \in Active, Leader(u)
      PROVE  \A w \in Below(u) : Gathered(u)' <= Arrived(w)'
  <2> SUFFICES ASSUME NEW w \in Below(u) PROVE Gathered(u)' <= Arrived(w)'
    OBVIOUS
  <2>1. w \in Active /\ Gathered(u) <= Arrived(w)
    BY <1>5, ChildrenBelow DEF BarrierInv, TreeInv
  <2>2. Arrived(w) \in Nat /\ Gathered(u) \in Nat
    BY <1>1, <1>5, <2>1, BarrierFacts
  <2>3. Arrived(w)' = Arrived(w) \/ Arrived(w)' = Arrived(w) + 1
    BY <2>1
  <2> QED BY <1>2, <1>5, <2>1, <2>2, <2>3
<1>6. ASSUME NEW u \in Active, Leader(u), u # v
      PROVE  /\ childnotready'[Node(u)] = Cardinality(PendingNodes(u)') + Cardinality(PendingLocals(u)')
             /\ at'[u] = "reset" => childnotready'[Node(u)] = 0
  <2>1. Node(u) # Node(v) /\ Node(u) \in Packages
    BY <1>1, <1>6, LeaderUnique, NodeTypes
  <2>2. childnotready'[Node(u)] = childnotready[Node(u)]
    BY <2>1 DEF BarrierInv, BarrierTypes
  <2>3. t \notin Below(u)
    BY <1>6, <2>1, <1>1 DEF Below
  <2>4. PendingNodes(u)' = PendingNodes(u)
    <3>1. \A q \in Arrivals(Node(u), active) : \A w \in Active : Leader(w) /\ Node(w) = q => w # t
      BY <1>6, <2>3, ChildrenBelow
    <3> QED BY <1>1, <1>2, <1>6, <3>1 DEF PendingNodes
  <2>5. PendingLocals(u)' = PendingLocals(u)
    <3>1. \A w \in Locals(Node(u), active) : w \in Active /\ w # t
      BY <1>6, <2>3, ChildrenBelow
    <3> QED BY <1>2, <1>6, <3>1 DEF PendingLocals
  <2>6. at'[u] = "reset" => at[u] = "reset"
    BY <1>6
  <2> QED BY <1>6, <2>2, <2>4, <2>5, <2>6 DEF BarrierInv, TreeInv
<1>7. childnotready'[Node(v)] = Cardinality(PendingNodes(v)') + Cardinality(PendingLocals(v)')
  <2>1. /\ IsFiniteSet(PendingNodes(v)) /\ IsFiniteSet(PendingLocals(v))
        /\ Cardinality(PendingNodes(v)) \in Nat /\ Cardinality(PendingLocals(v)) \in Nat
        /\ childnotready[Node(v)] = Cardinality(PendingNodes(v)) + Cardinality(PendingLocals(v))
    BY PendingSets DEF BarrierInv, TreeInv
  <2>2. Gathered(v)' = Gathered(v)
    BY <1>2
  <2>3. CASE Leader(t)
    <3>1. PendingLocals(v)' = PendingLocals(v)
      <4>1. \A w \in Locals(Node(v), active) : w \in Active /\ w # t
        BY <2>3, ChildrenBelow
      <4> QED BY <2>2, <4>1 DEF PendingLocals
    <3>2. Node(t) \in PendingNodes(v)
      BY <1>1, <2>3, ChildrenBelow DEF PendingNodes
    <3>3. ASSUME NEW q \in Arrivals(Node(v), active)
          PROVE  q \in PendingNodes(v)' <=> q \in PendingNodes(v) /\ q # Node(t)
      <4>1. CASE q = Node(t)
        <5>1. \A w \in Active : Leader(w) /\ Node(w) = q => w = t
          BY <1>1, <2>3, <4>1, LeaderUnique
        <5> QED BY <1>1, <2>2, <4>1, <5>1 DEF PendingNodes
      <4>2. CASE q # Node(t)
        <5>1. \A w \in Active : Node(w) = q => Arrived(w)' = Arrived(w)
          BY <4>2
        <5> QED BY <1>1, <2>2, <4>2, <5>1 DEF PendingNodes
      <4> QED BY <4>1, <4>2
    <3>4. PendingNodes(v)' = PendingNodes(v) \ {Node(t)}
      BY <3>3 DEF PendingNodes
    <3>5. Cardinality(PendingNodes(v)') = Cardinality(PendingNodes(v)) - 1
      BY <2>1, <3>2, <3>4, FS_RemoveElement
    <3> QED BY <1>4, <2>1, <3>1, <3>5
  <2>4. CASE ~Leader(t)
    <3>1. PendingNodes(v)' = PendingNodes(v)
      <4>1. \A w \in Active : Leader(w) => Arrived(w)' = Arrived(w)
        BY <2>4
      <4> QED BY <1>1, <2>2, <4>1 DEF PendingNodes
    <3>2. t \in PendingLocals(v)
      BY <1>1, <2>4, ChildrenBelow DEF PendingLocals
    <3>3. \A w \in Locals(Node(v), active) : w \in Active /\ (w # t => Arrived(w)' = Arrived(w))
      BY ChildrenBelow
    <3>4. PendingLocals(v)' = PendingLocals(v) \ {t}
      BY <1>1, <2>2, <3>3 DEF PendingLocals
    <3>5. Cardinality(PendingLocals(v)') = Cardinality(PendingLocals(v)) - 1
      BY <2>1, <3>2, <3>4, FS_RemoveElement
    <3> QED BY <1>4, <2>1, <3>1, <3>5
  <2> QED BY <2>3, <2>4
<1>8. at'[v] # "reset"
  BY <1>3
<1>9. \A u \in Active : Leader(u) => havechild'[Node(u)] = HaveChild(Node(u), active')
  BY DEF BarrierInv, TreeInv
<1> QED BY <1>1, <1>2, <1>4, <1>5, <1>6, <1>7, <1>8, <1>9 DEF TreeInv

LEMMA ArriveStep ==
    ASSUME BarrierInv, NEW t \in Threads, Report(t) \/ Arrive(t)
    PROVE  BarrierInv'
PROOF
<1>0. /\ t \in Active /\ Active \subseteq Threads /\ active \in 1..MaxThreads /\ t # 0
      /\ Leader(t) => at[t] = "report" /\ Report(t)
      /\ ~Leader(t) => at[t] = "arrive" /\ Arrive(t)
  <2>1. CASE Report(t)
    BY <2>1, BarrierFacts, ZeroLeads DEF Report, At, BarrierInv, LabelsInv
  <2>2. CASE Arrive(t)
    BY <2>2, BarrierFacts, ZeroLeads DEF Arrive, At, BarrierInv, LabelsInv
  <2> QED BY <2>1, <2>2
<1>1. PICK v \in Active : /\ Leader(v) /\ t \in Below(v)
                          /\ childnotready' = [childnotready EXCEPT ![Node(v)] = @ - 1]
                          /\ UNCHANGED <<active, havechild, parentsense, sense, entered, left>>
  <2>1. CASE Leader(t)
    <3>1. Node(t) # 0
      BY <1>0, <2>1, ZeroLeads
    <3>2. PICK v \in Active : Leader(v) /\ Node(v) = ParentNode(Node(t))
      BY <1>0, <3>1, GatherParent DEF Active
    <3>3. t \in Below(v)
      BY <1>0, <2>1, <3>1, <3>2 DEF Below
    <3> QED BY <1>0, <2>1, <3>2, <3>3 DEF Report, CountDown
  <2>2. CASE ~Leader(t)
    <3>1. PICK v \in Active : Leader(v) /\ Node(v) = Node(t)
      BY <1>0, UsedDown, NodeTypes DEF Active
    <3>2. t \in Below(v)
      BY <1>0, <2>2, <3>1 DEF Below
    <3> QED BY <1>0, <2>2, <3>1, <3>2 DEF Arrive, CountDown
  <2> QED BY <2>1, <2>2
<1>2. at'[t] = "await" /\ \A u \in Threads \ {t} : at'[u] = at[u]
  BY <1>0 DEF Report, Arrive, Move, AfterArrival, BarrierInv, BarrierTypes
<1>3. entered[t] = left[t] + 1 /\ left[t] \in Nat /\ entered[t] \in Nat
  BY <1>0, BarrierFacts DEF BarrierInv, LabelsInv
<1>4. \A u \in Active \ {t} : /\ Arrived(u)' = Arrived(u) /\ Saw(u)' = Saw(u)
                              /\ Woke(u, 0)' = Woke(u, 0) /\ Woke(u, 1)' = Woke(u, 1)
                              /\ Gathered(u)' = Gathered(u)
  BY <1>0, <1>1, <1>2, SameViews
<1>5. /\ Arrived(t) = left[t] /\ Arrived(t)' = Arrived(t) + 1
      /\ Leader(t) => Gathered(t)' = Gathered(t)
      /\ Saw(t)' = Saw(t) /\ Woke(t, 0)' = Woke(t, 0) /\ Woke(t, 1)' = Woke(t, 1)
  BY <1>0, <1>1, <1>2, <1>3 DEF Arrived, Saw, Woke, Gathered
<1>6. Round' = Round
  BY <1>0, <1>4, BarrierFacts DEF Round
<1>7. Arrived(t) = Gathered(v)
  <2>1. Gathered(v) <= Arrived(t)
    BY <1>1 DEF BarrierInv, TreeInv
  <2>2. left[t] <= Round /\ Round <= Arrived(v)
    BY <1>0, BarrierArguments
  <2>3. Arrived(v) <= Gathered(v) /\ Arrived(v) \in Nat /\ Gathered(v) \in Nat /\ Round \in Nat
    BY <1>0, BarrierFacts DEF Arrived, Gathered
  <2> QED BY <1>3, <1>5, <2>1, <2>2, <2>3
<1>8. TreeInv' /\ childnotready' \in [Packages -> Nat]
  <2>1. \A u \in Active \ {t} : at'[u] = at[u] /\ Arrived(u)' = Arrived(u) /\ Gathered(u)' = Gathered(u)
    BY <1>0, <1>2, <1>4
  <2>2. at'[t] # "reset"
    BY <1>2
  <2> QED BY <1>1, <1>5, <1>7, <2>1, <2>2, ArriveTree
<1>9. BarrierTypes'
  <2>1. Node(v) \in Used(active)
    BY DEF Used, Active, Node
  <2>2. \A p \in Packages \ Used(active) : childnotready'[p] = childnotready[p]
    BY <1>1, <2>1 DEF BarrierInv, BarrierTypes
  <2>3. at' \in [Threads -> Labels]
    BY <1>0 DEF Report, Arrive, Move, AfterArrival, BarrierInv, BarrierTypes, Labels
  <2> QED BY <1>1, <1>8, <2>2, <2>3 DEF BarrierInv, BarrierTypes
<1>10. LabelsInv'
  BY <1>0, <1>1, <1>2, BarrierFacts DEF BarrierInv, LabelsInv, Active, First
<1>11. RoundInv'
  <2>1. \A u \in Active : Arrived(u) \in Nat /\ Round \in Nat
    BY <1>0, BarrierFacts
  <2>2. \A u \in Active : Arrived(u)' >= Arrived(u)
    BY <1>4, <1>5, <2>1
  <2> QED BY <1>0, <1>1, <1>2, <1>4, <1>5, <1>6, <2>1, <2>2 DEF BarrierInv, RoundInv, Active
<1>12. ReleaseInv'
  BY <1>1, <1>4, <1>5, SameRelease DEF BarrierInv
<1> QED BY <1>8, <1>9, <1>10, <1>11, <1>12 DEF BarrierInv

-----------------------------------------------------------------------------
(* The release.                                                            *)

\* The word a thread waits for tells the last release or the one before,
\* and these two differ.
LEMMA WordTells ==
    ASSUME NEW S \in Nat \ {0, 1}, NEW a \in Nat, NEW b \in Nat,
           b = a \/ b = a + 1, b % S = (a + 1) % S
    PROVE  b = a + 1
PROOF BY NextValue

LEMMA ReleasedOne ==
    ASSUME BarrierInv, NEW t \in Active, t # 0, Released(t)
    PROVE  /\ entered[t] = Round /\ left[t] + 1 = Round
           /\ Node(t) = 0 => left[t] + 1 <= left[0]
           /\ \A v \in Active, i \in {0, 1} :
                 Leader(v) /\ Node(t) = WakeNode(Node(v), i) => left[t] + 1 <= Woke(v, i)
PROOF
<1>1. /\ t \in Threads /\ active \in 1..MaxThreads /\ Active = First(active)
      /\ left[t] \in Nat /\ entered[t] \in Nat /\ Round \in Nat /\ 0 \in Active
      /\ Active \subseteq Threads
      /\ at[t] = "await" /\ parentsense[Node(t)] = sense[t]
  BY BarrierFacts DEF Released, At, Active
<1>2. entered[t] = left[t] + 1 /\ Arrived(t) = entered[t] /\ Saw(t) = left[t]
  BY <1>1 DEF BarrierInv, LabelsInv, Arrived, Saw
<1>3. left[t] <= Round /\ Round <= left[t] + 1
  BY <1>2, BarrierArguments
<1>4. sense[t] = (left[t] + 1) % SenseValues /\ SenseValues \in Nat \ {0, 1}
  BY ThreadAssumption DEF BarrierInv, RoundInv
<1>5. CASE Node(t) = 0
  <2>1. left[0] \in Nat /\ left[t] <= left[0] /\ left[0] <= Round
    BY <1>1, <1>5, BarrierFacts, BarrierArguments DEF BarrierInv, ReleaseInv
  <2>2. left[0] % SenseValues = (left[t] + 1) % SenseValues
    BY <1>1, <1>4, <1>5 DEF BarrierInv, ReleaseInv
  <2>3. left[0] = left[t] + 1
    BY <1>1, <1>3, <1>4, <2>1, <2>2, WordTells
  <2>4. \A v \in Active, i \in {0, 1} : Node(t) # WakeNode(Node(v), i)
    BY <1>1, <1>5, WakeUnique, NodeTypes
  <2> QED BY <1>1, <1>2, <1>3, <2>1, <2>3, <2>4
<1>6. CASE Node(t) # 0
  <2>1. ASSUME NEW v \in Active, NEW i \in {0, 1}, Leader(v), Node(t) = WakeNode(Node(v), i)
        PROVE  Woke(v, i) = left[t] + 1 /\ Woke(v, i) <= Round
    <3>1. Woke(v, i) \in Nat
      BY <1>1, <2>1, BarrierFacts DEF Woke
    <3>2. left[t] <= Woke(v, i) /\ Woke(v, i) <= Round
      BY <1>1, <1>2, <2>1, BarrierArguments DEF BarrierInv, ReleaseInv
    <3>3. Woke(v, i) % SenseValues = (left[t] + 1) % SenseValues
      BY <1>1, <1>4, <2>1 DEF BarrierInv, ReleaseInv
    <3> QED BY <1>1, <1>3, <1>4, <3>1, <3>2, <3>3, WordTells
  <2>2. \E v \in Active, i \in {0, 1} : Leader(v) /\ Node(t) = WakeNode(Node(v), i)
    BY <1>1, <1>6, WakeParent
  <2> QED BY <1>1, <1>2, <1>3, <1>6, <2>1, <2>2
<1> QED BY <1>5, <1>6

LEMMA LeaderReleasedStep ==
    ASSUME BarrierInv, NEW t \in Threads, LeaderReleased(t)
    PROVE  BarrierInv'
PROOF
<1>0. t \in Active /\ Active \subseteq Threads /\ t # 0 /\ Leader(t) /\ at[t] = "await"
  BY BarrierFacts DEF LeaderReleased, Released, At, BarrierInv, LabelsInv
<1>1. /\ at'[t] = "wakeFirst" /\ \A u \in Threads \ {t} : at'[u] = at[u]
      /\ UNCHANGED <<active, nodeVars, sense, entered, left>>
  BY <1>0 DEF LeaderReleased, Move, BarrierInv, BarrierTypes
<1>2. /\ entered[t] = Round /\ left[t] + 1 = Round
      /\ \A v \in Active, i \in {0, 1} :
            Leader(v) /\ Node(t) = WakeNode(Node(v), i) => left[t] + 1 <= Woke(v, i)
  BY <1>0, ReleasedOne DEF LeaderReleased
<1>3. BarrierTypes'
  BY <1>0, <1>1 DEF BarrierInv, BarrierTypes, nodeVars, LeaderReleased, Move, Labels
<1>4. LabelsInv'
  BY <1>0, <1>1, BarrierFacts DEF BarrierInv, LabelsInv, Active, First
<1>5. \A u \in Active : /\ Arrived(u)' = Arrived(u)
                        /\ u # t => Saw(u)' = Saw(u)
                        /\ Woke(u, 0)' = Woke(u, 0) /\ Woke(u, 1)' = Woke(u, 1)
                        /\ Gathered(u)' = Gathered(u)
  <2>1. \A u \in Active \ {t} : /\ Arrived(u)' = Arrived(u) /\ Saw(u)' = Saw(u)
                                /\ Woke(u, 0)' = Woke(u, 0) /\ Woke(u, 1)' = Woke(u, 1)
                                /\ Gathered(u)' = Gathered(u)
    BY <1>0, <1>1, SameViews
  <2>2. /\ Arrived(t)' = Arrived(t) /\ Woke(t, 0)' = Woke(t, 0) /\ Woke(t, 1)' = Woke(t, 1)
        /\ Gathered(t)' = Gathered(t)
    BY <1>0, <1>1 DEF Arrived, Woke, Gathered
  <2> QED BY <2>1, <2>2
<1>6. Round' = Round
  BY <1>5, BarrierFacts DEF Round
<1>7. RoundInv'
  BY <1>0, <1>1, <1>2, <1>5, <1>6 DEF BarrierInv, RoundInv, Active
<1>8. TreeInv'
  BY <1>0, <1>1, <1>5, SameTree DEF BarrierInv, TreeInv, nodeVars
<1>9. ReleaseInv'
  <2>1. Saw(t)' = left[t] + 1
    BY <1>1 DEF Saw
  <2>2. \A v \in Active, i \in {0, 1} : Woke(v, i)' = Woke(v, i)
    BY <1>5
  <2> QED BY <1>1, <1>2, <1>5, <2>1, <2>2 DEF BarrierInv, ReleaseInv, Active, nodeVars
<1> QED BY <1>3, <1>4, <1>7, <1>8, <1>9 DEF BarrierInv

\* A thread that leaves has the wait of the round behind it.
LEMMA LeavingRound ==
    ASSUME BarrierInv, NEW t \in Active, left[t] + 1 = Round, entered[t] = Round,
           at[t] # "out", at'[t] = "out",
           UNCHANGED <<active, havechild, childnotready, entered>>,
           left' = [left EXCEPT ![t] = @ + 1], NextSense(t),
           \A u \in Threads \ {t} : at'[u] = at[u],
           at' \in [Threads -> Labels],
           parentsense' \in [Packages -> 0..(SenseValues - 1)],
           Arrived(t) = entered[t], Gathered(t) = entered[t]
    PROVE  BarrierTypes' /\ LabelsInv' /\ RoundInv' /\ TreeInv'
PROOF
<1>0. /\ t \in Threads /\ Active \subseteq Threads /\ 0 \in Active /\ Round \in Nat
      /\ left[t] \in Nat /\ entered[t] \in Nat /\ active \in 1..MaxThreads
      /\ SenseValues \in Nat \ {0, 1}
  BY BarrierFacts, ThreadAssumption
<1>1. /\ left'[t] = left[t] + 1 /\ \A u \in Threads \ {t} : left'[u] = left[u]
      /\ left' \in [Threads -> Nat]
  BY <1>0 DEF BarrierInv, BarrierTypes
<1>2. /\ sense'[t] = (left'[t] + 1) % SenseValues
      /\ \A u \in Threads \ {t} : sense'[u] = sense[u]
      /\ sense' \in [Threads -> 0..(SenseValues - 1)]
  <2>1. sense[t] = (left[t] + 1) % SenseValues
    BY DEF BarrierInv, RoundInv
  <2>2. (sense[t] + 1) % SenseValues = (left[t] + 1 + 1) % SenseValues
    BY <1>0, <2>1, NextValue
  <2>3. (sense[t] + 1) % SenseValues \in 0..(SenseValues - 1)
    <3>1. left[t] + 1 + 1 \in Nat
      BY <1>0
    <3> QED BY <1>0, <2>2, <3>1, NextValue
  <2> QED BY <1>0, <1>1, <2>2, <2>3 DEF NextSense, BarrierInv, BarrierTypes
<1>3. BarrierTypes'
  BY <1>1, <1>2 DEF BarrierInv, BarrierTypes
<1>4. LabelsInv'
  <2>1. entered'[t] = left'[t]
    BY <1>0, <1>1
  <2> QED BY <1>0, <1>1, <2>1 DEF BarrierInv, LabelsInv
<1>5. \A u \in Active : Arrived(u)' = Arrived(u) /\ Gathered(u)' = Gathered(u)
  <2>1. \A u \in Active \ {t} : Arrived(u)' = Arrived(u) /\ Gathered(u)' = Gathered(u)
    BY <1>0, <1>1, SameViews
  <2>2. Arrived(t)' = Arrived(t) /\ Gathered(t)' = Gathered(t)
    BY DEF Arrived, Gathered
  <2> QED BY <2>1, <2>2
<1>6. Round' = Round
  BY <1>0, <1>5 DEF Round
<1>7. RoundInv'
  BY <1>0, <1>1, <1>2, <1>5, <1>6 DEF BarrierInv, RoundInv, Active
<1>8. TreeInv'
  <2>1. \A u \in Active : Leader(u) /\ at'[u] = "reset" => childnotready[Node(u)] = 0
    BY <1>0 DEF BarrierInv, TreeInv
  <2> QED BY <1>5, <2>1, SameTree DEF BarrierInv
<1> QED BY <1>3, <1>4, <1>7, <1>8

LEMMA OtherReleasedStep ==
    ASSUME BarrierInv, NEW t \in Threads, OtherReleased(t)
    PROVE  BarrierInv'
PROOF
<1>0. t \in Active /\ Active \subseteq Threads /\ ~Leader(t) /\ t # 0 /\ at[t] = "await"
  BY BarrierFacts, ZeroLeads DEF OtherReleased, Released, At, BarrierInv, LabelsInv
<1>1. /\ at'[t] = "out" /\ \A u \in Threads \ {t} : at'[u] = at[u]
      /\ at' \in [Threads -> Labels]
      /\ left'[t] = left[t] + 1 /\ \A u \in Threads \ {t} : left'[u] = left[u]
      /\ left' = [left EXCEPT ![t] = @ + 1] /\ NextSense(t)
      /\ UNCHANGED <<active, nodeVars, entered>>
  BY <1>0 DEF OtherReleased, Move, BarrierInv, BarrierTypes, Labels
<1>2. /\ entered[t] = Round /\ left[t] + 1 = Round
      /\ Node(t) = 0 => left[t] + 1 <= left[0]
      /\ \A v \in Active, i \in {0, 1} :
            Leader(v) /\ Node(t) = WakeNode(Node(v), i) => left[t] + 1 <= Woke(v, i)
  BY <1>0, ReleasedOne DEF OtherReleased
<1>3. Arrived(t) = entered[t] /\ Gathered(t) = entered[t]
  BY <1>0 DEF Arrived, Gathered
<1>4. BarrierTypes' /\ LabelsInv' /\ RoundInv' /\ TreeInv'
  <2>1. parentsense' \in [Packages -> 0..(SenseValues - 1)]
    BY <1>1 DEF nodeVars, BarrierInv, BarrierTypes
  <2> QED BY <1>0, <1>1, <1>2, <1>3, <2>1, LeavingRound DEF nodeVars
<1>5. ReleaseInv'
  <2>1. \A u \in Active \ {t} : Saw(u)' = Saw(u) /\ Woke(u, 0)' = Woke(u, 0) /\ Woke(u, 1)' = Woke(u, 1)
    BY <1>0, <1>1, SameViews DEF nodeVars
  <2>2. \A v \in Active, i \in {0, 1} : Leader(v) => Woke(v, i)' = Woke(v, i)
    BY <1>0, <2>1
  <2>3. Saw(t)' = left[t] + 1
    BY <1>1 DEF Saw
  <2>4. left'[0] = left[0]
    BY <1>0, <1>1, BarrierFacts
  <2>5. \A u \in Active : u # t => left'[u] = left[u] /\ Saw(u)' = Saw(u)
    BY <1>0, <1>1, <2>1
  <2> QED BY <1>0, <1>1, <1>2, <2>2, <2>3, <2>4, <2>5 DEF BarrierInv, ReleaseInv, Active, nodeVars
<1> QED BY <1>4, <1>5 DEF BarrierInv

\* The leader t signals the package p as its child number i.
LEMMA SignalFacts ==
    ASSUME BarrierInv, NEW t \in Active, NEW p \in Nat, Signal(t, p)
    PROVE  /\ UNCHANGED <<active, childnotready, havechild, entered>>
           /\ parentsense' \in [Packages -> 0..(SenseValues - 1)]
           /\ \A u \in Active : Node(u) # p => parentsense'[Node(u)] = parentsense[Node(u)]
           /\ \A u \in Active : Node(u) = p => parentsense'[Node(u)] = (left[t] + 1) % SenseValues
PROOF
<1>1. t \in Threads /\ Active \subseteq Threads /\ Active = First(active)
  BY BarrierFacts DEF Active
<1>2. sense[t] \in 0..(SenseValues - 1) /\ sense[t] = (left[t] + 1) % SenseValues
  BY <1>1 DEF BarrierInv, BarrierTypes, RoundInv
<1>3. parentsense' \in [Packages -> 0..(SenseValues - 1)]
  BY <1>2 DEF Signal, BarrierInv, BarrierTypes
<1>4. ASSUME NEW u \in Active
      PROVE  /\ Node(u) # p => parentsense'[Node(u)] = parentsense[Node(u)]
             /\ Node(u) = p => parentsense'[Node(u)] = (left[t] + 1) % SenseValues
  <2>1. Node(u) \in Packages /\ Node(u) \in Used(active)
    BY <1>1, NodeTypes DEF Used, Node
  <2> QED BY <1>2, <2>1 DEF Signal, BarrierInv, BarrierTypes
<1> QED BY <1>3, <1>4 DEF Signal

LEMMA WakeFirstStep ==
    ASSUME BarrierInv, NEW t \in Threads, WakeFirst(t)
    PROVE  BarrierInv'
PROOF
<1>0. /\ t \in Active /\ Active \subseteq Threads /\ Leader(t) /\ at[t] = "wakeFirst"
      /\ Node(t) \in Nat /\ WakeNode(Node(t), 0) \in Nat
  <2>1. t \in Active /\ Active \subseteq Threads /\ Leader(t) /\ at[t] = "wakeFirst"
    BY BarrierFacts DEF WakeFirst, At, BarrierInv, LabelsInv
  <2> QED BY <2>1, NodeTypes DEF WakeNode
<1>1. /\ at'[t] = "wakeSecond" /\ \A u \in Threads \ {t} : at'[u] = at[u]
      /\ at' \in [Threads -> Labels] /\ UNCHANGED <<sense, left>>
      /\ Signal(t, WakeNode(Node(t), 0))
  BY <1>0 DEF WakeFirst, Move, BarrierInv, BarrierTypes, Labels
<1>2. /\ UNCHANGED <<active, childnotready, havechild, entered>>
      /\ parentsense' \in [Packages -> 0..(SenseValues - 1)]
      /\ \A u \in Active : Node(u) # WakeNode(Node(t), 0) => parentsense'[Node(u)] = parentsense[Node(u)]
      /\ \A u \in Active :
            Node(u) = WakeNode(Node(t), 0) => parentsense'[Node(u)] = (left[t] + 1) % SenseValues
  BY <1>0, <1>1, SignalFacts
<1>3. BarrierTypes'
  BY <1>1, <1>2 DEF BarrierInv, BarrierTypes
<1>4. LabelsInv'
  BY <1>0, <1>1, <1>2, BarrierFacts DEF BarrierInv, LabelsInv, Active, First
<1>5. \A u \in Active : /\ Arrived(u)' = Arrived(u) /\ Gathered(u)' = Gathered(u)
                        /\ Saw(u)' = Saw(u) /\ Woke(u, 1)' = Woke(u, 1)
                        /\ u # t => Woke(u, 0)' = Woke(u, 0)
  <2>1. \A u \in Active \ {t} : /\ Arrived(u)' = Arrived(u) /\ Gathered(u)' = Gathered(u)
                                /\ Saw(u)' = Saw(u) /\ Woke(u, 0)' = Woke(u, 0)
                                /\ Woke(u, 1)' = Woke(u, 1)
    BY <1>0, <1>1, <1>2, SameViews
  <2>2. /\ Arrived(t)' = Arrived(t) /\ Gathered(t)' = Gathered(t)
        /\ Saw(t)' = Saw(t) /\ Woke(t, 1)' = Woke(t, 1)
    BY <1>0, <1>1, <1>2 DEF Arrived, Gathered, Saw, Woke
  <2> QED BY <2>1, <2>2
<1>6. Woke(t, 0) = left[t] /\ Woke(t, 0)' = left[t] + 1 /\ left[t] \in Nat
  BY <1>0, <1>1, BarrierFacts DEF Woke
<1>7. Round' = Round
  BY <1>5, BarrierFacts DEF Round
<1>8. RoundInv'
  BY <1>0, <1>1, <1>2, <1>5, <1>7 DEF BarrierInv, RoundInv, Active
<1>9. TreeInv'
  <2>1. \A u \in Active : Leader(u) /\ at'[u] = "reset" => childnotready[Node(u)] = 0
    BY <1>0, <1>1 DEF BarrierInv, TreeInv
  <2> QED BY <1>2, <1>5, <2>1, SameTree DEF BarrierInv
<1>10. ReleaseInv'
  <2>1. ASSUME NEW v \in Active, NEW u \in Active, NEW i \in {0, 1}, Leader(v),
               Node(u) = WakeNode(Node(v), i)
        PROVE  parentsense'[Node(u)] = Woke(v, i)' % SenseValues /\ Saw(u)' <= Woke(v, i)'
    <3>1. parentsense[Node(u)] = Woke(v, i) % SenseValues /\ Saw(u) <= Woke(v, i)
      BY <2>1 DEF BarrierInv, ReleaseInv
    <3>2. CASE v = t /\ i = 0
      <4>1. Saw(u) \in Nat
        BY <1>0, BarrierFacts DEF Saw
      <4> QED BY <1>2, <1>5, <1>6, <2>1, <3>1, <3>2, <4>1
    <3>3. CASE ~(v = t /\ i = 0)
      <4>1. Node(u) # WakeNode(Node(t), 0)
        BY <1>0, <2>1, <3>3, WakeUnique, LeaderUnique, NodeTypes
      <4>2. Woke(v, i)' = Woke(v, i)
        BY <1>5, <2>1, <3>3
      <4> QED BY <1>2, <1>5, <2>1, <3>1, <4>1, <4>2
    <3> QED BY <3>2, <3>3
  <2>2. ASSUME NEW u \in Active, Node(u) = 0
        PROVE  parentsense'[0] = left'[0] % SenseValues /\ left'[u] <= left'[0]
    <3>1. WakeNode(Node(t), 0) # 0
      BY <1>0, WakeUnique
    <3> QED BY <1>1, <1>2, <2>2, <3>1 DEF BarrierInv, ReleaseInv
  <2> QED BY <1>2, <2>1, <2>2 DEF ReleaseInv, Active
<1> QED BY <1>3, <1>4, <1>8, <1>9, <1>10 DEF BarrierInv

LEMMA WakeSecondStep ==
    ASSUME BarrierInv, NEW t \in Threads, WakeSecond(t)
    PROVE  BarrierInv'
PROOF
<1>0. /\ t \in Active /\ Active \subseteq Threads /\ Leader(t) /\ at[t] = "wakeSecond"
      /\ Node(t) \in Nat /\ WakeNode(Node(t), 1) \in Nat
      /\ left[t] \in Nat /\ entered[t] \in Nat /\ Round \in Nat
  <2>1. t \in Active /\ Active \subseteq Threads /\ Leader(t) /\ at[t] = "wakeSecond"
    BY BarrierFacts DEF WakeSecond, At, BarrierInv, LabelsInv
  <2> QED BY <2>1, NodeTypes, BarrierFacts DEF WakeNode
<1>1. Signal(t, WakeNode(Node(t), 1)) /\ \A u \in Threads \ {t} : at'[u] = at[u] /\ left'[u] = left[u]
  BY <1>0 DEF WakeSecond, Move, BarrierInv, BarrierTypes
<1>2. /\ UNCHANGED <<active, childnotready, havechild, entered>>
      /\ parentsense' \in [Packages -> 0..(SenseValues - 1)]
      /\ \A u \in Active : Node(u) # WakeNode(Node(t), 1) => parentsense'[Node(u)] = parentsense[Node(u)]
      /\ \A u \in Active :
            Node(u) = WakeNode(Node(t), 1) => parentsense'[Node(u)] = (left[t] + 1) % SenseValues
  BY <1>0, <1>1, SignalFacts
<1>3. entered[t] = left[t] + 1 /\ entered[t] = Round
  BY <1>0 DEF BarrierInv, LabelsInv, RoundInv
<1>4. /\ BarrierTypes' /\ LabelsInv' /\ RoundInv' /\ TreeInv'
      /\ Woke(t, 0)' = left[t] + 1 /\ Woke(t, 1)' = left[t] + 1 /\ Saw(t)' = left[t] + 1
      /\ left'[t] \in {left[t], left[t] + 1} /\ left'[0] = left[0]
  <2>1. CASE t = 0
    <3>1. at'[t] = "wakeOwn" /\ at' \in [Threads -> Labels] /\ UNCHANGED <<sense, left>>
      BY <1>0, <2>1 DEF WakeSecond, Move, BarrierInv, BarrierTypes, Labels
    <3>2. BarrierTypes'
      BY <1>2, <3>1 DEF BarrierInv, BarrierTypes
    <3>3. LabelsInv'
      BY <1>0, <1>1, <1>2, <2>1, <3>1, BarrierFacts DEF BarrierInv, LabelsInv, Active, First
    <3>4. \A u \in Active : Arrived(u)' = Arrived(u) /\ Gathered(u)' = Gathered(u)
      <4>1. \A u \in Active \ {t} : Arrived(u)' = Arrived(u) /\ Gathered(u)' = Gathered(u)
        BY <1>0, <1>1, <1>2, <3>1, SameViews
      <4>2. Arrived(t)' = Arrived(t) /\ Gathered(t)' = Gathered(t)
        BY <1>0, <1>2, <3>1 DEF Arrived, Gathered
      <4> QED BY <4>1, <4>2
    <3>5. Round' = Round
      BY <3>4, BarrierFacts DEF Round
    <3>6. RoundInv'
      BY <1>0, <1>1, <1>2, <1>3, <3>1, <3>4, <3>5 DEF BarrierInv, RoundInv, Active
    <3>7. TreeInv'
      <4>1. \A u \in Active : Leader(u) /\ at'[u] = "reset" => childnotready[Node(u)] = 0
        BY <1>0, <1>1, <3>1 DEF BarrierInv, TreeInv
      <4> QED BY <1>2, <3>4, <4>1, SameTree DEF BarrierInv
    <3> QED BY <3>1, <3>2, <3>3, <3>6, <3>7 DEF Woke, Saw
  <2>2. CASE t # 0
    <3>1. /\ at'[t] = "out" /\ at' \in [Threads -> Labels]
          /\ left' = [left EXCEPT ![t] = @ + 1] /\ NextSense(t)
      BY <1>0, <2>2 DEF WakeSecond, Move, BarrierInv, BarrierTypes, Labels
    <3>2. left'[t] = left[t] + 1 /\ left'[0] = left[0]
      BY <1>0, <2>2, <3>1, BarrierFacts DEF BarrierInv, BarrierTypes
    <3>3. Arrived(t) = entered[t] /\ Gathered(t) = entered[t]
      BY <1>0 DEF Arrived, Gathered
    <3>4. BarrierTypes' /\ LabelsInv' /\ RoundInv' /\ TreeInv'
      BY <1>0, <1>1, <1>2, <1>3, <3>1, <3>3, LeavingRound
    <3> QED BY <3>1, <3>2, <3>4 DEF Woke, Saw
  <2> QED BY <2>1, <2>2
<1>5. \A u \in Active \ {t} : Saw(u)' = Saw(u) /\ Woke(u, 0)' = Woke(u, 0) /\ Woke(u, 1)' = Woke(u, 1)
  BY <1>0, <1>1, <1>2, SameViews
<1>6. Woke(t, 0) = left[t] + 1 /\ Woke(t, 1) = left[t] /\ Saw(t) = left[t] + 1
  BY <1>0 DEF Woke, Saw
<1>7. ReleaseInv'
  <2>1. ASSUME NEW v \in Active, NEW u \in Active, NEW i \in {0, 1}, Leader(v),
               Node(u) = WakeNode(Node(v), i)
        PROVE  parentsense'[Node(u)] = Woke(v, i)' % SenseValues /\ Saw(u)' <= Woke(v, i)'
    <3>1. parentsense[Node(u)] = Woke(v, i) % SenseValues /\ Saw(u) <= Woke(v, i)
      BY <2>1 DEF BarrierInv, ReleaseInv
    <3>2. Saw(u)' = Saw(u)
      BY <1>4, <1>5, <1>6
    <3>3. CASE v = t /\ i = 1
      <4>1. Saw(u) \in Nat
        BY <1>0, BarrierFacts DEF Saw
      <4> QED BY <1>0, <1>2, <1>4, <1>6, <2>1, <3>1, <3>2, <3>3, <4>1
    <3>4. CASE ~(v = t /\ i = 1)
      <4>1. Node(u) # WakeNode(Node(t), 1)
        BY <1>0, <2>1, <3>4, WakeUnique, LeaderUnique, NodeTypes
      <4>2. Woke(v, i)' = Woke(v, i)
        BY <1>4, <1>5, <1>6, <2>1, <3>4
      <4> QED BY <1>2, <2>1, <3>1, <3>2, <4>1, <4>2
    <3> QED BY <3>3, <3>4
  <2>2. ASSUME NEW u \in Active, Node(u) = 0
        PROVE  parentsense'[0] = left'[0] % SenseValues /\ left'[u] <= left'[0]
    <3>1. WakeNode(Node(t), 1) # 0
      BY <1>0, WakeUnique
    <3>2. parentsense[0] = left[0] % SenseValues /\ left[u] <= left[0]
      BY <2>2 DEF BarrierInv, ReleaseInv
    <3>3. u # t \/ u = 0
      BY <1>0, <2>2, ZeroLeads
    <3>4. left'[u] <= left'[0]
      BY <1>0, <1>1, <1>4, <3>2, <3>3
    <3> QED BY <1>2, <1>4, <2>2, <3>1, <3>2, <3>4
  <2> QED BY <1>2, <2>1, <2>2 DEF ReleaseInv, Active
<1> QED BY <1>4, <1>7 DEF BarrierInv

LEMMA WakeOwnStep ==
    ASSUME BarrierInv, NEW t \in Threads, WakeOwn(t)
    PROVE  BarrierInv'
PROOF
<1>0. /\ t \in Active /\ Active \subseteq Threads /\ t = 0 /\ Leader(t) /\ at[t] = "wakeOwn"
      /\ Node(t) = 0 /\ left[t] \in Nat /\ entered[t] \in Nat /\ Round \in Nat
  BY BarrierFacts, ZeroLeads DEF WakeOwn, At, BarrierInv, LabelsInv
<1>1. /\ at'[t] = "out" /\ \A u \in Threads \ {t} : at'[u] = at[u] /\ left'[u] = left[u]
      /\ at' \in [Threads -> Labels] /\ left'[t] = left[t] + 1
      /\ left' = [left EXCEPT ![t] = @ + 1] /\ NextSense(t) /\ Signal(t, 0)
  BY <1>0 DEF WakeOwn, Move, BarrierInv, BarrierTypes, Labels
<1>2. /\ UNCHANGED <<active, childnotready, havechild, entered>>
      /\ parentsense' \in [Packages -> 0..(SenseValues - 1)]
      /\ \A u \in Active : Node(u) # 0 => parentsense'[Node(u)] = parentsense[Node(u)]
      /\ \A u \in Active : Node(u) = 0 => parentsense'[Node(u)] = (left[t] + 1) % SenseValues
  BY <1>0, <1>1, SignalFacts
<1>3. entered[t] = left[t] + 1 /\ entered[t] = Round
  BY <1>0 DEF BarrierInv, LabelsInv, RoundInv
<1>4. Arrived(t) = entered[t] /\ Gathered(t) = entered[t]
  BY <1>0 DEF Arrived, Gathered
<1>5. BarrierTypes' /\ LabelsInv' /\ RoundInv' /\ TreeInv'
  BY <1>0, <1>1, <1>2, <1>3, <1>4, LeavingRound
<1>6. ReleaseInv'
  <2>1. \A u \in Active \ {t} : Saw(u)' = Saw(u) /\ Woke(u, 0)' = Woke(u, 0) /\ Woke(u, 1)' = Woke(u, 1)
    BY <1>0, <1>1, <1>2, SameViews
  <2>2. Woke(t, 0)' = Woke(t, 0) /\ Woke(t, 1)' = Woke(t, 1)
    BY <1>0, <1>1 DEF Woke
  <2>3. \A v \in Active, i \in {0, 1} : Woke(v, i)' = Woke(v, i)
    BY <2>1, <2>2
  <2>4. ASSUME NEW v \in Active, NEW u \in Active, NEW i \in {0, 1}, Leader(v),
               Node(u) = WakeNode(Node(v), i)
        PROVE  parentsense'[Node(u)] = Woke(v, i)' % SenseValues /\ Saw(u)' <= Woke(v, i)'
    <3>1. Node(u) # 0 /\ u # t
      BY <1>0, <2>4, WakeUnique, NodeTypes
    <3> QED BY <1>2, <2>1, <2>3, <2>4, <3>1 DEF BarrierInv, ReleaseInv
  <2>5. ASSUME NEW u \in Active, Node(u) = 0
        PROVE  parentsense'[0] = left'[0] % SenseValues /\ left'[u] <= left'[0]
    <3>1. left[u] <= left[0] /\ left[u] \in Nat
      BY <1>0, <2>5, BarrierFacts DEF BarrierInv, ReleaseInv
    <3> QED BY <1>0, <1>1, <1>2, <2>5, <3>1
  <2> QED BY <1>2, <2>4, <2>5 DEF ReleaseInv, Active
<1> QED BY <1>5, <1>6 DEF BarrierInv

LEMMA InWaitStep ==
    ASSUME BarrierInv, NEW t \in Threads, InWait(t)
    PROVE  BarrierInv'
PROOF BY GatherStep, ResetStep, ArriveStep, LeaderReleasedStep, OtherReleasedStep, WakeFirstStep,
         WakeSecondStep, WakeOwnStep DEF InWait

-----------------------------------------------------------------------------
(* What the barrier promises.                                              *)

\* A step in wait leaves the thread where it was, or lets it out of a wait
\* that everybody has entered.
LEMMA LeavingIsFair ==
    ASSUME BarrierInv, NEW t \in Threads, InWait(t)
    PROVE  /\ t \in Active /\ at[t] # "out"
           /\ entered' = entered
           /\ \/ left' = left /\ at'[t] # "out"
              \/ /\ left' = [left EXCEPT ![t] = @ + 1] /\ at'[t] = "out"
                 /\ left[t] < entered[t] /\ \A u \in Active : left[t] < entered[u]
           /\ active' = active
           /\ \A u \in Threads \ {t} : at'[u] = at[u]
PROOF
<1>1. /\ t \in Active /\ at[t] # "out" /\ Active \subseteq Threads
      /\ left[t] \in Nat /\ entered[t] \in Nat /\ Round \in Nat
      /\ \A u \in Active : entered[u] \in Nat /\ Round <= entered[u]
  <2>1. at[t] # "out"
    BY DEF InWait, Gather, Reset, Report, Arrive, LeaderReleased, OtherReleased, Released,
       WakeFirst, WakeSecond, WakeOwn, At
  <2>2. Active \subseteq Threads /\ t \in Active
    BY <2>1, BarrierFacts
  <2>3. \A u \in Active : Round <= Arrived(u) /\ Arrived(u) <= entered[u]
    BY BarrierArguments
  <2> QED BY <2>1, <2>2, <2>3, BarrierFacts
<1>2. /\ entered' = entered /\ active' = active
      /\ \A u \in Threads \ {t} : at'[u] = at[u]
  BY DEF InWait, Gather, Reset, Report, Arrive, CountDown, LeaderReleased, OtherReleased,
     WakeFirst, WakeSecond, WakeOwn, Signal, Move, BarrierInv, BarrierTypes
<1>3. \/ left' = left /\ at'[t] # "out"
      \/ left' = [left EXCEPT ![t] = @ + 1] /\ at'[t] = "out" /\ left[t] + 1 = Round
  <2>1. CASE Gather(t) \/ Reset(t) \/ Report(t) \/ Arrive(t) \/ LeaderReleased(t)
    BY <2>1 DEF Gather, Reset, Report, Arrive, CountDown, LeaderReleased, Move, AfterArrival,
       BarrierInv, BarrierTypes
  <2>2. CASE OtherReleased(t)
    <3>1. t # 0
      BY <2>2, ZeroLeads DEF OtherReleased
    <3>2. left[t] + 1 = Round
      BY <1>1, <2>2, <3>1, ReleasedOne DEF OtherReleased
    <3> QED BY <2>2, <3>2 DEF OtherReleased, Move, BarrierInv, BarrierTypes
  <2>3. CASE WakeFirst(t) \/ WakeSecond(t) \/ WakeOwn(t)
    <3>1. entered[t] = Round /\ entered[t] = left[t] + 1
      BY <1>1, <2>3 DEF WakeFirst, WakeSecond, WakeOwn, At, BarrierInv, RoundInv, LabelsInv
    <3> QED BY <2>3, <3>1 DEF WakeFirst, WakeSecond, WakeOwn, Move, BarrierInv, BarrierTypes
  <2> QED BY <2>1, <2>2, <2>3 DEF InWait
<1> QED BY <1>1, <1>2, <1>3

-----------------------------------------------------------------------------
(* The barrier before its first wait.                                      *)

LEMMA CounterBound ==
    ASSUME BarrierInv, NEW p \in Packages
    PROVE  childnotready[p] <= havechild[p]
PROOF
<1>1. CASE p \in Used(active)
  <2>1. active \in 1..MaxThreads /\ Active \subseteq Threads
    BY <1>1, BarrierFacts
  <2>2. PICK v \in First(active) : PackageOf[v] = p
    BY <1>1 DEF Used
  <2>3. Node(v) \in Nat /\ Node(v) = p
    BY <2>1, <2>2, NodeTypes DEF Active, Node
  <2>4. PICK t \in First(active) : Leader(t) /\ Node(t) = p
    BY <2>1, <2>3, UsedDown
  <2>5. /\ havechild[p] = HaveChild(p, active)
        /\ childnotready[p] = Cardinality(PendingNodes(t)) + Cardinality(PendingLocals(t))
    BY <2>4 DEF BarrierInv, TreeInv, Active
  <2>6. /\ Cardinality(PendingNodes(t)) \in Nat /\ Cardinality(PendingLocals(t)) \in Nat
        /\ Cardinality(PendingNodes(t)) <= Cardinality(Arrivals(p, active))
        /\ Cardinality(PendingLocals(t)) <= Cardinality(Locals(p, active))
    BY <2>4, PendingSets
  <2>7. Cardinality(Arrivals(p, active)) \in Nat /\ Cardinality(Locals(p, active)) \in Nat
    BY <2>1, PackageSets
  <2> QED BY <2>5, <2>6, <2>7 DEF HaveChild
<1>2. CASE p \notin Used(active)
  BY <1>2 DEF BarrierInv, BarrierTypes
<1> QED BY <1>1, <1>2

\* What BarrierTypeOK says follows.
LEMMA BarrierTyped == BarrierInv => BarrierTypeOK
PROOF
<1> SUFFICES ASSUME BarrierInv PROVE BarrierTypeOK
  OBVIOUS
<1>1. \A p \in Packages : childnotready[p] <= havechild[p]
  BY CounterBound
<1>2. ASSUME NEW t \in Threads, At(t, "reset") PROVE childnotready[Node(t)] = 0
  <2>1. t \in Active /\ Leader(t)
    BY <1>2, BarrierFacts DEF At, BarrierInv, LabelsInv
  <2> QED BY <1>2, <2>1 DEF At, BarrierInv, TreeInv
<1> QED BY <1>1, <1>2 DEF BarrierTypeOK, BarrierInv, BarrierTypes

\* Nobody has entered a wait since the barrier was set up for `active` threads.
Fresh ==
    /\ active \in 1..MaxThreads
    /\ havechild \in [Packages -> Nat] /\ childnotready \in [Packages -> Nat]
    /\ \A p \in Packages \ Used(active) : childnotready[p] <= havechild[p]
    /\ \A p \in Used(active) : havechild[p] = HaveChild(p, active) /\ childnotready[p] = havechild[p]
    /\ parentsense \in [Packages -> 0..(SenseValues - 1)]
    /\ \A p \in Used(active) : parentsense[p] = 0
    /\ sense \in [Threads -> 0..(SenseValues - 1)] /\ \A t \in Active : sense[t] = 1
    /\ at \in [Threads -> Labels] /\ entered \in [Threads -> Nat] /\ left \in [Threads -> Nat]
    /\ \A t \in Threads : at[t] = "out" /\ entered[t] = 0 /\ left[t] = 0

LEMMA FreshInv == Fresh => BarrierInv
PROOF
<1> SUFFICES ASSUME Fresh PROVE BarrierInv
  OBVIOUS
<1>1. /\ active \in 1..MaxThreads /\ Active \subseteq Threads /\ 0 \in Active
      /\ \A t \in Threads : at[t] = "out" /\ entered[t] = 0 /\ left[t] = 0
  BY ThreadAssumption DEF Fresh, Active, First, Threads
<1>2. /\ \A t \in Threads : Arrived(t) = 0 /\ Gathered(t) = 0
      /\ \A t \in Threads : Saw(t) = 0 /\ Woke(t, 0) = 0 /\ Woke(t, 1) = 0
      /\ Round = 0
  BY <1>1 DEF Arrived, Gathered, Saw, Woke, Round
<1>3. 0 % SenseValues = 0 /\ 1 % SenseValues = 1
  BY ThreadAssumption
<1>4. \A t \in Active : Node(t) \in Used(active)
  BY DEF Node, Used, Active
<1>5. BarrierTypes
  BY DEF Fresh, BarrierTypes
<1>6. LabelsInv
  BY <1>1 DEF LabelsInv
<1>7. RoundInv
  <2>1. \A t \in Active : sense[t] = 1
    BY DEF Fresh
  <2>2. \A t \in Active : sense[t] = (left[t] + 1) % SenseValues
    BY <1>1, <1>3, <2>1
  <2> QED BY <1>1, <1>2, <2>2 DEF RoundInv
<1>8. TreeInv
  <2> SUFFICES ASSUME NEW t \in Active, Leader(t)
               PROVE  /\ havechild[Node(t)] = HaveChild(Node(t), active)
                      /\ childnotready[Node(t)] = Cardinality(PendingNodes(t)) + Cardinality(PendingLocals(t))
                      /\ \A u \in Below(t) : Gathered(t) <= Arrived(u)
                      /\ at[t] = "reset" => childnotready[Node(t)] = 0
    BY DEF TreeInv
  <2>1. /\ havechild[Node(t)] = HaveChild(Node(t), active)
        /\ childnotready[Node(t)] = HaveChild(Node(t), active)
    BY <1>4 DEF Fresh
  <2>2. PendingLocals(t) = Locals(Node(t), active)
    <3>1. Locals(Node(t), active) \subseteq Active
      BY DEF Locals, Active
    <3> QED BY <1>1, <1>2, <3>1 DEF PendingLocals
  <2>3. PendingNodes(t) = Arrivals(Node(t), active)
    <3>1. ASSUME NEW q \in Arrivals(Node(t), active)
          PROVE  \E u \in Active : Leader(u) /\ Node(u) = q /\ Arrived(u) = Gathered(t)
      <4>1. PICK v \in First(active) : PackageOf[v] = q
        BY <3>1 DEF Arrivals, Used
      <4>2. v \in Threads /\ Node(v) = q /\ Node(v) \in Nat
        BY <1>1, <4>1, NodeTypes DEF Active, Node
      <4>3. PICK u \in First(active) : Leader(u) /\ Node(u) = q
        BY <1>1, <4>2, UsedDown
      <4> QED BY <1>1, <1>2, <4>3 DEF Active
    <3> QED BY <3>1 DEF PendingNodes
  <2>4. \A u \in Below(t) : Gathered(t) <= Arrived(u)
    BY <1>1, <1>2 DEF Below
  <2> QED BY <1>1, <2>1, <2>2, <2>3, <2>4 DEF HaveChild
<1>9. ReleaseInv
  <2>1. \A u \in Active : parentsense[Node(u)] = 0
    BY <1>4 DEF Fresh
  <2>2. \A u \in Active : Node(u) = 0 => parentsense[0] = 0
    BY <2>1
  <2> QED BY <1>1, <1>2, <1>3, <2>1, <2>2 DEF ReleaseInv
<1> QED BY <1>5, <1>6, <1>7, <1>8, <1>9 DEF BarrierInv

LEMMA ChildrenCounted ==
    ASSUME NEW n \in 1..MaxThreads, NEW p
    PROVE  HaveChild(p, n) \in Nat
PROOF BY PackageSets DEF HaveChild

LEMMA ConstructedInv ==
    ASSUME Constructed(1)
    PROVE  BarrierInv
PROOF
<1>1. Fresh
  <2>1. 1 \in 1..MaxThreads /\ 0 \in 0..(SenseValues - 1) /\ 1 \in 0..(SenseValues - 1)
    BY ThreadAssumption
  <2>2. Used(1) \subseteq Packages /\ active = 1 /\ Active = First(1) /\ Active \subseteq Threads
    BY <2>1, ThreadAssumption DEF Constructed, Used, Packages, First, Threads, Active
  <2>3. \A p \in Packages : HaveChild(p, 1) \in Nat
    BY <2>1, ChildrenCounted
  <2> QED BY <2>1, <2>2, <2>3 DEF Constructed, Fresh, Labels
<1> QED BY <1>1, FreshInv

LEMMA ReinitStep ==
    ASSUME BarrierInv, NEW n \in 1..MaxThreads, Reinit(n), UNCHANGED <<at, entered, left>>,
           \A t \in Threads : at[t] = "out" /\ entered[t] = 0 /\ left[t] = 0
    PROVE  BarrierInv'
PROOF
<1>1. Fresh'
  <2>1. 0 \in 0..(SenseValues - 1) /\ 1 \in 0..(SenseValues - 1)
    BY ThreadAssumption
  <2>2. /\ Used(n) \subseteq Packages /\ First(n) \subseteq Threads /\ Active' = First(n)
        /\ active' = n
    BY ThreadAssumption DEF Reinit, Used, Packages, First, Threads, Active
  <2>3. \A p \in Packages : HaveChild(p, n) \in Nat /\ childnotready[p] <= havechild[p]
    BY ChildrenCounted, CounterBound
  <2>4. /\ havechild' \in [Packages -> Nat] /\ childnotready' \in [Packages -> Nat]
        /\ parentsense' \in [Packages -> 0..(SenseValues - 1)]
        /\ sense' \in [Threads -> 0..(SenseValues - 1)]
    BY <2>1, <2>3 DEF Reinit, BarrierInv, BarrierTypes
  <2>5. /\ \A p \in Packages \ Used(n) : childnotready'[p] <= havechild'[p]
        /\ \A p \in Used(n) : /\ havechild'[p] = HaveChild(p, n) /\ childnotready'[p] = havechild'[p]
                              /\ parentsense'[p] = 0
        /\ \A t \in First(n) : sense'[t] = 1
    BY <2>2, <2>3 DEF Reinit
  <2>6. /\ at' \in [Threads -> Labels] /\ entered' \in [Threads -> Nat] /\ left' \in [Threads -> Nat]
        /\ \A t \in Threads : at'[t] = "out" /\ entered'[t] = 0 /\ left'[t] = 0
    BY DEF BarrierInv, BarrierTypes
  <2> QED BY <2>2, <2>4, <2>5, <2>6 DEF Fresh
<1>2. Fresh' => BarrierInv'
  BY FreshInv, PTL
<1> QED BY <1>1, <1>2

LEMMA SameBarrier ==
    ASSUME BarrierInv, UNCHANGED barVars
    PROVE  BarrierInv'
PROOF
<1>1. UNCHANGED <<active, havechild, childnotready, parentsense, sense, at, entered, left>>
  BY DEF barVars, nodeVars
<1>2. \A u : /\ Arrived(u)' = Arrived(u) /\ Gathered(u)' = Gathered(u)
             /\ Saw(u)' = Saw(u) /\ Woke(u, 0)' = Woke(u, 0) /\ Woke(u, 1)' = Woke(u, 1)
  BY <1>1 DEF Arrived, Gathered, Saw, Woke
<1>3. TreeInv'
  BY <1>1, <1>2, SameTree DEF BarrierInv, TreeInv
<1>4. ReleaseInv'
  BY <1>1, <1>2, SameRelease DEF BarrierInv
<1>5. BarrierTypes' /\ LabelsInv'
  BY <1>1 DEF BarrierInv, BarrierTypes, LabelsInv
<1>6. RoundInv'
  <2>1. Active' = Active /\ Round' = Round
    BY <1>1, <1>2 DEF Active, Round
  <2> QED BY <1>1, <1>2, <2>1 DEF BarrierInv, RoundInv
<1> QED BY <1>3, <1>4, <1>5, <1>6 DEF BarrierInv
-----------------------------------------------------------------------------
(* Counting commands.                                                      *)

LEMMA CommandFacts ==
    /\ Len(Commands) \in Nat \ {0} /\ DOMAIN Commands = 1..Len(Commands)
    /\ Commands[Len(Commands)] = "wait"
    /\ \A i \in DOMAIN Commands : Commands[i] \in {"call", "wait"}
PROOF BY PoolAssumption, LastWaitAssumption

LEMMA CountType ==
    ASSUME NEW kind, NEW i
    PROVE  /\ IsFiniteSet({j \in DOMAIN Commands : j < i /\ Commands[j] = kind})
           /\ Count(kind, i) \in Nat
PROOF
<1>1. IsFiniteSet(DOMAIN Commands)
  BY CommandFacts, FS_Interval
<1>2. IsFiniteSet({j \in DOMAIN Commands : j < i /\ Commands[j] = kind})
  BY <1>1, FS_Subset
<1> QED BY <1>2, FS_CardinalityType DEF Count

LEMMA CountFirst ==
    ASSUME NEW kind
    PROVE  Count(kind, 1) = 0
PROOF
<1>1. {j \in DOMAIN Commands : j < 1 /\ Commands[j] = kind} = {}
  BY CommandFacts
<1> QED BY <1>1, FS_EmptySet DEF Count

LEMMA CountNext ==
    ASSUME NEW kind, NEW i \in DOMAIN Commands
    PROVE  Count(kind, i + 1) = IF Commands[i] = kind THEN Count(kind, i) + 1 ELSE Count(kind, i)
PROOF
<1> DEFINE S(k) == {j \in DOMAIN Commands : j < k /\ Commands[j] = kind}
<1>1. IsFiniteSet(S(i)) /\ Count(kind, i) = Cardinality(S(i)) /\ Count(kind, i + 1) = Cardinality(S(i + 1))
  BY CountType DEF Count
<1>2. CASE Commands[i] = kind
  <2>1. S(i + 1) = S(i) \cup {i} /\ i \notin S(i)
    BY <1>2, CommandFacts
  <2> HIDE DEF S
  <2> QED BY <1>1, <1>2, <2>1, FS_AddElement
<1>3. CASE Commands[i] # kind
  <2>1. S(i + 1) = S(i)
    BY <1>3, CommandFacts
  <2> HIDE DEF S
  <2> QED BY <1>1, <1>3, <2>1
<1> QED BY <1>2, <1>3

LEMMA CountGrows ==
    ASSUME NEW kind, NEW i \in Int, NEW j \in Int, i <= j
    PROVE  Count(kind, i) <= Count(kind, j)
PROOF
<1> DEFINE S(k) == {m \in DOMAIN Commands : m < k /\ Commands[m] = kind}
<1>1. IsFiniteSet(S(j)) /\ Count(kind, i) = Cardinality(S(i)) /\ Count(kind, j) = Cardinality(S(j))
  BY CountType DEF Count
<1>2. S(i) \subseteq S(j)
  BY CommandFacts
<1> HIDE DEF S
<1> QED BY <1>1, <1>2, FS_Subset

\* Everything is counted, and the last wait is the last command.
LEMMA Totals ==
    /\ Total("call") \in Nat /\ Total("wait") \in Nat \ {0} /\ Calls = Total("call")
    /\ Count("call", Len(Commands)) = Total("call")
    /\ Count("wait", Len(Commands)) + 1 = Total("wait")
PROOF
<1>1. /\ Len(Commands) \in DOMAIN Commands /\ Commands[Len(Commands)] = "wait"
      /\ Len(Commands) \in Nat /\ DOMAIN Commands = 1..Len(Commands)
  BY CommandFacts
<1>2. Count("call", Len(Commands)) \in Nat /\ Count("wait", Len(Commands)) \in Nat
  BY CountType
<1>3. /\ Total("call") = Count("call", Len(Commands))
      /\ Total("wait") = Count("wait", Len(Commands)) + 1
  BY <1>1, CountNext DEF Total
<1>4. {i \in DOMAIN Commands : Commands[i] = "call"}
          = {i \in DOMAIN Commands : i < Len(Commands) + 1 /\ Commands[i] = "call"}
  BY <1>1
<1>5. Calls = Total("call")
  BY <1>4, Zenon DEF Calls, Total, Count
<1> QED BY <1>2, <1>3, <1>5

LEMMA Multiple ==
    ASSUME NEW r \in Int, NEW w \in Nat
    PROVE  /\ r * w \in Int /\ (r - 1) * w \in Int /\ r * w = (r - 1) * w + w
           /\ r \in Nat => r * w \in Nat
           /\ r \in Nat \ {0} => (r - 1) * w \in Nat
PROOF OBVIOUS

LEMMA PointerTypes ==
    ASSUME NEW p \in Pointers
    PROVE  /\ p.run \in Nat /\ p.index \in 0..(Len(Commands) + 1)
           /\ p = Null <=> p.run = 0
           /\ p # Null => p.run \in Nat \ {0} /\ p.index \in 1..(Len(Commands) + 1)
           /\ p = [run |-> p.run, index |-> p.index]
PROOF BY CommandFacts DEF Pointers, Null

\* The runs through which the commands before a pointer go.
LEMMA PassedTypes ==
    ASSUME NEW kind \in {"call", "wait"}, NEW p \in Pointers
    PROVE  /\ Passed(kind, p) \in Nat
           /\ Passed(kind, p) <= p.run * Total(kind) /\ p.run * Total(kind) \in Nat
           /\ p # Null => Passed(kind, p) = p.run * Total(kind) - Total(kind) + Count(kind, p.index)
PROOF
<1>1. /\ p.run \in Nat /\ (p = Null <=> p.run = 0) /\ Total(kind) \in Nat
      /\ p.index \in Int /\ p.index <= Len(Commands) + 1 /\ Len(Commands) \in Nat
  BY PointerTypes, Totals, CommandFacts
<1>2. Count(kind, p.index) \in Nat /\ Count(kind, p.index) <= Total(kind)
  <2>1. p.index \in Int /\ Len(Commands) + 1 \in Int
    BY <1>1
  <2>2. Count(kind, p.index) <= Count(kind, Len(Commands) + 1)
    BY <1>1, <2>1, CountGrows
  <2> QED BY <2>2, CountType DEF Total
<1>3. CASE p = Null
  BY <1>1, <1>3 DEF Passed
<1>4. CASE p # Null
  <2>1. /\ (p.run - 1) * Total(kind) \in Nat
        /\ p.run * Total(kind) = (p.run - 1) * Total(kind) + Total(kind)
    BY <1>1, <1>4, Multiple
  <2>2. Passed(kind, p) = (p.run - 1) * Total(kind) + Count(kind, p.index)
    BY <1>4 DEF Passed
  <2> HIDE DEF Passed
  <2>3. Passed(kind, p) = p.run * Total(kind) - Total(kind) + Count(kind, p.index)
    BY <1>1, <1>2, <2>1, <2>2
  <2> QED BY <1>1, <1>2, <1>4, <2>1, <2>2, <2>3
<1> QED BY <1>3, <1>4

LEMMA PassedBegin ==
    ASSUME NEW kind \in {"call", "wait"}, NEW r \in Nat \ {0}
    PROVE  Passed(kind, Begin(r)) = (r - 1) * Total(kind)
PROOF
<1>1. Begin(r) # Null /\ Begin(r).run = r /\ Begin(r).index = 1
  BY DEF Begin, Null
<1>2. (r - 1) * Total(kind) \in Nat
  BY Totals, Multiple
<1> QED BY <1>1, <1>2, CountFirst DEF Passed

LEMMA PassedNext ==
    ASSUME NEW kind, NEW p \in Pointers, p # Null, p.index \in DOMAIN Commands,
           NEW q, q = [p EXCEPT !.index = @ + 1]
    PROVE  /\ q \in Pointers /\ q # Null /\ q.run = p.run /\ q.index = p.index + 1
           /\ kind \in {"call", "wait"} =>
                 Passed(kind, q) = IF Commands[p.index] = kind THEN Passed(kind, p) + 1
                                                               ELSE Passed(kind, p)
PROOF
<1>1. /\ p = [run |-> p.run, index |-> p.index] /\ p.run \in Nat \ {0}
      /\ p.index \in 1..Len(Commands) /\ Len(Commands) \in Nat
  BY PointerTypes, CommandFacts
<1>2. q = [run |-> p.run, index |-> p.index + 1]
  BY <1>1
<1>3. q \in Pointers /\ q # Null /\ q.run = p.run /\ q.index = p.index + 1
  BY <1>1, <1>2 DEF Pointers, Null
<1>4. ASSUME kind \in {"call", "wait"}
      PROVE  Passed(kind, q) = IF Commands[p.index] = kind THEN Passed(kind, p) + 1
                                                           ELSE Passed(kind, p)
  <2>1. /\ Passed(kind, p) = p.run * Total(kind) - Total(kind) + Count(kind, p.index)
        /\ Passed(kind, q) = p.run * Total(kind) - Total(kind) + Count(kind, p.index + 1)
        /\ p.run * Total(kind) \in Nat /\ Total(kind) \in Nat
    BY <1>3, <1>4, PassedTypes, Totals
  <2>2. Count(kind, p.index) \in Nat
    BY CountType
  <2> QED BY <2>1, <2>2, CountNext
<1> QED BY <1>3, <1>4

\* At the end of a run, and in its last wait.
LEMMA PassedLast ==
    ASSUME NEW p \in Pointers, p # Null
    PROVE  /\ p.index = Len(Commands) + 1 =>
                 /\ Passed("call", p) = p.run * Total("call")
                 /\ Passed("wait", p) = p.run * Total("wait")
           /\ p.index = Len(Commands) =>
                 /\ Passed("call", p) = p.run * Total("call")
                 /\ Passed("wait", p) + 1 = p.run * Total("wait")
PROOF
<1> DEFINE calls == p.run * Total("call")
           waits == p.run * Total("wait")
<1>1. /\ Passed("call", p) = calls - Total("call") + Count("call", p.index)
      /\ Passed("wait", p) = waits - Total("wait") + Count("wait", p.index)
      /\ calls \in Nat /\ waits \in Nat
  BY PassedTypes
<1>2. Total("call") \in Nat /\ Total("wait") \in Nat
  BY Totals
<1> HIDE DEF calls, waits
<1>3. ASSUME p.index = Len(Commands) + 1
      PROVE  Passed("call", p) = calls /\ Passed("wait", p) = waits
  <2>1. Count("call", p.index) = Total("call") /\ Count("wait", p.index) = Total("wait")
    BY <1>3 DEF Total
  <2> QED BY <1>1, <1>2, <2>1
<1>4. ASSUME p.index = Len(Commands)
      PROVE  Passed("call", p) = calls /\ Passed("wait", p) + 1 = waits
  <2>1. Count("call", p.index) = Total("call") /\ Count("wait", p.index) + 1 = Total("wait")
    BY <1>4, Totals
  <2>2. Count("wait", p.index) \in Nat
    BY CountType
  <2> QED BY <1>1, <1>2, <2>1, <2>2
<1> QED BY <1>3, <1>4 DEF calls, waits
-----------------------------------------------------------------------------
(* The threads of the loops.                                               *)

LEMMA LoopFacts ==
    ASSUME OneCount
    PROVE  /\ LoopThreads \subseteq Threads /\ 0 \in LoopThreads
           /\ \A n \in Counts : n \in 1..MaxThreads /\ LoopThreads = First(n)
           /\ \A n, m \in Counts : n = m
PROOF
<1>1. PICK n : Counts = {n}
  BY DEF OneCount
<1>2. n \in 1..MaxThreads
  BY <1>1, PoolAssumption
<1>3. (CHOOSE k \in Counts : \A m \in Counts : m <= k) = n
  BY <1>1, <1>2
<1>4. LoopThreads = First(n)
  BY <1>3 DEF LoopThreads
<1> QED BY <1>1, <1>2, <1>4, ThreadAssumption DEF First, Threads

LEMMA LoopActive ==
    ASSUME OneCount, IInv, runs > 0
    PROVE  /\ Active = LoopThreads /\ First(activeThreads) = LoopThreads
           /\ activeThreads = active
PROOF
<1>1. activeThreads \in Counts /\ active \in Counts
  BY DEF IInv, PoolInv, MainInv
<1> QED BY <1>1, LoopFacts DEF Active

\* A thread in wait has entered one more wait than it left.
LEMMA EnteredOne ==
    ASSUME IInv, NEW u \in Threads
    PROVE  entered[u] = IF at[u] = "out" THEN left[u] ELSE left[u] + 1
PROOF BY DEF IInv, BarrierInv, LabelsInv

\* Nobody is behind a wait unless everybody has entered it.
LEMMA EnteredBehind ==
    ASSUME OneCount, IInv, ~shutdown, runs > 0,
           NEW t \in LoopThreads, NEW u \in LoopThreads,
           NEW i \in DOMAIN Commands, Commands[i] = "wait",
           workPtr[t].run = runs, workPtr[t].index > i
    PROVE  /\ workPtr[u].run = runs /\ workPtr[u].index >= i
           /\ workPtr[u].index = i => pc[u] = "wait"
PROOF
<1> DEFINE W == Total("wait")
           C(k) == Count("wait", k)
<1>1. /\ workPtr[t] \in Pointers /\ workPtr[u] \in Pointers /\ runs \in Nat
      /\ t \in Threads /\ u \in Threads /\ Place(u) /\ Place(t)
  BY LoopFacts DEF IInv, PoolInv, PoolTypes, PlaceInv
<1>2. /\ workPtr[u].run \in Nat /\ workPtr[u].index \in 0..(Len(Commands) + 1)
      /\ (workPtr[u] = Null <=> workPtr[u].run = 0)
      /\ workPtr[t].index \in Nat /\ workPtr[t] # Null
      /\ Len(Commands) \in Nat /\ DOMAIN Commands = 1..Len(Commands)
  BY <1>1, PointerTypes, CommandFacts
<1>3. left[t] <= entered[u] /\ left[t] \in Nat /\ entered[u] \in Nat /\ left[u] \in Nat
  <2>1. t \in Active /\ u \in Active /\ BarrierInv
    BY LoopActive DEF IInv
  <2> QED BY <2>1, <1>1, BarrierArguments, BarrierFacts
<1>4. W \in Nat \ {0} /\ runs * W \in Nat /\ (runs - 1) * W \in Nat /\ runs * W = (runs - 1) * W + W
  BY <1>1, Totals, Multiple
<1>5. \A k : C(k) \in Nat
  BY CountType
<1>6. \A k \in DOMAIN Commands : Commands[k] = "wait" => C(k + 1) = C(k) + 1
  BY CountNext
<1>7. \A k \in Int : \A m \in Int : k <= m => C(k) <= C(m)
  BY CountGrows
<1>8. left[t] = runs * W - W + C(workPtr[t].index)
  BY <1>1, <1>2, PassedTypes DEF Place
<1> HIDE DEF C, W
<1>9. left[t] >= runs * W - W + C(i) + 1
  <2>1. C(i + 1) <= C(workPtr[t].index) /\ C(i + 1) = C(i) + 1
    BY <1>2, <1>6, <1>7
  <2>2. C(i) \in Nat /\ C(workPtr[t].index) \in Nat
    BY <1>2, <1>5
  <2> QED BY <1>3, <1>4, <1>8, <2>1, <2>2
<1>10. entered[u] = IF pc[u] = "wait" THEN left[u] + 1 ELSE left[u]
  BY <1>1, EnteredOne DEF Place
<1>11. pc[u] = "wait" =>
          /\ workPtr[u].index \in DOMAIN Commands
          /\ C(workPtr[u].index + 1) = C(workPtr[u].index) + 1
  BY <1>1, <1>6 DEF Place
<1>12. workPtr[u] # Null => left[u] = workPtr[u].run * W - W + C(workPtr[u].index)
  BY <1>1, PassedTypes DEF Place, C, W
<1>13. C(workPtr[u].index) \in Nat /\ C(i) \in Nat
  BY <1>2, <1>5
<1>14. workPtr[u].run = runs
  <2>1. CASE workPtr[u].run = runs - 1
    <3>1. workPtr[u].run * W = (runs - 1) * W
      BY <2>1
    <3>2. left[u] <= (runs - 1) * W
      BY <1>1, <3>1, PassedTypes DEF Place, W
    <3>3. pc[u] = "wait" => entered[u] <= (runs - 1) * W
      <4> SUFFICES ASSUME pc[u] = "wait" PROVE entered[u] <= (runs - 1) * W
        OBVIOUS
      <4>1. workPtr[u] # Null /\ workPtr[u].index + 1 <= Len(Commands) + 1
        BY <1>1, <1>2, <1>11 DEF Place
      <4>2. C(workPtr[u].index + 1) <= W
        BY <1>2, <1>7, <4>1 DEF W, C, Total
      <4> QED BY <1>3, <1>4, <1>10, <1>11, <1>12, <1>13, <3>1, <4>1, <4>2
    <3> QED BY <1>3, <1>4, <1>9, <1>10, <1>13, <3>2, <3>3
  <2>2. workPtr[u].run \in {runs, runs - 1}
    BY <1>1 DEF Place
  <2> QED BY <2>1, <2>2
<1>15. left[u] = runs * W - W + C(workPtr[u].index)
  BY <1>1, <1>2, <1>12, <1>14
<1>16. workPtr[u].index < i => entered[u] <= runs * W - W + C(i)
  <2> SUFFICES ASSUME workPtr[u].index < i
               PROVE  entered[u] <= runs * W - W + C(i)
    OBVIOUS
  <2>1. C(workPtr[u].index) <= C(i) /\ C(workPtr[u].index + 1) <= C(i)
    BY <1>2, <1>7
  <2> QED BY <1>3, <1>4, <1>10, <1>11, <1>13, <1>15, <2>1
<1>17. workPtr[u].index >= i
  <2> DEFINE before == runs * W - W + C(i)
  <2>1. before \in Int
    BY <1>4, <1>13
  <2>2. left[t] >= before + 1 /\ (workPtr[u].index < i => entered[u] <= before)
    BY <1>9, <1>16
  <2>3. workPtr[u].index \in Int /\ i \in Int
    BY <1>2
  <2> HIDE DEF before
  <2> QED BY <1>3, <2>1, <2>2, <2>3
<1>18. workPtr[u].index = i => pc[u] = "wait"
  BY <1>3, <1>4, <1>9, <1>10, <1>13, <1>15
<1> QED BY <1>14, <1>17, <1>18

\* When the main thread is through, so is everybody.
LEMMA EverybodyFinished ==
    ASSUME OneCount, IInv, ~shutdown, pc[0] = "command", workPtr[0] = workEndL[0],
           NEW u \in LoopThreads
    PROVE  workPtr[u].run = runs /\ Finished(u)
PROOF
<1>1. /\ 0 \in LoopThreads /\ u \in Threads /\ runs > 0 /\ runs \in Nat
      /\ Place(0) /\ ~Old(0) /\ workPtr[u] \in Pointers
  BY LoopFacts DEF IInv, PoolInv, PoolTypes, MainInv, Working, PlaceInv, WakeInv
<1>2. workPtr[0].run = runs /\ workPtr[0] = End(runs)
  BY <1>1 DEF Place, Old
<1>3. workPtr[0].index = Len(Commands) + 1
  BY <1>2 DEF End
<1>4. /\ Len(Commands) \in DOMAIN Commands /\ Len(Commands) \in Nat
      /\ Commands[Len(Commands)] = "wait" /\ workPtr[0].index > Len(Commands)
  BY <1>3, CommandFacts
<1>5. /\ workPtr[u].run = runs /\ workPtr[u].index >= Len(Commands)
      /\ workPtr[u].index = Len(Commands) => pc[u] = "wait"
  BY <1>1, <1>2, <1>4, EnteredBehind
<1>6. workPtr[u].index \in 0..(Len(Commands) + 1)
  BY <1>1, PointerTypes
<1> QED BY <1>4, <1>5, <1>6 DEF Finished
-----------------------------------------------------------------------------
(* Steps of one thread.                                                    *)

Still(u) == UNCHANGED <<pc[u], workPtr[u], workEndL[u], called[u], left[u], entered[u], at[u]>>

LEMMA SamePlace ==
    ASSUME NEW u, Place(u), Still(u), runs' = runs, Working' = Working
    PROVE  Place(u)'
PROOF BY DEF Place, Still, Old, Finished

LEMMA SameOld ==
    ASSUME NEW u, Still(u), runs' = runs
    PROVE  Old(u)' = Old(u) /\ Cascaded(u)' = Cascaded(u) /\ Finished(u)' = Finished(u)
PROOF BY DEF Still, Old, Cascaded, Finished

LEMMA SameWake ==
    ASSUME OneCount, WakeInv, UNCHANGED starts,
           \A u \in LoopThreads : Old(u)' = Old(u) /\ Cascaded(u)' = Cascaded(u)
    PROVE  WakeInv'
PROOF
<1>1. 0 \in LoopThreads
  BY LoopFacts
<1> QED BY <1>1 DEF WakeInv

\* A thread of the loops takes a step of its own, before shutdown.
OwnStep(t) ==
    /\ \A u \in Threads \ {t} : Still(u)
    /\ UNCHANGED <<shutdown, starting, workBegin, workEnd, activeThreads, active, runs, due>>
    /\ \A u \in Threads \ LoopThreads : starts'[u] = starts[u]
    /\ t = 0 => Working /\ Working'
    /\ runs = 0 => UNCHANGED <<entered[t], left[t], at[t]>>

LEMMA OwnStepInv ==
    ASSUME OneCount, IInv, ~shutdown, NEW t \in LoopThreads, OwnStep(t),
           BarrierInv', PoolTypes', WakeInv', Place(t)'
    PROVE  IInv'
PROOF
<1>1. /\ t \in Threads /\ 0 \in Threads /\ LoopThreads \subseteq Threads
      /\ \A u \in Threads \ {t} : Still(u)
  BY LoopFacts DEF OwnStep
<1>2. Working' = Working
  <2>1. CASE t = 0
    BY <2>1 DEF OwnStep, Working
  <2>2. CASE t # 0
    BY <1>1, <2>2 DEF Working, Still
  <2> QED BY <2>1, <2>2
<1>3. MainInv'
  <2>1. CASE t = 0
    BY <1>1, <2>1 DEF OwnStep, Working, IInv, PoolInv, MainInv, Still
  <2>2. CASE t # 0
    BY <1>1, <1>2, <2>2 DEF OwnStep, IInv, PoolInv, MainInv, Still
  <2> QED BY <2>1, <2>2
<1>4. PlaceInv'
  <2>1. \A u \in LoopThreads \ {t} : Place(u)'
    <3> SUFFICES ASSUME NEW u \in LoopThreads \ {t} PROVE Place(u)'
      OBVIOUS
    <3>1. Place(u) /\ Still(u) /\ runs' = runs
      BY <1>1 DEF OwnStep, IInv, PoolInv, PlaceInv
    <3> QED BY <1>2, <3>1, SamePlace
  <2>2. \A u \in Threads \ LoopThreads : Aside(u)'
    BY <1>1 DEF OwnStep, IInv, PoolInv, PlaceInv, Aside, Still
  <2> QED BY <2>1, <2>2 DEF PlaceInv
<1>5. ~shutdown'
  BY DEF OwnStep
<1> QED BY <1>3, <1>4, <1>5 DEF IInv, PoolInv

LEMMA QuietStepInv ==
    ASSUME OneCount, IInv, ~shutdown, NEW t \in LoopThreads, OwnStep(t), UNCHANGED starts,
           BarrierInv', PoolTypes', Place(t)',
           Old(t)' = Old(t), Cascaded(t)' = Cascaded(t)
    PROVE  IInv'
PROOF
<1>1. \A u \in LoopThreads : Old(u)' = Old(u) /\ Cascaded(u)' = Cascaded(u)
  BY LoopFacts, SameOld DEF OwnStep
<1>2. WakeInv'
  BY <1>1, SameWake DEF IInv, PoolInv
<1> QED BY <1>2, OwnStepInv
-----------------------------------------------------------------------------
(* doWork, before shutdown.                                                *)

LEMMA MemberFacts ==
    ASSUME OneCount, IInv, ~shutdown, NEW t \in LoopThreads
    PROVE  /\ t \in Threads /\ t \in Nat /\ 0 \in Threads /\ Place(t) /\ runs \in Nat
           /\ workPtr[t] \in Pointers /\ workPtr[t].run \in Nat
           /\ workPtr[t] = Null <=> workPtr[t].run = 0
           /\ workPtr[t].index \in 0..(Len(Commands) + 1)
           /\ BarrierInv /\ PoolTypes /\ MainInv /\ WakeInv
           /\ Working => runs > 0 /\ starting = activeThreads
PROOF
<1>1. t \in Threads /\ 0 \in Threads
  BY LoopFacts
<1>2. workPtr[t] \in Pointers
  BY <1>1 DEF IInv, PoolInv, PoolTypes, Places
<1>3. t \in Nat
  BY <1>1, ThreadAssumption DEF Threads
<1> QED BY <1>1, <1>2, <1>3, PointerTypes DEF IInv, PoolInv, PoolTypes, PlaceInv, MainInv

LEMMA OnlyLoops ==
    ASSUME OneCount, IInv, ~shutdown, NEW t \in Threads,
           pc[t] \in {"cascade", "begin", "end", "command", "wait"}
    PROVE  t \in LoopThreads /\ runs > 0 /\ (t = 0 => Working)
PROOF
<1>1. t \in LoopThreads
  BY DEF IInv, PoolInv, PlaceInv, Aside
<1>2. runs > 0
  BY <1>1, MemberFacts DEF Place
<1> QED BY <1>1, <1>2 DEF Working

LEMMA CascadeStep ==
    ASSUME OneCount, IInv, ~shutdown, NEW t \in Threads, Cascade(t)
    PROVE  IInv'
PROOF
<1>1. /\ t \in LoopThreads /\ runs > 0 /\ (t = 0 => Working) /\ pc[t] = "cascade"
      /\ pc' = [pc EXCEPT ![t] = "begin"] /\ pc \in [Threads -> Places]
      /\ starts \in [Threads -> Nat] /\ Place(t) /\ WakeInv
  BY OnlyLoops, MemberFacts DEF Cascade, On, Goto, PoolTypes
<1>2. Woken(t) = {u \in LoopThreads : u = 2 * t + 1 \/ u = 2 * t + 2} /\ t \in Nat /\ t \in Threads
  <2>1. Working /\ starting = activeThreads /\ LoopThreads = First(activeThreads) /\ t \in Nat
    BY <1>1, MemberFacts, LoopActive DEF Place
  <2>2. activeThreads \in Nat
    BY <1>1, MemberFacts, ThreadAssumption DEF PoolTypes
  <2> QED BY <1>1, <2>1, <2>2 DEF Woken, First
<1>3. /\ UNCHANGED <<shutdown, starting, workBegin, workEnd, activeThreads, barVars, workPtr, workEndL,
                     runs, called, due>>
      /\ starts' = [u \in Threads |-> IF u \in Woken(t) THEN starts[u] + 1 ELSE starts[u]]
  BY DEF Cascade, Release, UnchangedWork, UnchangedHistory
<1>4. BarrierInv'
  BY <1>3, SameBarrier DEF IInv
<1>5. OwnStep(t)
  BY <1>1, <1>2, <1>3 DEF OwnStep, Still, Working, barVars
<1>6. PoolTypes'
  BY <1>1, <1>3 DEF IInv, PoolInv, PoolTypes, Places
<1>7. Place(t)'
  <2>1. Working'
    BY <1>1 DEF Place, Working
  <2> QED BY <1>1, <1>2, <1>3, <2>1 DEF Place, Old, Finished, barVars
<1>8. WakeInv'
  <2>1. \A u \in LoopThreads \ {t} : Old(u)' = Old(u) /\ Cascaded(u)' = Cascaded(u)
    BY <1>1, <1>5, LoopFacts, SameOld DEF OwnStep
  <2>2. ~Old(t) /\ ~Old(t)' /\ ~Cascaded(t) /\ Cascaded(t)'
    BY <1>1, <1>2 DEF Old, Cascaded
  <2>3. starts'[0] = 0 /\ ~Old(0)'
    <3>1. 0 \notin Woken(t) /\ 0 \in Threads /\ 0 \in LoopThreads
      BY <1>2, LoopFacts
    <3> QED BY <1>1, <1>3, <2>1, <2>2, <3>1 DEF WakeInv
  <2>4. ASSUME NEW p \in LoopThreads, NEW u \in LoopThreads, u = 2 * p + 1 \/ u = 2 * p + 2
        PROVE  /\ starts'[u] = IF Old(u)' /\ Cascaded(p)' THEN 1 ELSE 0
               /\ ~Old(u)' => Cascaded(p)'
    <3>1. /\ starts[u] = IF Old(u) /\ Cascaded(p) THEN 1 ELSE 0
          /\ ~Old(u) => Cascaded(p)
      BY <1>1, <2>4 DEF WakeInv
    <3>2. p \in Nat /\ u \in Nat /\ u \in Threads
      BY LoopFacts, ThreadAssumption DEF Threads
    <3>3. CASE p = t
      <4>1. u \in Woken(t) /\ u # t
        BY <1>2, <2>4, <3>2, <3>3
      <4>2. starts'[u] = starts[u] + 1
        BY <1>3, <3>2, <4>1
      <4> QED BY <2>1, <2>2, <3>1, <3>3, <4>1, <4>2
    <3>4. CASE p # t
      <4>1. u \notin Woken(t)
        BY <1>2, <2>4, <3>2, <3>4
      <4>2. starts'[u] = starts[u]
        BY <1>3, <3>2, <4>1
      <4> QED BY <2>1, <2>2, <3>1, <3>4, <4>2
    <3> QED BY <3>3, <3>4
  <2> QED BY <2>3, <2>4 DEF WakeInv
<1> QED BY <1>1, <1>4, <1>5, <1>6, <1>7, <1>8, OwnStepInv

LEMMA ReadBeginStep ==
    ASSUME OneCount, IInv, ~shutdown, NEW t \in Threads, ReadBegin(t)
    PROVE  IInv'
PROOF
<1>1. /\ t \in LoopThreads /\ runs > 0 /\ (t = 0 => Working) /\ pc[t] = "begin"
      /\ pc' = [pc EXCEPT ![t] = "end"] /\ pc \in [Threads -> Places]
      /\ workPtr' = [workPtr EXCEPT ![t] = workBegin] /\ workPtr \in [Threads -> Pointers]
      /\ UNCHANGED <<starts, shutdown, starting, workBegin, workEnd, activeThreads, workEndL, barVars,
                     runs, called, due>>
      /\ Place(t) /\ Working /\ workBegin = Begin(runs) /\ runs \in Nat /\ t \in Threads
  BY OnlyLoops, MemberFacts DEF ReadBegin, On, Goto, PoolTypes, UnchangedHistory, Place, MainInv
<1>2. BarrierInv'
  BY <1>1, SameBarrier DEF IInv
<1>3. Working'
  BY <1>1 DEF Working
<1>4. OwnStep(t)
  BY <1>1, <1>3 DEF OwnStep, Still, barVars
<1>5. PoolTypes'
  BY <1>1 DEF IInv, PoolInv, PoolTypes, Places
<1>6. Begin(runs).run = runs /\ Begin(runs) # Null
  BY <1>1 DEF Begin, Null
<1>7. called[t] = Passed("call", Begin(runs)) /\ left[t] = Passed("wait", Begin(runs))
  <2> DEFINE p == workPtr[t]
  <2>1. p \in Pointers /\ p.run = runs - 1 /\ (p = Null <=> p.run = 0) /\ Finished(t)
    BY <1>1, MemberFacts DEF Place
  <2>2. /\ Passed("call", Begin(runs)) = (runs - 1) * Total("call")
        /\ Passed("wait", Begin(runs)) = (runs - 1) * Total("wait")
    BY <1>1, PassedBegin
  <2>3. CASE p = Null
    <3>1. /\ Passed("call", p) = 0 /\ Passed("wait", p) = 0 /\ runs - 1 = 0
          /\ Total("call") \in Nat /\ Total("wait") \in Nat
      BY <1>1, <2>1, <2>3, Totals DEF Passed
    <3>2. (runs - 1) * Total("call") = 0 /\ (runs - 1) * Total("wait") = 0
      BY <3>1
    <3> QED BY <1>1, <2>2, <3>1, <3>2 DEF Place
  <2>4. CASE p # Null
    <3>1. p.index = Len(Commands) + 1
      BY <1>1, <2>1, <2>4 DEF Finished
    <3>2. Passed("call", p) = p.run * Total("call") /\ Passed("wait", p) = p.run * Total("wait")
      BY <2>1, <2>4, <3>1, PassedLast
    <3> QED BY <1>1, <2>1, <2>2, <3>2 DEF Place
  <2> QED BY <2>3, <2>4
<1>8. Place(t)'
  BY <1>1, <1>3, <1>6, <1>7 DEF Place, Old, barVars
<1>9. Old(t)' = Old(t) /\ Cascaded(t)' = Cascaded(t)
  BY <1>1, <1>6 DEF Old, Cascaded
<1> QED BY <1>1, <1>2, <1>4, <1>5, <1>8, <1>9, QuietStepInv

LEMMA ReadEndStep ==
    ASSUME OneCount, IInv, ~shutdown, NEW t \in Threads, ReadEnd(t)
    PROVE  IInv'
PROOF
<1>1. /\ t \in LoopThreads /\ runs > 0 /\ (t = 0 => Working) /\ pc[t] = "end"
      /\ pc' = [pc EXCEPT ![t] = "command"] /\ pc \in [Threads -> Places]
      /\ workEndL' = [workEndL EXCEPT ![t] = workEnd] /\ workEndL \in [Threads -> Pointers]
      /\ UNCHANGED <<starts, shutdown, starting, workBegin, workEnd, activeThreads, workPtr, barVars,
                     runs, called, due>>
      /\ Place(t) /\ Working /\ workEnd = End(runs) /\ runs \in Nat /\ t \in Threads
  BY OnlyLoops, MemberFacts DEF ReadEnd, On, Goto, PoolTypes, UnchangedHistory, Place, MainInv
<1>2. BarrierInv'
  BY <1>1, SameBarrier DEF IInv
<1>3. Working'
  BY <1>1 DEF Working
<1>4. OwnStep(t)
  BY <1>1, <1>3 DEF OwnStep, Still, barVars
<1>5. PoolTypes'
  BY <1>1 DEF IInv, PoolInv, PoolTypes, Places
<1>6. workPtr[t].run = runs
  BY <1>1 DEF Place, Begin
<1>7. Place(t)'
  BY <1>1, <1>3, <1>6 DEF Place, Old, barVars
<1>8. Old(t)' = Old(t) /\ Cascaded(t)' = Cascaded(t)
  BY <1>1, <1>6 DEF Old, Cascaded
<1> QED BY <1>1, <1>2, <1>4, <1>5, <1>7, <1>8, QuietStepInv

\* A thread with more commands is in the run of the main thread.
LEMMA MoreFacts ==
    ASSUME OneCount, IInv, ~shutdown, NEW t \in Threads, More(t)
    PROVE  /\ t \in LoopThreads /\ runs > 0 /\ (t = 0 => Working) /\ pc[t] = "command"
           /\ Place(t) /\ Working /\ runs \in Nat /\ workPtr[t].run = runs
           /\ workPtr[t] \in Pointers /\ workPtr[t] # Null /\ workPtr[t].index \in DOMAIN Commands
PROOF
<1>1. /\ t \in LoopThreads /\ runs > 0 /\ (t = 0 => Working) /\ pc[t] = "command"
      /\ Place(t) /\ workPtr[t] # Null /\ workEndL[t] = End(workPtr[t].run) /\ runs \in Nat
      /\ workPtr[t] \in Pointers
  BY OnlyLoops, MemberFacts DEF More, On, Place
<1>2. /\ workPtr[t] = [run |-> workPtr[t].run, index |-> workPtr[t].index]
      /\ workPtr[t].index \in 1..(Len(Commands) + 1)
  BY <1>1, PointerTypes
<1>3. workPtr[t].index # Len(Commands) + 1
  BY <1>1, <1>2 DEF More, End
<1>4. workPtr[t].index \in DOMAIN Commands
  BY <1>2, <1>3, CommandFacts
<1>5. ~Finished(t)
  BY <1>1, <1>3 DEF Finished
<1> QED BY <1>1, <1>4, <1>5 DEF Place, Old

LEMMA CallStep ==
    ASSUME OneCount, IInv, ~shutdown, NEW t \in Threads, Call(t)
    PROVE  IInv'
PROOF
<1>1. /\ t \in LoopThreads /\ runs > 0 /\ (t = 0 => Working) /\ pc[t] = "command"
      /\ Place(t) /\ Working /\ runs \in Nat /\ workPtr[t].run = runs
      /\ workPtr[t] \in Pointers /\ workPtr[t] # Null /\ workPtr[t].index \in DOMAIN Commands
      /\ Commands[workPtr[t].index] = "call"
  BY MoreFacts DEF Call
<1> DEFINE q == [workPtr[t] EXCEPT !.index = @ + 1]
<1>2. /\ workPtr' = [workPtr EXCEPT ![t] = q] /\ workPtr \in [Threads -> Pointers]
      /\ called' = [called EXCEPT ![t] = @ + 1] /\ called \in [Threads -> Nat]
      /\ UNCHANGED <<starts, shutdown, starting, workBegin, workEnd, activeThreads, workEndL, pc, barVars,
                     runs, due>>
  BY DEF Call, Advance, UnchangedShared, IInv, PoolInv, PoolTypes
<1>3. /\ q \in Pointers /\ q # Null /\ q.run = runs
      /\ Passed("call", q) = Passed("call", workPtr[t]) + 1
      /\ Passed("wait", q) = Passed("wait", workPtr[t])
  BY <1>1, PassedNext
<1> HIDE DEF q
<1>4. workPtr'[t] = q /\ called'[t] = called[t] + 1
  BY <1>2
<1>5. BarrierInv'
  BY <1>2, SameBarrier DEF IInv
<1>6. Working'
  BY <1>1, <1>2 DEF Working
<1>7. OwnStep(t)
  BY <1>1, <1>2, <1>6 DEF OwnStep, Still, barVars
<1>8. PoolTypes'
  BY <1>1, <1>2, <1>3 DEF IInv, PoolInv, PoolTypes, Places
<1>9. Place(t)'
  BY <1>1, <1>2, <1>3, <1>4, <1>6 DEF Place, Old, barVars
<1>10. Old(t)' = Old(t) /\ Cascaded(t)' = Cascaded(t)
  BY <1>1, <1>2, <1>3, <1>4 DEF Old, Cascaded
<1> QED BY <1>1, <1>2, <1>5, <1>7, <1>8, <1>9, <1>10, QuietStepInv

LEMMA EnterWaitStep ==
    ASSUME OneCount, IInv, ~shutdown, NEW t \in Threads, EnterWait(t)
    PROVE  IInv'
PROOF
<1>1. /\ t \in LoopThreads /\ runs > 0 /\ (t = 0 => Working) /\ pc[t] = "command"
      /\ Place(t) /\ Working /\ runs \in Nat /\ workPtr[t].run = runs
      /\ workPtr[t] \in Pointers /\ workPtr[t] # Null /\ workPtr[t].index \in DOMAIN Commands
      /\ Commands[workPtr[t].index] = "wait"
  BY MoreFacts DEF EnterWait
<1>2. /\ pc' = [pc EXCEPT ![t] = "wait"] /\ pc \in [Threads -> Places] /\ Enter(t)
      /\ UNCHANGED <<starts, shutdown, starting, workBegin, workEnd, activeThreads, workPtr, workEndL,
                     runs, called, due>>
  BY DEF EnterWait, Goto, UnchangedShared, UnchangedHistory, IInv, PoolInv, PoolTypes
<1>3. BarrierInv'
  <2>1. t \in Active
    BY <1>1, LoopActive
  <2> QED BY <1>2, <2>1, EnterStep DEF IInv
<1>4. /\ UNCHANGED <<active, left>> /\ at'[t] # "out"
      /\ \A u \in Threads \ {t} : at'[u] = at[u] /\ entered'[u] = entered[u]
  BY <1>2 DEF Enter, Move, IInv, BarrierInv, BarrierTypes
<1>5. Working'
  BY <1>1, <1>2 DEF Working
<1>6. OwnStep(t)
  BY <1>1, <1>2, <1>4, <1>5 DEF OwnStep, Still
<1>7. PoolTypes'
  BY <1>1, <1>2 DEF IInv, PoolInv, PoolTypes, Places
<1>8. Place(t)'
  <2>1. pc'[t] = "wait" /\ t \in Threads
    BY <1>2, LoopFacts, <1>1 DEF Places
  <2> QED BY <1>1, <1>2, <1>4, <1>5, <2>1 DEF Place, Old
<1>9. Old(t)' = Old(t) /\ Cascaded(t)' = Cascaded(t)
  BY <1>1, <1>2 DEF Old, Cascaded
<1> QED BY <1>1, <1>2, <1>3, <1>6, <1>7, <1>8, <1>9, QuietStepInv

LEMMA StepWaitStep ==
    ASSUME OneCount, IInv, ~shutdown, NEW t \in Threads, StepWait(t)
    PROVE  IInv'
PROOF
<1>1. /\ t \in LoopThreads /\ runs > 0 /\ (t = 0 => Working) /\ pc[t] = "wait"
      /\ Place(t) /\ runs \in Nat /\ workPtr[t] \in Pointers /\ workPtr[t] # Null
      /\ workPtr[t].index \in DOMAIN Commands /\ Commands[workPtr[t].index] = "wait"
  BY OnlyLoops, MemberFacts DEF StepWait, On, Place
<1> DEFINE q == [workPtr[t] EXCEPT !.index = @ + 1]
<1>2. /\ \/ left'[t] = left[t] /\ UNCHANGED <<pc, workPtr>>
         \/ left'[t] # left[t] /\ pc' = [pc EXCEPT ![t] = "command"] /\ workPtr' = [workPtr EXCEPT ![t] = q]
      /\ UNCHANGED <<starts, shutdown, starting, workBegin, workEnd, activeThreads, workEndL,
                     runs, called, due>>
      /\ pc \in [Threads -> Places] /\ workPtr \in [Threads -> Pointers] /\ InWait(t)
  BY DEF StepWait, Goto, Advance, UnchangedShared, UnchangedHistory, IInv, PoolInv, PoolTypes
<1>3. /\ q \in Pointers /\ q # Null /\ q.run = workPtr[t].run /\ q.index = workPtr[t].index + 1
      /\ Passed("call", q) = Passed("call", workPtr[t])
      /\ Passed("wait", q) = Passed("wait", workPtr[t]) + 1
  BY <1>1, PassedNext
<1> HIDE DEF q
<1>4. BarrierInv'
  BY <1>2, InWaitStep DEF IInv
<1>5. /\ UNCHANGED <<active, entered>> /\ \A u \in Threads \ {t} : at'[u] = at[u] /\ left'[u] = left[u]
      /\ \/ left'[t] = left[t] /\ at'[t] # "out"
         \/ left'[t] = left[t] + 1 /\ at'[t] = "out"
      /\ left[t] \in Nat
  <2>1. /\ active' = active /\ entered' = entered
        /\ \/ left' = left /\ at'[t] # "out"
           \/ left' = [left EXCEPT ![t] = @ + 1] /\ at'[t] = "out"
        /\ \A u \in Threads \ {t} : at'[u] = at[u]
    BY <1>2, LeavingIsFair DEF IInv
  <2>2. left \in [Threads -> Nat]
    BY DEF IInv, BarrierInv, BarrierTypes
  <2> QED BY <2>1, <2>2
<1>6. /\ t = 0 => Working'
      /\ Working' = Working
  <2>1. 0 \in Threads /\ t \in Threads
    BY LoopFacts
  <2>2. CASE t = 0
    <3>1. pc'[0] \in {"wait", "command"} /\ pc[0] = "wait"
      BY <1>1, <1>2, <2>1, <2>2
    <3> QED BY <3>1 DEF Working
  <2>3. CASE t # 0
    <3>1. pc'[0] = pc[0]
      BY <1>2, <2>1, <2>3
    <3> QED BY <2>3, <3>1 DEF Working
  <2> QED BY <2>2, <2>3
<1>7. OwnStep(t)
  BY <1>1, <1>2, <1>5, <1>6 DEF OwnStep, Still
<1>8. PoolTypes'
  BY <1>1, <1>2, <1>3 DEF IInv, PoolInv, PoolTypes, Places
<1>9. Place(t)' /\ Old(t)' = Old(t) /\ Cascaded(t)' = Cascaded(t)
  <2>1. CASE left'[t] = left[t]
    <3>1. UNCHANGED <<pc, workPtr, workEndL, called, runs>> /\ left'[t] = left[t] /\ at'[t] # "out"
      BY <1>2, <1>5, <2>1
    <3>2. at[t] # "out"
      BY <1>1 DEF Place
    <3> QED BY <1>1, <1>6, <3>1, <3>2 DEF Place, Old, Cascaded, Finished
  <2>2. CASE left'[t] # left[t]
    <3>1. /\ pc'[t] = "command" /\ workPtr'[t] = q /\ left'[t] = left[t] + 1 /\ at'[t] = "out"
          /\ UNCHANGED <<workEndL, called, runs>>
      BY <1>2, <1>5, <2>2
    <3>2. Old(t)' = Old(t) /\ Cascaded(t)' = Cascaded(t)
      BY <1>1, <1>3, <3>1 DEF Old, Cascaded
    <3>3. Finished(t) => Finished(t)'
      <4>1. workPtr[t].index # Len(Commands) + 1
        BY <1>1, CommandFacts
      <4> QED BY <1>1, <1>3, <3>1, <4>1 DEF Finished
    <3>4. Place(t)'
      BY <1>1, <1>3, <1>6, <3>1, <3>2, <3>3 DEF Place
    <3> QED BY <3>2, <3>4
  <2> QED BY <2>1, <2>2
<1> QED BY <1>1, <1>2, <1>4, <1>7, <1>8, <1>9, QuietStepInv

LEMMA WorkerDone ==
    ASSUME OneCount, IInv, ~shutdown, NEW t \in Workers, DoneWork(t)
    PROVE  IInv'
PROOF
<1>1. /\ t \in LoopThreads /\ runs > 0 /\ pc[t] = "command" /\ t # 0 /\ t \in Threads
      /\ Place(t) /\ runs \in Nat /\ workPtr[t] = workEndL[t] /\ workPtr[t].index = Len(Commands) + 1
  <2>1. /\ t \in Threads /\ t # 0 /\ pc[t] = "command" /\ workPtr[t] = workEndL[t]
    BY DEF DoneWork, On, Workers
  <2>2. t \in LoopThreads /\ runs > 0
    BY <2>1, OnlyLoops
  <2>3. Place(t) /\ runs \in Nat
    BY <2>2, MemberFacts
  <2>4. workPtr[t] = End(workPtr[t].run)
    BY <2>1, <2>3 DEF Place
  <2> QED BY <2>1, <2>2, <2>3, <2>4 DEF End
<1>2. /\ pc' = [pc EXCEPT ![t] = "launch"] /\ pc \in [Threads -> Places]
      /\ UNCHANGED <<starts, shutdown, starting, workBegin, workEnd, activeThreads, workPtr, workEndL,
                     barVars, runs, called, due>>
  BY <1>1 DEF DoneWork, Goto, UnchangedShared, UnchangedHistory, IInv, PoolInv, PoolTypes
<1>3. BarrierInv'
  BY <1>2, SameBarrier DEF IInv
<1>4. Working' = Working
  BY <1>1, <1>2 DEF Working
<1>5. OwnStep(t)
  BY <1>1, <1>2 DEF OwnStep, Still, barVars
<1>6. PoolTypes'
  BY <1>1, <1>2 DEF IInv, PoolInv, PoolTypes, Places
<1>7. Place(t)'
  <2>1. pc'[t] = "launch"
    BY <1>1, <1>2
  <2> QED BY <1>1, <1>2, <1>4, <2>1 DEF Place, Old, Finished, barVars
<1>8. Old(t)' = Old(t) /\ Cascaded(t)' = Cascaded(t)
  BY <1>1, <1>2 DEF Old, Cascaded
<1> QED BY <1>1, <1>2, <1>3, <1>5, <1>6, <1>7, <1>8, QuietStepInv

LEMMA MainDone ==
    ASSUME OneCount, IInv, ~shutdown, DoneWork(0)
    PROVE  IInv'
PROOF
<1>1. /\ 0 \in Threads /\ 0 \in LoopThreads /\ runs > 0 /\ pc[0] = "command" /\ runs \in Nat
      /\ workPtr[0] = workEndL[0] /\ Working
      /\ MainInv /\ WakeInv /\ PoolTypes
  BY LoopFacts, MemberFacts DEF DoneWork, On, Working
<1>2. /\ pc' = [pc EXCEPT ![0] = "clean"] /\ pc \in [Threads -> Places]
      /\ UNCHANGED <<starts, shutdown, starting, workBegin, workEnd, activeThreads, workPtr, workEndL,
                     barVars, runs, called, due>>
  BY <1>1 DEF DoneWork, Goto, UnchangedShared, UnchangedHistory, PoolTypes
<1>3. BarrierInv'
  BY <1>2, SameBarrier DEF IInv
<1>4. PoolTypes'
  BY <1>1, <1>2 DEF PoolTypes, Places
<1>5. MainInv' /\ ~shutdown' /\ ~Working'
  BY <1>1, <1>2 DEF MainInv, Working, barVars
<1>6. ASSUME NEW u \in LoopThreads PROVE Place(u)'
  <2>1. /\ workPtr[u].run = runs /\ Finished(u) /\ Place(u) /\ u \in Threads
        /\ workPtr[u] = Null <=> workPtr[u].run = 0
    BY <1>1, EverybodyFinished, MemberFacts
  <2>2. pc[u] \notin {"cascade", "begin", "end"}
    BY <1>1, <2>1, CommandFacts DEF Place, Finished, Begin
  <2>3. Finished(u)'
    BY <1>1, <1>2, <2>1 DEF Finished
  <2>4. CASE u = 0
    BY <1>1, <1>2, <2>1, <2>3, <2>4 DEF Place, Old, barVars
  <2>5. CASE u # 0
    BY <1>1, <1>2, <2>1, <2>2, <2>3, <2>5 DEF Place, Old, barVars
  <2> QED BY <2>4, <2>5
<1>7. \A u \in Threads \ LoopThreads : Aside(u)'
  BY <1>1, <1>2 DEF IInv, PoolInv, PlaceInv, Aside, barVars
<1>8. WakeInv'
  <2>1. \A u \in LoopThreads : Old(u)' = Old(u) /\ Cascaded(u)' = Cascaded(u)
    BY <1>1, <1>2 DEF Old, Cascaded
  <2> QED BY <1>1, <1>2, <2>1, SameWake
<1> QED BY <1>3, <1>4, <1>5, <1>6, <1>7, <1>8 DEF IInv, PoolInv, PlaceInv

-----------------------------------------------------------------------------
(* launch, before shutdown.                                                *)

LEMMA LaunchStep ==
    ASSUME OneCount, IInv, ~shutdown, NEW t \in Workers, Launch(t)
    PROVE  IInv'
PROOF
<1>1. /\ t \in Threads /\ t # 0 /\ pc[t] = "launch" /\ 0 \in Threads
      /\ pc' = [pc EXCEPT ![t] = "acquire"] /\ pc \in [Threads -> Places]
      /\ UNCHANGED <<starts, shutdown, starting, workBegin, workEnd, activeThreads, workPtr, workEndL,
                     barVars, runs, called, due>>
  BY LoopFacts DEF Launch, On, Goto, Workers, UnchangedWork, UnchangedHistory, IInv, PoolInv, PoolTypes
<1>2. BarrierInv'
  BY <1>1, SameBarrier DEF IInv
<1>3. Working' = Working
  BY <1>1 DEF Working
<1>4. PoolTypes'
  BY <1>1 DEF IInv, PoolInv, PoolTypes, Places
<1>5. CASE t \in LoopThreads
  <2>1. Place(t) /\ pc'[t] = "acquire"
    BY <1>1, <1>5, MemberFacts
  <2>2. OwnStep(t)
    BY <1>1 DEF OwnStep, Still, barVars
  <2>3. Place(t)'
    BY <1>1, <1>3, <2>1 DEF Place, Old, Finished, barVars
  <2>4. Old(t)' = Old(t) /\ Cascaded(t)' = Cascaded(t)
    BY <1>1, <2>1 DEF Old, Cascaded
  <2> QED BY <1>1, <1>2, <1>4, <1>5, <2>2, <2>3, <2>4, QuietStepInv
<1>6. CASE t \notin LoopThreads
  <2>1. \A u \in LoopThreads : u \in Threads /\ Still(u)
    BY <1>1, <1>6, LoopFacts DEF Still, barVars
  <2>2. \A u \in LoopThreads : Place(u)'
    BY <1>1, <1>3, <2>1, SamePlace DEF IInv, PoolInv, PlaceInv
  <2>3. WakeInv'
    BY <1>1, <2>1, SameOld, SameWake DEF IInv, PoolInv
  <2>4. \A u \in Threads \ LoopThreads : Aside(u)'
    BY <1>1 DEF IInv, PoolInv, PlaceInv, Aside, barVars
  <2>5. MainInv' /\ ~shutdown'
    BY <1>1, <1>3 DEF IInv, PoolInv, MainInv, barVars
  <2> QED BY <1>2, <1>4, <2>2, <2>3, <2>4, <2>5 DEF IInv, PoolInv, PlaceInv
<1> QED BY <1>5, <1>6

LEMMA AcquireStep ==
    ASSUME OneCount, IInv, ~shutdown, NEW t \in Workers, Acquire(t)
    PROVE  IInv'
PROOF
<1>1. /\ t \in Threads /\ t # 0 /\ pc[t] = "acquire" /\ 0 \in Threads /\ starts[t] > 0
      /\ pc' = [pc EXCEPT ![t] = "cascade"] /\ pc \in [Threads -> Places]
      /\ starts' = [starts EXCEPT ![t] = @ - 1] /\ starts \in [Threads -> Nat]
      /\ UNCHANGED <<shutdown, starting, workBegin, workEnd, activeThreads, workPtr, workEndL,
                     barVars, runs, called, due>>
  BY LoopFacts DEF Acquire, On, Goto, Workers, UnchangedWork, UnchangedHistory, IInv, PoolInv, PoolTypes
<1>2. BarrierInv'
  BY <1>1, SameBarrier DEF IInv
<1>3. Working' = Working
  BY <1>1 DEF Working
<1>4. PoolTypes'
  BY <1>1 DEF IInv, PoolInv, PoolTypes, Places
<1>5. t \in LoopThreads
  BY <1>1 DEF IInv, PoolInv, PlaceInv, Aside
<1>6. Place(t) /\ t \in Nat /\ WakeInv
  BY <1>5, MemberFacts
<1>7. PICK p \in LoopThreads : p \in Nat /\ (t = 2 * p + 1 \/ t = 2 * p + 2)
  <2> DEFINE p == (t - 1) \div 2
  <2>1. p \in Nat /\ p < t /\ (t = 2 * p + 1 \/ t = 2 * p + 2)
    BY <1>1, <1>6
  <2>2. PICK n \in Counts : n \in 1..MaxThreads /\ LoopThreads = First(n)
    <3>1. \E n \in Counts : TRUE
      BY DEF OneCount
    <3> QED BY <3>1, LoopFacts
  <2> HIDE DEF p
  <2>3. p \in LoopThreads
    BY <1>5, <2>1, <2>2, ThreadAssumption DEF First
  <2> QED BY <2>1, <2>3
<1>8. Old(t) /\ Cascaded(p) /\ starts[t] = 1
  BY <1>1, <1>5, <1>6, <1>7 DEF WakeInv
<1>9. ~Old(t)' /\ ~Cascaded(t) /\ ~Cascaded(t)'
  BY <1>1, <1>8 DEF Old, Cascaded
<1>10. OwnStep(t)
  BY <1>1, <1>5 DEF OwnStep, Still, barVars
<1>11. Place(t)'
  <2>1. pc'[t] = "cascade"
    BY <1>1
  <2> QED BY <1>1, <1>3, <1>6, <1>8, <2>1 DEF Place, Old, Finished, barVars
<1>12. WakeInv'
  <2>1. \A u \in LoopThreads \ {t} : Old(u)' = Old(u) /\ Cascaded(u)' = Cascaded(u)
    BY <1>10, LoopFacts, SameOld DEF OwnStep
  <2>2. starts'[0] = 0 /\ ~Old(0)'
    BY <1>1, <1>6, <2>1, LoopFacts DEF WakeInv
  <2>3. ASSUME NEW v \in LoopThreads, NEW u \in LoopThreads, u = 2 * v + 1 \/ u = 2 * v + 2
        PROVE  /\ starts'[u] = IF Old(u)' /\ Cascaded(v)' THEN 1 ELSE 0
               /\ ~Old(u)' => Cascaded(v)'
    <3>1. /\ starts[u] = IF Old(u) /\ Cascaded(v) THEN 1 ELSE 0
          /\ ~Old(u) => Cascaded(v)
      BY <1>6, <2>3 DEF WakeInv
    <3>2. v \in Nat /\ u \in Nat /\ u \in Threads /\ u # v
      BY <2>3, LoopFacts, ThreadAssumption DEF Threads
    <3>3. CASE u = t
      <4>1. v = p
        BY <1>6, <1>7, <2>3, <3>2, <3>3
      <4>2. starts'[u] = 0
        BY <1>1, <1>8, <3>3
      <4> QED BY <1>8, <1>9, <2>1, <3>2, <3>3, <4>1, <4>2
    <3>4. CASE u # t
      <4>1. starts'[u] = starts[u]
        BY <1>1, <3>2, <3>4
      <4> QED BY <1>9, <2>1, <3>1, <3>4, <4>1
    <3> QED BY <3>3, <3>4
  <2> QED BY <2>2, <2>3 DEF WakeInv
<1> QED BY <1>2, <1>4, <1>5, <1>10, <1>11, <1>12, OwnStepInv

-----------------------------------------------------------------------------
(* The main thread between the runs.                                       *)

LEMMA BetweenRuns ==
    ASSUME OneCount, IInv, ~shutdown, ~Working, ~Working', ~shutdown',
           \A u \in Threads \ {0} : pc'[u] = pc[u],
           pc'[0] \notin {"cascade", "begin", "end", "command", "wait"},
           UNCHANGED <<starts, workPtr, workEndL, called, at, left, runs>>
    PROVE  PlaceInv' /\ WakeInv'
PROOF
<1>1. ASSUME NEW u \in LoopThreads
      PROVE  Place(u)' /\ Old(u)' = Old(u) /\ Cascaded(u)' = Cascaded(u)
  <2>1. Place(u) /\ u \in Threads /\ workPtr[u].run = runs /\ Finished(u)
    BY MemberFacts DEF Place
  <2>2. pc[0] \notin {"cascade", "begin", "end", "command", "wait"}
    BY DEF Working
  <2>3. Old(u)' = Old(u)
    BY <2>1 DEF Old
  <2>4. CASE u = 0
    <3>1. Finished(u)'
      BY <2>1, <2>2, <2>4 DEF Finished
    <3> QED BY <2>1, <2>2, <2>3, <2>4, <3>1 DEF Place, Cascaded
  <2>5. CASE u # 0
    <3>1. pc'[u] = pc[u]
      BY <2>1, <2>5
    <3>2. Finished(u)'
      BY <2>1, <3>1 DEF Finished
    <3> QED BY <2>1, <2>3, <3>1, <3>2 DEF Place, Cascaded
  <2> QED BY <2>4, <2>5
<1>2. WakeInv'
  BY <1>1, SameWake DEF IInv, PoolInv
<1>3. \A u \in Threads \ LoopThreads : Aside(u)'
  BY LoopFacts DEF IInv, PoolInv, PlaceInv, Aside
<1> QED BY <1>1, <1>2, <1>3 DEF PlaceInv

LEMMA SetActiveThreadsStep ==
    ASSUME OneCount, IInv, ~shutdown, NEW n \in Counts, SetActiveThreads(n)
    PROVE  IInv'
PROOF
<1>1. /\ pc[0] = "client" /\ pc' = [pc EXCEPT ![0] = "barrier"] /\ pc \in [Threads -> Places]
      /\ activeThreads' = n /\ n \in 1..MaxThreads /\ 0 \in Threads
      /\ UNCHANGED <<starts, shutdown, starting, workBegin, workEnd, barVars, workPtr, workEndL,
                     runs, called, due>>
  BY LoopFacts DEF SetActiveThreads, On, Goto, UnchangedWork, UnchangedHistory, IInv, PoolInv, PoolTypes
<1>2. BarrierInv'
  BY <1>1, SameBarrier DEF IInv
<1>3. PoolTypes'
  BY <1>1 DEF IInv, PoolInv, PoolTypes, Places
<1>4. ~Working /\ ~Working' /\ ~shutdown'
  BY <1>1 DEF Working
<1>5. MainInv'
  BY <1>1, <1>4 DEF IInv, PoolInv, MainInv, barVars
<1>6. PlaceInv' /\ WakeInv'
  BY <1>1, <1>4, BetweenRuns DEF barVars
<1> QED BY <1>2, <1>3, <1>4, <1>5, <1>6 DEF IInv, PoolInv

LEMMA GetSystemBarrierStep ==
    ASSUME OneCount, IInv, ~shutdown, GetSystemBarrier
    PROVE  IInv'
PROOF
<1>1. /\ pc[0] = "barrier" /\ pc' = [pc EXCEPT ![0] = "run"] /\ pc \in [Threads -> Places]
      /\ 0 \in Threads
      /\ UNCHANGED <<starts, shutdown, starting, workBegin, workEnd, activeThreads, workPtr, workEndL,
                     runs, called, due>>
  BY LoopFacts DEF GetSystemBarrier, On, Goto, UnchangedWork, UnchangedHistory, IInv, PoolInv, PoolTypes
<1>2. /\ activeThreads \in Counts /\ activeThreads \in 1..MaxThreads /\ runs \in Nat
      /\ runs > 0 => active \in Counts
  BY <1>1, LoopFacts DEF IInv, PoolInv, PoolTypes, MainInv
<1>3. BarrierInv' /\ active' \in Counts /\ UNCHANGED <<at, entered, left>>
  <2>1. CASE NeedsReinit
    <3>1. Reinit(activeThreads) /\ UNCHANGED <<at, entered, left>>
      BY <2>1 DEF GetSystemBarrier
    <3>2. runs = 0
      <4>1. runs > 0 => activeThreads = active
        BY <1>2, LoopFacts
      <4> QED BY <1>2, <2>1, <4>1 DEF NeedsReinit
    <3>3. \A t \in Threads : at[t] = "out" /\ entered[t] = 0 /\ left[t] = 0
      BY <3>2 DEF IInv, PoolInv, MainInv
    <3>4. BarrierInv'
      BY <1>2, <3>1, <3>3, ReinitStep DEF IInv
    <3> QED BY <1>2, <3>1, <3>4 DEF Reinit
  <2>2. CASE ~NeedsReinit
    <3>1. UNCHANGED barVars /\ active = activeThreads
      BY <2>2 DEF GetSystemBarrier, NeedsReinit
    <3> QED BY <1>2, <3>1, SameBarrier DEF barVars, IInv
  <2> QED BY <2>1, <2>2
<1>4. PoolTypes'
  BY <1>1 DEF IInv, PoolInv, PoolTypes, Places
<1>5. ~Working /\ ~Working' /\ ~shutdown'
  BY <1>1 DEF Working
<1>6. MainInv'
  BY <1>1, <1>2, <1>3, <1>5 DEF IInv, PoolInv, MainInv
<1>7. PlaceInv' /\ WakeInv'
  BY <1>1, <1>3, <1>5, BetweenRuns
<1> QED BY <1>3, <1>4, <1>5, <1>6, <1>7 DEF IInv, PoolInv

LEMMA CleanUpStep ==
    ASSUME OneCount, IInv, ~shutdown, CleanUp
    PROVE  IInv'
PROOF
<1>1. /\ pc[0] = "clean" /\ pc' = [pc EXCEPT ![0] = "client"] /\ pc \in [Threads -> Places]
      /\ workBegin' = Null /\ workEnd' = Null /\ 0 \in Threads
      /\ UNCHANGED <<starts, shutdown, starting, activeThreads, barVars, workPtr, workEndL,
                     runs, called, due>>
  BY LoopFacts DEF CleanUp, On, Goto, UnchangedWork, UnchangedHistory, IInv, PoolInv, PoolTypes
<1>2. BarrierInv'
  BY <1>1, SameBarrier DEF IInv
<1>3. PoolTypes'
  BY <1>1 DEF IInv, PoolInv, PoolTypes, Places, Pointers
<1>4. ~Working /\ ~Working' /\ ~shutdown'
  BY <1>1 DEF Working
<1>5. MainInv'
  BY <1>1, <1>4 DEF IInv, PoolInv, MainInv, barVars
<1>6. PlaceInv' /\ WakeInv'
  BY <1>1, <1>4, BetweenRuns DEF barVars
<1> QED BY <1>2, <1>3, <1>4, <1>5, <1>6 DEF IInv, PoolInv

LEMMA RunStep ==
    ASSUME OneCount, IInv, ~shutdown, Run
    PROVE  IInv'
PROOF
<1>1. /\ pc[0] = "run" /\ pc' = [pc EXCEPT ![0] = "cascade"] /\ pc \in [Threads -> Places]
      /\ 0 \in Threads /\ runs' = runs + 1 /\ runs \in Nat /\ starting' = activeThreads
      /\ workBegin' = Begin(runs') /\ workEnd' = End(runs')
      /\ UNCHANGED <<starts, shutdown, activeThreads, barVars, workPtr, workEndL, called>>
  BY LoopFacts DEF Run, On, Goto, UnchangedWork, IInv, PoolInv, PoolTypes
<1>2. /\ activeThreads \in Counts /\ active \in Counts /\ activeThreads \in 1..MaxThreads
      /\ LoopThreads = First(activeThreads) /\ due \in [Threads -> Nat] /\ LoopThreads \subseteq Threads
  BY <1>1, LoopFacts DEF IInv, PoolInv, PoolTypes, MainInv
<1>3. BarrierInv'
  BY <1>1, SameBarrier DEF IInv
<1>4. \A t \in Threads : due'[t] = IF t \in LoopThreads THEN due[t] + Calls ELSE due[t]
  <2>1. \A t \in Threads : t < activeThreads <=> t \in LoopThreads
    BY <1>2, ThreadAssumption DEF First, Threads
  <2> QED BY <2>1 DEF Run
<1>5. PoolTypes'
  <2>1. Calls \in Nat /\ due' \in [Threads -> Nat]
    BY <1>2, Totals DEF Run
  <2>2. Begin(runs + 1) \in Pointers /\ End(runs + 1) \in Pointers
    BY <1>1, CommandFacts DEF Begin, End, Pointers
  <2>3. activeThreads \in 0..MaxThreads
    BY <1>2, ThreadAssumption
  <2>4. /\ starting' \in 0..MaxThreads /\ runs' \in Nat /\ pc' \in [Threads -> Places]
        /\ workBegin' \in Pointers /\ workEnd' \in Pointers
    BY <1>1, <2>2, <2>3 DEF Places
  <2> QED BY <1>1, <2>1, <2>4 DEF IInv, PoolInv, PoolTypes
<1>6. Working' /\ ~Working /\ ~shutdown'
  BY <1>1 DEF Working
<1>7. MainInv'
  <2>1. \A t \in Threads : due[t] = IF t \in LoopThreads THEN runs * Calls ELSE 0
    BY DEF IInv, PoolInv, MainInv
  <2>2. runs' * Calls = runs * Calls + Calls
    BY <1>1, Totals, Multiple
  <2>3. \A t \in Threads : due'[t] = IF t \in LoopThreads THEN runs' * Calls ELSE 0
    BY <1>4, <2>1, <2>2
  <2> QED BY <1>1, <1>2, <1>6, <2>3 DEF MainInv, barVars
<1>8. ASSUME NEW u \in LoopThreads
      PROVE  /\ Place(u) /\ workPtr[u].run = runs /\ Finished(u) /\ u \in Threads
             /\ ~Old(u) /\ Cascaded(u)
             /\ u # 0 => Old(u)'
             /\ ~Cascaded(u)'
             /\ Place(u)'
  <2>1. /\ Place(u) /\ workPtr[u].run = runs /\ Finished(u) /\ u \in Threads
        /\ ~Old(u) /\ Cascaded(u)
        /\ pc[u] \notin {"cascade", "begin", "end"}
    BY <1>1, <1>6, MemberFacts DEF Place, Old, Cascaded
  <2>2. workPtr'[u].run = runs /\ runs # runs' /\ runs = runs' - 1
    BY <1>1, <2>1
  <2>3. CASE u = 0
    BY <1>1, <1>6, <2>1, <2>2, <2>3 DEF Place, Old, Cascaded, Finished, barVars
  <2>4. CASE u # 0
    <3>1. pc'[u] = pc[u]
      BY <1>1, <2>1, <2>4
    <3>2. Old(u)' /\ ~Cascaded(u)'
      BY <1>1, <2>1, <2>2, <3>1 DEF Old, Cascaded
    <3>3. Finished(u)'
      BY <1>1, <2>1, <3>1 DEF Finished
    <3>4. Place(u)'
      BY <1>1, <1>6, <2>1, <2>2, <3>1, <3>2, <3>3 DEF Place, barVars
    <3> QED BY <2>1, <2>4, <3>2, <3>4
  <2> QED BY <2>3, <2>4
<1>9. \A u \in Threads \ LoopThreads : Aside(u)'
  BY <1>1, LoopFacts DEF IInv, PoolInv, PlaceInv, Aside, barVars
<1>10. WakeInv'
  <2>1. starts'[0] = 0 /\ ~Old(0)'
    BY <1>1 DEF Old, IInv, PoolInv, WakeInv
  <2>2. ASSUME NEW t \in LoopThreads, NEW u \in LoopThreads, u = 2 * t + 1 \/ u = 2 * t + 2
        PROVE  /\ starts'[u] = IF Old(u)' /\ Cascaded(t)' THEN 1 ELSE 0
               /\ ~Old(u)' => Cascaded(t)'
    <3>1. u # 0
      BY <1>8, <2>2, ThreadAssumption DEF Threads
    <3>2. starts[u] = 0
      BY <1>8, <2>2 DEF IInv, PoolInv, WakeInv
    <3> QED BY <1>1, <1>8, <3>1, <3>2
  <2> QED BY <2>1, <2>2 DEF WakeInv
<1> QED BY <1>3, <1>5, <1>6, <1>7, <1>8, <1>9, <1>10 DEF IInv, PoolInv, PlaceInv

-----------------------------------------------------------------------------
(* Shutdown.                                                               *)

LEMMA DestroyStep ==
    ASSUME OneCount, IInv, ~shutdown, Destroy
    PROVE  IInv'
PROOF
<1>1. /\ pc[0] = "client" /\ pc' = [pc EXCEPT ![0] = "release"] /\ pc \in [Threads -> Places]
      /\ shutdown' = TRUE /\ workBegin' = Null /\ workEnd' = Null /\ 0 \in Threads
      /\ UNCHANGED <<starts, starting, activeThreads, barVars, workPtr, workEndL, runs, called, due>>
  BY LoopFacts DEF Destroy, On, Goto, UnchangedWork, UnchangedHistory, IInv, PoolInv, PoolTypes
<1>2. BarrierInv'
  BY <1>1, SameBarrier DEF IInv
<1>3. PoolTypes'
  BY <1>1 DEF IInv, PoolInv, PoolTypes, Places, Pointers
<1>4. ~Working /\ ~Working'
  BY <1>1 DEF Working
<1>5. MainInv'
  BY <1>1, <1>4 DEF IInv, PoolInv, MainInv, barVars
<1>6. ASSUME NEW t \in Threads PROVE EndPlace(t)'
  <2>1. /\ pc'[t] = (IF t = 0 THEN "release" ELSE pc[t])
        /\ due[t] = IF t \in LoopThreads THEN runs * Calls ELSE 0
    BY <1>1 DEF IInv, PoolInv, MainInv
  <2>2. CASE t \in LoopThreads
    <3> DEFINE p == workPtr[t]
    <3>1. /\ Place(t) /\ p \in Pointers /\ p.run = runs /\ Finished(t) /\ runs \in Nat
          /\ (p = Null <=> p.run = 0) /\ pc[t] \notin {"cascade", "begin", "end"}
      BY <1>4, <2>2, MemberFacts DEF Place
    <3>2. called[t] = due[t]
      <4>1. CASE p = Null
        BY <2>1, <2>2, <3>1, <4>1, Totals DEF Place, Passed
      <4>2. CASE p # Null
        <5>1. Passed("call", p) = p.run * Total("call")
          BY <3>1, <4>2, PassedLast DEF Finished
        <5> QED BY <2>1, <2>2, <3>1, <5>1, Totals DEF Place
      <4> QED BY <4>1, <4>2
    <3>3. pc[t] = "wait" => /\ runs > 0 /\ workEndL[t] = End(runs)
                            /\ p = [run |-> runs, index |-> Len(Commands)]
      <4> SUFFICES ASSUME pc[t] = "wait"
                   PROVE  /\ runs > 0 /\ workEndL[t] = End(runs)
                          /\ p = [run |-> runs, index |-> Len(Commands)]
        OBVIOUS
      <4>1. p # Null /\ p.index \in DOMAIN Commands /\ workEndL[t] = End(runs)
        BY <3>1 DEF Place
      <4>2. p.index = Len(Commands)
        BY <3>1, <4>1, CommandFacts DEF Finished
      <4>3. p = [run |-> p.run, index |-> p.index]
        BY <3>1, PointerTypes
      <4> QED BY <3>1, <4>1, <4>2, <4>3
    <3>4. pc[t] = "command" => p = workEndL[t]
      <4> SUFFICES ASSUME pc[t] = "command" PROVE p = workEndL[t]
        OBVIOUS
      <4>1. p # Null /\ workEndL[t] = End(runs)
        BY <3>1 DEF Place
      <4>2. p.index = Len(Commands) + 1
        BY <3>1, <4>1 DEF Finished
      <4>3. p = [run |-> p.run, index |-> p.index]
        BY <3>1, PointerTypes
      <4> QED BY <3>1, <4>1, <4>2, <4>3 DEF End
    <3>5. pc[t] = "wait" <=> at[t] # "out"
      BY <3>1 DEF Place
    <3>6. t = 0 => pc[t] # "wait"
      BY <1>1
    <3> QED BY <1>1, <2>1, <3>1, <3>2, <3>3, <3>4, <3>5, <3>6 DEF EndPlace, barVars
  <2>3. CASE t \notin LoopThreads
    <3>1. t # 0 /\ Aside(t)
      BY <2>3, LoopFacts DEF IInv, PoolInv, PlaceInv
    <3> QED BY <1>1, <2>1, <2>3, <3>1 DEF EndPlace, Aside, barVars
  <2> QED BY <2>2, <2>3
<1> QED BY <1>1, <1>2, <1>3, <1>5, <1>6 DEF IInv, PoolInv, EndInv

\* The main thread is never in doWork again, and a step of a worker is its own.
LEMMA EndStepInv ==
    ASSUME IInv, shutdown, NEW t \in Threads, 0 \in Threads,
           \A u \in Threads \ {t} : Still(u),
           UNCHANGED <<shutdown, starting, workBegin, workEnd, activeThreads, active, runs, due>>,
           pc'[0] = pc[0] \/ pc'[0] \in {"release", "join", "exit"},
           runs = 0 => UNCHANGED <<entered[t], left[t], at[t]>>,
           BarrierInv', PoolTypes', EndPlace(t)'
    PROVE  IInv'
PROOF
<1>1. ~Working /\ ~Working' /\ pc'[0] \in {"release", "join", "exit"}
  BY DEF IInv, PoolInv, MainInv, Working
<1>2. MainInv'
  BY <1>1 DEF IInv, PoolInv, MainInv, Still
<1>3. \A u \in Threads \ {t} : EndPlace(u)'
  BY DEF IInv, PoolInv, EndInv, EndPlace, Still
<1> QED BY <1>2, <1>3 DEF IInv, PoolInv, EndInv

LEMMA EndMainStep ==
    ASSUME IInv, shutdown, 0 \in Threads, ReleaseAll \/ Join
    PROVE  IInv'
PROOF
<1>1. /\ pc[0] \in {"release", "join"} /\ pc \in [Threads -> Places]
      /\ pc' = [pc EXCEPT ![0] = "join"] \/ pc' = [pc EXCEPT ![0] = "exit"]
      /\ starts' \in [Threads -> Nat]
      /\ UNCHANGED <<shutdown, starting, workBegin, workEnd, activeThreads, barVars, workPtr, workEndL,
                     runs, called, due>>
  <2>1. starts \in [Threads -> Nat] /\ pc \in [Threads -> Places]
    BY DEF IInv, PoolInv, PoolTypes
  <2>2. CASE ReleaseAll
    BY <2>1, <2>2 DEF ReleaseAll, Release, On, Goto, UnchangedWork, UnchangedHistory
  <2>3. CASE Join
    BY <2>1, <2>3 DEF Join, On, Goto, UnchangedWork, UnchangedHistory
  <2> QED BY <2>2, <2>3
<1>2. BarrierInv'
  BY <1>1, SameBarrier DEF IInv
<1>3. PoolTypes'
  BY <1>1 DEF IInv, PoolInv, PoolTypes, Places
<1>4. EndPlace(0)'
  BY <1>1 DEF IInv, PoolInv, EndInv, EndPlace, barVars
<1>5. \A u \in Threads \ {0} : Still(u)
  BY <1>1 DEF Still, barVars
<1>6. pc'[0] \in {"release", "join", "exit"}
  BY <1>1
<1> QED BY <1>1, <1>2, <1>3, <1>4, <1>5, <1>6, EndStepInv DEF barVars

LEMMA EndWorkerStep ==
    ASSUME IInv, shutdown, 0 \in Threads, NEW t \in Workers, Worker(t)
    PROVE  IInv'
PROOF
<1>1. /\ t \in Threads /\ t # 0 /\ EndPlace(t) /\ pc \in [Threads -> Places]
      /\ starts \in [Threads -> Nat] /\ workPtr \in [Threads -> Pointers]
      /\ workEndL \in [Threads -> Pointers] /\ workBegin = Null /\ workEnd = Null
      /\ BarrierInv /\ PoolTypes /\ runs \in Nat
  BY DEF Workers, IInv, PoolInv, PoolTypes, EndInv
<1>2. CASE Launch(t) \/ Acquire(t) \/ Cascade(t) \/ ReadBegin(t) \/ ReadEnd(t) \/ DoneWork(t)
  <2>1. /\ UNCHANGED <<shutdown, starting, workBegin, workEnd, activeThreads, barVars, runs, called, due>>
        /\ \E l \in Places : pc' = [pc EXCEPT ![t] = l]
    BY <1>1, <1>2 DEF Launch, Acquire, Cascade, ReadBegin, ReadEnd, DoneWork, Goto, Places,
       UnchangedWork, UnchangedHistory, UnchangedShared
  <2>2. BarrierInv'
    BY <1>1, <2>1, SameBarrier
  <2>3. /\ starts' \in [Threads -> Nat]
        /\ workPtr' \in [Threads -> Pointers] /\ \A u \in Threads \ {t} : workPtr'[u] = workPtr[u]
        /\ workEndL' \in [Threads -> Pointers] /\ \A u \in Threads \ {t} : workEndL'[u] = workEndL[u]
    <3>1. CASE Launch(t) \/ DoneWork(t)
      BY <1>1, <3>1 DEF Launch, DoneWork, UnchangedWork, UnchangedShared
    <3>2. CASE Acquire(t)
      BY <1>1, <3>2 DEF Acquire, UnchangedWork
    <3>3. CASE Cascade(t)
      BY <1>1, <3>3 DEF Cascade, Release, UnchangedWork
    <3>4. CASE ReadBegin(t)
      BY <1>1, <3>4 DEF ReadBegin, Pointers
    <3>5. CASE ReadEnd(t)
      BY <1>1, <3>5 DEF ReadEnd, Pointers
    <3> QED BY <1>2, <3>1, <3>2, <3>3, <3>4, <3>5
  <2>4. PoolTypes'
    BY <1>1, <2>1, <2>3 DEF PoolTypes
  <2>5. EndPlace(t)'
    <3>1. CASE Launch(t)
      BY <1>1, <2>1, <3>1 DEF EndPlace, Launch, On, Goto, barVars
    <3>2. CASE Acquire(t)
      BY <1>1, <2>1, <3>2 DEF EndPlace, Acquire, On, Goto, barVars
    <3>3. CASE Cascade(t)
      BY <1>1, <2>1, <3>3 DEF EndPlace, Cascade, On, Goto, barVars
    <3>4. CASE ReadBegin(t)
      BY <1>1, <2>1, <3>4 DEF EndPlace, ReadBegin, On, Goto, barVars
    <3>5. CASE ReadEnd(t)
      BY <1>1, <2>1, <3>5 DEF EndPlace, ReadEnd, On, Goto, barVars
    <3>6. CASE DoneWork(t)
      BY <1>1, <2>1, <3>6 DEF EndPlace, DoneWork, On, Goto, barVars
    <3> QED BY <1>2, <3>1, <3>2, <3>3, <3>4, <3>5, <3>6
  <2>6. \A u \in Threads \ {t} : Still(u)
    BY <1>1, <2>1, <2>3 DEF Still, barVars
  <2>7. pc'[0] = pc[0]
    BY <1>1, <2>1
  <2> QED BY <1>1, <2>1, <2>2, <2>4, <2>5, <2>6, <2>7, EndStepInv DEF barVars
<1>3. CASE StepWait(t)
  <2> DEFINE q == [workPtr[t] EXCEPT !.index = @ + 1]
  <2>1. /\ \/ left'[t] = left[t] /\ UNCHANGED <<pc, workPtr>>
           \/ left'[t] # left[t] /\ pc' = [pc EXCEPT ![t] = "command"] /\ workPtr' = [workPtr EXCEPT ![t] = q]
        /\ UNCHANGED <<starts, shutdown, starting, workBegin, workEnd, activeThreads, workEndL,
                       runs, called, due>>
        /\ InWait(t) /\ pc[t] = "wait"
    BY <1>3 DEF StepWait, On, Goto, Advance, UnchangedShared, UnchangedHistory
  <2>2. /\ runs > 0 /\ workEndL[t] = End(runs)
        /\ workPtr[t] = [run |-> runs, index |-> Len(Commands)]
    BY <1>1, <2>1 DEF EndPlace
  <2>3. q = End(runs) /\ q \in Pointers
    BY <1>1, <2>2, CommandFacts DEF End, Pointers
  <2> HIDE DEF q
  <2>4. BarrierInv'
    BY <1>1, <2>1, InWaitStep
  <2>5. /\ UNCHANGED <<active, entered>> /\ \A u \in Threads \ {t} : at'[u] = at[u] /\ left'[u] = left[u]
        /\ \/ left'[t] = left[t] /\ at'[t] # "out"
           \/ left'[t] # left[t] /\ at'[t] = "out"
    <3>1. /\ active' = active /\ entered' = entered
          /\ \/ left' = left /\ at'[t] # "out"
             \/ left' = [left EXCEPT ![t] = @ + 1] /\ at'[t] = "out"
          /\ \A u \in Threads \ {t} : at'[u] = at[u]
      BY <1>1, <2>1, LeavingIsFair
    <3>2. left \in [Threads -> Nat]
      BY <1>1 DEF BarrierInv, BarrierTypes
    <3> QED BY <1>1, <3>1, <3>2
  <2>6. PoolTypes'
    BY <1>1, <2>1, <2>3 DEF PoolTypes, Places
  <2>7. EndPlace(t)'
    <3>1. CASE left'[t] = left[t]
      <4>1. at'[t] # "out" /\ UNCHANGED <<pc, workPtr>>
        BY <2>1, <2>5, <3>1
      <4> QED BY <1>1, <2>1, <4>1 DEF EndPlace
    <3>2. CASE left'[t] # left[t]
      <4>1. at'[t] = "out" /\ pc'[t] = "command" /\ workPtr'[t] = q
        BY <1>1, <2>1, <2>5, <3>2
      <4> QED BY <1>1, <2>1, <2>2, <2>3, <4>1 DEF EndPlace
    <3> QED BY <3>1, <3>2
  <2>8. (\A u \in Threads \ {t} : Still(u)) /\ pc'[0] = pc[0]
    BY <1>1, <2>1, <2>5 DEF Still
  <2> QED BY <1>1, <2>1, <2>2, <2>4, <2>5, <2>6, <2>7, <2>8, EndStepInv
<1>4. ~Call(t) /\ ~EnterWait(t)
  BY <1>1 DEF EndPlace, Call, EnterWait, More, On
<1> QED BY <1>2, <1>3, <1>4 DEF Worker, DoWork

-----------------------------------------------------------------------------
(* The invariant, and what follows from it.                                *)

LEMMA InitInv == OneCount /\ Init => IInv
PROOF
<1> SUFFICES ASSUME OneCount, Init PROVE IInv
  OBVIOUS
<1>1. LoopThreads \subseteq Threads /\ 0 \in LoopThreads /\ 0 \in Threads
  BY LoopFacts
<1>2. BarrierInv
  BY ConstructedInv DEF Init
<1>3. Null \in Pointers /\ Null.run = 0
  BY DEF Pointers, Null
<1>4. PoolTypes
  <2>1. 1 \in 1..MaxThreads /\ 0 \in 0..MaxThreads
    BY ThreadAssumption
  <2> QED BY <1>3, <2>1 DEF Init, PoolTypes, Places
<1>5. pc[0] = "client" /\ ~Working /\ ~shutdown /\ runs = 0 /\ active = 1
  BY <1>1 DEF Init, Working, Constructed
<1>6. MainInv
  <2>1. 0 * Calls = 0
    BY Totals
  <2>2. \A t \in Threads : due[t] = IF t \in LoopThreads THEN runs * Calls ELSE 0
    BY <1>5, <2>1 DEF Init
  <2>3. \A t \in Threads : entered[t] = 0 /\ left[t] = 0 /\ at[t] = "out"
    BY DEF Init, Constructed
  <2> QED BY <1>5, <2>2, <2>3 DEF MainInv
<1>7. \A t \in LoopThreads : ~Old(t) /\ Cascaded(t)
  BY <1>1, <1>3 DEF Init, Old, Cascaded
<1>8. PlaceInv
  <2>1. ASSUME NEW t \in LoopThreads PROVE Place(t)
    <3>1. /\ called[t] = 0 /\ left[t] = 0 /\ at[t] = "out" /\ workPtr[t] = Null
          /\ pc[t] = (IF t = 0 THEN "client" ELSE "launch") /\ runs = 0
      BY <1>1 DEF Init, Constructed
    <3> QED BY <1>3, <1>7, <3>1 DEF Place, Passed, Finished
  <2>2. ASSUME NEW t \in Threads \ LoopThreads PROVE Aside(t)
    BY <1>1 DEF Init, Constructed, Aside
  <2> QED BY <2>1, <2>2 DEF PlaceInv
<1>9. WakeInv
  BY <1>1, <1>7 DEF Init, WakeInv
<1> QED BY <1>2, <1>4, <1>5, <1>6, <1>8, <1>9 DEF IInv, PoolInv

LEMMA StutterInv ==
    ASSUME OneCount, IInv, UNCHANGED vars
    PROVE  IInv'
PROOF
<1>1. /\ UNCHANGED <<starts, shutdown, starting, workBegin, workEnd, activeThreads, pc, workPtr,
                     workEndL, runs, called, due, barVars>>
      /\ UNCHANGED <<active, at, entered, left>>
  BY DEF vars, poolVars, barVars
<1>2. BarrierInv'
  BY <1>1, SameBarrier DEF IInv
<1>3. PoolTypes' /\ MainInv' /\ Working' = Working
  BY <1>1 DEF IInv, PoolInv, PoolTypes, MainInv, Working
<1>4. \A u : Still(u)
  BY <1>1 DEF Still
<1>5. ASSUME ~shutdown PROVE PlaceInv' /\ WakeInv'
  <2>1. \A u \in LoopThreads : Place(u)'
    BY <1>1, <1>3, <1>4, <1>5, SamePlace DEF IInv, PoolInv, PlaceInv
  <2>2. \A u \in Threads \ LoopThreads : Aside(u)'
    BY <1>1, <1>5 DEF IInv, PoolInv, PlaceInv, Aside
  <2>3. WakeInv'
    BY <1>1, <1>4, <1>5, SameOld, SameWake DEF IInv, PoolInv
  <2> QED BY <2>1, <2>2, <2>3 DEF PlaceInv
<1>6. ASSUME shutdown PROVE EndInv'
  BY <1>1, <1>6 DEF IInv, PoolInv, EndInv, EndPlace
<1> QED BY <1>1, <1>2, <1>3, <1>5, <1>6 DEF IInv, PoolInv

LEMMA NextInv == OneCount /\ IInv /\ [Next]_vars => IInv'
PROOF
<1> SUFFICES ASSUME OneCount, IInv, [Next]_vars PROVE IInv'
  OBVIOUS
<1>1. 0 \in Threads
  BY LoopFacts
<1>2. CASE ~shutdown
  <2>1. ASSUME NEW t \in Threads, DoWork(t) PROVE IInv'
    <3>1. t = 0 \/ t \in Workers
      BY DEF Workers
    <3> QED BY <1>2, <2>1, <3>1, CascadeStep, ReadBeginStep, ReadEndStep, CallStep, EnterWaitStep,
               StepWaitStep, WorkerDone, MainDone DEF DoWork
  <2>2. ASSUME Main PROVE IInv'
    <3>1. ~ReleaseAll /\ ~Join
      BY <1>2 DEF ReleaseAll, Join, On, IInv, PoolInv, MainInv
    <3> QED BY <1>1, <1>2, <2>1, <2>2, <3>1, SetActiveThreadsStep, GetSystemBarrierStep, RunStep, CleanUpStep
            DEF Main
  <2>3. ASSUME NEW t \in Workers, Worker(t) PROVE IInv'
    <3>1. t \in Threads
      BY DEF Workers
    <3> QED BY <1>2, <2>1, <2>3, <3>1, LaunchStep, AcquireStep DEF Worker
  <2> QED BY <1>2, <2>2, <2>3, DestroyStep, StutterInv DEF Next
<1>3. CASE shutdown
  <2>1. pc[0] \in {"release", "join", "exit"}
    BY <1>3 DEF IInv, PoolInv, MainInv
  <2>2. ASSUME Main PROVE ReleaseAll \/ Join
    BY <2>1, <2>2 DEF Main, SetActiveThreads, GetSystemBarrier, Run, CleanUp, DoWork, Cascade, ReadBegin,
       ReadEnd, Call, EnterWait, StepWait, DoneWork, More, On
  <2>3. ~Destroy
    BY <2>1 DEF Destroy, On
  <2> QED BY <1>1, <1>3, <2>2, <2>3, EndMainStep, EndWorkerStep, StutterInv DEF Next
<1> QED BY <1>2, <1>3

\* The inductive invariant of the pool and its barrier.
THEOREM PoolInvariant == OneCount => (Spec => []IInv)
PROOF
<1> SUFFICES ASSUME OneCount PROVE Spec => []IInv
  OBVIOUS
<1>1. Init => IInv
  BY InitInv
<1>2. IInv /\ [Next]_vars => IInv'
  BY NextInv
<1> QED BY <1>1, <1>2, PTL DEF Spec

LEMMA TypesFollow ==
    ASSUME OneCount, IInv
    PROVE  TypeOK
PROOF
<1>1. BarrierTypeOK
  BY BarrierTyped DEF IInv
<1>2. ASSUME NEW t \in Threads
      PROVE  /\ workPtr[t].index \in 0..(Len(Commands) + 1)
             /\ On(t, "command") \/ On(t, "wait") => workPtr[t].run = workEndL[t].run
  <2>1. workPtr[t] \in Pointers
    BY DEF IInv, PoolInv, PoolTypes
  <2>2. ASSUME pc[t] \in {"command", "wait"} PROVE workPtr[t].run = workEndL[t].run
    <3>1. CASE shutdown
      <4>1. EndPlace(t)
        BY <3>1 DEF IInv, PoolInv, EndInv
      <4> QED BY <2>2, <4>1 DEF EndPlace, End
    <3>2. CASE ~shutdown
      <4>1. t \in LoopThreads
        BY <2>2, <3>2, OnlyLoops
      <4>2. Place(t)
        BY <3>2, <4>1, MemberFacts
      <4> QED BY <2>2, <4>2 DEF Place, End
    <3> QED BY <3>1, <3>2
  <2> QED BY <2>1, <2>2, PointerTypes DEF On
<1> QED BY <1>1, <1>2 DEF TypeOK, IInv, PoolInv, PoolTypes

(* No pointer of a thread leaves the array of its run, and the two ends of  *)
(* what it works on are always of one run; no counter of the barrier goes   *)
(* below zero or above what it awaits.                                      *)
THEOREM PoolTypeCorrect == OneCount => (Spec => []TypeOK)
PROOF
<1> SUFFICES ASSUME OneCount PROVE Spec => []TypeOK
  OBVIOUS
<1>1. IInv => TypeOK
  BY TypesFollow
<1> QED BY <1>1, PoolInvariant, PTL

LEMMA CompleteFollows ==
    ASSUME OneCount, IInv
    PROVE  RunIsComplete
PROOF
<1>1. /\ called \in [Threads -> Nat] /\ due \in [Threads -> Nat] /\ runs \in Nat
      /\ \A t \in Threads : due[t] = IF t \in LoopThreads THEN runs * Calls ELSE 0
  BY DEF IInv, PoolInv, PoolTypes, MainInv
<1>2. CASE shutdown
  <2>1. \A t \in Threads : called[t] = due[t]
    BY <1>2 DEF IInv, PoolInv, EndInv, EndPlace
  <2> QED BY <1>1, <2>1 DEF RunIsComplete
<1>3. CASE ~shutdown
  <2>1. ASSUME NEW t \in LoopThreads
        PROVE  /\ called[t] <= due[t]
               /\ ~Working => called[t] = due[t]
    <3> DEFINE p == workPtr[t]
    <3>1. /\ Place(t) /\ p \in Pointers /\ (p = Null <=> p.run = 0) /\ p.run \in Nat /\ t \in Threads
          /\ p.run \in {runs, runs - 1}
      BY <1>3, MemberFacts DEF Place
    <3>2. /\ Passed("call", p) <= p.run * Total("call") /\ Passed("call", p) \in Nat
          /\ p.run * Total("call") \in Nat /\ due[t] = runs * Total("call")
      BY <1>1, <3>1, PassedTypes, Totals
    <3>3. p.run * Total("call") <= runs * Total("call")
      <4>1. CASE p.run = runs
        BY <3>2, <4>1
      <4>2. CASE p.run = runs - 1
        <5>1. /\ runs * Total("call") = (runs - 1) * Total("call") + Total("call")
              /\ (runs - 1) * Total("call") \in Int /\ Total("call") \in Nat
          BY <1>1, Totals, Multiple
        <5> QED BY <4>2, <5>1
      <4> QED BY <3>1, <4>1, <4>2
    <3>4. called[t] <= due[t]
      <4>1. runs * Total("call") \in Nat
        BY <1>1, Totals, Multiple
      <4> QED BY <3>1, <3>2, <3>3, <4>1 DEF Place
    <3>5. ASSUME ~Working PROVE called[t] = due[t]
      <4>1. p.run = runs /\ Finished(t)
        BY <3>1, <3>5 DEF Place
      <4>2. CASE p = Null
        BY <1>1, <3>1, <3>2, <4>1, <4>2, Totals DEF Place, Passed
      <4>3. CASE p # Null
        <5>1. Passed("call", p) = p.run * Total("call")
          BY <3>1, <4>1, <4>3, PassedLast DEF Finished
        <5> QED BY <3>1, <3>2, <4>1, <5>1 DEF Place
      <4> QED BY <4>2, <4>3
    <3> QED BY <3>4, <3>5
  <2>2. \A t \in Threads \ LoopThreads : called[t] = due[t]
    BY <1>1, <1>3 DEF IInv, PoolInv, PlaceInv, Aside
  <2>3. \A t \in Threads : called[t] <= due[t]
    BY <1>1, <2>1, <2>2
  <2>4. ASSUME On(0, "client") PROVE called = due
    <3>1. ~Working
      BY <2>4 DEF On, Working
    <3>2. \A t \in Threads : called[t] = due[t]
      BY <2>1, <2>2, <3>1
    <3> QED BY <1>1, <3>2
  <2> QED BY <2>3, <2>4 DEF RunIsComplete
<1> QED BY <1>2, <1>3

(* When run returns, every thread has executed every call of every run it   *)
(* was part of exactly once, and never one more in between.                 *)
THEOREM RunsAreComplete == OneCount => (Spec => []RunIsComplete)
PROOF
<1> SUFFICES ASSUME OneCount PROVE Spec => []RunIsComplete
  OBVIOUS
<1>1. IInv => RunIsComplete
  BY CompleteFollows
<1> QED BY <1>1, PoolInvariant, PTL

LEMMA InStepFollows ==
    ASSUME OneCount, IInv
    PROVE  CommandsInStep
PROOF
<1> SUFFICES ASSUME ~shutdown, NEW t \in First(activeThreads), NEW u \in First(activeThreads),
                    NEW i \in DOMAIN Commands, Commands[i] = "wait",
                    workPtr[t].run = runs, workPtr[t].index > i
             PROVE  workPtr[u].run = runs /\ workPtr[u].index >= i
  BY DEF CommandsInStep
<1>1. /\ activeThreads \in 1..MaxThreads /\ runs \in Nat /\ workPtr \in [Threads -> Pointers]
      /\ i \in Nat /\ i > 0
  BY CommandFacts DEF IInv, PoolInv, PoolTypes
<1>2. t \in Threads
  BY <1>1, ThreadAssumption DEF First, Threads
<1>3. runs > 0
  <2>1. workPtr[t] = Null => workPtr[t].index = 0
    BY DEF Null
  <2>2. workPtr[t] # Null
    BY <1>1, <2>1
  <2>3. workPtr[t].run # 0
    BY <1>1, <1>2, <2>2, PointerTypes
  <2> QED BY <1>1, <2>3
<1>4. t \in LoopThreads /\ u \in LoopThreads
  BY <1>3, LoopActive
<1> QED BY <1>3, <1>4, EnteredBehind

(* Nobody executes a command behind a "wait" while a thread of the run has  *)
(* not come to that "wait".                                                 *)
THEOREM CommandsAreInStep == OneCount => (Spec => []CommandsInStep)
PROOF
<1> SUFFICES ASSUME OneCount PROVE Spec => []CommandsInStep
  OBVIOUS
<1>1. IInv => CommandsInStep
  BY InStepFollows
<1> QED BY <1>1, PoolInvariant, PTL

-----------------------------------------------------------------------------
(* The barrier of the loops implements the abstract one.                   *)

enteredOf == [t \in LoopThreads |-> entered[t]]
leftOf == [t \in LoopThreads |-> left[t]]

LEMMA AbstractInit == OneCount /\ Init => Abstract!Init
PROOF
<1> SUFFICES ASSUME OneCount, Init PROVE Abstract!Init
  OBVIOUS
<1>1. LoopThreads \subseteq Threads
  BY LoopFacts
<1> QED BY <1>1 DEF Init, Constructed, Abstract!Init

LEMMA AbstractEnter ==
    ASSUME OneCount, IInv, NEW t \in Threads, EnterWait(t)
    PROVE  Abstract!Enter(t) /\ t \in LoopThreads
PROOF
<1>1. ~shutdown
  <2> SUFFICES ASSUME shutdown PROVE FALSE
    OBVIOUS
  <2>1. EndPlace(t)
    BY DEF IInv, PoolInv, EndInv
  <2> QED BY <2>1 DEF EndPlace, EnterWait, More, On
<1>2. t \in LoopThreads /\ LoopThreads \subseteq Threads
  BY <1>1, MoreFacts, LoopFacts DEF EnterWait
<1>3. entered[t] = left[t]
  BY EnteredOne DEF EnterWait, Enter, At
<1>4. /\ entered \in [Threads -> Nat] /\ left' = left
      /\ entered' = [entered EXCEPT ![t] = @ + 1]
  BY DEF EnterWait, Enter, IInv, BarrierInv, BarrierTypes
<1>5. [u \in LoopThreads |-> entered'[u]]
          = [[u \in LoopThreads |-> entered[u]] EXCEPT ![t] = @ + 1]
  BY <1>2, <1>4
<1> QED BY <1>2, <1>3, <1>4, <1>5 DEF Abstract!Enter

LEMMA AbstractLeave ==
    ASSUME OneCount, IInv, NEW t \in Threads, InWait(t)
    PROVE  (Abstract!Leave(t) /\ t \in LoopThreads) \/ UNCHANGED <<entered, left>>
PROOF
<1>1. /\ t \in Active /\ at[t] # "out" /\ entered' = entered
      /\ \/ left' = left
         \/ /\ left' = [left EXCEPT ![t] = @ + 1]
            /\ left[t] < entered[t] /\ \A u \in Active : left[t] < entered[u]
  BY LeavingIsFair DEF IInv
<1>2. runs > 0
  BY <1>1 DEF IInv, PoolInv, PoolTypes, MainInv
<1>3. Active = LoopThreads /\ LoopThreads \subseteq Threads
  BY <1>2, LoopActive, LoopFacts
<1>4. CASE left' = left
  BY <1>1, <1>4
<1>5. CASE left' = [left EXCEPT ![t] = @ + 1]
  <2>1. left \in [Threads -> Nat]
    BY DEF IInv, BarrierInv, BarrierTypes
  <2>2. [u \in LoopThreads |-> left'[u]] = [[u \in LoopThreads |-> left[u]] EXCEPT ![t] = @ + 1]
    BY <1>1, <1>3, <1>5, <2>1
  <2>3. left' # left
    BY <1>5, <2>1
  <2>4. left[t] < entered[t] /\ \A u \in LoopThreads : left[t] < entered[u]
    BY <1>1, <1>3, <2>3
  <2> QED BY <1>1, <1>3, <2>2, <2>4 DEF Abstract!Leave
<1> QED BY <1>1, <1>4, <1>5

LEMMA AbstractNext ==
    OneCount /\ IInv /\ [Next]_vars => [Abstract!Next]_<<enteredOf, leftOf>>
PROOF
<1> SUFFICES ASSUME OneCount, IInv, [Next]_vars
             PROVE  Abstract!Next \/ UNCHANGED <<enteredOf, leftOf>>
  OBVIOUS
<1>1. UNCHANGED <<entered, left>> => UNCHANGED <<enteredOf, leftOf>>
  BY DEF enteredOf, leftOf
<1>2. ASSUME NEW t \in Threads, EnterWait(t) \/ StepWait(t)
      PROVE  Abstract!Next \/ UNCHANGED <<entered, left>>
  BY <1>2, AbstractEnter, AbstractLeave DEF StepWait, Abstract!Next
<1>3. ASSUME NEW t \in Threads, DoWork(t)
      PROVE  Abstract!Next \/ UNCHANGED <<entered, left>>
  BY <1>2, <1>3 DEF DoWork, Cascade, ReadBegin, ReadEnd, Call, DoneWork, barVars
<1>4. 0 \in Threads /\ Workers \subseteq Threads
  BY LoopFacts DEF Workers
<1>5. CASE Main
  BY <1>1, <1>3, <1>4, <1>5
     DEF Main, SetActiveThreads, GetSystemBarrier, Run, CleanUp, ReleaseAll, Join, barVars
<1>6. ASSUME NEW t \in Workers, Worker(t)
      PROVE  Abstract!Next \/ UNCHANGED <<entered, left>>
  BY <1>3, <1>4, <1>6 DEF Worker, Launch, Acquire, barVars
<1>7. CASE Destroy \/ UNCHANGED vars
  BY <1>1, <1>7 DEF Destroy, vars, barVars
<1> QED BY <1>1, <1>5, <1>6, <1>7 DEF Next

(* The waits of the loops, one behind the other on the same sense words,    *)
(* keep the promise of Barrier: nobody leaves a wait that not everybody has *)
(* entered.                                                                 *)
THEOREM BarrierImplemented == OneCount => (Spec => ImplementsBarrier)
PROOF
<1> SUFFICES ASSUME OneCount PROVE Spec => ImplementsBarrier
  OBVIOUS
<1>1. Init => Abstract!Init
  BY AbstractInit
<1>2. IInv /\ [Next]_vars => [Abstract!Next]_<<enteredOf, leftOf>>
  BY AbstractNext
<1>3. Spec => [][Abstract!Next]_<<enteredOf, leftOf>>
  BY <1>2, PoolInvariant, PTL DEF Spec
<1>4. Spec => Abstract!Init
  BY <1>1, PTL DEF Spec
<1>5. ImplementsBarrier <=> (Abstract!Init /\ [][Abstract!Next]_<<enteredOf, leftOf>>)
  BY DEF ImplementsBarrier, Abstract!Spec, enteredOf, leftOf
<1> QED BY <1>3, <1>4, <1>5

-----------------------------------------------------------------------------
(* Nobody waits for ever because all the others wait, too.                 *)

LEMMA NodeBound == \E b \in Nat : \A t \in Threads : Node(t) <= b
PROOF
<1> DEFINE Unbounded == {n \in Nat : n <= MaxThreads /\ \A b \in Nat : \E t \in First(n) : Node(t) > b}
           R == OpToRel(<, Nat)
<1>1. Unbounded = {}
  <2> SUFFICES ASSUME Unbounded # {} PROVE FALSE
    OBVIOUS
  <2>1. PICK n \in Unbounded : \A m \in Unbounded : ~(<<m, n>> \in R)
    <3>1. Unbounded \subseteq Nat
      OBVIOUS
    <3> HIDE DEF Unbounded
    <3> QED BY <3>1, NatLessThanWellFounded, WFMin
  <2>2. n # 0
    <3>1. PICK t \in First(n) : Node(t) > 0
      OBVIOUS
    <3> QED BY <3>1 DEF First
  <2>3. n - 1 \in Nat /\ n - 1 < n /\ n - 1 \notin Unbounded
    <3>1. n \in Nat /\ n - 1 \in Nat /\ n - 1 < n
      BY <2>2
    <3> HIDE DEF Unbounded
    <3> QED BY <2>1, <3>1 DEF OpToRel
  <2>4. PICK b \in Nat : \A t \in First(n - 1) : ~(Node(t) > b)
    BY <2>3, ThreadAssumption
  <2>5. n - 1 \in Threads /\ Node(n - 1) \in Nat
    BY <2>2, ThreadAssumption, NodeTypes DEF Threads
  <2>6. b + Node(n - 1) \in Nat
    BY <2>5
  <2>7. PICK t \in First(n) : Node(t) > b + Node(n - 1)
    BY <2>6
  <2>8. t \in Threads /\ (t \in First(n - 1) \/ t = n - 1)
    BY <2>2, ThreadAssumption DEF First, Threads
  <2>9. Node(t) \in Nat
    BY <2>8, NodeTypes
  <2> QED BY <2>4, <2>5, <2>7, <2>8, <2>9
<1>2. MaxThreads \notin Unbounded /\ First(MaxThreads) = Threads
  BY <1>1, ThreadAssumption DEF First, Threads
<1>3. PICK b \in Nat : \A t \in Threads : ~(Node(t) > b)
  BY <1>2, ThreadAssumption
<1> QED BY <1>3, NodeTypes

\* When all that are in wait spin, everybody has left the waits that all entered.
LEMMA NothingToLeave ==
    ASSUME BarrierInv, \A u \in Active : at[u] # "out" => Spins(u), NEW v \in Active
    PROVE  left[v] = Round
PROOF
<1> DEFINE Late == {p \in Nat : \E u \in Active : Node(u) = p /\ left[u] # Round}
           R == OpToRel(<, Nat)
<1>1. /\ active \in 1..MaxThreads /\ Active \subseteq Threads /\ Active = First(active)
      /\ 0 \in Active /\ Node(0) = 0 /\ Round \in Nat
      /\ \A u \in Active : entered[u] \in Nat /\ left[u] \in Nat
  BY BarrierFacts, ZeroLeads DEF Active
<1>2. ASSUME NEW u \in Active, left[u] # Round
      PROVE  /\ at[u] # "out" /\ at[u] # "gather" /\ left[u] + 1 = Round /\ u # 0
             /\ at[u] = "await" /\ parentsense[Node(u)] # Round % SenseValues
  <2>1. /\ left[u] <= Round /\ Round <= Arrived(u) /\ Arrived(u) <= entered[u]
        /\ entered[u] <= left[u] + 1 /\ (at[u] = "out" <=> entered[u] = left[u])
    BY BarrierArguments
  <2>2. Arrived(u) \in Nat
    BY <1>1, BarrierFacts
  <2>3. at[u] # "out" /\ left[u] + 1 = Round /\ entered[u] = Round /\ Arrived(u) = Round
    BY <1>1, <1>2, <2>1, <2>2
  <2>4. at[u] # "gather"
    BY <1>1, <2>3 DEF Arrived
  <2>5. at[u] = "await" /\ parentsense[Node(u)] # sense[u]
    BY <2>3, <2>4 DEF Spins, At
  <2>6. sense[u] = Round % SenseValues
    BY <2>3 DEF BarrierInv, RoundInv
  <2>7. u # 0
    BY <1>1, <2>5 DEF BarrierInv, LabelsInv
  <2> QED BY <2>3, <2>4, <2>5, <2>6, <2>7
<1>3. left[0] = Round
  BY <1>1, <1>2
<1>4. Late = {}
  <2> SUFFICES ASSUME Late # {} PROVE FALSE
    OBVIOUS
  <2>1. PICK p \in Late : \A q \in Late : ~(<<q, p>> \in R)
    <3>1. Late \subseteq Nat
      OBVIOUS
    <3> HIDE DEF Late
    <3> QED BY <3>1, NatLessThanWellFounded, WFMin
  <2>2. PICK u \in Active : Node(u) = p /\ left[u] # Round
    OBVIOUS
  <2>3. parentsense[Node(u)] # Round % SenseValues
    BY <1>2, <2>2
  <2>4. Node(u) # 0
    BY <1>1, <1>3, <2>2, <2>3 DEF BarrierInv, ReleaseInv
  <2>5. PICK t \in Active, i \in {0, 1} : Leader(t) /\ Node(u) = WakeNode(Node(t), i)
    BY <1>1, <2>4, WakeParent
  <2>6. parentsense[Node(u)] = Woke(t, i) % SenseValues
    BY <2>5 DEF BarrierInv, ReleaseInv
  <2>7. Woke(t, i) # Round
    BY <2>3, <2>6
  \* Its parent t would have left, or would be about to wake it.
  <2>8. left[t] # Round
    <3> SUFFICES ASSUME left[t] = Round PROVE FALSE
      OBVIOUS
    <3>1. left[t] <= Woke(t, i) /\ Woke(t, i) <= Round
      BY BarrierArguments
    <3>2. Woke(t, i) \in Nat
      BY <1>1 DEF Woke
    <3> QED BY <1>1, <2>7, <3>1, <3>2
  <2>9. Node(t) \in Nat /\ Node(u) \in Nat /\ Node(t) < Node(u)
    <3>1. Node(t) \in Nat /\ Node(u) \in Nat
      BY BarrierArguments
    <3> QED BY <2>5, <3>1 DEF WakeNode
  <2>10. Node(t) \in Late
    BY <2>8, <2>9
  <2> QED BY <2>1, <2>2, <2>9, <2>10 DEF OpToRel
<1>5. Node(v) \in Nat
  BY BarrierArguments
<1> QED BY <1>4, <1>5

\* When all that are in wait spin, somebody is not in wait.
LEMMA SomebodyIsOut ==
    ASSUME BarrierInv, \A u \in Active : at[u] # "out" => Spins(u)
    PROVE  \E u \in Active : at[u] = "out"
PROOF
<1> SUFFICES ASSUME \A u \in Active : at[u] # "out" PROVE FALSE
  OBVIOUS
<1>1. /\ active \in 1..MaxThreads /\ Active \subseteq Threads /\ Active = First(active)
      /\ 0 \in Active /\ Leader(0) /\ Round \in Nat
      /\ \A u \in Active : Node(u) \in Nat /\ left[u] \in Nat
  BY BarrierFacts, ZeroLeads, NodeTypes DEF Active
<1>2. ASSUME NEW u \in Active
      PROVE  /\ entered[u] = Round + 1
             /\ \/ at[u] = "gather" /\ childnotready[Node(u)] # 0
                \/ at[u] = "await"
  <2>1. left[u] = Round
    BY NothingToLeave
  <2>2. entered[u] = left[u] + 1
    BY <1>1 DEF BarrierInv, LabelsInv
  <2> QED BY <2>1, <2>2 DEF Spins, At
<1>3. PICK b \in Nat : \A u \in Threads : Node(u) <= b
  BY NodeBound
<1> DEFINE Depths == {d \in Nat : \E u \in Active : Leader(u) /\ at[u] = "gather" /\ d = b - Node(u)}
           R == OpToRel(<, Nat)
<1>4. Depths # {}
  <2>1. at[0] = "gather"
    BY <1>1, <1>2 DEF BarrierInv, LabelsInv
  <2>2. b - Node(0) \in Nat
    BY <1>1, <1>3
  <2> QED BY <1>1, <2>1, <2>2
<1>5. PICK d \in Depths : \A e \in Depths : ~(<<e, d>> \in R)
  <2>1. Depths \subseteq Nat
    OBVIOUS
  <2> HIDE DEF Depths
  <2> QED BY <1>4, <2>1, NatLessThanWellFounded, WFMin
<1>6. PICK t \in Active : Leader(t) /\ at[t] = "gather" /\ d = b - Node(t)
  OBVIOUS
<1>7. Gathered(t) = Round
  BY <1>1, <1>2, <1>6 DEF Gathered
<1>8. PendingNodes(t) # {} \/ PendingLocals(t) # {}
  <2>1. childnotready[Node(t)] = Cardinality(PendingNodes(t)) + Cardinality(PendingLocals(t))
    BY <1>6 DEF BarrierInv, TreeInv
  <2>2. childnotready[Node(t)] # 0
    BY <1>2, <1>6
  <2> QED BY <2>1, <2>2, PendingSets
<1>9. ASSUME NEW u \in Active, Arrived(u) = Round PROVE at[u] = "gather"
  BY <1>1, <1>2, <1>9 DEF Arrived
<1>10. PendingLocals(t) = {}
  <2> SUFFICES ASSUME NEW u \in PendingLocals(t) PROVE FALSE
    OBVIOUS
  <2>1. u \in Active /\ ~Leader(u) /\ Arrived(u) = Round
    BY <1>7 DEF PendingLocals, Locals, Active
  <2>2. at[u] = "gather"
    BY <1>9, <2>1
  <2> QED BY <1>1, <2>1, <2>2 DEF BarrierInv, LabelsInv
<1>11. PendingNodes(t) = {}
  <2> SUFFICES ASSUME NEW q \in PendingNodes(t) PROVE FALSE
    OBVIOUS
  <2>1. PICK u \in Active : Leader(u) /\ Node(u) = q /\ Arrived(u) = Round
    BY <1>7 DEF PendingNodes
  <2>2. at[u] = "gather" /\ Node(u) \in Nat
    BY <1>1, <1>9, <2>1
  <2>3. Node(u) # 0 /\ ParentNode(Node(u)) = Node(t)
    BY <2>1 DEF PendingNodes, Arrivals
  <2>4. Node(t) < Node(u) /\ Node(t) \in Nat
    BY <1>1, <2>3, GatherParent
  <2>5. b - Node(u) \in Nat /\ b - Node(u) < d /\ d \in Nat
    BY <1>1, <1>3, <1>6, <2>2, <2>4
  <2>6. b - Node(u) \in Depths
    BY <2>1, <2>2, <2>5
  <2> QED BY <1>5, <2>5, <2>6 DEF OpToRel
<1> QED BY <1>8, <1>10, <1>11

\* All blocked, and not in the destructor: the main thread is in a wait of its run.
LEMMA BlockedInRun ==
    ASSUME OneCount, IInv, ~shutdown, \A t \in Threads : Blocked(t)
    PROVE  /\ pc[0] = "wait" /\ at[0] # "out" /\ runs > 0 /\ Active = LoopThreads
           /\ \A u \in LoopThreads : \/ pc[u] = "wait" /\ at[u] # "out"
                                     \/ pc[u] = "acquire" /\ at[u] = "out" /\ starts[u] = 0
           /\ \A u \in Active : at[u] # "out" => Spins(u)
PROOF
<1>1. 0 \in LoopThreads /\ LoopThreads \subseteq Threads
  BY LoopFacts
<1>2. pc[0] = "wait"
  BY <1>1, MemberFacts DEF Blocked, On, MainInv
<1>3. runs > 0 /\ Active = LoopThreads
  BY <1>1, <1>2, OnlyLoops, LoopActive
<1>4. ASSUME NEW u \in LoopThreads
      PROVE  /\ \/ pc[u] = "wait" /\ at[u] # "out"
                \/ pc[u] = "acquire" /\ at[u] = "out" /\ starts[u] = 0
             /\ at[u] # "out" => Spins(u)
  <2>1. Place(u) /\ u \in Threads
    BY MemberFacts
  <2>2. pc[u] \in {"acquire", "wait"}
    BY <1>2, <2>1 DEF Blocked, On, Place
  <2>3. pc[u] = "wait" <=> at[u] # "out"
    BY <2>1 DEF Place
  <2> QED BY <2>1, <2>2, <2>3 DEF Blocked, On
<1> QED BY <1>1, <1>2, <1>3, <1>4

\* The main thread waits: all the others have been woken for this run.
LEMMA EverybodyIsWoken ==
    ASSUME OneCount, IInv, ~shutdown, \A t \in Threads : Blocked(t), NEW v \in LoopThreads
    PROVE  ~Old(v)
PROOF
<1> DEFINE Olds == {u \in LoopThreads : Old(u)}
           R == OpToRel(<, Nat)
<1>1. /\ 0 \in LoopThreads /\ \A u \in LoopThreads : u \in Nat
      /\ \A u \in LoopThreads, w \in Nat : w <= u => w \in LoopThreads
  <2>1. PICK n \in Counts : LoopThreads = First(n) /\ n \in 1..MaxThreads
    BY LoopFacts DEF OneCount
  <2> QED BY <2>1, ThreadAssumption DEF First
<1>2. Olds = {}
  <2> SUFFICES ASSUME Olds # {} PROVE FALSE
    OBVIOUS
  <2>1. Olds \subseteq Nat
    BY <1>1
  <2>2. PICK u \in Olds : \A w \in Olds : ~(<<w, u>> \in R)
    <3> HIDE DEF Olds
    <3> QED BY <2>1, NatLessThanWellFounded, WFMin
  <2>3. u \in LoopThreads /\ Old(u) /\ u \in Nat
    BY <2>1
  <2>4. u # 0 /\ WakeInv /\ ~Old(0)
    BY <1>1, <2>3, MemberFacts DEF WakeInv
  <2> DEFINE p == (u - 1) \div 2
  <2>5. p \in Nat /\ p < u /\ (u = 2 * p + 1 \/ u = 2 * p + 2)
    BY <2>3, <2>4
  <2> HIDE DEF p
  <2>6. p \in LoopThreads
    BY <1>1, <2>3, <2>5
  <2>7. ~Old(p)
    <3> SUFFICES ASSUME Old(p) PROVE FALSE
      OBVIOUS
    <3>1. p \in Olds
      BY <2>6
    <3> HIDE DEF Olds
    <3> QED BY <2>2, <2>3, <2>5, <3>1 DEF OpToRel
  <2>8. Cascaded(p)
    BY <2>6, <2>7, BlockedInRun DEF Cascaded
  <2>9. starts[u] = 1
    BY <2>3, <2>4, <2>5, <2>6, <2>8 DEF WakeInv
  <2>10. pc[u] = "wait" /\ at[u] # "out"
    BY <2>3, <2>9, BlockedInRun
  <2>11. left[u] = left[0]
    BY <1>1, <2>3, BlockedInRun, NothingToLeave DEF IInv
  \* So u is in the last wait of the run before, which the main thread has left.
  <2>12. /\ workPtr[u].run = runs - 1 /\ workPtr[u].index = Len(Commands) /\ workPtr[u] # Null
         /\ workPtr[u] \in Pointers /\ left[u] = Passed("wait", workPtr[u]) /\ runs \in Nat
    <3>1. Place(u) /\ workPtr[u] \in Pointers /\ runs \in Nat
      BY <2>3, MemberFacts
    <3>2. workPtr[u] # Null /\ workPtr[u].index \in DOMAIN Commands /\ Finished(u)
      BY <2>3, <2>10, <3>1 DEF Place
    <3>3. workPtr[u].index = Len(Commands)
      BY <3>2, CommandFacts DEF Finished
    <3>4. workPtr[u].run = runs - 1
      BY <2>3, <2>10, <3>1 DEF Place, Old
    <3> QED BY <3>1, <3>2, <3>3, <3>4 DEF Place
  <2>13. /\ workPtr[0].run = runs /\ workPtr[0] # Null /\ workPtr[0] \in Pointers
         /\ left[0] = Passed("wait", workPtr[0])
    <3>1. Place(0) /\ workPtr[0] \in Pointers
      BY <1>1, MemberFacts
    <3>2. pc[0] = "wait"
      BY BlockedInRun
    <3> QED BY <2>4, <3>1, <3>2 DEF Place, Old
  <2> DEFINE W == Total("wait")
             before == (runs - 1) * W
             all == runs * W
             c == Count("wait", workPtr[0].index)
  <2>14. left[u] + 1 = before
    BY <2>12, PassedLast
  <2>15. left[0] = all - W + c
    BY <2>13, PassedTypes
  <2>16. all = before + W /\ before \in Int /\ W \in Nat
    <3>1. W \in Nat /\ runs \in Int
      BY <2>12, Totals
    <3> HIDE DEF W
    <3> QED BY <3>1, Multiple
  <2>17. c \in Nat
    BY CountType
  <2>18. left[u] \in Nat
    BY <2>12, PassedTypes
  <2> HIDE DEF W, before, all, c
  <2>19. left[0] = before + c
    BY <2>15, <2>16, <2>17
  <2> QED BY <2>11, <2>14, <2>16, <2>17, <2>18, <2>19
<1> QED BY <1>2

\* In a run there is always somebody to go on.
LEMMA RunsGoOn ==
    ASSUME OneCount, IInv, ~shutdown
    PROVE  \E t \in Threads : ~Blocked(t)
PROOF
<1> SUFFICES ASSUME \A t \in Threads : Blocked(t) PROVE FALSE
  OBVIOUS
<1>1. PICK u \in LoopThreads : at[u] = "out"
  BY BlockedInRun, SomebodyIsOut DEF IInv
<1>2. pc[u] = "acquire" /\ ~Old(u)
  BY <1>1, BlockedInRun, EverybodyIsWoken
<1>3. /\ workPtr[u].run = runs /\ workPtr[u].index = Len(Commands) + 1 /\ workPtr[u] # Null
      /\ workPtr[u] \in Pointers /\ left[u] = Passed("wait", workPtr[u]) /\ runs \in Nat
  <2>1. /\ Place(u) /\ workPtr[u] \in Pointers /\ runs \in Nat
        /\ (workPtr[u] = Null <=> workPtr[u].run = 0)
    BY MemberFacts
  <2>2. workPtr[u].run = runs /\ runs > 0
    BY <1>2, BlockedInRun DEF Old
  <2>3. Finished(u)
    BY <1>2, <2>1 DEF Place
  <2> QED BY <1>2, <2>1, <2>2, <2>3 DEF Finished, Place
<1>4. /\ workPtr[0].run = runs /\ workPtr[0].index \in DOMAIN Commands
      /\ Commands[workPtr[0].index] = "wait" /\ workPtr[0] # Null
      /\ workPtr[0] \in Pointers /\ left[0] = Passed("wait", workPtr[0])
  <2>1. 0 \in LoopThreads
    BY LoopFacts
  <2>2. Place(0) /\ workPtr[0] \in Pointers
    BY <2>1, MemberFacts
  <2>3. pc[0] = "wait" /\ ~Old(0)
    BY <2>1, BlockedInRun, EverybodyIsWoken
  <2> QED BY <2>2, <2>3 DEF Place, Old
<1>5. left[u] = left[0]
  <2>1. 0 \in LoopThreads
    BY LoopFacts
  <2> QED BY <2>1, BlockedInRun, NothingToLeave DEF IInv
<1> DEFINE W == Total("wait")
           all == runs * W
           i == workPtr[0].index
           c == Count("wait", i)
<1>6. left[u] = all
  BY <1>3, PassedLast
<1>7. left[0] = all - W + c
  BY <1>4, PassedTypes
<1>8. c + 1 <= W
  <2>1. Count("wait", i + 1) = Count("wait", i) + 1
    BY <1>4, CountNext
  <2>2. i + 1 \in Int /\ Len(Commands) + 1 \in Int /\ i + 1 <= Len(Commands) + 1
    BY <1>4, CommandFacts
  <2>3. Count("wait", i + 1) <= W
    BY <2>2, CountGrows DEF Total
  <2> QED BY <2>1, <2>3
<1>9. W \in Nat /\ c \in Nat
  BY Totals, CountType
<1>10. all \in Nat
  <2> HIDE DEF W
  <2> QED BY <1>3, <1>9, Multiple
<1>11. all = all - W + c
  BY <1>5, <1>6, <1>7
<1> HIDE DEF W, i, c, all
<1> QED BY <1>8, <1>9, <1>10, <1>11

\* After shutdown: whoever is still in a wait is in one that the main thread has
\* left, and once the semaphores are posted a worker at its own need not wait.
StopInv ==
    shutdown =>
        /\ \A t \in Threads : at[t] # "out" => left[t] < left[0]
        /\ \A t \in Workers : pc[t] \in {"launch", "acquire", "cascade", "begin", "end",
                                         "command", "wait", "exit"}
        /\ pc[0] # "release" => \A t \in Workers : pc[t] = "acquire" => starts[t] > 0

\* The destructor begins when the main thread has left the last wait of all runs.
LEMMA StopBegins ==
    ASSUME OneCount, IInv, ~shutdown, Destroy
    PROVE  StopInv'
PROOF
<1>1. /\ pc[0] = "client" /\ pc' = [pc EXCEPT ![0] = "release"] /\ pc \in [Threads -> Places]
      /\ UNCHANGED <<at, left>> /\ 0 \in LoopThreads /\ 0 \in Threads /\ ~Working
      /\ LoopThreads \subseteq Threads
  BY LoopFacts DEF Destroy, On, Goto, barVars, IInv, PoolInv, PoolTypes, Working
<1>2. pc'[0] = "release" /\ \A t \in Workers : pc'[t] = pc[t]
  BY <1>1 DEF Workers
<1>3. ASSUME NEW t \in Threads, at[t] # "out"
      PROVE  left[t] < left[0]
  <2>1. t \in LoopThreads
    BY <1>3 DEF IInv, PoolInv, PlaceInv, Aside
  <2>2. /\ Place(t) /\ Place(0) /\ workPtr[t] \in Pointers /\ workPtr[0] \in Pointers
        /\ (workPtr[0] = Null <=> workPtr[0].run = 0) /\ (workPtr[t] = Null <=> workPtr[t].run = 0)
    BY <1>1, <2>1, MemberFacts
  <2>3. /\ pc[t] = "wait" /\ workPtr[t].index \in DOMAIN Commands
        /\ workPtr[t].run = runs /\ Finished(t) /\ workPtr[t] # Null /\ left[t] = Passed("wait", workPtr[t])
    BY <1>1, <1>3, <2>2 DEF Place
  <2>4. workPtr[t].index = Len(Commands)
    BY <2>3, CommandFacts DEF Finished
  <2>5. /\ workPtr[0].run = runs /\ Finished(0) /\ workPtr[0] # Null
        /\ left[0] = Passed("wait", workPtr[0])
    BY <1>1, <2>2, <2>3 DEF Place
  <2>6. workPtr[0].index = Len(Commands) + 1
    BY <1>1, <2>5 DEF Finished
  <2> DEFINE all == runs * Total("wait")
  <2>7. left[t] + 1 = all
    BY <2>2, <2>3, <2>4, PassedLast
  <2>8. left[0] = all
    BY <2>2, <2>5, <2>6, PassedLast
  <2>9. left[t] \in Nat
    BY BarrierFacts DEF IInv
  <2> HIDE DEF all
  <2> QED BY <2>7, <2>8, <2>9
<1>4. ASSUME NEW t \in Workers
      PROVE  pc[t] \in {"launch", "acquire", "cascade", "begin", "end", "command", "wait", "exit"}
  <2>1. t \in Threads /\ t # 0
    BY DEF Workers
  <2> QED BY <2>1 DEF IInv, PoolInv, PlaceInv, Place, Aside
<1>5. \A t \in Threads : at'[t] # "out" => left'[t] < left'[0]
  BY <1>1, <1>3
<1>6. \A t \in Workers : pc'[t] \in {"launch", "acquire", "cascade", "begin", "end",
                                     "command", "wait", "exit"}
  BY <1>2, <1>4
<1> QED BY <1>2, <1>5, <1>6 DEF StopInv

LEMMA StopMain ==
    ASSUME OneCount, IInv, shutdown, StopInv, ReleaseAll \/ Join
    PROVE  StopInv'
PROOF
<1>1. /\ starts \in [Threads -> Nat] /\ pc \in [Threads -> Places] /\ 0 \in Threads
      /\ Workers \subseteq Threads \ {0}
  BY LoopFacts DEF IInv, PoolInv, PoolTypes, Workers
<1>2. \A t \in Workers : pc'[t] = pc[t]
  BY <1>1 DEF ReleaseAll, Join, Goto
<1>3. UNCHANGED <<at, left>>
  BY DEF ReleaseAll, Join, barVars
<1>4. ASSUME NEW t \in Workers, pc[t] = "acquire" PROVE starts'[t] > 0
  <2>1. CASE ReleaseAll
    <3>1. starts'[t] = starts[t] + 1 /\ starts[t] \in Nat
      BY <1>1, <2>1 DEF ReleaseAll, Release
    <3> QED BY <3>1
  <2>2. CASE Join
    <3>1. pc[0] = "join" /\ starts' = starts
      BY <2>2 DEF Join, On
    <3> QED BY <1>4, <3>1 DEF StopInv
  <2> QED BY <2>1, <2>2
<1> QED BY <1>2, <1>3, <1>4 DEF StopInv

LEMMA StopWorker ==
    ASSUME OneCount, IInv, shutdown, StopInv, NEW t \in Workers, Worker(t)
    PROVE  StopInv'
PROOF
<1>1. /\ t \in Threads /\ t # 0 /\ 0 \in Threads /\ EndPlace(t) /\ workBegin = Null
      /\ pc \in [Threads -> Places] /\ starts \in [Threads -> Nat] /\ BarrierInv
      /\ Workers \subseteq Threads /\ left \in [Threads -> Nat]
  BY LoopFacts DEF Workers, IInv, PoolInv, PoolTypes, EndInv, BarrierInv, BarrierTypes
<1>2. ~Call(t) /\ ~EnterWait(t)
  BY <1>1 DEF EndPlace, Call, EnterWait, More, On
<1> DEFINE Labelled == {"launch", "acquire", "cascade", "begin", "end", "command", "wait", "exit"}
<1>3. /\ \A u \in Threads \ {t} : pc'[u] = pc[u]
      /\ pc'[t] \in Labelled \ {"acquire"} \/ (pc'[t] = pc[t] /\ starts'[t] = starts[t])
      /\ \A u \in Threads \ {t} : starts'[u] \in Nat /\ starts'[u] >= starts[u]
  <2>1. CASE Launch(t) \/ ReadBegin(t) \/ ReadEnd(t) \/ DoneWork(t) \/ StepWait(t)
    <3>1. starts' = starts
      BY <2>1 DEF Launch, ReadBegin, ReadEnd, DoneWork, StepWait, UnchangedShared
    <3>2. pc' = pc \/ \E l \in Labelled \ {"acquire"} : pc' = [pc EXCEPT ![t] = l]
      <4>1. shutdown
        OBVIOUS
      <4>2. CASE Launch(t)
        BY <1>1, <4>1, <4>2 DEF Launch, Goto
      <4>3. CASE ReadBegin(t) \/ ReadEnd(t) \/ DoneWork(t) \/ StepWait(t)
        BY <1>1, <4>3 DEF ReadBegin, ReadEnd, DoneWork, StepWait, Goto
      <4> QED BY <2>1, <4>2, <4>3
    <3> QED BY <1>1, <3>1, <3>2
  <2>2. CASE Acquire(t)
    <3>1. starts' = [starts EXCEPT ![t] = @ - 1] /\ pc' = [pc EXCEPT ![t] = "cascade"]
      BY <2>2 DEF Acquire, Goto
    <3> QED BY <1>1, <3>1
  <2>3. CASE Cascade(t)
    <3>1. pc' = [pc EXCEPT ![t] = "begin"] /\ Release(Woken(t))
      BY <2>3 DEF Cascade, Goto
    <3>2. \A u \in Threads : starts'[u] \in Nat /\ starts'[u] >= starts[u]
      BY <1>1, <3>1 DEF Release
    <3> QED BY <1>1, <3>1, <3>2
  <2> QED BY <1>2, <2>1, <2>2, <2>3 DEF Worker, DoWork
<1>4. /\ \A u \in Threads : at'[u] # "out" => at[u] # "out" /\ left'[u] = left[u]
      /\ left'[0] = left[0]
  <2>1. CASE StepWait(t)
    <3>1. InWait(t)
      BY <2>1 DEF StepWait
    <3>2. /\ \/ left' = left /\ at'[t] # "out"
             \/ left' = [left EXCEPT ![t] = @ + 1] /\ at'[t] = "out"
          /\ at[t] # "out" /\ \A u \in Threads \ {t} : at'[u] = at[u]
      BY <1>1, <3>1, LeavingIsFair
    <3> QED BY <1>1, <3>2
  <2>2. CASE ~StepWait(t)
    <3>1. UNCHANGED barVars
      BY <1>2, <2>2 DEF Worker, DoWork, Launch, Acquire, Cascade, ReadBegin, ReadEnd, DoneWork
    <3> QED BY <3>1 DEF barVars
  <2> QED BY <2>1, <2>2
<1>5. \A u \in Threads : at'[u] # "out" => left'[u] < left'[0]
  BY <1>4 DEF StopInv
<1>6. \A u \in Workers : pc'[u] \in Labelled
  BY <1>1, <1>3 DEF StopInv
<1>7. ASSUME pc'[0] # "release", NEW u \in Workers, pc'[u] = "acquire"
      PROVE  starts'[u] > 0
  <2>1. pc[0] # "release" /\ u \in Threads
    BY <1>1, <1>3, <1>7
  <2>2. CASE u = t
    <3>1. pc[t] = "acquire" /\ starts'[t] = starts[t]
      BY <1>3, <1>7, <2>2
    <3> QED BY <2>1, <2>2, <3>1 DEF StopInv
  <2>3. CASE u # t
    <3>1. pc[u] = "acquire" /\ starts'[u] >= starts[u] /\ starts[u] \in Nat /\ starts'[u] \in Nat
      BY <1>1, <1>3, <1>7, <2>1, <2>3
    <3>2. starts[u] > 0
      BY <2>1, <3>1 DEF StopInv
    <3> QED BY <3>1, <3>2
  <2> QED BY <2>2, <2>3
<1> QED BY <1>5, <1>6, <1>7 DEF StopInv

LEMMA StopNext == OneCount /\ IInv /\ StopInv /\ [Next]_vars => StopInv'
PROOF
<1> SUFFICES ASSUME OneCount, IInv, StopInv, [Next]_vars PROVE StopInv'
  OBVIOUS
<1>1. CASE UNCHANGED vars
  <2>1. UNCHANGED <<shutdown, at, left, pc, starts>>
    BY <1>1 DEF vars, poolVars, barVars
  <2> QED BY <2>1 DEF StopInv
<1>2. CASE ~shutdown /\ Next
  <2>1. CASE Destroy
    BY <1>2, <2>1, StopBegins
  <2>2. CASE ~Destroy
    <3>1. shutdown' = shutdown
      BY <1>2, <2>2 DEF Next, Main, Worker, DoWork, SetActiveThreads, GetSystemBarrier, Run, CleanUp, ReleaseAll,
         Join, Launch, Acquire, Cascade, ReadBegin, ReadEnd, Call, EnterWait, StepWait, DoneWork, UnchangedShared
    <3> QED BY <1>2, <3>1 DEF StopInv
  <2> QED BY <2>1, <2>2
<1>3. CASE shutdown /\ Next
  <2>1. pc[0] \in {"release", "join", "exit"}
    BY <1>3 DEF IInv, PoolInv, MainInv
  <2>2. ASSUME Main PROVE ReleaseAll \/ Join
    BY <2>1, <2>2 DEF Main, SetActiveThreads, GetSystemBarrier, Run, CleanUp, DoWork, Cascade, ReadBegin,
       ReadEnd, Call, EnterWait, StepWait, DoneWork, More, On
  <2>3. ~Destroy
    BY <2>1 DEF Destroy, On
  <2> QED BY <1>3, <2>2, <2>3, StopMain, StopWorker DEF Next
<1> QED BY <1>1, <1>2, <1>3

\* Blocked in the destructor: everybody has left.
LEMMA StopEnds ==
    ASSUME OneCount, IInv, StopInv, shutdown, \A t \in Threads : Blocked(t), NEW t \in Threads
    PROVE  On(t, "exit")
PROOF
<1>1. 0 \in Threads /\ pc[0] \in {"join", "exit"} /\ BarrierInv
  BY LoopFacts DEF Blocked, On, IInv, PoolInv, MainInv
<1>2. ASSUME NEW u \in Active, at[u] # "out" PROVE Spins(u)
  <2>1. u \in Threads
    BY <1>1, BarrierFacts
  <2>2. pc[u] = "wait"
    BY <1>2, <2>1 DEF IInv, PoolInv, EndInv, EndPlace
  <2> QED BY <2>1, <2>2 DEF Blocked, On
<1>3. ASSUME NEW u \in Threads PROVE at[u] = "out"
  <2> SUFFICES ASSUME at[u] # "out" PROVE FALSE
    OBVIOUS
  <2>1. u \in Active /\ 0 \in Active
    BY <1>1, BarrierFacts
  <2>2. left[u] = Round /\ left[0] = Round /\ Round \in Nat
    BY <1>1, <1>2, <2>1, NothingToLeave, BarrierFacts
  <2>3. left[u] < left[0]
    BY <2>1 DEF StopInv
  <2> QED BY <2>2, <2>3
<1>4. ASSUME NEW u \in Workers PROVE pc[u] = "exit"
  <2>1. u \in Threads
    BY DEF Workers
  <2>2. pc[u] # "wait"
    BY <1>3, <2>1 DEF IInv, PoolInv, EndInv, EndPlace
  <2>3. pc[u] = "acquire" => starts[u] > 0
    BY <1>1 DEF StopInv
  <2>4. pc[u] = "acquire" => starts[u] # 0
    BY <2>3
  <2>5. pc[u] # "join"
    BY DEF StopInv
  <2> QED BY <2>1, <2>2, <2>4, <2>5 DEF Blocked, On
<1>5. pc[0] = "exit"
  BY <1>1, <1>4 DEF Blocked, On
<1> QED BY <1>4, <1>5 DEF On, Workers

LEMMA NobodyStuckFollows == OneCount /\ IInv /\ StopInv => NobodyIsStuck
PROOF
<1> SUFFICES ASSUME OneCount, IInv, StopInv, \A t \in Threads : Blocked(t), NEW t \in Threads
             PROVE  On(t, "exit")
  BY DEF NobodyIsStuck
<1> QED BY RunsGoOn, StopEnds

\* No deadlock: the threads of the pool never all wait for each other, at the
\* barrier (either spin of TopoBarrier::wait), on their semaphores or in the
\* destructor's join.  Only when all have left is there nothing more to do.
THEOREM NobodyGetsStuck == OneCount => (Spec => []NobodyIsStuck)
PROOF
<1> SUFFICES ASSUME OneCount PROVE Spec => []NobodyIsStuck
  OBVIOUS
<1>1. Spec => []IInv
  BY PoolInvariant
<1>2. Init => StopInv
  BY DEF Init, StopInv
<1>3. IInv /\ StopInv /\ [Next]_vars => StopInv'
  BY StopNext
<1>4. IInv /\ StopInv => NobodyIsStuck
  BY NobodyStuckFollows
<1> QED BY <1>1, <1>2, <1>3, <1>4, PTL DEF Spec
=============================================================================
