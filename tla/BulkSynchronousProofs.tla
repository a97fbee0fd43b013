------------------------ MODULE BulkSynchronousProofs -----------------------
(* Proofs about BulkSynchronous for every number of threads and of items.  *)
EXTENDS BulkSynchronous, FiniteSetTheorems, WellFoundedInduction, TLAPS

-----------------------------------------------------------------------------
(* The inductive invariant.                                                *)

Active == {"first", "some", "process", "pop", "aborts", "again"}
Busy == {"some", "process", "again"}
Labels == {"initial", "start", "firstWait", "between", "secondWait"} \union Active

Types ==
    /\ wls \in [{0, 1} -> [Threads -> SUBSET Tasks]]
    /\ shared \in [{0, 1} -> SUBSET Tasks]
    /\ round \in [Threads -> {0, 1}]
    /\ some \in BOOLEAN /\ empty \in BOOLEAN
    /\ entered \in [Threads -> Nat] /\ left \in [Threads -> Nat]
    /\ current \in [Threads -> SUBSET (Tasks \X Nat)]
    /\ aborted \in [Threads -> SUBSET (Tasks \X Nat)]
    /\ pc \in [Threads -> Labels]
    /\ born \in [Tasks -> Nat]
    /\ turn \in [Threads -> Nat]
    /\ done \in SUBSET Tasks
    /\ aborts \in Nat

\* The waits a thread has entered and left follow from its turn.
Waits(t) ==
    /\ round[t] = turn[t] % 2
    /\ pc[t] = "initial" => turn[t] = 0 /\ entered[t] = 0 /\ left[t] = 0
    /\ pc[t] # "initial" => turn[t] >= 1
    /\ pc[t] = "start" => turn[t] = 1
    /\ pc[t] = "secondWait" => turn[t] >= 2
    /\ pc[t] \in {"start", "secondWait"} =>
          entered[t] = 2 * turn[t] - 1 /\ left[t] = 2 * turn[t] - 2
    /\ pc[t] \in Active => entered[t] = 2 * turn[t] - 1 /\ left[t] = 2 * turn[t] - 1
    /\ pc[t] = "firstWait" => entered[t] = 2 * turn[t] /\ left[t] = 2 * turn[t] - 1
    /\ pc[t] = "between" => entered[t] = 2 * turn[t] /\ left[t] = 2 * turn[t]

\* The promise of the barrier.
Together == \A t, u \in Threads : left[t] <= entered[u]

InStep == Together /\ \A t \in Threads : Waits(t)

\* A thread that is through with its round has nothing of it left.
Through(t) == pc[t] \in {"firstWait", "between"}

Window(t, x) ==
    /\ turn[t] <= born[x] /\ born[x] <= turn[t] + 1
    /\ Through(t) => born[x] = turn[t] + 1
    /\ pc[t] = "secondWait" => born[x] = turn[t]

OwnRounds ==
    \A i \in {0, 1}, t \in Threads : \A x \in wls[i][t] :
        born[x] >= 1 /\ i = born[x] % 2 /\ Window(t, x)

\* What everybody can take may be for the next round of a thread that waits.
SharedRounds ==
    \A i \in {0, 1} : \A x \in shared[i] :
        /\ born[x] >= 1 /\ i = born[x] % 2
        /\ \A t \in Threads :
              /\ turn[t] <= born[x] /\ born[x] <= turn[t] + 1
              /\ Through(t) => born[x] = turn[t] + 1

WorkRounds ==
    \A t \in Threads :
        /\ aborted[t] = {}
        /\ pc[t] # "again"
        /\ pc[t] \notin Busy => current[t] = {}
        /\ \A item \in current[t] : born[item[1]] = turn[t]

\* What some says: it is set whenever there is something for the next round.
Remembered ==
    /\ \A t \in Threads : pc[t] \in {"start", "process"} => some
    /\ \A t \in Threads : pc[t] = "pop" => NothingToTake(t) \/ some
    /\ \A x \in Queued : born[x] = turn[0] + 1 => some

Finished ==
    /\ \A t \in Threads : pc[t] = "aborts" => empty
    /\ empty => /\ Queued = {}
                /\ \A t \in Threads :
                     pc[t] \in {"firstWait", "between", "secondWait", "first", "pop", "aborts"}

Rounds == OwnRounds /\ SharedRounds /\ WorkRounds /\ Remembered /\ Finished

OnePlace(x) ==
    /\ born[x] # 0 <=> \E k \in Kinds, i \in {0, 1}, t \in Threads : At(k, i, t, x)
    /\ \A k, l \in Kinds, i, j \in {0, 1}, t, u \in Threads :
          At(k, i, t, x) /\ At(l, j, u, x) => k = l /\ i = j /\ t = u

InHand ==
    /\ \A t \in Threads : pc[t] \notin Busy => current[t] = {}
    /\ \A t \in Threads : \A a, b \in aborted[t] : a[1] = b[1] => a = b

Kept == InHand /\ \A x \in Tasks : OnePlace(x)

IInv == Types /\ InStep /\ Kept /\ (aborts = 0 => Rounds)

-----------------------------------------------------------------------------
(* The queue of an aborted item is a thread's.                             *)

LEMMA ZeroIsThread == 0 \in Threads
PROOF BY LoopAssumption DEF Threads

LEMMA LeaderIsThread ==
    ASSUME NEW package \in Nat,
           NEW t \in Threads, PackageOf[t] = package
    PROVE  LeaderForPackage(package) \in Threads /\ LeaderForPackage(package) <= t
PROOF
<1> DEFINE Members == {u \in Threads : PackageOf[u] = package}
           R == OpToRel(<, Nat)
<1>1. PICK v \in Members : \A u \in Members : ~(<<u, v>> \in R)
  <2>1. Members \subseteq Nat /\ Members # {}
    BY LoopAssumption DEF Threads
  <2> HIDE DEF Members
  <2> QED BY <2>1, NatLessThanWellFounded, WFMin
<1>2. \A u \in Members : v <= u
  <2> SUFFICES ASSUME NEW u \in Members PROVE v <= u
    OBVIOUS
  <2>1. ~(<<u, v>> \in R)
    BY <1>1
  <2>2. u \in Nat /\ v \in Nat
    BY LoopAssumption DEF Threads
  <2>3. ~(u < v)
    BY <2>1, <2>2 DEF OpToRel
  <2> QED BY <2>2, <2>3
<1>3. \E w \in Threads : /\ PackageOf[w] = package
                         /\ \A u \in Threads : PackageOf[u] = package => w <= u
  BY <1>2
<1> QED BY <1>3 DEF LeaderForPackage

LEMMA QueueIsThread ==
    ASSUME NEW t \in Threads, NEW retries \in Nat
    PROVE  QueueFor(t, retries) \in Threads
PROOF
<1>1. PackageOf[t] \in Nat /\ PackageOf[t] \div 2 \in 0..PackageOf[t]
  BY PackageAssumption, LoopAssumption DEF Threads
<1>2. BasicPolicy(t) \in Threads
  <2>1. PICK u \in 0..t : PackageOf[u] = PackageOf[t] \div 2
    BY <1>1, PackageAssumption DEF Threads
  <2>2. u \in Threads
    BY LoopAssumption DEF Threads
  <2> QED BY <1>1, <2>1, <2>2, LeaderIsThread DEF BasicPolicy
<1>3. LeaderForPackage(PackageOf[t]) \in Threads /\ LeaderForPackage(PackageOf[t]) <= t
  BY <1>1, LeaderIsThread
<1>4. DoublePolicy(t, retries) \in Threads
  <2> DEFINE leader == LeaderForPackage(PackageOf[t])
  <2>1. leader + (t - leader) \div 2 \in Threads
    <3> HIDE DEF leader
    <3>1. leader \in Threads /\ leader <= t
      BY <1>3 DEF leader
    <3> QED BY <3>1, LoopAssumption DEF Threads
  <2> QED BY <1>2, <2>1 DEF DoublePolicy
<1> QED BY <1>2, <1>4 DEF QueueFor

-----------------------------------------------------------------------------
(* What the pieces of the actions do.                                      *)

LEMMA PushEffect ==
    ASSUME Types, NEW t \in Threads, NEW i \in {0, 1},
           NEW xs \in SUBSET Unpushed, PushTo(t, i, xs)
    PROVE  /\ wls' \in [{0, 1} -> [Threads -> SUBSET Tasks]]
           /\ shared' \in [{0, 1} -> SUBSET Tasks]
           /\ born' \in [Tasks -> Nat]
           /\ \A x \in Tasks : born'[x] = IF x \in xs THEN turn[t] + 1 ELSE born[x]
           /\ \A j \in {0, 1}, u \in Threads :
                 j # i \/ u # t => wls'[j][u] = wls[j][u]
           /\ \A j \in {0, 1} : j # i => shared'[j] = shared[j]
PROOF
<1>1. xs \subseteq Tasks
  BY DEF Unpushed
<1>2. PICK out \in SUBSET (wls[i][t] \union xs) :
        /\ shared' = [shared EXCEPT ![i] = @ \union out]
        /\ wls' = [wls EXCEPT ![i][t] = (@ \union xs) \ out]
  BY DEF PushTo
<1>3. out \subseteq Tasks /\ wls[i][t] \union xs \subseteq Tasks
  BY <1>1 DEF Types
<1>4. shared' \in [{0, 1} -> SUBSET Tasks]
  BY <1>2, <1>3 DEF Types
<1>5. wls' \in [{0, 1} -> [Threads -> SUBSET Tasks]]
  BY <1>2, <1>3 DEF Types
<1>6. born' \in [Tasks -> Nat] /\ \A x \in Tasks : born'[x] = IF x \in xs THEN turn[t] + 1 ELSE born[x]
  BY DEF PushTo, Types
<1>7. \A j \in {0, 1}, u \in Threads : j # i \/ u # t => wls'[j][u] = wls[j][u]
  BY <1>2 DEF Types
<1>8. \A j \in {0, 1} : j # i => shared'[j] = shared[j]
  BY <1>2 DEF Types
<1> QED BY <1>4, <1>5, <1>6, <1>7, <1>8

LEMMA PushOut ==
    ASSUME Types, NEW t \in Threads, NEW i \in {0, 1},
           NEW xs \in SUBSET Unpushed, PushTo(t, i, xs)
    PROVE  \E out \in SUBSET (wls[i][t] \union xs) :
              /\ shared'[i] = shared[i] \union out
              /\ wls'[i][t] = (wls[i][t] \union xs) \ out
PROOF
<1>1. PICK out \in SUBSET (wls[i][t] \union xs) :
        /\ shared' = [shared EXCEPT ![i] = @ \union out]
        /\ wls' = [wls EXCEPT ![i][t] = (@ \union xs) \ out]
  BY DEF PushTo
<1>2. /\ wls'[i][t] = (wls[i][t] \union xs) \ out
      /\ shared'[i] = shared[i] \union out
  BY <1>1 DEF Types
<1> QED BY <1>2

LEMMA TakeEffect ==
    ASSUME Types, NEW t \in Threads, NEW next \in Labels, Take(t, next)
    PROVE  \E x \in wls[round[t]][t] \union shared[round[t]] :
              /\ x \in Tasks
              /\ wls' \in [{0, 1} -> [Threads -> SUBSET Tasks]]
              /\ shared' \in [{0, 1} -> SUBSET Tasks]
              /\ \A j \in {0, 1}, u \in Threads :
                    j # round[t] \/ u # t => wls'[j][u] = wls[j][u]
              /\ \A j \in {0, 1} : j # round[t] => shared'[j] = shared[j]
              /\ wls'[round[t]][t] = wls[round[t]][t] \ {x}
              /\ shared'[round[t]] = shared[round[t]] \ {x}
              /\ current' = [current EXCEPT ![t] = {<<x, 0>>}]
              /\ pc' = [pc EXCEPT ![t] = next]
PROOF
<1>1. PICK x \in wls[round[t]][t] \union shared[round[t]] :
        /\ wls' = [wls EXCEPT ![round[t]][t] = @ \ {x}]
        /\ shared' = [shared EXCEPT ![round[t]] = @ \ {x}]
        /\ current' = [current EXCEPT ![t] = {<<x, 0>>}]
        /\ pc' = [pc EXCEPT ![t] = next]
  BY DEF Take, Goto
<1>2. PICK r \in {0, 1} : r = round[t]
  BY DEF Types
<1>3. x \in Tasks
  BY <1>1, <1>2 DEF Types
<1>4. /\ wls' \in [{0, 1} -> [Threads -> SUBSET Tasks]]
      /\ \A j \in {0, 1}, u \in Threads : j # r \/ u # t => wls'[j][u] = wls[j][u]
      /\ wls'[r][t] = wls[r][t] \ {x}
  <2>1. wls' = [wls EXCEPT ![r][t] = @ \ {x}]
    BY <1>1, <1>2
  <2> QED BY <1>2, <2>1 DEF Types
<1>5. /\ shared' \in [{0, 1} -> SUBSET Tasks]
      /\ \A j \in {0, 1} : j # r => shared'[j] = shared[j]
      /\ shared'[r] = shared[r] \ {x}
  BY <1>1, <1>2 DEF Types
<1> QED BY <1>1, <1>2, <1>3, <1>4, <1>5

-----------------------------------------------------------------------------
(* Type correctness.                                                       *)

LEMMA InitTypes == Init => Types
PROOF
<1> SUFFICES ASSUME Init PROVE Types
  OBVIOUS
<1>1. /\ wls \in [{0, 1} -> [Threads -> SUBSET Tasks]]
      /\ shared \in [{0, 1} -> SUBSET Tasks]
  BY DEF Init
<1>2. /\ round \in [Threads -> {0, 1}] /\ turn \in [Threads -> Nat]
      /\ entered \in [Threads -> Nat] /\ left \in [Threads -> Nat]
  BY DEF Init, Bar!Init
<1>3. some \in BOOLEAN /\ empty \in BOOLEAN
  BY DEF Init
<1>4. /\ current \in [Threads -> SUBSET (Tasks \X Nat)]
      /\ aborted \in [Threads -> SUBSET (Tasks \X Nat)]
  BY DEF Init
<1>5. pc \in [Threads -> Labels]
  BY DEF Init, Labels
<1>6. born \in [Tasks -> Nat] /\ done \in SUBSET Tasks /\ aborts \in Nat
  BY DEF Init, Unborn
<1> QED BY <1>1, <1>2, <1>3, <1>4, <1>5, <1>6 DEF Types

LEMMA RoundType == ASSUME Types, NEW t \in Threads
                   PROVE  round[t] \in {0, 1} /\ NextRound(round[t]) \in {0, 1}
PROOF
<1>1. round[t] \in {0, 1}
  BY DEF Types
<1> QED BY <1>1 DEF NextRound

LEMMA PcType ==
    ASSUME Types, NEW t \in Threads, NEW label \in Labels, Goto(t, label)
    PROVE  pc' \in [Threads -> Labels]
PROOF BY DEF Types, Goto

LEMMA BarType ==
    ASSUME Types, NEW t \in Threads, Bar!Enter(t) \/ Bar!Leave(t) \/ UNCHANGED barVars
    PROVE  entered' \in [Threads -> Nat] /\ left' \in [Threads -> Nat]
PROOF
<1>1. entered \in [Threads -> Nat] /\ left \in [Threads -> Nat]
  BY DEF Types
<1> QED BY <1>1 DEF Bar!Enter, Bar!Leave, barVars

LEMMA CommitTypes ==
    ASSUME Types, NEW t \in Threads, NEW next \in Labels, Commit(t, next)
    PROVE  Types'
PROOF
<1>1. PICK xs \in SUBSET Unpushed : PushTo(t, NextRound(round[t]), xs)
  BY DEF Commit, Push
<1>2. /\ wls' \in [{0, 1} -> [Threads -> SUBSET Tasks]]
      /\ shared' \in [{0, 1} -> SUBSET Tasks]
      /\ born' \in [Tasks -> Nat]
  BY <1>1, RoundType, PushEffect
<1>3. pc' \in [Threads -> Labels]
  BY PcType DEF Commit
<1>4. done' \in SUBSET Tasks
  <2>1. \A item \in current[t] : item[1] \in Tasks
    BY DEF Types
  <2> QED BY <2>1 DEF Commit, Types
<1>5. current' \in [Threads -> SUBSET (Tasks \X Nat)]
  BY DEF Commit, Types
<1>6. UNCHANGED <<round, some, empty, entered, left, aborted, turn, aborts>>
  BY DEF Commit, barVars
<1> QED BY <1>2, <1>3, <1>4, <1>5, <1>6 DEF Types

LEMMA AbortTypes ==
    ASSUME Types, NEW t \in Threads, NEW u \in Threads, NEW retries \in Nat, NEW next \in Labels,
           AbortIteration(t, u, retries), Goto(t, next)
    PROVE  Types'
PROOF
<1>1. pc' \in [Threads -> Labels]
  BY PcType
<1>2. {<<item[1], retries>> : item \in current[t]} \subseteq Tasks \X Nat
  BY DEF Types
<1>3. aborted' \in [Threads -> SUBSET (Tasks \X Nat)]
  BY <1>2 DEF AbortIteration, Types
<1>4. current' \in [Threads -> SUBSET (Tasks \X Nat)] /\ aborts' \in Nat
  BY DEF AbortIteration, Types
<1>5. UNCHANGED <<wls, shared, some, empty, round, entered, left, born, turn, done>>
  BY DEF AbortIteration, listVars, barVars
<1> QED BY <1>1, <1>3, <1>4, <1>5 DEF Types

LEMMA TypesStep ==
    ASSUME Types, NEW t \in Threads, Step(t)
    PROVE  Types'
PROOF
<1>1. CASE PushInitial(t)
  <2>1. PICK xs \in SUBSET Unpushed : PushTo(t, NextRound(round[t]), xs)
    BY <1>1 DEF PushInitial, Push
  <2>2. /\ wls' \in [{0, 1} -> [Threads -> SUBSET Tasks]]
        /\ shared' \in [{0, 1} -> SUBSET Tasks]
        /\ born' \in [Tasks -> Nat]
    BY <2>1, RoundType, PushEffect
  <2>3. pc' \in [Threads -> Labels]
    BY <1>1, PcType DEF PushInitial, Labels
  <2>4. entered' \in [Threads -> Nat] /\ left' \in [Threads -> Nat]
    BY <1>1, BarType DEF PushInitial
  <2> QED BY <1>1, <2>2, <2>3, <2>4 DEF PushInitial, Types
<1>2. CASE Start(t) \/ FirstWait(t) \/ SecondWait(t) \/ RoundDone(t)
  <2>1. entered' \in [Threads -> Nat] /\ left' \in [Threads -> Nat]
    BY <1>2, BarType DEF Start, FirstWait, SecondWait, RoundDone
  <2>2. pc' \in [Threads -> Labels]
    BY <1>2, PcType DEF Start, FirstWait, SecondWait, RoundDone, Labels, Active
  <2>3. UNCHANGED <<wls, shared, some, empty, round, current, aborted, born, turn, done, aborts>>
    BY <1>2 DEF Start, FirstWait, SecondWait, RoundDone, listVars
  <2> QED BY <2>1, <2>2, <2>3 DEF Types
<1>3. CASE PopEmpty(t) \/ NoneInRound(t) \/ NoneAborted(t)
  <2>1. pc' \in [Threads -> Labels]
    BY <1>3, PcType DEF PopEmpty, NoneInRound, NoneAborted, Labels, Active
  <2>2. UNCHANGED <<wls, shared, some, empty, round, entered, left, current, aborted, born,
                    turn, done, aborts>>
    BY <1>3 DEF PopEmpty, NoneInRound, NoneAborted, listVars, barVars
  <2> QED BY <2>1, <2>2 DEF Types
<1>4. CASE Pop(t) \/ FirstOfRound(t)
  <2>1. PICK next \in {"process", "some"} : Take(t, next)
    BY <1>4 DEF Pop, FirstOfRound
  <2>2. next \in Labels
    BY DEF Labels, Active
  <2>3. PICK x \in Tasks :
          /\ wls' \in [{0, 1} -> [Threads -> SUBSET Tasks]]
          /\ shared' \in [{0, 1} -> SUBSET Tasks]
          /\ current' = [current EXCEPT ![t] = {<<x, 0>>}]
          /\ pc' = [pc EXCEPT ![t] = next]
    BY <2>1, <2>2, TakeEffect
  <2>4. UNCHANGED <<some, empty, round, entered, left, aborted, born, turn, done, aborts>>
    BY <1>4 DEF Pop, FirstOfRound, barVars
  <2> QED BY <2>2, <2>3, <2>4 DEF Types
<1>5. CASE Between(t)
  <2>1. entered' \in [Threads -> Nat] /\ left' \in [Threads -> Nat]
    BY <1>5, BarType DEF Between
  <2>2. pc' \in [Threads -> Labels]
    BY <1>5, PcType DEF Between, Labels
  <2>3. some' \in BOOLEAN /\ empty' \in BOOLEAN
    <3>1. CASE t = 0
      <4>1. some' = FALSE /\ empty' = (empty \/ ~some)
        BY <1>5, <3>1 DEF Between, Decide
      <4> QED BY <4>1
    <3>2. CASE t # 0
      <4>1. some' = some /\ empty' = empty
        BY <1>5, <3>2 DEF Between, Decide
      <4> QED BY <4>1 DEF Types
    <3> QED BY <3>1, <3>2
  <2>4. round' \in [Threads -> {0, 1}]
    BY <1>5, RoundType DEF Between, Types
  <2>5. turn' \in [Threads -> Nat]
    BY <1>5 DEF Between, Types
  <2>6. UNCHANGED <<wls, shared, current, aborted, born, done, aborts>>
    BY <1>5 DEF Between
  <2> QED BY <2>1, <2>2, <2>3, <2>4, <2>5, <2>6 DEF Types
<1>6. CASE Some(t)
  <2>1. pc' \in [Threads -> Labels]
    BY <1>6, PcType DEF Some, Labels, Active
  <2> QED BY <1>6, <2>1 DEF Some, Types, barVars
<1>7. CASE Process(t) \/ ProcessAborted(t)
  <2>1. PICK next \in {"pop", "aborts"} : Commit(t, next)
    BY <1>7 DEF Process, ProcessAborted
  <2> QED BY <2>1, CommitTypes DEF Labels, Active
<1>8. CASE Abort(t)
  BY <1>8, AbortTypes DEF Abort, Labels, Active
<1>9. CASE PopAborted(t)
  <2>1. PICK item \in aborted[t] :
          /\ aborted' = [aborted EXCEPT ![t] = @ \ {item}]
          /\ current' = [current EXCEPT ![t] = {item}]
    BY <1>9 DEF PopAborted
  <2>2. item \in Tasks \X Nat
    BY DEF Types
  <2>3. pc' \in [Threads -> Labels]
    BY <1>9, PcType DEF PopAborted, Labels, Active
  <2>4. aborted' \in [Threads -> SUBSET (Tasks \X Nat)]
    BY <2>1 DEF Types
  <2>5. current' \in [Threads -> SUBSET (Tasks \X Nat)]
    BY <2>1, <2>2 DEF Types
  <2>6. UNCHANGED <<wls, shared, some, empty, round, entered, left, born, turn, done, aborts>>
    BY <1>9 DEF PopAborted, listVars, barVars
  <2> QED BY <2>3, <2>4, <2>5, <2>6 DEF Types
<1>10. CASE AbortAgain(t)
  <2>1. PICK item \in current[t] :
          AbortIteration(t, QueueFor(t, item[2] + 1), item[2] + 1)
    BY <1>10 DEF AbortAgain
  <2>2. item[2] + 1 \in Nat
    BY DEF Types
  <2>3. QueueFor(t, item[2] + 1) \in Threads
    BY <2>2, QueueIsThread
  <2> QED BY <1>10, <2>1, <2>2, <2>3, AbortTypes DEF AbortAgain, Labels, Active
<1> QED BY <1>1, <1>2, <1>3, <1>4, <1>5, <1>6, <1>7, <1>8, <1>9, <1>10 DEF Step

-----------------------------------------------------------------------------
(* The barrier keeps the threads in step.                                  *)

LEMMA Parity ==
    ASSUME NEW n \in Nat
    PROVE  /\ n % 2 \in {0, 1} /\ (n + 1) % 2 \in {0, 1} /\ n % 2 # (n + 1) % 2
           /\ NextRound(n % 2) = (n + 1) % 2
PROOF BY DEF NextRound

LEMMA TogetherStep ==
    ASSUME Types, Together, NEW t \in Threads, Bar!Enter(t) \/ Bar!Leave(t) \/ UNCHANGED barVars
    PROVE  Together'
PROOF
<1> SUFFICES ASSUME NEW v \in Threads, NEW u \in Threads PROVE left'[v] <= entered'[u]
  BY DEF Together
<1>1. left[v] <= entered[u] /\ left[v] \in Nat /\ entered[u] \in Nat
  BY DEF Together, Types
<1>2. CASE Bar!Enter(t)
  <2>1. left' = left /\ entered'[u] \in {entered[u], entered[u] + 1}
    BY <1>2 DEF Bar!Enter, Types
  <2> QED BY <1>1, <2>1
<1>3. CASE Bar!Leave(t)
  <2>1. entered' = entered /\ left'[v] = IF v = t THEN left[v] + 1 ELSE left[v]
    BY <1>3 DEF Bar!Leave, Types
  <2>2. v = t => left[v] < entered[u]
    BY <1>3 DEF Bar!Leave
  <2> QED BY <1>1, <2>1, <2>2
<1>4. CASE UNCHANGED barVars
  BY <1>1, <1>4 DEF barVars
<1> QED BY <1>2, <1>3, <1>4

LEMMA InitInStep == Init => InStep
PROOF
<1> SUFFICES ASSUME Init PROVE InStep
  OBVIOUS
<1>1. \A t \in Threads : /\ round[t] = 0 /\ turn[t] = 0 /\ entered[t] = 0 /\ left[t] = 0
                         /\ pc[t] = "initial"
  BY DEF Init, Bar!Init
<1>2. Together
  BY <1>1 DEF Together
<1>3. \A t \in Threads : Waits(t)
  BY <1>1 DEF Waits, Active
<1> QED BY <1>2, <1>3 DEF InStep

\* A step of t, and what it does to where t is.
Moves(t) ==
    /\ UNCHANGED <<round, turn>>
    /\ \/ pc[t] \in Active /\ (\E l \in Active : Goto(t, l)) /\ UNCHANGED barVars
       \/ pc[t] = "start" /\ Goto(t, "pop") /\ Bar!Leave(t)
       \/ pc[t] = "pop" /\ Goto(t, "firstWait") /\ Bar!Enter(t)
       \/ pc[t] = "firstWait" /\ Goto(t, "between") /\ Bar!Leave(t)
       \/ pc[t] = "secondWait" /\ Goto(t, "first") /\ Bar!Leave(t)

LEMMA StepMoves ==
    ASSUME NEW t \in Threads, Step(t)
    PROVE  Moves(t) \/ PushInitial(t) \/ Between(t)
PROOF
<1>1. CASE Start(t)
  BY <1>1 DEF Start, Moves, On
<1>2. CASE RoundDone(t)
  BY <1>2 DEF RoundDone, Moves, On
<1>3. CASE FirstWait(t)
  BY <1>3 DEF FirstWait, Moves, On
<1>4. CASE SecondWait(t)
  BY <1>4 DEF SecondWait, Moves, On
<1>5. CASE PopEmpty(t) \/ NoneInRound(t) \/ NoneAborted(t) \/ Some(t) \/ PopAborted(t)
  BY <1>5 DEF PopEmpty, NoneInRound, NoneAborted, Some, PopAborted, Moves, On, Active
<1>6. CASE Pop(t) \/ FirstOfRound(t)
  BY <1>6 DEF Pop, FirstOfRound, Take, Moves, On, Active
<1>7. CASE Process(t) \/ ProcessAborted(t)
  BY <1>7 DEF Process, ProcessAborted, Commit, Moves, On, Active
<1>8. CASE Abort(t) \/ AbortAgain(t)
  BY <1>8 DEF Abort, AbortAgain, AbortIteration, Moves, On, Active
<1> QED BY <1>1, <1>2, <1>3, <1>4, <1>5, <1>6, <1>7, <1>8 DEF Step

LEMMA OthersWait ==
    ASSUME Types, NEW t \in Threads, NEW u \in Threads \ {t}, Waits(u),
           Moves(t) \/ PushInitial(t) \/ Between(t)
    PROVE  /\ pc'[u] = pc[u] /\ turn'[u] = turn[u] /\ round'[u] = round[u]
           /\ entered'[u] = entered[u] /\ left'[u] = left[u]
           /\ Waits(u)'
PROOF
<1>1. pc'[u] = pc[u]
  BY DEF Moves, PushInitial, Between, Goto, Types
<1>2. turn'[u] = turn[u] /\ round'[u] = round[u]
  BY DEF Moves, PushInitial, Between, Types
<1>3. entered'[u] = entered[u] /\ left'[u] = left[u]
  BY DEF Moves, PushInitial, Between, barVars, Bar!Enter, Bar!Leave, Types
<1> QED BY <1>1, <1>2, <1>3 DEF Waits

LEMMA InStepStep ==
    ASSUME Types, Types', InStep, NEW t \in Threads, Step(t)
    PROVE  InStep'
PROOF
<1>1. Moves(t) \/ PushInitial(t) \/ Between(t)
  BY StepMoves
<1>2. Together'
  BY <1>1, TogetherStep DEF InStep, Moves, PushInitial, Between
<1>3. Waits(t)'
  <2>1. /\ turn[t] \in Nat /\ entered[t] \in Nat /\ left[t] \in Nat
        /\ round[t] = turn[t] % 2
    BY DEF Types, InStep, Waits
  <2>2. CASE Moves(t)
    <3>1. round'[t] = round[t] /\ turn'[t] = turn[t] /\ turn[t] % 2 = round'[t]
      BY <2>1, <2>2 DEF Moves
    <3>2. CASE pc[t] \in Active /\ (\E l \in Active : Goto(t, l)) /\ UNCHANGED barVars
      <4>1. pc'[t] \in Active /\ entered' = entered /\ left' = left
        BY <3>2 DEF Goto, Types, barVars
      <4>2. entered[t] = 2 * turn[t] - 1 /\ left[t] = 2 * turn[t] - 1 /\ turn[t] >= 1
        BY <3>2 DEF InStep, Waits, Active
      <4> QED BY <3>1, <4>1, <4>2 DEF Waits, Active
    <3>3. CASE pc[t] \in {"start", "secondWait"} /\ Bar!Leave(t) /\ (Goto(t, "pop") \/ Goto(t, "first"))
      <4>1. pc'[t] \in {"pop", "first"} /\ entered' = entered /\ left'[t] = left[t] + 1
        BY <3>3 DEF Goto, Types, Bar!Leave
      <4>2. entered[t] = 2 * turn[t] - 1 /\ left[t] = 2 * turn[t] - 2 /\ turn[t] >= 1
        BY <3>3 DEF InStep, Waits
      <4>3. entered'[t] = 2 * turn'[t] - 1 /\ left'[t] = 2 * turn'[t] - 1
        BY <2>1, <3>1, <4>1, <4>2
      <4> QED BY <3>1, <4>1, <4>2, <4>3 DEF Waits, Active
    <3>4. CASE pc[t] = "pop" /\ Goto(t, "firstWait") /\ Bar!Enter(t)
      <4>1. pc'[t] = "firstWait" /\ left' = left /\ entered'[t] = entered[t] + 1
        BY <3>4 DEF Goto, Types, Bar!Enter
      <4>2. entered[t] = 2 * turn[t] - 1 /\ left[t] = 2 * turn[t] - 1 /\ turn[t] >= 1
        BY <3>4 DEF InStep, Waits, Active
      <4>3. entered'[t] = 2 * turn'[t] /\ left'[t] = 2 * turn'[t] - 1
        BY <2>1, <3>1, <4>1, <4>2
      <4> QED BY <3>1, <4>1, <4>2, <4>3 DEF Waits, Active
    <3>5. CASE pc[t] = "firstWait" /\ Goto(t, "between") /\ Bar!Leave(t)
      <4>1. pc'[t] = "between" /\ entered' = entered /\ left'[t] = left[t] + 1
        BY <3>5 DEF Goto, Types, Bar!Leave
      <4>2. entered[t] = 2 * turn[t] /\ left[t] = 2 * turn[t] - 1 /\ turn[t] >= 1
        BY <3>5 DEF InStep, Waits
      <4>3. entered'[t] = 2 * turn'[t] /\ left'[t] = 2 * turn'[t]
        BY <2>1, <3>1, <4>1, <4>2
      <4> QED BY <3>1, <4>1, <4>2, <4>3 DEF Waits, Active
    <3> QED BY <2>2, <3>2, <3>3, <3>4, <3>5 DEF Moves
  <2>3. CASE PushInitial(t)
    <3>1. pc[t] = "initial" /\ pc'[t] = "start" /\ turn'[t] = 1 /\ round'[t] = 1
      BY <2>3 DEF PushInitial, On, Goto, Types
    <3>2. entered'[t] = entered[t] + 1 /\ left' = left
      BY <2>3 DEF PushInitial, Bar!Enter, Types
    <3>3. entered'[t] = 1 /\ left'[t] = 0
      BY <3>1, <3>2 DEF InStep, Waits
    <3> QED BY <3>1, <3>3 DEF Waits, Active
  <2>4. CASE Between(t)
    <3>1. /\ pc[t] = "between" /\ pc'[t] = "secondWait" /\ turn'[t] = turn[t] + 1
          /\ round'[t] = NextRound(round[t])
      BY <2>4 DEF Between, On, Goto, Types
    <3>2. entered'[t] = entered[t] + 1 /\ left' = left
      BY <2>4 DEF Between, Bar!Enter, Types
    <3>3. entered[t] = 2 * turn[t] /\ left[t] = 2 * turn[t]
      BY <3>1 DEF InStep, Waits
    <3>4. entered'[t] = 2 * turn'[t] - 1 /\ left'[t] = 2 * turn'[t] - 2
      BY <2>1, <3>1, <3>2, <3>3
    <3>5. round'[t] = turn'[t] % 2 /\ turn'[t] >= 2 /\ turn'[t] >= 1
      <4>1. turn[t] >= 1
        BY <3>1 DEF InStep, Waits
      <4> QED BY <2>1, <3>1, <4>1, Parity
    <3> QED BY <3>1, <3>4, <3>5 DEF Waits, Active
  <2> QED BY <1>1, <2>2, <2>3, <2>4
<1>4. \A u \in Threads \ {t} : Waits(u)'
  BY <1>1, OthersWait DEF InStep
<1> QED BY <1>2, <1>3, <1>4 DEF InStep

\* While a thread is in a round, all are: none is before it, and none past it.
LEMMA SameTurn ==
    ASSUME Types, InStep, NEW t \in Threads, pc[t] \in Active, NEW u \in Threads
    PROVE  turn[u] = turn[t] /\ pc[u] # "between" /\ pc[u] # "initial"
PROOF
<1>1. entered[t] = 2 * turn[t] - 1 /\ left[t] = 2 * turn[t] - 1 /\ turn[t] >= 1
  BY DEF InStep, Waits, Active
<1>2. left[t] <= entered[u] /\ left[u] <= entered[t]
  BY DEF InStep, Together
<1>3. turn[u] \in Nat /\ turn[t] \in Nat /\ pc[u] \in Labels
  BY DEF Types
<1>4. CASE pc[u] = "initial"
  <2>1. entered[u] = 0
    BY <1>4 DEF InStep, Waits
  <2> QED BY <1>1, <1>2, <1>3, <2>1
<1>5. CASE pc[u] \in {"start", "secondWait"}
  <2>1. entered[u] = 2 * turn[u] - 1 /\ left[u] = 2 * turn[u] - 2
    BY <1>5 DEF InStep, Waits
  <2> QED BY <1>1, <1>2, <1>3, <1>5, <2>1
<1>6. CASE pc[u] \in Active
  <2>1. entered[u] = 2 * turn[u] - 1 /\ left[u] = 2 * turn[u] - 1
    BY <1>6 DEF InStep, Waits
  <2> QED BY <1>1, <1>2, <1>3, <1>6, <2>1 DEF Active
<1>7. CASE pc[u] = "firstWait"
  <2>1. entered[u] = 2 * turn[u] /\ left[u] = 2 * turn[u] - 1
    BY <1>7 DEF InStep, Waits
  <2> QED BY <1>1, <1>2, <1>3, <1>7, <2>1
<1>8. CASE pc[u] = "between"
  <2>1. entered[u] = 2 * turn[u] /\ left[u] = 2 * turn[u]
    BY <1>8 DEF InStep, Waits
  <2> QED BY <1>1, <1>2, <1>3, <2>1
<1> QED BY <1>3, <1>4, <1>5, <1>6, <1>7, <1>8 DEF Labels

\* When a thread decides, all are between the two waits of the same round.
LEMMA AllBetween ==
    ASSUME Types, InStep, NEW t \in Threads, pc[t] = "between", NEW u \in Threads
    PROVE  \/ turn[u] = turn[t] /\ pc[u] \in {"firstWait", "between"}
           \/ turn[u] = turn[t] + 1 /\ pc[u] = "secondWait"
PROOF
<1>1. entered[t] = 2 * turn[t] /\ left[t] = 2 * turn[t] /\ turn[t] >= 1
  BY DEF InStep, Waits
<1>2. left[t] <= entered[u] /\ left[u] <= entered[t]
  BY DEF InStep, Together
<1>3. turn[u] \in Nat /\ turn[t] \in Nat /\ pc[u] \in Labels
  BY DEF Types
<1>4. CASE pc[u] = "initial"
  <2>1. entered[u] = 0
    BY <1>4 DEF InStep, Waits
  <2> QED BY <1>1, <1>2, <1>3, <2>1
<1>5. CASE pc[u] = "start"
  <2>1. turn[u] = 1 /\ entered[u] = 2 * turn[u] - 1
    BY <1>5 DEF InStep, Waits
  <2> QED BY <1>1, <1>2, <1>3, <2>1
<1>6. CASE pc[u] = "secondWait"
  <2>1. entered[u] = 2 * turn[u] - 1 /\ left[u] = 2 * turn[u] - 2
    BY <1>6 DEF InStep, Waits
  <2> QED BY <1>1, <1>2, <1>3, <1>6, <2>1
<1>7. CASE pc[u] \in Active
  <2>1. entered[u] = 2 * turn[u] - 1 /\ left[u] = 2 * turn[u] - 1
    BY <1>7 DEF InStep, Waits
  <2> QED BY <1>1, <1>2, <1>3, <2>1
<1>8. CASE pc[u] \in {"firstWait", "between"}
  <2>1. entered[u] = 2 * turn[u] /\ left[u] \in {2 * turn[u] - 1, 2 * turn[u]}
    BY <1>8 DEF InStep, Waits
  <2> QED BY <1>1, <1>2, <1>3, <1>8, <2>1
<1> QED BY <1>3, <1>4, <1>5, <1>6, <1>7, <1>8 DEF Labels

\* Before a thread has pushed its part of the range, none is past the first wait.
LEMMA AllStarting ==
    ASSUME Types, InStep, NEW t \in Threads, pc[t] = "initial", NEW u \in Threads
    PROVE  pc[u] \in {"initial", "start"} /\ turn[u] <= 1
PROOF
<1>1. entered[t] = 0
  BY DEF InStep, Waits
<1>2. left[u] <= entered[t]
  BY DEF InStep, Together
<1>3. turn[u] \in Nat /\ pc[u] \in Labels
  BY DEF Types
<1>4. CASE pc[u] \in {"initial", "start"}
  BY <1>4 DEF InStep, Waits
<1>5. CASE pc[u] \notin {"initial", "start", "secondWait"}
  <2>1. pc[u] \in Active \/ pc[u] \in {"firstWait", "between"}
    BY <1>3, <1>5 DEF Labels
  <2>2. left[u] \in {2 * turn[u] - 1, 2 * turn[u]} /\ turn[u] >= 1
    BY <2>1 DEF InStep, Waits, Active
  <2> QED BY <1>1, <1>2, <1>3, <2>2
<1>6. CASE pc[u] = "secondWait"
  <2>1. left[u] = 2 * turn[u] - 2 /\ turn[u] >= 2
    BY <1>6 DEF InStep, Waits
  <2> QED BY <1>1, <1>2, <1>3, <2>1
<1> QED BY <1>4, <1>5, <1>6

-----------------------------------------------------------------------------
(* Every item that was pushed is in one place.                             *)

LEMMA KindFacts ==
    ASSUME NEW i, NEW t, NEW x
    PROVE  /\ At("own", i, t, x) <=> x \in wls[i][t]
           /\ At("shared", i, t, x) <=> t = 0 /\ x \in shared[i]
           /\ At("current", i, t, x) <=> i = 0 /\ \E item \in current[t] : item[1] = x
           /\ At("aborted", i, t, x) <=> i = 0 /\ \E item \in aborted[t] : item[1] = x
           /\ At("done", i, t, x) <=> i = 0 /\ t = 0 /\ x \in done
PROOF BY DEF At

LEMMA Stays ==
    ASSUME NEW x \in Tasks, OnePlace(x), born'[x] = born[x],
           \A k \in Kinds, i \in {0, 1}, t \in Threads : At(k, i, t, x)' <=> At(k, i, t, x)
    PROVE  OnePlace(x)'
PROOF
<1>1. born'[x] # 0 <=> \E k \in Kinds, i \in {0, 1}, t \in Threads : At(k, i, t, x)'
  BY DEF OnePlace
<1>2. \A k, l \in Kinds, i, j \in {0, 1}, t, u \in Threads :
          At(k, i, t, x)' /\ At(l, j, u, x)' => k = l /\ i = j /\ t = u
  BY DEF OnePlace
<1> QED BY <1>1, <1>2 DEF OnePlace

LEMMA Placed ==
    ASSUME NEW x \in Tasks, born'[x] # 0,
           NEW kind \in Kinds, NEW which \in {0, 1}, NEW thread \in Threads,
           \A k \in Kinds, i \in {0, 1}, t \in Threads :
              At(k, i, t, x)' <=> k = kind /\ i = which /\ t = thread
    PROVE  OnePlace(x)'
PROOF
<1>1. \E k \in Kinds, i \in {0, 1}, t \in Threads : At(k, i, t, x)'
  OBVIOUS
<1>2. \A k, l \in Kinds, i, j \in {0, 1}, t, u \in Threads :
          At(k, i, t, x)' /\ At(l, j, u, x)' => k = l /\ i = j /\ t = u
  OBVIOUS
<1> QED BY <1>1, <1>2 DEF OnePlace

LEMMA InitKept == Init => Kept
PROOF
<1> SUFFICES ASSUME Init PROVE Kept
  OBVIOUS
<1>1. \A i \in {0, 1}, t \in Threads :
         wls[i][t] = {} /\ shared[i] = {} /\ current[t] = {} /\ aborted[t] = {} /\ done = {}
  BY DEF Init
<1>2. \A x \in Tasks : born[x] = 0
  BY DEF Init, Unborn
<1>3. \A x \in Tasks, k \in Kinds, i \in {0, 1}, t \in Threads : ~At(k, i, t, x)
  BY <1>1 DEF At
<1>4. \A x \in Tasks : OnePlace(x)
  BY <1>2, <1>3 DEF OnePlace
<1>5. InHand
  BY <1>1 DEF InHand
<1> QED BY <1>4, <1>5 DEF Kept

\* A push, as an item sees it that the step does not move otherwise.
LEMMA PushKeeps ==
    ASSUME Types, NEW t \in Threads, NEW r \in {0, 1},
           NEW xs \in SUBSET Unpushed, PushTo(t, r, xs),
           NEW x \in Tasks, OnePlace(x),
           \A k \in {"current", "aborted", "done"}, i \in {0, 1}, u \in Threads :
              At(k, i, u, x)' <=> At(k, i, u, x)
    PROVE  OnePlace(x)'
PROOF
<1>1. /\ \A j \in {0, 1}, u \in Threads : j # r \/ u # t => wls'[j][u] = wls[j][u]
      /\ \A j \in {0, 1} : j # r => shared'[j] = shared[j]
      /\ born'[x] = IF x \in xs THEN turn[t] + 1 ELSE born[x]
  BY PushEffect
<1>2. PICK out \in SUBSET (wls[r][t] \union xs) :
         /\ shared'[r] = shared[r] \union out
         /\ wls'[r][t] = (wls[r][t] \union xs) \ out
  BY PushOut
<1>3. turn[t] + 1 # 0
  BY DEF Types
<1>4. 0 \in Threads
  BY ZeroIsThread
<1>5. \A k \in Kinds : k \in {"own", "shared", "current", "aborted", "done"}
  BY DEF Kinds
<1>6. CASE x \in xs
  <2>1. born[x] = 0 /\ born'[x] # 0
    BY <1>1, <1>3, <1>6 DEF Unpushed, Unborn
  <2>2. \A k \in Kinds, i \in {0, 1}, u \in Threads : ~At(k, i, u, x)
    BY <2>1 DEF OnePlace
  <2>3. \A i \in {0, 1}, u \in Threads : x \notin wls[i][u] /\ x \notin shared[i]
    BY <1>4, <2>2, KindFacts DEF Kinds
  <2>4. \A k \in {"current", "aborted", "done"}, i \in {0, 1}, u \in Threads : ~At(k, i, u, x)'
    BY <2>2 DEF Kinds
  <2>5. CASE x \in out
    <3>1. \A i \in {0, 1}, u \in Threads : x \notin wls'[i][u] /\ (x \in shared'[i] <=> i = r)
      BY <1>1, <1>2, <2>3, <2>5
    <3>2. \A k \in Kinds, i \in {0, 1}, u \in Threads :
             At(k, i, u, x)' <=> k = "shared" /\ i = r /\ u = 0
      BY <1>5, <2>4, <3>1 DEF At
    <3> QED BY <1>4, <2>1, <3>2, Placed DEF Kinds
  <2>6. CASE x \notin out
    <3>1. \A i \in {0, 1}, u \in Threads :
             x \notin shared'[i] /\ (x \in wls'[i][u] <=> i = r /\ u = t)
      BY <1>1, <1>2, <1>6, <2>3, <2>6
    <3>2. \A k \in Kinds, i \in {0, 1}, u \in Threads :
             At(k, i, u, x)' <=> k = "own" /\ i = r /\ u = t
      BY <1>5, <2>4, <3>1 DEF At
    <3> QED BY <2>1, <3>2, Placed DEF Kinds
  <2> QED BY <2>5, <2>6
<1>7. CASE x \notin xs /\ x \in out
  <2>1. x \in wls[r][t] /\ At("own", r, t, x)
    BY <1>2, <1>7 DEF At
  <2>2. born'[x] # 0
    BY <1>1, <1>7, <2>1 DEF OnePlace, Kinds
  <2>3. \A k \in Kinds, i \in {0, 1}, u \in Threads :
           At(k, i, u, x) => k = "own" /\ i = r /\ u = t
    BY <2>1 DEF OnePlace, Kinds
  <2>4. \A i \in {0, 1}, u \in Threads :
           (x \in wls[i][u] => i = r /\ u = t) /\ x \notin shared[i]
    BY <1>4, <2>3, KindFacts DEF Kinds
  <2>5. \A k \in {"current", "aborted", "done"}, i \in {0, 1}, u \in Threads : ~At(k, i, u, x)'
    BY <2>3 DEF Kinds
  <2>6. \A i \in {0, 1}, u \in Threads : x \notin wls'[i][u] /\ (x \in shared'[i] <=> i = r)
    BY <1>1, <1>2, <1>7, <2>4
  <2>7. \A k \in Kinds, i \in {0, 1}, u \in Threads :
           At(k, i, u, x)' <=> k = "shared" /\ i = r /\ u = 0
    BY <1>5, <2>5, <2>6 DEF At
  <2> QED BY <1>4, <2>2, <2>7, Placed DEF Kinds
<1>8. CASE x \notin xs /\ x \notin out
  <2>1. \A i \in {0, 1}, u \in Threads :
           (x \in wls'[i][u] <=> x \in wls[i][u]) /\ (x \in shared'[i] <=> x \in shared[i])
    BY <1>1, <1>2, <1>8
  <2>2. \A k \in Kinds, i \in {0, 1}, u \in Threads : At(k, i, u, x)' <=> At(k, i, u, x)
    BY <1>5, <2>1, KindFacts DEF At
  <2> QED BY <1>1, <1>8, <2>2, Stays
<1> QED BY <1>6, <1>7, <1>8

\* Nothing moves, and nobody's hands change.
LEMMA KeptStays ==
    ASSUME Types, Kept, NEW t \in Threads, NEW label \in Labels, Goto(t, label),
           pc[t] \in Busy => label \in Busy,
           UNCHANGED <<wls, shared, current, aborted, born, done>>
    PROVE  Kept'
PROOF
<1>1. \A x \in Tasks : OnePlace(x)'
  <2> SUFFICES ASSUME NEW x \in Tasks PROVE OnePlace(x)'
    OBVIOUS
  <2>1. \A k \in Kinds, i \in {0, 1}, u \in Threads : At(k, i, u, x)' <=> At(k, i, u, x)
    BY DEF At
  <2> QED BY <2>1, Stays DEF Kept
<1>2. \A u \in Threads : pc'[u] = IF u = t THEN label ELSE pc[u]
  BY DEF Goto, Types
<1>3. InHand'
  <2>1. \A u \in Threads : pc'[u] \notin Busy => current'[u] = {}
    BY <1>2 DEF Kept, InHand
  <2>2. \A u \in Threads : \A a, b \in aborted'[u] : a[1] = b[1] => a = b
    BY DEF Kept, InHand
  <2> QED BY <2>1, <2>2 DEF InHand
<1> QED BY <1>1, <1>3 DEF Kept

LEMMA KeptTake ==
    ASSUME Types, Kept, NEW t \in Threads, pc[t] \notin Busy,
           NEW next \in Busy, Take(t, next), UNCHANGED <<aborted, born, done>>
    PROVE  Kept'
PROOF
<1>1. next \in Labels
  BY DEF Labels, Active, Busy
<1>2. PICK x \in wls[round[t]][t] \union shared[round[t]] :
              /\ x \in Tasks
              /\ \A j \in {0, 1}, u \in Threads :
                    j # round[t] \/ u # t => wls'[j][u] = wls[j][u]
              /\ \A j \in {0, 1} : j # round[t] => shared'[j] = shared[j]
              /\ wls'[round[t]][t] = wls[round[t]][t] \ {x}
              /\ shared'[round[t]] = shared[round[t]] \ {x}
              /\ current' = [current EXCEPT ![t] = {<<x, 0>>}]
              /\ pc' = [pc EXCEPT ![t] = next]
  BY <1>1, TakeEffect
<1>3. PICK r \in {0, 1} : r = round[t]
  BY RoundType
<1>4. \A u \in Threads : /\ current'[u] = IF u = t THEN {<<x, 0>>} ELSE current[u]
                         /\ pc'[u] = IF u = t THEN next ELSE pc[u]
  BY <1>2 DEF Types
<1>5. current[t] = {}
  BY DEF Kept, InHand
<1>6. 0 \in Threads
  BY ZeroIsThread
<1>7. ASSUME NEW y \in Tasks, y # x PROVE OnePlace(y)'
  <2>1. \A j \in {0, 1}, u \in Threads :
           (y \in wls'[j][u] <=> y \in wls[j][u]) /\ (y \in shared'[j] <=> y \in shared[j])
    BY <1>2, <1>3, <1>7
  <2>2. \A u \in Threads : (\E item \in current'[u] : item[1] = y)
                           <=> \E item \in current[u] : item[1] = y
    BY <1>4, <1>5, <1>7
  <2>3. \A k \in Kinds, i \in {0, 1}, u \in Threads : At(k, i, u, y)' <=> At(k, i, u, y)
    BY <2>1, <2>2 DEF At
  <2> QED BY <2>3, Stays DEF Kept
<1>8. OnePlace(x)'
  <2>1. OnePlace(x)
    BY <1>2 DEF Kept
  <2>2. \/ x \in wls[r][t] /\ At("own", r, t, x)
        \/ x \in shared[r] /\ At("shared", r, 0, x)
    BY <1>2, <1>3 DEF At
  <2>3. /\ \A i \in {0, 1}, u \in Threads : At("own", i, u, x) => i = r /\ u = t
        /\ \A i \in {0, 1} : At("shared", i, 0, x) => i = r
        /\ \A k \in {"current", "aborted", "done"}, i \in {0, 1}, u \in Threads : ~At(k, i, u, x)
        /\ born[x] # 0
    BY <1>6, <2>1, <2>2 DEF OnePlace, Kinds
  <2>4. \A i \in {0, 1}, u \in Threads : x \notin wls'[i][u] /\ x \notin shared'[i]
    BY <1>2, <1>3, <1>6, <2>3 DEF At
  <2>5. x \notin done /\ \A u \in Threads : ~\E item \in aborted[u] : item[1] = x
    BY <1>6, <2>3, KindFacts
  <2>6. \A u \in Threads : (\E item \in current'[u] : item[1] = x) <=> u = t
    <3>1. \A u \in Threads : ~\E item \in current[u] : item[1] = x
      BY <2>3, KindFacts
    <3>2. <<x, 0>> \in current'[t] /\ <<x, 0>>[1] = x
      BY <1>4
    <3> QED BY <1>4, <3>1, <3>2
  <2>7. \A k \in Kinds, i \in {0, 1}, u \in Threads :
           At(k, i, u, x)' <=> k = "current" /\ i = 0 /\ u = t
    <3>1. aborted' = aborted /\ done' = done
      OBVIOUS
    <3> QED BY <2>4, <2>5, <2>6, <3>1 DEF At, Kinds
  <2> QED BY <1>2, <2>3, <2>7, Placed DEF Kinds
<1>9. InHand'
  BY <1>4 DEF Kept, InHand
<1> QED BY <1>7, <1>8, <1>9 DEF Kept

LEMMA KeptCommit ==
    ASSUME Types, Kept, NEW t \in Threads, NEW next \in Labels, Commit(t, next)
    PROVE  Kept'
PROOF
<1>1. PICK xs \in SUBSET Unpushed : PushTo(t, NextRound(round[t]), xs)
  BY DEF Commit, Push
<1>2. PICK r \in {0, 1} : r = NextRound(round[t])
  BY RoundType
<1>3. \A u \in Threads : /\ current'[u] = IF u = t THEN {} ELSE current[u]
                         /\ pc'[u] = IF u = t THEN next ELSE pc[u]
                         /\ aborted'[u] = aborted[u]
  BY DEF Commit, Goto, Types
<1>4. done' = done \union {item[1] : item \in current[t]}
  BY DEF Commit
<1>5. 0 \in Threads
  BY ZeroIsThread
<1>6. ASSUME NEW x \in Tasks, ~\E item \in current[t] : item[1] = x
      PROVE  OnePlace(x)'
  <2>1. x \in done' <=> x \in done
    BY <1>4, <1>6
  <2>2. \A u \in Threads : (\E item \in current'[u] : item[1] = x)
                           <=> \E item \in current[u] : item[1] = x
    BY <1>3, <1>6
  <2>3. \A k \in {"current", "aborted", "done"}, i \in {0, 1}, u \in Threads :
           At(k, i, u, x)' <=> At(k, i, u, x)
    BY <1>3, <2>1, <2>2 DEF At
  <2> QED BY <1>1, <1>2, <2>3, PushKeeps DEF Kept
<1>7. ASSUME NEW x \in Tasks, \E item \in current[t] : item[1] = x
      PROVE  OnePlace(x)'
  <2>1. OnePlace(x) /\ At("current", 0, t, x)
    BY <1>7 DEF Kept, At
  <2>2. /\ born[x] # 0
        /\ \A k \in Kinds, i \in {0, 1}, u \in Threads :
              At(k, i, u, x) => k = "current" /\ i = 0 /\ u = t
    BY <2>1 DEF OnePlace, Kinds
  <2>3. \A i \in {0, 1}, u \in Threads : x \notin wls[i][u] /\ x \notin shared[i]
    BY <1>5, <2>2, KindFacts DEF Kinds
  <2>4. \A u \in Threads : ~\E item \in aborted[u] : item[1] = x
    BY <2>2, KindFacts DEF Kinds
  <2>5. \A u \in Threads : ~\E item \in current'[u] : item[1] = x
    <3>1. \A u \in Threads \ {t} : ~\E item \in current[u] : item[1] = x
      BY <2>2, KindFacts DEF Kinds
    <3> QED BY <1>3, <3>1
  <2>6. PICK out \in SUBSET (wls[r][t] \union xs) :
           /\ shared'[r] = shared[r] \union out
           /\ wls'[r][t] = (wls[r][t] \union xs) \ out
    BY <1>1, <1>2, PushOut
  <2>7. /\ \A j \in {0, 1}, u \in Threads : j # r \/ u # t => wls'[j][u] = wls[j][u]
        /\ \A j \in {0, 1} : j # r => shared'[j] = shared[j]
        /\ born'[x] = IF x \in xs THEN turn[t] + 1 ELSE born[x]
    BY <1>1, <1>2, PushEffect
  <2>8. x \notin xs
    BY <2>2 DEF Unpushed, Unborn
  <2>9. \A i \in {0, 1}, u \in Threads : x \notin wls'[i][u] /\ x \notin shared'[i]
    BY <2>3, <2>6, <2>7, <2>8
  <2>10. \A k \in Kinds, i \in {0, 1}, u \in Threads :
            At(k, i, u, x)' <=> k = "done" /\ i = 0 /\ u = 0
    <3>1. x \in done'
      BY <1>4, <1>7
    <3> QED BY <1>3, <2>4, <2>5, <2>9, <3>1 DEF At, Kinds
  <2> QED BY <1>5, <2>2, <2>7, <2>8, <2>10, Placed DEF Kinds
<1>8. InHand'
  BY <1>3 DEF Kept, InHand
<1> QED BY <1>6, <1>7, <1>8 DEF Kept

LEMMA KeptAbort ==
    ASSUME Types, Kept, NEW t \in Threads, NEW u \in Threads, NEW retries \in Nat,
           NEW next \in Labels, AbortIteration(t, u, retries), Goto(t, next)
    PROVE  Kept'
PROOF
<1>1. \A v \in Threads :
         /\ current'[v] = IF v = t THEN {} ELSE current[v]
         /\ pc'[v] = IF v = t THEN next ELSE pc[v]
         /\ v # u => aborted'[v] = aborted[v]
  BY DEF AbortIteration, Goto, Types
<1>2. aborted'[u] = aborted[u] \union {<<item[1], retries>> : item \in current[t]}
  BY DEF AbortIteration, Types
<1>3. wls' = wls /\ shared' = shared /\ born' = born /\ done' = done
  BY DEF AbortIteration, listVars
<1>4. ASSUME NEW x \in Tasks, ~\E item \in current[t] : item[1] = x
      PROVE  OnePlace(x)'
  <2>1. \A v \in Threads : (\E item \in current'[v] : item[1] = x)
                           <=> \E item \in current[v] : item[1] = x
    BY <1>1, <1>4
  <2>2. \A v \in Threads : (\E item \in aborted'[v] : item[1] = x)
                           <=> \E item \in aborted[v] : item[1] = x
    <3>1. \A item \in {<<item[1], retries>> : item \in current[t]} : item[1] # x
      BY <1>4
    <3>2. (\E item \in aborted'[u] : item[1] = x) <=> \E item \in aborted[u] : item[1] = x
      BY <1>2, <3>1
    <3> QED BY <1>1, <3>2
  <2>3. \A k \in Kinds, i \in {0, 1}, v \in Threads : At(k, i, v, x)' <=> At(k, i, v, x)
    BY <1>3, <2>1, <2>2 DEF At
  <2> QED BY <1>3, <2>3, Stays DEF Kept
<1>5. ASSUME NEW x \in Tasks, NEW item \in current[t], item[1] = x
      PROVE  /\ OnePlace(x)'
             /\ \A v \in Threads : ~\E other \in aborted[v] : other[1] = x
  <2>1. OnePlace(x) /\ At("current", 0, t, x)
    BY <1>5 DEF Kept, At
  <2>2. /\ born[x] # 0
        /\ \A k \in Kinds, i \in {0, 1}, v \in Threads :
              At(k, i, v, x) => k = "current" /\ i = 0 /\ v = t
    BY <2>1 DEF OnePlace, Kinds
  <2>3. 0 \in Threads
    BY ZeroIsThread
  <2>4. x \notin done /\ \A i \in {0, 1}, v \in Threads : x \notin wls[i][v] /\ x \notin shared[i]
    BY <2>2, <2>3, KindFacts DEF Kinds
  <2>5. \A v \in Threads : ~\E other \in aborted[v] : other[1] = x
    BY <2>2, KindFacts DEF Kinds
  <2>6. \A v \in Threads : ~\E other \in current'[v] : other[1] = x
    <3>1. \A v \in Threads \ {t} : ~\E other \in current[v] : other[1] = x
      BY <2>2, KindFacts DEF Kinds
    <3> QED BY <1>1, <3>1
  <2>7. \A v \in Threads : (\E other \in aborted'[v] : other[1] = x) <=> v = u
    <3>1. <<x, retries>> \in aborted'[u] /\ <<x, retries>>[1] = x
      BY <1>2, <1>5
    <3>2. \A v \in Threads : v # u => ~\E other \in aborted'[v] : other[1] = x
      BY <1>1, <2>5
    <3> QED BY <3>1, <3>2
  <2>8. \A k \in Kinds, i \in {0, 1}, v \in Threads :
           At(k, i, v, x)' <=> k = "aborted" /\ i = 0 /\ v = u
    BY <1>3, <2>4, <2>6, <2>7 DEF At, Kinds
  <2>9. OnePlace(x)'
    BY <1>3, <2>2, <2>8, Placed DEF Kinds
  <2> QED BY <2>5, <2>9
<1>6. ASSUME NEW v \in Threads, NEW a \in aborted'[v], NEW b \in aborted'[v], a[1] = b[1]
      PROVE  a = b
  <2>1. CASE v # u
    BY <1>1, <1>6, <2>1 DEF Kept, InHand
  <2>2. CASE v = u
    <3> DEFINE fresh == {<<item[1], retries>> : item \in current[t]}
    <3>1. a \in aborted[u] \union fresh /\ b \in aborted[u] \union fresh
      BY <1>2, <1>6, <2>2
    <3>2. CASE a \in aborted[u] /\ b \in aborted[u]
      BY <1>6, <3>2 DEF Kept, InHand
    <3>3. \A c \in fresh, d \in aborted[u] : c[1] # d[1]
      <4> SUFFICES ASSUME NEW item \in current[t], NEW d \in aborted[u] PROVE item[1] # d[1]
        OBVIOUS
      <4>1. item[1] \in Tasks
        BY DEF Types
      <4> QED BY <1>5, <4>1
    <3>4. CASE a \in fresh /\ b \in fresh
      BY <1>6, <3>4
    <3> QED BY <1>6, <3>1, <3>2, <3>3, <3>4
  <2> QED BY <2>1, <2>2
<1>7. \A x \in Tasks : OnePlace(x)'
  BY <1>4, <1>5
<1>8. InHand'
  <2>1. \A v \in Threads : pc'[v] \notin Busy => current'[v] = {}
    BY <1>1 DEF Kept, InHand
  <2> QED BY <1>6, <2>1 DEF InHand
<1> QED BY <1>7, <1>8 DEF Kept

LEMMA KeptPopAborted ==
    ASSUME Types, Kept, NEW t \in Threads, PopAborted(t)
    PROVE  Kept'
PROOF
<1>1. PICK item \in aborted[t] :
         /\ aborted' = [aborted EXCEPT ![t] = @ \ {item}]
         /\ current' = [current EXCEPT ![t] = {item}]
  BY DEF PopAborted
<1>2. pc[t] = "aborts" /\ pc' = [pc EXCEPT ![t] = "again"]
  BY DEF PopAborted, On, Goto
<1>3. wls' = wls /\ shared' = shared /\ born' = born /\ done' = done
  BY DEF PopAborted, listVars
<1>4. \A v \in Threads :
         /\ current'[v] = IF v = t THEN {item} ELSE current[v]
         /\ aborted'[v] = IF v = t THEN aborted[t] \ {item} ELSE aborted[v]
         /\ pc'[v] = IF v = t THEN "again" ELSE pc[v]
  BY <1>1, <1>2 DEF Types
<1>5. current[t] = {}
  BY <1>2 DEF Kept, InHand, Busy
<1>6. item[1] \in Tasks
  BY DEF Types
<1>7. ASSUME NEW x \in Tasks, x # item[1] PROVE OnePlace(x)'
  <2>1. \A v \in Threads :
           /\ (\E i \in current'[v] : i[1] = x) <=> \E i \in current[v] : i[1] = x
           /\ (\E i \in aborted'[v] : i[1] = x) <=> \E i \in aborted[v] : i[1] = x
    BY <1>4, <1>5, <1>7
  <2>2. \A k \in Kinds, i \in {0, 1}, v \in Threads : At(k, i, v, x)' <=> At(k, i, v, x)
    BY <1>3, <2>1 DEF At
  <2> QED BY <1>3, <2>2, Stays DEF Kept
<1>8. ASSUME NEW x \in Tasks, x = item[1] PROVE OnePlace(x)'
  <2>1. OnePlace(x) /\ At("aborted", 0, t, x)
    BY <1>8 DEF Kept, At
  <2>2. /\ born[x] # 0
        /\ \A k \in Kinds, i \in {0, 1}, v \in Threads :
              At(k, i, v, x) => k = "aborted" /\ i = 0 /\ v = t
    BY <2>1 DEF OnePlace, Kinds
  <2>3. 0 \in Threads
    BY ZeroIsThread
  <2>4. x \notin done /\ \A i \in {0, 1}, v \in Threads : x \notin wls[i][v] /\ x \notin shared[i]
    BY <2>2, <2>3, KindFacts DEF Kinds
  <2>5. \A v \in Threads : ~\E other \in current[v] : other[1] = x
    BY <2>2, KindFacts DEF Kinds
  <2>6. \A v \in Threads : ~\E other \in aborted'[v] : other[1] = x
    <3>1. \A v \in Threads \ {t} : ~\E other \in aborted[v] : other[1] = x
      BY <2>2, KindFacts DEF Kinds
    <3>2. ~\E other \in aborted'[t] : other[1] = x
      BY <1>4, <1>8 DEF Kept, InHand
    <3> QED BY <1>4, <3>1, <3>2
  <2>7. \A v \in Threads : (\E other \in current'[v] : other[1] = x) <=> v = t
    BY <1>4, <1>8, <2>5
  <2>8. \A k \in Kinds, i \in {0, 1}, v \in Threads :
           At(k, i, v, x)' <=> k = "current" /\ i = 0 /\ v = t
    BY <1>3, <2>4, <2>6, <2>7 DEF At, Kinds
  <2> QED BY <1>3, <2>2, <2>8, Placed DEF Kinds
<1>9. InHand'
  <2>1. \A v \in Threads : pc'[v] \notin Busy => current'[v] = {}
    BY <1>4 DEF Kept, InHand, Busy
  <2>2. \A v \in Threads : \A a, b \in aborted'[v] : a[1] = b[1] => a = b
    BY <1>4 DEF Kept, InHand
  <2> QED BY <2>1, <2>2 DEF InHand
<1> QED BY <1>7, <1>8, <1>9 DEF Kept

LEMMA KeptStep ==
    ASSUME Types, Kept, NEW t \in Threads, Step(t)
    PROVE  Kept'
PROOF
<1>1. CASE PushInitial(t)
  <2>1. PICK xs \in SUBSET Unpushed : PushTo(t, NextRound(round[t]), xs)
    BY <1>1 DEF PushInitial, Push
  <2>2. current' = current /\ aborted' = aborted /\ done' = done
    BY <1>1 DEF PushInitial
  <2>3. \A x \in Tasks, k \in {"current", "aborted", "done"}, i \in {0, 1}, u \in Threads :
           At(k, i, u, x)' <=> At(k, i, u, x)
    BY <2>2 DEF At
  <2>4. PICK r \in {0, 1} : r = NextRound(round[t])
    BY RoundType
  <2>5. \A x \in Tasks : OnePlace(x)'
    BY <2>1, <2>3, <2>4, PushKeeps DEF Kept
  <2>6. pc[t] = "initial" /\ \A u \in Threads : pc'[u] = IF u = t THEN "start" ELSE pc[u]
    BY <1>1 DEF PushInitial, On, Goto, Types
  <2>7. InHand'
    <3>1. \A v \in Threads : pc'[v] \notin Busy => current'[v] = {}
      BY <2>2, <2>6 DEF Kept, InHand, Busy
    <3>2. \A v \in Threads : \A a, b \in aborted'[v] : a[1] = b[1] => a = b
      BY <2>2 DEF Kept, InHand
    <3> QED BY <3>1, <3>2 DEF InHand
  <2> QED BY <2>5, <2>7 DEF Kept
<1>2. CASE Start(t) \/ FirstWait(t) \/ SecondWait(t) \/ RoundDone(t) \/ PopEmpty(t)
           \/ NoneInRound(t) \/ NoneAborted(t)
  <2>1. PICK label \in Labels : Goto(t, label)
    BY <1>2 DEF Start, FirstWait, SecondWait, RoundDone, PopEmpty, NoneInRound, NoneAborted,
                Labels, Active
  <2>2. pc[t] \notin Busy
    BY <1>2 DEF Start, FirstWait, SecondWait, RoundDone, PopEmpty, NoneInRound, NoneAborted,
                On, Busy
  <2>3. UNCHANGED <<wls, shared, current, aborted, born, done>>
    BY <1>2 DEF Start, FirstWait, SecondWait, RoundDone, PopEmpty, NoneInRound, NoneAborted,
                listVars
  <2> QED BY <2>1, <2>2, <2>3, KeptStays
<1>3. CASE Pop(t) \/ FirstOfRound(t)
  <2>1. PICK next \in Busy : Take(t, next)
    BY <1>3 DEF Pop, FirstOfRound, Busy
  <2>2. pc[t] \notin Busy /\ UNCHANGED <<aborted, born, done>>
    BY <1>3 DEF Pop, FirstOfRound, On, Busy
  <2> QED BY <2>1, <2>2, KeptTake
<1>4. CASE Between(t)
  <2>1. Goto(t, "secondWait") /\ pc[t] \notin Busy /\ "secondWait" \in Labels
    BY <1>4 DEF Between, On, Busy, Labels
  <2>2. UNCHANGED <<wls, shared, current, aborted, born, done>>
    BY <1>4 DEF Between
  <2> QED BY <2>1, <2>2, KeptStays
<1>5. CASE Some(t)
  <2>1. Goto(t, "process") /\ "process" \in Busy /\ "process" \in Labels
    BY <1>5 DEF Some, Busy, Labels, Active
  <2>2. UNCHANGED <<wls, shared, current, aborted, born, done>>
    BY <1>5 DEF Some
  <2> QED BY <2>1, <2>2, KeptStays
<1>6. CASE Process(t) \/ ProcessAborted(t)
  <2>1. PICK next \in {"pop", "aborts"} : Commit(t, next)
    BY <1>6 DEF Process, ProcessAborted
  <2> QED BY <2>1, KeptCommit DEF Labels, Active
<1>7. CASE Abort(t)
  BY <1>7, KeptAbort DEF Abort, Labels, Active
<1>8. CASE AbortAgain(t)
  <2>1. PICK item \in current[t] :
          AbortIteration(t, QueueFor(t, item[2] + 1), item[2] + 1)
    BY <1>8 DEF AbortAgain
  <2>2. item[2] + 1 \in Nat
    BY DEF Types
  <2>3. QueueFor(t, item[2] + 1) \in Threads
    BY <2>2, QueueIsThread
  <2> QED BY <1>8, <2>1, <2>2, <2>3, KeptAbort DEF AbortAgain, Labels, Active
<1>9. CASE PopAborted(t)
  BY <1>9, KeptPopAborted
<1> QED BY <1>1, <1>2, <1>3, <1>4, <1>5, <1>6, <1>7, <1>8, <1>9 DEF Step

-----------------------------------------------------------------------------
(* The rounds, as long as no iteration was aborted.                        *)

LEMMA QueuedMeaning ==
    ASSUME Types, NEW x
    PROVE  x \in Queued <=> \E i \in {0, 1}, t \in Threads : x \in shared[i] \/ x \in wls[i][t]
PROOF BY DEF Queued, Types

LEMMA QueuedTasks == ASSUME Types PROVE Queued \subseteq Tasks
PROOF BY DEF Queued, Types

\* Everything that is left is of this round of a thread, or of its next.
LEMMA QueuedWindow ==
    ASSUME Types, OwnRounds, SharedRounds, NEW x \in Queued
    PROVE  \/ \E t \in Threads : Window(t, x)
           \/ \A t \in Threads : /\ turn[t] <= born[x] /\ born[x] <= turn[t] + 1
                                 /\ Through(t) => born[x] = turn[t] + 1
PROOF BY QueuedMeaning DEF OwnRounds, SharedRounds

\* A thread that can tell that a list has nothing for it has only the next round.
LEMMA NothingLeft ==
    ASSUME Types, InStep, OwnRounds, SharedRounds, NEW t \in Threads, NothingToTake(t)
    PROVE  \A i \in {0, 1} : \A x \in wls[i][t] \union shared[i] : born[x] = turn[t] + 1
PROOF
<1> SUFFICES ASSUME NEW i \in {0, 1}, NEW x \in wls[i][t] \union shared[i]
             PROVE  born[x] = turn[t] + 1
  OBVIOUS
<1>1. x \in Tasks /\ born[x] \in Nat /\ turn[t] \in Nat
  BY DEF Types
<1>2. i = born[x] % 2 /\ turn[t] <= born[x] /\ born[x] <= turn[t] + 1
  BY DEF OwnRounds, SharedRounds, Window
<1>3. i # turn[t] % 2
  BY DEF NothingToTake, InStep, Waits
<1>4. born[x] # turn[t]
  BY <1>2, <1>3
<1> QED BY <1>1, <1>2, <1>4

\* What a thread can take is of its round.
LEMMA TakeThisRound ==
    ASSUME Types, InStep, OwnRounds, SharedRounds, NEW t \in Threads,
           NEW x \in wls[round[t]][t] \union shared[round[t]]
    PROVE  born[x] = turn[t] /\ x \in Queued
PROOF
<1>1. PICK r \in {0, 1} : r = round[t]
  BY RoundType
<1>2. x \in Tasks /\ born[x] \in Nat /\ turn[t] \in Nat
  BY <1>1 DEF Types
<1>3. r = born[x] % 2 /\ turn[t] <= born[x] /\ born[x] <= turn[t] + 1
  BY <1>1 DEF OwnRounds, SharedRounds, Window
<1>4. r = turn[t] % 2
  BY <1>1 DEF InStep, Waits
<1>5. born[x] # turn[t] + 1
  BY <1>2, <1>3, <1>4, Parity
<1>6. x \in Queued
  BY <1>1, QueuedMeaning
<1> QED BY <1>2, <1>3, <1>5, <1>6

LEMMA InitRounds == Init => Rounds
PROOF
<1> SUFFICES ASSUME Init PROVE Rounds
  OBVIOUS
<1>1. \A i \in {0, 1}, t \in Threads :
         /\ wls[i][t] = {} /\ shared[i] = {} /\ current[t] = {} /\ aborted[t] = {}
         /\ pc[t] = "initial"
  BY DEF Init
<1>2. empty = FALSE
  BY DEF Init
<1>3. 0 \in Threads
  BY ZeroIsThread
<1>4. Queued = {}
  BY <1>1, InitTypes, QueuedMeaning
<1>5. OwnRounds
  BY <1>1 DEF OwnRounds
<1>6. SharedRounds
  BY <1>1, <1>3 DEF SharedRounds
<1>7. WorkRounds
  BY <1>1 DEF WorkRounds
<1>8. Remembered
  BY <1>1, <1>4 DEF Remembered
<1>9. Finished
  BY <1>1, <1>2 DEF Finished
<1> QED BY <1>5, <1>6, <1>7, <1>8, <1>9 DEF Rounds

\* A step that moves no item.
LEMMA QuietRounds ==
    ASSUME Types, InStep, Rounds, NEW t \in Threads, NEW label \in Labels, Goto(t, label),
           UNCHANGED <<wls, shared, round, current, aborted, born, turn, empty>>,
           label \notin {"secondWait", "again"},
           label \in {"firstWait", "between"} => Through(t) \/ NothingToTake(t),
           pc[t] \in Busy => label \in Busy,
           label \in {"start", "process"} => some',
           label = "pop" => NothingToTake(t) \/ some',
           label = "aborts" => empty,
           empty => label \in {"firstWait", "between", "first", "pop", "aborts"},
           some' \in BOOLEAN, some => some'
    PROVE  Rounds'
PROOF
<1>1. \A u \in Threads : pc'[u] = IF u = t THEN label ELSE pc[u]
  BY DEF Goto, Types
<1>2. \A u \in Threads \ {t} : Through(u)' <=> Through(u)
  BY <1>1 DEF Through
<1>3. Through(t)' =>
         \A i \in {0, 1} : \A x \in wls[i][t] \union shared[i] : born[x] = turn[t] + 1
  <2>1. CASE NothingToTake(t)
    BY <2>1, NothingLeft DEF Rounds
  <2>2. CASE Through(t)
    BY <2>2 DEF Rounds, OwnRounds, SharedRounds, Window
  <2> QED BY <1>1, <2>1, <2>2 DEF Through
<1>4. OwnRounds'
  <2> SUFFICES ASSUME NEW i \in {0, 1}, NEW u \in Threads, NEW x \in wls[i][u]
               PROVE  born[x] >= 1 /\ i = born[x] % 2 /\ Window(u, x)'
    BY DEF OwnRounds
  <2>1. born[x] >= 1 /\ i = born[x] % 2 /\ Window(u, x)
    BY DEF Rounds, OwnRounds
  <2>2. CASE u = t
    BY <1>1, <1>3, <2>1, <2>2 DEF Window
  <2>3. CASE u # t
    BY <1>1, <1>2, <2>1, <2>3 DEF Window
  <2> QED BY <2>1, <2>2, <2>3
<1>5. SharedRounds'
  <2> SUFFICES ASSUME NEW i \in {0, 1}, NEW x \in shared[i], NEW u \in Threads
               PROVE  /\ born[x] >= 1 /\ i = born[x] % 2
                      /\ turn[u] <= born[x] /\ born[x] <= turn[u] + 1
                      /\ Through(u)' => born[x] = turn[u] + 1
    BY ZeroIsThread DEF SharedRounds
  <2>1. /\ born[x] >= 1 /\ i = born[x] % 2
        /\ turn[u] <= born[x] /\ born[x] <= turn[u] + 1
        /\ Through(u) => born[x] = turn[u] + 1
    BY DEF Rounds, SharedRounds
  <2> QED BY <1>2, <1>3, <2>1
<1>6. WorkRounds'
  <2> SUFFICES ASSUME NEW u \in Threads
               PROVE  /\ aborted'[u] = {} /\ pc'[u] # "again"
                      /\ pc'[u] \notin Busy => current'[u] = {}
                      /\ \A item \in current'[u] : born'[item[1]] = turn'[u]
    BY DEF WorkRounds
  <2>1. /\ aborted[u] = {} /\ pc[u] # "again"
        /\ pc[u] \notin Busy => current[u] = {}
        /\ \A item \in current[u] : born[item[1]] = turn[u]
    BY DEF Rounds, WorkRounds
  <2>2. UNCHANGED <<aborted, current, born, turn>>
    OBVIOUS
  <2> QED BY <1>1, <2>1, <2>2
<1>7. Queued' = Queued
  BY DEF Queued
<1>8. Remembered'
  <2>1. \A u \in Threads : pc'[u] \in {"start", "process"} => some'
    BY <1>1 DEF Rounds, Remembered
  <2>2. \A u \in Threads : NothingToTake(u)' <=> NothingToTake(u)
    BY DEF NothingToTake
  <2>3. \A u \in Threads : pc'[u] = "pop" => NothingToTake(u)' \/ some'
    BY <1>1, <2>2 DEF Rounds, Remembered
  <2>4. \A x \in Queued' : born'[x] = turn'[0] + 1 => some'
    BY <1>7 DEF Rounds, Remembered
  <2> QED BY <2>1, <2>3, <2>4 DEF Remembered
<1>9. Finished'
  BY <1>1, <1>7 DEF Rounds, Finished
<1> QED BY <1>4, <1>5, <1>6, <1>8, <1>9 DEF Rounds

\* What the lists have after a push, seen from where the threads were.
PushedFits ==
    /\ \A i \in {0, 1}, u \in Threads : \A x \in wls'[i][u] :
          /\ born'[x] >= 1 /\ i = born'[x] % 2
          /\ turn[u] <= born'[x] /\ born'[x] <= turn[u] + 1
          /\ Through(u) => born'[x] = turn[u] + 1
          /\ pc[u] = "secondWait" => born'[x] = turn[u]
    /\ \A i \in {0, 1} : \A x \in shared'[i] :
          /\ born'[x] >= 1 /\ i = born'[x] % 2
          /\ \A u \in Threads :
                /\ turn[u] <= born'[x] /\ born'[x] <= turn[u] + 1
                /\ Through(u) => born'[x] = turn[u] + 1

\* What a push for the next round of t adds is in the window of every thread.
LEMMA PushWindow ==
    ASSUME Types, InStep, OwnRounds, SharedRounds, NEW t \in Threads,
           NEW xs \in SUBSET Unpushed, PushTo(t, NextRound(round[t]), xs),
           \A u \in Threads : turn[t] <= turn[u] /\ turn[u] <= turn[t] + 1
                              /\ (Through(u) => turn[u] = turn[t]),
           pc[t] # "secondWait"
    PROVE  PushedFits
PROOF
<1>1. PICK r \in {0, 1} : r = NextRound(round[t])
  BY RoundType
<1>2. turn[t] \in Nat /\ r = (turn[t] + 1) % 2
  BY <1>1, Parity DEF Types, InStep, Waits
<1>3. /\ \A j \in {0, 1}, u \in Threads : j # r \/ u # t => wls'[j][u] = wls[j][u]
      /\ \A j \in {0, 1} : j # r => shared'[j] = shared[j]
      /\ \A x \in Tasks : born'[x] = IF x \in xs THEN turn[t] + 1 ELSE born[x]
      /\ wls' \in [{0, 1} -> [Threads -> SUBSET Tasks]]
      /\ shared' \in [{0, 1} -> SUBSET Tasks]
  BY <1>1, PushEffect
<1>4. PICK out \in SUBSET (wls[r][t] \union xs) :
         /\ shared'[r] = shared[r] \union out
         /\ wls'[r][t] = (wls[r][t] \union xs) \ out
  BY <1>1, PushOut
<1>5. \A x \in xs : x \in Tasks /\ born[x] = 0
  BY DEF Unpushed, Unborn
<1>6. \A i \in {0, 1}, u \in Threads : \A x \in wls[i][u] \union shared[i] :
         x \in Tasks /\ x \notin xs /\ born'[x] = born[x] /\ born[x] \in Nat
  BY <1>3, <1>5 DEF OwnRounds, SharedRounds, Types
<1>7. ASSUME NEW x \in wls[r][t] \union xs
      PROVE  born'[x] = turn[t] + 1
  <2>1. CASE x \in xs
    BY <1>3, <1>5, <2>1
  <2>2. CASE x \in wls[r][t]
    <3>1. r = born[x] % 2 /\ turn[t] <= born[x] /\ born[x] <= turn[t] + 1
      BY <2>2 DEF OwnRounds, Window
    <3>2. born'[x] = born[x] /\ born[x] \in Nat
      BY <1>6, <2>2
    <3>3. born[x] # turn[t]
      BY <1>2, <3>1, Parity
    <3> QED BY <1>2, <3>1, <3>2, <3>3
  <2> QED BY <2>1, <2>2
<1>8. \A u \in Threads : turn[u] \in Nat
  BY DEF Types
<1>9. ASSUME NEW i \in {0, 1}, NEW u \in Threads, NEW x \in wls'[i][u]
      PROVE  born'[x] >= 1 /\ i = born'[x] % 2
             /\ turn[u] <= born'[x] /\ born'[x] <= turn[u] + 1
             /\ (Through(u) => born'[x] = turn[u] + 1)
             /\ (pc[u] = "secondWait" => born'[x] = turn[u])
  <2>1. CASE x \in wls[i][u]
    <3>1. born[x] >= 1 /\ i = born[x] % 2 /\ Window(u, x)
      BY <2>1 DEF OwnRounds
    <3> QED BY <1>6, <2>1, <3>1 DEF Window
  <2>2. CASE x \notin wls[i][u]
    <3>1. i = r /\ u = t
      BY <1>3, <2>2
    <3>2. x \in wls[r][t] \union xs
      BY <1>4, <3>1
    <3>3. born'[x] = turn[t] + 1
      BY <1>7, <3>2
    <3> QED BY <1>2, <1>8, <3>1, <3>3
  <2> QED BY <2>1, <2>2
<1>10. ASSUME NEW i \in {0, 1}, NEW x \in shared'[i]
       PROVE  /\ born'[x] >= 1 /\ i = born'[x] % 2
              /\ \A u \in Threads :
                    turn[u] <= born'[x] /\ born'[x] <= turn[u] + 1
                    /\ (Through(u) => born'[x] = turn[u] + 1)
  <2>1. CASE x \in shared[i]
    <3>1. born'[x] = born[x]
      BY <1>6, <2>1
    <3> QED BY <2>1, <3>1 DEF SharedRounds
  <2>2. CASE x \notin shared[i]
    <3>1. i = r /\ x \in wls[r][t] \union xs
      BY <1>3, <1>4, <2>2
    <3>2. born'[x] = turn[t] + 1
      BY <1>7, <3>1
    <3> QED BY <1>2, <1>8, <3>1, <3>2
  <2> QED BY <2>1, <2>2
<1> QED BY <1>9, <1>10 DEF PushedFits

LEMMA RoundsPushInitial ==
    ASSUME Types, Types', InStep, Rounds, NEW t \in Threads, PushInitial(t)
    PROVE  Rounds'
PROOF
<1>1. PICK xs \in SUBSET Unpushed : PushTo(t, NextRound(round[t]), xs)
  BY DEF PushInitial, Push
<1>2. /\ pc[t] = "initial"
      /\ \A u \in Threads : /\ pc'[u] = IF u = t THEN "start" ELSE pc[u]
                            /\ turn'[u] = IF u = t THEN 1 ELSE turn[u]
      /\ some' = TRUE /\ empty' = empty
      /\ current' = current /\ aborted' = aborted
  BY DEF PushInitial, On, Goto, Types
<1>3. turn[t] = 0
  BY <1>2 DEF InStep, Waits
<1>4. \A u \in Threads : pc[u] \in {"initial", "start"} /\ turn[u] <= 1 /\ turn[u] \in Nat
  BY <1>2, AllStarting DEF Types
<1>5. PushedFits
  <2>1. \A u \in Threads : turn[t] <= turn[u] /\ turn[u] <= turn[t] + 1
                           /\ (Through(u) => turn[u] = turn[t])
    BY <1>3, <1>4 DEF Through
  <2> QED BY <1>1, <1>2, <2>1, PushWindow DEF Rounds
<1>6. \A i \in {0, 1}, u \in Threads : \A x \in wls'[i][u] \union shared'[i] : born'[x] \in Nat
  BY DEF Types
<1>7. \A u \in Threads : ~Through(u)' /\ pc'[u] \in {"initial", "start"}
  BY <1>2, <1>4 DEF Through
<1>8. OwnRounds'
  <2> SUFFICES ASSUME NEW i \in {0, 1}, NEW u \in Threads, NEW x \in wls'[i][u]
               PROVE  born'[x] >= 1 /\ i = born'[x] % 2 /\ Window(u, x)'
    BY DEF OwnRounds
  <2>1. born'[x] >= 1 /\ i = born'[x] % 2 /\ turn[u] <= born'[x] /\ born'[x] <= turn[u] + 1
    BY <1>5 DEF PushedFits
  <2>2. turn'[u] <= born'[x] /\ born'[x] <= turn'[u] + 1
    BY <1>2, <1>3, <1>6, <2>1
  <2> QED BY <1>7, <2>1, <2>2 DEF Window
<1>9. SharedRounds'
  <2> SUFFICES ASSUME NEW i \in {0, 1}, NEW x \in shared'[i], NEW u \in Threads
               PROVE  /\ born'[x] >= 1 /\ i = born'[x] % 2
                      /\ turn'[u] <= born'[x] /\ born'[x] <= turn'[u] + 1
                      /\ Through(u)' => born'[x] = turn'[u] + 1
    BY ZeroIsThread DEF SharedRounds
  <2>1. born'[x] >= 1 /\ i = born'[x] % 2 /\ turn[u] <= born'[x] /\ born'[x] <= turn[u] + 1
    BY <1>5 DEF PushedFits
  <2> QED BY <1>2, <1>3, <1>6, <1>7, <2>1
<1>10. WorkRounds'
  <2> SUFFICES ASSUME NEW u \in Threads
               PROVE  /\ aborted'[u] = {} /\ pc'[u] # "again"
                      /\ pc'[u] \notin Busy => current'[u] = {}
                      /\ \A item \in current'[u] : born'[item[1]] = turn'[u]
    BY DEF WorkRounds
  <2>1. current[u] = {} /\ aborted[u] = {}
    BY <1>4 DEF Rounds, WorkRounds, Busy
  <2> QED BY <1>2, <1>7, <2>1
<1>11. Remembered'
  BY <1>2 DEF Remembered
<1>12. Finished'
  <2>1. ~empty
    BY <1>2 DEF Rounds, Finished
  <2> QED BY <1>2, <1>7, <2>1 DEF Finished
<1> QED BY <1>8, <1>9, <1>10, <1>11, <1>12 DEF Rounds

LEMMA RoundsProcess ==
    ASSUME Types, Types', InStep, Rounds, NEW t \in Threads, Process(t)
    PROVE  Rounds'
PROOF
<1>1. PICK xs \in SUBSET Unpushed : PushTo(t, NextRound(round[t]), xs)
  BY DEF Process, Commit, Push
<1>2. /\ pc[t] = "process"
      /\ \A u \in Threads : /\ pc'[u] = IF u = t THEN "pop" ELSE pc[u]
                            /\ current'[u] = IF u = t THEN {} ELSE current[u]
      /\ turn' = turn /\ some' = some /\ empty' = empty /\ aborted' = aborted
  BY DEF Process, Commit, On, Goto, Types
<1>3. \A u \in Threads : turn[u] = turn[t] /\ turn[u] \in Nat
  BY <1>2, SameTurn DEF Types, Active
<1>4. \A u \in Threads : Through(u)' => u # t /\ Through(u)
  BY <1>2 DEF Through
<1>5. PushedFits
  <2>1. \A u \in Threads : turn[t] <= turn[u] /\ turn[u] <= turn[t] + 1
                           /\ (Through(u) => turn[u] = turn[t])
    BY <1>3
  <2> QED BY <1>1, <1>2, <2>1, PushWindow DEF Rounds
<1>6. OwnRounds'
  <2> SUFFICES ASSUME NEW i \in {0, 1}, NEW u \in Threads, NEW x \in wls'[i][u]
               PROVE  born'[x] >= 1 /\ i = born'[x] % 2 /\ Window(u, x)'
    BY DEF OwnRounds
  <2>1. born'[x] >= 1 /\ i = born'[x] % 2
        /\ turn[u] <= born'[x] /\ born'[x] <= turn[u] + 1
        /\ (Through(u) => born'[x] = turn[u] + 1)
        /\ (pc[u] = "secondWait" => born'[x] = turn[u])
    BY <1>5 DEF PushedFits
  <2> QED BY <1>2, <1>4, <2>1 DEF Window
<1>7. SharedRounds'
  <2> SUFFICES ASSUME NEW i \in {0, 1}, NEW x \in shared'[i], NEW u \in Threads
               PROVE  /\ born'[x] >= 1 /\ i = born'[x] % 2
                      /\ turn'[u] <= born'[x] /\ born'[x] <= turn'[u] + 1
                      /\ Through(u)' => born'[x] = turn'[u] + 1
    BY ZeroIsThread DEF SharedRounds
  <2> QED BY <1>2, <1>4, <1>5 DEF PushedFits
<1>8. WorkRounds'
  <2> SUFFICES ASSUME NEW u \in Threads
               PROVE  /\ aborted'[u] = {} /\ pc'[u] # "again"
                      /\ pc'[u] \notin Busy => current'[u] = {}
                      /\ \A item \in current'[u] : born'[item[1]] = turn'[u]
    BY DEF WorkRounds
  <2>1. /\ aborted[u] = {} /\ pc[u] # "again"
        /\ pc[u] \notin Busy => current[u] = {}
        /\ \A item \in current[u] : born[item[1]] = turn[u]
    BY DEF Rounds, WorkRounds
  <2>2. turn[u] >= 1
    BY <1>2, <1>3 DEF InStep, Waits
  <2>3. \A item \in current[u] : born'[item[1]] = born[item[1]]
    <3> SUFFICES ASSUME NEW item \in current[u] PROVE born'[item[1]] = born[item[1]]
      OBVIOUS
    <3>1. item[1] \in Tasks
      BY DEF Types
    <3>2. item[1] \notin xs
      BY <2>1, <2>2, <1>3 DEF Unpushed, Unborn
    <3> QED BY <1>1, <3>1, <3>2 DEF PushTo
  <2> QED BY <1>2, <2>1, <2>3
<1>9. some
  BY <1>2 DEF Rounds, Remembered
<1>10. Remembered'
  BY <1>2, <1>9 DEF Remembered
<1>11. Finished'
  <2>1. ~empty
    BY <1>2 DEF Rounds, Finished
  <2> QED BY <1>2, <2>1 DEF Rounds, Finished
<1> QED BY <1>6, <1>7, <1>8, <1>10, <1>11 DEF Rounds

LEMMA RoundsTake ==
    ASSUME Types, Types', InStep, Rounds, NEW t \in Threads, Pop(t) \/ FirstOfRound(t)
    PROVE  Rounds'
PROOF
<1>1. PICK next \in {"process", "some"} :
         /\ Take(t, next)
         /\ pc[t] \in {"pop", "first"} /\ (next = "process" => pc[t] = "pop")
         /\ UNCHANGED <<round, some, empty, aborted, born, turn>>
  BY DEF Pop, FirstOfRound, On
<1>2. next \in Labels
  BY DEF Labels, Active
<1>3. PICK x \in wls[round[t]][t] \union shared[round[t]] :
              /\ x \in Tasks
              /\ \A j \in {0, 1}, u \in Threads :
                    j # round[t] \/ u # t => wls'[j][u] = wls[j][u]
              /\ \A j \in {0, 1} : j # round[t] => shared'[j] = shared[j]
              /\ wls'[round[t]][t] = wls[round[t]][t] \ {x}
              /\ shared'[round[t]] = shared[round[t]] \ {x}
              /\ current' = [current EXCEPT ![t] = {<<x, 0>>}]
              /\ pc' = [pc EXCEPT ![t] = next]
  BY <1>1, <1>2, TakeEffect
<1>4. \A u \in Threads : /\ pc'[u] = IF u = t THEN next ELSE pc[u]
                         /\ current'[u] = IF u = t THEN {<<x, 0>>} ELSE current[u]
  BY <1>3 DEF Types
<1>5. \A i \in {0, 1}, u \in Threads : wls'[i][u] \subseteq wls[i][u] /\ shared'[i] \subseteq shared[i]
  BY <1>3
<1>6. born[x] = turn[t] /\ x \in Queued
  BY <1>3, TakeThisRound DEF Rounds
<1>7. ~empty
  BY <1>6 DEF Rounds, Finished
<1>8. \A u \in Threads : Through(u)' => u # t /\ Through(u)
  BY <1>1, <1>4 DEF Through
<1>9. OwnRounds'
  <2> SUFFICES ASSUME NEW i \in {0, 1}, NEW u \in Threads, NEW y \in wls'[i][u]
               PROVE  born'[y] >= 1 /\ i = born'[y] % 2 /\ Window(u, y)'
    BY DEF OwnRounds
  <2>1. born[y] >= 1 /\ i = born[y] % 2 /\ Window(u, y)
    BY <1>5 DEF Rounds, OwnRounds
  <2> QED BY <1>1, <1>4, <1>8, <2>1 DEF Window
<1>10. SharedRounds'
  <2> SUFFICES ASSUME NEW i \in {0, 1}, NEW y \in shared'[i], NEW u \in Threads
               PROVE  /\ born'[y] >= 1 /\ i = born'[y] % 2
                      /\ turn'[u] <= born'[y] /\ born'[y] <= turn'[u] + 1
                      /\ Through(u)' => born'[y] = turn'[u] + 1
    BY ZeroIsThread DEF SharedRounds
  <2>1. y \in shared[i]
    BY <1>5
  <2> QED BY <1>1, <1>8, <2>1 DEF Rounds, SharedRounds
<1>11. WorkRounds'
  <2> SUFFICES ASSUME NEW u \in Threads
               PROVE  /\ aborted'[u] = {} /\ pc'[u] # "again"
                      /\ pc'[u] \notin Busy => current'[u] = {}
                      /\ \A item \in current'[u] : born'[item[1]] = turn'[u]
    BY DEF WorkRounds
  <2>1. /\ aborted[u] = {} /\ pc[u] # "again"
        /\ pc[u] \notin Busy => current[u] = {}
        /\ \A item \in current[u] : born[item[1]] = turn[u]
    BY DEF Rounds, WorkRounds
  <2>2. next \in Busy /\ next # "again"
    BY DEF Busy
  <2>3. u = t => \A item \in current'[u] : item[1] = x
    BY <1>4
  <2> QED BY <1>1, <1>4, <1>6, <2>1, <2>2, <2>3
<1>12. Remembered'
  <2>1. \A u \in Threads : pc'[u] \in {"start", "process"} => some'
    <3>1. next = "process" => some
      <4>1. ~NothingToTake(t)
        BY <1>3 DEF NothingToTake
      <4> QED BY <1>1, <4>1 DEF Rounds, Remembered
    <3> QED BY <1>1, <1>4, <3>1 DEF Rounds, Remembered
  <2>2. \A u \in Threads : pc'[u] = "pop" => NothingToTake(u)' \/ some'
    <3> SUFFICES ASSUME NEW u \in Threads, pc'[u] = "pop" PROVE NothingToTake(u)' \/ some'
      OBVIOUS
    <3>1. pc[u] = "pop"
      BY <1>1, <1>4
    <3>2. NothingToTake(u) => NothingToTake(u)'
      <4>1. round'[u] = round[u] /\ round[u] \in {0, 1}
        BY <1>1, RoundType
      <4> QED BY <1>5, <4>1 DEF NothingToTake
    <3> QED BY <1>1, <3>1, <3>2 DEF Rounds, Remembered
  <2>3. \A y \in Queued' : born'[y] = turn'[0] + 1 => some'
    <3>1. \A y \in Queued' : y \in Queued
      BY <1>5 DEF Queued
    <3> QED BY <1>1, <3>1 DEF Rounds, Remembered
  <2> QED BY <2>1, <2>2, <2>3 DEF Remembered
<1>13. Finished'
  BY <1>1, <1>4, <1>7 DEF Rounds, Finished
<1> QED BY <1>9, <1>10, <1>11, <1>12, <1>13 DEF Rounds

\* When thread 0 decides, what is left is for the round that comes.
LEMMA DecidedWindow ==
    ASSUME Types, InStep, Rounds, pc[0] = "between", NEW x \in Queued
    PROVE  born[x] = turn[0] + 1
PROOF
<1>1. 0 \in Threads
  BY ZeroIsThread
<1>2. CASE \E u \in Threads : Window(u, x)
  <2>1. PICK u \in Threads : Window(u, x)
    BY <1>2
  <2>2. \/ turn[u] = turn[0] /\ Through(u)
        \/ turn[u] = turn[0] + 1 /\ pc[u] = "secondWait"
    BY <1>1, AllBetween DEF Through
  <2> QED BY <2>1, <2>2 DEF Window
<1>3. CASE \A u \in Threads : Through(u) => born[x] = turn[u] + 1
  BY <1>1, <1>3 DEF Through
<1> QED BY <1>2, <1>3, QueuedWindow DEF Rounds

LEMMA RoundsBetween ==
    ASSUME Types, Types', InStep, Rounds, NEW t \in Threads, Between(t)
    PROVE  Rounds'
PROOF
<1>1. /\ pc[t] = "between"
      /\ \A u \in Threads : /\ pc'[u] = IF u = t THEN "secondWait" ELSE pc[u]
                            /\ turn'[u] = IF u = t THEN turn[u] + 1 ELSE turn[u]
      /\ UNCHANGED <<wls, shared, current, aborted, born>>
  BY DEF Between, On, Goto, Types
<1>2. IF t = 0 THEN empty' = (empty \/ ~some) /\ some' = FALSE ELSE empty' = empty /\ some' = some
  BY DEF Between, Decide
<1>3. 0 \in Threads /\ \A u \in Threads : turn[u] \in Nat
  BY ZeroIsThread DEF Types
<1>4. Through(t) /\ \A u \in Threads : Through(u)' <=> u # t /\ Through(u)
  BY <1>1 DEF Through
<1>5. \A i \in {0, 1}, u \in Threads : \A x \in wls[i][u] \union shared[i] : born[x] \in Nat
  BY DEF Types
<1>6. OwnRounds'
  <2> SUFFICES ASSUME NEW i \in {0, 1}, NEW u \in Threads, NEW x \in wls[i][u]
               PROVE  born[x] >= 1 /\ i = born[x] % 2 /\ Window(u, x)'
    BY <1>1 DEF OwnRounds
  <2>1. born[x] >= 1 /\ i = born[x] % 2 /\ Window(u, x)
    BY DEF Rounds, OwnRounds
  <2>2. CASE u = t
    <3>1. born[x] = turn'[u] /\ born[x] <= turn'[u] + 1 /\ turn'[u] <= born[x]
      BY <1>1, <1>3, <1>4, <1>5, <2>1, <2>2 DEF Window
    <3> QED BY <1>1, <1>4, <2>1, <2>2, <3>1 DEF Window
  <2>3. CASE u # t
    BY <1>1, <1>4, <2>1, <2>3 DEF Window
  <2> QED BY <2>1, <2>2, <2>3
<1>7. SharedRounds'
  <2> SUFFICES ASSUME NEW i \in {0, 1}, NEW x \in shared[i], NEW u \in Threads
               PROVE  /\ born[x] >= 1 /\ i = born[x] % 2
                      /\ turn'[u] <= born[x] /\ born[x] <= turn'[u] + 1
                      /\ Through(u)' => born[x] = turn'[u] + 1
    BY <1>1, <1>3 DEF SharedRounds
  <2>1. /\ born[x] >= 1 /\ i = born[x] % 2
        /\ turn[u] <= born[x] /\ born[x] <= turn[u] + 1
        /\ Through(u) => born[x] = turn[u] + 1
    BY DEF Rounds, SharedRounds
  <2> QED BY <1>1, <1>3, <1>4, <1>5, <2>1
<1>8. WorkRounds'
  <2> SUFFICES ASSUME NEW u \in Threads
               PROVE  /\ aborted'[u] = {} /\ pc'[u] # "again"
                      /\ pc'[u] \notin Busy => current'[u] = {}
                      /\ \A item \in current'[u] : born'[item[1]] = turn'[u]
    BY DEF WorkRounds
  <2>1. /\ aborted[u] = {} /\ pc[u] # "again"
        /\ pc[u] \notin Busy => current[u] = {}
        /\ \A item \in current[u] : born[item[1]] = turn[u]
    BY DEF Rounds, WorkRounds
  <2>2. current[t] = {}
    BY <1>1 DEF Rounds, WorkRounds, Busy
  <2>3. aborted' = aborted /\ current' = current /\ born' = born
    BY <1>1
  <2>4. CASE u = t
    BY <1>1, <2>1, <2>2, <2>3, <2>4
  <2>5. CASE u # t
    BY <1>1, <2>1, <2>3, <2>5
  <2> QED BY <2>4, <2>5
<1>9. Queued' = Queued
  BY <1>1 DEF Queued
<1>10. \A u \in Threads : pc[u] \in {"firstWait", "between", "secondWait"}
  BY <1>1, AllBetween
<1>11. Remembered'
  <2>1. \A u \in Threads : pc'[u] \in {"firstWait", "between", "secondWait"}
    BY <1>1, <1>10
  <2>2. CASE t = 0
    <3>1. \A x \in Queued : born[x] = turn[0] + 1
      BY <1>1, <2>2, DecidedWindow
    <3>2. \A x \in Queued' : born'[x] # turn'[0] + 1
      BY <1>1, <1>3, <1>9, <2>2, <3>1
    <3> QED BY <2>1, <3>2 DEF Remembered
  <2>3. CASE t # 0
    <3>1. turn'[0] = turn[0] /\ born' = born /\ some' = some
      BY <1>1, <1>2, <1>3, <2>3
    <3>2. \A x \in Queued' : born'[x] = turn'[0] + 1 => some'
      BY <1>9, <3>1 DEF Rounds, Remembered
    <3> QED BY <2>1, <3>2 DEF Remembered
  <2> QED BY <2>2, <2>3
<1>12. Finished'
  <2>1. \A u \in Threads : pc'[u] \in {"firstWait", "between", "secondWait"}
    BY <1>1, <1>10
  <2>2. CASE t = 0 /\ ~some
    <3>1. \A x \in Queued : born[x] = turn[0] + 1
      BY <1>1, <2>2, DecidedWindow
    <3>2. Queued = {}
      BY <2>2, <3>1 DEF Rounds, Remembered
    <3> QED BY <1>9, <2>1, <3>2 DEF Finished
  <2>3. CASE ~(t = 0 /\ ~some)
    <3>1. empty' <=> empty
      BY <1>2, <2>3 DEF Types
    <3> QED BY <1>9, <2>1, <3>1 DEF Rounds, Finished
  <2> QED BY <2>2, <2>3
<1> QED BY <1>6, <1>7, <1>8, <1>11, <1>12 DEF Rounds

LEMMA RoundsStep ==
    ASSUME Types, Types', InStep, Rounds, aborts = 0, aborts' = 0, NEW t \in Threads, Step(t)
    PROVE  Rounds'
PROOF
<1>1. CASE PushInitial(t)
  BY <1>1, RoundsPushInitial
<1>2. CASE Pop(t) \/ FirstOfRound(t)
  BY <1>2, RoundsTake
<1>3. CASE Between(t)
  BY <1>3, RoundsBetween
<1>4. CASE Process(t)
  BY <1>4, RoundsProcess
<1>5. ~Abort(t) /\ ~AbortAgain(t) /\ ~PopAborted(t) /\ ~ProcessAborted(t)
  <2>1. aborted[t] = {} /\ pc[t] # "again"
    BY DEF Rounds, WorkRounds
  <2> QED BY <2>1 DEF Abort, AbortAgain, AbortIteration, PopAborted, ProcessAborted, On
<1>6. CASE Start(t)
  <2>1. /\ Goto(t, "pop") /\ pc[t] = "start" /\ some' = some
        /\ UNCHANGED <<wls, shared, round, current, aborted, born, turn, empty>>
    BY <1>6 DEF Start, On, listVars
  <2>2. some /\ ~empty
    BY <2>1 DEF Rounds, Remembered, Finished
  <2> QED BY <2>1, <2>2, QuietRounds DEF Labels, Active, Busy, Types
<1>7. CASE FirstWait(t)
  <2>1. /\ Goto(t, "between") /\ pc[t] = "firstWait" /\ some' = some
        /\ UNCHANGED <<wls, shared, round, current, aborted, born, turn, empty>>
    BY <1>7 DEF FirstWait, On, listVars
  <2>2. Through(t)
    BY <2>1 DEF Through
  <2> QED BY <2>1, <2>2, QuietRounds DEF Labels, Active, Busy, Types
<1>8. CASE SecondWait(t)
  <2>1. /\ Goto(t, "first") /\ pc[t] = "secondWait" /\ some' = some
        /\ UNCHANGED <<wls, shared, round, current, aborted, born, turn, empty>>
    BY <1>8 DEF SecondWait, On, listVars
  <2> QED BY <2>1, QuietRounds DEF Labels, Active, Busy, Types
<1>9. CASE RoundDone(t)
  <2>1. /\ Goto(t, "firstWait") /\ pc[t] = "pop" /\ some' = some /\ ~empty
        /\ NothingToTake(t)
        /\ UNCHANGED <<wls, shared, round, current, aborted, born, turn, empty>>
    BY <1>9 DEF RoundDone, On, listVars
  <2> QED BY <2>1, QuietRounds DEF Labels, Active, Busy, Types
<1>10. CASE PopEmpty(t)
  <2>1. /\ Goto(t, "aborts") /\ pc[t] = "pop" /\ some' = some /\ empty
        /\ UNCHANGED <<wls, shared, round, current, aborted, born, turn, empty>>
    BY <1>10 DEF PopEmpty, On, listVars
  <2> QED BY <2>1, QuietRounds DEF Labels, Active, Busy, Types
<1>11. CASE NoneInRound(t) \/ NoneAborted(t)
  <2>1. /\ Goto(t, "pop") /\ pc[t] \notin Busy /\ some' = some
        /\ (NothingToTake(t) \/ pc[t] = "aborts")
        /\ UNCHANGED <<wls, shared, round, current, aborted, born, turn, empty>>
    BY <1>11 DEF NoneInRound, NoneAborted, On, listVars, Busy
  <2>2. NothingToTake(t)
    <3>1. CASE pc[t] = "aborts"
      <4>1. Queued = {}
        BY <3>1 DEF Rounds, Finished
      <4> QED BY <4>1, RoundType, QueuedMeaning DEF NothingToTake
    <3> QED BY <2>1, <3>1
  <2> QED BY <2>1, <2>2, QuietRounds DEF Labels, Active, Types
<1>12. CASE Some(t)
  <2>1. /\ Goto(t, "process") /\ pc[t] = "some" /\ some' = TRUE
        /\ UNCHANGED <<wls, shared, round, current, aborted, born, turn, empty>>
    BY <1>12 DEF Some, On
  <2>2. ~empty
    BY <2>1 DEF Rounds, Finished
  <2> QED BY <2>1, <2>2, QuietRounds DEF Labels, Active, Busy
<1> QED BY <1>1, <1>2, <1>3, <1>4, <1>5, <1>6, <1>7, <1>8, <1>9, <1>10, <1>11, <1>12 DEF Step

-----------------------------------------------------------------------------
(* The invariant, and what it implies.                                     *)

LEMMA InvariantStep ==
    ASSUME IInv, [Next]_vars
    PROVE  IInv'
PROOF
<1>1. CASE Next
  <2>1. PICK t \in Threads : Step(t)
    BY <1>1 DEF Next
  <2>2. Types'
    BY <2>1, TypesStep DEF IInv
  <2>3. InStep'
    BY <2>1, <2>2, InStepStep DEF IInv
  <2>4. Kept'
    BY <2>1, KeptStep DEF IInv
  <2>5. aborts' = 0 => aborts = 0
    <3>1. aborts' \in {aborts, aborts + 1}
      BY <2>1 DEF Step, PushInitial, Start, PopEmpty, Pop, RoundDone, FirstWait, Between,
                  SecondWait, FirstOfRound, NoneInRound, Some, Process, Commit, Abort,
                  AbortIteration, PopAborted, ProcessAborted, AbortAgain, NoneAborted
    <3> QED BY <3>1 DEF IInv, Types
  <2>6. aborts' = 0 => Rounds'
    BY <2>1, <2>2, <2>5, RoundsStep DEF IInv
  <2> QED BY <2>2, <2>3, <2>4, <2>6 DEF IInv
<1>2. CASE UNCHANGED vars
  <2>1. UNCHANGED <<wls, shared, some, empty, round, entered, left, current, aborted, pc, born,
                    turn, done, aborts>>
    BY <1>2 DEF vars, listVars, barVars
  <2>2. Types'
    BY <2>1 DEF IInv, Types
  <2>3. InStep'
    BY <2>1 DEF IInv, InStep, Together, Waits
  <2>4. Kept'
    <3>1. \A x \in Tasks : OnePlace(x)'
      <4> SUFFICES ASSUME NEW x \in Tasks PROVE OnePlace(x)'
        OBVIOUS
      <4>1. \A k \in Kinds, i \in {0, 1}, u \in Threads : At(k, i, u, x)' <=> At(k, i, u, x)
        BY <2>1 DEF At
      <4> QED BY <2>1, <4>1, Stays DEF IInv, Kept
    <3>2. InHand'
      BY <2>1 DEF IInv, Kept, InHand
    <3> QED BY <3>1, <3>2 DEF Kept
  <2>5. aborts = 0 => Rounds'
    <3> SUFFICES ASSUME Rounds PROVE Rounds'
      BY DEF IInv
    <3>1. OwnRounds' /\ SharedRounds'
      BY <2>1 DEF Rounds, OwnRounds, SharedRounds, Window, Through
    <3>2. WorkRounds'
      BY <2>1 DEF Rounds, WorkRounds
    <3>3. Queued' = Queued
      BY <2>1 DEF Queued
    <3>4. Remembered'
      BY <2>1, <3>3 DEF Rounds, Remembered, NothingToTake
    <3>5. Finished'
      BY <2>1, <3>3 DEF Rounds, Finished
    <3> QED BY <3>1, <3>2, <3>4, <3>5 DEF Rounds
  <2> QED BY <2>1, <2>2, <2>3, <2>4, <2>5 DEF IInv
<1> QED BY <1>1, <1>2

\* The invariant of BulkSynchronous::pop under the loop: the barrier keeps the threads in step,
\* an item is in one place, and without aborts the lists are of neighbouring rounds.
THEOREM BulkInvariant == Spec => []IInv
PROOF
<1>1. Init => IInv
  BY InitTypes, InitInStep, InitKept, InitRounds DEF IInv
<1>2. IInv /\ [Next]_vars => IInv'
  BY InvariantStep
<1> QED BY <1>1, <1>2, PTL DEF Spec

\* While an iteration runs, nothing of an earlier round is left and all threads are in its round.
THEOREM BulkRounds == Spec => []RoundsDoNotMix
PROOF
<1>1. IInv => RoundsDoNotMix
  <2> SUFFICES ASSUME IInv, aborts = 0, NEW t \in Threads, NEW item \in current[t]
               PROVE  /\ \A y \in Queued \union InWork : born[y] >= born[item[1]]
                      /\ \A u \in Threads : turn[u] = born[item[1]]
    BY DEF RoundsDoNotMix
  <2>1. Types /\ InStep /\ Rounds
    BY DEF IInv
  <2>2. pc[t] \in Active /\ born[item[1]] = turn[t]
    BY <2>1 DEF Rounds, WorkRounds, Busy, Active
  <2>3. \A u \in Threads : turn[u] = turn[t] /\ turn[u] \in Nat
    BY <2>1, <2>2, SameTurn DEF Types
  <2>4. \A y \in Queued : born[y] >= turn[t]
    <3> SUFFICES ASSUME NEW y \in Queued PROVE born[y] >= turn[t]
      OBVIOUS
    <3>1. y \in Tasks /\ born[y] \in Nat
      BY <2>1, QueuedTasks DEF Types
    <3> QED BY <2>1, <2>3, <3>1, QueuedWindow DEF Rounds, Window
  <2>5. \A y \in InWork : born[y] >= turn[t]
    <3> SUFFICES ASSUME NEW y \in InWork PROVE born[y] >= turn[t]
      OBVIOUS
    <3>1. PICK u \in Threads : \E other \in current[u] \union aborted[u] : y = other[1]
      BY DEF InWork
    <3>2. born[y] = turn[u]
      BY <2>1, <3>1 DEF Rounds, WorkRounds
    <3> QED BY <2>3, <3>2
  <2> QED BY <2>2, <2>3, <2>4, <2>5
<1> QED BY <1>1, BulkInvariant, PTL

\* After a pop has found the end, nothing is left and nothing comes.
THEOREM BulkEmpty == Spec => []EmptyIsFinal
PROOF
<1>1. IInv => EmptyIsFinal
  BY DEF IInv, Rounds, Finished, EmptyIsFinal
<1> QED BY <1>1, BulkInvariant, PTL

\* Also when iterations are aborted, no item is lost or there twice.
THEOREM BulkItemsKept == Spec => []ItemsKept
PROOF
<1>1. IInv => ItemsKept
  <2> SUFFICES ASSUME IInv PROVE ItemsKept
    OBVIOUS
  <2>1. TypeOK
    BY DEF IInv, Types, TypeOK
  <2>2. ASSUME NEW x \in Tasks \ Unpushed
        PROVE  Cardinality(Places(x)) = 1
    <3>1. OnePlace(x) /\ born[x] # 0
      BY DEF IInv, Kept, Unpushed, Unborn
    <3>2. PICK k \in Kinds, i \in {0, 1}, t \in Threads : At(k, i, t, x)
      BY <3>1 DEF OnePlace
    <3>3. <<k, i, t>> \in Places(x)
      BY <3>2 DEF Places
    <3>4. \A p \in Places(x) : p = <<k, i, t>>
      <4> SUFFICES ASSUME NEW p \in Kinds \X {0, 1} \X Threads, At(p[1], p[2], p[3], x)
                   PROVE  p = <<k, i, t>>
        BY DEF Places
      <4>1. p = <<p[1], p[2], p[3]>> /\ p[1] \in Kinds /\ p[2] \in {0, 1} /\ p[3] \in Threads
        OBVIOUS
      <4>2. p[1] = k /\ p[2] = i /\ p[3] = t
        BY <3>1, <3>2, <4>1 DEF OnePlace
      <4> QED BY <4>1, <4>2
    <3>5. Places(x) = {<<k, i, t>>}
      BY <3>3, <3>4
    <3> QED BY <3>5, FS_Singleton
  <2> QED BY <2>1, <2>2 DEF ItemsKept
<1> QED BY <1>1, BulkInvariant, PTL

-----------------------------------------------------------------------------
(* The end of the rounds.                                                  *)

Waiting(t) == pc[t] \in {"start", "firstWait", "secondWait"}
OnTheWay == {"initial", "firstWait", "between"}

\* Once a pop has found the end, a thread that waits for another one waits for one
\* that is on its way to that wait: nobody hangs in a wait that others, who go on
\* popping an empty worklist, have left for good.  Also when iterations abort.
NobodyHangs ==
    empty => \A t, u \in Threads : Waiting(t) /\ entered[u] <= left[t] => pc[u] \in OnTheWay

\* The end is found when all are between two waits, and then nobody begins another round.
NobodyAhead ==
    empty => \A t, u \in Threads : pc[t] \notin OnTheWay => entered[u] <= entered[t]

LEMMA WaitBounds ==
    ASSUME Types, InStep, NEW t \in Threads
    PROVE  /\ entered[t] \in Nat /\ left[t] \in Nat /\ turn[t] \in Nat
           /\ left[t] <= entered[t] /\ entered[t] <= left[t] + 1
           /\ Waiting(t) => entered[t] = left[t] + 1
PROOF
<1>1. entered[t] \in Nat /\ left[t] \in Nat /\ turn[t] \in Nat /\ pc[t] \in Labels /\ Waits(t)
  BY DEF Types, InStep
<1> QED BY <1>1 DEF Waits, Waiting, Labels, Active

\* The only step from a pop into the first wait is the end of a round.
LEMMA PopGoes ==
    ASSUME NEW t \in Threads, pc \in [Threads -> Labels], Step(t), pc[t] = "pop",
           Goto(t, "firstWait")
    PROVE  RoundDone(t)
PROOF
<1>1. pc'[t] = "firstWait"
  BY DEF Goto
<1>2. ~PushInitial(t) /\ ~Start(t) /\ ~FirstWait(t) /\ ~Between(t) /\ ~SecondWait(t)
  BY DEF PushInitial, Start, FirstWait, Between, SecondWait, On
<1>3. ~FirstOfRound(t) /\ ~NoneInRound(t) /\ ~Some(t) /\ ~Process(t) /\ ~Abort(t)
  BY DEF FirstOfRound, NoneInRound, Some, Process, Abort, On
<1>4. ~PopAborted(t) /\ ~ProcessAborted(t) /\ ~AbortAgain(t) /\ ~NoneAborted(t)
  BY DEF PopAborted, ProcessAborted, AbortAgain, NoneAborted, On
<1>5. ~PopEmpty(t)
  BY <1>1 DEF PopEmpty, Goto
<1>6. ~Pop(t)
  BY <1>1 DEF Pop, Take, Goto
<1> QED BY <1>2, <1>3, <1>4, <1>5, <1>6 DEF Step

\* After the end was found, nobody enters a wait but the one all others come to.
LEMMA AheadStep ==
    ASSUME Types, InStep, NobodyAhead, NEW t \in Threads, Step(t)
    PROVE  NobodyAhead'
PROOF
<1>1. Moves(t) \/ PushInitial(t) \/ Between(t)
  BY StepMoves
<1>2. \A u \in Threads \ {t} : pc'[u] = pc[u] /\ entered'[u] = entered[u] /\ left'[u] = left[u]
  BY <1>1, OthersWait DEF InStep
<1>3. \A u \in Threads : entered[u] \in Nat /\ left[u] \in Nat /\ entered[u] <= left[u] + 1
  BY WaitBounds
<1>4. CASE Between(t)
  <2>1. /\ pc[t] = "between" /\ pc'[t] = "secondWait" /\ entered'[t] = entered[t] + 1
    BY <1>4 DEF Between, On, Goto, Bar!Enter, Types
  <2>2. ASSUME NEW u \in Threads PROVE entered[u] <= entered[t] + 1
    <3>1. left[u] <= entered[t]
      BY DEF InStep, Together
    <3> QED BY <1>3, <3>1
  <2>3. ASSUME NEW u \in Threads, pc[u] \notin OnTheWay PROVE entered[u] = entered[t] + 1
    <3>1. pc[u] = "secondWait" /\ turn[u] = turn[t] + 1 /\ turn[t] \in Nat
      BY <2>1, <2>3, AllBetween DEF OnTheWay, Types
    <3>2. entered[u] = 2 * turn[u] - 1 /\ entered[t] = 2 * turn[t]
      BY <2>1, <3>1 DEF InStep, Waits
    <3> QED BY <3>1, <3>2
  <2>4. ASSUME NEW u \in Threads, NEW v \in Threads, pc'[u] \notin OnTheWay
        PROVE  entered'[v] <= entered'[u]
    <3>1. entered'[u] = entered[t] + 1
      BY <1>2, <2>1, <2>3, <2>4
    <3>2. entered'[v] \in {entered[v], entered[t] + 1}
      BY <1>2, <2>1
    <3>3. entered[v] <= entered[t] + 1 /\ entered[t] + 1 \in Nat
      BY <1>3, <2>2
    <3> QED BY <3>1, <3>2, <3>3
  <2> QED BY <2>4 DEF NobodyAhead
<1>5. CASE PushInitial(t)
  <2>1. /\ pc[t] = "initial" /\ pc'[t] = "start" /\ entered'[t] = entered[t] + 1 /\ empty' = empty
    BY <1>5 DEF PushInitial, On, Goto, Bar!Enter, Types
  <2>2. entered[t] = 0
    BY <2>1 DEF InStep, Waits
  <2>3. ASSUME NEW u \in Threads PROVE entered[u] <= 1
    <3>1. left[u] <= entered[t]
      BY DEF InStep, Together
    <3> QED BY <1>3, <2>2, <3>1
  <2>4. ASSUME NEW u \in Threads, pc[u] # "initial" PROVE entered[u] = 1
    <3>1. entered[u] >= 1
      <4>1. turn[u] \in Nat /\ pc[u] \in Labels /\ turn[u] >= 1
        BY <2>4 DEF Types, InStep, Waits
      <4> QED BY <4>1 DEF InStep, Waits, Labels, Active
    <3> QED BY <1>3, <2>3, <3>1
  <2>5. ASSUME NEW u \in Threads, NEW v \in Threads, pc'[u] \notin OnTheWay
        PROVE  entered'[v] <= entered'[u]
    <3>1. entered'[u] = 1
      BY <1>2, <2>1, <2>2, <2>4, <2>5 DEF OnTheWay
    <3>2. entered'[v] \in Nat /\ entered'[v] <= 1
      BY <1>2, <1>3, <2>1, <2>2, <2>3
    <3> QED BY <3>1, <3>2
  <2> QED BY <2>5 DEF NobodyAhead
<1>6. CASE Moves(t)
  <2> SUFFICES ASSUME empty', NEW u \in Threads, NEW v \in Threads, pc'[u] \notin OnTheWay
               PROVE  entered'[v] <= entered'[u]
    BY DEF NobodyAhead
  <2>1. pc[t] # "between" /\ ~Between(t)
    BY <1>6 DEF Moves, Active, Goto, Between, On
  <2>2. UNCHANGED empty
    <3>1. CASE Start(t) \/ RoundDone(t) \/ FirstWait(t) \/ SecondWait(t)
      BY <3>1 DEF Start, RoundDone, FirstWait, SecondWait, listVars
    <3>2. CASE PopEmpty(t) \/ NoneInRound(t) \/ NoneAborted(t) \/ PopAborted(t)
      BY <3>2 DEF PopEmpty, NoneInRound, NoneAborted, PopAborted, listVars
    <3>3. CASE Pop(t) \/ FirstOfRound(t) \/ Some(t) \/ PushInitial(t)
      BY <3>3 DEF Pop, FirstOfRound, Some, PushInitial
    <3>4. CASE Process(t) \/ ProcessAborted(t)
      BY <3>4 DEF Process, ProcessAborted, Commit
    <3>5. CASE Abort(t) \/ AbortAgain(t)
      BY <3>5 DEF Abort, AbortAgain, AbortIteration, listVars
    <3> QED BY <2>1, <3>1, <3>2, <3>3, <3>4, <3>5 DEF Step
  <2>3. UNCHANGED entered
    <3>1. ~RoundDone(t)
      BY <2>2 DEF RoundDone
    <3>2. CASE pc[t] = "pop" /\ Goto(t, "firstWait")
      BY <3>1, <3>2, PopGoes DEF Types
    <3>3. CASE ~(pc[t] = "pop" /\ Goto(t, "firstWait"))
      BY <1>6, <3>3 DEF Moves, Bar!Leave, barVars
    <3> QED BY <3>2, <3>3
  <2>4. CASE pc[u] \notin OnTheWay
    BY <2>2, <2>3, <2>4 DEF NobodyAhead
  <2>5. CASE pc[u] \in OnTheWay
    <3>1. u = t
      BY <1>2, <2>5
    <3>2. pc[t] = "firstWait" /\ pc'[t] = "between"
      BY <1>6, <2>1, <2>5, <3>1 DEF Moves, Goto, Types, OnTheWay, Active
    <3> QED BY <3>1, <3>2 DEF OnTheWay
  <2> QED BY <2>4, <2>5
<1> QED BY <1>1, <1>4, <1>5, <1>6

\* When the end has been found, every wait is one that all come to (BulkSynchronous.h:
\* 101-115: whoever finds isEmpty set returns from pop and enters no more waits).
THEOREM BulkNobodyHangs == Spec => []NobodyHangs
PROOF
<1>1. Init => NobodyAhead
  BY DEF Init, NobodyAhead
<1>2. IInv /\ NobodyAhead /\ [Next]_vars => NobodyAhead'
  <2>1. IInv /\ NobodyAhead /\ Next => NobodyAhead'
    BY AheadStep DEF IInv, Next
  <2>2. NobodyAhead /\ UNCHANGED vars => NobodyAhead'
    BY DEF NobodyAhead, vars, barVars, listVars
  <2> QED BY <2>1, <2>2
<1>3. IInv /\ NobodyAhead => NobodyHangs
  <2> SUFFICES ASSUME IInv, NobodyAhead, empty, NEW t \in Threads, NEW u \in Threads,
                      Waiting(t), entered[u] <= left[t], pc[u] \notin OnTheWay
               PROVE  FALSE
    BY DEF NobodyHangs
  <2>1. entered[t] <= entered[u]
    BY DEF NobodyAhead
  <2>2. entered[t] = left[t] + 1 /\ left[t] \in Nat /\ entered[u] \in Nat
    BY WaitBounds DEF IInv
  <2> QED BY <2>1, <2>2
<1> QED BY <1>1, <1>2, <1>3, BulkInvariant, PTL DEF Spec
=============================================================================
