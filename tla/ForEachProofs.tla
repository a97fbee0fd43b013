---------------------------- MODULE ForEachProofs ---------------------------
(* Proofs about ForEachWork for any number of threads and work items:       *)
(* types, the inductive invariant, and the safety it implies.  Then about   *)
(* the conflict detection of its iterations, ConflictDetection, for any     *)
(* contexts and objects.                                                    *)
EXTENDS ForEachInvariant, ConflictDetection, TLAPS, WellFoundedInduction

-----------------------------------------------------------------------------
(* The tree of queues an aborted item climbs has all its nodes in the ring.*)

LEMMA LeaderInRing ==
    ASSUME NEW package \in Nat,
           NEW t \in Ring, PackageOf[t] = package
    PROVE  LeaderForPackage(package) \in Ring /\ LeaderForPackage(package) <= t
PROOF
<1> DEFINE Members == {u \in Ring : PackageOf[u] = package}
           R == OpToRel(<, Nat)
<1>1. PICK v \in Members : \A u \in Members : ~(<<u, v>> \in R)
  <2>1. Members \subseteq Nat /\ Members # {}
    BY NAssumption DEF Ring
  <2> HIDE DEF Members
  <2> QED BY <2>1, NatLessThanWellFounded, WFMin
<1>2. \A u \in Members : v <= u
  <2> SUFFICES ASSUME NEW u \in Members PROVE v <= u
    OBVIOUS
  <2>1. ~(<<u, v>> \in R)
    BY <1>1
  <2>2. u \in Nat /\ v \in Nat
    BY NAssumption DEF Ring
  <2>3. ~(u < v)
    BY <2>1, <2>2 DEF OpToRel
  <2> QED BY <2>2, <2>3
<1>3. \E w \in Ring : /\ PackageOf[w] = package
                      /\ \A u \in Ring : PackageOf[u] = package => w <= u
  BY <1>2
<1> QED BY <1>3 DEF LeaderForPackage

LEMMA QueueInRing ==
    ASSUME NEW t \in Ring, NEW retries \in Nat
    PROVE  QueueFor(t, retries) \in Ring
PROOF
<1>1. PackageOf[t] \in Nat /\ PackageOf[t] \div 2 \in 0..PackageOf[t]
  BY PackageAssumption
<1>2. BasicPolicy(t) \in Ring
  <2>1. PICK u \in 0..t : PackageOf[u] = PackageOf[t] \div 2
    BY <1>1, PackageAssumption
  <2>2. u \in Ring
    BY NAssumption DEF Ring
  <2> QED BY <1>1, <2>1, <2>2, LeaderInRing DEF BasicPolicy
<1>3. LeaderForPackage(PackageOf[t]) \in Ring /\ LeaderForPackage(PackageOf[t]) <= t
  BY <1>1, LeaderInRing
<1>4. DoublePolicy(t, retries) \in Ring
  <2> DEFINE leader == LeaderForPackage(PackageOf[t])
  <2>1. leader + (t - leader) \div 2 \in Ring
    <3> HIDE DEF leader
    <3>1. leader \in Ring /\ leader <= t
      BY <1>3 DEF leader
    <3> QED BY <3>1, NAssumption DEF Ring
  <2> QED BY <1>2, <2>1 DEF DoublePolicy
<1> QED BY <1>2, <1>4 DEF QueueFor

-----------------------------------------------------------------------------
(* Type correctness.                                                       *)

LEMMA RingFacts ==
    /\ Master \in Ring
    /\ \A t \in Ring : Successor(t) \in Ring /\ t \in Nat
PROOF BY NAssumption DEF Ring, Master, Successor

LEMMA InitType == Init => TypeOK
PROOF
<1> SUFFICES ASSUME Init PROVE TypeOK
  OBVIOUS
<1>1. RingTypeOK
  BY DEF Init, RingInit, RingTypeOK
<1>2. /\ bag \in [Ring -> SUBSET Tasks] /\ aborted \in [Ring -> SUBSET Item]
      /\ current \in [Ring -> SUBSET Item]
  BY DEF Init
<1>3. /\ broke \in BOOLEAN /\ pc \in [Ring -> Labels] /\ didWork \in [Ring -> BOOLEAN]
      /\ num \in [Ring -> Nat] /\ pushed \in SUBSET Tasks /\ committed \in SUBSET Tasks
      /\ aborts \in Nat /\ loop \in Nat
  BY DEF Init, Labels
<1> QED BY <1>1, <1>2, <1>3 DEF TypeOK

LEMMA CommitType ==
    ASSUME TypeOK, NEW t \in Ring, CommitIteration(t)
    PROVE  /\ bag' \in [Ring -> SUBSET Tasks]
           /\ pushed' \in SUBSET Tasks
           /\ committed' \in SUBSET Tasks
           /\ current' \in [Ring -> SUBSET Item]
           /\ UNCHANGED <<ringVars, aborted, broke, didWork, aborts, loop>>
PROOF
<1>1. {item[1] : item \in current[t]} \subseteq Tasks
  BY DEF TypeOK, Item
<1> QED BY <1>1 DEF CommitIteration, TypeOK, WL!PushRange

LEMMA AbortType ==
    ASSUME TypeOK, NEW t \in Ring, NEW u \in Ring, NEW retries \in Nat,
           AbortIteration(t, u, retries)
    PROVE  /\ aborted' \in [Ring -> SUBSET Item]
           /\ current' \in [Ring -> SUBSET Item]
           /\ aborts' \in Nat
           /\ UNCHANGED <<ringVars, bag, broke, didWork, pushed, committed, loop>>
PROOF
<1>1. {<<item[1], retries>> : item \in current[t]} \subseteq Item
  BY DEF TypeOK, Item
<1> QED BY <1>1 DEF AbortIteration, TypeOK

\* What a pop takes: an item x that some thread owned, nothing else is lost.
LEMMA PopEffect ==
    ASSUME TypeOK, NEW t \in Ring, Pop(t)
    PROVE  \E x \in Tasks :
             /\ \E u \in Ring : x \in bag[u]
             /\ bag' \in [Ring -> SUBSET Tasks]
             /\ \A u \in Ring \ {t} : bag'[u] \subseteq bag[u]
             /\ \A z : (\E u \in Ring : z \in bag[u]) <=> (z = x \/ \E u \in Ring : z \in bag'[u])
             /\ current' = [current EXCEPT ![t] = {<<x, 0>>}]
             /\ didWork' = [didWork EXCEPT ![t] = TRUE]
PROOF
<1> USE DEF TypeOK
<1>1. ASSUME NEW x \in bag[t], WL!TakeOwn(t, x), Take(t, <<x, 0>>)
      PROVE  \E y \in Tasks :
             /\ \E u \in Ring : y \in bag[u]
             /\ bag' \in [Ring -> SUBSET Tasks]
             /\ \A u \in Ring \ {t} : bag'[u] \subseteq bag[u]
             /\ \A z : (\E u \in Ring : z \in bag[u]) <=> (z = y \/ \E u \in Ring : z \in bag'[u])
             /\ current' = [current EXCEPT ![t] = {<<y, 0>>}]
             /\ didWork' = [didWork EXCEPT ![t] = TRUE]
  <2>1. bag' = [bag EXCEPT ![t] = @ \ {x}]
    BY <1>1 DEF WL!TakeOwn
  <2>2. \A z : (\E u \in Ring : z \in bag[u]) <=> (z = x \/ \E u \in Ring : z \in bag'[u])
    BY <2>1
  <2> QED BY <1>1, <2>1, <2>2 DEF Take
<1>2. ASSUME NEW u \in Ring, NEW batch \in SUBSET bag[u], NEW x \in batch,
             WL!TakeFrom(t, u, batch, x), Take(t, <<x, 0>>)
      PROVE  \E y \in Tasks :
             /\ \E w \in Ring : y \in bag[w]
             /\ bag' \in [Ring -> SUBSET Tasks]
             /\ \A w \in Ring \ {t} : bag'[w] \subseteq bag[w]
             /\ \A z : (\E w \in Ring : z \in bag[w]) <=> (z = y \/ \E w \in Ring : z \in bag'[w])
             /\ current' = [current EXCEPT ![t] = {<<y, 0>>}]
             /\ didWork' = [didWork EXCEPT ![t] = TRUE]
  <2>1. u # t /\ bag' = [bag EXCEPT ![u] = @ \ batch, ![t] = @ \cup (batch \ {x})]
    BY <1>2 DEF WL!TakeFrom
  <2>2. /\ bag'[u] = bag[u] \ batch
        /\ bag'[t] = bag[t] \cup (batch \ {x})
        /\ \A w \in Ring \ {t, u} : bag'[w] = bag[w]
    BY <2>1
  <2>3. \A z : (\E w \in Ring : z \in bag[w]) <=> (z = x \/ \E w \in Ring : z \in bag'[w])
    BY <2>2
  <2>4. bag' \in [Ring -> SUBSET Tasks] /\ x \in Tasks
    BY <2>1
  <2> QED BY <1>2, <2>2, <2>3, <2>4 DEF Take
<1> QED BY <1>1, <1>2 DEF Pop

LEMMA TypeOfStep ==
    ASSUME TypeOK, NEW t \in Ring, Step(t)
    PROVE  TypeOK'
PROOF
<1> USE RingFacts DEF TypeOK, RingTypeOK
<1>1. CASE InitThread(t)
  BY <1>1 DEF InitThread, InitializeThread, Goto, Labels, loopVars
<1>2. CASE AddInitialWork(t)
  BY <1>2 DEF AddInitialWork, Goto, Labels, WL!PushRange, ringVars
<1>3. CASE Enter(t)
  BY <1>3 DEF Enter, Goto, Labels, ringVars, loopVars
<1>4. CASE Leave(t)
  BY <1>4 DEF Leave, Goto, Labels, ringVars, loopVars
<1>5. CASE Pop(t)
  <2>1. PICK x \in Tasks : /\ bag' \in [Ring -> SUBSET Tasks]
                           /\ current' = [current EXCEPT ![t] = {<<x, 0>>}]
                           /\ didWork' = [didWork EXCEPT ![t] = TRUE]
    BY <1>5, PopEffect
  <2>2. {<<x, 0>>} \subseteq Item
    BY DEF Item
  <2> QED BY <1>5, <2>1, <2>2 DEF Pop, Goto, Labels, ringVars
<1>6. CASE PopNothing(t)
  BY <1>6 DEF PopNothing, WL!TakeNothing, QueueDone, Goto, Labels, ringVars
<1>7. CASE Process(t)
  <2>1. num' \in [Ring -> Nat] /\ pc' \in [Ring -> Labels]
    BY <1>7 DEF Process, QueueDone, Goto, Labels
  <2> QED BY <1>7, <2>1, CommitType DEF Process, ringVars
<1>8. CASE Abort(t)
  <2>1. num' \in [Ring -> Nat] /\ pc' \in [Ring -> Labels]
    BY <1>8 DEF Abort, QueueDone, Goto, Labels
  <2> QED BY <1>8, <2>1, AbortType DEF Abort, ringVars
<1>9. CASE PopAborted(t)
  BY <1>9 DEF PopAborted, Take, Goto, Labels, ringVars
<1>10. CASE NoneAborted(t)
  BY <1>10 DEF NoneAborted, Goto, Labels, ringVars, loopVars
<1>11. CASE ProcessAborted(t)
  <2>1. num' \in [Ring -> Nat] /\ pc' \in [Ring -> Labels]
    BY <1>11 DEF ProcessAborted, Goto, Labels
  <2> QED BY <1>11, <2>1, CommitType DEF ProcessAborted, ringVars
<1>12. CASE AbortAgain(t)
  <2>1. num' \in [Ring -> Nat] /\ pc' \in [Ring -> Labels]
    BY <1>12 DEF AbortAgain, Goto, Labels
  <2>2. PICK item \in current[t] :
          AbortIteration(t, QueueFor(t, item[2] + 1), item[2] + 1)
    BY <1>12 DEF AbortAgain
  <2>3. item[2] + 1 \in Nat
    BY DEF Item
  <2>4. QueueFor(t, item[2] + 1) \in Ring
    BY <2>3, QueueInRing
  <2> QED BY <2>1, <2>2, <2>3, <2>4, AbortType DEF ringVars
<1>13. CASE LocalTermination(t)
  <2>1. /\ hasToken' \in [Ring -> BOOLEAN] /\ tokenIsBlack' \in [Ring -> BOOLEAN]
        /\ processIsBlack' \in [Ring -> BOOLEAN] /\ lastWasWhite' \in BOOLEAN
        /\ globalTerm' \in BOOLEAN /\ taint' \in [Ring -> BOOLEAN]
    BY <1>13 DEF LocalTermination, NoToken, DetectTermination, PassToken, Recirculate,
                 Forward, White
  <2>2. pc' \in [Ring -> Labels]
    BY <1>13 DEF LocalTermination, Goto, Labels
  <2> QED BY <1>13, <2>1, <2>2 DEF LocalTermination
<1>14. CASE PropTokenColour(t)
  BY <1>14 DEF PropTokenColour, SendColour, Goto, Labels, loopVars
<1>15. CASE PropToken(t)
  BY <1>15 DEF PropToken, SendToken, Goto, Labels, loopVars
<1>16. CASE Check(t)
  BY <1>16 DEF Check, Goto, Labels, ringVars, loopVars
<1> QED BY <1>1, <1>2, <1>3, <1>4, <1>5, <1>6, <1>7, <1>8, <1>9, <1>10, <1>11, <1>12,
           <1>13, <1>14, <1>15, <1>16 DEF Step

LEMMA TypeStep ==
    ASSUME TypeOK, Next
    PROVE  TypeOK'
PROOF
<1>1. ASSUME NEW t \in Ring, Step(t) PROVE TypeOK'
  BY <1>1, TypeOfStep
<1>2. ASSUME NEW t \in Ring, FastPushBack(t) PROVE TypeOK'
  BY <1>2 DEF FastPushBack, WL!PushRange, ringVars, TypeOK, RingTypeOK
<1>3. ASSUME NEW t \in Ring, BreakLoop(t) PROVE TypeOK'
  BY <1>3 DEF BreakLoop, ringVars, TypeOK, RingTypeOK
<1>4. ASSUME NextLoop PROVE TypeOK'
  <2>1. RingTypeOK' /\ current' \in [Ring -> SUBSET Item] /\ didWork' \in [Ring -> BOOLEAN]
        /\ num' \in [Ring -> Nat]
    BY <1>4 DEF NextLoop, ringVars, TypeOK, RingTypeOK
  <2>2. bag' \in [Ring -> SUBSET Tasks] /\ aborted' \in [Ring -> SUBSET Item]
    BY <1>4 DEF NextLoop
  <2>3. /\ broke' \in BOOLEAN /\ pc' \in [Ring -> Labels]
        /\ pushed' \in SUBSET Tasks /\ committed' \in SUBSET Tasks
        /\ aborts' \in Nat /\ loop' \in Nat
    <3>1. pc' \in [Ring -> Labels]
      BY <1>4 DEF NextLoop, Labels
    <3>2. loop' \in Nat
      BY <1>4 DEF NextLoop, TypeOK
    <3>3. broke' = FALSE /\ pushed' = {} /\ committed' = {} /\ aborts' = 0
      BY <1>4 DEF NextLoop
    <3> QED BY <3>1, <3>2, <3>3
  <2> QED BY <2>1, <2>2, <2>3 DEF TypeOK, RingTypeOK, Item, Labels
<1> QED BY <1>1, <1>2, <1>3, <1>4 DEF Next

\* Every variable of the loop keeps its type.
THEOREM TypeCorrect == Spec => []TypeOK
PROOF
<1>1. TypeOK /\ [Next]_vars => TypeOK'
  <2>1. TypeOK /\ UNCHANGED vars => TypeOK'
    BY DEF TypeOK, RingTypeOK, vars, ringVars, loopVars
  <2> QED BY <2>1, TypeStep
<1> QED BY <1>1, InitType, PTL DEF Spec

-----------------------------------------------------------------------------
(* The steps of a thread that are neither the start of a loop nor          *)
(* localTermination, and what the ring sees of them.                       *)

Work(t) ==
    \/ Enter(t) \/ Leave(t) \/ Check(t)
    \/ Pop(t) \/ PopNothing(t) \/ Process(t) \/ FastPushBack(t) \/ BreakLoop(t)
    \/ Abort(t) \/ PopAborted(t) \/ NoneAborted(t) \/ ProcessAborted(t) \/ AbortAgain(t)

\* The ring is left alone, and so are the other threads.
Apart(t) ==
    /\ UNCHANGED ringVars
    /\ pc[t] \notin {"init", "initWork", "sendColour", "sendToken"}
    /\ pc'[t] \notin {"init", "initWork", "sendColour", "sendToken", "enter"}
    /\ \A u \in Ring \ {t} :
         /\ pc'[u] = pc[u]
         /\ didWork'[u] = didWork[u]
         /\ current'[u] = current[u]
         /\ bag'[u] \subseteq bag[u]

\* Only a thread that has work to report gives work to a queue, and it takes
\* work only where there is some.
Reports(t) ==
    /\ \A u \in Ring : didWork[t] \/ aborted'[u] \subseteq aborted[u]
    /\ didWork[t] => didWork'[t]
    /\ \/ didWork[t]
       \/ bag'[t] \subseteq bag[t] /\ current'[t] = {} /\ ~didWork'[t]
       \/ didWork'[t] /\ ((\E u \in Ring : bag[u] # {}) \/ aborted[t] # {})
    /\ pc'[t] = "localTermination" => didWork'[t] \/ aborted'[t] = {}
    /\ pc[t] \in {"check", "leave", "out"} /\ globalTerm => pc'[t] \in {"leave", "out"}

LEMMA WorkApart ==
    ASSUME TypeOK, NEW t \in Ring, Work(t)
    PROVE  Apart(t)
PROOF
<1> USE DEF TypeOK, Apart, Goto
<1>1. CASE Enter(t)
  BY <1>1 DEF Enter, loopVars
<1>2. CASE Leave(t)
  BY <1>2 DEF Leave, loopVars
<1>3. CASE Check(t)
  BY <1>3 DEF Check, loopVars
<1>4. CASE Pop(t)
  <2>1. PICK x \in Tasks : /\ \A u \in Ring \ {t} : bag'[u] \subseteq bag[u]
                           /\ current' = [current EXCEPT ![t] = {<<x, 0>>}]
                           /\ didWork' = [didWork EXCEPT ![t] = TRUE]
    BY <1>4, PopEffect
  <2> QED BY <1>4, <2>1 DEF Pop
<1>5. CASE PopNothing(t)
  BY <1>5 DEF PopNothing, WL!TakeNothing, QueueDone
<1>6. CASE Process(t)
  BY <1>6 DEF Process, CommitIteration, WL!PushRange, QueueDone
<1>7. CASE FastPushBack(t)
  BY <1>7 DEF FastPushBack, WL!PushRange
<1>8. CASE BreakLoop(t)
  BY <1>8 DEF BreakLoop
<1>9. CASE Abort(t)
  BY <1>9 DEF Abort, AbortIteration, QueueDone
<1>10. CASE PopAborted(t)
  BY <1>10 DEF PopAborted, Take
<1>11. CASE NoneAborted(t)
  BY <1>11 DEF NoneAborted, loopVars
<1>12. CASE ProcessAborted(t)
  BY <1>12 DEF ProcessAborted, CommitIteration, WL!PushRange
<1>13. CASE AbortAgain(t)
  BY <1>13 DEF AbortAgain, AbortIteration
<1> QED BY <1>1, <1>2, <1>3, <1>4, <1>5, <1>6, <1>7, <1>8, <1>9, <1>10, <1>11, <1>12,
           <1>13 DEF Work

LEMMA WorkReports ==
    ASSUME TypeOK, Locals, NEW t \in Ring, Work(t)
    PROVE  Reports(t)
PROOF
<1> USE DEF TypeOK, Locals, Reports, Goto
<1>1. CASE Enter(t)
  BY <1>1 DEF Enter, loopVars
<1>2. CASE Leave(t)
  BY <1>2 DEF Leave, loopVars
<1>3. CASE Check(t)
  BY <1>3 DEF Check, loopVars
<1>4. CASE Pop(t)
  <2>1. PICK x \in Tasks : /\ \E u \in Ring : x \in bag[u]
                           /\ didWork' = [didWork EXCEPT ![t] = TRUE]
    BY <1>4, PopEffect
  <2>2. aborted' = aborted /\ pc[t] = "pop" /\ pc'[t] = "process"
    BY <1>4 DEF Pop
  <2> QED BY <2>1, <2>2
<1>5. CASE PopNothing(t)
  BY <1>5 DEF PopNothing, WL!TakeNothing, QueueDone
<1>6. CASE Process(t)
  BY <1>6 DEF Process, CommitIteration, QueueDone
<1>7. CASE FastPushBack(t)
  BY <1>7 DEF FastPushBack
<1>8. CASE BreakLoop(t)
  BY <1>8 DEF BreakLoop
<1>9. CASE Abort(t)
  BY <1>9 DEF Abort, AbortIteration, QueueDone
<1>10. CASE PopAborted(t)
  BY <1>10 DEF PopAborted, Take
<1>11. CASE NoneAborted(t)
  BY <1>11 DEF NoneAborted, loopVars
<1>12. CASE ProcessAborted(t)
  BY <1>12 DEF ProcessAborted, CommitIteration
<1>13. CASE AbortAgain(t)
  BY <1>13 DEF AbortAgain, AbortIteration
<1> QED BY <1>1, <1>2, <1>3, <1>4, <1>5, <1>6, <1>7, <1>8, <1>9, <1>10, <1>11, <1>12,
           <1>13 DEF Work

LEMMA NextIsWorkOr ==
    ASSUME Next
    PROVE  \/ NextLoop
           \/ \E t \in Ring :
                \/ Work(t) \/ InitThread(t) \/ AddInitialWork(t)
                \/ LocalTermination(t) \/ PropTokenColour(t) \/ PropToken(t)
PROOF BY DEF Next, Step, Work

\* The control part of a work step: phases and locals.
LEMMA WorkPhases ==
    ASSUME TypeOK, Phases, NEW t \in Ring, Work(t)
    PROVE  Phases'
PROOF
<1> USE DEF TypeOK, Phases, BeforeLoop, Goto, QueueDone
<1>1. CASE Enter(t)
  BY <1>1 DEF Enter, loopVars, ringVars
<1>2. CASE Leave(t)
  BY <1>2 DEF Leave, loopVars, ringVars
<1>3. CASE Check(t)
  BY <1>3 DEF Check, loopVars, ringVars
<1>4. CASE Pop(t)
  BY <1>4 DEF Pop, ringVars
<1>5. CASE PopNothing(t)
  BY <1>5 DEF PopNothing, ringVars
<1>6. CASE Process(t)
  BY <1>6 DEF Process, CommitIteration, ringVars
<1>7. CASE FastPushBack(t)
  BY <1>7 DEF FastPushBack, ringVars
<1>8. CASE BreakLoop(t)
  BY <1>8 DEF BreakLoop, ringVars
<1>9. CASE Abort(t)
  BY <1>9 DEF Abort, AbortIteration, ringVars
<1>10. CASE PopAborted(t)
  BY <1>10 DEF PopAborted, ringVars
<1>11. CASE NoneAborted(t)
  BY <1>11 DEF NoneAborted, loopVars, ringVars
<1>12. CASE ProcessAborted(t)
  BY <1>12 DEF ProcessAborted, CommitIteration, ringVars
<1>13. CASE AbortAgain(t)
  BY <1>13 DEF AbortAgain, AbortIteration, ringVars
<1> QED BY <1>1, <1>2, <1>3, <1>4, <1>5, <1>6, <1>7, <1>8, <1>9, <1>10, <1>11, <1>12,
           <1>13 DEF Work

LEMMA WorkLocals ==
    ASSUME TypeOK, Locals, NEW t \in Ring, Work(t)
    PROVE  Locals'
PROOF
<1> USE DEF TypeOK, Locals, Goto, QueueDone
<1>1. CASE Enter(t)
  BY <1>1 DEF Enter, loopVars
<1>2. CASE Leave(t)
  BY <1>2 DEF Leave, loopVars
<1>3. CASE Check(t)
  BY <1>3 DEF Check, loopVars
<1>4. CASE Pop(t)
  <2>1. PICK x \in Tasks : /\ \A u \in Ring \ {t} : bag'[u] \subseteq bag[u]
                           /\ current' = [current EXCEPT ![t] = {<<x, 0>>}]
                           /\ didWork' = [didWork EXCEPT ![t] = TRUE]
    BY <1>4, PopEffect
  <2> QED BY <1>4, <2>1 DEF Pop
<1>5. CASE PopNothing(t)
  BY <1>5 DEF PopNothing, WL!TakeNothing
<1>6. CASE Process(t)
  BY <1>6 DEF Process, CommitIteration, WL!PushRange
<1>7. CASE FastPushBack(t)
  BY <1>7 DEF FastPushBack, WL!PushRange
<1>8. CASE BreakLoop(t)
  BY <1>8 DEF BreakLoop
<1>9. CASE Abort(t)
  BY <1>9 DEF Abort, AbortIteration
<1>10. CASE PopAborted(t)
  BY <1>10 DEF PopAborted, Take
<1>11. CASE NoneAborted(t)
  BY <1>11 DEF NoneAborted, loopVars
<1>12. CASE ProcessAborted(t)
  BY <1>12 DEF ProcessAborted, CommitIteration, WL!PushRange
<1>13. CASE AbortAgain(t)
  BY <1>13 DEF AbortAgain, AbortIteration
<1> QED BY <1>1, <1>2, <1>3, <1>4, <1>5, <1>6, <1>7, <1>8, <1>9, <1>10, <1>11, <1>12,
           <1>13 DEF Work

LEMMA PhasesStep ==
    ASSUME TypeOK, Phases, Next
    PROVE  Phases'
PROOF
<1> USE RingFacts DEF TypeOK, Phases, BeforeLoop, Goto
<1>1. ASSUME NEW t \in Ring, InitThread(t) PROVE Phases'
  BY <1>1 DEF InitThread, InitializeThread, loopVars
<1>2. ASSUME NEW t \in Ring, AddInitialWork(t) PROVE Phases'
  BY <1>2 DEF AddInitialWork, ringVars
<1>3. ASSUME NEW t \in Ring, LocalTermination(t) PROVE Phases'
  BY <1>3 DEF LocalTermination, NoToken, DetectTermination, PassToken, Recirculate, Forward
<1>4. ASSUME NEW t \in Ring, PropTokenColour(t) PROVE Phases'
  BY <1>4 DEF PropTokenColour, SendColour, loopVars
<1>5. ASSUME NEW t \in Ring, PropToken(t) PROVE Phases'
  BY <1>5 DEF PropToken, SendToken, loopVars
<1>6. CASE NextLoop
  BY <1>6 DEF NextLoop, ringVars
<1> QED BY <1>1, <1>2, <1>3, <1>4, <1>5, <1>6, WorkPhases, NextIsWorkOr

LEMMA LocalsStep ==
    ASSUME TypeOK, Locals, Next
    PROVE  Locals'
PROOF
<1> USE RingFacts DEF TypeOK, Locals, Goto
<1>1. ASSUME NEW t \in Ring, InitThread(t) PROVE Locals'
  BY <1>1 DEF InitThread, loopVars
<1>2. ASSUME NEW t \in Ring, AddInitialWork(t) PROVE Locals'
  BY <1>2 DEF AddInitialWork, WL!PushRange
<1>3. ASSUME NEW t \in Ring, LocalTermination(t) PROVE Locals'
  BY <1>3 DEF LocalTermination
<1>4. ASSUME NEW t \in Ring, PropTokenColour(t) PROVE Locals'
  BY <1>4 DEF PropTokenColour, loopVars
<1>5. ASSUME NEW t \in Ring, PropToken(t) PROVE Locals'
  BY <1>5 DEF PropToken, loopVars
<1>6. CASE NextLoop
  BY <1>6 DEF NextLoop
<1> QED BY <1>1, <1>2, <1>3, <1>4, <1>5, <1>6, WorkLocals, NextIsWorkOr

-----------------------------------------------------------------------------
(* The token: its place, its colour, and the threads it has visited.       *)

LEMMA FreshRingStep ==
    ASSUME TypeOK, Phases, FreshRing, Next
    PROVE  FreshRing'
PROOF
<1> USE RingFacts DEF TypeOK, RingTypeOK, FreshRing, FreshThread, BeforeLoop, Goto, ringVars
<1>1. ASSUME NEW t \in Ring, InitThread(t) PROVE FreshRing'
  <2>1. \A u \in Ring : BeforeLoop(u)
    BY <1>1 DEF InitThread, Phases
  <2>2. FreshThread(t)'
    BY <1>1 DEF InitThread, InitializeThread
  <2>3. ASSUME NEW u \in Ring \ {t}, FreshThread(u) PROVE FreshThread(u)'
    BY <1>1, <2>3 DEF InitThread, InitializeThread
  <2>4. \A u \in Ring \ {t} : pc'[u] = pc[u]
    BY <1>1 DEF InitThread
  <2> QED BY <2>1, <2>2, <2>3, <2>4
<1>2. ASSUME NEW t \in Ring, AddInitialWork(t) PROVE FreshRing'
  BY <1>2 DEF AddInitialWork
<1>3. ASSUME NEW t \in Ring, LocalTermination(t) PROVE FreshRing'
  BY <1>3 DEF LocalTermination
<1>4. ASSUME NEW t \in Ring, PropTokenColour(t) PROVE FreshRing'
  BY <1>4 DEF PropTokenColour
<1>5. ASSUME NEW t \in Ring, PropToken(t) PROVE FreshRing'
  BY <1>5 DEF PropToken
<1>6. CASE NextLoop
  BY <1>6 DEF NextLoop
<1>7. ASSUME NEW t \in Ring, Work(t) PROVE FreshRing'
  BY <1>7, WorkApart DEF Apart
<1> QED BY <1>1, <1>2, <1>3, <1>4, <1>5, <1>6, <1>7, NextIsWorkOr

\* The token is at thread t, or on its way from t.
TokenAt(t) ==
    /\ hasToken[t] # Sending(t)
    /\ \A u \in Ring \ {t} : ~hasToken[u] /\ ~Sending(u)

LEMMA TokenHeld ==
    ASSUME TypeOK, NEW t \in Ring, TokenAt(t), hasToken[t]
    PROVE  /\ TokenBlack <=> tokenIsBlack[t]
           /\ \A u \in Ring : Visited(u) <=> u # Master /\ (t = Master \/ u < t)
PROOF BY DEF TokenAt, TokenBlack, Visited, Sending, TypeOK, RingTypeOK

LEMMA TokenSent ==
    ASSUME TypeOK, NEW t \in Ring, TokenAt(t), ~hasToken[t]
    PROVE  /\ TokenBlack <=> taint[t]
           /\ \A u \in Ring : Visited(u) <=> u # Master /\ u <= t
PROOF BY DEF TokenAt, TokenBlack, Visited, Sending, TypeOK, RingTypeOK

LEMMA TokenPlaceStep ==
    ASSUME TypeOK, Phases, FreshRing, TokenPlace, Next
    PROVE  TokenPlace'
PROOF
<1> USE RingFacts DEF TypeOK, RingTypeOK, Goto, Sending, AllInitialized
<1>1. ASSUME NEW t \in Ring, InitThread(t) PROVE TokenPlace'
  <2> SUFFICES ASSUME AllInitialized' PROVE TokenAt(Master)'
    BY DEF TokenPlace, TokenAt
  <2>1. \A u \in Ring : BeforeLoop(u)
    BY <1>1 DEF InitThread, Phases
  <2>2. \A u \in Ring : u # t => FreshThread(u)
    BY <1>1, <2>1 DEF InitThread, FreshRing
  <2>3. \A u \in Ring : pc'[u] \in {"initWork", "enter"}
    BY <1>1, <2>1 DEF InitThread, BeforeLoop
  <2> QED BY <1>1, <2>2, <2>3 DEF InitThread, InitializeThread, FreshThread, TokenAt
<1>2. ASSUME NEW t \in Ring, AddInitialWork(t) PROVE TokenPlace'
  BY <1>2 DEF AddInitialWork, TokenPlace, ringVars
<1>3. ASSUME NEW t \in Ring, LocalTermination(t) PROVE TokenPlace'
  <2>1. CASE NoToken(t, didWork[t]) /\ Goto(t, "check")
    BY <1>3, <2>1 DEF NoToken, TokenPlace, LocalTermination
  <2>2. CASE t = Master /\ DetectTermination(didWork[t]) /\ Goto(t, "check")
    BY <1>3, <2>2 DEF DetectTermination, TokenPlace, LocalTermination
  <2>3. CASE PassToken(t, didWork[t]) /\ Goto(t, "sendColour")
    <3>1. hasToken[t] /\ hasToken' = [hasToken EXCEPT ![t] = FALSE]
      BY <2>3 DEF PassToken, Recirculate, Forward
    <3> QED BY <1>3, <2>3, <3>1 DEF TokenPlace, LocalTermination
  <2> QED BY <1>3, <2>1, <2>2, <2>3 DEF LocalTermination
<1>4. ASSUME NEW t \in Ring, PropTokenColour(t) PROVE TokenPlace'
  BY <1>4 DEF PropTokenColour, SendColour, TokenPlace
<1>5. ASSUME NEW t \in Ring, PropToken(t) PROVE TokenPlace'
  <2> SUFFICES ASSUME AllInitialized' PROVE TokenAt(Successor(t))'
    BY DEF TokenPlace, TokenAt
  <2>1. TokenAt(t) /\ ~hasToken[t]
    BY <1>5 DEF PropToken, TokenPlace, TokenAt
  <2> QED BY <1>5, <2>1 DEF PropToken, SendToken, TokenAt
<1>6. CASE NextLoop
  BY <1>6 DEF NextLoop, TokenPlace
<1>7. ASSUME NEW t \in Ring, Work(t) PROVE TokenPlace'
  BY <1>7, WorkApart DEF Apart, TokenPlace, ringVars
<1> QED BY <1>1, <1>2, <1>3, <1>4, <1>5, <1>6, <1>7, NextIsWorkOr

LEMMA ColourSentStep ==
    ASSUME TypeOK, Phases, TokenPlace, ColourSent, Next
    PROVE  ColourSent'
PROOF
<1> USE RingFacts DEF TypeOK, RingTypeOK, Goto, ColourSent
<1>1. ASSUME NEW t \in Ring, InitThread(t) PROVE ColourSent'
  BY <1>1 DEF InitThread, Phases, BeforeLoop
<1>2. ASSUME NEW t \in Ring, AddInitialWork(t) PROVE ColourSent'
  BY <1>2 DEF AddInitialWork, ringVars
<1>3. ASSUME NEW t \in Ring, LocalTermination(t) PROVE ColourSent'
  <2>1. AllInitialized
    BY <1>3 DEF LocalTermination, Phases, BeforeLoop, AllInitialized
  <2>2. NoToken(t, didWork[t]) \/ DetectTermination(didWork[t]) => ColourSent'
    BY <1>3 DEF LocalTermination, NoToken, DetectTermination
  <2>3. PassToken(t, didWork[t]) => ColourSent'
    <3> SUFFICES ASSUME PassToken(t, didWork[t]) PROVE ColourSent'
      OBVIOUS
    <3>1. hasToken[t]
      BY DEF PassToken, Recirculate, Forward
    <3>2. \A u \in Ring : pc'[u] # "sendToken"
      BY <1>3, <2>1, <3>1 DEF TokenPlace, Sending, LocalTermination
    <3> QED BY <3>2
  <2> QED BY <1>3, <2>2, <2>3 DEF LocalTermination
<1>4. ASSUME NEW t \in Ring, PropTokenColour(t) PROVE ColourSent'
  <2>1. AllInitialized
    BY <1>4 DEF PropTokenColour, Phases, BeforeLoop, AllInitialized
  <2>2. \A u \in Ring : pc'[u] = "sendToken" => u = t
    BY <1>4, <2>1 DEF PropTokenColour, TokenPlace, Sending
  <2> QED BY <1>4, <2>2 DEF PropTokenColour, SendColour
<1>5. ASSUME NEW t \in Ring, PropToken(t) PROVE ColourSent'
  <2>1. AllInitialized
    BY <1>5 DEF PropToken, Phases, BeforeLoop, AllInitialized
  <2>2. \A u \in Ring : pc'[u] # "sendToken"
    BY <1>5, <2>1 DEF PropToken, TokenPlace, Sending
  <2> QED BY <2>2
<1>6. CASE NextLoop
  BY <1>6 DEF NextLoop
<1>7. ASSUME NEW t \in Ring, Work(t) PROVE ColourSent'
  BY <1>7, WorkApart DEF Apart, ringVars
<1> QED BY <1>1, <1>2, <1>3, <1>4, <1>5, <1>6, <1>7, NextIsWorkOr

-----------------------------------------------------------------------------
(* The ring invariant and the steps outside localTermination.              *)

LEMMA RingInvWork ==
    ASSUME TypeOK, TypeOK', RingInv, NEW t \in Ring, Apart(t), Reports(t)
    PROVE  RingInv'
PROOF
<1> SUFFICES ASSUME AllInitialized'
             PROVE  (VisitedOwnNothing /\ UnvisitedReport /\ AbortsReported /\ VisitedQuiet
                       /\ AfterDetection)'
  BY DEF RingInv
<1>1. VisitedOwnNothing /\ UnvisitedReport /\ AbortsReported /\ VisitedQuiet /\ AfterDetection
  BY DEF RingInv, AllInitialized, Apart
<1>2. \A u \in Ring : Sending(u)' = Sending(u)
  BY DEF Apart, Sending, TypeOK
<1>3. TokenBlack' = TokenBlack /\ \A u \in Ring : Visited(u)' = Visited(u)
  BY <1>2 DEF TokenBlack, Visited, Apart, ringVars
<1>4. /\ \A u \in Ring : Dirty(u) => Dirty(u)'
      /\ \A u \in Ring \ {t} : Dirty(u)' => Dirty(u)
      /\ lastWasWhite' = lastWasWhite /\ globalTerm' = globalTerm /\ hasToken' = hasToken
  BY DEF Dirty, Apart, Reports, ringVars
<1>5. \A u \in Ring : bag'[u] \subseteq bag[u] \/ Dirty(u)'
  BY DEF Apart, Reports, Dirty
<1>6. VisitedOwnNothing'
  BY <1>1, <1>3, <1>4, <1>5 DEF VisitedOwnNothing
<1>7. UnvisitedReport'
  BY <1>1, <1>3, <1>4, <1>5 DEF UnvisitedReport
\* A thread with work to report is not quiet: if it is visited, the token
\* is not about to end a second white round.
<1>8. didWork[t] =>
        TokenBlack \/ ~lastWasWhite \/ \E v \in Ring : ~Visited(v) /\ Dirty(v)
  BY <1>1 DEF VisitedQuiet, Quiet, Dirty
<1>9. AbortsReported'
  <2> SUFFICES ASSUME NEW u \in Ring,
                      pc'[u] = "localTermination", ~Dirty(u)', aborted'[u] # {}
               PROVE  \/ TokenBlack
                      \/ ~Visited(u) /\ ~lastWasWhite
                      \/ \E v \in Ring : Dirty(v)' /\ (Visited(u) \/ ~Visited(v))
    BY <1>3, <1>4 DEF AbortsReported
  <2>1. u # t
    BY DEF Reports, Dirty
  <2>2. CASE didWork[t]
    <3>1. Dirty(t)'
      BY <2>2 DEF Reports, Dirty
    <3> QED BY <1>4, <1>8, <2>2, <3>1
  <2>3. CASE ~didWork[t]
    <3>1. pc[u] = "localTermination" /\ ~Dirty(u) /\ aborted[u] # {}
      BY <1>4, <2>1, <2>3 DEF Apart, Reports
    <3> QED BY <1>1, <1>4, <3>1 DEF AbortsReported
  <2> QED BY <2>2, <2>3
<1>10. VisitedQuiet'
  <2> SUFFICES ASSUME ~TokenBlack, lastWasWhite,
                      \A v \in Ring : ~Visited(v) => ~Dirty(v)',
                      NEW u \in Ring, Visited(u)
               PROVE  Quiet(u)'
    BY <1>3, <1>4 DEF VisitedQuiet
  <2>1. \A v \in Ring : ~Visited(v) => ~Dirty(v)
    BY <1>4
  <2>2. \A v \in Ring : Visited(v) => Quiet(v)
    BY <1>1, <2>1 DEF VisitedQuiet
  <2>3. \A v \in Ring : bag[v] = {}
    BY <1>1, <2>1, <2>2 DEF UnvisitedReport, Quiet
  <2>4. ~didWork[t]
    BY <2>1, <2>2 DEF Quiet, Dirty
  <2>5. CASE u = t
    BY <2>2, <2>3, <2>4, <2>5 DEF Reports, Quiet
  <2>6. CASE u # t
    BY <2>2, <2>4, <2>6 DEF Reports, Apart, Quiet
  <2> QED BY <2>5, <2>6
<1>11. AfterDetection'
  <2> SUFFICES ASSUME globalTerm PROVE AfterDetection'
    BY <1>4 DEF AfterDetection
  <2>1. /\ \A u \in Ring : Quiet(u)
        /\ hasToken[Master] /\ pc[Master] \in {"check", "leave", "out"}
    BY <1>1 DEF AfterDetection
  <2>2. \A u \in Ring : Quiet(u)'
    BY <2>1 DEF Quiet, Apart, Reports
  <2>3. pc'[Master] \in {"check", "leave", "out"}
    BY <2>1, RingFacts DEF Apart, Reports
  <2> QED BY <1>4, <2>1, <2>2, <2>3 DEF AfterDetection
<1> QED BY <1>6, <1>7, <1>9, <1>10, <1>11

-----------------------------------------------------------------------------
(* The ring invariant and localTermination.                                *)

\* What all calls of localTermination have in common.
LEMMA LocalTerminationFrame ==
    ASSUME TypeOK, Phases, Locals, TokenPlace, RingInv,
           NEW t \in Ring, LocalTermination(t)
    PROVE  /\ VisitedOwnNothing /\ UnvisitedReport /\ AbortsReported /\ VisitedQuiet
           /\ AfterDetection
           /\ \E u \in Ring : TokenAt(u)
           /\ UNCHANGED <<bag, aborted, current>>
           /\ didWork' = [didWork EXCEPT ![t] = FALSE]
           /\ current[t] = {} /\ (~didWork[t] => bag[t] = {})
           /\ pc[t] = "localTermination" /\ pc'[t] # "localTermination"
           /\ \A u \in Ring \ {t} : pc'[u] = pc[u]
PROOF
<1>1. AllInitialized
  BY DEF LocalTermination, Phases, BeforeLoop, AllInitialized
<1>2. \E u \in Ring : TokenAt(u)
  BY <1>1 DEF TokenPlace, TokenAt
<1>3. current[t] = {} /\ (~didWork[t] => bag[t] = {})
  BY DEF Locals, LocalTermination
<1>4. /\ pc[t] = "localTermination" /\ pc'[t] # "localTermination"
      /\ \A u \in Ring \ {t} : pc'[u] = pc[u]
  BY DEF LocalTermination, Goto, TypeOK
<1> QED BY <1>1, <1>2, <1>3, <1>4 DEF RingInv, LocalTermination

LEMMA RingInvNoToken ==
    ASSUME TypeOK, TypeOK', Phases, Locals, TokenPlace, RingInv, NEW t \in Ring,
           LocalTermination(t), NoToken(t, didWork[t]), Goto(t, "check")
    PROVE  RingInv'
PROOF
<1>1. /\ VisitedOwnNothing /\ UnvisitedReport /\ AbortsReported /\ VisitedQuiet
      /\ AfterDetection
      /\ UNCHANGED <<bag, aborted, current>>
      /\ didWork' = [didWork EXCEPT ![t] = FALSE]
      /\ pc'[t] # "localTermination" /\ pc[t] = "localTermination"
      /\ \A u \in Ring \ {t} : pc'[u] = pc[u]
  BY LocalTerminationFrame
<1>2. \A u \in Ring : Sending(u)' = Sending(u)
  BY <1>1 DEF Sending, Goto, TypeOK
<1>3. TokenBlack' = TokenBlack /\ \A u \in Ring : Visited(u)' = Visited(u)
  BY <1>2 DEF TokenBlack, Visited, NoToken
<1>4. /\ \A u \in Ring : Dirty(u)' = Dirty(u)
      /\ lastWasWhite' = lastWasWhite /\ globalTerm' = globalTerm /\ hasToken' = hasToken
  BY <1>1 DEF Dirty, NoToken, TypeOK, RingTypeOK
<1>5. \A u \in Ring : Quiet(u) => Quiet(u)'
  BY <1>1 DEF Quiet, TypeOK
<1>6. VisitedOwnNothing' /\ UnvisitedReport'
  BY <1>1, <1>3, <1>4 DEF VisitedOwnNothing, UnvisitedReport
<1>7. AbortsReported'
  BY <1>1, <1>3, <1>4 DEF AbortsReported
<1>8. VisitedQuiet'
  BY <1>1, <1>3, <1>4, <1>5 DEF VisitedQuiet
<1>9. AfterDetection'
  BY <1>1, <1>4, <1>5, RingFacts DEF AfterDetection
<1> QED BY <1>6, <1>7, <1>8, <1>9 DEF RingInv

LEMMA RingInvDetect ==
    ASSUME TypeOK, TypeOK', Phases, Locals, TokenPlace, RingInv,
           LocalTermination(Master), DetectTermination(didWork[Master]),
           Goto(Master, "check")
    PROVE  RingInv'
PROOF
<1>1. /\ VisitedOwnNothing /\ UnvisitedReport /\ AbortsReported /\ VisitedQuiet
      /\ UNCHANGED <<bag, aborted, current>>
      /\ didWork' = [didWork EXCEPT ![Master] = FALSE]
      /\ current[Master] = {} /\ (~didWork[Master] => bag[Master] = {})
      /\ pc[Master] = "localTermination"
      /\ \A u \in Ring \ {Master} : pc'[u] = pc[u]
  BY LocalTerminationFrame, RingFacts
<1>2. TokenAt(Master)
  BY LocalTerminationFrame, RingFacts DEF TokenAt, DetectTermination
<1>3. /\ ~TokenBlack /\ lastWasWhite /\ ~Dirty(Master)
      /\ \A u \in Ring : Visited(u) <=> u # Master
  BY <1>2, TokenHeld, RingFacts DEF DetectTermination, White, Dirty
<1>4. \A u \in Ring : u # Master => Quiet(u)
  BY <1>1, <1>3 DEF VisitedQuiet
<1>5. Quiet(Master)
  <2>1. aborted[Master] = {}
    BY <1>1, <1>3, RingFacts DEF AbortsReported
  <2> QED BY <1>1, <1>3, <2>1 DEF Quiet, Dirty
<1>6. \A u \in Ring : Quiet(u)'
  BY <1>1, <1>4, <1>5 DEF Quiet, TypeOK
<1>7. hasToken'[Master] /\ pc'[Master] = "check"
  BY RingFacts DEF DetectTermination, Goto, TypeOK
<1>8. AfterDetection'
  BY <1>6, <1>7 DEF AfterDetection
<1>9. VisitedOwnNothing' /\ UnvisitedReport' /\ AbortsReported' /\ VisitedQuiet'
  BY <1>6 DEF Quiet, VisitedOwnNothing, UnvisitedReport, AbortsReported, VisitedQuiet
<1> QED BY <1>8, <1>9 DEF RingInv

LEMMA RingInvRecirculate ==
    ASSUME TypeOK, TypeOK', Phases, Locals, TokenPlace, TokenPlace', RingInv,
           LocalTermination(Master), Recirculate(didWork[Master]),
           Goto(Master, "sendColour")
    PROVE  RingInv'
PROOF
<1>1. /\ VisitedOwnNothing /\ UnvisitedReport /\ AbortsReported /\ VisitedQuiet
      /\ AfterDetection
      /\ UNCHANGED <<bag, aborted, current>>
      /\ didWork' = [didWork EXCEPT ![Master] = FALSE]
      /\ current[Master] = {} /\ (~didWork[Master] => bag[Master] = {})
      /\ pc[Master] = "localTermination" /\ pc'[Master] # "localTermination"
      /\ \A u \in Ring \ {Master} : pc'[u] = pc[u]
  BY LocalTerminationFrame, RingFacts
<1>2. TokenAt(Master)
  BY LocalTerminationFrame, RingFacts DEF TokenAt, Recirculate
<1>3. /\ TokenBlack <=> tokenIsBlack[Master]
      /\ \A u \in Ring : Visited(u) <=> u # Master
  BY <1>2, TokenHeld, RingFacts DEF Recirculate
<1>4. TokenAt(Master)' /\ ~hasToken'[Master] /\ Sending(Master)'
  <2>1. pc'[Master] = "sendColour"
    BY RingFacts DEF Goto, TypeOK
  <2>2. ~hasToken'[Master] /\ \A u \in Ring \ {Master} : hasToken'[u] = hasToken[u]
    BY RingFacts DEF Recirculate, TypeOK, RingTypeOK
  <2>3. Sending(Master)' /\ \A u \in Ring \ {Master} : Sending(u)' = Sending(u)
    BY <1>1, <2>1 DEF Sending
  <2>4. \A u \in Ring \ {Master} : ~hasToken'[u] /\ ~Sending(u)'
    BY <1>2, <2>2, <2>3 DEF TokenAt
  <2> QED BY <2>2, <2>3, <2>4 DEF TokenAt
<1>5. ~TokenBlack' /\ \A u \in Ring : ~Visited(u)'
  <2>1. TokenBlack' <=> taint'[Master]
    BY <1>4, RingFacts DEF TokenBlack, TokenAt
  <2>2. \A u \in Ring : ~Visited(u)'
    BY <1>4, RingFacts DEF Visited, TokenAt, Master
  <2> QED BY <2>1, <2>2, RingFacts DEF Recirculate, TypeOK, RingTypeOK
<1>6. \A u \in Ring \ {Master} : Dirty(u)' = Dirty(u)
  BY <1>1 DEF Dirty, Recirculate, TypeOK, RingTypeOK
\* The round was white: nothing is left that nobody is going to report.
<1>7. lastWasWhite' => ~TokenBlack /\ ~Dirty(Master)
  BY <1>3 DEF Recirculate, White, Dirty
<1>8. VisitedOwnNothing'
  BY <1>5 DEF VisitedOwnNothing
<1>9. UnvisitedReport'
  <2> SUFFICES ASSUME lastWasWhite', NEW u \in Ring, ~Dirty(u)' PROVE bag[u] = {}
    BY <1>1 DEF UnvisitedReport
  <2>1. CASE u = Master
    BY <1>1, <1>7, <2>1 DEF Dirty
  <2>2. CASE u # Master
    BY <1>1, <1>3, <1>6, <1>7, <2>2 DEF VisitedOwnNothing
  <2> QED BY <2>1, <2>2
<1>10. AbortsReported'
  <2> SUFFICES ASSUME lastWasWhite', NEW u \in Ring, pc'[u] = "localTermination",
                      ~Dirty(u)', aborted[u] # {}
               PROVE  \E v \in Ring : Dirty(v)'
    BY <1>1, <1>5 DEF AbortsReported
  <2>1. u # Master
    BY <1>1
  <2>2. PICK v \in Ring : Dirty(v)
    BY <1>1, <1>3, <1>6, <1>7, <2>1 DEF AbortsReported
  <2> QED BY <1>6, <1>7, <2>2
<1>11. VisitedQuiet'
  BY <1>5 DEF VisitedQuiet
<1>12. AfterDetection'
  BY <1>1 DEF AfterDetection, Recirculate
<1> QED BY <1>8, <1>9, <1>10, <1>11, <1>12 DEF RingInv

LEMMA RingInvForward ==
    ASSUME TypeOK, TypeOK', Phases, Locals, TokenPlace, TokenPlace', RingInv,
           NEW t \in Ring, LocalTermination(t), Forward(t, didWork[t]),
           Goto(t, "sendColour")
    PROVE  RingInv'
PROOF
<1>1. /\ VisitedOwnNothing /\ UnvisitedReport /\ AbortsReported /\ VisitedQuiet
      /\ AfterDetection
      /\ UNCHANGED <<bag, aborted, current>>
      /\ didWork' = [didWork EXCEPT ![t] = FALSE]
      /\ current[t] = {} /\ (~didWork[t] => bag[t] = {})
      /\ pc[t] = "localTermination" /\ pc'[t] # "localTermination"
      /\ \A u \in Ring \ {t} : pc'[u] = pc[u]
  BY LocalTerminationFrame
<1>2. TokenAt(t) /\ hasToken[t] /\ t # Master
  BY LocalTerminationFrame DEF TokenAt, Forward
<1>3. /\ TokenBlack <=> tokenIsBlack[t]
      /\ \A u \in Ring : Visited(u) <=> u # Master /\ u < t
  BY <1>2, TokenHeld
<1>4. TokenAt(t)' /\ ~hasToken'[t] /\ Sending(t)'
  <2>1. pc'[t] = "sendColour"
    BY DEF Goto, TypeOK
  <2>2. ~hasToken'[t] /\ \A u \in Ring \ {t} : hasToken'[u] = hasToken[u]
    BY DEF Forward, TypeOK, RingTypeOK
  <2>3. Sending(t)' /\ \A u \in Ring \ {t} : Sending(u)' = Sending(u)
    BY <1>1, <2>1 DEF Sending
  <2>4. \A u \in Ring \ {t} : ~hasToken'[u] /\ ~Sending(u)'
    BY <1>2, <2>2, <2>3 DEF TokenAt
  <2> QED BY <2>2, <2>3, <2>4 DEF TokenAt
<1>5. /\ TokenBlack' <=> TokenBlack \/ Dirty(t)
      /\ \A u \in Ring : Visited(u)' <=> Visited(u) \/ u = t
  <2>1. TokenBlack' <=> taint'[t]
    BY <1>4 DEF TokenBlack, TokenAt
  <2>2. taint'[t] <=> TokenBlack \/ Dirty(t)
    BY <1>3 DEF Forward, White, Dirty, TypeOK, RingTypeOK
  <2>3. \A u \in Ring : Visited(u)' <=> u # Master /\ u <= t
    BY <1>4 DEF Visited, TokenAt
  <2> QED BY <1>2, <1>3, <2>1, <2>2, <2>3, RingFacts
<1>6. \A u \in Ring \ {t} : Dirty(u)' = Dirty(u)
  BY <1>1 DEF Dirty, Forward, TypeOK, RingTypeOK
<1>7. VisitedOwnNothing'
  BY <1>1, <1>5, <1>6 DEF VisitedOwnNothing, Dirty
<1>8. UnvisitedReport'
  BY <1>1, <1>5, <1>6 DEF UnvisitedReport, Forward
<1>9. AbortsReported'
  <2> SUFFICES ASSUME NEW u \in Ring, pc'[u] = "localTermination", ~Dirty(u)',
                      aborted[u] # {}, ~TokenBlack'
               PROVE  \/ ~Visited(u)' /\ ~lastWasWhite
                      \/ \E v \in Ring : Dirty(v)' /\ (Visited(u)' \/ ~Visited(v)')
    BY <1>1 DEF AbortsReported, Forward
  <2>1. u # t /\ ~Dirty(t) /\ ~TokenBlack
    BY <1>1, <1>5
  <2> QED BY <1>1, <1>5, <1>6, <2>1 DEF AbortsReported
<1>10. VisitedQuiet'
  <2> SUFFICES ASSUME ~TokenBlack', lastWasWhite,
                      \A v \in Ring : ~Visited(v)' => ~Dirty(v)',
                      NEW u \in Ring, Visited(u)'
               PROVE  Quiet(u)'
    BY DEF VisitedQuiet, Forward
  <2>1. ~TokenBlack /\ ~Dirty(t) /\ \A v \in Ring : ~Visited(v) => ~Dirty(v)
    BY <1>5, <1>6
  <2>2. CASE u = t
    <3>1. aborted[t] = {}
      BY <1>1, <1>3, <2>1, RingFacts DEF AbortsReported
    <3> QED BY <1>1, <2>1, <2>2, <3>1 DEF Quiet, Dirty, TypeOK
  <2>3. CASE u # t
    <3>1. Quiet(u)
      BY <1>1, <1>5, <2>1, <2>3 DEF VisitedQuiet
    <3> QED BY <1>1, <2>3, <3>1 DEF Quiet, TypeOK
  <2> QED BY <2>2, <2>3
<1>11. AfterDetection'
  BY <1>1, <1>2, RingFacts DEF AfterDetection, Forward, TokenAt
<1> QED BY <1>7, <1>8, <1>9, <1>10, <1>11 DEF RingInv

-----------------------------------------------------------------------------
(* The ring invariant and the two writes of propToken.                     *)

LEMMA RingInvColour ==
    ASSUME TypeOK, TypeOK', Phases, TokenPlace, RingInv, NEW t \in Ring, PropTokenColour(t)
    PROVE  RingInv'
PROOF
<1>1. AllInitialized
  BY DEF PropTokenColour, Phases, BeforeLoop, AllInitialized
<1>2. /\ VisitedOwnNothing /\ UnvisitedReport /\ AbortsReported /\ VisitedQuiet
      /\ AfterDetection
  BY <1>1 DEF RingInv
<1>3. TokenAt(t) /\ ~hasToken[t]
  <2>1. Sending(t)
    BY DEF PropTokenColour, Sending
  <2>2. PICK u \in Ring : TokenAt(u)
    BY <1>1 DEF TokenPlace, TokenAt
  <2>3. u = t
    BY <2>1, <2>2 DEF TokenAt
  <2> QED BY <2>1, <2>2, <2>3 DEF TokenAt, Sending, TypeOK, RingTypeOK
<1>4. \A u \in Ring : Sending(u)' = Sending(u)
  BY DEF PropTokenColour, Sending, Goto, TypeOK
<1>5. TokenBlack' = TokenBlack /\ \A u \in Ring : Visited(u)' = Visited(u)
  BY <1>3, <1>4 DEF TokenBlack, Visited, PropTokenColour, SendColour, TokenAt
<1>6. /\ UNCHANGED <<bag, aborted, current, didWork, lastWasWhite, globalTerm, hasToken>>
      /\ processIsBlack' = processIsBlack
      /\ \A u \in Ring : pc'[u] = "localTermination" => pc[u] = "localTermination"
  BY DEF PropTokenColour, SendColour, loopVars, Goto, TypeOK
<1>7. \A u \in Ring : Dirty(u)' = Dirty(u) /\ Quiet(u)' = Quiet(u)
  BY <1>6 DEF Dirty, Quiet
<1>8. ~globalTerm
  BY <1>2, <1>3, RingFacts DEF AfterDetection, TokenAt
<1> QED BY <1>2, <1>5, <1>6, <1>7, <1>8 DEF RingInv, VisitedOwnNothing, UnvisitedReport,
                                     AbortsReported, VisitedQuiet, AfterDetection

LEMMA RingInvToken ==
    ASSUME TypeOK, TypeOK', Phases, TokenPlace, TokenPlace', ColourSent, RingInv,
           NEW t \in Ring, PropToken(t)
    PROVE  RingInv'
PROOF
<1>1. AllInitialized
  BY DEF PropToken, Phases, BeforeLoop, AllInitialized
<1>2. /\ VisitedOwnNothing /\ UnvisitedReport /\ AbortsReported /\ VisitedQuiet
      /\ AfterDetection
  BY <1>1 DEF RingInv
<1>3. TokenAt(t) /\ ~hasToken[t]
  <2>1. Sending(t)
    BY DEF PropToken, Sending
  <2>2. PICK u \in Ring : TokenAt(u)
    BY <1>1 DEF TokenPlace, TokenAt
  <2>3. u = t
    BY <2>1, <2>2 DEF TokenAt
  <2> QED BY <2>1, <2>2, <2>3 DEF TokenAt, Sending, TypeOK, RingTypeOK
<1>4. TokenAt(Successor(t))' /\ hasToken'[Successor(t)]
  BY <1>3, RingFacts DEF PropToken, SendToken, TokenAt, Sending, Goto, TypeOK, RingTypeOK
<1>5. TokenBlack' <=> TokenBlack
  <2>1. TokenBlack <=> taint[t]
    BY <1>3, TokenSent
  <2>2. TokenBlack' <=> tokenIsBlack'[Successor(t)]
    BY <1>4, RingFacts DEF TokenBlack, TokenAt
  <2> QED BY <2>1, <2>2 DEF PropToken, SendToken, ColourSent
<1>6. \A u \in Ring : Visited(u)' <=> Visited(u)
  <2>1. \A u \in Ring : Visited(u) <=> u # Master /\ u <= t
    BY <1>3, TokenSent
  <2>2. \A u \in Ring : Visited(u)' <=> u # Master /\ (Successor(t) = Master \/ u < Successor(t))
    BY <1>4, RingFacts DEF Visited, TokenAt
  <2>3. \/ t = N - 1 /\ Successor(t) = Master
        \/ t < N - 1 /\ Successor(t) = t + 1
    BY NAssumption DEF Ring, Successor, Master
  <2> QED BY <2>1, <2>2, <2>3, NAssumption DEF Ring, Master
<1>7. /\ UNCHANGED <<bag, aborted, current, didWork, lastWasWhite, globalTerm>>
      /\ processIsBlack' = processIsBlack
      /\ \A u \in Ring : pc'[u] = "localTermination" => pc[u] = "localTermination"
  BY DEF PropToken, SendToken, loopVars, Goto, TypeOK
<1>8. \A u \in Ring : Dirty(u)' = Dirty(u) /\ Quiet(u)' = Quiet(u)
  BY <1>7 DEF Dirty, Quiet
<1>9. ~globalTerm
  BY <1>2, <1>3, RingFacts DEF AfterDetection, TokenAt
<1> QED BY <1>2, <1>5, <1>6, <1>7, <1>8, <1>9 DEF RingInv, VisitedOwnNothing,
                 UnvisitedReport, AbortsReported, VisitedQuiet, AfterDetection

\* While the ring is fresh everybody is black and nothing has been detected.
LEMMA RingInvFresh ==
    ASSUME FreshRing', (\A t \in Ring : BeforeLoop(t))'
    PROVE  RingInv'
PROOF
<1> SUFFICES ASSUME AllInitialized'
             PROVE  (VisitedOwnNothing /\ UnvisitedReport /\ AbortsReported
                       /\ VisitedQuiet /\ AfterDetection)'
  BY DEF RingInv
<1>1. \A u \in Ring : processIsBlack'[u]
  BY DEF FreshRing, FreshThread, AllInitialized
<1>2. ~Visited(Master)' /\ ~globalTerm'
  BY RingFacts DEF FreshRing, FreshThread, AllInitialized, Visited
<1> QED BY <1>1, <1>2, RingFacts DEF VisitedOwnNothing, UnvisitedReport,
                 AbortsReported, VisitedQuiet, AfterDetection, Dirty

LEMMA RingInvStep ==
    ASSUME TypeOK, Phases, Locals, FreshRing, TokenPlace, ColourSent, RingInv, Next
    PROVE  RingInv'
PROOF
<1>0. TypeOK' /\ Phases' /\ FreshRing' /\ TokenPlace'
  BY TypeStep, PhasesStep, FreshRingStep, TokenPlaceStep
<1>1. ASSUME NEW t \in Ring, InitThread(t) PROVE RingInv'
  <2>1. (\A u \in Ring : BeforeLoop(u))'
    BY <1>1 DEF InitThread, Phases, BeforeLoop, Goto, TypeOK
  <2> QED BY <1>0, <2>1, RingInvFresh
<1>2. ASSUME NEW t \in Ring, AddInitialWork(t) PROVE RingInv'
  <2>1. (\A u \in Ring : BeforeLoop(u))'
    BY <1>2 DEF AddInitialWork, Phases, BeforeLoop, Goto, TypeOK
  <2> QED BY <1>0, <2>1, RingInvFresh
<1>3. ASSUME NEW t \in Ring, LocalTermination(t) PROVE RingInv'
  <2>1. CASE NoToken(t, didWork[t]) /\ Goto(t, "check")
    BY <1>0, <1>3, <2>1, RingInvNoToken
  <2>2. CASE t = Master /\ DetectTermination(didWork[t]) /\ Goto(t, "check")
    BY <1>0, <1>3, <2>2, RingInvDetect
  <2>3. CASE PassToken(t, didWork[t]) /\ Goto(t, "sendColour")
    BY <1>0, <1>3, <2>3, RingInvRecirculate, RingInvForward DEF PassToken
  <2> QED BY <1>3, <2>1, <2>2, <2>3 DEF LocalTermination
<1>4. ASSUME NEW t \in Ring, PropTokenColour(t) PROVE RingInv'
  BY <1>0, <1>4, RingInvColour
<1>5. ASSUME NEW t \in Ring, PropToken(t) PROVE RingInv'
  BY <1>0, <1>5, RingInvToken
<1>6. CASE NextLoop
  BY <1>6, RingFacts DEF NextLoop, RingInv, AllInitialized
<1>7. ASSUME NEW t \in Ring, Work(t) PROVE RingInv'
  BY <1>0, <1>7, WorkApart, WorkReports, RingInvWork
<1> QED BY <1>1, <1>2, <1>3, <1>4, <1>5, <1>6, <1>7, NextIsWorkOr

-----------------------------------------------------------------------------
(* No item is lost or made up.                                             *)

\* Some thread owns x, has it among its aborted items or is processing it.
Held(x) ==
    \E t \in Ring : \/ x \in bag[t]
                    \/ \E item \in aborted[t] : item[1] = x
                    \/ \E item \in current[t] : item[1] = x

Kept(x) == x \in pushed <=> x \in committed \/ Held(x)

LEMMA KeptPointwise ==
    ASSUME pushed \in SUBSET Tasks, committed \in SUBSET Tasks
    PROVE  ItemsKept <=> \A x \in Tasks : Kept(x)
PROOF
<1>1. \A x \in Tasks : x \in Outstanding <=> Held(x)
  BY DEF Outstanding, Held
<1>2. Outstanding \subseteq Tasks
  BY DEF Outstanding
<1> QED BY <1>1, <1>2 DEF ItemsKept, Kept

LEMMA KeptPush ==
    ASSUME TypeOK, NEW t \in Ring, NEW range \in SUBSET Tasks, WL!PushRange(t, range),
           pushed' = pushed \cup range, UNCHANGED <<aborted, current, committed>>,
           NEW x \in Tasks, Kept(x)
    PROVE  Kept(x)'
PROOF
<1>1. Held(x)' <=> Held(x) \/ x \in range
  BY DEF TypeOK, WL!PushRange, Held
<1> QED BY <1>1 DEF Kept

LEMMA KeptPop ==
    ASSUME TypeOK, Locals, NEW t \in Ring, Pop(t), NEW x \in Tasks, Kept(x)
    PROVE  Kept(x)'
PROOF
<1>1. PICK y \in Tasks :
        /\ \A z : (\E u \in Ring : z \in bag[u]) <=> (z = y \/ \E u \in Ring : z \in bag'[u])
        /\ current' = [current EXCEPT ![t] = {<<y, 0>>}]
  BY PopEffect
<1>2. current[t] = {} /\ UNCHANGED <<aborted, pushed, committed>>
  BY DEF Pop, Locals
<1>3. /\ \A u \in Ring \ {t} : current'[u] = current[u]
      /\ current'[t] = {<<y, 0>>} /\ <<y, 0>>[1] = y
  BY <1>1 DEF TypeOK
<1>4. (\E u \in Ring : \E item \in current'[u] : item[1] = x)
        <=> x = y \/ \E u \in Ring : \E item \in current[u] : item[1] = x
  BY <1>2, <1>3
<1>5. Held(x)' <=> Held(x)
  BY <1>1, <1>2, <1>4 DEF Held
<1> QED BY <1>2, <1>5 DEF Kept

LEMMA KeptCommit ==
    ASSUME TypeOK, NEW t \in Ring, CommitIteration(t), NEW x \in Tasks, Kept(x)
    PROVE  Kept(x)'
PROOF
<1>1. PICK range \in SUBSET (Tasks \ pushed) :
        WL!PushRange(t, range) /\ pushed' = pushed \cup range
  BY DEF CommitIteration
<1>2. /\ committed' = committed \cup {item[1] : item \in current[t]}
      /\ current' = [current EXCEPT ![t] = {}] /\ aborted' = aborted
  BY DEF CommitIteration
<1>3. (\E u \in Ring : x \in bag'[u]) <=> x \in range \/ \E u \in Ring : x \in bag[u]
  BY <1>1 DEF WL!PushRange, TypeOK
<1>4. (\E u \in Ring : \E item \in current[u] : item[1] = x)
        <=> \/ \E item \in current[t] : item[1] = x
            \/ \E u \in Ring : \E item \in current'[u] : item[1] = x
  BY <1>2 DEF TypeOK
<1>5. x \in committed' <=> x \in committed \/ \E item \in current[t] : item[1] = x
  BY <1>2
<1> QED BY <1>1, <1>2, <1>3, <1>4, <1>5 DEF Kept, Held

LEMMA KeptAbort ==
    ASSUME TypeOK, NEW t \in Ring, NEW u \in Ring, NEW retries \in Nat,
           AbortIteration(t, u, retries), NEW x \in Tasks, Kept(x)
    PROVE  Kept(x)'
PROOF
<1> DEFINE Again == {<<item[1], retries>> : item \in current[t]}
<1>1. aborted' = [aborted EXCEPT ![u] = @ \cup Again]
  BY DEF AbortIteration
<1>2. current' = [current EXCEPT ![t] = {}] /\ UNCHANGED <<bag, pushed, committed>>
  BY DEF AbortIteration
<1>3. (\E item \in Again : item[1] = x) <=> \E item \in current[t] : item[1] = x
  <2>1. ASSUME NEW item \in current[t], item[1] = x PROVE \E i \in Again : i[1] = x
    <3>1. <<item[1], retries>> \in Again /\ <<item[1], retries>>[1] = x
      BY <2>1
    <3> QED BY <3>1
  <2>2. ASSUME NEW i \in Again, i[1] = x PROVE \E item \in current[t] : item[1] = x
    <3>1. PICK item \in current[t] : i = <<item[1], retries>>
      OBVIOUS
    <3>2. i[1] = item[1]
      BY <3>1
    <3> QED BY <2>2, <3>2
  <2> QED BY <2>1, <2>2
<1>4. (\E v \in Ring : \E item \in aborted'[v] : item[1] = x)
        <=> \/ \E item \in Again : item[1] = x
            \/ \E v \in Ring : \E item \in aborted[v] : item[1] = x
  <2> HIDE DEF Again
  <2> QED BY <1>1 DEF TypeOK
<1>5. (\E v \in Ring : \E item \in current[v] : item[1] = x)
        <=> \/ \E item \in current[t] : item[1] = x
            \/ \E v \in Ring : \E item \in current'[v] : item[1] = x
  BY <1>2 DEF TypeOK
<1> HIDE DEF Again
<1> QED BY <1>2, <1>3, <1>4, <1>5 DEF Kept, Held

LEMMA KeptPopAborted ==
    ASSUME TypeOK, Locals, NEW t \in Ring, PopAborted(t), NEW x \in Tasks, Kept(x)
    PROVE  Kept(x)'
PROOF
<1>1. PICK i \in aborted[t] : Take(t, i) /\ aborted' = [aborted EXCEPT ![t] = @ \ {i}]
  BY DEF PopAborted
<1>2. current[t] = {} /\ UNCHANGED <<bag, pushed, committed>>
  BY DEF PopAborted, Locals
<1>3. (\E u \in Ring : \E item \in aborted[u] : item[1] = x)
        <=> \/ i[1] = x
            \/ \E u \in Ring : \E item \in aborted'[u] : item[1] = x
  BY <1>1 DEF TypeOK
<1>4. (\E u \in Ring : \E item \in current'[u] : item[1] = x)
        <=> \/ i[1] = x
            \/ \E u \in Ring : \E item \in current[u] : item[1] = x
  BY <1>1, <1>2 DEF Take, TypeOK
<1> QED BY <1>2, <1>3, <1>4 DEF Kept, Held

LEMMA ItemsKeptStep ==
    ASSUME TypeOK, Locals, ItemsKept, Next
    PROVE  ItemsKept'
PROOF
<1>1. TypeOK'
  BY TypeStep
<1>2. \A x \in Tasks : Kept(x)
  BY KeptPointwise DEF TypeOK
<1>3. (\A x \in Tasks : Kept(x)') => ItemsKept'
  <2>1. pushed' \in SUBSET Tasks /\ committed' \in SUBSET Tasks
    BY <1>1 DEF TypeOK
  <2>2. ASSUME pushed' \in SUBSET Tasks, committed' \in SUBSET Tasks
        PROVE  ItemsKept' <=> \A x \in Tasks : Kept(x)'
    <3>1. \A x \in Tasks : x \in Outstanding' <=> Held(x)'
      BY DEF Outstanding, Held
    <3>2. Outstanding' \subseteq Tasks
      BY DEF Outstanding
    <3> QED BY <2>2, <3>1, <3>2 DEF ItemsKept, Kept
  <2> QED BY <2>1, <2>2
<1> SUFFICES ASSUME NEW x \in Tasks PROVE Kept(x)'
  BY <1>3
<1>4. Kept(x)
  BY <1>2
<1>5. ASSUME UNCHANGED <<bag, aborted, current, pushed, committed>> PROVE Kept(x)'
  BY <1>4, <1>5 DEF Kept, Held
<1>6. CASE NextLoop
  <2>1. \A t \in Ring : current'[t] = {} /\ bag'[t] = {} /\ aborted'[t] = {}
    BY <1>6 DEF NextLoop, Locals
  <2> QED BY <1>6, <2>1 DEF NextLoop, Kept, Held
<1>7. ASSUME NEW t \in Ring, AddInitialWork(t) \/ FastPushBack(t) PROVE Kept(x)'
  <2>1. \E range \in SUBSET Tasks : WL!PushRange(t, range) /\ pushed' = pushed \cup range
    BY <1>7 DEF AddInitialWork, FastPushBack
  <2>2. UNCHANGED <<aborted, current, committed>>
    BY <1>7 DEF AddInitialWork, FastPushBack
  <2> QED BY <1>4, <2>1, <2>2, KeptPush
<1>8. ASSUME NEW t \in Ring, Process(t) \/ ProcessAborted(t) PROVE Kept(x)'
  BY <1>4, <1>8, KeptCommit DEF Process, ProcessAborted
<1>9. ASSUME NEW t \in Ring, Abort(t) PROVE Kept(x)'
  BY <1>4, <1>9, KeptAbort DEF Abort
<1>10. ASSUME NEW t \in Ring, AbortAgain(t) PROVE Kept(x)'
  <2>1. PICK item \in current[t] :
          AbortIteration(t, QueueFor(t, item[2] + 1), item[2] + 1)
    BY <1>10 DEF AbortAgain
  <2>2. item[2] + 1 \in Nat
    BY DEF TypeOK, Item
  <2> QED BY <1>4, <2>1, <2>2, QueueInRing, KeptAbort
<1>11. ASSUME NEW t \in Ring,
              \/ InitThread(t) \/ Enter(t) \/ Leave(t) \/ PopNothing(t) \/ BreakLoop(t)
              \/ NoneAborted(t) \/ LocalTermination(t) \/ PropTokenColour(t)
              \/ PropToken(t) \/ Check(t)
       PROVE  Kept(x)'
  BY <1>5, <1>11 DEF InitThread, Enter, Leave, PopNothing, BreakLoop, NoneAborted,
       LocalTermination, PropTokenColour, PropToken, Check, loopVars, WL!TakeNothing
<1> QED BY <1>4, <1>6, <1>7, <1>8, <1>9, <1>10, <1>11, KeptPop, KeptPopAborted DEF Next, Step

-----------------------------------------------------------------------------
(* The invariant and the theorems.                                         *)

LEMMA InvariantInit == Init => IInv
PROOF
<1> SUFFICES ASSUME Init PROVE IInv
  OBVIOUS
<1>1. TypeOK
  BY InitType
<1>2. Phases /\ Locals
  BY DEF Init, Phases, Locals, BeforeLoop
<1>3. FreshRing /\ TokenPlace /\ ColourSent /\ RingInv
  BY RingFacts DEF Init, FreshRing, TokenPlace, ColourSent, RingInv, AllInitialized
<1>4. ItemsKept
  BY DEF Init, ItemsKept, Outstanding
<1> QED BY <1>1, <1>2, <1>3, <1>4 DEF IInv

LEMMA InvariantStep == IInv /\ [Next]_vars => IInv'
PROOF
<1>1. ASSUME IInv, Next PROVE IInv'
  BY <1>1, TypeStep, PhasesStep, LocalsStep, FreshRingStep, TokenPlaceStep, ColourSentStep,
     RingInvStep, ItemsKeptStep DEF IInv
<1>2. ASSUME IInv, UNCHANGED vars PROVE IInv'
  <2> USE <1>2 DEF vars, ringVars, loopVars
  <2>1. TypeOK'
    BY DEF IInv, TypeOK, RingTypeOK
  <2>2. Phases' /\ Locals' /\ FreshRing' /\ TokenPlace' /\ ColourSent'
    BY DEF IInv, Phases, BeforeLoop, Locals, FreshRing, FreshThread, TokenPlace,
           AllInitialized, Sending, ColourSent
  <2>3. RingInv'
    BY DEF IInv, RingInv, AllInitialized, VisitedOwnNothing, UnvisitedReport,
           AbortsReported, VisitedQuiet, AfterDetection, TokenBlack, Visited, Dirty,
           Quiet, Sending
  <2>4. ItemsKept'
    BY DEF IInv, ItemsKept, Outstanding
  <2> QED BY <2>1, <2>2, <2>3, <2>4 DEF IInv
<1> QED BY <1>1, <1>2

\* The invariant the other theorems follow from holds in every state.
THEOREM Invariant == Spec => []IInv
PROOF BY InvariantInit, InvariantStep, PTL DEF Spec

\* Inside the loop and after it, every thread has initialized the ring.
LEMMA InsideInitialized ==
    ASSUME IInv, NEW t \in Ring, Inside(t) \/ pc[t] \in {"leave", "out"}
    PROVE  AllInitialized
PROOF BY DEF IInv, Phases, BeforeLoop, Inside, AllInitialized

\* Once localTermination has announced termination no thread has work, is
\* working or has work to report, whatever the number of threads.
THEOREM TerminationIsSafe == Spec => []NoWorkAfterGlobalTerm
PROOF
<1>1. IInv => NoWorkAfterGlobalTerm
  BY InsideInitialized DEF NoWorkAfterGlobalTerm, IInv, RingInv, AfterDetection
<1> QED BY <1>1, Invariant, PTL

\* The ring never loses or doubles its token, and the master has it when
\* termination is announced.
THEOREM TokenIsUnique == Spec => []OneToken
PROOF
<1>1. IInv => OneToken
  BY InsideInitialized DEF OneToken, IInv, TokenPlace, RingInv, AfterDetection
<1> QED BY <1>1, Invariant, PTL

\* A loop that is not broken has committed every item it was given when the
\* first thread leaves it.
THEOREM LoopIsComplete == Spec => []AllCommitted
PROOF
<1>1. IInv => AllCommitted
  <2> SUFFICES ASSUME IInv, NEW t \in Ring, pc[t] \in {"leave", "out"}, ~broke
               PROVE  pushed = committed
    BY DEF AllCommitted
  <2>1. globalTerm /\ AllInitialized
    BY InsideInitialized DEF IInv, Phases
  <2>2. \A u \in Ring : bag[u] = {} /\ aborted[u] = {} /\ current[u] = {}
    BY <2>1 DEF IInv, RingInv, AfterDetection, Quiet
  <2>3. Outstanding = {}
    BY <2>2 DEF Outstanding
  <2> QED BY <2>3 DEF IInv, ItemsKept
<1> QED BY <1>1, Invariant, PTL

-----------------------------------------------------------------------------
(* Conflict detection: the inductive invariant.                            *)

\* What is in the chain of a context that no other context may touch.
Listed(c) == nhood[c] \ InHand(c)

\* The object a context works on is one it has just taken, or one it gives back.
ArgIsTrue ==
    \A c \in Contexts :
        /\ phase[c] \in Taking \cup {"fetchOr", "owner"} => arg[c] \in Lockables
        /\ phase[c] \in Taking => arg[c] \notin nhood[c]
        /\ phase[c] # "storeUnlocked"
        /\ phase[c] = "addToNhood" => owner[arg[c]] = c
        /\ InHand(c) \subseteq nhood[c]

\* The chain begins in the neighborhood, does not leave it and does not fork:
\* the object behind the first one is still held when the first one is not.
Chained ==
    \A c \in Contexts :
        /\ locks[c] \in Listed(c) \cup {Null}
        /\ \A l \in Listed(c) : /\ next[l] \in Listed(c) \cup {Null}
                                /\ next[l] # Null => next[l] # locks[c]
        /\ \A l, m \in Listed(c) : next[l] = next[m] /\ next[l] # Null => l = m

OwnersTrue == ConflictTypeOK /\ Exclusive /\ WordIsTrue

ConflictInv == OwnersTrue /\ ArgIsTrue /\ Chained

-----------------------------------------------------------------------------
(* Steps that take nothing and give nothing back.                          *)

LEMMA SameWord ==
    ASSUME ConflictTypeOK, Exclusive, WordIsTrue, locked' = locked, owner' = owner, nhood' = nhood,
           \A c \in Contexts : Holds(c)' = Holds(c)
    PROVE  Exclusive' /\ WordIsTrue'
PROOF
<1>1. Exclusive'
  BY DEF Exclusive
<1>2. \A l \in Lockables : owner[l] # Null => owner[l] \in Contexts
  BY DEF ConflictTypeOK
<1> QED BY <1>1, <1>2 DEF WordIsTrue

LEMMA SameChain ==
    ASSUME Chained, next' = next, locks' = locks,
           \A c \in Contexts : Listed(c)' = Listed(c)
    PROVE  Chained'
PROOF BY DEF Chained

\* Context c moves between labels at which it has nothing in its hands.
HandsFree == {"idle", "operator", "fetchOr", "owner", "conflict", "commit"}

LEMMA FreeStep ==
    ASSUME ConflictInv, ConflictTypeOK', NEW c \in Contexts,
           UNCHANGED <<wordVars, listVars, nhood>>,
           phase[c] \in HandsFree, phase'[c] \in HandsFree,
           phase'[c] \in {"fetchOr", "owner"} => arg'[c] \in Lockables,
           \A d \in Contexts \ {c} : phase'[d] = phase[d] /\ arg'[d] = arg[d]
    PROVE  ConflictInv'
PROOF
<1>1. \A d \in Contexts : Holds(d)' = Holds(d) /\ InHand(d)' = InHand(d) /\ Listed(d)' = Listed(d)
  BY DEF Holds, InHand, Listed, Taking, HandsFree
<1>2. Exclusive' /\ WordIsTrue'
  BY <1>1, SameWord DEF ConflictInv, OwnersTrue, wordVars
<1>3. Chained'
  BY <1>1, SameChain DEF ConflictInv, listVars
<1>4. ArgIsTrue'
  BY <1>1 DEF ConflictInv, ArgIsTrue, Taking, HandsFree, wordVars
<1> QED BY <1>2, <1>3, <1>4 DEF ConflictInv, OwnersTrue

\* Context c moves on with an object it has taken but not yet put on its chain.
LEMMA TakingStep ==
    ASSUME ConflictInv, ConflictTypeOK', NEW c \in Contexts,
           UNCHANGED <<listVars, arg, nhood>>,
           phase[c] \in Taking, phase'[c] \in Taking \ {"storeUnlocked"},
           \A d \in Contexts \ {c} : phase'[d] = phase[d],
           locked' = locked,
           \/ owner' = owner /\ phase'[c] # "addToNhood"
           \/ owner' = [owner EXCEPT ![arg[c]] = c]
    PROVE  ConflictInv'
PROOF
<1>1. /\ \A d \in Contexts : Holds(d)' = Holds(d) /\ InHand(d)' = InHand(d) /\ Listed(d)' = Listed(d)
      /\ arg[c] \in Lockables /\ arg[c] \in Holds(c) /\ arg[c] \notin nhood[c]
      /\ ConflictTypeOK /\ Exclusive /\ WordIsTrue /\ ArgIsTrue /\ Chained
  BY DEF ConflictInv, OwnersTrue, Holds, InHand, Listed, Taking, ArgIsTrue
<1>2. /\ \A l \in Lockables \ {arg[c]} : owner'[l] = owner[l]
      /\ \/ owner'[arg[c]] = c
         \/ owner'[arg[c]] = owner[arg[c]] /\ phase'[c] # "addToNhood"
  BY <1>1 DEF ConflictTypeOK
<1>3. \A d \in Contexts : /\ arg[c] \notin nhood[d]
                          /\ d # c => arg[c] \notin Holds(d)
  BY <1>1 DEF Exclusive, Holds
<1>4. Exclusive'
  BY <1>1 DEF Exclusive
<1>5. WordIsTrue'
  <2>1. \A l \in Lockables : owner'[l] # Null => owner'[l] \in Contexts
    BY <1>1, <1>2 DEF ConflictTypeOK
  <2>2. \A l \in Lockables : owner'[l] # Null => l \in Holds(owner'[l])
    BY <1>1, <1>2 DEF WordIsTrue
  <2>3. \A l \in Lockables, d \in Contexts : l \in nhood'[d] => owner'[l] = d
    BY <1>1, <1>2, <1>3 DEF WordIsTrue
  <2> QED BY <1>1, <2>1, <2>2, <2>3 DEF WordIsTrue
<1>6. Chained'
  BY <1>1, SameChain DEF listVars
<1>7. ArgIsTrue'
  <2>1. \A d \in Contexts \ {c} : phase[d] = "addToNhood" => arg[d] # arg[c] /\ arg[d] \in Lockables
    BY <1>1, <1>3 DEF Holds, Taking, ArgIsTrue
  <2> QED BY <1>1, <1>2, <2>1 DEF ArgIsTrue, Taking
<1> QED BY <1>4, <1>5, <1>6, <1>7 DEF ConflictInv, OwnersTrue

-----------------------------------------------------------------------------
(* Types.                                                                  *)

\* Where a context is when it works on an object.
AtObject == Taking \cup {"fetchOr", "owner", "clearNext", "release"}

LEMMA ArgType ==
    ASSUME ConflictInv, NEW c \in Contexts, phase[c] \in AtObject
    PROVE  arg[c] \in Lockables
PROOF BY DEF ConflictInv, OwnersTrue, ConflictTypeOK, ArgIsTrue, InHand, AtObject

LEMMA ConflictTypeStep ==
    ASSUME ConflictInv, NEW c \in Contexts,
           StartIteration(c) \/ Proceed(c) \/ \E l \in Lockables : Acquire(c, l)
    PROVE  ConflictTypeOK'
PROOF
<1>1. ConflictTypeOK
  BY DEF ConflictInv, OwnersTrue
<1>2. CASE \/ StartIteration(c) \/ FetchOr(c) \/ SetValue(c) \/ GetOwner(c)
           \/ FinishOperator(c) \/ Cancel(c) \/ EndIteration(c) \/ \E l \in Lockables : Acquire(c, l)
  <2>1. phase' \in [Contexts -> ConflictLabels]
    BY <1>1, <1>2 DEF ConflictTypeOK, ConflictLabels, StartIteration, FetchOr, SetValue, GetOwner,
          FinishOperator, Cancel, EndIteration, Acquire, StepTo
  <2>2. locked' \in [Lockables -> BOOLEAN] /\ arg' \in [Contexts -> Lockables \cup {Null}]
    BY <1>1, <1>2 DEF ConflictTypeOK, StartIteration, FetchOr, SetValue, GetOwner, FinishOperator, Cancel,
          EndIteration, Acquire, wordVars
  <2>3. UNCHANGED <<owner, next, locks, nhood>>
    BY <1>2 DEF StartIteration, FetchOr, SetValue, GetOwner, FinishOperator, Cancel, EndIteration,
          Acquire, wordVars, listVars
  <2> QED BY <1>1, <2>1, <2>2, <2>3 DEF ConflictTypeOK
<1>3. CASE StoreValue(c)
  <2>1. On(c, "storeLocked") \in BOOLEAN
    BY DEF On
  <2>2. locked' \in [Lockables -> BOOLEAN]
    BY <1>1, <1>3, <2>1 DEF ConflictTypeOK, StoreValue
  <2>3. owner' \in [Lockables -> Contexts \cup {Null}] /\ phase' \in [Contexts -> ConflictLabels]
    BY <1>1, <1>3 DEF ConflictTypeOK, ConflictLabels, StoreValue, StepTo
  <2> QED BY <1>1, <1>3, <2>2, <2>3 DEF ConflictTypeOK, StoreValue, listVars
<1>4. CASE AddToNhood(c)
  <2>1. arg[c] \in Lockables
    BY <1>4, ArgType DEF AddToNhood, On, AtObject, Taking
  <2>2. nhood' \in [Contexts -> SUBSET Lockables] /\ locks' \in [Contexts -> Lockables \cup {Null}]
    BY <1>1, <1>4, <2>1 DEF ConflictTypeOK, AddToNhood, NewHead
  <2>3. next' \in [Lockables -> Lockables \cup {Null}] /\ phase' \in [Contexts -> ConflictLabels]
    BY <1>1, <1>4 DEF ConflictTypeOK, ConflictLabels, AddToNhood, NewHead, StepTo
  <2> QED BY <1>1, <1>4, <2>2, <2>3 DEF ConflictTypeOK, AddToNhood, NewHead, wordVars
<1>5. CASE Unlink(c)
  <2>1. locks[c] \in Lockables /\ next[locks[c]] \in Lockables \cup {Null}
    BY <1>1, <1>5 DEF ConflictTypeOK, Unlink
  <2>2. locks' \in [Contexts -> Lockables \cup {Null}] /\ arg' \in [Contexts -> Lockables \cup {Null}]
    BY <1>1, <1>5, <2>1 DEF ConflictTypeOK, Unlink
  <2> QED BY <1>1, <1>5, <2>2 DEF ConflictTypeOK, ConflictLabels, Unlink, StepTo, wordVars
<1>6. CASE ClearNext(c)
  BY <1>1, <1>6 DEF ConflictTypeOK, ConflictLabels, ClearNext, StepTo, wordVars
<1>7. CASE Release(c)
  <2>1. nhood' \in [Contexts -> SUBSET Lockables]
    BY <1>1, <1>7 DEF ConflictTypeOK, Release, ReleaseOwner
  <2>2. owner' \in [Lockables -> Contexts \cup {Null}] /\ locked' \in [Lockables -> BOOLEAN]
    BY <1>1, <1>7 DEF ConflictTypeOK, Release, ReleaseOwner
  <2>3. phase' \in [Contexts -> ConflictLabels]
    BY <1>1, <1>7 DEF ConflictTypeOK, ConflictLabels, Release, StepTo
  <2> QED BY <1>1, <1>7, <2>1, <2>2, <2>3 DEF ConflictTypeOK, Release, listVars
<1> QED BY <1>2, <1>3, <1>4, <1>5, <1>6, <1>7 DEF Proceed, GiveBack

-----------------------------------------------------------------------------
(* The steps.                                                              *)

LEMMA HandsFreeStep ==
    ASSUME ConflictInv, NEW c \in Contexts,
           \/ StartIteration(c) \/ GetOwner(c) \/ FinishOperator(c) \/ Cancel(c) \/ EndIteration(c)
           \/ FetchOr(c) /\ locked[arg[c]]
           \/ \E l \in Lockables : Acquire(c, l)
    PROVE  ConflictInv'
PROOF
<1>1. ConflictTypeOK /\ ConflictTypeOK'
  BY ConflictTypeStep DEF ConflictInv, OwnersTrue, Proceed
<1>2. UNCHANGED <<wordVars, listVars, nhood>>
  <2>1. ASSUME FetchOr(c), locked[arg[c]]
        PROVE  UNCHANGED locked
    <3>1. arg[c] \in Lockables
      BY <2>1, ArgType DEF FetchOr, On, AtObject
    <3> QED BY <1>1, <2>1, <3>1 DEF FetchOr, ConflictTypeOK
  <2> QED BY <2>1 DEF StartIteration, GetOwner, FinishOperator, Cancel, EndIteration, FetchOr, Acquire,
             wordVars, listVars
<1>3. /\ phase[c] \in HandsFree /\ phase'[c] \in HandsFree
      /\ phase'[c] \in {"fetchOr", "owner"} => arg'[c] \in Lockables
      /\ \A d \in Contexts \ {c} : phase'[d] = phase[d] /\ arg'[d] = arg[d]
  <2>1. CASE StartIteration(c) \/ GetOwner(c) \/ FinishOperator(c) \/ Cancel(c)
    BY <1>1, <2>1 DEF StartIteration, GetOwner, FinishOperator, Cancel, On, StepTo, ConflictTypeOK, HandsFree
  <2>2. CASE EndIteration(c) \/ \E l \in Lockables : Acquire(c, l)
    BY <1>1, <2>2 DEF EndIteration, Acquire, On, StepTo, ConflictTypeOK, HandsFree
  <2>3. CASE FetchOr(c) /\ locked[arg[c]]
    <3>1. arg[c] \in Lockables
      BY <2>3, ArgType DEF FetchOr, On, AtObject
    <3> QED BY <1>1, <2>3, <3>1 DEF FetchOr, On, StepTo, ConflictTypeOK, HandsFree
  <2> QED BY <2>1, <2>2, <2>3
<1> QED BY <1>1, <1>2, <1>3, FreeStep

LEMMA FetchOrStep ==
    ASSUME ConflictInv, NEW c \in Contexts, FetchOr(c), ~locked[arg[c]]
    PROVE  ConflictInv'
PROOF
<1>1. /\ ConflictTypeOK' /\ ConflictTypeOK /\ Exclusive /\ WordIsTrue /\ ArgIsTrue /\ Chained
      /\ arg[c] \in Lockables /\ phase[c] = "fetchOr"
      /\ UNCHANGED <<owner, listVars, arg, nhood>>
  BY ConflictTypeStep, ArgType DEF ConflictInv, OwnersTrue, Proceed, FetchOr, On, AtObject
<1>2. /\ phase'[c] = "setValue" /\ \A d \in Contexts \ {c} : phase'[d] = phase[d]
      /\ locked'[arg[c]] = TRUE /\ \A l \in Lockables \ {arg[c]} : locked'[l] = locked[l]
  BY <1>1 DEF FetchOr, StepTo, ConflictTypeOK
<1>3. /\ Holds(c)' = Holds(c) \cup {arg[c]}
      /\ \A d \in Contexts \ {c} : Holds(d)' = Holds(d)
      /\ \A d \in Contexts : InHand(d)' = InHand(d) /\ Listed(d)' = Listed(d)
  BY <1>1, <1>2 DEF Holds, InHand, Listed, Taking
<1>4. \A d \in Contexts : arg[c] \notin Holds(d) /\ arg[c] \notin nhood[d]
  BY <1>1 DEF WordIsTrue, Holds
<1>5. Exclusive'
  BY <1>1, <1>3, <1>4 DEF Exclusive
<1>6. WordIsTrue'
  <2>1. \A l \in Lockables : locked'[l] <=> \E d \in Contexts : l \in Holds(d)'
    BY <1>1, <1>2, <1>3 DEF WordIsTrue
  <2>2. \A l \in Lockables : owner[l] # Null => owner[l] \in Contexts /\ l \in Holds(owner[l])
    BY <1>1 DEF ConflictTypeOK, WordIsTrue
  <2>3. \A l \in Lockables : owner[l] # Null => l \in Holds(owner[l])'
    <3> SUFFICES ASSUME NEW l \in Lockables, NEW d \in Contexts, owner[l] = d, l \in Holds(d)
                 PROVE  l \in Holds(d)'
      BY <1>1, <2>2
    <3> QED BY <1>3
  <2> QED BY <1>1, <2>1, <2>3 DEF WordIsTrue
<1>7. ArgIsTrue'
  BY <1>1, <1>2, <1>3, <1>4 DEF ArgIsTrue, Taking
<1>8. Chained'
  BY <1>1, <1>3, SameChain DEF listVars
<1> QED BY <1>1, <1>5, <1>6, <1>7, <1>8 DEF ConflictInv, OwnersTrue

LEMMA SetValueStep ==
    ASSUME ConflictInv, NEW c \in Contexts, SetValue(c) \/ StoreValue(c)
    PROVE  ConflictInv'
PROOF
<1>1. /\ ConflictTypeOK /\ ConflictTypeOK' /\ arg[c] \in Lockables
      /\ phase[c] \in {"setValue", "storeLocked"} /\ locked[arg[c]] = TRUE
  <2>1. phase[c] \in {"setValue", "storeLocked"} /\ ConflictTypeOK /\ ConflictTypeOK'
    BY ConflictTypeStep DEF ConflictInv, OwnersTrue, Proceed, ArgIsTrue, SetValue, StoreValue, On
  <2>2. arg[c] \in Lockables /\ arg[c] \in Holds(c)
    BY <2>1, ArgType DEF AtObject, Taking, Holds
  <2> QED BY <2>1, <2>2 DEF ConflictInv, OwnersTrue, WordIsTrue, ConflictTypeOK
<1>2. UNCHANGED <<listVars, arg, nhood>> /\ locked' = locked
  <2>1. CASE SetValue(c)
    BY <2>1 DEF SetValue, wordVars
  <2>2. CASE StoreValue(c)
    <3>1. On(c, "storeLocked") = TRUE
      BY <1>1, <2>2 DEF StoreValue, On
    <3>2. locked' = [locked EXCEPT ![arg[c]] = TRUE]
      BY <2>2, <3>1 DEF StoreValue
    <3>3. \A l \in Lockables : locked'[l] = locked[l]
      BY <1>1, <3>2 DEF ConflictTypeOK
    <3>4. locked' \in [Lockables -> BOOLEAN] /\ locked \in [Lockables -> BOOLEAN]
      BY <1>1 DEF ConflictTypeOK
    <3>5. locked' = locked
      BY <3>3, <3>4
    <3> QED BY <2>2, <3>5 DEF StoreValue
  <2> QED BY <2>1, <2>2
<1>3. /\ phase'[c] \in Taking \ {"storeUnlocked"} /\ phase[c] \in Taking
      /\ \A d \in Contexts \ {c} : phase'[d] = phase[d]
      /\ \/ owner' = owner /\ phase'[c] # "addToNhood"
         \/ owner' = [owner EXCEPT ![arg[c]] = c]
  <2>1. CASE SetValue(c)
    BY <1>1, <2>1 DEF SetValue, On, StepTo, ConflictTypeOK, Taking, wordVars
  <2>2. CASE StoreValue(c)
    BY <1>1, <2>2 DEF StoreValue, On, StepTo, ConflictTypeOK, Taking
  <2> QED BY <2>1, <2>2
<1> QED BY <1>1, <1>2, <1>3, TakingStep

LEMMA AddToNhoodStep ==
    ASSUME ConflictInv, NEW c \in Contexts, AddToNhood(c)
    PROVE  ConflictInv'
PROOF
<1>1. /\ ConflictTypeOK' /\ ConflictTypeOK /\ Exclusive /\ WordIsTrue /\ ArgIsTrue /\ Chained
      /\ arg[c] \in Lockables /\ arg[c] \notin nhood[c] /\ owner[arg[c]] = c
      /\ phase[c] = "addToNhood" /\ UNCHANGED <<wordVars, arg>>
  BY ConflictTypeStep, ArgType DEF ConflictInv, OwnersTrue, Proceed, AddToNhood, NewHead, On, AtObject,
     Taking, ArgIsTrue
<1>2. /\ phase'[c] = "operator" /\ \A d \in Contexts \ {c} : phase'[d] = phase[d]
      /\ nhood'[c] = nhood[c] \cup {arg[c]} /\ \A d \in Contexts \ {c} : nhood'[d] = nhood[d]
      /\ locks'[c] = arg[c] /\ \A d \in Contexts \ {c} : locks'[d] = locks[d]
      /\ next'[arg[c]] = locks[c] /\ \A l \in Lockables \ {arg[c]} : next'[l] = next[l]
  BY <1>1 DEF AddToNhood, NewHead, StepTo, ConflictTypeOK
<1>3. /\ \A d \in Contexts : Holds(d)' = Holds(d)
      /\ Listed(c) = nhood[c] /\ Listed(c)' = nhood[c] \cup {arg[c]}
      /\ \A d \in Contexts \ {c} : Listed(d)' = Listed(d) /\ InHand(d)' = InHand(d)
      /\ InHand(c)' = {}
  BY <1>1, <1>2 DEF Holds, InHand, Listed, Taking
<1>4. \A d \in Contexts \ {c} : arg[c] \notin Holds(d) /\ arg[c] \notin Listed(d)
  BY <1>1 DEF Exclusive, Holds, Listed, Taking
<1>5. Exclusive'
  BY <1>1, <1>3 DEF Exclusive
<1>6. WordIsTrue'
  <2>1. \A l \in Lockables : owner[l] # Null => owner[l] \in Contexts
    BY <1>1 DEF ConflictTypeOK
  <2>2. \A l \in Lockables, d \in Contexts : l \in nhood'[d] => owner[l] = d
    BY <1>1, <1>2 DEF WordIsTrue
  <2> QED BY <1>1, <1>3, <2>1, <2>2 DEF WordIsTrue, wordVars
<1>7. ArgIsTrue'
  BY <1>1, <1>2, <1>3 DEF ArgIsTrue, Taking, wordVars
<1>8. Chained'
  <2>1. ASSUME NEW d \in Contexts \ {c}
        PROVE  /\ locks'[d] \in Listed(d)' \cup {Null}
               /\ \A l \in Listed(d)' : /\ next'[l] \in Listed(d)' \cup {Null}
                                        /\ next'[l] # Null => next'[l] # locks'[d]
               /\ \A l, m \in Listed(d)' : next'[l] = next'[m] /\ next'[l] # Null => l = m
    <3>1. \A l \in Listed(d) : next'[l] = next[l]
      BY <1>1, <1>2, <1>4 DEF Listed, ConflictTypeOK
    <3> QED BY <1>1, <1>2, <1>3, <3>1 DEF Chained
  <2>2. /\ locks[c] \in nhood[c] \cup {Null}
        /\ \A l \in nhood[c] : /\ next'[l] = next[l] /\ next[l] \in nhood[c] \cup {Null}
                               /\ next[l] # Null => next[l] # locks[c]
        /\ \A l, m \in nhood[c] : next[l] = next[m] /\ next[l] # Null => l = m
    BY <1>1, <1>2, <1>3 DEF Chained, ConflictTypeOK
  <2>3. /\ locks'[c] \in Listed(c)' \cup {Null}
        /\ \A l \in Listed(c)' : /\ next'[l] \in Listed(c)' \cup {Null}
                                 /\ next'[l] # Null => next'[l] # locks'[c]
        /\ \A l, m \in Listed(c)' : next'[l] = next'[m] /\ next'[l] # Null => l = m
    BY <1>1, <1>2, <1>3, <2>2
  <2> QED BY <2>1, <2>3 DEF Chained
<1> QED BY <1>1, <1>5, <1>6, <1>7, <1>8 DEF ConflictInv, OwnersTrue

LEMMA UnlinkStep ==
    ASSUME ConflictInv, NEW c \in Contexts, Unlink(c)
    PROVE  ConflictInv'
PROOF
<1>1. /\ ConflictTypeOK' /\ ConflictTypeOK /\ Exclusive /\ WordIsTrue /\ ArgIsTrue /\ Chained
      /\ phase[c] = "commit" /\ locks[c] \in nhood[c] /\ UNCHANGED <<wordVars, next, nhood>>
  BY ConflictTypeStep DEF ConflictInv, OwnersTrue, Proceed, Unlink, On, Chained, Listed
<1>2. /\ phase'[c] = "clearNext" /\ \A d \in Contexts \ {c} : phase'[d] = phase[d]
      /\ arg'[c] = locks[c] /\ \A d \in Contexts \ {c} : arg'[d] = arg[d]
      /\ locks'[c] = next[locks[c]] /\ \A d \in Contexts \ {c} : locks'[d] = locks[d]
  BY <1>1 DEF Unlink, StepTo, ConflictTypeOK
<1>3. /\ \A d \in Contexts : Holds(d)' = Holds(d)
      /\ Listed(c) = nhood[c] /\ Listed(c)' = nhood[c] \ {locks[c]}
      /\ \A d \in Contexts \ {c} : Listed(d)' = Listed(d) /\ InHand(d)' = InHand(d)
      /\ InHand(c)' = {locks[c]}
  BY <1>1, <1>2 DEF Holds, InHand, Listed, Taking
<1>4. Exclusive' /\ WordIsTrue'
  BY <1>1, <1>3, SameWord DEF wordVars
<1>5. ArgIsTrue'
  BY <1>1, <1>2, <1>3 DEF ArgIsTrue, Taking, wordVars
<1>6. Chained'
  <2>1. /\ \A l \in nhood[c] : /\ next[l] \in nhood[c] \cup {Null}
                               /\ next[l] # Null => next[l] # locks[c]
        /\ \A l, m \in nhood[c] : next[l] = next[m] /\ next[l] # Null => l = m
    BY <1>1, <1>3 DEF Chained
  <2>2. /\ locks'[c] \in Listed(c)' \cup {Null}
        /\ \A l \in Listed(c)' : /\ next[l] \in Listed(c)' \cup {Null}
                                 /\ next[l] # Null => next[l] # locks'[c]
        /\ \A l, m \in Listed(c)' : next[l] = next[m] /\ next[l] # Null => l = m
    BY <1>1, <1>2, <1>3, <2>1
  <2> QED BY <1>1, <1>2, <1>3, <2>2 DEF Chained
<1> QED BY <1>1, <1>4, <1>5, <1>6 DEF ConflictInv, OwnersTrue

LEMMA ClearNextStep ==
    ASSUME ConflictInv, NEW c \in Contexts, ClearNext(c)
    PROVE  ConflictInv'
PROOF
<1>1. /\ ConflictTypeOK' /\ ConflictTypeOK /\ Exclusive /\ WordIsTrue /\ ArgIsTrue /\ Chained
      /\ phase[c] = "clearNext" /\ arg[c] \in nhood[c] /\ UNCHANGED <<wordVars, locks, arg, nhood>>
  BY ConflictTypeStep DEF ConflictInv, OwnersTrue, Proceed, GiveBack, ClearNext, On, ArgIsTrue, InHand
<1>2. /\ phase'[c] = "release" /\ \A d \in Contexts \ {c} : phase'[d] = phase[d]
      /\ \A l \in Lockables \ {arg[c]} : next'[l] = next[l]
  BY <1>1 DEF ClearNext, StepTo, ConflictTypeOK
<1>3. /\ \A d \in Contexts : Holds(d)' = Holds(d) /\ Listed(d)' = Listed(d)
                             /\ InHand(d)' = InHand(d)
      /\ Listed(c) = nhood[c] \ {arg[c]}
  BY <1>1, <1>2 DEF Holds, InHand, Listed, Taking
<1>4. \A d \in Contexts : arg[c] \notin Listed(d)
  BY <1>1, <1>3 DEF Exclusive, Holds, Listed
<1>5. Exclusive' /\ WordIsTrue'
  BY <1>1, <1>3, SameWord DEF wordVars
<1>6. ArgIsTrue'
  BY <1>1, <1>2, <1>3 DEF ArgIsTrue, Taking, wordVars
<1>7. Chained'
  <2>1. \A d \in Contexts : \A l \in Listed(d) : next'[l] = next[l]
    BY <1>1, <1>2, <1>4 DEF Listed, ConflictTypeOK
  <2> QED BY <1>1, <1>3, <2>1 DEF Chained
<1> QED BY <1>1, <1>5, <1>6, <1>7 DEF ConflictInv, OwnersTrue

LEMMA ReleaseStep ==
    ASSUME ConflictInv, NEW c \in Contexts, Release(c)
    PROVE  ConflictInv'
PROOF
<1>1. /\ ConflictTypeOK' /\ ConflictTypeOK /\ Exclusive /\ WordIsTrue /\ ArgIsTrue /\ Chained
      /\ phase[c] = "release" /\ arg[c] \in nhood[c] /\ arg[c] \in Lockables
      /\ UNCHANGED <<listVars, arg>>
  BY ConflictTypeStep, ArgType DEF ConflictInv, OwnersTrue, Proceed, GiveBack, Release, On, ArgIsTrue,
     InHand, AtObject
<1>2. /\ phase'[c] = "commit" /\ \A d \in Contexts \ {c} : phase'[d] = phase[d]
      /\ nhood'[c] = nhood[c] \ {arg[c]} /\ \A d \in Contexts \ {c} : nhood'[d] = nhood[d]
      /\ owner'[arg[c]] = Null /\ \A l \in Lockables \ {arg[c]} : owner'[l] = owner[l]
      /\ locked'[arg[c]] = FALSE /\ \A l \in Lockables \ {arg[c]} : locked'[l] = locked[l]
  BY <1>1 DEF Release, ReleaseOwner, StepTo, ConflictTypeOK
<1>3. /\ Holds(c) = nhood[c] /\ Holds(c)' = nhood[c] \ {arg[c]}
      /\ \A d \in Contexts \ {c} : Holds(d)' = Holds(d) /\ InHand(d)' = InHand(d)
      /\ InHand(c)' = {}
      /\ \A d \in Contexts : Listed(d)' = Listed(d)
  BY <1>1, <1>2 DEF Holds, InHand, Listed, Taking
<1>4. \A d \in Contexts \ {c} : arg[c] \notin Holds(d) /\ arg[c] \notin nhood[d]
  BY <1>1, <1>3 DEF Exclusive, Holds
<1>5. Exclusive'
  BY <1>1, <1>3 DEF Exclusive
<1>6. WordIsTrue'
  <2>1. \A l \in Lockables : locked'[l] <=> \E d \in Contexts : l \in Holds(d)'
    BY <1>1, <1>2, <1>3, <1>4 DEF WordIsTrue
  <2>2. ASSUME NEW l \in Lockables, NEW d \in Contexts, owner'[l] = d
        PROVE  l \in Holds(d)'
    <3>1. l # arg[c] /\ owner[l] = d
      BY <1>2, <2>2, ContextAssumption
    <3>2. l \in Holds(d)
      BY <1>1, <2>2, <3>1, ContextAssumption DEF WordIsTrue
    <3> QED BY <1>3, <3>1, <3>2
  <2>3. \A l \in Lockables : owner'[l] # Null => owner'[l] \in Contexts
    BY <1>1 DEF ConflictTypeOK
  <2>4. \A l \in Lockables, d \in Contexts : l \in nhood'[d] => owner'[l] = d
    BY <1>1, <1>2, <1>4 DEF WordIsTrue
  <2> QED BY <2>1, <2>2, <2>3, <2>4 DEF WordIsTrue
<1>7. ArgIsTrue'
  <2>1. \A d \in Contexts : phase[d] = "addToNhood" => d # c /\ arg[d] # arg[c] /\ arg[d] \in Lockables
    BY <1>1, <1>4 DEF Holds, Taking, ArgIsTrue
  <2> QED BY <1>1, <1>2, <1>3, <2>1 DEF ArgIsTrue, Taking
<1>8. Chained'
  BY <1>1, <1>3, SameChain DEF listVars
<1> QED BY <1>1, <1>5, <1>6, <1>7, <1>8 DEF ConflictInv, OwnersTrue

-----------------------------------------------------------------------------
(* Chains, for any links between the objects.                              *)

Links == [Lockables -> Lockables \cup {Null}]

\* A chain is the least set that has its first object and the next of each.
LEMMA ChainHas ==
    ASSUME NEW link \in Links, NEW x \in Lockables \cup {Null}
    PROVE  Chain(link, x) \in From(link, x)
PROOF BY DEF Chain, From, Links

LEMMA ChainLeast ==
    ASSUME NEW link, NEW x, NEW S \in From(link, x)
    PROVE  Chain(link, x) \subseteq S
PROOF BY DEF Chain

LEMMA ChainOfNull ==
    ASSUME NEW link
    PROVE  Chain(link, Null) = {}
PROOF
<1>1. {} \in From(link, Null)
  BY DEF From
<1> QED BY <1>1, ChainLeast

LEMMA ChainStep ==
    ASSUME NEW link \in Links, NEW x \in Lockables
    PROVE  Chain(link, x) = {x} \cup Chain(link, link[x])
PROOF
<1>1. link[x] \in Lockables \cup {Null} /\ x # Null
  BY ContextAssumption DEF Links
<1>2. Chain(link, x) \in From(link, x) /\ Chain(link, link[x]) \in From(link, link[x])
  BY <1>1, ChainHas
<1>3. Chain(link, x) \in From(link, link[x])
  BY <1>1, <1>2 DEF From
<1>4. {x} \cup Chain(link, link[x]) \in From(link, x)
  BY <1>1, <1>2 DEF From
<1>5. Chain(link, link[x]) \subseteq Chain(link, x) /\ x \in Chain(link, x)
  BY <1>1, <1>2, <1>3, ChainLeast DEF From
<1>6. Chain(link, x) \subseteq {x} \cup Chain(link, link[x])
  BY <1>4, ChainLeast
<1> QED BY <1>5, <1>6

\* A chain on which no link changes stays as it is.
LEMMA ChainKept ==
    ASSUME NEW link \in Links, NEW new \in Links, NEW x \in Lockables \cup {Null},
           \A l \in Chain(link, x) : new[l] = link[l]
    PROVE  Chain(new, x) = Chain(link, x)
PROOF
<1>1. Chain(link, x) \in From(link, x) /\ Chain(new, x) \in From(new, x)
  BY ChainHas
<1>2. Chain(link, x) \in From(new, x)
  BY <1>1 DEF From
<1>3. Chain(new, x) \subseteq Chain(link, x)
  BY <1>2, ChainLeast
<1>4. Chain(new, x) \in From(link, x)
  BY <1>1, <1>3 DEF From
<1> QED BY <1>3, <1>4, ChainLeast

\* What is behind an object of a chain is in the chain.
LEMMA ChainBehind ==
    ASSUME NEW link \in Links, NEW x \in Lockables \cup {Null}, NEW l \in Chain(link, x)
    PROVE  /\ l \in Lockables
           /\ link[l] \in Lockables \cup {Null}
           /\ Chain(link, link[l]) \subseteq Chain(link, x)
PROOF
<1>1. Chain(link, x) \in From(link, x)
  BY ChainHas
<1>2. l \in Lockables /\ link[l] \in Lockables \cup {Null}
  BY DEF Chain, Links
<1>3. Chain(link, x) \in From(link, link[l])
  BY <1>1, <1>2 DEF From
<1> QED BY <1>2, <1>3, ChainLeast

-----------------------------------------------------------------------------
(* The chains of the contexts.                                             *)

ChainIsList ==
    \A c \in Contexts :
        /\ Chain(next, locks[c]) = Listed(c)
        /\ \A l \in Listed(c) : l \notin Chain(next, next[l])

FreeIsNull ==
    /\ \A c \in Contexts : /\ phase[c] = "idle" => nhood[c] = {}
                           /\ phase[c] = "release" => next[arg[c]] = Null
    /\ \A l \in Lockables : (\A c \in Contexts : l \notin nhood[c]) => next[l] = Null

ListInv == ConflictInv /\ ChainIsList /\ FreeIsNull

LEMMA ListTypes ==
    ASSUME ConflictInv
    PROVE  /\ next \in Links
           /\ \A c \in Contexts : locks[c] \in Lockables \cup {Null} /\ Listed(c) \subseteq Lockables
           /\ \A c \in Contexts : \A l \in Listed(c) : next[l] \in Lockables \cup {Null}
PROOF BY DEF ConflictInv, OwnersTrue, ConflictTypeOK, Links, Listed

LEMMA ListsAreIntact ==
    ASSUME ListInv
    PROVE  ListsIntact
PROOF
<1>1. ASSUME NEW c \in Contexts, phase[c] = "release"
      PROVE  owner[arg[c]] = c /\ next[arg[c]] = Null
  BY <1>1 DEF ListInv, ConflictInv, OwnersTrue, ConflictTypeOK, WordIsTrue, ArgIsTrue, InHand, FreeIsNull
<1>2. ASSUME NEW c \in Contexts, phase[c] = "addToNhood"
      PROVE  next[arg[c]] = Null
  <2>1. arg[c] \in Lockables /\ arg[c] \in Holds(c) /\ arg[c] \notin nhood[c]
    BY <1>2 DEF ListInv, ConflictInv, ArgIsTrue, Holds, Taking
  <2>2. \A d \in Contexts : arg[c] \notin nhood[d]
    BY <2>1 DEF ListInv, ConflictInv, OwnersTrue, Exclusive, Holds
  <2> QED BY <2>1, <2>2 DEF ListInv, FreeIsNull
<1> QED BY <1>1, <1>2 DEF ListInv, ChainIsList, FreeIsNull, ListsIntact, Listed, On

\* Steps that leave the chains alone and end no iteration.
LEMMA SameLists ==
    ASSUME ListInv, UNCHANGED <<listVars, nhood>>,
           \A c \in Contexts : Listed(c)' = Listed(c),
           \A c \in Contexts : phase'[c] = "idle" => phase[c] = "idle" \/ nhood[c] = {},
           \A c \in Contexts : phase'[c] = "release" => phase[c] = "release" /\ arg'[c] = arg[c]
    PROVE  ChainIsList' /\ FreeIsNull'
PROOF
<1>1. next' = next /\ locks' = locks /\ nhood' = nhood
  BY DEF listVars
<1>2. ChainIsList'
  BY <1>1 DEF ListInv, ChainIsList
<1>3. FreeIsNull'
  BY <1>1 DEF ListInv, FreeIsNull
<1> QED BY <1>2, <1>3

LEMMA QuietListStep ==
    ASSUME ListInv, NEW c \in Contexts,
           \/ StartIteration(c) \/ FetchOr(c) \/ SetValue(c) \/ StoreValue(c) \/ GetOwner(c)
           \/ FinishOperator(c) \/ Cancel(c) \/ EndIteration(c)
           \/ \E l \in Lockables : Acquire(c, l)
    PROVE  ChainIsList' /\ FreeIsNull'
PROOF
<1>1. ConflictTypeOK
  BY DEF ListInv, ConflictInv, OwnersTrue
<1>2. UNCHANGED <<listVars, nhood>>
  BY DEF StartIteration, FetchOr, SetValue, StoreValue, GetOwner, FinishOperator, Cancel, EndIteration,
     Acquire, listVars
<1>3. /\ phase[c] \notin {"clearNext", "release"}
      /\ phase'[c] \notin {"clearNext", "release"}
      /\ \A d \in Contexts \ {c} : phase'[d] = phase[d] /\ arg'[d] = arg[d]
  <2>1. CASE StartIteration(c) \/ FetchOr(c) \/ SetValue(c) \/ GetOwner(c) \/ FinishOperator(c) \/ Cancel(c)
    BY <1>1, <2>1 DEF StartIteration, FetchOr, SetValue, GetOwner, FinishOperator, Cancel, On, StepTo, ConflictTypeOK
  <2>2. CASE StoreValue(c) \/ EndIteration(c) \/ \E l \in Lockables : Acquire(c, l)
    BY <1>1, <2>2 DEF StoreValue, EndIteration, Acquire, On, StepTo, ConflictTypeOK
  <2> QED BY <2>1, <2>2
<1>4. \A d \in Contexts : Listed(d)' = Listed(d)
  BY <1>2, <1>3 DEF Listed, InHand
<1>5. phase'[c] = "idle" => phase[c] = "idle" \/ nhood[c] = {}
  <2>1. CASE EndIteration(c)
    <3>1. locks[c] = Null /\ phase[c] = "commit"
      BY <2>1 DEF EndIteration, On
    <3> QED BY <3>1, ChainOfNull DEF ListInv, ChainIsList, Listed, InHand
  <2>2. CASE StartIteration(c) \/ FetchOr(c) \/ SetValue(c) \/ GetOwner(c) \/ FinishOperator(c) \/ Cancel(c)
    BY <1>1, <2>2 DEF StartIteration, FetchOr, SetValue, GetOwner, FinishOperator, Cancel, StepTo, ConflictTypeOK
  <2>3. CASE StoreValue(c) \/ \E l \in Lockables : Acquire(c, l)
    BY <1>1, <2>3 DEF StoreValue, Acquire, StepTo, ConflictTypeOK
  <2> QED BY <2>1, <2>2, <2>3
<1> QED BY <1>2, <1>3, <1>4, <1>5, SameLists

\* The object goes in front of the chain; it was in no chain before.
LEMMA AddToNhoodLists ==
    ASSUME ListInv, ConflictInv', NEW c \in Contexts, AddToNhood(c)
    PROVE  ChainIsList' /\ FreeIsNull'
PROOF
<1>1. /\ ConflictTypeOK /\ arg[c] \in Lockables /\ arg[c] \notin nhood[c] /\ arg[c] # Null
      /\ phase[c] = "addToNhood" /\ arg' = arg /\ arg[c] \in Holds(c)
  BY ContextAssumption DEF ListInv, ConflictInv, OwnersTrue, ArgIsTrue, AddToNhood, NewHead, On,
     Taking, Holds
<1>2. /\ phase'[c] = "operator" /\ \A d \in Contexts \ {c} : phase'[d] = phase[d]
      /\ nhood'[c] = nhood[c] \cup {arg[c]} /\ \A d \in Contexts \ {c} : nhood'[d] = nhood[d]
      /\ locks'[c] = arg[c] /\ \A d \in Contexts \ {c} : locks'[d] = locks[d]
      /\ next'[arg[c]] = locks[c] /\ \A l \in Lockables \ {arg[c]} : next'[l] = next[l]
  BY <1>1 DEF AddToNhood, NewHead, StepTo, ConflictTypeOK
<1>3. /\ Listed(c) = nhood[c] /\ Listed(c)' = nhood[c] \cup {arg[c]}
      /\ \A d \in Contexts \ {c} : Listed(d)' = Listed(d)
  BY <1>1, <1>2 DEF InHand, Listed
<1>4. /\ \A d \in Contexts : arg[c] \notin nhood[d]
      /\ \A d \in Contexts : arg[c] \notin Listed(d)
  BY <1>1 DEF ListInv, ConflictInv, OwnersTrue, Exclusive, Holds, Listed
<1>5. /\ next \in Links /\ next' \in Links
      /\ \A d \in Contexts : locks[d] \in Lockables \cup {Null} /\ Listed(d) \subseteq Lockables
      /\ \A d \in Contexts : \A l \in Listed(d) : next[l] \in Lockables \cup {Null}
  BY ListTypes DEF ListInv, ConflictInv, OwnersTrue, ConflictTypeOK, Links
<1>6. ASSUME NEW d \in Contexts
      PROVE  /\ Chain(next', locks[d]) = Listed(d)
             /\ \A l \in Listed(d) : /\ next'[l] = next[l]
                                     /\ l \notin Chain(next', next[l])
  <2>1. Chain(next, locks[d]) = Listed(d) /\ \A l \in Listed(d) : next'[l] = next[l]
    BY <1>2, <1>4, <1>5 DEF ListInv, ChainIsList
  <2>2. Chain(next', locks[d]) = Listed(d)
    BY <1>5, <2>1, ChainKept
  <2>3. ASSUME NEW l \in Listed(d)
        PROVE  l \notin Chain(next', next[l])
    <3>1. Chain(next, next[l]) \subseteq Listed(d)
      BY <1>5, <2>1, ChainBehind
    <3>2. Chain(next', next[l]) = Chain(next, next[l])
      BY <1>5, <2>1, <3>1, ChainKept
    <3> QED BY <3>2 DEF ListInv, ChainIsList
  <2> QED BY <2>1, <2>2, <2>3
<1>7. ChainIsList'
  <2>1. Chain(next', arg[c]) = Listed(c)'
    BY <1>1, <1>2, <1>3, <1>5, <1>6, ChainStep
  <2>2. \A l \in Listed(c)' : l \notin Chain(next', next'[l])
    BY <1>2, <1>3, <1>4, <1>6
  <2>3. \A d \in Contexts \ {c} :
            /\ Chain(next', locks'[d]) = Listed(d)'
            /\ \A l \in Listed(d)' : l \notin Chain(next', next'[l])
    BY <1>2, <1>3, <1>6
  <2> QED BY <1>2, <2>1, <2>2, <2>3 DEF ChainIsList
<1>8. FreeIsNull'
  <2>1. \A d \in Contexts : phase'[d] = "release" => d # c /\ arg[d] # arg[c] /\ arg[d] \in Lockables
    BY <1>1, <1>2, <1>4 DEF ListInv, ConflictInv, ArgIsTrue, InHand, OwnersTrue, ConflictTypeOK
  <2>2. \A d \in Contexts : phase'[d] = "idle" => nhood'[d] = {}
    BY <1>2 DEF ListInv, FreeIsNull
  <2>3. \A d \in Contexts : phase'[d] = "release" => next'[arg'[d]] = Null
    BY <1>1, <1>2, <2>1 DEF ListInv, FreeIsNull
  <2>4. \A l \in Lockables : (\A d \in Contexts : l \notin nhood'[d]) => next'[l] = Null
    BY <1>2 DEF ListInv, FreeIsNull
  <2> QED BY <2>2, <2>3, <2>4 DEF FreeIsNull
<1> QED BY <1>7, <1>8

\* The first object goes; as the chain does not come back to it, the rest is
\* all that is behind it.
LEMMA UnlinkLists ==
    ASSUME ListInv, ConflictInv', NEW c \in Contexts, Unlink(c)
    PROVE  ChainIsList' /\ FreeIsNull'
PROOF
<1>1. /\ ConflictTypeOK /\ locks[c] \in Lockables /\ locks[c] \in Listed(c) /\ phase[c] = "commit"
      /\ next' = next /\ nhood' = nhood
  BY DEF ListInv, ConflictInv, OwnersTrue, ConflictTypeOK, Unlink, On, Chained
<1>2. /\ phase'[c] = "clearNext" /\ \A d \in Contexts \ {c} : phase'[d] = phase[d]
      /\ arg'[c] = locks[c] /\ \A d \in Contexts \ {c} : arg'[d] = arg[d]
      /\ locks'[c] = next[locks[c]] /\ \A d \in Contexts \ {c} : locks'[d] = locks[d]
  BY <1>1 DEF Unlink, StepTo, ConflictTypeOK
<1>3. /\ Listed(c)' = Listed(c) \ {locks[c]}
      /\ \A d \in Contexts \ {c} : Listed(d)' = Listed(d)
  BY <1>1, <1>2 DEF InHand, Listed
<1>4. /\ Chain(next, locks[c]) = {locks[c]} \cup Chain(next, next[locks[c]])
      /\ locks[c] \notin Chain(next, next[locks[c]])
  BY <1>1, ListTypes, ChainStep DEF ListInv, ChainIsList
<1>5. Chain(next, next[locks[c]]) = Listed(c)'
  BY <1>1, <1>3, <1>4 DEF ListInv, ChainIsList
<1>6. \A d \in Contexts : \A l \in Listed(d)' : l \notin Chain(next, next[l])
  BY <1>3 DEF ListInv, ChainIsList
<1>7. ChainIsList'
  <2>1. \A d \in Contexts \ {c} : Chain(next, locks[d]) = Listed(d)
    BY DEF ListInv, ChainIsList
  <2>2. \A d \in Contexts : Chain(next, locks'[d]) = Listed(d)'
    BY <1>2, <1>3, <1>5, <2>1
  <2>3. \A d \in Contexts : Chain(next', locks'[d]) = Listed(d)'
    BY <1>1, <2>2
  <2>4. \A d \in Contexts : \A l \in Listed(d)' : l \notin Chain(next', next'[l])
    BY <1>1, <1>6
  <2> QED BY <2>3, <2>4 DEF ChainIsList
<1>8. FreeIsNull'
  BY <1>1, <1>2 DEF ListInv, FreeIsNull
<1> QED BY <1>7, <1>8

\* The object in hand is in no chain.
LEMMA ClearNextLists ==
    ASSUME ListInv, ConflictInv', NEW c \in Contexts, ClearNext(c)
    PROVE  ChainIsList' /\ FreeIsNull'
PROOF
<1>1. /\ ConflictTypeOK /\ arg[c] \in nhood[c] /\ arg[c] \in Lockables /\ phase[c] = "clearNext"
      /\ UNCHANGED <<locks, arg, nhood>>
  BY DEF ListInv, ConflictInv, OwnersTrue, ConflictTypeOK, ArgIsTrue, InHand, ClearNext, On
<1>2. /\ phase'[c] = "release" /\ \A d \in Contexts \ {c} : phase'[d] = phase[d]
      /\ next'[arg[c]] = Null /\ \A l \in Lockables \ {arg[c]} : next'[l] = next[l]
  BY <1>1 DEF ClearNext, StepTo, ConflictTypeOK
<1>3. \A d \in Contexts : Listed(d)' = Listed(d) /\ arg[c] \notin Listed(d)
  BY <1>1, <1>2 DEF ListInv, ConflictInv, OwnersTrue, Exclusive, Holds, InHand, Listed
<1>4. /\ next \in Links /\ next' \in Links
      /\ \A d \in Contexts : locks[d] \in Lockables \cup {Null} /\ Listed(d) \subseteq Lockables
      /\ \A d \in Contexts : \A l \in Listed(d) : next[l] \in Lockables \cup {Null}
  BY ListTypes DEF ListInv, ConflictInv, OwnersTrue, ConflictTypeOK, Links
<1>5. ASSUME NEW d \in Contexts
      PROVE  /\ Chain(next', locks[d]) = Listed(d)
             /\ \A l \in Listed(d) : /\ next'[l] = next[l]
                                     /\ l \notin Chain(next', next[l])
  <2>1. Chain(next, locks[d]) = Listed(d) /\ \A l \in Listed(d) : next'[l] = next[l]
    BY <1>2, <1>3, <1>4 DEF ListInv, ChainIsList
  <2>2. Chain(next', locks[d]) = Listed(d)
    BY <1>4, <2>1, ChainKept
  <2>3. ASSUME NEW l \in Listed(d)
        PROVE  l \notin Chain(next', next[l])
    <3>1. Chain(next, next[l]) \subseteq Listed(d)
      BY <1>4, <2>1, ChainBehind
    <3>2. Chain(next', next[l]) = Chain(next, next[l])
      BY <1>4, <2>1, <3>1, ChainKept
    <3> QED BY <3>2 DEF ListInv, ChainIsList
  <2> QED BY <2>1, <2>2, <2>3
<1>6. ChainIsList'
  BY <1>1, <1>3, <1>5 DEF ChainIsList
<1>7. FreeIsNull'
  <2>1. \A l \in Lockables : next[l] = Null => next'[l] = Null
    BY <1>2
  <2>2. \A d \in Contexts : phase[d] = "release" => arg[d] \in Lockables
    BY DEF ListInv, ConflictInv, ArgIsTrue, InHand, OwnersTrue, ConflictTypeOK
  <2> QED BY <1>1, <1>2, <2>1, <2>2 DEF ListInv, FreeIsNull
<1> QED BY <1>6, <1>7

LEMMA ReleaseLists ==
    ASSUME ListInv, ConflictInv', NEW c \in Contexts, Release(c)
    PROVE  ChainIsList' /\ FreeIsNull'
PROOF
<1>1. /\ ConflictTypeOK /\ arg[c] \in nhood[c] /\ arg[c] \in Lockables /\ phase[c] = "release"
      /\ next' = next /\ locks' = locks /\ arg' = arg /\ next[arg[c]] = Null
  BY DEF ListInv, ConflictInv, OwnersTrue, ConflictTypeOK, ArgIsTrue, InHand, Release, On, listVars,
     FreeIsNull
<1>2. /\ phase'[c] = "commit" /\ \A d \in Contexts \ {c} : phase'[d] = phase[d]
      /\ nhood'[c] = nhood[c] \ {arg[c]} /\ \A d \in Contexts \ {c} : nhood'[d] = nhood[d]
  BY <1>1 DEF Release, ReleaseOwner, StepTo, ConflictTypeOK
<1>3. \A d \in Contexts : Listed(d)' = Listed(d)
  BY <1>1, <1>2 DEF InHand, Listed
<1>4. ChainIsList'
  BY <1>1, <1>3 DEF ListInv, ChainIsList
<1>5. FreeIsNull'
  BY <1>1, <1>2 DEF ListInv, FreeIsNull
<1> QED BY <1>4, <1>5

-----------------------------------------------------------------------------
(* All steps together.                                                     *)
LEMMA ConflictInvariant == ConflictInit /\ [][ConflictNext]_conflictVars => []ConflictInv
PROOF
<1>1. ConflictInit => ConflictInv
  BY ContextAssumption DEF ConflictInit, ConflictInv, OwnersTrue, ConflictTypeOK, ConflictLabels, Exclusive, WordIsTrue,
     ArgIsTrue, Chained, Holds, InHand, Listed, Taking
<1>2. ConflictInv /\ [ConflictNext]_conflictVars => ConflictInv'
  <2> SUFFICES ASSUME ConflictInv, [ConflictNext]_conflictVars PROVE ConflictInv'
    OBVIOUS
  <2>1. CASE UNCHANGED conflictVars
    <3>1. \A d \in Contexts : Holds(d)' = Holds(d) /\ InHand(d)' = InHand(d) /\ Listed(d)' = Listed(d)
      BY <2>1 DEF conflictVars, Holds, InHand, Listed
    <3>2. ConflictTypeOK' /\ ArgIsTrue'
      BY <2>1, <3>1 DEF ConflictInv, OwnersTrue, ConflictTypeOK, ArgIsTrue, conflictVars, wordVars, listVars
    <3> QED BY <2>1, <3>1, <3>2, SameWord, SameChain
            DEF ConflictInv, OwnersTrue, conflictVars, wordVars, listVars
  <2>2. ASSUME NEW c \in Contexts,
               StartIteration(c) \/ Proceed(c) \/ \E l \in Lockables : Acquire(c, l)
        PROVE  ConflictInv'
    BY <2>2, HandsFreeStep, FetchOrStep, SetValueStep, AddToNhoodStep, UnlinkStep, ClearNextStep,
       ReleaseStep DEF Proceed, GiveBack
  <2> QED BY <2>1, <2>2 DEF ConflictNext
<1> QED BY <1>1, <1>2, PTL DEF ConflictSpec

\* Only a context that has read another owner than itself signals a conflict, and it
\* acquires nothing between that read and its end.
LEMMA RealStep ==
    ASSUME ConflictInv, ConflictIsReal, NEW c \in Contexts,
           StartIteration(c) \/ Proceed(c) \/ \E l \in Lockables : Acquire(c, l)
    PROVE  ConflictIsReal'
PROOF
<1>1. /\ phase \in [Contexts -> ConflictLabels] /\ arg \in [Contexts -> Lockables \cup {Null}]
      /\ nhood \in [Contexts -> SUBSET Lockables]
  BY DEF ConflictInv, OwnersTrue, ConflictTypeOK
<1>2. CASE GetOwner(c)
  <2>1. arg[c] \in Lockables
    BY <1>2, ArgType DEF GetOwner, On, AtObject
  <2>2. arg[c] \in nhood[c] => owner[arg[c]] = c
    BY <2>1 DEF ConflictInv, OwnersTrue, WordIsTrue
  <2>3. /\ phase' = [phase EXCEPT ![c] = IF owner[arg[c]] = c THEN "operator" ELSE "conflict"]
        /\ UNCHANGED <<arg, nhood>>
    BY <1>2 DEF GetOwner, StepTo
  <2>4. phase'[c] = "conflict" => arg[c] \notin nhood[c]
    BY <1>1, <2>2, <2>3
  <2>5. \A d \in Contexts \ {c} : phase'[d] = phase[d]
    BY <1>1, <2>3
  <2> QED BY <2>3, <2>4, <2>5 DEF ConflictIsReal, On
<1>3. CASE ~GetOwner(c)
  <2>1. /\ phase'[c] # "conflict"
        /\ \A d \in Contexts \ {c} : phase'[d] = phase[d] /\ arg'[d] = arg[d] /\ nhood'[d] = nhood[d]
    <3>1. CASE StartIteration(c) \/ \E l \in Lockables : Acquire(c, l)
      BY <1>1, <3>1 DEF StartIteration, Acquire, StepTo
    <3>2. CASE FetchOr(c) \/ SetValue(c) \/ StoreValue(c)
      BY <1>1, <3>2 DEF FetchOr, SetValue, StoreValue, StepTo
    <3>3. CASE AddToNhood(c) \/ Cancel(c) \/ FinishOperator(c)
      BY <1>1, <3>3 DEF AddToNhood, NewHead, Cancel, FinishOperator, StepTo
    <3>4. CASE Unlink(c) \/ ClearNext(c) \/ EndIteration(c)
      BY <1>1, <3>4 DEF Unlink, ClearNext, EndIteration, StepTo
    <3>5. CASE Release(c)
      BY <1>1, <3>5 DEF Release, ReleaseOwner, StepTo
    <3> QED BY <1>3, <3>1, <3>2, <3>3, <3>4, <3>5 DEF Proceed, GiveBack
  <2> QED BY <2>1 DEF ConflictIsReal, On
<1> QED BY <1>2, <1>3

(* An object belongs to one iteration at a time, its bit is set as long as *)
(* it does, the word names the owner, and nobody is cancelled over an      *)
(* object it holds, for any number of contexts and objects.                *)
THEOREM ConflictsAreExclusive == ConflictSpec => []MutualExclusion
PROOF
<1>1. ConflictInit => ConflictIsReal
  BY DEF ConflictInit, ConflictIsReal, On
<1>2. ConflictInv /\ ConflictIsReal /\ [ConflictNext]_conflictVars => ConflictIsReal'
  <2>1. ConflictInv /\ ConflictIsReal /\ ConflictNext => ConflictIsReal'
    BY RealStep DEF ConflictNext
  <2>2. ConflictIsReal /\ UNCHANGED conflictVars => ConflictIsReal'
    BY DEF ConflictIsReal, conflictVars, On
  <2> QED BY <2>1, <2>2
<1>3. ConflictInv /\ ConflictIsReal => MutualExclusion
  BY DEF ConflictInv, OwnersTrue, MutualExclusion
<1> QED BY <1>1, <1>2, <1>3, ConflictInvariant, PTL DEF ConflictSpec

(* The chain through the objects of an iteration holds what the iteration  *)
(* has acquired and nothing else, comes to an end, and an object nobody    *)
(* has points nowhere.                                                     *)
THEOREM ChainsAreIntact == ConflictSpec => []ListsIntact
PROOF
<1>1. ConflictInit => ListInv
  <2>1. ConflictInit => ConflictInv
    BY ContextAssumption DEF ConflictInit, ConflictInv, OwnersTrue, ConflictTypeOK, ConflictLabels, Exclusive, WordIsTrue,
       ArgIsTrue, Chained, Holds, InHand, Listed, Taking
  <2>2. ConflictInit => ChainIsList /\ FreeIsNull
    BY ChainOfNull DEF ConflictInit, ChainIsList, FreeIsNull, Listed
  <2> QED BY <2>1, <2>2 DEF ListInv
<1>2. ListInv /\ ConflictInv' /\ [ConflictNext]_conflictVars => ListInv'
  <2> SUFFICES ASSUME ListInv, ConflictInv', [ConflictNext]_conflictVars PROVE ChainIsList' /\ FreeIsNull'
    BY DEF ListInv
  <2>1. CASE UNCHANGED conflictVars
    <3>1. \A d \in Contexts : Listed(d)' = Listed(d)
      BY <2>1 DEF conflictVars, InHand, Listed
    <3> QED BY <2>1, <3>1, SameLists DEF conflictVars
  <2>2. ASSUME NEW c \in Contexts,
               StartIteration(c) \/ Proceed(c) \/ \E l \in Lockables : Acquire(c, l)
        PROVE  ChainIsList' /\ FreeIsNull'
    BY <2>2, QuietListStep, AddToNhoodLists, UnlinkLists, ClearNextLists, ReleaseLists
       DEF Proceed, GiveBack
  <2> QED BY <2>1, <2>2 DEF ConflictNext
<1> QED BY <1>1, <1>2, ConflictInvariant, ListsAreIntact, PTL DEF ConflictSpec
=============================================================================
