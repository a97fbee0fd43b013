---------------------------- MODULE ForEachWork -----------------------------
(* Galois::for_each (Runtime/ParallelWork.h): the loop every thread runs   *)
(* over a shared worklist, with the queues of aborted iterations and the   *)
(* termination ring that lets the threads leave.                           *)
(*                                                                         *)
(* The worklist is one with owned elements (WorkListOps), the operator     *)
(* processes one element, may push new ones, may ask to break the loop and *)
(* may be aborted by a conflict.  Several loops may follow one another: a  *)
(* new ForEachWork each time, always the same termination detector.        *)
EXTENDS TerminationRing, FiniteSets

CONSTANTS
    Tasks,            \* the work items, each pushed at most once
    Limit,            \* the limit of runQueue<limit>, 32 in the code
    CouldAbort,       \* ForEachTraits::NeedsAborts and more than one thread
    NeedsBreak,       \* ForEachTraits::NeedsBreak
    PackageOf,        \* PackageOf[t]: LL::getPackageForSelf(t)
    MaxPackages,      \* LL::getMaxPackages()
    MaxAborts,        \* bound: conflicts in one loop
    MaxLoops          \* bound: loops run one after the other

ASSUME TasksAssumption == IsFiniteSet(Tasks)
ASSUME LimitAssumption == Limit \in Nat \ {0}
ASSUME TraitsAssumption ==
    /\ CouldAbort \in BOOLEAN /\ NeedsBreak \in BOOLEAN
    /\ CouldAbort => N > 1
\* Packages are numbered in the order in which threads first meet them.
ASSUME PackageAssumption ==
    /\ MaxPackages \in Nat \ {0}
    /\ PackageOf \in [Ring -> 0..(MaxPackages - 1)]
    /\ \A t \in Ring : \A p \in 0..PackageOf[t] : \E u \in 0..t : PackageOf[u] = p
ASSUME BoundsAssumption == MaxAborts \in Nat /\ MaxLoops \in Nat

VARIABLES
    bag,              \* the worklist, see WorkListOps
    aborted,          \* aborted[t]: the aborted items of t, with their retries
    broke,            \* ForEachWork::broke
    pc,               \* where thread t is
    current,          \* current[t]: the item t is processing, with its retries
    didWork,          \* didWork of go()
    num,              \* num of runQueue
    pushed,           \* history: the items given to the worklist
    committed,        \* history: the items whose iteration has committed
    aborts,           \* number of conflicts so far
    loop              \* number of loops started

WL == INSTANCE WorkListOps WITH Threads <- Ring

loopVars == <<bag, aborted, broke, current, didWork, num, pushed, committed, aborts, loop>>
vars == <<ringVars, loopVars, pc>>

Labels == {"init", "initWork", "enter", "pop", "process", "popAborted",
           "processAborted", "localTermination", "sendColour", "sendToken",
           "check", "leave", "out"}

Item == Tasks \X Nat

INSTANCE AbortPolicies WITH Threads <- Ring

\* The threads for which go() runs the worklist with the limit.
Limited ==
    IF NeedsBreak THEN Ring
    ELSE IF CouldAbort THEN {t \in Ring : LeaderForPackage(PackageOf[t]) = t}
    ELSE {}

\* The threads between the two barriers of a loop.
Inside(t) == pc[t] \notin {"init", "initWork", "enter", "leave", "out"}

\* The threads in propToken.
Sending(t) == pc[t] \in {"sendColour", "sendToken"}

Goto(t, label) == pc' = [pc EXCEPT ![t] = label]

Init ==
    /\ RingInit
    /\ bag = [t \in Ring |-> {}]
    /\ aborted = [t \in Ring |-> {}]
    /\ broke = FALSE
    /\ pc = [t \in Ring |-> "init"]
    /\ current = [t \in Ring |-> {}]
    /\ didWork = [t \in Ring |-> FALSE]
    /\ num = [t \in Ring |-> 0]
    /\ pushed = {}
    /\ committed = {}
    /\ aborts = 0
    /\ loop = 1

-----------------------------------------------------------------------------
(* The commands for_each_impl gives the thread pool.                       *)

InitThread(t) ==
    /\ pc[t] = "init"
    /\ InitializeThread(t)
    /\ Goto(t, "initWork")
    /\ UNCHANGED loopVars

\* Each thread pushes its share of the initial range.
AddInitialWork(t) ==
    /\ pc[t] = "initWork"
    /\ \E share \in SUBSET (Tasks \ pushed) :
         /\ WL!PushRange(t, share)
         /\ pushed' = pushed \cup share
    /\ Goto(t, "enter")
    /\ UNCHANGED <<ringVars, aborted, broke, current, didWork, num, committed, aborts, loop>>

Enter(t) ==
    /\ pc[t] = "enter"
    /\ \A u \in Ring : pc[u] \notin {"init", "initWork"}
    /\ Goto(t, "pop")
    /\ UNCHANGED <<ringVars, loopVars>>

Leave(t) ==
    /\ pc[t] = "leave"
    /\ \A u \in Ring : pc[u] \in {"leave", "out"}
    /\ Goto(t, "out")
    /\ UNCHANGED <<ringVars, loopVars>>

\* The master runs another loop: new worklist, same detector.
NextLoop ==
    /\ \A t \in Ring : pc[t] = "out"
    /\ loop < MaxLoops
    /\ loop' = loop + 1
    /\ pc' = [t \in Ring |-> "init"]
    /\ bag' = [t \in Ring |-> {}]
    /\ aborted' = [t \in Ring |-> {}]
    /\ broke' = FALSE
    /\ pushed' = {}
    /\ committed' = {}
    /\ aborts' = 0
    /\ UNCHANGED <<ringVars, current, didWork, num>>

-----------------------------------------------------------------------------
(* runQueue over the worklist.                                             *)

Take(t, item) ==
    /\ current' = [current EXCEPT ![t] = {item}]
    /\ didWork' = [didWork EXCEPT ![t] = TRUE]

Pop(t) ==
    /\ pc[t] = "pop"
    /\ \/ \E x \in bag[t] : WL!TakeOwn(t, x) /\ Take(t, <<x, 0>>)
       \/ \E u \in Ring : \E batch \in SUBSET bag[u] : \E x \in batch :
            WL!TakeFrom(t, u, batch, x) /\ Take(t, <<x, 0>>)
    /\ Goto(t, "process")
    /\ UNCHANGED <<ringVars, aborted, broke, num, pushed, committed, aborts, loop>>

\* The end of runQueue over the worklist.
QueueDone(t) ==
    /\ num' = [num EXCEPT ![t] = 0]
    /\ Goto(t, IF CouldAbort THEN "popAborted" ELSE "localTermination")

PopNothing(t) ==
    /\ pc[t] = "pop"
    /\ WL!TakeNothing(t)
    /\ QueueDone(t)
    /\ UNCHANGED <<ringVars, aborted, broke, current, didWork, pushed, committed, aborts, loop>>

\* The operator's full push buffer goes to the worklist before the iteration
\* ends; only loops that cannot abort do so.
FastPushBack(t) ==
    /\ pc[t] = "process"
    /\ ~CouldAbort
    /\ \E range \in (SUBSET (Tasks \ pushed)) \ {{}} :
         /\ WL!PushRange(t, range)
         /\ pushed' = pushed \cup range
    /\ UNCHANGED <<ringVars, aborted, broke, pc, current, didWork, num, committed, aborts, loop>>

BreakLoop(t) ==
    /\ pc[t] \in {"process", "processAborted"}
    /\ NeedsBreak
    /\ broke' = TRUE
    /\ UNCHANGED <<ringVars, bag, aborted, pc, current, didWork, num, pushed, committed,
                   aborts, loop>>

\* commitIteration: the push buffer goes to the worklist.
CommitIteration(t) ==
    /\ \E range \in SUBSET (Tasks \ pushed) :
         /\ WL!PushRange(t, range)
         /\ pushed' = pushed \cup range
    /\ committed' = committed \cup {item[1] : item \in current[t]}
    /\ current' = [current EXCEPT ![t] = {}]
    /\ UNCHANGED <<ringVars, aborted, broke, didWork, aborts, loop>>

Process(t) ==
    /\ pc[t] = "process"
    /\ CommitIteration(t)
    /\ IF t \in Limited /\ num[t] + 1 = Limit
       THEN QueueDone(t)
       ELSE /\ num' = [num EXCEPT ![t] = IF t \in Limited THEN @ + 1 ELSE 0]
            /\ Goto(t, "pop")

-----------------------------------------------------------------------------
(* Aborted iterations.                                                     *)

\* Mutant: the item is pushed without its retries.
AbortWithoutRetries(t, u, retries) ==
    /\ aborts < MaxAborts
    /\ aborts' = aborts + 1
    /\ aborted' = [aborted EXCEPT ![u] = @ \cup {<<item[1]>> : item \in current[t]}]
    /\ current' = [current EXCEPT ![t] = {}]
    /\ UNCHANGED <<ringVars, bag, broke, didWork, pushed, committed, loop>>

\* Mutant: the item is not queued again.
AbortForgets(t, u, retries) ==
    /\ aborts < MaxAborts
    /\ aborts' = aborts + 1
    /\ current' = [current EXCEPT ![t] = {}]
    /\ UNCHANGED <<ringVars, bag, aborted, broke, didWork, pushed, committed, loop>>

\* A conflict: the push buffer is dropped, the item goes to queue u.
AbortIteration(t, u, retries) ==
    /\ aborts < MaxAborts
    /\ aborts' = aborts + 1
    /\ aborted' = [aborted EXCEPT ![u] = @ \cup {<<item[1], retries>> : item \in current[t]}]
    /\ current' = [current EXCEPT ![t] = {}]
    /\ UNCHANGED <<ringVars, bag, broke, didWork, pushed, committed, loop>>

\* The first conflict of an item; runQueue ends with it.
Abort(t) ==
    /\ pc[t] = "process"
    /\ CouldAbort
    /\ AbortIteration(t, t, 1)
    /\ QueueDone(t)

\* handleAborts: runQueue over the own queue of aborted items.
PopAborted(t) ==
    /\ pc[t] = "popAborted"
    /\ \E item \in aborted[t] :
         /\ Take(t, item)
         /\ aborted' = [aborted EXCEPT ![t] = @ \ {item}]
    /\ Goto(t, "processAborted")
    /\ UNCHANGED <<ringVars, bag, broke, num, pushed, committed, aborts, loop>>

NoneAborted(t) ==
    /\ pc[t] = "popAborted"
    /\ aborted[t] = {}
    /\ Goto(t, "localTermination")
    /\ UNCHANGED <<ringVars, loopVars>>

ProcessAborted(t) ==
    /\ pc[t] = "processAborted"
    /\ CommitIteration(t)
    /\ Goto(t, "popAborted")
    /\ UNCHANGED num

AbortAgain(t) ==
    /\ pc[t] = "processAborted"
    /\ \E item \in current[t] :
         AbortIteration(t, QueueFor(t, item[2] + 1), item[2] + 1)
    /\ Goto(t, "localTermination")
    /\ UNCHANGED num

-----------------------------------------------------------------------------
(* term.localTermination(didWork) and the loop condition of go().          *)

LocalTermination(t) ==
    /\ pc[t] = "localTermination"
    /\ \/ NoToken(t, didWork[t]) /\ Goto(t, "check")
       \/ t = Master /\ DetectTermination(didWork[t]) /\ Goto(t, "check")
       \/ PassToken(t, didWork[t]) /\ Goto(t, "sendColour")
    /\ didWork' = [didWork EXCEPT ![t] = FALSE]
    /\ UNCHANGED <<bag, aborted, broke, current, num, pushed, committed, aborts, loop>>

PropTokenColour(t) ==
    /\ pc[t] = "sendColour"
    /\ SendColour(t)
    /\ Goto(t, "sendToken")
    /\ UNCHANGED loopVars

PropToken(t) ==
    /\ pc[t] = "sendToken"
    /\ SendToken(t)
    /\ Goto(t, "check")
    /\ UNCHANGED loopVars

Check(t) ==
    /\ pc[t] = "check"
    /\ Goto(t, IF globalTerm \/ (NeedsBreak /\ broke) THEN "leave" ELSE "pop")
    /\ UNCHANGED <<ringVars, loopVars>>

-----------------------------------------------------------------------------
Step(t) ==
    \/ InitThread(t) \/ AddInitialWork(t) \/ Enter(t) \/ Leave(t)
    \/ Pop(t) \/ PopNothing(t) \/ Process(t)
    \/ Abort(t) \/ PopAborted(t) \/ NoneAborted(t) \/ ProcessAborted(t) \/ AbortAgain(t)
    \/ LocalTermination(t) \/ PropTokenColour(t) \/ PropToken(t) \/ Check(t)

Next ==
    \/ \E t \in Ring : Step(t) \/ FastPushBack(t) \/ BreakLoop(t)
    \/ NextLoop

Spec == Init /\ [][Next]_vars

\* Every thread keeps running; the operator need not push or break.
FairSpec == Spec /\ \A t \in Ring : WF_vars(Step(t))

-----------------------------------------------------------------------------
TypeOK ==
    /\ RingTypeOK
    /\ bag \in [Ring -> SUBSET Tasks]
    /\ aborted \in [Ring -> SUBSET Item]
    /\ broke \in BOOLEAN
    /\ pc \in [Ring -> Labels]
    /\ current \in [Ring -> SUBSET Item]
    /\ didWork \in [Ring -> BOOLEAN]
    /\ num \in [Ring -> Nat]
    /\ pushed \in SUBSET Tasks
    /\ committed \in SUBSET Tasks
    /\ aborts \in Nat
    /\ loop \in Nat

\* Thread t has nothing to do and has nothing to report.
Quiet(t) == bag[t] = {} /\ aborted[t] = {} /\ current[t] = {} /\ ~didWork[t]

(* Once termination is announced nobody has work, is working, or has work  *)
(* to report: the assertion at the head of localTermination, extended to   *)
(* the work that is still in a queue.                                      *)
NoWorkAfterGlobalTerm ==
    globalTerm /\ (\E t \in Ring : Inside(t)) => \A u \in Ring : Quiet(u)

(* The token is never lost or doubled while the ring runs, and once         *)
(* termination is announced it rests with the master: the assertion "no    *)
(* token should be in progress after globalTerm" of localTermination.      *)
OneToken ==
    (\E t \in Ring : Inside(t)) =>
        /\ \E t \in Ring :
             /\ hasToken[t] # Sending(t)
             /\ \A u \in Ring \ {t} : ~hasToken[u] /\ ~Sending(u)
        /\ globalTerm => hasToken[Master]

(* A thread leaves a loop that nobody broke only when every item that was  *)
(* pushed has committed, aborted ones included.                            *)
AllCommitted ==
    (\E t \in Ring : pc[t] \in {"leave", "out"}) /\ ~broke => pushed = committed

(* Every thread that enters a loop leaves it: once the work is done the    *)
(* ring always finds out.                                                  *)
LoopEnds == \A t \in Ring : pc[t] = "enter" ~> pc[t] = "out"
=============================================================================
