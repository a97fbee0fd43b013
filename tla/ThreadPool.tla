----------------------------- MODULE ThreadPool -----------------------------
(* ThreadPool_pthread (src/ThreadPool_pthread.cpp) with the system barrier  *)
(* as one of the commands: the main thread runs loops, each a list of       *)
(* commands for the first activeThreads threads, and in the end destroys    *)
(* the pool.  Thread 0 is the main thread; the others sleep on semaphores   *)
(* and wake each other in a binary tree.                                    *)
(*                                                                          *)
(* A command is "call" (whatever the executor does: init, the loop itself)  *)
(* or "wait" (the barrier).  RunCommand pointers are pairs of the run whose *)
(* array they point into and an index; 0 is the null pointer.               *)
EXTENDS TopoBarrier, Sequences

CONSTANTS
    Commands,         \* the kinds of the commands of a run
    Counts,           \* what the client passes to setActiveThreads
    MaxRuns           \* bound: runs

ASSUME PoolAssumption ==
    /\ Commands \in Seq({"call", "wait"}) /\ Commands # <<>>
    /\ Counts \in SUBSET (1..MaxThreads) /\ MaxRuns \in Nat

(* Every caller of run ends its commands with a barrier.                    *)
ASSUME LastWaitAssumption == Commands[Len(Commands)] = "wait"

VARIABLES
    starts,           \* the semaphore of each thread
    shutdown, starting, workBegin, workEnd,
    activeThreads,    \* src/Threads.cpp
    pc,               \* where a thread is in the pool
    workPtr, workEndL,  \* locals of doWork
    runs,             \* runs so far
    called, due       \* history: "call" commands a thread executed, and was to

poolVars == <<starts, shutdown, starting, workBegin, workEnd, activeThreads, pc,
              workPtr, workEndL, runs, called, due>>
vars == <<poolVars, barVars>>

Null == [run |-> 0, index |-> 0]
Begin(r) == [run |-> r, index |-> 1]
End(r) == [run |-> r, index |-> Len(Commands) + 1]
Calls == Cardinality({i \in DOMAIN Commands : Commands[i] = "call"})
Workers == Threads \ {0}

Init ==
    /\ Constructed(1)
    /\ starts = [t \in Threads |-> 0]
    /\ shutdown = FALSE /\ starting = 0
    /\ workBegin = Null /\ workEnd = Null
    /\ activeThreads = 1
    /\ pc = [t \in Threads |-> IF t = 0 THEN "client" ELSE "launch"]
    /\ workPtr = [t \in Threads |-> Null]
    /\ workEndL = [t \in Threads |-> Null]
    /\ runs = 0
    /\ called = [t \in Threads |-> 0]
    /\ due = [t \in Threads |-> 0]

Goto(t, label) == pc' = [pc EXCEPT ![t] = label]
On(t, label) == pc[t] = label
UnchangedWork == UNCHANGED <<workPtr, workEndL>>
UnchangedHistory == UNCHANGED <<runs, called, due>>

----------------------------------------------------------------------------
(* The main thread.                                                         *)
SetActiveThreads(n) ==
    /\ On(0, "client") /\ runs < MaxRuns
    /\ activeThreads' = n
    /\ Goto(0, "barrier")
    /\ UNCHANGED <<starts, shutdown, starting, workBegin, workEnd, barVars>>
    /\ UnchangedWork /\ UnchangedHistory

(* The reinitialization is one step: where it must not happen is checked    *)
(* before it.  active is the code's num, and differs from every count       *)
(* before the first loop.                                                   *)
NeedsReinit == runs = 0 \/ activeThreads # active

GetSystemBarrier ==
    /\ On(0, "barrier")
    /\ IF NeedsReinit THEN Reinit(activeThreads) /\ UNCHANGED <<at, entered, left>>
                      ELSE UNCHANGED barVars
    /\ Goto(0, "run")
    /\ UNCHANGED <<starts, shutdown, starting, workBegin, workEnd, activeThreads>>
    /\ UnchangedWork /\ UnchangedHistory

Run ==
    /\ On(0, "run")
    /\ starting' = activeThreads
    /\ workBegin' = Begin(runs + 1) /\ workEnd' = End(runs + 1)
    /\ runs' = runs + 1
    /\ due' = [t \in Threads |-> IF t < activeThreads THEN due[t] + Calls ELSE due[t]]
    /\ Goto(0, "cascade")
    /\ UNCHANGED <<starts, shutdown, activeThreads, called, barVars>> /\ UnchangedWork

CleanUp ==
    /\ On(0, "clean")
    /\ workBegin' = Null /\ workEnd' = Null
    /\ Goto(0, "client")
    /\ UNCHANGED <<starts, shutdown, starting, activeThreads, barVars>>
    /\ UnchangedWork /\ UnchangedHistory

Destroy ==
    /\ On(0, "client")
    /\ shutdown' = TRUE
    /\ workBegin' = Null /\ workEnd' = Null
    /\ Goto(0, "release")
    /\ UNCHANGED <<starts, starting, activeThreads, barVars>> /\ UnchangedWork /\ UnchangedHistory

Release(ts) == starts' = [t \in Threads |-> IF t \in ts THEN starts[t] + 1 ELSE starts[t]]

ReleaseActive ==
    /\ On(0, "release")
    /\ Release({t \in Workers : t < activeThreads})
    /\ Goto(0, "join")
    /\ UNCHANGED <<shutdown, starting, workBegin, workEnd, activeThreads, barVars>>
    /\ UnchangedWork /\ UnchangedHistory

ReleaseAll ==
    /\ On(0, "release")
    /\ Release(Workers)
    /\ Goto(0, "join")
    /\ UNCHANGED <<shutdown, starting, workBegin, workEnd, activeThreads, barVars>>
    /\ UnchangedWork /\ UnchangedHistory

Join ==
    /\ On(0, "join")
    /\ \A t \in Workers : On(t, "exit")
    /\ Goto(0, "exit")
    /\ UNCHANGED <<starts, shutdown, starting, workBegin, workEnd, activeThreads, barVars>>
    /\ UnchangedWork /\ UnchangedHistory

----------------------------------------------------------------------------
(* The workers: launch.                                                     *)
Launch(t) ==
    /\ On(t, "launch")
    /\ Goto(t, IF shutdown THEN "exit" ELSE "acquire")
    /\ UNCHANGED <<starts, shutdown, starting, workBegin, workEnd, activeThreads, barVars>>
    /\ UnchangedWork /\ UnchangedHistory

Acquire(t) ==
    /\ On(t, "acquire") /\ starts[t] > 0
    /\ starts' = [starts EXCEPT ![t] = @ - 1]
    /\ Goto(t, "cascade")
    /\ UNCHANGED <<shutdown, starting, workBegin, workEnd, activeThreads, barVars>>
    /\ UnchangedWork /\ UnchangedHistory

----------------------------------------------------------------------------
(* doWork, of all threads.  The posts of one cascade commute.               *)
Woken(t) == {n \in {2 * t + 1, 2 * t + 2} : n < starting}

Cascade(t) ==
    /\ On(t, "cascade")
    /\ Release(Woken(t))
    /\ Goto(t, "begin")
    /\ UNCHANGED <<shutdown, starting, workBegin, workEnd, activeThreads, barVars>>
    /\ UnchangedWork /\ UnchangedHistory

ReadBegin(t) ==
    /\ On(t, "begin")
    /\ workPtr' = [workPtr EXCEPT ![t] = workBegin]
    /\ Goto(t, "end")
    /\ UNCHANGED <<starts, shutdown, starting, workBegin, workEnd, activeThreads, workEndL, barVars>>
    /\ UnchangedHistory

ReadEnd(t) ==
    /\ On(t, "end")
    /\ workEndL' = [workEndL EXCEPT ![t] = workEnd]
    /\ Goto(t, "command")
    /\ UNCHANGED <<starts, shutdown, starting, workBegin, workEnd, activeThreads, workPtr, barVars>>
    /\ UnchangedHistory

More(t) == On(t, "command") /\ workPtr[t] # workEndL[t]
Advance(t) == workPtr' = [workPtr EXCEPT ![t].index = @ + 1]
UnchangedShared == UNCHANGED <<starts, shutdown, starting, workBegin, workEnd, activeThreads, workEndL>>

Call(t) ==
    /\ More(t) /\ Commands[workPtr[t].index] = "call"
    /\ called' = [called EXCEPT ![t] = @ + 1]
    /\ Advance(t)
    /\ UnchangedShared /\ UNCHANGED <<pc, runs, due, barVars>>

EnterWait(t) ==
    /\ More(t) /\ Commands[workPtr[t].index] = "wait"
    /\ Enter(t) /\ Goto(t, "wait")
    /\ UnchangedShared /\ UNCHANGED workPtr /\ UnchangedHistory

(* The last step of wait returns to doWork.                                 *)
StepWait(t) ==
    /\ On(t, "wait") /\ InWait(t)
    /\ \/ left'[t] = left[t] /\ UNCHANGED <<pc, workPtr>>
       \/ left'[t] # left[t] /\ Goto(t, "command") /\ Advance(t)
    /\ UnchangedShared /\ UnchangedHistory

DoneWork(t) ==
    /\ On(t, "command") /\ workPtr[t] = workEndL[t]
    /\ Goto(t, IF t = 0 THEN "clean" ELSE "launch")
    /\ UnchangedShared /\ UNCHANGED <<workPtr, barVars>> /\ UnchangedHistory

DoWork(t) ==
    \/ Cascade(t) \/ ReadBegin(t) \/ ReadEnd(t)
    \/ Call(t) \/ EnterWait(t) \/ StepWait(t) \/ DoneWork(t)

Main ==
    \/ (\E n \in Counts : SetActiveThreads(n))
    \/ GetSystemBarrier \/ Run \/ CleanUp \/ ReleaseAll \/ Join
    \/ DoWork(0)

Worker(t) == Launch(t) \/ Acquire(t) \/ DoWork(t)

Next == Main \/ Destroy \/ \E t \in Workers : Worker(t)

Spec == Init /\ [][Next]_vars
FairSpec == Spec /\ WF_vars(Main \/ Destroy) /\ \A t \in Workers : WF_vars(Worker(t))

----------------------------------------------------------------------------
(* Types, and nobody runs a command of an array that is not there, or past  *)
(* the end of the one it began with: a worker that was late could read the  *)
(* two ends of the range from different runs.                               *)
TypeOK ==
    /\ BarrierTypeOK
    /\ starts \in [Threads -> Nat]
    /\ activeThreads \in 1..MaxThreads /\ starting \in 0..MaxThreads
    /\ \A t \in Threads : workPtr[t].index \in 0..(Len(Commands) + 1)
    /\ \A t \in Threads : On(t, "command") \/ On(t, "wait") => workPtr[t].run = workEndL[t].run

(* run returns when all the work is done: when the main thread is back in   *)
(* the client, each thread has executed the calls of the runs it was part   *)
(* of exactly once, whatever the order in which the tree woke them; and     *)
(* nobody ever executes one more.                                           *)
RunIsComplete ==
    /\ \A t \in Threads : called[t] <= due[t]
    /\ On(0, "client") => called = due

(* The barriers order the commands: nobody executes a command behind a      *)
(* "wait" while a thread of the same run has not come to that "wait".  (The  *)
(* destructor wakes everybody for an empty range.)                          *)
CommandsInStep ==
    ~shutdown => \A t, u \in First(activeThreads), i \in DOMAIN Commands :
        /\ Commands[i] = "wait"
        /\ workPtr[t].run = runs
        /\ workPtr[t].index > i
        => workPtr[u].run = runs /\ workPtr[u].index >= i

(* The barrier of the loops keeps the promise of Barrier, wait after wait,  *)
(* although the sense words are reused at once and wrap around, and a loop  *)
(* begins its first wait while workers are still leaving the last one.      *)
LoopThreads == First(CHOOSE n \in Counts : \A m \in Counts : m <= n)
Abstract == INSTANCE Barrier WITH
    Waiters <- LoopThreads,
    entered <- [t \in LoopThreads |-> entered[t]],
    left <- [t \in LoopThreads |-> left[t]]
ImplementsBarrier == Abstract!Spec

(* The threads wait for each other at the barrier, on their semaphores and  *)
(* in the destructor's join.  They are never all waiting: not inside a run, *)
(* not in the last wait of one run while the main thread is in the next,    *)
(* not with a post that shutdown has made unnecessary.  The only end is     *)
(* that all threads have left.                                              *)
Blocked(t) ==
    \/ On(t, "acquire") /\ starts[t] = 0
    \/ On(t, "wait") /\ Spins(t)
    \/ On(t, "join") /\ \E u \in Workers : ~On(u, "exit")
    \/ On(t, "exit")
NobodyIsStuck == (\A t \in Threads : Blocked(t)) => \A t \in Threads : On(t, "exit")

(* Every run returns, and the destructor joins every worker, wherever they  *)
(* were when shutdown was set.                                              *)
ShutdownEnds == <>[](\A t \in Threads : On(t, "exit"))
=============================================================================
