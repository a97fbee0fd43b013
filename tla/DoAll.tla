------------------------------- MODULE DoAll --------------------------------
(* DoAllWork (include/Galois/Runtime/DoAll.h): every thread takes its block  *)
(* of a range, leaves the second half of it to be stolen, and once it has    *)
(* done the first half takes half of what is left, of its own and then of    *)
(* threads at distances 1, 2, 4 ... from it.                                 *)
EXTENDS Integers, FiniteSets

CONSTANTS
    N,                \* activeThreads
    Dist,             \* the length of the range
    UseStealing

ASSUME DoAllAssumption == N \in Nat \ {0} /\ Dist \in Nat /\ UseStealing \in BOOLEAN

VARIABLES
    begin, end,              \* PrivateState: what the thread has still to do
    stealBegin, stealEnd,    \* SharedState
    stealLock,
    pc,
    distance,                \* x of trySteal, 0 for the own range
    F,                       \* the functor of the thread: the indices it was called with
    outputF                  \* the reduction: how often each index is in it

rangeVars == <<begin, end>>
stealVars == <<stealBegin, stealEnd, stealLock>>
vars == <<rangeVars, stealVars, pc, distance, F, outputF>>

Threads == 0..(N - 1)
Range == 0..(Dist - 1)
Nobody == N

Smaller(a, b) == IF a < b THEN a ELSE b
Larger(a, b) == IF a < b THEN b ELSE a

\* Mutant: the middle is rounded down.
SplitRangeDown(b, e) == b + (e - b) \div 2

\* split_range: the first half is the longer one.
SplitRange(b, e) == b + (e - b + 1) \div 2

\* block_range: the first threads get blocks of the same length, rounded up.
NumPer == Larger((Dist + N - 1) \div N, 1)
BlockBegin(t) == Smaller(NumPer * t, Dist)
BlockEnd(t) == Smaller(NumPer * (t + 1), Dist)

Init ==
    /\ begin = [t \in Threads |-> BlockBegin(t)]
    /\ end = [t \in Threads |-> BlockEnd(t)]
    /\ stealBegin = [t \in Threads |-> 0] /\ stealEnd = [t \in Threads |-> 0]
    /\ stealLock = [t \in Threads |-> Nobody]
    /\ pc = [t \in Threads |-> IF UseStealing THEN "populate" ELSE "process"]
    /\ distance = [t \in Threads |-> 0]
    /\ F = [t \in Threads |-> {}]
    /\ outputF = [i \in Range |-> 0]

Goto(t, label) == pc' = [pc EXCEPT ![t] = label]

\* populateSteal; nobody looks at it before the barrier.
PopulateSteal(t) ==
    /\ pc[t] = "populate"
    /\ IF end[t] - begin[t] > 1
       THEN /\ stealEnd' = [stealEnd EXCEPT ![t] = end[t]]
            /\ stealBegin' = [stealBegin EXCEPT ![t] = SplitRange(begin[t], end[t])]
            /\ end' = [end EXCEPT ![t] = SplitRange(begin[t], end[t])]
       ELSE UNCHANGED <<stealBegin, stealEnd, end>>
    /\ Goto(t, "wait")
    /\ UNCHANGED <<begin, stealLock, distance, F, outputF>>

\* barrier.wait
Wait(t) ==
    /\ pc[t] = "wait"
    /\ \A u \in Threads : pc[u] # "populate"
    /\ Goto(t, "process")
    /\ UNCHANGED <<rangeVars, stealVars, distance, F, outputF>>

\* processRange: one call of the functor, or the end of the own range.
ProcessRange(t) ==
    /\ pc[t] = "process"
    /\ IF begin[t] # end[t]
       THEN /\ F' = [F EXCEPT ![t] = @ \cup {begin[t]}]
            /\ begin' = [begin EXCEPT ![t] = @ + 1]
            /\ UNCHANGED pc
       ELSE /\ Goto(t, IF UseStealing THEN "steal" ELSE "reduce")
            /\ UNCHANGED <<F, begin>>
    /\ distance' = [distance EXCEPT ![t] = 0]
    /\ UNCHANGED <<end, stealVars, outputF>>

Source(t) == (t + distance[t]) % N

\* trySteal: itself, then x = 1, 2, 4 ... as long as x < activeThreads.
NextSource(t) ==
    LET x == IF distance[t] = 0 THEN 1 ELSE 2 * distance[t]
    IN  /\ distance' = [distance EXCEPT ![t] = IF x < N THEN x ELSE 0]
        /\ Goto(t, IF x < N THEN "steal" ELSE "reduce")

\* doSteal: a look without the lock ...
Look(t) ==
    /\ pc[t] = "steal"
    /\ IF stealBegin[Source(t)] # stealEnd[Source(t)]
       THEN Goto(t, "lock") /\ UNCHANGED distance
       ELSE NextSource(t)
    /\ UNCHANGED <<rangeVars, stealVars, F, outputF>>

\* Mutant: the lock is not waited for.
LockNothing(t) ==
    /\ pc[t] = "lock"
    /\ Goto(t, "take")
    /\ UNCHANGED <<rangeVars, stealVars, distance, F, outputF>>

Lock(t) ==
    /\ pc[t] = "lock"
    /\ stealLock[Source(t)] = Nobody
    /\ stealLock' = [stealLock EXCEPT ![Source(t)] = t]
    /\ Goto(t, "take")
    /\ UNCHANGED <<rangeVars, stealBegin, stealEnd, distance, F, outputF>>

\* ... and another one with it, before the first half is taken.
Take(t) ==
    /\ pc[t] = "take"
    /\ IF stealBegin[Source(t)] # stealEnd[Source(t)]
       THEN /\ begin' = [begin EXCEPT ![t] = stealBegin[Source(t)]]
            /\ Goto(t, "split")
       ELSE Goto(t, "unlock") /\ UNCHANGED begin
    /\ UNCHANGED <<end, stealVars, distance, F, outputF>>

Split(t) ==
    /\ pc[t] = "split"
    /\ LET s == Source(t)  middle == SplitRange(stealBegin[s], stealEnd[s])
       IN  /\ end' = [end EXCEPT ![t] = middle]
           /\ stealBegin' = [stealBegin EXCEPT ![s] = middle]
    /\ Goto(t, "unlock")
    /\ UNCHANGED <<begin, stealEnd, stealLock, distance, F, outputF>>

\* Mutant: the lock is kept when there was nothing left.
UnlockIfTaken(t) ==
    /\ pc[t] = "unlock"
    /\ IF begin[t] # end[t]
       THEN /\ stealLock' = [stealLock EXCEPT ![Source(t)] = Nobody]
            /\ Goto(t, "process") /\ UNCHANGED distance
       ELSE NextSource(t) /\ UNCHANGED stealLock
    /\ UNCHANGED <<rangeVars, stealBegin, stealEnd, F, outputF>>

Unlock(t) ==
    /\ pc[t] = "unlock"
    /\ stealLock' = [stealLock EXCEPT ![Source(t)] = Nobody]
    /\ IF begin[t] # end[t] THEN Goto(t, "process") /\ UNCHANGED distance ELSE NextSource(t)
    /\ UNCHANGED <<rangeVars, stealBegin, stealEnd, F, outputF>>

\* doReduce, under reduceLock.
DoReduce(t) ==
    /\ pc[t] = "reduce"
    /\ outputF' = [i \in Range |-> outputF[i] + (IF i \in F[t] THEN 1 ELSE 0)]
    /\ Goto(t, "done")
    /\ UNCHANGED <<rangeVars, stealVars, distance, F>>

Step(t) ==
    \/ PopulateSteal(t) \/ Wait(t) \/ ProcessRange(t) \/ Look(t) \/ Lock(t) \/ Take(t)
    \/ Split(t) \/ Unlock(t) \/ DoReduce(t)

Next == \E t \in Threads : Step(t)

Spec == Init /\ [][Next]_vars
FairSpec == Spec /\ \A t \in Threads : WF_vars(Step(t))

-----------------------------------------------------------------------------
TypeOK ==
    /\ begin \in [Threads -> 0..Dist] /\ end \in [Threads -> 0..Dist]
    /\ stealBegin \in [Threads -> 0..Dist] /\ stealEnd \in [Threads -> 0..Dist]
    /\ stealLock \in [Threads -> 0..N]
    /\ pc \in [Threads -> {"populate", "wait", "process", "steal", "lock", "take", "split", 
                           "unlock", "reduce", "done"}]
    /\ distance \in [Threads -> 0..(N - 1)]
    /\ F \in [Threads -> SUBSET Range]
    /\ outputF \in [Range -> 0..N]

Private(t) == {i \in Range : pc[t] # "split" /\ begin[t] <= i /\ i < end[t]}
Stealable(t) == {i \in Range : stealBegin[t] <= i /\ i < stealEnd[t]}
Holds(t) == Private(t) \cup Stealable(t) \cup F[t]

(* However the halves are split again and stolen from each other, every     *)
(* index is at all times either still to be done by one thread, or to be    *)
(* stolen from one, or done by one: nothing is skipped or done twice.       *)
EachIndexOnce ==
    /\ UNION {Holds(t) : t \in Threads} = Range
    /\ \A t, u \in Threads : t # u => Holds(t) \cap Holds(u) = {}
    /\ \A t \in Threads :
         /\ Private(t) \cap Stealable(t) = {}
         /\ (Private(t) \cup Stealable(t)) \cap F[t] = {}

(* A thread stops stealing after one round of a few neighbours, yet when    *)
(* the last thread is done every index is in the reduction, exactly once.   *)
ReductionComplete ==
    (\A t \in Threads : pc[t] = "done") => \A i \in Range : outputF[i] = 1

(* Every thread comes to its end.                                           *)
LoopEnds == <>(\A t \in Threads : pc[t] = "done")
=============================================================================
