-------------------------- MODULE BulkSynchronous ---------------------------
(* BulkSynchronous (include/Galois/WorkList/BulkSynchronous.h) under the     *)
(* loop of ForEachWork::go: two worklists that take turns, and two waits of  *)
(* the system barrier inside pop, between which thread 0 decides whether     *)
(* anything happened in the last round.                                      *)
(*                                                                           *)
(* The containers are what a pop of ChunkedMaster can tell: an item is with  *)
(* its thread or handed out to all, as the push decides, and a pop that      *)
(* finds nothing has seen that neither is left.  The barrier is the abstract *)
(* one of module Barrier.  A round is cut at every access to some and empty. *)
EXTENDS Integers, FiniteSets

CONSTANTS
    N,                \* activeThreads
    Tasks,            \* the work items, each pushed at most once
    PackageOf, MaxPackages,
    MaxAborts         \* bound: conflicts; 0 is a loop that needs no aborts

ASSUME LoopAssumption ==
    /\ N \in Nat \ {0} /\ IsFiniteSet(Tasks) /\ MaxAborts \in Nat
    /\ MaxPackages \in Nat \ {0}
\* Packages are numbered in the order in which threads first meet them.
ASSUME PackageAssumption ==
    /\ PackageOf \in [0..(N - 1) -> 0..(MaxPackages - 1)]
    /\ \A t \in 0..(N - 1) : \A p \in 0..PackageOf[t] : \E u \in 0..t : PackageOf[u] = p

VARIABLES
    wls,              \* wls[i][t]: what only t can pop of wls[i]
    shared,           \* shared[i]: what everybody can
    round,            \* TLD::round of each thread
    some, empty,
    entered, left,    \* the barrier
    current,          \* the item a thread processes, with its retries
    aborted,          \* the queues of AbortHandler
    pc,
    born,             \* history: the round an item is to be processed in
    turn,             \* history: the round a thread is in
    done,             \* history: the items processed
    aborts

barVars == <<entered, left>>
listVars == <<wls, shared, some, empty>>
vars == <<listVars, round, barVars, current, aborted, pc, born, turn, done, aborts>>

Threads == 0..(N - 1)
INSTANCE AbortPolicies
Bar == INSTANCE Barrier WITH Waiters <- Threads

Unborn == 0

Init ==
    /\ wls = [i \in {0, 1} |-> [t \in Threads |-> {}]]
    /\ shared = [i \in {0, 1} |-> {}]
    /\ round = [t \in Threads |-> 0]
    /\ some \in BOOLEAN          \* not initialized
    /\ empty = FALSE
    /\ Bar!Init
    /\ current = [t \in Threads |-> {}]
    /\ aborted = [t \in Threads |-> {}]
    /\ pc = [t \in Threads |-> "initial"]
    /\ born = [x \in Tasks |-> Unborn]
    /\ turn = [t \in Threads |-> 0]
    /\ done = {}
    /\ aborts = 0

On(t, label) == pc[t] = label
Goto(t, label) == pc' = [pc EXCEPT ![t] = label]
Unpushed == {x \in Tasks : born[x] = Unborn}

PushTo(t, i, xs) ==
    /\ \E out \in SUBSET (wls[i][t] \union xs) :
          /\ shared' = [shared EXCEPT ![i] = @ \union out]
          /\ wls' = [wls EXCEPT ![i][t] = (@ \union xs) \ out]
          /\ xs = {} => out = {}
    /\ born' = [x \in Tasks |-> IF x \in xs THEN turn[t] + 1 ELSE born[x]]

NextRound(r) == (r + 1) % 2

PushCurrent(t, xs) == PushTo(t, round[t], xs)
Push(t, xs) == PushTo(t, NextRound(round[t]), xs)

PushInitial(t) ==
    /\ On(t, "initial")
    /\ \E xs \in SUBSET Unpushed : Push(t, xs)
    /\ round' = [round EXCEPT ![t] = 1]
    /\ turn' = [turn EXCEPT ![t] = 1]
    /\ some' = TRUE
    /\ Bar!Enter(t) /\ Goto(t, "start")
    /\ UNCHANGED <<empty, current, aborted, done, aborts>>

(* The barrier command of the loop, before the first pop.                    *)
Start(t) ==
    /\ On(t, "start") /\ Bar!Leave(t)
    /\ Goto(t, "pop")
    /\ UNCHANGED <<listVars, round, current, aborted, born, turn, done, aborts>>

(* pop of the container.                                                     *)
Take(t, next) ==
    \E x \in wls[round[t]][t] \union shared[round[t]] :
        /\ wls' = [wls EXCEPT ![round[t]][t] = @ \ {x}]
        /\ shared' = [shared EXCEPT ![round[t]] = @ \ {x}]
        /\ current' = [current EXCEPT ![t] = {<<x, 0>>}]
        /\ Goto(t, next)

NothingToTake(t) == wls[round[t]][t] = {} /\ shared[round[t]] = {}

PopEmpty(t) ==
    /\ On(t, "pop") /\ empty
    /\ Goto(t, "aborts")
    /\ UNCHANGED <<listVars, round, barVars, current, aborted, born, turn, done, aborts>>

Pop(t) ==
    /\ On(t, "pop") /\ ~empty
    /\ Take(t, "process")
    /\ UNCHANGED <<round, some, empty, barVars, aborted, born, turn, done, aborts>>

RoundDone(t) ==
    /\ On(t, "pop") /\ ~empty /\ NothingToTake(t)
    /\ Bar!Enter(t) /\ Goto(t, "firstWait")
    /\ UNCHANGED <<listVars, round, current, aborted, born, turn, done, aborts>>

FirstWait(t) ==
    /\ On(t, "firstWait") /\ Bar!Leave(t)
    /\ Goto(t, "between")
    /\ UNCHANGED <<listVars, round, current, aborted, born, turn, done, aborts>>

Decide(t) ==
    IF t = 0 THEN empty' = (empty \/ ~some) /\ some' = FALSE
             ELSE UNCHANGED <<empty, some>>

DecideAndReturn(t) ==
    /\ On(t, "between")
    /\ Decide(t)
    /\ IF empty' THEN Goto(t, "pop") /\ UNCHANGED <<round, turn, barVars>>
       ELSE /\ round' = [round EXCEPT ![t] = NextRound(@)]
            /\ turn' = [turn EXCEPT ![t] = @ + 1]
            /\ Bar!Enter(t) /\ Goto(t, "secondWait")
    /\ UNCHANGED <<wls, shared, current, aborted, born, done, aborts>>

Between(t) ==
    /\ On(t, "between")
    /\ Decide(t)
    /\ round' = [round EXCEPT ![t] = NextRound(@)]
    /\ turn' = [turn EXCEPT ![t] = @ + 1]
    /\ Bar!Enter(t) /\ Goto(t, "secondWait")
    /\ UNCHANGED <<wls, shared, current, aborted, born, done, aborts>>

SecondWait(t) ==
    /\ On(t, "secondWait") /\ Bar!Leave(t)
    /\ Goto(t, "first")
    /\ UNCHANGED <<listVars, round, current, aborted, born, turn, done, aborts>>

FirstOfRound(t) ==
    /\ On(t, "first")
    /\ Take(t, "some")
    /\ UNCHANGED <<round, some, empty, barVars, aborted, born, turn, done, aborts>>

NoneInRound(t) ==
    /\ On(t, "first") /\ NothingToTake(t)
    /\ Goto(t, "pop")
    /\ UNCHANGED <<listVars, round, barVars, current, aborted, born, turn, done, aborts>>

SomeForgotten(t) ==
    /\ On(t, "some")
    /\ Goto(t, "process")
    /\ UNCHANGED <<listVars, round, barVars, current, aborted, born, turn, done, aborts>>

Some(t) ==
    /\ On(t, "some")
    /\ some' = TRUE
    /\ Goto(t, "process")
    /\ UNCHANGED <<wls, shared, round, empty, barVars, current, aborted, born, turn, done, aborts>>

Commit(t, next) ==
    /\ \E xs \in SUBSET Unpushed : Push(t, xs)
    /\ done' = done \union {item[1] : item \in current[t]}
    /\ current' = [current EXCEPT ![t] = {}]
    /\ Goto(t, next)
    /\ UNCHANGED <<round, some, empty, barVars, aborted, turn, aborts>>

Process(t) == On(t, "process") /\ Commit(t, "pop")

AbortForgets(t, u, retries) ==
    /\ aborts < MaxAborts
    /\ aborts' = aborts + 1
    /\ current' = [current EXCEPT ![t] = {}]
    /\ UNCHANGED <<listVars, round, barVars, aborted, born, turn, done>>

AbortIteration(t, u, retries) ==
    /\ aborts < MaxAborts
    /\ aborts' = aborts + 1
    /\ aborted' = [aborted EXCEPT ![u] = @ \union {<<item[1], retries>> : item \in current[t]}]
    /\ current' = [current EXCEPT ![t] = {}]
    /\ UNCHANGED <<listVars, round, barVars, born, turn, done>>

Abort(t) == On(t, "process") /\ AbortIteration(t, t, 1) /\ Goto(t, "aborts")

(* handleAborts, then the next call of pop.                                  *)
PopAborted(t) ==
    /\ On(t, "aborts")
    /\ \E item \in aborted[t] :
          /\ aborted' = [aborted EXCEPT ![t] = @ \ {item}]
          /\ current' = [current EXCEPT ![t] = {item}]
    /\ Goto(t, "again")
    /\ UNCHANGED <<listVars, round, barVars, born, turn, done, aborts>>

ProcessAborted(t) == On(t, "again") /\ Commit(t, "aborts")

AbortAgain(t) ==
    /\ On(t, "again")
    /\ \E item \in current[t] : AbortIteration(t, QueueFor(t, item[2] + 1), item[2] + 1)
    /\ Goto(t, "pop")

NoneAborted(t) ==
    /\ On(t, "aborts") /\ aborted[t] = {}
    /\ Goto(t, "pop")
    /\ UNCHANGED <<listVars, round, barVars, current, aborted, born, turn, done, aborts>>

Step(t) ==
    \/ PushInitial(t) \/ Start(t)
    \/ PopEmpty(t) \/ Pop(t) \/ RoundDone(t) \/ FirstWait(t) \/ Between(t)
    \/ SecondWait(t) \/ FirstOfRound(t) \/ NoneInRound(t) \/ Some(t)
    \/ Process(t) \/ Abort(t)
    \/ PopAborted(t) \/ ProcessAborted(t) \/ AbortAgain(t) \/ NoneAborted(t)

Next == \E t \in Threads : Step(t)

Spec == Init /\ [][Next]_vars
FairSpec == Spec /\ \A t \in Threads : WF_vars(Step(t))

-----------------------------------------------------------------------------
Queued == {x \in Tasks : \E i \in {0, 1}, t \in Threads : x \in shared[i] \union wls[i][t]}
InWork == {item[1] : item \in UNION {current[t] \union aborted[t] : t \in Threads}}

(* "All newly created work is processed after all the current work in a      *)
(* round is completed" (BulkSynchronous.h:34): while a thread works on an    *)
(* item, nothing of an earlier round is left anywhere; nobody is more than   *)
(* one turn ahead; and the two worklists hold the items of two neighbouring  *)
(* rounds.  That is so until an iteration is aborted: ForEachWork repeats it   *)
(* outside the worklist, when its thread may be in another round.            *)
RoundsDoNotMix ==
    aborts = 0 => \A t \in Threads, x \in Tasks :
        /\ x \in {item[1] : item \in current[t]}
        => /\ \A y \in Queued \union InWork : born[y] >= born[x]
           /\ \A u \in Threads : turn[u] = born[x]

(* Once a pop has found the end, nothing is left and nothing is pushed: the  *)
(* worklists will never be looked at again.  An aborted iteration that is      *)
(* repeated pushes past the round the others are in, and breaks it.          *)
EmptyIsFinal == aborts = 0 /\ empty => Queued = {}

TypeOK ==
    /\ wls \in [{0, 1} -> [Threads -> SUBSET Tasks]]
    /\ shared \in [{0, 1} -> SUBSET Tasks]
    /\ round \in [Threads -> {0, 1}]
    /\ some \in BOOLEAN /\ empty \in BOOLEAN
    /\ \A t \in Threads : current[t] \union aborted[t] \subseteq Tasks \X Nat

Kinds == {"own", "shared", "current", "aborted", "done"}

\* x is there; i is 0 where there is one for both lists, t where there is one for all.
At(kind, i, t, x) ==
    \/ kind = "own" /\ x \in wls[i][t]
    \/ kind = "shared" /\ t = 0 /\ x \in shared[i]
    \/ kind = "current" /\ i = 0 /\ \E item \in current[t] : item[1] = x
    \/ kind = "aborted" /\ i = 0 /\ \E item \in aborted[t] : item[1] = x
    \/ kind = "done" /\ i = 0 /\ t = 0 /\ x \in done

Places(x) == {p \in Kinds \X {0, 1} \X Threads : At(p[1], p[2], p[3], x)}

(* Also with conflicts, an item that was pushed is in exactly one place: a   *)
(* worklist, the hands of a thread, a queue of aborted items, or done.       *)
ItemsKept == TypeOK /\ \A x \in Tasks \ Unpushed : Cardinality(Places(x)) = 1

(* The rounds come to an end, all that was pushed is processed, and then     *)
(* every pop of every thread answers: nobody hangs in a wait that others     *)
(* have left for good.  After an abort only the second is certain.           *)
RoundsEnd ==
    /\ <>[](aborts # 0 \/ (empty /\ Queued \union InWork = {}))
    /\ \A t \in Threads : []<>On(t, "aborts")
=============================================================================
