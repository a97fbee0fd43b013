----------------------------- MODULE MultiQueue -----------------------------
(* The optimized MultiQueues (include/Galois/WorkList/MQOptimized): C * nT *)
(* heaps with a lock and a published minimum each (HeapWithLock.h), shared *)
(* by nT threads.  One module for the family, by the kind of buffers a     *)
(* thread has:                                                             *)
(*                                                                         *)
(*   PushBuffered  PopBuffered                                             *)
(*   FALSE         TRUE         MultiQueueProbLocal.h                      *)
(*   FALSE         FALSE        MultiQueueProbProb.h                       *)
(*   TRUE          TRUE         MultiQueueLocalLocal.h                     *)
(*   TRUE          FALSE        MultiQueueLocalProb.h                      *)
(*                                                                         *)
(* A heap is only touched under its lock, so taking the lock and using the *)
(* heap are one step; storing the minimum and unlocking are steps of their *)
(* own, and so is each of the two minima a pop compares without a lock.    *)
(* One worklist, used by all threads: that local_q is static and outlives  *)
(* its worklist is not modelled.                                           *)
EXTENDS Integers, FiniteSets, Sequences

CONSTANTS
    Threads, Tasks,
    Prio,             \* Prio[x]: x.prior(), smaller first
    Dummy,            \* HeapWithLock::dummy, all bits set
    C,                \* queues for each active thread
    Kinds,            \* the kinds of MultiQueue, see above
    PushSize, PopSize,
    Attempts,         \* ATTEMPTS, 4 in the code
    None              \* no thread, no queue yet

ASSUME TasksAssumption == IsFiniteSet(Tasks) /\ Prio \in [Tasks -> 0..Dummy] /\ Dummy \in Nat
ASSUME ThreadsAssumption ==
    /\ IsFiniteSet(Threads) /\ Threads # {}
    /\ C \in Nat \ {0} /\ None \notin Threads \cup Nat
ASSUME SizesAssumption ==
    /\ {PushSize, PopSize, Attempts} \subseteq Nat \ {0}
    /\ Kinds \subseteq [pushBuffered : BOOLEAN, popBuffered : BOOLEAN]

VARIABLES
    kind,             \* the class the client has chosen
    heap, min, lock,  \* the heaps, their published minima, who holds the lock
    popBuffer,        \* popBuffer[t], the next element last
    buffer,           \* pushBuffer[t], the heap pushLocal[t] of LocalProb
    pushQ, popQ,      \* the static local_q of push and of pop
    pc,
    todo,             \* todo[t]: [b, e) of the push that runs
    pair, seen,       \* the two queues drawn, the minimum read of the first
    cand,             \* heap_i after the comparison
    attempt,          \* i of pop
    answer,           \* answer[t]: what the last pop returned, {} for nothing
    pushed, taken     \* history: the elements pushed, and those returned

shared == <<heap, min, lock>>
draws == <<pair, seen, cand, attempt>>
mqVars == <<kind, shared, popBuffer, buffer, pushQ, popQ, pc, todo, draws, answer,
            pushed, taken>>

PushBuffered == kind.pushBuffered
PopBuffered == kind.popBuffered

nQ == C * Cardinality(Threads)
Queues == 0..(nQ - 1)
Own == nQ             \* LocalProb: the index that stands for pushLocal[t]

MQInit ==
    /\ kind \in Kinds
    /\ heap = [q \in Queues |-> {}]
    /\ min = [q \in Queues |-> Dummy]
    /\ lock = [q \in Queues |-> None]
    /\ popBuffer = [t \in Threads |-> << >>]
    /\ buffer = [t \in Threads |-> {}]
    /\ pushQ = [t \in Threads |-> None]
    /\ popQ = [t \in Threads |-> None]
    /\ pc = [t \in Threads |-> "idle"]
    /\ todo = [t \in Threads |-> {}]
    /\ pair = [t \in Threads |-> <<0, 0>>]
    /\ seen = [t \in Threads |-> Dummy]
    /\ cand = [t \in Threads |-> 0]
    /\ attempt = [t \in Threads |-> 0]
    /\ answer = [t \in Threads |-> {}]
    /\ pushed = {}
    /\ taken = {}

Goto(t, label) == pc' = [pc EXCEPT ![t] = label]

Firsts(S) == {x \in S : \A y \in S : Prio[x] <= Prio[y]}
Top(S) == IF S = {} THEN Dummy ELSE Prio[CHOOSE x \in Firsts(S) : TRUE]

\* isFirstLess: an empty queue is never first.
IsFirstLess(v1, v2) == v1 # Dummy /\ (v2 = Dummy \/ v1 < v2)

\* Elements of S extracted one after the other, at most n.
Extractions(S, n) ==
    LET k == IF Cardinality(S) < n THEN Cardinality(S) ELSE n
    IN  {s \in [1..k -> S] : \A i \in 1..k :
           s[i] \in Firsts(S \ {s[j] : j \in 1..(i - 1)})}

Elements(s) == {s[i] : i \in DOMAIN s}
Reversed(s) == [i \in DOMAIN s |-> s[Len(s) + 1 - i]]

Locked(t, q) == lock[q] = None /\ lock' = [lock EXCEPT ![q] = t]

Return(t, x) ==
    /\ answer' = [answer EXCEPT ![t] = {x}]
    /\ taken' = taken \cup {x}

-----------------------------------------------------------------------------
(* push                                                                    *)

\* The first push of a thread draws its local_q.
PushBegin(t, range) ==
    /\ pc[t] = "idle"
    /\ range \in (SUBSET (Tasks \ pushed)) \ {{}}
    /\ todo' = [todo EXCEPT ![t] = range]
    /\ pushed' = pushed \cup range
    /\ answer' = [answer EXCEPT ![t] = {}]
    /\ \E q \in Queues : pushQ' = [pushQ EXCEPT ![t] = IF @ = None THEN q ELSE @]
    /\ Goto(t, IF PushBuffered THEN "fill" ELSE "push")
    /\ UNCHANGED <<kind, shared, popBuffer, buffer, popQ, draws, taken>>

\* Mutant: what is left of the range after one batch is forgotten.
PushBatchOnce(t) ==
    /\ pc[t] = "push"
    /\ Locked(t, pushQ[t])
    /\ \E batch \in (SUBSET todo[t]) \ {{}} :
         heap' = [heap EXCEPT ![pushQ[t]] = @ \cup batch]
    /\ todo' = [todo EXCEPT ![t] = {}]
    /\ cand' = [cand EXCEPT ![t] = pushQ[t]]
    /\ Goto(t, "updateMin")
    /\ UNCHANGED <<kind, min, popBuffer, buffer, pushQ, popQ, pair, seen, attempt, answer,
                   pushed, taken>>

\* A batch of random size goes to the local queue.
PushBatch(t) ==
    /\ pc[t] = "push"
    /\ Locked(t, pushQ[t])
    /\ \E batch \in (SUBSET todo[t]) \ {{}} :
         /\ heap' = [heap EXCEPT ![pushQ[t]] = @ \cup batch]
         /\ todo' = [todo EXCEPT ![t] = @ \ batch]
    /\ cand' = [cand EXCEPT ![t] = pushQ[t]]
    /\ Goto(t, "updateMin")
    /\ UNCHANGED <<kind, min, popBuffer, buffer, pushQ, popQ, pair, seen, attempt, answer,
                   pushed, taken>>

\* try_lock has failed: another queue.
Redraw(t) ==
    /\ pc[t] = "push"
    /\ lock[pushQ[t]] # None
    /\ \E q \in Queues : pushQ' = [pushQ EXCEPT ![t] = q]
    /\ UNCHANGED <<kind, shared, popBuffer, buffer, popQ, pc, todo, draws, answer, pushed, taken>>

\* pushLocally: one element into the push buffer.
PushLocally(t) ==
    /\ pc[t] = "fill"
    /\ \E x \in todo[t] :
         /\ buffer' = [buffer EXCEPT ![t] = @ \cup {x}]
         /\ todo' = [todo EXCEPT ![t] = @ \ {x}]
         /\ Goto(t, IF Cardinality(buffer[t] \cup {x}) >= PushSize THEN "flush"
                    ELSE IF todo[t] = {x} THEN "idle" ELSE "fill")
    /\ UNCHANGED <<kind, shared, popBuffer, pushQ, popQ, draws, answer, pushed, taken>>

\* The full push buffer goes to the first random queue that can be locked.
Flush(t) ==
    /\ pc[t] = "flush"
    /\ \E q \in Queues :
         /\ Locked(t, q)
         /\ heap' = [heap EXCEPT ![q] = @ \cup buffer[t]]
         /\ cand' = [cand EXCEPT ![t] = q]
    /\ buffer' = [buffer EXCEPT ![t] = {}]
    /\ Goto(t, "updateMin")
    /\ UNCHANGED <<kind, min, popBuffer, pushQ, popQ, todo, pair, seen, attempt, answer,
                   pushed, taken>>

\* Mutant: the minimum is only stored by push.
UpdateMinOfPush(t) ==
    /\ pc[t] = "updateMin"
    /\ min' = IF answer[t] = {} THEN [min EXCEPT ![cand[t]] = Top(heap[cand[t]])] ELSE min
    /\ Goto(t, "unlock")
    /\ UNCHANGED <<kind, heap, lock, popBuffer, buffer, pushQ, popQ, todo, draws, answer,
                   pushed, taken>>

UpdateMin(t) ==
    /\ pc[t] = "updateMin"
    /\ min' = [min EXCEPT ![cand[t]] = Top(heap[cand[t]])]
    /\ Goto(t, "unlock")
    /\ UNCHANGED <<kind, heap, lock, popBuffer, buffer, pushQ, popQ, todo, draws, answer,
                   pushed, taken>>

\* The unlock after an element has gone in or out; a push that has more left
\* goes on with another queue.
Unlock(t) ==
    /\ pc[t] = "unlock"
    /\ lock' = [lock EXCEPT ![cand[t]] = None]
    /\ IF todo[t] = {} \/ PushBuffered THEN pushQ' = pushQ
       ELSE \E q \in Queues : pushQ' = [pushQ EXCEPT ![t] = q]
    /\ Goto(t, IF todo[t] = {} THEN "idle" ELSE IF PushBuffered THEN "fill" ELSE "push")
    /\ UNCHANGED <<kind, heap, min, popBuffer, buffer, popQ, todo, draws, answer, pushed, taken>>

-----------------------------------------------------------------------------
(* pop                                                                     *)

PopFromBuffer(t) ==
    /\ pc[t] = "idle"
    /\ popBuffer[t] # << >>
    /\ Return(t, popBuffer[t][Len(popBuffer[t])])
    /\ popBuffer' = [popBuffer EXCEPT ![t] = SubSeq(@, 1, Len(@) - 1)]
    /\ UNCHANGED <<kind, shared, buffer, pushQ, popQ, pc, todo, draws, pushed>>

\* With some probability the *Prob pops try the queue of the last success.
PopBegin(t) ==
    /\ pc[t] = "idle"
    /\ popBuffer[t] = << >>
    /\ attempt' = [attempt EXCEPT ![t] = 0]
    /\ answer' = [answer EXCEPT ![t] = {}]
    /\ IF PopBuffered THEN popQ' = popQ
       ELSE \E q \in Queues : popQ' = [popQ EXCEPT ![t] = IF @ = None THEN q ELSE @]
    /\ \/ Goto(t, "pick")
       \/ ~PopBuffered /\ Goto(t, "tryLocal")
    /\ UNCHANGED <<kind, shared, popBuffer, buffer, pushQ, todo, pair, seen, cand, pushed, taken>>

\* The queues a pop may draw; in LocalProb also its own buffer.
Drawn == IF PushBuffered /\ ~PopBuffered THEN 0..nQ ELSE Queues

MinOf(t, q) == IF q = Own THEN Top(buffer[t]) ELSE min[q]

\* Two different queues (one queue only if there is no other), one minimum.
ReadFirst(t) ==
    /\ pc[t] = "pick"
    /\ \E x, y \in Drawn :
         /\ x # y \/ nQ = 1
         /\ pair' = [pair EXCEPT ![t] = <<x, y>>]
         /\ seen' = [seen EXCEPT ![t] = MinOf(t, x)]
    /\ Goto(t, "compare")
    /\ UNCHANGED <<kind, shared, popBuffer, buffer, pushQ, popQ, todo, cand, attempt, answer,
                   pushed, taken>>

\* The other minimum: which is read first is up to the compiler, so each of
\* the two queues may be the one that wins a tie.
ReadSecond(t) ==
    /\ pc[t] = "compare"
    /\ LET x == pair[t][1]  y == pair[t][2]  other == MinOf(t, y)
       IN  \E q \in {x, y} :
             /\ q = x /\ x # y => ~IsFirstLess(other, seen[t])
             /\ q = y /\ x # y => ~IsFirstLess(seen[t], other)
             /\ cand' = [cand EXCEPT ![t] = q]
    /\ pair' = [pair EXCEPT ![t] = <<0, 0>>]
    /\ seen' = [seen EXCEPT ![t] = Dummy]
    /\ Goto(t, "tryLock")
    /\ UNCHANGED <<kind, shared, popBuffer, buffer, pushQ, popQ, todo, attempt, answer,
                   pushed, taken>>

\* Mutant: the batch is not reversed.
ExtractForward(t, q) ==
    /\ \E s \in Extractions(heap[q], IF PopBuffered THEN PopSize ELSE 1) :
         /\ Return(t, s[1])
         /\ popBuffer' = [popBuffer EXCEPT ![t] = Tail(s)]
         /\ heap' = [heap EXCEPT ![q] = @ \ Elements(s)]
    /\ Goto(t, "updateMin")

\* extract_min: the minimum and, with task batching, the next ones.
ExtractMin(t, q) ==
    /\ \E s \in Extractions(heap[q], IF PopBuffered THEN PopSize ELSE 1) :
         /\ Return(t, s[1])
         /\ popBuffer' = [popBuffer EXCEPT ![t] = Reversed(Tail(s))]
         /\ heap' = [heap EXCEPT ![q] = @ \ Elements(s)]
    /\ Goto(t, "updateMin")

\* The pop takes the lock of queue q and finds elements.
PopNonEmpty(t, q) ==
    /\ q \in Queues
    /\ Locked(t, q)
    /\ heap[q] # {}
    /\ ExtractMin(t, q)
    /\ cand' = [cand EXCEPT ![t] = q]
    /\ popQ' = IF PopBuffered THEN popQ ELSE [popQ EXCEPT ![t] = q]
    /\ UNCHANGED <<kind, min, buffer, pushQ, todo, pair, seen, attempt, pushed>>

\* LocalProb: the own buffer is no shared heap and needs no lock.
PopOwn(t) ==
    /\ buffer[t] # {}
    /\ \E x \in Firsts(buffer[t]) :
         /\ Return(t, x)
         /\ buffer' = [buffer EXCEPT ![t] = @ \ {x}]
    /\ popQ' = [popQ EXCEPT ![t] = Own]
    /\ Goto(t, "idle")
    /\ UNCHANGED <<kind, shared, popBuffer, pushQ, todo, draws, pushed>>

\* Mutant: one attempt too many.
NextAttemptTooMany(t) ==
    /\ attempt' = [attempt EXCEPT ![t] = @ + 1]
    /\ Goto(t, IF attempt[t] + 1 <= Attempts THEN "pick" ELSE "last")

\* An attempt has found an empty queue.
NextAttempt(t) ==
    /\ attempt' = [attempt EXCEPT ![t] = @ + 1]
    /\ Goto(t, IF attempt[t] + 1 < Attempts THEN "pick" ELSE "last")

\* Mutant: an empty heap stays locked.
PopEmptyKeepsLock(t, q, release) ==
    /\ q \in Queues
    /\ Locked(t, q)
    /\ heap[q] = {}
    /\ cand' = [cand EXCEPT ![t] = q]
    /\ NextAttempt(t)
    /\ UNCHANGED <<kind, heap, min, popBuffer, buffer, pushQ, popQ, todo, pair, seen,
                   answer, pushed, taken>>

\* The pop takes the lock of queue q and finds nothing.
PopEmpty(t, q, release) ==
    /\ q \in Queues
    /\ Locked(t, q)
    /\ heap[q] = {}
    /\ cand' = [cand EXCEPT ![t] = q]
    /\ Goto(t, release)
    /\ UNCHANGED <<kind, heap, min, popBuffer, buffer, pushQ, popQ, todo, pair, seen, attempt,
                   answer, pushed, taken>>

\* The own buffer is empty, or the lock is taken.
NoHeap(t, q) ==
    /\ \/ q \in Queues /\ lock[q] # None
       \/ q = Own /\ buffer[t] = {}
    /\ UNCHANGED <<kind, shared, popBuffer, buffer, pushQ, popQ, todo, pair, seen, cand, answer,
                   pushed, taken>>

TryLocal(t) ==
    /\ pc[t] = "tryLocal"
    /\ \/ PopNonEmpty(t, popQ[t])
       \/ popQ[t] = Own /\ PopOwn(t)
       \/ PopEmpty(t, popQ[t], "releaseLocal")
       \/ NoHeap(t, popQ[t]) /\ Goto(t, "pick") /\ UNCHANGED attempt

\* A lock that is taken costs no attempt, an empty queue does.
TryLock(t) ==
    /\ pc[t] = "tryLock"
    /\ \/ PopNonEmpty(t, cand[t])
       \/ cand[t] = Own /\ PopOwn(t)
       \/ PopEmpty(t, cand[t], "release")
       \/ /\ NoHeap(t, cand[t])
          /\ IF cand[t] = Own THEN NextAttempt(t) ELSE Goto(t, "pick") /\ UNCHANGED attempt

Release(t) ==
    /\ pc[t] \in {"release", "releaseLocal"}
    /\ lock' = [lock EXCEPT ![cand[t]] = None]
    /\ IF pc[t] = "releaseLocal"
       THEN Goto(t, "pick") /\ UNCHANGED attempt
       ELSE NextAttempt(t)
    /\ UNCHANGED <<kind, heap, min, popBuffer, buffer, pushQ, popQ, todo, pair, seen, cand,
                   answer, pushed, taken>>

\* The attempts are used up.  LocalLocal fills the pop buffer from the push
\* buffer, LocalProb takes the first of its buffer and spreads others.
Last(t) ==
    /\ pc[t] = "last"
    /\ IF buffer[t] = {}
       THEN Goto(t, "idle") /\ UNCHANGED <<popBuffer, buffer, answer, taken>>
       ELSE \E s \in Extractions(buffer[t], IF PopBuffered THEN PopSize + 1 ELSE 1) :
              /\ Return(t, s[1])
              /\ popBuffer' = [popBuffer EXCEPT ![t] = Tail(s)]
              /\ buffer' = [buffer EXCEPT ![t] = @ \ Elements(s)]
              /\ Goto(t, IF PopBuffered \/ Cardinality(buffer[t]) = 1 THEN "idle" ELSE "spread")
    /\ UNCHANGED <<kind, shared, pushQ, popQ, todo, draws, pushed>>

\* At most four elements go to a random queue.
Spread(t) ==
    /\ pc[t] = "spread"
    /\ \E q \in Queues : \E s \in Extractions(buffer[t], 4) :
         /\ Locked(t, q)
         /\ heap' = [heap EXCEPT ![q] = @ \cup Elements(s)]
         /\ buffer' = [buffer EXCEPT ![t] = @ \ Elements(s)]
         /\ cand' = [cand EXCEPT ![t] = q]
    /\ Goto(t, "updateMin")
    /\ UNCHANGED <<kind, min, popBuffer, pushQ, popQ, todo, pair, seen, attempt, answer,
                   pushed, taken>>

-----------------------------------------------------------------------------
\* The steps inside a push or a pop.
QueueStep(t) ==
    \/ PushBatch(t) \/ Redraw(t) \/ PushLocally(t) \/ Flush(t) \/ UpdateMin(t) \/ Unlock(t)
    \/ ReadFirst(t) \/ ReadSecond(t) \/ TryLocal(t) \/ TryLock(t) \/ Release(t)
    \/ Last(t) \/ Spread(t)

Pop(t) == PopFromBuffer(t) \/ PopBegin(t)

MQNext ==
    \/ \E t \in Threads : QueueStep(t) \/ Pop(t)
    \/ \E t \in Threads, range \in SUBSET Tasks : PushBegin(t, range)

MQSpec == MQInit /\ [][MQNext]_mqVars

-----------------------------------------------------------------------------
MQTypeOK ==
    /\ kind \in Kinds
    /\ heap \in [Queues -> SUBSET Tasks]
    /\ min \in [Queues -> 0..Dummy]
    /\ lock \in [Queues -> Threads \cup {None}]
    /\ popBuffer \in [Threads -> Seq(Tasks)]
    /\ buffer \in [Threads -> SUBSET Tasks]
    /\ pushQ \in [Threads -> Nat \cup {None}]
    /\ popQ \in [Threads -> Nat \cup {None}]
    /\ pc \in [Threads -> {"idle", "push", "fill", "flush", "updateMin", "unlock", "pick",
                           "compare", "tryLocal", "tryLock", "release", "releaseLocal",
                           "last", "spread"}]
    /\ todo \in [Threads -> SUBSET Tasks]
    /\ pair \in [Threads -> Nat \X Nat]
    /\ seen \in [Threads -> 0..Dummy]
    /\ cand \in [Threads -> Nat]
    /\ attempt \in [Threads -> 0..Attempts]
    /\ answer \in [Threads -> SUBSET Tasks]
    /\ pushed \in SUBSET Tasks
    /\ taken \in SUBSET Tasks

InHeaps(x) == {<<"heap", q>> : q \in {r \in Queues : x \in heap[r]}}
InBuffers(x) == {<<"buffer", t>> : t \in {u \in Threads : x \in buffer[u]}}
InCalls(x) == {<<"todo", t>> : t \in {u \in Threads : x \in todo[u]}}
Slots(t, x) == {j \in DOMAIN popBuffer[t] : popBuffer[t][j] = x}
InBatches(x) == UNION {{<<"popBuffer", t, i>> : i \in Slots(t, x)} : t \in Threads}
WithClients(x) == {<<"client">> : y \in taken \cap {x}}

Places(x) == InHeaps(x) \cup InBuffers(x) \cup InCalls(x) \cup InBatches(x) \cup WithClients(x)

(* No element is lost or doubled on its way through push, the buffers, a    *)
(* heap, a batch and pop: it is always in one place.                       *)
EachElementOnce == \A x \in Tasks : Cardinality(Places(x)) = IF x \in pushed THEN 1 ELSE 0

(* Without its lock a heap publishes its real minimum, and the dummy        *)
(* exactly when it is empty or its minimum has the priority of the dummy:   *)
(* what pops read without a lock is stale only while somebody works on it.  *)
MinPublished == \A q \in Queues : lock[q] = None => min[q] = Top(heap[q])

Critical == {"updateMin", "unlock", "release", "releaseLocal"}

(* A lock is held by one thread inside a push or a pop, on the queue that   *)
(* thread works on, and no path out of push or pop leaves one behind.       *)
LocksReleased ==
    /\ \A q \in Queues :
         lock[q] # None => pc[lock[q]] \in Critical /\ cand[lock[q]] = q
    /\ \A t \in Threads : pc[t] \in Critical => lock[cand[t]] = t

(* A batch is handed out in the order of the priorities, in the classes in  *)
(* which every batch comes from a heap.  LocalLocal also fills the buffer   *)
(* from its push buffer, without the reversal extract_min ends with, and    *)
(* hands out such a batch worst first.                                      *)
BatchOrder ==
    ~PushBuffered =>
        \A t \in Threads : \A i, j \in DOMAIN popBuffer[t] :
            i < j => Prio[popBuffer[t][j]] <= Prio[popBuffer[t][i]]
=============================================================================
