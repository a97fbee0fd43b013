# Verification of the Multi-Queue based schedulers

TLA+ models, model-checking runs and machine-checked proofs for this repository: the Galois 2.2.1
runtime extended with priority schedulers built on the Stealing Multi-Queue (SMQ) and on optimized
MultiQueues. Paths below are relative to `src/Galois-2.2.1/`; `WL/` stands for
`include/Galois/WorkList/` and `RT/` for `include/Galois/Runtime/`.

## The system

A parallel loop (`for_each`) is run by `activeThreads` threads. Each of them pops an item from a
shared worklist, runs the operator on it, and pushes the new items the operator made. Operators
that conflict are aborted and tried again later. A thread that finds no work calls the termination
detector; when the detector announces the end, all threads leave through a barrier and the thread
pool goes back to sleep. The schedulers of this repository are worklists behind this interface.

### Inventory

| Component | State | Operations | Interacts with | Hard behaviour | What makes it correct |
|---|---|---|---|---|---|
| Stealing Multi-Queue `WL/StealingMultiQueue.h` | per thread a heap, a steal buffer with a version, the rest of a stolen batch | push, pop, and inside: fill, steal, read the minimum | every other thread's steal buffer, without locks | plain memory copied while it is written; retries; stale minima | no element lost or doubled, batches never torn, best element first, empty only when empty |
| SMQ NUMA `WL/StealingMultiQueueNuma.h`, `WL/MQOptimized/NUMA.h` | the same | the same, victims chosen by node | thread-to-node arithmetic | index arithmetic at node borders | every heap can be chosen, indices in range |
| Optimized MultiQueues `WL/MQOptimized/` | locked heaps with an atomic minimum, thread-local batches | push, pop with batches or temporal locality | `SimpleLock` of two heaps | try-lock failures, minima read without lock, pop that gives up | no loss, no double, lock pairs without deadlock |
| Adaptive MultiQueues `WL/Adaptive*.h`, `WL/experimental_adaptive_mqs/` | as above, with tuned parameters | as above | as above | as above | as above |
| for_each executor `RT/ParallelWork.h` | abort queues, break flag, push buffers | the loop of each thread, commit, abort, break | worklist, detector, barrier, conflict detection | aborts into other threads' queues, loops left early | every item committed once when a loop ends |
| Ring detector `src/Termination.cpp` 38-117 | a token and three colours per thread | initializeThread, localTermination | executor; the epoch is read by reclamation | token passed in two writes, work moved behind the token | announced only when all work is done, and then announced |
| Tree detector `src/Termination.cpp` 126-234 | tokens up and down a tree | the same | not selected by `getSystemTermination` | the same | the same |
| Barriers `src/Barrier.cpp` | counters and sense flags | wait, reinit | all executors | reuse, tree of packages | nobody passes before all arrive |
| Thread pool `src/ThreadPool_pthread.cpp` | semaphores, command range | run, doWork, cascade | all executors | wake-up tree, shutdown | each command run once by each thread; run returns after all |
| Conflict detection `src/Context.cpp` | lock word per object, list per context | acquire, release, commit, cancel | locks, executor | try-lock and ownership in two steps | an object has one owner; all released at the end |
| Locks `RT/ll/SimpleLock.h`, `PtrLock.h` | one word | lock, try_lock, unlock, CAS | everything | lock bit in a pointer | mutual exclusion |
| OBIM `WL/Obim.h` and variants | local maps, master log | push, pop, slow updates | chunked worklists inside | log replay | a local map agrees with the log |
| Chunked worklists `WL/Chunked.h` and others | chunks per thread, queues per package | push, pop | heads of other packages | chunk hand-over | no loss, no double |
| Bulk-synchronous `WL/BulkSynchronous.h` | two worklists, a round counter | push, pop | barrier inside pop | last thread's decision | rounds do not mix |
| do_all `RT/DoAll.h` | ranges per thread | steal, run | own termination | stealing of halves | each index once |
| Topology `src/ll/HWTopoLinux.cpp` | packages, leaders | lookups | policies, barriers | numbering | leaders are the first threads |
| Deterministic and ordered executors `RT/DeterministicWork.h` | windows of items | rounds of inspection and commit | conflict detection | not used by the schedulers | same result for every schedule |
| Per-thread storage, memory, containers, graphs, statistics, applications | | | | | |
| k-LSM, LLVM | vendored | | | | |

`PROJECT.json` lists every component with its files and status, and every hazard at its line.

## Plan

Done, in this order:

1. The SMQ protocol, the abstract worklist it implements, the proof that steals are intact, and the
   proof of the refinement.
2. The executor with the ring detector, an inductive invariant and the proofs of its safety.
3. The optimized MultiQueues, alone and under the loop, and the proof of their safety.
4. The barrier that loops use, refining an abstract one, and the thread pool that runs it, with the
   proof of the refinement and of the pool.
5. Conflict detection with its lock words, and the proofs of mutual exclusion and of its chains.
6. The other worklists: chunked and OBIM, with the proofs of their refinements, and the
   bulk-synchronous one, with the proof that its rounds do not mix.
7. `do_all` with stealing, and the proof that each index is done once.

What could come next: the arithmetic that maps threads to NUMA nodes, the d-ary heaps below the
queues, and the deterministic executor.

## Modules

| Module | Models | How |
|---|---|---|
| `StealingMultiQueue` | `WL/StealingMultiQueue.h` | one action per shared memory access |
| `WorkListOps`, `OwnedWorkList` | the worklist interface, `WL/WorkList.h` 89-102 | what each thread owns; abstract specification |
| `MultiQueue` | `WL/MQOptimized/`: `HeapWithLock.h`, `MultiQueueProbLocal.h`, `MultiQueueProbProb.h`, `MultiQueueLocalLocal.h`, `MultiQueueLocalProb.h` | one module for the four classes, told apart by `kind` |
| `MultiQueueLoop` | the loop of `go()` over a MultiQueue | `MultiQueue` composed with `TerminationRing` |
| `TerminationRing` | `LocalTerminationDetection`, `src/Termination.cpp` 38-117 | steps of the detector |
| `AbortPolicies` | `AbortHandler`, `RT/ParallelWork.h` | who gets an aborted item |
| `ForEachWork` | `ForEachWork`, `for_each_impl`, `RT/ParallelWork.h` | who calls the detector, when |
| `Barrier` | `RT/Barrier.h` | abstract specification of a barrier |
| `TopoBarrier` | `TopoBarrier` and `getSystemBarrier`, `src/Barrier.cpp` | one action per store, decrement or read that ends a spin |
| `ThreadPool` | `src/ThreadPool_pthread.cpp` | semaphores, cascade, command range; runs `TopoBarrier` |
| `ConflictDetection` | `src/Context.cpp`, `RT/Context.h`, `RT/ll/PtrLock.h` | one action per access to a lock word or chain |
| `ChunkedMaster` | `WL/Chunked.h` | chunks of each thread, queues of each package |
| `BulkSynchronous` | `WL/BulkSynchronous.h` under the loop of `go()` | over the abstract `Barrier` |
| `Obim` | `OrderedByIntegerMetric`, `WL/Obim.h` | local maps, master log, scans |
| `DoAll` | `RT/DoAll.h`, `include/Galois/gstl.h` | ranges, their locks, the reduction |
| `StealBufferInvariant`, `ForEachInvariant` | | inductive invariants |
| `*Proofs` | | theorems; those about `ConflictDetection` are in `ForEachProofs` |
| `MC*` | | instances for TLC |

The modules meet in four places. `ForEachWork` uses the worklist of `WorkListOps`; the SMQ, the
chunked worklist and OBIM are shown to implement the same interface (`ImplementsWorkList`).
`BulkSynchronous` uses the abstract `Barrier`, which `TopoBarrier` implements inside `ThreadPool`.
`MultiQueueLoop` puts the MultiQueue, which does *not* implement the interface, under the loop and
the ring. `BulkSynchronous` and `ForEachWork` share `AbortPolicies`.

Some definitions exist twice, the second under a name that says what is different
(`AddWithoutLink` next to `AddToNhood`, `WakeNodeTooFar` next to `WakeNode`). The second is a
plausible mistake, used by no specification; `PROJECT.json` lists for each property the mistake
that breaks it.

### StealingMultiQueue

`heap[t]` is the private heap as a set; a pop takes any element that no other one beats, which is
what the d-ary heap promises (ties in any order). `cells[t]` is `stealBuffer`, `version[t]` the
counter, `stealBuffers[t]` the thread's rest of a stolen batch; `frame[t]` holds the locals of the
calls in progress. Each atomic load, compare-and-swap and increment is one action; the copy of the
plain array is one action per cell, and the owner's assignment is two, between which the cells read
as `Torn`. Thread-private computation goes with the access before it.

The properties: `StealIntegrity` (a compare-and-swap can only succeed on a copy that is exactly the
buffer), `FillOnlyStolen` (the owner overwrites only what is stolen), `NothingTwice` (no element has
two owners, over heap, buffer, batch being filled, stolen rest, and the element in a pop's hand),
`ExtractsBest` (extractMin returns an element at least as good as everything its thread still owns,
despite thieves between reading the minimum and taking it), `BatchBestLast` and
`EmptyPopOwnsNothing`. `ImplementsWorkList` maps `Owned(t)` to `OwnedWorkList`: a steal takes effect
at the compare-and-swap, an empty answer at the step that ends the call; no element can get lost
without breaking it. `AllDelivered` is the liveness half: what is pushed is popped by somebody.

Assumptions. Memory is sequentially consistent: the code's acquire/release operations are enough on
x86, where it is used; a weaker machine is not modelled. The random numbers are arbitrary choices.
No client pushes the dummy element. `SpuriousCas` says whether `compare_exchange_weak` may fail on
an equal version. With it `EmptyPopOwnsNothing` fails: an owner whose steal from its own buffer
fails takes the buffer for empty, and may report an empty queue. On x86 the weak form does not fail
spuriously, so `SpuriousCas` is FALSE in the runs; the theorems say when they need that.

### MultiQueue and MultiQueueLoop

A MultiQueue has `C` locked heaps per thread; `min[q]` is what a heap publishes of its minimum, read
by pops without the lock. `kind` says which of the four classes it is: `pushBuffered` for the
`Local...` ones with a buffer for pushes, `popBuffered` for the `...Local` ones that take a batch out
of a heap at once, temporal locality otherwise. A pop compares two queues, tries to lock the better
one, gives up an attempt when it is empty, and after `Attempts` of them looks at what its own thread
kept back. Reading the first minimum, reading the second one, try_lock with the work under the lock,
`updateMin` and `unlock` are separate actions. `Prio` includes the priority of the dummy, which a
client may use: such an element is in a heap that looks empty.

`EachElementOnce`: every pushed element is in one heap, buffer, batch or call, or was returned, at
every step. `MinPublished`: the minimum that is read without a lock is stale only while somebody
holds the lock. `LocksReleased`: no path of push or pop leaves a lock behind. `BatchOrder`: a batch
is handed out best first. The last one excludes the classes with a push buffer: a thread of
MultiQueueLocalLocal that gives up takes a batch from its own push buffer forwards
(`MultiQueueLocalLocal.h` 216-219) and pops it from the back, the worst of the rest first. Nothing
in the repository promises otherwise. Two details are left out: the single-value push of
`MultiQueueLocalProb`, which does not compile when instantiated, and `local_q`, a `static` that
outlives the worklist (`MultiQueueProbLocal.h` 136): with a second loop on fewer threads it indexes
`heaps` past its end, which is undefined.

`MultiQueueLoop` is the loop of `go()` over it, without aborts and breaks. Its run is expected to
find a violation: a pop answers empty after some attempts at random although elements are left
(`MultiQueueProbLocal.h` 194), so all threads can pass the token white twice, and the thread that
then draws the right queue has work after the end was announced. `src/Termination.cpp:87` asserts
that this does not happen. If nobody draws it, the loop ends with the element in its heap. The run
uses one attempt to be quick; the violation is there with the code's four attempts, too.

### TerminationRing, AbortPolicies and ForEachWork

`ForEachWork` is the loop of `go()`. A thread pops and processes until its worklist answers empty or
its limit is reached (`Limited`: all threads in loops that may break, the package leaders in loops
that may abort), then runs its queue of aborted items, reports `didWork` to `localTermination`, and
looks at `globalTerm` and `broke`. A conflict is an arbitrary choice and ends `runQueue`; the item
goes to the own queue first and then up the tree that `doublePolicy` or `basicPolicy` describe. The
operator may push items, overflow its push buffer (`FastPushBack`) and break the loop. After a loop
another one may follow with a new worklist and the old detector.

The worklist is `WorkListOps`: a pop answers empty only when its thread owns nothing, and a steal
moves elements in one step. `localTermination` is one action, because nobody else touches a thread's
colours and its `hasToken` can only become true; `propToken` is two more, colour and token. The
order of the abort queue (a FIFO) is left out, and so are the token's epoch and `first`, which never
influence control.

The properties: `NoWorkAfterGlobalTerm` extends the assertion at `src/Termination.cpp:87` to work
that is still queued anywhere; `OneToken` contains the assertion at line 105; `AllCommitted` is what
the caller of `for_each` relies on; `LoopEnds` is termination detection's liveness half.

### Barrier, TopoBarrier and ThreadPool

`Barrier` counts for each thread the waits it has entered and left; nobody leaves a wait before all
have entered it. `TopoBarrier` is the tree of packages the code uses: threads report to the leader
of their package, leaders along a tree of fan-in four, and the release goes down a binary tree and
through one sense word per package. `sense` is an unsigned that only counts up, here modulo
`SenseValues`. `ThreadPool` runs it: the main thread sets the number of threads, publishes the
command range, posts the first semaphore, and everybody wakes two others; a worker reads `begin`
and `end` of the range, executes its commands and sleeps again; `run` itself waits for nobody. A
command is a call or a wait of the system barrier. The destructor sets `shutdown`, posts everybody
and joins. `LastWaitAssumption`: the commands end with a wait, as all callers of `run` see to
(`RT/ParallelWork.h` 603-664, `RT/DoAll.h` 174, `RT/DeterministicWork.h` 1526, `src/PreAlloc.cpp`
31); without it `run` would return, and its array of commands be gone, before workers are through.

`TypeOK` includes that nobody runs into an array of commands that is gone. `RunIsComplete`: when
`run` returns, each thread has executed the calls of all runs it was part of, which is due to the
wait at the end of a loop's commands. `CommandsInStep`: nobody executes a command behind a wait
before all have come to that wait. `ImplementsBarrier` is the refinement of `Barrier`. `NobodyIsStuck`:
the threads are never all `Blocked`, that is asleep at a semaphore without a post, spinning in either
loop of `wait` (`Spins`) or joining; the only end is that all have left. `ShutdownEnds` is liveness,
and includes that every run returns. The number of threads stays the same in all runs: `getSystemBarrier` reinitializes the
barrier when it changes (`src/Barrier.cpp:270`) while workers of the loop before may still be in its
last wait, which line 209 calls "not safe".

### ConflictDetection

A context acquires the objects its operator asks for. `tryAcquire` takes the lock bit with a
fetch-and-or, sets the owner with a store, and links the object into the context's chain; `acquire`
of an object that is locked reads the owner and returns if it is the context itself, otherwise the
iteration is cancelled. `commitIteration` and `cancelIteration` unlink the objects one by one and
release each. `MutualExclusion`: no object is held by two iterations, the word of an object names
the one that holds it, and nobody is cancelled over an object it holds itself (mutant
`ConflictWithItself`): it would meet it again whenever it is repeated. `ListsIntact`: what an iteration holds is on its chain, which is not
shared and has an end, so that everything is given back; the comment "ORDER MATTERS!"
(`src/Context.cpp:164`) is about this one. `IterationsEnd`: every iteration commits or is cancelled.

### ChunkedMaster, BulkSynchronous and Obim

`ChunkedMaster`: a thread pushes into its `next` chunk and pops from its `cur` one (or from the same
one, as a stack); full chunks go to the queue of its package, and a thread with nothing left looks
at the queues one by one, an action each. `scan` counts the queues looked at: the loops of
`popChunk` go once around, from the own package on. The lock of a queue of chunks makes its
operations atomic. A chunk size of one is left out: `emplacei` then pushes each new chunk at once,
and the difference between an empty chunk and none, which the model does not make, begins to count.

`BulkSynchronous`: two worklists that take turns. A thread with nothing left in the round waits,
thread 0 decides by `some` whether the round that ends created any items, all wait again.
`RoundsDoNotMix`, `EmptyIsFinal` and `RoundsEnd` are what a reader of the code relies on,
`ItemsKept` is conservation. An aborted iteration may be repeated by a thread that is in another
round, and its pushes then go to the wrong one (`WL/BulkSynchronous.h` 98-105), and after `empty` is
set such an item can still be run; `RoundsDoNotMix` and `EmptyIsFinal` are therefore about loops
without aborts so far, `ItemsKept` and `RoundsEnd` about all. `ItemsKept` says where an item is, not
that it is run: what a repeated iteration pushes after `empty` is set may stay in a list that nobody
pops. A pop of the underlying list takes one item and leaves the rest where others can take it,
where a chunk would become private; and a thread does not leave the worklist after 32 iterations.
Neither matters for rounds.

`Obim`: each thread has a map from indices to bins and a count of the log entries it has replayed.
`updateLocal`, the search for a bin, and `masterLock` with the second replay under it are separate
actions; so are the steps of `slowPop`, which reads the `scanStart` of the threads of its package
one by one and then looks at the bins. `MapsFollowLog`: the map of a thread is the
part of the log it has replayed, whatever others append meanwhile. The bins are
worklists of the interface. Three things are left out: the reading of `masterLog` without the lock
while `push_back` may move it (lines 160-169; a data race inside `std::deque`), the memory of the
bins, and the monotonic variants. `BlockPeriod` says when the fast pop gives way to the scan: "every
2^BlockPeriod iterations" (line 73), but `numPops++ & (((1ull << BlockPeriod) - 1) == 0)` (line 647)
is zero for every positive one, so that only negative ones do; the model follows the code. A push
into a bin and the lowering of `scanStart` with it are one action.

For all of them but the bulk-synchronous worklist, `ImplementsWorkList` is the same refinement as
that of the SMQ, and `AllDelivered` says that threads that keep popping find everything.

### DoAll

A thread takes its block, leaves the second half in the shared part, does the first half and then
looks for more: in its own shared part, then in those at distances 1, 2, 4 ... from it. It looks at
both ends without the lock, locks, looks again, takes the first half and unlocks. `EachIndexOnce`:
nothing is done twice or left by everybody. `ReductionComplete`: at the end every index is in the
reduction once. `LoopEnds`: every thread comes to its end. The loop is one with a reduction
(`needsReduce`); without, threads are done one step earlier.

## Runs

| Run | Instance | Shows |
|---|---|---|
| `smq_two_threads` | 2 threads, 3 elements with a tie, batches of 3, fair | order, refinement of `OwnedWorkList`, delivery |
| `smq_three_threads` | 3 threads, 2 elements, batches of 2 | two thieves and an owner on one buffer: integrity, no doubles, honest empty answers |
| `for_each_simple` | 4 threads, 3 items | detection with steals in both directions |
| `for_each_aborts` | 3 threads, 2 items, 2 conflicts, limit 1, 2 loops with breaks, fair | items moving between abort queues, a second loop after a broken one, every loop ends |
| `multi_queue` | 2 threads, one heap each, 3 elements, batches of up to 3, 2 attempts, all four classes | conservation, minima, locks, order |
| `multi_queue_loop` | 2 threads, 4 heaps, 1 element, 1 attempt | work after the end (expected violation) |
| `thread_pool` | 5 threads on 4 packages, 2 runs of call, wait, call, wait, fair | the cascade, the barrier inside it, no deadlock, return and shutdown |
| `conflicts` | 3 contexts, 2 objects, fair | ownership, no conflict with itself, chains, every iteration ends |
| `bulk_synchronous` | 2 threads on 2 packages, 3 items, 2 conflicts, fair | rounds, the end, conservation |
| `chunked` | 3 threads on 2 packages, 3 items, chunks of 2, FIFO and stack, fair | refinement of `OwnedWorkList`, delivery |
| `obim` | 2 threads, 3 items in 2 bins, three classes, fair | replay, refinement, delivery |
| `do_all` | 4 threads, 9 indices, fair | each index once, reduction, end |

`kind`, `isStack` and `class` (which template is instantiated) are chosen in the initial state, so
that one run covers all of them.

Bounds. Elements are pushed once, which bounds everything that counts in the queues. In the SMQ
three elements fill a batch of three with a tie in it, or a batch that ends in dummies and one in
the heap; three threads are enough for two to race for the buffer of a third. In the executor
`MaxAborts` bounds conflicts and `MaxLoops` loops; four threads make room for a thief behind the
token, a victim in front of it, and the master; with `MaxPackages` 3 `basicPolicy` is used, with 2
`doublePolicy` in the bulk-synchronous run. `Limit` is 1 in place of 32: what matters is that a
thread leaves the worklist with work in it. Three elements in a MultiQueue make a batch that leaves
something in the heap or not, two attempts a retry that can still succeed; with a push buffer of
three at most two elements stay in it. Five threads on four packages give the barrier a leader with
a child in its own package and three in others, two levels of release and a package released by the
second wake-up; a second level of the fan-in tree would take six packages. `SenseValues` is 2, so
that every second wait wraps around. A chunk of two is full, half full or empty; the third thread is
alone on its package. Two indices in OBIM are enough for a bin that is missed by two threads and one
below the other; index 0 is `numeric_limits::min()`. Nine indices on four threads give blocks of 3,
3, 3 and none. `CHECK_DEADLOCK` is off where the system stops: loops that have ended, queues into
which everything has been pushed and popped, a pool that is destroyed.

Fairness is weak fairness of each thread's own steps: an operating-system thread that can run does
run. In worklists the steps of pop are fair and repeated, as `go()` repeats them; beginning a push
is not fair. In the executor operators need not push, break or conflict. `ConflictDetection` adds
strong fairness of `FinishOperator`: an operator acquires finitely often before it returns, and
acquiring and returning compete for the same thread. No fairness is asked of a lock or of chance:
what waits for a lock waits for a holder that runs, and a retry in the SMQ follows a version change
by another thread, of which there are finitely many.

## Proofs

The theorems hold for all values of the constants that satisfy the named assumptions. Every safety
property of a passing run, and every refinement, is stated by one. What is model-checked only is
liveness (fairness and ENABLED are outside the prover's reach): `AllDelivered`, `LoopEnds`,
`RoundsEnd`, `ShutdownEnds`, `IterationsEnd` and their like. That nobody gets stuck, which liveness needs
besides fairness, is proved where threads wait for each other: for the pool, the bulk-synchronous
worklist and `do_all`. Proofs were tried only on formulas that TLC had found to hold.

### The steal buffer

`StealingMultiQueueProofs` proves first, for every set of threads, every set of elements and every batch size,
with and without spurious failures of the compare-and-swap:

| Theorem | States |
|---|---|
| `TypesStay` | `TypeOK` of the SMQ |
| `BufferInvariant` | `BufferInv` |
| `StealsAreIntact` | `StealIntegrity` |
| `FillsOverwriteNothing` | `FillOnlyStolen` |

Neither of the last two is inductive. `FillOnlyStolen` depends on what the owner concluded from a
version it read several steps ago: `extractMin` fills because `getBufferMin` returned the dummy, and
`getMinWriter` because two reads of the version differ. `BufferInv` states, per thread, what such a
conclusion is worth. `Snapshot`: the version read was odd and has not gone back. `OwnSnapshot`: only
the owner makes its version odd, so while it looks at its own buffer the version can grow by one at
most, and if it has changed the buffer is stolen. `Copy`: as long as the version is the one that was
read, the cells copied so far, or the minimum read, are those in the buffer. `Fill` and `Extract`: the
owner is on its way to filling only when the buffer is stolen, and a filled buffer starts with an
element, so a dummy minimum means stolen.

The proof is split along that line. `TouchesOnly(t)` is what any step of `t` may do to the rest: a
version grows by one, and another thread's only from odd to even; cells change only while their
version is even. `OthersKeep` shows that such a step preserves what every other thread knows;
`OwnQuietStep` and `OwnWriteStep` show, action by action, that it preserves what `t` knows itself.
The version is a natural number in the model: the code's `size_t` would take 2^64 steps to wrap around.

### The SMQ as a worklist

The same module goes on from there to the elements themselves, again for any threads, elements,
priorities and sizes of a batch:

| Theorem | States | Assumes `~SpuriousCas` |
|---|---|---|
| `QueueInvariant` | `QueueInv` | no |
| `NothingIsTwice` | `NothingTwice` | no |
| `BatchesAreBestLast` | `BatchBestLast` | no |
| `EmptyPopsOwnNothing` | `EmptyPopOwnsNothing` | yes |
| `QueueImplementsWorkList` | `ImplementsWorkList` | yes |
| `ExtractsAreBest` | `ExtractsBest` | yes |

`QueueInv` is `BufferInv` and four parts more:

- `Placed`: an element that was pushed is in at most one container, named by `At(k, t, x)`: heap,
  live buffer, batch being filled, stolen rest, or the hand of a pop. Every step moves at most one
  batch from one container to another; the lemmas about moves say that such a step keeps `Placed`.
- `BatchInv`: a buffer that can be stolen, and one that is being written, is `Proper`: elements all
  different, best first, dummies only behind them. This makes `Reversed` best last and a successful
  compare-and-swap, which by `BufferInv` has a true copy, a transfer of exactly the buffer.
- `CallInv`: which call a label belongs to, whether it has its answer, and that only a pop with
  nothing left of a stolen batch goes on to search.
- `EmptyInv`: once a pop has passed its own heap and buffer, it owns nothing until it answers. The
  owner sees an empty buffer only because its version is even or has changed; by `OwnSnapshot` it
  can have changed only once, to stolen. A spurious failure breaks just this step.

The refinement follows one step at a time: each action either leaves every `Owned(t)` and the calls
in progress alone or is a push, an answer or a steal of `OwnedWorkList`. `ExtractsBest` needs
`MinimumInv` besides: the minimum the owner compared is still that of the buffer, unless the buffer
is gone by now, and then there is nothing in it to be better.

### The executor and the ring

`ForEachProofs` proves, for every number of threads `N`, every finite set of
items, every limit, package map and bound, and with any steals, aborts and breaks:

| Theorem | States |
|---|---|
| `TypeCorrect` | `TypeOK`; contains that the tree of abort queues stays inside the ring |
| `Invariant` | `IInv` |
| `TerminationIsSafe` | `NoWorkAfterGlobalTerm` |
| `TokenIsUnique` | `OneToken` |
| `LoopIsComplete` | `AllCommitted` |

They rest on the named assumptions on constants only. The one about packages,
`PackageAssumption`, is how `finalizePackageData` numbers them: a package is numbered when the first
thread on it is met, so every lower package has an earlier thread.

The argument. `TokenPlace` says where the token is, `Visited(t)` that it has passed `t` in this
round, `Dirty(t)` that `t` will blacken it. `NoWorkAfterGlobalTerm` alone is not inductive, because
work can move behind the token and aborted items can appear in the queue of a thread that is past
looking. The invariant has four parts about that:

- `VisitedOwnNothing`: while the token is white, a visited thread that is not dirty has an empty
  worklist.
- `UnvisitedReport`: after a white round, this also holds ahead of the token.
- `AbortsReported`: an item in the abort queue of a thread about to pass the token unseen was put
  there by a dirty thread that the token has still to meet.
- `VisitedQuiet`: in a second white round, when nobody ahead of the token is dirty, all visited
  threads are quiet. With the master visited last this gives detection.

The last part needs both rounds only in loops with a limit: there a thread may pass the token with
work left that another thread then steals. (Mutants `DetectAtOnce` and `WhiteNow` show that one
round, or a detector that forgets, is not enough.) `FreshRing` starts every loop from a detector in
which all threads are black, whatever the last loop left behind. `ItemsKept` is conservation; with
`AfterDetection` it gives `AllCommitted`.

The proofs of the executor take the worklist's steps as atomic; that the SMQ provides them is the
theorem `QueueImplementsWorkList`; that chunked worklists and OBIM do is `ChunksImplementWorkList`
and `ObimImplementsWorkList`.

### The MultiQueues

`MultiQueueProofs` covers the four classes at once, for any threads, elements with any priorities,
heaps per thread, sizes of the buffers and attempts:

| Theorem | States |
|---|---|
| `MultiQueueInvariant` | `IInv` |
| `ElementsAreOnce` | `EachElementOnce` |
| `NoLockIsLeft` | `LocksReleased` |
| `MinimaArePublished` | `MinPublished` |
| `BatchesComeInOrder` | `BatchOrder` |
| `QueuesAreTyped` | `MQTypeOK` |

`MinPublished` is not inductive: a heap that is locked may publish anything, so nothing is known
when it is unlocked. `MinKept` says which steps may lie: only between a change of the heap and
`updateMin`. `LocksReleased` needs `DrawsAt(t)`: what the random draws and the labels of a thread
allow, among them that a pop on its way has an empty batch and attempts left, and that only a push
carries elements. Conservation is stated as `Located`, which is about one element and two
containers at a time (`In(k, i, x)`) in place of cardinalities; the lemmas `TodoToHeap`,
`HeapToPop`, `BufferToPop` and so on say what each kind of move does to it, and `PlacesFacts` counts
at the end. The facts about sequences (`TailFacts`, `FrontFacts`, `ReversedFacts`) and about least
elements of finite sets (`LeastElement`, `FirstsExist`) are lemmas of their own.

### The chunked worklist

`ChunkedProofs` proves `ChunksImplementWorkList`, the refinement `ImplementsWorkList`, for any
threads, packages, items and chunk sizes above one, as FIFO and as stack. Its invariant,
`ChunkInvariant`, has three parts: `Apart` (an item is in one chunk, where a chunk is named by its
place, so that it keeps its items when the queue moves), `QueuesInv` (a chunk in a queue has items
and is in the queue of the package of who filled it) and `ThreadInv`, which says why an empty answer
is honest although the queues are looked at one after the other: only `t` puts chunks of `t` into a
queue, and only into that of its own package, which it looks at first. That a pop takes a batch from
one thread in one step is `ChunkMoves`; `Inserted` tells how the places of chunks shift.

### OBIM

`ObimProofs` is about any threads, packages, elements and indices, with and without back-scan
prevention and with any `BlockPeriod`:

| Theorem | States |
|---|---|
| `ObimInvariant` | `ObimInv` |
| `ObimMaps` | `MapsFollowLog` |
| `ObimImplementsWorkList` | `ImplementsWorkList` |

Two arguments meet in the invariant. The first is about the log, which is read without the lock:
`LogInv` (no index has two bins; an entry that is not counted in `masterVersion` is being published)
and `MakerInv` (who makes a bin has the lock and an up-to-date map, so the index it looked for in
vain is not in the log) give `MapInv`, which is `MapsFollowLog`. That the bins suffice, one for each
index, follows by counting (`LogFits`). The second is about empty answers. A pop walks over its own
map only, from `scanStart` or below, while other threads make bins. `OwnInv` says why nothing is
missed: a thread holds elements only in bins that it has replayed, and with back-scan prevention
none of them comes before its own `scanStart`; the `scanStart` of others, read one by one, can only
move the beginning of the scan down. A steal gives a thread elements in the bin its scan is at, which
becomes its `scanStart`, and the push into a bin that comes earlier lowers it (mutant
`PutKeepsScanStart` does not). `CurInv` is the same for the fast paths, which use the bin of the last
pop without a look at the map.

### The bulk-synchronous worklist

`BulkSynchronousProofs` is about any number of threads and items and any tree of packages:

| Theorem | States |
|---|---|
| `BulkInvariant` | `IInv` |
| `BulkRounds` | `RoundsDoNotMix` |
| `BulkEmpty` | `EmptyIsFinal` |
| `BulkItemsKept` | `ItemsKept` |
| `BulkNobodyHangs` | `NobodyHangs` |

`InStep` says, for each label, how many waits a thread has entered and left in terms of its turn;
with the promise of the barrier (`Together`) it follows that while one thread is in a round all are
(`SameTurn`), and that when thread 0 decides all are between the two waits (`AllBetween`). `Rounds`
holds as long as nothing was aborted: `OwnRounds` and `SharedRounds` place what is left in the
windows of the threads that can take it, where the parity of the list tells this round from the
next; `Remembered` says that `some` is set whenever there is something for the next round, and why a
pop that does not set it (lines 98-100) can take an item only in a round in which it was set before.
`Kept`, which is conservation, holds with aborts too and names the place of an item by
`At(kind, i, t, x)`. The barrier is the abstract one; that the code's implements it is
`BarrierImplemented`, below.

`NobodyHangs` is stated beside its proof: once the end has been found, a thread that waits for another
waits for one that is on its way to that wait (`OnTheWay`), never for one that goes on popping an empty
worklist, which would never come. The invariant it needs, `NobodyAhead`, says that nobody has entered
more waits than a thread that is past them; it holds because the end is decided when all are between
the two waits, and because nobody begins another round after that. It does not depend on aborts.
`PackageAssumption` is the one of `ForEachWork`.

### The barrier and the thread pool

`ThreadPoolProofs` is about any number of threads and tree of packages, any commands that end with a
wait, any number of runs, and a `sense` that wraps around after any number of values from two on:

| Theorem | States |
|---|---|
| `PoolInvariant` | `IInv` |
| `PoolTypeCorrect` | `TypeOK`; contains that no array of commands is read that is gone |
| `RunsAreComplete` | `RunIsComplete` |
| `CommandsAreInStep` | `CommandsInStep` |
| `BarrierImplemented` | `ImplementsBarrier` |
| `NobodyGetsStuck` | `NobodyIsStuck` |

All assume `OneCount`: the loops use one number of threads, which may be less than all. It is not
there for the prover's sake; with two numbers `getSystemBarrier` reinitializes a barrier that may
still be in use.

`IInv` is `BarrierInv`, about the tree, and `PoolInv`, about who executes which command. The barrier
alone does not say that thread 0 begins a run only when nobody is behind, and the pool alone not that
a wait has been passed by all, so neither is inductive without the other.

`BarrierInv` counts per thread the waits it has entered (`entered`), reported (`Arrived`), gathered
the children for (`Gathered`) and left (`left`), and takes thread 0's `Gathered` as the `Round`.

- `RoundInv`: nobody has left more waits than the round or arrived at fewer, so threads differ by one
  wait at most, and two values of `sense` tell the waits apart.
- `TreeInv`: the counter of a package is the number of threads and packages below its leader that
  have not arrived. It is counted down by others while the leader waits, and set up again by the
  leader before it reports; that no child can report for the next wait before is because a child
  waits for its release, which comes later.
- `TreeComplete`, a lemma: when the counter of package 0 is zero everybody has arrived. If not, take
  the lowest package in which somebody has not; its leader has not reported, so its parent, which is
  lower, is still waiting.
- `ReleaseInv`: the sense word of a package tells the last release that its parent in the binary tree
  has sent, and no package is ahead of its parent.

`PoolInv` has `MainInv` for thread 0 and, until the destructor runs, `PlaceInv` and `WakeInv`. `Place(t)`
ties the place of a thread in the commands to its counters: `Passed(kind, ptr)` is the number of calls
or waits before a command of a run, and equals `called[t]` or `left[t]`. `WakeInv` says that each
thread gets one post per run, from its parent in the tree of wake-ups, and reads the range only after
it. The step that carries the proof is the end of `run`: thread 0 has left the last wait of its
commands, so by the barrier all have entered it (`EnteredBehind`, `EverybodyFinished`), and
who has entered the last wait has all its calls behind it and does not read the range again. That is
why it may be cleared, the next run may begin, and the pool may be destroyed (`EndInv`), although
`run` waits for no worker.

The refinement maps `entered` and `left` of the threads of the loops to `Barrier`. Entering is one
step; leaving is fair (`LeavingIsFair`): a thread leaves when its word, or thread 0 its counter, shows a
release, and by `ReleaseInv` and `RoundInv` it comes after everybody's arrival.

`NobodyGetsStuck` is proved from the same invariant by contradiction: suppose that all are blocked.

- `NothingToLeave`: everybody has left the same number of waits. If not, take the least package whose
  word is behind; the release that it waits for is due from its parent, which is not behind and so
  has nothing left to wait for.
- `SomebodyIsOut`: somebody has not entered the next wait. Otherwise take the last package whose leader
  still gathers; everybody below it has reported, so its counter is zero and it does not spin.
- `EverybodyIsWoken`: nobody is left over from the run before. The first such thread in the tree of
  wake-ups has had its post, so it is in the last wait of that run, which thread 0 has left.
- So the one that is out is through its commands and has passed all waits of the run, while thread 0
  is before one of them, although both have left equally many.

For the destructor `StopInv` adds that who is still in a wait is in one that thread 0 has left, and that
after the posts a worker at its semaphore has one.

### Conflict detection

Two theorems of `ForEachProofs`, for any contexts and objects:

| Theorem | States |
|---|---|
| `ConflictsAreExclusive` | `MutualExclusion` |
| `ChainsAreIntact` | `ListsIntact` |

The owner of an object is written in a step after the lock bit is taken, and an object is unlinked
before it is released, so the word alone does not tell who holds it. `ConflictInv` adds to `OwnersTrue`
(types, `Exclusive` and `WordIsTrue`) `ArgIsTrue`
(what a context holds between these steps is the object it works on) and `Chained` (the chain of a
context starts with an object it holds, and taking the first one off leaves the rest on it).
`ConflictIsReal`, the last part of `MutualExclusion`, follows from it in `RealStep`: whoever reads
another owner than itself does not hold the object, because the word of one it holds names it.

The chain from an object is defined as the least set that contains it and the next of each of its
members, which needs no recursion: `ChainStep` takes the first object off, and `ChainKept` says that
a chain does not change when only links outside it do. `ListInv` is `ConflictInv` with
`ChainIsList` (the chain of a context is what it has linked, and no object comes behind itself) and
`FreeIsNull` (an object on no chain has a null next, and so has one that is about to be released). The
last one is what `addToNhood` and `release` assert; it holds because the next is read and cleared
before the release, after which another context may set it: the order of `src/Context.cpp` 164.

### do_all

`DoAllProofs` proves for any number of threads and length of the range, with and without stealing:

| Theorem | States |
|---|---|
| `DoAllInvariant` | the inductive invariant |
| `IndicesAreDoneOnce` | `EachIndexOnce` |
| `ReductionIsComplete` | `ReductionComplete` |
| `NobodyGetsStuck` | the threads are never all `Blocked` unless all are done |

The parts: the lock of a range is held by the thread that works on it, ranges are inside the whole
range, before a thread has started its block is nobody's, a thread that is done has nothing left,
and the reduction holds what the finished threads did. That blocks are disjoint and cover the range
is arithmetic with a product of two variables, done in lemmas. `NobodyGetsStuck` needs of them only that
a lock is held by a thread that is about to give it back and asks for no other.

## Findings

- `multi_queue_loop`: work after the end has been announced, against the assertion at
  `src/Termination.cpp:87`; see *MultiQueue and MultiQueueLoop*.

Disagreements that were met while reading and are modelled or left out as said above, without a run
of their own: `local_q` as a static (`WL/MQOptimized/MultiQueueProbLocal.h` 136), reinitialization of
a barrier in use (`src/Barrier.cpp:270` against 209), aborts under `BulkSynchronous` (`WL/BulkSynchronous.h`
104 against 34), the unlocked log of OBIM (`WL/Obim.h` 160-169) and its `BlockPeriod` (647 against 73), the order of a thread's own batch in
`MultiQueueLocalLocal`.

## Not modelled

The repository is a copy of Galois with vendored LLVM support code, a vendored k-LSM, twenty
applications and many experimental variants of the schedulers; the models cover the runtime that
the schedulers of this repository rest on, which is a small part of the lines.

- The tree detector: compiled, but its only call is commented out (`src/Termination.cpp:246`).
- NUMA-aware and adaptive variants of the SMQ and the MultiQueues: the choice of the queue is
  arbitrary in the models, which covers any weighting; the arithmetic of nodes is not translated.
- Variants of OBIM, the rest of the chunked worklists, lock-free priority structures, k-LSM: not
  used by the schedulers of the paper by default.
- Sequential heaps: a heap is a set of which a best element is taken.
- The deterministic executor: 1600 lines, independent of the schedulers; the ordered one only
  reports that it is not implemented.
- Weak memory orders, allocation and reclamation (and with it the ring's epoch), statistics and
  timing, reading the topology, graphs, applications, vendored code, scripts.
