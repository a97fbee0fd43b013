------------------------- MODULE StealingMultiQueue -------------------------
(***************************************************************************)
(* The Stealing Multi-Queue worklist (WorkList/StealingMultiQueue.h).      *)
(*                                                                         *)
(* Every thread owns a HeapWithStealBuffer: a private sequential heap and  *)
(* a steal buffer of StealBatchSize cells that other threads may take as a *)
(* whole.  A version counter guards the buffer: odd means its content can  *)
(* be stolen, even that it is stolen and the owner may fill it again.  The *)
(* cells themselves are plain memory, so a thief may read them while the   *)
(* owner overwrites them; such a cell reads as Torn here.                  *)
(*                                                                         *)
(* One action is one access to memory another thread may touch, together   *)
(* with the thread-private computation that follows it.  Memory is         *)
(* sequentially consistent.                                                *)
(***************************************************************************)
EXTENDS Integers, Sequences, FiniteSets

CONSTANTS
    Threads,          \* the threads tId; nQ = Cardinality(Threads)
    Tasks,            \* every element the clients ever push, all distinct
    Prio,             \* the Comparer: compare(a, b) iff Prio[a] > Prio[b]
    StealBatchSize,   \* STEAL_NUM, the cells of a steal buffer
    SpuriousCas,      \* may compare_exchange_weak fail on an equal version?
    Dummy,            \* HeapWithStealBuffer::dummy, the mark of an empty cell
    Torn              \* what a read racing with the owner's write returns

ASSUME ThreadsAssumption == IsFiniteSet(Threads) /\ Threads # {}
ASSUME BatchAssumption == StealBatchSize \in Nat \ {0}
ASSUME PrioAssumption == Prio \in [Tasks -> Int]
ASSUME SpuriousAssumption == SpuriousCas \in BOOLEAN
ASSUME MarksAssumption == Dummy \notin Tasks /\ Torn \notin Tasks /\ Dummy # Torn

VARIABLES
    heap,             \* heap[t]: the elements of t's heap
    cells,            \* cells[t]: the array stealBuffer of t's heap
    version,          \* version[t]: epoch and stolen flag of cells[t]
    stealBuffers,     \* stealBuffers[t]: what is left of the batch t stole
    pc,               \* where thread t is
    frame,            \* the locals of the calls t is in
    pushed,           \* history: the elements given to push
    delivered         \* history: the elements pop has returned

shared == <<heap, cells, version, stealBuffers>>
history == <<pushed, delivered>>
vars == <<heap, cells, version, stealBuffers, pc, frame, pushed, delivered>>

-----------------------------------------------------------------------------
Slots == 1..StealBatchSize
Array == [Slots -> Tasks \cup {Dummy, Torn}]
DummyArray == [i \in Slots |-> Dummy]
TornArray == [i \in Slots |-> Torn]

Labels == {"idle", "fillIfStolen", "fill", "write", "publish", "extractMin",
           "chooseLocal", "popLocally", "getMinWriter", "minWriterAgain",
           "pick", "getBufferMin", "readMin", "versionAgain", "chooseSteal",
           "trySteal", "copy", "cas", "return"}

Frame == [op : {"none", "push", "pop"}, fallback : BOOLEAN,
          next : {"return", "pick"}, victim : Threads, v1 : Nat,
          minVal : Tasks \cup {Dummy, Torn}, raced : BOOLEAN,
          localMin : Tasks \cup {Dummy, Torn},
          elements : Array, k : Nat, ret : Tasks \cup {Dummy, Torn}]

IdleFrame(t) ==
    [op |-> "none", fallback |-> FALSE, next |-> "return", victim |-> t,
     v1 |-> 0, minVal |-> Dummy, raced |-> FALSE, localMin |-> Dummy,
     elements |-> DummyArray, k |-> 1, ret |-> Dummy]

\* compare(a, b): a is worse than b.
Worse(a, b) == Prio[a] > Prio[b]

\* What popLocally may return: any best element of the heap.
Best(h) == {x \in h : \A y \in h : ~Worse(x, y)}

\* The elements in an array of cells.
Items(array) == {array[i] : i \in Slots} \cap Tasks

\* The elements after the first one.
Rest(array) == Items(array) \ {array[1]}

\* The arrays that up to StealBatchSize calls of popLocally on h may fill.
Batches(h) ==
    {b \in [Slots -> h \cup {Dummy}] :
        /\ \A i, j \in Slots : i < j /\ b[j] # Dummy
               => b[i] # Dummy /\ b[i] # b[j] /\ ~Worse(b[i], b[j])
        /\ \A x \in h \ Items(b) : \A i \in Slots : b[i] # Dummy /\ ~Worse(b[i], x)}

\* Mutant: the copy of the rest does not stop at the first dummy.
RestWithDummies(array) == [i \in 1..(StealBatchSize - 1) |-> array[i + 1]]

\* The number of elements before the first dummy.
Filled(array) ==
    CHOOSE n \in 0..StealBatchSize :
        /\ \A i \in 1..n : array[i] # Dummy
        /\ n < StealBatchSize => array[n + 1] = Dummy

\* elements[1], elements[2], ... up to the first dummy, in push_back order.
RestInOrder(array) == [i \in 1..(Filled(array) - 1) |-> array[i + 1]]

\* Mutant: std::reverse is missing.
NotReversed(s) == s

Reversed(s) == [i \in 1..Len(s) |-> s[Len(s) + 1 - i]]

Stealable(t) == version[t] % 2 = 1

Goto(t, label) == pc' = [pc EXCEPT ![t] = label]

-----------------------------------------------------------------------------
Init ==
    /\ heap = [t \in Threads |-> {}]
    /\ cells = [t \in Threads |-> DummyArray]
    /\ version = [t \in Threads |-> 0]
    /\ stealBuffers = [t \in Threads |-> <<>>]
    /\ pc = [t \in Threads |-> "idle"]
    /\ frame = [t \in Threads |-> IdleFrame(t)]
    /\ pushed = {}
    /\ delivered = {}

-----------------------------------------------------------------------------
(* The interface.  A client pushes elements it has not pushed before.      *)

\* push(tId, b, e) of a non-empty range.
Push(t) ==
    /\ pc[t] = "idle"
    /\ \E range \in (SUBSET (Tasks \ pushed)) \ {{}} :
         /\ heap' = [heap EXCEPT ![t] = @ \cup range]
         /\ pushed' = pushed \cup range
    /\ frame' = [frame EXCEPT ![t] = [@ EXCEPT !.op = "push"]]
    /\ Goto(t, "fillIfStolen")
    /\ UNCHANGED <<cells, version, stealBuffers, delivered>>

\* pop(tId) takes the last element of what is left of a stolen batch.
PopBuffered(t) ==
    /\ pc[t] = "idle"
    /\ stealBuffers[t] # <<>>
    /\ frame' = [frame EXCEPT ![t] = [@ EXCEPT !.op = "pop",
                                               !.ret = stealBuffers[t][Len(stealBuffers[t])]]]
    /\ stealBuffers' = [stealBuffers EXCEPT ![t] = SubSeq(@, 1, Len(@) - 1)]
    /\ Goto(t, "fillIfStolen")
    /\ UNCHANGED <<heap, cells, version, history>>

\* pop(tId) decides at random to steal first.
PopStealing(t) ==
    /\ pc[t] = "idle"
    /\ stealBuffers[t] = <<>>
    /\ Threads # {t}
    /\ frame' = [frame EXCEPT ![t] = [@ EXCEPT !.op = "pop", !.fallback = TRUE]]
    /\ Goto(t, "getMinWriter")
    /\ UNCHANGED <<shared, history>>

\* pop(tId) starts with the local heap.
PopLocal(t) ==
    /\ pc[t] = "idle"
    /\ stealBuffers[t] = <<>>
    /\ frame' = [frame EXCEPT ![t] = [@ EXCEPT !.op = "pop"]]
    /\ Goto(t, "extractMin")
    /\ UNCHANGED <<shared, history>>

\* The call ends: a push, or a pop with an element or without one.
Return(t) ==
    /\ pc[t] = "return"
    /\ delivered' = delivered \cup ({frame[t].ret} \ {Dummy})
    /\ frame' = [frame EXCEPT ![t] = IdleFrame(t)]
    /\ Goto(t, "idle")
    /\ UNCHANGED <<shared, pushed>>

-----------------------------------------------------------------------------
(* Filling the own steal buffer.                                           *)

\* Mutant: fillBuffer without a look at the version.
FillBufferAlways(t) ==
    /\ pc[t] = "fillIfStolen"
    /\ Goto(t, "fill")
    /\ UNCHANGED <<shared, frame, history>>

FillBufferIfStolen(t) ==
    /\ pc[t] = "fillIfStolen"
    /\ Goto(t, IF Stealable(t) THEN "return" ELSE "fill")
    /\ UNCHANGED <<shared, frame, history>>

\* fillBuffer on an empty heap returns the dummy.
FillNothing(t) ==
    /\ pc[t] = "fill"
    /\ heap[t] = {}
    /\ frame' = [frame EXCEPT ![t] = [@ EXCEPT !.localMin = Dummy]]
    /\ Goto(t, frame[t].next)
    /\ UNCHANGED <<shared, history>>

\* fillBuffer pops a batch and starts to assign it to the shared cells.
FillBuffer(t) ==
    /\ pc[t] = "fill"
    /\ heap[t] # {}
    /\ \E batch \in Batches(heap[t]) :
         /\ heap' = [heap EXCEPT ![t] = @ \ Items(batch)]
         /\ frame' = [frame EXCEPT ![t] = [@ EXCEPT !.elements = batch]]
    /\ cells' = [cells EXCEPT ![t] = TornArray]
    /\ Goto(t, "write")
    /\ UNCHANGED <<version, stealBuffers, history>>

FillWritten(t) ==
    /\ pc[t] = "write"
    /\ cells' = [cells EXCEPT ![t] = frame[t].elements]
    /\ Goto(t, "publish")
    /\ UNCHANGED <<heap, version, stealBuffers, frame, history>>

FillPublish(t) ==
    /\ pc[t] = "publish"
    /\ version' = [version EXCEPT ![t] = @ + 1]
    /\ frame' = [frame EXCEPT ![t] = [@ EXCEPT !.localMin = frame[t].elements[1],
                                               !.elements = DummyArray]]
    /\ Goto(t, frame[t].next)
    /\ UNCHANGED <<heap, cells, stealBuffers, history>>

-----------------------------------------------------------------------------
(* HeapWithStealBuffer::getBufferMin on the heap of frame[t].victim.       *)

Owner(t) == frame[t].victim = t

GotBufferMin(t, min, raced) ==
    /\ frame' = [frame EXCEPT ![t] = [@ EXCEPT !.minVal = min, !.raced = raced, !.v1 = 0]]
    /\ Goto(t, IF Owner(t) THEN "chooseLocal" ELSE "chooseSteal")

GetBufferMin(t) ==
    /\ pc[t] = "getBufferMin"
    /\ IF Stealable(frame[t].victim)
       THEN /\ frame' = [frame EXCEPT ![t] = [@ EXCEPT !.v1 = version[frame[t].victim]]]
            /\ Goto(t, "readMin")
       ELSE GotBufferMin(t, Dummy, FALSE)
    /\ UNCHANGED <<shared, history>>

ReadMin(t) ==
    /\ pc[t] = "readMin"
    /\ frame' = [frame EXCEPT ![t] = [@ EXCEPT !.minVal = cells[frame[t].victim][1]]]
    /\ Goto(t, "versionAgain")
    /\ UNCHANGED <<shared, history>>

VersionAgain(t) ==
    /\ pc[t] = "versionAgain"
    /\ IF version[frame[t].victim] = frame[t].v1
       THEN GotBufferMin(t, frame[t].minVal, FALSE)
       ELSE GotBufferMin(t, Dummy, TRUE)
    /\ UNCHANGED <<shared, history>>

-----------------------------------------------------------------------------
(* HeapWithStealBuffer::extractMin and popLocally, by the owner.           *)

\* Mutant: an empty heap is taken for an empty queue.
ExtractMinHeapOnly(t) ==
    /\ pc[t] = "extractMin"
    /\ Goto(t, IF heap[t] # {} THEN "getBufferMin"
               ELSE IF Threads = {t} THEN "return" ELSE "getMinWriter")
    /\ frame' = [frame EXCEPT ![t] = [IdleFrame(t) EXCEPT !.op = "pop"]]
    /\ UNCHANGED <<shared, history>>

ExtractMin(t) ==
    /\ pc[t] = "extractMin"
    /\ Goto(t, IF heap[t] = {} THEN "trySteal" ELSE "getBufferMin")
    /\ frame' = [frame EXCEPT ![t] = [IdleFrame(t) EXCEPT !.op = "pop"]]
    /\ UNCHANGED <<shared, history>>

\* Mutant: extractMin compares the wrong way round.
ChooseLocalSwapped(t) ==
    /\ pc[t] = "chooseLocal"
    /\ Goto(t, IF /\ frame[t].minVal # Dummy
                  /\ \E x \in Best(heap[t]) : Worse(frame[t].minVal, x)
               THEN "trySteal" ELSE "popLocally")
    /\ UNCHANGED <<shared, frame, history>>

ChooseLocal(t) ==
    /\ pc[t] = "chooseLocal"
    /\ Goto(t, IF /\ frame[t].minVal # Dummy
                  /\ \E x \in Best(heap[t]) : Worse(x, frame[t].minVal)
               THEN "trySteal" ELSE "popLocally")
    /\ UNCHANGED <<shared, frame, history>>

\* The end of extractMin: the best of the heap, and a fill if the buffer had nothing.
PopLocally(t) ==
    /\ pc[t] = "popLocally"
    /\ \E x \in Best(heap[t]) :
         /\ heap' = [heap EXCEPT ![t] = @ \ {x}]
         /\ frame' = [frame EXCEPT ![t] = [@ EXCEPT !.ret = x]]
    /\ Goto(t, IF frame[t].minVal = Dummy THEN "fill" ELSE "return")
    /\ UNCHANGED <<cells, version, stealBuffers, history>>

-----------------------------------------------------------------------------
(* HeapWithStealBuffer::trySteal on the heap of frame[t].victim, and what  *)
(* tryStealLocally, extractMin, pop and StealingMultiQueue::trySteal do    *)
(* with its result.                                                        *)

\* StealingMultiQueue::trySteal returns nothing: pop goes on or ends empty.
StealEnds(t) == Goto(t, IF frame[t].fallback THEN "extractMin" ELSE "return")

\* HeapWithStealBuffer::trySteal returned nothing.
NothingStolen(t, raced) ==
    IF Owner(t)
    THEN Goto(t, IF heap[t] # {} THEN "popLocally"
                 ELSE IF Threads = {t} THEN "return" ELSE "getMinWriter")
    ELSE IF raced THEN Goto(t, "pick") ELSE StealEnds(t)

TrySteal(t) ==
    /\ pc[t] = "trySteal"
    /\ IF Stealable(frame[t].victim)
       THEN /\ frame' = [frame EXCEPT ![t] = [@ EXCEPT !.v1 = version[frame[t].victim], !.k = 1]]
            /\ Goto(t, "copy")
       ELSE /\ frame' = frame
            /\ NothingStolen(t, FALSE)
    /\ UNCHANGED <<shared, history>>

\* The copy with one more cell.
Copied(t) ==
    [frame[t].elements EXCEPT ![frame[t].k] = cells[frame[t].victim][frame[t].k]]

\* Mutant: the version is read after the copy.
CopyCellThenVersion(t) ==
    /\ pc[t] = "copy"
    /\ frame' = [frame EXCEPT ![t] = [@ EXCEPT !.elements = Copied(t),
                                               !.v1 = version[frame[t].victim],
                                               !.k = frame[t].k + 1]]
    /\ Goto(t, IF frame[t].k = StealBatchSize THEN "cas" ELSE "copy")
    /\ UNCHANGED <<shared, history>>

\* buffer = stealBuffer, one cell after the other.
CopyCell(t) ==
    /\ pc[t] = "copy"
    /\ frame' = [frame EXCEPT ![t] = [@ EXCEPT !.elements = Copied(t),
                                               !.k = frame[t].k + 1]]
    /\ Goto(t, IF frame[t].k = StealBatchSize THEN "cas" ELSE "copy")
    /\ UNCHANGED <<shared, history>>

\* Mutant: a store in place of the compare-and-swap.
StoreSucceeds(t) ==
    /\ pc[t] = "cas"
    /\ version' = [version EXCEPT ![frame[t].victim] = frame[t].v1 + 1]
    /\ frame' = [frame EXCEPT ![t] = [@ EXCEPT !.ret = frame[t].elements[1],
                                               !.elements = DummyArray]]

CasSucceeds(t) ==
    /\ pc[t] = "cas"
    /\ version[frame[t].victim] = frame[t].v1
    /\ version' = [version EXCEPT ![frame[t].victim] = frame[t].v1 + 1]
    /\ frame' = [frame EXCEPT ![t] = [@ EXCEPT !.ret = frame[t].elements[1],
                                               !.elements = DummyArray]]

\* tryStealLocally puts the rest of the batch back; extractMin fills the
\* buffer again unless the heap was empty.
StealLocally(t) ==
    /\ Owner(t)
    /\ CasSucceeds(t)
    /\ heap' = [heap EXCEPT ![t] = @ \cup Rest(frame[t].elements)]
    /\ Goto(t, IF heap[t] = {} THEN "return" ELSE "fill")
    /\ UNCHANGED <<cells, stealBuffers, history>>

\* A thief keeps the rest of the batch, reversed, for its next pops.
StealRemotely(t) ==
    /\ ~Owner(t)
    /\ CasSucceeds(t)
    /\ stealBuffers' = [stealBuffers EXCEPT
                          ![t] = Reversed(@ \o RestInOrder(frame[t].elements))]
    /\ Goto(t, "return")
    /\ UNCHANGED <<heap, cells, history>>

CasFails(t) ==
    /\ pc[t] = "cas"
    /\ version[frame[t].victim] # frame[t].v1 \/ SpuriousCas
    /\ frame' = [frame EXCEPT ![t] = [@ EXCEPT !.elements = DummyArray]]
    /\ NothingStolen(t, TRUE)
    /\ UNCHANGED <<shared, history>>

-----------------------------------------------------------------------------
(* StealingMultiQueue::trySteal: the own minimum, then random victims.     *)

GetMinWriter(t) ==
    /\ pc[t] = "getMinWriter"
    /\ IF Stealable(t)
       THEN /\ frame' = [frame EXCEPT ![t] = [@ EXCEPT !.v1 = version[t], !.minVal = cells[t][1]]]
            /\ Goto(t, "minWriterAgain")
       ELSE /\ frame' = [frame EXCEPT ![t] = [@ EXCEPT !.next = "pick"]]
            /\ Goto(t, "fill")
    /\ UNCHANGED <<shared, history>>

MinWriterAgain(t) ==
    /\ pc[t] = "minWriterAgain"
    /\ IF version[t] = frame[t].v1
       THEN /\ frame' = [frame EXCEPT ![t] = [@ EXCEPT !.localMin = frame[t].minVal]]
            /\ Goto(t, "pick")
       ELSE /\ frame' = [frame EXCEPT ![t] = [@ EXCEPT !.next = "pick"]]
            /\ Goto(t, "fill")
    /\ UNCHANGED <<shared, history>>

PickVictim(t) ==
    /\ pc[t] = "pick"
    /\ \E randId \in Threads \ {t} :
         frame' = [frame EXCEPT ![t] = [@ EXCEPT !.victim = randId, !.next = "return",
                                                 !.v1 = 0, !.minVal = Dummy]]
    /\ Goto(t, "getBufferMin")
    /\ UNCHANGED <<shared, history>>

ChooseSteal(t) ==
    /\ pc[t] = "chooseSteal"
    /\ IF frame[t].minVal = Dummy
       THEN IF frame[t].raced THEN Goto(t, "pick") ELSE StealEnds(t)
       ELSE IF frame[t].localMin = Dummy \/ Worse(frame[t].localMin, frame[t].minVal)
            THEN Goto(t, "trySteal")
            ELSE StealEnds(t)
    /\ UNCHANGED <<shared, frame, history>>

-----------------------------------------------------------------------------
\* A call in progress takes its next step.
Step(t) ==
    \/ FillBufferIfStolen(t) \/ FillNothing(t) \/ FillBuffer(t)
    \/ FillWritten(t) \/ FillPublish(t)
    \/ GetBufferMin(t) \/ ReadMin(t) \/ VersionAgain(t)
    \/ ExtractMin(t) \/ ChooseLocal(t) \/ PopLocally(t)
    \/ TrySteal(t) \/ CopyCell(t) \/ StealLocally(t) \/ StealRemotely(t) \/ CasFails(t)
    \/ GetMinWriter(t) \/ MinWriterAgain(t) \/ PickVictim(t) \/ ChooseSteal(t)
    \/ Return(t)

Pop(t) == PopBuffered(t) \/ PopStealing(t) \/ PopLocal(t)

Next == \E t \in Threads : Push(t) \/ Pop(t) \/ Step(t)

Spec == Init /\ [][Next]_vars

\* A running thread keeps executing, and a worker loops on pop (ForEachWork::go).
FairSpec == Spec /\ \A t \in Threads : WF_vars(Pop(t) \/ Step(t))

-----------------------------------------------------------------------------
TypeOK ==
    /\ heap \in [Threads -> SUBSET Tasks]
    /\ cells \in [Threads -> Array]
    /\ version \in [Threads -> Nat]
    /\ stealBuffers \in [Threads -> Seq(Tasks \cup {Torn})]
    /\ pc \in [Threads -> Labels]
    /\ frame \in [Threads -> Frame]
    /\ pushed \in SUBSET Tasks
    /\ delivered \in SUBSET (Tasks \cup {Torn})

-----------------------------------------------------------------------------
(* Where an element can be.                                                *)

Live(t) == IF Stealable(t) THEN Items(cells[t]) ELSE {}
Filling(t) == IF pc[t] \in {"write", "publish"} THEN Items(frame[t].elements) ELSE {}
Left(t) == {stealBuffers[t][i] : i \in DOMAIN stealBuffers[t]}
InHand(t) == {frame[t].ret} \ {Dummy}

\* What the worklist holds on behalf of t.
Owned(t) == heap[t] \cup Live(t) \cup Filling(t) \cup Left(t)

(* A thief whose compare-and-swap would succeed has copied exactly what is *)
(* in the buffer: it cannot have read a cell the owner was overwriting.    *)
StealIntegrity ==
    \A t \in Threads :
        pc[t] = "cas" /\ version[frame[t].victim] = frame[t].v1
            => frame[t].elements = cells[frame[t].victim]

(* The owner refills its buffer only while the old content is stolen, so   *)
(* fillBuffer, which does not look at the version, overwrites nothing.     *)
FillOnlyStolen ==
    \A t \in Threads : pc[t] \in {"fill", "write", "publish"} => ~Stealable(t)

(* No element is in two places, so no two pops ever return the same one.   *)
NothingTwice ==
    /\ \A t \in Threads :
         LET places == <<heap[t], Live(t), Filling(t), Left(t), InHand(t)>>
         IN  /\ \A p, q \in 1..5 : p < q => places[p] \cap places[q] = {}
             /\ \A i, j \in DOMAIN stealBuffers[t] :
                  i # j => stealBuffers[t][i] # stealBuffers[t][j]
             /\ (Owned(t) \cup InHand(t)) \cap delivered = {}
    /\ \A t, u \in Threads :
         t # u => (Owned(t) \cup InHand(t)) \cap (Owned(u) \cup InHand(u)) = {}

(* What is left of a stolen batch is kept worst first: the pops that       *)
(* follow the steal take the best one at each time.                        *)
BatchBestLast ==
    \A t \in Threads : \A i, j \in DOMAIN stealBuffers[t] :
        i < j => ~Worse(stealBuffers[t][j], stealBuffers[t][i])

(* A pop that returns nothing leaves nothing of its own thread behind; the *)
(* termination ring relies on it when it lets an idle thread turn white.   *)
EmptyPopOwnsNothing ==
    \A t \in Threads :
        pc[t] = "return" /\ frame[t].op = "pop" /\ frame[t].ret = Dummy
            => Owned(t) = {}

(* An element that extractMin takes, from the heap or from the own buffer, *)
(* is at least as good as all that the thread still owns, whatever thieves *)
(* did to the buffer meanwhile.                                            *)
ExtractsBest ==
    [][\A t \in Threads :
          PopLocally(t) \/ StealLocally(t)
              => \A x \in Owned(t)' : ~Worse(frame'[t].ret, x)]_vars

(* If all workers keep popping, every element is delivered in the end.     *)
AllDelivered == \A x \in Tasks : x \in pushed ~> x \in delivered

-----------------------------------------------------------------------------
(* The queue implements the abstract worklist: a pop takes effect when it  *)
(* has its element or knows that there is none, a steal at its successful  *)
(* compare-and-swap, a push as soon as the elements are in the heap.       *)

Answer(t) ==
    IF frame[t].op # "pop" THEN "none"
    ELSE IF frame[t].ret # Dummy THEN "element"
    ELSE IF pc[t] = "return" THEN "nothing" ELSE "none"

Abstract == INSTANCE OwnedWorkList WITH
    bag <- [t \in Threads |-> Owned(t)],
    answer <- [t \in Threads |-> Answer(t)],
    hand <- [t \in Threads |-> InHand(t)]

(* Every step of the queue is a step of OwnedWorkList or changes nothing   *)
(* a client can tell, however the owner and the thieves interleave.        *)
ImplementsWorkList == Abstract!Spec
=============================================================================
