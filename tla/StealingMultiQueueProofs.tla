---------------------- MODULE StealingMultiQueueProofs ----------------------
(* The integrity of steals, and that the Stealing Multi-Queue implements     *)
(* OwnedWorkList, for any number of threads and any batch size.              *)
EXTENDS StealBufferInvariant, TLAPS, SequenceTheorems, WellFoundedInduction,
        FiniteSetTheorems

-----------------------------------------------------------------------------
(* What the helpers return.                                                *)

LEMMA BatchFacts ==
    ASSUME NEW h \in SUBSET Tasks, h # {}, NEW b \in Batches(h)
    PROVE  b \in Array /\ b[1] \in Tasks
PROOF
<1>1. 1 \in Slots /\ \A j \in Slots : j # 1 => 1 < j
  BY BatchAssumption DEF Slots
<1>2. b \in [Slots -> h \cup {Dummy}]
  BY DEF Batches
<1>3. b \in Array
  BY <1>2 DEF Array
<1>4. b[1] # Dummy
  <2> SUFFICES ASSUME b[1] = Dummy PROVE FALSE
    OBVIOUS
  <2>1. PICK x \in h : TRUE
    OBVIOUS
  <2>2. x \in Items(b)
    BY <1>1, <2>1 DEF Batches
  <2>3. PICK j \in Slots : b[j] = x
    BY <2>2 DEF Items
  <2>4. b[j] # Dummy /\ j # 1
    BY <2>3, MarksAssumption
  <2> QED BY <1>1, <2>4 DEF Batches
<1> QED BY <1>1, <1>2, <1>3, <1>4

LEMMA FilledFacts ==
    ASSUME NEW array \in Array
    PROVE  /\ Filled(array) \in 0..StealBatchSize
           /\ \A i \in 1..Filled(array) : array[i] # Dummy
           /\ Filled(array) < StealBatchSize => array[Filled(array) + 1] = Dummy
PROOF
<1> DEFINE Good(n) == /\ \A i \in 1..n : array[i] # Dummy
                      /\ n < StealBatchSize => array[n + 1] = Dummy
           R == OpToRel(<, Nat)
           Ends == {n \in 0..StealBatchSize : n = StealBatchSize \/ array[n + 1] = Dummy}
<1>1. \E n \in 0..StealBatchSize : Good(n)
  <2>1. Ends \subseteq Nat /\ Ends # {}
    BY BatchAssumption
  <2>2. PICK n \in Ends : \A m \in Ends : ~(<<m, n>> \in R)
    <3> HIDE DEF Ends
    <3> QED BY <2>1, NatLessThanWellFounded, WFMin
  <2>3. \A m \in Ends : ~(m < n)
    BY <2>1, <2>2 DEF OpToRel
  <2>4. ASSUME NEW i \in 1..n PROVE array[i] # Dummy
    <3>1. i - 1 \in 0..StealBatchSize /\ i - 1 < n /\ i - 1 # StealBatchSize
      BY BatchAssumption
    <3>2. i - 1 \notin Ends
      BY <2>3, <3>1
    <3>3. array[(i - 1) + 1] # Dummy
      BY <3>1, <3>2
    <3> QED BY <3>3
  <2> QED BY <2>4
<1>2. Good(Filled(array)) /\ Filled(array) \in 0..StealBatchSize
  BY <1>1 DEF Filled
<1> QED BY <1>2

LEMMA RestIsSeq ==
    ASSUME NEW array \in Array
    PROVE  RestInOrder(array) \in Seq(Tasks \cup {Torn})
PROOF
<1> DEFINE n == Filled(array)
<1>1. n \in 0..StealBatchSize /\ \A i \in 1..n : array[i] # Dummy
  BY FilledFacts
<1> HIDE DEF n
<1>2. CASE n = 0
  <2>1. 1..(n - 1) = 1..0
    BY <1>2
  <2> DEFINE s == [i \in 1..(n - 1) |-> array[i + 1]]
  <2>2. s \in [1..0 -> Tasks \cup {Torn}]
    BY <2>1
  <2>3. s \in Seq(Tasks \cup {Torn})
    BY <2>2, SeqDef, 0 \in Nat
  <2> QED BY <2>3 DEF RestInOrder, n
<1>3. CASE n # 0
  <2>1. n - 1 \in Nat
    BY <1>1, <1>3, BatchAssumption
  <2>2. \A i \in 1..(n - 1) : array[i + 1] \in Tasks \cup {Torn}
    <3> SUFFICES ASSUME NEW i \in 1..(n - 1) PROVE array[i + 1] \in Tasks \cup {Torn}
      OBVIOUS
    <3>1. i + 1 \in 1..n /\ i + 1 \in Slots
      BY <1>1, BatchAssumption DEF Slots
    <3>2. array[i + 1] # Dummy /\ array[i + 1] \in Tasks \cup {Dummy, Torn}
      BY <1>1, <3>1 DEF Array
    <3> QED BY <3>2
  <2>3. [i \in 1..(n - 1) |-> array[i + 1]] \in Seq(Tasks \cup {Torn})
    BY <2>1, <2>2, IsASeq
  <2> QED BY <2>3 DEF RestInOrder, n
<1> QED BY <1>2, <1>3

LEMMA ReversedIsSeq ==
    ASSUME NEW X, NEW s \in Seq(X)
    PROVE  Reversed(s) \in Seq(X)
PROOF
<1>1. Len(s) \in Nat /\ \A i \in 1..Len(s) : s[Len(s) + 1 - i] \in X
  BY LenProperties, ElementOfSeq
<1> QED BY <1>1, IsASeq DEF Reversed

-----------------------------------------------------------------------------
(* Type correctness.                                                       *)

LEMMA DummyType == DummyArray \in Array /\ TornArray \in Array
PROOF BY DEF DummyArray, TornArray, Array

LEMMA IdleType == ASSUME NEW t \in Threads PROVE IdleFrame(t) \in Frame
PROOF BY DummyType DEF IdleFrame, Frame

\* What a cell or a local that holds an element can contain.
Mark == Tasks \cup {Dummy, Torn}

\* The assignments to the locals of a call keep their types.
LEMMA ControlFields ==
    ASSUME NEW f \in Frame
    PROVE  /\ [f EXCEPT !.op = "push"] \in Frame
           /\ [f EXCEPT !.op = "pop"] \in Frame
           /\ [f EXCEPT !.op = "pop", !.fallback = TRUE] \in Frame
           /\ [f EXCEPT !.next = "pick"] \in Frame
PROOF BY DEF Frame

LEMMA VersionFields ==
    ASSUME NEW f \in Frame, NEW n \in Nat
    PROVE  /\ [f EXCEPT !.v1 = n] \in Frame
           /\ [f EXCEPT !.v1 = n, !.k = 1] \in Frame
PROOF BY DEF Frame

LEMMA ElementFields ==
    ASSUME NEW f \in Frame, NEW x \in Mark
    PROVE  /\ [f EXCEPT !.op = "pop", !.ret = x] \in Frame
           /\ [f EXCEPT !.ret = x] \in Frame
           /\ [f EXCEPT !.localMin = x] \in Frame
           /\ [f EXCEPT !.minVal = x] \in Frame
PROOF BY DEF Frame, Mark

LEMMA MinimumFields ==
    ASSUME NEW f \in Frame, NEW x \in Mark
    PROVE  /\ [f EXCEPT !.minVal = x, !.raced = TRUE, !.v1 = 0] \in Frame
           /\ [f EXCEPT !.minVal = x, !.raced = FALSE, !.v1 = 0] \in Frame
PROOF BY DEF Frame, Mark

LEMMA SnapshotFields ==
    ASSUME NEW f \in Frame, NEW n \in Nat, NEW x \in Mark
    PROVE  [f EXCEPT !.v1 = n, !.minVal = x] \in Frame
PROOF BY DEF Frame, Mark

LEMMA VictimFields ==
    ASSUME NEW f \in Frame, NEW v \in Threads
    PROVE  [f EXCEPT !.victim = v, !.next = "return", !.v1 = 0, !.minVal = Dummy] \in Frame
PROOF BY DEF Frame

LEMMA ArrayField ==
    ASSUME NEW f \in Frame, NEW b \in Array
    PROVE  [f EXCEPT !.elements = b] \in Frame
PROOF BY DEF Frame

LEMMA CopyFields ==
    ASSUME NEW f \in Frame, NEW b \in Array, NEW n \in Nat
    PROVE  [f EXCEPT !.elements = b, !.k = n] \in Frame
PROOF BY DEF Frame

LEMMA BatchFields ==
    ASSUME NEW f \in Frame, NEW x \in Mark, NEW b \in Array
    PROVE  /\ [f EXCEPT !.ret = x, !.elements = b] \in Frame
           /\ [f EXCEPT !.localMin = x, !.elements = b] \in Frame
PROOF BY DEF Frame, Mark

\* What the steps read from the locals of a call.
LEMMA FrameTypes ==
    ASSUME NEW f \in Frame
    PROVE  /\ f.next \in {"return", "pick"} /\ f.victim \in Threads
           /\ f.v1 \in Nat /\ f.k \in Nat /\ f.elements \in Array
           /\ f.elements[1] \in Mark /\ f.minVal \in Mark /\ f.ret \in Mark
PROOF
<1>1. 1 \in Slots
  BY BatchAssumption DEF Slots
<1> QED BY <1>1 DEF Frame, Array, Mark

LEMMA InitType == Init => TypeOK
PROOF
<1> SUFFICES ASSUME Init PROVE TypeOK
  OBVIOUS
<1>1. frame \in [Threads -> Frame]
  BY IdleType DEF Init
<1>2. stealBuffers \in [Threads -> Seq(Tasks \cup {Torn})]
  BY EmptySeq DEF Init
<1>3. cells \in [Threads -> Array]
  BY DummyType DEF Init
<1> QED BY <1>1, <1>2, <1>3 DEF Init, TypeOK, Labels

LEMMA TypeStep == TypeOK /\ [Next]_vars => TypeOK'
PROOF
<1> SUFFICES ASSUME TypeOK, [Next]_vars PROVE TypeOK'
  OBVIOUS
<1> USE DEF TypeOK, Goto, Labels, shared, history
<1>f. ASSUME NEW t \in Threads
      PROVE  /\ frame[t] \in Frame
             /\ frame[t].next \in {"return", "pick"} /\ frame[t].victim \in Threads
             /\ frame[t].v1 \in Nat /\ frame[t].k \in Nat /\ frame[t].elements \in Array
             /\ frame[t].elements[1] \in Mark /\ frame[t].minVal \in Mark
             /\ frame[t].ret \in Mark
  BY FrameTypes
<1>c. \A u \in Threads : cells[u][1] \in Mark
  BY BatchAssumption DEF Array, Slots, Mark
<1>d. Dummy \in Mark /\ DummyArray \in Array /\ TornArray \in Array
  BY DummyType DEF Mark
<1>0. CASE UNCHANGED vars
  BY <1>0 DEF vars
<1>1. ASSUME NEW t \in Threads, Push(t) PROVE TypeOK'
  <2>1. frame' \in [Threads -> Frame]
    BY <1>1, <1>f, ControlFields DEF Push
  <2> QED BY <1>1, <2>1 DEF Push
<1>2. ASSUME NEW t \in Threads, PopBuffered(t) PROVE TypeOK'
  <2>1. Len(stealBuffers[t]) \in Nat \ {0}
    BY <1>2, EmptySeq DEF PopBuffered
  <2>2. stealBuffers[t][Len(stealBuffers[t])] \in Mark
    BY <2>1, ElementOfSeq DEF Mark
  <2>3. SubSeq(stealBuffers[t], 1, Len(stealBuffers[t]) - 1) \in Seq(Tasks \cup {Torn})
    BY <2>1, SubSeqProperties
  <2>4. stealBuffers' \in [Threads -> Seq(Tasks \cup {Torn})]
    BY <1>2, <2>3 DEF PopBuffered
  <2>5. frame' \in [Threads -> Frame]
    BY <1>2, <1>f, <2>2, ElementFields DEF PopBuffered
  <2> QED BY <1>2, <2>4, <2>5 DEF PopBuffered
<1>3. ASSUME NEW t \in Threads, PopStealing(t) PROVE TypeOK'
  <2>1. frame' \in [Threads -> Frame]
    BY <1>3, <1>f, ControlFields DEF PopStealing
  <2> QED BY <1>3, <2>1 DEF PopStealing
<1>4. ASSUME NEW t \in Threads, PopLocal(t) PROVE TypeOK'
  <2>1. frame' \in [Threads -> Frame]
    BY <1>4, <1>f, ControlFields DEF PopLocal
  <2> QED BY <1>4, <2>1 DEF PopLocal
<1>5. ASSUME NEW t \in Threads, FillBufferIfStolen(t) \/ ChooseLocal(t) \/ ChooseSteal(t)
      PROVE  TypeOK'
  BY <1>5 DEF FillBufferIfStolen, ChooseLocal, ChooseSteal, StealEnds
<1>6. ASSUME NEW t \in Threads, FillNothing(t) PROVE TypeOK'
  <2>1. frame' \in [Threads -> Frame]
    BY <1>6, <1>d, <1>f, ElementFields DEF FillNothing
  <2> QED BY <1>6, <1>f, <2>1 DEF FillNothing
<1>7. ASSUME NEW t \in Threads, FillBuffer(t) PROVE TypeOK'
  <2>1. PICK batch \in Batches(heap[t]) :
          /\ heap' = [heap EXCEPT ![t] = @ \ Items(batch)]
          /\ frame' = [frame EXCEPT ![t] = [@ EXCEPT !.elements = batch]]
    BY <1>7 DEF FillBuffer
  <2>2. batch \in Array
    BY <1>7, BatchFacts DEF FillBuffer
  <2>3. frame' \in [Threads -> Frame]
    BY <1>f, <2>1, <2>2, ArrayField
  <2>4. heap' \in [Threads -> SUBSET Tasks]
    BY <2>1
  <2> QED BY <1>7, <1>d, <2>3, <2>4 DEF FillBuffer
<1>8. ASSUME NEW t \in Threads, FillWritten(t) PROVE TypeOK'
  BY <1>8, <1>f DEF FillWritten
<1>9. ASSUME NEW t \in Threads, FillPublish(t) PROVE TypeOK'
  <2>1. frame' \in [Threads -> Frame]
    BY <1>9, <1>d, <1>f, BatchFields DEF FillPublish
  <2> QED BY <1>9, <1>f, <2>1 DEF FillPublish
<1>10. ASSUME NEW t \in Threads, GetBufferMin(t) PROVE TypeOK'
  <2>1. CASE Stealable(frame[t].victim)
    <3>1. frame' = [frame EXCEPT ![t] = [frame[t] EXCEPT !.v1 = version[frame[t].victim]]]
      BY <1>10, <2>1 DEF GetBufferMin
    <3>2. [frame[t] EXCEPT !.v1 = version[frame[t].victim]] \in Frame
      BY <1>f, VersionFields
    <3>3. frame' \in [Threads -> Frame]
      BY <3>1, <3>2
    <3> QED BY <1>10, <2>1, <3>3 DEF GetBufferMin
  <2>2. CASE ~Stealable(frame[t].victim)
    <3>1. frame' = [frame EXCEPT ![t] = [frame[t] EXCEPT !.minVal = Dummy, !.raced = FALSE, !.v1 = 0]]
      BY <1>10, <2>2 DEF GetBufferMin, GotBufferMin
    <3>2. [frame[t] EXCEPT !.minVal = Dummy, !.raced = FALSE, !.v1 = 0] \in Frame
      BY <1>d, <1>f, MinimumFields
    <3>3. frame' \in [Threads -> Frame]
      BY <3>1, <3>2
    <3> QED BY <1>10, <2>2, <3>3 DEF GetBufferMin, GotBufferMin
  <2> QED BY <2>1, <2>2
<1>11. ASSUME NEW t \in Threads, ReadMin(t) PROVE TypeOK'
  <2>1. frame' \in [Threads -> Frame]
    BY <1>11, <1>c, <1>f, ElementFields DEF ReadMin
  <2> QED BY <1>11, <2>1 DEF ReadMin
<1>12. ASSUME NEW t \in Threads, VersionAgain(t) PROVE TypeOK'
  <2>1. CASE version[frame[t].victim] = frame[t].v1
    <3>1. frame' = [frame EXCEPT ![t] = [frame[t] EXCEPT !.minVal = frame[t].minVal, !.raced = FALSE, !.v1 = 0]]
      BY <1>12, <2>1 DEF VersionAgain, GotBufferMin
    <3>2. [frame[t] EXCEPT !.minVal = frame[t].minVal, !.raced = FALSE, !.v1 = 0] \in Frame
      BY <1>f, MinimumFields
    <3>3. frame' \in [Threads -> Frame]
      BY <3>1, <3>2
    <3> QED BY <1>12, <2>1, <3>3 DEF VersionAgain, GotBufferMin
  <2>2. CASE version[frame[t].victim] # frame[t].v1
    <3>1. frame' = [frame EXCEPT ![t] = [frame[t] EXCEPT !.minVal = Dummy, !.raced = TRUE, !.v1 = 0]]
      BY <1>12, <2>2 DEF VersionAgain, GotBufferMin
    <3>2. [frame[t] EXCEPT !.minVal = Dummy, !.raced = TRUE, !.v1 = 0] \in Frame
      BY <1>d, <1>f, MinimumFields
    <3>3. frame' \in [Threads -> Frame]
      BY <3>1, <3>2
    <3> QED BY <1>12, <2>2, <3>3 DEF VersionAgain, GotBufferMin
  <2> QED BY <2>1, <2>2
<1>13. ASSUME NEW t \in Threads, ExtractMin(t) PROVE TypeOK'
  <2>1. frame' \in [Threads -> Frame]
    BY <1>13, IdleType, ControlFields DEF ExtractMin
  <2> QED BY <1>13, <2>1 DEF ExtractMin
<1>14. ASSUME NEW t \in Threads, PopLocally(t) PROVE TypeOK'
  <2>1. PICK x \in heap[t] : /\ heap' = [heap EXCEPT ![t] = @ \ {x}]
                             /\ frame' = [frame EXCEPT ![t] = [@ EXCEPT !.ret = x]]
    BY <1>14 DEF PopLocally, Best
  <2>2. x \in Mark
    BY <2>1 DEF Mark
  <2>3. frame' \in [Threads -> Frame]
    BY <1>f, <2>1, <2>2, ElementFields
  <2>4. heap' \in [Threads -> SUBSET Tasks]
    BY <2>1
  <2> QED BY <1>14, <2>3, <2>4 DEF PopLocally
<1>15. ASSUME NEW t \in Threads, TrySteal(t) PROVE TypeOK'
  <2>1. CASE Stealable(frame[t].victim)
    <3>1. frame' = [frame EXCEPT ![t] = [frame[t] EXCEPT !.v1 = version[frame[t].victim], !.k = 1]]
      BY <1>15, <2>1 DEF TrySteal
    <3>2. [frame[t] EXCEPT !.v1 = version[frame[t].victim], !.k = 1] \in Frame
      BY <1>f, VersionFields
    <3>3. frame' \in [Threads -> Frame]
      BY <3>1, <3>2
    <3> QED BY <1>15, <2>1, <3>3 DEF TrySteal
  <2>2. CASE ~Stealable(frame[t].victim)
    BY <1>15, <2>2 DEF TrySteal, NothingStolen, StealEnds
  <2> QED BY <2>1, <2>2
<1>16. ASSUME NEW t \in Threads, CopyCell(t) PROVE TypeOK'
  <2>1. Copied(t) \in Array
    <3>1. frame[t].elements \in Array /\ cells[frame[t].victim] \in Array
      BY <1>f
    <3> QED BY <3>1 DEF Copied, Array
  <2>2. frame' = [frame EXCEPT ![t] = [@ EXCEPT !.elements = Copied(t), !.k = frame[t].k + 1]]
    BY <1>16 DEF CopyCell
  <2>3. [frame[t] EXCEPT !.elements = Copied(t), !.k = frame[t].k + 1] \in Frame
    <3>1. frame[t] \in Frame /\ frame[t].k + 1 \in Nat
      BY <1>f
    <3> QED BY <2>1, <3>1, CopyFields
  <2>4. frame' \in [Threads -> Frame]
    BY <2>2, <2>3
  <2> QED BY <1>16, <2>4 DEF CopyCell
<1>17. ASSUME NEW t \in Threads, CasSucceeds(t)
       PROVE  version' \in [Threads -> Nat] /\ frame' \in [Threads -> Frame]
  <2>1. frame' \in [Threads -> Frame]
    BY <1>17, <1>d, <1>f, BatchFields DEF CasSucceeds
  <2> QED BY <1>17, <1>f, <2>1 DEF CasSucceeds
<1>18. ASSUME NEW t \in Threads, StealLocally(t) PROVE TypeOK'
  <2>1. heap' \in [Threads -> SUBSET Tasks]
    BY <1>18 DEF StealLocally, Rest, Items
  <2> QED BY <1>17, <1>18, <2>1 DEF StealLocally
<1>19. ASSUME NEW t \in Threads, StealRemotely(t) PROVE TypeOK'
  <2>1. RestInOrder(frame[t].elements) \in Seq(Tasks \cup {Torn})
    BY <1>f, RestIsSeq
  <2>2. Reversed(stealBuffers[t] \o RestInOrder(frame[t].elements)) \in Seq(Tasks \cup {Torn})
    BY <2>1, ConcatProperties, ReversedIsSeq
  <2>3. stealBuffers' \in [Threads -> Seq(Tasks \cup {Torn})]
    BY <1>19, <2>2 DEF StealRemotely
  <2> QED BY <1>17, <1>19, <2>3 DEF StealRemotely
<1>20. ASSUME NEW t \in Threads, CasFails(t) PROVE TypeOK'
  <2>1. frame' \in [Threads -> Frame]
    BY <1>20, <1>d, <1>f, ArrayField DEF CasFails
  <2> QED BY <1>20, <2>1 DEF CasFails, NothingStolen, StealEnds
<1>21. ASSUME NEW t \in Threads, GetMinWriter(t) PROVE TypeOK'
  <2>1. CASE Stealable(t)
    <3>1. frame' = [frame EXCEPT ![t] = [frame[t] EXCEPT !.v1 = version[t], !.minVal = cells[t][1]]]
      BY <1>21, <2>1 DEF GetMinWriter
    <3>2. [frame[t] EXCEPT !.v1 = version[t], !.minVal = cells[t][1]] \in Frame
      BY <1>c, <1>f, SnapshotFields
    <3>3. frame' \in [Threads -> Frame]
      BY <3>1, <3>2
    <3> QED BY <1>21, <2>1, <3>3 DEF GetMinWriter
  <2>2. CASE ~Stealable(t)
    <3>1. frame' = [frame EXCEPT ![t] = [frame[t] EXCEPT !.next = "pick"]]
      BY <1>21, <2>2 DEF GetMinWriter
    <3>2. [frame[t] EXCEPT !.next = "pick"] \in Frame
      BY <1>f, ControlFields
    <3>3. frame' \in [Threads -> Frame]
      BY <3>1, <3>2
    <3> QED BY <1>21, <2>2, <3>3 DEF GetMinWriter
  <2> QED BY <2>1, <2>2
<1>22. ASSUME NEW t \in Threads, MinWriterAgain(t) PROVE TypeOK'
  <2>1. CASE version[t] = frame[t].v1
    <3>1. frame' = [frame EXCEPT ![t] = [frame[t] EXCEPT !.localMin = frame[t].minVal]]
      BY <1>22, <2>1 DEF MinWriterAgain
    <3>2. [frame[t] EXCEPT !.localMin = frame[t].minVal] \in Frame
      BY <1>f, ElementFields
    <3>3. frame' \in [Threads -> Frame]
      BY <3>1, <3>2
    <3> QED BY <1>22, <2>1, <3>3 DEF MinWriterAgain
  <2>2. CASE version[t] # frame[t].v1
    <3>1. frame' = [frame EXCEPT ![t] = [frame[t] EXCEPT !.next = "pick"]]
      BY <1>22, <2>2 DEF MinWriterAgain
    <3>2. [frame[t] EXCEPT !.next = "pick"] \in Frame
      BY <1>f, ControlFields
    <3>3. frame' \in [Threads -> Frame]
      BY <3>1, <3>2
    <3> QED BY <1>22, <2>2, <3>3 DEF MinWriterAgain
  <2> QED BY <2>1, <2>2
<1>23. ASSUME NEW t \in Threads, PickVictim(t) PROVE TypeOK'
  <2>1. PICK v \in Threads :
          frame' = [frame EXCEPT ![t] = [@ EXCEPT !.victim = v, !.next = "return",
                                                  !.v1 = 0, !.minVal = Dummy]]
    BY <1>23 DEF PickVictim
  <2>2. frame' \in [Threads -> Frame]
    BY <1>f, <2>1, VictimFields
  <2> QED BY <1>23, <2>2 DEF PickVictim
<1>24. ASSUME NEW t \in Threads, Return(t) PROVE TypeOK'
  <2>1. frame' \in [Threads -> Frame]
    BY <1>24, IdleType DEF Return
  <2>2. delivered' \in SUBSET (Tasks \cup {Torn})
    BY <1>24, <1>f DEF Return, Mark
  <2> QED BY <1>24, <2>1, <2>2 DEF Return
<1> QED
  BY <1>0, <1>1, <1>2, <1>3, <1>4, <1>5, <1>6, <1>7, <1>8, <1>9, <1>10, <1>11, <1>12,
     <1>13, <1>14, <1>15, <1>16, <1>18, <1>19, <1>20, <1>21, <1>22, <1>23, <1>24
     DEF Next, Pop, Step

-----------------------------------------------------------------------------
(* What a step of t may do to what another thread u knows: a version only  *)
(* grows, and the version of u only from odd; a buffer is only written     *)
(* while its version is even.                                              *)

VersionsGrow(t) ==
    \A w \in Threads :
        \/ version'[w] = version[w]
        \/ version'[w] = version[w] + 1 /\ (w = t \/ Stealable(w))

WritesOwn(t) ==
    \A w \in Threads :
        \/ cells'[w] = cells[w]
        \/ w = t /\ ~Stealable(w) /\ version'[w] = version[w]

TouchesOnly(t) ==
    /\ \A u \in Threads \ {t} : pc'[u] = pc[u] /\ frame'[u] = frame[u] /\ heap'[u] = heap[u]
    /\ VersionsGrow(t)
    /\ WritesOwn(t)

LEMMA OthersKeep ==
    ASSUME TypeOK, TypeOK', NEW t \in Threads, NEW u \in Threads \ {t},
           ThreadInv(u), TouchesOnly(t)
    PROVE  ThreadInv(u)'
PROOF
<1> DEFINE v == frame[u].victim
<1>1. /\ pc'[u] = pc[u] /\ frame'[u] = frame[u] /\ heap'[u] = heap[u]
      /\ v \in Threads /\ frame[u].v1 \in Nat
      /\ version \in [Threads -> Nat]
  BY FrameTypes DEF TouchesOnly, TypeOK
<1>2. \A w \in Threads : version'[w] = version[w] \/ version'[w] = version[w] + 1
  BY DEF TouchesOnly, VersionsGrow
<1>3. version'[u] = version[u] \/ (version'[u] = version[u] + 1 /\ version[u] % 2 = 1)
  BY DEF TouchesOnly, VersionsGrow, Stealable
<1>4. cells'[u] = cells[u]
  BY DEF TouchesOnly, WritesOwn
<1>5. Snapshot(u)'
  BY <1>1, <1>2 DEF ThreadInv, Snapshot, Reading, Copying
<1>6. OwnSnapshot(u)'
  BY <1>1, <1>3 DEF ThreadInv, Snapshot, OwnSnapshot, Reading, Owner
<1>7. ASSUME Reading(u) \/ Copying(u), version'[v] = frame[u].v1
      PROVE  version[v] = frame[u].v1 /\ cells'[v] = cells[v]
  <2>1. frame[u].v1 % 2 = 1 /\ frame[u].v1 <= version[v]
    BY <1>7 DEF ThreadInv, Snapshot
  <2>2. version[v] = frame[u].v1
    BY <1>1, <1>2, <1>7, <2>1
  <2> QED BY <1>1, <2>1, <2>2 DEF TouchesOnly, WritesOwn, Stealable
<1>8. Copy(u)'
  BY <1>1, <1>7 DEF ThreadInv, Copy, Reading, Copying
<1>9. Fill(u)'
  BY <1>1, <1>3, <1>4 DEF ThreadInv, Fill, Stealable
<1>10. Extract(u)'
  BY <1>1, <1>3 DEF ThreadInv, Extract, Copying, Owner, Stealable
<1> QED BY <1>5, <1>6, <1>8, <1>9, <1>10 DEF ThreadInv
LEMMA StepKeeps ==
    ASSUME BufferInv, TypeOK', NEW t \in Threads, TouchesOnly(t), ThreadInv(t)'
    PROVE  BufferInv'
PROOF
<1>1. \A u \in Threads \ {t} : ThreadInv(u)'
  BY OthersKeep DEF BufferInv
<1> QED BY <1>1 DEF BufferInv

\* Labels at which a thread knows nothing of a buffer it could act on.
Ignorant == {"idle", "fillIfStolen", "extractMin", "getMinWriter", "pick", "getBufferMin",
             "chooseSteal", "return"}

LEMMA IgnorantKeeps ==
    ASSUME NEW t \in Threads, UNCHANGED <<cells, version>>, Fill(t), pc'[t] \in Ignorant
    PROVE  ThreadInv(t)'
PROOF BY DEF Ignorant, ThreadInv, Snapshot, OwnSnapshot, Copy, Fill, Extract, Reading,
             Copying, Stealable

\* The steps of t that write neither a buffer nor a version.
Quiet(t) ==
    \/ Push(t) \/ PopBuffered(t) \/ PopStealing(t) \/ PopLocal(t) \/ Return(t)
    \/ FillBufferIfStolen(t) \/ FillNothing(t)
    \/ GetBufferMin(t) \/ ReadMin(t) \/ VersionAgain(t)
    \/ ExtractMin(t) \/ ChooseLocal(t) \/ PopLocally(t)
    \/ TrySteal(t) \/ CopyCell(t) \/ CasFails(t)
    \/ GetMinWriter(t) \/ MinWriterAgain(t) \/ PickVictim(t) \/ ChooseSteal(t)

LEMMA QuietTouches ==
    ASSUME TypeOK, NEW t \in Threads, Quiet(t)
    PROVE  TouchesOnly(t) /\ UNCHANGED <<cells, version>>
PROOF
<1> DEFINE Others == /\ \A u \in Threads \ {t} :
                          pc'[u] = pc[u] /\ frame'[u] = frame[u] /\ heap'[u] = heap[u]
                     /\ UNCHANGED <<cells, version>>
<1> USE DEF Goto, shared, history
<1>0. /\ heap \in [Threads -> SUBSET Tasks] /\ pc \in [Threads -> Labels]
      /\ frame \in [Threads -> Frame]
  BY DEF TypeOK
<1>1. Push(t) => Others
  BY <1>0 DEF Push
<1>2. PopBuffered(t) => Others
  BY <1>0 DEF PopBuffered
<1>3. PopStealing(t) => Others
  BY <1>0 DEF PopStealing
<1>4. PopLocal(t) => Others
  BY <1>0 DEF PopLocal
<1>5. Return(t) => Others
  BY <1>0 DEF Return
<1>6. FillBufferIfStolen(t) => Others
  BY <1>0 DEF FillBufferIfStolen
<1>7. FillNothing(t) => Others
  BY <1>0 DEF FillNothing
<1>8. GetBufferMin(t) => Others
  BY <1>0 DEF GetBufferMin, GotBufferMin
<1>9. ReadMin(t) => Others
  BY <1>0 DEF ReadMin
<1>10. VersionAgain(t) => Others
  BY <1>0 DEF VersionAgain, GotBufferMin
<1>11. ExtractMin(t) => Others
  BY <1>0 DEF ExtractMin
<1>12. ChooseLocal(t) => Others
  BY <1>0 DEF ChooseLocal
<1>13. PopLocally(t) => Others
  BY <1>0 DEF PopLocally
<1>14. TrySteal(t) => Others
  BY <1>0 DEF TrySteal, NothingStolen, StealEnds
<1>15. CopyCell(t) => Others
  BY <1>0 DEF CopyCell
<1>16. CasFails(t) => Others
  BY <1>0 DEF CasFails, NothingStolen, StealEnds
<1>17. GetMinWriter(t) => Others
  BY <1>0 DEF GetMinWriter
<1>18. MinWriterAgain(t) => Others
  BY <1>0 DEF MinWriterAgain
<1>19. PickVictim(t) => Others
  BY <1>0 DEF PickVictim
<1>20. ChooseSteal(t) => Others
  BY <1>0 DEF ChooseSteal, StealEnds
<1>21. Others
  BY <1>1, <1>2, <1>3, <1>4, <1>5, <1>6, <1>7, <1>8, <1>9, <1>10,
     <1>11, <1>12, <1>13, <1>14, <1>15, <1>16, <1>17, <1>18, <1>19, <1>20 DEF Quiet
<1> QED BY <1>21 DEF TouchesOnly, VersionsGrow, WritesOwn
-----------------------------------------------------------------------------
(* One step of t preserves what t knows.                                   *)

\* The parts of ThreadInv, with what they say of the locals of a call.
LEMMA OwnQuietStep ==
    ASSUME BufferInv, NEW t \in Threads, Quiet(t)
    PROVE  ThreadInv(t)'
PROOF
<1> DEFINE f == frame[t]
           v == frame[t].victim
<1>0. /\ pc \in [Threads -> Labels] /\ frame \in [Threads -> Frame]
      /\ version \in [Threads -> Nat] /\ heap \in [Threads -> SUBSET Tasks]
  BY DEF BufferInv, TypeOK
<1>1. /\ f \in Frame /\ v \in Threads /\ f.v1 \in Nat /\ f.k \in Nat /\ f.elements \in Array
      /\ f.next \in {"return", "pick"} /\ version[v] \in Nat /\ version[t] \in Nat
  BY <1>0, FrameTypes
<1>2. ThreadInv(t)
  BY DEF BufferInv
<1>3. Fill(t)
  BY <1>2 DEF ThreadInv
<1>4. UNCHANGED <<cells, version>>
  BY QuietTouches DEF BufferInv
<1>5. ASSUME pc'[t] \in Ignorant PROVE ThreadInv(t)'
  BY <1>3, <1>4, <1>5, IgnorantKeeps
<1>6. ASSUME pc'[t] = "fill", ~Stealable(t) PROVE ThreadInv(t)'
  BY <1>3, <1>4, <1>6 DEF ThreadInv, Snapshot, OwnSnapshot, Copy, Fill, Extract, Reading,
                          Copying, Stealable
<1>7. ASSUME pc'[t] \in {"chooseLocal", "popLocally"}, frame'[t].victim = t,
             frame'[t].minVal = Dummy => ~Stealable(t)
      PROVE  ThreadInv(t)'
  BY <1>3, <1>4, <1>7 DEF ThreadInv, Snapshot, OwnSnapshot, Copy, Fill, Extract, Reading,
                          Copying, Stealable, Owner
<1>8. ASSUME pc'[t] = "trySteal",
             frame'[t].victim = t /\ heap'[t] # {} => frame'[t].minVal # Dummy
      PROVE  ThreadInv(t)'
  BY <1>3, <1>4, <1>8 DEF ThreadInv, Snapshot, OwnSnapshot, Copy, Fill, Extract, Reading,
                          Copying, Stealable, Owner
<1> USE DEF Goto, shared, history
<1>9. CASE Push(t) \/ PopBuffered(t) \/ PopStealing(t) \/ PopLocal(t) \/ Return(t)
  <2>1. pc'[t] \in Ignorant
    BY <1>0, <1>9 DEF Push, PopBuffered, PopStealing, PopLocal, Return, Ignorant
  <2> QED BY <1>5, <2>1
<1>10. CASE FillBufferIfStolen(t)
  <2>1. pc'[t] = "return" \/ (pc'[t] = "fill" /\ ~Stealable(t))
    BY <1>0, <1>10 DEF FillBufferIfStolen
  <2> QED BY <1>5, <1>6, <2>1 DEF Ignorant
<1>11. CASE FillNothing(t) \/ PickVictim(t)
  <2>1. pc'[t] \in Ignorant
    BY <1>0, <1>1, <1>11 DEF FillNothing, PickVictim, Ignorant
  <2> QED BY <1>5, <2>1
<1>12. CASE GetBufferMin(t)
  <2>1. CASE Stealable(v)
    <3>1. pc'[t] = "readMin" /\ frame' = [frame EXCEPT ![t] = [f EXCEPT !.v1 = version[v]]]
      BY <1>0, <1>12, <2>1 DEF GetBufferMin
    <3>2. frame'[t].victim = v /\ frame'[t].v1 = version[v]
      BY <1>0, <1>1, <3>1 DEF Frame
    <3> QED BY <1>1, <1>3, <1>4, <2>1, <3>1, <3>2
            DEF ThreadInv, Snapshot, OwnSnapshot, Copy, Fill, Extract, Reading, Copying,
                Stealable, Owner
  <2>2. CASE ~Stealable(v)
    <3>1. /\ pc'[t] = IF v = t THEN "chooseLocal" ELSE "chooseSteal"
          /\ frame' = [frame EXCEPT ![t] =
                         [f EXCEPT !.minVal = Dummy, !.raced = FALSE, !.v1 = 0]]
      BY <1>0, <1>12, <2>2 DEF GetBufferMin, GotBufferMin, Owner
    <3>2. frame'[t].victim = v
      BY <1>0, <1>1, <3>1 DEF Frame
    <3> QED BY <1>5, <1>7, <2>2, <3>1, <3>2 DEF Ignorant
  <2> QED BY <2>1, <2>2
<1>13. CASE ReadMin(t)
  <2>1. /\ pc[t] = "readMin" /\ pc'[t] = "versionAgain"
        /\ frame' = [frame EXCEPT ![t] = [f EXCEPT !.minVal = cells[v][1]]]
    BY <1>0, <1>13 DEF ReadMin
  <2>2. frame'[t].victim = v /\ frame'[t].v1 = f.v1 /\ frame'[t].minVal = cells[v][1]
    BY <1>0, <1>1, <2>1 DEF Frame
  <2> QED BY <1>2, <1>4, <2>1, <2>2
          DEF ThreadInv, Snapshot, OwnSnapshot, Copy, Fill, Extract, Reading, Copying,
              Stealable, Owner
<1>14. CASE VersionAgain(t)
  <2>1. pc[t] = "versionAgain"
    BY <1>14 DEF VersionAgain
  <2>2. pc'[t] = IF v = t THEN "chooseLocal" ELSE "chooseSteal"
    BY <1>0, <1>14 DEF VersionAgain, GotBufferMin, Owner
  <2>3. CASE version[v] = f.v1
    <3>1. frame' = [frame EXCEPT ![t] =
                      [f EXCEPT !.minVal = f.minVal, !.raced = FALSE, !.v1 = 0]]
      BY <1>14, <2>3 DEF VersionAgain, GotBufferMin
    <3>2. frame'[t].victim = v /\ frame'[t].minVal = f.minVal
      BY <1>0, <1>1, <3>1 DEF Frame
    <3>3. v = t => f.minVal \in Tasks
      BY <1>2, <2>1, <2>3 DEF ThreadInv, Snapshot, Copy, Fill, Reading, Stealable
    <3> QED BY <1>5, <1>7, <2>2, <3>2, <3>3, MarksAssumption DEF Ignorant
  <2>4. CASE version[v] # f.v1
    <3>1. frame' = [frame EXCEPT ![t] =
                      [f EXCEPT !.minVal = Dummy, !.raced = TRUE, !.v1 = 0]]
      BY <1>14, <2>4 DEF VersionAgain, GotBufferMin
    <3>2. frame'[t].victim = v
      BY <1>0, <1>1, <3>1 DEF Frame
    <3>3. v = t => ~Stealable(t)
      BY <1>1, <1>2, <2>1, <2>4 DEF ThreadInv, Snapshot, OwnSnapshot, Reading, Owner, Stealable
    <3> QED BY <1>5, <1>7, <2>2, <3>2, <3>3 DEF Ignorant
  <2> QED BY <2>3, <2>4
<1>15. CASE ExtractMin(t)
  <2>1. pc'[t] = (IF heap[t] = {} THEN "trySteal" ELSE "getBufferMin") /\ heap'[t] = heap[t]
    BY <1>0, <1>15 DEF ExtractMin
  <2> QED BY <1>5, <1>8, <2>1 DEF Ignorant
<1>16. CASE ChooseLocal(t)
  <2>1. /\ pc[t] = "chooseLocal" /\ frame'[t] = f
        /\ pc'[t] = "popLocally" \/ (pc'[t] = "trySteal" /\ f.minVal # Dummy)
    BY <1>0, <1>16 DEF ChooseLocal
  <2>2. v = t /\ (f.minVal = Dummy => ~Stealable(t))
    BY <1>2, <2>1 DEF ThreadInv, Extract, Owner
  <2> QED BY <1>7, <1>8, <2>1, <2>2
<1>17. CASE PopLocally(t)
  <2>1. /\ pc[t] = "popLocally"
        /\ pc'[t] = IF f.minVal = Dummy THEN "fill" ELSE "return"
    BY <1>0, <1>17 DEF PopLocally
  <2>2. f.minVal = Dummy => ~Stealable(t)
    BY <1>2, <2>1 DEF ThreadInv, Extract
  <2> QED BY <1>5, <1>6, <2>1, <2>2 DEF Ignorant
<1>18. CASE TrySteal(t)
  <2>1. pc[t] = "trySteal" /\ heap'[t] = heap[t]
    BY <1>18 DEF TrySteal
  <2>2. CASE Stealable(v)
    <3>1. /\ pc'[t] = "copy"
          /\ frame' = [frame EXCEPT ![t] = [f EXCEPT !.v1 = version[v], !.k = 1]]
      BY <1>0, <1>18, <2>2 DEF TrySteal
    <3>2. /\ frame'[t].victim = v /\ frame'[t].v1 = version[v] /\ frame'[t].k = 1
          /\ frame'[t].minVal = f.minVal
      BY <1>0, <1>1, <3>1 DEF Frame
    <3>3. 1 \in Slots /\ \A i \in Slots : ~(i < 1)
      BY BatchAssumption DEF Slots
    <3> QED BY <1>1, <1>2, <1>4, <2>1, <2>2, <3>1, <3>2, <3>3
            DEF ThreadInv, Snapshot, OwnSnapshot, Copy, Fill, Extract, Reading, Copying,
                Stealable, Owner
  <2>3. CASE ~Stealable(v)
    <3>1. frame'[t] = f /\ \/ pc'[t] \in {"return", "getMinWriter", "extractMin"}
                           \/ pc'[t] = "popLocally" /\ v = t /\ heap[t] # {}
      BY <1>0, <1>18, <2>3 DEF TrySteal, NothingStolen, StealEnds, Owner
    <3>2. v = t /\ heap[t] # {} => f.minVal # Dummy
      BY <1>2, <2>1 DEF ThreadInv, Extract, Owner
    <3> QED BY <1>5, <1>7, <3>1, <3>2 DEF Ignorant
  <2> QED BY <2>2, <2>3
<1>19. CASE CopyCell(t)
  <2>1. /\ pc[t] = "copy" /\ heap'[t] = heap[t]
        /\ pc'[t] = IF f.k = StealBatchSize THEN "cas" ELSE "copy"
        /\ frame' = [frame EXCEPT ![t] = [f EXCEPT !.elements = Copied(t), !.k = f.k + 1]]
    BY <1>0, <1>19 DEF CopyCell
  <2>2. /\ frame'[t].victim = v /\ frame'[t].v1 = f.v1 /\ frame'[t].minVal = f.minVal
        /\ frame'[t].elements = Copied(t) /\ frame'[t].k = f.k + 1
    BY <1>0, <1>1, <2>1 DEF Frame
  <2>3. f.k \in Slots /\ (pc'[t] = "copy" => f.k + 1 \in Slots)
    BY <1>2, <2>1, BatchAssumption DEF ThreadInv, Copy, Slots
  <2>4. ASSUME version[v] = f.v1, NEW i \in Slots, pc'[t] = "cas" \/ i < f.k + 1
        PROVE  Copied(t)[i] = cells[v][i]
    <3>1. i < f.k \/ i = f.k
      BY <1>1, <2>1, <2>4 DEF Slots
    <3>2. i < f.k => f.elements[i] = cells[v][i]
      BY <1>2, <2>1, <2>4 DEF ThreadInv, Copy, Copying
    <3> QED BY <1>1, <3>1, <3>2 DEF Copied, Array
  <2> QED BY <1>2, <1>4, <2>1, <2>2, <2>3, <2>4
          DEF ThreadInv, Snapshot, OwnSnapshot, Copy, Fill, Extract, Reading, Copying,
              Stealable, Owner
<1>20. CASE CasFails(t)
  <2>1. /\ pc[t] = "cas" /\ frame' = [frame EXCEPT ![t] = [f EXCEPT !.elements = DummyArray]]
        /\ \/ pc'[t] \in {"return", "getMinWriter", "pick", "extractMin"}
           \/ pc'[t] = "popLocally" /\ v = t /\ heap[t] # {}
    BY <1>0, <1>20 DEF CasFails, NothingStolen, StealEnds, Owner
  <2>2. frame'[t].victim = v /\ frame'[t].minVal = f.minVal
    BY <1>0, <1>1, <2>1 DEF Frame
  <2>3. v = t /\ heap[t] # {} => f.minVal # Dummy
    BY <1>2, <2>1 DEF ThreadInv, Extract, Copying, Owner
  <2> QED BY <1>5, <1>7, <2>1, <2>2, <2>3 DEF Ignorant
<1>21. CASE GetMinWriter(t)
  <2>1. CASE Stealable(t)
    <3>1. /\ pc'[t] = "minWriterAgain"
          /\ frame' = [frame EXCEPT ![t] = [f EXCEPT !.v1 = version[t], !.minVal = cells[t][1]]]
      BY <1>0, <1>21, <2>1 DEF GetMinWriter
    <3>2. frame'[t].v1 = version[t]
      BY <1>0, <1>1, <3>1 DEF Frame
    <3> QED BY <1>1, <1>3, <1>4, <2>1, <3>1, <3>2
            DEF ThreadInv, Snapshot, OwnSnapshot, Copy, Fill, Extract, Reading, Copying,
                Stealable
  <2>2. CASE ~Stealable(t)
    <3>1. pc'[t] = "fill"
      BY <1>0, <1>21, <2>2 DEF GetMinWriter
    <3> QED BY <1>6, <2>2, <3>1
  <2> QED BY <2>1, <2>2
<1>22. CASE MinWriterAgain(t)
  <2>1. /\ pc[t] = "minWriterAgain"
        /\ pc'[t] = "pick" \/ (pc'[t] = "fill" /\ version[t] # f.v1)
    BY <1>0, <1>22 DEF MinWriterAgain
  <2>2. version[t] # f.v1 => ~Stealable(t)
    BY <1>1, <1>2, <2>1 DEF ThreadInv, Snapshot, OwnSnapshot, Stealable
  <2> QED BY <1>5, <1>6, <2>1, <2>2 DEF Ignorant
<1>23. CASE ChooseSteal(t)
  <2>1. /\ frame'[t] = f
        /\ \/ pc'[t] \in {"pick", "extractMin", "return"}
           \/ pc'[t] = "trySteal" /\ f.minVal # Dummy
    BY <1>0, <1>23 DEF ChooseSteal, StealEnds
  <2> QED BY <1>5, <1>8, <2>1 DEF Ignorant
<1> QED BY <1>9, <1>10, <1>11, <1>12, <1>13, <1>14, <1>15, <1>16, <1>17, <1>18, <1>19,
           <1>20, <1>21, <1>22, <1>23 DEF Quiet
\* The steps of t that write a buffer or a version.
LEMMA OwnWriteStep ==
    ASSUME BufferInv, NEW t \in Threads,
           FillBuffer(t) \/ FillWritten(t) \/ FillPublish(t) \/ StealLocally(t) \/ StealRemotely(t)
    PROVE  TouchesOnly(t) /\ ThreadInv(t)'
PROOF
<1> DEFINE f == frame[t]
           v == frame[t].victim
<1>0. /\ pc \in [Threads -> Labels] /\ frame \in [Threads -> Frame]
      /\ version \in [Threads -> Nat] /\ heap \in [Threads -> SUBSET Tasks]
      /\ cells \in [Threads -> Array]
  BY DEF BufferInv, TypeOK
<1>1. /\ f \in Frame /\ v \in Threads /\ f.v1 \in Nat /\ f.elements \in Array
      /\ f.next \in {"return", "pick"} /\ version[v] \in Nat /\ version[t] \in Nat
  BY <1>0, FrameTypes
<1>2. ThreadInv(t)
  BY DEF BufferInv
<1>3. Fill(t)
  BY <1>2 DEF ThreadInv
<1> USE DEF Goto, shared, history
<1>4. CASE FillBuffer(t)
  <2>1. PICK batch \in Batches(heap[t]) :
          /\ heap' = [heap EXCEPT ![t] = @ \ Items(batch)]
          /\ frame' = [frame EXCEPT ![t] = [@ EXCEPT !.elements = batch]]
    BY <1>4 DEF FillBuffer
  <2>2. /\ pc[t] = "fill" /\ pc' = [pc EXCEPT ![t] = "write"] /\ version' = version
        /\ cells' = [cells EXCEPT ![t] = TornArray]
    BY <1>4 DEF FillBuffer
  <2>3. batch[1] \in Tasks
    BY <1>0, <1>4, BatchFacts DEF FillBuffer
  <2>4. frame'[t].elements = batch
    BY <1>0, <1>1, <2>1 DEF Frame
  <2>5. ~Stealable(t)
    BY <1>3, <2>2 DEF Fill
  <2>6. TouchesOnly(t)
    BY <1>0, <2>1, <2>2, <2>5 DEF TouchesOnly, VersionsGrow, WritesOwn
  <2>7. pc'[t] = "write"
    BY <1>0, <2>2
  <2> QED BY <2>2, <2>3, <2>4, <2>5, <2>6, <2>7
          DEF ThreadInv, Snapshot, OwnSnapshot, Copy, Fill, Extract, Reading, Copying, Stealable
<1>5. CASE FillWritten(t)
  <2>1. /\ pc[t] = "write" /\ pc' = [pc EXCEPT ![t] = "publish"] /\ pc'[t] = "publish"
        /\ cells' = [cells EXCEPT ![t] = f.elements] /\ cells'[t] = f.elements
        /\ heap' = heap /\ version' = version /\ frame' = frame
    BY <1>0, <1>5 DEF FillWritten
  <2>2. ~Stealable(t)
    BY <1>3, <2>1 DEF Fill
  <2>3. TouchesOnly(t)
    BY <1>0, <2>1, <2>2 DEF TouchesOnly, VersionsGrow, WritesOwn
  <2> QED BY <1>3, <2>1, <2>2, <2>3
          DEF ThreadInv, Snapshot, OwnSnapshot, Copy, Fill, Extract, Reading, Copying, Stealable
<1>6. CASE FillPublish(t)
  <2>1. /\ pc[t] = "publish" /\ pc' = [pc EXCEPT ![t] = f.next] /\ pc'[t] = f.next
        /\ version' = [version EXCEPT ![t] = @ + 1]
        /\ heap' = heap /\ cells' = cells
        /\ \A u \in Threads \ {t} : frame'[u] = frame[u]
    BY <1>0, <1>6 DEF FillPublish
  <2>2. TouchesOnly(t)
    BY <1>0, <2>1 DEF TouchesOnly, VersionsGrow, WritesOwn
  <2>3. cells'[t][1] \in Tasks
    BY <1>3, <2>1 DEF Fill
  <2> QED BY <1>1, <2>1, <2>2, <2>3
          DEF ThreadInv, Snapshot, OwnSnapshot, Copy, Fill, Extract, Reading, Copying, Stealable
<1>7. CASE StealLocally(t) \/ StealRemotely(t)
  <2>1. /\ pc[t] = "cas" /\ version[v] = f.v1
        /\ version' = [version EXCEPT ![v] = version[v] + 1]
        /\ cells' = cells
        /\ \A u \in Threads \ {t} : pc'[u] = pc[u] /\ frame'[u] = frame[u] /\ heap'[u] = heap[u]
        /\ pc'[t] = "return" \/ (pc'[t] = "fill" /\ v = t)
    BY <1>0, <1>7 DEF StealLocally, StealRemotely, CasSucceeds, Owner
  <2>2. version[v] % 2 = 1
    BY <1>2, <2>1 DEF ThreadInv, Snapshot, Copying
  <2>3. (version[v] + 1) % 2 = 0
    BY <1>1, <2>2
  <2>4. TouchesOnly(t)
    BY <1>0, <2>1, <2>2 DEF TouchesOnly, VersionsGrow, WritesOwn, Stealable
  <2>5. version'[t] = version[t] \/ (version'[t] % 2 = 0 /\ v = t)
    BY <1>0, <2>1, <2>3
  <2>6. v = t => version'[t] % 2 = 0
    BY <1>0, <1>1, <2>1, <2>3
  <2> QED BY <1>3, <2>1, <2>4, <2>5, <2>6
          DEF ThreadInv, Snapshot, OwnSnapshot, Copy, Fill, Extract, Reading, Copying, Stealable
<1> QED BY <1>4, <1>5, <1>6, <1>7

-----------------------------------------------------------------------------
LEMMA BufferInit == Init => BufferInv
PROOF
<1> SUFFICES ASSUME Init PROVE BufferInv
  OBVIOUS
<1>1. ASSUME NEW t \in Threads PROVE pc[t] = "idle" /\ ~Stealable(t)
  BY DEF Init, Stealable
<1>2. \A t \in Threads : ThreadInv(t)
  BY <1>1 DEF ThreadInv, Snapshot, OwnSnapshot, Copy, Fill, Extract, Reading, Copying
<1> QED BY <1>2, InitType DEF BufferInv

LEMMA BufferStep == BufferInv /\ [Next]_vars => BufferInv'
PROOF
<1> SUFFICES ASSUME BufferInv, [Next]_vars PROVE BufferInv'
  OBVIOUS
<1>1. TypeOK /\ TypeOK'
  BY TypeStep DEF BufferInv
<1>2. CASE UNCHANGED vars
  BY <1>2 DEF vars, BufferInv, TypeOK, ThreadInv, Snapshot, OwnSnapshot, Copy, Fill,
              Extract, Reading, Copying, Owner, Stealable
<1>3. CASE Next
  <2>1. PICK t \in Threads : Push(t) \/ Pop(t) \/ Step(t)
    BY <1>3 DEF Next
  <2>2. \/ Quiet(t)
        \/ FillBuffer(t) \/ FillWritten(t) \/ FillPublish(t) \/ StealLocally(t) \/ StealRemotely(t)
    BY <2>1 DEF Pop, Step, Quiet
  <2>3. TouchesOnly(t) /\ ThreadInv(t)'
    BY <1>1, <2>2, QuietTouches, OwnQuietStep, OwnWriteStep
  <2> QED BY <1>1, <2>3, StepKeeps
<1> QED BY <1>2, <1>3

LEMMA BufferGivesIntegrity == BufferInv => StealIntegrity /\ FillOnlyStolen
PROOF
<1> SUFFICES ASSUME BufferInv, NEW t \in Threads
             PROVE  /\ pc[t] = "cas" /\ version[frame[t].victim] = frame[t].v1
                         => frame[t].elements = cells[frame[t].victim]
                    /\ pc[t] \in {"fill", "write", "publish"} => ~Stealable(t)
  BY DEF StealIntegrity, FillOnlyStolen
<1>1. frame[t].elements \in Array /\ cells[frame[t].victim] \in Array
  BY FrameTypes DEF BufferInv, TypeOK
<1>2. ThreadInv(t)
  BY DEF BufferInv
<1>3. ASSUME pc[t] = "cas", version[frame[t].victim] = frame[t].v1
      PROVE  frame[t].elements = cells[frame[t].victim]
  <2>1. \A i \in Slots : frame[t].elements[i] = cells[frame[t].victim][i]
    BY <1>2, <1>3 DEF ThreadInv, Copy, Copying
  <2> QED BY <1>1, <2>1 DEF Array
<1> QED BY <1>2, <1>3 DEF ThreadInv, Fill

-----------------------------------------------------------------------------
(* Every value of the variables has its type, whatever the threads do: no  *)
(* step reads a cell, a batch or a local that does not exist.              *)
THEOREM TypesStay == Spec => []TypeOK
PROOF
<1>1. Init => TypeOK
  BY InitType
<1>2. TypeOK /\ [Next]_vars => TypeOK'
  BY TypeStep
<1> QED BY <1>1, <1>2, PTL DEF Spec

(* What a thread remembers of a steal buffer is true of it for as long as  *)
(* the version it has read is the current one.                             *)
THEOREM BufferInvariant == Spec => []BufferInv
PROOF BY BufferInit, BufferStep, PTL DEF Spec

(* A thief whose compare-and-swap in HeapWithStealBuffer::trySteal would   *)
(* succeed holds exactly the batch that is in the buffer, for any number   *)
(* of threads, tasks and cells of a batch.                                 *)
THEOREM StealsAreIntact == Spec => []StealIntegrity
PROOF
<1>1. BufferInv => StealIntegrity
  BY BufferGivesIntegrity
<1> QED BY <1>1, BufferInvariant, PTL

(* fillBuffer, which looks at no version, runs only while the content of   *)
(* the own buffer is stolen: it overwrites nothing that is still there.    *)
THEOREM FillsOverwriteNothing == Spec => []FillOnlyStolen
PROOF
<1>1. BufferInv => FillOnlyStolen
  BY BufferGivesIntegrity
<1> QED BY <1>1, BufferInvariant, PTL

-----------------------------------------------------------------------------
(* Batches.                                                                *)

\* What fillBuffer takes out of a heap.
LEMMA BatchIsProper ==
    ASSUME NEW h \in SUBSET Tasks, h # {}, NEW b \in Batches(h)
    PROVE  Proper(b) /\ Items(b) \subseteq h
PROOF
<1>1. b \in [Slots -> h \cup {Dummy}]
  BY DEF Batches
<1>2. b[1] # Dummy
  BY BatchFacts, MarksAssumption
<1>3. \A i, j \in Slots : i < j /\ b[j] # Dummy =>
         b[i] # Dummy /\ b[i] # b[j] /\ ~Worse(b[i], b[j])
  BY DEF Batches
<1>4. Proper(b)
  BY <1>1, <1>2, <1>3 DEF Proper
<1>5. Items(b) \subseteq h
  BY <1>1, MarksAssumption DEF Items
<1> QED BY <1>4, <1>5

\* The first element of a batch and the rest of it.
LEMMA ProperFacts ==
    ASSUME NEW a, Proper(a)
    PROVE  /\ a \in Array /\ 1 \in Slots /\ a[1] \in Tasks
           /\ Items(a) = {a[1]} \cup Rest(a) /\ a[1] \notin Rest(a)
           /\ Items(a) \subseteq Tasks /\ Rest(a) \subseteq Tasks
PROOF
<1>1. 1 \in Slots
  BY BatchAssumption DEF Slots
<1>2. a \in Array /\ a[1] \in Tasks
  BY <1>1 DEF Proper, Array
<1>3. a[1] \in Items(a)
  BY <1>1, <1>2 DEF Items
<1> QED BY <1>1, <1>2, <1>3 DEF Rest, Items

\* What a thief keeps: the elements behind the first one, each once.
LEMMA RestFacts ==
    ASSUME NEW a, Proper(a)
    PROVE  LET s == RestInOrder(a)
           IN  /\ s \in Seq(Tasks)
               /\ {s[i] : i \in DOMAIN s} = Rest(a)
               /\ \A i, j \in DOMAIN s : s[i] = s[j] => i = j
               /\ \A i, j \in DOMAIN s : i < j => ~Worse(s[i], s[j])
PROOF
<1> DEFINE n == Filled(a)
           s == RestInOrder(a)
<1>1. /\ n \in 0..StealBatchSize /\ \A i \in 1..n : a[i] # Dummy
      /\ n < StealBatchSize => a[n + 1] = Dummy
  BY FilledFacts, ProperFacts
<1>2. StealBatchSize \in Nat /\ Slots = 1..StealBatchSize
  BY BatchAssumption DEF Slots
<1>3. n >= 1
  <2>1. a[1] # Dummy
    BY DEF Proper
  <2>2. n = 0 => a[1] = Dummy
    BY <1>1, <1>2, BatchAssumption
  <2> QED BY <1>1, <2>1, <2>2
<1>4. s = [i \in 1..(n - 1) |-> a[i + 1]]
  BY DEF RestInOrder
<1> HIDE DEF n, s
<1>5. n \in Nat /\ n - 1 \in Nat /\ n <= StealBatchSize
  BY <1>1, <1>3, BatchAssumption
<1>6. DOMAIN s = 1..(n - 1) /\ \A i \in 1..(n - 1) : s[i] = a[i + 1]
  BY <1>4
<1>7. \A i \in 1..(n - 1) : i + 1 \in 1..n /\ i + 1 \in Slots /\ 1 < i + 1
  BY <1>2, <1>5
<1>8. \A i \in 1..(n - 1) : a[i + 1] \in Tasks /\ a[i + 1] # a[1]
  <2> TAKE i \in 1..(n - 1)
  <2>1. a[i + 1] # Dummy
    BY <1>1, <1>7
  <2>2. 1 \in Slots
    BY ProperFacts
  <2> QED BY <1>7, <2>1, <2>2 DEF Proper
<1>9. s \in Seq(Tasks)
  BY <1>4, <1>5, <1>8, IsASeq
<1>10. \A i, j \in DOMAIN s : s[i] = s[j] => i = j
  <2> SUFFICES ASSUME NEW i \in 1..(n - 1), NEW j \in 1..(n - 1), i < j PROVE s[i] # s[j]
    BY <1>5, <1>6
  <2>1. i + 1 \in Slots /\ j + 1 \in Slots /\ i + 1 < j + 1 /\ a[j + 1] # Dummy
    BY <1>1, <1>7
  <2> QED BY <1>6, <2>1 DEF Proper
<1>13. \A i, j \in DOMAIN s : i < j => ~Worse(s[i], s[j])
  <2> SUFFICES ASSUME NEW i \in 1..(n - 1), NEW j \in 1..(n - 1), i < j
               PROVE  ~Worse(s[i], s[j])
    BY <1>6
  <2>1. i + 1 \in Slots /\ j + 1 \in Slots /\ i + 1 < j + 1 /\ a[j + 1] # Dummy
    BY <1>1, <1>7
  <2> QED BY <1>6, <2>1 DEF Proper
<1>11. ASSUME NEW x \in Rest(a) PROVE \E i \in DOMAIN s : s[i] = x
  <2>1. PICK k \in Slots : a[k] = x /\ x \in Tasks /\ x # a[1]
    BY <1>11 DEF Rest, Items
  <2>2. k # 1 /\ a[k] # Dummy /\ k \in Nat /\ 1 <= k
    BY <1>2, <2>1, MarksAssumption
  <2>3. k <= n
    <3> SUFFICES ASSUME n < k PROVE FALSE
      BY <1>5, <2>2
    <3>1. n + 1 \in Slots /\ a[n + 1] = Dummy /\ (n + 1 = k \/ n + 1 < k)
      BY <1>1, <1>2, <1>5, <2>1
    <3>2. a[n + 1] # Dummy
      BY <2>1, <2>2, <3>1 DEF Proper
    <3> QED BY <3>1, <3>2
  <2>4. k - 1 \in 1..(n - 1) /\ (k - 1) + 1 = k
    BY <1>5, <2>2, <2>3
  <2> QED BY <1>6, <2>1, <2>4
<1>12. \A i \in DOMAIN s : s[i] \in Rest(a)
  BY <1>6, <1>7, <1>8 DEF Rest, Items
<1> QED BY <1>9, <1>10, <1>11, <1>12, <1>13 DEF s

LEMMA ReversedFacts ==
    ASSUME NEW s \in Seq(Tasks), \A i, j \in DOMAIN s : s[i] = s[j] => i = j
    PROVE  LET r == Reversed(s)
           IN  /\ r \in Seq(Tasks)
               /\ {r[i] : i \in DOMAIN r} = {s[i] : i \in DOMAIN s}
               /\ \A i, j \in DOMAIN r : r[i] = r[j] => i = j
PROOF
<1> DEFINE r == Reversed(s)
           n == Len(s)
<1>1. DOMAIN s = 1..n /\ n \in Nat
  OBVIOUS
<1>2. r = [i \in 1..n |-> s[n + 1 - i]]
  BY DEF Reversed
<1>3. r \in Seq(Tasks)
  BY ReversedIsSeq
<1> HIDE DEF r, n
<1>4. \A i \in 1..n : n + 1 - i \in 1..n /\ n + 1 - (n + 1 - i) = i
  BY <1>1
<1>5. DOMAIN r = 1..n /\ \A i \in 1..n : r[i] = s[n + 1 - i]
  BY <1>2
<1>6. \A i \in 1..n : s[i] = r[n + 1 - i]
  BY <1>4, <1>5
<1>7. {r[i] : i \in DOMAIN r} = {s[i] : i \in DOMAIN s}
  BY <1>1, <1>4, <1>5, <1>6
<1>8. ASSUME NEW i \in DOMAIN r, NEW j \in DOMAIN r, r[i] = r[j] PROVE i = j
  <2>1. n + 1 - i = n + 1 - j
    BY <1>1, <1>4, <1>5, <1>8
  <2> QED BY <1>1, <1>5, <2>1
<1> QED BY <1>3, <1>7, <1>8 DEF r

\* The best element of a sorted batch ends up last.
LEMMA ReversedOrder ==
    ASSUME NEW s \in Seq(Tasks), \A i, j \in DOMAIN s : i < j => ~Worse(s[i], s[j])
    PROVE  LET r == Reversed(s)
           IN  \A i, j \in DOMAIN r : i < j => ~Worse(r[j], r[i])
PROOF
<1> DEFINE r == Reversed(s)
           n == Len(s)
<1>1. DOMAIN s = 1..n /\ n \in Nat
  OBVIOUS
<1>2. r = [i \in 1..n |-> s[n + 1 - i]]
  BY DEF Reversed
<1> HIDE DEF r, n
<1>3. ASSUME NEW i \in 1..n, NEW j \in 1..n, i < j PROVE ~Worse(r[j], r[i])
  <2>1. n + 1 - j \in 1..n /\ n + 1 - i \in 1..n /\ n + 1 - j < n + 1 - i
    BY <1>1, <1>3
  <2>2. r[i] = s[n + 1 - i] /\ r[j] = s[n + 1 - j]
    BY <1>2
  <2> QED BY <1>1, <2>1, <2>2
<1> QED BY <1>2, <1>3 DEF r

LEMMA BatchSize ==
    ASSUME NEW a, Proper(a)
    PROVE  Cardinality(Items(a)) <= StealBatchSize
PROOF
<1>1. StealBatchSize \in Nat /\ Slots = 1..StealBatchSize
  BY BatchAssumption DEF Slots
<1>2. IsFiniteSet(Slots) /\ Cardinality(Slots) = StealBatchSize
  BY <1>1, FS_Interval
<1> DEFINE D == {i \in Slots : a[i] \in Tasks}
           f == [i \in D |-> a[i]]
<1>3. IsFiniteSet(D) /\ Cardinality(D) <= StealBatchSize /\ Cardinality(D) \in Nat
  BY <1>2, FS_Subset, FS_CardinalityType
<1>4. f \in Surjection(D, Items(a))
  <2>1. Items(a) = {a[i] : i \in D}
    BY DEF Items
  <2>2. f \in [D -> Items(a)]
    BY <2>1
  <2>3. \A x \in Items(a) : \E i \in D : f[i] = x
    BY <2>1
  <2> QED BY <2>2, <2>3 DEF Surjection
<1>5. IsFiniteSet(Items(a)) /\ Cardinality(Items(a)) <= Cardinality(D)
  BY <1>3, <1>4, FS_Surjection
<1> QED BY <1>1, <1>3, <1>5, FS_CardinalityType

-----------------------------------------------------------------------------
(* What a call knows.                                                      *)

Knows(t) == BatchInv(t) /\ CallInv(t) /\ EmptyInv(t)

\* A step of t does not disturb what another thread u knows.
LEMMA OthersStay ==
    ASSUME BufferInv, TypeOK', NEW t \in Threads, NEW u \in Threads \ {t}, TouchesOnly(t),
           stealBuffers'[u] = stealBuffers[u], Knows(u)
    PROVE  Knows(u)'
PROOF
<1>1. /\ pc'[u] = pc[u] /\ frame'[u] = frame[u] /\ heap'[u] = heap[u] /\ cells'[u] = cells[u]
      /\ version[u] \in Nat /\ frame[u].v1 \in Nat
  BY FrameTypes DEF TouchesOnly, WritesOwn, BufferInv, TypeOK
<1>2. version'[u] = version[u] \/ (version'[u] = version[u] + 1 /\ version[u] % 2 = 1)
  BY DEF TouchesOnly, VersionsGrow, Stealable
<1>3. Stealable(u)' => Stealable(u) /\ version'[u] = version[u]
  BY <1>1, <1>2 DEF Stealable
<1>4. BatchInv(u)'
  BY <1>1, <1>3 DEF Knows, BatchInv, Writing, Proper
<1>5. CallInv(u)'
  BY <1>1 DEF Knows, CallInv, IdleFrame, Owner
<1>6. SeenEmpty(u)' => SeenEmpty(u)
  BY <1>1 DEF SeenEmpty, Owner
<1>7. ASSUME Copying(u), Owner(u) PROVE version'[u] <= frame[u].v1 + 1
  <2>1. version[u] <= frame[u].v1 + 1 /\ frame[u].v1 % 2 = 1
    BY <1>7 DEF Knows, EmptyInv, BufferInv, ThreadInv, Snapshot
  <2> QED BY <1>1, <1>2, <2>1
<1>8. EmptyInv(u)'
  BY <1>1, <1>3, <1>6, <1>7 DEF Knows, EmptyInv, Copying, Owner, Writing
<1> QED BY <1>4, <1>5, <1>8 DEF Knows

\* The steps of t that move no element.
Silent(t) ==
    \/ PopStealing(t) \/ PopLocal(t) \/ FillBufferIfStolen(t) \/ FillNothing(t)
    \/ GetBufferMin(t) \/ ReadMin(t) \/ VersionAgain(t)
    \/ ExtractMin(t) \/ ChooseLocal(t) \/ TrySteal(t) \/ CopyCell(t) \/ CasFails(t)
    \/ GetMinWriter(t) \/ MinWriterAgain(t) \/ PickVictim(t) \/ ChooseSteal(t)

LEMMA SilentShared ==
    ASSUME NEW t \in Threads, Silent(t)
    PROVE  UNCHANGED <<shared, history>>
PROOF BY DEF Silent, PopStealing, PopLocal, FillBufferIfStolen, FillNothing, GetBufferMin,
             ReadMin, VersionAgain, ExtractMin, ChooseLocal, TrySteal, CopyCell, CasFails,
             GetMinWriter, MinWriterAgain, PickVictim, ChooseSteal

LEMMA SilentKnows ==
    ASSUME BufferInv, TypeOK', NEW t \in Threads, Silent(t), Knows(t)
    PROVE  /\ Knows(t)' /\ ~Writing(t)' /\ frame'[t].ret = frame[t].ret
           /\ pc[t] = "idle" \/ frame'[t].op = frame[t].op
PROOF
<1> DEFINE f == frame[t]
           g == frame'[t]
           v == frame[t].victim
           Same == g.op = f.op /\ g.ret = f.ret /\ g.fallback = f.fallback
<1>0. /\ pc \in [Threads -> Labels] /\ frame \in [Threads -> Frame]
      /\ version \in [Threads -> Nat] /\ f \in Frame /\ v \in Threads /\ f.v1 \in Nat
      /\ f.next \in {"return", "pick"} /\ version[t] \in Nat
  BY FrameTypes DEF BufferInv, TypeOK
<1>1. /\ heap' = heap /\ cells' = cells /\ version' = version /\ stealBuffers' = stealBuffers
  BY SilentShared DEF shared
<1>2. BatchInv(t) /\ CallInv(t) /\ EmptyInv(t)
  BY DEF Knows
<1>3. ThreadInv(t)
  BY DEF BufferInv
<1>4. ASSUME ~Writing(t)' PROVE BatchInv(t)'
  BY <1>1, <1>2, <1>4 DEF BatchInv, Stealable, Proper
\* A label that says nothing of the own queue.
<1>5. ASSUME ~SeenEmpty(t)', ~Copying(t)' PROVE EmptyInv(t)'
  BY <1>5 DEF EmptyInv
<1>6. ASSUME SeenEmpty(t), ~Copying(t)', ~Writing(t)' PROVE EmptyInv(t)'
  BY <1>1, <1>2, <1>6 DEF EmptyInv, Stealable
<1> USE DEF Goto, shared, history
<1>9. CASE PopStealing(t) \/ PopLocal(t)
  <2>1. /\ pc[t] = "idle" /\ pc'[t] \in {"getMinWriter", "extractMin"} /\ stealBuffers[t] = <<>>
        /\ (pc'[t] = "getMinWriter" => frame' = [frame EXCEPT ![t] = [f EXCEPT !.op = "pop", !.fallback = TRUE]])
        /\ (pc'[t] = "extractMin" => frame' = [frame EXCEPT ![t] = [f EXCEPT !.op = "pop"]])
    BY <1>0, <1>9 DEF PopStealing, PopLocal
  <2>2. g.op = "pop" /\ g.ret = f.ret /\ (pc'[t] = "getMinWriter" => g.fallback)
    <3>1. CASE pc'[t] = "getMinWriter"
      <4>1. g = [f EXCEPT !.op = "pop", !.fallback = TRUE]
        BY <1>0, <2>1, <3>1
      <4> QED BY <1>0, <4>1 DEF Frame
    <3>2. CASE pc'[t] = "extractMin"
      <4>1. g = [f EXCEPT !.op = "pop"]
        BY <1>0, <2>1, <3>2
      <4> QED BY <1>0, <3>2, <4>1 DEF Frame
    <3> QED BY <2>1, <3>1, <3>2
  <2>3. f.ret = Dummy
    BY <1>2, <2>1 DEF CallInv, IdleFrame
  <2>4. CallInv(t)'
    BY <1>1, <2>1, <2>2, <2>3 DEF CallInv, Searching, AtHeap, FillLabels
  <2>5. ~SeenEmpty(t)' /\ ~Copying(t)' /\ ~Writing(t)'
    BY <2>1, <2>2 DEF SeenEmpty, AtHeap, FillLabels, Copying, Writing
  <2> QED BY <1>4, <1>5, <2>1, <2>2, <2>4, <2>5 DEF Knows
<1>10. CASE FillBufferIfStolen(t)
  <2>1. pc[t] = "fillIfStolen" /\ pc'[t] \in {"return", "fill"} /\ g = f
    BY <1>0, <1>10 DEF FillBufferIfStolen
  <2>2. f.next = "return" /\ (f.op = "pop" => f.ret # Dummy) /\ f.op \in {"push", "pop"}
    BY <1>2, <2>1 DEF CallInv
  <2>3. f.op = "push" => f.ret = Dummy
    BY <1>2 DEF CallInv
  <2>4. CallInv(t)'
    BY <2>1, <2>2, <2>3 DEF CallInv, Searching, AtHeap, FillLabels
  <2>5. ~SeenEmpty(t)' /\ ~Copying(t)' /\ ~Writing(t)'
    BY <2>1, <2>2 DEF SeenEmpty, AtHeap, FillLabels, Copying, Writing
  <2> QED BY <1>4, <1>5, <2>1, <2>4, <2>5 DEF Knows
<1>11. CASE FillNothing(t)
  <2>1. /\ pc[t] = "fill" /\ pc'[t] = f.next
        /\ frame' = [frame EXCEPT ![t] = [f EXCEPT !.localMin = Dummy]]
    BY <1>0, <1>11 DEF FillNothing
  <2>2. Same
    BY <1>0, <2>1 DEF Frame
  <2>3. CallInv(t)'
    BY <1>0, <1>1, <1>2, <2>1, <2>2 DEF CallInv, Searching, AtHeap, FillLabels
  <2>4. ~Copying(t)' /\ ~Writing(t)' /\ (SeenEmpty(t)' => SeenEmpty(t))
    BY <1>0, <1>2, <2>1, <2>2 DEF SeenEmpty, AtHeap, FillLabels, Copying, Writing, CallInv
  <2> QED BY <1>4, <1>5, <1>6, <2>2, <2>3, <2>4 DEF Knows
\* getBufferMin and getMinWriter stay with the same heap.
<1>7. ASSUME pc[t] \in Searching, pc'[t] \in Searching, Same, g.victim = v,
             pc'[t] \in AtHeap \cup {"chooseLocal", "popLocally", "chooseSteal"} => g.next = "return",
             pc'[t] = "chooseSteal" => v # t
      PROVE  CallInv(t)'
  BY <1>1, <1>2, <1>7 DEF CallInv, Searching, AtHeap, FillLabels, Owner
<1>12. CASE GetBufferMin(t) \/ ReadMin(t) \/ VersionAgain(t)
  <2>1. /\ pc[t] \in {"getBufferMin", "readMin", "versionAgain"}
        /\ pc'[t] \in {"readMin", "versionAgain"} \cup (IF v = t THEN {"chooseLocal"} ELSE {"chooseSteal"})
    BY <1>0, <1>12 DEF GetBufferMin, ReadMin, VersionAgain, GotBufferMin, Owner
  <2>2. Same /\ g.victim = v /\ g.next = f.next
    <3>1. CASE GetBufferMin(t)
      <4>1. \/ frame' = [frame EXCEPT ![t] = [f EXCEPT !.v1 = version[v]]]
            \/ frame' = [frame EXCEPT ![t] = [f EXCEPT !.minVal = Dummy, !.raced = FALSE, !.v1 = 0]]
        BY <3>1 DEF GetBufferMin, GotBufferMin
      <4>2. g = [f EXCEPT !.v1 = version[v]] \/ g = [f EXCEPT !.minVal = Dummy, !.raced = FALSE, !.v1 = 0]
        BY <1>0, <4>1
      <4>3. CASE g = [f EXCEPT !.v1 = version[v]]
        BY <1>0, <4>3 DEF Frame
      <4>4. CASE g = [f EXCEPT !.minVal = Dummy, !.raced = FALSE, !.v1 = 0]
        BY <1>0, <4>4 DEF Frame
      <4> QED BY <4>2, <4>3, <4>4
    <3>2. CASE ReadMin(t)
      <4>1. frame' = [frame EXCEPT ![t] = [f EXCEPT !.minVal = cells[v][1]]]
        BY <3>2 DEF ReadMin
      <4> QED BY <1>0, <4>1 DEF Frame
    <3>3. CASE VersionAgain(t)
      <4>1. \/ frame' = [frame EXCEPT ![t] = [f EXCEPT !.minVal = f.minVal, !.raced = FALSE, !.v1 = 0]]
            \/ frame' = [frame EXCEPT ![t] = [f EXCEPT !.minVal = Dummy, !.raced = TRUE, !.v1 = 0]]
        BY <3>3 DEF VersionAgain, GotBufferMin
      <4>2. g = [f EXCEPT !.minVal = f.minVal, !.raced = FALSE, !.v1 = 0] \/ g = [f EXCEPT !.minVal = Dummy, !.raced = TRUE, !.v1 = 0]
        BY <1>0, <4>1
      <4>3. CASE g = [f EXCEPT !.minVal = f.minVal, !.raced = FALSE, !.v1 = 0]
        BY <1>0, <4>3 DEF Frame
      <4>4. CASE g = [f EXCEPT !.minVal = Dummy, !.raced = TRUE, !.v1 = 0]
        BY <1>0, <4>4 DEF Frame
      <4> QED BY <4>2, <4>3, <4>4
    <3> QED BY <1>12, <3>1, <3>2, <3>3
  <2>3. pc[t] \in Searching /\ pc'[t] \in Searching /\ f.next = "return"
    BY <1>2, <2>1 DEF Searching, AtHeap, CallInv
  <2>4. CallInv(t)'
    BY <1>7, <2>1, <2>2, <2>3
  <2>5. ~Copying(t)' /\ ~Writing(t)' /\ (SeenEmpty(t)' => SeenEmpty(t))
    BY <2>1, <2>2 DEF SeenEmpty, AtHeap, FillLabels, Copying, Writing, Owner
  <2> QED BY <1>4, <1>5, <1>6, <2>2, <2>4, <2>5 DEF Knows
<1>13. CASE ExtractMin(t)
  <2>1. /\ pc[t] = "extractMin" /\ pc'[t] \in {"trySteal", "getBufferMin"}
        /\ g = [IdleFrame(t) EXCEPT !.op = "pop"]
    BY <1>0, <1>13 DEF ExtractMin
  <2>2. g.op = "pop" /\ g.ret = Dummy /\ g.next = "return" /\ g.victim = t
    BY <2>1 DEF IdleFrame
  <2>3. pc[t] \in Searching /\ f.ret = Dummy /\ f.op = "pop" /\ stealBuffers[t] = <<>>
    BY <1>2, <2>1 DEF CallInv, Searching, FillLabels
  <2>4. CallInv(t)'
    BY <1>1, <2>1, <2>2, <2>3 DEF CallInv, Searching, AtHeap, FillLabels
  <2>5. ~SeenEmpty(t)' /\ ~Copying(t)' /\ ~Writing(t)'
    BY <2>1, <2>2 DEF SeenEmpty, AtHeap, FillLabels, Copying, Writing, Owner
  <2> QED BY <1>4, <1>5, <2>2, <2>3, <2>4, <2>5 DEF Knows
<1>14. CASE ChooseLocal(t)
  <2>1. pc[t] = "chooseLocal" /\ pc'[t] \in {"trySteal", "popLocally"} /\ g = f
    BY <1>0, <1>14 DEF ChooseLocal
  <2>2. v = t /\ pc[t] \in Searching /\ pc'[t] \in Searching /\ f.next = "return"
    BY <1>2, <1>3, <2>1 DEF ThreadInv, Extract, Owner, Searching, AtHeap, CallInv
  <2>3. CallInv(t)'
    BY <1>7, <2>1, <2>2
  <2>4. ~SeenEmpty(t)' /\ ~Copying(t)' /\ ~Writing(t)'
    BY <2>1, <2>2 DEF SeenEmpty, AtHeap, FillLabels, Copying, Writing, Owner
  <2> QED BY <1>4, <1>5, <2>1, <2>3, <2>4 DEF Knows
\* trySteal has returned nothing.
<1>8. ASSUME pc[t] \in {"trySteal", "cas"}, Same, g.victim = v, g.next = f.next,
             ~SpuriousCas /\ v = t => ~Stealable(t),
             NothingStolen(t, TRUE) \/ NothingStolen(t, FALSE)
      PROVE  Knows(t)' /\ ~Writing(t)'
  <2>1. \/ v = t /\ pc'[t] = "popLocally" /\ heap[t] # {}
        \/ v = t /\ pc'[t] \in {"return", "getMinWriter"} /\ heap[t] = {}
        \/ v # t /\ pc'[t] = "pick"
        \/ v # t /\ pc'[t] = "extractMin" /\ f.fallback
        \/ v # t /\ pc'[t] = "return" /\ ~f.fallback
    BY <1>0, <1>8 DEF NothingStolen, StealEnds, Owner
  <2>2. /\ pc[t] \in Searching /\ f.ret = Dummy /\ f.op = "pop" /\ f.next = "return"
        /\ stealBuffers[t] = <<>>
    BY <1>2, <1>8 DEF CallInv, Searching, AtHeap, FillLabels
  <2>3. CallInv(t)'
    BY <1>1, <1>8, <2>1, <2>2 DEF CallInv, Searching, AtHeap, FillLabels
  <2>4. ~Copying(t)' /\ ~Writing(t)'
    BY <2>1 DEF Copying, Writing
  <2>5. CASE v = t
    <3>1. SeenEmpty(t)' => heap[t] = {}
      BY <1>8, <2>1, <2>5 DEF SeenEmpty, AtHeap, FillLabels, Owner
    <3>2. EmptyInv(t)'
      BY <1>1, <1>8, <2>2, <2>4, <2>5, <3>1 DEF EmptyInv, Stealable
    <3> QED BY <1>4, <2>3, <2>4, <3>2 DEF Knows
  <2>6. CASE v # t
    <3>1. SeenEmpty(t)' => SeenEmpty(t)
      BY <1>8, <2>1, <2>6 DEF SeenEmpty, AtHeap, FillLabels, Owner
    <3> QED BY <1>4, <1>5, <1>6, <2>3, <2>4, <3>1 DEF Knows
  <2> QED BY <2>5, <2>6
<1>15. CASE TrySteal(t)
  <2>1. pc[t] = "trySteal"
    BY <1>15 DEF TrySteal
  <2>2. CASE Stealable(v)
    <3>1. /\ pc'[t] = "copy"
          /\ frame' = [frame EXCEPT ![t] = [f EXCEPT !.v1 = version[v], !.k = 1]]
      BY <1>0, <1>15, <2>2 DEF TrySteal
    <3>2. Same /\ g.victim = v /\ g.next = f.next /\ g.v1 = version[v]
      BY <1>0, <3>1 DEF Frame
    <3>3. pc[t] \in Searching /\ pc'[t] \in Searching /\ f.next = "return"
      BY <1>2, <2>1, <3>1 DEF Searching, AtHeap, CallInv
    <3>4. CallInv(t)'
      BY <1>7, <3>1, <3>2, <3>3
    <3>5. ~Writing(t)' /\ (SeenEmpty(t)' => SeenEmpty(t))
      BY <2>1, <3>1, <3>2 DEF SeenEmpty, AtHeap, FillLabels, Writing, Owner
    <3>6. EmptyInv(t)'
      BY <1>0, <1>1, <1>2, <3>2, <3>5 DEF EmptyInv, Owner, Stealable
    <3> QED BY <1>4, <3>2, <3>4, <3>5, <3>6 DEF Knows
  <2>3. CASE ~Stealable(v)
    <3>1. g = f /\ NothingStolen(t, FALSE)
      BY <1>15, <2>3 DEF TrySteal
    <3> QED BY <1>8, <2>1, <2>3, <3>1
  <2> QED BY <2>2, <2>3
<1>16. CASE CopyCell(t)
  <2>1. /\ pc[t] = "copy" /\ pc'[t] \in {"copy", "cas"}
        /\ frame' = [frame EXCEPT ![t] = [f EXCEPT !.elements = Copied(t), !.k = f.k + 1]]
    BY <1>0, <1>16 DEF CopyCell
  <2>2. Same /\ g.victim = v /\ g.next = f.next /\ g.v1 = f.v1
    BY <1>0, <2>1 DEF Frame
  <2>3. pc[t] \in Searching /\ pc'[t] \in Searching /\ f.next = "return"
    BY <1>2, <2>1 DEF Searching, AtHeap, CallInv
  <2>4. CallInv(t)'
    BY <1>7, <2>1, <2>2, <2>3
  <2>5. ~Writing(t)' /\ (SeenEmpty(t)' => SeenEmpty(t))
    BY <2>1, <2>2 DEF SeenEmpty, AtHeap, FillLabels, Writing, Owner
  <2>6. EmptyInv(t)'
    BY <1>1, <1>2, <2>1, <2>2, <2>5 DEF EmptyInv, Owner, Copying, Stealable
  <2> QED BY <1>4, <2>2, <2>4, <2>5, <2>6 DEF Knows
<1>17. CASE CasFails(t)
  <2>1. /\ pc[t] = "cas" /\ NothingStolen(t, TRUE) /\ (version[v] # f.v1 \/ SpuriousCas)
        /\ frame' = [frame EXCEPT ![t] = [f EXCEPT !.elements = DummyArray]]
    BY <1>17 DEF CasFails
  <2>2. Same /\ g.victim = v /\ g.next = f.next
    BY <1>0, <2>1 DEF Frame
  <2>3. ASSUME ~SpuriousCas, v = t PROVE ~Stealable(t)
    <3>1. f.v1 % 2 = 1 /\ f.v1 <= version[t] /\ version[t] <= f.v1 + 1 /\ version[t] # f.v1
      BY <1>2, <1>3, <2>1, <2>3 DEF ThreadInv, Snapshot, EmptyInv, Copying, Owner
    <3> QED BY <1>0, <3>1 DEF Stealable
  <2> QED BY <1>8, <2>1, <2>2, <2>3
<1>18. CASE GetMinWriter(t) \/ MinWriterAgain(t)
  <2>1. /\ pc[t] \in {"getMinWriter", "minWriterAgain"}
        /\ \/ pc'[t] \in {"minWriterAgain", "pick"} /\ \E n \in Nat, x \in Mark :
                \/ frame' = [frame EXCEPT ![t] = [f EXCEPT !.v1 = n, !.minVal = x]]
                \/ frame' = [frame EXCEPT ![t] = [f EXCEPT !.localMin = x]]
           \/ pc'[t] = "fill" /\ frame' = [frame EXCEPT ![t] = [f EXCEPT !.next = "pick"]]
    <3>1. version[t] \in Nat /\ cells[t][1] \in Mark /\ f.minVal \in Mark
      BY <1>0, FrameTypes, BatchAssumption DEF BufferInv, TypeOK, Array, Slots, Mark
    <3>2. CASE GetMinWriter(t)
      <4>1. CASE Stealable(t)
        <5>1. /\ pc[t] = "getMinWriter" /\ pc'[t] = "minWriterAgain"
              /\ frame' = [frame EXCEPT ![t] = [f EXCEPT !.v1 = version[t], !.minVal = cells[t][1]]]
          BY <1>0, <3>2, <4>1 DEF GetMinWriter
        <5> QED BY <3>1, <5>1
      <4>2. CASE ~Stealable(t)
        BY <1>0, <3>2, <4>2 DEF GetMinWriter
      <4> QED BY <4>1, <4>2
    <3>3. CASE MinWriterAgain(t)
      <4>1. CASE version[t] = f.v1
        <5>1. /\ pc[t] = "minWriterAgain" /\ pc'[t] = "pick"
              /\ frame' = [frame EXCEPT ![t] = [f EXCEPT !.localMin = f.minVal]]
          BY <1>0, <3>3, <4>1 DEF MinWriterAgain
        <5> QED BY <1>0, <3>1, <5>1
      <4>2. CASE version[t] # f.v1
        BY <1>0, <3>3, <4>2 DEF MinWriterAgain
      <4> QED BY <4>1, <4>2
    <3> QED BY <1>18, <3>2, <3>3
  <2>2. Same /\ (pc'[t] = "fill" => g.next = "pick")
    <3>1. CASE pc'[t] = "fill"
      <4>1. g = [f EXCEPT !.next = "pick"]
        BY <1>0, <2>1, <3>1
      <4> QED BY <1>0, <4>1 DEF Frame
    <3>2. CASE pc'[t] # "fill"
      <4>1. PICK n \in Nat, x \in Mark :
              g = [f EXCEPT !.v1 = n, !.minVal = x] \/ g = [f EXCEPT !.localMin = x]
        BY <1>0, <2>1, <3>2
      <4>2. CASE g = [f EXCEPT !.v1 = n, !.minVal = x]
        BY <1>0, <3>2, <4>2 DEF Frame
      <4>3. CASE g = [f EXCEPT !.localMin = x]
        BY <1>0, <3>2, <4>3 DEF Frame
      <4> QED BY <4>1, <4>2, <4>3
    <3> QED BY <3>1, <3>2
  <2>3. /\ pc[t] \in Searching /\ f.ret = Dummy /\ f.op = "pop" /\ stealBuffers[t] = <<>>
    BY <1>2, <2>1 DEF CallInv, Searching, AtHeap, FillLabels
  <2>4. CallInv(t)'
    BY <1>1, <2>1, <2>2, <2>3 DEF CallInv, Searching, AtHeap, FillLabels
  <2>5. ~Copying(t)' /\ ~Writing(t)' /\ (SeenEmpty(t)' => SeenEmpty(t))
    BY <2>1, <2>2 DEF SeenEmpty, AtHeap, FillLabels, Copying, Writing, Owner
  <2> QED BY <1>4, <1>5, <1>6, <2>2, <2>4, <2>5 DEF Knows
<1>19. CASE PickVictim(t)
  <2>1. PICK w \in Threads \ {t} :
          /\ pc[t] = "pick" /\ pc'[t] = "getBufferMin"
          /\ frame' = [frame EXCEPT ![t] = [f EXCEPT !.victim = w, !.next = "return",
                                                     !.v1 = 0, !.minVal = Dummy]]
    BY <1>0, <1>19 DEF PickVictim
  <2>2. Same /\ g.next = "return"
    BY <1>0, <2>1 DEF Frame
  <2>3. /\ pc[t] \in Searching /\ f.ret = Dummy /\ f.op = "pop" /\ stealBuffers[t] = <<>>
    BY <1>2, <2>1 DEF CallInv, Searching, AtHeap, FillLabels
  <2>4. CallInv(t)'
    BY <1>1, <2>1, <2>2, <2>3 DEF CallInv, Searching, AtHeap, FillLabels
  <2>5. ~Copying(t)' /\ ~Writing(t)' /\ (SeenEmpty(t)' => SeenEmpty(t))
    BY <2>1, <2>2 DEF SeenEmpty, AtHeap, FillLabels, Copying, Writing, Owner
  <2> QED BY <1>4, <1>5, <1>6, <2>2, <2>4, <2>5 DEF Knows
<1>20. CASE ChooseSteal(t)
  <2>1. /\ pc[t] = "chooseSteal" /\ g = f
        /\ \/ pc'[t] \in {"pick", "trySteal"}
           \/ pc'[t] = "extractMin" /\ f.fallback
           \/ pc'[t] = "return" /\ ~f.fallback
    BY <1>0, <1>20 DEF ChooseSteal, StealEnds
  <2>2. /\ pc[t] \in Searching /\ f.ret = Dummy /\ f.op = "pop" /\ stealBuffers[t] = <<>>
        /\ f.next = "return" /\ v # t
    BY <1>2, <2>1 DEF CallInv, Searching, AtHeap, FillLabels, Owner
  <2>3. CallInv(t)'
    BY <1>1, <2>1, <2>2 DEF CallInv, Searching, AtHeap, FillLabels
  <2>4. ~Copying(t)' /\ ~Writing(t)' /\ (SeenEmpty(t)' => SeenEmpty(t))
    BY <2>1, <2>2 DEF SeenEmpty, AtHeap, FillLabels, Copying, Writing, Owner
  <2> QED BY <1>4, <1>5, <1>6, <2>1, <2>3, <2>4 DEF Knows
<1> QED BY <1>9, <1>10, <1>11, <1>12, <1>13, <1>14, <1>15, <1>16, <1>17, <1>18, <1>19, <1>20
        DEF Silent

\* A batch a thief can take, or the owner has back, is what is in the buffer.
LEMMA StolenBatch ==
    ASSUME BufferInv, NEW t \in Threads, \A u \in Threads : Knows(u), CasSucceeds(t),
           NEW v \in Threads, v = frame[t].victim
    PROVE  /\ Stealable(v) /\ ~Stealable(v)'
           /\ \A w \in Threads \ {v} : version'[w] = version[w]
           /\ frame[t].elements = cells[v] /\ Proper(cells[v])
           /\ Live(v) = Items(cells[v])
           /\ frame[t].op = "pop" /\ frame[t].ret = Dummy /\ stealBuffers[t] = <<>>
           /\ frame[t].next = "return"
           /\ frame'[t].op = "pop" /\ frame'[t].ret = cells[v][1]
           /\ frame'[t].next = "return"
PROOF
<1> DEFINE f == frame[t]
<1>1. /\ frame \in [Threads -> Frame] /\ version \in [Threads -> Nat]
      /\ f \in Frame /\ f.v1 \in Nat /\ version[v] \in Nat
  BY FrameTypes DEF BufferInv, TypeOK
<1>2. /\ pc[t] = "cas" /\ version[v] = f.v1
      /\ version' = [version EXCEPT ![v] = f.v1 + 1]
      /\ frame' = [frame EXCEPT ![t] = [f EXCEPT !.ret = f.elements[1], !.elements = DummyArray]]
  BY DEF CasSucceeds
<1>3. f.v1 % 2 = 1
  BY <1>2 DEF BufferInv, ThreadInv, Snapshot, Copying
<1>4. version'[v] = f.v1 + 1 /\ (f.v1 + 1) % 2 = 0
  BY <1>1, <1>2, <1>3
<1>5. Stealable(v) /\ ~Stealable(v)' /\ \A w \in Threads \ {v} : version'[w] = version[w]
  BY <1>1, <1>2, <1>3, <1>4 DEF Stealable
<1>6. f.elements = cells[v]
  BY <1>2, BufferGivesIntegrity DEF StealIntegrity
<1>7. Proper(cells[v]) /\ Live(v) = Items(cells[v])
  BY <1>1, <1>5 DEF Knows, BatchInv, Live
<1>8. f.op = "pop" /\ f.ret = Dummy /\ stealBuffers[t] = <<>> /\ f.next = "return"
  BY <1>2 DEF Knows, CallInv, Searching, AtHeap, FillLabels
<1>9. frame'[t].op = f.op /\ frame'[t].ret = f.elements[1] /\ frame'[t].next = f.next
  BY <1>1, <1>2 DEF Frame
<1> QED BY <1>1, <1>5, <1>6, <1>7, <1>8, <1>9

\* The steps of t that move elements.
Moves(t) ==
    \/ Push(t) \/ PopBuffered(t) \/ Return(t) \/ FillBuffer(t) \/ FillWritten(t)
    \/ FillPublish(t) \/ PopLocally(t) \/ StealLocally(t) \/ StealRemotely(t)

LEMMA MovesKnow ==
    ASSUME BufferInv, NEW t \in Threads, Moves(t), \A u \in Threads : Knows(u)
    PROVE  Knows(t)'
PROOF
<1> DEFINE f == frame[t]
           g == frame'[t]
<1>0. /\ pc \in [Threads -> Labels] /\ frame \in [Threads -> Frame]
      /\ version \in [Threads -> Nat] /\ f \in Frame /\ f.victim \in Threads /\ f.v1 \in Nat
      /\ f.next \in {"return", "pick"} /\ version[t] \in Nat
      /\ cells \in [Threads -> Array] /\ heap \in [Threads -> SUBSET Tasks]
      /\ stealBuffers \in [Threads -> Seq(Tasks \cup {Torn})]
  BY FrameTypes DEF BufferInv, TypeOK
<1>1. BatchInv(t) /\ CallInv(t) /\ EmptyInv(t)
  BY DEF Knows
\* Nobody concludes from these labels that the own queue is empty.
<1>2. ASSUME ~SeenEmpty(t)', ~Copying(t)' PROVE EmptyInv(t)'
  BY <1>2 DEF EmptyInv
<1>3. ASSUME ~Writing(t)', UNCHANGED <<cells, version>> PROVE BatchInv(t)'
  BY <1>1, <1>3 DEF BatchInv, Stealable, Proper
<1> USE DEF Goto, shared, history
<1>4. CASE Push(t)
  <2>1. /\ pc[t] = "idle" /\ pc'[t] = "fillIfStolen" /\ UNCHANGED <<cells, version>>
        /\ frame' = [frame EXCEPT ![t] = [f EXCEPT !.op = "push"]]
    BY <1>0, <1>4 DEF Push
  <2>2. g.op = "push" /\ g.ret = f.ret /\ g.next = f.next
    BY <1>0, <2>1 DEF Frame
  <2>3. f.ret = Dummy /\ f.next = "return"
    BY <1>1, <2>1 DEF CallInv, IdleFrame
  <2>4. CallInv(t)'
    BY <2>1, <2>2, <2>3 DEF CallInv, Searching, AtHeap, FillLabels
  <2>5. ~SeenEmpty(t)' /\ ~Copying(t)' /\ ~Writing(t)'
    BY <2>1 DEF SeenEmpty, AtHeap, FillLabels, Copying, Writing
  <2> QED BY <1>2, <1>3, <2>1, <2>4, <2>5 DEF Knows
<1>5. CASE PopBuffered(t)
  <2> DEFINE x == stealBuffers[t][Len(stealBuffers[t])]
  <2>1. /\ pc[t] = "idle" /\ pc'[t] = "fillIfStolen" /\ UNCHANGED <<cells, version>>
        /\ frame' = [frame EXCEPT ![t] = [f EXCEPT !.op = "pop", !.ret = x]]
    BY <1>0, <1>5 DEF PopBuffered
  <2>2. g.op = "pop" /\ g.ret = x /\ g.next = f.next
    BY <1>0, <2>1 DEF Frame
  <2>3. f.next = "return"
    BY <1>1, <2>1 DEF CallInv, IdleFrame
  <2>4. x # Dummy
    <3>1. Len(stealBuffers[t]) \in Nat \ {0}
      BY <1>0, <1>5, EmptySeq DEF PopBuffered
    <3>2. x \in Tasks \cup {Torn}
      BY <1>0, <3>1, ElementOfSeq
    <3> QED BY <3>2, MarksAssumption
  <2> HIDE DEF x
  <2>5. CallInv(t)'
    BY <2>1, <2>2, <2>3, <2>4 DEF CallInv, Searching, AtHeap, FillLabels
  <2>6. ~SeenEmpty(t)' /\ ~Copying(t)' /\ ~Writing(t)'
    BY <2>1 DEF SeenEmpty, AtHeap, FillLabels, Copying, Writing
  <2> QED BY <1>2, <1>3, <2>1, <2>5, <2>6 DEF Knows
<1>6. CASE Return(t)
  <2>1. /\ pc'[t] = "idle" /\ UNCHANGED <<cells, version>> /\ g = IdleFrame(t)
    BY <1>0, <1>6 DEF Return
  <2>2. g.op = "none"
    BY <2>1 DEF IdleFrame
  <2>3. CallInv(t)'
    BY <2>1, <2>2 DEF CallInv, Searching, AtHeap, FillLabels, IdleFrame
  <2>4. ~SeenEmpty(t)' /\ ~Copying(t)' /\ ~Writing(t)'
    BY <2>1 DEF SeenEmpty, AtHeap, FillLabels, Copying, Writing
  <2> QED BY <1>2, <1>3, <2>1, <2>3, <2>4 DEF Knows
<1>7. CASE FillBuffer(t)
  <2>1. PICK batch \in Batches(heap[t]) :
          frame' = [frame EXCEPT ![t] = [f EXCEPT !.elements = batch]]
    BY <1>7 DEF FillBuffer
  <2>2. /\ pc[t] = "fill" /\ pc'[t] = "write" /\ version' = version /\ heap[t] # {}
        /\ stealBuffers' = stealBuffers
    BY <1>0, <1>7 DEF FillBuffer
  <2>3. g.op = f.op /\ g.ret = f.ret /\ g.next = f.next /\ g.fallback = f.fallback
        /\ g.elements = batch
    BY <1>0, <2>1 DEF Frame
  <2>4. CallInv(t)'
    BY <1>1, <2>2, <2>3 DEF CallInv, Searching, AtHeap, FillLabels
  <2>5. ~Stealable(t)' /\ Proper(batch)
    BY <1>0, <2>2, BatchIsProper DEF BufferInv, ThreadInv, Fill, Stealable
  <2>6. BatchInv(t)'
    BY <2>2, <2>3, <2>5 DEF BatchInv, Proper
  <2>7. ~SpuriousCas => ~SeenEmpty(t)
    BY <1>1, <2>2 DEF EmptyInv
  <2>8. SeenEmpty(t)' => SeenEmpty(t)
    BY <2>2, <2>3 DEF SeenEmpty, AtHeap, FillLabels
  <2>9. EmptyInv(t)'
    BY <2>2, <2>7, <2>8 DEF EmptyInv, Copying
  <2> QED BY <2>4, <2>6, <2>9 DEF Knows
<1>8. CASE FillWritten(t)
  <2>1. /\ pc[t] = "write" /\ pc'[t] = "publish" /\ version' = version /\ g = f
        /\ stealBuffers' = stealBuffers
    BY <1>0, <1>8 DEF FillWritten
  <2>2. CallInv(t)'
    BY <1>1, <2>1 DEF CallInv, Searching, AtHeap, FillLabels
  <2>3. ~Stealable(t)'
    BY <2>1 DEF BufferInv, ThreadInv, Fill, Stealable
  <2>4. BatchInv(t)'
    BY <1>1, <2>1, <2>3 DEF BatchInv, Proper, Writing
  <2>5. (SeenEmpty(t)' => SeenEmpty(t)) /\ (~SpuriousCas => ~SeenEmpty(t))
    BY <1>1, <2>1 DEF SeenEmpty, AtHeap, FillLabels, EmptyInv, Writing
  <2>6. EmptyInv(t)'
    BY <2>1, <2>5 DEF EmptyInv, Copying
  <2> QED BY <2>2, <2>4, <2>6 DEF Knows
<1>9. CASE FillPublish(t)
  <2>1. /\ pc[t] = "publish" /\ pc'[t] = f.next /\ cells' = cells
        /\ stealBuffers' = stealBuffers
        /\ frame' = [frame EXCEPT ![t] = [f EXCEPT !.localMin = f.elements[1],
                                                   !.elements = DummyArray]]
    BY <1>0, <1>9 DEF FillPublish
  <2>2. g.op = f.op /\ g.ret = f.ret /\ g.fallback = f.fallback
    BY <1>0, <2>1 DEF Frame
  <2>3. CallInv(t)'
    BY <1>0, <1>1, <2>1, <2>2 DEF CallInv, Searching, AtHeap, FillLabels
  <2>4. Proper(cells[t])
    BY <1>1, <2>1 DEF BufferInv, ThreadInv, Fill, BatchInv, Writing
  <2>5. BatchInv(t)'
    BY <1>0, <2>1, <2>4 DEF BatchInv, Proper, Writing
  <2>6. (SeenEmpty(t)' => SeenEmpty(t)) /\ (~SpuriousCas => ~SeenEmpty(t))
    BY <1>0, <1>1, <2>1, <2>2 DEF SeenEmpty, AtHeap, FillLabels, EmptyInv, Writing, CallInv
  <2>7. EmptyInv(t)'
    BY <1>0, <2>1, <2>6 DEF EmptyInv, Copying
  <2> QED BY <2>3, <2>5, <2>7 DEF Knows
<1>10. CASE PopLocally(t)
  <2>1. PICK x \in heap[t] :
          /\ pc[t] = "popLocally" /\ pc'[t] \in {"fill", "return"}
          /\ UNCHANGED <<cells, version>>
          /\ frame' = [frame EXCEPT ![t] = [f EXCEPT !.ret = x]]
    BY <1>0, <1>10 DEF PopLocally, Best
  <2>2. g.op = f.op /\ g.ret = x /\ g.next = f.next
    BY <1>0, <2>1 DEF Frame
  <2>3. x # Dummy
    BY <1>0, MarksAssumption
  <2>4. f.op = "pop" /\ f.next = "return"
    BY <1>1, <2>1 DEF CallInv, Searching, AtHeap, FillLabels
  <2>5. CallInv(t)'
    BY <2>1, <2>2, <2>3, <2>4 DEF CallInv, Searching, AtHeap, FillLabels
  <2>6. ~SeenEmpty(t)' /\ ~Copying(t)' /\ ~Writing(t)'
    BY <2>1, <2>2, <2>3, <2>4 DEF SeenEmpty, AtHeap, FillLabels, Copying, Writing
  <2> QED BY <1>2, <1>3, <2>1, <2>5, <2>6 DEF Knows
<1>11. CASE StealLocally(t) \/ StealRemotely(t)
  <2> PICK v \in Threads : v = f.victim
    BY <1>0
  <2>1. /\ CasSucceeds(t) /\ cells' = cells /\ pc'[t] \in {"fill", "return"}
    BY <1>0, <1>11 DEF StealLocally, StealRemotely
  <2>2. /\ ~Stealable(v)' /\ \A w \in Threads \ {v} : version'[w] = version[w]
        /\ Proper(cells[v]) /\ g.op = "pop" /\ g.ret = cells[v][1] /\ g.next = "return"
    BY <2>1, StolenBatch
  <2>3. g.ret # Dummy
    BY <2>2 DEF Proper
  <2>4. CallInv(t)'
    BY <2>1, <2>2, <2>3 DEF CallInv, Searching, AtHeap, FillLabels
  <2>5. ~SeenEmpty(t)' /\ ~Copying(t)' /\ ~Writing(t)'
    BY <2>1, <2>2, <2>3 DEF SeenEmpty, AtHeap, FillLabels, Copying, Writing
  <2>6. BatchInv(t)'
    BY <1>1, <2>1, <2>2, <2>5 DEF BatchInv, Stealable, Proper
  <2> QED BY <1>2, <2>4, <2>5, <2>6 DEF Knows
<1> QED BY <1>4, <1>5, <1>6, <1>7, <1>8, <1>9, <1>10, <1>11 DEF Moves

-----------------------------------------------------------------------------
(* Where the elements are.                                                 *)

\* No other element comes to t from outside: k is a place of t.
OthersKeepPlaces(t) ==
    \A u \in Threads \ {t} : \A k, x : At(k, u, x)' => At(k, u, x)

LEMMA OthersPlaces ==
    ASSUME BufferInv, NEW t \in Threads, TouchesOnly(t),
           \A u \in Threads \ {t} : stealBuffers'[u] = stealBuffers[u]
    PROVE  OthersKeepPlaces(t)
PROOF
<1> SUFFICES ASSUME NEW u \in Threads \ {t}, NEW k, NEW x, At(k, u, x)' PROVE At(k, u, x)
  BY DEF OthersKeepPlaces
<1>1. /\ pc'[u] = pc[u] /\ frame'[u] = frame[u] /\ heap'[u] = heap[u] /\ cells'[u] = cells[u]
      /\ stealBuffers'[u] = stealBuffers[u] /\ version[u] \in Nat
  BY DEF TouchesOnly, WritesOwn, BufferInv, TypeOK
<1>2. version'[u] = version[u] \/ (version'[u] = version[u] + 1 /\ version[u] % 2 = 1)
  BY DEF TouchesOnly, VersionsGrow, Stealable
<1>3. Stealable(u)' => Stealable(u)
  BY <1>1, <1>2 DEF Stealable
<1>4. Live(u)' \subseteq Live(u)
  BY <1>1, <1>3 DEF Live, Items
<1>5. Filling(u)' = Filling(u) /\ Left(u)' = Left(u) /\ InHand(u)' = InHand(u)
  BY <1>1 DEF Filling, Items, Left, InHand
<1> QED BY <1>1, <1>4, <1>5 DEF At

\* The elements of X and Y leave container src of u and come to t, X to its
\* container k1 and Y to its container k2, and no other element comes anywhere.
MovesTo(t, u, src, k1, X, k2, Y) ==
    /\ pushed' = pushed /\ delivered' = delivered
    /\ X \cap Y = {}
    /\ \A x \in X \cup Y : At(src, u, x) /\ ~At(src, u, x)'
    /\ \A k, x : \A w \in Threads :
          At(k, w, x)' => \/ At(k, w, x)
                          \/ w = t /\ k = k1 /\ x \in X
                          \/ w = t /\ k = k2 /\ x \in Y
    /\ \A w \in Threads : \A i, j \in DOMAIN stealBuffers'[w] :
          stealBuffers'[w][i] = stealBuffers'[w][j] => i = j

LEMMA MovePlaces ==
    ASSUME Placed, NEW t \in Threads, NEW u \in Threads,
           NEW src, NEW k1, NEW k2, NEW X, NEW Y, MovesTo(t, u, src, k1, X, k2, Y)
    PROVE  Placed'
PROOF
<1>1. pushed' = pushed /\ delivered' = delivered
  BY DEF MovesTo
<1>2. ASSUME NEW k, NEW x, NEW w \in Threads, At(k, w, x)'
      PROVE  x \in pushed' /\ x \notin delivered'
  <2>1. At(k, w, x) \/ At(src, u, x)
    BY <1>2 DEF MovesTo
  <2> QED BY <1>1, <2>1 DEF Placed
<1>3. ASSUME NEW k, NEW l, NEW x, NEW w \in Threads, NEW y \in Threads,
             At(k, w, x)', At(l, y, x)'
      PROVE  k = l /\ w = y
  <2>1. CASE x \in X \cup Y
    <3>1. At(src, u, x) /\ ~At(src, u, x)'
      BY <2>1 DEF MovesTo
    <3>2. ~At(k, w, x)
      <4> SUFFICES ASSUME At(k, w, x) PROVE FALSE
        OBVIOUS
      <4>1. k = src /\ w = u
        BY <3>1 DEF Placed
      <4> QED BY <1>3, <3>1, <4>1
    <3>3. ~At(l, y, x)
      <4> SUFFICES ASSUME At(l, y, x) PROVE FALSE
        OBVIOUS
      <4>1. l = src /\ y = u
        BY <3>1 DEF Placed
      <4> QED BY <1>3, <3>1, <4>1
    <3> QED BY <1>3, <2>1, <3>2, <3>3 DEF MovesTo
  <2>2. CASE x \notin X \cup Y
    <3>1. At(k, w, x) /\ At(l, y, x)
      BY <1>3, <2>2 DEF MovesTo
    <3> QED BY <3>1 DEF Placed
  <2> QED BY <2>1, <2>2
<1>4. delivered' \subseteq pushed'
  BY <1>1 DEF Placed
<1>5. \A k, x : \A w \in Threads : At(k, w, x)' => x \in pushed' /\ x \notin delivered'
  BY <1>2
<1>6. \A k, l, x : \A w, y \in Threads : At(k, w, x)' /\ At(l, y, x)' => k = l /\ w = y
  BY <1>3
<1> QED BY <1>4, <1>5, <1>6 DEF Placed, MovesTo

\* Nothing moves.
LEMMA SilentPlaces ==
    ASSUME BufferInv, Placed, TypeOK', NEW t \in Threads, Silent(t), Knows(t)
    PROVE  Placed'
PROOF
<1>1. TouchesOnly(t)
  BY QuietTouches DEF Silent, Quiet, BufferInv
<1>2. /\ heap' = heap /\ cells' = cells /\ version' = version /\ stealBuffers' = stealBuffers
      /\ UNCHANGED history
  BY SilentShared DEF shared
<1>3. ~Writing(t)' /\ frame'[t].ret = frame[t].ret
  BY SilentKnows
<1>4. OthersKeepPlaces(t)
  BY <1>1, <1>2, OthersPlaces
<1>5. /\ Live(t)' = Live(t) /\ Filling(t)' = {} /\ Left(t)' = Left(t) /\ InHand(t)' = InHand(t)
  BY <1>2, <1>3 DEF Live, Stealable, Items, Filling, Writing, Left, InHand
<1>6. \A k, x : At(k, t, x)' => At(k, t, x)
  BY <1>2, <1>5 DEF At
<1>7. \A k, x : \A w \in Threads : At(k, w, x)' => At(k, w, x)
  BY <1>4, <1>6 DEF OthersKeepPlaces
<1>8. \A w \in Threads : \A i, j \in DOMAIN stealBuffers'[w] :
         stealBuffers'[w][i] = stealBuffers'[w][j] => i = j
  BY <1>2 DEF Placed
<1>9. MovesTo(t, t, "heap", "heap", {}, "heap", {})
  BY <1>2, <1>7, <1>8 DEF MovesTo, history
<1> QED BY <1>9, MovePlaces

LEMMA MovesTouch ==
    ASSUME BufferInv, NEW t \in Threads, Moves(t)
    PROVE  TouchesOnly(t) /\ \A u \in Threads \ {t} : stealBuffers'[u] = stealBuffers[u]
PROOF
<1>1. stealBuffers \in [Threads -> Seq(Tasks \cup {Torn})]
  BY DEF BufferInv, TypeOK
<1>2. Quiet(t) \/ FillBuffer(t) \/ FillWritten(t) \/ FillPublish(t) \/ StealLocally(t) \/ StealRemotely(t)
  BY DEF Moves, Quiet
<1>3. TouchesOnly(t)
  BY <1>2, QuietTouches, OwnWriteStep DEF BufferInv
<1>4. CASE PopBuffered(t) \/ StealRemotely(t)
  BY <1>1, <1>3, <1>4 DEF PopBuffered, StealRemotely
<1>5. CASE ~(PopBuffered(t) \/ StealRemotely(t))
  <2>1. stealBuffers' = stealBuffers
    BY <1>5 DEF Moves, Push, Return, FillBuffer, FillWritten, FillPublish, PopLocally,
                StealLocally, shared
  <2> QED BY <1>3, <2>1
<1> QED BY <1>4, <1>5

\* The buffer of t itself changes only when t writes it.
LEMMA MovesPlaces ==
    ASSUME BufferInv, Placed, NEW t \in Threads, Moves(t), \A u \in Threads : Knows(u)
    PROVE  Placed'
PROOF
<1> DEFINE f == frame[t]
           g == frame'[t]
           Unique == \A w \in Threads : \A i, j \in DOMAIN stealBuffers'[w] :
                        stealBuffers'[w][i] = stealBuffers'[w][j] => i = j
<1>0. /\ pc \in [Threads -> Labels] /\ frame \in [Threads -> Frame]
      /\ version \in [Threads -> Nat] /\ f \in Frame /\ f.victim \in Threads
      /\ f.next \in {"return", "pick"} /\ version[t] \in Nat
      /\ cells \in [Threads -> Array] /\ heap \in [Threads -> SUBSET Tasks]
      /\ stealBuffers \in [Threads -> Seq(Tasks \cup {Torn})]
  BY FrameTypes DEF BufferInv, TypeOK
<1>1. BatchInv(t) /\ CallInv(t)
  BY DEF Knows
<1>2. OthersKeepPlaces(t)
  BY MovesTouch, OthersPlaces
<1>3. \A w \in Threads : \A i, j \in DOMAIN stealBuffers[w] :
         stealBuffers[w][i] = stealBuffers[w][j] => i = j
  BY DEF Placed
<1>4. Dummy \notin Tasks
  BY MarksAssumption
<1> USE DEF Goto, shared, history
<1>5. CASE Push(t)
  <2>1. PICK range \in SUBSET (Tasks \ pushed) :
          heap' = [heap EXCEPT ![t] = @ \cup range] /\ pushed' = pushed \cup range
    BY <1>5 DEF Push
  <2>2. /\ pc[t] = "idle" /\ pc'[t] = "fillIfStolen" /\ delivered' = delivered
        /\ UNCHANGED <<cells, version, stealBuffers>>
        /\ frame' = [frame EXCEPT ![t] = [f EXCEPT !.op = "push"]]
    BY <1>0, <1>5 DEF Push
  <2>3. g.ret = f.ret
    BY <1>0, <2>2 DEF Frame
  <2>4. /\ heap'[t] = heap[t] \cup range /\ Live(t)' = Live(t) /\ Filling(t)' = {}
        /\ Left(t)' = Left(t) /\ InHand(t)' = InHand(t)
    BY <1>0, <2>1, <2>2, <2>3 DEF Live, Stealable, Items, Filling, Left, InHand
  <2>5. \A k, x : At(k, t, x)' => At(k, t, x) \/ (k = "heap" /\ x \in range)
    BY <2>4 DEF At
  <2>6. \A k, x : \A w \in Threads :
           At(k, w, x)' => At(k, w, x) \/ (w = t /\ k = "heap" /\ x \in range)
    BY <1>2, <2>5 DEF OthersKeepPlaces
  <2>7. \A k, x : \A w \in Threads : x \in range => ~At(k, w, x)
    BY <2>1 DEF Placed
  <2>8. \A k, x : \A w \in Threads : At(k, w, x)' => x \in pushed' /\ x \notin delivered'
    BY <2>1, <2>2, <2>6 DEF Placed
  <2>9. \A k, l, x : \A w, y \in Threads : At(k, w, x)' /\ At(l, y, x)' => k = l /\ w = y
    BY <2>6, <2>7 DEF Placed
  <2> QED BY <2>1, <2>2, <2>8, <2>9 DEF Placed
<1>6. CASE Return(t)
  <2>1. /\ pc[t] = "return" /\ pc'[t] = "idle" /\ g = IdleFrame(t) /\ pushed' = pushed
        /\ UNCHANGED <<heap, cells, version, stealBuffers>>
        /\ delivered' = delivered \cup InHand(t)
    BY <1>0, <1>6 DEF Return, InHand
  <2>2. /\ Live(t)' = Live(t) /\ Filling(t)' = {} /\ Left(t)' = Left(t) /\ InHand(t)' = {}
    BY <2>1 DEF Live, Stealable, Items, Filling, Left, InHand, IdleFrame
  <2>3. \A k, x : At(k, t, x)' => At(k, t, x) /\ k # "hand"
    BY <2>1, <2>2 DEF At
  <2>4. \A k, x : \A w \in Threads : At(k, w, x)' => At(k, w, x) /\ ~(w = t /\ k = "hand")
    BY <1>2, <2>3 DEF OthersKeepPlaces
  <2>5. \A x \in InHand(t) : At("hand", t, x)
    BY DEF At
  <2>6. \A k, x : \A w \in Threads : At(k, w, x)' => x \in pushed' /\ x \notin delivered'
    BY <2>1, <2>4, <2>5 DEF Placed
  <2>7. \A k, l, x : \A w, y \in Threads : At(k, w, x)' /\ At(l, y, x)' => k = l /\ w = y
    BY <2>4 DEF Placed
  <2>8. delivered' \subseteq pushed'
    BY <2>1, <2>5 DEF Placed
  <2> QED BY <2>1, <2>6, <2>7, <2>8 DEF Placed
<1> DEFINE none == {}
<1>7. CASE PopBuffered(t)
  <2> DEFINE s == stealBuffers[t]
             n == Len(s)
             x == s[n]
  <2>1. /\ pc[t] = "idle" /\ pc'[t] = "fillIfStolen" /\ UNCHANGED <<heap, cells, version>>
        /\ frame' = [frame EXCEPT ![t] = [f EXCEPT !.op = "pop", !.ret = x]]
        /\ stealBuffers'[t] = SubSeq(s, 1, n - 1) /\ UNCHANGED history
    BY <1>0, <1>7 DEF PopBuffered
  <2>2. g.ret = x
    BY <1>0, <2>1 DEF Frame
  <2>3. f.ret = Dummy
    BY <1>1, <2>1 DEF CallInv, IdleFrame
  <2>4. s \in Seq(Tasks \cup {Torn}) /\ n \in Nat \ {0} /\ DOMAIN s = 1..n
    BY <1>0, <1>7, EmptySeq DEF PopBuffered
  <2>5. DOMAIN stealBuffers'[t] = 1..(n - 1) /\ \A i \in 1..(n - 1) : stealBuffers'[t][i] = s[i]
    <3>1. \A i \in 1..(n - 1) : s[i] \in Tasks \cup {Torn}
      BY <2>4, ElementOfSeq
    <3>2. n - 1 \in Int /\ Len(SubSeq(s, 1, n - 1)) = n - 1
      BY <2>4, <3>1, SubSeqProperties
    <3> QED BY <2>1, <2>4, <3>1, <3>2, SubSeqProperties
  <2>6. x # Dummy
    BY <2>4, ElementOfSeq, MarksAssumption
  <2>7. x \in Left(t) /\ x \notin Left(t)' /\ Left(t)' \subseteq Left(t)
    <3>1. x \in Left(t) /\ Left(t)' \subseteq Left(t)
      BY <2>4, <2>5 DEF Left
    <3>2. ASSUME NEW i \in 1..(n - 1) PROVE s[i] # x
      BY <1>3, <2>4
    <3> QED BY <2>5, <3>1, <3>2 DEF Left
  <2>8. Unique
    <3>1. ASSUME NEW i \in 1..(n - 1), NEW j \in 1..(n - 1), s[i] = s[j] PROVE i = j
      BY <1>3, <2>4, <3>1
    <3>2. \A w \in Threads \ {t} : stealBuffers'[w] = stealBuffers[w]
      BY MovesTouch
    <3> QED BY <1>3, <2>5, <3>1, <3>2
  <2> HIDE DEF s, n, x
  <2>9. Live(t)' = Live(t) /\ Filling(t)' = {} /\ InHand(t)' = {x}
    BY <2>1, <2>2, <2>6 DEF Live, Stealable, Items, Filling, InHand
  <2>10. \A k, y : At(k, t, y)' => At(k, t, y) \/ (k = "hand" /\ y \in {x})
    BY <2>1, <2>7, <2>9 DEF At
  <2>11. \A k, y : \A w \in Threads :
            At(k, w, y)' => \/ At(k, w, y)
                            \/ w = t /\ k = "hand" /\ y \in {x}
                            \/ w = t /\ k = "hand" /\ y \in none
    BY <1>2, <2>10 DEF OthersKeepPlaces
  <2>12. /\ {x} \cap none = {}
         /\ \A y \in {x} \cup none : At("left", t, y) /\ ~At("left", t, y)'
    BY <2>7 DEF At
  <2> HIDE DEF none
  <2>13. MovesTo(t, t, "left", "hand", {x}, "hand", none)
    BY <2>1, <2>8, <2>11, <2>12 DEF MovesTo
  <2> QED BY <2>13, MovePlaces
<1> HIDE DEF none
<1>t. none = {}
  BY DEF none
<1>8. CASE FillBuffer(t)
  <2>1. PICK batch \in Batches(heap[t]) :
          /\ heap' = [heap EXCEPT ![t] = @ \ Items(batch)]
          /\ frame' = [frame EXCEPT ![t] = [f EXCEPT !.elements = batch]]
    BY <1>8 DEF FillBuffer
  <2>2. /\ pc[t] = "fill" /\ pc'[t] = "write" /\ version' = version /\ heap[t] # {}
        /\ stealBuffers' = stealBuffers /\ UNCHANGED history
    BY <1>0, <1>8 DEF FillBuffer
  <2>3. g.ret = f.ret /\ g.elements = batch
    BY <1>0, <2>1 DEF Frame
  <2>4. ~Stealable(t)' /\ Items(batch) \subseteq heap[t]
    BY <1>0, <2>2, BatchIsProper DEF BufferInv, ThreadInv, Fill, Stealable
  <2> DEFINE X == Items(batch)
  <2>5. /\ heap'[t] = heap[t] \ X /\ Live(t)' = {} /\ Filling(t)' = X
        /\ Left(t)' = Left(t) /\ InHand(t)' = InHand(t)
    BY <1>0, <2>1, <2>2, <2>3, <2>4 DEF Live, Items, Filling, Left, InHand
  <2> HIDE DEF X
  <2>6. \A k, y : At(k, t, y)' => At(k, t, y) \/ (k = "filling" /\ y \in X)
    BY <2>5 DEF At
  <2>7. \A k, y : \A w \in Threads :
           At(k, w, y)' => \/ At(k, w, y)
                           \/ w = t /\ k = "filling" /\ y \in X
                           \/ w = t /\ k = "filling" /\ y \in none
    BY <1>2, <2>6 DEF OthersKeepPlaces
  <2>8. /\ X \cap none = {}
        /\ \A y \in X \cup none : At("heap", t, y) /\ ~At("heap", t, y)'
    BY <1>t, <2>4, <2>5 DEF At, X
  <2>9. Unique
    BY <1>3, <2>2
  <2>10. MovesTo(t, t, "heap", "filling", X, "filling", none)
    BY <2>2, <2>7, <2>8, <2>9 DEF MovesTo
  <2> QED BY <2>10, MovePlaces
<1>9. CASE FillWritten(t)
  <2>1. /\ pc[t] = "write" /\ pc'[t] = "publish" /\ heap' = heap /\ version' = version
        /\ stealBuffers' = stealBuffers /\ frame' = frame /\ UNCHANGED history
    BY <1>0, <1>9 DEF FillWritten
  <2>2. ~Stealable(t)'
    BY <2>1 DEF BufferInv, ThreadInv, Fill, Stealable
  <2>3. /\ Live(t)' = {} /\ Filling(t)' = Filling(t) /\ Left(t)' = Left(t)
        /\ InHand(t)' = InHand(t)
    BY <2>1, <2>2 DEF Live, Items, Filling, Left, InHand
  <2>4. \A k, y : At(k, t, y)' => At(k, t, y)
    BY <2>1, <2>3 DEF At
  <2>5. \A k, y : \A w \in Threads : At(k, w, y)' => At(k, w, y)
    BY <1>2, <2>4 DEF OthersKeepPlaces
  <2>6. Unique
    BY <1>3, <2>1
  <2>7. none \cap none = {} /\ \A x \in none \cup none : At("heap", t, x) /\ ~At("heap", t, x)'
    BY <1>t
  <2>8. MovesTo(t, t, "heap", "heap", none, "heap", none)
    BY <2>1, <2>5, <2>6, <2>7 DEF MovesTo
  <2> QED BY <2>8, MovePlaces
<1>10. CASE FillPublish(t)
  <2>1. /\ pc[t] = "publish" /\ pc'[t] = f.next /\ cells' = cells /\ heap' = heap
        /\ stealBuffers' = stealBuffers /\ UNCHANGED history
        /\ frame' = [frame EXCEPT ![t] = [f EXCEPT !.localMin = f.elements[1],
                                                   !.elements = DummyArray]]
    BY <1>0, <1>10 DEF FillPublish
  <2>2. g.ret = f.ret
    BY <1>0, <2>1 DEF Frame
  <2>3. cells[t] = f.elements
    BY <2>1 DEF BufferInv, ThreadInv, Fill
  <2> DEFINE X == Filling(t)
  <2>4. /\ Live(t)' \subseteq X /\ Filling(t)' = {} /\ Left(t)' = Left(t)
        /\ InHand(t)' = InHand(t)
    BY <1>0, <2>1, <2>2, <2>3 DEF Live, Items, Filling, Left, InHand
  <2>5. \A y \in X : At("filling", t, y) /\ ~At("filling", t, y)'
    BY <2>4 DEF At
  <2> HIDE DEF X
  <2>6. \A k, y : At(k, t, y)' => At(k, t, y) \/ (k = "live" /\ y \in X)
    BY <2>1, <2>4 DEF At
  <2>7. \A k, y : \A w \in Threads :
           At(k, w, y)' => \/ At(k, w, y)
                           \/ w = t /\ k = "live" /\ y \in X
                           \/ w = t /\ k = "live" /\ y \in none
    BY <1>2, <2>6 DEF OthersKeepPlaces
  <2>8. /\ X \cap none = {}
        /\ \A y \in X \cup none : At("filling", t, y) /\ ~At("filling", t, y)'
    BY <1>t, <2>5
  <2>9. Unique
    BY <1>3, <2>1
  <2>10. MovesTo(t, t, "filling", "live", X, "live", none)
    BY <2>1, <2>7, <2>8, <2>9 DEF MovesTo
  <2> QED BY <2>10, MovePlaces
<1>11. CASE PopLocally(t)
  <2>1. PICK x \in heap[t] :
          /\ pc[t] = "popLocally" /\ pc'[t] \in {"fill", "return"}
          /\ UNCHANGED <<cells, version, stealBuffers, pushed, delivered>>
          /\ heap' = [heap EXCEPT ![t] = @ \ {x}]
          /\ frame' = [frame EXCEPT ![t] = [f EXCEPT !.ret = x]]
    BY <1>0, <1>11 DEF PopLocally, Best
  <2>2. g.ret = x /\ x # Dummy
    BY <1>0, <1>4, <2>1 DEF Frame
  <2>3. heap'[t] = heap[t] \ {x}
    BY <1>0, <2>1
  <2>4. /\ Live(t)' = Live(t) /\ Filling(t)' = {} /\ Left(t)' = Left(t) /\ InHand(t)' = {x}
    BY <2>1, <2>2 DEF Live, Stealable, Items, Filling, Left, InHand
  <2>5. \A k, y : At(k, t, y)' => At(k, t, y) \/ (k = "hand" /\ y \in {x})
    BY <2>3, <2>4 DEF At
  <2>6. \A k, y : \A w \in Threads :
           At(k, w, y)' => \/ At(k, w, y)
                           \/ w = t /\ k = "hand" /\ y \in {x}
                           \/ w = t /\ k = "hand" /\ y \in none
    BY <1>2, <2>5 DEF OthersKeepPlaces
  <2>7. /\ {x} \cap none = {}
        /\ \A y \in {x} \cup none : At("heap", t, y) /\ ~At("heap", t, y)'
    BY <1>t, <2>3 DEF At
  <2>8. Unique
    BY <1>3, <2>1
  <2>9. MovesTo(t, t, "heap", "hand", {x}, "hand", none)
    BY <2>1, <2>6, <2>7, <2>8 DEF MovesTo
  <2> QED BY <2>9, MovePlaces
<1>12. ASSUME CasSucceeds(t), pc'[t] \in {"fill", "return"}, cells' = cells,
              NEW v \in Threads, v = f.victim
       PROVE  LET a == cells[v]
              IN  /\ ~Stealable(v)' /\ Proper(a) /\ Live(v) = Items(a)
                  /\ {a[1]} \cap Rest(a) = {} /\ a[1] # Dummy
                  /\ \A y \in {a[1]} \cup Rest(a) : At("live", v, y) /\ ~At("live", v, y)'
                  /\ frame[t].elements = a /\ stealBuffers[t] = <<>>
                  /\ InHand(t)' = {a[1]} /\ Filling(t)' = {} /\ Live(t)' \subseteq Live(t)
  <2> DEFINE a == cells[v]
  <2>1. /\ Stealable(v) /\ ~Stealable(v)'
        /\ \A w \in Threads \ {v} : version'[w] = version[w]
        /\ frame[t].elements = a /\ Proper(a) /\ Live(v) = Items(a)
        /\ stealBuffers[t] = <<>> /\ g.ret = a[1]
    BY <1>12, StolenBatch
  <2>2. a[1] \in Tasks /\ Items(a) = {a[1]} \cup Rest(a) /\ a[1] \notin Rest(a)
    BY <2>1, ProperFacts
  <2>3. InHand(t)' = {a[1]} /\ Filling(t)' = {}
    BY <1>4, <1>12, <2>1, <2>2 DEF InHand, Filling
  <2>4. Live(t)' \subseteq Live(t) /\ Live(v)' = {}
    BY <1>12, <2>1 DEF Live, Stealable, Items
  <2>5. \A y \in {a[1]} \cup Rest(a) : At("live", v, y) /\ ~At("live", v, y)'
    BY <2>1, <2>2, <2>4 DEF At
  <2> QED BY <1>4, <2>1, <2>2, <2>3, <2>4, <2>5
<1>13. CASE StealLocally(t)
  <2>1. /\ CasSucceeds(t) /\ cells' = cells /\ pc'[t] \in {"fill", "return"} /\ f.victim = t
        /\ heap'[t] = heap[t] \cup Rest(f.elements) /\ stealBuffers' = stealBuffers
        /\ UNCHANGED history
    BY <1>0, <1>13 DEF StealLocally, Owner
  <2> DEFINE X == {cells[t][1]}
             Y == Rest(cells[t])
  <2>2. /\ X \cap Y = {}
        /\ \A y \in X \cup Y : At("live", t, y) /\ ~At("live", t, y)'
        /\ heap'[t] = heap[t] \cup Y
        /\ InHand(t)' = X /\ Filling(t)' = {} /\ Live(t)' \subseteq Live(t)
    BY <1>12, <2>1
  <2> HIDE DEF X, Y
  <2>3. Left(t)' = Left(t)
    BY <2>1 DEF Left
  <2>4. \A k, y : At(k, t, y)' => \/ At(k, t, y)
                                  \/ k = "hand" /\ y \in X
                                  \/ k = "heap" /\ y \in Y
    BY <2>2, <2>3 DEF At
  <2>5. \A k, y : \A w \in Threads :
           At(k, w, y)' => \/ At(k, w, y)
                           \/ w = t /\ k = "hand" /\ y \in X
                           \/ w = t /\ k = "heap" /\ y \in Y
    BY <1>2, <2>4 DEF OthersKeepPlaces
  <2>6. Unique
    BY <1>3, <2>1
  <2>7. MovesTo(t, t, "live", "hand", X, "heap", Y)
    BY <2>1, <2>2, <2>5, <2>6 DEF MovesTo
  <2> QED BY <2>7, MovePlaces
<1>14. CASE StealRemotely(t)
  <2> PICK v \in Threads : v = f.victim
    BY <1>0
  <2> DEFINE X == {cells[v][1]}
             Y == Rest(cells[v])
             s == RestInOrder(cells[v])
  <2>1. /\ CasSucceeds(t) /\ cells' = cells /\ pc'[t] \in {"fill", "return"}
        /\ stealBuffers'[t] = Reversed(stealBuffers[t] \o RestInOrder(f.elements))
        /\ UNCHANGED <<heap, pushed, delivered>>
    BY <1>0, <1>14 DEF StealRemotely
  <2>2. /\ X \cap Y = {} /\ Proper(cells[v])
        /\ \A y \in X \cup Y : At("live", v, y) /\ ~At("live", v, y)'
        /\ f.elements = cells[v] /\ stealBuffers[t] = <<>>
        /\ InHand(t)' = X /\ Filling(t)' = {} /\ Live(t)' \subseteq Live(t)
    BY <1>12, <2>1
  <2>3. /\ s \in Seq(Tasks) /\ {s[i] : i \in DOMAIN s} = Y
        /\ \A i, j \in DOMAIN s : s[i] = s[j] => i = j
    BY <2>2, RestFacts
  <2>4. stealBuffers[t] \o RestInOrder(f.elements) = s
    BY <2>2, <2>3, ConcatEmptySeq
  <2> HIDE DEF X, Y, s
  <2>5. /\ {stealBuffers'[t][i] : i \in DOMAIN stealBuffers'[t]} = Y
        /\ \A i, j \in DOMAIN stealBuffers'[t] :
              stealBuffers'[t][i] = stealBuffers'[t][j] => i = j
    <3>1. stealBuffers'[t] = Reversed(s)
      BY <2>1, <2>4
    <3>2. /\ {Reversed(s)[i] : i \in DOMAIN Reversed(s)} = {s[i] : i \in DOMAIN s}
          /\ \A i, j \in DOMAIN Reversed(s) : Reversed(s)[i] = Reversed(s)[j] => i = j
      BY <2>3, ReversedFacts
    <3> QED BY <2>3, <3>1, <3>2
  <2>6. Left(t)' = Y
    BY <2>5 DEF Left
  <2>7. Unique
    BY <1>3, <2>5, MovesTouch
  <2>8. \A k, y : At(k, t, y)' => \/ At(k, t, y)
                                  \/ k = "hand" /\ y \in X
                                  \/ k = "left" /\ y \in Y
    BY <2>1, <2>2, <2>6 DEF At
  <2>9. \A k, y : \A w \in Threads :
           At(k, w, y)' => \/ At(k, w, y)
                           \/ w = t /\ k = "hand" /\ y \in X
                           \/ w = t /\ k = "left" /\ y \in Y
    BY <1>2, <2>8 DEF OthersKeepPlaces
  <2>10. MovesTo(t, v, "live", "hand", X, "left", Y)
    BY <2>1, <2>2, <2>7, <2>9 DEF MovesTo
  <2> QED BY <2>10, MovePlaces
<1> QED BY <1>5, <1>6, <1>7, <1>8, <1>9, <1>10, <1>11, <1>13, <1>14 DEF Moves

-----------------------------------------------------------------------------
(* The inductive invariant.                                                *)

LEMMA NextCases ==
    ASSUME NEW t \in Threads, Push(t) \/ Pop(t) \/ Step(t)
    PROVE  Silent(t) \/ Moves(t)
PROOF BY DEF Pop, Step, Silent, Moves

LEMMA QueueInit == Init => QueueInv
PROOF
<1> SUFFICES ASSUME Init PROVE QueueInv
  OBVIOUS
<1>1. ASSUME NEW t \in Threads
      PROVE  /\ pc[t] = "idle" /\ frame[t] = IdleFrame(t) /\ heap[t] = {} /\ ~Stealable(t)
             /\ stealBuffers[t] = <<>>
  BY DEF Init, Stealable
<1>i. \A t \in Threads : frame[t].op = "none" /\ frame[t].ret = Dummy
  <2>1. \A t \in Threads : IdleFrame(t).op = "none" /\ IdleFrame(t).ret = Dummy
    BY DEF IdleFrame
  <2> QED BY <1>1, <2>1
<1>2. pushed = {} /\ delivered = {}
  BY DEF Init
<1>3. ASSUME NEW t \in Threads PROVE \A k, x : ~At(k, t, x)
  <2>1. Live(t) = {} /\ Filling(t) = {} /\ InHand(t) = {}
    BY <1>1, <1>i DEF Live, Filling, InHand
  <2>2. DOMAIN stealBuffers[t] = {}
    <3>1. DOMAIN stealBuffers[t] = 1..0
      BY <1>1, <1>3
    <3> QED BY <3>1
  <2>3. Left(t) = {}
    BY <2>2 DEF Left
  <2> QED BY <1>1, <1>3, <2>1, <2>3 DEF At
<1>4. \A t \in Threads : DOMAIN stealBuffers[t] = {}
  <2>1. \A t \in Threads : DOMAIN stealBuffers[t] = 1..0
    BY <1>1
  <2> QED BY <2>1
<1>5. Placed
  BY <1>2, <1>3, <1>4 DEF Placed
<1>6. ASSUME NEW t \in Threads PROVE BatchInv(t) /\ CallInv(t) /\ EmptyInv(t)
  <2>1. frame[t].op = "none"
    BY <1>i
  <2> QED BY <1>1, <1>6, <2>1 DEF BatchInv, CallInv, EmptyInv, SeenEmpty, Writing, Copying,
                                  Searching, AtHeap, FillLabels
<1> QED BY <1>5, <1>6, BufferInit DEF QueueInv

LEMMA QueueStep == QueueInv /\ [Next]_vars => QueueInv'
PROOF
<1> SUFFICES ASSUME QueueInv, [Next]_vars PROVE QueueInv'
  OBVIOUS
<1>1. BufferInv /\ BufferInv' /\ TypeOK' /\ Placed /\ \A u \in Threads : Knows(u)
  BY BufferStep DEF QueueInv, BufferInv, Knows
<1>2. CASE UNCHANGED vars
  <2>1. Placed'
    BY <1>1, <1>2 DEF vars, Placed, At, Live, Filling, Left, InHand, Items, Stealable
  <2>2. ASSUME NEW u \in Threads PROVE Knows(u)'
    BY <1>1, <1>2, <2>2 DEF vars, Knows, BatchInv, Proper, CallInv, IdleFrame, EmptyInv,
              SeenEmpty, Writing, Copying, Owner, Stealable
  <2> QED BY <1>1, <2>1, <2>2 DEF QueueInv, Knows
<1>3. CASE Next
  <2>1. PICK t \in Threads : Silent(t) \/ Moves(t)
    BY <1>3, NextCases DEF Next
  <2>2. TouchesOnly(t) /\ \A u \in Threads \ {t} : stealBuffers'[u] = stealBuffers[u]
    <3>1. CASE Silent(t)
      <4>1. Quiet(t) /\ stealBuffers' = stealBuffers
        BY <3>1, SilentShared DEF Silent, Quiet, shared
      <4> QED BY <1>1, <4>1, QuietTouches DEF BufferInv
    <3>2. CASE Moves(t)
      BY <1>1, <3>2, MovesTouch
    <3> QED BY <2>1, <3>1, <3>2
  <2>3. \A u \in Threads \ {t} : Knows(u)'
    BY <1>1, <2>2, OthersStay
  <2>4. Knows(t)' /\ Placed'
    <3>1. CASE Silent(t)
      BY <1>1, <3>1, SilentKnows, SilentPlaces
    <3>2. CASE Moves(t)
      BY <1>1, <3>2, MovesKnow, MovesPlaces
    <3> QED BY <2>1, <3>1, <3>2
  <2>5. \A u \in Threads : Knows(u)'
    BY <2>3, <2>4
  <2> QED BY <1>1, <2>4, <2>5 DEF QueueInv, Knows
<1> QED BY <1>2, <1>3

LEMMA PlacedGivesNothingTwice == Placed => NothingTwice
PROOF
<1> SUFFICES ASSUME Placed PROVE NothingTwice
  OBVIOUS
<1>1. \A k, x : \A t \in Threads : At(k, t, x) => x \notin delivered
  BY DEF Placed
<1>2. \A k, l, x : \A t, u \in Threads : At(k, t, x) /\ At(l, u, x) => k = l /\ t = u
  BY DEF Placed
<1>3. ASSUME NEW t \in Threads, NEW x
      PROVE  /\ x \in heap[t] <=> At("heap", t, x)
             /\ x \in Live(t) <=> At("live", t, x)
             /\ x \in Filling(t) <=> At("filling", t, x)
             /\ x \in Left(t) <=> At("left", t, x)
             /\ x \in InHand(t) <=> At("hand", t, x)
  BY DEF At
<1>4. ASSUME NEW t \in Threads, NEW x \in Owned(t) \cup InHand(t)
      PROVE  \E k : At(k, t, x)
  BY <1>3 DEF Owned
<1>5. ASSUME NEW t \in Threads
      PROVE  /\ heap[t] \cap Live(t) = {} /\ heap[t] \cap Filling(t) = {}
             /\ heap[t] \cap Left(t) = {} /\ heap[t] \cap InHand(t) = {}
             /\ Live(t) \cap Filling(t) = {} /\ Live(t) \cap Left(t) = {}
             /\ Live(t) \cap InHand(t) = {} /\ Filling(t) \cap Left(t) = {}
             /\ Filling(t) \cap InHand(t) = {} /\ Left(t) \cap InHand(t) = {}
  BY <1>2, <1>3
<1>6. ASSUME NEW t \in Threads
      PROVE  LET places == <<heap[t], Live(t), Filling(t), Left(t), InHand(t)>>
             IN  \A p, q \in 1..5 : p < q => places[p] \cap places[q] = {}
  BY <1>5
<1>7. ASSUME NEW t \in Threads PROVE (Owned(t) \cup InHand(t)) \cap delivered = {}
  BY <1>1, <1>4
<1>8. ASSUME NEW t \in Threads, NEW u \in Threads, t # u
      PROVE  (Owned(t) \cup InHand(t)) \cap (Owned(u) \cup InHand(u)) = {}
  BY <1>2, <1>4, <1>8
<1>9. \A t \in Threads : \A i, j \in DOMAIN stealBuffers[t] :
         i # j => stealBuffers[t][i] # stealBuffers[t][j]
  BY DEF Placed
<1> QED BY <1>6, <1>7, <1>8, <1>9 DEF NothingTwice

-----------------------------------------------------------------------------
(* Every element is in one place, in one thread's keeping, and a call that *)
(* is about to answer knows what it answers.                               *)
THEOREM QueueInvariant == Spec => []QueueInv
PROOF BY QueueInit, QueueStep, PTL DEF Spec

(* No element is in two places of the queue or returned twice, for any     *)
(* number of threads and tasks and any size of a batch: a successful       *)
(* compare-and-swap in trySteal moves a whole batch, and an unsuccessful   *)
(* one moves nothing.  It holds whether or not the swap fails spuriously.  *)
THEOREM NothingIsTwice == Spec => []NothingTwice
PROOF
<1>1. QueueInv => NothingTwice
  BY PlacedGivesNothingTwice DEF QueueInv
<1> QED BY <1>1, QueueInvariant, PTL

LEMMA BestLastStep == QueueInv /\ BatchBestLast /\ [Next]_vars => BatchBestLast'
PROOF
<1> DEFINE Sorted(s) == \A i, j \in DOMAIN s : i < j => ~Worse(s[j], s[i])
<1> SUFFICES ASSUME QueueInv, BatchBestLast, [Next]_vars, NEW t \in Threads
             PROVE  Sorted(stealBuffers'[t])
  BY DEF BatchBestLast, Worse
<1>1. /\ BufferInv /\ \A u \in Threads : Knows(u)
      /\ stealBuffers \in [Threads -> Seq(Tasks \cup {Torn})]
  BY DEF QueueInv, Knows, BufferInv, TypeOK
<1>2. Sorted(stealBuffers[t])
  BY DEF BatchBestLast
<1>3. CASE stealBuffers'[t] = stealBuffers[t]
  BY <1>2, <1>3
<1>4. CASE stealBuffers'[t] # stealBuffers[t]
  <2>1. Moves(t)
    <3>1. PICK u \in Threads : Silent(u) \/ Moves(u)
      BY <1>4, NextCases DEF Next, vars
    <3>2. ~Silent(u)
      BY <1>4, SilentShared DEF shared
    <3>3. u = t
      BY <1>1, <1>4, <3>1, <3>2, MovesTouch
    <3> QED BY <3>1, <3>2, <3>3
  <2>2. PopBuffered(t) \/ StealRemotely(t)
    BY <1>4, <2>1 DEF Moves, Push, Return, FillBuffer, FillWritten, FillPublish, PopLocally,
                      StealLocally, shared
  <2>3. CASE PopBuffered(t)
    <3> DEFINE s == stealBuffers[t]
               n == Len(s)
    <3>1. s \in Seq(Tasks \cup {Torn}) /\ n \in Nat \ {0} /\ DOMAIN s = 1..n
      BY <1>1, <2>3, EmptySeq DEF PopBuffered
    <3>2. stealBuffers'[t] = SubSeq(s, 1, n - 1)
      BY <1>1, <2>3 DEF PopBuffered
    <3>3. \A i \in 1..(n - 1) : s[i] \in Tasks \cup {Torn}
      BY <3>1, ElementOfSeq
    <3>4. n - 1 \in Int /\ Len(SubSeq(s, 1, n - 1)) = n - 1
      BY <3>1, <3>3, SubSeqProperties
    <3>5. /\ DOMAIN stealBuffers'[t] = 1..(n - 1)
          /\ \A i \in 1..(n - 1) : stealBuffers'[t][i] = s[i]
      BY <3>1, <3>2, <3>3, <3>4, SubSeqProperties
    <3>6. \A i \in 1..(n - 1) : i \in DOMAIN s
      BY <3>1
    <3> HIDE DEF s, n
    <3>7. Sorted(s)
      BY <1>2 DEF s
    <3> QED BY <3>5, <3>6, <3>7
  <2>4. CASE StealRemotely(t)
    <3> PICK v \in Threads : v = frame[t].victim
      BY <1>1, FrameTypes DEF BufferInv, TypeOK
    <3> DEFINE s == RestInOrder(cells[v])
    <3>1. /\ CasSucceeds(t)
          /\ stealBuffers'[t] = Reversed(stealBuffers[t] \o RestInOrder(frame[t].elements))
      BY <1>1, <2>4 DEF StealRemotely
    <3>2. Proper(cells[v]) /\ frame[t].elements = cells[v] /\ stealBuffers[t] = <<>>
      BY <1>1, <3>1, StolenBatch
    <3>3. s \in Seq(Tasks) /\ \A i, j \in DOMAIN s : i < j => ~Worse(s[i], s[j])
      BY <3>2, RestFacts
    <3>4. stealBuffers'[t] = Reversed(s)
      BY <3>1, <3>2, <3>3, ConcatEmptySeq
    <3> HIDE DEF s
    <3> QED BY <3>3, <3>4, ReversedOrder
  <2> QED BY <2>2, <2>3, <2>4
<1> QED BY <1>3, <1>4

(* What is left of a stolen batch is kept worst first, so the pops that    *)
(* follow a steal take the best of it at each time: fillBuffer pops best   *)
(* first and trySteal reverses.                                            *)
THEOREM BatchesAreBestLast == Spec => []BatchBestLast
PROOF
<1>1. Init => BatchBestLast
  <2> SUFFICES ASSUME Init, NEW t \in Threads PROVE DOMAIN stealBuffers[t] = {}
    BY DEF BatchBestLast
  <2>1. DOMAIN stealBuffers[t] = 1..0
    BY DEF Init
  <2> QED BY <2>1
<1> QED BY <1>1, BestLastStep, QueueInvariant, PTL DEF Spec

(* A pop that answers that there is nothing leaves no element in the own   *)
(* heap, the own steal buffer or the stolen batch, as long as              *)
(* compare_exchange_weak fails only on a changed version.                  *)
THEOREM EmptyPopsOwnNothing == ASSUME ~SpuriousCas PROVE Spec => []EmptyPopOwnsNothing
PROOF
<1>1. QueueInv => EmptyPopOwnsNothing
  <2> SUFFICES ASSUME QueueInv, NEW t \in Threads, pc[t] = "return", frame[t].op = "pop",
                      frame[t].ret = Dummy
               PROVE  Owned(t) = {}
    BY DEF EmptyPopOwnsNothing
  <2>1. heap[t] = {} /\ ~Stealable(t) /\ stealBuffers[t] = <<>> /\ ~Writing(t)
    BY DEF QueueInv, EmptyInv, SeenEmpty
  <2>2. DOMAIN stealBuffers[t] = 1..0
    BY <2>1
  <2>3. Left(t) = {}
    BY <2>2 DEF Left
  <2> QED BY <2>1, <2>3 DEF Owned, Live, Filling, Writing
<1> QED BY <1>1, QueueInvariant, PTL

-----------------------------------------------------------------------------
(* The refinement.                                                         *)

\* What a client can tell of thread w does not change.
SameFor(w) == Owned(w)' = Owned(w) /\ Answer(w)' = Answer(w) /\ InHand(w)' = InHand(w)

LEMMA RefinedStutter ==
    ASSUME \A w \in Threads : SameFor(w), pushed' = pushed, delivered' = delivered
    PROVE  UNCHANGED Abstract!vars
PROOF
<1>1. [w \in Threads |-> Owned(w)'] = [w \in Threads |-> Owned(w)]
  BY DEF SameFor
<1>2. [w \in Threads |-> Answer(w)'] = [w \in Threads |-> Answer(w)]
  BY DEF SameFor
<1>3. [w \in Threads |-> InHand(w)'] = [w \in Threads |-> InHand(w)]
  BY DEF SameFor
<1> QED BY <1>1, <1>2, <1>3 DEF Abstract!vars

LEMMA RefinedPush ==
    ASSUME NEW t \in Threads, \A w \in Threads \ {t} : SameFor(w),
           NEW range \in SUBSET (Tasks \ pushed), range # {},
           Answer(t) = "none", Answer(t)' = "none", InHand(t)' = InHand(t),
           Owned(t)' = Owned(t) \cup range, pushed' = pushed \cup range,
           delivered' = delivered
    PROVE  Abstract!Next
PROOF
<1>1. [w \in Threads |-> Owned(w)']
        = [[w \in Threads |-> Owned(w)] EXCEPT ![t] = @ \cup range]
  BY DEF SameFor
<1>2. [w \in Threads |-> Answer(w)'] = [w \in Threads |-> Answer(w)]
  BY DEF SameFor
<1>3. [w \in Threads |-> InHand(w)'] = [w \in Threads |-> InHand(w)]
  BY DEF SameFor
<1>4. Abstract!PushRange(t, range) /\ range \in (SUBSET (Tasks \ pushed)) \ {{}}
  BY <1>1 DEF Abstract!PushRange
<1>5. Abstract!Push(t)
  <2>1. [w \in Threads |-> Answer(w)][t] = "none"
    OBVIOUS
  <2> QED BY <1>2, <1>3, <1>4, <2>1 DEF Abstract!Push
<1> QED BY <1>5 DEF Abstract!Next

LEMMA RefinedPopOwn ==
    ASSUME NEW t \in Threads, \A w \in Threads \ {t} : SameFor(w),
           NEW x \in Owned(t), Owned(t)' = Owned(t) \ {x},
           Answer(t) = "none", Answer(t)' = "element", InHand(t)' = {x},
           pushed' = pushed, delivered' = delivered
    PROVE  Abstract!Next
PROOF
<1>1. [w \in Threads |-> Owned(w)']
        = [[w \in Threads |-> Owned(w)] EXCEPT ![t] = @ \ {x}]
  BY DEF SameFor
<1>2. [w \in Threads |-> Answer(w)']
        = [[w \in Threads |-> Answer(w)] EXCEPT ![t] = "element"]
  BY DEF SameFor
<1>3. [w \in Threads |-> InHand(w)']
        = [[w \in Threads |-> InHand(w)] EXCEPT ![t] = {x}]
  BY DEF SameFor
<1>4. Abstract!TakeOwn(t, x) /\ Abstract!Found(t, x)
  BY <1>1, <1>2, <1>3 DEF Abstract!TakeOwn, Abstract!Found
<1>5. Abstract!PopOwn(t)
  BY <1>4 DEF Abstract!PopOwn
<1> QED BY <1>5 DEF Abstract!Next

\* OwnedWorkList counts like this module.
LEMMA SameCardinality == ASSUME NEW S PROVE Abstract!Cardinality(S) = Cardinality(S)
PROOF BY DEF Abstract!Cardinality, Cardinality

LEMMA RefinedPopStolen ==
    ASSUME NEW t \in Threads, NEW u \in Threads \ {t},
           \A w \in Threads \ {t, u} : SameFor(w),
           Answer(u)' = Answer(u), InHand(u)' = InHand(u),
           NEW batch \in SUBSET Owned(u), NEW x \in batch,
           Cardinality(batch) <= StealBatchSize,
           Owned(u)' = Owned(u) \ batch, Owned(t)' = Owned(t) \cup (batch \ {x}),
           Answer(t) = "none", Answer(t)' = "element", InHand(t)' = {x},
           pushed' = pushed, delivered' = delivered
    PROVE  Abstract!Next
PROOF
<1>1. [w \in Threads |-> Owned(w)']
        = [[w \in Threads |-> Owned(w)] EXCEPT ![u] = @ \ batch,
                                               ![t] = @ \cup (batch \ {x})]
  BY DEF SameFor
<1>2. [w \in Threads |-> Answer(w)']
        = [[w \in Threads |-> Answer(w)] EXCEPT ![t] = "element"]
  BY DEF SameFor
<1>3. [w \in Threads |-> InHand(w)']
        = [[w \in Threads |-> InHand(w)] EXCEPT ![t] = {x}]
  BY DEF SameFor
<1>4. Abstract!TakeFrom(t, u, batch, x) /\ Abstract!Found(t, x)
  BY <1>1, <1>2, <1>3 DEF Abstract!TakeFrom, Abstract!Found
<1>5. Abstract!PopStolen(t)
  <2>1. batch \in SUBSET ([w \in Threads |-> Owned(w)][u])
    OBVIOUS
  <2>2. \E w \in Threads : \E b \in SUBSET ([y \in Threads |-> Owned(y)][w]) : \E y \in b :
           /\ Abstract!Cardinality(b) <= StealBatchSize
           /\ Abstract!TakeFrom(t, w, b, y)
           /\ Abstract!Found(t, y)
    BY <1>4, <2>1, SameCardinality
  <2> QED BY <2>2 DEF Abstract!PopStolen
<1> QED BY <1>5 DEF Abstract!Next

LEMMA RefinedPopNothing ==
    ASSUME NEW t \in Threads, \A w \in Threads \ {t} : SameFor(w),
           Owned(t) = {}, Owned(t)' = {}, Answer(t) = "none", Answer(t)' = "nothing",
           InHand(t)' = InHand(t), pushed' = pushed, delivered' = delivered
    PROVE  Abstract!Next
PROOF
<1>1. [w \in Threads |-> Owned(w)'] = [w \in Threads |-> Owned(w)]
  BY DEF SameFor
<1>2. [w \in Threads |-> Answer(w)']
        = [[w \in Threads |-> Answer(w)] EXCEPT ![t] = "nothing"]
  BY DEF SameFor
<1>3. [w \in Threads |-> InHand(w)'] = [w \in Threads |-> InHand(w)]
  BY DEF SameFor
<1>4. Abstract!PopNothing(t)
  BY <1>1, <1>2, <1>3 DEF Abstract!PopNothing, Abstract!TakeNothing
<1> QED BY <1>4 DEF Abstract!Next

LEMMA RefinedReturn ==
    ASSUME NEW t \in Threads, \A w \in Threads \ {t} : SameFor(w),
           Owned(t)' = Owned(t), Answer(t) # "none", Answer(t)' = "none", InHand(t)' = {},
           pushed' = pushed, delivered' = delivered \cup InHand(t)
    PROVE  Abstract!Next
PROOF
<1>1. [w \in Threads |-> Owned(w)'] = [w \in Threads |-> Owned(w)]
  BY DEF SameFor
<1>2. [w \in Threads |-> Answer(w)']
        = [[w \in Threads |-> Answer(w)] EXCEPT ![t] = "none"]
  BY DEF SameFor
<1>3. [w \in Threads |-> InHand(w)']
        = [[w \in Threads |-> InHand(w)] EXCEPT ![t] = {}]
  BY DEF SameFor
<1>4. Abstract!Return(t)
  BY <1>1, <1>2, <1>3 DEF Abstract!Return
<1> QED BY <1>4 DEF Abstract!Next

\* A step of t leaves the other threads alone, but a steal empties a buffer.
LEMMA OthersSame ==
    ASSUME BufferInv, NEW t \in Threads, TouchesOnly(t), NEW w \in Threads \ {t},
           stealBuffers'[w] = stealBuffers[w]
    PROVE  /\ Answer(w)' = Answer(w) /\ InHand(w)' = InHand(w)
           /\ version'[w] = version[w] => Owned(w)' = Owned(w)
           /\ Owned(w)' = heap[w] \cup Live(w)' \cup Filling(w) \cup Left(w)
PROOF
<1>1. /\ pc'[w] = pc[w] /\ frame'[w] = frame[w] /\ heap'[w] = heap[w] /\ cells'[w] = cells[w]
  BY DEF TouchesOnly, WritesOwn
<1>2. Answer(w)' = Answer(w) /\ InHand(w)' = InHand(w)
  BY <1>1 DEF Answer, InHand
<1>3. Filling(w)' = Filling(w) /\ Left(w)' = Left(w)
  BY <1>1 DEF Filling, Items, Left
<1>4. version'[w] = version[w] => Live(w)' = Live(w)
  BY <1>1 DEF Live, Stealable, Items
<1>5. Owned(w)' = heap[w] \cup Live(w)' \cup Filling(w) \cup Left(w)
  BY <1>1, <1>3 DEF Owned
<1>6. Owned(w) = heap[w] \cup Live(w) \cup Filling(w) \cup Left(w)
  BY DEF Owned
<1> QED BY <1>2, <1>4, <1>5, <1>6

\* A step that moves nothing is no step of OwnedWorkList, or a pop has found
\* nothing.
LEMMA SilentRefines ==
    ASSUME ~SpuriousCas, QueueInv, TypeOK', NEW t \in Threads, Silent(t)
    PROVE  Abstract!Next \/ UNCHANGED Abstract!vars
PROOF
<1> DEFINE f == frame[t]
           g == frame'[t]
<1>0. /\ BufferInv /\ Placed /\ Knows(t) /\ pc \in [Threads -> Labels]
      /\ frame \in [Threads -> Frame] /\ f \in Frame
  BY DEF QueueInv, Knows, BufferInv, TypeOK
<1>1. /\ heap' = heap /\ cells' = cells /\ version' = version /\ stealBuffers' = stealBuffers
      /\ pushed' = pushed /\ delivered' = delivered
  BY SilentShared DEF shared, history
<1>2. Knows(t)' /\ ~Writing(t)' /\ g.ret = f.ret
  BY <1>0, SilentKnows
<1>3. ~Writing(t) /\ pc[t] # "return"
  BY DEF Silent, PopStealing, PopLocal, FillBufferIfStolen, FillNothing, GetBufferMin,
         ReadMin, VersionAgain, ExtractMin, ChooseLocal, TrySteal, CopyCell, CasFails,
         GetMinWriter, MinWriterAgain, PickVictim, ChooseSteal, Writing
<1>4. TouchesOnly(t)
  BY <1>0, QuietTouches DEF Silent, Quiet, BufferInv
<1>5. \A w \in Threads \ {t} : SameFor(w)
  BY <1>0, <1>1, <1>4, OthersSame DEF SameFor
<1>6. Owned(t)' = Owned(t) /\ InHand(t)' = InHand(t)
  <2>1. Live(t)' = Live(t) /\ Filling(t)' = {} /\ Filling(t) = {} /\ Left(t)' = Left(t)
    BY <1>1, <1>2, <1>3 DEF Live, Stealable, Items, Filling, Writing, Left
  <2>2. InHand(t)' = InHand(t)
    BY <1>2 DEF InHand
  <2> QED BY <1>1, <2>1, <2>2 DEF Owned
<1>7. (f.op = "none" /\ f.ret = Dummy) \/ g.op = f.op
  <2>1. CASE pc[t] = "idle"
    <3>1. IdleFrame(t).ret = Dummy /\ IdleFrame(t).op = "none"
      BY DEF IdleFrame
    <3> QED BY <1>0, <2>1, <3>1 DEF Knows, CallInv
  <2>2. CASE pc[t] # "idle"
    BY <1>0, <2>2, SilentKnows
  <2> QED BY <2>1, <2>2
<1>8. CASE Answer(t)' = Answer(t)
  <2>1. \A w \in Threads : SameFor(w)
    BY <1>5, <1>6, <1>8 DEF SameFor
  <2> QED BY <1>1, <2>1, RefinedStutter
<1>9. CASE Answer(t)' # Answer(t)
  <2>1. f.ret = Dummy
    BY <1>2, <1>3, <1>7, <1>9 DEF Answer
  <2>2. Answer(t) = "none"
    BY <1>3, <2>1 DEF Answer
  <2>3. Answer(t)' = "nothing" /\ pc'[t] = "return" /\ g.op = "pop" /\ g.ret = Dummy
    BY <1>2, <1>9, <2>1, <2>2 DEF Answer
  <2>4. heap'[t] = {} /\ ~Stealable(t)' /\ stealBuffers'[t] = <<>>
    BY <1>2, <2>3 DEF Knows, EmptyInv, SeenEmpty
  <2>5. Owned(t)' = {}
    <3>1. DOMAIN stealBuffers'[t] = 1..0
      BY <2>4
    <3>2. Left(t)' = {}
      BY <3>1 DEF Left
    <3>3. Live(t)' = {} /\ Filling(t)' = {}
      BY <1>2, <2>4 DEF Live, Filling, Writing
    <3> QED BY <2>4, <3>2, <3>3 DEF Owned
  <2> QED BY <1>1, <1>5, <1>6, <2>2, <2>3, <2>5, RefinedPopNothing
<1> QED BY <1>8, <1>9

LEMMA EvenThenOdd == ASSUME NEW n \in Nat, n % 2 # 1 PROVE (n + 1) % 2 = 1
PROOF OBVIOUS

LEMMA MovesRefine ==
    ASSUME QueueInv, NEW t \in Threads, Moves(t)
    PROVE  Abstract!Next \/ UNCHANGED Abstract!vars
PROOF
<1> DEFINE f == frame[t]
           g == frame'[t]
<1>0. /\ BufferInv /\ Placed /\ Knows(t) /\ CallInv(t) /\ \A u \in Threads : Knows(u)
      /\ pc \in [Threads -> Labels] /\ frame \in [Threads -> Frame]
      /\ version \in [Threads -> Nat] /\ f \in Frame /\ version[t] \in Nat
      /\ f.next \in {"return", "pick"} /\ f.victim \in Threads
      /\ cells \in [Threads -> Array] /\ heap \in [Threads -> SUBSET Tasks]
      /\ stealBuffers \in [Threads -> Seq(Tasks \cup {Torn})]
  BY FrameTypes DEF QueueInv, Knows, BufferInv, TypeOK
<1>1. TouchesOnly(t) /\ \A u \in Threads \ {t} : stealBuffers'[u] = stealBuffers[u]
  BY <1>0, MovesTouch
<1>2. Dummy \notin Tasks
  BY MarksAssumption
<1>3. \A k, l, x : At(k, t, x) /\ At(l, t, x) => k = l
  BY <1>0 DEF Placed
<1>4. ASSUME \A w \in Threads \ {t} : version'[w] = version[w]
      PROVE  \A w \in Threads \ {t} : SameFor(w)
  BY <1>0, <1>1, <1>4, OthersSame DEF SameFor
<1> USE DEF Goto, shared, history
<1>5. CASE Push(t)
  <2>1. PICK range \in (SUBSET (Tasks \ pushed)) \ {{}} :
          heap' = [heap EXCEPT ![t] = @ \cup range] /\ pushed' = pushed \cup range
    BY <1>5 DEF Push
  <2>2. /\ pc[t] = "idle" /\ pc'[t] = "fillIfStolen" /\ delivered' = delivered
        /\ UNCHANGED <<cells, version, stealBuffers>>
        /\ frame' = [frame EXCEPT ![t] = [f EXCEPT !.op = "push"]]
    BY <1>0, <1>5 DEF Push
  <2>3. g.ret = f.ret /\ g.op = "push"
    BY <1>0, <2>2 DEF Frame
  <2>4. f.op = "none"
    BY <1>0, <2>2 DEF CallInv, IdleFrame
  <2>5. /\ heap'[t] = heap[t] \cup range /\ Live(t)' = Live(t) /\ Filling(t)' = {}
        /\ Filling(t) = {} /\ Left(t)' = Left(t) /\ InHand(t)' = InHand(t)
    BY <1>0, <2>1, <2>2, <2>3 DEF Live, Stealable, Items, Filling, Left, InHand
  <2>6. Owned(t)' = Owned(t) \cup range
    BY <2>5 DEF Owned
  <2>7. Answer(t) = "none" /\ Answer(t)' = "none"
    BY <2>3, <2>4 DEF Answer
  <2>8. \A w \in Threads \ {t} : SameFor(w)
    BY <1>4, <2>2
  <2> QED BY <2>1, <2>2, <2>5, <2>6, <2>7, <2>8, RefinedPush
<1>6. CASE Return(t)
  <2>1. /\ pc[t] = "return" /\ pc'[t] = "idle" /\ g = IdleFrame(t) /\ pushed' = pushed
        /\ UNCHANGED <<heap, cells, version, stealBuffers>>
        /\ delivered' = delivered \cup InHand(t)
    BY <1>0, <1>6 DEF Return, InHand
  <2>2. g.op = "none" /\ g.ret = Dummy
    <3>1. IdleFrame(t).op = "none" /\ IdleFrame(t).ret = Dummy
      BY DEF IdleFrame
    <3> QED BY <2>1, <3>1
  <2>3. /\ Live(t)' = Live(t) /\ Filling(t)' = {} /\ Filling(t) = {} /\ Left(t)' = Left(t)
        /\ InHand(t)' = {}
    BY <2>1, <2>2 DEF Live, Stealable, Items, Filling, Left, InHand
  <2>4. Owned(t)' = Owned(t)
    BY <2>1, <2>3 DEF Owned
  <2>5. \A w \in Threads \ {t} : SameFor(w)
    BY <1>4, <2>1
  <2>6. Answer(t)' = "none"
    BY <2>2 DEF Answer
  <2>7. CASE f.op = "pop"
    <3>1. Answer(t) # "none"
      BY <2>1, <2>7 DEF Answer
    <3> QED BY <2>1, <2>3, <2>4, <2>5, <2>6, <3>1, RefinedReturn
  <2>8. CASE f.op # "pop"
    <3>1. f.ret = Dummy
      BY <1>0, <2>1, <2>8 DEF CallInv
    <3>2. Answer(t) = "none" /\ InHand(t) = {}
      BY <2>8, <3>1 DEF Answer, InHand
    <3>3. \A w \in Threads : SameFor(w)
      BY <2>3, <2>4, <2>5, <2>6, <3>2 DEF SameFor
    <3> QED BY <2>1, <3>2, <3>3, RefinedStutter
  <2> QED BY <2>7, <2>8
<1>7. CASE PopBuffered(t)
  <2> DEFINE s == stealBuffers[t]
             n == Len(s)
             x == s[n]
  <2>1. /\ pc[t] = "idle" /\ pc'[t] = "fillIfStolen" /\ UNCHANGED <<heap, cells, version>>
        /\ frame' = [frame EXCEPT ![t] = [f EXCEPT !.op = "pop", !.ret = x]]
        /\ stealBuffers'[t] = SubSeq(s, 1, n - 1) /\ UNCHANGED history
    BY <1>0, <1>7 DEF PopBuffered
  <2>2. g.ret = x /\ g.op = "pop"
    BY <1>0, <2>1 DEF Frame
  <2>3. f.op = "none"
    BY <1>0, <2>1 DEF CallInv, IdleFrame
  <2>4. s \in Seq(Tasks \cup {Torn}) /\ n \in Nat \ {0} /\ DOMAIN s = 1..n
    BY <1>0, <1>7, EmptySeq DEF PopBuffered
  <2>5. DOMAIN stealBuffers'[t] = 1..(n - 1) /\ \A i \in 1..(n - 1) : stealBuffers'[t][i] = s[i]
    <3>1. \A i \in 1..(n - 1) : s[i] \in Tasks \cup {Torn}
      BY <2>4, ElementOfSeq
    <3>2. n - 1 \in Int /\ Len(SubSeq(s, 1, n - 1)) = n - 1
      BY <2>4, <3>1, SubSeqProperties
    <3> QED BY <2>1, <2>4, <3>1, <3>2, SubSeqProperties
  <2>6. x # Dummy
    BY <2>4, ElementOfSeq, MarksAssumption
  <2>7. x \in Left(t) /\ Left(t)' = Left(t) \ {x}
    <3>1. x \in Left(t) /\ Left(t)' \subseteq Left(t)
      BY <2>4, <2>5 DEF Left
    <3>2. ASSUME NEW i \in 1..(n - 1) PROVE s[i] # x
      <4>1. \A j, k \in DOMAIN s : s[j] = s[k] => j = k
        BY <1>0 DEF Placed
      <4> QED BY <2>4, <4>1
    <3>3. ASSUME NEW y \in Left(t), y # x PROVE y \in Left(t)'
      <4>1. PICK i \in 1..n : s[i] = y
        BY <2>4, <3>3 DEF Left
      <4>2. i \in 1..(n - 1)
        BY <2>4, <3>3, <4>1
      <4> QED BY <2>5, <4>1, <4>2 DEF Left
    <3> QED BY <2>5, <3>1, <3>2, <3>3 DEF Left
  <2> HIDE DEF s, n, x
  <2>8. Live(t)' = Live(t) /\ Filling(t)' = {} /\ Filling(t) = {} /\ InHand(t)' = {x}
    BY <2>1, <2>2, <2>6 DEF Live, Stealable, Items, Filling, InHand
  <2>9. x \notin heap[t] /\ x \notin Live(t)
    BY <1>3, <2>7 DEF At
  <2>10. x \in Owned(t) /\ Owned(t)' = Owned(t) \ {x}
    BY <2>1, <2>7, <2>8, <2>9 DEF Owned
  <2>11. Answer(t) = "none" /\ Answer(t)' = "element"
    BY <2>2, <2>3, <2>6 DEF Answer
  <2>12. \A w \in Threads \ {t} : SameFor(w)
    BY <1>4, <2>1
  <2> QED BY <2>1, <2>8, <2>10, <2>11, <2>12, RefinedPopOwn
\* A fill moves elements within what the thread owns.
<1>8. ASSUME Owned(t)' = Owned(t), InHand(t)' = InHand(t), Answer(t)' = Answer(t),
             \A w \in Threads \ {t} : version'[w] = version[w],
             pushed' = pushed, delivered' = delivered
      PROVE  UNCHANGED Abstract!vars
  <2>1. \A w \in Threads : SameFor(w)
    BY <1>4, <1>8 DEF SameFor
  <2> QED BY <1>8, <2>1, RefinedStutter
<1>9. CASE FillBuffer(t)
  <2>1. PICK batch \in Batches(heap[t]) :
          /\ heap' = [heap EXCEPT ![t] = @ \ Items(batch)]
          /\ frame' = [frame EXCEPT ![t] = [f EXCEPT !.elements = batch]]
    BY <1>9 DEF FillBuffer
  <2>2. /\ pc[t] = "fill" /\ pc'[t] = "write" /\ version' = version /\ heap[t] # {}
        /\ stealBuffers' = stealBuffers /\ UNCHANGED history
    BY <1>0, <1>9 DEF FillBuffer
  <2>3. g.ret = f.ret /\ g.op = f.op /\ g.elements = batch
    BY <1>0, <2>1 DEF Frame
  <2>4. ~Stealable(t) /\ ~Stealable(t)' /\ Items(batch) \subseteq heap[t]
    BY <1>0, <2>2, BatchIsProper DEF BufferInv, ThreadInv, Fill, Stealable
  <2> DEFINE X == Items(batch)
  <2>5. /\ heap'[t] = heap[t] \ X /\ Live(t)' = {} /\ Live(t) = {} /\ Filling(t)' = X
        /\ Filling(t) = {} /\ Left(t)' = Left(t) /\ InHand(t)' = InHand(t)
    BY <1>0, <2>1, <2>2, <2>3, <2>4 DEF Live, Items, Filling, Left, InHand
  <2>6. X \subseteq heap[t]
    BY <2>4
  <2> HIDE DEF X
  <2>7. Owned(t)' = Owned(t)
    BY <2>5, <2>6 DEF Owned
  <2>8. Answer(t)' = Answer(t)
    BY <2>2, <2>3 DEF Answer
  <2> QED BY <1>8, <2>2, <2>5, <2>7, <2>8
<1>10. CASE FillWritten(t)
  <2>1. /\ pc[t] = "write" /\ pc'[t] = "publish" /\ heap' = heap /\ version' = version
        /\ stealBuffers' = stealBuffers /\ frame' = frame /\ UNCHANGED history
    BY <1>0, <1>10 DEF FillWritten
  <2>2. ~Stealable(t) /\ ~Stealable(t)'
    BY <1>0, <2>1 DEF BufferInv, ThreadInv, Fill, Stealable
  <2>3. /\ Live(t)' = {} /\ Live(t) = {} /\ Filling(t)' = Filling(t) /\ Left(t)' = Left(t)
        /\ InHand(t)' = InHand(t)
    BY <2>1, <2>2 DEF Live, Items, Filling, Left, InHand
  <2>4. Owned(t)' = Owned(t)
    BY <2>1, <2>3 DEF Owned
  <2>5. Answer(t)' = Answer(t)
    BY <2>1 DEF Answer
  <2> QED BY <1>8, <2>1, <2>3, <2>4, <2>5
<1>11. CASE FillPublish(t)
  <2>1. /\ pc[t] = "publish" /\ pc'[t] = f.next /\ cells' = cells /\ heap' = heap
        /\ stealBuffers' = stealBuffers /\ UNCHANGED history
        /\ version' = [version EXCEPT ![t] = @ + 1]
        /\ frame' = [frame EXCEPT ![t] = [f EXCEPT !.localMin = f.elements[1],
                                                   !.elements = DummyArray]]
    BY <1>0, <1>11 DEF FillPublish
  <2>2. g.ret = f.ret /\ g.op = f.op
    BY <1>0, <2>1 DEF Frame
  <2>3. cells[t] = f.elements /\ ~Stealable(t)
    BY <1>0, <2>1 DEF BufferInv, ThreadInv, Fill
  <2>4. Stealable(t)'
    <3>1. version'[t] = version[t] + 1 /\ version[t] % 2 # 1
      BY <1>0, <2>1, <2>3 DEF Stealable
    <3>2. (version[t] + 1) % 2 = 1
      BY <1>0, <3>1, EvenThenOdd
    <3> QED BY <3>1, <3>2 DEF Stealable
  <2>5. /\ Live(t)' = Filling(t) /\ Live(t) = {} /\ Filling(t)' = {} /\ Left(t)' = Left(t)
        /\ InHand(t)' = InHand(t)
    BY <1>0, <2>1, <2>2, <2>3, <2>4 DEF Live, Items, Filling, Left, InHand
  <2>6. Owned(t)' = Owned(t)
    BY <2>1, <2>5 DEF Owned
  <2>7. Answer(t)' = Answer(t)
    BY <1>0, <2>1, <2>2 DEF Answer, CallInv, FillLabels
  <2>8. \A w \in Threads \ {t} : version'[w] = version[w]
    BY <1>0, <2>1
  <2> QED BY <1>8, <2>1, <2>5, <2>6, <2>7, <2>8
<1>12. CASE PopLocally(t)
  <2>1. PICK x \in heap[t] :
          /\ pc[t] = "popLocally" /\ pc'[t] \in {"fill", "return"}
          /\ UNCHANGED <<cells, version, stealBuffers, pushed, delivered>>
          /\ heap' = [heap EXCEPT ![t] = @ \ {x}]
          /\ frame' = [frame EXCEPT ![t] = [f EXCEPT !.ret = x]]
    BY <1>0, <1>12 DEF PopLocally, Best
  <2>2. g.ret = x /\ g.op = f.op /\ x # Dummy
    BY <1>0, <1>2, <2>1 DEF Frame
  <2>3. heap'[t] = heap[t] \ {x}
    BY <1>0, <2>1
  <2>4. /\ Live(t)' = Live(t) /\ Filling(t)' = {} /\ Filling(t) = {} /\ Left(t)' = Left(t)
        /\ InHand(t)' = {x}
    BY <2>1, <2>2 DEF Live, Stealable, Items, Filling, Left, InHand
  <2>5. x \notin Live(t) /\ x \notin Left(t)
    BY <1>3, <2>1 DEF At
  <2>6. x \in Owned(t) /\ Owned(t)' = Owned(t) \ {x}
    BY <2>1, <2>3, <2>4, <2>5 DEF Owned
  <2>7. f.ret = Dummy /\ f.op = "pop"
    BY <1>0, <2>1 DEF CallInv, Searching, AtHeap, FillLabels
  <2>8. Answer(t) = "none" /\ Answer(t)' = "element"
    BY <2>1, <2>2, <2>7 DEF Answer
  <2>9. \A w \in Threads \ {t} : SameFor(w)
    BY <1>4, <2>1
  <2> QED BY <2>1, <2>4, <2>6, <2>8, <2>9, RefinedPopOwn
<1>13. ASSUME CasSucceeds(t), pc'[t] \in {"fill", "return"}, cells' = cells,
              NEW v \in Threads, v = f.victim
       PROVE  LET a == cells[v]
              IN  /\ Live(v)' = {} /\ Proper(a)
                  /\ \A w \in Threads \ {v} : version'[w] = version[w]
                  /\ Live(v) = {a[1]} \cup Rest(a) /\ a[1] \notin Rest(a)
                  /\ Live(v) = Items(a) /\ Cardinality(Live(v)) <= StealBatchSize
                  /\ f.elements = a /\ stealBuffers[t] = <<>>
                  /\ InHand(t)' = {a[1]} /\ Filling(t)' = {} /\ Filling(t) = {}
                  /\ Answer(t) = "none" /\ Answer(t)' = "element"
  <2> DEFINE a == cells[v]
  <2>1. /\ Stealable(v) /\ ~Stealable(v)'
        /\ \A w \in Threads \ {v} : version'[w] = version[w]
        /\ frame[t].elements = a /\ Proper(a) /\ Live(v) = Items(a)
        /\ stealBuffers[t] = <<>> /\ g.ret = a[1] /\ g.op = "pop"
        /\ f.op = "pop" /\ f.ret = Dummy
    BY <1>0, <1>13, StolenBatch
  <2>2. a[1] \in Tasks /\ Items(a) = {a[1]} \cup Rest(a) /\ a[1] \notin Rest(a)
    BY <2>1, ProperFacts
  <2>3. pc[t] = "cas"
    BY <1>13 DEF CasSucceeds
  <2>4. InHand(t)' = {a[1]} /\ Filling(t)' = {} /\ Filling(t) = {} /\ Live(v)' = {}
    BY <1>2, <1>13, <2>1, <2>2, <2>3 DEF InHand, Filling, Live
  <2>5. Answer(t) = "none" /\ Answer(t)' = "element"
    BY <1>2, <2>1, <2>2, <2>3 DEF Answer
  <2>6. Cardinality(Live(v)) <= StealBatchSize
    BY <2>1, BatchSize
  <2> QED BY <2>1, <2>2, <2>4, <2>5, <2>6
<1>14. CASE StealLocally(t)
  <2> DEFINE x == cells[t][1]
             Y == Rest(cells[t])
  <2>1. /\ CasSucceeds(t) /\ cells' = cells /\ pc'[t] \in {"fill", "return"} /\ f.victim = t
        /\ heap'[t] = heap[t] \cup Rest(f.elements) /\ stealBuffers' = stealBuffers
        /\ pushed' = pushed /\ delivered' = delivered
    BY <1>0, <1>14 DEF StealLocally, Owner
  <2>2. /\ Live(t)' = {} /\ Live(t) = {x} \cup Y /\ x \notin Y
        /\ \A w \in Threads \ {t} : version'[w] = version[w]
        /\ heap'[t] = heap[t] \cup Y
        /\ InHand(t)' = {x} /\ Filling(t)' = {} /\ Filling(t) = {}
        /\ Answer(t) = "none" /\ Answer(t)' = "element"
    BY <1>13, <2>1
  <2> HIDE DEF x, Y
  <2>3. Left(t)' = Left(t)
    BY <2>1 DEF Left
  <2>4. x \notin heap[t] /\ x \notin Left(t)
    BY <1>3, <2>2 DEF At
  <2>5. x \in Owned(t) /\ Owned(t)' = Owned(t) \ {x}
    BY <2>2, <2>3, <2>4 DEF Owned
  <2>6. \A w \in Threads \ {t} : SameFor(w)
    BY <1>4, <2>2
  <2> QED BY <2>1, <2>2, <2>5, <2>6, RefinedPopOwn
<1>15. CASE StealRemotely(t)
  <2> PICK v \in Threads : v = f.victim
    BY <1>0
  <2> DEFINE x == cells[v][1]
             Y == Rest(cells[v])
             s == RestInOrder(cells[v])
             batch == Live(v)
  <2>1. /\ CasSucceeds(t) /\ cells' = cells /\ pc'[t] \in {"fill", "return"} /\ v # t
        /\ stealBuffers'[t] = Reversed(stealBuffers[t] \o RestInOrder(f.elements))
        /\ heap' = heap /\ pushed' = pushed /\ delivered' = delivered
    BY <1>0, <1>15 DEF StealRemotely, Owner
  <2>2. /\ Live(v)' = {} /\ batch = {x} \cup Y /\ x \notin Y
        /\ Proper(cells[v]) /\ Cardinality(batch) <= StealBatchSize
        /\ \A w \in Threads \ {v} : version'[w] = version[w]
        /\ f.elements = cells[v] /\ stealBuffers[t] = <<>>
        /\ InHand(t)' = {x} /\ Filling(t)' = {} /\ Filling(t) = {}
        /\ Answer(t) = "none" /\ Answer(t)' = "element"
    BY <1>13, <2>1
  <2>3. /\ s \in Seq(Tasks) /\ {s[i] : i \in DOMAIN s} = Y
        /\ \A i, j \in DOMAIN s : s[i] = s[j] => i = j
    BY <2>2, RestFacts
  <2>4. stealBuffers[t] \o RestInOrder(f.elements) = s
    BY <2>2, <2>3, ConcatEmptySeq
  <2> HIDE DEF x, Y, s, batch
  <2>5. {stealBuffers'[t][i] : i \in DOMAIN stealBuffers'[t]} = Y
    <3>1. stealBuffers'[t] = Reversed(s)
      BY <2>1, <2>4
    <3>2. {Reversed(s)[i] : i \in DOMAIN Reversed(s)} = {s[i] : i \in DOMAIN s}
      BY <2>3, ReversedFacts
    <3> QED BY <2>3, <3>1, <3>2
  <2>6. Left(t)' = Y /\ Left(t) = {}
    <3>1. DOMAIN stealBuffers[t] = 1..0
      BY <2>2
    <3>2. Left(t) = {}
      BY <3>1 DEF Left
    <3> QED BY <2>5, <3>2 DEF Left
  <2>7. Live(t)' = Live(t)
    BY <2>1, <2>2 DEF Live, Stealable, Items
  <2>8. Owned(t)' = Owned(t) \cup (batch \ {x})
    BY <2>1, <2>2, <2>6, <2>7 DEF Owned
  <2>9. /\ Answer(v)' = Answer(v) /\ InHand(v)' = InHand(v)
        /\ Owned(v)' = heap[v] \cup Filling(v) \cup Left(v)
    BY <1>0, <1>1, <2>1, <2>2, OthersSame
  <2>10. \A k, l, y : At(k, v, y) /\ At(l, v, y) => k = l
    BY <1>0, <2>2 DEF Placed
  <2>11. batch \in SUBSET Owned(v) /\ Owned(v)' = Owned(v) \ batch
    <3>1. Owned(v) = heap[v] \cup batch \cup Filling(v) \cup Left(v)
      BY DEF Owned, batch
    <3>2. \A y \in batch : y \notin heap[v] /\ y \notin Filling(v) /\ y \notin Left(v)
      BY <2>10 DEF At, batch
    <3> QED BY <2>9, <3>1, <3>2
  <2>12. \A w \in Threads \ {t, v} : SameFor(w)
    BY <1>0, <1>1, <2>2, OthersSame DEF SameFor
  <2> QED BY <2>1, <2>2, <2>8, <2>9, <2>11, <2>12, RefinedPopStolen
<1> QED BY <1>5, <1>6, <1>7, <1>9, <1>10, <1>11, <1>12, <1>14, <1>15 DEF Moves

LEMMA InitRefines == Init => Abstract!Init
PROOF
<1> SUFFICES ASSUME Init PROVE Abstract!Init
  OBVIOUS
<1>1. ASSUME NEW t \in Threads PROVE Owned(t) = {} /\ Answer(t) = "none" /\ InHand(t) = {}
  <2>1. /\ pc[t] = "idle" /\ frame[t] = IdleFrame(t) /\ heap[t] = {} /\ ~Stealable(t)
        /\ stealBuffers[t] = <<>>
    BY DEF Init, Stealable
  <2>2. IdleFrame(t).op = "none" /\ IdleFrame(t).ret = Dummy
    BY DEF IdleFrame
  <2>3. DOMAIN stealBuffers[t] = 1..0
    BY <2>1
  <2>4. Left(t) = {}
    BY <2>3 DEF Left
  <2> QED BY <2>1, <2>2, <2>4 DEF Owned, Live, Filling, Answer, InHand
<1> QED BY <1>1 DEF Abstract!Init, Init

LEMMA StepRefines ==
    ASSUME ~SpuriousCas, QueueInv, [Next]_vars
    PROVE  [Abstract!Next]_Abstract!vars
PROOF
<1>1. TypeOK'
  BY TypeStep DEF QueueInv, BufferInv
<1>2. CASE UNCHANGED vars
  <2>1. ASSUME NEW w \in Threads PROVE SameFor(w)
    BY <1>2 DEF vars, SameFor, Owned, Answer, InHand, Live, Filling, Left, Items, Stealable
  <2> QED BY <1>2, <2>1, RefinedStutter DEF vars
<1>3. CASE Next
  <2>1. PICK t \in Threads : Silent(t) \/ Moves(t)
    BY <1>3, NextCases DEF Next
  <2> QED BY <1>1, <2>1, SilentRefines, MovesRefine
<1> QED BY <1>2, <1>3

(* The queue keeps the promise of OwnedWorkList: whatever owners, thieves  *)
(* and fills do between them, every pop takes effect in one step, on an    *)
(* element of its own or on a batch of at most StealBatchSize elements of  *)
(* one other thread, and answers nothing only if its thread owns nothing.  *)
(* It is what the termination detection assumes of a worklist.             *)
THEOREM QueueImplementsWorkList == ASSUME ~SpuriousCas PROVE Spec => ImplementsWorkList
PROOF
<1>1. Init => Abstract!Init
  BY InitRefines
<1>2. QueueInv /\ [Next]_vars => [Abstract!Next]_Abstract!vars
  BY StepRefines
<1> QED BY <1>1, <1>2, QueueInvariant, PTL DEF Spec, ImplementsWorkList, Abstract!Spec

-----------------------------------------------------------------------------
(* The order in which a thread takes its own elements.                     *)

\* A step of t does not disturb the decision of another thread u.
LEMMA OthersDecide ==
    ASSUME BufferInv, NEW t \in Threads, TouchesOnly(t), NEW u \in Threads \ {t}, MinimumInv(u)
    PROVE  MinimumInv(u)'
PROOF
<1>1. /\ pc'[u] = pc[u] /\ frame'[u] = frame[u] /\ heap'[u] = heap[u] /\ cells'[u] = cells[u]
      /\ version[u] \in Nat
  BY DEF TouchesOnly, WritesOwn, BufferInv, TypeOK
<1>2. version'[u] = version[u] \/ (version'[u] = version[u] + 1 /\ version[u] % 2 = 1)
  BY DEF TouchesOnly, VersionsGrow, Stealable
<1>3. Stealable(u)' => Stealable(u)
  BY <1>1, <1>2 DEF Stealable
<1> QED BY <1>1, <1>3 DEF MinimumInv, Owner, Best, Worse

LEMMA OwnDecision ==
    ASSUME ~SpuriousCas, QueueInv, NEW t \in Threads, Silent(t) \/ Moves(t), MinimumInv(t)
    PROVE  MinimumInv(t)'
PROOF
<1> DEFINE f == frame[t]
           g == frame'[t]
<1>0. /\ BufferInv /\ ThreadInv(t) /\ BatchInv(t) /\ CallInv(t) /\ EmptyInv(t)
      /\ pc \in [Threads -> Labels] /\ frame \in [Threads -> Frame]
      /\ version \in [Threads -> Nat] /\ heap \in [Threads -> SUBSET Tasks]
      /\ f \in Frame /\ f.victim \in Threads /\ f.v1 \in Nat /\ version[t] \in Nat
  BY FrameTypes DEF QueueInv, BufferInv, TypeOK
\* The buffer is not there any more.
<1>1. ASSUME ~Stealable(t)' PROVE MinimumInv(t)'
  BY <1>1 DEF MinimumInv
<1>2. ASSUME pc'[t] \notin {"chooseLocal", "popLocally", "trySteal", "copy", "cas"}
      PROVE  MinimumInv(t)'
  BY <1>2 DEF MinimumInv
<1> USE DEF Goto, shared, history
<1>3. CASE Moves(t)
  <2>1. pc'[t] \notin {"chooseLocal", "popLocally", "trySteal", "copy", "cas"}
    BY <1>0, <1>3, FrameTypes DEF Moves, Push, PopBuffered, Return, FillBuffer, FillWritten,
           FillPublish, PopLocally, StealLocally, StealRemotely
  <2> QED BY <1>2, <2>1
<1>4. CASE Silent(t)
  <2>0. heap' = heap /\ cells' = cells /\ version' = version
    BY <1>4, SilentShared
  <2>1. Stealable(t)' <=> Stealable(t)
    BY <2>0 DEF Stealable
  <2>2. CASE \/ PopStealing(t) \/ PopLocal(t) \/ FillBufferIfStolen(t) \/ FillNothing(t)
             \/ ReadMin(t) \/ GetMinWriter(t) \/ MinWriterAgain(t) \/ PickVictim(t)
    <3>1. pc'[t] \notin {"chooseLocal", "popLocally", "trySteal", "copy", "cas"}
      BY <1>0, <2>2, FrameTypes DEF PopStealing, PopLocal, FillBufferIfStolen, FillNothing,
             ReadMin, GetMinWriter, MinWriterAgain, PickVictim
    <3> QED BY <1>2, <3>1
  <2>3. CASE GetBufferMin(t)
    <3>1. pc'[t] = "chooseLocal" => ~Stealable(t)
      BY <1>0, <2>3 DEF GetBufferMin, GotBufferMin, Owner
    <3>2. pc'[t] \in {"readMin", "chooseLocal", "chooseSteal"}
      BY <1>0, <2>3 DEF GetBufferMin, GotBufferMin, Owner
    <3> QED BY <1>1, <1>2, <2>1, <3>1, <3>2
  <2>4. CASE VersionAgain(t)
    <3>1. pc[t] = "versionAgain" /\ pc'[t] = IF f.victim = t THEN "chooseLocal" ELSE "chooseSteal"
      BY <1>0, <2>4 DEF VersionAgain, GotBufferMin, Owner
    <3>2. CASE f.victim = t /\ version[t] = f.v1
      <4>1. frame' = [frame EXCEPT ![t] =
                        [f EXCEPT !.minVal = f.minVal, !.raced = FALSE, !.v1 = 0]]
        BY <2>4, <3>2 DEF VersionAgain, GotBufferMin
      <4>2. g.minVal = f.minVal
        BY <1>0, <4>1 DEF Frame
      <4>3. f.minVal = cells[t][1]
        BY <1>0, <3>1, <3>2 DEF ThreadInv, Copy
      <4> QED BY <2>0, <3>1, <3>2, <4>2, <4>3 DEF MinimumInv
    <3>3. CASE f.victim = t /\ version[t] # f.v1
      <4>1. f.v1 % 2 = 1 /\ f.v1 <= version[t] /\ version[t] <= f.v1 + 1
        BY <1>0, <3>1, <3>3 DEF ThreadInv, Snapshot, OwnSnapshot, Reading, Owner
      <4>2. ~Stealable(t)
        BY <1>0, <3>3, <4>1 DEF Stealable
      <4> QED BY <1>1, <2>1, <4>2
    <3>4. CASE f.victim # t
      BY <1>2, <3>1, <3>4
    <3> QED BY <3>2, <3>3, <3>4
  <2>5. CASE ExtractMin(t)
    <3>1. pc'[t] = (IF heap[t] = {} THEN "trySteal" ELSE "getBufferMin")
      BY <1>0, <2>5 DEF ExtractMin
    <3> QED BY <2>0, <3>1 DEF MinimumInv
  <2>6. CASE ChooseLocal(t)
    <3> DEFINE m == f.minVal
    <3>1. /\ pc[t] = "chooseLocal" /\ g = f
          /\ \/ pc'[t] = "trySteal" /\ \E x \in Best(heap[t]) : Worse(x, m)
             \/ pc'[t] = "popLocally" /\ (m = Dummy \/ \A x \in Best(heap[t]) : ~Worse(x, m))
      BY <1>0, <2>6 DEF ChooseLocal
    <3>2. CASE Stealable(t)
      <4>1. m = cells[t][1] /\ m \in Tasks
        BY <1>0, <3>1, <3>2 DEF MinimumInv, ThreadInv, Fill
      <4>2. ASSUME NEW x \in Best(heap[t]), Worse(x, m), NEW y \in heap[t] PROVE ~Worse(m, y)
        <5>1. x \in Tasks /\ y \in Tasks /\ ~Worse(x, y)
          BY <1>0, <4>2 DEF Best
        <5>2. Prio[x] \in Int /\ Prio[y] \in Int /\ Prio[m] \in Int
          BY <4>1, <5>1, PrioAssumption
        <5> QED BY <4>2, <5>1, <5>2 DEF Worse
      <4>3. pc'[t] = "trySteal" => \A y \in heap[t] : ~Worse(m, y)
        BY <3>1, <4>2
      <4>4. pc'[t] = "popLocally" => \A x \in Best(heap[t]) : ~Worse(x, m)
        BY <3>1, <4>1, MarksAssumption
      <4> QED BY <2>0, <3>1, <4>1, <4>3, <4>4 DEF MinimumInv, Best, Worse
    <3>3. CASE ~Stealable(t)
      BY <1>1, <2>1, <3>3
    <3> QED BY <3>2, <3>3
  <2>7. CASE TrySteal(t)
    <3>1. CASE Stealable(f.victim)
      <4>1. /\ pc[t] = "trySteal" /\ pc'[t] = "copy"
            /\ frame' = [frame EXCEPT ![t] = [f EXCEPT !.v1 = version[f.victim], !.k = 1]]
        BY <1>0, <2>7, <3>1 DEF TrySteal
      <4>2. g.victim = f.victim
        BY <1>0, <4>1 DEF Frame
      <4> QED BY <2>0, <2>1, <4>1, <4>2 DEF MinimumInv, Owner, Worse
    <3>2. CASE ~Stealable(f.victim)
      <4>1. pc'[t] = "popLocally" => f.victim = t
        BY <1>0, <2>7, <3>2 DEF TrySteal, NothingStolen, StealEnds, Owner
      <4>2. pc'[t] \in {"popLocally", "return", "getMinWriter", "extractMin"}
        BY <1>0, <2>7, <3>2 DEF TrySteal, NothingStolen, StealEnds, Owner
      <4> QED BY <1>1, <1>2, <2>1, <3>2, <4>1, <4>2
    <3> QED BY <3>1, <3>2
  <2>8. CASE CopyCell(t)
    <3>1. /\ pc[t] = "copy" /\ pc'[t] \in {"copy", "cas"}
          /\ frame' = [frame EXCEPT ![t] = [f EXCEPT !.elements = Copied(t), !.k = f.k + 1]]
      BY <1>0, <2>8 DEF CopyCell
    <3>2. g.victim = f.victim
      BY <1>0, <3>1 DEF Frame
    <3> QED BY <2>0, <2>1, <3>1, <3>2 DEF MinimumInv, Owner, Worse
  <2>9. CASE CasFails(t)
    <3>1. /\ pc[t] = "cas" /\ version[f.victim] # f.v1
          /\ pc'[t] = "popLocally" => f.victim = t
          /\ pc'[t] \in {"popLocally", "return", "getMinWriter", "pick", "extractMin"}
      BY <1>0, <2>9 DEF CasFails, NothingStolen, StealEnds, Owner
    <3>2. CASE f.victim = t
      <4>1. f.v1 % 2 = 1 /\ f.v1 <= version[t] /\ version[t] <= f.v1 + 1 /\ version[t] # f.v1
        BY <1>0, <3>1, <3>2 DEF ThreadInv, Snapshot, EmptyInv, Copying, Owner
      <4>2. ~Stealable(t)
        BY <1>0, <4>1 DEF Stealable
      <4> QED BY <1>1, <2>1, <4>2
    <3>3. CASE f.victim # t
      BY <1>2, <3>1, <3>3
    <3> QED BY <3>2, <3>3
  <2>10. CASE ChooseSteal(t)
    <3>1. pc[t] = "chooseSteal" /\ g = f /\ pc'[t] \in {"pick", "trySteal", "extractMin", "return"}
      BY <1>0, <2>10 DEF ChooseSteal, StealEnds
    <3>2. ~Owner(t)
      BY <1>0, <3>1 DEF CallInv
    <3> QED BY <3>1, <3>2 DEF MinimumInv, Owner
  <2> QED BY <1>4, <2>2, <2>3, <2>4, <2>5, <2>6, <2>7, <2>8, <2>9, <2>10 DEF Silent
<1> QED BY <1>3, <1>4

LEMMA DecisionStep ==
    ASSUME ~SpuriousCas, QueueInv, \A u \in Threads : MinimumInv(u), [Next]_vars
    PROVE  (\A u \in Threads : MinimumInv(u))'
PROOF
<1>1. CASE UNCHANGED vars
  BY <1>1 DEF vars, MinimumInv, Owner, Stealable, Best, Worse
<1>2. CASE Next
  <2>1. PICK t \in Threads : Silent(t) \/ Moves(t)
    BY <1>2, NextCases DEF Next
  <2>2. TouchesOnly(t)
    <3>1. Silent(t) => Quiet(t)
      BY DEF Silent, Quiet
    <3> QED BY <2>1, <3>1, QuietTouches, MovesTouch DEF QueueInv, BufferInv
  <2>3. \A u \in Threads \ {t} : MinimumInv(u)'
    BY <2>2, OthersDecide DEF QueueInv
  <2>4. MinimumInv(t)'
    BY <2>1, OwnDecision
  <2> QED BY <2>3, <2>4
<1> QED BY <1>1, <1>2

LEMMA BestIsTaken ==
    ASSUME QueueInv, \A u \in Threads : MinimumInv(u), NEW t \in Threads,
           PopLocally(t) \/ StealLocally(t), NEW y \in Owned(t)'
    PROVE  ~Worse(frame'[t].ret, y)
PROOF
<1> DEFINE f == frame[t]
           g == frame'[t]
<1>0. /\ BufferInv /\ BatchInv(t) /\ CallInv(t) /\ MinimumInv(t) /\ \A u \in Threads : Knows(u)
      /\ pc \in [Threads -> Labels] /\ frame \in [Threads -> Frame]
      /\ version \in [Threads -> Nat] /\ heap \in [Threads -> SUBSET Tasks] /\ f \in Frame
  BY DEF QueueInv, Knows, BufferInv, TypeOK
\* The first of a batch is its best.
<1>1. ASSUME NEW a, Proper(a), NEW x \in Items(a) PROVE ~Worse(a[1], x)
  <2>1. PICK i \in Slots : a[i] = x /\ x \in Tasks
    BY <1>1 DEF Items
  <2>2. a[1] \in Tasks /\ 1 \in Slots
    BY <1>1, ProperFacts
  <2>3. CASE i = 1
    BY <2>1, <2>2, <2>3, PrioAssumption DEF Worse
  <2>4. CASE i # 1
    <3>1. 1 < i /\ a[i] # Dummy
      BY <2>1, <2>4, BatchAssumption, MarksAssumption DEF Slots
    <3> QED BY <1>1, <2>1, <2>2, <3>1 DEF Proper
  <2> QED BY <2>3, <2>4
<1> USE DEF Goto, shared, history
<1>2. stealBuffers[t] = <<>>
  BY <1>0 DEF PopLocally, StealLocally, CasSucceeds, CallInv, Searching, AtHeap
<1>3. stealBuffers' = stealBuffers /\ cells' = cells
  BY DEF PopLocally, StealLocally
<1>4. Left(t)' = {}
  <2>1. DOMAIN stealBuffers'[t] = 1..0
    BY <1>2, <1>3
  <2> QED BY <2>1 DEF Left
<1>5. CASE PopLocally(t)
  <2>1. PICK x \in Best(heap[t]) :
          /\ pc[t] = "popLocally" /\ pc'[t] \in {"fill", "return"} /\ version' = version
          /\ heap' = [heap EXCEPT ![t] = @ \ {x}]
          /\ frame' = [frame EXCEPT ![t] = [f EXCEPT !.ret = x]]
    BY <1>0, <1>5 DEF PopLocally
  <2>2. g.ret = x /\ x \in heap[t] /\ heap'[t] \subseteq heap[t]
    BY <1>0, <2>1 DEF Frame, Best
  <2>3. Filling(t)' = {} /\ Live(t)' = Live(t)
    BY <1>3, <2>1 DEF Filling, Live, Stealable, Items
  <2>4. CASE y \in heap[t]
    BY <2>1, <2>2, <2>4 DEF Best
  <2>5. CASE y \in Live(t)
    <3>1. Stealable(t) /\ y \in Items(cells[t]) /\ Proper(cells[t])
      BY <1>0, <2>5 DEF Live, BatchInv
    <3>2. ~Worse(x, cells[t][1]) /\ ~Worse(cells[t][1], y)
      BY <1>0, <1>1, <2>1, <3>1 DEF MinimumInv
    <3>3. x \in Tasks /\ y \in Tasks /\ cells[t][1] \in Tasks
      BY <1>0, <2>2, <3>1, ProperFacts
    <3>4. Prio[x] \in Int /\ Prio[y] \in Int /\ Prio[cells[t][1]] \in Int
      BY <3>3, PrioAssumption
    <3> QED BY <2>2, <3>2, <3>4 DEF Worse
  <2> QED BY <1>4, <2>2, <2>3, <2>4, <2>5 DEF Owned
<1>6. CASE StealLocally(t)
  <2>1. /\ CasSucceeds(t) /\ pc[t] = "cas" /\ f.victim = t /\ pc'[t] \in {"fill", "return"}
        /\ heap'[t] = heap[t] \cup Rest(f.elements)
    BY <1>0, <1>6 DEF StealLocally, CasSucceeds, Owner
  <2>2. /\ Stealable(t) /\ ~Stealable(t)' /\ f.elements = cells[t] /\ Proper(cells[t])
        /\ g.ret = cells[t][1]
    BY <1>0, <2>1, StolenBatch
  <2>3. Filling(t)' = {} /\ Live(t)' = {}
    BY <2>1, <2>2 DEF Filling, Live
  <2>4. y \in heap[t] \/ y \in Items(cells[t])
    BY <1>4, <2>1, <2>2, <2>3 DEF Owned, Rest
  <2>5. y \in heap[t] => ~Worse(cells[t][1], y)
    BY <1>0, <2>1, <2>2 DEF MinimumInv, Owner
  <2> QED BY <1>1, <2>2, <2>4, <2>5
<1> QED BY <1>5, <1>6

(* An element a thread takes from its own heap or buffer is at least as    *)
(* good as all it still owns, whatever thieves did between the look at the *)
(* minimum of the buffer and the choice, as long as compare_exchange_weak  *)
(* fails only on a changed version.                                        *)
THEOREM ExtractsAreBest == ASSUME ~SpuriousCas PROVE Spec => ExtractsBest
PROOF
<1> DEFINE Decisions == \A u \in Threads : MinimumInv(u)
<1>1. Init => Decisions
  BY DEF Init, MinimumInv
<1>2. QueueInv /\ Decisions /\ [Next]_vars => Decisions'
  BY DecisionStep
<1>3. QueueInv /\ Decisions /\ [Next]_vars
        => [\A t \in Threads : PopLocally(t) \/ StealLocally(t)
                => \A x \in Owned(t)' : ~Worse(frame'[t].ret, x)]_vars
  BY BestIsTaken
<1> HIDE DEF Decisions
<1> QED BY <1>1, <1>2, <1>3, QueueInvariant, PTL DEF Spec, ExtractsBest
=============================================================================
