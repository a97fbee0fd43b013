------------------------ MODULE StealBufferInvariant ------------------------
(* The inductive invariants of the Stealing Multi-Queue.  BufferInv is     *)
(* behind the integrity of steals: what a thread that has read a version   *)
(* knows about the buffer it belongs to.  QueueInv adds where the elements *)
(* are and what a call knows, behind the refinement of OwnedWorkList.      *)
EXTENDS StealingMultiQueue

\* Thread t has read v1 of its victim and is going to compare it.
Reading(t) == pc[t] \in {"readMin", "versionAgain"}
Copying(t) == pc[t] \in {"copy", "cas"}

\* The version t has read was odd, and versions only grow.
Snapshot(t) ==
    /\ Reading(t) \/ Copying(t) =>
         frame[t].v1 % 2 = 1 /\ frame[t].v1 <= version[frame[t].victim]
    /\ pc[t] = "minWriterAgain" =>
         frame[t].v1 % 2 = 1 /\ frame[t].v1 <= version[t]

\* The owner's buffer can be stolen while it looks at it, but not filled.
OwnSnapshot(t) ==
    (Reading(t) /\ Owner(t)) \/ pc[t] = "minWriterAgain" => version[t] <= frame[t].v1 + 1

\* A copy made under a version that is still valid agrees with the buffer.
Copy(t) ==
    /\ pc[t] = "copy" => frame[t].k \in Slots
    /\ Copying(t) /\ version[frame[t].victim] = frame[t].v1 =>
         \A i \in Slots : pc[t] = "cas" \/ i < frame[t].k
             => frame[t].elements[i] = cells[frame[t].victim][i]
    /\ pc[t] = "versionAgain" /\ version[frame[t].victim] = frame[t].v1 =>
         frame[t].minVal = cells[frame[t].victim][1]

\* A batch starts with an element, in the making and in the buffer.
Fill(t) ==
    /\ pc[t] \in {"fill", "write", "publish"} => ~Stealable(t)
    /\ pc[t] \in {"write", "publish"} => frame[t].elements[1] \in Tasks
    /\ pc[t] = "publish" => cells[t] = frame[t].elements
    /\ Stealable(t) => cells[t][1] \in Tasks

\* extractMin fills the buffer only if it saw it empty.
Extract(t) ==
    /\ pc[t] \in {"chooseLocal", "popLocally"} =>
         Owner(t) /\ (frame[t].minVal = Dummy => ~Stealable(t))
    /\ (pc[t] = "trySteal" \/ Copying(t)) /\ Owner(t) /\ heap[t] # {} =>
         frame[t].minVal # Dummy

ThreadInv(t) == Snapshot(t) /\ OwnSnapshot(t) /\ Copy(t) /\ Fill(t) /\ Extract(t)

(* Whatever a thread remembers of a steal buffer, its own or another's, is *)
(* true of the buffer as long as the version has not moved.                *)
BufferInv == TypeOK /\ \A t \in Threads : ThreadInv(t)

-----------------------------------------------------------------------------
\* An array fillBuffer makes: elements, all different and best first, and
\* dummies behind them.
Proper(array) ==
    /\ array \in [Slots -> Tasks \cup {Dummy}]
    /\ array[1] # Dummy
    /\ \A i, j \in Slots : i < j /\ array[j] # Dummy =>
          array[i] # Dummy /\ array[i] # array[j] /\ ~Worse(array[i], array[j])

Writing(t) == pc[t] \in {"write", "publish"}

BatchInv(t) ==
    /\ Stealable(t) => Proper(cells[t])
    /\ Writing(t) => Proper(frame[t].elements)

\* Element x is in container k of thread t.
At(k, t, x) ==
    \/ k = "heap" /\ x \in heap[t]
    \/ k = "live" /\ x \in Live(t)
    \/ k = "filling" /\ x \in Filling(t)
    \/ k = "left" /\ x \in Left(t)
    \/ k = "hand" /\ x \in InHand(t)

\* Only what was pushed is anywhere, and in one container at most.
Placed ==
    /\ \A k, x : \A t \in Threads : At(k, t, x) => x \in pushed /\ x \notin delivered
    /\ \A k, l, x : \A t, u \in Threads : At(k, t, x) /\ At(l, u, x) => k = l /\ t = u
    /\ \A t \in Threads : \A i, j \in DOMAIN stealBuffers[t] :
          stealBuffers[t][i] = stealBuffers[t][j] => i = j
    /\ delivered \subseteq pushed

\* Labels of getBufferMin and trySteal, of the own heap or a victim's.
AtHeap == {"getBufferMin", "readMin", "versionAgain", "trySteal", "copy", "cas"}
\* Labels of a pop without an element.
Searching == AtHeap \cup {"extractMin", "chooseLocal", "popLocally", "getMinWriter",
                          "minWriterAgain", "pick", "chooseSteal"}
FillLabels == {"fill", "write", "publish"}

\* Which call a thread is in, and whether it has its answer.
CallInv(t) ==
    /\ pc[t] = "idle" => frame[t] = IdleFrame(t)
    /\ pc[t] # "idle" => frame[t].op \in {"push", "pop"}
    /\ frame[t].op = "push" => /\ pc[t] \in {"fillIfStolen", "return"} \cup FillLabels
                               /\ frame[t].ret = Dummy
    /\ pc[t] \in Searching => frame[t].ret = Dummy
    /\ pc[t] = "fillIfStolen" => frame[t].next = "return" /\ (frame[t].op = "pop" => frame[t].ret # Dummy)
    /\ pc[t] \in FillLabels =>
          IF frame[t].next = "return" THEN frame[t].op = "pop" => frame[t].ret # Dummy
                                      ELSE frame[t].op = "pop" /\ frame[t].ret = Dummy
    /\ pc[t] \in AtHeap \cup {"chooseLocal", "popLocally", "chooseSteal"} => frame[t].next = "return"
    /\ pc[t] \in Searching \/ (pc[t] \in FillLabels /\ frame[t].next = "pick") => stealBuffers[t] = <<>>
    /\ pc[t] = "chooseSteal" => ~Owner(t)

\* The own queue is known to be empty: the pop has looked at its own heap and
\* steal buffer, and now looks for victims or has given up.
SeenEmpty(t) ==
    \/ pc[t] = "return" /\ frame[t].op = "pop" /\ frame[t].ret = Dummy
    \/ /\ ~frame[t].fallback
       /\ \/ pc[t] \in {"getMinWriter", "minWriterAgain", "pick", "chooseSteal"}
          \/ pc[t] \in AtHeap /\ ~Owner(t)
          \/ pc[t] \in FillLabels /\ frame[t].next = "pick"

EmptyInv(t) ==
    /\ Copying(t) /\ Owner(t) => version[t] <= frame[t].v1 + 1
    /\ ~SpuriousCas /\ SeenEmpty(t) =>
          heap[t] = {} /\ ~Stealable(t) /\ stealBuffers[t] = <<>> /\ ~Writing(t)

(* Every element is in one place, and a call that is about to answer has   *)
(* its element, or nothing left of its own.                                *)
QueueInv ==
    /\ BufferInv
    /\ Placed
    /\ \A t \in Threads : BatchInv(t) /\ CallInv(t) /\ EmptyInv(t)

\* What extractMin has decided is right for as long as the own buffer is there.
MinimumInv(t) ==
    /\ pc[t] = "chooseLocal" /\ Stealable(t) => frame[t].minVal = cells[t][1]
    /\ pc[t] = "popLocally" /\ Stealable(t) =>
          \A x \in Best(heap[t]) : ~Worse(x, cells[t][1])
    /\ pc[t] \in {"trySteal", "copy", "cas"} /\ Owner(t) /\ Stealable(t) =>
          \A x \in heap[t] : ~Worse(cells[t][1], x)
=============================================================================
