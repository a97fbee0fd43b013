-------------------------- MODULE MultiQueueProofs --------------------------
(* Proofs about MultiQueue for any threads, elements, queues and buffers.  *)
EXTENDS MultiQueue, FiniteSetTheorems, WellFoundedInduction, TLAPS

-----------------------------------------------------------------------------
(* The inductive invariant.                                                *)

\* Where a thread is on its way to an element.
Searching == {"pick", "compare", "tryLocal", "tryLock", "release", "releaseLocal", "last"}

\* What a thread has drawn is a queue, or its own buffer where that may be
\* drawn; a pop that is still under way has nothing left to hand out and has
\* not used up its attempts, and only a push has elements to push.  A push
\* buffer is only used by the classes that have one.
DrawsAt(t) ==
    /\ pushQ[t] \in Queues \cup {None} /\ popQ[t] \in 0..nQ \cup {None}
    /\ pc[t] = "push" => pushQ[t] # None
    /\ pc[t] = "tryLocal" => popQ[t] # None
    /\ pc[t] = "tryLock" => cand[t] \in 0..nQ
    /\ pc[t] \in Critical => cand[t] \in Queues
    /\ pair[t] \in (0..nQ) \X (0..nQ)
    /\ pc[t] \in Searching => popBuffer[t] = << >>
    /\ pc[t] \in Searching \ {"last"} => attempt[t] < Attempts
    /\ pc[t] \in Searching \cup {"idle", "spread"} => todo[t] = {}
    /\ ~PushBuffered => buffer[t] = {} /\ pc[t] \notin {"fill", "flush"}

Draws == \A t \in Threads : DrawsAt(t)

\* Only between a change of the heap and updateMin is the published minimum old.
MinKept ==
    \A q \in Queues :
        lock[q] = None \/ pc[lock[q]] # "updateMin" => min[q] = Top(heap[q])

\* Element x is in container i of kind k.
In(k, i, x) ==
    \/ k = "heap" /\ i \in Queues /\ x \in heap[i]
    \/ k = "buffer" /\ i \in Threads /\ x \in buffer[i]
    \/ k = "todo" /\ i \in Threads /\ x \in todo[i]
    \/ k = "popBuffer" /\ i \in Threads /\ x \in Elements(popBuffer[i])
    \/ k = "client" /\ i = None /\ x \in taken

\* The pushed elements are in one container each, those of a batch once.
Located ==
    /\ \A x \in pushed : \E k, i : In(k, i, x)
    /\ \A k, i : \A x \in Tasks : In(k, i, x) => x \in pushed
    /\ \A k, i, l, j : \A x \in Tasks : In(k, i, x) /\ In(l, j, x) => k = l /\ i = j
    /\ \A t \in Threads : \A i, j \in DOMAIN popBuffer[t] :
          popBuffer[t][i] = popBuffer[t][j] => i = j

IInv == MQTypeOK /\ Draws /\ LocksReleased /\ MinKept /\ Located /\ BatchOrder

-----------------------------------------------------------------------------
(* Arithmetic and extractions.                                             *)

LEMMA QueuesType ==
    /\ nQ \in Nat \ {0} /\ Queues \subseteq 0..nQ /\ Queues \subseteq Nat /\ Own \notin Queues
    /\ None \notin Queues /\ None \notin Threads /\ 0 \in Queues
PROOF
<1>1. Cardinality(Threads) \in Nat /\ Cardinality(Threads) # 0
  BY ThreadsAssumption, FS_CardinalityType, FS_EmptySet
<1>2. \A m, n \in Nat \ {0} : m * n \in Nat \ {0}
  OBVIOUS
<1>3. nQ \in Nat \ {0}
  BY <1>1, <1>2, ThreadsAssumption DEF nQ
<1> QED BY <1>3, ThreadsAssumption DEF Queues, Own

LEMMA LeastElement ==
    ASSUME NEW S \in SUBSET Nat, S # {}
    PROVE  \E x \in S : \A y \in S : x <= y
PROOF
<1> DEFINE Less == {ss \in Nat \X Nat : ss[1] < ss[2]}
<1>1. IsWellFoundedOn(Less, Nat)
  BY NatLessThanWellFounded DEF OpToRel
<1>2. \E x \in S : \A y \in S : ~ (<<y, x>> \in Less)
  <2> HIDE DEF Less
  <2> QED BY <1>1, WFMin
<1>3. \A x, y \in Nat : <<y, x>> \notin Less => x <= y
  OBVIOUS
<1> HIDE DEF Less
<1> QED BY <1>2, <1>3

LEMMA FirstsExist ==
    ASSUME NEW S \in SUBSET Tasks, S # {}
    PROVE  Firsts(S) # {}
PROOF
<1> DEFINE P == {Prio[y] : y \in S}
<1>1. P \in SUBSET Nat /\ P # {}
  BY TasksAssumption
<1>2. PICK m \in P : \A k \in P : m <= k
  <2> HIDE DEF P
  <2> QED BY <1>1, LeastElement
<1> QED BY <1>2 DEF Firsts

LEMMA TopType ==
    ASSUME NEW S \in SUBSET Tasks
    PROVE  Top(S) \in 0..Dummy
PROOF BY FirstsExist, TasksAssumption DEF Top, Firsts

\* A batch has different elements of the set, first things first.
LEMMA ExtractionFacts ==
    ASSUME NEW S \in SUBSET Tasks, NEW n \in Nat, NEW s \in Extractions(S, n)
    PROVE  /\ s \in Seq(Tasks) /\ Elements(s) \subseteq S
           /\ \A i, j \in DOMAIN s : s[i] = s[j] => i = j
           /\ \A i, j \in DOMAIN s : i < j => Prio[s[i]] <= Prio[s[j]]
           /\ n # 0 /\ S # {} => s # << >> /\ s[1] \in S
PROOF
<1>1. IsFiniteSet(S) /\ Cardinality(S) \in Nat /\ (S # {} => Cardinality(S) # 0)
  BY TasksAssumption, FS_Subset, FS_CardinalityType, FS_EmptySet
<1>2. PICK k \in Nat : /\ s \in [1..k -> S] /\ (n # 0 /\ S # {} => k # 0)
                       /\ \A i \in 1..k : s[i] \in Firsts(S \ {s[j] : j \in 1..(i - 1)})
  BY <1>1 DEF Extractions
<1>3. DOMAIN s = 1..k /\ s \in Seq(Tasks)
  BY <1>2
<1>4. \A i, j \in 1..k : i < j => s[i] # s[j] /\ Prio[s[i]] <= Prio[s[j]]
  <2> SUFFICES ASSUME NEW i \in 1..k, NEW j \in 1..k, i < j
               PROVE  s[i] # s[j] /\ Prio[s[i]] <= Prio[s[j]]
    OBVIOUS
  <2>1. i \in 1..(j - 1) /\ s[j] \notin {s[h] : h \in 1..(j - 1)}
    BY <1>2 DEF Firsts
  <2>2. \A h \in 1..(i - 1) : h \in 1..(j - 1)
    OBVIOUS
  <2>3. s[j] \in S \ {s[h] : h \in 1..(i - 1)}
    BY <1>2, <2>1, <2>2
  <2> QED BY <1>2, <2>1, <2>3 DEF Firsts
<1>5. \A i, j \in 1..k : s[i] = s[j] => i = j
  BY <1>2, <1>4
<1>6. n # 0 /\ S # {} => s # << >> /\ s[1] \in S
  BY <1>2, <1>3
<1> QED BY <1>2, <1>3, <1>4, <1>5, <1>6 DEF Elements

\* The rest of a batch, and the rest the other way round.
LEMMA TailFacts ==
    ASSUME NEW s \in Seq(Tasks), s # << >>,
           \A i, j \in DOMAIN s : s[i] = s[j] => i = j
    PROVE  /\ Tail(s) \in Seq(Tasks) /\ Elements(Tail(s)) = Elements(s) \ {s[1]}
           /\ \A i, j \in DOMAIN Tail(s) : Tail(s)[i] = Tail(s)[j] => i = j
PROOF
<1>1. /\ Tail(s) \in Seq(Tasks) /\ DOMAIN s = 1..Len(s) /\ Len(s) \in Nat \ {0}
      /\ DOMAIN Tail(s) = 1..(Len(s) - 1)
      /\ \A i \in 1..(Len(s) - 1) : Tail(s)[i] = s[i + 1]
  OBVIOUS
<1>2. \A i \in 2..Len(s) : i - 1 \in 1..(Len(s) - 1) /\ Tail(s)[i - 1] = s[i] /\ s[i] # s[1]
  BY <1>1
<1>3. \A i \in 1..(Len(s) - 1) : i + 1 \in 2..Len(s) /\ s[i + 1] # s[1]
  BY <1>1
<1>4. Elements(Tail(s)) = Elements(s) \ {s[1]}
  <2>1. ASSUME NEW x \in Elements(Tail(s)) PROVE x \in Elements(s) \ {s[1]}
    <3>1. PICK i \in 1..(Len(s) - 1) : x = Tail(s)[i]
      BY <1>1, <2>1 DEF Elements
    <3> QED BY <1>1, <1>3, <3>1 DEF Elements
  <2>2. ASSUME NEW x \in Elements(s) \ {s[1]} PROVE x \in Elements(Tail(s))
    <3>1. PICK i \in 1..Len(s) : x = s[i] /\ i # 1
      BY <1>1, <2>2 DEF Elements
    <3>2. i \in 2..Len(s)
      BY <1>1, <3>1
    <3>3. i - 1 \in DOMAIN Tail(s) /\ x = Tail(s)[i - 1]
      BY <1>1, <1>2, <3>1, <3>2
    <3> QED BY <3>3 DEF Elements
  <2> QED BY <2>1, <2>2
<1> QED BY <1>1, <1>4

\* What is left when the last element is popped.
LEMMA FrontFacts ==
    ASSUME NEW s \in Seq(Tasks), s # << >>,
           \A i, j \in DOMAIN s : s[i] = s[j] => i = j
    PROVE  LET f == SubSeq(s, 1, Len(s) - 1)  y == s[Len(s)]
           IN  /\ f \in Seq(Tasks) /\ y \in Elements(s) /\ y \in Tasks
               /\ Elements(f) = Elements(s) \ {y}
               /\ \A i \in DOMAIN f : i \in DOMAIN s /\ f[i] = s[i]
PROOF
<1> DEFINE f == SubSeq(s, 1, Len(s) - 1)
<1> DEFINE y == s[Len(s)]
<1>1. /\ Len(s) \in Nat \ {0} /\ DOMAIN s = 1..Len(s) /\ f \in Seq(Tasks)
      /\ DOMAIN f = 1..(Len(s) - 1) /\ \A i \in 1..(Len(s) - 1) : f[i] = s[i]
      /\ s \in [1..Len(s) -> Tasks]
  OBVIOUS
<1>2. Len(s) \in DOMAIN s /\ \A i \in 1..(Len(s) - 1) : i \in DOMAIN s /\ s[i] # s[Len(s)]
  BY <1>1
<1>3. \A i \in DOMAIN s : i = Len(s) \/ i \in 1..(Len(s) - 1)
  BY <1>1
<1>4. Elements(f) = Elements(s) \ {y}
  <2>1. ASSUME NEW x \in Elements(f) PROVE x \in Elements(s) \ {y}
    BY <1>1, <1>2, <2>1 DEF Elements
  <2>2. ASSUME NEW x \in Elements(s) \ {y} PROVE x \in Elements(f)
    <3>1. PICK i \in DOMAIN s : x = s[i]
      BY <2>2 DEF Elements
    <3>2. i \in DOMAIN f /\ f[i] = x
      BY <1>1, <1>3, <3>1, <2>2
    <3> QED BY <3>2 DEF Elements
  <2> QED BY <2>1, <2>2
<1>5. y \in Elements(s) /\ y \in Tasks
  BY <1>1, <1>2 DEF Elements
<1> QED BY <1>1, <1>2, <1>4, <1>5

LEMMA ReversedFacts ==
    ASSUME NEW s \in Seq(Tasks)
    PROVE  /\ Reversed(s) \in Seq(Tasks) /\ Elements(Reversed(s)) = Elements(s)
           /\ DOMAIN Reversed(s) = DOMAIN s
           /\ \A i \in DOMAIN s : /\ Len(s) + 1 - i \in DOMAIN s
                                  /\ Reversed(s)[i] = s[Len(s) + 1 - i]
PROOF
<1>1. DOMAIN s = 1..Len(s) /\ Len(s) \in Nat
  OBVIOUS
<1>2. \A i \in 1..Len(s) : Len(s) + 1 - i \in 1..Len(s) /\ Len(s) + 1 - (Len(s) + 1 - i) = i
  BY <1>1
<1>3. Reversed(s) = [i \in 1..Len(s) |-> s[Len(s) + 1 - i]]
  BY <1>1 DEF Reversed
<1>4. Reversed(s) \in Seq(Tasks)
  BY <1>1, <1>2, <1>3
<1>5. \A i \in DOMAIN s : Len(s) + 1 - i \in DOMAIN s /\ Reversed(s)[i] = s[Len(s) + 1 - i]
  BY <1>1, <1>2, <1>3
<1>6. \A i \in DOMAIN s : s[i] = Reversed(s)[Len(s) + 1 - i]
  BY <1>1, <1>2, <1>3
<1>7. DOMAIN Reversed(s) = DOMAIN s
  BY <1>1, <1>3
<1>8. Elements(Reversed(s)) = Elements(s)
  BY <1>5, <1>6, <1>7 DEF Elements
<1> QED BY <1>4, <1>5, <1>7, <1>8

-----------------------------------------------------------------------------
(* What kinds of steps leave intact.                                       *)

LEMMA DrawnType ==
    /\ Drawn \subseteq 0..nQ
    /\ \A q \in 0..nQ : q = Own \/ q \in Queues
PROOF BY QueuesType DEF Drawn, Queues, Own

LEMMA MinOfType ==
    ASSUME MQTypeOK, NEW t \in Threads, NEW q \in 0..nQ
    PROVE  MinOf(t, q) \in 0..Dummy
PROOF
<1>1. CASE q = Own
  BY <1>1, TopType DEF MinOf, MQTypeOK
<1>2. CASE q # Own
  BY <1>2, DrawnType DEF MinOf, MQTypeOK
<1> QED BY <1>1, <1>2

\* A step of t that touches no heap and stays away from the locks.
LEMMA NoLockStep ==
    ASSUME LocksReleased, MinKept, MQTypeOK, NEW t \in Threads, UNCHANGED shared,
           pc[t] \notin Critical, pc'[t] \notin Critical,
           \A u \in Threads \ {t} : pc'[u] = pc[u] /\ cand'[u] = cand[u]
    PROVE  LocksReleased' /\ MinKept'
PROOF
<1>1. \A q \in Queues : lock[q] # t /\ (lock[q] # None => lock[q] \in Threads \ {t})
  BY QueuesType DEF LocksReleased, MQTypeOK
<1>2. LocksReleased'
  BY <1>1 DEF LocksReleased, shared, Critical
<1>3. MinKept'
  BY <1>1 DEF MinKept, shared
<1> QED BY <1>2, <1>3

\* A step of t that takes the lock of q and changes its heap.
LEMMA LockStep ==
    ASSUME LocksReleased, MinKept, MQTypeOK, NEW t \in Threads, NEW q \in Queues,
           Locked(t, q), min' = min, pc[t] \notin Critical, pc'[t] = "updateMin",
           cand'[t] = q,
           \A r \in Queues \ {q} : heap'[r] = heap[r],
           \A u \in Threads \ {t} : pc'[u] = pc[u] /\ cand'[u] = cand[u]
    PROVE  LocksReleased' /\ MinKept'
PROOF
<1>1. /\ lock'[q] = t /\ lock[q] = None /\ \A r \in Queues \ {q} : lock'[r] = lock[r]
      /\ t # None /\ None \notin Threads
  BY QueuesType DEF Locked, MQTypeOK
<1>2. \A r \in Queues : lock[r] # t /\ (lock[r] # None => lock[r] \in Threads \ {t})
  BY QueuesType DEF LocksReleased, MQTypeOK
<1>3. \A u \in Threads \ {t} : pc[u] \in Critical => cand[u] # q
  BY <1>1 DEF LocksReleased
<1>4. LocksReleased'
  <2>1. \A r \in Queues : lock'[r] # None => pc'[lock'[r]] \in Critical /\ cand'[lock'[r]] = r
    BY <1>1, <1>2 DEF LocksReleased, Critical
  <2>2. \A u \in Threads : pc'[u] \in Critical => lock'[cand'[u]] = u
    <3> SUFFICES ASSUME NEW u \in Threads \ {t}, pc[u] \in Critical
                 PROVE  lock'[cand[u]] = u
      BY <1>1
    <3>1. lock[cand[u]] = u /\ cand[u] # q
      BY <1>3 DEF LocksReleased
    <3> QED BY <3>1 DEF Locked, MQTypeOK
  <2> QED BY <2>1, <2>2 DEF LocksReleased, Critical
<1>5. MinKept'
  BY <1>1, <1>2 DEF MinKept
<1> QED BY <1>4, <1>5

\* A step of t that gives its lock back, with the minimum up to date.
LEMMA UnlockStep ==
    ASSUME LocksReleased, MinKept, MQTypeOK, Draws, NEW t \in Threads,
           heap' = heap, min' = min, lock' = [lock EXCEPT ![cand[t]] = None],
           pc[t] \in Critical \ {"updateMin"}, pc'[t] \notin Critical,
           \A u \in Threads \ {t} : pc'[u] = pc[u] /\ cand'[u] = cand[u]
    PROVE  LocksReleased' /\ MinKept'
PROOF
<1>1. /\ cand[t] \in Queues /\ lock[cand[t]] = t /\ lock'[cand[t]] = None
      /\ \A r \in Queues \ {cand[t]} : lock'[r] = lock[r]
  BY DEF LocksReleased, MQTypeOK, Draws, DrawsAt, PushBuffered
<1>2. \A r \in Queues \ {cand[t]} : lock[r] # t /\ (lock[r] # None => lock[r] \in Threads \ {t})
  BY QueuesType DEF LocksReleased, MQTypeOK
<1>3. LocksReleased'
  <2>1. \A r \in Queues : lock'[r] # None => pc'[lock'[r]] \in Critical /\ cand'[lock'[r]] = r
    BY <1>1, <1>2 DEF LocksReleased
  <2>2. \A u \in Threads \ {t} : pc[u] \in Critical => lock[cand[u]] = u /\ cand[u] # cand[t]
    BY <1>1 DEF LocksReleased
  <2>3. \A u \in Threads : pc'[u] \in Critical => lock'[cand'[u]] = u
    <3> SUFFICES ASSUME NEW u \in Threads \ {t}, pc[u] \in Critical
                 PROVE  lock'[cand[u]] = u
      OBVIOUS
    <3>1. cand[u] \in Queues \ {cand[t]} /\ lock[cand[u]] = u
      BY <2>2 DEF Draws, DrawsAt, PushBuffered
    <3> QED BY <1>1, <3>1
  <2> QED BY <2>1, <2>3 DEF LocksReleased, Critical
<1>4. MinKept'
  <2>1. min[cand[t]] = Top(heap[cand[t]])
    BY <1>1 DEF MinKept, Critical
  <2> QED BY <1>1, <1>2, <2>1 DEF MinKept
<1> QED BY <1>3, <1>4

\* In after a step.
InNext(k, i, x) == In(k, i, x)'

LEMMA LocatedNext ==
    ASSUME pushed' \in SUBSET Tasks,
           \A x \in pushed' : \E k, i : InNext(k, i, x),
           \A k, i : \A x \in Tasks : InNext(k, i, x) => x \in pushed',
           \A k, i, l, j : \A x \in Tasks : InNext(k, i, x) /\ InNext(l, j, x) => k = l /\ i = j,
           \A t \in Threads : \A a, b \in DOMAIN popBuffer'[t] :
               popBuffer'[t][a] = popBuffer'[t][b] => a = b
    PROVE  Located'
PROOF BY DEF Located, InNext, In

\* Element x goes from container i of kind k to container j of kind l.
Goes(x, k, i, l, j) ==
    \A m, h : InNext(m, h, x) <=> \/ m = l /\ h = j
                                  \/ In(m, h, x) /\ (m # k \/ h # i)

\* The elements of M leave container i of kind k, all others stay where they are.
LEMMA Moves ==
    ASSUME Located, MQTypeOK, pushed' = pushed, NEW k, NEW i, NEW M \in SUBSET Tasks,
           \A x \in M : In(k, i, x) /\ \E l, j : Goes(x, k, i, l, j),
           \A x \in Tasks \ M : \A m, h : InNext(m, h, x) <=> In(m, h, x),
           \A t \in Threads : \A a, b \in DOMAIN popBuffer'[t] :
               popBuffer'[t][a] = popBuffer'[t][b] => a = b
    PROVE  Located'
PROOF
<1> DEFINE Only(x, l, j) == \A m, h : InNext(m, h, x) <=> m = l /\ h = j
<1>1. pushed' \in SUBSET Tasks
  BY DEF MQTypeOK
<1>2. \A x \in M : x \in pushed /\ \E l, j : Only(x, l, j)
  <2> SUFFICES ASSUME NEW x \in M
               PROVE  x \in pushed /\ \E l, j : Only(x, l, j)
    OBVIOUS
  <2>1. x \in pushed /\ \A m, h : In(m, h, x) => m = k /\ h = i
    BY DEF Located
  <2>2. PICK l, j : Goes(x, k, i, l, j)
    OBVIOUS
  <2>3. Only(x, l, j)
    BY <2>1, <2>2 DEF Goes
  <2> HIDE DEF Only
  <2> QED BY <2>1, <2>3
<1>3. \A x \in pushed' : \E l, j : InNext(l, j, x)
  BY <1>1, <1>2 DEF Located
<1>4. \A l, j : \A x \in Tasks : InNext(l, j, x) => x \in pushed'
  BY <1>1, <1>2 DEF Located
<1>5. \A l, j, m, h : \A x \in Tasks : InNext(l, j, x) /\ InNext(m, h, x) => l = m /\ j = h
  BY <1>2 DEF Located
<1> QED BY <1>1, <1>3, <1>4, <1>5, LocatedNext

\* The ways of an element through the queue.
LEMMA TodoToHeap ==
    ASSUME Located, MQTypeOK, NEW t \in Threads, NEW q \in Queues, NEW M \in SUBSET todo[t],
           heap' = [heap EXCEPT ![q] = @ \cup M], todo' = [todo EXCEPT ![t] = @ \ M],
           UNCHANGED <<buffer, popBuffer, taken, pushed>>
    PROVE  Located'
PROOF
<1>1. M \in SUBSET Tasks
  BY DEF MQTypeOK
<1>2. \A x \in Tasks \ M : \A m, h : InNext(m, h, x) <=> In(m, h, x)
  BY DEF In, InNext, MQTypeOK
<1>3. \A x \in M : In("todo", t, x) /\ Goes(x, "todo", t, "heap", q)
  BY DEF Goes, In, InNext, MQTypeOK
<1>4. \A u \in Threads : \A a, b \in DOMAIN popBuffer'[u] :
        popBuffer'[u][a] = popBuffer'[u][b] => a = b
  BY DEF Located
<1>5. \A x \in M : In("todo", t, x) /\ \E l, j : Goes(x, "todo", t, l, j)
  BY <1>3
<1> QED BY <1>1, <1>2, <1>4, <1>5, Moves

LEMMA TodoToBuffer ==
    ASSUME Located, MQTypeOK, NEW t \in Threads, NEW y \in todo[t],
           buffer' = [buffer EXCEPT ![t] = @ \cup {y}], todo' = [todo EXCEPT ![t] = @ \ {y}],
           UNCHANGED <<heap, popBuffer, taken, pushed>>
    PROVE  Located'
PROOF
<1> DEFINE M == {y}
<1>1. M \in SUBSET Tasks
  BY DEF MQTypeOK
<1>2. \A x \in Tasks \ M : \A m, h : InNext(m, h, x) <=> In(m, h, x)
  BY DEF In, InNext, MQTypeOK
<1>3. \A x \in M : In("todo", t, x) /\ Goes(x, "todo", t, "buffer", t)
  BY DEF Goes, In, InNext, MQTypeOK
<1>4. \A u \in Threads : \A a, b \in DOMAIN popBuffer'[u] :
        popBuffer'[u][a] = popBuffer'[u][b] => a = b
  BY DEF Located
<1>5. \A x \in M : In("todo", t, x) /\ \E l, j : Goes(x, "todo", t, l, j)
  BY <1>3
<1> HIDE DEF M
<1> QED BY <1>1, <1>2, <1>4, <1>5, Moves

LEMMA BufferToHeap ==
    ASSUME Located, MQTypeOK, NEW t \in Threads, NEW q \in Queues, NEW M \in SUBSET buffer[t],
           heap' = [heap EXCEPT ![q] = @ \cup M], buffer' = [buffer EXCEPT ![t] = @ \ M],
           UNCHANGED <<todo, popBuffer, taken, pushed>>
    PROVE  Located'
PROOF
<1>1. M \in SUBSET Tasks
  BY DEF MQTypeOK
<1>2. \A x \in Tasks \ M : \A m, h : InNext(m, h, x) <=> In(m, h, x)
  BY DEF In, InNext, MQTypeOK
<1>3. \A x \in M : In("buffer", t, x) /\ Goes(x, "buffer", t, "heap", q)
  BY DEF Goes, In, InNext, MQTypeOK
<1>4. \A u \in Threads : \A a, b \in DOMAIN popBuffer'[u] :
        popBuffer'[u][a] = popBuffer'[u][b] => a = b
  BY DEF Located
<1>5. \A x \in M : In("buffer", t, x) /\ \E l, j : Goes(x, "buffer", t, l, j)
  BY <1>3
<1> QED BY <1>1, <1>2, <1>4, <1>5, Moves

\* A batch of y and the elements of B leaves a heap for the client and the pop buffer.
LEMMA HeapToPop ==
    ASSUME Located, MQTypeOK, NEW t \in Threads, NEW q \in Queues,
           NEW y \in heap[q], NEW B \in SUBSET (heap[q] \ {y}),
           heap' = [heap EXCEPT ![q] = @ \ (B \cup {y})], taken' = taken \cup {y},
           Elements(popBuffer[t]) = {}, Elements(popBuffer'[t]) = B,
           \A u \in Threads \ {t} : popBuffer'[u] = popBuffer[u],
           \A a, b \in DOMAIN popBuffer'[t] : popBuffer'[t][a] = popBuffer'[t][b] => a = b,
           UNCHANGED <<buffer, todo, pushed>>
    PROVE  Located'
PROOF
<1> DEFINE M == B \cup {y}
<1>1. M \in SUBSET Tasks
  BY DEF MQTypeOK
<1>2. /\ \A r \in Queues : heap'[r] = IF r = q THEN heap[r] \ M ELSE heap[r]
      /\ \A u \in Threads : Elements(popBuffer'[u]) = IF u = t THEN B ELSE Elements(popBuffer[u])
  BY DEF MQTypeOK
<1>3. \A x \in Tasks \ M : \A m, h : InNext(m, h, x) <=> In(m, h, x)
  BY <1>2 DEF In, InNext
<1>4. \A x \in B : In("heap", q, x) /\ Goes(x, "heap", q, "popBuffer", t)
  BY <1>2 DEF Goes, In, InNext
<1>5. In("heap", q, y) /\ Goes(y, "heap", q, "client", None)
  BY <1>2 DEF Goes, In, InNext
<1>6. \A u \in Threads : \A a, b \in DOMAIN popBuffer'[u] :
        popBuffer'[u][a] = popBuffer'[u][b] => a = b
  BY DEF Located
<1>7. \A x \in M : In("heap", q, x) /\ \E l, j : Goes(x, "heap", q, l, j)
  BY <1>4, <1>5
<1> HIDE DEF M
<1> QED BY <1>1, <1>3, <1>6, <1>7, Moves

\* The same from the push buffer.
LEMMA BufferToPop ==
    ASSUME Located, MQTypeOK, NEW t \in Threads,
           NEW y \in buffer[t], NEW B \in SUBSET (buffer[t] \ {y}),
           buffer' = [buffer EXCEPT ![t] = @ \ (B \cup {y})], taken' = taken \cup {y},
           Elements(popBuffer[t]) = {}, Elements(popBuffer'[t]) = B,
           \A u \in Threads \ {t} : popBuffer'[u] = popBuffer[u],
           \A a, b \in DOMAIN popBuffer'[t] : popBuffer'[t][a] = popBuffer'[t][b] => a = b,
           UNCHANGED <<heap, todo, pushed>>
    PROVE  Located'
PROOF
<1> DEFINE M == B \cup {y}
<1>1. M \in SUBSET Tasks
  BY DEF MQTypeOK
<1>2. /\ \A r \in Threads : buffer'[r] = IF r = t THEN buffer[r] \ M ELSE buffer[r]
      /\ \A u \in Threads : Elements(popBuffer'[u]) = IF u = t THEN B ELSE Elements(popBuffer[u])
  BY DEF MQTypeOK
<1>3. \A x \in Tasks \ M : \A m, h : InNext(m, h, x) <=> In(m, h, x)
  BY <1>2 DEF In, InNext
<1>4. \A x \in B : In("buffer", t, x) /\ Goes(x, "buffer", t, "popBuffer", t)
  BY <1>2 DEF Goes, In, InNext
<1>5. In("buffer", t, y) /\ Goes(y, "buffer", t, "client", None)
  BY <1>2 DEF Goes, In, InNext
<1>6. \A u \in Threads : \A a, b \in DOMAIN popBuffer'[u] :
        popBuffer'[u][a] = popBuffer'[u][b] => a = b
  BY DEF Located
<1>7. \A x \in M : In("buffer", t, x) /\ \E l, j : Goes(x, "buffer", t, l, j)
  BY <1>4, <1>5
<1> HIDE DEF M
<1> QED BY <1>1, <1>3, <1>6, <1>7, Moves

LEMMA PopBufferToClient ==
    ASSUME Located, MQTypeOK, NEW t \in Threads, NEW y \in Tasks,
           y \in Elements(popBuffer[t]), Elements(popBuffer'[t]) = Elements(popBuffer[t]) \ {y},
           \A u \in Threads \ {t} : popBuffer'[u] = popBuffer[u],
           \A a, b \in DOMAIN popBuffer'[t] : popBuffer'[t][a] = popBuffer'[t][b] => a = b,
           taken' = taken \cup {y}, UNCHANGED <<heap, buffer, todo, pushed>>
    PROVE  Located'
PROOF
<1> DEFINE M == {y}
<1>1. M \in SUBSET Tasks
  OBVIOUS
<1>2. \A x \in Tasks \ M : \A m, h : InNext(m, h, x) <=> In(m, h, x)
  BY DEF In, InNext
<1>3. \A x \in M : In("popBuffer", t, x) /\ Goes(x, "popBuffer", t, "client", None)
  BY DEF Goes, In, InNext
<1>4. \A u \in Threads : \A a, b \in DOMAIN popBuffer'[u] :
        popBuffer'[u][a] = popBuffer'[u][b] => a = b
  BY DEF Located
<1>5. \A x \in M : In("popBuffer", t, x) /\ \E l, j : Goes(x, "popBuffer", t, l, j)
  BY <1>3
<1> HIDE DEF M
<1> QED BY <1>1, <1>2, <1>4, <1>5, Moves

\* A step that moves no element.
LEMMA NothingMoves ==
    ASSUME Located, MQTypeOK, UNCHANGED <<heap, buffer, todo, popBuffer, taken, pushed>>
    PROVE  Located'
PROOF BY DEF Located, In

\* What Draws is about is the same for thread u.
SameDraws(u) ==
    UNCHANGED <<kind, pc[u], pushQ[u], popQ[u], cand[u], pair[u], popBuffer[u], buffer[u],
                attempt[u], todo[u]>>

LEMMA OtherDraws ==
    ASSUME Draws, NEW t \in Threads, DrawsAt(t)', \A u \in Threads \ {t} : SameDraws(u)
    PROVE  Draws'
PROOF BY DEF Draws, DrawsAt, PushBuffered, SameDraws

\* A step that moves t between labels without a lock.
LEMMA QuietStep ==
    ASSUME IInv, NEW t \in Threads, MQTypeOK', DrawsAt(t)',
           UNCHANGED <<kind, shared, popBuffer, buffer, todo, taken, pushed>>,
           pc[t] \notin Critical, pc'[t] \notin Critical,
           \A u \in Threads \ {t} : SameDraws(u)
    PROVE  IInv'
PROOF
<1>1. Draws'
  BY OtherDraws DEF IInv
<1>2. LocksReleased' /\ MinKept'
  BY NoLockStep DEF IInv, SameDraws
<1>3. Located' /\ BatchOrder'
  BY NothingMoves DEF IInv, BatchOrder, PushBuffered, shared
<1> QED BY <1>1, <1>2, <1>3 DEF IInv

-----------------------------------------------------------------------------
(* The steps of push.                                                      *)

LEMMA PushBeginStep ==
    ASSUME IInv, NEW t \in Threads, NEW range \in SUBSET Tasks, PushBegin(t, range)
    PROVE  IInv'
PROOF
<1>1. MQTypeOK' /\ Draws'
  <2>1. /\ pushQ' \in [Threads -> Nat \cup {None}] /\ pushQ'[t] \in Queues
        /\ \A u \in Threads \ {t} : pushQ'[u] = pushQ[u]
    BY QueuesType DEF IInv, MQTypeOK, Draws, DrawsAt, PushBuffered, PushBegin
  <2>2. /\ pc' = [pc EXCEPT ![t] = IF PushBuffered THEN "fill" ELSE "push"]
        /\ UNCHANGED <<kind, heap, min, lock, popBuffer, buffer, popQ, draws, taken>>
    BY DEF IInv, MQTypeOK, PushBegin, Goto, shared
  <2>3. MQTypeOK'
    BY <2>1, <2>2 DEF IInv, MQTypeOK, PushBegin, draws
  <2>4. DrawsAt(t)'
    <3>1. pc'[t] = IF PushBuffered THEN "fill" ELSE "push"
      BY <2>2 DEF IInv, MQTypeOK
    <3>2. PushBuffered' = PushBuffered
      BY <2>2 DEF PushBuffered
    <3> QED BY <2>1, <2>2, <3>1, <3>2, QueuesType DEF IInv, Draws, DrawsAt, draws, Searching, Critical
  <2>5. \A u \in Threads \ {t} : SameDraws(u)
    BY <2>1, <2>2 DEF IInv, MQTypeOK, PushBegin, draws, SameDraws
  <2>6. Draws'
    BY <2>4, <2>5, OtherDraws DEF IInv
  <2> QED BY <2>3, <2>6
<1>2. LocksReleased' /\ MinKept'
  BY NoLockStep DEF IInv, MQTypeOK, PushBegin, Goto, Critical, draws
<1>3. Located'
  <2>1. /\ UNCHANGED <<heap, buffer, popBuffer, taken>> /\ todo' = [todo EXCEPT ![t] = range]
        /\ todo \in [Threads -> SUBSET Tasks] /\ pushed' = pushed \cup range
        /\ range \subseteq Tasks \ pushed /\ Located
        /\ pushed \in SUBSET Tasks
    BY DEF IInv, MQTypeOK, PushBegin, shared
  <2>2. todo[t] = {}
    BY DEF IInv, Draws, DrawsAt, PushBuffered, PushBegin
  <2>3. \A x \in Tasks : \A k, i :
          In(k, i, x)' <=> In(k, i, x) \/ (x \in range /\ k = "todo" /\ i = t)
    BY <2>1, <2>2 DEF In
  <2>4. \A x \in range : In("todo", t, x)' /\ \A k, i : ~In(k, i, x)
    BY <2>1, <2>3 DEF Located
  <2>5. \A k, i, l, j : \A x \in Tasks : In(k, i, x)' /\ In(l, j, x)' => k = l /\ i = j
    BY <2>1, <2>3, <2>4 DEF Located
  <2> QED BY <2>1, <2>3, <2>4, <2>5 DEF Located
<1>4. BatchOrder'
  BY DEF IInv, BatchOrder, PushBegin, PushBuffered
<1> QED BY <1>1, <1>2, <1>3, <1>4 DEF IInv

LEMMA PushBatchStep ==
    ASSUME IInv, NEW t \in Threads, PushBatch(t)
    PROVE  IInv'
PROOF
<1>1. /\ pushQ[t] \in Queues /\ pushQ[t] \in Nat /\ pc[t] = "push"
      /\ MQTypeOK /\ Draws /\ Located
  BY QueuesType DEF IInv, Draws, DrawsAt, PushBuffered, PushBatch
<1>2. MQTypeOK' /\ Draws'
  <2>1. MQTypeOK'
    <3>1. heap' \in [Queues -> SUBSET Tasks] /\ todo' \in [Threads -> SUBSET Tasks]
      BY <1>1 DEF MQTypeOK, PushBatch
    <3>2. lock' \in [Queues -> Threads \cup {None}]
      BY <1>1 DEF MQTypeOK, PushBatch, Locked
    <3> QED BY <1>1, <3>1, <3>2, SMTT(20) DEF MQTypeOK, PushBatch, Goto
  <2>2. DrawsAt(t)'
    BY <1>1 DEF MQTypeOK, Draws, DrawsAt, PushBuffered, PushBatch, Goto, Searching, Critical
  <2>3. \A u \in Threads \ {t} : SameDraws(u)
    BY <1>1 DEF MQTypeOK, PushBatch, SameDraws, Goto
  <2> QED BY <1>1, <2>1, <2>2, <2>3, OtherDraws
<1>3. LocksReleased' /\ MinKept'
  BY <1>1, LockStep DEF IInv, MQTypeOK, PushBatch, Goto, Critical
<1>4. Located'
  <2>1. PICK q \in Queues, M \in SUBSET todo[t] :
          /\ heap' = [heap EXCEPT ![q] = @ \cup M]
          /\ todo' = [todo EXCEPT ![t] = @ \ M]
    BY <1>1 DEF PushBatch
  <2>2. UNCHANGED <<buffer, popBuffer, taken, pushed>>
    BY DEF PushBatch
  <2> QED BY <1>1, <2>1, <2>2, TodoToHeap
<1>5. BatchOrder'
  BY DEF IInv, BatchOrder, PushBatch, PushBuffered
<1> QED BY <1>2, <1>3, <1>4, <1>5 DEF IInv

LEMMA RedrawStep ==
    ASSUME IInv, NEW t \in Threads, Redraw(t)
    PROVE  IInv'
PROOF
<1>1. PICK q \in Queues : pushQ' = [pushQ EXCEPT ![t] = q]
  BY DEF Redraw
<1>2. MQTypeOK' /\ DrawsAt(t)'
  BY <1>1, QueuesType DEF IInv, MQTypeOK, Draws, DrawsAt, PushBuffered, Redraw, shared, draws
<1>3. \A u \in Threads \ {t} : SameDraws(u)
  BY <1>1 DEF IInv, MQTypeOK, Redraw, SameDraws, draws
<1> QED BY <1>2, <1>3, QuietStep DEF Redraw, draws, Critical

LEMMA PushLocallyStep ==
    ASSUME IInv, NEW t \in Threads, PushLocally(t)
    PROVE  IInv'
PROOF
<1>1. PICK x \in todo[t] :
        /\ buffer' = [buffer EXCEPT ![t] = @ \cup {x}] /\ todo' = [todo EXCEPT ![t] = @ \ {x}]
        /\ Goto(t, IF Cardinality(buffer[t] \cup {x}) >= PushSize THEN "flush"
                   ELSE IF todo[t] = {x} THEN "idle" ELSE "fill")
  BY DEF PushLocally
<1>2. MQTypeOK' /\ DrawsAt(t)'
  BY <1>1 DEF IInv, MQTypeOK, Draws, DrawsAt, PushBuffered, PushLocally, shared, draws, Goto, Searching, Critical
<1>3. \A u \in Threads \ {t} : SameDraws(u)
  BY <1>1 DEF IInv, MQTypeOK, PushLocally, SameDraws, draws, Goto
<1>4. Draws'
  BY <1>2, <1>3, OtherDraws DEF IInv
<1>5. pc[t] \notin Critical /\ pc'[t] \notin Critical
  BY <1>1 DEF IInv, MQTypeOK, PushLocally, Goto, Critical
<1>6. LocksReleased' /\ MinKept'
  BY <1>3, <1>5, NoLockStep DEF IInv, PushLocally, SameDraws
<1>7. Located'
  BY <1>1, TodoToBuffer DEF IInv, PushLocally, shared
<1>8. BatchOrder'
  BY DEF IInv, BatchOrder, PushLocally, PushBuffered
<1> QED BY <1>2, <1>4, <1>6, <1>7, <1>8 DEF IInv

LEMMA FlushStep ==
    ASSUME IInv, NEW t \in Threads, Flush(t)
    PROVE  IInv'
PROOF
<1>1. PICK q \in Queues :
        /\ Locked(t, q) /\ cand' = [cand EXCEPT ![t] = q]
        /\ heap' = [heap EXCEPT ![q] = @ \cup buffer[t]]
  BY DEF Flush
<1>2. MQTypeOK' /\ DrawsAt(t)'
  <2>1. lock' \in [Queues -> Threads \cup {None}] /\ cand' \in [Threads -> Nat] /\ cand'[t] = q
    BY <1>1, QueuesType DEF IInv, MQTypeOK, Locked
  <2>2. MQTypeOK'
    BY <1>1, <2>1 DEF IInv, MQTypeOK, Flush, Goto
  <2>3. DrawsAt(t)'
    BY <1>1, <2>1 DEF IInv, MQTypeOK, Draws, DrawsAt, PushBuffered, Flush, Goto, Searching, Critical
  <2> QED BY <2>2, <2>3
<1>3. \A u \in Threads \ {t} : SameDraws(u)
  BY <1>1 DEF IInv, MQTypeOK, Flush, SameDraws, Goto
<1>4. Draws'
  BY <1>2, <1>3, OtherDraws DEF IInv
<1>5. /\ pc[t] \notin Critical /\ pc'[t] = "updateMin" /\ cand'[t] = q
      /\ \A r \in Queues \ {q} : heap'[r] = heap[r]
  BY <1>1 DEF IInv, MQTypeOK, Flush, Goto, Critical
<1>6. LocksReleased' /\ MinKept'
  BY <1>1, <1>3, <1>5, LockStep DEF IInv, Flush, SameDraws
<1>7. Located'
  <2>1. buffer' = [buffer EXCEPT ![t] = @ \ buffer[t]]
    BY DEF Flush
  <2> QED BY <1>1, <2>1, BufferToHeap DEF IInv, Flush
<1>8. BatchOrder'
  BY DEF IInv, BatchOrder, Flush, PushBuffered
<1> QED BY <1>2, <1>4, <1>6, <1>7, <1>8 DEF IInv

LEMMA UpdateMinStep ==
    ASSUME IInv, NEW t \in Threads, UpdateMin(t)
    PROVE  IInv'
PROOF
<1>1. cand[t] \in Queues /\ heap[cand[t]] \in SUBSET Tasks /\ Top(heap[cand[t]]) \in 0..Dummy
  BY TopType DEF IInv, Draws, DrawsAt, PushBuffered, UpdateMin, Critical, MQTypeOK
<1>2. MQTypeOK' /\ DrawsAt(t)'
  BY <1>1 DEF IInv, MQTypeOK, Draws, DrawsAt, PushBuffered, UpdateMin, Goto, Searching, Critical, draws
<1>3. \A u \in Threads \ {t} : SameDraws(u)
  BY DEF IInv, MQTypeOK, UpdateMin, SameDraws, Goto, draws
<1>4. Draws'
  BY <1>2, <1>3, OtherDraws DEF IInv
<1>5. LocksReleased'
  BY DEF IInv, MQTypeOK, LocksReleased, UpdateMin, Goto, Critical, draws
<1>6. MinKept'
  <2>1. /\ lock[cand[t]] = t /\ min'[cand[t]] = Top(heap'[cand[t]])
        /\ \A q \in Queues \ {cand[t]} : min'[q] = min[q] /\ heap'[q] = heap[q]
    BY <1>1 DEF IInv, MQTypeOK, LocksReleased, UpdateMin, Critical
  <2>2. \A q \in Queues \ {cand[t]} : lock[q] # t /\ (lock[q] # None => lock[q] \in Threads \ {t})
    BY QueuesType DEF IInv, MQTypeOK, LocksReleased
  <2>3. lock' = lock /\ \A u \in Threads \ {t} : pc'[u] = pc[u]
    BY <1>3 DEF UpdateMin, SameDraws
  <2> QED BY <2>1, <2>2, <2>3 DEF IInv, MinKept
<1>7. Located' /\ BatchOrder'
  BY NothingMoves DEF IInv, BatchOrder, UpdateMin, PushBuffered
<1> QED BY <1>2, <1>4, <1>5, <1>6, <1>7 DEF IInv

LEMMA UnlockPreserves ==
    ASSUME IInv, NEW t \in Threads, Unlock(t)
    PROVE  IInv'
PROOF
<1>1. \/ pushQ' = pushQ /\ (todo[t] = {} \/ PushBuffered)
      \/ ~PushBuffered /\ \E q \in Queues : pushQ' = [pushQ EXCEPT ![t] = q]
  BY DEF Unlock
<1>2. MQTypeOK' /\ DrawsAt(t)'
  <2>1. /\ pushQ' \in [Threads -> Nat \cup {None}] /\ pushQ'[t] \in Queues \cup {None}
        /\ ~PushBuffered /\ todo[t] # {} => pushQ'[t] # None
    <3>1. pushQ[t] \in Queues \cup {None} /\ pushQ \in [Threads -> Nat \cup {None}]
      BY DEF IInv, MQTypeOK, Draws, DrawsAt
    <3> QED BY <1>1, <3>1, QueuesType
  <2>2. /\ pc' = [pc EXCEPT ![t] = IF todo[t] = {} THEN "idle"
                                   ELSE IF PushBuffered THEN "fill" ELSE "push"]
        /\ lock' = [lock EXCEPT ![cand[t]] = None]
        /\ UNCHANGED <<kind, heap, min, popBuffer, buffer, popQ, todo, draws, answer, pushed, taken>>
    BY DEF Unlock, Goto
  <2>3. MQTypeOK'
    BY <2>1, <2>2 DEF IInv, MQTypeOK, draws
  <2>4. DrawsAt(t)'
    BY <2>1, <2>2 DEF IInv, MQTypeOK, Draws, DrawsAt, PushBuffered, Searching, Critical, draws
  <2> QED BY <2>3, <2>4
<1>3. \A u \in Threads \ {t} : SameDraws(u)
  BY <1>1 DEF IInv, MQTypeOK, Unlock, SameDraws, Goto, draws
<1>4. Draws'
  BY <1>2, <1>3, OtherDraws DEF IInv
<1>5. pc[t] \in Critical \ {"updateMin"} /\ pc'[t] \notin Critical
  BY DEF IInv, MQTypeOK, Unlock, Goto, Critical
<1>6. LocksReleased' /\ MinKept'
  BY <1>3, <1>5, UnlockStep DEF IInv, Unlock, SameDraws
<1>7. Located' /\ BatchOrder'
  BY NothingMoves DEF IInv, BatchOrder, Unlock, PushBuffered
<1> QED BY <1>2, <1>4, <1>6, <1>7 DEF IInv

-----------------------------------------------------------------------------
(* The steps of pop.                                                       *)

LEMMA PopFromBufferStep ==
    ASSUME IInv, NEW t \in Threads, PopFromBuffer(t)
    PROVE  IInv'
PROOF
<1>1. PICK s \in Seq(Tasks) : s = popBuffer[t] /\ s # << >>
  BY DEF PopFromBuffer, IInv, MQTypeOK
<1>2. PICK y, f : y = s[Len(s)] /\ f = SubSeq(s, 1, Len(s) - 1)
  OBVIOUS
<1>3. \A i, j \in DOMAIN s : s[i] = s[j] => i = j
  BY <1>1 DEF IInv, Located
<1>4. /\ f \in Seq(Tasks) /\ y \in Elements(s) /\ y \in Tasks /\ Elements(f) = Elements(s) \ {y}
      /\ \A i \in DOMAIN f : i \in DOMAIN s /\ f[i] = s[i]
  BY <1>1, <1>2, <1>3, FrontFacts
<1>5. /\ taken' = taken \cup {y} /\ popBuffer' = [popBuffer EXCEPT ![t] = f]
      /\ popBuffer'[t] = f /\ pc[t] = "idle" /\ answer' = [answer EXCEPT ![t] = {y}]
  BY <1>1, <1>2 DEF PopFromBuffer, IInv, MQTypeOK, Return
<1>6. MQTypeOK' /\ DrawsAt(t)'
  BY <1>4, <1>5 DEF IInv, MQTypeOK, Draws, DrawsAt, PushBuffered, PopFromBuffer, shared, draws,
     Searching, Critical
<1>7. \A u \in Threads \ {t} : SameDraws(u)
  BY <1>5 DEF IInv, MQTypeOK, PopFromBuffer, SameDraws, draws
<1>8. Draws'
  BY <1>6, <1>7, OtherDraws DEF IInv
<1>9. LocksReleased' /\ MinKept'
  BY <1>5, <1>7, NoLockStep DEF IInv, PopFromBuffer, SameDraws, Critical
<1>10. \A u \in Threads \ {t} : popBuffer'[u] = popBuffer[u]
  BY <1>7 DEF SameDraws
<1>11. Located'
  <2>1. UNCHANGED <<heap, buffer, todo, pushed>>
    BY DEF PopFromBuffer, shared
  <2> QED BY <1>1, <1>3, <1>4, <1>5, <1>10, <2>1, PopBufferToClient DEF IInv
<1>12. BatchOrder'
  <2>1. kind' = kind
    BY DEF PopFromBuffer
  <2> QED BY <1>1, <1>4, <1>5, <1>10, <2>1 DEF IInv, BatchOrder, PushBuffered
<1> QED BY <1>6, <1>8, <1>9, <1>11, <1>12 DEF IInv

LEMMA PopBeginStep ==
    ASSUME IInv, NEW t \in Threads, PopBegin(t)
    PROVE  IInv'
PROOF
<1>1. /\ pc[t] = "idle"
      /\ \/ pc' = [pc EXCEPT ![t] = "pick"]
         \/ ~PopBuffered /\ pc' = [pc EXCEPT ![t] = "tryLocal"]
  BY DEF PopBegin, Goto
<1>2. /\ popQ' \in [Threads -> Nat \cup {None}] /\ popQ'[t] \in 0..nQ \cup {None}
      /\ ~PopBuffered => popQ'[t] # None
      /\ \A u \in Threads \ {t} : popQ'[u] = popQ[u]
  <2>1. \/ PopBuffered /\ popQ' = popQ
        \/ \E q \in Queues : popQ' = [popQ EXCEPT ![t] = IF @ = None THEN q ELSE @]
    BY DEF PopBegin
  <2>2. popQ \in [Threads -> Nat \cup {None}] /\ popQ[t] \in 0..nQ \cup {None}
    BY DEF IInv, MQTypeOK, Draws, DrawsAt, PushBuffered
  <2> QED BY <2>1, <2>2, QueuesType
<1>3. 0 \in 0..Attempts /\ 0 < Attempts
  BY SizesAssumption
<1>4. MQTypeOK'
  BY <1>1, <1>2, <1>3 DEF IInv, MQTypeOK, PopBegin, shared
<1>5. DrawsAt(t)'
  BY <1>1, <1>2, <1>3 DEF IInv, MQTypeOK, Draws, DrawsAt, PushBuffered, PopBegin, Searching, Critical
<1>6. \A u \in Threads \ {t} : SameDraws(u)
  BY <1>1, <1>2 DEF IInv, MQTypeOK, PopBegin, SameDraws
<1>7. pc[t] \notin Critical /\ pc'[t] \notin Critical
  BY <1>1 DEF IInv, MQTypeOK, Critical
<1> QED BY <1>4, <1>5, <1>6, <1>7, QuietStep DEF PopBegin

LEMMA ReadFirstStep ==
    ASSUME IInv, NEW t \in Threads, ReadFirst(t)
    PROVE  IInv'
PROOF
<1>1. PICK x \in 0..nQ, y \in 0..nQ : /\ pair' = [pair EXCEPT ![t] = <<x, y>>]
                                      /\ seen' = [seen EXCEPT ![t] = MinOf(t, x)]
  BY DrawnType DEF ReadFirst
<1>2. MinOf(t, x) \in 0..Dummy /\ nQ \in Nat
  BY MinOfType, QueuesType DEF IInv
<1>3. MQTypeOK' /\ DrawsAt(t)'
  <2>1. MQTypeOK'
    BY <1>1, <1>2, SMTT(20) DEF IInv, MQTypeOK, ReadFirst, shared, Goto
  <2>2. DrawsAt(t)'
    BY <1>1, <1>2, SMTT(20) DEF IInv, MQTypeOK, Draws, DrawsAt, PushBuffered, ReadFirst, Goto, Searching, Critical
  <2> QED BY <2>1, <2>2
<1>4. \A u \in Threads \ {t} : SameDraws(u)
  BY <1>1 DEF IInv, MQTypeOK, ReadFirst, SameDraws, Goto
<1>5. pc[t] \notin Critical /\ pc'[t] \notin Critical
  BY DEF IInv, MQTypeOK, ReadFirst, Goto, Critical
<1> QED BY <1>3, <1>4, <1>5, QuietStep DEF ReadFirst

LEMMA ReadSecondStep ==
    ASSUME IInv, NEW t \in Threads, ReadSecond(t)
    PROVE  IInv'
PROOF
<1>1. PICK q \in 0..nQ : cand' = [cand EXCEPT ![t] = q]
  BY DEF ReadSecond, IInv, Draws, DrawsAt, PushBuffered
<1>2. nQ \in Nat /\ Dummy \in 0..Dummy /\ 0 \in 0..nQ
  BY QueuesType, TasksAssumption
<1>3. MQTypeOK' /\ DrawsAt(t)'
  <2>1. MQTypeOK'
    BY <1>1, <1>2 DEF IInv, MQTypeOK, ReadSecond, shared, Goto
  <2>2. DrawsAt(t)'
    BY <1>1, <1>2 DEF IInv, MQTypeOK, Draws, DrawsAt, PushBuffered, ReadSecond, Goto, Searching, Critical
  <2> QED BY <2>1, <2>2
<1>4. \A u \in Threads \ {t} : SameDraws(u)
  BY <1>1 DEF IInv, MQTypeOK, ReadSecond, SameDraws, Goto
<1>5. pc[t] \notin Critical /\ pc'[t] \notin Critical
  BY DEF IInv, MQTypeOK, ReadSecond, Goto, Critical
<1> QED BY <1>3, <1>4, <1>5, QuietStep DEF ReadSecond

\* What the first element of a batch and the rest of it are.
LEMMA BatchFacts ==
    ASSUME NEW S \in SUBSET Tasks, S # {}, NEW n \in Nat \ {0}, NEW s \in Extractions(S, n)
    PROVE  /\ s[1] \in S /\ s \in Seq(Tasks) /\ s # << >>
           /\ Elements(s) = (Elements(s) \ {s[1]}) \cup {s[1]}
           /\ Elements(s) \ {s[1]} \in SUBSET (S \ {s[1]})
           /\ Tail(s) \in Seq(Tasks) /\ Elements(Tail(s)) = Elements(s) \ {s[1]}
           /\ \A i, j \in DOMAIN Tail(s) : Tail(s)[i] = Tail(s)[j] => i = j
           /\ \A i, j \in DOMAIN Tail(s) : i < j => Prio[Tail(s)[i]] <= Prio[Tail(s)[j]]
PROOF
<1>1. /\ s \in Seq(Tasks) /\ Elements(s) \subseteq S /\ s # << >> /\ s[1] \in S
      /\ \A i, j \in DOMAIN s : s[i] = s[j] => i = j
      /\ \A i, j \in DOMAIN s : i < j => Prio[s[i]] <= Prio[s[j]]
  BY ExtractionFacts
<1>2. /\ Tail(s) \in Seq(Tasks) /\ Elements(Tail(s)) = Elements(s) \ {s[1]}
      /\ \A i, j \in DOMAIN Tail(s) : Tail(s)[i] = Tail(s)[j] => i = j
  BY <1>1, TailFacts
<1>3. \A i \in DOMAIN Tail(s) : i \in Nat /\ i + 1 \in DOMAIN s /\ Tail(s)[i] = s[i + 1]
  BY <1>1
<1>4. \A i, j \in DOMAIN Tail(s) : i < j => Prio[Tail(s)[i]] <= Prio[Tail(s)[j]]
  BY <1>1, <1>3
<1>5. s[1] \in Elements(s)
  BY <1>1 DEF Elements
<1> QED BY <1>1, <1>2, <1>4, <1>5

LEMMA PopNonEmptyStep ==
    ASSUME IInv, NEW t \in Threads, pc[t] \in {"tryLocal", "tryLock"}, NEW q, PopNonEmpty(t, q)
    PROVE  IInv'
PROOF
<1> PICK n \in Nat \ {0} : n = IF PopBuffered THEN PopSize ELSE 1
  BY SizesAssumption
<1>1. PICK s \in Extractions(heap[q], n) :
        /\ Return(t, s[1]) /\ popBuffer' = [popBuffer EXCEPT ![t] = Reversed(Tail(s))]
        /\ heap' = [heap EXCEPT ![q] = @ \ Elements(s)]
  BY DEF PopNonEmpty, ExtractMin
<1>2. PICK y, B : y = s[1] /\ B = Elements(s) \ {s[1]}
  OBVIOUS
<1>3. PICK u, r : u = Tail(s) /\ r = Reversed(Tail(s))
  OBVIOUS
<1>4. q \in Queues /\ heap[q] \in SUBSET Tasks /\ heap[q] # {} /\ popBuffer[t] = << >>
  BY DEF PopNonEmpty, IInv, MQTypeOK, Draws, DrawsAt, PushBuffered, Searching
<1>5. /\ y \in heap[q] /\ B \in SUBSET (heap[q] \ {y}) /\ Elements(s) = B \cup {y}
      /\ u \in Seq(Tasks) /\ Elements(u) = B
      /\ \A i, j \in DOMAIN u : u[i] = u[j] => i = j
      /\ \A i, j \in DOMAIN u : i < j => Prio[u[i]] <= Prio[u[j]]
  <2>1. /\ s[1] \in heap[q] /\ Elements(s) = (Elements(s) \ {s[1]}) \cup {s[1]}
        /\ Elements(s) \ {s[1]} \in SUBSET (heap[q] \ {s[1]})
        /\ Tail(s) \in Seq(Tasks) /\ Elements(Tail(s)) = Elements(s) \ {s[1]}
        /\ \A i, j \in DOMAIN Tail(s) : Tail(s)[i] = Tail(s)[j] => i = j
        /\ \A i, j \in DOMAIN Tail(s) : i < j => Prio[Tail(s)[i]] <= Prio[Tail(s)[j]]
    BY <1>4, BatchFacts, ZenonT(40)
  <2> QED BY <2>1, <1>2, <1>3
<1>6. /\ r \in Seq(Tasks) /\ Elements(r) = B /\ DOMAIN r = DOMAIN u
      /\ \A i \in DOMAIN u : Len(u) + 1 - i \in DOMAIN u /\ r[i] = u[Len(u) + 1 - i]
  BY <1>3, <1>5, ReversedFacts
<1>7. /\ \A i, j \in DOMAIN r : r[i] = r[j] => i = j
      /\ \A i, j \in DOMAIN r : i < j => Prio[r[j]] <= Prio[r[i]]
  <2>1. Len(u) \in Nat /\ DOMAIN u = 1..Len(u)
    BY <1>5
  <2>2. \A i, j \in 1..Len(u) : /\ i # j => Len(u) + 1 - i # Len(u) + 1 - j
                                /\ i < j => Len(u) + 1 - j < Len(u) + 1 - i
    BY <2>1
  <2>3. \A i, j \in DOMAIN r : r[i] = r[j] => i = j
    BY <2>1, <2>2, <1>5, <1>6
  <2>4. ASSUME NEW i \in DOMAIN r, NEW j \in DOMAIN r, i < j
        PROVE  Prio[r[j]] <= Prio[r[i]]
    <3>1. PICK a \in DOMAIN u, b \in DOMAIN u : a = Len(u) + 1 - i /\ b = Len(u) + 1 - j
      BY <1>6
    <3>2. b < a /\ r[i] = u[a] /\ r[j] = u[b]
      BY <1>6, <2>1, <2>2, <2>4, <3>1
    <3> QED BY <3>2, <1>5
  <2> QED BY <2>3, <2>4
<1>8. /\ taken' = taken \cup {y} /\ answer' = [answer EXCEPT ![t] = {y}]
      /\ popBuffer' = [popBuffer EXCEPT ![t] = r] /\ heap' = [heap EXCEPT ![q] = @ \ (B \cup {y})]
      /\ Locked(t, q) /\ cand' = [cand EXCEPT ![t] = q]
      /\ pc' = [pc EXCEPT ![t] = "updateMin"]
      /\ popQ' = popQ \/ popQ' = [popQ EXCEPT ![t] = q]
      /\ UNCHANGED <<kind, min, buffer, pushQ, todo, pair, seen, attempt, pushed>>
  BY <1>1, <1>2, <1>3, <1>5 DEF PopNonEmpty, Return, ExtractMin, Goto
<1>9. MQTypeOK'
  <2>1. /\ heap' \in [Queues -> SUBSET Tasks] /\ lock' \in [Queues -> Threads \cup {None}]
        /\ popQ' \in [Threads -> Nat \cup {None}] /\ cand' \in [Threads -> Nat]
    <3>1. q \in Nat /\ q \in Queues /\ t \in Threads
      BY <1>4, QueuesType
    <3>2. heap' \in [Queues -> SUBSET Tasks] /\ cand' \in [Threads -> Nat]
      BY <1>8, <3>1 DEF IInv, MQTypeOK
    <3>3. lock' \in [Queues -> Threads \cup {None}]
      BY <1>8, <3>1 DEF IInv, MQTypeOK, Locked
    <3>4. popQ' \in [Threads -> Nat \cup {None}]
      BY <1>8, <3>1 DEF IInv, MQTypeOK
    <3> QED BY <3>2, <3>3, <3>4
  <2>2. y \in Tasks /\ popBuffer' \in [Threads -> Seq(Tasks)]
    BY <1>4, <1>5, <1>6, <1>8 DEF IInv, MQTypeOK
  <2>3. /\ pc' \in [Threads -> {"idle", "push", "fill", "flush", "updateMin", "unlock", "pick",
                               "compare", "tryLocal", "tryLock", "release", "releaseLocal",
                               "last", "spread"}]
        /\ answer' \in [Threads -> SUBSET Tasks] /\ taken' \in SUBSET Tasks
    BY <1>8, <2>2 DEF IInv, MQTypeOK
  <2>4. UNCHANGED <<kind, min, buffer, pushQ, todo, pair, seen, attempt, pushed>>
    BY <1>8
  <2> HIDE DEF Queues
  <2> QED BY <2>1, <2>2, <2>3, <2>4 DEF IInv, MQTypeOK
<1>10. DrawsAt(t)'
  BY <1>4, <1>8, QueuesType DEF IInv, MQTypeOK, Draws, DrawsAt, PushBuffered, Searching, Critical
<1>11. \A v \in Threads \ {t} : SameDraws(v)
  BY <1>8 DEF IInv, MQTypeOK, SameDraws
<1>12. Draws'
  BY <1>10, <1>11, OtherDraws DEF IInv
<1>13. LocksReleased' /\ MinKept'
  <2>1. /\ pc[t] \notin Critical /\ pc'[t] = "updateMin" /\ cand'[t] = q
        /\ \A p \in Queues \ {q} : heap'[p] = heap[p]
    BY <1>8 DEF IInv, MQTypeOK, Critical
  <2> QED BY <1>4, <1>8, <1>11, <2>1, LockStep DEF IInv, SameDraws
<1>14. popBuffer'[t] = r /\ \A v \in Threads \ {t} : popBuffer'[v] = popBuffer[v]
  BY <1>8 DEF IInv, MQTypeOK
<1>15. Located'
  <2>1. Elements(popBuffer[t]) = {}
    BY <1>4 DEF Elements
  <2>2. Elements(popBuffer'[t]) = B
    BY <1>6, <1>14
  <2>3. \A i, j \in DOMAIN popBuffer'[t] : popBuffer'[t][i] = popBuffer'[t][j] => i = j
    BY <1>7, <1>14
  <2>4. /\ heap' = [heap EXCEPT ![q] = @ \ (B \cup {y})] /\ taken' = taken \cup {y}
        /\ UNCHANGED <<buffer, todo, pushed>>
    BY <1>8
  <2> QED BY <1>4, <1>5, <1>14, <2>1, <2>2, <2>3, <2>4, HeapToPop DEF IInv
<1>16. BatchOrder'
  BY <1>7, <1>8, <1>14 DEF IInv, BatchOrder, PushBuffered
<1> QED BY <1>9, <1>12, <1>13, <1>15, <1>16 DEF IInv

LEMMA PopOwnStep ==
    ASSUME IInv, NEW t \in Threads, pc[t] \in {"tryLocal", "tryLock"}, PopOwn(t)
    PROVE  IInv'
PROOF
<1>1. PICK x \in buffer[t] : Return(t, x) /\ buffer' = [buffer EXCEPT ![t] = @ \ {x}]
  BY DEF PopOwn, Firsts
<1>2. /\ x \in Tasks /\ Own \in Nat /\ Own \in 0..nQ /\ popBuffer[t] = << >>
  BY QueuesType DEF IInv, MQTypeOK, Draws, DrawsAt, Searching, Own
<1>3. /\ pc' = [pc EXCEPT ![t] = "idle"] /\ popQ' = [popQ EXCEPT ![t] = Own]
      /\ taken' = taken \cup {x} /\ answer' = [answer EXCEPT ![t] = {x}]
      /\ UNCHANGED <<kind, shared, popBuffer, pushQ, todo, draws, pushed>>
  BY <1>1 DEF PopOwn, Return, Goto
<1>4. MQTypeOK'
  BY <1>1, <1>2, <1>3 DEF IInv, MQTypeOK, shared, draws
<1>5. DrawsAt(t)'
  BY <1>1, <1>2, <1>3 DEF IInv, MQTypeOK, Draws, DrawsAt, PushBuffered, Searching, Critical, draws
<1>6. \A u \in Threads \ {t} : SameDraws(u)
  BY <1>1, <1>3 DEF IInv, MQTypeOK, SameDraws, draws
<1>7. Draws'
  BY <1>5, <1>6, OtherDraws DEF IInv
<1>8. pc[t] \notin Critical /\ pc'[t] \notin Critical
  BY <1>3 DEF IInv, MQTypeOK, Critical
<1>9. LocksReleased' /\ MinKept'
  BY <1>3, <1>6, <1>8, NoLockStep DEF IInv, SameDraws
<1>10. Located'
  <2>1. /\ Elements(popBuffer[t]) = {} /\ popBuffer' = popBuffer
        /\ \A i, j \in DOMAIN popBuffer'[t] : popBuffer'[t][i] = popBuffer'[t][j] => i = j
    BY <1>2, <1>3 DEF Elements
  <2>2. {} \in SUBSET (buffer[t] \ {x}) /\ {} \cup {x} = {x}
    OBVIOUS
  <2>3. buffer' = [buffer EXCEPT ![t] = @ \ ({} \cup {x})]
    BY <1>1, <2>2
  <2>4. UNCHANGED <<heap, todo, pushed>>
    BY <1>3 DEF shared
  <2> QED BY <1>3, <2>1, <2>2, <2>3, <2>4, BufferToPop DEF IInv
<1>11. BatchOrder'
  BY <1>3 DEF IInv, BatchOrder, PushBuffered
<1> QED BY <1>4, <1>7, <1>9, <1>10, <1>11 DEF IInv

LEMMA PopEmptyStep ==
    ASSUME IInv, NEW t \in Threads, pc[t] \in {"tryLocal", "tryLock"}, NEW q,
           NEW release \in {"release", "releaseLocal"}, PopEmpty(t, q, release)
    PROVE  IInv'
PROOF
<1>1. /\ q \in Queues /\ q \in Nat /\ Locked(t, q) /\ heap[q] = {}
      /\ cand' = [cand EXCEPT ![t] = q] /\ pc' = [pc EXCEPT ![t] = release]
      /\ UNCHANGED <<kind, heap, min, popBuffer, buffer, pushQ, popQ, todo, pair, seen, attempt,
                     answer, pushed, taken>>
  BY QueuesType DEF PopEmpty, Goto
<1>2. lock' \in [Queues -> Threads \cup {None}]
  BY <1>1 DEF IInv, MQTypeOK, Locked
<1>3. MQTypeOK'
  BY <1>1, <1>2 DEF IInv, MQTypeOK
<1>4. DrawsAt(t)'
  BY <1>1 DEF IInv, MQTypeOK, Draws, DrawsAt, PushBuffered, Searching, Critical
<1>5. \A u \in Threads \ {t} : SameDraws(u)
  BY <1>1 DEF IInv, MQTypeOK, SameDraws
<1>6. Draws'
  BY <1>4, <1>5, OtherDraws DEF IInv
<1>7. /\ lock'[q] = t /\ lock[q] = None /\ \A r \in Queues \ {q} : lock'[r] = lock[r]
      /\ pc'[t] = release /\ cand'[t] = q /\ t # None
  BY <1>1, QueuesType DEF Locked, IInv, MQTypeOK
<1>8. \A r \in Queues : lock[r] # t /\ (lock[r] # None => lock[r] \in Threads \ {t})
  <2>1. pc[t] \notin Critical
    BY DEF Critical
  <2> QED BY <2>1, QueuesType DEF IInv, LocksReleased, MQTypeOK
<1>9. LocksReleased'
  <2>1. \A r \in Queues : lock'[r] # None => pc'[lock'[r]] \in Critical /\ cand'[lock'[r]] = r
    BY <1>5, <1>7, <1>8 DEF IInv, LocksReleased, Critical, SameDraws
  <2>2. ASSUME NEW u \in Threads, pc'[u] \in Critical PROVE lock'[cand'[u]] = u
    <3>1. CASE u = t
      BY <1>7, <3>1
    <3>2. CASE u # t
      <4>1. pc[u] \in Critical /\ cand'[u] = cand[u] /\ cand[u] \in Queues /\ lock[cand[u]] = u
        BY <1>5, <2>2, <3>2 DEF IInv, LocksReleased, SameDraws, Draws, DrawsAt
      <4> QED BY <1>7, <4>1, <3>2, QueuesType
    <3> QED BY <3>1, <3>2
  <2> QED BY <2>1, <2>2 DEF LocksReleased, Critical
<1>10. MinKept'
  <2>1. min[q] = Top(heap[q])
    BY <1>1, <1>7 DEF IInv, MinKept
  <2> QED BY <1>1, <1>5, <1>7, <1>8, <2>1 DEF IInv, MinKept, SameDraws
<1>11. Located' /\ BatchOrder'
  BY <1>1, NothingMoves DEF IInv, BatchOrder, PushBuffered
<1> QED BY <1>3, <1>6, <1>9, <1>10, <1>11 DEF IInv

LEMMA NextAttemptFacts ==
    ASSUME IInv, NEW t \in Threads, pc[t] \in Searching \ {"last"}, NextAttempt(t)
    PROVE  /\ attempt' = [attempt EXCEPT ![t] = attempt[t] + 1] /\ attempt[t] + 1 \in 0..Attempts
           /\ \/ pc' = [pc EXCEPT ![t] = "last"]
              \/ pc' = [pc EXCEPT ![t] = "pick"] /\ attempt[t] + 1 < Attempts
PROOF
<1>1. attempt[t] \in 0..Attempts /\ attempt[t] < Attempts /\ Attempts \in Nat
  BY SizesAssumption DEF IInv, MQTypeOK, Draws, DrawsAt
<1>2. attempt[t] + 1 \in 0..Attempts
  BY <1>1
<1>3. /\ attempt' = [attempt EXCEPT ![t] = attempt[t] + 1]
      /\ pc' = [pc EXCEPT ![t] = IF attempt[t] + 1 < Attempts THEN "pick" ELSE "last"]
  BY DEF NextAttempt, Goto
<1> QED BY <1>2, <1>3

LEMMA NoHeapStep ==
    ASSUME IInv, NEW t \in Threads, pc[t] \in {"tryLocal", "tryLock"}, NEW q, NoHeap(t, q),
           \/ NextAttempt(t)
           \/ Goto(t, "pick") /\ UNCHANGED attempt
    PROVE  IInv'
PROOF
<1>1. /\ attempt' \in [Threads -> 0..Attempts]
      /\ \A u \in Threads \ {t} : attempt'[u] = attempt[u]
      /\ \/ pc' = [pc EXCEPT ![t] = "last"]
         \/ pc' = [pc EXCEPT ![t] = "pick"] /\ attempt'[t] < Attempts
  <2>1. CASE NextAttempt(t)
    BY <2>1, NextAttemptFacts, ZenonT(40) DEF IInv, MQTypeOK, Searching
  <2>2. CASE Goto(t, "pick") /\ UNCHANGED attempt
    BY <2>2 DEF IInv, MQTypeOK, Goto, Draws, DrawsAt, Searching
  <2> QED BY <2>1, <2>2
<1>2. MQTypeOK'
  BY <1>1 DEF IInv, MQTypeOK, NoHeap, shared
<1>3. DrawsAt(t)'
  BY <1>1 DEF IInv, MQTypeOK, Draws, DrawsAt, PushBuffered, NoHeap, Searching, Critical
<1>4. \A u \in Threads \ {t} : SameDraws(u)
  BY <1>1 DEF IInv, MQTypeOK, SameDraws, NoHeap
<1>5. pc[t] \notin Critical /\ pc'[t] \notin Critical
  BY <1>1 DEF IInv, MQTypeOK, Critical
<1> QED BY <1>2, <1>3, <1>4, <1>5, QuietStep DEF NoHeap

LEMMA ReleaseStep ==
    ASSUME IInv, NEW t \in Threads, Release(t)
    PROVE  IInv'
PROOF
<1>1. /\ attempt' \in [Threads -> 0..Attempts]
      /\ \A u \in Threads \ {t} : attempt'[u] = attempt[u]
      /\ \/ pc' = [pc EXCEPT ![t] = "last"]
         \/ pc' = [pc EXCEPT ![t] = "pick"] /\ attempt'[t] < Attempts
  <2>1. CASE NextAttempt(t)
    BY <2>1, NextAttemptFacts, ZenonT(40) DEF IInv, MQTypeOK, Searching, Release
  <2>2. CASE Goto(t, "pick") /\ UNCHANGED attempt
    BY <2>2 DEF IInv, MQTypeOK, Goto, Draws, DrawsAt, Searching, Release
  <2> QED BY <2>1, <2>2 DEF Release
<1>2. MQTypeOK'
  BY <1>1 DEF IInv, MQTypeOK, Release
<1>3. DrawsAt(t)'
  BY <1>1 DEF IInv, MQTypeOK, Draws, DrawsAt, PushBuffered, Release, Searching, Critical
<1>4. \A u \in Threads \ {t} : SameDraws(u)
  BY <1>1 DEF IInv, MQTypeOK, SameDraws, Release
<1>5. Draws'
  BY <1>3, <1>4, OtherDraws DEF IInv
<1>6. pc[t] \in Critical \ {"updateMin"} /\ pc'[t] \notin Critical
  BY <1>1 DEF IInv, MQTypeOK, Critical, Release
<1>7. LocksReleased' /\ MinKept'
  BY <1>4, <1>6, UnlockStep DEF IInv, Release, SameDraws
<1>8. Located' /\ BatchOrder'
  BY NothingMoves DEF IInv, BatchOrder, Release, PushBuffered
<1> QED BY <1>2, <1>5, <1>7, <1>8 DEF IInv

LEMMA LastStep ==
    ASSUME IInv, NEW t \in Threads, Last(t)
    PROVE  IInv'
PROOF
<1>1. /\ pc[t] = "last" /\ popBuffer[t] = << >> /\ todo[t] = {}
      /\ UNCHANGED <<kind, shared, pushQ, popQ, todo, draws, pushed>>
  BY DEF Last, IInv, Draws, DrawsAt, Searching
<1>2. pc[t] \notin Critical
  BY <1>1 DEF Critical
<1>3. CASE buffer[t] = {}
  <2>1. pc' = [pc EXCEPT ![t] = "idle"] /\ UNCHANGED <<popBuffer, buffer, answer, taken>>
    BY <1>3 DEF Last, Goto
  <2>2. MQTypeOK' /\ DrawsAt(t)' /\ pc'[t] \notin Critical
    BY <1>1, <2>1 DEF IInv, MQTypeOK, Draws, DrawsAt, PushBuffered, shared, draws, Searching, Critical
  <2>3. \A u \in Threads \ {t} : SameDraws(u)
    BY <1>1, <2>1 DEF IInv, MQTypeOK, SameDraws, draws
  <2> QED BY <1>1, <1>2, <2>1, <2>2, <2>3, QuietStep
<1>4. CASE buffer[t] # {}
  <2> PICK n \in Nat \ {0} : n = IF PopBuffered THEN PopSize + 1 ELSE 1
    BY SizesAssumption
  <2>1. PICK s \in Extractions(buffer[t], n) :
          /\ Return(t, s[1]) /\ popBuffer' = [popBuffer EXCEPT ![t] = Tail(s)]
          /\ buffer' = [buffer EXCEPT ![t] = @ \ Elements(s)]
          /\ \E l \in {"idle", "spread"} : pc' = [pc EXCEPT ![t] = l]
    BY <1>4 DEF Last, Goto
  <2>2. PICK y, B, u : y = s[1] /\ B = Elements(s) \ {s[1]} /\ u = Tail(s)
    OBVIOUS
  <2>3. /\ s[1] \in buffer[t] /\ Elements(s) = (Elements(s) \ {s[1]}) \cup {s[1]}
        /\ Elements(s) \ {s[1]} \in SUBSET (buffer[t] \ {s[1]})
        /\ Tail(s) \in Seq(Tasks) /\ Elements(Tail(s)) = Elements(s) \ {s[1]}
        /\ \A i, j \in DOMAIN Tail(s) : Tail(s)[i] = Tail(s)[j] => i = j
    <3>1. buffer[t] \in SUBSET Tasks
      BY DEF IInv, MQTypeOK
    <3> QED BY <1>4, <3>1, BatchFacts
  <2>4. /\ y \in buffer[t] /\ B \in SUBSET (buffer[t] \ {y}) /\ u \in Seq(Tasks) /\ Elements(u) = B
        /\ \A i, j \in DOMAIN u : u[i] = u[j] => i = j
        /\ taken' = taken \cup {y} /\ answer' = [answer EXCEPT ![t] = {y}]
        /\ popBuffer' = [popBuffer EXCEPT ![t] = u] /\ buffer' = [buffer EXCEPT ![t] = @ \ (B \cup {y})]
    BY <2>1, <2>2, <2>3 DEF Return
  <2>5. y \in Tasks
    BY <2>4 DEF IInv, MQTypeOK
  <2>6. MQTypeOK'
    <3>1. popBuffer' \in [Threads -> Seq(Tasks)] /\ buffer' \in [Threads -> SUBSET Tasks]
      BY <2>4 DEF IInv, MQTypeOK
    <3>2. answer' \in [Threads -> SUBSET Tasks] /\ taken' \in SUBSET Tasks
      BY <2>4, <2>5 DEF IInv, MQTypeOK
    <3>3. pc' = [pc EXCEPT ![t] = "idle"] \/ pc' = [pc EXCEPT ![t] = "spread"]
      BY <2>1
    <3> QED BY <1>1, <3>1, <3>2, <3>3 DEF IInv, MQTypeOK, shared, draws
  <2>7. PushBuffered
    BY <1>4 DEF IInv, Draws, DrawsAt
  <2>8. DrawsAt(t)'
    BY <1>1, <2>1, <2>4, <2>7 DEF IInv, MQTypeOK, Draws, DrawsAt, PushBuffered, draws, Searching, Critical
  <2>9. \A v \in Threads \ {t} : SameDraws(v)
    BY <1>1, <2>1, <2>4 DEF IInv, MQTypeOK, SameDraws, draws
  <2>10. Draws'
    BY <2>8, <2>9, OtherDraws DEF IInv
  <2>11. pc'[t] \notin Critical
    BY <2>1 DEF IInv, MQTypeOK, Critical
  <2>12. LocksReleased' /\ MinKept'
    BY <1>1, <1>2, <2>9, <2>11, NoLockStep DEF IInv, SameDraws
  <2>13. Located'
    <3>1. popBuffer'[t] = u /\ \A v \in Threads \ {t} : popBuffer'[v] = popBuffer[v]
      BY <2>4 DEF IInv, MQTypeOK
    <3>2. Elements(popBuffer[t]) = {} /\ Elements(popBuffer'[t]) = B
      BY <1>1, <2>4, <3>1 DEF Elements
    <3>3. \A i, j \in DOMAIN popBuffer'[t] : popBuffer'[t][i] = popBuffer'[t][j] => i = j
      BY <2>4, <3>1
    <3>4. UNCHANGED <<heap, todo, pushed>>
      BY <1>1 DEF shared
    <3> QED BY <2>4, <3>1, <3>2, <3>3, <3>4, BufferToPop DEF IInv
  <2>14. BatchOrder'
    BY <1>1, <2>7 DEF BatchOrder, PushBuffered
  <2> QED BY <2>6, <2>10, <2>12, <2>13, <2>14 DEF IInv
<1> QED BY <1>3, <1>4

LEMMA SpreadStep ==
    ASSUME IInv, NEW t \in Threads, Spread(t)
    PROVE  IInv'
PROOF
<1>1. PICK q \in Queues, M \in SUBSET buffer[t] :
        /\ Locked(t, q) /\ cand' = [cand EXCEPT ![t] = q]
        /\ heap' = [heap EXCEPT ![q] = @ \cup M] /\ buffer' = [buffer EXCEPT ![t] = @ \ M]
  <2>1. PICK q \in Queues : \E s \in Extractions(buffer[t], 4) :
          /\ Locked(t, q) /\ cand' = [cand EXCEPT ![t] = q]
          /\ heap' = [heap EXCEPT ![q] = @ \cup Elements(s)]
          /\ buffer' = [buffer EXCEPT ![t] = @ \ Elements(s)]
    BY DEF Spread
  <2>2. \A s \in Extractions(buffer[t], 4) : Elements(s) \in SUBSET buffer[t]
    <3>1. buffer[t] \in SUBSET Tasks /\ 4 \in Nat
      BY DEF IInv, MQTypeOK
    <3> QED BY <3>1, ExtractionFacts
  <2> QED BY <2>1, <2>2
<1>2. MQTypeOK' /\ DrawsAt(t)'
  <2>1. lock' \in [Queues -> Threads \cup {None}] /\ cand' \in [Threads -> Nat] /\ cand'[t] = q
    BY <1>1, QueuesType DEF IInv, MQTypeOK, Locked
  <2>2. MQTypeOK'
    BY <1>1, <2>1 DEF IInv, MQTypeOK, Spread, Goto
  <2>3. DrawsAt(t)'
    BY <1>1, <2>1 DEF IInv, MQTypeOK, Draws, DrawsAt, PushBuffered, Spread, Goto, Searching, Critical
  <2> QED BY <2>2, <2>3
<1>3. \A u \in Threads \ {t} : SameDraws(u)
  BY <1>1 DEF IInv, MQTypeOK, Spread, SameDraws, Goto
<1>4. Draws'
  BY <1>2, <1>3, OtherDraws DEF IInv
<1>5. /\ pc[t] \notin Critical /\ pc'[t] = "updateMin" /\ cand'[t] = q
      /\ \A r \in Queues \ {q} : heap'[r] = heap[r]
  BY <1>1 DEF IInv, MQTypeOK, Spread, Goto, Critical
<1>6. LocksReleased' /\ MinKept'
  BY <1>1, <1>3, <1>5, LockStep DEF IInv, Spread, SameDraws
<1>7. Located'
  BY <1>1, BufferToHeap DEF IInv, Spread
<1>8. BatchOrder'
  BY DEF IInv, BatchOrder, Spread, PushBuffered
<1> QED BY <1>2, <1>4, <1>6, <1>7, <1>8 DEF IInv

-----------------------------------------------------------------------------
(* The invariant.                                                          *)

LEMMA InitInvariant == MQInit => IInv
PROOF
<1> SUFFICES ASSUME MQInit PROVE IInv
  OBVIOUS
<1>1. Dummy \in 0..Dummy /\ Attempts \in Nat /\ 0 \in 0..Attempts /\ 0 < Attempts /\ Top({}) = Dummy
  BY TasksAssumption, SizesAssumption DEF Top
<1>2. << >> \in Seq(Tasks) /\ Elements(<< >>) = {} /\ DOMAIN << >> = {}
  BY DEF Elements
<1>3. MQTypeOK
  BY <1>1, <1>2 DEF MQInit, MQTypeOK
<1>4. Draws
  <2>1. nQ \in Nat
    BY QueuesType
  <2> QED BY <1>1, <2>1 DEF MQInit, Draws, DrawsAt, Searching, Critical
<1>5. LocksReleased /\ MinKept
  BY <1>1 DEF MQInit, LocksReleased, MinKept, Critical
<1>6. Located /\ BatchOrder
  BY <1>2 DEF MQInit, Located, In, BatchOrder
<1> QED BY <1>3, <1>4, <1>5, <1>6 DEF IInv

LEMMA NextInvariant == IInv /\ [MQNext]_mqVars => IInv'
PROOF
<1> SUFFICES ASSUME IInv, [MQNext]_mqVars PROVE IInv'
  OBVIOUS
<1>1. ASSUME NEW t \in Threads, NEW range \in SUBSET Tasks, PushBegin(t, range) PROVE IInv'
  BY <1>1, PushBeginStep
<1>2. ASSUME NEW t \in Threads, Pop(t) PROVE IInv'
  BY <1>2, PopFromBufferStep, PopBeginStep DEF Pop
<1>3. ASSUME NEW t \in Threads, TryLocal(t) PROVE IInv'
  <2>1. PICK q : q = popQ[t]
    OBVIOUS
  <2>2. pc[t] \in {"tryLocal", "tryLock"} /\ "releaseLocal" \in {"release", "releaseLocal"}
    BY <1>3 DEF TryLocal
  <2>3. CASE PopNonEmpty(t, q)
    BY <2>2, <2>3, PopNonEmptyStep
  <2>4. CASE PopOwn(t)
    BY <2>2, <2>4, PopOwnStep
  <2>5. CASE PopEmpty(t, q, "releaseLocal")
    BY <2>2, <2>5, PopEmptyStep
  <2>6. CASE NoHeap(t, q) /\ Goto(t, "pick") /\ UNCHANGED attempt
    BY <2>2, <2>6, NoHeapStep
  <2> QED BY <1>3, <2>1, <2>3, <2>4, <2>5, <2>6 DEF TryLocal
<1>4. ASSUME NEW t \in Threads, TryLock(t) PROVE IInv'
  <2>1. PICK q : q = cand[t]
    OBVIOUS
  <2>2. pc[t] \in {"tryLocal", "tryLock"} /\ "release" \in {"release", "releaseLocal"}
    BY <1>4 DEF TryLock
  <2>3. CASE PopNonEmpty(t, q)
    BY <2>2, <2>3, PopNonEmptyStep
  <2>4. CASE PopOwn(t)
    BY <2>2, <2>4, PopOwnStep
  <2>5. CASE PopEmpty(t, q, "release")
    BY <2>2, <2>5, PopEmptyStep
  <2>6. CASE /\ NoHeap(t, q)
             /\ NextAttempt(t) \/ (Goto(t, "pick") /\ UNCHANGED attempt)
    BY <2>2, <2>6, NoHeapStep
  <2> QED BY <1>4, <2>1, <2>3, <2>4, <2>5, <2>6 DEF TryLock
<1>5. ASSUME NEW t \in Threads, QueueStep(t), ~TryLocal(t), ~TryLock(t) PROVE IInv'
  BY <1>5, PushBatchStep, RedrawStep, PushLocallyStep, FlushStep, UpdateMinStep, UnlockPreserves,
     ReadFirstStep, ReadSecondStep, ReleaseStep, LastStep, SpreadStep DEF QueueStep
<1>6. CASE UNCHANGED mqVars
  BY <1>6 DEF mqVars, shared, draws, IInv, MQTypeOK, Draws, DrawsAt, PushBuffered, LocksReleased,
     MinKept, Located, In, BatchOrder
<1> QED BY <1>1, <1>2, <1>3, <1>4, <1>5, <1>6 DEF MQNext

\* The places of an element that is in one container.
LEMMA PlacesFacts ==
    ASSUME MQTypeOK, Located, NEW x \in Tasks
    PROVE  /\ x \notin pushed => Places(x) = {}
           /\ x \in pushed => \E p : Places(x) = {p}
PROOF
<1>1. Places(x) = InHeaps(x) \cup InBuffers(x) \cup InCalls(x) \cup InBatches(x) \cup WithClients(x)
  BY DEF Places
<1>2. /\ (\A q : ~In("heap", q, x)) => InHeaps(x) = {}
      /\ (\A t : ~In("buffer", t, x)) => InBuffers(x) = {}
      /\ (\A t : ~In("todo", t, x)) => InCalls(x) = {}
      /\ ~In("client", None, x) => WithClients(x) = {}
  BY DEF In, InHeaps, InBuffers, InCalls, WithClients
<1>3. (\A t : ~In("popBuffer", t, x)) => InBatches(x) = {}
  <2> SUFFICES ASSUME \A t : ~In("popBuffer", t, x)
               PROVE  \A t \in Threads : Slots(t, x) = {}
    BY DEF InBatches
  <2> QED BY DEF In, Elements, Slots
<1>4. x \notin pushed => Places(x) = {}
  BY <1>1, <1>2, <1>3 DEF Located
<1>5. ASSUME x \in pushed PROVE \E p : Places(x) = {p}
  <2>1. PICK k, i : In(k, i, x)
    BY <1>5 DEF Located
  <2>2. \A l, j : In(l, j, x) => l = k /\ j = i
    BY <2>1 DEF Located
  <2>3. CASE k = "heap"
    <3>1. InHeaps(x) = {<<"heap", i>>}
      <4>1. {r \in Queues : x \in heap[r]} = {i}
        BY <2>1, <2>2, <2>3 DEF In
      <4> QED BY <4>1 DEF InHeaps
    <3>2. InBuffers(x) = {} /\ InCalls(x) = {} /\ InBatches(x) = {} /\ WithClients(x) = {}
      BY <1>2, <1>3, <2>2, <2>3
    <3> QED BY <1>1, <3>1, <3>2
  <2>4. CASE k = "buffer"
    <3>1. InBuffers(x) = {<<"buffer", i>>}
      <4>1. {u \in Threads : x \in buffer[u]} = {i}
        BY <2>1, <2>2, <2>4 DEF In
      <4> QED BY <4>1 DEF InBuffers
    <3>2. InHeaps(x) = {} /\ InCalls(x) = {} /\ InBatches(x) = {} /\ WithClients(x) = {}
      BY <1>2, <1>3, <2>2, <2>4
    <3> QED BY <1>1, <3>1, <3>2
  <2>5. CASE k = "todo"
    <3>1. InCalls(x) = {<<"todo", i>>}
      <4>1. {u \in Threads : x \in todo[u]} = {i}
        BY <2>1, <2>2, <2>5 DEF In
      <4> QED BY <4>1 DEF InCalls
    <3>2. InHeaps(x) = {} /\ InBuffers(x) = {} /\ InBatches(x) = {} /\ WithClients(x) = {}
      BY <1>2, <1>3, <2>2, <2>5
    <3> QED BY <1>1, <3>1, <3>2
  <2>6. CASE k = "popBuffer"
    <3>1. PICK j \in DOMAIN popBuffer[i] : popBuffer[i][j] = x /\ i \in Threads
      BY <2>1, <2>6 DEF In, Elements
    <3>2. Slots(i, x) = {j}
      BY <3>1 DEF Located, Slots
    <3>3. \A t \in Threads : t # i => Slots(t, x) = {}
      BY <2>2, <2>6 DEF In, Elements, Slots
    <3>4. InBatches(x) = {<<"popBuffer", i, j>>}
      BY <3>1, <3>2, <3>3 DEF InBatches
    <3>5. InHeaps(x) = {} /\ InBuffers(x) = {} /\ InCalls(x) = {} /\ WithClients(x) = {}
      BY <1>2, <2>2, <2>6
    <3> QED BY <1>1, <3>4, <3>5
  <2>7. CASE k = "client"
    <3>1. WithClients(x) = {<<"client">>}
      BY <2>1, <2>7 DEF In, WithClients
    <3>2. InHeaps(x) = {} /\ InBuffers(x) = {} /\ InCalls(x) = {} /\ InBatches(x) = {}
      BY <1>2, <1>3, <2>2, <2>7
    <3> QED BY <1>1, <3>1, <3>2
  <2> QED BY <2>1, <2>3, <2>4, <2>5, <2>6, <2>7 DEF In
<1> QED BY <1>4, <1>5

(* Every conjunct of the invariant holds in every reachable state.          *)
THEOREM MultiQueueInvariant == MQSpec => []IInv
PROOF BY InitInvariant, NextInvariant, PTL DEF MQSpec

(* The types, for all four classes and any numbers of threads and queues.   *)
THEOREM QueuesAreTyped == MQSpec => []MQTypeOK
PROOF
<1>1. IInv => MQTypeOK
  BY DEF IInv
<1> QED BY <1>1, MultiQueueInvariant, PTL

(* No path through push and pop leaves a lock behind: every lock is held by *)
(* a thread inside its critical section, on the queue it works on.          *)
THEOREM NoLockIsLeft == MQSpec => []LocksReleased
PROOF
<1>1. IInv => LocksReleased
  BY DEF IInv
<1> QED BY <1>1, MultiQueueInvariant, PTL

(* The minimum that a pop reads without a lock is the real one whenever the *)
(* heap is unlocked.                                                       *)
THEOREM MinimaArePublished == MQSpec => []MinPublished
PROOF
<1>1. IInv => MinPublished
  BY DEF IInv, MinKept, MinPublished
<1> QED BY <1>1, MultiQueueInvariant, PTL

(* In the classes without push buffer every batch is handed out best first. *)
THEOREM BatchesComeInOrder == MQSpec => []BatchOrder
PROOF
<1>1. IInv => BatchOrder
  BY DEF IInv
<1> QED BY <1>1, MultiQueueInvariant, PTL

(* No element is lost or doubled: it is at one place from its push to the   *)
(* pop that returns it, however minima go stale and locks are contended.    *)
THEOREM ElementsAreOnce == MQSpec => []EachElementOnce
PROOF
<1>1. IInv => EachElementOnce
  <2> SUFFICES ASSUME IInv, NEW x \in Tasks
               PROVE  Cardinality(Places(x)) = IF x \in pushed THEN 1 ELSE 0
    BY DEF EachElementOnce
  <2>1. CASE x \in pushed
    BY <2>1, PlacesFacts, FS_Singleton DEF IInv
  <2>2. CASE x \notin pushed
    BY <2>2, PlacesFacts, FS_EmptySet DEF IInv
  <2> QED BY <2>1, <2>2
<1> QED BY <1>1, MultiQueueInvariant, PTL
=============================================================================
