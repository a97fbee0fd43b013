--------------------------- MODULE ChunkedMaster ----------------------------
(* ChunkedMaster (include/Galois/WorkList/Chunked.h), the worklist below     *)
(* most others: a thread fills and empties chunks of its own, and hands full *)
(* ones over through a queue for each package, which it looks at in turn     *)
(* when it has nothing left.                                                 *)
(*                                                                           *)
(* A chunk is the sequence of its items and the thread that filled it; an    *)
(* empty chunk and the null pointer behave alike and are both the empty      *)
(* sequence.  The linked queue of chunks is atomic: its operations hold the  *)
(* lock bit of its head.  Each push and each queue looked at is one action.  *)
EXTENDS Integers, FiniteSets, SequencesExt

CONSTANTS
    Threads, Tasks,
    PackageCount,     \* Q.size(); 1 if the list is not distributed
    PackageOf,
    ChunkSize         \* more than 1: a new chunk of one item is pushed at once

Packages == 0..(PackageCount - 1)

ASSUME ChunkAssumption ==
    /\ ChunkSize \in Nat \ {0, 1}
    /\ PackageCount \in Nat \ {0} /\ PackageOf \in [Threads -> Packages]

VARIABLES
    isStack,          \* the class: items and chunks last in, first out
    cur, next,        \* the chunks of each thread
    Q,                \* the chunks of each package
    pc,
    scan,             \* how many queues popChunk has looked at
    answer, hand,     \* what pop returns
    pushed, delivered \* history

chunkVars == <<cur, next, Q>>
historyVars == <<pushed, delivered>>
vars == <<isStack, chunkVars, pc, scan, answer, hand, historyVars>>

Chunk(t, items) == [by |-> t, items |-> items]

Init ==
    /\ isStack \in BOOLEAN
    /\ cur = [t \in Threads |-> <<>>] /\ next = [t \in Threads |-> <<>>]
    /\ Q = [p \in Packages |-> <<>>]
    /\ pc = [t \in Threads |-> "idle"]
    /\ scan = [t \in Threads |-> 0]
    /\ answer = [t \in Threads |-> "none"] /\ hand = [t \in Threads |-> {}]
    /\ pushed = {} /\ delivered = {}

Goto(t, label) == pc' = [pc EXCEPT ![t] = label]

----------------------------------------------------------------------------
(* emplacei.                                                                *)
PushChunk(t, items) ==
    Q' = [Q EXCEPT ![PackageOf[t]] =
             IF isStack THEN <<Chunk(t, items)>> \o @ ELSE Append(@, Chunk(t, items))]

Emplace(t, x) ==
    IF Len(next[t]) < ChunkSize
    THEN next' = [next EXCEPT ![t] = Append(@, x)] /\ UNCHANGED Q
    ELSE PushChunk(t, next[t]) /\ next' = [next EXCEPT ![t] = <<x>>]

Push(t) ==
    /\ pc[t] = "idle"
    /\ \E x \in Tasks \ pushed : Emplace(t, x) /\ pushed' = pushed \union {x}
    /\ UNCHANGED <<cur, pc, scan, answer, hand, delivered>>

----------------------------------------------------------------------------
(* pop.                                                                     *)
Found(t, x) ==
    /\ answer' = [answer EXCEPT ![t] = "element"]
    /\ hand' = [hand EXCEPT ![t] = {x}]
    /\ Goto(t, "return")

PopFast(t) ==
    /\ pc[t] = "idle"
    /\ IF isStack
       THEN /\ next[t] # <<>>
            /\ Found(t, Last(next[t]))
            /\ next' = [next EXCEPT ![t] = Front(@)] /\ UNCHANGED cur
       ELSE /\ cur[t] # <<>>
            /\ Found(t, Head(cur[t]))
            /\ cur' = [cur EXCEPT ![t] = Tail(@)] /\ UNCHANGED next
    /\ UNCHANGED <<Q, scan, historyVars>>

PopSlowOthers(t) ==
    /\ pc[t] = "idle"
    /\ IF isStack THEN next[t] = <<>> ELSE cur[t] = <<>>
    /\ scan' = [scan EXCEPT ![t] = 1]
    /\ Goto(t, "scan")
    /\ UNCHANGED <<chunkVars, answer, hand, historyVars>>

PopSlow(t) ==
    /\ pc[t] = "idle"
    /\ IF isStack THEN next[t] = <<>> ELSE cur[t] = <<>>
    /\ scan' = [scan EXCEPT ![t] = 0]
    /\ Goto(t, "scan")
    /\ UNCHANGED <<chunkVars, answer, hand, historyVars>>

(* popChunk: the own package, those behind it, those before it.             *)
QueueToScan(t) == (PackageOf[t] + scan[t]) % PackageCount

PopChunk(t) ==
    /\ pc[t] = "scan" /\ scan[t] < PackageCount
    /\ LET p == QueueToScan(t) IN
       IF Q[p] = <<>>
       THEN /\ scan' = [scan EXCEPT ![t] = @ + 1]
            /\ UNCHANGED <<chunkVars, pc, answer, hand>>
       ELSE LET items == Head(Q[p]).items IN
            /\ Q' = [Q EXCEPT ![p] = Tail(@)]
            /\ IF isStack
               THEN next' = [next EXCEPT ![t] = Front(items)] /\ UNCHANGED cur /\ Found(t, Last(items))
               ELSE cur' = [cur EXCEPT ![t] = Tail(items)] /\ UNCHANGED next /\ Found(t, Head(items))
            /\ UNCHANGED scan
    /\ UNCHANGED historyVars

Nothing(t) ==
    /\ answer' = [answer EXCEPT ![t] = "nothing"]
    /\ Goto(t, "return")
    /\ UNCHANGED <<hand, chunkVars>>

NoChunkIgnoresNext(t) ==
    /\ pc[t] = "scan" /\ scan[t] = PackageCount
    /\ Nothing(t)
    /\ UNCHANGED <<scan, historyVars>>

(* Nobody hands out a chunk: a FIFO goes on with the one it is filling.     *)
NoChunk(t) ==
    /\ pc[t] = "scan" /\ scan[t] = PackageCount
    /\ IF isStack \/ next[t] = <<>>
       THEN Nothing(t)
       ELSE /\ Found(t, Head(next[t]))
            /\ cur' = [cur EXCEPT ![t] = Tail(next[t])]
            /\ next' = [next EXCEPT ![t] = <<>>]
            /\ UNCHANGED Q
    /\ UNCHANGED <<scan, historyVars>>

Return(t) ==
    /\ pc[t] = "return"
    /\ delivered' = delivered \union hand[t]
    /\ answer' = [answer EXCEPT ![t] = "none"] /\ hand' = [hand EXCEPT ![t] = {}]
    /\ Goto(t, "idle")
    /\ UNCHANGED <<chunkVars, scan, pushed>>

Pop(t) == PopFast(t) \/ PopSlow(t) \/ PopChunk(t) \/ NoChunk(t) \/ Return(t)
Next ==
    /\ \E t \in Threads : Push(t) \/ Pop(t)
    /\ UNCHANGED isStack

Spec == Init /\ [][Next]_vars
FairSpec == Spec /\ \A t \in Threads : WF_vars(Pop(t) /\ UNCHANGED isStack)

----------------------------------------------------------------------------
(* Every step is one of the abstract worklist, where a thread owns what it  *)
(* has in its chunks and in the full chunks it has handed out: no item is   *)
(* lost or returned twice, and a pop answers that there is nothing only     *)
(* when nothing is left of what its thread has pushed or taken, although it *)
(* looks at one queue after the other.                                      *)
Owned(t) ==
    ToSet(cur[t]) \union ToSet(next[t]) \union
    UNION {UNION {ToSet(c.items) : c \in {d \in ToSet(Q[p]) : d.by = t}} : p \in Packages}

Abstract == INSTANCE OwnedWorkList
    WITH bag <- [t \in Threads |-> Owned(t)], StealBatchSize <- ChunkSize

ImplementsWorkList == Abstract!Spec

(* When all threads keep popping, everything that was pushed comes out:     *)
(* nothing stays in a chunk that is not yet full.                           *)
AllDelivered == \A x \in Tasks : (x \in pushed) ~> (x \in delivered)
=============================================================================
