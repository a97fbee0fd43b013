--------------------------- MODULE OwnedWorkList ----------------------------
(* What a worklist with owned elements promises its clients: a pushed      *)
(* element is returned by one pop and by no other, a steal moves at most   *)
(* StealBatchSize elements in one step, and a pop answers that there is    *)
(* nothing only when its thread owns nothing.                              *)
EXTENDS WorkListOps, Naturals

CONSTANT StealBatchSize

VARIABLES
    answer,           \* answer[t]: what the current pop of t will return
    hand,             \* hand[t]: the element it will return, if any
    pushed,
    delivered

vars == <<bag, answer, hand, pushed, delivered>>

Init ==
    /\ bag = [t \in Threads |-> {}]
    /\ answer = [t \in Threads |-> "none"]
    /\ hand = [t \in Threads |-> {}]
    /\ pushed = {}
    /\ delivered = {}

Push(t) ==
    /\ answer[t] = "none"
    /\ \E range \in (SUBSET (Tasks \ pushed)) \ {{}} :
         /\ PushRange(t, range)
         /\ pushed' = pushed \cup range
    /\ UNCHANGED <<answer, hand, delivered>>

Found(t, x) ==
    /\ answer[t] = "none"
    /\ answer' = [answer EXCEPT ![t] = "element"]
    /\ hand' = [hand EXCEPT ![t] = {x}]
    /\ UNCHANGED <<pushed, delivered>>

PopOwn(t) == \E x \in bag[t] : TakeOwn(t, x) /\ Found(t, x)

PopStolen(t) ==
    \E u \in Threads : \E batch \in SUBSET bag[u] : \E x \in batch :
        /\ Cardinality(batch) <= StealBatchSize
        /\ TakeFrom(t, u, batch, x)
        /\ Found(t, x)

PopNothing(t) ==
    /\ answer[t] = "none"
    /\ TakeNothing(t)
    /\ answer' = [answer EXCEPT ![t] = "nothing"]
    /\ UNCHANGED <<hand, pushed, delivered>>

Return(t) ==
    /\ answer[t] # "none"
    /\ delivered' = delivered \cup hand[t]
    /\ answer' = [answer EXCEPT ![t] = "none"]
    /\ hand' = [hand EXCEPT ![t] = {}]
    /\ UNCHANGED <<bag, pushed>>

Next ==
    \E t \in Threads :
        Push(t) \/ PopOwn(t) \/ PopStolen(t) \/ PopNothing(t) \/ Return(t)

Spec == Init /\ [][Next]_vars
=============================================================================
