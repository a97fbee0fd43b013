---------------------------- MODULE WorkListOps -----------------------------
(* The operations of a worklist whose elements each belong to one thread,  *)
(* as single steps on bag[t], the elements the worklist holds for t.  This *)
(* is the interface of AbstractWorkList (WorkList/WorkList.h) with the one *)
(* strengthening the termination ring needs: a pop finds nothing only if   *)
(* its thread owns nothing.                                                *)
EXTENDS FiniteSets

CONSTANTS
    Threads,          \* the threads that use the worklist
    Tasks             \* the elements they may push, all distinct

VARIABLE bag

\* push(b, e): t keeps the range.
PushRange(t, range) == bag' = [bag EXCEPT ![t] = @ \cup range]

\* pop: t takes an element of its own.
TakeOwn(t, x) ==
    /\ x \in bag[t]
    /\ bag' = [bag EXCEPT ![t] = @ \ {x}]

\* pop: t takes a batch that u owned, returns x and keeps the rest.
TakeFrom(t, u, batch, x) ==
    /\ u # t
    /\ batch \subseteq bag[u]
    /\ x \in batch
    /\ bag' = [bag EXCEPT ![u] = @ \ batch, ![t] = @ \cup (batch \ {x})]

\* pop: t finds nothing.
TakeNothing(t) ==
    /\ bag[t] = {}
    /\ bag' = bag
=============================================================================
