------------------------------ MODULE Barrier ------------------------------
(* What Barrier::wait (include/Galois/Runtime/Barrier.h) promises: nobody  *)
(* leaves a wait before every active thread has entered it.  Waits follow  *)
(* each other without end, and nothing is said about who leaves first.     *)
EXTENDS Integers

CONSTANT Waiters

VARIABLES
    entered,          \* how many waits a thread has entered
    left              \* how many it has left

Init == entered = [t \in Waiters |-> 0] /\ left = [t \in Waiters |-> 0]

Enter(t) ==
    /\ entered[t] = left[t]
    /\ entered' = [entered EXCEPT ![t] = @ + 1]
    /\ UNCHANGED left

Leave(t) ==
    /\ left[t] < entered[t]
    /\ \A u \in Waiters : left[t] < entered[u]
    /\ left' = [left EXCEPT ![t] = @ + 1]
    /\ UNCHANGED entered

Next == \E t \in Waiters : Enter(t) \/ Leave(t)

Spec == Init /\ [][Next]_<<entered, left>>
=============================================================================
