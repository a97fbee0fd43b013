------------------------ MODULE MCStealingMultiQueue ------------------------
(* Small instances of StealingMultiQueue for TLC.                          *)
EXTENDS StealBufferInvariant, TLC

\* Two elements compare equal, one is better and one is worse.
MCPrio == [x \in Tasks |-> <<1, 2, 1, 3>>[x]]

\* Threads differ only by name.
ThreadSymmetry == Permutations(Threads)
=============================================================================
