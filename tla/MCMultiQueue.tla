---------------------------- MODULE MCMultiQueue ----------------------------
(* Small instances of MultiQueue for TLC.                                  *)
EXTENDS MultiQueue, TLC

CONSTANTS x1, x2, x3

\* Two elements of the same priority, and one with that of the dummy.
MCPrio == (x1 :> 1 @@ x2 :> 1 @@ x3 :> 2)

MCKinds == [pushBuffered : BOOLEAN, popBuffered : BOOLEAN]
Symmetry == Permutations(Threads) \cup Permutations({x1, x2})
=============================================================================
