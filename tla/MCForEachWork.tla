---------------------------- MODULE MCForEachWork ---------------------------
(* Small instances of ForEachWork for TLC.                                 *)
EXTENDS ForEachInvariant, TLC

\* Threads 0 and 1 are on the first package, the others on the second.
MCPackageOf == [t \in Ring |-> IF t >= 2 THEN 1 ELSE 0]

\* Work items differ only by name.
TaskSymmetry == Permutations(Tasks)
=============================================================================
