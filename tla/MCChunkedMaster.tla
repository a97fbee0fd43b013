-------------------------- MODULE MCChunkedMaster ---------------------------
(* Two threads on the first package and one on the second, for TLC. *)
EXTENDS ChunkedMaster

TwoPackages == [t \in Threads |-> IF t = 2 THEN 1 ELSE 0]
=============================================================================
