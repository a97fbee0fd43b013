---------------------------- MODULE MCThreadPool ----------------------------
(* Five threads on four packages, and the commands of a for_each loop.      *)
EXTENDS ThreadPool

PackageMap == [t \in Threads |-> <<0, 1, 2, 3, 0>>[t + 1]]
ForEachCommands == <<"call", "wait", "call", "wait">>
=============================================================================
