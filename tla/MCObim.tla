------------------------------- MODULE MCObim -------------------------------
(* Small instances of Obim for TLC.                                          *)
EXTENDS Obim, TLC

CONSTANTS t1, t2, x1, x2, x3

\* Two elements share a bin; the other bin is that of numeric_limits::min().
MCIndexOf == x1 :> 0 @@ x2 :> 1 @@ x3 :> 1
\* The first thread is the leader of the others.
OnePackage == [t \in Threads |-> t1]
\* Without and with back-scan prevention, with and without a fast path of pop.
MCClasses == {[bsp |-> FALSE, uniform |-> FALSE, blockPeriod |-> 0],
              [bsp |-> TRUE, uniform |-> FALSE, blockPeriod |-> -1],
              [bsp |-> TRUE, uniform |-> FALSE, blockPeriod |-> 0]}
=============================================================================
