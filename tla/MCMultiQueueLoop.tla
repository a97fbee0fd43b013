-------------------------- MODULE MCMultiQueueLoop --------------------------
(* Two threads and one item in MultiQueueProbLocal.                        *)
EXTENDS MultiQueueLoop

MCThreads == Ring
MCKinds == {[pushBuffered |-> FALSE, popBuffered |-> TRUE]}
MCPrio == [x \in Tasks |-> 0]
=============================================================================
