------------------------- MODULE MCBulkSynchronous --------------------------
(* Two packages, and symmetry of the items, for TLC. *)
EXTENDS BulkSynchronous

Packages == [t \in Threads |-> t % 2]
=============================================================================
