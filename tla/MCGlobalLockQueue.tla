------------------------------ MODULE MCGlobalLockQueue ------------------------------
(* Instances of GlobalLockQueue for TLC. *)
EXTENDS GlobalLockQueueInv, TLC

Symmetry == Permutations(Nodes) \cup Permutations(Values)
=============================================================================
