------------------------------ MODULE MCTwoLockQueue ------------------------------
(* Instances of TwoLockQueue for TLC. *)
EXTENDS TwoLockQueueInv, TLC

Symmetry == Permutations(Nodes) \cup Permutations(Values)
=============================================================================
