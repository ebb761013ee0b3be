--------------------------- MODULE MCSequentialQueue ---------------------------
(* Instances of SequentialQueue for TLC. *)
EXTENDS SequentialQueue, TLC

Symmetry == Permutations(Nodes) \cup Permutations(Values)
=============================================================================
