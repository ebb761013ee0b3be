----------------------------- MODULE MCPetersonTwoLock -----------------------------
(* Instances of PetersonTwoLock for TLC. *)
EXTENDS PetersonTwoLock, TLC

Symmetry == Permutations(Nodes) \cup Permutations(Values)
=============================================================================
