------------------------------ MODULE MCBatchSpec ------------------------------
(* Instances of BatchSpec for TLC. *)
EXTENDS BatchGrammar

CONSTANT DeqLen     \* the bound on the second pattern

MCNumbers == {-1, 0, 1, 3, 4}
MCMaxLen  == [enq |-> 1, deq |-> DeqLen]
=============================================================================
