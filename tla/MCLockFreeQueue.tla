---------------------------- MODULE MCLockFreeQueue ----------------------------
(***************************************************************************)
(* Instances of LockFreeQueue for TLC, and what the calls are sure to      *)
(* achieve: when all threads keep being scheduled, and when only thread 0  *)
(* does and the others may stop for ever in the middle of an operation.    *)
(***************************************************************************)
EXTENDS LockFreeQueue, TLC

Symmetry == Permutations(Nodes) \cup Permutations(Values)

Scheduled(t) == WF_vars(Step(t))

SurvivorSpec == Spec /\ Scheduled(0)

SomeReturn == \E t \in Threads : Step(t) /\ pc'[t] = "idle"

(* However many calls begin, as long as one is in progress some call        *)
(* returns: a CAS fails only because that of another call succeeded, and no *)
(* two threads wait for each other.  So all of finitely many calls return.  *)
SomeCallReturns ==
  (\A t \in Threads : Scheduled(t)) =>
    \/ <>[](\A t \in Threads : pc[t] = "idle")
    \/ []<><<SomeReturn>>_vars

(* Whatever has become of the other threads, an enq of thread 0 returns, or *)
(* they keep completing calls: it helps a tail that a stopped enq has left  *)
(* behind and waits for nobody.                                             *)
EnqSurvives ==
  \/ pc[0] \in EnqLoop \cup {"upcycle", "fill", "e_swing"} ~> pc[0] = "idle"
  \/ []<><<SomeReturn>>_vars

(* "a failed thread can block progress indefinitely" (README.md:66), and    *)
(* nothing else can: a deq of thread 0 returns as well, or other calls keep *)
(* completing, or it has removed a node and waits for ever in mm_op_end for *)
(* a thread that has stopped inside an operation.                           *)
DeqWaitsForStopped ==
  \/ pc[0] \in DeqLoop \cup {"retire"} ~> pc[0] = "idle"
  \/ []<><<SomeReturn>>_vars
  \/ \E u \in Threads \ {0} :
       <>[](pc[0] = "spin" /\ scan[0] = u /\ InOp(u) /\ ctr[u] = seen[0])
=============================================================================
