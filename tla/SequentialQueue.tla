---------------------------- MODULE SequentialQueue ----------------------------
(***************************************************************************)
(* Ex1.c: the queue for one thread.  No two calls overlap, so a call is    *)
(* one action; the thread id that it gets only selects a free list.        *)
(*                                                                         *)
(* An operator named ..._Faulty is what a mistake could make of the        *)
(* definition after it.  No action uses one.                               *)
(***************************************************************************)
EXTENDS NodeHeap

VARIABLE result  \* what the last call returned, as in FifoQueue

vars == <<heapVars, result>>

TypeOK == HeapTypeOK /\ result \in {<<>>, <<0>>, <<1>>} \cup ({1} \X Values)

Init == HeapInit /\ result = <<>>

UpcycleNode_Faulty(t, n) ==     \* the node that is taken stays on the free list
  /\ n = IF freeHead[t] = NULL THEN CHOOSE x \in Nodes : x \notin heap
         ELSE freeHead[t]
  /\ heap' = heap \cup {n}
  /\ UNCHANGED <<freeHead, freeSize>>

(* The node n is popped from the free list, or is new when that is empty. *)
UpcycleNode(t, n) ==
  \/ /\ freeHead[t] # NULL
     /\ n = freeHead[t]
     /\ freeHead' = [freeHead EXCEPT ![t] = next[n]]
     /\ freeSize' = [freeSize EXCEPT ![t] = @ - 1]
     /\ UNCHANGED heap
  \/ /\ freeHead[t] = NULL
     /\ n \notin heap
     /\ heap' = heap \cup {n}
     /\ UNCHANGED <<freeHead, freeSize>>

Enq_Faulty(t, v) ==     \* the link out of the free list is not cut
  /\ num_threads # 0
  /\ \E n \in Nodes :
       /\ UpcycleNode(t, n)
       /\ data' = [data EXCEPT ![n] = v]
       /\ next' = [next EXCEPT ![tail] = n]
       /\ tail' = n
  /\ result' = <<1>>
  /\ UNCHANGED <<num_threads, head>>

Enq(t, v) ==
  /\ num_threads # 0
  /\ \E n \in Nodes :
       /\ UpcycleNode(t, n)
       /\ data' = [data EXCEPT ![n] = v]
       /\ next' = [next EXCEPT ![n] = NULL, ![tail] = n]
       /\ tail' = n
  /\ result' = <<1>>
  /\ UNCHANGED <<num_threads, head>>

(* malloc has failed. *)
EnqNoMemory(t) ==
  /\ num_threads # 0
  /\ freeHead[t] = NULL
  /\ result' = <<0>>
  /\ UNCHANGED heapVars

DeqEmpty ==
  /\ num_threads # 0
  /\ next[head] = NULL
  /\ result' = <<0>>
  /\ UNCHANGED heapVars

(* tail is set to where it points already. *)
Deq(t) ==
  /\ num_threads # 0
  /\ next[head] # NULL
  /\ result' = <<1, data[next[head]]>>
  /\ head' = next[head]
  /\ tail' = IF tail = next[head] THEN head' ELSE tail
  /\ Recycle(t, head)
  /\ UNCHANGED num_threads

Destroy == FreeAll({}) /\ head' = NULL /\ result' = <<>> /\ UNCHANGED tail

InitQueue == InitHeap /\ UNCHANGED result

Next ==
  \/ \E t \in Threads :
       (\E v \in Values : Enq(t, v)) \/ EnqNoMemory(t) \/ Deq(t)
  \/ DeqEmpty
  \/ Destroy
  \/ InitQueue

Spec == Init /\ [][Next]_vars

-----------------------------------------------------------------------------
InQueue == IF num_threads = 0 THEN {} ELSE ChainNodes(head)

(* Every variable has its type, and whatever calls came before:             *)
(* every allocated node is in exactly one list, the queue or the free list  *)
(* of one thread id, and a size field counts its list.  So destroy_queue    *)
(* frees each node once and leaves none.                                    *)
NodesAccounted ==
  /\ TypeOK
  /\ \A x \in Nodes :
       LET owners == (IF x \in InQueue THEN 1 ELSE 0)
             + Cardinality({t \in Threads : x \in ChainNodes(freeHead[t])})
       IN  owners = IF x \in heap THEN 1 ELSE 0
  /\ \A t \in Threads : freeSize[t] = Len(Chain(freeHead[t]))

Fifo == INSTANCE FifoQueue
          WITH queue <- IF num_threads = 0 THEN <<>> ELSE Contents

(* "A sequential unbounded FIFO queue" (README.md:28): every call does what  *)
(* it does to a sequence of values and returns what it returns there; an    *)
(* enq that finds no memory changes nothing.                                *)
IsFifo == Fifo!FifoSpec
=============================================================================
