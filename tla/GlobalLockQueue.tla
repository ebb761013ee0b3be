------------------------------ MODULE GlobalLockQueue ------------------------------
(***************************************************************************)
(* Ex2.c: the queue with one lock around enq and deq.  Only the last part  *)
(* of deq runs without the lock: the node that it has removed goes to the  *)
(* free list of the thread after omp_unset_lock, while other calls are at  *)
(* work on the queue already.                                              *)
(*                                                                         *)
(* pc[t] names what thread t does next, one access to the queue at a time; *)
(* e_refuse and d_empty are the early returns of enq and deq.              *)
(*                                                                         *)
(* An operator named ..._Faulty is what a mistake could make of the        *)
(* definition after it.  No action uses one.                               *)
(***************************************************************************)
EXTENDS NodeHeap

VARIABLES
  lock,      \* the thread that holds the lock, or Unset
  pc,
  node,      \* new_node of enq
  sentinel,  \* the local of deq
  val        \* v of enq, what deq stores through its argument v

localVars == <<node, sentinel, val>>
vars == <<heapVars, lock, pc, localVars>>

Unset == -1

EnqSection == {"upcycle", "fill", "link", "swing", "e_unlock", "e_refuse"}
DeqSection == {"d_test", "d_empty", "d_val", "d_head", "d_tail", "d_unlock"}
Labels == {"idle", "e_lock", "d_lock", "recycle"} \cup EnqSection \cup DeqSection

TypeOK ==
  /\ HeapTypeOK
  /\ lock \in Threads \cup {Unset}
  /\ pc \in [Threads -> Labels]
  /\ node \in [Threads -> NodeOrNULL]
  /\ sentinel \in [Threads -> NodeOrNULL]
  /\ val \in [Threads -> ValueOrNULL]

Init ==
  /\ HeapInit
  /\ lock = Unset
  /\ pc = [t \in Threads |-> "idle"]
  /\ node = [t \in Threads |-> NULL]
  /\ sentinel = [t \in Threads |-> NULL]
  /\ val = [t \in Threads |-> NULL]

-----------------------------------------------------------------------------
GoTo(t, from, to) == pc[t] = from /\ pc' = [pc EXCEPT ![t] = to]

(* The call returns and its locals are gone. *)
Return(t, from) ==
  /\ GoTo(t, from, "idle")
  /\ node' = [node EXCEPT ![t] = NULL]
  /\ sentinel' = [sentinel EXCEPT ![t] = NULL]
  /\ val' = [val EXCEPT ![t] = NULL]

CallEnq(t, v) ==
  /\ num_threads # 0 /\ t < num_threads
  /\ GoTo(t, "idle", "e_lock")
  /\ val' = [val EXCEPT ![t] = v]
  /\ UNCHANGED <<heapVars, lock, node, sentinel>>

CallDeq(t) ==
  /\ num_threads # 0 /\ t < num_threads
  /\ GoTo(t, "idle", "d_lock")
  /\ UNCHANGED <<heapVars, lock, localVars>>

(* omp_set_lock at the start of enq and of deq. *)
SetLock(t) ==
  /\ lock = Unset /\ lock' = t
  /\ GoTo(t, "e_lock", "upcycle") \/ GoTo(t, "d_lock", "d_test")
  /\ UNCHANGED <<heapVars, localVars>>

EnqUpcycle(t) ==
  /\ GoTo(t, "upcycle", "fill")
  /\ \E n \in Nodes : Upcycle(t, n) /\ node' = [node EXCEPT ![t] = n]
  /\ UNCHANGED <<num_threads, head, tail, lock, sentinel, val>>

(* malloc fails: for want of an address, or for a reason of its own. *)
EnqNoMemory(t) ==
  /\ GoTo(t, "upcycle", "e_refuse")
  /\ freeHead[t] = NULL
  /\ UNCHANGED <<heapVars, lock, localVars>>

EnqRefuse_Faulty(t) == Return(t, "e_refuse") /\ UNCHANGED <<heapVars, lock>>

EnqRefuse(t) ==
  /\ Return(t, "e_refuse")
  /\ lock' = Unset
  /\ UNCHANGED heapVars

EnqFill(t) ==
  /\ GoTo(t, "fill", "link")
  /\ data' = [data EXCEPT ![node[t]] = val[t]]
  /\ next' = [next EXCEPT ![node[t]] = NULL]
  /\ UNCHANGED <<num_threads, head, tail, heap, freeHead, freeSize, lock, localVars>>

EnqLink(t) ==
  /\ GoTo(t, "link", "swing")
  /\ next' = [next EXCEPT ![tail] = node[t]]
  /\ UNCHANGED <<num_threads, head, tail, data, heap, freeHead, freeSize,
                 lock, localVars>>

EnqSwing_Faulty(t) ==       \* tail is not moved
  /\ GoTo(t, "swing", "e_unlock")
  /\ UNCHANGED <<heapVars, lock, localVars>>

EnqSwing(t) ==
  /\ GoTo(t, "swing", "e_unlock")
  /\ tail' = node[t]
  /\ UNCHANGED <<num_threads, head, next, data, heap, freeHead, freeSize,
                 lock, localVars>>

EnqUnlock(t) ==
  /\ Return(t, "e_unlock")
  /\ lock' = Unset
  /\ UNCHANGED heapVars

DeqTest(t) ==
  /\ GoTo(t, "d_test", IF next[head] = NULL THEN "d_empty" ELSE "d_val")
  /\ UNCHANGED <<heapVars, lock, localVars>>

DeqEmpty_Faulty(t) ==       \* deq waits for a value instead of returning 0
  GoTo(t, "d_empty", "d_test") /\ UNCHANGED <<heapVars, lock, localVars>>

DeqEmpty(t) ==
  /\ Return(t, "d_empty")
  /\ lock' = Unset
  /\ UNCHANGED heapVars

DeqReadValue(t) ==
  /\ GoTo(t, "d_val", "d_head")
  /\ sentinel' = [sentinel EXCEPT ![t] = head]
  /\ val' = [val EXCEPT ![t] = data[next[head]]]
  /\ UNCHANGED <<heapVars, lock, node>>

DeqMoveHead(t) ==
  /\ GoTo(t, "d_head", "d_tail")
  /\ head' = next[sentinel[t]]
  /\ UNCHANGED <<num_threads, tail, next, data, heap, freeHead, freeSize,
                 lock, localVars>>

(* If tail points to the new dummy node, it is set to it. *)
DeqMoveTail(t) ==
  /\ GoTo(t, "d_tail", "d_unlock")
  /\ tail' = IF tail = next[sentinel[t]] THEN head ELSE tail
  /\ UNCHANGED <<num_threads, head, next, data, heap, freeHead, freeSize,
                 lock, localVars>>

DeqUnlock_Faulty(t) ==      \* what is recycled is read again after the unlock
  /\ GoTo(t, "d_unlock", "recycle")
  /\ lock' = Unset
  /\ sentinel' = [sentinel EXCEPT ![t] = head]
  /\ UNCHANGED <<heapVars, node, val>>

DeqUnlock(t) ==
  /\ GoTo(t, "d_unlock", "recycle")
  /\ lock' = Unset
  /\ UNCHANGED <<heapVars, localVars>>

(* recycle_node, after the lock has been given back. *)
DeqRecycle(t) ==
  /\ Recycle(t, sentinel[t])
  /\ Return(t, "recycle")
  /\ UNCHANGED <<num_threads, head, tail, lock>>

(* destroy_queue and init_queue run while no thread is in a call. *)
Destroy ==
  /\ \A t \in Threads : pc[t] = "idle"
  /\ FreeAll({})
  /\ head' = NULL
  /\ UNCHANGED <<tail, lock, pc, localVars>>

InitQueue ==
  /\ InitHeap
  /\ lock' = Unset
  /\ UNCHANGED <<pc, localVars>>

-----------------------------------------------------------------------------
Step(t) ==
  \/ SetLock(t)
  \/ EnqUpcycle(t) \/ EnqNoMemory(t) \/ EnqRefuse(t)
  \/ EnqFill(t) \/ EnqLink(t) \/ EnqSwing(t) \/ EnqUnlock(t)
  \/ DeqTest(t) \/ DeqEmpty(t) \/ DeqReadValue(t) \/ DeqMoveHead(t)
  \/ DeqMoveTail(t) \/ DeqUnlock(t) \/ DeqRecycle(t)

Begin(t) == CallDeq(t) \/ \E v \in Values : CallEnq(t, v)

Next == (\E t \in Threads : Begin(t) \/ Step(t)) \/ Destroy \/ InitQueue

Spec == Init /\ [][Next]_vars

(* Every thread keeps being scheduled; the lock is given to any of those    *)
(* that wait for it, in no particular order.                                *)
FairSpec == Spec /\ \A t \in Threads : WF_vars(Step(t))

-----------------------------------------------------------------------------
InSection(t) == pc[t] \in EnqSection \cup DeqSection

(* The lock is held by the thread inside enq or deq, up to the return or    *)
(* the recycling, and by nobody when there is none.                         *)
LockHeld == \A t \in Threads : InSection(t) <=> lock = t

(* The node that t has taken and not yet linked, or unlinked and not yet    *)
(* put on its free list.                                                    *)
Held(t) ==
  CASE pc[t] \in {"fill", "link"} -> {node[t]}
    [] pc[t] \in {"d_tail", "d_unlock", "recycle"} -> {sentinel[t]}
    [] OTHER -> {}

InQueue == IF num_threads = 0 THEN {} ELSE ChainNodes(head)

(* Every allocated node has exactly one owner - the queue, a free list or a *)
(* call - and a size field counts its free list.  In particular the node    *)
(* that deq recycles without the lock is in nobody else's reach, and        *)
(* destroy_queue leaves nothing allocated.                                  *)
NodesAccounted ==
  /\ \A x \in Nodes :
       LET owners == (IF x \in InQueue THEN 1 ELSE 0)
             + Cardinality({t \in Threads : x \in ChainNodes(freeHead[t])})
             + Cardinality({t \in Threads : x \in Held(t)})
       IN  owners = IF x \in heap THEN 1 ELSE 0
  /\ \A t \in Threads : freeSize[t] = Len(Chain(freeHead[t]))

(* What the next step of t writes and reads that other threads may access.  *)
Writes(t) ==
  CASE pc[t] = "fill"    -> {<<"data", node[t]>>, <<"next", node[t]>>}
    [] pc[t] = "link"    -> {<<"next", tail>>}
    [] pc[t] \in {"swing", "d_tail"} -> {<<"tail">>}
    [] pc[t] = "d_head"  -> {<<"head">>}
    [] pc[t] = "recycle" -> {<<"next", sentinel[t]>>}
    [] OTHER             -> {}

Reads(t) ==
  CASE pc[t] = "link"   -> {<<"tail">>}
    [] pc[t] = "d_test" -> {<<"head">>, <<"next", head>>}
    [] pc[t] = "d_val"  -> {<<"head">>, <<"next", head>>, <<"data", next[head]>>}
    [] pc[t] = "d_head" -> {<<"next", sentinel[t]>>}
    [] pc[t] = "d_tail" -> {<<"tail">>, <<"head">>, <<"next", sentinel[t]>>}
    [] OTHER -> {}

(* No two threads access the same memory at the same time, one of them      *)
(* writing, although deq recycles a node without the lock.                  *)
RaceFree ==
  \A t, u \in Threads :
    t # u => Writes(t) \cap (Reads(u) \cup Writes(u)) = {}

-----------------------------------------------------------------------------
(* The abstract call that thread t is making.  Under the lock the           *)
(* linearization points are those of the two-lock queue.                    *)
AbsCall(t) ==
  CASE pc[t] = "idle" -> [op |-> "idle"]
    [] pc[t] \in {"e_lock", "upcycle", "fill", "link", "e_refuse"}
         -> [op |-> "enq", arg |-> val[t]]
    [] pc[t] \in {"swing", "e_unlock"} -> [op |-> "enqDone"]
    [] pc[t] \in {"d_lock", "d_test", "d_val", "d_head"} -> [op |-> "deq"]
    [] pc[t] = "d_empty" -> [op |-> "deqEmpty"]
    [] OTHER -> [op |-> "deqDone", res |-> val[t]]

Abs == INSTANCE LinearizableQueue
         WITH queue <- IF num_threads = 0 THEN <<>> ELSE Contents,
              call <- [t \in Threads |-> AbsCall(t)]

(* "The design is simple and linearizable" (README.md:37): every call        *)
(* takes effect at one instant, in FIFO order; an enq for which there is no *)
(* memory changes nothing.                                                  *)
Linearizable == Abs!AbsSpec

(* If finitely many calls begin, each of them returns. *)
CallsReturn ==
  \/ []<><<\E t \in Threads : Begin(t)>>_vars
  \/ \A t \in Threads : pc[t] # "idle" ~> pc[t] = "idle"
=============================================================================
