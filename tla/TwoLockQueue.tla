------------------------------- MODULE TwoLockQueue -------------------------------
(***************************************************************************)
(* Ex4.c: the queue with one lock for enq and one for deq.  enq works on   *)
(* tail and deq on head; the two meet in the fields of the last node, which *)
(* no common lock protects, and in the last node itself, which deq recycles *)
(* when the queue becomes empty.                                            *)
(*                                                                         *)
(* pc[t] names what thread t does next:                                    *)
(*   e_lock .. e_unlock   enq; e_refuse is its return without a node       *)
(*   d_lock .. d_unlock   deq; d_empty is its return from an empty queue   *)
(* Every access to memory that another thread may access is a step of its  *)
(* own.  The fields of a node are plain C: where the model lets two        *)
(* threads access a field at the same time, the one that reads sees either *)
(* the old or the new pointer, and the stores of enq become visible in     *)
(* program order, which is what the compiled code does on x86.             *)
(*                                                                         *)
(* An operator named ..._Faulty is what a mistake could make of the        *)
(* definition after it.  No action uses one.                               *)
(***************************************************************************)
EXTENDS NodeHeap

VARIABLES
  enq_lock,  \* the thread that holds the lock, or Unset
  deq_lock,
  pc,
  node,      \* new_node of enq
  sentinel,  \* the locals of deq of the same names
  nxt,
  val        \* v of enq, what deq stores through its argument v

localVars == <<node, sentinel, nxt, val>>
vars == <<heapVars, enq_lock, deq_lock, pc, localVars>>

Unset == -1

EnqLabels == {"e_lock", "upcycle", "fill", "link", "swing", "e_unlock", "e_refuse"}
DeqLabels == {"d_lock", "d_read", "d_empty", "d_val", "d_head", "d_last",
              "d_enqlock", "d_recheck", "d_enqunlock", "recycle", "d_unlock"}
Labels == {"idle"} \cup EnqLabels \cup DeqLabels

TypeOK ==
  /\ HeapTypeOK
  /\ enq_lock \in Threads \cup {Unset}
  /\ deq_lock \in Threads \cup {Unset}
  /\ pc \in [Threads -> Labels]
  /\ node \in [Threads -> NodeOrNULL]
  /\ sentinel \in [Threads -> NodeOrNULL]
  /\ nxt \in [Threads -> NodeOrNULL]
  /\ val \in [Threads -> ValueOrNULL]

Init ==
  /\ HeapInit
  /\ enq_lock = Unset /\ deq_lock = Unset
  /\ pc = [t \in Threads |-> "idle"]
  /\ node = [t \in Threads |-> NULL]
  /\ sentinel = [t \in Threads |-> NULL]
  /\ nxt = [t \in Threads |-> NULL]
  /\ val = [t \in Threads |-> NULL]

-----------------------------------------------------------------------------
GoTo(t, from, to) == pc[t] = from /\ pc' = [pc EXCEPT ![t] = to]

(* omp_set_lock and omp_unset_lock. *)
Set(lock, t) == lock = Unset /\ lock' = t
UnsetLock(lock) == lock' = Unset

(* The call returns and its locals are gone. *)
Return(t, from) ==
  /\ GoTo(t, from, "idle")
  /\ node' = [node EXCEPT ![t] = NULL]
  /\ sentinel' = [sentinel EXCEPT ![t] = NULL]
  /\ nxt' = [nxt EXCEPT ![t] = NULL]
  /\ val' = [val EXCEPT ![t] = NULL]

CallEnq(t, v) ==
  /\ num_threads # 0 /\ t < num_threads
  /\ GoTo(t, "idle", "e_lock")
  /\ val' = [val EXCEPT ![t] = v]
  /\ UNCHANGED <<heapVars, enq_lock, deq_lock, node, sentinel, nxt>>

CallDeq(t) ==
  /\ num_threads # 0 /\ t < num_threads
  /\ GoTo(t, "idle", "d_lock")
  /\ UNCHANGED <<heapVars, enq_lock, deq_lock, localVars>>

EnqSetLock(t) ==
  /\ GoTo(t, "e_lock", "upcycle")
  /\ Set(enq_lock, t)
  /\ UNCHANGED <<heapVars, deq_lock, localVars>>

EnqUpcycle(t) ==
  /\ GoTo(t, "upcycle", "fill")
  /\ \E n \in Nodes : Upcycle(t, n) /\ node' = [node EXCEPT ![t] = n]
  /\ UNCHANGED <<num_threads, head, tail, enq_lock, deq_lock, sentinel, nxt, val>>

(* malloc fails: for want of an address, or for a reason of its own. *)
EnqNoMemory(t) ==
  /\ GoTo(t, "upcycle", "e_refuse")
  /\ freeHead[t] = NULL
  /\ UNCHANGED <<heapVars, enq_lock, deq_lock, localVars>>

EnqRefuse_Faulty(t) ==      \* returns with the lock set
  /\ Return(t, "e_refuse")
  /\ UNCHANGED <<heapVars, enq_lock, deq_lock>>

EnqRefuse(t) ==
  /\ Return(t, "e_refuse")
  /\ UnsetLock(enq_lock)
  /\ UNCHANGED <<heapVars, deq_lock>>

EnqFill(t) ==
  /\ GoTo(t, "fill", "link")
  /\ data' = [data EXCEPT ![node[t]] = val[t]]
  /\ next' = [next EXCEPT ![node[t]] = NULL]
  /\ UNCHANGED <<num_threads, head, tail, heap, freeHead, freeSize,
                 enq_lock, deq_lock, localVars>>

(* Q->tail->next = new_node, the linearization point of enq. *)
EnqLink(t) ==
  /\ GoTo(t, "link", "swing")
  /\ next' = [next EXCEPT ![tail] = node[t]]
  /\ UNCHANGED <<num_threads, head, tail, data, heap, freeHead, freeSize,
                 enq_lock, deq_lock, localVars>>

EnqSwing_Faulty(t) ==       \* the lock is given back before tail is moved
  /\ GoTo(t, "swing", "e_unlock")
  /\ UNCHANGED <<heapVars, enq_lock, deq_lock, localVars>>

EnqSwing(t) ==
  /\ GoTo(t, "swing", "e_unlock")
  /\ tail' = node[t]
  /\ UNCHANGED <<num_threads, head, next, data, heap, freeHead, freeSize,
                 enq_lock, deq_lock, localVars>>

EnqUnsetLock(t) ==
  /\ Return(t, "e_unlock")
  /\ UnsetLock(enq_lock)
  /\ UNCHANGED <<heapVars, deq_lock>>

DeqSetLock(t) ==
  /\ GoTo(t, "d_lock", "d_read")
  /\ Set(deq_lock, t)
  /\ UNCHANGED <<heapVars, enq_lock, localVars>>

(* sentinel = Q->head; next = sentinel->next *)
DeqRead(t) ==
  /\ GoTo(t, "d_read", IF next[head] = NULL THEN "d_empty" ELSE "d_val")
  /\ sentinel' = [sentinel EXCEPT ![t] = head]
  /\ nxt' = [nxt EXCEPT ![t] = next[head]]
  /\ UNCHANGED <<heapVars, enq_lock, deq_lock, node, val>>

DeqEmpty_Faulty(t) ==       \* deq waits for a value instead of returning 0
  /\ GoTo(t, "d_empty", "d_read")
  /\ UNCHANGED <<heapVars, enq_lock, deq_lock, localVars>>

DeqEmpty(t) ==
  /\ Return(t, "d_empty")
  /\ UnsetLock(deq_lock)
  /\ UNCHANGED <<heapVars, enq_lock>>

DeqReadValue(t) ==
  /\ GoTo(t, "d_val", "d_head")
  /\ val' = [val EXCEPT ![t] = data[nxt[t]]]
  /\ UNCHANGED <<heapVars, enq_lock, deq_lock, node, sentinel, nxt>>

(* Q->head = next, the linearization point of a deq that succeeds. *)
DeqMoveHead(t) ==
  /\ GoTo(t, "d_head", "d_last")
  /\ head' = nxt[t]
  /\ nxt' = [nxt EXCEPT ![t] = NULL]
  /\ UNCHANGED <<num_threads, tail, next, data, heap, freeHead, freeSize,
                 enq_lock, deq_lock, node, sentinel, val>>

DeqTestLast_Faulty(t) ==    \* the last node is treated as any other
  /\ GoTo(t, "d_last", "recycle")
  /\ UNCHANGED <<heapVars, enq_lock, deq_lock, localVars>>

(* The first test, without enq_lock, whether the queue has become empty. *)
DeqTestLast(t) ==
  /\ GoTo(t, "d_last", IF next[head] = NULL THEN "d_enqlock" ELSE "recycle")
  /\ UNCHANGED <<heapVars, enq_lock, deq_lock, localVars>>

DeqSetEnqLock_Faulty(t) ==  \* the locks are set one after the other, not nested
  /\ GoTo(t, "d_enqlock", "d_recheck")
  /\ Set(enq_lock, t)
  /\ UnsetLock(deq_lock)
  /\ UNCHANGED <<heapVars, localVars>>

DeqSetEnqLock(t) ==
  /\ GoTo(t, "d_enqlock", "d_recheck")
  /\ Set(enq_lock, t)
  /\ UNCHANGED <<heapVars, deq_lock, localVars>>

(* The second test, with both locks.                                       *)
DeqRecheck(t) ==
  /\ GoTo(t, "d_recheck", "d_enqunlock")
  /\ tail' = IF next[head] = NULL THEN head ELSE tail
  /\ UNCHANGED <<num_threads, head, next, data, heap, freeHead, freeSize,
                 enq_lock, deq_lock, localVars>>

DeqUnsetEnqLock(t) ==
  /\ GoTo(t, "d_enqunlock", "recycle")
  /\ UnsetLock(enq_lock)
  /\ UNCHANGED <<heapVars, deq_lock, localVars>>

DeqRecycle(t) ==
  /\ GoTo(t, "recycle", "d_unlock")
  /\ Recycle(t, sentinel[t])
  /\ sentinel' = [sentinel EXCEPT ![t] = NULL]
  /\ UNCHANGED <<num_threads, head, tail, enq_lock, deq_lock, node, nxt, val>>

DeqUnsetLock(t) ==
  /\ Return(t, "d_unlock")
  /\ UnsetLock(deq_lock)
  /\ UNCHANGED <<heapVars, enq_lock>>

(* destroy_queue and init_queue run while no thread is in a call. *)
Destroy ==
  /\ \A t \in Threads : pc[t] = "idle"
  /\ FreeAll({})
  /\ head' = NULL
  /\ UNCHANGED <<tail, enq_lock, deq_lock, pc, localVars>>

InitQueue ==
  /\ InitHeap
  /\ enq_lock' = Unset /\ deq_lock' = Unset
  /\ UNCHANGED <<pc, localVars>>

-----------------------------------------------------------------------------
EnqStep(t) ==
  \/ EnqSetLock(t) \/ EnqUpcycle(t) \/ EnqNoMemory(t) \/ EnqRefuse(t)
  \/ EnqFill(t) \/ EnqLink(t) \/ EnqSwing(t) \/ EnqUnsetLock(t)

DeqStep(t) ==
  \/ DeqSetLock(t) \/ DeqRead(t) \/ DeqEmpty(t) \/ DeqReadValue(t)
  \/ DeqMoveHead(t) \/ DeqTestLast(t) \/ DeqSetEnqLock(t) \/ DeqRecheck(t)
  \/ DeqUnsetEnqLock(t) \/ DeqRecycle(t) \/ DeqUnsetLock(t)

(* A step of a call in progress, as opposed to the start of a call. *)
Step(t) == EnqStep(t) \/ DeqStep(t)

Begin(t) == CallDeq(t) \/ \E v \in Values : CallEnq(t, v)

Next == (\E t \in Threads : Begin(t) \/ Step(t)) \/ Destroy \/ InitQueue

Spec == Init /\ [][Next]_vars

(* Every thread keeps being scheduled, but a lock that is given back and    *)
(* set by others again and again may pass a waiting thread by for ever:     *)
(* OpenMP promises no order among those that wait.                          *)
FairSpec == Spec /\ \A t \in Threads : WF_vars(Step(t))

-----------------------------------------------------------------------------
InEnqSection(t) ==
  pc[t] \in (EnqLabels \ {"e_lock"}) \cup {"d_recheck", "d_enqunlock"}
InDeqSection(t) == pc[t] \in DeqLabels \ {"d_lock"}

(* Each lock is held by the thread that is in its section, and by nobody    *)
(* when there is none: no path out of enq or deq forgets to give one back.  *)
LocksHeld ==
  \A t \in Threads : /\ InEnqSection(t) <=> enq_lock = t
                     /\ InDeqSection(t) <=> deq_lock = t

(* The node that t has taken and not yet linked, or unlinked and not yet    *)
(* put on its free list.                                                    *)
Held(t) ==
  CASE pc[t] \in {"fill", "link"} -> {node[t]}
    [] pc[t] \in {"d_last", "d_enqlock", "d_recheck", "d_enqunlock", "recycle"}
         -> {sentinel[t]}
    [] OTHER -> {}

InQueue == IF num_threads = 0 THEN {} ELSE ChainNodes(head)

(* Every allocated node has exactly one owner - the queue, a free list or a *)
(* call - and a size field counts its free list; destroy_queue leaves       *)
(* nothing allocated.                                                       *)
NodesAccounted ==
  /\ \A x \in Nodes :
       LET owners == (IF x \in InQueue THEN 1 ELSE 0)
             + Cardinality({t \in Threads : x \in ChainNodes(freeHead[t])})
             + Cardinality({t \in Threads : x \in Held(t)})
       IN  owners = IF x \in heap THEN 1 ELSE 0
  /\ \A t \in Threads : freeSize[t] = Len(Chain(freeHead[t]))

(* deq never looks at tail before it recycles the old dummy node, yet the   *)
(* node that it recycles is not the one that tail points to: in the window  *)
(* in which an enq has linked to the dummy and not yet moved tail, the wait *)
(* for enq_lock holds deq back.                                             *)
TailNotRecycled == \A t \in Threads : pc[t] = "recycle" => sentinel[t] # tail

(* When deq finds the queue empty under both locks, tail is at head         *)
(* already: the wait for enq_lock is what lets enq finish, the assignment   *)
(* after the second test changes nothing.                                   *)
WaitMovesTail ==
  \A t \in Threads : pc[t] = "d_recheck" /\ next[head] = NULL => tail = head

(* What the next step of t writes and reads that other threads may access.  *)
Writes(t) ==
  CASE pc[t] = "fill"      -> {<<"data", node[t]>>, <<"next", node[t]>>}
    [] pc[t] = "link"      -> {<<"next", tail>>}
    [] pc[t] = "swing"     -> {<<"tail">>}
    [] pc[t] = "d_head"    -> {<<"head">>}
    [] pc[t] = "d_recheck" -> {<<"tail">>}
    [] pc[t] = "recycle"   -> {<<"next", sentinel[t]>>}
    [] OTHER               -> {}

Reads(t) ==
  CASE pc[t] = "link" -> {<<"tail">>}
    [] pc[t] \in {"d_read", "d_last", "d_recheck"} -> {<<"head">>, <<"next", head>>}
    [] pc[t] = "d_val" -> {<<"data", nxt[t]>>}
    [] OTHER -> {}

Race(t, u) == t # u /\ Writes(t) \cap (Reads(u) \cup Writes(u)) # {}

(* head, tail, the data fields and the free lists are free of data races:   *)
(* the only one is between the link of enq and the two tests of deq for a   *)
(* successor, on the next field of the last node.                           *)
OnlyLinkRaces ==
  \A t, u \in Threads :
    Race(t, u) => pc[t] = "link" /\ pc[u] \in {"d_read", "d_last"} /\ tail = head

(* No two threads access the same memory at the same time, one of them      *)
(* writing: what "Locking to ensure thread safety" (Ex4.c:91, 112) means    *)
(* for fields that are not atomic.                                          *)
RaceFree == \A t, u \in Threads : ~Race(t, u)

-----------------------------------------------------------------------------
(* The abstract call that thread t is making. *)
AbsCall(t) ==
  CASE pc[t] = "idle" -> [op |-> "idle"]
    [] pc[t] \in {"e_lock", "upcycle", "fill", "link", "e_refuse"}
         -> [op |-> "enq", arg |-> val[t]]
    [] pc[t] \in {"swing", "e_unlock"} -> [op |-> "enqDone"]
    [] pc[t] \in {"d_lock", "d_read", "d_val", "d_head"} -> [op |-> "deq"]
    [] pc[t] = "d_empty" -> [op |-> "deqEmpty"]
    [] OTHER -> [op |-> "deqDone", res |-> val[t]]

Abs == INSTANCE LinearizableQueue
         WITH queue <- IF num_threads = 0 THEN <<>> ELSE Contents,
              call <- [t \in Threads |-> AbsCall(t)]

(* Every enq and deq takes effect at one instant of its call, in FIFO       *)
(* order; an enq for which there is no memory changes nothing, and a deq    *)
(* fails only if the queue was empty during the call.                       *)
Linearizable == Abs!AbsSpec

(* If finitely many calls begin, each of them returns: deq waits for        *)
(* enq_lock while it has deq_lock, but never the other way round.           *)
CallsReturn ==
  \/ []<><<\E t \in Threads : Begin(t)>>_vars
  \/ \A t \in Threads : pc[t] # "idle" ~> pc[t] = "idle"
=============================================================================
