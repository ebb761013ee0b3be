------------------------------ MODULE PetersonTwoLock ------------------------------
(***************************************************************************)
(* archive/Ex4_old.c: the two-lock queue as it was before Ex4.c.  A call   *)
(* that sees head->next == tail takes a third lock besides enq_lock or     *)
(* deq_lock, Peterson's, in which enq has the id 0 and deq the id 1.       *)
(*                                                                         *)
(* pc[t] names what thread t does next, one access to what enq and deq     *)
(* share at a time.  The fields are plain C and the two race for them: a   *)
(* later line may use what the first test has read or read it again, as    *)
(* the compiled code does at -O3 and at -O0.                               *)
(*                                                                         *)
(* The fields of Peterson's lock are volatile, but nothing orders a store  *)
(* to them before a later load: on x86 it may become visible after it.     *)
(*                                                                         *)
(* An operator named ..._Faulty is what a mistake could make of the        *)
(* definition after it.  No action uses one.                               *)
(***************************************************************************)
EXTENDS NodeHeap

CONSTANTS
  SizeBound  \* a thread whose free list counts more nodes than this, as it may
             \* when nodes have been lost, begins no call

ASSUME PetersonAssumption == SizeBound \in Nat

VARIABLES
  enq_lock, deq_lock,  \* the thread that holds the lock, or Unset
  flag, victim,        \* plock
  pending,             \* pending[id]: how many stores to plock are not yet visible
  pc,
  aba_wait, node,      \* locals; node is new_node in enq, sentinel in deq
  nxt, last,           \* head->next and tail as the first test has read them
  val

locks     == <<enq_lock, deq_lock>>
plock     == <<flag, victim, pending>>
localVars == <<aba_wait, node, nxt, last, val>>
vars      == <<heapVars, locks, plock, pc, localVars>>

Unset == -1
Ids   == {0, 1}     \* flag_id of enq and of deq

EnqLabels == {"e_lock", "e_head", "e_first", "e_test", "e_plock", "e_wait", "upcycle",
              "fill", "e_tail", "link", "swing", "e_drop", "e_unlock"}
DeqLabels == {"d_lock", "d_next", "d_test", "d_plock", "d_wait", "d_empty", "d_val", "d_head",
              "d_last", "d_tail", "recycle", "d_drop", "d_unlock"}
Id(t) == IF pc[t] \in EnqLabels THEN 0 ELSE 1

TypeOK ==
  /\ HeapTypeOK
  /\ enq_lock \in Threads \cup {Unset} /\ deq_lock \in Threads \cup {Unset}
  /\ flag \in [Ids -> BOOLEAN] /\ victim \in Ids /\ pending \in [Ids -> 0 .. 2]
  /\ pc \in [Threads -> {"idle"} \cup EnqLabels \cup DeqLabels]
  /\ aba_wait \in [Threads -> BOOLEAN]
  /\ node \in [Threads -> NodeOrNULL] /\ nxt \in [Threads -> NodeOrNULL]
  /\ last \in [Threads -> NodeOrNULL] /\ val \in [Threads -> ValueOrNULL]

Init ==
  /\ HeapInit
  /\ enq_lock = Unset /\ deq_lock = Unset
  /\ flag = [i \in Ids |-> FALSE] /\ victim = 0 /\ pending = [i \in Ids |-> 0]
  /\ pc = [t \in Threads |-> "idle"]
  /\ aba_wait = [t \in Threads |-> FALSE]
  /\ node = [t \in Threads |-> NULL] /\ nxt = [t \in Threads |-> NULL]
  /\ last = [t \in Threads |-> NULL] /\ val = [t \in Threads |-> NULL]

-----------------------------------------------------------------------------
GoTo(t, from, to) == pc[t] = from /\ pc' = [pc EXCEPT ![t] = to]

(* A later store of the thread becomes visible after those to plock.       *)
Drained(t) == pending[Id(t)] = 0

CallEnq(t, v) ==
  /\ num_threads # 0
  /\ GoTo(t, "idle", "e_lock")
  /\ val' = [val EXCEPT ![t] = v]
  /\ UNCHANGED <<heapVars, locks, plock, aba_wait, node, nxt, last>>

CallDeq(t) ==
  /\ num_threads # 0
  /\ GoTo(t, "idle", "d_lock")
  /\ UNCHANGED <<heapVars, locks, plock, localVars>>

SetLock(t) ==
  /\ \/ GoTo(t, "e_lock", "e_head") /\ enq_lock = Unset /\ enq_lock' = t /\ UNCHANGED deq_lock
     \/ GoTo(t, "d_lock", "d_next") /\ deq_lock = Unset /\ deq_lock' = t /\ UNCHANGED enq_lock
  /\ UNCHANGED <<heapVars, plock, localVars>>

(* Q->head->next == Q->tail in enq: three reads, and deq may move head and  *)
(* tail between them.  The last two are made in either order: at -O0 next   *)
(* is read first, at -O3 tail.                                              *)
EnqReadHead(t) ==
  /\ GoTo(t, "e_head", "e_first")
  /\ nxt' = [nxt EXCEPT ![t] = head]
  /\ UNCHANGED <<heapVars, locks, plock, aba_wait, node, last, val>>

EnqReadFirst(t) ==
  /\ GoTo(t, "e_first", "e_test")
  /\ \/ nxt' = [nxt EXCEPT ![t] = next[@]] /\ UNCHANGED last
     \/ last' = [last EXCEPT ![t] = tail] /\ UNCHANGED nxt
  /\ UNCHANGED <<heapVars, locks, plock, aba_wait, node, val>>

EnqTest(t) ==
  LET n == IF last[t] = NULL THEN nxt[t] ELSE next[nxt[t]]
      l == IF last[t] = NULL THEN tail ELSE last[t]
  IN  /\ GoTo(t, "e_test", IF n = l THEN "e_plock" ELSE "upcycle")
      /\ aba_wait' = [aba_wait EXCEPT ![t] = n = l]
      /\ nxt' = [nxt EXCEPT ![t] = NULL] /\ last' = [last EXCEPT ![t] = l]
      /\ UNCHANGED <<heapVars, locks, plock, node, val>>

(* The same test in deq, which alone moves head. *)
DeqReadNext(t) ==
  /\ GoTo(t, "d_next", "d_test")
  /\ nxt' = [nxt EXCEPT ![t] = next[head]]
  /\ UNCHANGED <<heapVars, locks, plock, aba_wait, node, last, val>>

DeqTest(t) ==
  /\ GoTo(t, "d_test", IF nxt[t] = tail THEN "d_plock" ELSE "d_empty")
  /\ aba_wait' = [aba_wait EXCEPT ![t] = nxt[t] = tail]
  /\ last' = [last EXCEPT ![t] = tail]
  /\ UNCHANGED <<heapVars, locks, plock, node, nxt, val>>

(* lock_peterson: the stores to flag and victim are issued ...              *)
LockPeterson(t) ==
  /\ GoTo(t, "e_plock", "e_wait") \/ GoTo(t, "d_plock", "d_wait")
  /\ pending' = [pending EXCEPT ![Id(t)] = 2]
  /\ UNCHANGED <<heapVars, locks, flag, victim, localVars>>

(* ... and become visible, in this order.                                   *)
Commit(i) ==
  /\ pending[i] > 0
  /\ pending' = [pending EXCEPT ![i] = @ - 1]
  /\ IF pending[i] = 2
     THEN flag' = [flag EXCEPT ![i] = TRUE] /\ UNCHANGED victim
     ELSE victim' = i /\ UNCHANGED flag
  /\ UNCHANGED <<heapVars, locks, pc, localVars>>

(* The busy wait ends, possibly before the other side can see the stores    *)
(* that preceded it.  A thread sees its own store to victim at once.        *)
EndWait(t) ==
  /\ GoTo(t, "e_wait", "upcycle") \/ GoTo(t, "d_wait", "d_empty")
  /\ ~flag[1 - Id(t)] \/ (Drained(t) /\ victim # Id(t))
  /\ UNCHANGED <<heapVars, locks, plock, localVars>>

EnqUpcycle(t) ==
  /\ GoTo(t, "upcycle", "fill")
  /\ \E n \in Nodes : Upcycle(t, n) /\ node' = [node EXCEPT ![t] = n]
  /\ UNCHANGED <<num_threads, head, tail, locks, plock, aba_wait, nxt, last, val>>

EnqNoMemory_Faulty(t) ==      \* the return leaves out unlock_peterson
  /\ GoTo(t, "upcycle", "e_unlock")
  /\ freeHead[t] = NULL
  /\ UNCHANGED <<heapVars, locks, plock, localVars>>

EnqNoMemory(t) ==
  /\ GoTo(t, "upcycle", "e_drop")
  /\ freeHead[t] = NULL
  /\ UNCHANGED <<heapVars, locks, plock, localVars>>

EnqFill(t) ==
  /\ GoTo(t, "fill", "e_tail")
  /\ data' = [data EXCEPT ![node[t]] = val[t]]
  /\ next' = [next EXCEPT ![node[t]] = NULL]
  /\ UNCHANGED <<num_threads, head, tail, heap, freeHead, freeSize, locks, plock, localVars>>

(* Q->tail->next = new_node: the node to link to, then the link.            *)
EnqReadTail(t) ==
  /\ GoTo(t, "e_tail", "link")
  /\ \E l \in {last[t], tail} : last' = [last EXCEPT ![t] = l]
  /\ UNCHANGED <<heapVars, locks, plock, aba_wait, node, nxt, val>>

EnqLink(t) ==
  /\ GoTo(t, "link", "swing") /\ Drained(t)
  /\ next' = [next EXCEPT ![last[t]] = node[t]]
  /\ last' = [last EXCEPT ![t] = NULL]
  /\ UNCHANGED <<num_threads, head, tail, data, heap, freeHead, freeSize, locks, plock,
                 aba_wait, node, nxt, val>>

EnqSwing(t) ==
  /\ GoTo(t, "swing", "e_drop")
  /\ tail' = node[t]
  /\ UNCHANGED <<num_threads, head, next, data, heap, freeHead, freeSize, locks, plock, localVars>>

(* The test whether the queue is empty.                                     *)
DeqEmpty(t) ==
  /\ pc[t] = "d_empty"
  /\ \E n \in {nxt[t], next[head]} : GoTo(t, "d_empty", IF n = NULL THEN "d_drop" ELSE "d_val")
  /\ UNCHANGED <<heapVars, locks, plock, localVars>>

(* sentinel = Q->head; *v = sentinel->next->data                            *)
DeqReadValue(t) ==
  /\ GoTo(t, "d_val", "d_head")
  /\ node' = [node EXCEPT ![t] = head]
  /\ \E n \in {nxt[t], next[head]} \ {NULL} : val' = [val EXCEPT ![t] = data[n]]
  /\ UNCHANGED <<heapVars, locks, plock, aba_wait, nxt, last>>

DeqMoveHead(t) ==
  /\ GoTo(t, "d_head", "d_last") /\ Drained(t)
  /\ head' \in {nxt[t], next[node[t]]} \ {NULL}
  /\ nxt' = [nxt EXCEPT ![t] = NULL]
  /\ UNCHANGED <<num_threads, tail, next, data, heap, freeHead, freeSize, locks, plock,
                 aba_wait, node, last, val>>

(* if (Q->tail == sentinel->next) ...                                       *)
DeqTestLast(t) ==
  /\ \E l \in {last[t], tail} : GoTo(t, "d_last", IF l = head THEN "d_tail" ELSE "recycle")
  /\ last' = [last EXCEPT ![t] = NULL]
  /\ UNCHANGED <<heapVars, locks, plock, aba_wait, node, nxt, val>>

(* ... Q->tail = Q->head                                                    *)
DeqMoveTail(t) ==
  /\ GoTo(t, "d_tail", "recycle")
  /\ tail' = head
  /\ UNCHANGED <<num_threads, head, next, data, heap, freeHead, freeSize, locks, plock, localVars>>

DeqRecycle(t) ==
  /\ GoTo(t, "recycle", "d_drop")
  /\ Recycle(t, node[t])
  /\ UNCHANGED <<num_threads, head, tail, locks, plock, localVars>>

(* if (aba_wait) unlock_peterson(...)                                       *)
UnlockPeterson(t) ==
  /\ GoTo(t, "e_drop", "e_unlock") \/ GoTo(t, "d_drop", "d_unlock")
  /\ Drained(t)
  /\ flag' = IF aba_wait[t] THEN [flag EXCEPT ![Id(t)] = FALSE] ELSE flag
  /\ UNCHANGED <<heapVars, locks, victim, pending, localVars>>

(* The lock is given back and the call returns.                             *)
UnsetLock(t) ==
  /\ \/ GoTo(t, "e_unlock", "idle") /\ enq_lock' = Unset /\ UNCHANGED deq_lock
     \/ GoTo(t, "d_unlock", "idle") /\ deq_lock' = Unset /\ UNCHANGED enq_lock
  /\ aba_wait' = [aba_wait EXCEPT ![t] = FALSE]
  /\ node' = [node EXCEPT ![t] = NULL] /\ nxt' = [nxt EXCEPT ![t] = NULL]
  /\ last' = [last EXCEPT ![t] = NULL] /\ val' = [val EXCEPT ![t] = NULL]
  /\ UNCHANGED <<heapVars, plock>>

(* destroy_queue and init_queue run while no thread is in a call.           *)
Destroy ==
  /\ \A t \in Threads : pc[t] = "idle"
  /\ FreeAll({}) /\ head' = NULL
  /\ UNCHANGED <<tail, locks, plock, pc, localVars>>

InitQueue ==
  /\ InitHeap
  /\ enq_lock' = Unset /\ deq_lock' = Unset
  /\ flag' = [i \in Ids |-> FALSE] /\ victim' = 0
  /\ UNCHANGED <<pending, pc, localVars>>

-----------------------------------------------------------------------------
Step(t) ==
  \/ SetLock(t) \/ EnqReadHead(t) \/ EnqReadFirst(t) \/ EnqTest(t) \/ DeqReadNext(t) \/ DeqTest(t)
  \/ LockPeterson(t) \/ EndWait(t) \/ UnlockPeterson(t) \/ UnsetLock(t)
  \/ EnqUpcycle(t) \/ EnqNoMemory(t) \/ EnqFill(t) \/ EnqReadTail(t) \/ EnqLink(t) \/ EnqSwing(t)
  \/ DeqEmpty(t) \/ DeqReadValue(t) \/ DeqMoveHead(t) \/ DeqTestLast(t) \/ DeqMoveTail(t)
  \/ DeqRecycle(t)

Begin(t) ==
  /\ freeSize[t] \in -SizeBound .. SizeBound
  /\ CallDeq(t) \/ \E v \in Values : CallEnq(t, v)

Next ==
  \/ \E t \in Threads : Begin(t) \/ Step(t)
  \/ \E i \in Ids : Commit(i)
  \/ Destroy \/ InitQueue

Spec == Init /\ [][Next]_vars

(* Every thread keeps being scheduled and no store is delayed for ever.     *)
FairSpec == /\ Spec
            /\ \A t \in Threads : WF_vars(Step(t))
            /\ \A i \in Ids : WF_vars(Commit(i))

-----------------------------------------------------------------------------
Waited == {"upcycle", "fill", "e_tail", "link", "swing", "e_drop", "d_empty", "d_val", "d_head",
           "d_last", "d_tail", "recycle", "d_drop"}

(* Of an enq and a deq that have both called lock_peterson, one waits until *)
(* the other has called unlock_peterson: what "Resolve ABA by waiting"      *)
(* (Ex4_old.c:109, 141) promises.  The wait of each may read the flag of    *)
(* the other while the store to it is still delayed.                        *)
PlockExclusive ==
  \A t, u \in Threads :
    t # u /\ aba_wait[t] /\ aba_wait[u] => ~(pc[t] \in Waited /\ pc[u] \in Waited)

(* On every path out of enq and deq the lock is given back, and Peterson's  *)
(* if it was taken: a flag is up exactly while a thread of that side is     *)
(* between lock_peterson and unlock_peterson.                               *)
LocksHeld ==
  /\ TypeOK
  /\ \A t \in Threads : /\ pc[t] \in EnqLabels \ {"e_lock"} <=> enq_lock = t
                        /\ pc[t] \in DeqLabels \ {"d_lock"} <=> deq_lock = t
  /\ \A i \in Ids : flag[i] \/ pending[i] = 2 <=>
       \E t \in Threads : /\ Id(t) = i /\ aba_wait[t]
                          /\ pc[t] \in Waited \cup {"e_wait", "d_wait"}

(* Whenever no call is in progress, every allocated node is in the queue or *)
(* on a free list, where later calls and destroy_queue find it: what        *)
(* "Locking to ensure thread safety" (Ex4_old.c:106, 138) is for.           *)
NothingLost ==
  (\A t \in Threads : pc[t] = "idle") =>
    heap = (IF num_threads = 0 THEN {} ELSE ChainNodes(head))
             \cup UNION {ChainNodes(freeHead[t]) : t \in Threads}

(* If finitely many calls begin, each of them returns: nobody waits for     *)
(* Peterson's lock for ever.                                                *)
CallsReturn ==
  \/ []<><<\E t \in Threads : Begin(t)>>_vars
  \/ \A t \in Threads : pc[t] # "idle" ~> pc[t] = "idle"
=============================================================================
