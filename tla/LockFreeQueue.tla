------------------------------ MODULE LockFreeQueue ------------------------------
(***************************************************************************)
(* Ex5.c: the lock-free queue of Michael and Scott with quiescent-state    *)
(* based reclamation.  Every access to memory that threads share is a step *)
(* of its own; all of them are seq_cst atomics except the data field.      *)
(*                                                                         *)
(* pc[t] names the access that thread t does next:                         *)
(*   upcycle fill       take a node, write its fields                      *)
(*   e_tail .. e_help   the loop of enq                                    *)
(*   d_head .. d_cas    the loop of deq                                    *)
(*   retire             mm_retire                                          *)
(*   op_end             the counter increment of mm_op_end                 *)
(*   scan spin          mm_wait_until_unreserved                           *)
(*   reclaim            mm_reclaim_all                                     *)
(* A local variable is NULL outside the scope it has in the code, and so   *)
(* is every local variable in a fresh turn of a loop.                      *)
(*                                                                         *)
(* An operator named ..._Faulty is what a mistake could make of the        *)
(* definition after it.  No action uses one: they are substituted, one at  *)
(* a time, to see that the properties at the end notice the mistake.       *)
(***************************************************************************)
EXTENDS NodeHeap

CONSTANTS
  CtrMod,      \* the counters wrap at CtrMod: 2^64 in the code
  CtrBound,    \* a thread whose counter has reached CtrBound calls no more
  SpuriousCAS  \* may atomic_compare_exchange_weak fail without a reason?

ASSUME CtrAssumption ==
  /\ CtrMod \in Nat \ {0} /\ CtrMod % 2 = 0
  /\ CtrBound \in Nat
  /\ SpuriousCAS \in BOOLEAN

VARIABLES
  ctr,      \* the fields ctr[t] and retired[t] of queue_t; the list
  retired,  \* retired[t] has the node retired last in front
  pc,
  node,     \* n of enq
  first,    \* first of deq
  last,     \* last of enq and deq
  nxt,      \* next of enq and deq
  val,      \* v of enq; val of deq, where NULL means "not loaded"
  scan,     \* t of mm_wait_until_unreserved
  seen      \* v of mm_wait_until_unreserved

localVars == <<node, first, last, nxt, val, scan, seen>>
vars == <<heapVars, ctr, retired, pc, localVars>>

IsOdd_Faulty(c) == FALSE          \* no thread is ever waited for
IsOdd(c) == c % 2 = 1

Bump_Faulty(c) == c + 1           \* the counter does not wrap
Bump(c) == IF c = CtrMod - 1 THEN 0 ELSE c + 1

EnqLoop == {"e_tail", "e_next", "e_check", "e_link", "e_help"}
DeqLoop == {"d_head", "d_tail", "d_next", "d_check", "d_help", "d_val", "d_cas"}
Quiescent == {"idle", "scan", "spin", "reclaim"}
Labels == {"upcycle", "fill", "e_swing", "retire", "op_end"}
            \cup EnqLoop \cup DeqLoop \cup Quiescent

(* t is between op_begin and op_end. *)
InOp(t) == pc[t] \notin Quiescent

TypeOK ==
  /\ HeapTypeOK
  /\ ctr \in [Threads -> 0 .. CtrMod - 1]
  /\ retired \in [Threads -> Seq(Nodes)]
  /\ pc \in [Threads -> Labels]
  /\ node \in [Threads -> NodeOrNULL]
  /\ first \in [Threads -> NodeOrNULL]
  /\ last \in [Threads -> NodeOrNULL]
  /\ nxt \in [Threads -> NodeOrNULL]
  /\ val \in [Threads -> ValueOrNULL]
  /\ scan \in [Threads -> 0 .. NumThreads]
  /\ seen \in [Threads -> 0 .. CtrMod - 1]

Init ==
  /\ HeapInit
  /\ ctr = [t \in Threads |-> 0]
  /\ retired = [t \in Threads |-> <<>>]
  /\ pc = [t \in Threads |-> "idle"]
  /\ node = [t \in Threads |-> NULL]
  /\ first = [t \in Threads |-> NULL]
  /\ last = [t \in Threads |-> NULL]
  /\ nxt = [t \in Threads |-> NULL]
  /\ val = [t \in Threads |-> NULL]
  /\ scan = [t \in Threads |-> 0]
  /\ seen = [t \in Threads |-> 0]

-----------------------------------------------------------------------------
GoTo(t, from, to) == pc[t] = from /\ pc' = [pc EXCEPT ![t] = to]

(* The local pointers go out of scope. *)
DropPointers(t) ==
  /\ first' = [first EXCEPT ![t] = NULL]
  /\ last' = [last EXCEPT ![t] = NULL]
  /\ nxt' = [nxt EXCEPT ![t] = NULL]

CASResults_Faulty(loc, expected) == {TRUE}  \* a store instead of a CAS

(* What atomic_compare_exchange_weak(loc, expected, new) may return. *)
CASResults(loc, expected) ==
  {r \in BOOLEAN : (r => loc = expected) /\ (~r => SpuriousCAS \/ loc # expected)}

(* The call of enq or deq, up to and including mm_op_begin. *)
BeginOp(t, entry) ==
  /\ num_threads # 0 /\ t < num_threads
  /\ ctr[t] < CtrBound
  /\ GoTo(t, "idle", entry)
  /\ ctr' = [ctr EXCEPT ![t] = Bump(@)]
  /\ UNCHANGED <<heapVars, retired, node, first, last, nxt, scan, seen>>

BeginEnq(t, v) ==
  /\ BeginOp(t, "upcycle")
  /\ MemoryFor(t, {u \in Threads : pc[u] = "upcycle" /\ freeHead[u] = NULL})
  /\ val' = [val EXCEPT ![t] = v]

BeginDeq(t) == BeginOp(t, "d_head") /\ UNCHANGED val

EnqUpcycle(t) ==
  /\ GoTo(t, "upcycle", "fill")
  /\ \E n \in Nodes : Upcycle(t, n) /\ node' = [node EXCEPT ![t] = n]
  /\ UNCHANGED <<num_threads, head, tail, ctr, retired,
                 first, last, nxt, val, scan, seen>>

EnqFill(t) ==
  /\ GoTo(t, "fill", "e_tail")
  /\ data' = [data EXCEPT ![node[t]] = val[t]]
  /\ next' = [next EXCEPT ![node[t]] = NULL]
  /\ UNCHANGED <<num_threads, head, tail, heap, freeHead, freeSize,
                 ctr, retired, localVars>>

EnqReadTail(t) ==
  /\ GoTo(t, "e_tail", "e_next")
  /\ last' = [last EXCEPT ![t] = tail]
  /\ UNCHANGED <<heapVars, ctr, retired, node, first, nxt, val, scan, seen>>

EnqReadNext(t) ==
  /\ GoTo(t, "e_next", "e_check")
  /\ nxt' = [nxt EXCEPT ![t] = next[last[t]]]
  /\ UNCHANGED <<heapVars, ctr, retired, node, first, last, val, scan, seen>>

(* A lagging tail is not helped forward but waited for. *)
EnqCheck_Faulty(t) ==
  /\ \/ /\ last[t] = tail /\ nxt[t] = NULL
        /\ GoTo(t, "e_check", "e_link")
        /\ UNCHANGED <<first, last, nxt>>
     \/ /\ last[t] # tail \/ nxt[t] # NULL
        /\ GoTo(t, "e_check", "e_tail")
        /\ DropPointers(t)
  /\ UNCHANGED <<heapVars, ctr, retired, node, val, scan, seen>>

EnqValid(t) ==
  /\ last[t] = tail
  /\ GoTo(t, "e_check", IF nxt[t] = NULL THEN "e_link" ELSE "e_help")
  /\ UNCHANGED <<heapVars, ctr, retired, localVars>>

EnqStale(t) ==
  /\ last[t] # tail
  /\ GoTo(t, "e_check", "e_tail")
  /\ DropPointers(t)
  /\ UNCHANGED <<heapVars, ctr, retired, node, val, scan, seen>>

EnqCheck(t) == EnqValid(t) \/ EnqStale(t)

(* The CAS on last->next, the linearization point of enq. *)
LinkSucceeds(t) ==
  /\ GoTo(t, "e_link", "e_swing")
  /\ TRUE \in CASResults(next[last[t]], NULL)
  /\ next' = [next EXCEPT ![last[t]] = node[t]]
  /\ UNCHANGED <<num_threads, head, tail, data, heap, freeHead, freeSize,
                 ctr, retired, localVars>>

LinkFails(t) ==
  /\ GoTo(t, "e_link", "e_tail")
  /\ FALSE \in CASResults(next[last[t]], NULL)
  /\ DropPointers(t)
  /\ UNCHANGED <<heapVars, ctr, retired, node, val, scan, seen>>

EnqLink(t) == LinkSucceeds(t) \/ LinkFails(t)

(* The CAS that moves tail from last to new; what follows is the same       *)
(* whether it succeeds or fails.                                            *)
SwingTail(t, new) ==
  /\ \E ok \in CASResults(tail, last[t]) : tail' = IF ok THEN new ELSE tail
  /\ DropPointers(t)
  /\ UNCHANGED <<num_threads, head, next, data, heap, freeHead, freeSize,
                 ctr, retired, node, scan, seen>>

EnqSwing(t) ==
  /\ GoTo(t, "e_swing", "op_end")
  /\ SwingTail(t, node[t])
  /\ val' = [val EXCEPT ![t] = NULL]

EnqHelp(t) ==
  GoTo(t, "e_help", "e_tail") /\ SwingTail(t, nxt[t]) /\ UNCHANGED val

DeqReadHead(t) ==
  /\ GoTo(t, "d_head", "d_tail")
  /\ first' = [first EXCEPT ![t] = head]
  /\ UNCHANGED <<heapVars, ctr, retired, node, last, nxt, val, scan, seen>>

DeqReadTail(t) ==
  /\ GoTo(t, "d_tail", "d_next")
  /\ last' = [last EXCEPT ![t] = tail]
  /\ UNCHANGED <<heapVars, ctr, retired, node, first, nxt, val, scan, seen>>

DeqReadNext(t) ==
  /\ GoTo(t, "d_next", "d_check")
  /\ nxt' = [nxt EXCEPT ![t] = next[first[t]]]
  /\ UNCHANGED <<heapVars, ctr, retired, node, first, last, val, scan, seen>>

DeqStale(t) ==
  /\ first[t] # head
  /\ GoTo(t, "d_check", "d_head")
  /\ DropPointers(t)
  /\ UNCHANGED <<heapVars, ctr, retired, node, val, scan, seen>>

(* A deq that finds the queue empty tries again. *)
DeqFindsEmpty_Faulty(t) ==
  /\ first[t] = head /\ first[t] = last[t] /\ nxt[t] = NULL
  /\ GoTo(t, "d_check", "d_head")
  /\ DropPointers(t)
  /\ UNCHANGED <<heapVars, ctr, retired, node, val, scan, seen>>

(* A deq that finds first = last and no successor returns 0. *)
DeqFindsEmpty(t) ==
  /\ first[t] = head /\ first[t] = last[t] /\ nxt[t] = NULL
  /\ GoTo(t, "d_check", "op_end")
  /\ DropPointers(t)
  /\ UNCHANGED <<heapVars, ctr, retired, node, val, scan, seen>>

DeqValid(t) ==
  /\ first[t] = head /\ ~(first[t] = last[t] /\ nxt[t] = NULL)
  /\ GoTo(t, "d_check", IF first[t] = last[t] THEN "d_help" ELSE "d_val")
  /\ UNCHANGED <<heapVars, ctr, retired, localVars>>

DeqCheck(t) == DeqStale(t) \/ DeqFindsEmpty(t) \/ DeqValid(t)

DeqHelp_Faulty(t) ==      \* deq waits until the other thread moves tail
  /\ GoTo(t, "d_help", "d_head") /\ DropPointers(t)
  /\ UNCHANGED <<heapVars, ctr, retired, node, val, scan, seen>>

DeqHelp(t) ==
  GoTo(t, "d_help", "d_head") /\ SwingTail(t, nxt[t]) /\ UNCHANGED val

DeqReadValue(t) ==
  /\ GoTo(t, "d_val", "d_cas")
  /\ val' = [val EXCEPT ![t] = data[nxt[t]]]
  /\ UNCHANGED <<heapVars, ctr, retired, node, first, last, nxt, scan, seen>>

(* The CAS on head, the linearization point of a deq that succeeds. *)
RemoveSucceeds(t) ==
  /\ GoTo(t, "d_cas", "retire")
  /\ TRUE \in CASResults(head, first[t])
  /\ head' = nxt[t]
  /\ last' = [last EXCEPT ![t] = NULL]
  /\ nxt' = [nxt EXCEPT ![t] = NULL]
  /\ UNCHANGED <<num_threads, tail, next, data, heap, freeHead, freeSize,
                 ctr, retired, node, first, val, scan, seen>>

RemoveFails(t) ==
  /\ GoTo(t, "d_cas", "d_head")
  /\ FALSE \in CASResults(head, first[t])
  /\ DropPointers(t)
  /\ val' = [val EXCEPT ![t] = NULL]
  /\ UNCHANGED <<heapVars, ctr, retired, node, scan, seen>>

DeqRemove(t) == RemoveSucceeds(t) \/ RemoveFails(t)

Retire(t) ==
  /\ GoTo(t, "retire", "op_end")
  /\ retired' = [retired EXCEPT ![t] = <<first[t]>> \o @]
  /\ first' = [first EXCEPT ![t] = NULL]
  /\ UNCHANGED <<heapVars, ctr, node, last, nxt, val, scan, seen>>

(* The call of t returns. *)
Return(t) ==
  /\ pc' = [pc EXCEPT ![t] = "idle"]
  /\ node' = [node EXCEPT ![t] = NULL]
  /\ val' = [val EXCEPT ![t] = NULL]

(* The counter stays odd until the thread has waited for the others. *)
OpEnd_Faulty(t) ==
  /\ \/ /\ retired[t] = <<>> /\ Return(t)
        /\ pc[t] = "op_end"
        /\ ctr' = [ctr EXCEPT ![t] = Bump(@)]
     \/ /\ retired[t] # <<>>
        /\ GoTo(t, "op_end", "scan")
        /\ UNCHANGED <<ctr, node, val>>
  /\ UNCHANGED <<heapVars, retired, first, last, nxt, scan, seen>>

(* mm_op_end: the counter becomes even; a thread with nothing to reclaim    *)
(* returns at once.                                                         *)
OpEndReturn(t) ==
  /\ pc[t] = "op_end" /\ retired[t] = <<>>
  /\ ctr' = [ctr EXCEPT ![t] = Bump(@)]
  /\ Return(t)
  /\ UNCHANGED <<heapVars, retired, first, last, nxt, scan, seen>>

OpEndWait(t) ==
  /\ retired[t] # <<>>
  /\ GoTo(t, "op_end", "scan")
  /\ ctr' = [ctr EXCEPT ![t] = Bump(@)]
  /\ UNCHANGED <<heapVars, retired, localVars>>

OpEnd(t) == OpEndReturn(t) \/ OpEndWait(t)

ScanEnd_Faulty == num_threads - 1  \* the last thread is not waited for
ScanEnd == num_threads

(* Thread scan[t] is not waited for if it is t or if its counter is even. *)
ScanSkip(t) ==
  /\ pc[t] = "scan" /\ scan[t] < ScanEnd
  /\ scan[t] = t \/ ~IsOdd(ctr[scan[t]])
  /\ scan' = [scan EXCEPT ![t] = @ + 1]
  /\ UNCHANGED <<heapVars, ctr, retired, pc, node, first, last, nxt, val, seen>>

ScanBusy(t) ==
  /\ GoTo(t, "scan", "spin")
  /\ scan[t] < ScanEnd
  /\ scan[t] # t /\ IsOdd(ctr[scan[t]])
  /\ seen' = [seen EXCEPT ![t] = ctr[scan[t]]]
  /\ UNCHANGED <<heapVars, ctr, retired, node, first, last, nxt, val, scan>>

ScanDone(t) ==
  /\ GoTo(t, "scan", "reclaim")
  /\ scan[t] = ScanEnd
  /\ scan' = [scan EXCEPT ![t] = 0]
  /\ UNCHANGED <<heapVars, ctr, retired, node, first, last, nxt, val, seen>>

(* The busy wait; a turn of it that sees no change is a stuttering step. *)
Spin(t) ==
  /\ GoTo(t, "spin", "scan")
  /\ ctr[scan[t]] # seen[t]
  /\ scan' = [scan EXCEPT ![t] = @ + 1]
  /\ seen' = [seen EXCEPT ![t] = 0]
  /\ UNCHANGED <<heapVars, ctr, retired, node, first, last, nxt, val>>

(* One turn of the loop of mm_reclaim_all, and the return after the last:   *)
(* what the code keeps in its local list r is still called retired[t] here. *)
Reclaim(t) ==
  /\ pc[t] = "reclaim"
  /\ Recycle(t, Head(retired[t]))
  /\ retired' = [retired EXCEPT ![t] = Tail(@)]
  /\ \/ Len(retired[t]) = 1 /\ Return(t)
     \/ Len(retired[t]) > 1 /\ UNCHANGED <<pc, node, val>>
  /\ UNCHANGED <<num_threads, head, tail, ctr, first, last, nxt, scan, seen>>

(* destroy_queue and init_queue run while no thread is in a call; after the *)
(* former, head and tail still have the addresses of nodes that are gone.   *)
Destroy ==
  /\ \A t \in Threads : pc[t] = "idle"
  /\ FreeAll(UNION {{retired[t][i] : i \in DOMAIN retired[t]} : t \in Threads})
  /\ retired' = [t \in Threads |-> <<>>]
  /\ ctr' = [t \in Threads |-> 0]
  /\ UNCHANGED <<head, tail, pc, localVars>>

InitQueue ==
  /\ InitHeap
  /\ ctr' = [t \in Threads |-> 0]
  /\ retired' = [t \in Threads |-> <<>>]
  /\ UNCHANGED <<pc, localVars>>

-----------------------------------------------------------------------------
EnqStep(t) ==
  \/ EnqUpcycle(t) \/ EnqFill(t) \/ EnqReadTail(t) \/ EnqReadNext(t)
  \/ EnqCheck(t) \/ EnqLink(t) \/ EnqSwing(t) \/ EnqHelp(t)

DeqStep(t) ==
  \/ DeqReadHead(t) \/ DeqReadTail(t) \/ DeqReadNext(t) \/ DeqCheck(t)
  \/ DeqHelp(t) \/ DeqReadValue(t) \/ DeqRemove(t) \/ Retire(t)

EndStep(t) ==
  OpEnd(t) \/ ScanSkip(t) \/ ScanBusy(t) \/ ScanDone(t) \/ Spin(t) \/ Reclaim(t)

(* A step of a call in progress, as opposed to the start of a call. *)
Step(t) == EnqStep(t) \/ DeqStep(t) \/ EndStep(t)

Begin(t) == BeginDeq(t) \/ \E v \in Values : BeginEnq(t, v)

Next == (\E t \in Threads : Begin(t) \/ Step(t)) \/ Destroy \/ InitQueue

Spec == Init /\ [][Next]_vars

(* Every thread keeps being scheduled until its call returns. *)
FairSpec == Spec /\ \A t \in Threads : WF_vars(Step(t))

-----------------------------------------------------------------------------
(* The nodes of a finite sequence. *)
Members(s) == {s[i] : i \in DOMAIN s}

(* The node that t has taken and not yet linked. *)
Held(t) ==
  IF pc[t] \in EnqLoop \cup {"fill"} THEN {node[t]} ELSE {}

(* The node that t has unlinked and not yet put on its free list. *)
Unlinked(t) ==
  Members(retired[t]) \cup (IF pc[t] = "retire" THEN {first[t]} ELSE {})

InQueue == IF num_threads = 0 THEN {} ELSE ChainNodes(head)

(* Every allocated node has exactly one owner - the queue, a free list, a   *)
(* call that has taken it for enq or one that has unlinked it - and a size  *)
(* field counts its free list.  No sequence of calls loses a node or has it *)
(* twice, and destroy_queue leaves nothing allocated.                       *)
NodesAccounted ==
  /\ \A x \in Nodes :
       LET owners == (IF x \in InQueue THEN 1 ELSE 0)
             + Cardinality({t \in Threads : x \in ChainNodes(freeHead[t])})
             + Cardinality({t \in Threads : x \in Held(t)})
             + Cardinality({t \in Threads : x \in Unlinked(t)})
       IN  owners = IF x \in heap THEN 1 ELSE 0
  /\ \A t \in Threads : freeSize[t] = Len(Chain(freeHead[t]))

(* A node is recycled only when no other thread inside an operation has it  *)
(* in a local variable: the grace period of mm_op_end is long enough.       *)
SafeReclaim ==
  \A t \in Threads : pc[t] = "reclaim" =>
    \A u \in Threads \ {t} :
      InOp(u) => Members(retired[t]) \cap {first[u], last[u], nxt[u], node[u]} = {}

(* The data field, the one that is not atomic, is never read by deq while   *)
(* an enq is about to write it.                                             *)
DataRaceFree ==
  \A t, u \in Threads :
    ~ (pc[t] = "fill" /\ pc[u] = "d_val" /\ node[t] = nxt[u])

(* tail points into the queue and at most one node follows it, and a call   *)
(* whose CAS on tail is still to come is what keeps it behind.              *)
TailLag ==
  num_threads # 0 =>
    /\ tail \in ChainNodes(head)
    /\ Len(Chain(tail)) <= 2
    /\ Len(Chain(tail)) = 2 =>
         SpuriousCAS \/ \E t \in Threads : pc[t] = "e_swing"

(* head and tail only ever step to the successor of the node they point to, *)
(* and head does not step past tail: no CAS is fooled by a node that has    *)
(* been recycled in between (the ABA problem).                              *)
EndsMove ==
  [][num_threads # 0 /\ num_threads' # 0 =>
       /\ head' # head => head' = next[head] /\ head # tail
       /\ tail' # tail => tail' = next[tail]]_vars

(* A thread that busy-waits is waiting for one that is inside an operation, *)
(* never for one that waits itself: there is no circle of waiting threads.  *)
WaitsForWorker ==
  \A t \in Threads :
    pc[t] = "spin" /\ ctr[scan[t]] = seen[t] => InOp(scan[t])

-----------------------------------------------------------------------------
(* Before the instant of an enq, and after that of an enq or deq. *)
EnqCalled == {"upcycle", "fill"} \cup EnqLoop
TakenEffect == {"e_swing", "retire", "op_end"} \cup (Quiescent \ {"idle"})

(* The abstract call that thread t is making.  A deq has seen the queue     *)
(* empty once it has read a NULL successor of head.                         *)
AbsCall(t) ==
  CASE pc[t] = "idle" -> [op |-> "idle"]
    [] pc[t] \in EnqCalled -> [op |-> "enq", arg |-> val[t]]
    [] pc[t] = "d_check" /\ nxt[t] = NULL -> [op |-> "deqEmpty"]
    [] pc[t] \in DeqLoop /\ ~(pc[t] = "d_check" /\ nxt[t] = NULL) -> [op |-> "deq"]
    [] pc[t] \in TakenEffect /\ node[t] # NULL -> [op |-> "enqDone"]
    [] pc[t] \in TakenEffect /\ node[t] = NULL /\ pc[t] = "op_end" /\ val[t] = NULL
         -> [op |-> "deqEmpty"]
    [] OTHER -> [op |-> "deqDone", res |-> val[t]]

Abs == INSTANCE LinearizableQueue
         WITH queue <- IF num_threads = 0 THEN <<>> ELSE Contents,
              call <- [t \in Threads |-> AbsCall(t)]

(* Every enq and deq takes effect at one instant of its call, in FIFO       *)
(* order, and a deq fails only if the queue was empty during the call.      *)
Linearizable == Abs!AbsSpec
=============================================================================
