---------------------------- MODULE LockFreeQueueProofs ----------------------------
(***************************************************************************)
(* What is proved about LockFreeQueue for every number of threads, every   *)
(* set of nodes and every value of the bounds.  First that every action    *)
(* preserves the first layer of the invariant of LockFreeQueueInv, IInv:   *)
(* one lemma per action, each of which says what the action makes of the   *)
(* bound variables L, F, rank and start.  The lemmas MoveStep, LocalStep,  *)
(* DropStep and WaitStep are about what several actions have in common.    *)
(* Then the theorems that follow from IInv, and then the second layer,     *)
(* SInv, with those that follow from it.                                   *)
(***************************************************************************)
EXTENDS LockFreeQueueInv, NodeListsProofs

(* What a step of t leaves alone. *)
OthersSame(t) ==
  \A u \in Threads \ {t} :
    /\ pc'[u] = pc[u] /\ first'[u] = first[u] /\ last'[u] = last[u]
    /\ nxt'[u] = nxt[u] /\ node'[u] = node[u] /\ scan'[u] = scan[u]
    /\ seen'[u] = seen[u] /\ ctr'[u] = ctr[u] /\ retired'[u] = retired[u]

(* While some thread is in a call the queue exists and its ends are in L.   *)
LEMMA InUse ==
  ASSUME Control, NEW L, NEW F, NEW rank, NEW start, GInv(L, F, rank, start),
         NEW t \in Threads, pc[t] # "idle"
  PROVE  /\ num_threads = NumThreads
         /\ head \in L /\ tail \in L /\ L \subseteq Nodes /\ NULL \notin L
         /\ start[t] \in Int
         /\ \A x \in L : rank[x] \in Int
         /\ rank[head] <= rank[tail]
         /\ InOp(t) => start[t] <= rank[head]
  BY HeapAssumption
  DEF GInv, GhostTypeOK, Destroyed, Ends, Alive, PointersOf, Control, TypeOK, HeapTypeOK

(* A step of t inside an operation that may move head or tail forward.      *)
LEMMA MoveStep ==
  ASSUME Control, NEW L, NEW F, NEW rank, NEW start, GInv(L, F, rank, start),
         NEW t \in Threads, TypeOK', OthersSame(t),
         UNCHANGED <<num_threads, next, heap, freeHead, freeSize,
                     ctr, retired, node, scan, seen>>,
         InOp(t), InOp(t)', pc[t] \notin {"retire", "op_end"},
         Takes(t)' <=> Takes(t),
         head' \in L, tail' \in L, rank[head] <= rank[head'],
         rank[head'] <= rank[tail'], rank[tail] <= rank[tail'],
         ScopesOf(t)', TakenOf(t, L, rank)', PointersOf(t, L, rank, start)',
         Garbage(L, rank)'
  PROVE  Control' /\ GInv(L, F, rank, start)'
<1>1. \A u \in Threads : ParityOf(u)' /\ ScopesOf(u)' /\ RetiredOf(u)'
  <2> TAKE u \in Threads
  <2>1. CASE u = t
    BY <2>1 DEF Control, ParityOf, RetiredOf, InOp, Waiting, Quiescent
  <2>2. CASE u # t
    BY <2>2 DEF Control, ParityOf, ScopesOf, RetiredOf, InOp, OthersSame
  <2> QED BY <2>1, <2>2
<1>2. \A u \in Threads : InOp(u)' <=> InOp(u)
  BY DEF InOp, OthersSame
<1>3. \A u \in Threads : Takes(u)' <=> Takes(u)
  BY DEF Takes, OthersSame
<1>4. Destroyed(L, F)' /\ Disjoint(L, F)' /\ TakenApart(L, F)'
  BY <1>2, <1>3 DEF GInv, Destroyed, Disjoint, TakenApart, InOp, Quiescent
<1>5. pc[t] # "idle"
  BY DEF InOp, Quiescent
<1>6. FreeLists(F, rank)' /\ Ends(L, rank)'
  BY <1>5, InUse DEF GInv, FreeLists, Ends, Alive
<1>7. Linked(L, rank, start)'
  <2>1. \A x \in L : Covered(x, rank, start)' => Covered(x, rank, start)
    BY <1>2, <1>5, InUse DEF Covered
  <2> QED BY <2>1 DEF GInv, Linked
<1>8. \A u \in Threads : TakenOf(u, L, rank)' /\ PointersOf(u, L, rank, start)'
  <2> TAKE u \in Threads
  <2>1. CASE u = t
    BY <2>1
  <2>2. CASE u # t
    <3>1. TakenOf(u, L, rank)'
      BY <2>2 DEF GInv, TakenOf, OthersSame
    <3>2. PointersOf(u, L, rank, start)'
      BY <2>2, <1>5, InUse DEF GInv, GhostTypeOK, PointersOf, InOp, Takes, OthersSame
    <3> QED BY <3>1, <3>2
  <2> QED BY <2>1, <2>2
<1>9. Grace(rank, start)'
  <2>1. \A u, v \in Threads : Passed(u, v)' => Passed(u, v)
    BY DEF Passed, OthersSame, InOp, Quiescent
  <2> QED BY <2>1, <1>2 DEF GInv, Grace
<1> QED BY <1>1, <1>4, <1>6, <1>7, <1>8, <1>9 DEF Control, GInv, GhostTypeOK

(* ... and head and tail stay where they are. *)
LEMMA LocalStep ==
  ASSUME Control, NEW L, NEW F, NEW rank, NEW start, GInv(L, F, rank, start),
         NEW t \in Threads, TypeOK', OthersSame(t),
         UNCHANGED <<heapVars, ctr, retired, node, scan, seen>>,
         InOp(t), InOp(t)', pc[t] \notin {"retire", "op_end"}, pc'[t] # "retire",
         Takes(t)' <=> Takes(t),
         ScopesOf(t)', TakenOf(t, L, rank)', PointersOf(t, L, rank, start)'
  PROVE  Control' /\ GInv(L, F, rank, start)'
<1>1. \A u \in Threads, x \in Nodes : Trash(u, x)' <=> Trash(u, x)
  BY DEF Trash, OthersSame
<1>2. Garbage(L, rank)'
  BY <1>1 DEF GInv, Garbage, heapVars
<1>3. pc[t] # "idle"
  BY DEF InOp, Quiescent
<1> QED BY <1>2, <1>3, MoveStep, InUse DEF heapVars

(* From a node that a pointer of t leads to, next leads on correctly. *)
LEMMA NextOfCovered ==
  ASSUME Control, NEW L, NEW F, NEW rank, NEW start, GInv(L, F, rank, start),
         NEW t \in Threads, InOp(t), NEW x \in L, start[t] <= rank[x]
  PROVE  /\ next[x] = NULL => \A y \in L : rank[y] <= rank[x]
         /\ next[x] # NULL => next[x] \in L /\ rank[next[x]] = rank[x] + 1
  BY DEF GInv, Linked, Covered

(* A step of t that gives up its pointers.                                  *)
LEMMA DropStep ==
  ASSUME Control, NEW L, NEW F, NEW rank, NEW start, GInv(L, F, rank, start),
         NEW t \in Threads, TypeOK', OthersSame(t),
         UNCHANGED <<heapVars, ctr, retired, node, scan, seen>>,
         \/ pc[t] \in EnqLoop /\ pc'[t] = "e_tail"
         \/ pc[t] \in DeqLoop /\ pc'[t] \in {"d_head", "op_end"},
         first'[t] = NULL, last'[t] = NULL, nxt'[t] = NULL
  PROVE  Control' /\ GInv(L, F, rank, start)'
<1>1. /\ InOp(t) /\ InOp(t)' /\ (Takes(t)' <=> Takes(t))
      /\ pc[t] \notin {"retire", "op_end"} /\ pc'[t] # "retire"
  BY DEF InOp, Takes, Quiescent, EnqLoop, DeqLoop
<1>2. ScopesOf(t)'
  BY DEF Control, ScopesOf, HasLast, HasFirst, HasNxt, EnqLoop, DeqLoop
<1>3. TakenOf(t, L, rank)'
  BY DEF GInv, TakenOf, EnqLoop, DeqLoop, heapVars
<1>4. PointersOf(t, L, rank, start)'
  BY <1>1 DEF GInv, PointersOf, heapVars
<1> QED BY LocalStep, <1>1, <1>2, <1>3, <1>4

(* The actions by which a turn of a loop, or a deq, gives up.               *)
LEMMA DropActions ==
  ASSUME Control, NEW L, NEW F, NEW rank, NEW start, GInv(L, F, rank, start),
         NEW t \in Threads, 
         EnqStale(t) \/ LinkFails(t) \/ DeqStale(t) \/ DeqFindsEmpty(t) \/ RemoveFails(t)
  PROVE  Control' /\ GInv(L, F, rank, start)'
<1>1. TypeOK'
  BY DEF Control, TypeOK, HeapTypeOK, EnqStale, LinkFails, DeqStale, DeqFindsEmpty,
     RemoveFails,
     GoTo, DropPointers, Labels, EnqLoop, DeqLoop, NodeOrNULL, ValueOrNULL, heapVars
<1>2. OthersSame(t)
  BY DEF OthersSame, Control, TypeOK, EnqStale, LinkFails, DeqStale, DeqFindsEmpty,
     RemoveFails,
     GoTo, DropPointers
<1>3. UNCHANGED <<heapVars, ctr, retired, node, scan, seen>>
  BY DEF EnqStale, LinkFails, DeqStale, DeqFindsEmpty, RemoveFails
<1>4. first'[t] = NULL /\ last'[t] = NULL /\ nxt'[t] = NULL
  BY DEF Control, TypeOK, EnqStale, LinkFails, DeqStale, DeqFindsEmpty, RemoveFails,
     DropPointers
<1>5. \/ pc[t] \in EnqLoop /\ pc'[t] = "e_tail"
      \/ pc[t] \in DeqLoop /\ pc'[t] \in {"d_head", "op_end"}
  BY DEF Control, TypeOK, EnqStale, LinkFails, DeqStale, DeqFindsEmpty, RemoveFails,
     GoTo, EnqLoop, DeqLoop
<1> QED BY DropStep, <1>1, <1>2, <1>3, <1>4, <1>5

(* tail is in use when it is read.                                          *)
LEMMA EnqReadTailStep ==
  ASSUME Control, NEW L, NEW F, NEW rank, NEW start, GInv(L, F, rank, start),
         NEW t \in Threads, EnqReadTail(t)
  PROVE  Control' /\ GInv(L, F, rank, start)'
<1>1. TypeOK'
  BY DEF Control, TypeOK, HeapTypeOK, EnqReadTail, GoTo, Labels, EnqLoop, DeqLoop,
     NodeOrNULL, ValueOrNULL, heapVars
<1>2. OthersSame(t)
  BY DEF OthersSame, Control, TypeOK, EnqReadTail, GoTo, localVars
<1>3. /\ pc[t] = "e_tail" /\ pc'[t] = "e_next"
      /\ last'[t] = tail /\ UNCHANGED <<first, nxt>>
      /\ UNCHANGED <<heapVars, ctr, retired, node, scan, seen>>
  BY DEF Control, TypeOK, EnqReadTail, GoTo, localVars
<1>4. /\ InOp(t) /\ InOp(t)' /\ (Takes(t)' <=> Takes(t))
      /\ pc[t] \notin {"retire", "op_end"} /\ pc'[t] # "retire"
  BY <1>3 DEF InOp, Takes, Quiescent, EnqLoop
<1>5. ScopesOf(t)'
  BY <1>3, InUse DEF Control, ScopesOf, HasLast, HasFirst, HasNxt, EnqLoop, heapVars
<1>6. TakenOf(t, L, rank)'
  BY <1>3 DEF GInv, TakenOf, EnqLoop, heapVars
<1>7. PointersOf(t, L, rank, start)'
  <2>1. first[t] = NULL /\ nxt[t] = NULL
    BY <1>3 DEF Control, ScopesOf, HasFirst, HasNxt
  <2> QED
    BY <1>3, <1>4, <2>1, InUse DEF GInv, PointersOf, heapVars
<1> QED BY LocalStep, <1>1, <1>2, <1>3, <1>4, <1>5, <1>6, <1>7

(* The successor read from last is the next node, if there is one.          *)
LEMMA EnqReadNextStep ==
  ASSUME Control, NEW L, NEW F, NEW rank, NEW start, GInv(L, F, rank, start),
         NEW t \in Threads, EnqReadNext(t)
  PROVE  Control' /\ GInv(L, F, rank, start)'
<1>1. TypeOK'
  BY DEF Control, TypeOK, HeapTypeOK, EnqReadNext, GoTo, Labels, EnqLoop, DeqLoop,
     NodeOrNULL, ValueOrNULL, heapVars, ScopesOf, HasLast
<1>2. OthersSame(t)
  BY DEF OthersSame, Control, TypeOK, EnqReadNext, GoTo, localVars
<1>3. /\ pc[t] = "e_next" /\ pc'[t] = "e_check"
      /\ nxt'[t] = next[last[t]] /\ UNCHANGED <<first, last>>
      /\ UNCHANGED <<heapVars, ctr, retired, node, scan, seen>>
  BY DEF Control, TypeOK, EnqReadNext, GoTo, localVars
<1>4. /\ InOp(t) /\ InOp(t)' /\ (Takes(t)' <=> Takes(t))
      /\ pc[t] \notin {"retire", "op_end"} /\ pc'[t] # "retire"
  BY <1>3 DEF InOp, Takes, Quiescent, EnqLoop
<1>5. ScopesOf(t)'
  BY <1>3, InUse DEF Control, ScopesOf, HasLast, HasFirst, HasNxt, EnqLoop, heapVars
<1>6. TakenOf(t, L, rank)'
  BY <1>3 DEF GInv, TakenOf, EnqLoop, heapVars
<1>7. PointersOf(t, L, rank, start)'
  <2>1. first[t] = NULL /\ last[t] \in L /\ start[t] <= rank[last[t]]
    BY <1>3 DEF Control, ScopesOf, HasFirst, HasLast, GInv, PointersOf
  <2>2. next[last[t]] # NULL => next[last[t]] \in L /\ rank[next[last[t]]] = rank[last[t]] + 1
    BY <1>4, <2>1, NextOfCovered
  <2> QED
    BY <1>3, <1>4, <2>1, <2>2, InUse DEF GInv, PointersOf, heapVars
<1> QED BY LocalStep, <1>1, <1>2, <1>3, <1>4, <1>5, <1>6, <1>7

(* The check last = tail changes nothing but the program counter.           *)
LEMMA EnqValidStep ==
  ASSUME Control, NEW L, NEW F, NEW rank, NEW start, GInv(L, F, rank, start),
         NEW t \in Threads, EnqValid(t)
  PROVE  Control' /\ GInv(L, F, rank, start)'
<1>1. TypeOK'
  BY DEF Control, TypeOK, HeapTypeOK, EnqValid, GoTo, Labels, EnqLoop, DeqLoop,
     NodeOrNULL, ValueOrNULL, heapVars, localVars
<1>2. OthersSame(t)
  BY DEF OthersSame, Control, TypeOK, EnqValid, GoTo, localVars
<1>3. /\ pc[t] = "e_check" /\ pc'[t] = (IF nxt[t] = NULL THEN "e_link" ELSE "e_help")
      /\ UNCHANGED <<first, last, nxt>>
      /\ UNCHANGED <<heapVars, ctr, retired, node, scan, seen>>
  BY DEF Control, TypeOK, EnqValid, GoTo, localVars
<1>4. /\ InOp(t) /\ InOp(t)' /\ (Takes(t)' <=> Takes(t))
      /\ pc[t] \notin {"retire", "op_end"} /\ pc'[t] # "retire"
  BY <1>3 DEF InOp, Takes, Quiescent, EnqLoop
<1>5. ScopesOf(t)'
  BY <1>3, InUse DEF Control, ScopesOf, HasLast, HasFirst, HasNxt, EnqLoop, heapVars
<1>6. TakenOf(t, L, rank)'
  BY <1>3 DEF GInv, TakenOf, EnqLoop, heapVars
<1>7. PointersOf(t, L, rank, start)'
  BY <1>3, <1>4 DEF GInv, PointersOf, heapVars
<1> QED BY LocalStep, <1>1, <1>2, <1>3, <1>4, <1>5, <1>6, <1>7

(* head is in use when it is read.                                          *)
LEMMA DeqReadHeadStep ==
  ASSUME Control, NEW L, NEW F, NEW rank, NEW start, GInv(L, F, rank, start),
         NEW t \in Threads, DeqReadHead(t)
  PROVE  Control' /\ GInv(L, F, rank, start)'
<1>1. TypeOK'
  BY DEF Control, TypeOK, HeapTypeOK, DeqReadHead, GoTo, Labels, EnqLoop, DeqLoop,
     NodeOrNULL, ValueOrNULL, heapVars
<1>2. OthersSame(t)
  BY DEF OthersSame, Control, TypeOK, DeqReadHead, GoTo, localVars
<1>3. /\ pc[t] = "d_head" /\ pc'[t] = "d_tail"
      /\ first'[t] = head /\ UNCHANGED <<last, nxt>>
      /\ UNCHANGED <<heapVars, ctr, retired, node, scan, seen>>
  BY DEF Control, TypeOK, DeqReadHead, GoTo, localVars
<1>4. /\ InOp(t) /\ InOp(t)' /\ (Takes(t)' <=> Takes(t))
      /\ pc[t] \notin {"retire", "op_end"} /\ pc'[t] # "retire"
  BY <1>3 DEF InOp, Takes, Quiescent, EnqLoop
<1>5. ScopesOf(t)'
  BY <1>3, InUse DEF Control, ScopesOf, HasLast, HasFirst, HasNxt, EnqLoop, heapVars
<1>6. TakenOf(t, L, rank)'
  BY <1>3 DEF GInv, TakenOf, EnqLoop, heapVars
<1>7. PointersOf(t, L, rank, start)'
  <2>1. last[t] = NULL /\ nxt[t] = NULL
    BY <1>3 DEF Control, ScopesOf, HasLast, HasNxt
  <2> QED
    BY <1>3, <1>4, <2>1, InUse DEF GInv, PointersOf, heapVars
<1> QED BY LocalStep, <1>1, <1>2, <1>3, <1>4, <1>5, <1>6, <1>7

(* tail is read after head, so last is not behind first.                    *)
LEMMA DeqReadTailStep ==
  ASSUME Control, NEW L, NEW F, NEW rank, NEW start, GInv(L, F, rank, start),
         NEW t \in Threads, DeqReadTail(t)
  PROVE  Control' /\ GInv(L, F, rank, start)'
<1>1. TypeOK'
  BY DEF Control, TypeOK, HeapTypeOK, DeqReadTail, GoTo, Labels, EnqLoop, DeqLoop,
     NodeOrNULL, ValueOrNULL, heapVars
<1>2. OthersSame(t)
  BY DEF OthersSame, Control, TypeOK, DeqReadTail, GoTo, localVars
<1>3. /\ pc[t] = "d_tail" /\ pc'[t] = "d_next"
      /\ last'[t] = tail /\ UNCHANGED <<first, nxt>>
      /\ UNCHANGED <<heapVars, ctr, retired, node, scan, seen>>
  BY DEF Control, TypeOK, DeqReadTail, GoTo, localVars
<1>4. /\ InOp(t) /\ InOp(t)' /\ (Takes(t)' <=> Takes(t))
      /\ pc[t] \notin {"retire", "op_end"} /\ pc'[t] # "retire"
  BY <1>3 DEF InOp, Takes, Quiescent, EnqLoop
<1>5. ScopesOf(t)'
  BY <1>3, InUse DEF Control, ScopesOf, HasLast, HasFirst, HasNxt, EnqLoop, heapVars
<1>6. TakenOf(t, L, rank)'
  BY <1>3 DEF GInv, TakenOf, EnqLoop, heapVars
<1>7. PointersOf(t, L, rank, start)'
  <2>1. nxt[t] = NULL /\ first[t] \in L /\ start[t] <= rank[first[t]] /\ rank[first[t]] <= rank[head]
    BY <1>3 DEF Control, ScopesOf, HasFirst, HasNxt, GInv, PointersOf
  <2> QED
    BY <1>3, <1>4, <2>1, InUse DEF GInv, PointersOf, heapVars
<1> QED BY LocalStep, <1>1, <1>2, <1>3, <1>4, <1>5, <1>6, <1>7

(* The successor read from first exists unless first = last.                *)
LEMMA DeqReadNextStep ==
  ASSUME Control, NEW L, NEW F, NEW rank, NEW start, GInv(L, F, rank, start),
         NEW t \in Threads, DeqReadNext(t)
  PROVE  Control' /\ GInv(L, F, rank, start)'
<1>1. TypeOK'
  BY DEF Control, TypeOK, HeapTypeOK, DeqReadNext, GoTo, Labels, EnqLoop, DeqLoop,
     NodeOrNULL, ValueOrNULL, heapVars, ScopesOf, HasFirst
<1>2. OthersSame(t)
  BY DEF OthersSame, Control, TypeOK, DeqReadNext, GoTo, localVars
<1>3. /\ pc[t] = "d_next" /\ pc'[t] = "d_check"
      /\ nxt'[t] = next[first[t]] /\ UNCHANGED <<first, last>>
      /\ UNCHANGED <<heapVars, ctr, retired, node, scan, seen>>
  BY DEF Control, TypeOK, DeqReadNext, GoTo, localVars
<1>4. /\ InOp(t) /\ InOp(t)' /\ (Takes(t)' <=> Takes(t))
      /\ pc[t] \notin {"retire", "op_end"} /\ pc'[t] # "retire"
  BY <1>3 DEF InOp, Takes, Quiescent, EnqLoop
<1>5. ScopesOf(t)'
  BY <1>3, InUse DEF Control, ScopesOf, HasLast, HasFirst, HasNxt, EnqLoop, heapVars
<1>6. TakenOf(t, L, rank)'
  BY <1>3 DEF GInv, TakenOf, EnqLoop, heapVars
<1>7. PointersOf(t, L, rank, start)'
  <2>1. /\ first[t] \in L /\ start[t] <= rank[first[t]] /\ first[t] # NULL
        /\ last[t] \in L /\ last[t] # NULL /\ rank[first[t]] <= rank[last[t]]
    BY <1>3 DEF Control, ScopesOf, HasFirst, HasLast, GInv, PointersOf
  <2>2. /\ next[first[t]] = NULL => rank[last[t]] <= rank[first[t]]
        /\ next[first[t]] # NULL => next[first[t]] \in L /\ rank[next[first[t]]] = rank[first[t]] + 1
    BY <1>4, <2>1, NextOfCovered
  <2>3. rank[first[t]] = rank[last[t]] => first[t] = last[t]
    BY <2>1 DEF GInv, Linked
  <2>4. next[first[t]] = NULL => first[t] = last[t]
    BY <1>3, <2>1, <2>2, <2>3, InUse
  <2> QED
    BY <1>3, <1>4, <2>1, <2>2, <2>4, InUse DEF GInv, PointersOf, heapVars
<1> QED BY LocalStep, <1>1, <1>2, <1>3, <1>4, <1>5, <1>6, <1>7

(* The check first = head changes nothing but the program counter.          *)
LEMMA DeqValidStep ==
  ASSUME Control, NEW L, NEW F, NEW rank, NEW start, GInv(L, F, rank, start),
         NEW t \in Threads, DeqValid(t)
  PROVE  Control' /\ GInv(L, F, rank, start)'
<1>1. TypeOK'
  BY DEF Control, TypeOK, HeapTypeOK, DeqValid, GoTo, Labels, EnqLoop, DeqLoop,
     NodeOrNULL, ValueOrNULL, heapVars, localVars
<1>2. OthersSame(t)
  BY DEF OthersSame, Control, TypeOK, DeqValid, GoTo, localVars
<1>3. /\ pc[t] = "d_check" /\ pc'[t] = (IF first[t] = last[t] THEN "d_help" ELSE "d_val")
      /\ UNCHANGED <<first, last, nxt>> /\ ~(first[t] = last[t] /\ nxt[t] = NULL)
      /\ UNCHANGED <<heapVars, ctr, retired, node, scan, seen>>
  BY DEF Control, TypeOK, DeqValid, GoTo, localVars
<1>4. /\ InOp(t) /\ InOp(t)' /\ (Takes(t)' <=> Takes(t))
      /\ pc[t] \notin {"retire", "op_end"} /\ pc'[t] # "retire"
  BY <1>3 DEF InOp, Takes, Quiescent, EnqLoop
<1>8. nxt[t] # NULL
  BY <1>3 DEF GInv, PointersOf
<1>5. ScopesOf(t)'
  BY <1>3, <1>8 DEF Control, ScopesOf, HasLast, HasFirst, HasNxt, EnqLoop
<1>6. TakenOf(t, L, rank)'
  BY <1>3 DEF GInv, TakenOf, EnqLoop, heapVars
<1>7. PointersOf(t, L, rank, start)'
  BY <1>3, <1>4 DEF GInv, PointersOf, heapVars
<1> QED BY LocalStep, <1>1, <1>2, <1>3, <1>4, <1>5, <1>6, <1>7

(* Reading the value changes nothing the invariant speaks of.               *)
LEMMA DeqReadValueStep ==
  ASSUME Control, NEW L, NEW F, NEW rank, NEW start, GInv(L, F, rank, start),
         NEW t \in Threads, DeqReadValue(t)
  PROVE  Control' /\ GInv(L, F, rank, start)'
<1>1. TypeOK'
  BY DEF Control, TypeOK, HeapTypeOK, DeqReadValue, GoTo, Labels, EnqLoop, DeqLoop,
     NodeOrNULL, ValueOrNULL, heapVars, ScopesOf, HasNxt
<1>2. OthersSame(t)
  BY DEF OthersSame, Control, TypeOK, DeqReadValue, GoTo, localVars
<1>3. /\ pc[t] = "d_val" /\ pc'[t] = "d_cas"
      /\ UNCHANGED <<first, last, nxt>>
      /\ UNCHANGED <<heapVars, ctr, retired, node, scan, seen>>
  BY DEF Control, TypeOK, DeqReadValue, GoTo, localVars
<1>4. /\ InOp(t) /\ InOp(t)' /\ (Takes(t)' <=> Takes(t))
      /\ pc[t] \notin {"retire", "op_end"} /\ pc'[t] # "retire"
  BY <1>3 DEF InOp, Takes, Quiescent, EnqLoop
<1>5. ScopesOf(t)'
  BY <1>3, InUse DEF Control, ScopesOf, HasLast, HasFirst, HasNxt, EnqLoop, heapVars
<1>6. TakenOf(t, L, rank)'
  BY <1>3 DEF GInv, TakenOf, EnqLoop, heapVars
<1>7. PointersOf(t, L, rank, start)'
  BY <1>3, <1>4 DEF GInv, PointersOf, heapVars
<1> QED BY LocalStep, <1>1, <1>2, <1>3, <1>4, <1>5, <1>6, <1>7

(* A CAS on tail moves it from last to the node after last, or fails.       *)
LEMMA SwingStep ==
  ASSUME Control, NEW L, NEW F, NEW rank, NEW start, GInv(L, F, rank, start),
         NEW t \in Threads, EnqSwing(t) \/ EnqHelp(t) \/ DeqHelp(t)
  PROVE  Control' /\ GInv(L, F, rank, start)'
<1> DEFINE new == IF pc[t] = "e_swing" THEN node[t] ELSE nxt[t]
<1>1. /\ \/ pc[t] = "e_swing" /\ pc'[t] = "op_end"
         \/ pc[t] = "e_help" /\ pc'[t] = "e_tail"
         \/ pc[t] = "d_help" /\ pc'[t] = "d_head"
      /\ tail' = tail \/ (tail = last[t] /\ tail' = new)
      /\ first'[t] = NULL /\ last'[t] = NULL /\ nxt'[t] = NULL
      /\ UNCHANGED <<num_threads, head, next, heap, freeHead, freeSize,
                     ctr, retired, node, scan, seen>>
  BY DEF Control, TypeOK, EnqSwing, EnqHelp, DeqHelp, SwingTail, CASResults, GoTo,
     DropPointers
<1>2. new \in L /\ rank[new] = rank[last[t]] + 1
  BY <1>1 DEF Control, ScopesOf, HasFirst, HasNxt, GInv, TakenOf, PointersOf
<1>3. /\ InOp(t) /\ InOp(t)' /\ (Takes(t)' <=> Takes(t)) /\ pc[t] # "idle"
      /\ pc[t] \notin {"retire", "op_end"} /\ pc'[t] # "retire"
  BY <1>1 DEF InOp, Takes, Quiescent, EnqLoop
<1>4. tail' \in L /\ rank[tail] <= rank[tail']
  BY <1>1, <1>2, <1>3, InUse
<1>5. TypeOK'
  <2>1. tail' \in Nodes
    BY <1>3, <1>4, InUse
  <2> QED
    BY <2>1 DEF Control, TypeOK, HeapTypeOK, EnqSwing, EnqHelp, DeqHelp, SwingTail,
       GoTo,
       DropPointers, Labels, EnqLoop, DeqLoop, NodeOrNULL, ValueOrNULL
<1>6. OthersSame(t)
  BY DEF OthersSame, Control, TypeOK, EnqSwing, EnqHelp, DeqHelp, SwingTail, GoTo,
     DropPointers
<1>7. ScopesOf(t)'
  BY <1>1 DEF Control, ScopesOf, HasLast, HasFirst, HasNxt, EnqLoop
<1>8. TakenOf(t, L, rank)'
  BY <1>1 DEF GInv, TakenOf, EnqLoop
<1>9. PointersOf(t, L, rank, start)'
  BY <1>1, <1>3 DEF GInv, PointersOf
<1>10. Garbage(L, rank)'
  <2>1. \A u \in Threads, x \in Nodes : Trash(u, x)' <=> Trash(u, x)
    BY <1>1, <1>3, <1>6 DEF Trash, OthersSame
  <2> QED BY <1>1, <2>1 DEF GInv, Garbage
<1>11. rank[head] <= rank[tail']
  BY <1>2, <1>3, <1>4, InUse
<1>12. head' \in L /\ rank[head] <= rank[head'] /\ rank[head'] <= rank[tail']
  BY <1>1, <1>3, <1>11, InUse
<1> QED BY MoveStep, <1>1, <1>3, <1>4, <1>5, <1>6, <1>7, <1>8, <1>9, <1>10, <1>12

(* The CAS on head makes the node that first points to garbage of t.        *)
LEMMA RemoveStep ==
  ASSUME Control, NEW L, NEW F, NEW rank, NEW start, GInv(L, F, rank, start),
         NEW t \in Threads, RemoveSucceeds(t)
  PROVE  Control' /\ GInv(L, F, rank, start)'
<1>1. /\ pc[t] = "d_cas" /\ pc'[t] = "retire"
      /\ head = first[t] /\ head' = nxt[t]
      /\ first' = first /\ last'[t] = NULL /\ nxt'[t] = NULL
      /\ UNCHANGED <<num_threads, tail, next, heap, freeHead, freeSize,
                     ctr, retired, node, scan, seen>>
  BY DEF Control, TypeOK, RemoveSucceeds, CASResults, GoTo
<1>2. /\ InOp(t) /\ InOp(t)' /\ (Takes(t)' <=> Takes(t)) /\ pc[t] # "idle"
      /\ pc[t] \notin {"retire", "op_end"} /\ retired[t] = <<>>
  BY <1>1 DEF Control, RetiredOf, Waiting, InOp, Takes, Quiescent, EnqLoop
<1>3. /\ first[t] \in L /\ last[t] \in L /\ nxt[t] \in L /\ first[t] # NULL
      /\ rank[nxt[t]] = rank[head] + 1
      /\ rank[first[t]] <= rank[last[t]] /\ first[t] # last[t] /\ rank[last[t]] <= rank[tail]
  BY <1>1 DEF Control, ScopesOf, HasFirst, HasLast, HasNxt, GInv, PointersOf
<1>4. rank[first[t]] # rank[last[t]]
  BY <1>3 DEF GInv, Linked
<1>5. head' \in L /\ rank[head'] = rank[head] + 1 /\ rank[head'] <= rank[tail]
  BY <1>1, <1>2, <1>3, <1>4, InUse
<1>6. TypeOK'
  <2>1. head' \in Nodes
    BY <1>2, <1>5, InUse
  <2> QED
    BY <2>1 DEF Control, TypeOK, HeapTypeOK, RemoveSucceeds, GoTo, Labels, NodeOrNULL
<1>7. OthersSame(t)
  BY DEF OthersSame, Control, TypeOK, RemoveSucceeds, GoTo
<1>8. ScopesOf(t)'
  BY <1>1, <1>3 DEF Control, ScopesOf, HasLast, HasFirst, HasNxt, EnqLoop
<1>9. TakenOf(t, L, rank)'
  BY <1>1 DEF GInv, TakenOf, EnqLoop
<1>10. PointersOf(t, L, rank, start)'
  BY <1>1, <1>2, <1>3, <1>5, InUse DEF GInv, PointersOf
<1>11. Garbage(L, rank)'
  <2>1. SUFFICES ASSUME NEW u \in Threads, NEW x \in Nodes, Trash(u, x)'
                 PROVE  /\ x \in L /\ rank[x] < rank[head']
                        /\ \A v \in Threads : Trash(v, x)' => v = u
    BY DEF Garbage
  <2>2. \A v \in Threads \ {t} : Trash(v, x)' <=> Trash(v, x)
    BY <1>7 DEF Trash, OthersSame
  <2>3. Trash(t, x)' <=> x = head
    BY <1>1, <1>2 DEF Trash
  <2>4. \A v \in Threads : Trash(v, x) => x \in L /\ rank[x] < rank[head] /\ \A w \in Threads : Trash(w, x) => w = v
    BY DEF GInv, Garbage
  <2>5. \A v \in Threads : Trash(v, x) => x # head
    BY <1>2, <2>4, InUse
  <2> QED BY <1>2, <1>5, <2>1, <2>2, <2>3, <2>4, <2>5, InUse
<1>12. tail' \in L /\ rank[tail] <= rank[tail'] /\ rank[head] <= rank[head'] /\ rank[head'] <= rank[tail']
  BY <1>1, <1>2, <1>5, InUse
<1> QED BY MoveStep, <1>1, <1>2, <1>5, <1>6, <1>7, <1>8, <1>9, <1>10, <1>11, <1>12

(* The counter alternates between odd and even, also when it wraps.         *)
LEMMA BumpParity ==
  ASSUME NEW c \in 0 .. CtrMod - 1
  PROVE  Bump(c) \in 0 .. CtrMod - 1 /\ (IsOdd(Bump(c)) <=> ~IsOdd(c))
  BY CtrAssumption DEF Bump, IsOdd

(* A step of t while it waits for the others. *)
LEMMA WaitStep ==
  ASSUME Control, NEW L, NEW F, NEW rank, NEW start, GInv(L, F, rank, start),
         NEW t \in Threads, TypeOK', OthersSame(t),
         UNCHANGED <<heapVars, ctr, retired, node, first, last, nxt, val>>,
         pc[t] \in Waiting, pc'[t] \in Waiting, ScopesOf(t)',
         \A u \in Threads \ {t} : InOp(u) /\ Passed(t, u)' => Passed(t, u)
  PROVE  Control' /\ GInv(L, F, rank, start)'
<1>1. /\ ~InOp(t) /\ ~InOp(t)' /\ ~Takes(t) /\ ~Takes(t)' /\ pc[t] # "idle" /\ pc'[t] # "idle"
      /\ pc[t] # "retire" /\ pc'[t] # "retire"
  BY DEF InOp, Takes, Waiting, Quiescent, EnqLoop
<1>2. \A u \in Threads : ParityOf(u)' /\ ScopesOf(u)' /\ RetiredOf(u)'
  <2> TAKE u \in Threads
  <2>1. CASE u = t
    BY <2>1, <1>1 DEF Control, ParityOf, RetiredOf
  <2>2. CASE u # t
    BY <2>2 DEF Control, ParityOf, ScopesOf, RetiredOf, InOp, OthersSame
  <2> QED BY <2>1, <2>2
<1>3. \A u \in Threads : (InOp(u)' <=> InOp(u)) /\ (Takes(u)' <=> Takes(u))
  BY <1>1 DEF InOp, Takes, OthersSame
<1>4. Destroyed(L, F)' /\ Disjoint(L, F)' /\ TakenApart(L, F)'
  BY <1>1, <1>3 DEF GInv, Destroyed, Disjoint, TakenApart, heapVars
<1>5. FreeLists(F, rank)' /\ Ends(L, rank)'
  BY DEF GInv, FreeLists, Ends, Alive, heapVars
<1>6. Linked(L, rank, start)'
  <2>1. \A x \in L : Covered(x, rank, start)' <=> Covered(x, rank, start)
    BY <1>3 DEF Covered, heapVars
  <2> QED BY <2>1 DEF GInv, Linked, heapVars
<1>7. \A u \in Threads : TakenOf(u, L, rank)' /\ PointersOf(u, L, rank, start)'
  <2> TAKE u \in Threads
  <2>1. CASE u = t
    BY <2>1, <1>1 DEF GInv, TakenOf, PointersOf, Waiting, EnqLoop, heapVars
  <2>2. CASE u # t
    BY <2>2 DEF GInv, TakenOf, PointersOf, InOp, Takes, OthersSame, heapVars
  <2> QED BY <2>1, <2>2
<1>8. Garbage(L, rank)'
  <2>1. \A u \in Threads, x \in Nodes : Trash(u, x)' <=> Trash(u, x)
    BY <1>1 DEF Trash, OthersSame
  <2> QED BY <2>1 DEF GInv, Garbage, heapVars
<1>9. Grace(rank, start)'
  <2>1. \A u \in Threads \ {t}, v \in Threads : Passed(u, v)' => Passed(u, v)
    BY DEF Passed, OthersSame
  <2> QED BY <2>1, <1>3 DEF GInv, Grace
<1> QED BY <1>2, <1>4, <1>5, <1>6, <1>7, <1>8, <1>9 DEF Control, GInv, GhostTypeOK

(* A thread whose counter is even is in no operation.                       *)
LEMMA ScanSkipStep ==
  ASSUME Control, NEW L, NEW F, NEW rank, NEW start, GInv(L, F, rank, start),
         NEW t \in Threads, ScanSkip(t)
  PROVE  Control' /\ GInv(L, F, rank, start)'
<1>1. num_threads = NumThreads
  BY InUse DEF ScanSkip, GoTo
<1>2. TypeOK'
  <2>1. /\ scan[t] \in 0 .. NumThreads /\ scan[t] < NumThreads /\ NumThreads \in Nat
        /\ 0 \in 0 .. CtrMod - 1
    BY <1>1, HeapAssumption, CtrAssumption DEF Control, TypeOK, ScopesOf, ScanSkip,
       ScanEnd, GoTo
  <2>2. scan[t] + 1 \in 0 .. NumThreads
    BY <2>1
  <2> QED
    BY <2>1, <2>2 DEF Control, TypeOK, HeapTypeOK, ScanSkip, GoTo, Labels, Quiescent,
       heapVars
<1>3. OthersSame(t)
  BY DEF OthersSame, Control, TypeOK, ScanSkip, GoTo
<1>4. /\ UNCHANGED <<heapVars, ctr, retired, node, first, last, nxt, val>>
      /\ pc[t] \in Waiting /\ pc'[t] \in Waiting
  BY DEF Control, TypeOK, ScanSkip, GoTo, Waiting
<1>5. ScopesOf(t)'
  BY <1>1, HeapAssumption DEF Control, TypeOK, ScopesOf, ScanSkip, GoTo, HasLast,
     HasFirst, HasNxt, EnqLoop, Threads, ScanEnd
<1>6. \A u \in Threads \ {t} : InOp(u) /\ Passed(t, u)' => Passed(t, u)
  <2>1. scan'[t] = scan[t] + 1 /\ scan[t] \in Int /\ pc[t] = "scan" /\ pc'[t] = "scan"
    BY HeapAssumption DEF Control, TypeOK, ScanSkip, GoTo
  <2>2. SUFFICES ASSUME NEW u \in Threads \ {t}, InOp(u), Passed(t, u)'
                 PROVE  Passed(t, u)
    OBVIOUS
  <2>3. u \in Int /\ u < scan[t] + 1
    BY <2>1, <2>2, HeapAssumption DEF Passed, Threads
  <2>4. CASE u < scan[t]
    BY <2>1, <2>4 DEF Passed
  <2>5. CASE u = scan[t]
    BY <2>1, <2>2, <2>5 DEF Passed, ScanSkip, Control, ParityOf
  <2> QED BY <2>1, <2>3, <2>4, <2>5
<1> QED BY WaitStep, <1>2, <1>3, <1>4, <1>5, <1>6

(* A thread whose counter is odd has to be waited for.                      *)
LEMMA ScanBusyStep ==
  ASSUME Control, NEW L, NEW F, NEW rank, NEW start, GInv(L, F, rank, start),
         NEW t \in Threads, ScanBusy(t)
  PROVE  Control' /\ GInv(L, F, rank, start)'
<1>1. num_threads = NumThreads
  BY InUse DEF ScanBusy, GoTo
<1>2. TypeOK'
  <2>1. scan[t] \in Threads
    BY <1>1, HeapAssumption DEF Control, TypeOK, ScanBusy, ScanEnd, Threads
  <2>2. seen' \in [Threads -> 0 .. CtrMod - 1]
    BY <2>1 DEF Control, TypeOK, ScanBusy
  <2>3. pc' \in [Threads -> Labels]
    BY DEF Control, TypeOK, ScanBusy, GoTo, Labels, Quiescent
  <2> QED BY <2>2, <2>3 DEF Control, TypeOK, HeapTypeOK, ScanBusy, heapVars
<1>3. OthersSame(t)
  BY DEF OthersSame, Control, TypeOK, ScanBusy, GoTo
<1>4. /\ UNCHANGED <<heapVars, ctr, retired, node, first, last, nxt, val>>
      /\ pc[t] \in Waiting /\ pc'[t] \in Waiting
  BY DEF Control, TypeOK, ScanBusy, GoTo, Waiting
<1>5. ScopesOf(t)'
  BY <1>1, HeapAssumption DEF Control, TypeOK, ScopesOf, ScanBusy, GoTo, HasLast,
     HasFirst, HasNxt, EnqLoop, Threads, ScanEnd
<1>6. \A u \in Threads \ {t} : InOp(u) /\ Passed(t, u)' => Passed(t, u)
  BY <1>1, HeapAssumption DEF Control, TypeOK, ParityOf, Passed, ScanBusy, GoTo,
     Threads, ScanEnd
<1> QED BY WaitStep, <1>2, <1>3, <1>4, <1>5, <1>6

(* At the end of the scan every other thread has been passed.               *)
LEMMA ScanDoneStep ==
  ASSUME Control, NEW L, NEW F, NEW rank, NEW start, GInv(L, F, rank, start),
         NEW t \in Threads, ScanDone(t)
  PROVE  Control' /\ GInv(L, F, rank, start)'
<1>1. num_threads = NumThreads
  BY InUse DEF ScanDone, GoTo
<1>2. TypeOK'
  BY <1>1, HeapAssumption DEF Control, TypeOK, HeapTypeOK, ScopesOf, ScanDone,
     ScanEnd, Threads, GoTo, Labels, Quiescent, heapVars
<1>3. OthersSame(t)
  BY DEF OthersSame, Control, TypeOK, ScanDone, GoTo
<1>4. /\ UNCHANGED <<heapVars, ctr, retired, node, first, last, nxt, val>>
      /\ pc[t] \in Waiting /\ pc'[t] \in Waiting
  BY DEF Control, TypeOK, ScanDone, GoTo, Waiting
<1>5. ScopesOf(t)'
  BY <1>1, HeapAssumption DEF Control, TypeOK, ScopesOf, ScanDone, GoTo, HasLast,
     HasFirst, HasNxt, EnqLoop, Threads, ScanEnd
<1>6. \A u \in Threads \ {t} : InOp(u) /\ Passed(t, u)' => Passed(t, u)
  BY <1>1, HeapAssumption DEF Control, TypeOK, ParityOf, Passed, ScanDone, GoTo,
     Threads, ScanEnd
<1> QED BY WaitStep, <1>2, <1>3, <1>4, <1>5, <1>6

(* A counter that changed belongs to a thread that began again or is out.   *)
LEMMA SpinStep ==
  ASSUME Control, NEW L, NEW F, NEW rank, NEW start, GInv(L, F, rank, start),
         NEW t \in Threads, Spin(t)
  PROVE  Control' /\ GInv(L, F, rank, start)'
<1>1. num_threads = NumThreads
  BY InUse DEF Spin, GoTo
<1>2. TypeOK'
  <2>1. /\ scan[t] \in 0 .. NumThreads /\ scan[t] < NumThreads /\ NumThreads \in Nat
        /\ 0 \in 0 .. CtrMod - 1
    BY <1>1, HeapAssumption, CtrAssumption DEF Control, TypeOK, ScopesOf, Spin,
       ScanEnd, GoTo
  <2>2. scan[t] + 1 \in 0 .. NumThreads
    BY <2>1
  <2> QED
    BY <2>1, <2>2 DEF Control, TypeOK, HeapTypeOK, Spin, GoTo, Labels, Quiescent,
       heapVars
<1>3. OthersSame(t)
  BY DEF OthersSame, Control, TypeOK, Spin, GoTo
<1>4. /\ UNCHANGED <<heapVars, ctr, retired, node, first, last, nxt, val>>
      /\ pc[t] \in Waiting /\ pc'[t] \in Waiting
  BY DEF Control, TypeOK, Spin, GoTo, Waiting
<1>5. ScopesOf(t)'
  BY <1>1, HeapAssumption DEF Control, TypeOK, ScopesOf, Spin, GoTo, HasLast,
     HasFirst, HasNxt, EnqLoop, Threads, ScanEnd
<1>6. \A u \in Threads \ {t} : InOp(u) /\ Passed(t, u)' => Passed(t, u)
  <2>1. scan'[t] = scan[t] + 1 /\ scan[t] \in Int /\ pc[t] = "spin" /\ pc'[t] = "scan"
    BY HeapAssumption DEF Control, TypeOK, Spin, GoTo
  <2>2. SUFFICES ASSUME NEW u \in Threads \ {t}, InOp(u), Passed(t, u)'
                 PROVE  Passed(t, u)
    OBVIOUS
  <2>3. u \in Int /\ u < scan[t] + 1
    BY <2>1, <2>2, HeapAssumption DEF Passed, Threads
  <2>4. CASE u < scan[t]
    BY <2>1, <2>4 DEF Passed
  <2>5. CASE u = scan[t]
    BY <2>1, <2>2, <2>5 DEF Passed, Spin, Control, ParityOf
  <2> QED BY <2>1, <2>3, <2>4, <2>5
<1> QED BY WaitStep, <1>2, <1>3, <1>4, <1>5, <1>6

(* The end of the operation of t. *)
LEMMA OpEndStep ==
  ASSUME Control, NEW L, NEW F, NEW rank, NEW start, GInv(L, F, rank, start),
         NEW t \in Threads, OpEndReturn(t) \/ OpEndWait(t)
  PROVE  Control' /\ GInv(L, F, rank, start)'
<1>1. /\ pc[t] = "op_end"
      /\ \/ pc'[t] = "idle" /\ retired[t] = <<>> /\ node'[t] = NULL
         \/ pc'[t] = "scan" /\ retired[t] # <<>>
      /\ ctr'[t] = Bump(ctr[t])
      /\ UNCHANGED <<heapVars, retired, first, last, nxt, scan, seen>>
  BY DEF Control, TypeOK, OpEndReturn, OpEndWait, GoTo, Return, localVars
<1>2. ctr[t] \in 0 .. CtrMod - 1 /\ Bump(ctr[t]) \in 0 .. CtrMod - 1
  BY BumpParity DEF Control, TypeOK
<1>3. TypeOK'
  <2>1. ctr' \in [Threads -> 0 .. CtrMod - 1]
    BY <1>2 DEF Control, TypeOK, OpEndReturn, OpEndWait
  <2> QED
    BY <2>1 DEF Control, TypeOK, HeapTypeOK, OpEndReturn, OpEndWait, GoTo, Return,
       Labels,
       Quiescent, NodeOrNULL, ValueOrNULL, heapVars, localVars
<1>4. OthersSame(t)
  BY DEF OthersSame, Control, TypeOK, OpEndReturn, OpEndWait, GoTo, Return, localVars
<1>5. InOp(t) /\ ~InOp(t)' /\ ~Takes(t) /\ ~Takes(t)' /\ pc[t] # "idle"
  BY <1>1 DEF InOp, Takes, Quiescent, EnqLoop
<1>6. \A u \in Threads : ParityOf(u)' /\ ScopesOf(u)' /\ RetiredOf(u)'
  <2> TAKE u \in Threads
  <2>1. CASE u = t
    <3>1. ParityOf(t)'
      BY <1>1, <1>2, <1>5, BumpParity DEF Control, ParityOf
    <3>2. ScopesOf(t)'
      BY <1>1 DEF Control, ScopesOf, HasLast, HasFirst, HasNxt, EnqLoop
    <3>3. RetiredOf(t)'
      BY <1>1 DEF Control, RetiredOf, Waiting
    <3> QED BY <2>1, <3>1, <3>2, <3>3
  <2>2. CASE u # t
    BY <2>2, <1>4 DEF Control, ParityOf, ScopesOf, RetiredOf, InOp, OthersSame
  <2> QED BY <2>1, <2>2
<1>7. \A u \in Threads : (InOp(u)' => InOp(u)) /\ (Takes(u)' <=> Takes(u))
                          /\ (Takes(u) => node'[u] = node[u])
  BY <1>4, <1>5 DEF InOp, Takes, OthersSame
<1>8. Destroyed(L, F)' /\ Disjoint(L, F)' /\ TakenApart(L, F)'
  BY <1>1, <1>5, <1>7 DEF GInv, Destroyed, Disjoint, TakenApart, heapVars
<1>9. FreeLists(F, rank)' /\ Ends(L, rank)'
  BY <1>1 DEF GInv, FreeLists, Ends, Alive, heapVars
<1>10. Linked(L, rank, start)'
  <2>1. \A x \in L : Covered(x, rank, start)' => Covered(x, rank, start)
    BY <1>1, <1>7 DEF Covered, heapVars
  <2> QED BY <1>1, <2>1 DEF GInv, Linked, heapVars
<1>11. \A u \in Threads : TakenOf(u, L, rank)' /\ PointersOf(u, L, rank, start)'
  <2> TAKE u \in Threads
  <2>1. CASE u = t
    BY <2>1, <1>1, <1>5 DEF GInv, TakenOf, PointersOf, Takes, EnqLoop, heapVars
  <2>2. CASE u # t
    BY <2>2, <1>1, <1>4 DEF GInv, TakenOf, PointersOf, InOp, Takes, OthersSame, heapVars
  <2> QED BY <2>1, <2>2
<1>12. Garbage(L, rank)'
  <2>1. \A u \in Threads, x \in Nodes : Trash(u, x)' <=> Trash(u, x)
    BY <1>1, <1>4 DEF Trash, OthersSame
  <2> QED BY <1>1, <2>1 DEF GInv, Garbage, heapVars
<1>13. Grace(rank, start)'
  <2>1. \A u \in Threads \ {t}, v \in Threads \ {t} : Passed(u, v)' => Passed(u, v)
    BY <1>4 DEF Passed, OthersSame
  <2>2. \A v \in Threads : ~Passed(t, v)'
    BY <1>1 DEF Passed, Control, ScopesOf, Threads
  <2> QED BY <1>1, <1>5, <1>7, <2>1, <2>2 DEF GInv, Grace
<1> QED BY <1>3, <1>6, <1>8, <1>9, <1>10, <1>11, <1>12, <1>13 DEF Control, GInv,
   GhostTypeOK

(* first becomes the one retired node.                                      *)
LEMMA RetireStep ==
  ASSUME Control, NEW L, NEW F, NEW rank, NEW start, GInv(L, F, rank, start),
         NEW t \in Threads, Retire(t)
  PROVE  Control' /\ GInv(L, F, rank, start)'
<1>1. /\ pc[t] = "retire" /\ pc'[t] = "op_end"
      /\ retired' = [retired EXCEPT ![t] = <<first[t]>> \o retired[t]] /\ first'[t] = NULL
      /\ UNCHANGED <<heapVars, ctr, node, last, nxt, val, scan, seen>>
  BY DEF Control, TypeOK, Retire, GoTo
<1>2. first[t] \in Nodes /\ retired[t] = <<>>
  BY <1>1 DEF Control, TypeOK, NodeOrNULL, ScopesOf, HasFirst, RetiredOf, Waiting
<1>3. retired' = [retired EXCEPT ![t] = <<first[t]>>]
  <2>1. <<first[t]>> \o <<>> = <<first[t]>>
    BY <1>2
  <2> QED BY <1>1, <1>2, <2>1
<1>4. TypeOK'
  <2>1. <<first[t]>> \in Seq(Nodes)
    BY <1>2
  <2>2. retired' \in [Threads -> Seq(Nodes)]
    BY <1>3, <2>1 DEF Control, TypeOK
  <2> QED
    BY <2>2 DEF Control, TypeOK, HeapTypeOK, Retire, GoTo, Labels, NodeOrNULL, heapVars
<1>5. OthersSame(t)
  BY DEF OthersSame, Control, TypeOK, Retire, GoTo
<1>6. retired'[t] = <<first[t]>>
  BY <1>3 DEF Control, TypeOK
<1>7. \A u \in Threads : (InOp(u)' <=> InOp(u)) /\ (Takes(u)' <=> Takes(u))
  BY <1>1, <1>5 DEF InOp, Takes, OthersSame, Quiescent, EnqLoop
<1>8. \A u \in Threads : ParityOf(u)' /\ ScopesOf(u)' /\ RetiredOf(u)'
  <2> TAKE u \in Threads
  <2>1. CASE u = t
    <3>1. ParityOf(t)'
      BY <1>1, <1>7 DEF Control, ParityOf
    <3>2. ScopesOf(t)'
      BY <1>1 DEF Control, ScopesOf, HasLast, HasFirst, HasNxt, EnqLoop
    <3>3. RetiredOf(t)'
      BY <1>1, <1>2, <1>6 DEF RetiredOf, Waiting
    <3> QED BY <2>1, <3>1, <3>2, <3>3
  <2>2. CASE u # t
    BY <2>2, <1>5 DEF Control, ParityOf, ScopesOf, RetiredOf, InOp, OthersSame
  <2> QED BY <2>1, <2>2
<1>9. Destroyed(L, F)' /\ Disjoint(L, F)' /\ TakenApart(L, F)'
  BY <1>1, <1>7 DEF GInv, Destroyed, Disjoint, TakenApart, heapVars
<1>10. FreeLists(F, rank)' /\ Ends(L, rank)'
  BY <1>1 DEF GInv, FreeLists, Ends, Alive, heapVars
<1>11. Linked(L, rank, start)'
  <2>1. \A x \in L : Covered(x, rank, start)' <=> Covered(x, rank, start)
    BY <1>1, <1>7 DEF Covered, heapVars
  <2> QED BY <1>1, <2>1 DEF GInv, Linked, heapVars
<1>12. \A u \in Threads : TakenOf(u, L, rank)' /\ PointersOf(u, L, rank, start)'
  <2> TAKE u \in Threads
  <2>1. CASE u = t
    BY <2>1, <1>1, <1>7 DEF GInv, Control, ScopesOf, HasLast, HasNxt, TakenOf,
       PointersOf, Takes, EnqLoop, heapVars
  <2>2. CASE u # t
    BY <2>2, <1>1, <1>5 DEF GInv, TakenOf, PointersOf, InOp, Takes, OthersSame, heapVars
  <2> QED BY <2>1, <2>2
<1>13. Garbage(L, rank)'
  <2>1. \A u \in Threads \ {t}, x \in Nodes : Trash(u, x)' <=> Trash(u, x)
    BY <1>5 DEF Trash, OthersSame
  <2>2. \A x \in Nodes : Trash(t, x)' => Trash(t, x)
    BY <1>1, <1>6 DEF Trash
  <2> QED BY <1>1, <2>1, <2>2 DEF GInv, Garbage, heapVars
<1>14. Grace(rank, start)'
  <2>1. \A u \in Threads \ {t}, v \in Threads : Passed(u, v)' => Passed(u, v)
    BY <1>1, <1>5 DEF Passed, OthersSame
  <2>2. \A v \in Threads : ~Passed(t, v)'
    BY <1>1 DEF Passed
  <2>3. \A u \in Threads \ {t} : retired'[u] = retired[u]
    BY <1>5 DEF OthersSame
  <2> QED BY <1>7, <2>1, <2>2, <2>3 DEF GInv, Grace
<1> QED BY <1>4, <1>8, <1>9, <1>10, <1>11, <1>12, <1>13, <1>14 DEF Control, GInv,
   GhostTypeOK

(* The operation starts with the rank that head has now.                    *)
LEMMA BeginStep ==
  ASSUME Control, NEW L, NEW F, NEW rank, NEW start, GInv(L, F, rank, start),
         NEW t \in Threads, Begin(t),
         NEW start2, start2 = [start EXCEPT ![t] = rank[head]]
  PROVE  Control' /\ GInv(L, F, rank, start2)'
<1>1. /\ pc[t] = "idle" /\ pc'[t] \in {"upcycle", "d_head"} /\ num_threads # 0
      /\ ctr' = [ctr EXCEPT ![t] = Bump(ctr[t])]
      /\ UNCHANGED <<heapVars, retired, node, first, last, nxt, scan, seen>>
  BY DEF Control, TypeOK, Begin, BeginEnq, BeginDeq, BeginOp, GoTo
<1>2. /\ Bump(ctr[t]) \in 0 .. CtrMod - 1
      /\ IsOdd(Bump(ctr[t])) <=> ~IsOdd(ctr[t])
  BY BumpParity DEF Control, TypeOK
<1>3. TypeOK'
  <2>1. ctr' \in [Threads -> 0 .. CtrMod - 1]
    BY <1>1, <1>2 DEF Control, TypeOK
  <2>2. val' \in [Threads -> ValueOrNULL]
    BY DEF Control, TypeOK, Begin, BeginEnq, BeginDeq, ValueOrNULL
  <2>3. pc' \in [Threads -> Labels]
    BY DEF Control, TypeOK, Begin, BeginEnq, BeginDeq, BeginOp, GoTo, Labels, DeqLoop
  <2> QED
    BY <1>1, <2>1, <2>2, <2>3 DEF Control, TypeOK, HeapTypeOK, heapVars
<1>4. OthersSame(t)
  BY DEF OthersSame, Control, TypeOK, Begin, BeginEnq, BeginDeq, BeginOp, GoTo
<1>5. /\ ~InOp(t) /\ InOp(t)' /\ ~Takes(t) /\ ~Takes(t)'
      /\ head \in L /\ L \subseteq Nodes /\ rank[head] \in Int
  BY <1>1 DEF InOp, Takes, Quiescent, EnqLoop, GInv, GhostTypeOK, Ends, Alive
<1>6. /\ start2 \in [Threads -> Int] /\ start2[t] = rank[head]
      /\ \A u \in Threads \ {t} : start2[u] = start[u]
  BY <1>5 DEF GInv, GhostTypeOK
<1>7. \A u \in Threads : ParityOf(u)' /\ ScopesOf(u)' /\ RetiredOf(u)'
  <2> TAKE u \in Threads
  <2>1. CASE u = t
    <3>1. ParityOf(t)'
      BY <1>1, <1>2, <1>5 DEF Control, TypeOK, ParityOf
    <3>2. ScopesOf(t)'
      BY <1>1 DEF Control, ScopesOf, HasLast, HasFirst, HasNxt, EnqLoop
    <3>3. RetiredOf(t)'
      BY <1>1 DEF Control, RetiredOf, Waiting
    <3> QED BY <2>1, <3>1, <3>2, <3>3
  <2>2. CASE u # t
    BY <2>2, <1>4 DEF Control, ParityOf, ScopesOf, RetiredOf, InOp, OthersSame
  <2> QED BY <2>1, <2>2
<1>8. \A u \in Threads : (Takes(u)' <=> Takes(u)) /\ (u # t => (InOp(u)' <=> InOp(u)))
  BY <1>4, <1>5 DEF InOp, Takes, OthersSame
<1>9. Destroyed(L, F)' /\ Disjoint(L, F)' /\ TakenApart(L, F)'
  BY <1>1, <1>8 DEF GInv, Destroyed, Disjoint, TakenApart, heapVars
<1>10. FreeLists(F, rank)' /\ Ends(L, rank)'
  BY <1>1 DEF GInv, FreeLists, Ends, Alive, heapVars
<1>11. Linked(L, rank, start2)'
  <2>1. \A x \in L : Covered(x, rank, start2)' => Covered(x, rank, start)
    BY <1>1, <1>6, <1>8 DEF Covered, heapVars
  <2> QED BY <1>1, <2>1 DEF GInv, Linked, heapVars
<1>12. \A u \in Threads : TakenOf(u, L, rank)' /\ PointersOf(u, L, rank, start2)'
  <2> TAKE u \in Threads
  <2>1. CASE u = t
    BY <2>1, <1>1, <1>5, <1>6 DEF Control, ScopesOf, HasFirst, HasLast, HasNxt,
       TakenOf, PointersOf, Takes, EnqLoop, heapVars
  <2>2. CASE u # t
    BY <2>2, <1>1, <1>4, <1>6 DEF GInv, TakenOf, PointersOf, InOp, Takes, OthersSame,
       heapVars
  <2> QED BY <2>1, <2>2
<1>13. Garbage(L, rank)'
  <2>1. \A u \in Threads, x \in Nodes : Trash(u, x)' <=> Trash(u, x)
    BY <1>1, <1>4 DEF Trash, OthersSame
  <2> QED BY <1>1, <2>1 DEF GInv, Garbage, heapVars
<1>14. Grace(rank, start2)'
  <2>1. SUFFICES ASSUME NEW u \in Threads, NEW v \in Threads, NEW x \in Nodes,
                        retired'[u] = <<x>>, u # v, Passed(u, v)', InOp(v)'
                 PROVE  rank[x] < start2[v]
    BY DEF Grace
  <2>2. retired[u] = <<x>> /\ u # t
    BY <1>1, <2>1 DEF Passed
  <2>3. CASE v = t
    <3>1. rank[x] < rank[head]
      BY <2>2 DEF GInv, Garbage, Trash
    <3> QED BY <2>3, <3>1, <1>6
  <2>4. CASE v # t
    <3>1. Passed(u, v) /\ InOp(v)
      BY <1>4, <1>8, <2>1, <2>2, <2>4 DEF Passed, OthersSame
    <3> QED BY <1>6, <2>1, <2>2, <2>4, <3>1 DEF GInv, Grace
  <2> QED BY <2>3, <2>4
<1>15. GInv(L, F, rank, start2)'
  BY <1>6, <1>9, <1>10, <1>11, <1>12, <1>13, <1>14 DEF GInv, GhostTypeOK
<1> QED BY <1>3, <1>7, <1>15 DEF Control

(* Nobody but t can reach the node it fills.                                *)
LEMMA FillStep ==
  ASSUME Control, NEW L, NEW F, NEW rank, NEW start, GInv(L, F, rank, start),
         NEW t \in Threads, EnqFill(t)
  PROVE  Control' /\ GInv(L, F, rank, start)'
<1>1. /\ pc[t] = "fill" /\ pc'[t] = "e_tail"
      /\ next' = [next EXCEPT ![node[t]] = NULL]
      /\ UNCHANGED <<num_threads, head, tail, heap, freeHead, freeSize,
                     ctr, retired, node, first, last, nxt, val, scan, seen>>
  BY DEF Control, TypeOK, EnqFill, GoTo, localVars
<1>2. node[t] \in Nodes
  BY <1>1 DEF Control, TypeOK, NodeOrNULL, ScopesOf
<1>3. TypeOK'
  BY <1>2 DEF Control, TypeOK, HeapTypeOK, EnqFill, GoTo, Labels, EnqLoop, NodeOrNULL,
     ValueOrNULL, localVars
<1>4. OthersSame(t)
  BY DEF OthersSame, Control, TypeOK, EnqFill, GoTo, localVars
<1>5. InOp(t) /\ InOp(t)' /\ Takes(t) /\ Takes(t)' /\ pc[t] # "idle"
  BY <1>1 DEF InOp, Takes, Quiescent, EnqLoop
<1>6. /\ node[t] \notin L
      /\ \A u \in Threads : node[t] \notin F[u]
      /\ \A u \in Threads : Takes(u) /\ u # t => node[u] # node[t]
  BY <1>5 DEF GInv, TakenApart
<1>7. /\ next'[node[t]] = NULL
      /\ \A x \in Nodes \ {node[t]} : next'[x] = next[x]
  BY <1>1, <1>2 DEF Control, TypeOK, HeapTypeOK
<1>8. \A u \in Threads : ParityOf(u)' /\ ScopesOf(u)' /\ RetiredOf(u)'
  <2> TAKE u \in Threads
  <2>1. CASE u = t
    BY <2>1, <1>1 DEF Control, ParityOf, ScopesOf, RetiredOf, HasLast, HasFirst, HasNxt,
       Waiting, InOp, Quiescent, EnqLoop
  <2>2. CASE u # t
    BY <2>2, <1>4 DEF Control, ParityOf, ScopesOf, RetiredOf, InOp, OthersSame
  <2> QED BY <2>1, <2>2
<1>9. \A u \in Threads : (Takes(u)' <=> Takes(u)) /\ (InOp(u)' <=> InOp(u))
  BY <1>4, <1>5 DEF InOp, Takes, OthersSame
<1>10. Destroyed(L, F)' /\ Disjoint(L, F)' /\ TakenApart(L, F)'
  BY <1>1, <1>5, <1>9 DEF GInv, Destroyed, Disjoint, TakenApart
<1>11. FreeLists(F, rank)'
  <2>1. \A u \in Threads : \A x \in F[u] : next'[x] = next[x]
    BY <1>6, <1>7 DEF GInv, GhostTypeOK
  <2> QED BY <1>1, <2>1 DEF GInv, FreeLists
<1>12. Ends(L, rank)'
  BY <1>1 DEF GInv, Ends, Alive
<1>13. Linked(L, rank, start)'
  <2>1. \A x \in L : next'[x] = next[x]
    BY <1>6, <1>7 DEF GInv, GhostTypeOK
  <2>2. \A x \in L : Covered(x, rank, start)' <=> Covered(x, rank, start)
    BY <1>1, <1>9 DEF Covered
  <2> QED BY <2>1, <2>2 DEF GInv, Linked
<1>14. \A u \in Threads : TakenOf(u, L, rank)' /\ PointersOf(u, L, rank, start)'
  <2> TAKE u \in Threads
  <2>1. CASE u = t
    BY <2>1, <1>1, <1>5, <1>7 DEF GInv, TakenOf, PointersOf
  <2>2. CASE u # t
    <3>1. pc[u] \in EnqLoop => node[u] # node[t] /\ node[u] \in Nodes
      BY <1>6, <2>2 DEF Takes, Control, TypeOK, NodeOrNULL, ScopesOf
    <3>2. TakenOf(u, L, rank)'
      BY <2>2, <3>1, <1>1, <1>4, <1>7 DEF GInv, TakenOf, OthersSame
    <3>3. PointersOf(u, L, rank, start)'
      BY <2>2, <1>1, <1>4 DEF GInv, PointersOf, InOp, Takes, OthersSame
    <3> QED BY <3>2, <3>3
  <2> QED BY <2>1, <2>2
<1>15. Garbage(L, rank)'
  <2>1. \A u \in Threads, x \in Nodes : Trash(u, x)' <=> Trash(u, x)
    BY <1>1, <1>4 DEF Trash, OthersSame
  <2> QED BY <1>1, <2>1 DEF GInv, Garbage
<1>16. Grace(rank, start)'
  <2>1. \A u, v \in Threads : Passed(u, v)' => Passed(u, v)
    BY <1>1, <1>4 DEF Passed, OthersSame
  <2> QED BY <1>1, <1>9, <2>1 DEF GInv, Grace
<1> QED BY <1>3, <1>8, <1>10, <1>11, <1>12, <1>13, <1>14, <1>15, <1>16 DEF Control,
   GInv, GhostTypeOK

(* Taking a node from the free list or from malloc. *)
LEMMA UpcycleStep ==
  ASSUME Control, NEW L, NEW F, NEW rank, NEW start, GInv(L, F, rank, start),
         NEW t \in Threads, EnqUpcycle(t),
         NEW F2, F2 = [F EXCEPT ![t] = @ \ {freeHead[t]}]
  PROVE  Control' /\ GInv(L, F2, rank, start)'
<1>1. PICK n \in Nodes : Upcycle(t, n) /\ node' = [node EXCEPT ![t] = n]
  BY DEF EnqUpcycle
<1>2. /\ pc[t] = "upcycle" /\ pc'[t] = "fill" /\ node'[t] = n
      /\ UNCHANGED <<num_threads, head, tail, ctr, retired, first, last, nxt, val, scan, seen>>
  BY <1>1 DEF Control, TypeOK, EnqUpcycle, GoTo
<1>3. InOp(t) /\ InOp(t)' /\ ~Takes(t) /\ Takes(t)' /\ pc[t] # "idle"
  BY <1>2 DEF InOp, Takes, Quiescent, EnqLoop
<1>4. /\ F2 \in [Threads -> SUBSET Nodes]
      /\ F2[t] = F[t] \ {freeHead[t]}
      /\ \A u \in Threads \ {t} : F2[u] = F[u]
      /\ L \in SUBSET Nodes
  BY DEF GInv, GhostTypeOK
<1>5. TypeOK'
  <2>1. next' \in [Nodes -> NodeOrNULL] /\ data' \in [Nodes -> ValueOrNULL]
    BY <1>1 DEF Control, TypeOK, HeapTypeOK, Upcycle, MakeNode, NodeOrNULL, ValueOrNULL
  <2>2. heap' \in SUBSET Nodes
    BY <1>1 DEF Control, TypeOK, HeapTypeOK, Upcycle, MakeNode
  <2>3. freeHead' \in [Threads -> NodeOrNULL] /\ freeSize' \in [Threads -> Int]
    <3>1. CASE freeHead[t] = NULL
      BY <1>1, <3>1 DEF Control, TypeOK, HeapTypeOK, Upcycle
    <3>2. CASE freeHead[t] # NULL
      <4>1. next[n] \in NodeOrNULL /\ freeSize[t] - 1 \in Int
        BY DEF Control, TypeOK, HeapTypeOK
      <4>2. /\ freeHead' = [freeHead EXCEPT ![t] = next[n]]
            /\ freeSize' = [freeSize EXCEPT ![t] = freeSize[t] - 1]
        BY <1>1, <3>2 DEF Upcycle
      <4> QED BY <4>1, <4>2 DEF Control, TypeOK, HeapTypeOK
    <3> QED BY <3>1, <3>2
  <2>4. node' \in [Threads -> NodeOrNULL]
    BY <1>1 DEF Control, TypeOK, NodeOrNULL
  <2>5. pc' \in [Threads -> Labels]
    BY DEF Control, TypeOK, EnqUpcycle, GoTo, Labels
  <2> QED
    BY <1>2, <2>1, <2>2, <2>3, <2>4, <2>5 DEF Control, TypeOK, HeapTypeOK
<1>6. OthersSame(t)
  BY <1>1 DEF OthersSame, Control, TypeOK, EnqUpcycle, GoTo
<1>7. \A u \in Threads : ParityOf(u)' /\ ScopesOf(u)' /\ RetiredOf(u)'
  <2> TAKE u \in Threads
  <2>1. CASE u = t
    BY <2>1, <1>2, <1>3, HeapAssumption DEF Control, ParityOf, ScopesOf, RetiredOf,
       HasLast,
       HasFirst, HasNxt, Waiting, EnqLoop
  <2>2. CASE u # t
    BY <2>2, <1>6 DEF Control, ParityOf, ScopesOf, RetiredOf, InOp, OthersSame
  <2> QED BY <2>1, <2>2
<1>8. \A u \in Threads \ {t} : (Takes(u)' <=> Takes(u)) /\ (InOp(u)' <=> InOp(u)) /\ node'[u] = node[u]
  BY <1>6 DEF InOp, Takes, OthersSame
<1>9. /\ n \in heap' /\ n \notin L /\ (\A u \in Threads : n \notin F2[u])
      /\ (\A u \in Threads : Takes(u) => node[u] # n)
      /\ heap \subseteq heap'
  <2>1. CASE freeHead[t] = NULL
    <3>1. n \in Nodes \ heap /\ heap' = heap \cup {n}
      BY <1>1, <2>1 DEF Upcycle, MakeNode
    <3> QED BY <3>1, <1>4 DEF GInv, Disjoint, TakenApart
  <2>2. CASE freeHead[t] # NULL
    <3>1. n = freeHead[t] /\ heap' = heap /\ n \in F[t]
      BY <1>1, <2>2 DEF Upcycle, GInv, FreeLists
    <3> QED BY <3>1, <1>4 DEF GInv, Disjoint, TakenApart
  <2> QED BY <2>1, <2>2
<1>10. /\ \A x \in Nodes \ {n} : next'[x] = next[x]
       /\ \A x \in L : next'[x] = next[x]
  <2>1. \A x \in Nodes \ {n} : next'[x] = next[x]
    BY <1>1 DEF Upcycle, MakeNode, Control, TypeOK, HeapTypeOK
  <2> QED BY <2>1, <1>4, <1>9
<1>11. Destroyed(L, F2)'
  BY <1>2, <1>3 DEF GInv, Destroyed
<1>12. Disjoint(L, F2)'
  <2>1. \A u \in Threads : F2[u] \subseteq F[u]
    BY <1>4
  <2> QED BY <1>9, <2>1 DEF GInv, Disjoint
<1>13. TakenApart(L, F2)'
  <2>1. \A u \in Threads : F2[u] \subseteq F[u]
    BY <1>4
  <2>2. SUFFICES ASSUME NEW u \in Threads, Takes(u)'
                 PROVE  /\ node'[u] \in heap' \ L
                        /\ \A v \in Threads : node'[u] \notin F2[v]
                        /\ \A v \in Threads : Takes(v)' /\ v # u => node'[v] # node'[u]
    BY DEF TakenApart
  <2>3. CASE u = t
    BY <2>3, <1>2, <1>8, <1>9
  <2>4. CASE u # t
    <3>1. /\ Takes(u) /\ node[u] \in heap \ L /\ node'[u] = node[u] /\ node[u] # n
          /\ \A v \in Threads : node[u] \notin F[v]
          /\ \A v \in Threads : Takes(v) /\ v # u => node[v] # node[u]
      BY <2>2, <2>4, <1>8, <1>9 DEF GInv, TakenApart
    <3> QED BY <3>1, <2>1, <1>2, <1>8, <1>9
  <2> QED BY <2>3, <2>4
<1>14. FreeLists(F2, rank)'
  <2>1. \A u \in Threads \ {t} : /\ freeHead'[u] = freeHead[u] /\ freeSize'[u] = freeSize[u]
                               /\ \A x \in F[u] : x \in Nodes /\ next'[x] = next[x]
    <3>1. \A u \in Threads \ {t} : freeHead'[u] = freeHead[u] /\ freeSize'[u] = freeSize[u]
      BY <1>1 DEF Upcycle, Control, TypeOK, HeapTypeOK
    <3>2. \A u \in Threads \ {t} : F[u] \subseteq Nodes \ {n}
      BY <1>4, <1>9
    <3> QED BY <3>1, <3>2, <1>10
  <2>2. CASE freeHead[t] = NULL
    <3>1. freeHead' = freeHead /\ freeSize' = freeSize /\ F[t] = {} /\ F2[t] = {}
      BY <1>1, <1>4, <2>2 DEF Upcycle, GInv, FreeLists
    <3> QED BY <3>1, <2>1, <2>2, <1>4 DEF GInv, FreeLists
  <2>3. CASE freeHead[t] # NULL
    <3>1. /\ n = freeHead[t] /\ next' = next /\ n \in F[t]
          /\ freeHead'[t] = next[n] /\ freeSize'[t] = freeSize[t] - 1
          /\ freeSize[t] = rank[n] /\ F2[t] = F[t] \ {n} /\ F[t] \subseteq Nodes
          /\ \A x \in Nodes : rank[x] \in Int
      BY <1>1, <1>4, <2>3 DEF Upcycle, GInv, GhostTypeOK, FreeLists, Control, TypeOK,
         HeapTypeOK
    <3>2. \A x \in F[t] :
            /\ 1 <= rank[x] /\ rank[x] <= rank[n]
            /\ next[x] = NULL => rank[x] = 1
            /\ next[x] # NULL => next[x] \in F[t] /\ rank[next[x]] = rank[x] - 1
            /\ \A y \in F[t] : rank[x] = rank[y] => x = y
      BY <3>1 DEF GInv, FreeLists
    <3>3. \A x \in F2[t] : rank[x] <= rank[n] - 1
      BY <3>1, <3>2
    <3>4. \A x \in F[t] : next[x] # NULL => next[x] # n
      BY <3>1, <3>2
    <3>5. next[n] = NULL => F2[t] = {} /\ rank[n] = 1
      BY <3>1, <3>2, <3>3
    <3>6. next[n] # NULL => next[n] \in F2[t] /\ rank[next[n]] = rank[n] - 1
      BY <3>1, <3>2, <3>4
    <3>7. /\ freeHead'[t] = NULL => F2[t] = {} /\ freeSize'[t] = 0
          /\ freeHead'[t] # NULL => freeHead'[t] \in F2[t] /\ freeSize'[t] = rank[freeHead'[t]]
      BY <3>1, <3>5, <3>6
    <3>8. \A x \in F2[t] :
            /\ 1 <= rank[x] /\ rank[x] <= freeSize'[t]
            /\ next'[x] = NULL => rank[x] = 1
            /\ next'[x] # NULL => next'[x] \in F2[t] /\ rank[next'[x]] = rank[x] - 1
            /\ \A y \in F2[t] : rank[x] = rank[y] => x = y
      BY <3>1, <3>2, <3>3, <3>4
    <3> QED BY <3>7, <3>8, <2>1, <1>4 DEF GInv, FreeLists
  <2> QED BY <2>2, <2>3
<1>15. Ends(L, rank)'
  BY <1>2 DEF GInv, Ends, Alive
<1>16. \A u \in Threads : InOp(u)' <=> InOp(u)
  BY <1>3, <1>8
<1>17. Linked(L, rank, start)'
  <2>1. \A x \in L : Covered(x, rank, start)' <=> Covered(x, rank, start)
    BY <1>2, <1>16 DEF Covered
  <2> QED BY <1>10, <2>1 DEF GInv, Linked
<1>18. \A u \in Threads : TakenOf(u, L, rank)' /\ PointersOf(u, L, rank, start)'
  <2> TAKE u \in Threads
  <2>1. CASE u = t
    <3>1. TakenOf(t, L, rank)'
      BY <1>2 DEF TakenOf, EnqLoop
    <3>2. PointersOf(t, L, rank, start)'
      BY <1>2, <1>3 DEF GInv, PointersOf
    <3> QED BY <2>1, <3>1, <3>2
  <2>2. CASE u # t
    <3>1. pc[u] \in EnqLoop => node[u] \in Nodes \ {n}
      BY <1>9 DEF Takes, Control, TypeOK, NodeOrNULL, ScopesOf
    <3>2. TakenOf(u, L, rank)'
      BY <2>2, <3>1, <1>2, <1>6, <1>10 DEF GInv, TakenOf, OthersSame
    <3>3. PointersOf(u, L, rank, start)'
      BY <2>2, <1>2, <1>6 DEF GInv, PointersOf, InOp, Takes, OthersSame
    <3> QED BY <3>2, <3>3
  <2> QED BY <2>1, <2>2
<1>19. Garbage(L, rank)'
  <2>1. \A u \in Threads, x \in Nodes : Trash(u, x)' <=> Trash(u, x)
    BY <1>2, <1>6 DEF Trash, OthersSame
  <2> QED BY <1>2, <2>1 DEF GInv, Garbage
<1>20. Grace(rank, start)'
  <2>1. \A u, v \in Threads : Passed(u, v)' => Passed(u, v)
    BY <1>2, <1>6 DEF Passed, OthersSame
  <2> QED BY <1>2, <1>16, <2>1 DEF GInv, Grace
<1> QED BY <1>4, <1>5, <1>7, <1>11, <1>12, <1>13, <1>14, <1>15, <1>17, <1>18, <1>19,
   <1>20
        DEF Control, GInv, GhostTypeOK

(* The link puts node[t] behind the last node. *)
LEMMA LinkStep ==
  ASSUME Control, NEW L, NEW F, NEW rank, NEW start, GInv(L, F, rank, start),
         NEW t \in Threads, LinkSucceeds(t),
         NEW L2, L2 = L \cup {node[t]},
         NEW rank2, rank2 = [rank EXCEPT ![node[t]] = rank[last[t]] + 1]
  PROVE  Control' /\ GInv(L2, F, rank2, start)'
<1>1. /\ pc[t] = "e_link" /\ pc'[t] = "e_swing" /\ next[last[t]] = NULL
      /\ next' = [next EXCEPT ![last[t]] = node[t]]
      /\ UNCHANGED <<num_threads, head, tail, heap, freeHead, freeSize,
                     ctr, retired, node, first, last, nxt, val, scan, seen>>
  BY DEF Control, TypeOK, LinkSucceeds, CASResults, GoTo, localVars
<1>2. InOp(t) /\ InOp(t)' /\ Takes(t) /\ ~Takes(t)' /\ pc[t] # "idle"
  BY <1>1 DEF InOp, Takes, Quiescent, EnqLoop
<1>3. /\ last[t] \in L /\ start[t] <= rank[last[t]] /\ rank[last[t]] <= rank[tail]
      /\ node[t] # NULL /\ first[t] = NULL /\ nxt[t] = NULL /\ next[node[t]] = NULL
  BY <1>1 DEF Control, ScopesOf, HasFirst, HasLast, HasNxt, EnqLoop, GInv, PointersOf,
     TakenOf
<1>4. /\ node[t] \in heap /\ node[t] \notin L
      /\ \A u \in Threads : node[t] \notin F[u]
      /\ \A u \in Threads : Takes(u) /\ u # t => node[u] # node[t] /\ node[u] \notin L
  BY <1>2 DEF GInv, TakenApart
<1>5. \A y \in L : rank[y] <= rank[last[t]]
  BY <1>1, <1>2, <1>3, NextOfCovered
<1>6. /\ L2 \in SUBSET Nodes /\ last[t] \in Nodes /\ node[t] \in Nodes
      /\ head \in L /\ tail \in L /\ start \in [Threads -> Int]
  <2>1. /\ L \in SUBSET Nodes /\ start \in [Threads -> Int] /\ node[t] \in Nodes
    BY <1>4 DEF Control, TypeOK, HeapTypeOK, GInv, GhostTypeOK
  <2> QED BY <2>1, <1>2, <1>3, InUse
<1>7. /\ rank2 \in [Nodes -> Int]
      /\ \A x \in L : rank2[x] = rank[x] /\ rank[x] \in Int
      /\ \A u \in Threads : \A x \in F[u] : rank2[x] = rank[x]
      /\ rank2[node[t]] = rank[last[t]] + 1
  BY <1>3, <1>4, <1>6 DEF GInv, GhostTypeOK
<1>8. /\ next'[last[t]] = node[t] /\ next'[node[t]] = NULL
      /\ \A x \in Nodes \ {last[t]} : next'[x] = next[x]
  BY <1>1, <1>3, <1>4, <1>6 DEF Control, TypeOK, HeapTypeOK
<1>9. TypeOK'
  <2>1. next' \in [Nodes -> NodeOrNULL]
    BY <1>1, <1>6 DEF Control, TypeOK, HeapTypeOK, NodeOrNULL
  <2>2. data' = data /\ pc' \in [Threads -> Labels]
    BY DEF Control, TypeOK, LinkSucceeds, GoTo, Labels
  <2> QED BY <1>1, <2>1, <2>2 DEF Control, TypeOK, HeapTypeOK
<1>10. OthersSame(t)
  BY DEF OthersSame, Control, TypeOK, LinkSucceeds, GoTo, localVars
<1>11. \A u \in Threads : ParityOf(u)' /\ ScopesOf(u)' /\ RetiredOf(u)'
  <2> TAKE u \in Threads
  <2>1. CASE u = t
    BY <2>1, <1>1, <1>2, <1>3 DEF Control, ParityOf, ScopesOf, RetiredOf, HasLast,
       HasFirst,
       HasNxt, Waiting, EnqLoop
  <2>2. CASE u # t
    BY <2>2, <1>10 DEF Control, ParityOf, ScopesOf, RetiredOf, InOp, OthersSame
  <2> QED BY <2>1, <2>2
<1>12. \A u \in Threads : (InOp(u)' <=> InOp(u)) /\ (Takes(u)' => Takes(u) /\ u # t)
  BY <1>2, <1>10 DEF InOp, Takes, OthersSame
<1>13. Destroyed(L2, F)'
  BY <1>1, <1>2, InUse, HeapAssumption DEF Destroyed, Threads
<1>14. Disjoint(L2, F)' /\ TakenApart(L2, F)'
  BY <1>1, <1>4, <1>12 DEF GInv, Disjoint, TakenApart
<1>15. FreeLists(F, rank2)'
  <2>1. \A u \in Threads : \A x \in F[u] : next'[x] = next[x]
    BY <1>3, <1>8 DEF GInv, GhostTypeOK, Disjoint
  <2> QED BY <1>1, <1>7, <2>1 DEF GInv, FreeLists
<1>16. Ends(L2, rank2)'
  <2>1. \A x \in L2 : rank2[x] <= rank2[tail] + 1
    BY <1>3, <1>5, <1>6, <1>7
  <2>2. rank2[head] <= rank2[tail]
    BY <1>2, <1>6, <1>7, InUse
  <2> QED BY <1>1, <1>6, <2>1, <2>2 DEF Ends, Alive
<1>17. Linked(L2, rank2, start)'
  <2>1. \A x, y \in L2 : rank2[x] = rank2[y] => x = y
    <3>1. \A x \in L : rank2[x] # rank2[node[t]]
      BY <1>3, <1>5, <1>7
    <3>2. \A x, y \in L : rank2[x] = rank2[y] => x = y
      BY <1>7 DEF GInv, Linked
    <3> QED BY <3>1, <3>2
  <2>2. ASSUME NEW x \in L, Covered(x, rank2, start)', x # last[t]
        PROVE  next'[x] # NULL /\ next'[x] \in L /\ rank2[next'[x]] = rank2[x] + 1
    <3>1. Covered(x, rank, start)
      BY <1>1, <1>6, <1>7, <1>12, <2>2 DEF Covered
    <3>2. /\ next[x] = NULL => \A y \in L : rank[y] <= rank[x]
          /\ next[x] # NULL => next[x] \in L /\ rank[next[x]] = rank[x] + 1
      BY <3>1 DEF GInv, Linked
    <3>3. rank[x] < rank[last[t]]
      <4>1. rank[x] # rank[last[t]]
        BY <1>3, <2>2 DEF GInv, Linked
      <4> QED BY <4>1, <1>3, <1>5, <1>7
    <3>4. next[x] # NULL
      BY <3>2, <3>3, <1>3, <1>7
    <3> QED BY <3>2, <3>4, <2>2, <1>6, <1>7, <1>8
  <2>3. \A y \in L2 : rank2[y] <= rank2[node[t]]
    BY <1>3, <1>5, <1>7
  <2>4. rank2[next'[last[t]]] = rank2[last[t]] + 1
    BY <1>3, <1>7, <1>8
  <2>5. ASSUME NEW x \in L2, Covered(x, rank2, start)'
        PROVE  /\ next'[x] = NULL => \A y \in L2 : rank2[y] <= rank2[x]
               /\ next'[x] # NULL => next'[x] \in L2 /\ rank2[next'[x]] = rank2[x] + 1
    <3>1. CASE x = node[t]
      BY <3>1, <2>3, <1>8
    <3>2. CASE x = last[t]
      BY <3>2, <2>4, <1>3, <1>8
    <3>3. CASE x \in L /\ x # last[t]
      BY <3>3, <2>2, <2>5
    <3> QED BY <3>1, <3>2, <3>3
  <2> QED BY <2>1, <2>5 DEF Linked
<1>18. \A u \in Threads : TakenOf(u, L2, rank2)' /\ PointersOf(u, L2, rank2, start)'
  <2> TAKE u \in Threads
  <2>0. PointersOf(u, L, rank, start)
    BY DEF GInv
  <2>1. CASE u = t
    <3>1. TakenOf(t, L2, rank2)'
      BY <1>1, <1>3, <1>7 DEF TakenOf, EnqLoop
    <3>2. PointersOf(t, L2, rank2, start)'
      BY <2>0, <2>1, <1>1, <1>2, <1>3, <1>6, <1>7 DEF PointersOf
    <3> QED BY <2>1, <3>1, <3>2
  <2>2. CASE u # t
    <3>1. pc[u] \in EnqLoop => node[u] \in Nodes \ {last[t]}
      BY <1>3, <1>4, <2>2 DEF Takes, Control, TypeOK, NodeOrNULL, ScopesOf
    <3>2. pc[u] = "e_swing" => last[u] # NULL
      BY DEF Control, ScopesOf, HasLast
    <3>3. /\ pc[u] \in EnqLoop => next[node[u]] = NULL
          /\ pc[u] = "e_swing" => node[u] \in L /\ last[u] \in L /\ rank[node[u]] = rank[last[u]] + 1
      BY <2>0, <3>2 DEF GInv, TakenOf, PointersOf
    <3>4. TakenOf(u, L2, rank2)'
      BY <2>2, <3>1, <3>3, <1>1, <1>7, <1>8, <1>10 DEF TakenOf, OthersSame
    <3>5. PointersOf(u, L2, rank2, start)'
      <4>1. /\ first'[u] = first[u] /\ last'[u] = last[u] /\ nxt'[u] = nxt[u]
            /\ pc'[u] = pc[u] /\ (InOp(u)' <=> InOp(u))
            /\ node'[u] = node[u] /\ (Takes(u)' <=> Takes(u))
        BY <2>2, <1>10 DEF InOp, Takes, OthersSame
      <4>2. /\ first[u] # NULL => first[u] \in L2 /\ rank2[first[u]] = rank[first[u]]
            /\ last[u] # NULL => last[u] \in L2 /\ rank2[last[u]] = rank[last[u]]
            /\ nxt[u] # NULL => nxt[u] \in L2 /\ rank2[nxt[u]] = rank[nxt[u]]
            /\ InOp(u) /\ ~Takes(u) /\ node[u] # NULL =>
                 node[u] \in L2 /\ rank2[node[u]] = rank[node[u]]
        BY <2>0, <1>7 DEF PointersOf
      <4>3. /\ rank2[head] = rank[head] /\ rank2[tail] = rank[tail]
        BY <1>6, <1>7
      <4>4. nxt[u] # NULL => last[u] # NULL
        BY DEF Control, ScopesOf, HasLast, HasNxt
      <4> QED BY <2>0, <4>1, <4>4, <4>2, <4>3, <1>1 DEF PointersOf
    <3> QED BY <3>4, <3>5
  <2> QED BY <2>1, <2>2
<1>19. \A u \in Threads, x \in Nodes : Trash(u, x)' <=> Trash(u, x)
  BY <1>1, <1>10 DEF Trash, OthersSame
<1>20. Garbage(L2, rank2)'
  BY <1>1, <1>6, <1>7, <1>19 DEF GInv, Garbage
<1>21. Grace(rank2, start)'
  <2>1. \A u, v \in Threads : Passed(u, v)' => Passed(u, v)
    BY <1>1, <1>10 DEF Passed, OthersSame
  <2>2. \A u \in Threads, x \in Nodes : retired[u] = <<x>> => x \in L
    BY DEF GInv, Garbage, Trash
  <2> QED BY <1>1, <1>7, <1>12, <2>1, <2>2 DEF GInv, Grace
<1>22. GhostTypeOK(L2, F, rank2, start)'
  BY <1>6, <1>7 DEF GInv, GhostTypeOK
<1> QED BY <1>9, <1>11, <1>13, <1>14, <1>15, <1>16, <1>17, <1>18, <1>20, <1>21, <1>22
        DEF Control, GInv

(* Reclaiming moves a node from L to the free list of t. *)
LEMMA ReclaimStep ==
  ASSUME Control, NEW L, NEW F, NEW rank, NEW start, GInv(L, F, rank, start),
         NEW t \in Threads, Reclaim(t), NEW x \in Nodes, retired[t] = <<x>>,
         NEW L2, L2 = L \ {x},
         NEW F2, F2 = [F EXCEPT ![t] = @ \cup {x}],
         NEW rank2, rank2 = [rank EXCEPT ![x] = freeSize[t] + 1]
  PROVE  Control' /\ GInv(L2, F2, rank2, start)'
<1>1. /\ pc[t] = "reclaim" /\ pc' = [pc EXCEPT ![t] = "idle"]
      /\ node' = [node EXCEPT ![t] = NULL] /\ val' = [val EXCEPT ![t] = NULL]
      /\ next' = [next EXCEPT ![x] = freeHead[t]]
      /\ freeHead' = [freeHead EXCEPT ![t] = x]
      /\ freeSize' = [freeSize EXCEPT ![t] = freeSize[t] + 1]
      /\ retired' = [retired EXCEPT ![t] = <<>>]
      /\ UNCHANGED <<num_threads, head, tail, data, heap, ctr, first, last, nxt, scan, seen>>
  <2>1. Head(<<x>>) = x /\ Tail(<<x>>) = <<>> /\ Len(<<x>>) = 1
    OBVIOUS
  <2> QED BY <2>1 DEF Reclaim, Recycle, Return
<1>2. /\ pc'[t] = "idle" /\ node'[t] = NULL /\ retired'[t] = <<>>
      /\ freeHead'[t] = x /\ freeSize'[t] = freeSize[t] + 1
      /\ next'[x] = freeHead[t] /\ freeSize[t] \in Int
      /\ \A y \in Nodes \ {x} : next'[y] = next[y]
      /\ \A u \in Threads \ {t} : freeHead'[u] = freeHead[u] /\ freeSize'[u] = freeSize[u]
  BY <1>1 DEF Control, TypeOK, HeapTypeOK
<1>3. ~InOp(t) /\ ~InOp(t)' /\ ~Takes(t) /\ ~Takes(t)' /\ pc[t] # "idle"
  BY <1>1, <1>2 DEF InOp, Takes, Quiescent, EnqLoop
<1>4. OthersSame(t)
  BY <1>1 DEF OthersSame, Control, TypeOK
<1>5. x \in L /\ rank[x] < rank[head] /\ \A u \in Threads : Trash(u, x) => u = t
  BY DEF GInv, Garbage, Trash
<1>6. \A u \in Threads : InOp(u) => u # t /\ rank[x] < start[u]
  BY <1>1, <1>3 DEF GInv, Grace, Passed
<1>7. /\ head \in L /\ tail \in L /\ rank[head] <= rank[tail] /\ head # x /\ tail # x
      /\ rank[x] \in Int /\ rank[head] \in Int /\ rank[tail] \in Int
  BY <1>3, <1>5, InUse
<1>8. /\ L2 \in SUBSET Nodes /\ F2 \in [Threads -> SUBSET Nodes] /\ rank2 \in [Nodes -> Int]
      /\ start \in [Threads -> Int] /\ rank \in [Nodes -> Int] /\ F \in [Threads -> SUBSET Nodes]
      /\ F2[t] = F[t] \cup {x} /\ \A u \in Threads \ {t} : F2[u] = F[u]
      /\ rank2[x] = freeSize[t] + 1 /\ \A y \in Nodes \ {x} : rank2[y] = rank[y]
      /\ L \subseteq Nodes
  BY <1>2 DEF GInv, GhostTypeOK
<1>9. \A u \in Threads : x \notin F[u] /\ (Takes(u) => node[u] # x)
  BY <1>5 DEF GInv, Disjoint, TakenApart
<1>10. TypeOK'
  <2>1. next' \in [Nodes -> NodeOrNULL] /\ freeHead' \in [Threads -> NodeOrNULL]
    BY <1>1 DEF Control, TypeOK, HeapTypeOK, NodeOrNULL
  <2>2. freeSize' \in [Threads -> Int]
    BY <1>1, <1>2 DEF Control, TypeOK, HeapTypeOK
  <2>3. retired' \in [Threads -> Seq(Nodes)]
    BY <1>1 DEF Control, TypeOK
  <2>4. /\ pc' \in [Threads -> Labels] /\ node' \in [Threads -> NodeOrNULL]
        /\ val' \in [Threads -> ValueOrNULL]
    BY <1>1 DEF Control, TypeOK, Labels, Quiescent, NodeOrNULL, ValueOrNULL
  <2> QED BY <1>1, <2>1, <2>2, <2>3, <2>4 DEF Control, TypeOK, HeapTypeOK
<1>11. \A u \in Threads : ParityOf(u)' /\ ScopesOf(u)' /\ RetiredOf(u)'
  <2> TAKE u \in Threads
  <2>1. CASE u = t
    BY <2>1, <1>1, <1>2, <1>3 DEF Control, ParityOf, ScopesOf, RetiredOf, HasLast,
       HasFirst,
       HasNxt, Waiting, EnqLoop
  <2>2. CASE u # t
    BY <2>2, <1>4 DEF Control, ParityOf, ScopesOf, RetiredOf, InOp, OthersSame
  <2> QED BY <2>1, <2>2
<1>12. \A u \in Threads : /\ InOp(u)' <=> InOp(u)
                          /\ Takes(u)' <=> Takes(u)
                          /\ Takes(u) => u # t /\ node'[u] = node[u]
  BY <1>3, <1>4 DEF InOp, Takes, OthersSame
<1>13. Destroyed(L2, F2)'
  BY <1>1, <1>3, InUse, HeapAssumption DEF Destroyed
<1>14. Disjoint(L2, F2)'
  BY <1>1, <1>5, <1>8, <1>9 DEF GInv, Disjoint
<1>15. TakenApart(L2, F2)'
  <2>1. SUFFICES ASSUME NEW u \in Threads, Takes(u)'
                 PROVE  /\ node'[u] \in heap' \ L2
                        /\ \A v \in Threads : node'[u] \notin F2[v]
                        /\ \A v \in Threads : Takes(v)' /\ v # u => node'[v] # node'[u]
    BY DEF TakenApart
  <2>2. /\ node[u] \in heap \ L /\ node[u] # x
        /\ \A v \in Threads : node[u] \notin F[v]
        /\ \A v \in Threads : Takes(v) /\ v # u => node[v] # node[u]
    BY <1>9, <1>12, <2>1 DEF GInv, TakenApart
  <2> QED BY <2>1, <2>2, <1>1, <1>8, <1>12
<1>16. FreeLists(F2, rank2)'
  <2>1. \A u \in Threads : \A y \in F[u] : y \in Nodes /\ next'[y] = next[y] /\ rank2[y] = rank[y]
    BY <1>2, <1>8, <1>9
  <2>2. \A y \in F[t] :
          /\ 1 <= rank[y] /\ rank[y] <= freeSize[t] /\ rank[y] \in Int
          /\ next[y] = NULL => rank[y] = 1
          /\ next[y] # NULL => next[y] \in F[t] /\ rank[next[y]] = rank[y] - 1
          /\ \A z \in F[t] : rank[y] = rank[z] => y = z
    BY <1>8, <2>1 DEF GInv, FreeLists
  <2>3. /\ freeHead[t] = NULL => F[t] = {} /\ freeSize[t] = 0
        /\ freeHead[t] # NULL => freeHead[t] \in F[t] /\ freeSize[t] = rank[freeHead[t]]
    BY DEF GInv, FreeLists
  <2>4. /\ 1 <= rank2[x] /\ rank2[x] = freeSize'[t]
        /\ next'[x] = NULL => rank2[x] = 1
        /\ next'[x] # NULL => next'[x] \in F[t] /\ rank2[next'[x]] = rank2[x] - 1
        /\ \A z \in F[t] : rank2[x] # rank2[z]
    <3>1. freeSize[t] >= 0
      BY <2>2, <2>3, <1>2
    <3>2. freeHead[t] # NULL => rank2[freeHead[t]] = freeSize[t]
      BY <2>1, <2>3
    <3>3. \A z \in F[t] : rank2[z] <= freeSize[t] /\ rank2[z] \in Int
      BY <2>1, <2>2
    <3>4. /\ 1 <= rank2[x] /\ rank2[x] = freeSize'[t]
          /\ \A z \in F[t] : rank2[x] # rank2[z]
      BY <1>2, <1>8, <3>1, <3>3
    <3> QED BY <1>2, <1>8, <2>3, <3>2, <3>4
  <2>5. \A y \in F[t] :
          /\ 1 <= rank2[y] /\ rank2[y] <= freeSize'[t]
          /\ next'[y] = NULL => rank2[y] = 1
          /\ next'[y] # NULL => next'[y] \in F[t] /\ rank2[next'[y]] = rank2[y] - 1
          /\ \A z \in F[t] : rank2[y] = rank2[z] => y = z
    BY <1>2, <2>1, <2>2
  <2>6. /\ freeHead'[t] # NULL /\ freeHead'[t] \in F2[t] /\ freeSize'[t] = rank2[freeHead'[t]]
        /\ \A y \in F2[t] :
             /\ 1 <= rank2[y] /\ rank2[y] <= freeSize'[t]
             /\ next'[y] = NULL => rank2[y] = 1
             /\ next'[y] # NULL => next'[y] \in F2[t] /\ rank2[next'[y]] = rank2[y] - 1
             /\ \A z \in F2[t] : rank2[y] = rank2[z] => y = z
    <3>1. freeHead'[t] # NULL /\ freeHead'[t] \in F2[t] /\ freeSize'[t] = rank2[freeHead'[t]]
      BY <1>2, <1>8, <2>4, HeapAssumption
    <3>2. rank2[x] <= freeSize'[t]
      BY <1>2, <2>4
    <3> QED BY <3>1, <3>2, <1>8, <2>4, <2>5
  <2>7. \A u \in Threads \ {t} :
          /\ freeHead'[u] = NULL => F2[u] = {} /\ freeSize'[u] = 0
          /\ freeHead'[u] # NULL => freeHead'[u] \in F2[u] /\ freeSize'[u] = rank2[freeHead'[u]]
          /\ \A y \in F2[u] :
               /\ 1 <= rank2[y] /\ rank2[y] <= freeSize'[u]
               /\ next'[y] = NULL => rank2[y] = 1
               /\ next'[y] # NULL => next'[y] \in F2[u] /\ rank2[next'[y]] = rank2[y] - 1
               /\ \A z \in F2[u] : rank2[y] = rank2[z] => y = z
    BY <1>2, <1>8, <2>1 DEF GInv, FreeLists
  <2> QED BY <2>6, <2>7 DEF FreeLists
<1>17. Ends(L2, rank2)'
  <2>1. \A y \in L2 : rank2[y] = rank[y]
    BY <1>8
  <2> QED BY <1>1, <1>7, <1>8, <2>1 DEF GInv, Ends, Alive
<1>18. Linked(L2, rank2, start)'
  <2>1. \A y \in L2 : y \in L /\ y # x /\ y \in Nodes /\ rank2[y] = rank[y] /\ next'[y] = next[y]
    BY <1>2, <1>8
  <2>2. ASSUME NEW y \in L2, Covered(y, rank2, start)'
        PROVE  /\ next[y] = NULL => \A z \in L : rank[z] <= rank[y]
               /\ next[y] # NULL => next[y] \in L2 /\ rank[next[y]] = rank[y] + 1
    <3>1. Covered(y, rank, start)
      BY <1>1, <1>7, <1>8, <1>12, <2>1, <2>2 DEF Covered
    <3>2. /\ next[y] = NULL => \A z \in L : rank[z] <= rank[y]
          /\ next[y] # NULL => next[y] \in L /\ rank[next[y]] = rank[y] + 1
      BY <2>1, <3>1 DEF GInv, Linked
    <3>3. rank[x] < rank[y]
      <4>1. rank[x] \in Int /\ rank[y] \in Int /\ rank[head] \in Int
        BY <1>7, <1>8, <2>1
      <4>2. CASE rank[head] <= rank[y]
        BY <4>1, <4>2, <1>5
      <4>3. ASSUME NEW u \in Threads, InOp(u), start[u] <= rank[y]
            PROVE  rank[x] < rank[y]
        <5>1. rank[x] < start[u] /\ start[u] \in Int
          BY <4>3, <1>6, <1>8
        <5> QED BY <4>1, <4>3, <5>1
      <4> QED BY <3>1, <4>2, <4>3 DEF Covered
    <3>4. next[y] # NULL => next[y] # x
      BY <1>8, <2>1, <3>2, <3>3
    <3> QED BY <3>2, <3>4
  <2>3. \A y, z \in L2 : rank2[y] = rank2[z] => y = z
    BY <2>1 DEF GInv, Linked
  <2>4. ASSUME NEW y \in L2, Covered(y, rank2, start)'
        PROVE  /\ next'[y] = NULL => \A z \in L2 : rank2[z] <= rank2[y]
               /\ next'[y] # NULL => next'[y] \in L2 /\ rank2[next'[y]] = rank2[y] + 1
    BY <2>1, <2>2, <2>4
  <2> QED BY <2>3, <2>4 DEF Linked
<1>19. \A u \in Threads : TakenOf(u, L2, rank2)' /\ PointersOf(u, L2, rank2, start)'
  <2> TAKE u \in Threads
  <2>0. PointersOf(u, L, rank, start) /\ TakenOf(u, L, rank)
    BY DEF GInv
  <2>1. CASE u = t
    <3>1. TakenOf(t, L2, rank2)'
      BY <1>2 DEF TakenOf, EnqLoop
    <3>2. first'[t] = NULL /\ last'[t] = NULL /\ nxt'[t] = NULL
      BY <1>1 DEF Control, ScopesOf, HasFirst, HasLast, HasNxt
    <3>3. PointersOf(t, L2, rank2, start)'
      BY <1>2, <1>3, <3>2 DEF PointersOf
    <3> QED BY <2>1, <3>1, <3>3
  <2>2. CASE u # t
    <3>1. (first[u] # NULL \/ last[u] # NULL \/ nxt[u] # NULL) => InOp(u)
      BY DEF Control, ScopesOf, HasFirst, HasLast, HasNxt, InOp, Quiescent
    <3>2. /\ first[u] # NULL => first[u] \in L2 /\ rank2[first[u]] = rank[first[u]] /\ rank[first[u]] \in Int
          /\ last[u] # NULL => last[u] \in L2 /\ rank2[last[u]] = rank[last[u]] /\ rank[last[u]] \in Int
          /\ nxt[u] # NULL => nxt[u] \in L2 /\ rank2[nxt[u]] = rank[nxt[u]] /\ rank[nxt[u]] \in Int
          /\ InOp(u) /\ ~Takes(u) /\ node[u] # NULL =>
               node[u] \in L2 /\ rank2[node[u]] = rank[node[u]] /\ rank[node[u]] \in Int
      BY <1>6, <1>7, <1>8, <2>0, <3>1 DEF PointersOf
    <3>3. rank2[head] = rank[head] /\ rank2[tail] = rank[tail]
      BY <1>7, <1>8
    <3>4. PointersOf(u, L2, rank2, start)'
      <4>1. /\ first'[u] = first[u] /\ last'[u] = last[u] /\ nxt'[u] = nxt[u]
            /\ pc'[u] = pc[u] /\ (InOp(u)' <=> InOp(u))
            /\ node'[u] = node[u] /\ (Takes(u)' <=> Takes(u))
        BY <2>2, <1>4 DEF InOp, Takes, OthersSame
      <4>2. nxt[u] # NULL => last[u] # NULL
        BY DEF Control, ScopesOf, HasLast, HasNxt
      <4> QED BY <2>0, <3>2, <3>3, <4>1, <4>2, <1>1 DEF PointersOf
    <3>5. pc[u] \in EnqLoop => next'[node[u]] = NULL
      <4>1. pc[u] \in EnqLoop => node[u] \in Nodes \ {x}
        BY <1>9 DEF Takes, Control, TypeOK, NodeOrNULL, ScopesOf
      <4> QED BY <4>1, <1>2, <2>0 DEF TakenOf
    <3>6. pc[u] = "e_swing" => node[u] \in L2 /\ rank2[node[u]] = rank2[last[u]] + 1
      <4>1. pc[u] = "e_swing" => last[u] # NULL /\ InOp(u)
        BY DEF Control, ScopesOf, HasLast, InOp, Quiescent
      <4>2. pc[u] = "e_swing" => node[u] \in L /\ rank[node[u]] = rank[last[u]] + 1
                                 /\ start[u] <= rank[last[u]] /\ rank[x] < start[u]
        BY <1>6, <2>0, <4>1 DEF TakenOf, PointersOf
      <4>3. pc[u] = "e_swing" => node[u] # x
        BY <4>1, <4>2, <3>2, <1>7, <1>8
      <4> QED BY <4>1, <4>2, <4>3, <3>2, <1>8
    <3>7. TakenOf(u, L2, rank2)'
      BY <2>2, <3>5, <3>6, <1>1, <1>4 DEF TakenOf, OthersSame
    <3> QED BY <3>4, <3>7
  <2> QED BY <2>1, <2>2
<1>20. \A u \in Threads, y \in Nodes : Trash(u, y)' => Trash(u, y) /\ u # t /\ y # x
  <2>1. \A y \in Nodes : ~Trash(t, y)'
    BY <1>2 DEF Trash
  <2>2. \A u \in Threads \ {t}, y \in Nodes : Trash(u, y)' <=> Trash(u, y)
    BY <1>4 DEF Trash, OthersSame
  <2> QED BY <1>5, <2>1, <2>2
<1>21. Garbage(L2, rank2)'
  <2>1. rank2[head] = rank[head]
    BY <1>7, <1>8
  <2> QED BY <1>1, <1>8, <1>20, <2>1 DEF GInv, Garbage
<1>22. Grace(rank2, start)'
  <2>1. \A u \in Threads \ {t}, v \in Threads : Passed(u, v)' => Passed(u, v)
    BY <1>1, <1>4 DEF Passed, OthersSame
  <2>2. \A u \in Threads, y \in Nodes :
          retired'[u] = <<y>> => u # t /\ y # x /\ retired[u] = <<y>> /\ rank2[y] = rank[y]
    BY <1>4, <1>8, <1>20 DEF Trash, OthersSame
  <2> QED BY <1>12, <2>1, <2>2 DEF GInv, Grace
<1>23. GhostTypeOK(L2, F2, rank2, start)'
  BY <1>8 DEF GhostTypeOK
<1> QED BY <1>10, <1>11, <1>13, <1>14, <1>15, <1>16, <1>17, <1>18, <1>19, <1>21,
   <1>22, <1>23
        DEF Control, GInv

(* destroy_queue leaves no nodes behind. *)
LEMMA DestroyStep ==
  ASSUME Control, NEW L, NEW F, NEW rank, NEW start, GInv(L, F, rank, start), Destroy,
         NEW F2, F2 = [t \in Threads |-> {}]
  PROVE  Control' /\ GInv({}, F2, rank, start)'
<1>1. /\ num_threads' = 0 /\ \A u \in Threads : pc[u] = "idle"
      /\ freeHead' = [t \in Threads |-> NULL] /\ freeSize' = [t \in Threads |-> 0]
      /\ retired' = [t \in Threads |-> <<>>] /\ ctr' = [t \in Threads |-> 0]
      /\ UNCHANGED <<head, tail, pc, node, first, last, nxt, val, scan, seen>>
  BY DEF Destroy, FreeAll, localVars
<1>2. \A u \in Threads :
        /\ pc'[u] = "idle" /\ ctr'[u] = 0 /\ retired'[u] = <<>>
        /\ first'[u] = NULL /\ last'[u] = NULL /\ nxt'[u] = NULL /\ node'[u] = NULL
        /\ scan'[u] = 0
        /\ freeHead'[u] = NULL /\ freeSize'[u] = 0
  BY <1>1 DEF Control, ScopesOf, HasLast, HasFirst, HasNxt
<1>3. TypeOK'
  <2>1. PICK freed :
          /\ heap' = heap \ freed
          /\ next' = [x \in Nodes |-> IF x \in freed THEN NULL ELSE next[x]]
          /\ data' = [x \in Nodes |-> IF x \in freed THEN NULL ELSE data[x]]
    BY DEF Destroy, FreeAll
  <2>2. /\ heap' \in SUBSET Nodes /\ next' \in [Nodes -> NodeOrNULL]
        /\ data' \in [Nodes -> ValueOrNULL]
    BY <2>1 DEF Control, TypeOK, HeapTypeOK, NodeOrNULL, ValueOrNULL
  <2>3. freeHead' \in [Threads -> NodeOrNULL] /\ freeSize' \in [Threads -> Int]
    BY <1>1 DEF NodeOrNULL
  <2>4. ctr' \in [Threads -> 0 .. CtrMod - 1] /\ retired' \in [Threads -> Seq(Nodes)]
    BY <1>1, CtrAssumption
  <2> QED BY <1>1, <2>2, <2>3, <2>4 DEF Control, TypeOK, HeapTypeOK
<1>4. \A u \in Threads : ParityOf(u)' /\ ScopesOf(u)' /\ RetiredOf(u)'
  BY <1>2 DEF ParityOf, ScopesOf, RetiredOf, HasLast, HasFirst, HasNxt, EnqLoop,
     Waiting,
     InOp, Quiescent, IsOdd
<1>5. \A u \in Threads : ~InOp(u)' /\ ~Takes(u)' /\ \A x \in Nodes : ~Trash(u, x)'
  BY <1>2 DEF InOp, Takes, Trash, Quiescent, EnqLoop
<1>6. GhostTypeOK({}, F2, rank, start)'
  BY DEF GInv, GhostTypeOK
<1>7. Destroyed({}, F2)' /\ Disjoint({}, F2)' /\ TakenApart({}, F2)'
  BY <1>2, <1>5 DEF Destroyed, Disjoint, TakenApart
<1>8. FreeLists(F2, rank)' /\ Ends({}, rank)' /\ Linked({}, rank, start)'
  BY <1>1, <1>2 DEF FreeLists, Ends, Alive, Linked
<1>9. \A u \in Threads : TakenOf(u, {}, rank)' /\ PointersOf(u, {}, rank, start)'
  BY <1>2, <1>5 DEF TakenOf, PointersOf, EnqLoop
<1>10. Garbage({}, rank)' /\ Grace(rank, start)'
  BY <1>5 DEF Garbage, Grace
<1> QED BY <1>3, <1>4, <1>6, <1>7, <1>8, <1>9, <1>10 DEF Control, GInv

(* init_queue links one node, in whatever memory is free. *)
LEMMA InitQueueStep ==
  ASSUME Control, NEW L, NEW F, NEW rank, NEW start, GInv(L, F, rank, start), InitQueue,
         NEW dummy, dummy = head'
  PROVE  Control' /\ GInv({dummy}, F, rank, start)'
<1>1. /\ num_threads' = NumThreads /\ L = {}
      /\ \A u \in Threads : F[u] = {} /\ pc[u] = "idle"
      /\ freeHead' = [t \in Threads |-> NULL] /\ freeSize' = [t \in Threads |-> 0]
      /\ retired' = [t \in Threads |-> <<>>] /\ ctr' = [t \in Threads |-> 0]
      /\ UNCHANGED <<pc, node, first, last, nxt, val, scan, seen>>
  BY DEF InitQueue, InitHeap, GInv, Destroyed, localVars
<1>2. /\ dummy \in Nodes /\ head' = dummy /\ tail' = dummy /\ heap' = heap \cup {dummy}
      /\ data' = [data EXCEPT ![dummy] = NULL] /\ next' = [next EXCEPT ![dummy] = NULL]
  BY DEF InitQueue, InitHeap, MakeNode
<1>3. \A u \in Threads :
        /\ pc'[u] = "idle" /\ ctr'[u] = 0 /\ retired'[u] = <<>>
        /\ first'[u] = NULL /\ last'[u] = NULL /\ nxt'[u] = NULL /\ node'[u] = NULL
        /\ scan'[u] = 0
        /\ freeHead'[u] = NULL /\ freeSize'[u] = 0
  BY <1>1 DEF Control, ScopesOf, HasLast, HasFirst, HasNxt
<1>4. TypeOK'
  <2>1. /\ heap' \in SUBSET Nodes /\ next' \in [Nodes -> NodeOrNULL]
        /\ data' \in [Nodes -> ValueOrNULL]
    BY <1>2 DEF Control, TypeOK, HeapTypeOK, NodeOrNULL, ValueOrNULL
  <2>2. freeHead' \in [Threads -> NodeOrNULL] /\ freeSize' \in [Threads -> Int]
    BY <1>1 DEF NodeOrNULL
  <2>3. ctr' \in [Threads -> 0 .. CtrMod - 1] /\ retired' \in [Threads -> Seq(Nodes)]
    BY <1>1, CtrAssumption
  <2> QED BY <1>1, <1>2, <2>1, <2>2, <2>3 DEF Control, TypeOK, HeapTypeOK, NodeOrNULL
<1>5. \A u \in Threads : ParityOf(u)' /\ ScopesOf(u)' /\ RetiredOf(u)'
  BY <1>3 DEF ParityOf, ScopesOf, RetiredOf, HasLast, HasFirst, HasNxt, EnqLoop,
     Waiting,
     InOp, Quiescent, IsOdd
<1>6. \A u \in Threads : ~InOp(u)' /\ ~Takes(u)' /\ \A x \in Nodes : ~Trash(u, x)'
  BY <1>3 DEF InOp, Takes, Trash, Quiescent, EnqLoop
<1>7. GhostTypeOK({dummy}, F, rank, start)'
  BY <1>2 DEF GInv, GhostTypeOK
<1>8. Destroyed({dummy}, F)' /\ Disjoint({dummy}, F)' /\ TakenApart({dummy}, F)'
  BY <1>1, <1>2, <1>6, HeapAssumption DEF Destroyed, Disjoint, TakenApart
<1>9. FreeLists(F, rank)'
  BY <1>1, <1>3 DEF FreeLists
<1>10. Ends({dummy}, rank)' /\ Linked({dummy}, rank, start)'
  <2>1. rank[dummy] \in Int /\ next'[dummy] = NULL
    BY <1>2 DEF GInv, GhostTypeOK, Control, TypeOK, HeapTypeOK
  <2> QED BY <1>2, <2>1 DEF Ends, Alive, Linked
<1>11. \A u \in Threads : TakenOf(u, {dummy}, rank)' /\ PointersOf(u, {dummy}, rank, start)'
  BY <1>3, <1>6 DEF TakenOf, PointersOf, EnqLoop
<1>12. Garbage({dummy}, rank)' /\ Grace(rank, start)'
  BY <1>6 DEF Garbage, Grace
<1> QED BY <1>4, <1>5, <1>7, <1>8, <1>9, <1>10, <1>11, <1>12 DEF Control, GInv

(* init_queue establishes the invariant, with one node in the queue.        *)
LEMMA InitInvariant ==
  ASSUME Init
  PROVE  IInv
<1> DEFINE F == [t \in Threads |-> {}]
           rank == [x \in Nodes |-> 0]
           start == [t \in Threads |-> 0]
<1>1. /\ num_threads = NumThreads /\ head \in Nodes /\ tail = head /\ heap = {head}
      /\ next = [x \in Nodes |-> NULL] /\ data = [x \in Nodes |-> NULL]
      /\ freeHead = [t \in Threads |-> NULL] /\ freeSize = [t \in Threads |-> 0]
  BY DEF Init, HeapInit
<1>2. \A u \in Threads :
        /\ pc[u] = "idle" /\ ctr[u] = 0 /\ retired[u] = <<>>
        /\ first[u] = NULL /\ last[u] = NULL /\ nxt[u] = NULL /\ node[u] = NULL
        /\ scan[u] = 0
        /\ freeHead[u] = NULL /\ freeSize[u] = 0
  BY DEF Init, HeapInit
<1>3. TypeOK
  <2>1. HeapTypeOK
    BY <1>1 DEF HeapTypeOK, NodeOrNULL, ValueOrNULL
  <2>2. /\ ctr \in [Threads -> 0 .. CtrMod - 1] /\ retired \in [Threads -> Seq(Nodes)]
        /\ seen \in [Threads -> 0 .. CtrMod - 1]
    BY CtrAssumption DEF Init
  <2>3. pc \in [Threads -> Labels] /\ scan \in [Threads -> 0 .. NumThreads]
    BY HeapAssumption DEF Init, Labels, Quiescent
  <2>4. /\ node \in [Threads -> NodeOrNULL] /\ first \in [Threads -> NodeOrNULL]
        /\ last \in [Threads -> NodeOrNULL] /\ nxt \in [Threads -> NodeOrNULL]
        /\ val \in [Threads -> ValueOrNULL]
    BY DEF Init, NodeOrNULL, ValueOrNULL
  <2> QED BY <2>1, <2>2, <2>3, <2>4 DEF TypeOK
<1>4. \A u \in Threads : ParityOf(u) /\ ScopesOf(u) /\ RetiredOf(u)
  BY <1>2 DEF ParityOf, ScopesOf, RetiredOf, HasLast, HasFirst, HasNxt, EnqLoop,
     Waiting,
     InOp, Quiescent, IsOdd
<1>5. \A u \in Threads : ~InOp(u) /\ ~Takes(u) /\ \A x \in Nodes : ~Trash(u, x)
  BY <1>2 DEF InOp, Takes, Trash, Quiescent, EnqLoop
<1>6. GhostTypeOK({head}, F, rank, start)
  BY <1>1 DEF GhostTypeOK
<1>7. Destroyed({head}, F) /\ Disjoint({head}, F) /\ TakenApart({head}, F)
  BY <1>1, <1>5, HeapAssumption DEF Destroyed, Disjoint, TakenApart
<1>8. FreeLists(F, rank)
  BY <1>2 DEF FreeLists
<1>9. Ends({head}, rank) /\ Linked({head}, rank, start)
  BY <1>1 DEF Ends, Alive, Linked
<1>10. \A u \in Threads : TakenOf(u, {head}, rank) /\ PointersOf(u, {head}, rank, start)
  BY <1>2, <1>5 DEF TakenOf, PointersOf, EnqLoop
<1>11. Garbage({head}, rank) /\ Grace(rank, start)
  BY <1>5 DEF Garbage, Grace
<1>12. GInv({head}, F, rank, start)
  BY <1>6, <1>7, <1>8, <1>9, <1>10, <1>11 DEF GInv
<1>13. /\ {head} \in SUBSET Nodes /\ F \in [Threads -> SUBSET Nodes]
       /\ rank \in [Nodes -> Int] /\ start \in [Threads -> Int]
  BY <1>6 DEF GhostTypeOK
<1> HIDE DEF F, rank, start
<1> QED BY <1>3, <1>4, <1>12, <1>13 DEF IInv, Control

(* A stuttering step changes no part of the invariant.                      *)
LEMMA StutteringStep ==
  ASSUME Control, NEW L, NEW F, NEW rank, NEW start, GInv(L, F, rank, start),
         UNCHANGED vars
  PROVE  Control' /\ GInv(L, F, rank, start)'
<1>1. UNCHANGED heapVars /\ UNCHANGED <<ctr, retired, pc, localVars>>
  BY DEF vars
<1>2. \A u \in Threads : /\ InOp(u)' <=> InOp(u)
                         /\ Takes(u)' <=> Takes(u)
                         /\ \A x \in Nodes : Trash(u, x)' <=> Trash(u, x)
                         /\ \A v \in Threads : Passed(u, v)' <=> Passed(u, v)
  BY <1>1 DEF InOp, Takes, Trash, Passed, localVars
<1>3. TypeOK'
  BY <1>1 DEF Control, TypeOK, HeapTypeOK, heapVars, localVars
<1>4. \A u \in Threads : ParityOf(u)' /\ ScopesOf(u)' /\ RetiredOf(u)'
  BY <1>1, <1>2 DEF Control, ParityOf, ScopesOf, RetiredOf, localVars
<1>5. GhostTypeOK(L, F, rank, start)' /\ Destroyed(L, F)' /\ Disjoint(L, F)' /\ TakenApart(L, F)'
  BY <1>1, <1>2 DEF GInv, GhostTypeOK, Destroyed, Disjoint, TakenApart, heapVars,
     localVars
<1>6. FreeLists(F, rank)' /\ Ends(L, rank)'
  BY <1>1 DEF GInv, FreeLists, Ends, Alive, heapVars
<1>7. Linked(L, rank, start)'
  <2>1. \A x \in L : Covered(x, rank, start)' <=> Covered(x, rank, start)
    BY <1>1, <1>2 DEF Covered, heapVars
  <2> QED BY <1>1, <2>1 DEF GInv, Linked, heapVars
<1>8. \A u \in Threads : TakenOf(u, L, rank)' /\ PointersOf(u, L, rank, start)'
  BY <1>1, <1>2 DEF GInv, TakenOf, PointersOf, heapVars, localVars
<1>9. Garbage(L, rank)' /\ Grace(rank, start)'
  BY <1>1, <1>2 DEF GInv, Garbage, Grace, heapVars
<1> QED BY <1>3, <1>4, <1>5, <1>6, <1>7, <1>8, <1>9 DEF Control, GInv

-----------------------------------------------------------------------------
(* The bound variables of the invariant, in the next state.                 *)
LEMMA Witness ==
  ASSUME Control', NEW L, NEW F, NEW rank, NEW start, GInv(L, F, rank, start)'
  PROVE  IInv'
  BY DEF IInv, GInv, GhostTypeOK

(* Every step of the program preserves the invariant.                       *)
LEMMA InductiveStep ==
  ASSUME IInv, [Next]_vars
  PROVE  IInv'
<1>1. PICK L \in SUBSET Nodes, F \in [Threads -> SUBSET Nodes],
           rank \in [Nodes -> Int], start \in [Threads -> Int] : GInv(L, F, rank, start)
  BY DEF IInv
<1>2. Control
  BY DEF IInv
<1>3. ASSUME NEW t \in Threads, Begin(t)
      PROVE  IInv'
  <2>1. PICK start2 : start2 = [start EXCEPT ![t] = rank[head]]
    OBVIOUS
  <2>2. Control' /\ GInv(L, F, rank, start2)'
    BY <1>1, <1>2, <1>3, <2>1, BeginStep
  <2> QED BY <2>2, Witness
<1>4. ASSUME NEW t \in Threads, EnqStep(t)
      PROVE  IInv'
  <2>1. CASE EnqUpcycle(t)
    <3>1. PICK F2 : F2 = [F EXCEPT ![t] = @ \ {freeHead[t]}]
      OBVIOUS
    <3>2. Control' /\ GInv(L, F2, rank, start)'
      BY <1>1, <1>2, <2>1, <3>1, UpcycleStep
    <3> QED BY <3>2, Witness
  <2>2. CASE LinkSucceeds(t)
    <3>1. PICK L2 : L2 = L \cup {node[t]}
      OBVIOUS
    <3>2. PICK rank2 : rank2 = [rank EXCEPT ![node[t]] = rank[last[t]] + 1]
      OBVIOUS
    <3>3. Control' /\ GInv(L2, F, rank2, start)'
      BY <1>1, <1>2, <2>2, <3>1, <3>2, LinkStep
    <3> QED BY <3>3, Witness
  <2>3. CASE EnqFill(t)
    BY <1>1, <1>2, <2>3, FillStep, Witness
  <2>4. CASE EnqReadTail(t)
    BY <1>1, <1>2, <2>4, EnqReadTailStep, Witness
  <2>5. CASE EnqReadNext(t)
    BY <1>1, <1>2, <2>5, EnqReadNextStep, Witness
  <2>6. CASE EnqValid(t)
    BY <1>1, <1>2, <2>6, EnqValidStep, Witness
  <2>7. CASE EnqStale(t) \/ LinkFails(t)
    BY <1>1, <1>2, <2>7, DropActions, Witness
  <2>8. CASE EnqSwing(t) \/ EnqHelp(t)
    BY <1>1, <1>2, <2>8, SwingStep, Witness
  <2> QED
    BY <1>4, <2>1, <2>2, <2>3, <2>4, <2>5, <2>6, <2>7, <2>8 DEF EnqStep, EnqCheck,
       EnqLink
<1>5. ASSUME NEW t \in Threads, DeqStep(t)
      PROVE  IInv'
  <2>1. CASE DeqReadHead(t)
    BY <1>1, <1>2, <2>1, DeqReadHeadStep, Witness
  <2>2. CASE DeqReadTail(t)
    BY <1>1, <1>2, <2>2, DeqReadTailStep, Witness
  <2>3. CASE DeqReadNext(t)
    BY <1>1, <1>2, <2>3, DeqReadNextStep, Witness
  <2>4. CASE DeqValid(t)
    BY <1>1, <1>2, <2>4, DeqValidStep, Witness
  <2>5. CASE DeqStale(t) \/ DeqFindsEmpty(t) \/ RemoveFails(t)
    BY <1>1, <1>2, <2>5, DropActions, Witness
  <2>6. CASE DeqHelp(t)
    BY <1>1, <1>2, <2>6, SwingStep, Witness
  <2>7. CASE DeqReadValue(t)
    BY <1>1, <1>2, <2>7, DeqReadValueStep, Witness
  <2>8. CASE RemoveSucceeds(t)
    BY <1>1, <1>2, <2>8, RemoveStep, Witness
  <2>9. CASE Retire(t)
    BY <1>1, <1>2, <2>9, RetireStep, Witness
  <2> QED
    BY <1>5, <2>1, <2>2, <2>3, <2>4, <2>5, <2>6, <2>7, <2>8, <2>9
    DEF DeqStep, DeqCheck, DeqRemove
<1>6. ASSUME NEW t \in Threads, EndStep(t)
      PROVE  IInv'
  <2>1. CASE OpEndReturn(t) \/ OpEndWait(t)
    BY <1>1, <1>2, <2>1, OpEndStep, Witness
  <2>2. CASE ScanSkip(t)
    BY <1>1, <1>2, <2>2, ScanSkipStep, Witness
  <2>3. CASE ScanBusy(t)
    BY <1>1, <1>2, <2>3, ScanBusyStep, Witness
  <2>4. CASE ScanDone(t)
    BY <1>1, <1>2, <2>4, ScanDoneStep, Witness
  <2>5. CASE Spin(t)
    BY <1>1, <1>2, <2>5, SpinStep, Witness
  <2>6. CASE Reclaim(t)
    <3>1. PICK x \in Nodes : retired[t] = <<x>>
      BY <1>2, <2>6 DEF Control, RetiredOf, Waiting, Reclaim
    <3>2. PICK L2 : L2 = L \ {x}
      OBVIOUS
    <3>3. PICK F2 : F2 = [F EXCEPT ![t] = @ \cup {x}]
      OBVIOUS
    <3>4. PICK rank2 : rank2 = [rank EXCEPT ![x] = freeSize[t] + 1]
      OBVIOUS
    <3>5. Control' /\ GInv(L2, F2, rank2, start)'
      BY <1>1, <1>2, <2>6, <3>1, <3>2, <3>3, <3>4, ReclaimStep
    <3> QED BY <3>5, Witness
  <2> QED
    BY <1>6, <2>1, <2>2, <2>3, <2>4, <2>5, <2>6 DEF EndStep, OpEnd
<1>7. CASE Destroy
  <2>1. PICK F2 : F2 = [t \in Threads |-> {}]
    OBVIOUS
  <2>2. Control' /\ GInv({}, F2, rank, start)'
    BY <1>1, <1>2, <1>7, <2>1, DestroyStep
  <2> QED BY <2>2, Witness
<1>8. CASE InitQueue
  <2>1. PICK dummy : dummy = head'
    OBVIOUS
  <2>2. Control' /\ GInv({dummy}, F, rank, start)'
    BY <1>1, <1>2, <1>8, <2>1, InitQueueStep
  <2> QED BY <2>2, Witness
<1>9. CASE UNCHANGED vars
  BY <1>1, <1>2, <1>9, StutteringStep, Witness
<1> QED
  BY <1>3, <1>4, <1>5, <1>6, <1>7, <1>8, <1>9 DEF Next, Step

(* The inductive invariant: whatever the threads do, the queue, the free    *)
(* lists and the nodes in flight stay apart, and a node is waited for until *)
(* no thread can follow a pointer to it.                                    *)
THEOREM Invariance == Spec => []IInv
<1>1. Init => IInv
  BY InitInvariant
<1>2. IInv /\ [Next]_vars => IInv'
  BY InductiveStep
<1> QED BY <1>1, <1>2, PTL DEF Spec

(* Every variable keeps its type: a pointer is a node or NULL and a counter *)
(* stays below the modulus at which it wraps.                               *)
THEOREM TypeCorrect == Spec => []TypeOK
<1>1. IInv => TypeOK
  BY DEF IInv, Control
<1> QED BY <1>1, Invariance, PTL

(* What Grace says of ranks, said of the pointers themselves.               *)
LEMMA SafeReclaimFollows ==
  ASSUME IInv
  PROVE  SafeReclaim
<1>1. PICK L \in SUBSET Nodes, F \in [Threads -> SUBSET Nodes],
           rank \in [Nodes -> Int], start \in [Threads -> Int] : GInv(L, F, rank, start)
  BY DEF IInv
<1>2. SUFFICES ASSUME NEW t \in Threads, pc[t] = "reclaim",
                      NEW u \in Threads \ {t}, InOp(u)
               PROVE  Members(retired[t]) \cap {first[u], last[u], nxt[u], node[u]} = {}
  BY DEF SafeReclaim
<1>3. PICK x \in Nodes : retired[t] = <<x>>
  BY <1>2 DEF IInv, Control, RetiredOf, Waiting
<1>4. Members(retired[t]) = {x}
  BY <1>3 DEF Members
<1>5. rank[x] < start[u] /\ x \in L
  BY <1>1, <1>2, <1>3 DEF GInv, Grace, Passed, Garbage, Trash
<1>6. rank[x] \in Int /\ start[u] \in Int /\ x # NULL
  BY HeapAssumption
<1>7. x # first[u] /\ x # last[u] /\ x # nxt[u]
  BY <1>1, <1>5, <1>6 DEF GInv, PointersOf
<1>8. x # node[u]
  <2>1. CASE Takes(u)
    BY <2>1, <1>1, <1>5 DEF GInv, TakenApart
  <2>2. CASE ~Takes(u)
    BY <2>2, <1>1, <1>2, <1>5, <1>6 DEF GInv, PointersOf
  <2> QED BY <2>1, <2>2
<1> QED BY <1>4, <1>7, <1>8

(* mm_op_end waits long enough: for any number of threads, and although the *)
(* counters wrap, a node is recycled only when no other thread inside an    *)
(* operation has a pointer to it.                                           *)
THEOREM ReclamationSafe == Spec => []SafeReclaim
BY Invariance, SafeReclaimFollows, PTL

(* No deq reads the data of a node while an enq writes it.                  *)
THEOREM NoDataRace == Spec => []DataRaceFree
<1>1. ASSUME IInv
      PROVE  DataRaceFree
  <2>1. PICK L \in SUBSET Nodes, F \in [Threads -> SUBSET Nodes],
             rank \in [Nodes -> Int], start \in [Threads -> Int] : GInv(L, F, rank, start)
    BY <1>1 DEF IInv
  <2>2. \A t \in Threads : pc[t] = "fill" => node[t] \notin L
    BY <2>1 DEF GInv, TakenApart, Takes
  <2>3. \A u \in Threads : pc[u] = "d_val" => nxt[u] \in L
    BY <1>1, <2>1 DEF GInv, PointersOf, IInv, Control, ScopesOf, HasNxt
  <2> QED BY <2>2, <2>3 DEF DataRaceFree
<1> QED BY <1>1, Invariance, PTL

(* There is no circle of waiting threads: who busy-waits in mm_op_end waits *)
(* for a thread that is inside an operation.                                *)
THEOREM WaitingIsAcyclic == Spec => []WaitsForWorker
<1>1. ASSUME IInv
      PROVE  WaitsForWorker
  <2>1. SUFFICES ASSUME NEW t \in Threads, pc[t] = "spin", ctr[scan[t]] = seen[t]
                 PROVE  InOp(scan[t])
    BY DEF WaitsForWorker
  <2>2. scan[t] \in Threads /\ IsOdd(ctr[scan[t]])
    <3>1. TypeOK /\ ScopesOf(t)
      BY <1>1 DEF IInv, Control
    <3>2. scan[t] \in 0 .. NumThreads /\ scan[t] < NumThreads /\ IsOdd(seen[t])
      BY <2>1, <3>1 DEF ScopesOf, TypeOK
    <3> QED BY <2>1, <3>2, HeapAssumption DEF Threads
  <2> QED BY <1>1, <2>2 DEF IInv, Control, ParityOf
<1> QED BY <1>1, Invariance, PTL

(* The successor of a node in use at or behind head is the one whose rank   *)
(* comes next.                                                              *)
LEMMA NextByRank ==
  ASSUME Control, NEW L, NEW F, NEW rank, NEW start, GInv(L, F, rank, start),
         NEW x \in L, NEW y \in L, rank[head] <= rank[x], rank[y] = rank[x] + 1
  PROVE  next[x] = y
<1>1. rank[x] \in Int
  BY DEF GInv, GhostTypeOK
<1>2. next[x] # NULL /\ next[x] \in L /\ rank[next[x]] = rank[x] + 1
  BY <1>1 DEF GInv, Linked, Covered
<1> QED BY <1>2 DEF GInv, Linked

(* The steps that move head or tail, and where they move it.                *)
LEMMA EndsMoveFollows ==
  ASSUME IInv, Next, num_threads # 0
  PROVE  /\ head' # head => head' = next[head] /\ head # tail
         /\ tail' # tail => tail' = next[tail]
<1>1. PICK L \in SUBSET Nodes, F \in [Threads -> SUBSET Nodes],
           rank \in [Nodes -> Int], start \in [Threads -> Int] : GInv(L, F, rank, start)
  BY DEF IInv
<1>2. Control /\ head \in L /\ tail \in L /\ rank[head] <= rank[tail]
  BY <1>1 DEF IInv, GInv, Ends, Alive
<1>3. ASSUME NEW t \in Threads, RemoveSucceeds(t)
      PROVE  head' = next[head] /\ head # tail /\ tail' = tail
  <2>1. head = first[t] /\ head' = nxt[t] /\ tail' = tail /\ pc[t] = "d_cas"
    BY <1>3 DEF RemoveSucceeds, CASResults, GoTo
  <2>2. /\ first[t] # NULL /\ last[t] # NULL /\ nxt[t] # NULL /\ first[t] # last[t]
        /\ nxt[t] \in L /\ last[t] \in L /\ rank[nxt[t]] = rank[head] + 1
        /\ rank[head] <= rank[last[t]] /\ rank[last[t]] <= rank[tail]
    BY <1>1, <1>2, <2>1 DEF GInv, PointersOf, Control, ScopesOf, HasFirst, HasLast,
       HasNxt
  <2>3. rank[head] \in Int /\ rank[last[t]] \in Int /\ rank[tail] \in Int
    BY <1>2, <2>2
  <2>4. rank[last[t]] # rank[head]
    BY <1>1, <1>2, <2>1, <2>2 DEF GInv, Linked
  <2>5. head # tail
    BY <2>2, <2>3, <2>4
  <2>6. next[head] = nxt[t]
    BY <1>1, <1>2, <2>2, <2>3, NextByRank
  <2> QED BY <2>1, <2>5, <2>6
<1>4. ASSUME NEW t \in Threads, EnqSwing(t) \/ EnqHelp(t) \/ DeqHelp(t)
      PROVE  head' = head /\ (tail' # tail => tail' = next[tail])
  <2>1. PICK new \in L : /\ tail' = tail \/ (tail = last[t] /\ tail' = new)
                         /\ rank[new] = rank[last[t]] + 1 /\ head' = head
    <3>1. CASE EnqSwing(t)
      <4>1. pc[t] = "e_swing" /\ head' = head
            /\ (tail' = tail \/ (tail = last[t] /\ tail' = node[t]))
        BY <3>1 DEF EnqSwing, SwingTail, CASResults, GoTo
      <4>2. node[t] \in L /\ rank[node[t]] = rank[last[t]] + 1
        BY <1>1, <4>1 DEF GInv, TakenOf
      <4> QED BY <4>1, <4>2
    <3>2. CASE EnqHelp(t) \/ DeqHelp(t)
      <4>1. pc[t] \in {"e_help", "d_help"} /\ head' = head
            /\ (tail' = tail \/ (tail = last[t] /\ tail' = nxt[t]))
        BY <3>2 DEF EnqHelp, DeqHelp, SwingTail, CASResults, GoTo
      <4>2. nxt[t] \in L /\ rank[nxt[t]] = rank[last[t]] + 1
        BY <1>1, <1>2, <4>1 DEF GInv, PointersOf, Control, ScopesOf, HasFirst, HasNxt
      <4> QED BY <4>1, <4>2
    <3> QED BY <1>4, <3>1, <3>2
  <2>2. tail' # tail => tail' = next[tail]
    BY <1>1, <1>2, <2>1, NextByRank
  <2> QED BY <2>1, <2>2
<1>5. ASSUME NEW t \in Threads, Begin(t) \/ EndStep(t)
      PROVE  UNCHANGED <<head, tail>>
  BY <1>5 DEF Begin, BeginEnq, BeginDeq, BeginOp, EndStep, OpEnd, OpEndReturn,
     OpEndWait,
     ScanSkip, ScanBusy, ScanDone, Spin, Reclaim, heapVars
<1>6. ASSUME NEW t \in Threads, EnqStep(t)
      PROVE  EnqSwing(t) \/ EnqHelp(t) \/ UNCHANGED <<head, tail>>
  BY <1>6 DEF EnqStep, EnqUpcycle, EnqFill, EnqReadTail, EnqReadNext, EnqCheck,
     EnqValid,
     EnqStale, EnqLink, LinkSucceeds, LinkFails, heapVars
<1>7. ASSUME NEW t \in Threads, DeqStep(t)
      PROVE  RemoveSucceeds(t) \/ DeqHelp(t) \/ UNCHANGED <<head, tail>>
  BY <1>7 DEF DeqStep, DeqReadHead, DeqReadTail, DeqReadNext, DeqCheck, DeqStale,
     DeqFindsEmpty, DeqValid, DeqReadValue, DeqRemove, RemoveFails, Retire, heapVars
<1>8. CASE Destroy
  BY <1>8 DEF Destroy, FreeAll
<1>9. ~InitQueue
  BY DEF InitQueue, InitHeap
<1> QED BY <1>3, <1>4, <1>5, <1>6, <1>7, <1>8, <1>9 DEF Next, Step

(* The ABA problem does not occur: a CAS on head or tail that succeeds      *)
(* moves it to the successor of the node it points to, and head does not    *)
(* move past tail.                                                          *)
THEOREM NoABA == Spec => EndsMove
<1>1. IInv /\ [Next]_vars =>
        [num_threads # 0 /\ num_threads' # 0 =>
           /\ head' # head => head' = next[head] /\ head # tail
           /\ tail' # tail => tail' = next[tail]]_vars
  BY EndsMoveFollows
<1> QED BY <1>1, Invariance, PTL DEF Spec, EndsMove

-----------------------------------------------------------------------------
(***************************************************************************)
(* The second layer, SInv: every allocated node is accounted for, tail is  *)
(* not far behind, and the queue is linearizable.                          *)
(***************************************************************************)

(* The nodes from head on form a list, whose nodes are known by their rank. *)
LEMMA CurrentList ==
  ASSUME Control, NEW L, NEW F, NEW rank, NEW start, GInv(L, F, rank, start), Alive
  PROVE  IsList(Current(L, rank), head, next) /\ NULL \notin Current(L, rank)
<1>1. /\ L \subseteq Nodes /\ head \in L /\ rank[head] \in Int
      /\ \A x \in L : rank[x] \in Int
  BY DEF GInv, GhostTypeOK, Ends
<1>2. \A x, y \in L : rank[x] = rank[y] => x = y
  BY DEF GInv, Linked
<1>3. \A x \in Current(L, rank) :
        /\ next[x] = NULL => \A y \in L : rank[y] <= rank[x]
        /\ next[x] # NULL => next[x] \in L /\ rank[next[x]] = rank[x] + 1
  BY DEF GInv, Linked, Covered, Current
<1>4. \A x \in Current(L, rank) :
        /\ x \in L /\ rank[x] \in Int /\ rank[head] <= rank[x]
        /\ next[x] \in Current(L, rank) \cup {NULL}
        /\ next[x] # head
  BY <1>1, <1>3, HeapAssumption DEF Current
<1>5. \A x, y \in Current(L, rank) : next[x] = next[y] => x = y
  <2> SUFFICES ASSUME NEW x \in Current(L, rank), NEW y \in Current(L, rank), next[x] = next[y]
               PROVE  x = y
    OBVIOUS
  <2>1. rank[x] = rank[y]
    BY <1>3, <1>4
  <2> QED BY <1>2, <1>4, <2>1
<1>6. head \in Current(L, rank)
  BY <1>1 DEF Current
<1> QED BY <1>1, <1>4, <1>5, <1>6, HeapAssumption DEF IsList, Current

(* The nodes of an empty and of a one-element list of retired nodes. *)
LEMMA MembersOf ==
  /\ Members(<<>>) = {}
  /\ \A x : Members(<<x>>) = {x}
  BY DEF Members

(* What a thread has unlinked is behind head, what it has taken is not      *)
(* linked at all, and no other thread owns it.                              *)
LEMMA OwnedApart ==
  ASSUME Control, NEW L, NEW F, NEW rank, NEW start, GInv(L, F, rank, start)
  PROVE  \A t, u \in Threads : /\ Held(t) \cap Unlinked(u) = {}
                               /\ t # u => Owned(t) \cap Owned(u) = {}
<1>1. \A t \in Threads : Takes(t) => Held(t) = {node[t]} /\ node[t] \notin L
  BY DEF Held, Takes, GInv, TakenApart
<1>2. \A t \in Threads : ~Takes(t) => Held(t) = {}
  BY DEF Held, Takes
<1>3. \A t, u \in Threads : t # u => Held(t) \cap Held(u) = {}
  BY <1>1, <1>2 DEF GInv, TakenApart
<1>4. \A t \in Threads : \A x \in Unlinked(t) : x \in Nodes /\ Trash(t, x)
  <2> TAKE t \in Threads
  <2>1. CASE retired[t] = <<>>
    <3>1. pc[t] = "retire" => first[t] \in Nodes
      BY DEF Control, TypeOK, NodeOrNULL, ScopesOf, HasFirst
    <3> QED BY <2>1, <3>1, MembersOf DEF Unlinked, Trash
  <2>2. CASE retired[t] # <<>>
    <3>1. PICK x \in Nodes : retired[t] = <<x>>
      BY <2>2 DEF Control, RetiredOf
    <3>2. pc[t] # "retire"
      BY <2>2 DEF Control, RetiredOf, Waiting
    <3> QED BY <3>1, <3>2, MembersOf DEF Unlinked, Trash
  <2> QED BY <2>1, <2>2
<1>5. \A t, u \in Threads : t # u => Unlinked(t) \cap Unlinked(u) = {}
  BY <1>4 DEF GInv, Garbage
<1>6. \A t \in Threads : Unlinked(t) \subseteq L
  BY <1>4 DEF GInv, Garbage
<1>7. \A t, u \in Threads : Held(t) \cap Unlinked(u) = {}
  BY <1>1, <1>2, <1>6
<1> QED BY <1>3, <1>5, <1>7 DEF Owned

(* The abstract queue and the abstract calls, of Linearizable. *)
AbsQueue == IF num_threads = 0 THEN <<>> ELSE Contents
AbsCalls == [t \in Threads |-> AbsCall(t)]

(* What a step of t leaves alone, the values included. *)
OthersKeep(t) == OthersSame(t) /\ \A u \in Threads \ {t} : val'[u] = val[u]

(* A step of t moves the abstract call of t only. *)
LEMMA CallsNext ==
  ASSUME NEW t \in Threads, OthersKeep(t)
  PROVE  AbsCalls' = [AbsCalls EXCEPT ![t] = AbsCall(t)']
<1>1. \A u \in Threads \ {t} : AbsCall(u)' = AbsCall(u)
  BY DEF AbsCall, EnqCalled, TakenEffect, OthersKeep, OthersSame
<1> QED BY <1>1 DEF AbsCalls

(* A step of t after which the lists are the paths q and G.                 *)
LEMMA ShapeStep ==
  ASSUME NEW t \in Threads, OthersKeep(t),
         NEW q, NEW G, Paths(q, G)', heap' \ Listed(q, G) = AllOwned',
         ValuesOf(q, data') \in Seq(Values), ValueOf(t)',
         \A u \in Threads \ {t} : ValueOf(u)', TailAwaited'
  PROVE  /\ SInv'
         /\ AbsQueue' = ValuesOf(q, data')
         /\ AbsCalls' = [AbsCalls EXCEPT ![t] = AbsCall(t)']
<1>1. PICK held : held = AllOwned'
  OBVIOUS
<1>2. Shape(held)' /\ AbsQueue' = ValuesOf(q, data')
  BY <1>1, ShapeNext DEF AbsQueue
<1>3. Shape(AllOwned)'
  BY <1>1, <1>2 DEF Shape
<1>4. AbsCalls' = [AbsCalls EXCEPT ![t] = AbsCall(t)']
  BY CallsNext
<1> QED BY <1>2, <1>3, <1>4 DEF SInv

(* The nodes owned after a step of t. *)
LEMMA OwnedNext ==
  ASSUME NEW t \in Threads, OthersKeep(t)
  PROVE  \E rest : /\ AllOwned = Owned(t) \cup rest
                   /\ AllOwned' = Owned(t)' \cup rest
                   /\ rest = UNION {Owned(u) : u \in Threads \ {t}}
<1>1. \A u \in Threads \ {t} : Owned(u)' = Owned(u)
  BY DEF Owned, Held, Unlinked, OthersKeep, OthersSame
<1>2. PICK rest : rest = UNION {Owned(u) : u \in Threads \ {t}}
  OBVIOUS
<1>3. AllOwned = Owned(t) \cup rest
  BY <1>2 DEF AllOwned
<1>4. AllOwned' = Owned(t)' \cup rest
  BY <1>1, <1>2 DEF AllOwned
<1> QED BY <1>2, <1>3, <1>4

(* The paths of a state of the invariant. *)
LEMMA Unfold ==
  ASSUME SInv
  PROVE  \E q \in Seq(Nodes), G \in [Threads -> Seq(Nodes)] :
           /\ Paths(q, G)
           /\ heap \ Listed(q, G) = AllOwned
           /\ ValuesOf(q, data) \in Seq(Values)
           /\ AbsQueue = ValuesOf(q, data)
<1>1. PICK held : held = AllOwned
  OBVIOUS
<1>2. Shape(held)
  BY <1>1 DEF SInv
<1> QED BY <1>1, <1>2, ShapeDef DEF AbsQueue

(* A step that leaves the lists and what t owns as they are.                *)
LEMMA UnchangedStep ==
  ASSUME SInv, NEW t \in Threads, OthersKeep(t),
         UNCHANGED <<num_threads, head, next, data, heap, freeHead, freeSize>>,
         Owned(t)' = Owned(t), ValueOf(t)', TailAwaited'
  PROVE  /\ SInv'
         /\ AbsQueue' = AbsQueue
         /\ AbsCalls' = [AbsCalls EXCEPT ![t] = AbsCall(t)']
<1>1. PICK q, G : /\ Paths(q, G)
                  /\ heap \ Listed(q, G) = AllOwned
                  /\ ValuesOf(q, data) \in Seq(Values)
                  /\ AbsQueue = ValuesOf(q, data)
  BY Unfold
<1>2. Paths(q, G)'
  BY <1>1 DEF Paths
<1>3. AllOwned' = AllOwned
  BY OwnedNext
<1>4. \A u \in Threads \ {t} : ValueOf(u)'
  BY DEF OthersKeep, OthersSame, SInv, ValueOf
<1> QED BY <1>1, <1>2, <1>3, <1>4, ShapeStep

(* A tail that is not moved is still awaited. *)
LEMMA StillAwaited ==
  ASSUME SInv, NEW t \in Threads, OthersKeep(t), num_threads' = num_threads,
         tail' = tail, Alive => next'[tail] = next[tail], pc[t] # "e_swing"
  PROVE  TailAwaited'
  BY DEF SInv, TailAwaited, Alive, OthersKeep, OthersSame

(* A step that touches local variables only. *)
LEMMA LocalOnly ==
  ASSUME SInv, NEW t \in Threads, OthersKeep(t), UNCHANGED heapVars,
         pc[t] # "e_swing", Owned(t)' = Owned(t), ValueOf(t)'
  PROVE  /\ SInv'
         /\ AbsQueue' = AbsQueue
         /\ AbsCalls' = [AbsCalls EXCEPT ![t] = AbsCall(t)']
<1>1. TailAwaited'
  BY StillAwaited DEF heapVars
<1> QED BY <1>1, UnchangedStep DEF heapVars

(* Nobody else carries a value that depends on the data that t changes.     *)
LEMMA ValuesOfOthers ==
  ASSUME Control, NEW L, NEW F, NEW rank, NEW start, GInv(L, F, rank, start), SInv,
         NEW t \in Threads, OthersKeep(t), \A x \in L : data'[x] = data[x],
         \A u \in Threads \ {t} : Takes(u) => data'[node[u]] = data[node[u]]
  PROVE  \A u \in Threads \ {t} : ValueOf(u)'
<1> TAKE u \in Threads \ {t}
<1>1. /\ pc'[u] = pc[u] /\ node'[u] = node[u] /\ nxt'[u] = nxt[u] /\ val'[u] = val[u]
      /\ retired'[u] = retired[u]
  BY DEF OthersKeep, OthersSame
<1>2. pc[u] = "d_cas" => nxt[u] \in L
  BY DEF GInv, PointersOf, Control, ScopesOf, HasNxt
<1>3. pc[u] \in EnqLoop => data'[node[u]] = data[node[u]]
  BY DEF Takes
<1> QED BY <1>1, <1>2, <1>3 DEF SInv, ValueOf

-----------------------------------------------------------------------------
(* Which abstract step each step is. *)
Quiet == UNCHANGED <<AbsQueue, AbsCalls>>

(* The abstract actions in these terms. *)
LEMMA AbsActions ==
  /\ Quiet => UNCHANGED Abs!avars
  /\ \A t \in Threads : \A v \in Values :
       /\ AbsQueue' = AbsQueue /\ AbsCalls[t] = Abs!Idle
            /\ AbsCalls' = [AbsCalls EXCEPT ![t] = Abs!Enq(v)] => Abs!AbsNext
       /\ AbsQueue' = Append(AbsQueue, v) /\ AbsCalls[t] = Abs!Enq(v)
            /\ AbsCalls' = [AbsCalls EXCEPT ![t] = Abs!EnqDone] => Abs!AbsNext
       /\ AbsQueue' = AbsQueue /\ AbsCalls[t] = Abs!DeqDone(v)
            /\ AbsCalls' = [AbsCalls EXCEPT ![t] = Abs!Idle] => Abs!AbsNext
       /\ AbsQueue # <<>> /\ AbsQueue' = Tail(AbsQueue) /\ v = Head(AbsQueue)
            /\ AbsCalls[t] = Abs!Deq
            /\ AbsCalls' = [AbsCalls EXCEPT ![t] = Abs!DeqDone(v)] => Abs!AbsNext
  /\ \A t \in Threads :
       /\ AbsQueue' = AbsQueue /\ AbsCalls[t] = Abs!Idle
            /\ AbsCalls' = [AbsCalls EXCEPT ![t] = Abs!Deq] => Abs!AbsNext
       /\ AbsQueue' = AbsQueue /\ AbsCalls[t] = Abs!EnqDone
            /\ AbsCalls' = [AbsCalls EXCEPT ![t] = Abs!Idle] => Abs!AbsNext
       /\ AbsQueue' = AbsQueue /\ AbsCalls[t] = Abs!DeqEmpty
            /\ AbsCalls' = [AbsCalls EXCEPT ![t] = Abs!Idle] => Abs!AbsNext
       /\ AbsQueue' = AbsQueue /\ AbsCalls[t] = Abs!DeqEmpty
            /\ AbsCalls' = [AbsCalls EXCEPT ![t] = Abs!Deq] => Abs!AbsNext
       /\ AbsQueue = <<>> /\ AbsQueue' = AbsQueue /\ AbsCalls[t] = Abs!Deq
            /\ AbsCalls' = [AbsCalls EXCEPT ![t] = Abs!DeqEmpty] => Abs!AbsNext
  /\ (\A t \in Threads : AbsCalls[t] = Abs!Idle) /\ AbsQueue' = <<>> /\ AbsCalls' = AbsCalls
       => Abs!AbsNext
<1>1. /\ Abs!Deq # Abs!Idle /\ Abs!EnqDone # Abs!Idle /\ Abs!DeqEmpty # Abs!Idle
      /\ Abs!DeqEmpty # Abs!Deq
      /\ \A v \in Values : /\ Abs!Enq(v) # Abs!Idle /\ Abs!Enq(v) # Abs!EnqDone
                            /\ Abs!DeqDone(v) # Abs!Idle /\ Abs!DeqDone(v) # Abs!Deq
  BY DEF Abs!Idle, Abs!Enq, Abs!EnqDone, Abs!Deq, Abs!DeqEmpty, Abs!DeqDone
<1>2. \A t \in Threads : \A b, c :
        AbsCalls[t] = b /\ AbsCalls' = [AbsCalls EXCEPT ![t] = c] /\ c # b
          => AbsCalls'[t] # AbsCalls[t]
  BY DEF AbsCalls
<1>3. \A t \in Threads : \A b, c :
        AbsCalls[t] = b /\ AbsCalls' = [AbsCalls EXCEPT ![t] = c] => Abs!Move(t, b, c)
  BY Zenon DEF Abs!Move, AbsCalls
<1> QED
  BY <1>1, <1>2, <1>3, ZenonT(60)
  DEF Quiet, AbsQueue, AbsCalls, Abs!avars, Abs!AbsNext, Abs!CallEnq,
      Abs!TakeEnq, Abs!ReturnDeq, Abs!TakeDeq, Abs!CallDeq, Abs!ReturnEnq, Abs!SeeEmpty,
      Abs!LookAgain, Abs!Discard

(* A step is simulated if the invariant holds after it and the abstract     *)
(* queue makes a step of its own or none.                                   *)
Simulated == SInv' /\ (Abs!AbsNext \/ UNCHANGED Abs!avars)

(* It makes none if no abstract call goes on. *)
LEMMA Silent ==
  ASSUME SInv', AbsQueue' = AbsQueue, NEW t \in Threads,
         AbsCalls' = [AbsCalls EXCEPT ![t] = AbsCall(t)'], AbsCall(t)' = AbsCall(t)
  PROVE  Simulated
<1>1. AbsCalls' = AbsCalls
  BY DEF AbsCalls
<1> QED BY <1>1, AbsActions DEF Simulated, Quiet

(* The queue is empty when nothing is behind the dummy node. *)
LEMMA EmptyQueue ==
  ASSUME SInv, num_threads # 0, next[head] = NULL
  PROVE  AbsQueue = <<>>
<1>1. PICK q, G : Paths(q, G) /\ AbsQueue = ValuesOf(q, data)
  BY Unfold
<1>2. IsPath(q, head, next) /\ q # <<>>
  BY <1>1 DEF Paths
<1>3. PICK n \in Nat : n = Len(q) /\ n # 0
  BY <1>2, PathNodes
<1>4. next[q[1]] = IF 1 = n THEN NULL ELSE q[1 + 1]
  BY <1>2, <1>3 DEF IsPath
<1>5. n # 1 => q[1 + 1] \in Nodes
  BY <1>2, <1>3 DEF IsPath
<1>6. n = 1
  BY <1>2, <1>4, <1>5, PathNodes, HeapAssumption
<1>7. Len(q) \in {0, 1}
  BY <1>3, <1>6
<1> QED BY <1>1, <1>7, ValuesOfNone

-----------------------------------------------------------------------------
(* A call begins. *)
LEMMA BeginSim ==
  ASSUME Control, SInv, NEW t \in Threads, Begin(t)
  PROVE  Simulated
<1>1. OthersKeep(t)
  BY DEF OthersKeep, OthersSame, Control, TypeOK, Begin, BeginEnq, BeginDeq, BeginOp, GoTo
<1>2. UNCHANGED heapVars /\ pc[t] = "idle"
  BY DEF Begin, BeginEnq, BeginDeq, BeginOp, GoTo
<1>3. Owned(t)' = Owned(t)
  BY DEF Owned, Held, Unlinked, Control, TypeOK, Begin, BeginEnq, BeginDeq, BeginOp, GoTo,
         EnqLoop
<1>4. retired[t] = <<>> /\ node[t] = NULL
  BY <1>2 DEF Control, RetiredOf, ScopesOf, Waiting
<1>5. ValueOf(t)'
  BY <1>4
  DEF SInv, ValueOf, Control, TypeOK, Begin, BeginEnq, BeginDeq, BeginOp, GoTo, EnqLoop, DeqLoop
<1>6. /\ SInv' /\ AbsQueue' = AbsQueue
      /\ AbsCalls' = [AbsCalls EXCEPT ![t] = AbsCall(t)']
  BY <1>1, <1>2, <1>3, <1>5, LocalOnly
<1>7. AbsCalls[t] = Abs!Idle
  BY <1>2 DEF AbsCalls, AbsCall, Abs!Idle, EnqCalled, TakenEffect, EnqLoop, DeqLoop,
         Quiescent
<1>8. ASSUME NEW v \in Values, BeginEnq(t, v)
      PROVE  Simulated
  <2>1. AbsCall(t)' = Abs!Enq(v)
    BY <1>8 DEF AbsCall, BeginEnq, BeginOp, GoTo, Control, TypeOK, Abs!Enq,
         EnqLoop, EnqCalled, TakenEffect, DeqLoop, Quiescent
  <2> QED BY <1>6, <1>7, <2>1, AbsActions DEF Simulated
<1>9. CASE BeginDeq(t)
  <2>1. AbsCall(t)' = Abs!Deq
    BY <1>9 DEF AbsCall, BeginDeq, BeginOp, GoTo, Control, TypeOK, Abs!Deq,
         EnqLoop, DeqLoop, EnqCalled, TakenEffect, Quiescent
  <2> QED BY <1>6, <1>7, <2>1, AbsActions DEF Simulated
<1> QED BY <1>8, <1>9 DEF Begin

(* enq reads tail and its successor, checks them and gives them up.         *)
LEMMA EnqLocalSim ==
  ASSUME Control, SInv, NEW t \in Threads,
         EnqReadTail(t) \/ EnqReadNext(t) \/ EnqValid(t) \/ EnqStale(t) \/ LinkFails(t)
  PROVE  Simulated
<1>1. OthersKeep(t)
  BY DEF OthersKeep, OthersSame, Control, TypeOK, EnqReadTail, EnqReadNext, EnqValid,
         EnqStale, LinkFails, DropPointers, GoTo, localVars
<1>2. /\ UNCHANGED <<heapVars, retired, node, val>>
      /\ pc[t] \in EnqLoop /\ pc'[t] \in EnqLoop
  BY DEF Control, TypeOK, EnqReadTail, EnqReadNext, EnqValid, EnqStale, LinkFails, GoTo,
         EnqLoop, localVars
<1>3. Owned(t)' = Owned(t)
  BY <1>2 DEF Owned, Held, Unlinked, EnqLoop
<1>4. ValueOf(t)'
  BY <1>2 DEF SInv, ValueOf, EnqLoop, DeqLoop, heapVars
<1>5. /\ SInv' /\ AbsQueue' = AbsQueue
      /\ AbsCalls' = [AbsCalls EXCEPT ![t] = AbsCall(t)']
  BY <1>1, <1>2, <1>3, <1>4, LocalOnly DEF EnqLoop
<1>6. AbsCall(t)' = AbsCall(t)
  BY <1>2 DEF AbsCall, EnqLoop, EnqCalled, TakenEffect, DeqLoop, Quiescent
<1> QED BY <1>5, <1>6, Silent

(* deq reads head, tail and the value, or finds out that the queue has      *)
(* been empty or that the reads were not consistent.                        *)
LEMMA DeqLocalSim ==
  ASSUME Control, NEW L, NEW F, NEW rank, NEW start, GInv(L, F, rank, start), SInv,
         NEW t \in Threads,
         \/ DeqReadHead(t) \/ DeqReadTail(t) \/ DeqFindsEmpty(t) \/ DeqValid(t)
         \/ DeqReadValue(t) \/ RemoveFails(t)
  PROVE  Simulated
<1>1. OthersKeep(t)
  <2>1. CASE DeqReadHead(t) \/ DeqReadTail(t) \/ DeqFindsEmpty(t)
    BY <2>1 DEF OthersKeep, OthersSame, Control, TypeOK, DeqReadHead, DeqReadTail,
         DeqFindsEmpty, DropPointers, GoTo, localVars
  <2>2. CASE DeqValid(t)
    BY <2>2 DEF OthersKeep, OthersSame, Control, TypeOK, DeqValid, GoTo, localVars
  <2>3. CASE DeqReadValue(t) \/ RemoveFails(t)
    BY <2>3 DEF OthersKeep, OthersSame, Control, TypeOK, DeqReadValue, RemoveFails,
         DropPointers, GoTo
  <2> QED BY <2>1, <2>2, <2>3
<1>2. UNCHANGED <<heapVars, retired, node>> /\ pc[t] \in DeqLoop
  BY DEF DeqReadHead, DeqReadTail, DeqFindsEmpty, DeqValid, DeqReadValue, RemoveFails, GoTo,
         DeqLoop, localVars
<1>3. pc'[t] \in DeqLoop \cup {"op_end"}
  BY DEF Control, TypeOK, DeqReadHead, DeqReadTail, DeqFindsEmpty, DeqValid, DeqReadValue,
         RemoveFails, GoTo, DeqLoop
<1>4. Owned(t)' = Owned(t)
  BY <1>2, <1>3 DEF Owned, Held, Unlinked, EnqLoop, DeqLoop
<1>5. retired[t] = <<>> /\ node[t] = NULL
  BY <1>2 DEF Control, RetiredOf, SInv, ValueOf, Waiting, DeqLoop
<1>6. ValueOf(t)'
  <2>1. CASE DeqReadHead(t) \/ DeqReadTail(t)
    BY <2>1, <1>2, <1>5 DEF SInv, ValueOf, Control, TypeOK, DeqReadHead, DeqReadTail,
         GoTo, EnqLoop, DeqLoop, heapVars, localVars
  <2>5. CASE DeqValid(t)
    BY <2>5, <1>2, <1>5 DEF SInv, ValueOf, Control, TypeOK, DeqValid,
         GoTo, EnqLoop, DeqLoop, heapVars, localVars
  <2>2. CASE DeqFindsEmpty(t)
    BY <2>2, <1>2, <1>5 DEF SInv, ValueOf, Control, TypeOK, DeqFindsEmpty, GoTo, EnqLoop, DeqLoop
  <2>3. CASE DeqReadValue(t)
    BY <2>3, <1>2, <1>5 DEF SInv, ValueOf, Control, TypeOK, DeqReadValue, GoTo, EnqLoop, DeqLoop,
         heapVars
  <2>4. CASE RemoveFails(t)
    BY <2>4, <1>2, <1>5 DEF SInv, ValueOf, Control, TypeOK, RemoveFails, GoTo, EnqLoop, DeqLoop
  <2> QED BY <2>1, <2>2, <2>3, <2>4, <2>5
<1>7. /\ SInv' /\ AbsQueue' = AbsQueue
      /\ AbsCalls' = [AbsCalls EXCEPT ![t] = AbsCall(t)']
  BY <1>1, <1>2, <1>4, <1>6, LocalOnly DEF DeqLoop
<1>8. AbsCall(t)' = AbsCall(t)
  <2>1. CASE DeqFindsEmpty(t)
    BY <2>1, <1>5 DEF SInv, ValueOf, AbsCall, EnqCalled, TakenEffect, Control, TypeOK,
         DeqFindsEmpty, GoTo, EnqLoop, DeqLoop, Quiescent
  <2>2. CASE DeqValid(t)
    <3>1. nxt[t] # NULL
      BY <2>2 DEF DeqValid, GoTo, GInv, PointersOf
    <3> QED BY <2>2, <3>1 DEF AbsCall, Control, TypeOK, DeqValid, GoTo, EnqLoop, DeqLoop,
         localVars, EnqCalled, TakenEffect, Quiescent
  <2>3. CASE DeqReadHead(t) \/ DeqReadTail(t) \/ DeqReadValue(t) \/ RemoveFails(t)
    BY <2>3 DEF AbsCall, Control, TypeOK, DeqReadHead, DeqReadTail,
         DeqReadValue, RemoveFails, GoTo, EnqLoop, DeqLoop, EnqCalled, TakenEffect,
         Quiescent
  <2> QED BY <2>1, <2>2, <2>3
<1> QED BY <1>7, <1>8, Silent

(* A deq that reads NULL as the successor of first has seen an empty queue: *)
(* first has no successor only if it is the last node ever linked, and then *)
(* it is still head.                                                        *)
LEMMA DeqReadNextSim ==
  ASSUME Control, NEW L, NEW F, NEW rank, NEW start, GInv(L, F, rank, start), SInv,
         NEW t \in Threads, DeqReadNext(t)
  PROVE  Simulated
<1>1. OthersKeep(t)
  BY DEF OthersKeep, OthersSame, Control, TypeOK, DeqReadNext, GoTo
<1>2. /\ UNCHANGED <<heapVars, retired, node, val>>
      /\ pc[t] = "d_next" /\ pc'[t] = "d_check" /\ nxt'[t] = next[first[t]]
  BY DEF Control, TypeOK, DeqReadNext, GoTo
<1>3. Owned(t)' = Owned(t)
  BY <1>2 DEF Owned, Held, Unlinked, EnqLoop
<1>4. ValueOf(t)'
  BY <1>2 DEF SInv, ValueOf, EnqLoop, DeqLoop
<1>5. /\ SInv' /\ AbsQueue' = AbsQueue
      /\ AbsCalls' = [AbsCalls EXCEPT ![t] = AbsCall(t)']
  BY <1>1, <1>2, <1>3, <1>4, LocalOnly
<1>6. AbsCall(t) = Abs!Deq
  BY <1>2 DEF AbsCall, Abs!Deq, EnqLoop, DeqLoop, EnqCalled, TakenEffect, Quiescent
<1>7. CASE nxt'[t] # NULL
  <2>1. AbsCall(t)' = Abs!Deq
    BY <1>2, <1>7 DEF AbsCall, Abs!Deq, EnqLoop, DeqLoop, EnqCalled, TakenEffect, Quiescent
  <2> QED BY <1>5, <1>6, <2>1, Silent
<1>8. CASE nxt'[t] = NULL
  <2>1. AbsCall(t)' = Abs!DeqEmpty
    BY <1>2, <1>8 DEF AbsCall, Abs!DeqEmpty, EnqLoop, EnqCalled, TakenEffect, DeqLoop, Quiescent
  <2>2. InOp(t) /\ pc[t] # "idle"
    BY <1>2 DEF InOp, Quiescent
  <2>3. first[t] \in L /\ start[t] <= rank[first[t]] /\ rank[first[t]] <= rank[head]
    BY <1>2 DEF GInv, PointersOf, Control, ScopesOf, HasFirst
  <2>4. head \in L /\ num_threads # 0 /\ \A x \in L : rank[x] \in Int
    BY <2>2, InUse, HeapAssumption
  <2>5. rank[head] <= rank[first[t]]
    BY <1>2, <1>8, <2>2, <2>3, <2>4, NextOfCovered
  <2>6. first[t] = head
    BY <2>3, <2>4, <2>5 DEF GInv, Linked
  <2>7. AbsQueue = <<>>
    BY <1>2, <1>8, <2>4, <2>6, EmptyQueue
  <2> QED BY <1>5, <1>6, <2>1, <2>7, AbsActions DEF Simulated, AbsCalls
<1> QED BY <1>7, <1>8

(* A deq whose first is not head any more starts over, and so does one that *)
(* had seen an empty queue.                                                 *)
LEMMA DeqStaleSim ==
  ASSUME Control, SInv, NEW t \in Threads, DeqStale(t)
  PROVE  Simulated
<1>1. OthersKeep(t)
  BY DEF OthersKeep, OthersSame, Control, TypeOK, DeqStale, DropPointers, GoTo
<1>2. /\ UNCHANGED <<heapVars, retired, node, val>>
      /\ pc[t] = "d_check" /\ pc'[t] = "d_head"
  BY DEF Control, TypeOK, DeqStale, GoTo
<1>3. Owned(t)' = Owned(t)
  BY <1>2 DEF Owned, Held, Unlinked, EnqLoop
<1>4. ValueOf(t)'
  BY <1>2 DEF SInv, ValueOf, EnqLoop, DeqLoop
<1>5. /\ SInv' /\ AbsQueue' = AbsQueue
      /\ AbsCalls' = [AbsCalls EXCEPT ![t] = AbsCall(t)']
  BY <1>1, <1>2, <1>3, <1>4, LocalOnly
<1>6. AbsCall(t)' = Abs!Deq /\ AbsCall(t) \in {Abs!Deq, Abs!DeqEmpty}
  BY <1>2 DEF AbsCall, Abs!Deq, Abs!DeqEmpty, EnqLoop, DeqLoop, EnqCalled, TakenEffect,
         Quiescent
<1>7. CASE AbsCall(t) = Abs!Deq
  BY <1>5, <1>6, <1>7, Silent
<1>8. CASE AbsCall(t) = Abs!DeqEmpty
  BY <1>5, <1>6, <1>8, AbsActions DEF Simulated, AbsCalls
<1> QED BY <1>6, <1>7, <1>8

(* The node that deq has unlinked goes to its list of retired nodes.        *)
LEMMA RetireSim ==
  ASSUME Control, SInv, NEW t \in Threads, Retire(t)
  PROVE  Simulated
<1>1. OthersKeep(t)
  BY DEF OthersKeep, OthersSame, Control, TypeOK, Retire, GoTo
<1>2. /\ UNCHANGED <<heapVars, node, val>>
      /\ pc[t] = "retire" /\ pc'[t] = "op_end"
  BY DEF Control, TypeOK, Retire, GoTo
<1>3. PICK x \in Nodes : x = first[t]
  BY <1>2 DEF Control, TypeOK, ScopesOf, HasFirst, NodeOrNULL
<1>4. retired[t] = <<>> /\ retired'[t] = <<x>>
  <2>1. retired[t] = <<>>
    BY <1>2 DEF Control, RetiredOf, Waiting
  <2>2. <<x>> \o <<>> = <<x>>
    BY <1>3
  <2>3. retired'[t] = <<x>> \o retired[t]
    BY <1>3 DEF Retire, Control, TypeOK
  <2> QED BY <2>1, <2>2, <2>3
<1>5. Owned(t)' = Owned(t)
  <2>1. Held(t) = {} /\ Held(t)' = {}
    BY <1>2 DEF Held, EnqLoop
  <2>2. Unlinked(t) = {x} /\ Unlinked(t)' = {x}
    BY <1>2, <1>3, <1>4, MembersOf DEF Unlinked
  <2> QED BY <2>1, <2>2 DEF Owned
<1>6. node[t] = NULL /\ val[t] \in Values
  BY <1>2 DEF SInv, ValueOf
<1>7. ValueOf(t)'
  BY <1>2, <1>6 DEF ValueOf, EnqLoop, DeqLoop
<1>8. /\ SInv' /\ AbsQueue' = AbsQueue
      /\ AbsCalls' = [AbsCalls EXCEPT ![t] = AbsCall(t)']
  BY <1>1, <1>2, <1>5, <1>7, LocalOnly
<1>9. AbsCall(t)' = AbsCall(t)
  BY <1>2, <1>6, HeapAssumption DEF AbsCall, EnqCalled, TakenEffect, EnqLoop, DeqLoop, Quiescent
<1> QED BY <1>8, <1>9, Silent

(* Waiting for the other threads changes nothing. *)
LEMMA WaitSim ==
  ASSUME Control, SInv, NEW t \in Threads,
         OpEndWait(t) \/ ScanSkip(t) \/ ScanBusy(t) \/ ScanDone(t) \/ Spin(t)
  PROVE  Simulated
<1>1. OthersKeep(t)
  BY DEF OthersKeep, OthersSame, Control, TypeOK, OpEndWait, ScanSkip, ScanBusy, ScanDone,
         Spin, GoTo, localVars
<1>2. /\ UNCHANGED <<heapVars, retired, node, val>> /\ retired[t] # <<>>
      /\ pc[t] \in Waiting \cup {"op_end"} /\ pc'[t] \in Waiting
  BY DEF Control, TypeOK, RetiredOf, OpEndWait, ScanSkip, ScanBusy, ScanDone, Spin, GoTo,
         Waiting, localVars
<1>3. Owned(t)' = Owned(t)
  BY <1>2 DEF Owned, Held, Unlinked, EnqLoop, Waiting
<1>4. node[t] = NULL /\ val[t] \in Values
  BY <1>2 DEF SInv, ValueOf
<1>5. ValueOf(t)'
  BY <1>2, <1>4 DEF ValueOf, EnqLoop, DeqLoop, Waiting
<1>6. /\ SInv' /\ AbsQueue' = AbsQueue
      /\ AbsCalls' = [AbsCalls EXCEPT ![t] = AbsCall(t)']
  BY <1>1, <1>2, <1>3, <1>5, LocalOnly DEF Waiting
<1>7. AbsCall(t)' = AbsCall(t)
  BY <1>2, <1>4, HeapAssumption DEF AbsCall, EnqCalled, TakenEffect, EnqLoop, DeqLoop, Waiting, Quiescent
<1> QED BY <1>6, <1>7, Silent

(* A call that has nothing to reclaim returns.                              *)
LEMMA OpEndReturnSim ==
  ASSUME Control, SInv, NEW t \in Threads, OpEndReturn(t)
  PROVE  Simulated
<1>1. OthersKeep(t)
  BY DEF OthersKeep, OthersSame, Control, TypeOK, OpEndReturn, Return
<1>2. /\ UNCHANGED <<heapVars, retired>> /\ retired[t] = <<>>
      /\ pc[t] = "op_end" /\ pc'[t] = "idle" /\ node'[t] = NULL /\ val'[t] = NULL
  BY DEF Control, TypeOK, OpEndReturn, Return
<1>3. Owned(t)' = Owned(t)
  BY <1>2 DEF Owned, Held, Unlinked, EnqLoop
<1>4. ValueOf(t)'
  BY <1>2 DEF ValueOf, EnqLoop, DeqLoop
<1>5. /\ SInv' /\ AbsQueue' = AbsQueue
      /\ AbsCalls' = [AbsCalls EXCEPT ![t] = AbsCall(t)']
  BY <1>1, <1>2, <1>3, <1>4, LocalOnly
<1>6. AbsCall(t)' = Abs!Idle
  BY <1>2 DEF AbsCall, Abs!Idle, EnqCalled, TakenEffect, EnqLoop, DeqLoop, Quiescent
<1>7. \/ AbsCall(t) \in {Abs!EnqDone, Abs!DeqEmpty}
      \/ val[t] \in Values /\ AbsCall(t) = Abs!DeqDone(val[t])
  BY <1>2 DEF AbsCall, EnqCalled, TakenEffect, Abs!EnqDone, Abs!DeqEmpty, Abs!DeqDone,
         EnqLoop, DeqLoop, Control, TypeOK, ValueOrNULL, Quiescent
<1> QED BY <1>5, <1>6, <1>7, AbsActions DEF Simulated, AbsCalls

-----------------------------------------------------------------------------
(* A node that follows tail is the last one. *)
LEMMA LastBehindTail ==
  ASSUME Control, NEW L, NEW F, NEW rank, NEW start, GInv(L, F, rank, start), Alive,
         NEW x \in L, rank[x] = rank[tail] + 1
  PROVE  next[x] = NULL
<1>1. /\ head \in L /\ tail \in L /\ \A y \in L : rank[y] \in Int
      /\ rank[head] <= rank[tail] /\ \A y \in L : rank[y] <= rank[tail] + 1
  BY DEF GInv, GhostTypeOK, Ends
<1>2. rank[head] <= rank[x]
  BY <1>1
<1>3. next[x] # NULL => next[x] \in L /\ rank[next[x]] = rank[x] + 1
  BY <1>2 DEF GInv, Linked, Covered
<1> QED BY <1>1, <1>3

(* A CAS on tail that does not fail for no reason leaves tail at the last   *)
(* node or does not change who is going to move it.                         *)
LEMMA SwingAwaited ==
  ASSUME Control, NEW L, NEW F, NEW rank, NEW start, GInv(L, F, rank, start), SInv,
         NEW t \in Threads, OthersKeep(t), NEW new \in L, rank[new] = rank[last[t]] + 1,
         \E ok \in CASResults(tail, last[t]) : tail' = IF ok THEN new ELSE tail,
         UNCHANGED <<num_threads, next>>
  PROVE  TailAwaited'
<1> SUFFICES ASSUME Alive', ~SpuriousCAS, next'[tail'] # NULL
             PROVE  \E u \in Threads : pc'[u] = "e_swing" /\ last'[u] = tail'
  BY DEF TailAwaited
<1>1. Alive
  BY DEF Alive
<1>2. CASE tail = last[t]
  <2>1. tail' = new
    BY <1>2 DEF CASResults
  <2>2. next[new] = NULL
    BY <1>1, <1>2, LastBehindTail
  <2> QED BY <2>1, <2>2
<1>3. CASE tail # last[t]
  <2>1. tail' = tail
    BY <1>3 DEF CASResults
  <2>2. PICK u \in Threads : pc[u] = "e_swing" /\ last[u] = tail
    BY <1>1, <2>1 DEF SInv, TailAwaited
  <2> QED BY <1>3, <2>1, <2>2 DEF OthersKeep, OthersSame
<1> QED BY <1>2, <1>3

(* enq moves tail to its node, or finds that another thread has done so. *)
LEMMA EnqSwingSim ==
  ASSUME Control, NEW L, NEW F, NEW rank, NEW start, GInv(L, F, rank, start), SInv,
         NEW t \in Threads, EnqSwing(t)
  PROVE  Simulated
<1>1. OthersKeep(t)
  BY DEF OthersKeep, OthersSame, Control, TypeOK, EnqSwing, SwingTail, DropPointers, GoTo
<1>2. /\ UNCHANGED <<num_threads, head, next, data, heap, freeHead, freeSize, retired, node>>
      /\ pc[t] = "e_swing" /\ pc'[t] = "op_end" /\ val'[t] = NULL
  BY DEF Control, TypeOK, EnqSwing, SwingTail, GoTo
<1>3. Owned(t)' = Owned(t)
  BY <1>2 DEF Owned, Held, Unlinked, EnqLoop
<1>4. retired[t] = <<>> /\ node[t] # NULL
  BY <1>2 DEF Control, RetiredOf, ScopesOf, Waiting
<1>5. ValueOf(t)'
  BY <1>2, <1>4 DEF ValueOf, EnqLoop, DeqLoop
<1>6. TailAwaited'
  <2>1. node[t] \in L /\ rank[node[t]] = rank[last[t]] + 1
    BY <1>2 DEF GInv, TakenOf
  <2>2. \E ok \in CASResults(tail, last[t]) : tail' = IF ok THEN node[t] ELSE tail
    BY DEF EnqSwing, SwingTail
  <2> QED BY <1>1, <1>2, <2>1, <2>2, SwingAwaited
<1>7. /\ SInv' /\ AbsQueue' = AbsQueue
      /\ AbsCalls' = [AbsCalls EXCEPT ![t] = AbsCall(t)']
  BY <1>1, <1>2, <1>3, <1>5, <1>6, UnchangedStep
<1>8. AbsCall(t)' = AbsCall(t)
  BY <1>2, <1>4 DEF AbsCall, EnqCalled, TakenEffect, EnqLoop, DeqLoop, Quiescent
<1> QED BY <1>7, <1>8, Silent

(* enq and deq move a tail that is behind. *)
LEMMA HelpSim ==
  ASSUME Control, NEW L, NEW F, NEW rank, NEW start, GInv(L, F, rank, start), SInv,
         NEW t \in Threads, EnqHelp(t) \/ DeqHelp(t)
  PROVE  Simulated
<1>1. OthersKeep(t)
  BY DEF OthersKeep, OthersSame, Control, TypeOK, EnqHelp, DeqHelp, SwingTail, DropPointers,
         GoTo
<1>2. /\ UNCHANGED <<num_threads, head, next, data, heap, freeHead, freeSize, retired, node,
                     val>>
      /\ \/ pc[t] = "e_help" /\ pc'[t] = "e_tail"
         \/ pc[t] = "d_help" /\ pc'[t] = "d_head"
  BY DEF Control, TypeOK, EnqHelp, DeqHelp, SwingTail, GoTo
<1>3. Owned(t)' = Owned(t)
  BY <1>2 DEF Owned, Held, Unlinked, EnqLoop
<1>4. ValueOf(t)'
  BY <1>2 DEF SInv, ValueOf, EnqLoop, DeqLoop
<1>5. TailAwaited'
  <2>1. nxt[t] \in L /\ rank[nxt[t]] = rank[last[t]] + 1
    BY <1>2 DEF GInv, PointersOf, Control, ScopesOf, HasFirst, HasNxt
  <2>2. \E ok \in CASResults(tail, last[t]) : tail' = IF ok THEN nxt[t] ELSE tail
    BY DEF EnqHelp, DeqHelp, SwingTail
  <2> QED BY <1>1, <1>2, <2>1, <2>2, SwingAwaited
<1>6. /\ SInv' /\ AbsQueue' = AbsQueue
      /\ AbsCalls' = [AbsCalls EXCEPT ![t] = AbsCall(t)']
  BY <1>1, <1>2, <1>3, <1>4, <1>5, UnchangedStep
<1>7. AbsCall(t)' = AbsCall(t)
  BY <1>2 DEF AbsCall, EnqCalled, TakenEffect, EnqLoop, DeqLoop, Quiescent
<1> QED BY <1>6, <1>7, Silent

(* enq gets a node, which no list has any more. *)
LEMMA EnqUpcycleSim ==
  ASSUME Control, NEW L, NEW F, NEW rank, NEW start, GInv(L, F, rank, start), SInv,
         NEW t \in Threads, EnqUpcycle(t)
  PROVE  Simulated
<1>1. PICK q, G : /\ Paths(q, G)
                  /\ heap \ Listed(q, G) = AllOwned
                  /\ ValuesOf(q, data) \in Seq(Values)
                  /\ AbsQueue = ValuesOf(q, data)
  BY Unfold
<1>2. PICK n \in Nodes : Upcycle(t, n) /\ node' = [node EXCEPT ![t] = n]
  BY DEF EnqUpcycle
<1>3. PICK G2 : G2 = Popped(G, t)
  OBVIOUS
<1>4. /\ Paths(q, G2)'
      /\ heap' \ Listed(q, G2) = (heap \ Listed(q, G)) \cup {n}
      /\ ValuesOf(q, data') = ValuesOf(q, data)
  <2>1. HeapTypeOK /\ UNCHANGED <<num_threads, head, tail>>
    BY DEF EnqUpcycle, Control, TypeOK
  <2> QED BY <1>1, <1>2, <1>3, <2>1, UpcyclePaths
<1>5. OthersKeep(t)
  BY <1>2 DEF OthersKeep, OthersSame, Control, TypeOK, EnqUpcycle, GoTo
<1>6. /\ pc[t] = "upcycle" /\ pc'[t] = "fill" /\ node'[t] = n
      /\ UNCHANGED <<num_threads, tail, retired, nxt, val>>
  BY <1>2 DEF Control, TypeOK, EnqUpcycle, GoTo
<1>7. retired[t] = <<>>
  BY <1>6 DEF Control, RetiredOf, Waiting
<1>8. Owned(t) = {} /\ Owned(t)' = {n}
  BY <1>6, <1>7, MembersOf DEF Owned, Held, Unlinked, EnqLoop
<1>9. heap' \ Listed(q, G2) = AllOwned'
  BY <1>1, <1>4, <1>5, <1>8, OwnedNext
<1>10. ValueOf(t)' /\ AbsCall(t)' = AbsCall(t)
  <2>1. ValueOf(t)'
    BY <1>6, <1>7 DEF SInv, ValueOf, EnqLoop, DeqLoop
  <2> QED BY <1>6, <2>1 DEF AbsCall, EnqCalled, TakenEffect, EnqLoop, DeqLoop, Quiescent
<1>11. \A x \in heap : data'[x] = data[x] /\ next'[x] = next[x]
  BY <1>2 DEF Upcycle, MakeNode, Control, TypeOK, HeapTypeOK
<1>12. L \subseteq heap /\ \A u \in Threads : Takes(u) => node[u] \in heap
  BY DEF GInv, Disjoint, TakenApart
<1>13. \A u \in Threads \ {t} : ValueOf(u)'
  BY <1>5, <1>11, <1>12, ValuesOfOthers
<1>14. TailAwaited'
  <2>1. Alive => tail \in L
    BY DEF GInv, Ends
  <2> QED BY <1>5, <1>6, <1>11, <1>12, <2>1, StillAwaited
<1>15. /\ SInv' /\ AbsQueue' = ValuesOf(q, data')
       /\ AbsCalls' = [AbsCalls EXCEPT ![t] = AbsCall(t)']
  BY <1>1, <1>4, <1>5, <1>9, <1>10, <1>13, <1>14, ShapeStep
<1> QED BY <1>1, <1>4, <1>10, <1>15, Silent

(* enq writes the fields of its node. *)
LEMMA EnqFillSim ==
  ASSUME Control, NEW L, NEW F, NEW rank, NEW start, GInv(L, F, rank, start), SInv,
         NEW t \in Threads, EnqFill(t)
  PROVE  Simulated
<1>1. PICK q, G : /\ Paths(q, G)
                  /\ heap \ Listed(q, G) = AllOwned
                  /\ ValuesOf(q, data) \in Seq(Values)
                  /\ AbsQueue = ValuesOf(q, data)
  BY Unfold
<1>2. /\ pc[t] = "fill" /\ pc'[t] = "e_tail"
      /\ UNCHANGED <<num_threads, head, tail, heap, freeHead, freeSize, retired, node,
                     nxt, val>>
  BY DEF Control, TypeOK, EnqFill, GoTo, localVars
<1>3. PICK n \in Nodes : n = node[t] /\ Held(t) = {n} /\ Held(t)' = {n}
  BY <1>2 DEF Control, TypeOK, NodeOrNULL, ScopesOf, Held, EnqLoop
<1>4. /\ n \in heap \ Listed(q, G) /\ n \notin L
      /\ \A u \in Threads \ {t} : Takes(u) => node[u] \in Nodes \ {n}
  <2>1. n \in AllOwned
    BY <1>3 DEF AllOwned, Owned
  <2>2. Takes(t)
    BY <1>2 DEF Takes
  <2> QED BY <1>1, <1>3, <2>1, <2>2 DEF GInv, TakenApart, Control, TypeOK, HeapTypeOK
<1>5. \A y \in Nodes \ {n} : next'[y] = next[y] /\ data'[y] = data[y]
  BY <1>3 DEF EnqFill, Control, TypeOK, HeapTypeOK
<1>6. Paths(q, G)' /\ ValuesOf(q, data') = ValuesOf(q, data)
  BY <1>1, <1>2, <1>4, <1>5, FillPaths DEF Control, TypeOK
<1>7. OthersKeep(t)
  BY DEF OthersKeep, OthersSame, Control, TypeOK, EnqFill, GoTo, localVars
<1>8. Owned(t)' = Owned(t)
  BY <1>2, <1>3 DEF Owned, Unlinked
<1>9. heap' \ Listed(q, G) = AllOwned'
  BY <1>1, <1>2, <1>7, <1>8, OwnedNext
<1>10. AbsCall(t)' = AbsCall(t)
  BY <1>2 DEF AbsCall, EnqCalled, TakenEffect, EnqLoop, DeqLoop, Quiescent
<1>11. ValueOf(t)'
  <2>1. data'[node[t]] = val[t]
    BY <1>3 DEF EnqFill, Control, TypeOK, HeapTypeOK
  <2> QED BY <1>2, <2>1 DEF SInv, ValueOf, EnqLoop, DeqLoop
<1>12. L \subseteq Nodes \ {n}
  BY <1>4 DEF GInv, GhostTypeOK
<1>13. \A u \in Threads \ {t} : ValueOf(u)'
  BY <1>4, <1>5, <1>7, <1>12, ValuesOfOthers
<1>14. TailAwaited'
  <2>1. Alive => tail \in L
    BY DEF GInv, Ends
  <2> QED BY <1>2, <1>5, <1>7, <1>12, <2>1, StillAwaited
<1>15. /\ SInv' /\ AbsQueue' = ValuesOf(q, data')
       /\ AbsCalls' = [AbsCalls EXCEPT ![t] = AbsCall(t)']
  BY <1>1, <1>6, <1>7, <1>9, <1>11, <1>13, <1>14, ShapeStep
<1> QED BY <1>1, <1>6, <1>10, <1>15, Silent

(* enq links its node to the last one, which is the one that tail points    *)
(* to: this is where it takes effect.                                       *)
LEMMA LinkSim ==
  ASSUME Control, NEW L, NEW F, NEW rank, NEW start, GInv(L, F, rank, start), SInv,
         NEW t \in Threads, LinkSucceeds(t)
  PROVE  Simulated
<1>1. PICK q, G : /\ Paths(q, G)
                  /\ heap \ Listed(q, G) = AllOwned
                  /\ ValuesOf(q, data) \in Seq(Values)
                  /\ AbsQueue = ValuesOf(q, data)
  BY Unfold
<1>2. /\ pc[t] = "e_link" /\ pc'[t] = "e_swing" /\ next[last[t]] = NULL
      /\ next' = [next EXCEPT ![last[t]] = node[t]]
      /\ UNCHANGED <<num_threads, head, tail, data, heap, freeHead, freeSize, retired,
                     node, last, nxt, val>>
  BY DEF Control, TypeOK, LinkSucceeds, CASResults, GoTo, localVars
<1>3. PICK n \in Nodes : n = node[t] /\ Held(t) = {n} /\ Held(t)' = {}
  BY <1>2 DEF Control, TypeOK, NodeOrNULL, ScopesOf, Held, EnqLoop
<1>4. /\ next[n] = NULL /\ val[t] \in Values /\ data[n] = val[t] /\ retired[t] = <<>>
  BY <1>2, <1>3 DEF GInv, TakenOf, SInv, ValueOf, Control, RetiredOf, EnqLoop, Waiting
<1>5. n \in heap \ Listed(q, G)
  <2>1. n \in AllOwned
    BY <1>3 DEF AllOwned, Owned
  <2> QED BY <1>1, <2>1
<1>6. PICK l : l = last[t]
  OBVIOUS
<1>7. Alive /\ l = tail /\ l \in Current(L, rank)
  <2>1. /\ num_threads = NumThreads /\ head \in L /\ tail \in L
        /\ \A x \in L : rank[x] \in Int /\ start[t] \in Int
    BY <1>2, InUse
  <2>2. l \in L /\ start[t] <= rank[l] /\ rank[l] <= rank[tail]
    BY <1>2, <1>6 DEF GInv, PointersOf, Control, ScopesOf, HasLast
  <2>3. InOp(t)
    BY <1>2 DEF InOp, Quiescent
  <2>4. rank[tail] <= rank[l]
    BY <1>2, <1>6, <2>1, <2>2, <2>3, NextOfCovered
  <2>5. l = tail
    BY <2>1, <2>2, <2>4 DEF GInv, Linked
  <2>6. Alive
    BY <2>1, HeapAssumption DEF Alive
  <2>7. rank[head] <= rank[tail]
    BY <2>6 DEF GInv, Ends
  <2> QED BY <2>2, <2>5, <2>6, <2>7 DEF Current
<1>8. l = q[Len(q)]
  <2>1. IsList(Current(L, rank), head, next) /\ NULL \notin Current(L, rank)
    BY <1>7, CurrentList
  <2>2. IsPath(q, head, next) /\ q # <<>>
    BY <1>1, <1>7 DEF Paths, Alive
  <2> QED BY <1>2, <1>6, <1>7, <2>1, <2>2, PathLast
<1>9. /\ Paths(Append(q, n), G)'
      /\ heap' \ Listed(Append(q, n), G) = (heap \ Listed(q, G)) \ {n}
      /\ ValuesOf(Append(q, n), data') = Append(ValuesOf(q, data), data[n])
      /\ ValuesOf(Append(q, n), data') \in Seq(Values)
  <2>1. next' = [next EXCEPT ![l] = n]
    BY <1>2, <1>3, <1>6
  <2>2. HeapTypeOK /\ UNCHANGED <<num_threads, head, data, heap, freeHead, freeSize>>
        /\ num_threads # 0
    BY <1>2, <1>7 DEF Control, TypeOK, Alive
  <2>3. data[n] \in Values
    BY <1>4
  <2> QED BY <1>1, <1>4, <1>5, <1>8, <2>1, <2>2, <2>3, LinkPaths
<1>10. OthersKeep(t)
  BY DEF OthersKeep, OthersSame, Control, TypeOK, LinkSucceeds, GoTo, localVars
<1>11. Owned(t) = {n} /\ Owned(t)' = {}
  BY <1>2, <1>3, <1>4, MembersOf DEF Owned, Unlinked
<1>12. \A u \in Threads \ {t} : n \notin Owned(u)
  BY <1>11, OwnedApart
<1>13. heap' \ Listed(Append(q, n), G) = AllOwned'
  BY <1>1, <1>9, <1>10, <1>11, <1>12, OwnedNext
<1>14. n # NULL
  BY HeapAssumption
<1>15. ValueOf(t)'
  BY <1>2, <1>4 DEF ValueOf, EnqLoop, DeqLoop
<1>16. AbsCall(t) = Abs!Enq(val[t]) /\ AbsCall(t)' = Abs!EnqDone
  BY <1>2, <1>3, <1>14
  DEF AbsCall, EnqCalled, TakenEffect, EnqLoop, DeqLoop, Quiescent, Abs!Enq, Abs!EnqDone
<1>17. \A u \in Threads \ {t} : ValueOf(u)'
  BY <1>2, <1>10, ValuesOfOthers
<1>18. TailAwaited'
  BY <1>2, <1>6, <1>7 DEF TailAwaited
<1>19. PICK q2 : q2 = Append(q, n)
  OBVIOUS
<1>20. /\ SInv' /\ AbsQueue' = ValuesOf(q2, data')
       /\ AbsCalls' = [AbsCalls EXCEPT ![t] = AbsCall(t)']
  BY <1>9, <1>10, <1>13, <1>15, <1>17, <1>18, <1>19, ShapeStep
<1>21. AbsQueue' = Append(AbsQueue, val[t])
  BY <1>1, <1>4, <1>9, <1>19, <1>20
<1> QED BY <1>4, <1>16, <1>20, <1>21, AbsActions DEF Simulated, AbsCalls

(* deq moves head: this is where it takes effect. *)
LEMMA RemoveSim ==
  ASSUME Control, NEW L, NEW F, NEW rank, NEW start, GInv(L, F, rank, start), SInv,
         NEW t \in Threads, RemoveSucceeds(t)
  PROVE  Simulated
<1>1. PICK q, G : /\ Paths(q, G)
                  /\ heap \ Listed(q, G) = AllOwned
                  /\ ValuesOf(q, data) \in Seq(Values)
                  /\ AbsQueue = ValuesOf(q, data)
  BY Unfold
<1>2. /\ pc[t] = "d_cas" /\ pc'[t] = "retire" /\ first[t] = head /\ head' = nxt[t]
      /\ UNCHANGED <<num_threads, tail, next, data, heap, freeHead, freeSize, retired,
                     node, first, val>>
  BY DEF Control, TypeOK, RemoveSucceeds, CASResults, GoTo
<1>3. /\ num_threads # 0 /\ nxt[t] # NULL /\ next[head] = nxt[t]
  <2>1. num_threads # 0 /\ head \in L /\ \A x \in L : rank[x] \in Int
    BY <1>2, InUse, HeapAssumption
  <2>2. nxt[t] # NULL /\ nxt[t] \in L /\ rank[nxt[t]] = rank[head] + 1
    BY <1>2 DEF GInv, PointersOf, Control, ScopesOf, HasFirst, HasNxt
  <2>3. next[head] # NULL => next[head] \in L /\ rank[next[head]] = rank[head] + 1
    BY <2>1 DEF GInv, Linked, Covered
  <2>4. next[head] # NULL
    BY <2>1, <2>2 DEF GInv, Linked, Covered
  <2> QED BY <2>1, <2>2, <2>3, <2>4 DEF GInv, Linked
<1>4. val[t] = data[next[head]] /\ node[t] = NULL /\ retired[t] = <<>>
  BY <1>2, <1>3 DEF SInv, ValueOf, DeqLoop, Control, RetiredOf, Waiting
<1>5. PICK q2, h : q2 = Tail(q) /\ h = head
  OBVIOUS
<1>6. /\ Paths(q2, G)'
      /\ heap' \ Listed(q2, G) = (heap \ Listed(q, G)) \cup {h}
      /\ AbsQueue # <<>> /\ Head(AbsQueue) = val[t] /\ val[t] \in Values
      /\ ValuesOf(q2, data') = Tail(AbsQueue)
      /\ ValuesOf(q2, data') \in Seq(Values)
  <2>1. HeapTypeOK /\ UNCHANGED <<num_threads, next, data, heap, freeHead, freeSize>>
    BY <1>2 DEF Control, TypeOK
  <2>2. next[head] # NULL /\ head' = next[head]
    BY <1>2, <1>3
  <2> QED BY <1>1, <1>3, <1>4, <1>5, <2>1, <2>2, MoveHeadPaths
<1>7. OthersKeep(t)
  BY DEF OthersKeep, OthersSame, Control, TypeOK, RemoveSucceeds, GoTo
<1>8. Owned(t) = {} /\ Owned(t)' = {h}
  BY <1>2, <1>4, <1>5, MembersOf DEF Owned, Held, Unlinked, EnqLoop
<1>9. heap' \ Listed(q2, G) = AllOwned'
  BY <1>1, <1>6, <1>7, <1>8, OwnedNext
<1>10. ValueOf(t)'
  BY <1>2, <1>4, <1>6 DEF ValueOf, EnqLoop, DeqLoop
<1>11. AbsCall(t) = Abs!Deq /\ AbsCall(t)' = Abs!DeqDone(val[t])
  BY <1>2, <1>4, <1>6, HeapAssumption
  DEF AbsCall, EnqCalled, TakenEffect, EnqLoop, DeqLoop, Quiescent, Abs!Deq, Abs!DeqDone
<1>12. \A u \in Threads \ {t} : ValueOf(u)'
  BY <1>2, <1>7, ValuesOfOthers
<1>13. TailAwaited'
  BY <1>2, <1>7, StillAwaited
<1>14. /\ SInv' /\ AbsQueue' = ValuesOf(q2, data')
       /\ AbsCalls' = [AbsCalls EXCEPT ![t] = AbsCall(t)']
  BY <1>6, <1>7, <1>9, <1>10, <1>12, <1>13, ShapeStep
<1> QED BY <1>6, <1>11, <1>14, AbsActions DEF Simulated, AbsCalls

(* A node that has waited long enough goes to the free list, and the call   *)
(* returns.                                                                 *)
LEMMA ReclaimSim ==
  ASSUME Control, NEW L, NEW F, NEW rank, NEW start, GInv(L, F, rank, start), SInv,
         NEW t \in Threads, Reclaim(t)
  PROVE  Simulated
<1>1. PICK q, G : /\ Paths(q, G)
                  /\ heap \ Listed(q, G) = AllOwned
                  /\ ValuesOf(q, data) \in Seq(Values)
                  /\ AbsQueue = ValuesOf(q, data)
  BY Unfold
<1>2. PICK x \in Nodes : retired[t] = <<x>>
  BY DEF Control, RetiredOf, Waiting, Reclaim
<1>3. /\ pc[t] = "reclaim" /\ pc'[t] = "idle" /\ retired'[t] = <<>>
      /\ node'[t] = NULL /\ val'[t] = NULL
      /\ Recycle(t, x) /\ UNCHANGED <<num_threads, head, tail>>
  <2>1. Head(<<x>>) = x /\ Tail(<<x>>) = <<>> /\ Len(<<x>>) = 1
    OBVIOUS
  <2> QED BY <1>2, <2>1 DEF Reclaim, Return, Control, TypeOK
<1>4. node[t] = NULL /\ val[t] \in Values
  BY <1>2 DEF SInv, ValueOf
<1>5. Owned(t) = {x} /\ Owned(t)' = {}
  BY <1>2, <1>3, MembersOf DEF Owned, Held, Unlinked, EnqLoop
<1>6. x \in heap \ Listed(q, G)
  <2>1. x \in AllOwned
    BY <1>5 DEF AllOwned
  <2> QED BY <1>1, <2>1
<1>7. PICK G2 : G2 = Pushed(G, t, x)
  OBVIOUS
<1>8. /\ Paths(q, G2)'
      /\ heap' \ Listed(q, G2) = (heap \ Listed(q, G)) \ {x}
      /\ ValuesOf(q, data') = ValuesOf(q, data)
  <2>1. num_threads # 0 /\ HeapTypeOK
    BY <1>3, InUse, HeapAssumption DEF Control, TypeOK
  <2> QED BY <1>1, <1>3, <1>6, <1>7, <2>1, RecyclePaths
<1>9. OthersKeep(t)
  BY DEF OthersKeep, OthersSame, Control, TypeOK, Reclaim, Return
<1>10. \A u \in Threads \ {t} : x \notin Owned(u)
  BY <1>5, OwnedApart
<1>11. heap' \ Listed(q, G2) = AllOwned'
  BY <1>1, <1>5, <1>8, <1>9, <1>10, OwnedNext
<1>12. ValueOf(t)'
  BY <1>3 DEF ValueOf, EnqLoop, DeqLoop
<1>13. AbsCall(t) = Abs!DeqDone(val[t]) /\ AbsCall(t)' = Abs!Idle
  BY <1>3, <1>4, HeapAssumption
  DEF AbsCall, EnqCalled, TakenEffect, EnqLoop, DeqLoop, Quiescent, Abs!DeqDone, Abs!Idle
<1>14. \A u \in Threads \ {t} : ValueOf(u)'
  BY <1>3, <1>9, ValuesOfOthers DEF Recycle
<1>15. TailAwaited'
  <2>1. Alive => tail \in L /\ tail # x
    <3>1. x \in L /\ rank[x] < rank[head]
      BY <1>2 DEF GInv, Garbage, Trash
    <3>2. Alive => /\ tail \in L /\ rank[head] <= rank[tail]
                   /\ rank[head] \in Int /\ rank[tail] \in Int /\ rank[x] \in Int
      BY DEF GInv, Ends, GhostTypeOK
    <3> QED BY <3>1, <3>2
  <2>2. \A y \in Nodes \ {x} : next'[y] = next[y]
    BY <1>3 DEF Recycle, Control, TypeOK, HeapTypeOK
  <2>3. L \subseteq Nodes
    BY DEF GInv, GhostTypeOK
  <2> QED BY <1>3, <1>9, <2>1, <2>2, <2>3, StillAwaited
<1>16. /\ SInv' /\ AbsQueue' = ValuesOf(q, data')
       /\ AbsCalls' = [AbsCalls EXCEPT ![t] = AbsCall(t)']
  BY <1>1, <1>8, <1>9, <1>11, <1>12, <1>14, <1>15, ShapeStep
<1> QED BY <1>1, <1>4, <1>8, <1>13, <1>16, AbsActions DEF Simulated, AbsCalls

(* Between two calls the queue is replaced by an empty one. *)
LEMMA NewSim ==
  ASSUME NEW q, NEW G, Paths(q, G)', ValuesOf(q, data') = <<>>,
         heap' \ Listed(q, G) = {}, TailAwaited',
         \A t \in Threads : /\ Owned(t)' = {} /\ ValueOf(t)'
                            /\ AbsCall(t) = Abs!Idle /\ AbsCall(t)' = Abs!Idle
  PROVE  Simulated
<1>1. AllOwned' = {}
  BY DEF AllOwned
<1>2. ValuesOf(q, data') \in Seq(Values)
  BY EmptySeq
<1>3. Shape({})' /\ AbsQueue' = <<>>
  BY <1>1, <1>2, ShapeNext DEF AbsQueue
<1>4. SInv'
  BY <1>1, <1>3 DEF SInv, Shape
<1>5. AbsCalls' = AbsCalls /\ \A t \in Threads : AbsCalls[t] = Abs!Idle
  BY DEF AbsCalls
<1> QED BY <1>3, <1>4, <1>5, AbsActions DEF Simulated

(* A thread that is in no call owns no node. *)
LEMMA IdleOwns ==
  ASSUME Control, NEW t \in Threads, pc[t] = "idle"
  PROVE  Owned(t) = {}
<1>1. retired[t] = <<>>
  BY DEF Control, RetiredOf, Waiting
<1> QED BY <1>1, MembersOf DEF Owned, Held, Unlinked, EnqLoop

(* What holds of all threads while none is in a call. *)
LEMMA AllIdle ==
  ASSUME Control, SInv, \A t \in Threads : pc[t] = "idle", UNCHANGED <<pc, node, val>>,
         retired' = [t \in Threads |-> <<>>]
  PROVE  /\ AllOwned = {}
         /\ \A t \in Threads : /\ Owned(t)' = {} /\ ValueOf(t)'
                               /\ AbsCall(t) = Abs!Idle /\ AbsCall(t)' = Abs!Idle
<1>1. AllOwned = {}
  BY IdleOwns DEF AllOwned
<1>2. \A t \in Threads : Owned(t)' = {}
  BY MembersOf DEF Owned, Held, Unlinked, EnqLoop
<1>3. \A t \in Threads : ValueOf(t)'
  <2> TAKE t \in Threads
  <2>1. val'[t] = NULL
    BY DEF SInv, ValueOf
  <2> QED BY <2>1 DEF ValueOf, EnqLoop, DeqLoop
<1>4. \A t \in Threads : AbsCall(t) = Abs!Idle /\ AbsCall(t)' = Abs!Idle
  BY DEF AbsCall, Abs!Idle, EnqCalled, TakenEffect, EnqLoop, DeqLoop, Quiescent
<1> QED BY <1>1, <1>2, <1>3, <1>4

(* destroy_queue leaves no node allocated. *)
LEMMA DestroySim ==
  ASSUME Control, SInv, Destroy
  PROVE  Simulated
<1>1. PICK q, G : Paths(q, G) /\ heap \ Listed(q, G) = AllOwned
  BY Unfold
<1>2. PICK G2 : G2 = [t \in Threads |-> <<>>]
  OBVIOUS
<1>3. PICK others : FreeAll(others)
  BY DEF Destroy
<1>4. /\ AllOwned = {}
      /\ \A t \in Threads : /\ Owned(t)' = {} /\ ValueOf(t)'
                            /\ AbsCall(t) = Abs!Idle /\ AbsCall(t)' = Abs!Idle
  BY AllIdle DEF Destroy, localVars
<1>5. /\ Paths(<<>>, G2)' /\ ValuesOf(<<>>, data') = <<>>
      /\ heap' \ Listed(<<>>, G2) = {}
  BY <1>1, <1>2, <1>3, <1>4, NoPaths
<1>6. TailAwaited'
  BY <1>3 DEF TailAwaited, Alive, FreeAll
<1> QED BY <1>4, <1>5, <1>6, NewSim

(* init_queue sets up an empty queue. *)
LEMMA InitQueueSim ==
  ASSUME Control, NEW L, NEW F, NEW rank, NEW start, GInv(L, F, rank, start), SInv, InitQueue
  PROVE  Simulated
<1>1. PICK q, G : Paths(q, G) /\ heap \ Listed(q, G) = AllOwned
  BY Unfold
<1>2. PICK G2 : G2 = [t \in Threads |-> <<>>]
  OBVIOUS
<1>3. PICK q2 : q2 = <<head>>'
  OBVIOUS
<1>4. /\ AllOwned = {}
      /\ \A t \in Threads : /\ Owned(t)' = {} /\ ValueOf(t)'
                            /\ AbsCall(t) = Abs!Idle /\ AbsCall(t)' = Abs!Idle
  <2>1. \A t \in Threads : pc[t] = "idle"
    BY DEF GInv, Destroyed, InitQueue, InitHeap
  <2> QED BY <2>1, AllIdle DEF InitQueue, localVars
<1>5. /\ Paths(q2, G2)' /\ ValuesOf(q2, data') = <<>>
      /\ heap' \ Listed(q2, G2) = {}
  BY <1>1, <1>2, <1>3, <1>4, FreshPaths DEF InitQueue, Control, TypeOK
<1>6. TailAwaited'
  BY DEF TailAwaited, InitQueue, InitHeap, MakeNode, Control, TypeOK, HeapTypeOK
<1> QED BY <1>4, <1>5, <1>6, NewSim

(* Every step is one of the abstract queue or none. *)
LEMMA StepSim == IInv /\ SInv /\ [Next]_vars => SInv' /\ [Abs!AbsNext]_(Abs!avars)
<1> SUFFICES ASSUME IInv, SInv, [Next]_vars
             PROVE  Simulated
  BY DEF Simulated
<1>1. PICK L, F, rank, start : GInv(L, F, rank, start)
  BY DEF IInv
<1>2. Control
  BY DEF IInv
<1>3. ASSUME NEW t \in Threads, Begin(t)
      PROVE  Simulated
  BY <1>2, <1>3, BeginSim
<1>4. ASSUME NEW t \in Threads, EnqStep(t)
      PROVE  Simulated
  <2>1. \/ EnqUpcycle(t) \/ EnqFill(t) \/ LinkSucceeds(t) \/ EnqSwing(t) \/ EnqHelp(t)
        \/ EnqReadTail(t) \/ EnqReadNext(t) \/ EnqValid(t) \/ EnqStale(t) \/ LinkFails(t)
    BY <1>4 DEF EnqStep, EnqCheck, EnqLink
  <2> QED BY <1>1, <1>2, <2>1, EnqUpcycleSim, EnqFillSim, LinkSim, EnqSwingSim, HelpSim,
             EnqLocalSim
<1>5. ASSUME NEW t \in Threads, DeqStep(t)
      PROVE  Simulated
  <2>1. \/ DeqReadHead(t) \/ DeqReadTail(t) \/ DeqFindsEmpty(t) \/ DeqValid(t)
        \/ DeqReadValue(t) \/ RemoveFails(t) \/ DeqReadNext(t) \/ DeqStale(t) \/ DeqHelp(t)
        \/ RemoveSucceeds(t) \/ Retire(t)
    BY <1>5 DEF DeqStep, DeqCheck, DeqRemove
  <2> QED BY <1>1, <1>2, <2>1, DeqLocalSim, DeqReadNextSim, DeqStaleSim, HelpSim, RemoveSim,
             RetireSim
<1>6. ASSUME NEW t \in Threads, EndStep(t)
      PROVE  Simulated
  <2>1. \/ OpEndReturn(t) \/ OpEndWait(t) \/ ScanSkip(t) \/ ScanBusy(t) \/ ScanDone(t)
        \/ Spin(t) \/ Reclaim(t)
    BY <1>6 DEF EndStep, OpEnd
  <2> QED BY <1>1, <1>2, <2>1, OpEndReturnSim, WaitSim, ReclaimSim
<1>7. CASE Destroy
  BY <1>2, <1>7, DestroySim
<1>8. CASE InitQueue
  BY <1>1, <1>2, <1>8, InitQueueSim
<1>9. CASE UNCHANGED vars
  <2>1. SInv'
    <3>1. UNCHANGED <<num_threads, head, tail, next, data, heap, freeHead, freeSize,
                      retired, pc, node, first, last, nxt, val>>
      BY <1>9 DEF vars, heapVars, localVars
    <3>2. QueuePath' = QueuePath /\ FreePaths' = FreePaths
      BY <3>1 DEF QueuePath, FreePaths, Chain
    <3>3. PICK q, G : q = QueuePath /\ G = FreePaths /\ Paths(q, G)
      BY DEF SInv, Shape
    <3>4. Paths(q, G)'
      BY <3>1, <3>3 DEF Paths
    <3>5. Paths(QueuePath, FreePaths)'
      BY <3>2, <3>3, <3>4 DEF Paths
    <3>6. AllOwned' = AllOwned /\ TailAwaited'
      BY <3>1 DEF AllOwned, Owned, Held, Unlinked, SInv, TailAwaited, Alive
    <3>7. \A t \in Threads : ValueOf(t)'
      BY <3>1 DEF SInv, ValueOf
    <3> QED BY <3>1, <3>2, <3>5, <3>6, <3>7 DEF SInv, Shape, Loose
  <2>2. UNCHANGED Abs!avars
    BY <1>9 DEF Abs!avars, Contents, Chain, AbsCall, vars, heapVars, localVars
  <2> QED BY <2>1, <2>2 DEF Simulated
<1> QED BY <1>3, <1>4, <1>5, <1>6, <1>7, <1>8, <1>9 DEF Next, Step

(* At the start the queue is empty and every node is accounted for. *)
LEMMA InitSim == Init => SInv /\ Abs!AbsInit
<1> SUFFICES ASSUME Init PROVE SInv /\ Abs!AbsInit
  OBVIOUS
<1>1. PICK G : G = [t \in Threads |-> <<>>]
  OBVIOUS
<1>2. PICK q : q = <<head>>
  OBVIOUS
<1>3. /\ Paths(q, G) /\ heap \ Listed(q, G) = {}
      /\ ValuesOf(q, data) \in Seq(Values)
  BY <1>1, <1>2, FirstPaths DEF Init
<1>4. ValuesOf(q, data) = <<>>
  <2>1. Len(q) = 1
    BY <1>2
  <2> QED BY <2>1, ValuesOfNone
<1>5. \A t \in Threads : /\ pc[t] = "idle" /\ retired[t] = <<>> /\ val[t] = NULL
                         /\ node[t] = NULL
  BY DEF Init
<1>6. \A t \in Threads : Owned(t) = {} /\ ValueOf(t)
  BY <1>5, MembersOf DEF Owned, Held, Unlinked, ValueOf, EnqLoop, DeqLoop
<1>7. \A t \in Threads : AbsCall(t) = Abs!Idle
  BY <1>5 DEF AbsCall, Abs!Idle, EnqCalled, TakenEffect, EnqLoop, DeqLoop, Quiescent
<1>8. AllOwned = {} /\ num_threads # 0
  BY <1>6, HeapAssumption DEF AllOwned, Init, HeapInit
<1>9. q = QueuePath /\ G = FreePaths /\ Contents = <<>>
  BY <1>3, <1>4, <1>8, PathsAreChains
<1>10. TailAwaited
  BY DEF TailAwaited, Init, HeapInit
<1>11. SInv
  BY <1>3, <1>6, <1>8, <1>9, <1>10 DEF SInv, Shape, Loose
<1> QED BY <1>7, <1>8, <1>9, <1>11 DEF Abs!AbsInit

(* The second layer of the invariant holds throughout: the queue and the    *)
(* free lists are lists that end, every other allocated node belongs to one *)
(* call, and a tail that is behind is waited for.                           *)
THEOREM ShapeInvariance == Spec => []SInv
<1>1. Init => SInv
  BY InitSim
<1>2. IInv /\ SInv /\ [Next]_vars => SInv'
  BY StepSim
<1> QED BY <1>1, <1>2, Invariance, PTL DEF Spec

(* Counting threads. *)
LEMMA CountOfThreads ==
  /\ \A A \in SUBSET Threads : Cardinality(A) \in Nat
  /\ \A A, B \in SUBSET Threads :
       A \cap B = {} => Cardinality(A \cup B) = Cardinality(A) + Cardinality(B)
<1>1. IsFiniteSet(Threads)
  BY HeapAssumption, FS_Interval DEF Threads
<1>2. \A A \in SUBSET Threads : IsFiniteSet(A) /\ Cardinality(A) \in Nat
  BY <1>1, FS_Subset, FS_CardinalityType
<1>3. ASSUME NEW A \in SUBSET Threads, NEW B \in SUBSET Threads, A \cap B = {}
      PROVE  Cardinality(A \cup B) = Cardinality(A) + Cardinality(B)
  <2>1. PICK common : common = A \cap B
    OBVIOUS
  <2>2. Cardinality(A \cup B) = Cardinality(A) + Cardinality(B) - Cardinality(common)
    BY <1>2, <2>1, FS_Union
  <2>3. Cardinality(common) = 0
    BY <1>3, <2>1, FS_EmptySet
  <2> QED BY <1>2, <2>2, <2>3
<1> QED BY <1>2, <1>3

(* Every allocated node has exactly one owner: no sequence of calls loses a *)
(* node, recycles one twice or puts one on two lists, and a size field      *)
(* counts its free list.                                                    *)
THEOREM Accounting == Spec => []NodesAccounted
<1>1. IInv /\ SInv => NodesAccounted
  <2> SUFFICES ASSUME IInv, SInv PROVE NodesAccounted
    OBVIOUS
  <2>1. PICK q, G : /\ q = QueuePath /\ G = FreePaths
                    /\ Paths(q, G) /\ heap \ Listed(q, G) = AllOwned
    BY DEF SInv, Shape, Loose
  <2>2. \A t, u \in Threads : /\ Held(t) \cap Unlinked(u) = {}
                              /\ t # u => Owned(t) \cap Owned(u) = {}
    BY OwnedApart DEF IInv
  <2>3. PICK H : H = [t \in Threads |-> Owned(t)]
    OBVIOUS
  <2>4. /\ heap \ Listed(q, G) = UNION {H[t] : t \in Threads}
        /\ \A t, u \in Threads : t # u => H[t] \cap H[u] = {}
    BY <2>1, <2>2, <2>3 DEF AllOwned
  <2>5. /\ InQueue = NodesOf(q)
        /\ \A t \in Threads : ChainNodes(freeHead[t]) = NodesOf(G[t])
    <3>1. num_threads = 0 => q = <<>> /\ NodesOf(q) = {}
      BY <2>1, PathNodes, PathOfNone DEF QueuePath
    <3>2. /\ num_threads # 0 => ChainNodes(head) = NodesOf(q)
          /\ \A t \in Threads : ChainNodes(freeHead[t]) = NodesOf(G[t])
      BY <2>1, PathsAreChains
    <3> QED BY <3>1, <3>2 DEF InQueue
  <2>6. ASSUME NEW x \in Nodes
        PROVE  (IF x \in InQueue THEN 1 ELSE 0)
                 + Cardinality({t \in Threads : x \in ChainNodes(freeHead[t])})
                 + Cardinality({t \in Threads : x \in Held(t)})
                 + Cardinality({t \in Threads : x \in Unlinked(t)})
               = IF x \in heap THEN 1 ELSE 0
    <3>1. (IF x \in NodesOf(q) THEN 1 ELSE 0)
             + Cardinality({t \in Threads : x \in NodesOf(G[t])})
             + Cardinality({t \in Threads : x \in H[t]})
           = IF x \in heap THEN 1 ELSE 0
      BY <2>1, <2>4, OneOwner
    <3>2. PICK A, B, C : /\ A = {t \in Threads : x \in Held(t)}
                         /\ B = {t \in Threads : x \in Unlinked(t)}
                         /\ C = {t \in Threads : x \in ChainNodes(freeHead[t])}
      OBVIOUS
    <3>3. {t \in Threads : x \in NodesOf(G[t])} = C
      BY <2>5, <3>2
    <3>4. {t \in Threads : x \in H[t]} = A \cup B
      BY <2>3, <3>2 DEF Owned
    <3>5. A \cap B = {} /\ A \subseteq Threads /\ B \subseteq Threads /\ C \subseteq Threads
      BY <2>2, <3>2
    <3>6. /\ Cardinality(A \cup B) = Cardinality(A) + Cardinality(B)
          /\ Cardinality(A) \in Nat /\ Cardinality(B) \in Nat /\ Cardinality(C) \in Nat
      BY <3>5, CountOfThreads
    <3>7. (IF x \in NodesOf(q) THEN 1 ELSE 0) + Cardinality(C) + Cardinality(A \cup B)
           = IF x \in heap THEN 1 ELSE 0
      BY <3>1, <3>3, <3>4
    <3>8. (IF x \in InQueue THEN 1 ELSE 0) + Cardinality(C) + Cardinality(A) + Cardinality(B)
           = IF x \in heap THEN 1 ELSE 0
      BY <2>5, <3>6, <3>7
    <3> QED BY <3>2, <3>8
  <2>7. \A t \in Threads : freeSize[t] = Len(Chain(freeHead[t]))
    BY <2>1 DEF Paths, FreePaths
  <2> QED BY <2>6, <2>7 DEF NodesAccounted
<1> QED BY <1>1, Invariance, ShapeInvariance, PTL

(* Along the queue the ranks go up by one. *)
LEMMA PathRanks ==
  ASSUME Control, NEW L, NEW F, NEW rank, NEW start, GInv(L, F, rank, start), Alive,
         NEW q, IsPath(q, head, next)
  PROVE  \A i \in 1 .. Len(q) : q[i] \in L /\ rank[q[i]] = rank[head] + i - 1
<1>1. PICK n \in Nat : n = Len(q)
  BY PathNodes
<1>2. /\ head \in L /\ rank[head] \in Int /\ NULL \notin L
      /\ \A x \in L : rank[x] \in Int
  BY HeapAssumption DEF GInv, GhostTypeOK, Ends
<1>3. /\ n # 0 => head = q[1]
      /\ \A i \in 1 .. n : next[q[i]] = IF i = n THEN NULL ELSE q[i + 1]
  <2>1. n # 0 => q # <<>>
    BY <1>1
  <2> QED BY <1>1, <2>1 DEF IsPath
<1>4. \A x \in L : rank[head] <= rank[x] /\ next[x] # NULL
                     => next[x] \in L /\ rank[next[x]] = rank[x] + 1
  BY DEF GInv, Linked, Covered
<1> DEFINE S == {i \in Nat : i + 1 <= n => q[i + 1] \in L /\ rank[q[i + 1]] = rank[head] + i}
<1>5. 0 \in S
  BY <1>2, <1>3
<1>6. ASSUME NEW i \in Nat, i \in S
      PROVE  i + 1 \in S
  <2> SUFFICES ASSUME i + 2 <= n
               PROVE  q[i + 2] \in L /\ rank[q[i + 2]] = rank[head] + (i + 1)
    OBVIOUS
  <2>1. q[i + 1] \in L /\ rank[q[i + 1]] = rank[head] + i
    BY <1>6
  <2>2. next[q[i + 1]] = q[i + 2] /\ i + 1 # n
    BY <1>3
  <2>3. q[i + 2] # NULL
    <3>1. q[i + 2] \in Nodes
      BY <1>1 DEF IsPath
    <3> QED BY <3>1, HeapAssumption
  <2> QED BY <1>2, <1>4, <2>1, <2>2, <2>3
<1>7. Nat \subseteq S
  BY <1>5, <1>6, NatSetInduction
<1>8. \A i \in 1 .. n : i - 1 \in S
  BY <1>7
<1> HIDE DEF S
<1> TAKE i \in 1 .. Len(q)
<1>9. i - 1 \in S /\ i \in 1 .. n
  BY <1>1, <1>8
<1> QED BY <1>2, <1>9 DEF S

(* tail is in the queue, at its last node or the one before; and if a CAS   *)
(* does not fail for no reason, the call that is going to move it is there. *)
THEOREM TailBehind == Spec => []TailLag
<1>1. IInv /\ SInv => TailLag
  <2> SUFFICES ASSUME IInv, SInv, num_threads # 0
               PROVE  /\ tail \in ChainNodes(head)
                      /\ Len(Chain(tail)) <= 2
                      /\ Len(Chain(tail)) = 2 =>
                           SpuriousCAS \/ \E t \in Threads : pc[t] = "e_swing"
    BY DEF TailLag
  <2>1. PICK L, F, rank, start : GInv(L, F, rank, start)
    BY DEF IInv
  <2>2. Control /\ Alive
    BY DEF IInv, Alive
  <2>3. PICK q, G : Paths(q, G)
    BY Unfold
  <2>4. IsPath(q, head, next) /\ q # <<>> /\ ChainNodes(head) = NodesOf(q)
    BY <2>3, PathsAreChains DEF Paths
  <2>5. /\ head \in L /\ tail \in L /\ rank[head] <= rank[tail] /\ L \subseteq Nodes
        /\ \A x \in L : rank[x] \in Int
    BY <2>1, <2>2 DEF GInv, GhostTypeOK, Ends
  <2>6. tail \in NodesOf(q)
    <3>1. PICK n \in Nat : n = Len(q) /\ n # 0
      BY <2>4, PathNodes
    <3>2. \A i \in 1 .. n : q[i] \in L /\ rank[q[i]] = rank[head] + i - 1
      BY <2>1, <2>2, <2>4, <3>1, PathRanks
    <3>3. next[q[n]] = NULL
      BY <2>4, <3>1 DEF IsPath
    <3>4. rank[tail] <= rank[q[n]]
      <4>1. PICK l : l = q[n]
        OBVIOUS
      <4>2. l \in L /\ rank[head] <= rank[l] /\ next[l] = NULL
        BY <2>5, <3>1, <3>2, <3>3, <4>1
      <4>3. \A y \in L : rank[y] <= rank[l]
        BY <2>1, <4>2 DEF GInv, Linked, Covered
      <4> QED BY <2>5, <4>1, <4>3
    <3>5. PICK k \in 1 .. n : k = rank[tail] - rank[head] + 1
      BY <2>5, <3>1, <3>2, <3>4
    <3>6. q[k] = tail
      BY <2>1, <2>5, <3>2, <3>5 DEF GInv, Linked
    <3> QED BY <3>1, <3>6 DEF NodesOf
  <2>7. CASE next[tail] = NULL
    <3>1. IsPath(<<tail>>, tail, next)
      BY <2>5, <2>7, PathOfOne
    <3>2. Chain(tail) = <<tail>>
      BY <3>1, ChainIsPath DEF Chain
    <3> QED BY <2>4, <2>6, <3>2
  <2>8. CASE next[tail] # NULL
    <3>1. PICK y : y = next[tail]
      OBVIOUS
    <3>2. y \in L /\ rank[y] = rank[tail] + 1
      BY <2>1, <2>5, <2>8, <3>1 DEF GInv, Linked, Covered
    <3>3. next[y] = NULL
      BY <2>1, <2>2, <3>2, LastBehindTail
    <3>4. IsPath(<<y>>, y, next) /\ NodesOf(<<y>>) = {y} /\ Len(<<y>>) = 1
      BY <2>5, <3>2, <3>3, PathOfOne
    <3>5. tail \in Nodes \ NodesOf(<<y>>)
      BY <2>5, <3>2, <3>4
    <3>6. IsPath(<<tail>> \o <<y>>, tail, next) /\ Len(<<tail>> \o <<y>>) = 2
      BY <3>1, <3>4, <3>5, PathPush
    <3>7. Chain(tail) = <<tail>> \o <<y>>
      BY <3>6, ChainIsPath DEF Chain
    <3>8. SpuriousCAS \/ \E t \in Threads : pc[t] = "e_swing"
      BY <2>2, <2>8 DEF SInv, TailAwaited
    <3> QED BY <2>4, <2>6, <3>6, <3>7, <3>8
  <2> QED BY <2>7, <2>8
<1> QED BY <1>1, Invariance, ShapeInvariance, PTL

(* Every enq and deq takes effect at one instant between its beginning and  *)
(* its return, in first-in-first-out order, and a deq that fails has seen   *)
(* the queue empty: for any number of threads, and although nodes are       *)
(* recycled and counters wrap.                                              *)
THEOREM Linearizability == Spec => Linearizable
<1>1. Init => Abs!AbsInit
  BY InitSim
<1>2. IInv /\ SInv /\ [Next]_vars => [Abs!AbsNext]_(Abs!avars)
  BY StepSim
<1>3. Spec => Abs!AbsInit /\ [][Abs!AbsNext]_(Abs!avars)
  BY <1>1, <1>2, Invariance, ShapeInvariance, PTL DEF Spec
<1> QED BY <1>3 DEF Linearizable, Abs!AbsSpec
====================================================================================
