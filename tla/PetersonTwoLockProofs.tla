--------------------------- MODULE PetersonTwoLockProofs ---------------------------
(***************************************************************************)
(* What is proved about PetersonTwoLock for every number of threads and    *)
(* every set of nodes and values: the control of the archived queue, that  *)
(* is, how its three locks are set and given back.  That Peterson's keeps  *)
(* nobody out, and what the data races do to the lists, are no theorems    *)
(* but counterexamples, PlockExclusive and NothingLost.                    *)
(***************************************************************************)
EXTENDS PetersonTwoLock, NodeListsProofs

(* Each lock is held by the thread in its section. *)
Locked ==
  \A t \in Threads : /\ pc[t] \in EnqLabels \ {"e_lock"} <=> enq_lock = t
                     /\ pc[t] \in DeqLabels \ {"d_lock"} <=> deq_lock = t

(* A call has a queue with a dummy node, which enq has read before it reads *)
(* its next, and deq a node to recycle.                                     *)
Pointers ==
  /\ \A t \in Threads : pc[t] # "idle" => num_threads # 0
  /\ num_threads # 0 => head # NULL
  /\ \A t \in Threads : /\ pc[t] = "e_first" => nxt[t] # NULL
                        /\ pc[t] = "d_head" => node[t] # NULL

(* aba_wait is set by the test that leads to lock_peterson and by no other. *)
AbaWait ==
  \A t \in Threads :
    /\ aba_wait[t] => pc[t] \notin {"idle", "e_lock", "e_head", "e_first", "e_test",
                                    "d_lock", "d_next", "d_test"}
    /\ pc[t] \in {"e_plock", "e_wait", "d_plock", "d_wait"} => aba_wait[t]

(* Thread t has called lock_peterson and not yet unlock_peterson.           *)
Contends(t) == aba_wait[t] /\ pc[t] \in Waited \cup {"e_wait", "d_wait"}

(* A flag is up, or its store under way, exactly for a side that contends.  *)
Flags ==
  \A i \in Ids :
    /\ flag[i] \/ pending[i] = 2 <=> \E t \in Threads : Id(t) = i /\ Contends(t)
    /\ pending[i] # 0 => \E t \in Threads : Id(t) = i /\ Contends(t)

IInv == TypeOK /\ Locked /\ Pointers /\ AbaWait /\ Flags

-----------------------------------------------------------------------------
(* What a step of t leaves alone of the others. *)
OthersSame(t) ==
  \A u \in Threads \ {t} : pc'[u] = pc[u] /\ aba_wait'[u] = aba_wait[u] /\ node'[u] = node[u]

(* Locked is kept by a step of t that sets or gives back those locks whose  *)
(* section it enters or leaves.                                             *)
LEMMA LockStep ==
  ASSUME Locked, NEW t \in Threads, OthersSame(t),
         \/ /\ enq_lock' = enq_lock
            /\ pc[t] \in EnqLabels \ {"e_lock"} <=> pc'[t] \in EnqLabels \ {"e_lock"}
         \/ enq_lock = Unset /\ enq_lock' = t /\ pc'[t] \in EnqLabels \ {"e_lock"}
         \/ /\ pc[t] \in EnqLabels \ {"e_lock"} /\ enq_lock' = Unset
            /\ pc'[t] \notin EnqLabels \ {"e_lock"},
         \/ /\ deq_lock' = deq_lock
            /\ pc[t] \in DeqLabels \ {"d_lock"} <=> pc'[t] \in DeqLabels \ {"d_lock"}
         \/ deq_lock = Unset /\ deq_lock' = t /\ pc'[t] \in DeqLabels \ {"d_lock"}
         \/ /\ pc[t] \in DeqLabels \ {"d_lock"} /\ deq_lock' = Unset
            /\ pc'[t] \notin DeqLabels \ {"d_lock"}
  PROVE  Locked'
<1> DEFINE InEnq(l) == l \in EnqLabels \ {"e_lock"}
           InDeq(l) == l \in DeqLabels \ {"d_lock"}
<1>1. \A u \in Threads : (InEnq(pc[u]) <=> enq_lock = u) /\ (InDeq(pc[u]) <=> deq_lock = u)
  BY DEF Locked
<1>2. \A u \in Threads : u # Unset
  BY HeapAssumption DEF Threads, Unset
<1>3. \A u \in Threads \ {t} : pc'[u] = pc[u]
  BY DEF OthersSame
<1>4. /\ \/ enq_lock' = enq_lock /\ (InEnq(pc[t]) <=> InEnq(pc'[t]))
         \/ enq_lock = Unset /\ enq_lock' = t /\ InEnq(pc'[t])
         \/ InEnq(pc[t]) /\ enq_lock' = Unset /\ ~InEnq(pc'[t])
      /\ \/ deq_lock' = deq_lock /\ (InDeq(pc[t]) <=> InDeq(pc'[t]))
         \/ deq_lock = Unset /\ deq_lock' = t /\ InDeq(pc'[t])
         \/ InDeq(pc[t]) /\ deq_lock' = Unset /\ ~InDeq(pc'[t])
  OBVIOUS
<1> HIDE DEF InEnq, InDeq
<1>5. \A u \in Threads : (InEnq(pc'[u]) <=> enq_lock' = u) /\ (InDeq(pc'[u]) <=> deq_lock' = u)
  BY <1>1, <1>2, <1>3, <1>4
<1> QED BY <1>5 DEF Locked, InEnq, InDeq

(* Only the holder of a side's lock contends for it. *)
LEMMA Alone ==
  ASSUME Locked, NEW t \in Threads, NEW u \in Threads,
         Contends(t), Contends(u), Id(t) = Id(u)
  PROVE  t = u
  BY DEF Locked, Contends, Waited, Id, EnqLabels, DeqLabels

(* The id of a thread is one of the two. *)
LEMMA IdType == ASSUME NEW t PROVE Id(t) \in Ids
  BY DEF Id, Ids

(* A step that does nothing with Peterson's lock. *)
LEMMA PlockSame ==
  ASSUME Flags, NEW t \in Threads, OthersSame(t), UNCHANGED plock,
         Contends(t)' <=> Contends(t), Contends(t) => Id(t)' = Id(t)
  PROVE  Flags'
<1>1. \A u \in Threads : /\ Contends(u)' <=> Contends(u)
                         /\ Contends(u) => Id(u)' = Id(u)
  BY DEF OthersSame, Contends, Id
<1>2. flag' = flag /\ pending' = pending
  BY DEF plock
<1> SUFFICES ASSUME NEW i \in Ids
             PROVE  (\E u \in Threads : Id(u)' = i /\ Contends(u)')
                      <=> \E u \in Threads : Id(u) = i /\ Contends(u)
  BY <1>2 DEF Flags
<1> QED BY <1>1

(* A call of enq begins.                                                    *)
LEMMA CallEnqStep ==
  ASSUME IInv, NEW t \in Threads, NEW v \in Values, CallEnq(t, v)
  PROVE  IInv'
<1> USE DEF CallEnq, GoTo, heapVars, locks, plock, localVars
<1>0. TypeOK /\ Locked /\ Pointers /\ AbaWait /\ Flags
  BY DEF IInv
<1>1. TypeOK'
  BY <1>0, HeapAssumption
  DEF TypeOK, HeapTypeOK, NodeOrNULL, ValueOrNULL, EnqLabels, DeqLabels, Threads, Unset, Ids, Pointers
<1>2. OthersSame(t)
  BY <1>0 DEF OthersSame, TypeOK
<1>3. Locked'
  BY <1>0, <1>2, LockStep DEF TypeOK, EnqLabels, DeqLabels
<1>4. Pointers'
  BY <1>0, HeapAssumption DEF Pointers, TypeOK, HeapTypeOK, NodeOrNULL
<1>5. AbaWait'
  BY <1>0, <1>2 DEF AbaWait, OthersSame, TypeOK
<1>6. Flags'
  <2>1. /\ Contends(t)' <=> Contends(t)
        /\ Contends(t) => Id(t)' = Id(t)
    BY <1>0 DEF Contends, Waited, Id, EnqLabels, DeqLabels, TypeOK, AbaWait
  <2> QED BY <1>0, <1>2, <2>1, PlockSame
<1> QED BY <1>1, <1>3, <1>4, <1>5, <1>6 DEF IInv

(* A call of deq begins.                                                    *)
LEMMA CallDeqStep ==
  ASSUME IInv, NEW t \in Threads, CallDeq(t)
  PROVE  IInv'
<1> USE DEF CallDeq, GoTo, heapVars, locks, plock, localVars
<1>0. TypeOK /\ Locked /\ Pointers /\ AbaWait /\ Flags
  BY DEF IInv
<1>1. TypeOK'
  BY <1>0, HeapAssumption
  DEF TypeOK, HeapTypeOK, NodeOrNULL, ValueOrNULL, EnqLabels, DeqLabels, Threads, Unset, Ids, Pointers
<1>2. OthersSame(t)
  BY <1>0 DEF OthersSame, TypeOK
<1>3. Locked'
  BY <1>0, <1>2, LockStep DEF TypeOK, EnqLabels, DeqLabels
<1>4. Pointers'
  BY <1>0, HeapAssumption DEF Pointers, TypeOK, HeapTypeOK, NodeOrNULL
<1>5. AbaWait'
  BY <1>0, <1>2 DEF AbaWait, OthersSame, TypeOK
<1>6. Flags'
  <2>1. /\ Contends(t)' <=> Contends(t)
        /\ Contends(t) => Id(t)' = Id(t)
    BY <1>0 DEF Contends, Waited, Id, EnqLabels, DeqLabels, TypeOK, AbaWait
  <2> QED BY <1>0, <1>2, <2>1, PlockSame
<1> QED BY <1>1, <1>3, <1>4, <1>5, <1>6 DEF IInv

(* A call gets the lock of its side.                                        *)
LEMMA SetLockStep ==
  ASSUME IInv, NEW t \in Threads, SetLock(t)
  PROVE  IInv'
<1> USE DEF SetLock, GoTo, heapVars, locks, plock, localVars
<1>0. TypeOK /\ Locked /\ Pointers /\ AbaWait /\ Flags
  BY DEF IInv
<1>1. TypeOK'
  <2>1. HeapTypeOK'
    BY <1>0 DEF TypeOK, HeapTypeOK, NodeOrNULL
  <2> QED BY <1>0, <2>1 DEF TypeOK, EnqLabels, DeqLabels
<1>2. OthersSame(t)
  BY <1>0 DEF OthersSame, TypeOK
<1>3. Locked'
  BY <1>0, <1>2, LockStep DEF TypeOK, EnqLabels, DeqLabels
<1>4. Pointers'
  BY <1>0, HeapAssumption DEF Pointers, TypeOK, HeapTypeOK, NodeOrNULL
<1>5. AbaWait'
  BY <1>0, <1>2 DEF AbaWait, OthersSame, TypeOK
<1>6. Flags'
  <2>1. /\ Contends(t)' <=> Contends(t)
        /\ Contends(t) => Id(t)' = Id(t)
    BY <1>0 DEF Contends, Waited, Id, EnqLabels, DeqLabels, TypeOK, AbaWait
  <2> QED BY <1>0, <1>2, <2>1, PlockSame
<1> QED BY <1>1, <1>3, <1>4, <1>5, <1>6 DEF IInv

(* enq reads head.                                                          *)
LEMMA EnqReadHeadStep ==
  ASSUME IInv, NEW t \in Threads, EnqReadHead(t)
  PROVE  IInv'
<1> USE DEF EnqReadHead, GoTo, heapVars, locks, plock, localVars
<1>0. TypeOK /\ Locked /\ Pointers /\ AbaWait /\ Flags
  BY DEF IInv
<1>1. TypeOK'
  BY <1>0, HeapAssumption
  DEF TypeOK, HeapTypeOK, NodeOrNULL, ValueOrNULL, EnqLabels, DeqLabels, Threads, Unset, Ids, Pointers
<1>2. OthersSame(t)
  BY <1>0 DEF OthersSame, TypeOK
<1>3. Locked'
  BY <1>0, <1>2, LockStep DEF TypeOK, EnqLabels, DeqLabels
<1>4. Pointers'
  BY <1>0, HeapAssumption DEF Pointers, TypeOK, HeapTypeOK, NodeOrNULL
<1>5. AbaWait'
  BY <1>0, <1>2 DEF AbaWait, OthersSame, TypeOK
<1>6. Flags'
  <2>1. /\ Contends(t)' <=> Contends(t)
        /\ Contends(t) => Id(t)' = Id(t)
    BY <1>0 DEF Contends, Waited, Id, EnqLabels, DeqLabels, TypeOK, AbaWait
  <2> QED BY <1>0, <1>2, <2>1, PlockSame
<1> QED BY <1>1, <1>3, <1>4, <1>5, <1>6 DEF IInv

(* enq reads the first of the two pointers it compares.                     *)
LEMMA EnqReadFirstStep ==
  ASSUME IInv, NEW t \in Threads, EnqReadFirst(t)
  PROVE  IInv'
<1> USE DEF EnqReadFirst, GoTo, heapVars, locks, plock, localVars
<1>0. TypeOK /\ Locked /\ Pointers /\ AbaWait /\ Flags
  BY DEF IInv
<1>1. TypeOK'
  <2>1. nxt[t] \in Nodes /\ next[nxt[t]] \in NodeOrNULL /\ tail \in NodeOrNULL
    BY <1>0 DEF TypeOK, HeapTypeOK, NodeOrNULL, Pointers
  <2>2. nxt' \in [Threads -> NodeOrNULL] /\ last' \in [Threads -> NodeOrNULL]
    BY <1>0, <2>1 DEF TypeOK
  <2>3. pc' \in [Threads -> {"idle"} \cup EnqLabels \cup DeqLabels]
    BY <1>0 DEF TypeOK, EnqLabels
  <2> QED BY <1>0, <2>2, <2>3 DEF TypeOK, HeapTypeOK
<1>2. OthersSame(t)
  BY <1>0 DEF OthersSame, TypeOK
<1>3. Locked'
  BY <1>0, <1>2, LockStep DEF TypeOK, EnqLabels, DeqLabels
<1>4. Pointers'
  BY <1>0, HeapAssumption DEF Pointers, TypeOK, HeapTypeOK, NodeOrNULL
<1>5. AbaWait'
  BY <1>0, <1>2 DEF AbaWait, OthersSame, TypeOK
<1>6. Flags'
  <2>1. /\ Contends(t)' <=> Contends(t)
        /\ Contends(t) => Id(t)' = Id(t)
    BY <1>0 DEF Contends, Waited, Id, EnqLabels, DeqLabels, TypeOK, AbaWait
  <2> QED BY <1>0, <1>2, <2>1, PlockSame
<1> QED BY <1>1, <1>3, <1>4, <1>5, <1>6 DEF IInv

(* enq tests whether the queue has one element; aba_wait is set.            *)
LEMMA EnqTestStep ==
  ASSUME IInv, NEW t \in Threads, EnqTest(t)
  PROVE  IInv'
<1> USE DEF EnqTest, GoTo, heapVars, locks, plock, localVars
<1>0. TypeOK /\ Locked /\ Pointers /\ AbaWait /\ Flags
  BY DEF IInv
<1>1. TypeOK'
  BY <1>0, HeapAssumption
  DEF TypeOK, HeapTypeOK, NodeOrNULL, ValueOrNULL, EnqLabels, DeqLabels, Threads, Unset, Ids, Pointers
<1>2. OthersSame(t)
  BY <1>0 DEF OthersSame, TypeOK
<1>3. Locked'
  BY <1>0, <1>2, LockStep DEF TypeOK, EnqLabels, DeqLabels
<1>4. Pointers'
  BY <1>0, HeapAssumption DEF Pointers, TypeOK, HeapTypeOK, NodeOrNULL
<1>5. AbaWait'
  BY <1>0, <1>2 DEF AbaWait, OthersSame, TypeOK
<1>6. Flags'
  <2>1. /\ Contends(t)' <=> Contends(t)
        /\ Contends(t) => Id(t)' = Id(t)
    BY <1>0 DEF Contends, Waited, Id, EnqLabels, DeqLabels, TypeOK, AbaWait
  <2> QED BY <1>0, <1>2, <2>1, PlockSame
<1> QED BY <1>1, <1>3, <1>4, <1>5, <1>6 DEF IInv

(* deq reads head->next.                                                    *)
LEMMA DeqReadNextStep ==
  ASSUME IInv, NEW t \in Threads, DeqReadNext(t)
  PROVE  IInv'
<1> USE DEF DeqReadNext, GoTo, heapVars, locks, plock, localVars
<1>0. TypeOK /\ Locked /\ Pointers /\ AbaWait /\ Flags
  BY DEF IInv
<1>1. TypeOK'
  BY <1>0, HeapAssumption
  DEF TypeOK, HeapTypeOK, NodeOrNULL, ValueOrNULL, EnqLabels, DeqLabels, Threads, Unset, Ids, Pointers
<1>2. OthersSame(t)
  BY <1>0 DEF OthersSame, TypeOK
<1>3. Locked'
  BY <1>0, <1>2, LockStep DEF TypeOK, EnqLabels, DeqLabels
<1>4. Pointers'
  BY <1>0, HeapAssumption DEF Pointers, TypeOK, HeapTypeOK, NodeOrNULL
<1>5. AbaWait'
  BY <1>0, <1>2 DEF AbaWait, OthersSame, TypeOK
<1>6. Flags'
  <2>1. /\ Contends(t)' <=> Contends(t)
        /\ Contends(t) => Id(t)' = Id(t)
    BY <1>0 DEF Contends, Waited, Id, EnqLabels, DeqLabels, TypeOK, AbaWait
  <2> QED BY <1>0, <1>2, <2>1, PlockSame
<1> QED BY <1>1, <1>3, <1>4, <1>5, <1>6 DEF IInv

(* Likewise deq, which has read head->next and tail for later.              *)
LEMMA DeqTestStep ==
  ASSUME IInv, NEW t \in Threads, DeqTest(t)
  PROVE  IInv'
<1> USE DEF DeqTest, GoTo, heapVars, locks, plock, localVars
<1>0. TypeOK /\ Locked /\ Pointers /\ AbaWait /\ Flags
  BY DEF IInv
<1>1. TypeOK'
  BY <1>0, HeapAssumption
  DEF TypeOK, HeapTypeOK, NodeOrNULL, ValueOrNULL, EnqLabels, DeqLabels, Threads, Unset, Ids, Pointers
<1>2. OthersSame(t)
  BY <1>0 DEF OthersSame, TypeOK
<1>3. Locked'
  BY <1>0, <1>2, LockStep DEF TypeOK, EnqLabels, DeqLabels
<1>4. Pointers'
  BY <1>0, HeapAssumption DEF Pointers, TypeOK, HeapTypeOK, NodeOrNULL
<1>5. AbaWait'
  BY <1>0, <1>2 DEF AbaWait, OthersSame, TypeOK
<1>6. Flags'
  <2>1. /\ Contends(t)' <=> Contends(t)
        /\ Contends(t) => Id(t)' = Id(t)
    BY <1>0 DEF Contends, Waited, Id, EnqLabels, DeqLabels, TypeOK, AbaWait
  <2> QED BY <1>0, <1>2, <2>1, PlockSame
<1> QED BY <1>1, <1>3, <1>4, <1>5, <1>6 DEF IInv

(* lock_peterson issues its stores.                                         *)
LEMMA LockPetersonStep ==
  ASSUME IInv, NEW t \in Threads, LockPeterson(t)
  PROVE  IInv'
<1> USE DEF LockPeterson, GoTo, heapVars, locks, plock, localVars
<1>0. TypeOK /\ Locked /\ Pointers /\ AbaWait /\ Flags
  BY DEF IInv
<1>1. TypeOK'
  <2>1. pending' \in [Ids -> 0 .. 2]
    BY <1>0, IdType DEF TypeOK
  <2>2. pc' \in [Threads -> {"idle"} \cup EnqLabels \cup DeqLabels]
    BY <1>0 DEF TypeOK, EnqLabels, DeqLabels
  <2> QED BY <1>0, <2>1, <2>2 DEF TypeOK, HeapTypeOK
<1>2. OthersSame(t)
  BY <1>0 DEF OthersSame, TypeOK
<1>3. Locked'
  BY <1>0, <1>2, LockStep DEF TypeOK, EnqLabels, DeqLabels
<1>4. Pointers'
  BY <1>0, HeapAssumption DEF Pointers, TypeOK, HeapTypeOK, NodeOrNULL
<1>5. AbaWait'
  BY <1>0, <1>2 DEF AbaWait, OthersSame, TypeOK
<1>i. PICK i \in Ids : i = Id(t)
  BY IdType
<1>a. /\ Contends(t)' /\ Id(t)' = i /\ ~Contends(t)
      /\ pc[t] \in {"e_plock", "d_plock"}
  BY <1>0, <1>i DEF Contends, Waited, Id, EnqLabels, DeqLabels, TypeOK, AbaWait
<1>b. \A u \in Threads \ {t} : /\ Contends(u)' <=> Contends(u)
                               /\ Id(u)' = Id(u)
  BY <1>2 DEF OthersSame, Contends, Id
<1>c. /\ pending'[i] = 2 /\ \A j \in Ids \ {i} : pending'[j] = pending[j]
      /\ flag' = flag
  BY <1>0, <1>i DEF TypeOK
<1>d. \A u \in Threads \ {t} : Contends(u) => Id(u) # i
  BY <1>0, <1>i, <1>a DEF Locked, Contends, Waited, Id, EnqLabels, DeqLabels
<1>6. Flags'
  BY <1>0, <1>a, <1>b, <1>c, <1>d DEF Flags
<1> QED BY <1>1, <1>3, <1>4, <1>5, <1>6 DEF IInv

(* The wait for Peterson's lock ends.                                       *)
LEMMA EndWaitStep ==
  ASSUME IInv, NEW t \in Threads, EndWait(t)
  PROVE  IInv'
<1> USE DEF EndWait, GoTo, heapVars, locks, plock, localVars
<1>0. TypeOK /\ Locked /\ Pointers /\ AbaWait /\ Flags
  BY DEF IInv
<1>1. TypeOK'
  BY <1>0, HeapAssumption
  DEF TypeOK, HeapTypeOK, NodeOrNULL, ValueOrNULL, EnqLabels, DeqLabels, Threads, Unset, Ids, Pointers
<1>2. OthersSame(t)
  BY <1>0 DEF OthersSame, TypeOK
<1>3. Locked'
  BY <1>0, <1>2, LockStep DEF TypeOK, EnqLabels, DeqLabels
<1>4. Pointers'
  BY <1>0, HeapAssumption DEF Pointers, TypeOK, HeapTypeOK, NodeOrNULL
<1>5. AbaWait'
  BY <1>0, <1>2 DEF AbaWait, OthersSame, TypeOK
<1>6. Flags'
  <2>1. /\ Contends(t)' <=> Contends(t)
        /\ Contends(t) => Id(t)' = Id(t)
    BY <1>0 DEF Contends, Waited, Id, EnqLabels, DeqLabels, TypeOK, AbaWait
  <2> QED BY <1>0, <1>2, <2>1, PlockSame
<1> QED BY <1>1, <1>3, <1>4, <1>5, <1>6 DEF IInv

(* enq gets a node.                                                         *)
LEMMA EnqUpcycleStep ==
  ASSUME IInv, NEW t \in Threads, EnqUpcycle(t)
  PROVE  IInv'
<1> USE DEF EnqUpcycle, GoTo, heapVars, locks, plock, localVars
<1>0. TypeOK /\ Locked /\ Pointers /\ AbaWait /\ Flags
  BY DEF IInv
<1>h. HeapTypeOK'
  BY <1>0, UpcycleType DEF TypeOK
<1>1. TypeOK'
  BY <1>0, <1>h, HeapAssumption DEF TypeOK, HeapTypeOK, NodeOrNULL, ValueOrNULL, EnqLabels, DeqLabels
<1>2. OthersSame(t)
  BY <1>0 DEF OthersSame, TypeOK
<1>3. Locked'
  BY <1>0, <1>2, LockStep DEF TypeOK, EnqLabels, DeqLabels
<1>4. Pointers'
  BY <1>0, HeapAssumption, <1>1 DEF Pointers, TypeOK, HeapTypeOK, NodeOrNULL
<1>5. AbaWait'
  BY <1>0, <1>2 DEF AbaWait, OthersSame, TypeOK
<1>6. Flags'
  <2>1. /\ Contends(t)' <=> Contends(t)
        /\ Contends(t) => Id(t)' = Id(t)
    BY <1>0 DEF Contends, Waited, Id, EnqLabels, DeqLabels, TypeOK, AbaWait
  <2> QED BY <1>0, <1>2, <2>1, PlockSame
<1> QED BY <1>1, <1>3, <1>4, <1>5, <1>6 DEF IInv

(* enq gets none.                                                           *)
LEMMA EnqNoMemoryStep ==
  ASSUME IInv, NEW t \in Threads, EnqNoMemory(t)
  PROVE  IInv'
<1> USE DEF EnqNoMemory, GoTo, heapVars, locks, plock, localVars
<1>0. TypeOK /\ Locked /\ Pointers /\ AbaWait /\ Flags
  BY DEF IInv
<1>1. TypeOK'
  BY <1>0, HeapAssumption
  DEF TypeOK, HeapTypeOK, NodeOrNULL, ValueOrNULL, EnqLabels, DeqLabels, Threads, Unset, Ids, Pointers
<1>2. OthersSame(t)
  BY <1>0 DEF OthersSame, TypeOK
<1>3. Locked'
  BY <1>0, <1>2, LockStep DEF TypeOK, EnqLabels, DeqLabels
<1>4. Pointers'
  BY <1>0, HeapAssumption DEF Pointers, TypeOK, HeapTypeOK, NodeOrNULL
<1>5. AbaWait'
  BY <1>0, <1>2 DEF AbaWait, OthersSame, TypeOK
<1>6. Flags'
  <2>1. /\ Contends(t)' <=> Contends(t)
        /\ Contends(t) => Id(t)' = Id(t)
    BY <1>0 DEF Contends, Waited, Id, EnqLabels, DeqLabels, TypeOK, AbaWait
  <2> QED BY <1>0, <1>2, <2>1, PlockSame
<1> QED BY <1>1, <1>3, <1>4, <1>5, <1>6 DEF IInv

(* enq writes its value into the node.                                      *)
LEMMA EnqFillStep ==
  ASSUME IInv, NEW t \in Threads, EnqFill(t)
  PROVE  IInv'
<1> USE DEF EnqFill, GoTo, heapVars, locks, plock, localVars
<1>0. TypeOK /\ Locked /\ Pointers /\ AbaWait /\ Flags
  BY DEF IInv
<1>1. TypeOK'
  BY <1>0, HeapAssumption
  DEF TypeOK, HeapTypeOK, NodeOrNULL, ValueOrNULL, EnqLabels, DeqLabels, Threads, Unset, Ids, Pointers
<1>2. OthersSame(t)
  BY <1>0 DEF OthersSame, TypeOK
<1>3. Locked'
  BY <1>0, <1>2, LockStep DEF TypeOK, EnqLabels, DeqLabels
<1>4. Pointers'
  BY <1>0, HeapAssumption DEF Pointers, TypeOK, HeapTypeOK, NodeOrNULL
<1>5. AbaWait'
  BY <1>0, <1>2 DEF AbaWait, OthersSame, TypeOK
<1>6. Flags'
  <2>1. /\ Contends(t)' <=> Contends(t)
        /\ Contends(t) => Id(t)' = Id(t)
    BY <1>0 DEF Contends, Waited, Id, EnqLabels, DeqLabels, TypeOK, AbaWait
  <2> QED BY <1>0, <1>2, <2>1, PlockSame
<1> QED BY <1>1, <1>3, <1>4, <1>5, <1>6 DEF IInv

(* enq reads tail, or uses what its test has read.                          *)
LEMMA EnqReadTailStep ==
  ASSUME IInv, NEW t \in Threads, EnqReadTail(t)
  PROVE  IInv'
<1> USE DEF EnqReadTail, GoTo, heapVars, locks, plock, localVars
<1>0. TypeOK /\ Locked /\ Pointers /\ AbaWait /\ Flags
  BY DEF IInv
<1>1. TypeOK'
  BY <1>0, HeapAssumption
  DEF TypeOK, HeapTypeOK, NodeOrNULL, ValueOrNULL, EnqLabels, DeqLabels, Threads, Unset, Ids, Pointers
<1>2. OthersSame(t)
  BY <1>0 DEF OthersSame, TypeOK
<1>3. Locked'
  BY <1>0, <1>2, LockStep DEF TypeOK, EnqLabels, DeqLabels
<1>4. Pointers'
  BY <1>0, HeapAssumption DEF Pointers, TypeOK, HeapTypeOK, NodeOrNULL
<1>5. AbaWait'
  BY <1>0, <1>2 DEF AbaWait, OthersSame, TypeOK
<1>6. Flags'
  <2>1. /\ Contends(t)' <=> Contends(t)
        /\ Contends(t) => Id(t)' = Id(t)
    BY <1>0 DEF Contends, Waited, Id, EnqLabels, DeqLabels, TypeOK, AbaWait
  <2> QED BY <1>0, <1>2, <2>1, PlockSame
<1> QED BY <1>1, <1>3, <1>4, <1>5, <1>6 DEF IInv

(* enq links the node behind the one that tail points to.                   *)
LEMMA EnqLinkStep ==
  ASSUME IInv, NEW t \in Threads, EnqLink(t)
  PROVE  IInv'
<1> USE DEF EnqLink, GoTo, heapVars, locks, plock, localVars
<1>0. TypeOK /\ Locked /\ Pointers /\ AbaWait /\ Flags
  BY DEF IInv
<1>1. TypeOK'
  BY <1>0, HeapAssumption
  DEF TypeOK, HeapTypeOK, NodeOrNULL, ValueOrNULL, EnqLabels, DeqLabels, Threads, Unset, Ids, Pointers
<1>2. OthersSame(t)
  BY <1>0 DEF OthersSame, TypeOK
<1>3. Locked'
  BY <1>0, <1>2, LockStep DEF TypeOK, EnqLabels, DeqLabels
<1>4. Pointers'
  BY <1>0, HeapAssumption DEF Pointers, TypeOK, HeapTypeOK, NodeOrNULL
<1>5. AbaWait'
  BY <1>0, <1>2 DEF AbaWait, OthersSame, TypeOK
<1>6. Flags'
  <2>1. /\ Contends(t)' <=> Contends(t)
        /\ Contends(t) => Id(t)' = Id(t)
    BY <1>0 DEF Contends, Waited, Id, EnqLabels, DeqLabels, TypeOK, AbaWait
  <2> QED BY <1>0, <1>2, <2>1, PlockSame
<1> QED BY <1>1, <1>3, <1>4, <1>5, <1>6 DEF IInv

(* enq moves tail.                                                          *)
LEMMA EnqSwingStep ==
  ASSUME IInv, NEW t \in Threads, EnqSwing(t)
  PROVE  IInv'
<1> USE DEF EnqSwing, GoTo, heapVars, locks, plock, localVars
<1>0. TypeOK /\ Locked /\ Pointers /\ AbaWait /\ Flags
  BY DEF IInv
<1>1. TypeOK'
  BY <1>0, HeapAssumption
  DEF TypeOK, HeapTypeOK, NodeOrNULL, ValueOrNULL, EnqLabels, DeqLabels, Threads, Unset, Ids, Pointers
<1>2. OthersSame(t)
  BY <1>0 DEF OthersSame, TypeOK
<1>3. Locked'
  BY <1>0, <1>2, LockStep DEF TypeOK, EnqLabels, DeqLabels
<1>4. Pointers'
  BY <1>0, HeapAssumption DEF Pointers, TypeOK, HeapTypeOK, NodeOrNULL
<1>5. AbaWait'
  BY <1>0, <1>2 DEF AbaWait, OthersSame, TypeOK
<1>6. Flags'
  <2>1. /\ Contends(t)' <=> Contends(t)
        /\ Contends(t) => Id(t)' = Id(t)
    BY <1>0 DEF Contends, Waited, Id, EnqLabels, DeqLabels, TypeOK, AbaWait
  <2> QED BY <1>0, <1>2, <2>1, PlockSame
<1> QED BY <1>1, <1>3, <1>4, <1>5, <1>6 DEF IInv

(* deq tests whether the queue is empty.                                    *)
LEMMA DeqEmptyStep ==
  ASSUME IInv, NEW t \in Threads, DeqEmpty(t)
  PROVE  IInv'
<1> USE DEF DeqEmpty, GoTo, heapVars, locks, plock, localVars
<1>0. TypeOK /\ Locked /\ Pointers /\ AbaWait /\ Flags
  BY DEF IInv
<1>1. TypeOK'
  BY <1>0, HeapAssumption
  DEF TypeOK, HeapTypeOK, NodeOrNULL, ValueOrNULL, EnqLabels, DeqLabels, Threads, Unset, Ids, Pointers
<1>2. OthersSame(t)
  BY <1>0 DEF OthersSame, TypeOK
<1>3. Locked'
  BY <1>0, <1>2, LockStep DEF TypeOK, EnqLabels, DeqLabels
<1>4. Pointers'
  BY <1>0, HeapAssumption DEF Pointers, TypeOK, HeapTypeOK, NodeOrNULL
<1>5. AbaWait'
  BY <1>0, <1>2 DEF AbaWait, OthersSame, TypeOK
<1>6. Flags'
  <2>1. /\ Contends(t)' <=> Contends(t)
        /\ Contends(t) => Id(t)' = Id(t)
    BY <1>0 DEF Contends, Waited, Id, EnqLabels, DeqLabels, TypeOK, AbaWait
  <2> QED BY <1>0, <1>2, <2>1, PlockSame
<1> QED BY <1>1, <1>3, <1>4, <1>5, <1>6 DEF IInv

(* deq reads the value.                                                     *)
LEMMA DeqReadValueStep ==
  ASSUME IInv, NEW t \in Threads, DeqReadValue(t)
  PROVE  IInv'
<1> USE DEF DeqReadValue, GoTo, heapVars, locks, plock, localVars
<1>0. TypeOK /\ Locked /\ Pointers /\ AbaWait /\ Flags
  BY DEF IInv
<1>1. TypeOK'
  BY <1>0, HeapAssumption
  DEF TypeOK, HeapTypeOK, NodeOrNULL, ValueOrNULL, EnqLabels, DeqLabels, Threads, Unset, Ids, Pointers
<1>2. OthersSame(t)
  BY <1>0 DEF OthersSame, TypeOK
<1>3. Locked'
  BY <1>0, <1>2, LockStep DEF TypeOK, EnqLabels, DeqLabels
<1>4. Pointers'
  BY <1>0, HeapAssumption DEF Pointers, TypeOK, HeapTypeOK, NodeOrNULL
<1>5. AbaWait'
  BY <1>0, <1>2 DEF AbaWait, OthersSame, TypeOK
<1>6. Flags'
  <2>1. /\ Contends(t)' <=> Contends(t)
        /\ Contends(t) => Id(t)' = Id(t)
    BY <1>0 DEF Contends, Waited, Id, EnqLabels, DeqLabels, TypeOK, AbaWait
  <2> QED BY <1>0, <1>2, <2>1, PlockSame
<1> QED BY <1>1, <1>3, <1>4, <1>5, <1>6 DEF IInv

(* deq moves head.                                                          *)
LEMMA DeqMoveHeadStep ==
  ASSUME IInv, NEW t \in Threads, DeqMoveHead(t)
  PROVE  IInv'
<1> USE DEF DeqMoveHead, GoTo, heapVars, locks, plock, localVars
<1>0. TypeOK /\ Locked /\ Pointers /\ AbaWait /\ Flags
  BY DEF IInv
<1>1. TypeOK'
  BY <1>0, HeapAssumption
  DEF TypeOK, HeapTypeOK, NodeOrNULL, ValueOrNULL, EnqLabels, DeqLabels, Threads, Unset, Ids, Pointers
<1>2. OthersSame(t)
  BY <1>0 DEF OthersSame, TypeOK
<1>3. Locked'
  BY <1>0, <1>2, LockStep DEF TypeOK, EnqLabels, DeqLabels
<1>4. Pointers'
  BY <1>0, HeapAssumption DEF Pointers, TypeOK, HeapTypeOK, NodeOrNULL
<1>5. AbaWait'
  BY <1>0, <1>2 DEF AbaWait, OthersSame, TypeOK
<1>6. Flags'
  <2>1. /\ Contends(t)' <=> Contends(t)
        /\ Contends(t) => Id(t)' = Id(t)
    BY <1>0 DEF Contends, Waited, Id, EnqLabels, DeqLabels, TypeOK, AbaWait
  <2> QED BY <1>0, <1>2, <2>1, PlockSame
<1> QED BY <1>1, <1>3, <1>4, <1>5, <1>6 DEF IInv

(* deq tests whether it has taken the last element.                         *)
LEMMA DeqTestLastStep ==
  ASSUME IInv, NEW t \in Threads, DeqTestLast(t)
  PROVE  IInv'
<1> USE DEF DeqTestLast, GoTo, heapVars, locks, plock, localVars
<1>0. TypeOK /\ Locked /\ Pointers /\ AbaWait /\ Flags
  BY DEF IInv
<1>1. TypeOK'
  BY <1>0, HeapAssumption
  DEF TypeOK, HeapTypeOK, NodeOrNULL, ValueOrNULL, EnqLabels, DeqLabels, Threads, Unset, Ids, Pointers
<1>2. OthersSame(t)
  BY <1>0 DEF OthersSame, TypeOK
<1>3. Locked'
  BY <1>0, <1>2, LockStep DEF TypeOK, EnqLabels, DeqLabels
<1>4. Pointers'
  BY <1>0, HeapAssumption DEF Pointers, TypeOK, HeapTypeOK, NodeOrNULL
<1>5. AbaWait'
  BY <1>0, <1>2 DEF AbaWait, OthersSame, TypeOK
<1>6. Flags'
  <2>1. /\ Contends(t)' <=> Contends(t)
        /\ Contends(t) => Id(t)' = Id(t)
    BY <1>0 DEF Contends, Waited, Id, EnqLabels, DeqLabels, TypeOK, AbaWait
  <2> QED BY <1>0, <1>2, <2>1, PlockSame
<1> QED BY <1>1, <1>3, <1>4, <1>5, <1>6 DEF IInv

(* deq moves tail.                                                          *)
LEMMA DeqMoveTailStep ==
  ASSUME IInv, NEW t \in Threads, DeqMoveTail(t)
  PROVE  IInv'
<1> USE DEF DeqMoveTail, GoTo, heapVars, locks, plock, localVars
<1>0. TypeOK /\ Locked /\ Pointers /\ AbaWait /\ Flags
  BY DEF IInv
<1>1. TypeOK'
  BY <1>0, HeapAssumption
  DEF TypeOK, HeapTypeOK, NodeOrNULL, ValueOrNULL, EnqLabels, DeqLabels, Threads, Unset, Ids, Pointers
<1>2. OthersSame(t)
  BY <1>0 DEF OthersSame, TypeOK
<1>3. Locked'
  BY <1>0, <1>2, LockStep DEF TypeOK, EnqLabels, DeqLabels
<1>4. Pointers'
  BY <1>0, HeapAssumption DEF Pointers, TypeOK, HeapTypeOK, NodeOrNULL
<1>5. AbaWait'
  BY <1>0, <1>2 DEF AbaWait, OthersSame, TypeOK
<1>6. Flags'
  <2>1. /\ Contends(t)' <=> Contends(t)
        /\ Contends(t) => Id(t)' = Id(t)
    BY <1>0 DEF Contends, Waited, Id, EnqLabels, DeqLabels, TypeOK, AbaWait
  <2> QED BY <1>0, <1>2, <2>1, PlockSame
<1> QED BY <1>1, <1>3, <1>4, <1>5, <1>6 DEF IInv

(* deq recycles the old dummy node.                                         *)
LEMMA DeqRecycleStep ==
  ASSUME IInv, NEW t \in Threads, DeqRecycle(t)
  PROVE  IInv'
<1> USE DEF DeqRecycle, GoTo, heapVars, locks, plock, localVars, Recycle
<1>0. TypeOK /\ Locked /\ Pointers /\ AbaWait /\ Flags
  BY DEF IInv
<1>h. HeapTypeOK'
  BY <1>0, RecycleType DEF TypeOK
<1>1. TypeOK'
  BY <1>0, <1>h, HeapAssumption DEF TypeOK, HeapTypeOK, NodeOrNULL, ValueOrNULL, EnqLabels, DeqLabels
<1>2. OthersSame(t)
  BY <1>0 DEF OthersSame, TypeOK
<1>3. Locked'
  BY <1>0, <1>2, LockStep DEF TypeOK, EnqLabels, DeqLabels
<1>4. Pointers'
  BY <1>0, HeapAssumption DEF Pointers, TypeOK, HeapTypeOK, NodeOrNULL
<1>5. AbaWait'
  BY <1>0, <1>2 DEF AbaWait, OthersSame, TypeOK
<1>6. Flags'
  <2>1. /\ Contends(t)' <=> Contends(t)
        /\ Contends(t) => Id(t)' = Id(t)
    BY <1>0 DEF Contends, Waited, Id, EnqLabels, DeqLabels, TypeOK, AbaWait
  <2> QED BY <1>0, <1>2, <2>1, PlockSame
<1> QED BY <1>1, <1>3, <1>4, <1>5, <1>6 DEF IInv

(* unlock_peterson, if aba_wait is set.                                     *)
LEMMA UnlockPetersonStep ==
  ASSUME IInv, NEW t \in Threads, UnlockPeterson(t)
  PROVE  IInv'
<1> USE DEF UnlockPeterson, GoTo, heapVars, locks, plock, localVars
<1>0. TypeOK /\ Locked /\ Pointers /\ AbaWait /\ Flags
  BY DEF IInv
<1>1. TypeOK'
  BY <1>0, HeapAssumption
  DEF TypeOK, HeapTypeOK, NodeOrNULL, ValueOrNULL, EnqLabels, DeqLabels, Threads, Unset, Ids, Pointers
<1>2. OthersSame(t)
  BY <1>0 DEF OthersSame, TypeOK
<1>3. Locked'
  BY <1>0, <1>2, LockStep DEF TypeOK, EnqLabels, DeqLabels
<1>4. Pointers'
  BY <1>0, HeapAssumption DEF Pointers, TypeOK, HeapTypeOK, NodeOrNULL
<1>5. AbaWait'
  BY <1>0, <1>2 DEF AbaWait, OthersSame, TypeOK
<1>b. \A u \in Threads \ {t} : /\ Contends(u)' <=> Contends(u)
                               /\ Id(u)' = Id(u)
  BY <1>2 DEF OthersSame, Contends, Id
<1>c. ~Contends(t)' /\ (Contends(t) <=> aba_wait[t])
  BY <1>0 DEF Contends, Waited, TypeOK
<1>6. Flags'
  <2>1. CASE aba_wait[t]
    <3> PICK i \in Ids : i = Id(t)
      BY IdType
    <3>1. \A u \in Threads \ {t} : Contends(u) => Id(u) # i
      BY <1>0, <1>c, <2>1, Alone
    <3>2. /\ ~flag'[i] /\ \A j \in Ids \ {i} : flag'[j] = flag[j]
          /\ pending' = pending /\ pending[i] = 0
      BY <1>0, <2>1 DEF TypeOK, Drained
    <3> QED BY <1>0, <1>b, <1>c, <3>1, <3>2 DEF Flags
  <2>2. CASE ~aba_wait[t]
    BY <1>0, <1>b, <1>c, <2>2 DEF Flags
  <2> QED BY <2>1, <2>2
<1> QED BY <1>1, <1>3, <1>4, <1>5, <1>6 DEF IInv

(* The lock is given back and the call returns.                             *)
LEMMA UnsetLockStep ==
  ASSUME IInv, NEW t \in Threads, UnsetLock(t)
  PROVE  IInv'
<1> USE DEF UnsetLock, GoTo, heapVars, locks, plock, localVars
<1>0. TypeOK /\ Locked /\ Pointers /\ AbaWait /\ Flags
  BY DEF IInv
<1>1. TypeOK'
  BY <1>0, HeapAssumption
  DEF TypeOK, HeapTypeOK, NodeOrNULL, ValueOrNULL, EnqLabels, DeqLabels, Threads, Unset, Ids, Pointers
<1>2. OthersSame(t)
  BY <1>0 DEF OthersSame, TypeOK
<1>3. Locked'
  BY <1>0, <1>2, LockStep DEF TypeOK, EnqLabels, DeqLabels
<1>4. Pointers'
  BY <1>0, HeapAssumption DEF Pointers, TypeOK, HeapTypeOK, NodeOrNULL
<1>5. AbaWait'
  BY <1>0, <1>2 DEF AbaWait, OthersSame, TypeOK
<1>6. Flags'
  <2>1. /\ Contends(t)' <=> Contends(t)
        /\ Contends(t) => Id(t)' = Id(t)
    BY <1>0 DEF Contends, Waited, Id, EnqLabels, DeqLabels, TypeOK, AbaWait
  <2> QED BY <1>0, <1>2, <2>1, PlockSame
<1> QED BY <1>1, <1>3, <1>4, <1>5, <1>6 DEF IInv

(* A store of side i becomes visible. *)
LEMMA CommitStep ==
  ASSUME IInv, NEW i \in Ids, Commit(i)
  PROVE  IInv'
<1> USE DEF Commit, heapVars, locks, localVars
<1>0. TypeOK /\ Locked /\ Pointers /\ AbaWait /\ Flags
  BY DEF IInv
<1>1. TypeOK'
  <2>1. pending[i] \in 1 .. 2 /\ pending[i] - 1 \in 0 .. 2
    BY <1>0 DEF TypeOK
  <2>2. pending' \in [Ids -> 0 .. 2]
    BY <1>0, <2>1 DEF TypeOK
  <2>3. flag' \in [Ids -> BOOLEAN] /\ victim' \in Ids
    BY <1>0 DEF TypeOK
  <2>4. HeapTypeOK'
    BY <1>0 DEF TypeOK, HeapTypeOK
  <2> QED BY <1>0, <2>2, <2>3, <2>4 DEF TypeOK
<1>2. Locked' /\ Pointers' /\ AbaWait'
  BY <1>0 DEF Locked, Pointers, AbaWait
<1>3. \A u \in Threads : /\ Contends(u)' <=> Contends(u)
                         /\ Id(u)' = Id(u)
  BY DEF Contends, Id
<1>4. /\ pending[i] \in {1, 2} /\ pending'[i] = pending[i] - 1
      /\ \A j \in Ids \ {i} : pending'[j] = pending[j] /\ flag'[j] = flag[j]
      /\ pending[i] = 2 => flag'[i]
      /\ pending[i] = 1 => flag'[i] = flag[i]
  BY <1>0 DEF TypeOK
<1>5. Flags'
  BY <1>0, <1>3, <1>4 DEF Flags
<1> QED BY <1>1, <1>2, <1>5 DEF IInv

(* While no call is in progress there is nothing to say about locks.        *)
LEMMA Quiet ==
  ASSUME IInv, \A t \in Threads : pc[t] = "idle"
  PROVE  /\ enq_lock = Unset /\ deq_lock = Unset
         /\ \A t \in Threads : ~Contends(t)
         /\ \A i \in Ids : ~flag[i] /\ pending[i] = 0
<1>1. \A t \in Threads : ~Contends(t)
  BY DEF Contends, Waited
<1>2. enq_lock = Unset /\ deq_lock = Unset
  BY DEF IInv, TypeOK, Locked, EnqLabels, DeqLabels
<1>3. \A i \in Ids : ~flag[i] /\ pending[i] = 0
  BY <1>1 DEF IInv, Flags
<1> QED BY <1>1, <1>2, <1>3

(* destroy_queue. *)
LEMMA DestroyStep ==
  ASSUME IInv, Destroy
  PROVE  IInv'
<1> USE DEF Destroy, FreeAll, locks, plock, localVars
<1>0. TypeOK /\ Locked /\ Pointers /\ AbaWait /\ Flags
  BY DEF IInv
<1>1. HeapTypeOK'
  BY <1>0 DEF TypeOK, HeapTypeOK, NodeOrNULL, ValueOrNULL
<1>2. TypeOK'
  BY <1>0, <1>1 DEF TypeOK
<1>3. Locked' /\ Pointers' /\ AbaWait'
  BY <1>0 DEF Locked, Pointers, AbaWait
<1>4. Flags'
  BY <1>0 DEF Flags, Contends, Id
<1> QED BY <1>2, <1>3, <1>4 DEF IInv

(* init_queue. *)
LEMMA InitQueueStep ==
  ASSUME IInv, InitQueue
  PROVE  IInv'
<1> USE DEF InitQueue, InitHeap, MakeNode, localVars
<1>0. TypeOK /\ Locked /\ Pointers /\ AbaWait /\ Flags
  BY DEF IInv
<1>1. \A t \in Threads : pc[t] = "idle"
  BY <1>0 DEF Pointers
<1>2. HeapTypeOK'
  BY <1>0 DEF TypeOK, HeapTypeOK, NodeOrNULL, ValueOrNULL
<1>3. TypeOK'
  BY <1>0, <1>2 DEF TypeOK, Ids
<1>4. Locked'
  <2>1. enq_lock' = enq_lock /\ deq_lock' = deq_lock /\ pc' = pc
    BY <1>1, Quiet
  <2> QED BY <1>0, <2>1 DEF Locked
<1>5. Pointers' /\ AbaWait'
  BY <1>0, <1>1, HeapAssumption DEF Pointers, AbaWait
<1>6. \A t \in Threads : ~Contends(t)'
  BY <1>1 DEF Contends, Waited
<1>7. Flags'
  BY <1>1, <1>6, Quiet DEF Flags
<1> QED BY <1>3, <1>4, <1>5, <1>7 DEF IInv

LEMMA InitInvariant == Init => IInv
<1> SUFFICES ASSUME Init PROVE IInv
  OBVIOUS
<1> USE DEF Init, HeapInit
<1>1. TypeOK
  BY HeapAssumption DEF TypeOK, HeapTypeOK, NodeOrNULL, ValueOrNULL, Ids, Unset
<1>2. Locked /\ Pointers /\ AbaWait
  BY HeapAssumption DEF Locked, Pointers, AbaWait, EnqLabels, DeqLabels, Threads, Unset
<1>3. \A t \in Threads : ~Contends(t)
  BY DEF Contends
<1>4. Flags
  BY <1>3 DEF Flags
<1> QED BY <1>1, <1>2, <1>4 DEF IInv

LEMMA NextInvariant == IInv /\ [Next]_vars => IInv'
<1> SUFFICES ASSUME IInv, [Next]_vars PROVE IInv'
  OBVIOUS
<1>1. ASSUME NEW t \in Threads, Begin(t) PROVE IInv'
  BY <1>1, CallEnqStep, CallDeqStep DEF Begin
<1>2. ASSUME NEW t \in Threads, Step(t) PROVE IInv'
  BY <1>2, SetLockStep, EnqReadHeadStep, EnqReadFirstStep, EnqTestStep,
     DeqReadNextStep, DeqTestStep, LockPetersonStep,
     EndWaitStep, EnqUpcycleStep, EnqNoMemoryStep, EnqFillStep, EnqReadTailStep, EnqLinkStep,
     EnqSwingStep, DeqEmptyStep, DeqReadValueStep, DeqMoveHeadStep, DeqTestLastStep,
     DeqMoveTailStep, DeqRecycleStep, UnlockPetersonStep, UnsetLockStep
  DEF Step
<1>3. CASE UNCHANGED vars
  <2>1. TypeOK' /\ Locked' /\ Pointers' /\ AbaWait'
    BY <1>3 DEF vars, heapVars, locks, plock, localVars, IInv, TypeOK, HeapTypeOK, Locked,
                Pointers, AbaWait
  <2>2. Flags'
    BY <1>3 DEF vars, plock, localVars, IInv, Flags, Contends, Id
  <2> QED BY <2>1, <2>2 DEF IInv
<1> QED BY <1>1, <1>2, <1>3, CommitStep, DestroyStep, InitQueueStep DEF Next

-----------------------------------------------------------------------------
(* The invariant on which the others rest. *)
THEOREM Invariance == Spec => []IInv
BY InitInvariant, NextInvariant, PTL DEF Spec

(* On every path out of enq and deq (Ex4_old.c:104-165) the lock is given    *)
(* back, and Peterson's if it was taken, however late its stores become     *)
(* visible.                                                                 *)
THEOREM LocksReleased == Spec => []LocksHeld
<1>1. IInv => LocksHeld
  <2> SUFFICES ASSUME IInv PROVE LocksHeld
    OBVIOUS
  <2>1. \A t \in Threads : Contends(t) <=> aba_wait[t] /\ pc[t] \in Waited \cup {"e_wait", "d_wait"}
    BY DEF Contends
  <2> QED BY <2>1 DEF IInv, Locked, Flags, LocksHeld
<1> QED BY <1>1, Invariance, PTL
=============================================================================
