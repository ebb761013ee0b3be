---------------------------- MODULE TwoLockQueueProofs ----------------------------
(***************************************************************************)
(* What is proved about TwoLockQueue for every number of threads and every *)
(* set of nodes and values.                                                *)
(***************************************************************************)
EXTENDS TwoLockQueueInv, NodeListsProofs

(***************************************************************************)
(* Every action preserves Control, the part of the invariant about types,  *)
(* locks and pointers: one lemma per action.                               *)
(***************************************************************************)

(* The locks are right after a step of t that sets or gives back those      *)
(* whose section it enters or leaves.                                       *)
LEMMA LockStep ==
  ASSUME TypeOK, LocksHeld, NEW t \in Threads,
         \A u \in Threads \ {t} : pc'[u] = pc[u],
         \/ enq_lock' = enq_lock /\ (InEnqSection(t)' <=> InEnqSection(t))
         \/ enq_lock = Unset /\ enq_lock' = t /\ InEnqSection(t)'
         \/ InEnqSection(t) /\ enq_lock' = Unset /\ ~InEnqSection(t)',
         \/ deq_lock' = deq_lock /\ (InDeqSection(t)' <=> InDeqSection(t))
         \/ deq_lock = Unset /\ deq_lock' = t /\ InDeqSection(t)'
         \/ InDeqSection(t) /\ deq_lock' = Unset /\ ~InDeqSection(t)'
  PROVE  LocksHeld'
<1> SUFFICES ASSUME NEW u \in Threads
             PROVE  /\ InEnqSection(u)' <=> enq_lock' = u
                    /\ InDeqSection(u)' <=> deq_lock' = u
  BY DEF LocksHeld
<1>1. InEnqSection(u) <=> enq_lock = u
  BY DEF LocksHeld
<1>2. InDeqSection(u) <=> deq_lock = u
  BY DEF LocksHeld
<1>3. InEnqSection(t) => enq_lock = t
  BY DEF LocksHeld
<1>4. InDeqSection(t) => deq_lock = t
  BY DEF LocksHeld
<1>5. t # Unset /\ u # Unset
  BY HeapAssumption DEF Threads, Unset
<1>6. u # t => /\ InEnqSection(u)' <=> InEnqSection(u)
               /\ InDeqSection(u)' <=> InDeqSection(u)
  BY DEF InEnqSection, InDeqSection
<1> QED BY <1>1, <1>2, <1>3, <1>4, <1>5, <1>6

(* A call of enq begins; the queue exists while it runs. *)
LEMMA CallEnqStep ==
  ASSUME Control, NEW t \in Threads, NEW v \in Values, CallEnq(t, v)
  PROVE  Control'
<1>1. TypeOK'
  BY DEF Control, TypeOK, HeapTypeOK, heapVars, localVars, CallEnq, GoTo, Labels,
         EnqLabels, DeqLabels, NodeOrNULL, ValueOrNULL
<1>2. LocksHeld'
  BY LockStep
  DEF Control, TypeOK, heapVars, localVars, CallEnq, GoTo, InEnqSection, InDeqSection,
      EnqLabels, DeqLabels
<1>3. Pointers'
  BY HeapAssumption
  DEF Control, TypeOK, HeapTypeOK, heapVars, localVars, CallEnq, GoTo, NodeOrNULL,
      Pointers, PointersOf
<1> QED BY <1>1, <1>2, <1>3 DEF Control

(* A call of deq begins. *)
LEMMA CallDeqStep ==
  ASSUME Control, NEW t \in Threads, CallDeq(t)
  PROVE  Control'
<1>1. TypeOK'
  BY DEF Control, TypeOK, HeapTypeOK, heapVars, localVars, CallDeq, GoTo, Labels,
         EnqLabels, DeqLabels, NodeOrNULL, ValueOrNULL
<1>2. LocksHeld'
  BY LockStep
  DEF Control, TypeOK, heapVars, localVars, CallDeq, GoTo, InEnqSection, InDeqSection,
      EnqLabels, DeqLabels
<1>3. Pointers'
  BY HeapAssumption
  DEF Control, TypeOK, HeapTypeOK, heapVars, localVars, CallDeq, GoTo, NodeOrNULL,
      Pointers, PointersOf
<1> QED BY <1>1, <1>2, <1>3 DEF Control

(* enq enters its section. *)
LEMMA EnqSetLockStep ==
  ASSUME Control, NEW t \in Threads, EnqSetLock(t)
  PROVE  Control'
<1>1. TypeOK'
  BY HeapAssumption
  DEF Control, TypeOK, HeapTypeOK, heapVars, localVars, EnqSetLock, GoTo, Set, Labels,
      EnqLabels, DeqLabels, NodeOrNULL, ValueOrNULL, Threads, Unset
<1>2. LocksHeld'
  BY LockStep
  DEF Control, TypeOK, heapVars, localVars, EnqSetLock, GoTo, Set, InEnqSection,
      InDeqSection, EnqLabels, DeqLabels
<1>3. Pointers'
  BY HeapAssumption
  DEF Control, TypeOK, HeapTypeOK, heapVars, localVars, EnqSetLock, GoTo, Set,
      NodeOrNULL, Pointers, PointersOf
<1> QED BY <1>1, <1>2, <1>3 DEF Control

(* enq gets a node, from where it does not matter. *)
LEMMA EnqUpcycleStep ==
  ASSUME Control, NEW t \in Threads, EnqUpcycle(t)
  PROVE  Control'
<1>1. HeapTypeOK'
  BY UpcycleType DEF Control, TypeOK, EnqUpcycle
<1>2. TypeOK'
  BY <1>1 DEF Control, TypeOK, EnqUpcycle, GoTo, Labels, EnqLabels, DeqLabels, NodeOrNULL
<1>3. LocksHeld'
  BY LockStep
  DEF Control, TypeOK, heapVars, localVars, EnqUpcycle, GoTo, InEnqSection, InDeqSection,
      EnqLabels, DeqLabels
<1>4. Pointers'
  BY HeapAssumption
  DEF Control, TypeOK, HeapTypeOK, heapVars, localVars, EnqUpcycle, GoTo, NodeOrNULL,
      Pointers, PointersOf
<1> QED BY <1>2, <1>3, <1>4 DEF Control

(* enq gets no node. *)
LEMMA EnqNoMemoryStep ==
  ASSUME Control, NEW t \in Threads, EnqNoMemory(t)
  PROVE  Control'
<1>1. TypeOK'
  BY DEF Control, TypeOK, HeapTypeOK, heapVars, localVars, EnqNoMemory, GoTo, Labels,
         EnqLabels, DeqLabels, NodeOrNULL, ValueOrNULL
<1>2. LocksHeld'
  BY LockStep
  DEF Control, TypeOK, heapVars, localVars, EnqNoMemory, GoTo, InEnqSection,
      InDeqSection, EnqLabels, DeqLabels
<1>3. Pointers'
  BY HeapAssumption
  DEF Control, TypeOK, HeapTypeOK, heapVars, localVars, EnqNoMemory, GoTo, NodeOrNULL,
      Pointers, PointersOf
<1> QED BY <1>1, <1>2, <1>3 DEF Control

(* enq returns without a node and leaves its section. *)
LEMMA EnqRefuseStep ==
  ASSUME Control, NEW t \in Threads, EnqRefuse(t)
  PROVE  Control'
<1>1. TypeOK'
  BY HeapAssumption
  DEF Control, TypeOK, HeapTypeOK, heapVars, localVars, EnqRefuse, Return, GoTo,
      UnsetLock, Labels, EnqLabels, DeqLabels, NodeOrNULL, ValueOrNULL, Threads, Unset
<1>2. LocksHeld'
  BY LockStep
  DEF Control, TypeOK, heapVars, localVars, EnqRefuse, Return, GoTo, UnsetLock,
      InEnqSection, InDeqSection, EnqLabels, DeqLabels
<1>3. Pointers'
  BY HeapAssumption
  DEF Control, TypeOK, HeapTypeOK, heapVars, localVars, EnqRefuse, Return, GoTo,
      UnsetLock, NodeOrNULL, Pointers, PointersOf
<1> QED BY <1>1, <1>2, <1>3 DEF Control

(* enq writes the fields of its node. *)
LEMMA EnqFillStep ==
  ASSUME Control, NEW t \in Threads, EnqFill(t)
  PROVE  Control'
<1>1. TypeOK'
  BY DEF Control, TypeOK, HeapTypeOK, heapVars, localVars, EnqFill, GoTo, Labels,
         EnqLabels, DeqLabels, NodeOrNULL, ValueOrNULL
<1>2. LocksHeld'
  BY LockStep
  DEF Control, TypeOK, heapVars, localVars, EnqFill, GoTo, InEnqSection, InDeqSection,
      EnqLabels, DeqLabels
<1>3. Pointers'
  BY HeapAssumption
  DEF Control, TypeOK, HeapTypeOK, heapVars, localVars, EnqFill, GoTo, NodeOrNULL,
      Pointers, PointersOf
<1> QED BY <1>1, <1>2, <1>3 DEF Control

(* enq links its node. *)
LEMMA EnqLinkStep ==
  ASSUME Control, NEW t \in Threads, EnqLink(t)
  PROVE  Control'
<1>1. TypeOK'
  BY DEF Control, TypeOK, HeapTypeOK, heapVars, localVars, EnqLink, GoTo, Labels,
         EnqLabels, DeqLabels, NodeOrNULL, ValueOrNULL
<1>2. LocksHeld'
  BY LockStep
  DEF Control, TypeOK, heapVars, localVars, EnqLink, GoTo, InEnqSection, InDeqSection,
      EnqLabels, DeqLabels
<1>3. Pointers'
  BY HeapAssumption
  DEF Control, TypeOK, HeapTypeOK, heapVars, localVars, EnqLink, GoTo, NodeOrNULL,
      Pointers, PointersOf
<1> QED BY <1>1, <1>2, <1>3 DEF Control

(* enq moves tail to its node. *)
LEMMA EnqSwingStep ==
  ASSUME Control, NEW t \in Threads, EnqSwing(t)
  PROVE  Control'
<1>1. TypeOK'
  BY DEF Control, TypeOK, HeapTypeOK, heapVars, localVars, EnqSwing, GoTo, Labels,
         EnqLabels, DeqLabels, NodeOrNULL, ValueOrNULL, Pointers, PointersOf
<1>2. LocksHeld'
  BY LockStep
  DEF Control, TypeOK, heapVars, localVars, EnqSwing, GoTo, InEnqSection, InDeqSection,
      EnqLabels, DeqLabels
<1>3. Pointers'
  BY HeapAssumption
  DEF Control, TypeOK, HeapTypeOK, heapVars, localVars, EnqSwing, GoTo, NodeOrNULL,
      Pointers, PointersOf
<1> QED BY <1>1, <1>2, <1>3 DEF Control

(* enq leaves its section and returns. *)
LEMMA EnqUnsetLockStep ==
  ASSUME Control, NEW t \in Threads, EnqUnsetLock(t)
  PROVE  Control'
<1>1. TypeOK'
  BY HeapAssumption
  DEF Control, TypeOK, HeapTypeOK, heapVars, localVars, EnqUnsetLock, Return, GoTo,
      UnsetLock, Labels, EnqLabels, DeqLabels, NodeOrNULL, ValueOrNULL, Threads, Unset
<1>2. LocksHeld'
  BY LockStep
  DEF Control, TypeOK, heapVars, localVars, EnqUnsetLock, Return, GoTo, UnsetLock,
      InEnqSection, InDeqSection, EnqLabels, DeqLabels
<1>3. Pointers'
  BY HeapAssumption
  DEF Control, TypeOK, HeapTypeOK, heapVars, localVars, EnqUnsetLock, Return, GoTo,
      UnsetLock, NodeOrNULL, Pointers, PointersOf
<1> QED BY <1>1, <1>2, <1>3 DEF Control

(* deq enters its section. *)
LEMMA DeqSetLockStep ==
  ASSUME Control, NEW t \in Threads, DeqSetLock(t)
  PROVE  Control'
<1>1. TypeOK'
  BY HeapAssumption
  DEF Control, TypeOK, HeapTypeOK, heapVars, localVars, DeqSetLock, GoTo, Set, Labels,
      EnqLabels, DeqLabels, NodeOrNULL, ValueOrNULL, Threads, Unset
<1>2. LocksHeld'
  BY LockStep
  DEF Control, TypeOK, heapVars, localVars, DeqSetLock, GoTo, Set, InEnqSection,
      InDeqSection, EnqLabels, DeqLabels
<1>3. Pointers'
  BY HeapAssumption
  DEF Control, TypeOK, HeapTypeOK, heapVars, localVars, DeqSetLock, GoTo, Set,
      NodeOrNULL, Pointers, PointersOf
<1> QED BY <1>1, <1>2, <1>3 DEF Control

(* deq reads head, which is a node, and its successor. *)
LEMMA DeqReadStep ==
  ASSUME Control, NEW t \in Threads, DeqRead(t)
  PROVE  Control'
<1>1. TypeOK'
  BY DEF Control, TypeOK, HeapTypeOK, heapVars, localVars, DeqRead, GoTo, Labels,
         EnqLabels, DeqLabels, NodeOrNULL, ValueOrNULL, Pointers, PointersOf
<1>2. LocksHeld'
  BY LockStep
  DEF Control, TypeOK, heapVars, localVars, DeqRead, GoTo, InEnqSection, InDeqSection,
      EnqLabels, DeqLabels
<1>3. Pointers'
  BY HeapAssumption
  DEF Control, TypeOK, HeapTypeOK, heapVars, localVars, DeqRead, GoTo, NodeOrNULL,
      Pointers, PointersOf
<1> QED BY <1>1, <1>2, <1>3 DEF Control

(* deq returns from an empty queue and leaves its section. *)
LEMMA DeqEmptyStep ==
  ASSUME Control, NEW t \in Threads, DeqEmpty(t)
  PROVE  Control'
<1>1. TypeOK'
  BY HeapAssumption
  DEF Control, TypeOK, HeapTypeOK, heapVars, localVars, DeqEmpty, Return, GoTo,
      UnsetLock, Labels, EnqLabels, DeqLabels, NodeOrNULL, ValueOrNULL, Threads, Unset
<1>2. LocksHeld'
  BY LockStep
  DEF Control, TypeOK, heapVars, localVars, DeqEmpty, Return, GoTo, UnsetLock,
      InEnqSection, InDeqSection, EnqLabels, DeqLabels
<1>3. Pointers'
  BY HeapAssumption
  DEF Control, TypeOK, HeapTypeOK, heapVars, localVars, DeqEmpty, Return, GoTo,
      UnsetLock, NodeOrNULL, Pointers, PointersOf
<1> QED BY <1>1, <1>2, <1>3 DEF Control

(* deq reads the value behind the successor it has seen. *)
LEMMA DeqReadValueStep ==
  ASSUME Control, NEW t \in Threads, DeqReadValue(t)
  PROVE  Control'
<1>1. TypeOK'
  BY DEF Control, TypeOK, HeapTypeOK, heapVars, localVars, DeqReadValue, GoTo, Labels,
         EnqLabels, DeqLabels, NodeOrNULL, ValueOrNULL, Pointers, PointersOf
<1>2. LocksHeld'
  BY LockStep
  DEF Control, TypeOK, heapVars, localVars, DeqReadValue, GoTo, InEnqSection,
      InDeqSection, EnqLabels, DeqLabels
<1>3. Pointers'
  BY HeapAssumption
  DEF Control, TypeOK, HeapTypeOK, heapVars, localVars, DeqReadValue, GoTo, NodeOrNULL,
      Pointers, PointersOf
<1> QED BY <1>1, <1>2, <1>3 DEF Control

(* deq moves head to the successor it has seen. *)
LEMMA DeqMoveHeadStep ==
  ASSUME Control, NEW t \in Threads, DeqMoveHead(t)
  PROVE  Control'
<1>1. TypeOK'
  BY DEF Control, TypeOK, HeapTypeOK, heapVars, localVars, DeqMoveHead, GoTo, Labels,
         EnqLabels, DeqLabels, NodeOrNULL, ValueOrNULL, Pointers, PointersOf
<1>2. LocksHeld'
  BY LockStep
  DEF Control, TypeOK, heapVars, localVars, DeqMoveHead, GoTo, InEnqSection,
      InDeqSection, EnqLabels, DeqLabels
<1>3. Pointers'
  BY HeapAssumption
  DEF Control, TypeOK, HeapTypeOK, heapVars, localVars, DeqMoveHead, GoTo, NodeOrNULL,
      Pointers, PointersOf
<1> QED BY <1>1, <1>2, <1>3 DEF Control

(* deq tests whether it has removed the last value. *)
LEMMA DeqTestLastStep ==
  ASSUME Control, NEW t \in Threads, DeqTestLast(t)
  PROVE  Control'
<1>1. TypeOK'
  BY DEF Control, TypeOK, HeapTypeOK, heapVars, localVars, DeqTestLast, GoTo, Labels,
         EnqLabels, DeqLabels, NodeOrNULL, ValueOrNULL
<1>2. LocksHeld'
  BY LockStep
  DEF Control, TypeOK, heapVars, localVars, DeqTestLast, GoTo, InEnqSection,
      InDeqSection, EnqLabels, DeqLabels
<1>3. Pointers'
  BY HeapAssumption
  DEF Control, TypeOK, HeapTypeOK, heapVars, localVars, DeqTestLast, GoTo, NodeOrNULL,
      Pointers, PointersOf
<1> QED BY <1>1, <1>2, <1>3 DEF Control

(* deq enters the section of enq as well. *)
LEMMA DeqSetEnqLockStep ==
  ASSUME Control, NEW t \in Threads, DeqSetEnqLock(t)
  PROVE  Control'
<1>1. TypeOK'
  BY HeapAssumption
  DEF Control, TypeOK, HeapTypeOK, heapVars, localVars, DeqSetEnqLock, GoTo, Set, Labels,
      EnqLabels, DeqLabels, NodeOrNULL, ValueOrNULL, Threads, Unset
<1>2. LocksHeld'
  BY LockStep
  DEF Control, TypeOK, heapVars, localVars, DeqSetEnqLock, GoTo, Set, InEnqSection,
      InDeqSection, EnqLabels, DeqLabels
<1>3. Pointers'
  BY HeapAssumption
  DEF Control, TypeOK, HeapTypeOK, heapVars, localVars, DeqSetEnqLock, GoTo, Set,
      NodeOrNULL, Pointers, PointersOf
<1> QED BY <1>1, <1>2, <1>3 DEF Control

(* deq tests again and may write tail. *)
LEMMA DeqRecheckStep ==
  ASSUME Control, NEW t \in Threads, DeqRecheck(t)
  PROVE  Control'
<1>1. TypeOK'
  BY DEF Control, TypeOK, HeapTypeOK, heapVars, localVars, DeqRecheck, GoTo, Labels,
         EnqLabels, DeqLabels, NodeOrNULL, ValueOrNULL
<1>2. LocksHeld'
  BY LockStep
  DEF Control, TypeOK, heapVars, localVars, DeqRecheck, GoTo, InEnqSection, InDeqSection,
      EnqLabels, DeqLabels
<1>3. Pointers'
  BY HeapAssumption
  DEF Control, TypeOK, HeapTypeOK, heapVars, localVars, DeqRecheck, GoTo, NodeOrNULL,
      Pointers, PointersOf
<1> QED BY <1>1, <1>2, <1>3 DEF Control

(* deq leaves the section of enq. *)
LEMMA DeqUnsetEnqLockStep ==
  ASSUME Control, NEW t \in Threads, DeqUnsetEnqLock(t)
  PROVE  Control'
<1>1. TypeOK'
  BY HeapAssumption
  DEF Control, TypeOK, HeapTypeOK, heapVars, localVars, DeqUnsetEnqLock, GoTo, UnsetLock,
      Labels, EnqLabels, DeqLabels, NodeOrNULL, ValueOrNULL, Threads, Unset
<1>2. LocksHeld'
  BY LockStep
  DEF Control, TypeOK, heapVars, localVars, DeqUnsetEnqLock, GoTo, UnsetLock,
      InEnqSection, InDeqSection, EnqLabels, DeqLabels
<1>3. Pointers'
  BY HeapAssumption
  DEF Control, TypeOK, HeapTypeOK, heapVars, localVars, DeqUnsetEnqLock, GoTo, UnsetLock,
      NodeOrNULL, Pointers, PointersOf
<1> QED BY <1>1, <1>2, <1>3 DEF Control

(* deq puts the old dummy node on its free list. *)
LEMMA DeqRecycleStep ==
  ASSUME Control, NEW t \in Threads, DeqRecycle(t)
  PROVE  Control'
<1>1. HeapTypeOK'
  BY RecycleType DEF Control, TypeOK, DeqRecycle
<1>2. TypeOK'
  BY <1>1 DEF Control, TypeOK, DeqRecycle, GoTo, Labels, EnqLabels, DeqLabels, NodeOrNULL
<1>3. LocksHeld'
  BY LockStep
  DEF Control, TypeOK, heapVars, localVars, DeqRecycle, GoTo, InEnqSection, InDeqSection,
      EnqLabels, DeqLabels
<1>4. Pointers'
  BY HeapAssumption
  DEF Control, TypeOK, HeapTypeOK, heapVars, localVars, DeqRecycle, GoTo, NodeOrNULL,
      Pointers, PointersOf
<1> QED BY <1>2, <1>3, <1>4 DEF Control

(* deq leaves its section and returns. *)
LEMMA DeqUnsetLockStep ==
  ASSUME Control, NEW t \in Threads, DeqUnsetLock(t)
  PROVE  Control'
<1>1. TypeOK'
  BY HeapAssumption
  DEF Control, TypeOK, HeapTypeOK, heapVars, localVars, DeqUnsetLock, Return, GoTo,
      UnsetLock, Labels, EnqLabels, DeqLabels, NodeOrNULL, ValueOrNULL, Threads, Unset
<1>2. LocksHeld'
  BY LockStep
  DEF Control, TypeOK, heapVars, localVars, DeqUnsetLock, Return, GoTo, UnsetLock,
      InEnqSection, InDeqSection, EnqLabels, DeqLabels
<1>3. Pointers'
  BY HeapAssumption
  DEF Control, TypeOK, HeapTypeOK, heapVars, localVars, DeqUnsetLock, Return, GoTo,
      UnsetLock, NodeOrNULL, Pointers, PointersOf
<1> QED BY <1>1, <1>2, <1>3 DEF Control

(* destroy_queue leaves the locks as they are. *)
LEMMA DestroyStep ==
  ASSUME Control, Destroy
  PROVE  Control'
<1>1. TypeOK'
  BY DEF Control, TypeOK, HeapTypeOK, localVars, Destroy, FreeAll, NodeOrNULL, ValueOrNULL
<1>2. LocksHeld'
  BY DEF Control, LocksHeld, Destroy, InEnqSection, InDeqSection
<1>3. Pointers'
  BY DEF Control, Destroy, FreeAll, Pointers, PointersOf
<1> QED BY <1>1, <1>2, <1>3 DEF Control

(* init_queue finds every thread idle and sets up both locks. *)
LEMMA InitQueueStep ==
  ASSUME Control, InitQueue
  PROVE  Control'
<1>1. \A t \in Threads : pc[t] = "idle"
  BY DEF Control, Pointers, PointersOf, InitQueue, InitHeap
<1>2. TypeOK'
  BY HeapAssumption
  DEF Control, TypeOK, HeapTypeOK, localVars, InitQueue, InitHeap, MakeNode, NodeOrNULL,
      ValueOrNULL
<1>3. LocksHeld'
  BY <1>1, HeapAssumption
  DEF LocksHeld, InitQueue, InEnqSection, InDeqSection, EnqLabels, DeqLabels, Threads,
      Unset
<1>4. Pointers'
  BY <1>1 DEF Pointers, PointersOf, InitQueue, InitHeap, MakeNode
<1> QED BY <1>2, <1>3, <1>4 DEF Control

-----------------------------------------------------------------------------
(* Control holds at the start, and every step preserves it. *)
LEMMA ControlInit == Init => Control
<1> SUFFICES ASSUME Init PROVE Control
  OBVIOUS
<1>1. TypeOK
  BY HeapAssumption
  DEF Init, HeapInit, TypeOK, HeapTypeOK, NodeOrNULL, ValueOrNULL, Labels
<1>2. LocksHeld
  BY HeapAssumption
  DEF Init, LocksHeld, InEnqSection, InDeqSection, EnqLabels, DeqLabels, Threads, Unset
<1>3. Pointers
  BY DEF Init, HeapInit, Pointers, PointersOf
<1> QED BY <1>1, <1>2, <1>3 DEF Control

(* One action at a time. *)
LEMMA ControlStep == Control /\ [Next]_vars => Control'
<1> SUFFICES ASSUME Control, [Next]_vars PROVE Control'
  OBVIOUS
<1>1. ASSUME NEW t \in Threads, Begin(t) PROVE Control'
  BY <1>1, CallDeqStep, CallEnqStep DEF Begin
<1>2. ASSUME NEW t \in Threads, EnqStep(t) PROVE Control'
  BY <1>2, EnqSetLockStep, EnqUpcycleStep, EnqNoMemoryStep, EnqRefuseStep, EnqFillStep,
     EnqLinkStep, EnqSwingStep, EnqUnsetLockStep
  DEF EnqStep
<1>3. ASSUME NEW t \in Threads, DeqStep(t) PROVE Control'
  BY <1>3, DeqSetLockStep, DeqReadStep, DeqEmptyStep, DeqReadValueStep, DeqMoveHeadStep,
     DeqTestLastStep, DeqSetEnqLockStep, DeqRecheckStep, DeqUnsetEnqLockStep,
     DeqRecycleStep, DeqUnsetLockStep
  DEF DeqStep
<1>4. CASE UNCHANGED vars
  BY <1>4
  DEF Control, TypeOK, HeapTypeOK, LocksHeld, InEnqSection, InDeqSection, Pointers,
      PointersOf, vars, heapVars, localVars
<1> QED BY <1>1, <1>2, <1>3, <1>4, DestroyStep, InitQueueStep DEF Next, Step

(***************************************************************************)
(* Every action preserves the sets of nodes, L and F.                      *)
(***************************************************************************)

(* What a step of t leaves alone. *)
OthersSame(t) ==
  \A u \in Threads \ {t} :
    /\ pc'[u] = pc[u] /\ node'[u] = node[u]
    /\ sentinel'[u] = sentinel[u] /\ nxt'[u] = nxt[u]

(* Two threads are not in the same section. *)
LEMMA Alone ==
  ASSUME LocksHeld, NEW t \in Threads, NEW u \in Threads \ {t}
  PROVE  /\ InEnqSection(t) => ~InEnqSection(u)
         /\ InDeqSection(t) => ~InDeqSection(u)
  BY DEF LocksHeld

(* While t is inside enq, before it links, tail is the last node. *)
LEMMA TailIsLast ==
  ASSUME Control, NEW L, NEW F, GInv(L, F), NEW t \in Threads, InEnqSection(t),
         pc[t] # "swing"
  PROVE  tail \in L /\ next[tail] = NULL
<1>1. \A u \in Threads : pc[u] # "swing"
  BY Alone DEF Control, InEnqSection, EnqLabels
<1>2. num_threads # 0
  BY DEF Control, Pointers, PointersOf, InEnqSection, EnqLabels
<1> QED BY <1>1, <1>2 DEF GInv, TailLast

(* A step of t, whatever it makes of the lists. *)
LEMMA AnyStep ==
  ASSUME NEW L, NEW F, GInv(L, F), NEW t \in Threads, OthersSame(t),
         NEW L2, NEW F2, Lists(L2, F2)', Apart(L2, F2, Held(t))',
         \A u \in Threads \ {t} :
           Apart(L2, F2, Held(u))' /\ Held(t)' \cap Held(u) = {},
         \A u \in Threads : LinksOf(u, L2)', TailLast(L2)'
  PROVE  GInv(L2, F2)'
<1>1. \A u \in Threads \ {t} : Held(u)' = Held(u)
  BY DEF Held, OthersSame
<1>2. \A u, v \in Threads : u # v => Held(u)' \cap Held(v)' = {}
  BY <1>1 DEF GInv, HeldApart
<1>3. HeldApart(L2, F2)'
  BY <1>2 DEF HeldApart
<1> QED BY <1>3 DEF GInv

(* A step of t that changes no list, takes no node and does not put an end  *)
(* to the wait of a deq for an enq that is about to move tail.              *)
LEMMA LocalStep ==
  ASSUME NEW L, NEW F, GInv(L, F), NEW t \in Threads, OthersSame(t),
         UNCHANGED <<num_threads, head, tail, next, heap, freeHead>>,
         Held(t)' \subseteq Held(t),
         pc[t] # "swing", pc'[t] # "swing",
         \/ pc[t] \notin {"d_last", "d_enqlock"}
         \/ pc'[t] \in {"d_last", "d_enqlock"} /\ sentinel'[t] = sentinel[t]
         \/ \A u \in Threads : pc[u] = "swing" => head # node[u],
         LinksOf(t, L)'
  PROVE  GInv(L, F)'
<1>1. Lists(L, F)'
  BY DEF GInv, Lists
<1>2. \A u \in Threads : Held(u)' \subseteq Held(u)
  BY DEF Held, OthersSame
<1>3. HeldApart(L, F)'
  BY <1>2 DEF GInv, HeldApart, Apart
<1>4. \A u \in Threads \ {t} : LinksOf(u, L)'
  <2> TAKE u \in Threads \ {t}
  <2>1. LinksOf(u, L)
    BY DEF GInv
  <2>2. pc[u] = "swing" => TailBefore(node[u], L)'
    <3>1. SUFFICES ASSUME pc[u] = "swing" PROVE TailBefore(node[u], L)'
      OBVIOUS
    <3>2. CASE tail \in L /\ next[tail] = node[u]
      BY <3>2 DEF TailBefore, OthersSame
    <3>3. CASE /\ head = node[u]
               /\ \E w \in Threads :
                    pc[w] \in {"d_last", "d_enqlock"} /\ sentinel[w] = tail
      <4>1. PICK w \in Threads : pc[w] \in {"d_last", "d_enqlock"} /\ sentinel[w] = tail
        BY <3>3
      <4>2. pc'[w] \in {"d_last", "d_enqlock"} /\ sentinel'[w] = tail
        BY <3>1, <3>3, <4>1 DEF OthersSame
      <4> QED BY <3>3, <4>2 DEF TailBefore, OthersSame
    <3> QED BY <3>1, <3>2, <3>3, <2>1 DEF LinksOf, TailBefore
  <2> QED BY <2>1, <2>2 DEF LinksOf, OthersSame
<1>5. \A u \in Threads : LinksOf(u, L)'
  BY <1>4
<1>6. TailLast(L)'
  BY DEF GInv, TailLast, OthersSame
<1> QED BY <1>1, <1>3, <1>5, <1>6 DEF GInv

-----------------------------------------------------------------------------
(* The start of a call, the locks, and the early returns. *)
LEMMA QuietStep ==
  ASSUME Control, NEW L, NEW F, GInv(L, F), NEW t \in Threads,
         NEW a, NEW b, GoTo(t, a, b), UNCHANGED heapVars, OthersSame(t),
         Held(t)' \subseteq Held(t),
         a \notin {"swing", "d_last", "d_enqlock"},
         b \notin {"link", "swing", "d_val", "d_head"}
  PROVE  GInv(L, F)'
<1>1. pc[t] = a /\ pc'[t] = b
  BY DEF GoTo, Control, TypeOK
<1>2. LinksOf(t, L)'
  BY <1>1 DEF LinksOf
<1> QED BY <1>1, <1>2, LocalStep DEF heapVars

(* The steps of enq that neither get a node nor write to one. *)
LEMMA EnqQuietStep ==
  ASSUME Control, NEW L, NEW F, GInv(L, F), NEW t \in Threads,
         \/ EnqSetLock(t) \/ EnqNoMemory(t) \/ EnqRefuse(t) \/ EnqUnsetLock(t)
         \/ CallDeq(t) \/ \E v \in Values : CallEnq(t, v)
  PROVE  GInv(L, F)'
<1>1. OthersSame(t)
  BY DEF OthersSame, EnqSetLock, EnqNoMemory, EnqRefuse, EnqUnsetLock, CallDeq, CallEnq,
         Return, GoTo, Control, TypeOK, localVars
<1>2. Held(t)' \subseteq Held(t)
  BY DEF Held, EnqSetLock, EnqNoMemory, EnqRefuse, EnqUnsetLock, CallDeq, CallEnq,
         Return, GoTo, Control, TypeOK, localVars
<1>3. PICK a, b :
        /\ GoTo(t, a, b) /\ a \notin {"swing", "d_last", "d_enqlock"}
        /\ b \notin {"link", "swing", "d_val", "d_head"}
  BY DEF EnqSetLock, EnqNoMemory, EnqRefuse, EnqUnsetLock, CallDeq, CallEnq, Return
<1>4. UNCHANGED heapVars
  BY DEF EnqSetLock, EnqNoMemory, EnqRefuse, EnqUnsetLock, CallDeq, CallEnq
<1> QED BY <1>1, <1>2, <1>3, <1>4, QuietStep

(* Those of deq. *)
LEMMA DeqQuietStep ==
  ASSUME Control, NEW L, NEW F, GInv(L, F), NEW t \in Threads,
         DeqSetLock(t) \/ DeqEmpty(t) \/ DeqUnsetEnqLock(t) \/ DeqUnsetLock(t)
  PROVE  GInv(L, F)'
<1>1. OthersSame(t)
  BY DEF OthersSame, DeqSetLock, DeqEmpty, DeqUnsetEnqLock, DeqUnsetLock,
         Return, GoTo, Control, TypeOK, localVars
<1>2. Held(t)' \subseteq Held(t)
  BY DEF Held, DeqSetLock, DeqEmpty, DeqUnsetEnqLock, DeqUnsetLock,
         Return, GoTo, Control, TypeOK, localVars
<1>3. PICK a, b :
        /\ GoTo(t, a, b) /\ a \notin {"swing", "d_last", "d_enqlock"}
        /\ b \notin {"link", "swing", "d_val", "d_head"}
  BY DEF DeqSetLock, DeqEmpty, DeqUnsetEnqLock, DeqUnsetLock, Return
<1>4. UNCHANGED heapVars
  BY DEF DeqSetLock, DeqEmpty, DeqUnsetEnqLock, DeqUnsetLock
<1> QED BY <1>1, <1>2, <1>3, <1>4, QuietStep

(* deq reads head and its successor, and the value behind it. *)
LEMMA DeqReadSteps ==
  ASSUME Control, NEW L, NEW F, GInv(L, F), NEW t \in Threads,
         DeqRead(t) \/ DeqReadValue(t)
  PROVE  GInv(L, F)'
<1>1. OthersSame(t) /\ UNCHANGED heapVars
  BY DEF OthersSame, DeqRead, DeqReadValue, GoTo, Control, TypeOK
<1>2. Held(t)' \subseteq Held(t)
  BY DEF Held, DeqRead, DeqReadValue, GoTo, Control, TypeOK
<1>3. LinksOf(t, L)'
  BY DEF GInv, LinksOf, DeqRead, DeqReadValue, GoTo, Control, TypeOK, heapVars
<1>4. pc[t] \in {"d_read", "d_val"} /\ pc'[t] \in {"d_empty", "d_val", "d_head"}
  BY DEF DeqRead, DeqReadValue, GoTo, Control, TypeOK
<1> QED BY <1>1, <1>2, <1>3, <1>4, LocalStep DEF heapVars

(* deq tests whether it has removed the last node.  If it has not, no enq   *)
(* is between the link to the dummy node and the move of tail.              *)
LEMMA DeqTestLastStepLinks ==
  ASSUME Control, NEW L, NEW F, GInv(L, F), NEW t \in Threads, DeqTestLast(t)
  PROVE  GInv(L, F)'
<1>1. OthersSame(t) /\ UNCHANGED heapVars
  BY DEF OthersSame, DeqTestLast, GoTo, Control, TypeOK, localVars
<1>2. Held(t)' \subseteq Held(t)
  BY DEF Held, DeqTestLast, GoTo, Control, TypeOK, localVars
<1>3. pc[t] = "d_last" /\ pc'[t] \in {"d_enqlock", "recycle"}
  BY DEF DeqTestLast, GoTo, Control, TypeOK
<1>4. LinksOf(t, L)'
  BY <1>3 DEF LinksOf
<1>5. \/ pc'[t] = "d_enqlock" /\ sentinel'[t] = sentinel[t]
      \/ \A u \in Threads : pc[u] = "swing" => head # node[u]
  BY DEF DeqTestLast, GoTo, Control, TypeOK, localVars, GInv, LinksOf
<1> QED BY <1>1, <1>2, <1>3, <1>4, <1>5, LocalStep DEF heapVars

(* deq gets enq_lock: no enq is about to move tail. *)
LEMMA DeqSetEnqLockStepLinks ==
  ASSUME Control, NEW L, NEW F, GInv(L, F), NEW t \in Threads, DeqSetEnqLock(t)
  PROVE  GInv(L, F)'
<1>1. OthersSame(t) /\ UNCHANGED heapVars
  BY DEF OthersSame, DeqSetEnqLock, GoTo, Control, TypeOK, localVars
<1>2. Held(t)' \subseteq Held(t)
  BY DEF Held, DeqSetEnqLock, GoTo, Control, TypeOK, localVars
<1>3. pc[t] = "d_enqlock" /\ pc'[t] = "d_recheck"
  BY DEF DeqSetEnqLock, GoTo, Control, TypeOK
<1>4. LinksOf(t, L)'
  BY <1>3 DEF LinksOf
<1>5. \A u \in Threads : pc[u] # "swing"
  BY HeapAssumption
  DEF DeqSetEnqLock, Set, Control, LocksHeld, InEnqSection, EnqLabels, Threads, Unset
<1> QED BY <1>1, <1>2, <1>3, <1>4, <1>5, LocalStep DEF heapVars

(* The queue has one last node, so that the assignment to tail after the    *)
(* second test does nothing.                                                *)
LEMMA TailAtHead ==
  ASSUME Control, NEW L, NEW F, GInv(L, F), NEW t \in Threads,
         pc[t] = "d_recheck", next[head] = NULL
  PROVE  tail = head
<1>1. tail \in L /\ next[tail] = NULL
  BY TailIsLast DEF InEnqSection
<1>2. head \in L /\ IsList(L, head, next)
  BY DEF GInv, Lists, Control, Pointers, PointersOf
<1> QED BY <1>1, <1>2 DEF IsList

(* deq tests again. *)
LEMMA DeqRecheckStepLinks ==
  ASSUME Control, NEW L, NEW F, GInv(L, F), NEW t \in Threads, DeqRecheck(t)
  PROVE  GInv(L, F)'
<1>1. pc[t] = "d_recheck" /\ pc'[t] = "d_enqunlock"
  BY DEF DeqRecheck, GoTo, Control, TypeOK
<1>2. tail' = tail
  BY <1>1, TailAtHead DEF DeqRecheck
<1>3. OthersSame(t) /\ UNCHANGED <<num_threads, head, next, heap, freeHead>>
  BY DEF OthersSame, DeqRecheck, GoTo, Control, TypeOK, localVars
<1>4. Held(t)' \subseteq Held(t)
  BY DEF Held, DeqRecheck, GoTo, Control, TypeOK, localVars
<1>5. LinksOf(t, L)'
  BY <1>1 DEF LinksOf
<1> QED BY <1>1, <1>2, <1>3, <1>4, <1>5, LocalStep

(* enq gets a node. *)
LEMMA EnqUpcycleStepLinks ==
  ASSUME Control, NEW L, NEW F, GInv(L, F), NEW t \in Threads, EnqUpcycle(t),
         F \in [Threads -> SUBSET Nodes], NEW f, f = freeHead[t],
         NEW F2, F2 = Without(F, t, f)
  PROVE  GInv(L, F2)'
<1>1. PICK n \in Nodes : Upcycle(t, n) /\ node' = [node EXCEPT ![t] = n]
  BY DEF EnqUpcycle
<1>2. HeapTypeOK /\ Lists(L, F) /\ UNCHANGED <<num_threads, head, tail>>
  BY DEF Control, TypeOK, GInv, EnqUpcycle
<1>3. /\ Lists(L, F2)'
      /\ Apart(L, F2, {n})'
      /\ \A x \in heap : next'[x] = next[x]
      /\ \A S : Apart(L, F, S) => Apart(L, F2, S)' /\ n \notin S
  BY <1>1, <1>2, UpcycleLists
<1>4. OthersSame(t)
  BY <1>1 DEF OthersSame, EnqUpcycle, GoTo, Control, TypeOK
<1>5. pc[t] = "upcycle" /\ pc'[t] = "fill"
  BY DEF EnqUpcycle, GoTo, Control, TypeOK
<1>6. Held(t)' = {n}
  BY <1>1, <1>5 DEF Held, Control, TypeOK
<1>7. Apart(L, F2, Held(t))'
  BY <1>3, <1>6 DEF Apart
<1>8. \A u \in Threads \ {t} : Apart(L, F2, Held(u))' /\ Held(t)' \cap Held(u) = {}
  <2> TAKE u \in Threads \ {t}
  <2>1. Held(u)' = Held(u)
    BY <1>4 DEF Held, OthersSame
  <2>2. Apart(L, F, Held(u))
    BY DEF GInv, HeldApart
  <2> QED BY <1>3, <1>6, <2>1, <2>2 DEF Apart
<1>9. L \subseteq heap /\ (num_threads # 0 => head \in L)
  BY <1>2 DEF Lists
<1>10. \A u \in Threads : LinksOf(u, L)'
  <2> TAKE u \in Threads
  <2>1. CASE u = t
    BY <1>5, <2>1 DEF LinksOf
  <2>2. CASE u # t
    <3>1. pc'[u] \notin {"link", "swing"}
      BY <1>4, <1>5, <2>2, Alone DEF Control, InEnqSection, EnqLabels, OthersSame
    <3>2. pc[u] # "idle" => num_threads # 0
      BY DEF Control, Pointers, PointersOf
    <3> QED BY <1>2, <1>3, <1>4, <1>9, <2>2, <3>1, <3>2 DEF GInv, LinksOf, OthersSame
  <2> QED BY <2>1, <2>2
<1>11. TailLast(L)'
  <2>1. tail \in L /\ next[tail] = NULL
    BY <1>5, TailIsLast DEF InEnqSection, EnqLabels
  <2> QED BY <1>2, <1>3, <1>9, <2>1 DEF TailLast
<1> QED BY <1>3, <1>4, <1>7, <1>8, <1>10, <1>11, AnyStep

(* enq writes the fields of its node. *)
LEMMA EnqFillStepLinks ==
  ASSUME Control, NEW L, NEW F, GInv(L, F), NEW t \in Threads, EnqFill(t)
  PROVE  GInv(L, F)'
<1>1. PICK n \in Nodes : n = node[t]
  BY DEF EnqFill, GoTo, Control, Pointers, PointersOf
<1>2. pc[t] = "fill" /\ pc'[t] = "link"
  BY DEF EnqFill, GoTo, Control, TypeOK
<1>3. Held(t) = {n} /\ Held(t)' = {n}
  BY <1>1, <1>2 DEF Held, EnqFill, localVars
<1>4. HeapTypeOK /\ Lists(L, F) /\ Apart(L, F, {n})
  BY <1>3 DEF Control, TypeOK, GInv, HeldApart
<1>5. /\ next' = [next EXCEPT ![n] = NULL]
      /\ UNCHANGED <<num_threads, head, tail, heap, freeHead>>
  BY <1>1 DEF EnqFill
<1>6. Lists(L, F)' /\ \A S : Apart(L, F, S) => Apart(L, F, S)'
  BY <1>4, <1>5, FillLists
<1>7. OthersSame(t)
  BY DEF OthersSame, EnqFill, GoTo, Control, TypeOK, localVars
<1>8. Apart(L, F, Held(t))'
  BY <1>3, <1>4, <1>6 DEF Apart
<1>9. \A u \in Threads \ {t} : Apart(L, F, Held(u))' /\ Held(t)' \cap Held(u) = {}
  <2> TAKE u \in Threads \ {t}
  <2>1. Held(u)' = Held(u)
    BY <1>7 DEF Held, OthersSame
  <2>2. Apart(L, F, Held(u)) /\ Held(t) \cap Held(u) = {}
    BY DEF GInv, HeldApart
  <2> QED BY <1>3, <1>6, <2>1, <2>2 DEF Apart
<1>10. /\ L \subseteq Nodes /\ n \notin L /\ (num_threads # 0 => head \in L)
       /\ \A x \in L : next'[x] = next[x]
       /\ next'[n] = NULL
  BY <1>4, <1>5 DEF Lists, Apart, HeapTypeOK
<1>11. \A u \in Threads : LinksOf(u, L)'
  <2> TAKE u \in Threads
  <2>1. CASE u = t
    BY <1>1, <1>2, <1>10, <2>1 DEF LinksOf, EnqFill, localVars
  <2>2. CASE u # t
    <3>1. pc'[u] \notin {"link", "swing"}
      BY <1>2, <1>7, <2>2, Alone DEF Control, InEnqSection, EnqLabels, OthersSame
    <3>2. pc[u] # "idle" => num_threads # 0
      BY DEF Control, Pointers, PointersOf
    <3> QED BY <1>5, <1>7, <1>10, <2>2, <3>1, <3>2 DEF GInv, LinksOf, OthersSame
  <2> QED BY <2>1, <2>2
<1>12. TailLast(L)'
  <2>1. tail \in L /\ next[tail] = NULL
    BY <1>2, TailIsLast DEF InEnqSection, EnqLabels
  <2> QED BY <1>5, <1>10, <2>1 DEF TailLast
<1> QED BY <1>6, <1>7, <1>8, <1>9, <1>11, <1>12, AnyStep

(* enq links its node, which belongs to the queue from then on. *)
LEMMA EnqLinkStepLinks ==
  ASSUME Control, NEW L, NEW F, GInv(L, F), NEW t \in Threads, EnqLink(t),
         NEW n, n = node[t], NEW L2, L2 = L \cup {n}
  PROVE  GInv(L2, F)'
<1>1. n \in Nodes /\ next[n] = NULL /\ num_threads # 0
  BY DEF EnqLink, GoTo, Control, Pointers, PointersOf, GInv, LinksOf
<1>2. pc[t] = "link" /\ pc'[t] = "swing"
  BY DEF EnqLink, GoTo, Control, TypeOK
<1>3. Held(t) = {n} /\ Held(t)' = {}
  BY <1>1, <1>2 DEF Held
<1>4. HeapTypeOK /\ Lists(L, F) /\ Apart(L, F, {n})
  BY <1>3 DEF Control, TypeOK, GInv, HeldApart
<1>5. /\ next' = [next EXCEPT ![tail] = n]
      /\ UNCHANGED <<num_threads, head, tail, heap, freeHead>>
  BY <1>1 DEF EnqLink
<1>6. tail \in L /\ next[tail] = NULL
  BY <1>2, TailIsLast DEF InEnqSection, EnqLabels
<1>7. Lists(L2, F)' /\ \A S : Apart(L, F, S) /\ n \notin S => Apart(L2, F, S)'
  BY <1>1, <1>4, <1>5, <1>6, LinkLists
<1>8. OthersSame(t)
  BY DEF OthersSame, EnqLink, GoTo, Control, TypeOK, localVars
<1>9. Apart(L2, F, Held(t))'
  BY <1>3 DEF Apart
<1>10. \A u \in Threads \ {t} : Apart(L2, F, Held(u))' /\ Held(t)' \cap Held(u) = {}
  <2> TAKE u \in Threads \ {t}
  <2>1. Held(u)' = Held(u)
    BY <1>8 DEF Held, OthersSame
  <2>2. Apart(L, F, Held(u)) /\ Held(t) \cap Held(u) = {}
    BY DEF GInv, HeldApart
  <2> QED BY <1>3, <1>7, <2>1, <2>2 DEF Apart
<1>11. /\ tail # n /\ next'[n] = NULL /\ next'[tail] = n
       /\ \A x \in Nodes \ {tail} : next'[x] = next[x]
  BY <1>1, <1>4, <1>5, <1>6 DEF Apart, Lists, HeapTypeOK
<1>12. \A u \in Threads : LinksOf(u, L2)'
  <2> TAKE u \in Threads
  <2>1. CASE u = t
    <3>1. TailBefore(n, L2)'
      BY <1>5, <1>6, <1>11 DEF TailBefore
    <3>2. node'[t] = n
      BY DEF EnqLink, localVars
    <3> QED BY <1>2, <1>11, <2>1, <3>1, <3>2 DEF LinksOf
  <2>2. CASE u # t
    <3>1. pc'[u] \notin {"link", "swing"}
      BY <1>2, <1>8, <2>2, Alone DEF Control, InEnqSection, EnqLabels, OthersSame
    <3>2. head \in Nodes
      BY <1>1 DEF Control, Pointers
    <3>3. pc[u] \in {"d_val", "d_head"} => nxt[u] = next[head] /\ nxt[u] # NULL
      BY HeapAssumption DEF GInv, LinksOf, Control, Pointers, PointersOf
    <3> QED BY <1>5, <1>6, <1>8, <1>11, <2>2, <3>1, <3>2, <3>3
            DEF GInv, LinksOf, OthersSame
  <2> QED BY <2>1, <2>2
<1>13. TailLast(L2)'
  BY <1>2 DEF TailLast
<1> QED BY <1>7, <1>8, <1>9, <1>10, <1>12, <1>13, AnyStep

(* enq moves tail to its node, which is the last one. *)
LEMMA EnqSwingStepLinks ==
  ASSUME Control, NEW L, NEW F, GInv(L, F), NEW t \in Threads, EnqSwing(t)
  PROVE  GInv(L, F)'
<1>1. pc[t] = "swing" /\ pc'[t] = "e_unlock"
  BY DEF EnqSwing, GoTo, Control, TypeOK
<1>2. /\ tail' = node[t] /\ UNCHANGED <<num_threads, head, next, heap, freeHead>>
      /\ node[t] \in L /\ next[node[t]] = NULL
  BY <1>1 DEF EnqSwing, GInv, LinksOf
<1>3. Lists(L, F)'
  BY <1>2 DEF GInv, Lists
<1>4. OthersSame(t)
  BY DEF OthersSame, EnqSwing, GoTo, Control, TypeOK, localVars
<1>5. \A u \in Threads : Held(u)' \subseteq Held(u)
  BY <1>1, <1>4 DEF Held, OthersSame
<1>6. HeldApart(L, F)'
  BY <1>2, <1>5 DEF GInv, HeldApart, Apart
<1>7. \A u \in Threads : LinksOf(u, L)'
  <2> TAKE u \in Threads
  <2>1. CASE u = t
    BY <1>1, <2>1 DEF LinksOf
  <2>2. CASE u # t
    <3>1. pc'[u] \notin {"link", "swing"}
      BY <1>1, <1>4, <2>2, Alone DEF Control, InEnqSection, EnqLabels, OthersSame
    <3> QED BY <1>2, <1>4, <2>2, <3>1 DEF GInv, LinksOf, OthersSame
  <2> QED BY <2>1, <2>2
<1>8. TailLast(L)'
  BY <1>2 DEF TailLast
<1> QED BY <1>3, <1>6, <1>7, <1>8 DEF GInv

(* deq moves head; the old dummy node is held by the call from then on, and *)
(* tail may still point to it if an enq has linked to it.                   *)
LEMMA DeqMoveHeadStepLinks ==
  ASSUME Control, NEW L, NEW F, GInv(L, F), NEW t \in Threads, DeqMoveHead(t),
         NEW h, h = head, NEW L2, L2 = L \ {h}
  PROVE  GInv(L2, F)'
<1>1. pc[t] = "d_head" /\ pc'[t] = "d_last"
  BY DEF DeqMoveHead, GoTo, Control, TypeOK
<1>2. /\ sentinel[t] = h /\ sentinel'[t] = h /\ next[h] # NULL /\ num_threads # 0
      /\ head' = next[h]
      /\ UNCHANGED <<num_threads, tail, next, heap, freeHead>>
  BY <1>1, HeapAssumption
  DEF DeqMoveHead, GInv, LinksOf, Control, Pointers, PointersOf
<1>3. HeapTypeOK /\ Lists(L, F)
  BY DEF Control, TypeOK, GInv
<1>4. /\ head' \in L2
      /\ Lists(L2, F)'
      /\ Apart(L2, F, {h})'
      /\ \A S : Apart(L, F, S) => Apart(L2, F, S)' /\ h \notin S
  BY <1>2, <1>3, MoveHeadLists
<1>5. OthersSame(t)
  BY DEF OthersSame, DeqMoveHead, GoTo, Control, TypeOK, localVars
<1>6. Held(t)' = {h}
  BY <1>1, <1>2 DEF Held
<1>7. Apart(L2, F, Held(t))'
  BY <1>4, <1>6 DEF Apart
<1>8. \A u \in Threads \ {t} : Apart(L2, F, Held(u))' /\ Held(t)' \cap Held(u) = {}
  <2> TAKE u \in Threads \ {t}
  <2>1. Held(u)' = Held(u)
    BY <1>5 DEF Held, OthersSame
  <2>2. Apart(L, F, Held(u))
    BY DEF GInv, HeldApart
  <2> QED BY <1>4, <1>6, <2>1, <2>2
<1>9. \A u \in Threads : LinksOf(u, L2)'
  <2> TAKE u \in Threads
  <2>1. CASE u = t
    BY <1>1, <2>1 DEF LinksOf
  <2>2. CASE u # t
    <3>1. pc[u] \notin {"d_val", "d_head"} /\ pc'[u] = pc[u] /\ node'[u] = node[u]
      BY <1>1, <1>5, <2>2, Alone DEF Control, InDeqSection, DeqLabels, OthersSame
    <3>2. pc[u] = "swing" => TailBefore(node[u], L2)'
      <4>1. SUFFICES ASSUME pc[u] = "swing" PROVE TailBefore(node[u], L2)'
        OBVIOUS
      <4>2. head # node[u]
        BY <1>2, <4>1 DEF GInv, LinksOf
      <4>3. tail \in L /\ next[tail] = node[u]
        BY <4>1, <4>2 DEF GInv, LinksOf, TailBefore
      <4>4. CASE tail = h
        <5>1. head' = node[u] /\ pc'[t] \in {"d_last", "d_enqlock"} /\ sentinel'[t] = tail'
          BY <1>1, <1>2, <4>3, <4>4
        <5> QED BY <5>1, <3>1 DEF TailBefore
      <4>5. CASE tail # h
        BY <1>2, <3>1, <4>3, <4>5 DEF TailBefore
      <4> QED BY <4>4, <4>5
    <3>3. pc[u] = "swing" => node[u] \in L2
      BY <1>2 DEF GInv, LinksOf
    <3> QED BY <1>2, <3>1, <3>2, <3>3 DEF GInv, LinksOf
  <2> QED BY <2>1, <2>2
<1>10. TailLast(L2)'
  <2>1. ASSUME \A u \in Threads : pc'[u] # "swing"
        PROVE  tail \in L2 /\ next[tail] = NULL
    <3>1. \A u \in Threads : pc[u] # "swing"
      BY <1>1, <1>5, <2>1 DEF OthersSame
    <3> QED BY <1>2, <3>1 DEF GInv, TailLast
  <2> QED BY <1>2, <2>1 DEF TailLast
<1> QED BY <1>4, <1>5, <1>7, <1>8, <1>9, <1>10, AnyStep

(* The node that deq recycles is not the one that tail points to.           *)
LEMMA TailElsewhere ==
  ASSUME Control, NEW L, NEW F, GInv(L, F), NEW t \in Threads, pc[t] = "recycle"
  PROVE  sentinel[t] # tail
<1>1. sentinel[t] \notin L /\ num_threads # 0
  BY DEF GInv, HeldApart, Held, Apart, Control, Pointers, PointersOf
<1>2. CASE \E u \in Threads : pc[u] = "swing"
  <2>1. PICK u \in Threads : pc[u] = "swing"
    BY <1>2
  <2>2. TailBefore(node[u], L)
    BY <2>1 DEF GInv, LinksOf
  <2>3. \A w \in Threads : pc[w] \notin {"d_last", "d_enqlock"}
    BY Alone DEF Control, InDeqSection, DeqLabels
  <2> QED BY <1>1, <2>2, <2>3 DEF TailBefore
<1>3. CASE \A u \in Threads : pc[u] # "swing"
  BY <1>1, <1>3 DEF GInv, TailLast
<1> QED BY <1>2, <1>3

(* deq recycles the old dummy node. *)
LEMMA DeqRecycleStepLinks ==
  ASSUME Control, NEW L, NEW F, GInv(L, F), NEW t \in Threads, DeqRecycle(t),
         F \in [Threads -> SUBSET Nodes], NEW x, x = sentinel[t],
         NEW F2, F2 = With(F, t, x)
  PROVE  GInv(L, F2)'
<1>1. pc[t] = "recycle" /\ pc'[t] = "d_unlock"
  BY DEF DeqRecycle, GoTo, Control, TypeOK
<1>2. Held(t) = {x} /\ Held(t)' = {}
  BY <1>1 DEF Held
<1>3. /\ HeapTypeOK /\ Lists(L, F) /\ Apart(L, F, {x}) /\ Recycle(t, x)
      /\ UNCHANGED <<num_threads, head, tail>>
  BY <1>2 DEF Control, TypeOK, GInv, HeldApart, DeqRecycle
<1>4. x \in Nodes /\ x \notin L
  BY <1>3 DEF Apart, HeapTypeOK
<1>5. /\ Lists(L, F2)'
      /\ \A y \in Nodes \ {x} : next'[y] = next[y]
      /\ \A S : Apart(L, F, S) /\ x \notin S => Apart(L, F2, S)'
  BY <1>3, <1>4, RecycleLists
<1>6. OthersSame(t)
  BY DEF OthersSame, DeqRecycle, GoTo, Control, TypeOK
<1>7. Apart(L, F2, Held(t))'
  BY <1>2 DEF Apart
<1>8. \A u \in Threads \ {t} : Apart(L, F2, Held(u))' /\ Held(t)' \cap Held(u) = {}
  <2> TAKE u \in Threads \ {t}
  <2>1. Held(u)' = Held(u)
    BY <1>6 DEF Held, OthersSame
  <2>2. Apart(L, F, Held(u)) /\ Held(t) \cap Held(u) = {}
    BY DEF GInv, HeldApart
  <2> QED BY <1>2, <1>5, <2>1, <2>2
<1>9. \A y \in L : next'[y] = next[y]
  BY <1>3, <1>4, <1>5 DEF Lists, HeapTypeOK
<1>10. \A u \in Threads : LinksOf(u, L)'
  <2> TAKE u \in Threads
  <2>1. CASE u = t
    BY <1>1, <2>1 DEF LinksOf
  <2>2. CASE u # t
    <3>1. /\ pc[u] \notin {"d_val", "d_head"}
          /\ \A w \in Threads : pc[w] \notin {"d_last", "d_enqlock"}
      BY <1>1, <2>2, Alone DEF Control, InDeqSection, DeqLabels
    <3>2. pc'[u] = pc[u] /\ node'[u] = node[u]
      BY <1>6, <2>2 DEF OthersSame
    <3>3. pc[u] = "link" => node[u] \in Nodes \ {x}
      BY <1>2, <2>2 DEF GInv, HeldApart, Held, Control, Pointers, PointersOf
    <3>4. pc[u] = "swing" => tail \in L /\ next[tail] = node[u] /\ node[u] \in L
      BY <3>1 DEF GInv, LinksOf, TailBefore
    <3> QED BY <1>3, <1>5, <1>9, <3>1, <3>2, <3>3, <3>4 DEF GInv, LinksOf, TailBefore
  <2> QED BY <2>1, <2>2
<1>11. TailLast(L)'
  <2>1. (\A u \in Threads : pc'[u] # "swing") => \A u \in Threads : pc[u] # "swing"
    BY <1>1, <1>6 DEF OthersSame
  <2> QED BY <1>3, <1>9, <2>1 DEF GInv, TailLast
<1> QED BY <1>5, <1>6, <1>7, <1>8, <1>10, <1>11, AnyStep

(* destroy_queue frees the queue. *)
LEMMA DestroyStepLinks ==
  ASSUME Destroy, NEW F2, F2 = [t \in Threads |-> {}]
  PROVE  GInv({}, F2)'
<1>1. \A t \in Threads : pc'[t] = "idle" /\ Held(t)' = {}
  BY DEF Destroy, Held
<1>2. Lists({}, F2)' /\ num_threads' = 0
  BY NoLists DEF Destroy, FreeAll
<1> QED BY <1>1, <1>2 DEF GInv, HeldApart, Apart, LinksOf, TailLast

(* A queue is set up. *)
LEMMA InitQueueStepLinks ==
  ASSUME Control, InitQueue, NEW dummy, dummy = head',
         NEW F2, F2 = [t \in Threads |-> {}]
  PROVE  GInv({dummy}, F2)'
<1>1. /\ dummy \in Nodes /\ tail' = dummy /\ next'[dummy] = NULL /\ dummy \in heap'
      /\ freeHead' = [t \in Threads |-> NULL]
  BY HeapAssumption DEF InitQueue, InitHeap, MakeNode, Control, TypeOK, HeapTypeOK
<1>2. \A t \in Threads : pc'[t] = "idle"
  BY DEF Control, Pointers, PointersOf, InitQueue, InitHeap
<1>3. Lists({dummy}, F2)'
  BY <1>1, FreshLists
<1>4. \A t \in Threads : Held(t)' = {} /\ LinksOf(t, {dummy})'
  BY <1>2 DEF Held, LinksOf
<1> QED BY <1>1, <1>3, <1>4 DEF GInv, HeldApart, Apart, TailLast

-----------------------------------------------------------------------------
(* The invariant holds at the start. *)
LEMMA InitHolds == Init => IInv
<1> SUFFICES ASSUME Init PROVE IInv
  OBVIOUS
<1>1. PICK F : F = [t \in Threads |-> {}]
  OBVIOUS
<1>2. /\ head \in Nodes /\ tail = head /\ next[head] = NULL /\ head \in heap
      /\ freeHead = [t \in Threads |-> NULL]
  BY DEF Init, HeapInit
<1>3. Lists({head}, F)
  BY <1>1, <1>2, FirstLists
<1>4. \A t \in Threads : Held(t) = {} /\ LinksOf(t, {head})
  BY DEF Init, Held, LinksOf
<1>5. GInv({head}, F)
  BY <1>2, <1>3, <1>4 DEF GInv, HeldApart, Apart, TailLast
<1> QED BY <1>1, <1>2, <1>5, ControlInit DEF IInv

(* The bound variables of the invariant, in the next state. *)
LEMMA Witness ==
  ASSUME Control', NEW L, NEW F, GInv(L, F)', F \in [Threads -> SUBSET Nodes]
  PROVE  IInv'
  BY DEF IInv, GInv, Lists, Control, TypeOK, HeapTypeOK

(* Every step preserves the invariant. *)
LEMMA InductiveStep == IInv /\ [Next]_vars => IInv'
<1> SUFFICES ASSUME IInv, [Next]_vars PROVE IInv'
  OBVIOUS
<1>1. PICK L \in SUBSET Nodes, F \in [Threads -> SUBSET Nodes] : GInv(L, F)
  BY DEF IInv
<1>2. Control /\ Control'
  BY ControlStep DEF IInv
<1>3. ASSUME NEW t \in Threads, Begin(t)
      PROVE  IInv'
  BY <1>1, <1>2, <1>3, EnqQuietStep, Witness DEF Begin
<1>4. ASSUME NEW t \in Threads, EnqStep(t)
      PROVE  IInv'
  <2>1. CASE EnqUpcycle(t)
    <3>1. PICK f : f = freeHead[t]
      OBVIOUS
    <3>2. PICK F2 \in [Threads -> SUBSET Nodes] : F2 = Without(F, t, f)
      BY DEF Without
    <3> QED BY <1>1, <1>2, <2>1, <3>1, <3>2, EnqUpcycleStepLinks, Witness
  <2>2. CASE EnqLink(t)
    <3>1. PICK n : n = node[t]
      OBVIOUS
    <3>2. PICK L2 : L2 = L \cup {n}
      OBVIOUS
    <3> QED BY <1>1, <1>2, <2>2, <3>1, <3>2, EnqLinkStepLinks, Witness
  <2>3. CASE EnqSetLock(t) \/ EnqNoMemory(t) \/ EnqRefuse(t) \/ EnqUnsetLock(t)
    BY <1>1, <1>2, <2>3, EnqQuietStep, Witness
  <2>4. CASE EnqFill(t) \/ EnqSwing(t)
    BY <1>1, <1>2, <2>4, EnqFillStepLinks, EnqSwingStepLinks, Witness
  <2> QED BY <1>4, <2>1, <2>2, <2>3, <2>4 DEF EnqStep
<1>5. ASSUME NEW t \in Threads, DeqStep(t)
      PROVE  IInv'
  <2>1. CASE DeqMoveHead(t)
    <3>1. PICK h : h = head
      OBVIOUS
    <3>2. PICK L2 : L2 = L \ {h}
      OBVIOUS
    <3> QED BY <1>1, <1>2, <2>1, <3>1, <3>2, DeqMoveHeadStepLinks, Witness
  <2>2. CASE DeqRecycle(t)
    <3>1. PICK x : x = sentinel[t]
      OBVIOUS
    <3>2. x \in Nodes
      BY <1>1, <1>2, <2>2, <3>1
      DEF DeqRecycle, GoTo, GInv, HeldApart, Held, Apart, Control, TypeOK, HeapTypeOK
    <3>3. PICK F2 \in [Threads -> SUBSET Nodes] : F2 = With(F, t, x)
      BY <3>2 DEF With
    <3> QED BY <1>1, <1>2, <2>2, <3>1, <3>3, DeqRecycleStepLinks, Witness
  <2>3. CASE DeqSetLock(t) \/ DeqEmpty(t) \/ DeqUnsetEnqLock(t) \/ DeqUnsetLock(t)
    BY <1>1, <1>2, <2>3, DeqQuietStep, Witness
  <2>4. CASE DeqRead(t) \/ DeqReadValue(t) \/ DeqTestLast(t)
    BY <1>1, <1>2, <2>4, DeqReadSteps, DeqTestLastStepLinks, Witness
  <2>5. CASE DeqSetEnqLock(t) \/ DeqRecheck(t)
    BY <1>1, <1>2, <2>5, DeqSetEnqLockStepLinks, DeqRecheckStepLinks, Witness
  <2> QED BY <1>5, <2>1, <2>2, <2>3, <2>4, <2>5 DEF DeqStep
<1>6. CASE Destroy
  <2>1. PICK F2 : F2 = [t \in Threads |-> {}]
    OBVIOUS
  <2> QED BY <1>2, <1>6, <2>1, DestroyStepLinks, Witness
<1>7. CASE InitQueue
  <2>1. PICK F2 : F2 = [t \in Threads |-> {}]
    OBVIOUS
  <2>2. PICK dummy : dummy = head'
    OBVIOUS
  <2> QED BY <1>2, <1>7, <2>1, <2>2, InitQueueStepLinks, Witness
<1>8. CASE UNCHANGED vars
  <2>1. GInv(L, F)'
    BY <1>1, <1>8
    DEF GInv, Lists, HeldApart, Apart, Held, LinksOf, TailBefore, TailLast, vars,
        heapVars, localVars
  <2> QED BY <1>1, <1>2, <2>1, Witness
<1> QED BY <1>3, <1>4, <1>5, <1>6, <1>7, <1>8 DEF Next, Step

(* The invariant from which the theorems follow. *)
THEOREM Invariance == Spec => []IInv
  BY InitHolds, InductiveStep, PTL DEF Spec

(* Every variable keeps its type; in particular no operation follows NULL.  *)
THEOREM TypeCorrect == Spec => []TypeOK
<1>1. IInv => TypeOK
  BY DEF IInv, Control
<1> QED BY <1>1, Invariance, PTL

(* Each lock is held by the thread that is in its section and by nobody     *)
(* else, whatever way the call takes out of it.                             *)
THEOREM MutualExclusion == Spec => []LocksHeld
<1>1. IInv => LocksHeld
  BY DEF IInv, Control
<1> QED BY <1>1, Invariance, PTL

(* deq never recycles the node that tail points to, although an enq may     *)
(* have linked to that node and not yet moved tail.                         *)
THEOREM RecyclesOldSentinel == Spec => []TailNotRecycled
<1>1. IInv => TailNotRecycled
  BY TailElsewhere DEF IInv, TailNotRecycled
<1> QED BY <1>1, Invariance, PTL

(* The assignment to tail in deq never changes tail. *)
THEOREM TailSetInVain == Spec => []WaitMovesTail
<1>1. IInv => WaitMovesTail
  BY TailAtHead DEF IInv, WaitMovesTail
<1> QED BY <1>1, Invariance, PTL

(* Only the link of enq and the tests of deq for a successor race. *)
LEMMA NoOtherRace == IInv => OnlyLinkRaces
<1> SUFFICES ASSUME IInv, NEW t \in Threads, NEW u \in Threads, t # u,
                    Writes(t) \cap (Reads(u) \cup Writes(u)) # {}
             PROVE  pc[t] = "link" /\ pc[u] \in {"d_read", "d_last"} /\ tail = head
  BY DEF OnlyLinkRaces, Race
<1>1. PICK L, F : GInv(L, F)
  BY DEF IInv
<1>2. Control /\ LocksHeld
  BY DEF IInv, Control
<1>3. Held(t) \cap Held(u) = {} /\ Held(t) \cap L = {} /\ Held(u) \cap L = {}
  BY <1>1 DEF GInv, HeldApart, Apart
<1>4. \A w \in Threads : pc[w] # "idle" => head \in L
  BY <1>1, <1>2 DEF GInv, Lists, Control, Pointers, PointersOf
<1>5. \A w \in Threads : pc[w] = "link" => tail \in L
  BY <1>1, <1>2, TailIsLast DEF InEnqSection, EnqLabels
<1>6. \A w \in Threads : pc[w] = "d_val" => nxt[w] \in L
  BY <1>1, <1>2, <1>4, HeapAssumption
  DEF GInv, LinksOf, Lists, IsList, Control, Pointers, PointersOf
<1>7. \A w \in Threads : pc[w] = "recycle" => Held(w) = {sentinel[w]}
  BY DEF Held
<1>8. \A w \in Threads : pc[w] = "fill" => Held(w) = {node[w]}
  BY DEF Held
<1>9. /\ InEnqSection(t) => ~InEnqSection(u)
      /\ InDeqSection(t) => ~InDeqSection(u)
  BY <1>2, Alone
<1>10. CASE pc[t] = "fill"
  <2>1. pc[u] \notin {"fill", "link", "swing", "d_recheck"}
    BY <1>9, <1>10 DEF InEnqSection, EnqLabels
  <2> QED BY <1>3, <1>4, <1>6, <1>7, <1>8, <1>10, <2>1 DEF Reads, Writes
<1>11. CASE pc[t] = "link"
  <2>1. pc[u] \notin {"fill", "link", "swing", "d_recheck"}
    BY <1>9, <1>11 DEF InEnqSection, EnqLabels
  <2> QED BY <1>3, <1>5, <1>7, <1>11, <2>1 DEF Reads, Writes
<1>12. CASE pc[t] \in {"swing", "d_recheck"}
  <2>1. pc[u] \notin {"link", "swing", "d_recheck"}
    BY <1>9, <1>12 DEF InEnqSection, EnqLabels
  <2> QED BY <1>12, <2>1 DEF Reads, Writes
<1>13. CASE pc[t] = "d_head"
  <2>1. pc[u] \notin {"d_read", "d_last", "d_recheck", "d_head"}
    BY <1>9, <1>13 DEF InDeqSection, DeqLabels
  <2> QED BY <1>13, <2>1 DEF Reads, Writes
<1>14. CASE pc[t] = "recycle"
  <2>1. pc[u] \notin {"d_read", "d_last", "d_recheck", "d_val", "d_head", "recycle"}
    BY <1>9, <1>14 DEF InDeqSection, DeqLabels
  <2> QED BY <1>3, <1>5, <1>7, <1>8, <1>14, <2>1 DEF Reads, Writes
<1> QED BY <1>10, <1>11, <1>12, <1>13, <1>14 DEF Writes

(* The fields that no lock protects for both ends are accessed by two       *)
(* threads at once only where enq links to the node that deq tests.         *)
THEOREM RacesConfined == Spec => []OnlyLinkRaces
  BY NoOtherRace, Invariance, PTL

-----------------------------------------------------------------------------
(* The abstract queue and the abstract calls, of Linearizable. *)
AbsQueue == IF num_threads = 0 THEN <<>> ELSE Contents
AbsCalls == [t \in Threads |-> AbsCall(t)]

(* A step of t moves the abstract call of t only. *)
LEMMA CallsNext ==
  ASSUME NEW t \in Threads, \A u \in Threads \ {t} : pc'[u] = pc[u] /\ val'[u] = val[u]
  PROVE  AbsCalls' = [AbsCalls EXCEPT ![t] = AbsCall(t)']
<1>1. \A u \in Threads \ {t} : AbsCall(u)' = AbsCall(u)
  BY DEF AbsCall
<1> QED BY <1>1 DEF AbsCalls

(* A step of t after which the lists are the paths q and G.                 *)
LEMMA ShapeStep ==
  ASSUME NEW t \in Threads, OthersSame(t), \A u \in Threads \ {t} : val'[u] = val[u],
         NEW q, NEW G, Paths(q, G)', heap' \ Listed(q, G) = AllHeld',
         ValuesOf(q, data') \in Seq(Values), ValueOf(t)',
         \A u \in Threads \ {t} : ValueOf(u)'
  PROVE  /\ SInv'
         /\ AbsQueue' = ValuesOf(q, data')
         /\ AbsCalls' = [AbsCalls EXCEPT ![t] = AbsCall(t)']
<1>1. PICK held : held = AllHeld'
  OBVIOUS
<1>2. Shape(held)' /\ AbsQueue' = ValuesOf(q, data')
  BY <1>1, ShapeNext DEF AbsQueue
<1>3. Shape(AllHeld)'
  BY <1>1, <1>2 DEF Shape
<1>4. AbsCalls' = [AbsCalls EXCEPT ![t] = AbsCall(t)']
  BY CallsNext DEF OthersSame
<1> QED BY <1>2, <1>3, <1>4 DEF SInv

(* The nodes held after a step of t. *)
LEMMA HeldNext ==
  ASSUME NEW t \in Threads, OthersSame(t)
  PROVE  \E rest : /\ AllHeld = Held(t) \cup rest
                   /\ AllHeld' = Held(t)' \cup rest
                   /\ rest = UNION {Held(u) : u \in Threads \ {t}}
<1>1. \A u \in Threads \ {t} : Held(u)' = Held(u)
  BY DEF Held, OthersSame
<1>2. PICK rest : rest = UNION {Held(u) : u \in Threads \ {t}}
  OBVIOUS
<1>3. AllHeld = Held(t) \cup rest
  BY <1>2 DEF AllHeld
<1>4. AllHeld' = Held(t)' \cup rest
  BY <1>1, <1>2 DEF AllHeld
<1> QED BY <1>2, <1>3, <1>4

(* The paths of a state of the invariant. *)
LEMMA Unfold ==
  ASSUME SInv
  PROVE  \E q \in Seq(Nodes), G \in [Threads -> Seq(Nodes)] :
           /\ Paths(q, G)
           /\ heap \ Listed(q, G) = AllHeld
           /\ ValuesOf(q, data) \in Seq(Values)
           /\ AbsQueue = ValuesOf(q, data)
<1>1. PICK held : held = AllHeld
  OBVIOUS
<1>2. Shape(held)
  BY <1>1 DEF SInv
<1> QED BY <1>1, <1>2, ShapeDef DEF AbsQueue

(* A step that leaves the lists and what t holds as they are.               *)
LEMMA UnchangedStep ==
  ASSUME SInv, NEW t \in Threads, OthersSame(t),
         \A u \in Threads \ {t} : val'[u] = val[u],
         UNCHANGED <<num_threads, head, next, data, heap, freeHead, freeSize>>,
         Held(t)' = Held(t), ValueOf(t)'
  PROVE  /\ SInv'
         /\ AbsQueue' = AbsQueue
         /\ AbsCalls' = [AbsCalls EXCEPT ![t] = AbsCall(t)']
<1>1. PICK q, G : /\ Paths(q, G)
                  /\ heap \ Listed(q, G) = AllHeld
                  /\ ValuesOf(q, data) \in Seq(Values)
                  /\ AbsQueue = ValuesOf(q, data)
  BY Unfold
<1>2. Paths(q, G)'
  BY <1>1 DEF Paths
<1>3. \A u \in Threads \ {t} : Held(u)' = Held(u)
  BY DEF Held, OthersSame
<1>4. AllHeld' = AllHeld
  BY <1>3 DEF AllHeld
<1>5. \A u \in Threads \ {t} : ValueOf(u)'
  BY DEF OthersSame, SInv, ValueOf
<1> QED BY <1>1, <1>2, <1>4, <1>5, ShapeStep

(* Nobody else carries a value that depends on the data that t changes.     *)
LEMMA ValuesOfOthers ==
  ASSUME Control, NEW L, NEW F, GInv(L, F), SInv, NEW t \in Threads, OthersSame(t),
         \A u \in Threads \ {t} : val'[u] = val[u],
         \A x \in L : data'[x] = data[x], InEnqSection(t) \/ data' = data
  PROVE  \A u \in Threads \ {t} : ValueOf(u)'
<1> TAKE u \in Threads \ {t}
<1>1. pc'[u] = pc[u] /\ node'[u] = node[u] /\ nxt'[u] = nxt[u] /\ val'[u] = val[u]
  BY DEF OthersSame
<1>2. pc[u] = "link" => data' = data
  BY Alone DEF Control, InEnqSection, EnqLabels
<1>3. pc[u] = "d_head" => nxt[u] \in L
  BY HeapAssumption DEF GInv, LinksOf, Lists, IsList, Control, Pointers, PointersOf
<1> QED BY <1>1, <1>2, <1>3 DEF SInv, ValueOf

-----------------------------------------------------------------------------
(* Which abstract step each step is. *)
Quiet == UNCHANGED <<AbsQueue, AbsCalls>>

(* The abstract actions in these terms. *)
LEMMA AbsActions ==
  /\ Quiet => UNCHANGED Abs!avars
  /\ \A t \in Threads : \A v \in Values :
       /\ AbsQueue' = AbsQueue /\ AbsCalls[t] = Abs!Idle
            /\ AbsCalls' = [AbsCalls EXCEPT ![t] = Abs!Enq(v)] => Abs!AbsNext
       /\ AbsQueue' = AbsQueue /\ AbsCalls[t] = Abs!Enq(v)
            /\ AbsCalls' = [AbsCalls EXCEPT ![t] = Abs!Idle] => Abs!AbsNext
       /\ AbsQueue' = Append(AbsQueue, v) /\ AbsCalls[t] = Abs!Enq(v)
            /\ AbsCalls' = [AbsCalls EXCEPT ![t] = Abs!EnqDone] => Abs!AbsNext
       /\ AbsQueue' = AbsQueue /\ AbsCalls[t] = Abs!DeqDone(v)
            /\ AbsCalls' = [AbsCalls EXCEPT ![t] = Abs!Idle] => Abs!AbsNext
       /\ AbsQueue # <<>> /\ AbsQueue' = Tail(AbsQueue) /\ v = Head(AbsQueue)
            /\ AbsCalls[t] = Abs!Deq
            /\ AbsCalls' = [AbsCalls EXCEPT ![t] = Abs!DeqDone(v)] => Abs!AbsNext
  /\ \A t \in Threads :
       /\ AbsQueue' = AbsQueue /\ AbsCalls[t] = Abs!Idle
            /\ AbsCalls' = [AbsCalls EXCEPT ![t] = Abs!Deq] => Abs!AbsNext
       /\ AbsQueue' = AbsQueue /\ AbsCalls[t] = Abs!EnqDone
            /\ AbsCalls' = [AbsCalls EXCEPT ![t] = Abs!Idle] => Abs!AbsNext
       /\ AbsQueue' = AbsQueue /\ AbsCalls[t] = Abs!DeqEmpty
            /\ AbsCalls' = [AbsCalls EXCEPT ![t] = Abs!Idle] => Abs!AbsNext
       /\ AbsQueue = <<>> /\ AbsQueue' = AbsQueue /\ AbsCalls[t] = Abs!Deq
            /\ AbsCalls' = [AbsCalls EXCEPT ![t] = Abs!DeqEmpty] => Abs!AbsNext
  /\ (\A t \in Threads : AbsCalls[t] = Abs!Idle) /\ AbsQueue' = <<>> /\ AbsCalls' = AbsCalls
       => Abs!AbsNext
<1>1. /\ Abs!Deq # Abs!Idle /\ Abs!EnqDone # Abs!Idle /\ Abs!DeqEmpty # Abs!Idle
      /\ Abs!DeqEmpty # Abs!Deq
      /\ \A v \in Values : /\ Abs!Enq(v) # Abs!Idle /\ Abs!Enq(v) # Abs!EnqDone
                            /\ Abs!DeqDone(v) # Abs!Idle /\ Abs!DeqDone(v) # Abs!Deq
  BY DEF Abs!Idle, Abs!Enq, Abs!EnqDone, Abs!Deq, Abs!DeqEmpty, Abs!DeqDone
<1>2. \A t \in Threads : \A b, c :
        AbsCalls[t] = b /\ AbsCalls' = [AbsCalls EXCEPT ![t] = c] /\ c # b
          => AbsCalls'[t] # AbsCalls[t]
  BY DEF AbsCalls
<1>3. \A t \in Threads : \A b, c :
        AbsCalls[t] = b /\ AbsCalls' = [AbsCalls EXCEPT ![t] = c] => Abs!Move(t, b, c)
  BY Zenon DEF Abs!Move, AbsCalls
<1> QED
  BY <1>1, <1>2, <1>3, ZenonT(60)
  DEF Quiet, AbsQueue, AbsCalls, Abs!avars, Abs!AbsNext, Abs!CallEnq, Abs!RefuseEnq,
      Abs!TakeEnq, Abs!ReturnDeq, Abs!TakeDeq, Abs!CallDeq, Abs!ReturnEnq, Abs!SeeEmpty,
      Abs!Discard

-----------------------------------------------------------------------------
(* A step is simulated if the invariant holds after it and the abstract     *)
(* queue makes a step of its own or none.                                   *)
Simulated == SInv' /\ (Abs!AbsNext \/ UNCHANGED Abs!avars)

(* It makes none if no abstract call goes on. *)
LEMMA Silent ==
  ASSUME SInv', AbsQueue' = AbsQueue, NEW t \in Threads,
         AbsCalls' = [AbsCalls EXCEPT ![t] = AbsCall(t)'], AbsCall(t)' = AbsCall(t)
  PROVE  Simulated
<1>1. AbsCalls' = AbsCalls
  BY DEF AbsCalls
<1> QED BY <1>1, AbsActions DEF Simulated, Quiet

(* The queue is empty when nothing is behind the dummy node. *)
LEMMA EmptyQueue ==
  ASSUME SInv, num_threads # 0, next[head] = NULL
  PROVE  AbsQueue = <<>>
<1>1. PICK q, G : Paths(q, G) /\ AbsQueue = ValuesOf(q, data)
  BY Unfold
<1>2. IsPath(q, head, next) /\ q # <<>>
  BY <1>1 DEF Paths
<1>3. PICK n \in Nat : n = Len(q) /\ n # 0
  BY <1>2, PathNodes
<1>4. next[q[1]] = IF 1 = n THEN NULL ELSE q[1 + 1]
  BY <1>2, <1>3 DEF IsPath
<1>5. n # 1 => q[1 + 1] \in Nodes
  BY <1>2, <1>3 DEF IsPath
<1>6. n = 1
  BY <1>2, <1>4, <1>5, PathNodes, HeapAssumption
<1>7. Len(q) \in {0, 1}
  BY <1>3, <1>6
<1> QED BY <1>1, <1>7, ValuesOfNone

(* A call begins; its argument is v, or none for deq. *)
LEMMA BeginSim ==
  ASSUME Control, SInv, NEW t \in Threads, Begin(t)
  PROVE  Simulated
<1>1. OthersSame(t) /\ \A u \in Threads \ {t} : val'[u] = val[u]
  BY DEF OthersSame, Control, TypeOK, Begin, CallEnq, CallDeq, GoTo, localVars
<1>2. UNCHANGED <<num_threads, head, next, data, heap, freeHead, freeSize>>
  BY DEF Begin, CallEnq, CallDeq, heapVars
<1>3. Held(t)' = Held(t)
  BY DEF Held, Control, TypeOK, Begin, CallEnq, CallDeq, GoTo
<1>4. ValueOf(t)'
  BY DEF ValueOf, Control, TypeOK, Begin, CallEnq, CallDeq, GoTo
<1>5. /\ SInv' /\ AbsQueue' = AbsQueue
      /\ AbsCalls' = [AbsCalls EXCEPT ![t] = AbsCall(t)']
  BY <1>1, <1>2, <1>3, <1>4, UnchangedStep
<1>6. AbsCalls[t] = Abs!Idle
  BY DEF AbsCalls, AbsCall, Begin, CallEnq, CallDeq, GoTo, Abs!Idle
<1>7. ASSUME NEW v \in Values, CallEnq(t, v)
      PROVE  Simulated
  <2>1. AbsCall(t)' = Abs!Enq(v)
    BY <1>7 DEF AbsCall, CallEnq, GoTo, Control, TypeOK, Abs!Enq
  <2> QED BY <1>5, <1>6, <2>1, AbsActions DEF Simulated
<1>8. CASE CallDeq(t)
  <2>1. AbsCall(t)' = Abs!Deq
    BY <1>8 DEF AbsCall, CallDeq, GoTo, Control, TypeOK, Abs!Deq
  <2> QED BY <1>5, <1>6, <2>1, AbsActions DEF Simulated
<1> QED BY <1>7, <1>8 DEF Begin

(* enq gets its lock: nothing happens to the abstract queue. *)
LEMMA EnqSetLockSim ==
  ASSUME Control, SInv, NEW t \in Threads, EnqSetLock(t)
  PROVE  Simulated
<1>1. OthersSame(t) /\ \A u \in Threads \ {t} : val'[u] = val[u]
  BY DEF OthersSame, Control, TypeOK, EnqSetLock, GoTo, Set, heapVars, localVars
<1>2. UNCHANGED <<num_threads, head, next, data, heap, freeHead, freeSize>>
  BY DEF EnqSetLock, GoTo, Set, heapVars, localVars
<1>3. Held(t)' = Held(t)
  BY DEF Held, Control, TypeOK, EnqSetLock, GoTo, Set, heapVars, localVars
<1>4. ValueOf(t)'
  BY DEF SInv, ValueOf, Control, TypeOK, EnqSetLock, GoTo, Set, heapVars, localVars
<1>5. /\ SInv' /\ AbsQueue' = AbsQueue
      /\ AbsCalls' = [AbsCalls EXCEPT ![t] = AbsCall(t)']
  BY <1>1, <1>2, <1>3, <1>4, UnchangedStep
<1>6. AbsCall(t)' = AbsCall(t)
  BY DEF AbsCall, Control, TypeOK, EnqSetLock, GoTo, Set, heapVars, localVars
<1> QED BY <1>5, <1>6, Silent

(* enq gets no node. *)
LEMMA EnqNoMemorySim ==
  ASSUME Control, SInv, NEW t \in Threads, EnqNoMemory(t)
  PROVE  Simulated
<1>1. OthersSame(t) /\ \A u \in Threads \ {t} : val'[u] = val[u]
  BY DEF OthersSame, Control, TypeOK, EnqNoMemory, GoTo, heapVars, localVars
<1>2. UNCHANGED <<num_threads, head, next, data, heap, freeHead, freeSize>>
  BY DEF EnqNoMemory, GoTo, heapVars, localVars
<1>3. Held(t)' = Held(t)
  BY DEF Held, Control, TypeOK, EnqNoMemory, GoTo, heapVars, localVars
<1>4. ValueOf(t)'
  BY DEF SInv, ValueOf, Control, TypeOK, EnqNoMemory, GoTo, heapVars, localVars
<1>5. /\ SInv' /\ AbsQueue' = AbsQueue
      /\ AbsCalls' = [AbsCalls EXCEPT ![t] = AbsCall(t)']
  BY <1>1, <1>2, <1>3, <1>4, UnchangedStep
<1>6. AbsCall(t)' = AbsCall(t)
  BY DEF AbsCall, Control, TypeOK, EnqNoMemory, GoTo, heapVars, localVars
<1> QED BY <1>5, <1>6, Silent

(* enq returns without a node. *)
LEMMA EnqRefuseSim ==
  ASSUME Control, SInv, NEW t \in Threads, EnqRefuse(t)
  PROVE  Simulated
<1>1. OthersSame(t) /\ \A u \in Threads \ {t} : val'[u] = val[u]
  BY DEF OthersSame, Control, TypeOK, EnqRefuse, Return, GoTo, heapVars
<1>2. UNCHANGED <<num_threads, head, next, data, heap, freeHead, freeSize>>
  BY DEF EnqRefuse, Return, GoTo, heapVars
<1>3. Held(t)' = Held(t)
  BY DEF Held, Control, TypeOK, EnqRefuse, Return, GoTo, heapVars
<1>4. ValueOf(t)'
  BY DEF SInv, ValueOf, Control, TypeOK, EnqRefuse, Return, GoTo, heapVars
<1>5. /\ SInv' /\ AbsQueue' = AbsQueue
      /\ AbsCalls' = [AbsCalls EXCEPT ![t] = AbsCall(t)']
  BY <1>1, <1>2, <1>3, <1>4, UnchangedStep
<1>6. val[t] \in Values /\ AbsCall(t) = Abs!Enq(val[t]) /\ AbsCall(t)' = Abs!Idle
  BY DEF SInv, ValueOf, AbsCall, Control, TypeOK, Abs!Enq, Abs!Idle, EnqRefuse, Return,
         GoTo, heapVars
<1> QED BY <1>5, <1>6, AbsActions DEF Simulated, AbsCalls

(* enq moves tail. *)
LEMMA EnqSwingSim ==
  ASSUME Control, SInv, NEW t \in Threads, EnqSwing(t)
  PROVE  Simulated
<1>1. OthersSame(t) /\ \A u \in Threads \ {t} : val'[u] = val[u]
  BY DEF OthersSame, Control, TypeOK, EnqSwing, GoTo, localVars
<1>2. UNCHANGED <<num_threads, head, next, data, heap, freeHead, freeSize>>
  BY DEF EnqSwing, GoTo, localVars
<1>3. Held(t)' = Held(t)
  BY DEF Held, Control, TypeOK, EnqSwing, GoTo, localVars
<1>4. ValueOf(t)'
  BY DEF SInv, ValueOf, Control, TypeOK, EnqSwing, GoTo, localVars
<1>5. /\ SInv' /\ AbsQueue' = AbsQueue
      /\ AbsCalls' = [AbsCalls EXCEPT ![t] = AbsCall(t)']
  BY <1>1, <1>2, <1>3, <1>4, UnchangedStep
<1>6. AbsCall(t)' = AbsCall(t)
  BY DEF AbsCall, Control, TypeOK, EnqSwing, GoTo, localVars
<1> QED BY <1>5, <1>6, Silent

(* enq returns. *)
LEMMA EnqUnsetLockSim ==
  ASSUME Control, SInv, NEW t \in Threads, EnqUnsetLock(t)
  PROVE  Simulated
<1>1. OthersSame(t) /\ \A u \in Threads \ {t} : val'[u] = val[u]
  BY DEF OthersSame, Control, TypeOK, EnqUnsetLock, Return, GoTo, heapVars
<1>2. UNCHANGED <<num_threads, head, next, data, heap, freeHead, freeSize>>
  BY DEF EnqUnsetLock, Return, GoTo, heapVars
<1>3. Held(t)' = Held(t)
  BY DEF Held, Control, TypeOK, EnqUnsetLock, Return, GoTo, heapVars
<1>4. ValueOf(t)'
  BY DEF SInv, ValueOf, Control, TypeOK, EnqUnsetLock, Return, GoTo, heapVars
<1>5. /\ SInv' /\ AbsQueue' = AbsQueue
      /\ AbsCalls' = [AbsCalls EXCEPT ![t] = AbsCall(t)']
  BY <1>1, <1>2, <1>3, <1>4, UnchangedStep
<1>6. AbsCall(t) = Abs!EnqDone /\ AbsCall(t)' = Abs!Idle
  BY DEF AbsCall, Control, TypeOK, Abs!EnqDone, Abs!Idle, EnqUnsetLock, Return, GoTo,
         heapVars
<1> QED BY <1>5, <1>6, AbsActions DEF Simulated, AbsCalls

(* deq gets its lock. *)
LEMMA DeqSetLockSim ==
  ASSUME Control, SInv, NEW t \in Threads, DeqSetLock(t)
  PROVE  Simulated
<1>1. OthersSame(t) /\ \A u \in Threads \ {t} : val'[u] = val[u]
  BY DEF OthersSame, Control, TypeOK, DeqSetLock, GoTo, Set, heapVars, localVars
<1>2. UNCHANGED <<num_threads, head, next, data, heap, freeHead, freeSize>>
  BY DEF DeqSetLock, GoTo, Set, heapVars, localVars
<1>3. Held(t)' = Held(t)
  BY DEF Held, Control, TypeOK, DeqSetLock, GoTo, Set, heapVars, localVars
<1>4. ValueOf(t)'
  BY DEF SInv, ValueOf, Control, TypeOK, DeqSetLock, GoTo, Set, heapVars, localVars
<1>5. /\ SInv' /\ AbsQueue' = AbsQueue
      /\ AbsCalls' = [AbsCalls EXCEPT ![t] = AbsCall(t)']
  BY <1>1, <1>2, <1>3, <1>4, UnchangedStep
<1>6. AbsCall(t)' = AbsCall(t)
  BY DEF AbsCall, Control, TypeOK, DeqSetLock, GoTo, Set, heapVars, localVars
<1> QED BY <1>5, <1>6, Silent

(* deq reads the pointers; without a successor it has seen the queue empty. *)
LEMMA DeqReadSim ==
  ASSUME Control, SInv, NEW t \in Threads, DeqRead(t)
  PROVE  Simulated
<1>1. OthersSame(t) /\ \A u \in Threads \ {t} : val'[u] = val[u]
  BY DEF OthersSame, Control, TypeOK, DeqRead, GoTo, heapVars, localVars
<1>2. UNCHANGED <<num_threads, head, next, data, heap, freeHead, freeSize>>
  BY DEF DeqRead, GoTo, heapVars, localVars
<1>3. Held(t)' = Held(t)
  BY DEF Held, Control, TypeOK, DeqRead, GoTo, heapVars, localVars
<1>4. ValueOf(t)'
  BY DEF SInv, ValueOf, Control, TypeOK, DeqRead, GoTo, heapVars, localVars
<1>5. /\ SInv' /\ AbsQueue' = AbsQueue
      /\ AbsCalls' = [AbsCalls EXCEPT ![t] = AbsCall(t)']
  BY <1>1, <1>2, <1>3, <1>4, UnchangedStep
<1>6. CASE next[head] # NULL
  <2>1. AbsCall(t)' = AbsCall(t)
    BY <1>6 DEF AbsCall, Control, TypeOK, DeqRead, GoTo, heapVars, localVars
  <2> QED BY <1>5, <2>1, Silent
<1>7. CASE next[head] = NULL
  <2>1. AbsCall(t) = Abs!Deq /\ AbsCall(t)' = Abs!DeqEmpty
    BY <1>7 DEF AbsCall, Control, TypeOK, Abs!Deq, Abs!DeqEmpty, DeqRead, GoTo, heapVars,
                localVars
  <2>2. num_threads # 0
    BY DEF Control, Pointers, PointersOf, DeqRead, GoTo, heapVars, localVars
  <2>3. AbsQueue = <<>>
    BY <1>7, <2>2, EmptyQueue
  <2> QED BY <1>5, <2>1, <2>3, AbsActions DEF Simulated, AbsCalls
<1> QED BY <1>6, <1>7

(* deq returns from an empty queue. *)
LEMMA DeqEmptySim ==
  ASSUME Control, SInv, NEW t \in Threads, DeqEmpty(t)
  PROVE  Simulated
<1>1. OthersSame(t) /\ \A u \in Threads \ {t} : val'[u] = val[u]
  BY DEF OthersSame, Control, TypeOK, DeqEmpty, Return, GoTo, heapVars
<1>2. UNCHANGED <<num_threads, head, next, data, heap, freeHead, freeSize>>
  BY DEF DeqEmpty, Return, GoTo, heapVars
<1>3. Held(t)' = Held(t)
  BY DEF Held, Control, TypeOK, DeqEmpty, Return, GoTo, heapVars
<1>4. ValueOf(t)'
  BY DEF SInv, ValueOf, Control, TypeOK, DeqEmpty, Return, GoTo, heapVars
<1>5. /\ SInv' /\ AbsQueue' = AbsQueue
      /\ AbsCalls' = [AbsCalls EXCEPT ![t] = AbsCall(t)']
  BY <1>1, <1>2, <1>3, <1>4, UnchangedStep
<1>6. AbsCall(t) = Abs!DeqEmpty /\ AbsCall(t)' = Abs!Idle
  BY DEF AbsCall, Control, TypeOK, Abs!DeqEmpty, Abs!Idle, DeqEmpty, Return, GoTo, heapVars
<1> QED BY <1>5, <1>6, AbsActions DEF Simulated, AbsCalls

(* deq reads the oldest value. *)
LEMMA DeqReadValueSim ==
  ASSUME Control, SInv, NEW t \in Threads, DeqReadValue(t)
  PROVE  Simulated
<1>1. OthersSame(t) /\ \A u \in Threads \ {t} : val'[u] = val[u]
  BY DEF OthersSame, Control, TypeOK, DeqReadValue, GoTo, heapVars
<1>2. UNCHANGED <<num_threads, head, next, data, heap, freeHead, freeSize>>
  BY DEF DeqReadValue, GoTo, heapVars
<1>3. Held(t)' = Held(t)
  BY DEF Held, Control, TypeOK, DeqReadValue, GoTo, heapVars
<1>4. ValueOf(t)'
  BY DEF SInv, ValueOf, Control, TypeOK, DeqReadValue, GoTo, heapVars
<1>5. /\ SInv' /\ AbsQueue' = AbsQueue
      /\ AbsCalls' = [AbsCalls EXCEPT ![t] = AbsCall(t)']
  BY <1>1, <1>2, <1>3, <1>4, UnchangedStep
<1>6. AbsCall(t)' = AbsCall(t)
  BY DEF AbsCall, Control, TypeOK, DeqReadValue, GoTo, heapVars
<1> QED BY <1>5, <1>6, Silent

(* deq tests whether the queue has become empty. *)
LEMMA DeqTestLastSim ==
  ASSUME Control, SInv, NEW t \in Threads, DeqTestLast(t)
  PROVE  Simulated
<1>1. OthersSame(t) /\ \A u \in Threads \ {t} : val'[u] = val[u]
  BY DEF OthersSame, Control, TypeOK, DeqTestLast, GoTo, heapVars, localVars
<1>2. UNCHANGED <<num_threads, head, next, data, heap, freeHead, freeSize>>
  BY DEF DeqTestLast, GoTo, heapVars, localVars
<1>3. Held(t)' = Held(t)
  BY DEF Held, Control, TypeOK, DeqTestLast, GoTo, heapVars, localVars
<1>4. ValueOf(t)'
  BY DEF SInv, ValueOf, Control, TypeOK, DeqTestLast, GoTo, heapVars, localVars
<1>5. /\ SInv' /\ AbsQueue' = AbsQueue
      /\ AbsCalls' = [AbsCalls EXCEPT ![t] = AbsCall(t)']
  BY <1>1, <1>2, <1>3, <1>4, UnchangedStep
<1>6. AbsCall(t)' = AbsCall(t)
  BY DEF AbsCall, Control, TypeOK, DeqTestLast, GoTo, heapVars, localVars
<1> QED BY <1>5, <1>6, Silent

(* deq gets the lock of enq. *)
LEMMA DeqSetEnqLockSim ==
  ASSUME Control, SInv, NEW t \in Threads, DeqSetEnqLock(t)
  PROVE  Simulated
<1>1. OthersSame(t) /\ \A u \in Threads \ {t} : val'[u] = val[u]
  BY DEF OthersSame, Control, TypeOK, DeqSetEnqLock, GoTo, Set, heapVars, localVars
<1>2. UNCHANGED <<num_threads, head, next, data, heap, freeHead, freeSize>>
  BY DEF DeqSetEnqLock, GoTo, Set, heapVars, localVars
<1>3. Held(t)' = Held(t)
  BY DEF Held, Control, TypeOK, DeqSetEnqLock, GoTo, Set, heapVars, localVars
<1>4. ValueOf(t)'
  BY DEF SInv, ValueOf, Control, TypeOK, DeqSetEnqLock, GoTo, Set, heapVars, localVars
<1>5. /\ SInv' /\ AbsQueue' = AbsQueue
      /\ AbsCalls' = [AbsCalls EXCEPT ![t] = AbsCall(t)']
  BY <1>1, <1>2, <1>3, <1>4, UnchangedStep
<1>6. AbsCall(t)' = AbsCall(t)
  BY DEF AbsCall, Control, TypeOK, DeqSetEnqLock, GoTo, Set, heapVars, localVars
<1> QED BY <1>5, <1>6, Silent

(* deq tests again and may write tail. *)
LEMMA DeqRecheckSim ==
  ASSUME Control, SInv, NEW t \in Threads, DeqRecheck(t)
  PROVE  Simulated
<1>1. OthersSame(t) /\ \A u \in Threads \ {t} : val'[u] = val[u]
  BY DEF OthersSame, Control, TypeOK, DeqRecheck, GoTo, localVars
<1>2. UNCHANGED <<num_threads, head, next, data, heap, freeHead, freeSize>>
  BY DEF DeqRecheck, GoTo, localVars
<1>3. Held(t)' = Held(t)
  BY DEF Held, Control, TypeOK, DeqRecheck, GoTo, localVars
<1>4. ValueOf(t)'
  BY DEF SInv, ValueOf, Control, TypeOK, DeqRecheck, GoTo, localVars
<1>5. /\ SInv' /\ AbsQueue' = AbsQueue
      /\ AbsCalls' = [AbsCalls EXCEPT ![t] = AbsCall(t)']
  BY <1>1, <1>2, <1>3, <1>4, UnchangedStep
<1>6. AbsCall(t)' = AbsCall(t)
  BY DEF AbsCall, Control, TypeOK, DeqRecheck, GoTo, localVars
<1> QED BY <1>5, <1>6, Silent

(* deq gives the lock of enq back. *)
LEMMA DeqUnsetEnqLockSim ==
  ASSUME Control, SInv, NEW t \in Threads, DeqUnsetEnqLock(t)
  PROVE  Simulated
<1>1. OthersSame(t) /\ \A u \in Threads \ {t} : val'[u] = val[u]
  BY DEF OthersSame, Control, TypeOK, DeqUnsetEnqLock, GoTo, heapVars, localVars
<1>2. UNCHANGED <<num_threads, head, next, data, heap, freeHead, freeSize>>
  BY DEF DeqUnsetEnqLock, GoTo, heapVars, localVars
<1>3. Held(t)' = Held(t)
  BY DEF Held, Control, TypeOK, DeqUnsetEnqLock, GoTo, heapVars, localVars
<1>4. ValueOf(t)'
  BY DEF SInv, ValueOf, Control, TypeOK, DeqUnsetEnqLock, GoTo, heapVars, localVars
<1>5. /\ SInv' /\ AbsQueue' = AbsQueue
      /\ AbsCalls' = [AbsCalls EXCEPT ![t] = AbsCall(t)']
  BY <1>1, <1>2, <1>3, <1>4, UnchangedStep
<1>6. AbsCall(t)' = AbsCall(t)
  BY DEF AbsCall, Control, TypeOK, DeqUnsetEnqLock, GoTo, heapVars, localVars
<1> QED BY <1>5, <1>6, Silent

(* deq returns with a value. *)
LEMMA DeqUnsetLockSim ==
  ASSUME Control, SInv, NEW t \in Threads, DeqUnsetLock(t)
  PROVE  Simulated
<1>1. OthersSame(t) /\ \A u \in Threads \ {t} : val'[u] = val[u]
  BY DEF OthersSame, Control, TypeOK, DeqUnsetLock, Return, GoTo, heapVars
<1>2. UNCHANGED <<num_threads, head, next, data, heap, freeHead, freeSize>>
  BY DEF DeqUnsetLock, Return, GoTo, heapVars
<1>3. Held(t)' = Held(t)
  BY DEF Held, Control, TypeOK, DeqUnsetLock, Return, GoTo, heapVars
<1>4. ValueOf(t)'
  BY DEF SInv, ValueOf, Control, TypeOK, DeqUnsetLock, Return, GoTo, heapVars
<1>5. /\ SInv' /\ AbsQueue' = AbsQueue
      /\ AbsCalls' = [AbsCalls EXCEPT ![t] = AbsCall(t)']
  BY <1>1, <1>2, <1>3, <1>4, UnchangedStep
<1>6. val[t] \in Values /\ AbsCall(t) = Abs!DeqDone(val[t]) /\ AbsCall(t)' = Abs!Idle
  BY DEF SInv, ValueOf, AbsCall, Control, TypeOK, Abs!DeqDone, Abs!Idle, DeqUnsetLock,
         Return, GoTo, heapVars
<1> QED BY <1>5, <1>6, AbsActions DEF Simulated, AbsCalls

(* Between two calls the queue is replaced by an empty one. *)
LEMMA NewSim ==
  ASSUME NEW q, NEW G, Paths(q, G)', ValuesOf(q, data') = <<>>,
         heap' \ Listed(q, G) = AllHeld,
         \A t \in Threads : /\ Held(t) = {} /\ Held(t)' = {} /\ ValueOf(t)'
                            /\ AbsCall(t) = Abs!Idle /\ AbsCall(t)' = Abs!Idle
  PROVE  Simulated
<1>1. AllHeld = {} /\ AllHeld' = {}
  BY DEF AllHeld
<1>2. ValuesOf(q, data') \in Seq(Values)
  BY EmptySeq
<1>3. Shape({})' /\ AbsQueue' = <<>>
  BY <1>1, <1>2, ShapeNext DEF AbsQueue
<1>4. SInv'
  BY <1>1, <1>3 DEF SInv, Shape
<1>5. AbsCalls' = AbsCalls /\ \A t \in Threads : AbsCalls[t] = Abs!Idle
  BY DEF AbsCalls
<1> QED BY <1>3, <1>4, <1>5, AbsActions DEF Simulated

(* enq gets a node, which no list has any more. *)
LEMMA EnqUpcycleSim ==
  ASSUME Control, NEW L, NEW F, GInv(L, F), SInv, NEW t \in Threads, EnqUpcycle(t)
  PROVE  Simulated
<1>1. PICK q, G : /\ Paths(q, G)
                  /\ heap \ Listed(q, G) = AllHeld
                  /\ ValuesOf(q, data) \in Seq(Values)
                  /\ AbsQueue = ValuesOf(q, data)
  BY Unfold
<1>2. PICK n \in Nodes : Upcycle(t, n) /\ node' = [node EXCEPT ![t] = n]
  BY DEF EnqUpcycle
<1>3. PICK G2 : G2 = Popped(G, t)
  OBVIOUS
<1>4. /\ Paths(q, G2)'
      /\ heap' \ Listed(q, G2) = (heap \ Listed(q, G)) \cup {n}
      /\ ValuesOf(q, data') = ValuesOf(q, data)
  <2>1. HeapTypeOK /\ UNCHANGED <<num_threads, head, tail>>
    BY DEF EnqUpcycle, Control, TypeOK
  <2> QED BY <1>1, <1>2, <1>3, <2>1, UpcyclePaths
<1>5. OthersSame(t) /\ \A u \in Threads \ {t} : val'[u] = val[u]
  BY <1>2 DEF OthersSame, Control, TypeOK, EnqUpcycle, GoTo
<1>6. Held(t) = {} /\ Held(t)' = {n}
  BY <1>2 DEF Held, Control, TypeOK, EnqUpcycle, GoTo
<1>7. heap' \ Listed(q, G2) = AllHeld'
  BY <1>1, <1>4, <1>5, <1>6, HeldNext
<1>8. ValueOf(t)' /\ InEnqSection(t) /\ AbsCall(t)' = AbsCall(t)
  BY DEF SInv, ValueOf, AbsCall, Control, TypeOK, EnqUpcycle, GoTo, InEnqSection, EnqLabels
<1>9. \A x \in L : data'[x] = data[x]
  BY <1>2 DEF Upcycle, MakeNode, GInv, Lists, Control, TypeOK, HeapTypeOK
<1>10. \A u \in Threads \ {t} : ValueOf(u)'
  BY <1>5, <1>8, <1>9, ValuesOfOthers
<1>11. /\ SInv' /\ AbsQueue' = ValuesOf(q, data')
       /\ AbsCalls' = [AbsCalls EXCEPT ![t] = AbsCall(t)']
  BY <1>1, <1>4, <1>5, <1>7, <1>8, <1>10, ShapeStep
<1> QED BY <1>1, <1>4, <1>8, <1>11, Silent

(* enq writes the fields of its node. *)
LEMMA EnqFillSim ==
  ASSUME Control, NEW L, NEW F, GInv(L, F), SInv, NEW t \in Threads, EnqFill(t)
  PROVE  Simulated
<1>1. PICK q, G : /\ Paths(q, G)
                  /\ heap \ Listed(q, G) = AllHeld
                  /\ ValuesOf(q, data) \in Seq(Values)
                  /\ AbsQueue = ValuesOf(q, data)
  BY Unfold
<1>2. PICK n \in Nodes : n = node[t] /\ Held(t) = {n}
  BY DEF Control, Pointers, PointersOf, Held, EnqFill, GoTo
<1>3. n \in heap \ Listed(q, G) /\ n \notin L
  BY <1>1, <1>2 DEF AllHeld, GInv, HeldApart, Apart
<1>4. Paths(q, G)' /\ ValuesOf(q, data') = ValuesOf(q, data)
  <2>1. \A y \in Nodes \ {n} : next'[y] = next[y] /\ data'[y] = data[y]
    BY <1>2 DEF EnqFill, Control, TypeOK, HeapTypeOK
  <2> QED BY <1>1, <1>3, <2>1, FillPaths DEF EnqFill, Control, TypeOK
<1>5. OthersSame(t) /\ \A u \in Threads \ {t} : val'[u] = val[u]
  BY DEF OthersSame, Control, TypeOK, EnqFill, GoTo, localVars
<1>6. Held(t)' = Held(t)
  BY DEF Held, Control, TypeOK, EnqFill, GoTo, localVars
<1>7. heap' \ Listed(q, G) = AllHeld'
  BY <1>1, <1>5, <1>6, HeldNext DEF EnqFill
<1>8. InEnqSection(t) /\ AbsCall(t)' = AbsCall(t)
  BY DEF AbsCall, Control, TypeOK, EnqFill, GoTo, localVars, InEnqSection, EnqLabels
<1>9. ValueOf(t)'
  BY <1>2 DEF SInv, ValueOf, Control, TypeOK, HeapTypeOK, EnqFill, GoTo, localVars
<1>10. \A x \in L : data'[x] = data[x]
  BY <1>2, <1>3 DEF EnqFill, GInv, Lists, Control, TypeOK, HeapTypeOK
<1>11. \A u \in Threads \ {t} : ValueOf(u)'
  BY <1>5, <1>8, <1>10, ValuesOfOthers
<1>12. /\ SInv' /\ AbsQueue' = ValuesOf(q, data')
       /\ AbsCalls' = [AbsCalls EXCEPT ![t] = AbsCall(t)']
  BY <1>1, <1>4, <1>5, <1>7, <1>9, <1>11, ShapeStep
<1> QED BY <1>1, <1>4, <1>8, <1>12, Silent

(* enq links its node: this is where it takes effect. *)
LEMMA EnqLinkSim ==
  ASSUME Control, NEW L, NEW F, GInv(L, F), SInv, NEW t \in Threads, EnqLink(t)
  PROVE  Simulated
<1>1. PICK q, G : /\ Paths(q, G)
                  /\ heap \ Listed(q, G) = AllHeld
                  /\ ValuesOf(q, data) \in Seq(Values)
                  /\ AbsQueue = ValuesOf(q, data)
  BY Unfold
<1>2. PICK n \in Nodes : n = node[t] /\ Held(t) = {n}
  BY DEF Control, Pointers, PointersOf, Held, EnqLink, GoTo
<1>3. /\ num_threads # 0 /\ next[n] = NULL /\ InEnqSection(t) /\ pc[t] = "link"
      /\ val[t] \in Values /\ data[n] = val[t]
  BY <1>2 DEF GInv, LinksOf, Control, Pointers, PointersOf, SInv, ValueOf, InEnqSection,
              EnqLabels, EnqLink, GoTo
<1>4. n \in heap \ Listed(q, G)
  BY <1>1, <1>2 DEF AllHeld
<1>5. PICK l : l = tail
  OBVIOUS
<1>6. l = q[Len(q)]
  <2>1. l \in L /\ next[l] = NULL
    BY <1>3, <1>5, TailIsLast
  <2>2. IsList(L, head, next) /\ NULL \notin L
    BY <1>3, HeapAssumption DEF GInv, Lists, Control, TypeOK, HeapTypeOK
  <2>3. IsPath(q, head, next) /\ q # <<>>
    BY <1>1, <1>3 DEF Paths
  <2> QED BY <2>1, <2>2, <2>3, PathLast
<1>7. /\ Paths(Append(q, n), G)'
      /\ heap' \ Listed(Append(q, n), G) = (heap \ Listed(q, G)) \ {n}
      /\ ValuesOf(Append(q, n), data') = Append(ValuesOf(q, data), data[n])
      /\ ValuesOf(Append(q, n), data') \in Seq(Values)
  <2>1. next' = [next EXCEPT ![l] = n]
    BY <1>2, <1>5 DEF EnqLink
  <2>2. HeapTypeOK /\ UNCHANGED <<num_threads, head, data, heap, freeHead, freeSize>>
    BY DEF Control, TypeOK, EnqLink
  <2>3. data[n] \in Values
    BY <1>3
  <2> QED BY <1>1, <1>3, <1>4, <1>6, <2>1, <2>2, <2>3, LinkPaths
<1>8. OthersSame(t) /\ \A u \in Threads \ {t} : val'[u] = val[u]
  BY DEF OthersSame, Control, TypeOK, EnqLink, GoTo, localVars
<1>9. Held(t)' = {}
  BY DEF Held, Control, TypeOK, EnqLink, GoTo
<1>10. \A u \in Threads \ {t} : n \notin Held(u)
  BY <1>2 DEF GInv, HeldApart
<1>11. heap' \ Listed(Append(q, n), G) = AllHeld'
  <2>1. PICK rest : /\ AllHeld = Held(t) \cup rest
                    /\ AllHeld' = Held(t)' \cup rest
                    /\ rest = UNION {Held(u) : u \in Threads \ {t}}
    BY <1>8, HeldNext
  <2>2. n \notin rest
    BY ONLY <1>10, <2>1
  <2> QED BY <1>1, <1>2, <1>7, <1>9, <2>1, <2>2
<1>12. ValueOf(t)' /\ AbsCall(t) = Abs!Enq(val[t]) /\ AbsCall(t)' = Abs!EnqDone
  BY DEF ValueOf, AbsCall, Control, TypeOK, EnqLink, GoTo, Abs!Enq, Abs!EnqDone
<1>13. \A u \in Threads \ {t} : ValueOf(u)'
  BY <1>8, ValuesOfOthers DEF EnqLink
<1>14. PICK q2 : q2 = Append(q, n)
  OBVIOUS
<1>15. /\ SInv' /\ AbsQueue' = ValuesOf(q2, data')
       /\ AbsCalls' = [AbsCalls EXCEPT ![t] = AbsCall(t)']
  BY <1>7, <1>8, <1>11, <1>12, <1>13, <1>14, ShapeStep
<1>16. AbsQueue' = Append(AbsQueue, val[t])
  BY <1>1, <1>3, <1>7, <1>14, <1>15
<1> QED BY <1>3, <1>12, <1>15, <1>16, AbsActions DEF Simulated, AbsCalls

(* deq moves head: this is where it takes effect. *)
LEMMA DeqMoveHeadSim ==
  ASSUME Control, NEW L, NEW F, GInv(L, F), SInv, NEW t \in Threads, DeqMoveHead(t)
  PROVE  Simulated
<1>1. PICK q, G : /\ Paths(q, G)
                  /\ heap \ Listed(q, G) = AllHeld
                  /\ ValuesOf(q, data) \in Seq(Values)
                  /\ AbsQueue = ValuesOf(q, data)
  BY Unfold
<1>2. /\ num_threads # 0 /\ sentinel[t] = head /\ next[head] # NULL
      /\ head' = next[head] /\ val[t] = data[next[head]]
  BY HeapAssumption
  DEF GInv, LinksOf, Control, Pointers, PointersOf, SInv, ValueOf, DeqMoveHead, GoTo
<1>3. PICK q2, h : q2 = Tail(q) /\ h = head
  OBVIOUS
<1>4. /\ Paths(q2, G)'
      /\ heap' \ Listed(q2, G) = (heap \ Listed(q, G)) \cup {h}
      /\ AbsQueue # <<>> /\ Head(AbsQueue) = val[t] /\ val[t] \in Values
      /\ ValuesOf(q2, data') = Tail(AbsQueue)
      /\ ValuesOf(q2, data') \in Seq(Values)
  <2>1. HeapTypeOK /\ UNCHANGED <<num_threads, next, data, heap, freeHead, freeSize>>
    BY DEF Control, TypeOK, DeqMoveHead
  <2> QED BY <1>1, <1>2, <1>3, <2>1, MoveHeadPaths
<1>5. OthersSame(t) /\ \A u \in Threads \ {t} : val'[u] = val[u]
  BY DEF OthersSame, Control, TypeOK, DeqMoveHead, GoTo
<1>6. Held(t) = {} /\ Held(t)' = {h}
  BY <1>2, <1>3 DEF Held, Control, TypeOK, DeqMoveHead, GoTo
<1>7. heap' \ Listed(q2, G) = AllHeld'
  BY <1>1, <1>4, <1>5, <1>6, HeldNext DEF DeqMoveHead
<1>8. ValueOf(t)' /\ AbsCall(t) = Abs!Deq /\ AbsCall(t)' = Abs!DeqDone(val[t])
  BY <1>4 DEF ValueOf, AbsCall, Control, TypeOK, DeqMoveHead, GoTo, Abs!Deq, Abs!DeqDone
<1>9. \A u \in Threads \ {t} : ValueOf(u)'
  BY <1>5, ValuesOfOthers DEF DeqMoveHead
<1>10. /\ SInv' /\ AbsQueue' = ValuesOf(q2, data')
       /\ AbsCalls' = [AbsCalls EXCEPT ![t] = AbsCall(t)']
  BY <1>4, <1>5, <1>7, <1>8, <1>9, ShapeStep
<1> QED BY <1>4, <1>8, <1>10, AbsActions DEF Simulated, AbsCalls

(* deq puts the old dummy node on its free list. *)
LEMMA DeqRecycleSim ==
  ASSUME Control, NEW L, NEW F, GInv(L, F), SInv, NEW t \in Threads, DeqRecycle(t)
  PROVE  Simulated
<1>1. PICK q, G : /\ Paths(q, G)
                  /\ heap \ Listed(q, G) = AllHeld
                  /\ ValuesOf(q, data) \in Seq(Values)
                  /\ AbsQueue = ValuesOf(q, data)
  BY Unfold
<1>2. PICK x : x = sentinel[t] /\ Held(t) = {x}
  BY DEF Held, DeqRecycle, GoTo
<1>3. x \in heap \ Listed(q, G) /\ x \in Nodes
  BY <1>1, <1>2 DEF AllHeld, Control, TypeOK, HeapTypeOK
<1>4. PICK G2 : G2 = Pushed(G, t, x)
  OBVIOUS
<1>5. /\ Paths(q, G2)'
      /\ heap' \ Listed(q, G2) = (heap \ Listed(q, G)) \ {x}
      /\ ValuesOf(q, data') = ValuesOf(q, data)
  <2>1. /\ HeapTypeOK /\ UNCHANGED <<num_threads, head, tail>> /\ num_threads # 0
        /\ Recycle(t, x)
    BY <1>2 DEF DeqRecycle, Control, TypeOK, Pointers, PointersOf, GoTo
  <2> QED BY <1>1, <1>3, <1>4, <2>1, RecyclePaths
<1>6. OthersSame(t) /\ \A u \in Threads \ {t} : val'[u] = val[u]
  BY DEF OthersSame, Control, TypeOK, DeqRecycle, GoTo
<1>7. Held(t)' = {}
  BY DEF Held, Control, TypeOK, DeqRecycle, GoTo
<1>8. \A u \in Threads \ {t} : x \notin Held(u)
  BY <1>2 DEF GInv, HeldApart
<1>9. heap' \ Listed(q, G2) = AllHeld'
  BY <1>1, <1>2, <1>5, <1>6, <1>7, <1>8, HeldNext
<1>10. ValueOf(t)' /\ AbsCall(t)' = AbsCall(t)
  BY DEF SInv, ValueOf, AbsCall, Control, TypeOK, DeqRecycle, GoTo
<1>11. \A u \in Threads \ {t} : ValueOf(u)'
  BY <1>6, ValuesOfOthers DEF DeqRecycle, Recycle
<1>12. /\ SInv' /\ AbsQueue' = ValuesOf(q, data')
       /\ AbsCalls' = [AbsCalls EXCEPT ![t] = AbsCall(t)']
  BY <1>1, <1>5, <1>6, <1>9, <1>10, <1>11, ShapeStep
<1> QED BY <1>1, <1>5, <1>10, <1>12, Silent

(* destroy_queue leaves no node allocated. *)
LEMMA DestroySim ==
  ASSUME Control, SInv, Destroy
  PROVE  Simulated
<1>1. PICK q, G : Paths(q, G) /\ heap \ Listed(q, G) = AllHeld
  BY Unfold
<1>2. PICK G2 : G2 = [t \in Threads |-> <<>>]
  OBVIOUS
<1>3. /\ Paths(<<>>, G2)' /\ ValuesOf(<<>>, data') = <<>>
      /\ heap' \ Listed(<<>>, G2) = heap \ Listed(q, G)
  BY <1>1, <1>2, NoPaths DEF Destroy
<1>4. \A t \in Threads : /\ Held(t) = {} /\ Held(t)' = {} /\ ValueOf(t)'
                         /\ AbsCall(t) = Abs!Idle /\ AbsCall(t)' = Abs!Idle
  BY DEF Destroy, Held, ValueOf, AbsCall, Abs!Idle
<1> QED BY <1>1, <1>3, <1>4, NewSim

(* init_queue sets up an empty queue. *)
LEMMA InitQueueSim ==
  ASSUME Control, SInv, InitQueue
  PROVE  Simulated
<1>1. PICK q, G : Paths(q, G) /\ heap \ Listed(q, G) = AllHeld
  BY Unfold
<1>2. PICK G2 : G2 = [t \in Threads |-> <<>>]
  OBVIOUS
<1>3. PICK q2 : q2 = <<head>>'
  OBVIOUS
<1>4. /\ Paths(q2, G2)' /\ ValuesOf(q2, data') = <<>>
      /\ heap' \ Listed(q2, G2) = heap \ Listed(q, G)
  BY <1>1, <1>2, <1>3, FreshPaths DEF InitQueue, Control, TypeOK
<1>5. \A t \in Threads : pc[t] = "idle" /\ pc'[t] = "idle"
  BY DEF Control, Pointers, PointersOf, InitQueue, InitHeap
<1>6. \A t \in Threads : /\ Held(t) = {} /\ Held(t)' = {} /\ ValueOf(t)'
                         /\ AbsCall(t) = Abs!Idle /\ AbsCall(t)' = Abs!Idle
  BY <1>5 DEF Held, ValueOf, AbsCall, Abs!Idle
<1> QED BY <1>1, <1>4, <1>6, NewSim

(* Every step is one of the abstract queue or none. *)
LEMMA StepSim == IInv /\ SInv /\ [Next]_vars => SInv' /\ [Abs!AbsNext]_(Abs!avars)
<1> SUFFICES ASSUME IInv, SInv, [Next]_vars
             PROVE  Simulated
  BY DEF Simulated
<1>1. PICK L, F : GInv(L, F)
  BY DEF IInv
<1>2. Control
  BY DEF IInv
<1>3. ASSUME NEW t \in Threads, Begin(t)
      PROVE  Simulated
  BY <1>2, <1>3, BeginSim
<1>4. ASSUME NEW t \in Threads, Step(t)
      PROVE  Simulated
  <2>1. CASE EnqStep(t)
    BY <1>1, <1>2, <2>1, EnqSetLockSim, EnqUpcycleSim, EnqNoMemorySim, EnqRefuseSim,
       EnqFillSim, EnqLinkSim, EnqSwingSim, EnqUnsetLockSim
    DEF EnqStep
  <2>2. CASE DeqStep(t)
    BY <1>1, <1>2, <2>2, DeqSetLockSim, DeqReadSim, DeqEmptySim, DeqReadValueSim,
       DeqMoveHeadSim, DeqTestLastSim, DeqSetEnqLockSim, DeqRecheckSim,
       DeqUnsetEnqLockSim, DeqRecycleSim, DeqUnsetLockSim
    DEF DeqStep
  <2> QED BY <1>4, <2>1, <2>2 DEF Step
<1>5. CASE Destroy
  BY <1>2, <1>5, DestroySim
<1>6. CASE InitQueue
  BY <1>2, <1>6, InitQueueSim
<1>7. CASE UNCHANGED vars
  <2>1. SInv'
    <3>1. UNCHANGED <<num_threads, head, next, data, heap, freeHead, freeSize,
                      pc, node, sentinel, nxt, val>>
      BY <1>7 DEF vars, heapVars, localVars
    <3>2. QueuePath' = QueuePath /\ FreePaths' = FreePaths
      BY <3>1 DEF QueuePath, FreePaths, Chain
    <3>3. PICK q, G : q = QueuePath /\ G = FreePaths /\ Paths(q, G)
      BY DEF SInv, Shape
    <3>4. Paths(q, G)'
      BY <3>1, <3>3 DEF Paths
    <3>5. Paths(QueuePath, FreePaths)'
      BY <3>2, <3>3, <3>4 DEF Paths
    <3>6. AllHeld' = AllHeld /\ \A t \in Threads : ValueOf(t)'
      BY <3>1 DEF AllHeld, Held, SInv, ValueOf
    <3> QED BY <3>1, <3>2, <3>5, <3>6 DEF SInv, Shape, Loose
  <2>2. UNCHANGED Abs!avars
    BY <1>7 DEF Abs!avars, Contents, Chain, AbsCall, vars, heapVars, localVars
  <2> QED BY <2>1, <2>2 DEF Simulated
<1> QED BY <1>3, <1>4, <1>5, <1>6, <1>7 DEF Next

(* At the start the queue is empty and every node is accounted for. *)
LEMMA InitSim == Init => SInv /\ Abs!AbsInit
<1> SUFFICES ASSUME Init PROVE SInv /\ Abs!AbsInit
  OBVIOUS
<1>1. PICK G : G = [t \in Threads |-> <<>>]
  OBVIOUS
<1>2. PICK q : q = <<head>>
  OBVIOUS
<1>3. /\ Paths(q, G) /\ heap \ Listed(q, G) = {}
      /\ ValuesOf(q, data) \in Seq(Values)
  BY <1>1, <1>2, FirstPaths DEF Init
<1>4. ValuesOf(q, data) = <<>>
  <2>1. Len(q) = 1
    BY <1>2
  <2> QED BY <2>1, ValuesOfNone
<1>5. \A t \in Threads : Held(t) = {} /\ ValueOf(t) /\ AbsCall(t) = Abs!Idle
  BY DEF Init, Held, ValueOf, AbsCall, Abs!Idle
<1>6. AllHeld = {} /\ num_threads # 0
  BY <1>5, HeapAssumption DEF AllHeld, Init, HeapInit
<1>7. q = QueuePath /\ G = FreePaths /\ Contents = <<>>
  BY <1>3, <1>4, <1>6, PathsAreChains
<1>8. SInv
  BY <1>3, <1>5, <1>6, <1>7 DEF SInv, Shape, Loose
<1> QED BY <1>5, <1>6, <1>7, <1>8 DEF Abs!AbsInit

(* The second layer of the invariant holds throughout. *)
THEOREM ShapeInvariance == Spec => []SInv
<1>1. Init => SInv
  BY InitSim
<1>2. IInv /\ SInv /\ [Next]_vars => SInv'
  BY StepSim
<1> QED BY <1>1, <1>2, Invariance, PTL DEF Spec

(* Every allocated node has exactly one owner, a list or a call: none is    *)
(* lost or recycled twice, although enq and deq hold different locks.       *)
THEOREM Accounting == Spec => []NodesAccounted
<1>1. IInv /\ SInv => NodesAccounted
  <2> SUFFICES ASSUME IInv, SInv PROVE NodesAccounted
    OBVIOUS
  <2>1. PICK q, G : /\ q = QueuePath /\ G = FreePaths
                    /\ Paths(q, G) /\ heap \ Listed(q, G) = AllHeld
    BY DEF SInv, Shape, Loose
  <2>2. \A t, u \in Threads : t # u => Held(t) \cap Held(u) = {}
    BY DEF IInv, GInv, HeldApart
  <2>3. PICK H : H = [t \in Threads |-> Held(t)]
    OBVIOUS
  <2>4. /\ heap \ Listed(q, G) = UNION {H[t] : t \in Threads}
        /\ \A t, u \in Threads : t # u => H[t] \cap H[u] = {}
    BY <2>1, <2>2, <2>3 DEF AllHeld
  <2>5. /\ InQueue = NodesOf(q)
        /\ \A t \in Threads : ChainNodes(freeHead[t]) = NodesOf(G[t])
    <3>1. num_threads = 0 => q = <<>> /\ NodesOf(q) = {}
      BY <2>1, PathNodes, PathOfNone DEF QueuePath
    <3>2. /\ num_threads # 0 => ChainNodes(head) = NodesOf(q)
          /\ \A t \in Threads : ChainNodes(freeHead[t]) = NodesOf(G[t])
      BY <2>1, PathsAreChains
    <3> QED BY <3>1, <3>2 DEF InQueue
  <2>6. ASSUME NEW x \in Nodes
        PROVE  (IF x \in InQueue THEN 1 ELSE 0)
                 + Cardinality({t \in Threads : x \in ChainNodes(freeHead[t])})
                 + Cardinality({t \in Threads : x \in Held(t)})
               = IF x \in heap THEN 1 ELSE 0
    <3>1. (IF x \in NodesOf(q) THEN 1 ELSE 0)
             + Cardinality({t \in Threads : x \in NodesOf(G[t])})
             + Cardinality({t \in Threads : x \in H[t]})
           = IF x \in heap THEN 1 ELSE 0
      BY <2>1, <2>4, OneOwner
    <3>2. {t \in Threads : x \in H[t]} = {t \in Threads : x \in Held(t)}
      BY <2>3
    <3>3. {t \in Threads : x \in NodesOf(G[t])}
            = {t \in Threads : x \in ChainNodes(freeHead[t])}
      BY <2>5
    <3> QED BY <2>5, <3>1, <3>2, <3>3
  <2>7. \A t \in Threads : freeSize[t] = Len(Chain(freeHead[t]))
    BY <2>1 DEF Paths, FreePaths
  <2> QED BY <2>6, <2>7 DEF NodesAccounted
<1> QED BY <1>1, Invariance, ShapeInvariance, PTL

(* Every call takes effect at one instant between its beginning and its     *)
(* return, in first-in-first-out order.                                     *)
THEOREM Linearizability == Spec => Linearizable
<1>1. Init => Abs!AbsInit
  BY InitSim
<1>2. IInv /\ SInv /\ [Next]_vars => [Abs!AbsNext]_(Abs!avars)
  BY StepSim
<1>3. Spec => Abs!AbsInit /\ [][Abs!AbsNext]_(Abs!avars)
  BY <1>1, <1>2, Invariance, ShapeInvariance, PTL DEF Spec
<1> QED BY <1>3 DEF Linearizable, Abs!AbsSpec
=============================================================================
