--------------------------- MODULE GlobalLockQueueProofs ---------------------------
(***************************************************************************)
(* What is proved about GlobalLockQueue for every number of threads and    *)
(* every set of nodes and values.                                          *)
(***************************************************************************)
EXTENDS GlobalLockQueueInv, NodeListsProofs

(* What a step of t leaves alone. *)
OthersSame(t) ==
  \A u \in Threads \ {t} :
    pc'[u] = pc[u] /\ node'[u] = node[u] /\ sentinel'[u] = sentinel[u]

(* The lock is right after a step of t that sets it, gives it back or does  *)
(* neither.                                                                 *)
LEMMA LockStep ==
  ASSUME TypeOK, LockHeld, NEW t \in Threads, OthersSame(t),
         \/ lock' = lock /\ (InSection(t)' <=> InSection(t))
         \/ lock = Unset /\ lock' = t /\ InSection(t)'
         \/ InSection(t) /\ lock' = Unset /\ ~InSection(t)'
  PROVE  LockHeld'
<1> SUFFICES ASSUME NEW u \in Threads
             PROVE  InSection(u)' <=> lock' = u
  BY DEF LockHeld
<1>1. (InSection(u) <=> lock = u) /\ (InSection(t) <=> lock = t)
  BY DEF LockHeld
<1>2. t # Unset /\ u # Unset
  BY HeapAssumption DEF Threads, Unset
<1>3. u # t => (InSection(u)' <=> InSection(u))
  BY DEF InSection, OthersSame
<1> QED BY <1>1, <1>2, <1>3

(* While t has the lock nobody else is inside enq or deq.                   *)
LEMMA Alone ==
  ASSUME LockHeld, NEW t \in Threads, InSection(t), NEW u \in Threads \ {t}
  PROVE  pc[u] \notin EnqSection \cup DeqSection
  BY DEF LockHeld, InSection

(* A step of t that changes no list and takes no node.                      *)
LEMMA LocalStep ==
  ASSUME TypeOK, NEW L, NEW F, GInv(L, F), NEW t \in Threads, OthersSame(t),
         UNCHANGED <<num_threads, head, next, heap, freeHead>>,
         Held(t)' \subseteq Held(t), PointersOf(t, L)', TailLast(L)'
  PROVE  GInv(L, F)'
<1>1. Lists(L, F)'
  BY DEF GInv, Lists
<1>2. \A u \in Threads : Held(u)' \subseteq Held(u)
  BY DEF Held, OthersSame
<1>3. HeldApart(L, F)'
  BY <1>2 DEF GInv, HeldApart, Apart
<1>4. \A u \in Threads : PointersOf(u, L)'
  BY DEF GInv, PointersOf, OthersSame
<1> QED BY <1>1, <1>3, <1>4 DEF GInv

(* A step of t that has the lock, whatever it makes of the lists.           *)
LEMMA SectionStep ==
  ASSUME TypeOK, LockHeld, NEW L, NEW F, GInv(L, F), NEW t \in Threads, OthersSame(t),
         InSection(t), UNCHANGED num_threads,
         NEW L2, NEW F2, Lists(L2, F2)',
         Apart(L2, F2, Held(t))',
         \A u \in Threads \ {t} :
           Apart(L2, F2, Held(u))' /\ Held(t)' \cap Held(u) = {},
         PointersOf(t, L2)', TailLast(L2)'
  PROVE  GInv(L2, F2)'
<1>1. \A u \in Threads \ {t} : Held(u)' = Held(u)
  BY DEF Held, OthersSame
<1>2. \A u, v \in Threads : u # v => Held(u)' \cap Held(v)' = {}
  BY <1>1 DEF GInv, HeldApart
<1>3. HeldApart(L2, F2)'
  BY <1>2 DEF HeldApart
<1>4. \A u \in Threads \ {t} : PointersOf(u, L2)'
  <2> TAKE u \in Threads \ {t}
  <2>1. pc[u] \in {"idle", "e_lock", "d_lock", "recycle"}
    BY Alone DEF TypeOK, Labels
  <2> QED BY <2>1 DEF GInv, PointersOf, OthersSame
<1> QED BY <1>3, <1>4 DEF GInv

-----------------------------------------------------------------------------
(* The beginning of a call; its argument is v, or none for deq. *)
LEMMA CallStep ==
  ASSUME TypeOK, LockHeld, NEW L, NEW F, GInv(L, F), NEW t \in Threads,
         NEW to \in {"e_lock", "d_lock"}, NEW v \in ValueOrNULL,
         num_threads # 0, GoTo(t, "idle", to), val' = [val EXCEPT ![t] = v],
         UNCHANGED <<heapVars, lock, node, sentinel>>
  PROVE  TypeOK' /\ LockHeld' /\ GInv(L, F)'
<1>1. TypeOK'
  BY DEF TypeOK, HeapTypeOK, heapVars, GoTo, Labels
<1>2. OthersSame(t)
  BY DEF OthersSame, GoTo, TypeOK
<1>3. LockHeld'
  BY <1>2, LockStep DEF InSection, GoTo, TypeOK, EnqSection, DeqSection
<1>4. PointersOf(t, L)' /\ TailLast(L)' /\ Held(t)' \subseteq Held(t)
  BY DEF GInv, PointersOf, TailLast, Held, GoTo, TypeOK, heapVars
<1> QED BY <1>1, <1>2, <1>3, <1>4, LocalStep DEF heapVars

(* A call gets the lock. *)
LEMMA SetLockStep ==
  ASSUME TypeOK, LockHeld, NEW L, NEW F, GInv(L, F), NEW t \in Threads, SetLock(t)
  PROVE  TypeOK' /\ LockHeld' /\ GInv(L, F)'
<1>1. TypeOK'
  BY DEF TypeOK, HeapTypeOK, heapVars, localVars, SetLock, GoTo, Labels, EnqSection,
         DeqSection, NodeOrNULL, ValueOrNULL, Unset
<1>2. OthersSame(t)
  BY DEF OthersSame, TypeOK, localVars, SetLock, GoTo
<1>3. LockHeld'
  BY <1>2, LockStep
  DEF InSection, TypeOK, EnqSection, DeqSection, SetLock, GoTo
<1>4. PointersOf(t, L)'
  BY DEF GInv, PointersOf, TypeOK, HeapTypeOK, heapVars, localVars, SetLock, GoTo
<1>5. TailLast(L)'
  BY Alone
  DEF GInv, TailLast, PointersOf, TypeOK, heapVars, localVars, InSection, EnqSection,
      DeqSection, SetLock, GoTo
<1>6. Held(t)' \subseteq Held(t)
  BY DEF Held, TypeOK, localVars, SetLock, GoTo
<1> QED BY <1>1, <1>2, <1>3, <1>4, <1>5, <1>6, LocalStep DEF SetLock, heapVars

(* enq gets no node. *)
LEMMA EnqNoMemoryStep ==
  ASSUME TypeOK, LockHeld, NEW L, NEW F, GInv(L, F), NEW t \in Threads, EnqNoMemory(t)
  PROVE  TypeOK' /\ LockHeld' /\ GInv(L, F)'
<1>1. TypeOK'
  BY DEF TypeOK, HeapTypeOK, heapVars, localVars, EnqNoMemory, GoTo, Labels,
         EnqSection, DeqSection, NodeOrNULL, ValueOrNULL
<1>2. OthersSame(t)
  BY DEF OthersSame, TypeOK, localVars, EnqNoMemory, GoTo
<1>3. LockHeld'
  BY <1>2, LockStep
  DEF InSection, TypeOK, EnqSection, DeqSection, EnqNoMemory, GoTo
<1>4. PointersOf(t, L)'
  BY DEF GInv, PointersOf, TypeOK, HeapTypeOK, heapVars, localVars, EnqNoMemory, GoTo
<1>5. TailLast(L)'
  BY Alone
  DEF GInv, TailLast, PointersOf, TypeOK, heapVars, localVars, InSection, EnqSection,
      DeqSection, EnqNoMemory, GoTo
<1>6. Held(t)' \subseteq Held(t)
  BY DEF Held, TypeOK, localVars, EnqNoMemory, GoTo
<1> QED BY <1>1, <1>2, <1>3, <1>4, <1>5, <1>6, LocalStep DEF EnqNoMemory, heapVars

(* enq returns without a node. *)
LEMMA EnqRefuseStep ==
  ASSUME TypeOK, LockHeld, NEW L, NEW F, GInv(L, F), NEW t \in Threads, EnqRefuse(t)
  PROVE  TypeOK' /\ LockHeld' /\ GInv(L, F)'
<1>1. TypeOK'
  BY DEF TypeOK, HeapTypeOK, heapVars, localVars, EnqRefuse, Return, GoTo, Labels,
         EnqSection, DeqSection, NodeOrNULL, ValueOrNULL, Unset
<1>2. OthersSame(t)
  BY DEF OthersSame, TypeOK, localVars, EnqRefuse, Return, GoTo
<1>3. LockHeld'
  BY <1>2, LockStep
  DEF InSection, TypeOK, EnqSection, DeqSection, EnqRefuse, Return, GoTo
<1>4. PointersOf(t, L)'
  BY DEF GInv, PointersOf, TypeOK, HeapTypeOK, heapVars, localVars, EnqRefuse, Return,
         GoTo
<1>5. TailLast(L)'
  BY Alone
  DEF GInv, TailLast, PointersOf, TypeOK, heapVars, localVars, InSection, EnqSection,
      DeqSection, EnqRefuse, Return, GoTo
<1>6. Held(t)' \subseteq Held(t)
  BY DEF Held, TypeOK, localVars, EnqRefuse, Return, GoTo
<1> QED BY <1>1, <1>2, <1>3, <1>4, <1>5, <1>6, LocalStep DEF EnqRefuse, heapVars

(* enq moves tail to its node, which is the last one. *)
LEMMA EnqSwingStep ==
  ASSUME TypeOK, LockHeld, NEW L, NEW F, GInv(L, F), NEW t \in Threads, EnqSwing(t)
  PROVE  TypeOK' /\ LockHeld' /\ GInv(L, F)'
<1>1. TypeOK'
  BY DEF TypeOK, HeapTypeOK, heapVars, localVars, EnqSwing, GoTo, Labels, EnqSection,
         DeqSection, NodeOrNULL, ValueOrNULL, GInv, PointersOf, Lists, IsList
<1>2. OthersSame(t)
  BY DEF OthersSame, TypeOK, localVars, EnqSwing, GoTo
<1>3. LockHeld'
  BY <1>2, LockStep
  DEF InSection, TypeOK, EnqSection, DeqSection, EnqSwing, GoTo
<1>4. PointersOf(t, L)'
  BY DEF GInv, PointersOf, TypeOK, HeapTypeOK, heapVars, localVars, EnqSwing, GoTo
<1>5. TailLast(L)'
  BY Alone
  DEF GInv, TailLast, PointersOf, TypeOK, heapVars, localVars, InSection, EnqSection,
      DeqSection, EnqSwing, GoTo
<1>6. Held(t)' \subseteq Held(t)
  BY DEF Held, TypeOK, localVars, EnqSwing, GoTo
<1> QED BY <1>1, <1>2, <1>3, <1>4, <1>5, <1>6, LocalStep DEF EnqSwing, heapVars

(* enq gives the lock back and returns. *)
LEMMA EnqUnlockStep ==
  ASSUME TypeOK, LockHeld, NEW L, NEW F, GInv(L, F), NEW t \in Threads, EnqUnlock(t)
  PROVE  TypeOK' /\ LockHeld' /\ GInv(L, F)'
<1>1. TypeOK'
  BY DEF TypeOK, HeapTypeOK, heapVars, localVars, EnqUnlock, Return, GoTo, Labels,
         EnqSection, DeqSection, NodeOrNULL, ValueOrNULL, Unset
<1>2. OthersSame(t)
  BY DEF OthersSame, TypeOK, localVars, EnqUnlock, Return, GoTo
<1>3. LockHeld'
  BY <1>2, LockStep
  DEF InSection, TypeOK, EnqSection, DeqSection, EnqUnlock, Return, GoTo
<1>4. PointersOf(t, L)'
  BY DEF GInv, PointersOf, TypeOK, HeapTypeOK, heapVars, localVars, EnqUnlock, Return,
         GoTo
<1>5. TailLast(L)'
  BY Alone
  DEF GInv, TailLast, PointersOf, TypeOK, heapVars, localVars, InSection, EnqSection,
      DeqSection, EnqUnlock, Return, GoTo
<1>6. Held(t)' \subseteq Held(t)
  BY DEF Held, TypeOK, localVars, EnqUnlock, Return, GoTo
<1> QED BY <1>1, <1>2, <1>3, <1>4, <1>5, <1>6, LocalStep DEF EnqUnlock, heapVars

(* deq tests for a value. *)
LEMMA DeqTestStep ==
  ASSUME TypeOK, LockHeld, NEW L, NEW F, GInv(L, F), NEW t \in Threads, DeqTest(t)
  PROVE  TypeOK' /\ LockHeld' /\ GInv(L, F)'
<1>1. TypeOK'
  BY DEF TypeOK, HeapTypeOK, heapVars, localVars, DeqTest, GoTo, Labels, EnqSection,
         DeqSection, NodeOrNULL, ValueOrNULL
<1>2. OthersSame(t)
  BY DEF OthersSame, TypeOK, localVars, DeqTest, GoTo
<1>3. LockHeld'
  BY <1>2, LockStep
  DEF InSection, TypeOK, EnqSection, DeqSection, DeqTest, GoTo
<1>4. PointersOf(t, L)'
  BY DEF GInv, PointersOf, TypeOK, HeapTypeOK, heapVars, localVars, DeqTest, GoTo,
         Lists, IsList
<1>5. TailLast(L)'
  BY Alone
  DEF GInv, TailLast, PointersOf, TypeOK, heapVars, localVars, InSection, EnqSection,
      DeqSection, DeqTest, GoTo
<1>6. Held(t)' \subseteq Held(t)
  BY DEF Held, TypeOK, localVars, DeqTest, GoTo
<1> QED BY <1>1, <1>2, <1>3, <1>4, <1>5, <1>6, LocalStep DEF DeqTest, heapVars

(* deq returns from an empty queue. *)
LEMMA DeqEmptyStep ==
  ASSUME TypeOK, LockHeld, NEW L, NEW F, GInv(L, F), NEW t \in Threads, DeqEmpty(t)
  PROVE  TypeOK' /\ LockHeld' /\ GInv(L, F)'
<1>1. TypeOK'
  BY DEF TypeOK, HeapTypeOK, heapVars, localVars, DeqEmpty, Return, GoTo, Labels,
         EnqSection, DeqSection, NodeOrNULL, ValueOrNULL, Unset
<1>2. OthersSame(t)
  BY DEF OthersSame, TypeOK, localVars, DeqEmpty, Return, GoTo
<1>3. LockHeld'
  BY <1>2, LockStep
  DEF InSection, TypeOK, EnqSection, DeqSection, DeqEmpty, Return, GoTo
<1>4. PointersOf(t, L)'
  BY DEF GInv, PointersOf, TypeOK, HeapTypeOK, heapVars, localVars, DeqEmpty, Return,
         GoTo
<1>5. TailLast(L)'
  BY Alone
  DEF GInv, TailLast, PointersOf, TypeOK, heapVars, localVars, InSection, EnqSection,
      DeqSection, DeqEmpty, Return, GoTo
<1>6. Held(t)' \subseteq Held(t)
  BY DEF Held, TypeOK, localVars, DeqEmpty, Return, GoTo
<1> QED BY <1>1, <1>2, <1>3, <1>4, <1>5, <1>6, LocalStep DEF DeqEmpty, heapVars

(* deq reads the value of the node behind the dummy node. *)
LEMMA DeqReadValueStep ==
  ASSUME TypeOK, LockHeld, NEW L, NEW F, GInv(L, F), NEW t \in Threads, DeqReadValue(t)
  PROVE  TypeOK' /\ LockHeld' /\ GInv(L, F)'
<1>1. TypeOK'
  BY DEF TypeOK, HeapTypeOK, heapVars, localVars, DeqReadValue, GoTo, Labels,
         EnqSection, DeqSection, NodeOrNULL, ValueOrNULL, GInv, PointersOf, Lists,
         IsList
<1>2. OthersSame(t)
  BY DEF OthersSame, TypeOK, localVars, DeqReadValue, GoTo
<1>3. LockHeld'
  BY <1>2, LockStep
  DEF InSection, TypeOK, EnqSection, DeqSection, DeqReadValue, GoTo
<1>4. PointersOf(t, L)'
  BY DEF GInv, PointersOf, TypeOK, HeapTypeOK, heapVars, localVars, DeqReadValue,
         GoTo, Lists, IsList
<1>5. TailLast(L)'
  BY Alone
  DEF GInv, TailLast, PointersOf, TypeOK, heapVars, localVars, InSection, EnqSection,
      DeqSection, DeqReadValue, GoTo
<1>6. Held(t)' \subseteq Held(t)
  BY DEF Held, TypeOK, localVars, DeqReadValue, GoTo
<1> QED BY <1>1, <1>2, <1>3, <1>4, <1>5, <1>6, LocalStep DEF DeqReadValue, heapVars

(* deq writes tail, to no effect. *)
LEMMA DeqMoveTailStep ==
  ASSUME TypeOK, LockHeld, NEW L, NEW F, GInv(L, F), NEW t \in Threads, DeqMoveTail(t)
  PROVE  TypeOK' /\ LockHeld' /\ GInv(L, F)'
<1>1. TypeOK'
  BY DEF TypeOK, HeapTypeOK, heapVars, localVars, DeqMoveTail, GoTo, Labels,
         EnqSection, DeqSection, NodeOrNULL, ValueOrNULL, GInv, PointersOf, Lists,
         IsList
<1>2. OthersSame(t)
  BY DEF OthersSame, TypeOK, localVars, DeqMoveTail, GoTo
<1>3. LockHeld'
  BY <1>2, LockStep
  DEF InSection, TypeOK, EnqSection, DeqSection, DeqMoveTail, GoTo
<1>4. PointersOf(t, L)'
  BY DEF GInv, PointersOf, TypeOK, HeapTypeOK, heapVars, localVars, DeqMoveTail, GoTo,
         Lists, IsList
<1>5. TailLast(L)'
  BY Alone
  DEF GInv, TailLast, PointersOf, TypeOK, heapVars, localVars, InSection, EnqSection,
      DeqSection, DeqMoveTail, GoTo
<1>6. Held(t)' \subseteq Held(t)
  BY DEF Held, TypeOK, localVars, DeqMoveTail, GoTo
<1> QED BY <1>1, <1>2, <1>3, <1>4, <1>5, <1>6, LocalStep DEF DeqMoveTail, heapVars

(* deq gives the lock back. *)
LEMMA DeqUnlockStep ==
  ASSUME TypeOK, LockHeld, NEW L, NEW F, GInv(L, F), NEW t \in Threads, DeqUnlock(t)
  PROVE  TypeOK' /\ LockHeld' /\ GInv(L, F)'
<1>1. TypeOK'
  BY DEF TypeOK, HeapTypeOK, heapVars, localVars, DeqUnlock, GoTo, Labels, EnqSection,
         DeqSection, NodeOrNULL, ValueOrNULL, Unset
<1>2. OthersSame(t)
  BY DEF OthersSame, TypeOK, localVars, DeqUnlock, GoTo
<1>3. LockHeld'
  BY <1>2, LockStep
  DEF InSection, TypeOK, EnqSection, DeqSection, DeqUnlock, GoTo
<1>4. PointersOf(t, L)'
  BY DEF GInv, PointersOf, TypeOK, HeapTypeOK, heapVars, localVars, DeqUnlock, GoTo
<1>5. TailLast(L)'
  BY Alone
  DEF GInv, TailLast, PointersOf, TypeOK, heapVars, localVars, InSection, EnqSection,
      DeqSection, DeqUnlock, GoTo
<1>6. Held(t)' \subseteq Held(t)
  BY DEF Held, TypeOK, localVars, DeqUnlock, GoTo
<1> QED BY <1>1, <1>2, <1>3, <1>4, <1>5, <1>6, LocalStep DEF DeqUnlock, heapVars

(* enq gets a node. *)
LEMMA EnqUpcycleStep ==
  ASSUME TypeOK, LockHeld, NEW L, NEW F, GInv(L, F), NEW t \in Threads, EnqUpcycle(t),
         F \in [Threads -> SUBSET Nodes], NEW f, f = freeHead[t],
         NEW F2, F2 = Without(F, t, f)
  PROVE  TypeOK' /\ LockHeld' /\ GInv(L, F2)'
<1>1. PICK n \in Nodes : Upcycle(t, n) /\ node' = [node EXCEPT ![t] = n]
  BY DEF EnqUpcycle
<1>2. HeapTypeOK /\ Lists(L, F) /\ UNCHANGED <<num_threads, head, tail>>
  BY DEF TypeOK, GInv, EnqUpcycle
<1>3. /\ HeapTypeOK'
      /\ Lists(L, F2)'
      /\ Apart(L, F2, {n})'
      /\ \A x \in heap : next'[x] = next[x]
      /\ \A S : Apart(L, F, S) => Apart(L, F2, S)' /\ n \notin S
  BY <1>1, <1>2, UpcycleLists
<1>4. TypeOK'
  BY <1>1, <1>3 DEF TypeOK, EnqUpcycle, GoTo, Labels, EnqSection, DeqSection, NodeOrNULL
<1>5. OthersSame(t)
  BY <1>1 DEF OthersSame, EnqUpcycle, GoTo, TypeOK
<1>6. LockHeld'
  BY <1>5, LockStep DEF InSection, TypeOK, EnqSection, DeqSection, EnqUpcycle, GoTo
<1>7. Held(t)' = {n}
  BY <1>1 DEF Held, TypeOK, EnqUpcycle, GoTo
<1>8. \A u \in Threads \ {t} : Apart(L, F2, Held(u))' /\ Held(t)' \cap Held(u) = {}
  <2> TAKE u \in Threads \ {t}
  <2>1. Held(u)' = Held(u)
    BY <1>5 DEF Held, OthersSame
  <2>2. Apart(L, F, Held(u))
    BY DEF GInv, HeldApart
  <2> QED BY <1>3, <1>7, <2>1, <2>2 DEF Apart
<1>9. PointersOf(t, L)'
  BY <1>1, <1>2 DEF GInv, PointersOf, TypeOK, EnqUpcycle, GoTo
<1>10. TailLast(L)'
  BY <1>2, <1>3 DEF GInv, Lists, TailLast, TypeOK, EnqUpcycle, GoTo
<1>11. Apart(L, F2, Held(t))'
  BY <1>3, <1>7 DEF Apart
<1>12. InSection(t) /\ UNCHANGED num_threads
  BY DEF InSection, EnqSection, EnqUpcycle, GoTo
<1> QED BY <1>3, <1>4, <1>5, <1>6, <1>8, <1>9, <1>10, <1>11, <1>12, SectionStep

(* enq writes the fields of its node. *)
LEMMA EnqFillStep ==
  ASSUME TypeOK, LockHeld, NEW L, NEW F, GInv(L, F), NEW t \in Threads, EnqFill(t)
  PROVE  TypeOK' /\ LockHeld' /\ GInv(L, F)'
<1>1. PICK n \in Nodes : n = node[t]
  BY DEF EnqFill, GoTo, GInv, PointersOf
<1>2. Held(t) = {n} /\ Held(t)' = {n}
  BY <1>1 DEF Held, TypeOK, EnqFill, GoTo, localVars
<1>3. HeapTypeOK /\ Lists(L, F) /\ Apart(L, F, {n})
  BY <1>2 DEF TypeOK, GInv, HeldApart
<1>4. next' = [next EXCEPT ![n] = NULL] /\ UNCHANGED <<num_threads, head, tail, heap, freeHead>>
  BY <1>1 DEF EnqFill
<1>5. Lists(L, F)' /\ \A S : Apart(L, F, S) => Apart(L, F, S)'
  BY <1>3, <1>4, FillLists
<1>6. TypeOK'
  BY DEF TypeOK, HeapTypeOK, EnqFill, GoTo, localVars, Labels, EnqSection, DeqSection,
         NodeOrNULL, ValueOrNULL
<1>7. OthersSame(t)
  BY DEF OthersSame, TypeOK, EnqFill, GoTo, localVars
<1>8. LockHeld'
  BY <1>7, LockStep DEF InSection, TypeOK, EnqSection, DeqSection, EnqFill, GoTo
<1>9. \A u \in Threads \ {t} : Apart(L, F, Held(u))' /\ Held(t)' \cap Held(u) = {}
  <2> TAKE u \in Threads \ {t}
  <2>1. Held(u)' = Held(u)
    BY <1>7 DEF Held, OthersSame
  <2>2. Apart(L, F, Held(u)) /\ Held(t) \cap Held(u) = {}
    BY DEF GInv, HeldApart
  <2> QED BY <1>2, <1>5, <2>1, <2>2 DEF Apart
<1>10. PointersOf(t, L)'
  BY <1>1, <1>4 DEF GInv, PointersOf, TypeOK, HeapTypeOK, EnqFill, GoTo, localVars
<1>11. TailLast(L)'
  BY <1>1, <1>3, <1>4 DEF GInv, TailLast, Apart, TypeOK, HeapTypeOK, EnqFill, GoTo, Lists
<1>12. Apart(L, F, Held(t))'
  BY <1>2, <1>3, <1>5 DEF Apart
<1>13. InSection(t) /\ UNCHANGED num_threads
  BY DEF InSection, EnqSection, EnqFill, GoTo
<1> QED BY <1>5, <1>6, <1>7, <1>8, <1>9, <1>10, <1>11, <1>12, <1>13, SectionStep

(* enq links its node, which belongs to the queue from then on. *)
LEMMA EnqLinkStep ==
  ASSUME TypeOK, LockHeld, NEW L, NEW F, GInv(L, F), NEW t \in Threads, EnqLink(t),
         NEW L2, L2 = L \cup {node[t]}
  PROVE  TypeOK' /\ LockHeld' /\ GInv(L2, F)'
<1>1. PICK n \in Nodes : n = node[t] /\ next[n] = NULL
  BY DEF EnqLink, GoTo, GInv, PointersOf
<1>2. Held(t) = {n} /\ Held(t)' = {}
  BY <1>1 DEF Held, TypeOK, EnqLink, GoTo, localVars
<1>3. HeapTypeOK /\ Lists(L, F) /\ Apart(L, F, {n})
  BY <1>2 DEF TypeOK, GInv, HeldApart
<1>4. /\ next' = [next EXCEPT ![tail] = n]
      /\ UNCHANGED <<num_threads, head, tail, heap, freeHead>>
  BY <1>1 DEF EnqLink
<1>5. InSection(t) /\ num_threads # 0
  BY DEF InSection, EnqSection, EnqLink, GoTo, GInv, PointersOf
<1>6. tail \in L /\ next[tail] = NULL
  BY <1>5, Alone DEF GInv, TailLast, EnqLink, GoTo, EnqSection
<1>7. Lists(L2, F)' /\ \A S : Apart(L, F, S) /\ n \notin S => Apart(L2, F, S)'
  BY <1>1, <1>3, <1>4, <1>5, <1>6, LinkLists
<1>8. TypeOK'
  BY <1>1 DEF TypeOK, HeapTypeOK, EnqLink, GoTo, localVars, Labels, EnqSection,
              DeqSection, NodeOrNULL
<1>9. OthersSame(t)
  BY DEF OthersSame, TypeOK, EnqLink, GoTo, localVars
<1>10. LockHeld'
  BY <1>9, LockStep DEF InSection, TypeOK, EnqSection, DeqSection, EnqLink, GoTo
<1>11. \A u \in Threads \ {t} : Apart(L2, F, Held(u))' /\ Held(t)' \cap Held(u) = {}
  <2> TAKE u \in Threads \ {t}
  <2>1. Held(u)' = Held(u)
    BY <1>9 DEF Held, OthersSame
  <2>2. Apart(L, F, Held(u)) /\ Held(t) \cap Held(u) = {}
    BY DEF GInv, HeldApart
  <2> QED BY <1>2, <1>7, <2>1, <2>2 DEF Apart
<1>12. PointersOf(t, L2)'
  <2>1. tail # n
    BY <1>3, <1>6 DEF Apart
  <2> QED BY <1>1, <1>4, <1>5, <2>1 DEF PointersOf, TypeOK, HeapTypeOK, EnqLink, GoTo, localVars
<1>13. TailLast(L2)'
  BY <1>4, <1>6 DEF TailLast, TypeOK, EnqLink, GoTo
<1>14. Apart(L2, F, Held(t))'
  BY <1>2, <1>7 DEF Apart
<1> QED BY <1>4, <1>5, <1>7, <1>8, <1>9, <1>10, <1>11, <1>12, <1>13, <1>14, SectionStep

(* deq moves head; the old dummy node is held by the call from then on. *)
LEMMA DeqMoveHeadStep ==
  ASSUME TypeOK, LockHeld, NEW L, NEW F, GInv(L, F), NEW t \in Threads, DeqMoveHead(t),
         NEW h, h = head, NEW L2, L2 = L \ {h}
  PROVE  TypeOK' /\ LockHeld' /\ GInv(L2, F)'
<1>1. /\ sentinel[t] = h /\ next[h] # NULL /\ num_threads # 0
      /\ head' = next[h]
      /\ UNCHANGED <<num_threads, tail, next, heap, freeHead>>
  BY DEF DeqMoveHead, GoTo, GInv, PointersOf
<1>2. HeapTypeOK /\ Lists(L, F)
  BY DEF TypeOK, GInv
<1>3. /\ head' \in L2
      /\ Lists(L2, F)'
      /\ Apart(L2, F, {h})'
      /\ \A S : Apart(L, F, S) => Apart(L2, F, S)' /\ h \notin S
  BY <1>1, <1>2, MoveHeadLists
<1>4. h \in Nodes /\ L \subseteq Nodes
  BY <1>1, <1>2 DEF Lists, HeapTypeOK
<1>5. Held(t)' = {h}
  BY <1>1 DEF Held, TypeOK, DeqMoveHead, GoTo, localVars
<1>6. TypeOK'
  BY <1>3, <1>4 DEF TypeOK, HeapTypeOK, DeqMoveHead, GoTo, localVars, Labels, EnqSection,
                    DeqSection, NodeOrNULL
<1>7. OthersSame(t)
  BY DEF OthersSame, TypeOK, DeqMoveHead, GoTo, localVars
<1>8. LockHeld'
  BY <1>7, LockStep DEF InSection, TypeOK, EnqSection, DeqSection, DeqMoveHead, GoTo
<1>9. InSection(t)
  BY DEF InSection, DeqSection, DeqMoveHead, GoTo
<1>10. \A u \in Threads \ {t} : Apart(L2, F, Held(u))' /\ Held(t)' \cap Held(u) = {}
  <2> TAKE u \in Threads \ {t}
  <2>1. Held(u)' = Held(u)
    BY <1>7 DEF Held, OthersSame
  <2>2. Apart(L, F, Held(u))
    BY DEF GInv, HeldApart
  <2> QED BY <1>3, <1>5, <2>1, <2>2
<1>11. PointersOf(t, L2)'
  BY <1>1, <1>4 DEF PointersOf, TypeOK, DeqMoveHead, GoTo, localVars
<1>12. TailLast(L2)'
  <2>1. \A u \in Threads : pc[u] # "swing"
    BY <1>9, Alone DEF DeqMoveHead, GoTo, EnqSection
  <2> QED BY <1>1, <2>1 DEF GInv, TailLast
<1>13. Apart(L2, F, Held(t))'
  BY <1>3, <1>5 DEF Apart
<1> QED BY <1>1, <1>3, <1>6, <1>7, <1>8, <1>9, <1>10, <1>11, <1>12, <1>13, SectionStep

(* deq recycles the old dummy node, without the lock. *)
LEMMA DeqRecycleStep ==
  ASSUME TypeOK, LockHeld, NEW L, NEW F, GInv(L, F), NEW t \in Threads, DeqRecycle(t),
         F \in [Threads -> SUBSET Nodes], NEW x, x = sentinel[t],
         NEW F2, F2 = With(F, t, x)
  PROVE  TypeOK' /\ LockHeld' /\ GInv(L, F2)'
<1>1. x \in Nodes
  BY DEF DeqRecycle, Return, GoTo, GInv, PointersOf
<1>2. Held(t) = {x} /\ Held(t)' = {}
  BY <1>1 DEF Held, TypeOK, DeqRecycle, Return, GoTo
<1>3. /\ HeapTypeOK /\ Lists(L, F) /\ Apart(L, F, {x}) /\ Recycle(t, x)
      /\ UNCHANGED <<num_threads, head, tail>>
  BY <1>1, <1>2 DEF TypeOK, GInv, HeldApart, DeqRecycle
<1>4. /\ HeapTypeOK'
      /\ Lists(L, F2)'
      /\ \A y \in Nodes \ {x} : next'[y] = next[y]
      /\ \A S : Apart(L, F, S) /\ x \notin S => Apart(L, F2, S)'
  BY <1>1, <1>3, RecycleLists
<1>5. TypeOK'
  BY <1>4 DEF TypeOK, DeqRecycle, Return, GoTo, Labels, NodeOrNULL, ValueOrNULL
<1>6. OthersSame(t)
  BY DEF OthersSame, TypeOK, DeqRecycle, Return, GoTo
<1>7. LockHeld'
  BY <1>6, LockStep DEF InSection, TypeOK, EnqSection, DeqSection, DeqRecycle, Return, GoTo
<1>8. HeldApart(L, F2)'
  <2>1. \A u \in Threads : Held(u)' \subseteq Held(u) /\ x \notin Held(u)'
    BY <1>2, <1>6 DEF GInv, HeldApart, Held, OthersSame
  <2>2. \A u \in Threads : Apart(L, F, Held(u)')
    BY <2>1 DEF GInv, HeldApart, Apart
  <2>3. \A u \in Threads : Apart(L, F2, Held(u))'
    BY <1>4, <2>1, <2>2
  <2> QED BY <2>1, <2>3 DEF GInv, HeldApart
<1>9. \A u \in Threads : PointersOf(u, L)'
  <2> TAKE u \in Threads
  <2>1. CASE u = t
    BY <2>1 DEF PointersOf, TypeOK, DeqRecycle, Return, GoTo
  <2>2. CASE u # t
    <3>1. PointersOf(u, L) /\ x \notin Held(u) /\ x \notin L
      BY <1>2, <1>3, <2>2 DEF GInv, HeldApart, Apart
    <3>2. L \subseteq Nodes /\ (num_threads # 0 => head \in L)
      BY <1>3 DEF Lists, HeapTypeOK
    <3> QED BY <1>3, <1>4, <1>6, <2>2, <3>1, <3>2 DEF PointersOf, OthersSame, Held
  <2> QED BY <2>1, <2>2
<1>10. TailLast(L)'
  <2>1. x \notin L /\ L \subseteq Nodes
    BY <1>3 DEF Apart, Lists, HeapTypeOK
  <2>2. (\A u \in Threads : pc'[u] # "swing") => \A u \in Threads : pc[u] # "swing"
    BY <1>6 DEF OthersSame, DeqRecycle, Return, GoTo
  <2> QED BY <1>3, <1>4, <2>1, <2>2 DEF GInv, TailLast
<1> QED BY <1>4, <1>5, <1>7, <1>8, <1>9, <1>10 DEF GInv

(* destroy_queue frees the queue. *)
LEMMA DestroyStep ==
  ASSUME TypeOK, LockHeld, NEW L, NEW F, GInv(L, F), Destroy,
         NEW F2, F2 = [t \in Threads |-> {}]
  PROVE  TypeOK' /\ LockHeld' /\ GInv({}, F2)'
<1>1. TypeOK'
  BY DEF TypeOK, HeapTypeOK, localVars, Destroy, FreeAll, NodeOrNULL, ValueOrNULL
<1>2. LockHeld'
  BY DEF LockHeld, Destroy, InSection
<1>3. \A t \in Threads : pc'[t] = "idle" /\ Held(t)' = {}
  BY DEF Destroy, Held
<1>4. Lists({}, F2)' /\ num_threads' = 0
  BY NoLists DEF Destroy, FreeAll
<1> QED BY <1>1, <1>2, <1>3, <1>4 DEF GInv, HeldApart, Apart, PointersOf, TailLast

(* A queue is set up. *)
LEMMA InitQueueStep ==
  ASSUME TypeOK, LockHeld, NEW L, NEW F, GInv(L, F), InitQueue,
         NEW dummy, dummy = head', NEW F2, F2 = [t \in Threads |-> {}]
  PROVE  TypeOK' /\ LockHeld' /\ GInv({dummy}, F2)'
<1>1. /\ dummy \in Nodes /\ num_threads' # 0 /\ tail' = dummy
      /\ next'[dummy] = NULL /\ dummy \in heap'
      /\ freeHead' = [t \in Threads |-> NULL]
  BY HeapAssumption DEF InitQueue, InitHeap, MakeNode, TypeOK, HeapTypeOK
<1>2. \A t \in Threads : pc[t] = "idle" /\ pc'[t] = "idle"
  BY DEF GInv, PointersOf, InitQueue, InitHeap
<1>3. TypeOK'
  BY HeapAssumption
  DEF TypeOK, HeapTypeOK, localVars, InitQueue, InitHeap, MakeNode, NodeOrNULL,
      ValueOrNULL
<1>4. LockHeld'
  BY <1>2, HeapAssumption
  DEF LockHeld, InitQueue, InSection, EnqSection, DeqSection, Threads, Unset
<1>5. Lists({dummy}, F2)'
  BY <1>1, FreshLists
<1>6. \A t \in Threads : Held(t)' = {} /\ PointersOf(t, {dummy})'
  BY <1>2 DEF Held, PointersOf
<1> QED BY <1>1, <1>3, <1>4, <1>5, <1>6 DEF GInv, HeldApart, Apart, TailLast

-----------------------------------------------------------------------------
(* The invariant holds at the start. *)
LEMMA InitHolds == Init => IInv
<1> SUFFICES ASSUME Init PROVE IInv
  OBVIOUS
<1>1. TypeOK
  BY HeapAssumption
  DEF Init, HeapInit, TypeOK, HeapTypeOK, NodeOrNULL, ValueOrNULL, Labels
<1>2. LockHeld
  BY HeapAssumption
  DEF Init, LockHeld, InSection, EnqSection, DeqSection, Threads, Unset
<1>3. PICK F : F = [t \in Threads |-> {}]
  OBVIOUS
<1>4. /\ head \in Nodes /\ num_threads # 0 /\ tail = head
      /\ next[head] = NULL /\ head \in heap
      /\ freeHead = [t \in Threads |-> NULL]
  BY HeapAssumption DEF Init, HeapInit
<1>5. Lists({head}, F)
  BY <1>3, <1>4, FirstLists
<1>6. \A t \in Threads : Held(t) = {} /\ PointersOf(t, {head})
  BY DEF Init, Held, PointersOf
<1>7. GInv({head}, F)
  BY <1>4, <1>5, <1>6 DEF GInv, HeldApart, Apart, TailLast
<1> QED BY <1>1, <1>2, <1>3, <1>4, <1>7 DEF IInv

(* The bound variables of the invariant, in the next state. *)
LEMMA Witness ==
  ASSUME TypeOK', LockHeld', NEW L, NEW F, GInv(L, F)', F \in [Threads -> SUBSET Nodes]
  PROVE  IInv'
  BY DEF IInv, GInv, Lists, TypeOK, HeapTypeOK

(* Every step preserves the invariant. *)
LEMMA InductiveStep == IInv /\ [Next]_vars => IInv'
<1> SUFFICES ASSUME IInv, [Next]_vars PROVE IInv'
  OBVIOUS
<1>1. PICK L \in SUBSET Nodes, F \in [Threads -> SUBSET Nodes] : GInv(L, F)
  BY DEF IInv
<1>2. TypeOK /\ LockHeld
  BY DEF IInv
<1>3. ASSUME NEW t \in Threads, Begin(t)
      PROVE  IInv'
  <2>1. CASE CallDeq(t)
    <3>1. val' = [val EXCEPT ![t] = val[t]] /\ val[t] \in ValueOrNULL
      BY <1>2, <2>1 DEF CallDeq, TypeOK, localVars
    <3> QED BY <1>1, <1>2, <2>1, <3>1, CallStep, Witness DEF CallDeq, localVars
  <2>2. ASSUME NEW v \in Values, CallEnq(t, v)
        PROVE  IInv'
    BY <1>1, <1>2, <2>2, CallStep, Witness DEF CallEnq, ValueOrNULL
  <2> QED BY <1>3, <2>1, <2>2 DEF Begin
<1>4. ASSUME NEW t \in Threads, Step(t)
      PROVE  IInv'
  <2>1. CASE EnqUpcycle(t)
    <3>1. PICK f : f = freeHead[t]
      OBVIOUS
    <3>2. PICK F2 \in [Threads -> SUBSET Nodes] : F2 = Without(F, t, f)
      BY DEF Without
    <3> QED BY <1>1, <1>2, <2>1, <3>1, <3>2, EnqUpcycleStep, Witness
  <2>2. CASE EnqLink(t)
    <3>1. PICK L2 : L2 = L \cup {node[t]}
      OBVIOUS
    <3> QED BY <1>1, <1>2, <2>2, <3>1, EnqLinkStep, Witness
  <2>3. CASE DeqMoveHead(t)
    <3>1. PICK h : h = head
      OBVIOUS
    <3>2. PICK L2 : L2 = L \ {h}
      OBVIOUS
    <3> QED BY <1>1, <1>2, <2>3, <3>1, <3>2, DeqMoveHeadStep, Witness
  <2>4. CASE DeqRecycle(t)
    <3>1. PICK x \in Nodes : x = sentinel[t]
      BY <1>1, <2>4 DEF DeqRecycle, Return, GoTo, GInv, PointersOf
    <3>2. PICK F2 \in [Threads -> SUBSET Nodes] : F2 = With(F, t, x)
      BY DEF With
    <3> QED BY <1>1, <1>2, <2>4, <3>1, <3>2, DeqRecycleStep, Witness
  <2>5. CASE \/ SetLock(t) \/ EnqNoMemory(t) \/ EnqRefuse(t)
             \/ EnqFill(t) \/ EnqSwing(t) \/ EnqUnlock(t)
    BY <1>1, <1>2, <2>5, SetLockStep, EnqNoMemoryStep, EnqRefuseStep, EnqFillStep,
       EnqSwingStep, EnqUnlockStep, Witness
  <2>6. CASE \/ DeqTest(t) \/ DeqEmpty(t) \/ DeqReadValue(t)
             \/ DeqMoveTail(t) \/ DeqUnlock(t)
    BY <1>1, <1>2, <2>6, DeqTestStep, DeqEmptyStep, DeqReadValueStep, DeqMoveTailStep,
       DeqUnlockStep, Witness
  <2> QED BY <1>4, <2>1, <2>2, <2>3, <2>4, <2>5, <2>6 DEF Step
<1>5. CASE Destroy
  <2>1. PICK F2 : F2 = [t \in Threads |-> {}]
    OBVIOUS
  <2> QED BY <1>1, <1>2, <1>5, <2>1, DestroyStep, Witness
<1>6. CASE InitQueue
  <2>1. PICK F2 : F2 = [t \in Threads |-> {}]
    OBVIOUS
  <2>2. PICK dummy : dummy = head'
    OBVIOUS
  <2> QED BY <1>1, <1>2, <1>6, <2>1, <2>2, InitQueueStep, Witness
<1>7. CASE UNCHANGED vars
  <2>1. TypeOK' /\ LockHeld'
    BY <1>2, <1>7
    DEF TypeOK, HeapTypeOK, LockHeld, InSection, vars, heapVars, localVars
  <2>2. GInv(L, F)'
    BY <1>1, <1>7
    DEF GInv, Lists, HeldApart, Apart, Held, PointersOf, TailLast, vars, heapVars, localVars
  <2> QED BY <1>1, <2>1, <2>2, Witness
<1> QED BY <1>3, <1>4, <1>5, <1>6, <1>7 DEF Next

(* The invariant from which the theorems follow. *)
THEOREM Invariance == Spec => []IInv
  BY InitHolds, InductiveStep, PTL DEF Spec

(* Every variable keeps its type; in particular no operation follows NULL.  *)
THEOREM TypeCorrect == Spec => []TypeOK
<1>1. IInv => TypeOK
  BY DEF IInv
<1> QED BY <1>1, Invariance, PTL

(* The lock is held by the thread inside enq or deq and by nobody else.     *)
THEOREM MutualExclusion == Spec => []LockHeld
<1>1. IInv => LockHeld
  BY DEF IInv
<1> QED BY <1>1, Invariance, PTL

(* The accesses that a thread outside its section makes are to a node that  *)
(* it holds, and those of a thread inside to the queue or a node it holds.  *)
LEMMA NoRace == IInv => RaceFree
<1> SUFFICES ASSUME IInv, NEW t \in Threads, NEW u \in Threads, t # u
             PROVE  Writes(t) \cap (Reads(u) \cup Writes(u)) = {}
  BY DEF RaceFree
<1>1. PICK L, F : GInv(L, F)
  BY DEF IInv
<1>2. Held(t) \cap Held(u) = {} /\ Held(t) \cap L = {} /\ Held(u) \cap L = {}
  BY <1>1 DEF GInv, HeldApart, Apart
<1>3. pc[t] \in Labels /\ pc[u] \in Labels
  BY DEF IInv, TypeOK
<1>4. CASE InSection(t) /\ InSection(u)
  BY <1>4 DEF IInv, LockHeld
<1>5. CASE ~InSection(t)
  <2>1. CASE pc[t] = "recycle"
    <3>1. Held(t) = {sentinel[t]} /\ Writes(t) = {<<"next", sentinel[t]>>}
      BY <2>1 DEF Held, Writes
    <3>2. pc[u] # "idle" => head \in L /\ tail \in L
      BY <1>1 DEF GInv, PointersOf, TailLast, Lists
    <3>3. pc[u] = "d_head" => sentinel[u] \in L
      BY <1>1, <3>2 DEF GInv, PointersOf
    <3>4. pc[u] \in {"d_tail", "recycle"} => Held(u) = {sentinel[u]}
      BY DEF Held
    <3>5. pc[u] = "fill" => Held(u) = {node[u]}
      BY DEF Held
    <3> QED BY <1>2, <3>1, <3>2, <3>3, <3>4, <3>5 DEF Reads, Writes
  <2>2. CASE pc[t] # "recycle"
    BY <1>3, <1>5, <2>2 DEF Labels, InSection, EnqSection, DeqSection, Writes
  <2> QED BY <2>1, <2>2
<1>6. CASE InSection(t) /\ ~InSection(u)
  <2>1. CASE pc[u] = "recycle"
    <3>1. Held(u) = {sentinel[u]} /\ Writes(u) = {<<"next", sentinel[u]>>} /\ Reads(u) = {}
      BY <2>1 DEF Held, Writes, Reads
    <3>2. pc[t] = "link" => tail \in L
      BY <1>1 DEF GInv, PointersOf, TailLast
    <3>3. pc[t] = "fill" => Held(t) = {node[t]}
      BY DEF Held
    <3>4. InSection(t) => pc[t] # "recycle"
      BY DEF InSection, EnqSection, DeqSection
    <3> QED BY <1>2, <1>6, <3>1, <3>2, <3>3, <3>4 DEF Writes
  <2>2. CASE pc[u] # "recycle"
    BY <1>3, <1>6, <2>2
    DEF Labels, InSection, EnqSection, DeqSection, Reads, Writes
  <2> QED BY <2>1, <2>2
<1> QED BY <1>4, <1>5, <1>6

(* The queue is free of data races although deq recycles the old dummy node *)
(* after it has given the lock back.                                        *)
THEOREM NoDataRace == Spec => []RaceFree
  BY NoRace, Invariance, PTL
-----------------------------------------------------------------------------
(* The abstract queue and the abstract calls, of Linearizable. *)
AbsQueue == IF num_threads = 0 THEN <<>> ELSE Contents
AbsCalls == [t \in Threads |-> AbsCall(t)]

(* A step of t moves the abstract call of t only. *)
LEMMA CallsNext ==
  ASSUME NEW t \in Threads, \A u \in Threads \ {t} : pc'[u] = pc[u] /\ val'[u] = val[u]
  PROVE  AbsCalls' = [AbsCalls EXCEPT ![t] = AbsCall(t)']
<1>1. \A u \in Threads \ {t} : AbsCall(u)' = AbsCall(u)
  BY DEF AbsCall
<1> QED BY <1>1 DEF AbsCalls

(* A step of t after which the lists are the paths q and G.                 *)
LEMMA ShapeStep ==
  ASSUME NEW t \in Threads, OthersSame(t), \A u \in Threads \ {t} : val'[u] = val[u],
         NEW q, NEW G, Paths(q, G)', heap' \ Listed(q, G) = AllHeld',
         ValuesOf(q, data') \in Seq(Values), ValueOf(t)',
         \A u \in Threads \ {t} : ValueOf(u)'
  PROVE  /\ SInv'
         /\ AbsQueue' = ValuesOf(q, data')
         /\ AbsCalls' = [AbsCalls EXCEPT ![t] = AbsCall(t)']
<1>1. PICK held : held = AllHeld'
  OBVIOUS
<1>2. Shape(held)' /\ AbsQueue' = ValuesOf(q, data')
  BY <1>1, ShapeNext DEF AbsQueue
<1>3. Shape(AllHeld)'
  BY <1>1, <1>2 DEF Shape
<1>4. AbsCalls' = [AbsCalls EXCEPT ![t] = AbsCall(t)']
  BY CallsNext DEF OthersSame
<1> QED BY <1>2, <1>3, <1>4 DEF SInv

(* The nodes held after a step of t. *)
LEMMA HeldNext ==
  ASSUME NEW t \in Threads, OthersSame(t)
  PROVE  \E rest : /\ AllHeld = Held(t) \cup rest
                   /\ AllHeld' = Held(t)' \cup rest
                   /\ rest = UNION {Held(u) : u \in Threads \ {t}}
<1>1. \A u \in Threads \ {t} : Held(u)' = Held(u)
  BY DEF Held, OthersSame
<1>2. PICK rest : rest = UNION {Held(u) : u \in Threads \ {t}}
  OBVIOUS
<1>3. AllHeld = Held(t) \cup rest
  BY <1>2 DEF AllHeld
<1>4. AllHeld' = Held(t)' \cup rest
  BY <1>1, <1>2 DEF AllHeld
<1> QED BY <1>2, <1>3, <1>4

(* The paths of a state of the invariant. *)
LEMMA Unfold ==
  ASSUME SInv
  PROVE  \E q \in Seq(Nodes), G \in [Threads -> Seq(Nodes)] :
           /\ Paths(q, G)
           /\ heap \ Listed(q, G) = AllHeld
           /\ ValuesOf(q, data) \in Seq(Values)
           /\ AbsQueue = ValuesOf(q, data)
<1>1. PICK held : held = AllHeld
  OBVIOUS
<1>2. Shape(held)
  BY <1>1 DEF SInv
<1> QED BY <1>1, <1>2, ShapeDef DEF AbsQueue

(* A step that leaves the lists and what t holds as they are.               *)
LEMMA QuietStep ==
  ASSUME TypeOK, LockHeld, SInv, NEW t \in Threads, OthersSame(t),
         \A u \in Threads \ {t} : val'[u] = val[u],
         UNCHANGED <<num_threads, head, next, data, heap, freeHead, freeSize>>,
         Held(t)' = Held(t), ValueOf(t)'
  PROVE  /\ SInv'
         /\ AbsQueue' = AbsQueue
         /\ AbsCalls' = [AbsCalls EXCEPT ![t] = AbsCall(t)']
<1>1. PICK q, G : /\ Paths(q, G)
                  /\ heap \ Listed(q, G) = AllHeld
                  /\ ValuesOf(q, data) \in Seq(Values)
                  /\ AbsQueue = ValuesOf(q, data)
  BY Unfold
<1>2. Paths(q, G)'
  BY <1>1 DEF Paths
<1>3. \A u \in Threads \ {t} : Held(u)' = Held(u)
  BY DEF Held, OthersSame
<1>4. \A u \in Threads \ {t} : ValueOf(u)'
  BY DEF OthersSame, SInv, ValueOf
<1>5. AllHeld' = AllHeld
  BY <1>3 DEF AllHeld
<1> QED BY <1>1, <1>2, <1>3, <1>4, <1>5, ShapeStep

(* Nobody else carries a value that depends on the lists while t is inside. *)
LEMMA ValuesOfOthers ==
  ASSUME TypeOK, LockHeld, SInv, NEW t \in Threads, OthersSame(t), InSection(t),
         \A u \in Threads \ {t} : val'[u] = val[u]
  PROVE  \A u \in Threads \ {t} : ValueOf(u)'
<1> TAKE u \in Threads \ {t}
<1>1. pc[u] \in {"idle", "e_lock", "d_lock", "recycle"}
  BY Alone DEF TypeOK, Labels
<1> QED BY <1>1 DEF SInv, ValueOf, OthersSame

-----------------------------------------------------------------------------
(* Which abstract step each step is. *)
Quiet == UNCHANGED <<AbsQueue, AbsCalls>>

(* The abstract actions in these terms. *)
LEMMA AbsActions ==
  /\ Quiet => UNCHANGED Abs!avars
  /\ \A t \in Threads : \A v \in Values :
       /\ AbsQueue' = AbsQueue /\ AbsCalls[t] = Abs!Idle
            /\ AbsCalls' = [AbsCalls EXCEPT ![t] = Abs!Enq(v)] => Abs!AbsNext
       /\ AbsQueue' = AbsQueue /\ AbsCalls[t] = Abs!Enq(v)
            /\ AbsCalls' = [AbsCalls EXCEPT ![t] = Abs!Idle] => Abs!AbsNext
       /\ AbsQueue' = Append(AbsQueue, v) /\ AbsCalls[t] = Abs!Enq(v)
            /\ AbsCalls' = [AbsCalls EXCEPT ![t] = Abs!EnqDone] => Abs!AbsNext
       /\ AbsQueue' = AbsQueue /\ AbsCalls[t] = Abs!DeqDone(v)
            /\ AbsCalls' = [AbsCalls EXCEPT ![t] = Abs!Idle] => Abs!AbsNext
       /\ AbsQueue # <<>> /\ AbsQueue' = Tail(AbsQueue) /\ v = Head(AbsQueue)
            /\ AbsCalls[t] = Abs!Deq
            /\ AbsCalls' = [AbsCalls EXCEPT ![t] = Abs!DeqDone(v)] => Abs!AbsNext
  /\ \A t \in Threads :
       /\ AbsQueue' = AbsQueue /\ AbsCalls[t] = Abs!Idle
            /\ AbsCalls' = [AbsCalls EXCEPT ![t] = Abs!Deq] => Abs!AbsNext
       /\ AbsQueue' = AbsQueue /\ AbsCalls[t] = Abs!EnqDone
            /\ AbsCalls' = [AbsCalls EXCEPT ![t] = Abs!Idle] => Abs!AbsNext
       /\ AbsQueue' = AbsQueue /\ AbsCalls[t] = Abs!DeqEmpty
            /\ AbsCalls' = [AbsCalls EXCEPT ![t] = Abs!Idle] => Abs!AbsNext
       /\ AbsQueue = <<>> /\ AbsQueue' = AbsQueue /\ AbsCalls[t] = Abs!Deq
            /\ AbsCalls' = [AbsCalls EXCEPT ![t] = Abs!DeqEmpty] => Abs!AbsNext
  /\ (\A t \in Threads : AbsCalls[t] = Abs!Idle) /\ AbsQueue' = <<>> /\ AbsCalls' = AbsCalls
       => Abs!AbsNext
<1>1. /\ Abs!Deq # Abs!Idle /\ Abs!EnqDone # Abs!Idle /\ Abs!DeqEmpty # Abs!Idle
      /\ Abs!DeqEmpty # Abs!Deq
      /\ \A v \in Values : /\ Abs!Enq(v) # Abs!Idle /\ Abs!Enq(v) # Abs!EnqDone
                            /\ Abs!DeqDone(v) # Abs!Idle /\ Abs!DeqDone(v) # Abs!Deq
  BY DEF Abs!Idle, Abs!Enq, Abs!EnqDone, Abs!Deq, Abs!DeqEmpty, Abs!DeqDone
<1>2. \A t \in Threads : \A b, c :
        AbsCalls[t] = b /\ AbsCalls' = [AbsCalls EXCEPT ![t] = c] /\ c # b
          => AbsCalls'[t] # AbsCalls[t]
  BY DEF AbsCalls
<1>3. \A t \in Threads : \A b, c :
        AbsCalls[t] = b /\ AbsCalls' = [AbsCalls EXCEPT ![t] = c] => Abs!Move(t, b, c)
  BY Zenon DEF Abs!Move, AbsCalls
<1> QED
  BY <1>1, <1>2, <1>3, ZenonT(60)
  DEF Quiet, AbsQueue, AbsCalls, Abs!avars, Abs!AbsNext, Abs!CallEnq, Abs!RefuseEnq,
      Abs!TakeEnq, Abs!ReturnDeq, Abs!TakeDeq, Abs!CallDeq, Abs!ReturnEnq, Abs!SeeEmpty,
      Abs!Discard

-----------------------------------------------------------------------------
(* A step is simulated if the invariant holds after it and the abstract     *)
(* queue makes a step of its own or none.                                   *)
Simulated == SInv' /\ (Abs!AbsNext \/ UNCHANGED Abs!avars)

(* It makes none if no abstract call goes on. *)
LEMMA Silent ==
  ASSUME SInv', AbsQueue' = AbsQueue, NEW t \in Threads,
         AbsCalls' = [AbsCalls EXCEPT ![t] = AbsCall(t)'], AbsCall(t)' = AbsCall(t)
  PROVE  Simulated
<1>1. AbsCalls' = AbsCalls
  BY DEF AbsCalls
<1> QED BY <1>1, AbsActions DEF Simulated, Quiet

(* The queue is empty when nothing is behind the dummy node. *)
LEMMA EmptyQueue ==
  ASSUME SInv, num_threads # 0, next[head] = NULL
  PROVE  AbsQueue = <<>>
<1>1. PICK q, G : Paths(q, G) /\ AbsQueue = ValuesOf(q, data)
  BY Unfold
<1>2. IsPath(q, head, next) /\ q # <<>>
  BY <1>1 DEF Paths
<1>3. PICK n \in Nat : n = Len(q) /\ n # 0
  BY <1>2, PathNodes
<1>4. next[q[1]] = IF 1 = n THEN NULL ELSE q[1 + 1]
  BY <1>2, <1>3 DEF IsPath
<1>5. n # 1 => q[1 + 1] \in Nodes
  BY <1>2, <1>3 DEF IsPath
<1>6. n = 1
  BY <1>2, <1>4, <1>5, PathNodes, HeapAssumption
<1>7. Len(q) \in {0, 1}
  BY <1>3, <1>6
<1> QED BY <1>1, <1>7, ValuesOfNone

(* A call begins; its argument is v, or none for deq. *)
LEMMA BeginSim ==
  ASSUME TypeOK, LockHeld, SInv, NEW t \in Threads, Begin(t)
  PROVE  Simulated
<1>1. OthersSame(t) /\ \A u \in Threads \ {t} : val'[u] = val[u]
  BY DEF OthersSame, TypeOK, Begin, CallEnq, CallDeq, GoTo, localVars
<1>2. UNCHANGED <<num_threads, head, next, data, heap, freeHead, freeSize>>
  BY DEF Begin, CallEnq, CallDeq, heapVars
<1>3. Held(t)' = Held(t)
  BY DEF Held, TypeOK, Begin, CallEnq, CallDeq, GoTo
<1>4. ValueOf(t)'
  BY DEF ValueOf, TypeOK, Begin, CallEnq, CallDeq, GoTo
<1>5. /\ SInv' /\ AbsQueue' = AbsQueue
      /\ AbsCalls' = [AbsCalls EXCEPT ![t] = AbsCall(t)']
  BY <1>1, <1>2, <1>3, <1>4, QuietStep
<1>6. AbsCalls[t] = Abs!Idle
  BY DEF AbsCalls, AbsCall, Begin, CallEnq, CallDeq, GoTo, Abs!Idle
<1>7. ASSUME NEW v \in Values, CallEnq(t, v)
      PROVE  Simulated
  <2>1. AbsCall(t)' = Abs!Enq(v)
    BY <1>7 DEF AbsCall, CallEnq, GoTo, TypeOK, Abs!Enq
  <2> QED BY <1>5, <1>6, <2>1, AbsActions DEF Simulated
<1>8. CASE CallDeq(t)
  <2>1. AbsCall(t)' = Abs!Deq
    BY <1>8 DEF AbsCall, CallDeq, GoTo, TypeOK, Abs!Deq
  <2> QED BY <1>5, <1>6, <2>1, AbsActions DEF Simulated
<1> QED BY <1>7, <1>8 DEF Begin

(* The lock is taken: nothing happens to the abstract queue. *)
LEMMA SetLockSim ==
  ASSUME TypeOK, LockHeld, NEW L, NEW F, GInv(L, F), SInv, NEW t \in Threads, SetLock(t)
  PROVE  Simulated
<1>1. OthersSame(t) /\ \A u \in Threads \ {t} : val'[u] = val[u]
  BY DEF OthersSame, TypeOK, SetLock, GoTo, heapVars, localVars
<1>2. UNCHANGED <<num_threads, head, next, data, heap, freeHead, freeSize>>
  BY DEF SetLock, GoTo, heapVars, localVars
<1>3. Held(t)' = Held(t)
  BY DEF Held, TypeOK, SetLock, GoTo, heapVars, localVars
<1>4. ValueOf(t)'
  BY DEF SInv, ValueOf, TypeOK, SetLock, GoTo, heapVars, localVars
<1>5. /\ SInv' /\ AbsQueue' = AbsQueue
      /\ AbsCalls' = [AbsCalls EXCEPT ![t] = AbsCall(t)']
  BY <1>1, <1>2, <1>3, <1>4, QuietStep
<1>6. AbsCall(t)' = AbsCall(t)
  BY DEF AbsCall, TypeOK, SetLock, GoTo, heapVars, localVars
<1> QED BY <1>5, <1>6, Silent

(* enq gets no node. *)
LEMMA EnqNoMemorySim ==
  ASSUME TypeOK, LockHeld, NEW L, NEW F, GInv(L, F), SInv, NEW t \in Threads, EnqNoMemory(t)
  PROVE  Simulated
<1>1. OthersSame(t) /\ \A u \in Threads \ {t} : val'[u] = val[u]
  BY DEF OthersSame, TypeOK, EnqNoMemory, GoTo, heapVars, localVars
<1>2. UNCHANGED <<num_threads, head, next, data, heap, freeHead, freeSize>>
  BY DEF EnqNoMemory, GoTo, heapVars, localVars
<1>3. Held(t)' = Held(t)
  BY DEF Held, TypeOK, EnqNoMemory, GoTo, heapVars, localVars
<1>4. ValueOf(t)'
  BY DEF SInv, ValueOf, TypeOK, EnqNoMemory, GoTo, heapVars, localVars
<1>5. /\ SInv' /\ AbsQueue' = AbsQueue
      /\ AbsCalls' = [AbsCalls EXCEPT ![t] = AbsCall(t)']
  BY <1>1, <1>2, <1>3, <1>4, QuietStep
<1>6. AbsCall(t)' = AbsCall(t)
  BY DEF AbsCall, TypeOK, EnqNoMemory, GoTo, heapVars, localVars
<1> QED BY <1>5, <1>6, Silent

(* enq returns without a node. *)
LEMMA EnqRefuseSim ==
  ASSUME TypeOK, LockHeld, NEW L, NEW F, GInv(L, F), SInv, NEW t \in Threads, EnqRefuse(t)
  PROVE  Simulated
<1>1. OthersSame(t) /\ \A u \in Threads \ {t} : val'[u] = val[u]
  BY DEF OthersSame, TypeOK, EnqRefuse, Return, GoTo, heapVars
<1>2. UNCHANGED <<num_threads, head, next, data, heap, freeHead, freeSize>>
  BY DEF EnqRefuse, Return, GoTo, heapVars
<1>3. Held(t)' = Held(t)
  BY DEF Held, TypeOK, EnqRefuse, Return, GoTo, heapVars
<1>4. ValueOf(t)'
  BY DEF SInv, ValueOf, TypeOK, EnqRefuse, Return, GoTo, heapVars
<1>5. /\ SInv' /\ AbsQueue' = AbsQueue
      /\ AbsCalls' = [AbsCalls EXCEPT ![t] = AbsCall(t)']
  BY <1>1, <1>2, <1>3, <1>4, QuietStep
<1>6. val[t] \in Values /\ AbsCall(t) = Abs!Enq(val[t]) /\ AbsCall(t)' = Abs!Idle
  BY DEF SInv, ValueOf, AbsCall, TypeOK, Abs!Enq, Abs!Idle, EnqRefuse, Return, GoTo, heapVars
<1> QED BY <1>5, <1>6, AbsActions DEF Simulated, AbsCalls

(* enq moves tail. *)
LEMMA EnqSwingSim ==
  ASSUME TypeOK, LockHeld, NEW L, NEW F, GInv(L, F), SInv, NEW t \in Threads, EnqSwing(t)
  PROVE  Simulated
<1>1. OthersSame(t) /\ \A u \in Threads \ {t} : val'[u] = val[u]
  BY DEF OthersSame, TypeOK, EnqSwing, GoTo, localVars
<1>2. UNCHANGED <<num_threads, head, next, data, heap, freeHead, freeSize>>
  BY DEF EnqSwing, GoTo, localVars
<1>3. Held(t)' = Held(t)
  BY DEF Held, TypeOK, EnqSwing, GoTo, localVars
<1>4. ValueOf(t)'
  BY DEF SInv, ValueOf, TypeOK, EnqSwing, GoTo, localVars
<1>5. /\ SInv' /\ AbsQueue' = AbsQueue
      /\ AbsCalls' = [AbsCalls EXCEPT ![t] = AbsCall(t)']
  BY <1>1, <1>2, <1>3, <1>4, QuietStep
<1>6. AbsCall(t)' = AbsCall(t)
  BY DEF AbsCall, TypeOK, EnqSwing, GoTo, localVars
<1> QED BY <1>5, <1>6, Silent

(* enq returns. *)
LEMMA EnqUnlockSim ==
  ASSUME TypeOK, LockHeld, NEW L, NEW F, GInv(L, F), SInv, NEW t \in Threads, EnqUnlock(t)
  PROVE  Simulated
<1>1. OthersSame(t) /\ \A u \in Threads \ {t} : val'[u] = val[u]
  BY DEF OthersSame, TypeOK, EnqUnlock, Return, GoTo, heapVars
<1>2. UNCHANGED <<num_threads, head, next, data, heap, freeHead, freeSize>>
  BY DEF EnqUnlock, Return, GoTo, heapVars
<1>3. Held(t)' = Held(t)
  BY DEF Held, TypeOK, EnqUnlock, Return, GoTo, heapVars
<1>4. ValueOf(t)'
  BY DEF SInv, ValueOf, TypeOK, EnqUnlock, Return, GoTo, heapVars
<1>5. /\ SInv' /\ AbsQueue' = AbsQueue
      /\ AbsCalls' = [AbsCalls EXCEPT ![t] = AbsCall(t)']
  BY <1>1, <1>2, <1>3, <1>4, QuietStep
<1>6. AbsCall(t) = Abs!EnqDone /\ AbsCall(t)' = Abs!Idle
  BY DEF AbsCall, TypeOK, Abs!EnqDone, Abs!Idle, EnqUnlock, Return, GoTo, heapVars
<1> QED BY <1>5, <1>6, AbsActions DEF Simulated, AbsCalls

(* deq looks for a value; when there is none, it has seen the queue empty. *)
LEMMA DeqTestSim ==
  ASSUME TypeOK, LockHeld, NEW L, NEW F, GInv(L, F), SInv, NEW t \in Threads, DeqTest(t)
  PROVE  Simulated
<1>1. OthersSame(t) /\ \A u \in Threads \ {t} : val'[u] = val[u]
  BY DEF OthersSame, TypeOK, DeqTest, GoTo, heapVars, localVars
<1>2. UNCHANGED <<num_threads, head, next, data, heap, freeHead, freeSize>>
  BY DEF DeqTest, GoTo, heapVars, localVars
<1>3. Held(t)' = Held(t)
  BY DEF Held, TypeOK, DeqTest, GoTo, heapVars, localVars
<1>4. ValueOf(t)'
  BY DEF SInv, ValueOf, TypeOK, DeqTest, GoTo, heapVars, localVars
<1>5. /\ SInv' /\ AbsQueue' = AbsQueue
      /\ AbsCalls' = [AbsCalls EXCEPT ![t] = AbsCall(t)']
  BY <1>1, <1>2, <1>3, <1>4, QuietStep
<1>6. CASE next[head] # NULL
  <2>1. AbsCall(t)' = AbsCall(t)
    BY <1>6 DEF AbsCall, TypeOK, DeqTest, GoTo, heapVars, localVars
  <2> QED BY <1>5, <2>1, Silent
<1>7. CASE next[head] = NULL
  <2>1. AbsCall(t) = Abs!Deq /\ AbsCall(t)' = Abs!DeqEmpty
    BY <1>7 DEF AbsCall, TypeOK, Abs!Deq, Abs!DeqEmpty, DeqTest, GoTo, heapVars, localVars
  <2>2. num_threads # 0
    BY DEF GInv, PointersOf, DeqTest, GoTo, heapVars, localVars
  <2>3. AbsQueue = <<>>
    BY <1>7, <2>2, EmptyQueue
  <2> QED BY <1>5, <2>1, <2>3, AbsActions DEF Simulated, AbsCalls
<1> QED BY <1>6, <1>7

(* deq returns from an empty queue. *)
LEMMA DeqEmptySim ==
  ASSUME TypeOK, LockHeld, NEW L, NEW F, GInv(L, F), SInv, NEW t \in Threads, DeqEmpty(t)
  PROVE  Simulated
<1>1. OthersSame(t) /\ \A u \in Threads \ {t} : val'[u] = val[u]
  BY DEF OthersSame, TypeOK, DeqEmpty, Return, GoTo, heapVars
<1>2. UNCHANGED <<num_threads, head, next, data, heap, freeHead, freeSize>>
  BY DEF DeqEmpty, Return, GoTo, heapVars
<1>3. Held(t)' = Held(t)
  BY DEF Held, TypeOK, DeqEmpty, Return, GoTo, heapVars
<1>4. ValueOf(t)'
  BY DEF SInv, ValueOf, TypeOK, DeqEmpty, Return, GoTo, heapVars
<1>5. /\ SInv' /\ AbsQueue' = AbsQueue
      /\ AbsCalls' = [AbsCalls EXCEPT ![t] = AbsCall(t)']
  BY <1>1, <1>2, <1>3, <1>4, QuietStep
<1>6. AbsCall(t) = Abs!DeqEmpty /\ AbsCall(t)' = Abs!Idle
  BY DEF AbsCall, TypeOK, Abs!DeqEmpty, Abs!Idle, DeqEmpty, Return, GoTo, heapVars
<1> QED BY <1>5, <1>6, AbsActions DEF Simulated, AbsCalls

(* deq reads the oldest value. *)
LEMMA DeqReadValueSim ==
  ASSUME TypeOK, LockHeld, NEW L, NEW F, GInv(L, F), SInv, NEW t \in Threads, DeqReadValue(t)
  PROVE  Simulated
<1>1. OthersSame(t) /\ \A u \in Threads \ {t} : val'[u] = val[u]
  BY DEF OthersSame, TypeOK, DeqReadValue, GoTo, heapVars
<1>2. UNCHANGED <<num_threads, head, next, data, heap, freeHead, freeSize>>
  BY DEF DeqReadValue, GoTo, heapVars
<1>3. Held(t)' = Held(t)
  BY DEF Held, TypeOK, DeqReadValue, GoTo, heapVars
<1>4. ValueOf(t)'
  BY DEF SInv, ValueOf, TypeOK, DeqReadValue, GoTo, heapVars
<1>5. /\ SInv' /\ AbsQueue' = AbsQueue
      /\ AbsCalls' = [AbsCalls EXCEPT ![t] = AbsCall(t)']
  BY <1>1, <1>2, <1>3, <1>4, QuietStep
<1>6. AbsCall(t)' = AbsCall(t)
  BY DEF AbsCall, TypeOK, DeqReadValue, GoTo, heapVars
<1> QED BY <1>5, <1>6, Silent

(* deq writes tail. *)
LEMMA DeqMoveTailSim ==
  ASSUME TypeOK, LockHeld, NEW L, NEW F, GInv(L, F), SInv, NEW t \in Threads, DeqMoveTail(t)
  PROVE  Simulated
<1>1. OthersSame(t) /\ \A u \in Threads \ {t} : val'[u] = val[u]
  BY DEF OthersSame, TypeOK, DeqMoveTail, GoTo, localVars
<1>2. UNCHANGED <<num_threads, head, next, data, heap, freeHead, freeSize>>
  BY DEF DeqMoveTail, GoTo, localVars
<1>3. Held(t)' = Held(t)
  BY DEF Held, TypeOK, DeqMoveTail, GoTo, localVars
<1>4. ValueOf(t)'
  BY DEF SInv, ValueOf, TypeOK, DeqMoveTail, GoTo, localVars
<1>5. /\ SInv' /\ AbsQueue' = AbsQueue
      /\ AbsCalls' = [AbsCalls EXCEPT ![t] = AbsCall(t)']
  BY <1>1, <1>2, <1>3, <1>4, QuietStep
<1>6. AbsCall(t)' = AbsCall(t)
  BY DEF AbsCall, TypeOK, DeqMoveTail, GoTo, localVars
<1> QED BY <1>5, <1>6, Silent

(* deq gives the lock back. *)
LEMMA DeqUnlockSim ==
  ASSUME TypeOK, LockHeld, NEW L, NEW F, GInv(L, F), SInv, NEW t \in Threads, DeqUnlock(t)
  PROVE  Simulated
<1>1. OthersSame(t) /\ \A u \in Threads \ {t} : val'[u] = val[u]
  BY DEF OthersSame, TypeOK, DeqUnlock, GoTo, heapVars, localVars
<1>2. UNCHANGED <<num_threads, head, next, data, heap, freeHead, freeSize>>
  BY DEF DeqUnlock, GoTo, heapVars, localVars
<1>3. Held(t)' = Held(t)
  BY DEF Held, TypeOK, DeqUnlock, GoTo, heapVars, localVars
<1>4. ValueOf(t)'
  BY DEF SInv, ValueOf, TypeOK, DeqUnlock, GoTo, heapVars, localVars
<1>5. /\ SInv' /\ AbsQueue' = AbsQueue
      /\ AbsCalls' = [AbsCalls EXCEPT ![t] = AbsCall(t)']
  BY <1>1, <1>2, <1>3, <1>4, QuietStep
<1>6. AbsCall(t)' = AbsCall(t)
  BY DEF AbsCall, TypeOK, DeqUnlock, GoTo, heapVars, localVars
<1> QED BY <1>5, <1>6, Silent

(* Between two calls the queue is replaced by an empty one. *)
LEMMA NewSim ==
  ASSUME NEW q, NEW G, Paths(q, G)', ValuesOf(q, data') = <<>>,
         heap' \ Listed(q, G) = AllHeld,
         \A t \in Threads : /\ Held(t) = {} /\ Held(t)' = {} /\ ValueOf(t)'
                            /\ AbsCall(t) = Abs!Idle /\ AbsCall(t)' = Abs!Idle
  PROVE  Simulated
<1>1. AllHeld = {} /\ AllHeld' = {}
  BY DEF AllHeld
<1>2. ValuesOf(q, data') \in Seq(Values)
  BY EmptySeq
<1>3. Shape({})' /\ AbsQueue' = <<>>
  BY <1>1, <1>2, ShapeNext DEF AbsQueue
<1>4. SInv'
  BY <1>1, <1>3 DEF SInv, Shape
<1>5. AbsCalls' = AbsCalls /\ \A t \in Threads : AbsCalls[t] = Abs!Idle
  BY DEF AbsCalls
<1> QED BY <1>3, <1>4, <1>5, AbsActions DEF Simulated

(* enq gets a node, which no list has any more. *)
LEMMA EnqUpcycleSim ==
  ASSUME TypeOK, LockHeld, NEW L, NEW F, GInv(L, F), SInv, NEW t \in Threads,
         EnqUpcycle(t)
  PROVE  Simulated
<1>1. PICK q, G : /\ Paths(q, G)
                  /\ heap \ Listed(q, G) = AllHeld
                  /\ ValuesOf(q, data) \in Seq(Values)
                  /\ AbsQueue = ValuesOf(q, data)
  BY Unfold
<1>2. PICK n \in Nodes : Upcycle(t, n) /\ node' = [node EXCEPT ![t] = n]
  BY DEF EnqUpcycle
<1>3. PICK G2 : G2 = Popped(G, t)
  OBVIOUS
<1>4. /\ Paths(q, G2)'
      /\ heap' \ Listed(q, G2) = (heap \ Listed(q, G)) \cup {n}
      /\ ValuesOf(q, data') = ValuesOf(q, data)
  <2>1. HeapTypeOK /\ UNCHANGED <<num_threads, head, tail>>
    BY DEF EnqUpcycle, TypeOK
  <2> QED BY <1>1, <1>2, <1>3, <2>1, UpcyclePaths
<1>5. OthersSame(t) /\ \A u \in Threads \ {t} : val'[u] = val[u]
  BY <1>2 DEF OthersSame, TypeOK, EnqUpcycle, GoTo
<1>6. Held(t) = {} /\ Held(t)' = {n}
  BY <1>2 DEF Held, TypeOK, EnqUpcycle, GoTo
<1>7. heap' \ Listed(q, G2) = AllHeld'
  BY <1>1, <1>4, <1>5, <1>6, HeldNext
<1>8. ValueOf(t)' /\ InSection(t) /\ AbsCall(t)' = AbsCall(t)
  BY DEF SInv, ValueOf, AbsCall, TypeOK, EnqUpcycle, GoTo, InSection, EnqSection
<1>9. \A u \in Threads \ {t} : ValueOf(u)'
  BY <1>5, <1>8, ValuesOfOthers
<1>10. /\ SInv' /\ AbsQueue' = ValuesOf(q, data')
       /\ AbsCalls' = [AbsCalls EXCEPT ![t] = AbsCall(t)']
  BY <1>1, <1>4, <1>5, <1>7, <1>8, <1>9, ShapeStep
<1> QED BY <1>1, <1>4, <1>8, <1>10, Silent

(* enq writes the fields of its node. *)
LEMMA EnqFillSim ==
  ASSUME TypeOK, LockHeld, NEW L, NEW F, GInv(L, F), SInv, NEW t \in Threads,
         EnqFill(t)
  PROVE  Simulated
<1>1. PICK q, G : /\ Paths(q, G)
                  /\ heap \ Listed(q, G) = AllHeld
                  /\ ValuesOf(q, data) \in Seq(Values)
                  /\ AbsQueue = ValuesOf(q, data)
  BY Unfold
<1>2. PICK n \in Nodes : n = node[t] /\ Held(t) = {n}
  BY DEF GInv, PointersOf, Held, EnqFill, GoTo
<1>3. n \notin Listed(q, G)
  BY <1>1, <1>2 DEF AllHeld
<1>4. Paths(q, G)' /\ ValuesOf(q, data') = ValuesOf(q, data)
  <2>1. \A y \in Nodes \ {n} : next'[y] = next[y] /\ data'[y] = data[y]
    BY <1>2 DEF EnqFill, TypeOK, HeapTypeOK
  <2> QED BY <1>1, <1>3, <2>1, FillPaths DEF EnqFill, TypeOK
<1>5. OthersSame(t) /\ \A u \in Threads \ {t} : val'[u] = val[u]
  BY DEF OthersSame, TypeOK, EnqFill, GoTo, localVars
<1>6. Held(t)' = Held(t)
  BY DEF Held, TypeOK, EnqFill, GoTo, localVars
<1>7. heap' \ Listed(q, G) = AllHeld'
  BY <1>1, <1>5, <1>6, HeldNext DEF EnqFill
<1>8. InSection(t) /\ AbsCall(t)' = AbsCall(t)
  BY DEF AbsCall, TypeOK, EnqFill, GoTo, localVars, InSection, EnqSection
<1>9. ValueOf(t)'
  BY <1>2 DEF SInv, ValueOf, TypeOK, HeapTypeOK, EnqFill, GoTo, localVars
<1>10. \A u \in Threads \ {t} : ValueOf(u)'
  BY <1>5, <1>8, ValuesOfOthers
<1>11. /\ SInv' /\ AbsQueue' = ValuesOf(q, data')
       /\ AbsCalls' = [AbsCalls EXCEPT ![t] = AbsCall(t)']
  BY <1>1, <1>4, <1>5, <1>7, <1>9, <1>10, ShapeStep
<1> QED BY <1>1, <1>4, <1>8, <1>11, Silent

(* enq links its node: this is where it takes effect. *)
LEMMA EnqLinkSim ==
  ASSUME TypeOK, LockHeld, NEW L, NEW F, GInv(L, F), SInv, NEW t \in Threads,
         EnqLink(t)
  PROVE  Simulated
<1>1. PICK q, G : /\ Paths(q, G)
                  /\ heap \ Listed(q, G) = AllHeld
                  /\ ValuesOf(q, data) \in Seq(Values)
                  /\ AbsQueue = ValuesOf(q, data)
  BY Unfold
<1>2. PICK n \in Nodes : n = node[t] /\ Held(t) = {n}
  BY DEF GInv, PointersOf, Held, EnqLink, GoTo
<1>3. /\ num_threads # 0 /\ next[n] = NULL /\ InSection(t)
      /\ val[t] \in Values /\ data[n] = val[t]
  BY <1>2 DEF GInv, PointersOf, SInv, ValueOf, InSection, EnqSection, EnqLink, GoTo
<1>4. n \in heap \ Listed(q, G)
  BY <1>1, <1>2 DEF AllHeld
<1>5. PICK l : l = tail
  OBVIOUS
<1>6. l = q[Len(q)]
  <2>1. IsList(L, head, next) /\ l \in L /\ NULL \notin L
    BY <1>3, <1>5, HeapAssumption DEF GInv, Lists, TailLast, TypeOK, HeapTypeOK
  <2>2. next[l] = NULL
    <3>1. \A u \in Threads : pc[u] # "swing"
      BY <1>3, Alone DEF EnqLink, GoTo, EnqSection
    <3> QED BY <1>3, <1>5, <3>1 DEF GInv, TailLast
  <2>3. IsPath(q, head, next) /\ q # <<>>
    BY <1>1, <1>3 DEF Paths
  <2> QED BY <2>1, <2>2, <2>3, PathLast
<1>7. /\ Paths(Append(q, n), G)'
      /\ heap' \ Listed(Append(q, n), G) = (heap \ Listed(q, G)) \ {n}
      /\ ValuesOf(Append(q, n), data') = Append(ValuesOf(q, data), data[n])
      /\ ValuesOf(Append(q, n), data') \in Seq(Values)
  <2>1. next' = [next EXCEPT ![l] = n]
    BY <1>2, <1>5 DEF EnqLink
  <2>2. HeapTypeOK /\ UNCHANGED <<num_threads, head, data, heap, freeHead, freeSize>>
    BY DEF TypeOK, EnqLink
  <2>3. data[n] \in Values
    BY <1>3
  <2> QED BY <1>1, <1>3, <1>4, <1>6, <2>1, <2>2, <2>3, LinkPaths
<1>8. OthersSame(t) /\ \A u \in Threads \ {t} : val'[u] = val[u]
  BY DEF OthersSame, TypeOK, EnqLink, GoTo, localVars
<1>9. Held(t)' = {}
  BY DEF Held, TypeOK, EnqLink, GoTo
<1>10. \A u \in Threads \ {t} : n \notin Held(u)
  BY <1>2 DEF GInv, HeldApart
<1>11. heap' \ Listed(Append(q, n), G) = AllHeld'
  BY <1>1, <1>2, <1>7, <1>8, <1>9, <1>10, HeldNext
<1>12. ValueOf(t)' /\ AbsCall(t) = Abs!Enq(val[t]) /\ AbsCall(t)' = Abs!EnqDone
  BY DEF ValueOf, AbsCall, TypeOK, EnqLink, GoTo, Abs!Enq, Abs!EnqDone
<1>13. \A u \in Threads \ {t} : ValueOf(u)'
  BY <1>3, <1>8, ValuesOfOthers
<1>14. PICK q2 : q2 = Append(q, n)
  OBVIOUS
<1>15. /\ SInv' /\ AbsQueue' = ValuesOf(q2, data')
       /\ AbsCalls' = [AbsCalls EXCEPT ![t] = AbsCall(t)']
  BY <1>7, <1>8, <1>11, <1>12, <1>13, <1>14, ShapeStep
<1>16. AbsQueue' = Append(AbsQueue, val[t])
  BY <1>1, <1>3, <1>7, <1>14, <1>15
<1> QED BY <1>3, <1>12, <1>15, <1>16, AbsActions DEF Simulated, AbsCalls

(* deq moves head: this is where it takes effect. *)
LEMMA DeqMoveHeadSim ==
  ASSUME TypeOK, LockHeld, NEW L, NEW F, GInv(L, F), SInv, NEW t \in Threads,
         DeqMoveHead(t)
  PROVE  Simulated
<1>1. PICK q, G : /\ Paths(q, G)
                  /\ heap \ Listed(q, G) = AllHeld
                  /\ ValuesOf(q, data) \in Seq(Values)
                  /\ AbsQueue = ValuesOf(q, data)
  BY Unfold
<1>2. /\ num_threads # 0 /\ sentinel[t] = head /\ next[head] # NULL
      /\ head' = next[head] /\ val[t] = data[next[head]] /\ InSection(t)
  BY DEF GInv, PointersOf, SInv, ValueOf, InSection, DeqSection, DeqMoveHead, GoTo
<1>3. PICK q2, h : q2 = Tail(q) /\ h = head
  OBVIOUS
<1>4. /\ Paths(q2, G)'
      /\ heap' \ Listed(q2, G) = (heap \ Listed(q, G)) \cup {h}
      /\ AbsQueue # <<>> /\ Head(AbsQueue) = val[t] /\ val[t] \in Values
      /\ ValuesOf(q2, data') = Tail(AbsQueue)
      /\ ValuesOf(q2, data') \in Seq(Values)
  <2>1. HeapTypeOK /\ UNCHANGED <<num_threads, next, data, heap, freeHead, freeSize>>
    BY DEF TypeOK, DeqMoveHead
  <2> QED BY <1>1, <1>2, <1>3, <2>1, MoveHeadPaths
<1>5. OthersSame(t) /\ \A u \in Threads \ {t} : val'[u] = val[u]
  BY DEF OthersSame, TypeOK, DeqMoveHead, GoTo, localVars
<1>6. Held(t) = {} /\ Held(t)' = {h}
  BY <1>2, <1>3 DEF Held, TypeOK, DeqMoveHead, GoTo, localVars
<1>7. heap' \ Listed(q2, G) = AllHeld'
  BY <1>1, <1>4, <1>5, <1>6, HeldNext
<1>8. ValueOf(t)' /\ AbsCall(t) = Abs!Deq /\ AbsCall(t)' = Abs!DeqDone(val[t])
  BY <1>4 DEF ValueOf, AbsCall, TypeOK, DeqMoveHead, GoTo, localVars, Abs!Deq, Abs!DeqDone
<1>9. \A u \in Threads \ {t} : ValueOf(u)'
  BY <1>2, <1>5, ValuesOfOthers
<1>10. /\ SInv' /\ AbsQueue' = ValuesOf(q2, data')
       /\ AbsCalls' = [AbsCalls EXCEPT ![t] = AbsCall(t)']
  BY <1>4, <1>5, <1>7, <1>8, <1>9, ShapeStep
<1> QED BY <1>4, <1>8, <1>10, AbsActions DEF Simulated, AbsCalls

(* deq puts the old dummy node on a free list and returns. *)
LEMMA DeqRecycleSim ==
  ASSUME TypeOK, LockHeld, NEW L, NEW F, GInv(L, F), SInv, NEW t \in Threads,
         DeqRecycle(t)
  PROVE  Simulated
<1>1. PICK q, G : /\ Paths(q, G)
                  /\ heap \ Listed(q, G) = AllHeld
                  /\ ValuesOf(q, data) \in Seq(Values)
                  /\ AbsQueue = ValuesOf(q, data)
  BY Unfold
<1>2. PICK x \in Nodes : x = sentinel[t] /\ Held(t) = {x}
  BY DEF GInv, PointersOf, Held, DeqRecycle, Return, GoTo
<1>3. x \in heap \ Listed(q, G)
  BY <1>1, <1>2 DEF AllHeld
<1>4. PICK G2 : G2 = Pushed(G, t, x)
  OBVIOUS
<1>5. /\ Paths(q, G2)'
      /\ heap' \ Listed(q, G2) = (heap \ Listed(q, G)) \ {x}
      /\ ValuesOf(q, data') = ValuesOf(q, data)
  <2>1. /\ HeapTypeOK /\ UNCHANGED <<num_threads, head, tail>> /\ num_threads # 0
        /\ Recycle(t, x)
    BY <1>2 DEF DeqRecycle, TypeOK, GInv, PointersOf, Return, GoTo
  <2> QED BY <1>1, <1>3, <1>4, <2>1, RecyclePaths
<1>6. OthersSame(t) /\ \A u \in Threads \ {t} : val'[u] = val[u]
  BY DEF OthersSame, TypeOK, DeqRecycle, Return, GoTo
<1>7. Held(t)' = {}
  BY DEF Held, TypeOK, DeqRecycle, Return, GoTo
<1>8. \A u \in Threads \ {t} : x \notin Held(u)
  BY <1>2 DEF GInv, HeldApart
<1>9. heap' \ Listed(q, G2) = AllHeld'
  BY <1>1, <1>2, <1>5, <1>6, <1>7, <1>8, HeldNext
<1>10. /\ ValueOf(t)' /\ val[t] \in Values
       /\ AbsCall(t) = Abs!DeqDone(val[t]) /\ AbsCall(t)' = Abs!Idle
  BY DEF SInv, ValueOf, AbsCall, TypeOK, DeqRecycle, Return, GoTo, Abs!DeqDone, Abs!Idle
<1>11. \A u \in Threads \ {t} : ValueOf(u)'
  <2> TAKE u \in Threads \ {t}
  <2>1. pc[u] = "d_head" => next'[head] = next[head]
    <3> SUFFICES ASSUME pc[u] = "d_head" PROVE next'[head] = next[head]
      OBVIOUS
    <3>1. head \in L /\ x \notin L
      BY <1>2 DEF GInv, PointersOf, Lists, HeldApart, Apart
    <3> QED BY <1>2, <3>1 DEF DeqRecycle, Recycle, GInv, Lists, TypeOK, HeapTypeOK
  <2> QED BY <1>6, <2>1 DEF SInv, ValueOf, OthersSame, DeqRecycle, Recycle
<1>12. /\ SInv' /\ AbsQueue' = ValuesOf(q, data')
       /\ AbsCalls' = [AbsCalls EXCEPT ![t] = AbsCall(t)']
  BY <1>1, <1>5, <1>6, <1>9, <1>10, <1>11, ShapeStep
<1> QED BY <1>1, <1>5, <1>10, <1>12, AbsActions DEF Simulated, AbsCalls

(* destroy_queue leaves no node allocated. *)
LEMMA DestroySim ==
  ASSUME TypeOK, SInv, Destroy
  PROVE  Simulated
<1>1. PICK q, G : Paths(q, G) /\ heap \ Listed(q, G) = AllHeld
  BY Unfold
<1>2. PICK G2 : G2 = [t \in Threads |-> <<>>]
  OBVIOUS
<1>3. /\ Paths(<<>>, G2)' /\ ValuesOf(<<>>, data') = <<>>
      /\ heap' \ Listed(<<>>, G2) = heap \ Listed(q, G)
  BY <1>1, <1>2, NoPaths DEF Destroy
<1>4. \A t \in Threads : /\ Held(t) = {} /\ Held(t)' = {} /\ ValueOf(t)'
                         /\ AbsCall(t) = Abs!Idle /\ AbsCall(t)' = Abs!Idle
  BY DEF Destroy, Held, ValueOf, AbsCall, Abs!Idle
<1> QED BY <1>1, <1>3, <1>4, NewSim

(* init_queue sets up an empty queue. *)
LEMMA InitQueueSim ==
  ASSUME TypeOK, NEW L, NEW F, GInv(L, F), SInv, InitQueue
  PROVE  Simulated
<1>1. PICK q, G : Paths(q, G) /\ heap \ Listed(q, G) = AllHeld
  BY Unfold
<1>2. PICK G2 : G2 = [t \in Threads |-> <<>>]
  OBVIOUS
<1>3. PICK q2 : q2 = <<head>>'
  OBVIOUS
<1>4. /\ Paths(q2, G2)' /\ ValuesOf(q2, data') = <<>>
      /\ heap' \ Listed(q2, G2) = heap \ Listed(q, G)
  BY <1>1, <1>2, <1>3, FreshPaths DEF InitQueue, TypeOK
<1>5. \A t \in Threads : pc[t] = "idle" /\ pc'[t] = "idle"
  BY DEF GInv, PointersOf, InitQueue, InitHeap
<1>6. \A t \in Threads : /\ Held(t) = {} /\ Held(t)' = {} /\ ValueOf(t)'
                         /\ AbsCall(t) = Abs!Idle /\ AbsCall(t)' = Abs!Idle
  BY <1>5 DEF Held, ValueOf, AbsCall, Abs!Idle
<1> QED BY <1>1, <1>4, <1>6, NewSim

(* Every step is one of the abstract queue or none. *)
LEMMA StepSim == IInv /\ SInv /\ [Next]_vars => SInv' /\ [Abs!AbsNext]_(Abs!avars)
<1> SUFFICES ASSUME IInv, SInv, [Next]_vars
             PROVE  Simulated
  BY DEF Simulated
<1>1. PICK L, F : GInv(L, F)
  BY DEF IInv
<1>2. TypeOK /\ LockHeld
  BY DEF IInv
<1>3. ASSUME NEW t \in Threads, Begin(t)
      PROVE  Simulated
  BY <1>2, <1>3, BeginSim
<1>4. ASSUME NEW t \in Threads, Step(t)
      PROVE  Simulated
  <2>1. CASE \/ SetLock(t) \/ EnqUpcycle(t) \/ EnqNoMemory(t) \/ EnqRefuse(t)
             \/ EnqFill(t) \/ EnqLink(t) \/ EnqSwing(t) \/ EnqUnlock(t)
    BY <1>1, <1>2, <2>1, SetLockSim, EnqUpcycleSim, EnqNoMemorySim, EnqRefuseSim,
       EnqFillSim, EnqLinkSim, EnqSwingSim, EnqUnlockSim
  <2>2. CASE \/ DeqTest(t) \/ DeqEmpty(t) \/ DeqReadValue(t) \/ DeqMoveHead(t)
             \/ DeqMoveTail(t) \/ DeqUnlock(t) \/ DeqRecycle(t)
    BY <1>1, <1>2, <2>2, DeqTestSim, DeqEmptySim, DeqReadValueSim, DeqMoveHeadSim,
       DeqMoveTailSim, DeqUnlockSim, DeqRecycleSim
  <2> QED BY <1>4, <2>1, <2>2 DEF Step
<1>5. CASE Destroy
  BY <1>2, <1>5, DestroySim
<1>6. CASE InitQueue
  BY <1>1, <1>2, <1>6, InitQueueSim
<1>7. CASE UNCHANGED vars
  <2>1. SInv'
    <3>1. UNCHANGED <<num_threads, head, next, data, heap, freeHead, freeSize,
                      pc, node, sentinel, val>>
      BY <1>7 DEF vars, heapVars, localVars
    <3>2. QueuePath' = QueuePath /\ FreePaths' = FreePaths
      BY <3>1 DEF QueuePath, FreePaths, Chain
    <3>3. PICK q, G : q = QueuePath /\ G = FreePaths /\ Paths(q, G)
      BY DEF SInv, Shape
    <3>4. Paths(q, G)'
      BY <3>1, <3>3 DEF Paths
    <3>5. Paths(QueuePath, FreePaths)'
      BY <3>2, <3>3, <3>4 DEF Paths
    <3>6. AllHeld' = AllHeld /\ \A t \in Threads : ValueOf(t)'
      BY <3>1 DEF AllHeld, Held, SInv, ValueOf
    <3> QED BY <3>1, <3>2, <3>5, <3>6 DEF SInv, Shape, Loose
  <2>2. UNCHANGED Abs!avars
    BY <1>7 DEF Abs!avars, Contents, Chain, AbsCall, vars, heapVars, localVars
  <2> QED BY <2>1, <2>2 DEF Simulated
<1> QED BY <1>3, <1>4, <1>5, <1>6, <1>7 DEF Next

(* At the start the queue is empty and every node is accounted for. *)
LEMMA InitSim == Init => SInv /\ Abs!AbsInit
<1> SUFFICES ASSUME Init PROVE SInv /\ Abs!AbsInit
  OBVIOUS
<1>1. PICK G : G = [t \in Threads |-> <<>>]
  OBVIOUS
<1>2. PICK q : q = <<head>>
  OBVIOUS
<1>3. /\ Paths(q, G) /\ heap \ Listed(q, G) = {}
      /\ ValuesOf(q, data) \in Seq(Values)
  BY <1>1, <1>2, FirstPaths DEF Init
<1>4. ValuesOf(q, data) = <<>>
  <2>1. Len(q) = 1
    BY <1>2
  <2> QED BY <2>1, ValuesOfNone
<1>5. \A t \in Threads : Held(t) = {} /\ ValueOf(t) /\ AbsCall(t) = Abs!Idle
  BY DEF Init, Held, ValueOf, AbsCall, Abs!Idle
<1>6. AllHeld = {} /\ num_threads # 0
  BY <1>5, HeapAssumption DEF AllHeld, Init, HeapInit
<1>7. q = QueuePath /\ G = FreePaths /\ Contents = <<>>
  BY <1>3, <1>4, <1>6, PathsAreChains
<1>8. SInv
  BY <1>3, <1>5, <1>6, <1>7 DEF SInv, Shape, Loose
<1> QED BY <1>5, <1>6, <1>7, <1>8 DEF Abs!AbsInit

(* The second layer of the invariant holds throughout. *)
THEOREM ShapeInvariance == Spec => []SInv
<1>1. Init => SInv
  BY InitSim
<1>2. IInv /\ SInv /\ [Next]_vars => SInv'
  BY StepSim
<1> QED BY <1>1, <1>2, Invariance, PTL DEF Spec

(* Every allocated node has exactly one owner, a list or a call: none is    *)
(* lost or recycled twice, although deq recycles without the lock.          *)
THEOREM Accounting == Spec => []NodesAccounted
<1>1. IInv /\ SInv => NodesAccounted
  <2> SUFFICES ASSUME IInv, SInv PROVE NodesAccounted
    OBVIOUS
  <2>1. PICK q, G : /\ q = QueuePath /\ G = FreePaths
                    /\ Paths(q, G) /\ heap \ Listed(q, G) = AllHeld
    BY DEF SInv, Shape, Loose
  <2>2. \A t, u \in Threads : t # u => Held(t) \cap Held(u) = {}
    BY DEF IInv, GInv, HeldApart
  <2>3. PICK H : H = [t \in Threads |-> Held(t)]
    OBVIOUS
  <2>4. /\ heap \ Listed(q, G) = UNION {H[t] : t \in Threads}
        /\ \A t, u \in Threads : t # u => H[t] \cap H[u] = {}
    BY <2>1, <2>2, <2>3 DEF AllHeld
  <2>5. /\ InQueue = NodesOf(q)
        /\ \A t \in Threads : ChainNodes(freeHead[t]) = NodesOf(G[t])
    <3>1. num_threads = 0 => q = <<>> /\ NodesOf(q) = {}
      BY <2>1, PathNodes, PathOfNone DEF QueuePath
    <3>2. /\ num_threads # 0 => ChainNodes(head) = NodesOf(q)
          /\ \A t \in Threads : ChainNodes(freeHead[t]) = NodesOf(G[t])
      BY <2>1, PathsAreChains
    <3> QED BY <3>1, <3>2 DEF InQueue
  <2>6. ASSUME NEW x \in Nodes
        PROVE  (IF x \in InQueue THEN 1 ELSE 0)
                 + Cardinality({t \in Threads : x \in ChainNodes(freeHead[t])})
                 + Cardinality({t \in Threads : x \in Held(t)})
               = IF x \in heap THEN 1 ELSE 0
    <3>1. (IF x \in NodesOf(q) THEN 1 ELSE 0)
             + Cardinality({t \in Threads : x \in NodesOf(G[t])})
             + Cardinality({t \in Threads : x \in H[t]})
           = IF x \in heap THEN 1 ELSE 0
      BY <2>1, <2>4, OneOwner
    <3>2. {t \in Threads : x \in H[t]} = {t \in Threads : x \in Held(t)}
      BY <2>3
    <3>3. {t \in Threads : x \in NodesOf(G[t])}
            = {t \in Threads : x \in ChainNodes(freeHead[t])}
      BY <2>5
    <3> QED BY <2>5, <3>1, <3>2, <3>3
  <2>7. \A t \in Threads : freeSize[t] = Len(Chain(freeHead[t]))
    BY <2>1 DEF Paths, FreePaths
  <2> QED BY <2>6, <2>7 DEF NodesAccounted
<1> QED BY <1>1, Invariance, ShapeInvariance, PTL

(* Every call takes effect at one instant between its beginning and its     *)
(* return, in first-in-first-out order.                                     *)
THEOREM Linearizability == Spec => Linearizable
<1>1. Init => Abs!AbsInit
  BY InitSim
<1>2. IInv /\ SInv /\ [Next]_vars => [Abs!AbsNext]_(Abs!avars)
  BY StepSim
<1>3. Spec => Abs!AbsInit /\ [][Abs!AbsNext]_(Abs!avars)
  BY <1>1, <1>2, Invariance, ShapeInvariance, PTL DEF Spec
<1> QED BY <1>3 DEF Linearizable, Abs!AbsSpec
=============================================================================
