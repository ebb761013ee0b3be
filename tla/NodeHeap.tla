-------------------------------- MODULE NodeHeap --------------------------------
(***************************************************************************)
(* The memory that every version of the queue works on: linked nodes       *)
(* between a head and a tail, and one free list of recycled nodes per      *)
(* thread.  The operators are the parts of the queue operations that touch *)
(* this memory; the modules of the versions say when each one happens.     *)
(*                                                                         *)
(* heap is the set of nodes obtained from malloc and not yet given back    *)
(* with free.  What a node outside heap contains is never read: its next   *)
(* and data are kept at NULL.  The data 0 of a fresh or dummy node is      *)
(* written NULL as well, so that no value of the program can be mistaken   *)
(* for it.                                                                 *)
(*                                                                         *)
(* An operator named ..._Faulty is what a mistake could make of the        *)
(* definition after it.  Nothing uses one.                                 *)
(***************************************************************************)
EXTENDS Integers, FiniteSets, Sequences

CONSTANTS
  NumThreads,  \* the argument of init_queue
  Nodes,       \* the addresses malloc can return: the bound on memory
  Values,      \* the values that are enqueued
  NULL

ASSUME HeapAssumption ==
  /\ NumThreads \in Nat \ {0}
  /\ NULL \notin Nodes \cup Values

ASSUME FiniteMemory == IsFiniteSet(Nodes)

Threads == 0 .. NumThreads - 1

VARIABLES
  num_threads,  \* the field of queue_t; 0 once the queue is destroyed
  head, tail,   \* head points to the dummy node before the oldest value
  next, data,   \* the fields of each node
  heap,         \* the nodes allocated now
  freeHead,     \* freeHead[t], freeSize[t]: the fields of free_lists[t]
  freeSize

heapVars == <<num_threads, head, tail, next, data, heap, freeHead, freeSize>>

NodeOrNULL  == Nodes \cup {NULL}
ValueOrNULL == Values \cup {NULL}

HeapTypeOK ==
  /\ num_threads \in {0, NumThreads}
  /\ head \in NodeOrNULL /\ tail \in NodeOrNULL
  /\ next \in [Nodes -> NodeOrNULL]
  /\ data \in [Nodes -> ValueOrNULL]
  /\ heap \in SUBSET Nodes
  /\ freeHead \in [Threads -> NodeOrNULL]
  /\ freeSize \in [Threads -> Int]

(* Iterating f from x: Walk(f, x)[k] is what k applications lead to. *)
Walk(f, x) ==
  LET walk[k \in Nat] == IF k = 0 THEN x ELSE f[walk[k - 1]]
  IN  walk

(* The pointers nx as a function that stays at NULL. *)
Succ(nx) == [x \in NodeOrNULL |-> IF x = NULL THEN NULL ELSE nx[x]]

(* The nodes met when following the pointers nx from x, in order.  A chain  *)
(* that does not end is cut off after as many steps as there are nodes.     *)
ChainOf(nx, x) ==
  LET walk   == Walk(Succ(nx), x)
      length == Cardinality({k \in 1 .. Cardinality(Nodes) : walk[k - 1] # NULL})
  IN  [i \in 1 .. length |-> walk[i - 1]]

Chain(x) == ChainOf(next, x)

ChainNodes(x) == {Chain(x)[i] : i \in DOMAIN Chain(x)}

(* The values in the queue, oldest first: the data behind the dummy node. *)
Contents ==
  LET c == Chain(head) IN [i \in 1 .. Len(c) - 1 |-> data[c[i + 1]]]

(* The queue consists of one dummy node and every free list is empty. *)
HeapInit ==
  \E dummy \in Nodes :
    /\ num_threads = NumThreads
    /\ head = dummy /\ tail = dummy
    /\ next = [x \in Nodes |-> NULL]
    /\ data = [x \in Nodes |-> NULL]
    /\ heap = {dummy}
    /\ freeHead = [t \in Threads |-> NULL]
    /\ freeSize = [t \in Threads |-> 0]

(* malloc may return any address that is not in use. *)
MakeNode(n, v) ==
  /\ n \in Nodes \ heap
  /\ heap' = heap \cup {n}
  /\ data' = [data EXCEPT ![n] = v]
  /\ next' = [next EXCEPT ![n] = NULL]

(* A queue set up again in memory that an earlier queue may have used. *)
InitHeap ==
  /\ num_threads = 0
  /\ num_threads' = NumThreads
  /\ \E dummy \in Nodes :
       MakeNode(dummy, NULL) /\ head' = dummy /\ tail' = dummy
  /\ freeHead' = [t \in Threads |-> NULL]
  /\ freeSize' = [t \in Threads |-> 0]

Upcycle_Faulty(t, n) ==     \* the node that is taken stays on the free list
  /\ IF freeHead[t] = NULL THEN MakeNode(n, NULL)
     ELSE n = freeHead[t] /\ UNCHANGED <<next, data, heap>>
  /\ UNCHANGED <<freeHead, freeSize>>

(* Thread t takes n from its free list, or from malloc if that is empty. *)
Upcycle(t, n) ==
  \/ /\ freeHead[t] # NULL
     /\ n = freeHead[t]
     /\ freeHead' = [freeHead EXCEPT ![t] = next[n]]
     /\ freeSize' = [freeSize EXCEPT ![t] = @ - 1]
     /\ UNCHANGED <<next, data, heap>>
  \/ /\ freeHead[t] = NULL
     /\ MakeNode(n, NULL)
     /\ UNCHANGED <<freeHead, freeSize>>

(* Thread t pushes node x on its free list. *)
Recycle(t, x) ==
  /\ next' = [next EXCEPT ![x] = freeHead[t]]
  /\ freeHead' = [freeHead EXCEPT ![t] = x]
  /\ freeSize' = [freeSize EXCEPT ![t] = @ + 1]
  /\ UNCHANGED <<data, heap>>

(* free is called for the nodes of the queue, of the free lists and those   *)
(* in others.                                                               *)
FreeAll(others) ==
  LET freed == ChainNodes(head) \cup others
                 \cup UNION {ChainNodes(freeHead[t]) : t \in Threads}
  IN  /\ num_threads # 0
      /\ num_threads' = 0
      /\ heap' = heap \ freed
      /\ next' = [x \in Nodes |-> IF x \in freed THEN NULL ELSE next[x]]
      /\ data' = [x \in Nodes |-> IF x \in freed THEN NULL ELSE data[x]]
      /\ freeHead' = [t \in Threads |-> NULL]
      /\ freeSize' = [t \in Threads |-> 0]

(* Some thread that calls enq can still be given a node: its free list has  *)
(* one, or malloc has one for it besides those it owes to the threads in    *)
(* pending.  This is where the bound Nodes on memory acts.                  *)
MemoryFor(t, pending) ==
  \/ freeHead[t] # NULL
  \/ Cardinality(Nodes \ heap) > Cardinality(pending)
=============================================================================
