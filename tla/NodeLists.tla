-------------------------------- MODULE NodeLists --------------------------------
(***************************************************************************)
(* Which node is in which list, said without following the lists: the      *)
(* proofs about the queues with locks take the set L of the nodes of the   *)
(* queue and the sets F[t] of those of the free lists as bound variables   *)
(* of an invariant, and the operators here say what the sets must satisfy. *)
(***************************************************************************)
EXTENDS NodeHeap

(* The nodes of S form one list that starts at h and ends with NULL: each   *)
(* has its successor in S, no two have the same, and nobody points to h.    *)
IsList(S, h, nx) ==
  /\ h \in S \cup {NULL}
  /\ \A x \in S : nx[x] \in S \cup {NULL} /\ nx[x] # h
  /\ \A x, y \in S : nx[x] = nx[y] => x = y

(* The queue and the free lists are lists that have no node in common. *)
Lists(L, F) ==
  /\ num_threads # 0 => head \in L /\ IsList(L, head, next)
  /\ \A t \in Threads : IsList(F[t], freeHead[t], next)
  /\ L \subseteq heap
  /\ \A t \in Threads : F[t] \subseteq heap \ L
  /\ \A t, u \in Threads : t # u => F[t] \cap F[u] = {}

(* The allocated nodes S are in none of the lists. *)
Apart(L, F, S) ==
  /\ S \subseteq heap \ L
  /\ \A t \in Threads : S \cap F[t] = {}

(* q holds, in order, the nodes met when following the pointers nx from h   *)
(* to the end.                                                              *)
IsPath(q, h, nx) ==
  /\ q \in Seq(Nodes)
  /\ h = IF q = <<>> THEN NULL ELSE q[1]
  /\ \A i \in 1 .. Len(q) : nx[q[i]] = IF i = Len(q) THEN NULL ELSE q[i + 1]

NodesOf(q) == {q[i] : i \in 1 .. Len(q)}

(* The data of the nodes behind the first one of q. *)
ValuesOf(q, d) == [i \in 1 .. Len(q) - 1 |-> d[q[i + 1]]]

(* The nodes of the queue q and of the free lists G[t]. *)
Listed(q, G) == NodesOf(q) \cup UNION {NodesOf(G[t]) : t \in Threads}

(* The queue is the path q and the free lists are the paths G[t], which     *)
(* have no node in common; a size field counts its list.                    *)
Paths(q, G) ==
  /\ IsPath(q, IF num_threads = 0 THEN NULL ELSE head, next)
  /\ num_threads # 0 => q # <<>>
  /\ num_threads = 0 => \A t \in Threads : G[t] = <<>>
  /\ G \in [Threads -> Seq(Nodes)]
  /\ \A t \in Threads : IsPath(G[t], freeHead[t], next) /\ freeSize[t] = Len(G[t])
  /\ Listed(q, G) \subseteq heap
  /\ \A t \in Threads : NodesOf(q) \cap NodesOf(G[t]) = {}
  /\ \A t, u \in Threads : t # u => NodesOf(G[t]) \cap NodesOf(G[u]) = {}

(* The only paths there can be: what the definition of Chain finds.         *)
QueuePath == IF num_threads = 0 THEN <<>> ELSE Chain(head)
FreePaths == [t \in Threads |-> Chain(freeHead[t])]

(* The allocated nodes that are in no list. *)
Loose == heap \ Listed(QueuePath, FreePaths)

(* The queue and the free lists are lists that end, all the allocated nodes *)
(* but those in held are in them, and the nodes behind the dummy node hold  *)
(* values.                                                                  *)
Shape(held) ==
  /\ Paths(QueuePath, FreePaths)
  /\ Loose = held
  /\ ValuesOf(QueuePath, data) \in Seq(Values)

(* The sets of the free lists after thread t has taken x from its own, and  *)
(* after it has put x on it.                                                *)
Without(F, t, x) == [F EXCEPT ![t] = @ \ {x}]
With(F, t, x) == [F EXCEPT ![t] = @ \cup {x}]

(* Their paths after the same. *)
Popped(G, t) == [G EXCEPT ![t] = IF freeHead[t] = NULL THEN @ ELSE Tail(@)]
Pushed(G, t, x) == [G EXCEPT ![t] = <<x>> \o @]
=============================================================================
