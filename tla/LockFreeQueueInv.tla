----------------------------- MODULE LockFreeQueueInv -----------------------------
(***************************************************************************)
(* The inductive invariant of LockFreeQueue.  It speaks about four things  *)
(* the program does not store:                                             *)
(*   L         the nodes that have been linked into the queue and have not *)
(*             been recycled since                                         *)
(*   F[t]      the nodes on the free list of t                             *)
(*   rank[x]   for x in L, the number of the link that put x in the queue; *)
(*             for x in F[t], how deep the free list is from x on          *)
(*   start[t]  the rank of head when the operation of t began              *)
(* IInv says that such L, F, rank and start exist.  All of them could be   *)
(* computed from the past; as bound variables they leave the program as it *)
(* is.                                                                     *)
(*                                                                         *)
(* The idea: a node that a thread may still follow has a rank of at least  *)
(* the thread's start.  A node x that t reclaims was passed by head before *)
(* t began to wait, so an operation that began later has a start greater   *)
(* than rank[x]; and the operations that began earlier are over.           *)
(***************************************************************************)
EXTENDS LockFreeQueue, NodeLists

Alive == num_threads # 0

HasLast  == {"e_next", "e_check", "e_link", "e_swing", "e_help",
             "d_next", "d_check", "d_help", "d_val", "d_cas"}
HasFirst == {"d_tail", "d_next", "d_check", "d_help", "d_val", "d_cas", "retire"}
HasNxt   == {"e_help", "d_help", "d_val", "d_cas"}
Waiting  == {"scan", "spin", "reclaim"}

(* The counter of t is odd exactly during an operation. *)
ParityOf(t) == IsOdd(ctr[t]) <=> InOp(t)

(* Where in the code each local variable of t holds a node. *)
ScopesOf(t) ==
  /\ last[t] # NULL <=> pc[t] \in HasLast
  /\ first[t] # NULL <=> pc[t] \in HasFirst
  /\ pc[t] \in HasNxt => nxt[t] # NULL
  /\ pc[t] \notin HasNxt \cup {"e_check", "d_check"} => nxt[t] = NULL
  /\ pc[t] \in EnqLoop \cup {"fill", "e_swing"} => node[t] # NULL
  /\ pc[t] = "idle" => node[t] = NULL
  /\ pc[t] \notin {"scan", "spin"} => scan[t] = 0
  /\ pc[t] = "spin" => scan[t] < NumThreads /\ IsOdd(seen[t])

(* At most one node waits to be reclaimed, and only at the end of a deq. *)
RetiredOf(t) ==
  /\ retired[t] = <<>> \/ \E x \in Nodes : retired[t] = <<x>>
  /\ pc[t] \in Waiting => retired[t] # <<>>
  /\ retired[t] # <<>> => pc[t] \in Waiting \cup {"op_end"}

Control ==
  /\ TypeOK
  /\ \A t \in Threads : ParityOf(t) /\ ScopesOf(t) /\ RetiredOf(t)

(* t has unlinked x and not recycled it yet. *)
Trash(t, x) == (pc[t] = "retire" /\ x = first[t]) \/ retired[t] = <<x>>

GhostTypeOK(L, F, rank, start) ==
  /\ L \in SUBSET Nodes
  /\ F \in [Threads -> SUBSET Nodes]
  /\ rank \in [Nodes -> Int]
  /\ start \in [Threads -> Int]

(* A destroyed queue has no nodes and nobody uses it. *)
Destroyed(L, F) ==
  num_threads = 0 =>
    /\ L = {}
    /\ \A t \in Threads : F[t] = {} /\ pc[t] = "idle"

(* The queue, the free lists and the nodes taken for enq are disjoint. *)
Disjoint(L, F) ==
  /\ L \subseteq heap
  /\ \A t \in Threads : F[t] \subseteq heap /\ F[t] \cap L = {}
  /\ \A t, u \in Threads : t # u => F[t] \cap F[u] = {}

Takes(t) == pc[t] \in EnqLoop \cup {"fill"}

TakenApart(L, F) ==
  \A t \in Threads : Takes(t) =>
    /\ node[t] \in heap \ L
    /\ \A u \in Threads : node[t] \notin F[u]
    /\ \A u \in Threads : Takes(u) /\ u # t => node[u] # node[t]

(* Each free list ends, after as many nodes as its size says. *)
FreeLists(F, rank) ==
  \A t \in Threads :
    /\ freeHead[t] = NULL => F[t] = {} /\ freeSize[t] = 0
    /\ freeHead[t] # NULL => freeHead[t] \in F[t] /\ freeSize[t] = rank[freeHead[t]]
    /\ \A x \in F[t] :
         /\ 1 <= rank[x] /\ rank[x] <= freeSize[t]
         /\ next[x] = NULL => rank[x] = 1
         /\ next[x] # NULL => next[x] \in F[t] /\ rank[next[x]] = rank[x] - 1
         /\ \A y \in F[t] : rank[x] = rank[y] => x = y

(* head is not behind tail, and at most one node is behind tail. *)
Ends(L, rank) ==
  Alive =>
    /\ head \in L /\ tail \in L
    /\ rank[head] <= rank[tail]
    /\ \A x \in L : rank[x] <= rank[tail] + 1

(* Node x is in the queue, or was when some operation in progress began. *)
Covered(x, rank, start) ==
  \/ rank[head] <= rank[x]
  \/ \E u \in Threads : InOp(u) /\ start[u] <= rank[x]

(* From a covered node on, next leads through all later nodes. *)
Linked(L, rank, start) ==
  /\ \A x, y \in L : rank[x] = rank[y] => x = y
  /\ \A x \in L : Covered(x, rank, start) =>
       /\ next[x] = NULL => \A y \in L : rank[y] <= rank[x]
       /\ next[x] # NULL => next[x] \in L /\ rank[next[x]] = rank[x] + 1

(* A node taken for enq ends a chain; once linked it follows last. *)
TakenOf(t, L, rank) ==
  /\ pc[t] \in EnqLoop => next[node[t]] = NULL
  /\ pc[t] = "e_swing" => node[t] \in L /\ rank[node[t]] = rank[last[t]] + 1

(* What the local pointers of an operation of t point to. *)
PointersOf(t, L, rank, start) ==
  /\ InOp(t) => start[t] <= rank[head]
  /\ first[t] # NULL =>
       first[t] \in L /\ start[t] <= rank[first[t]] /\ rank[first[t]] <= rank[head]
  /\ last[t] # NULL =>
       last[t] \in L /\ start[t] <= rank[last[t]] /\ rank[last[t]] <= rank[tail]
  /\ nxt[t] # NULL => nxt[t] \in L /\ start[t] <= rank[nxt[t]]
  /\ InOp(t) /\ ~Takes(t) /\ node[t] # NULL =>
       node[t] \in L /\ start[t] <= rank[node[t]]
  /\ first[t] # NULL /\ last[t] # NULL => rank[first[t]] <= rank[last[t]]
  /\ nxt[t] # NULL /\ first[t] # NULL => rank[nxt[t]] = rank[first[t]] + 1
  /\ nxt[t] # NULL /\ first[t] = NULL => rank[nxt[t]] = rank[last[t]] + 1
  /\ pc[t] = "d_check" /\ first[t] # last[t] => nxt[t] # NULL
  /\ pc[t] = "d_help" => first[t] = last[t]
  /\ pc[t] \in {"d_val", "d_cas"} => first[t] # last[t]

(* What is unlinked is behind head and has one thread to reclaim it. *)
Garbage(L, rank) ==
  \A t \in Threads, x \in Nodes : Trash(t, x) =>
    /\ x \in L /\ rank[x] < rank[head]
    /\ \A u \in Threads : Trash(u, x) => u = t

(* t need not wait for u any more. *)
Passed(t, u) ==
  \/ pc[t] = "reclaim"
  \/ pc[t] \in {"scan", "spin"} /\ u < scan[t]
  \/ pc[t] = "spin" /\ u = scan[t] /\ ctr[u] # seen[t]

(* A thread that t need not wait for began after x was unlinked. *)
Grace(rank, start) ==
  \A t, u \in Threads, x \in Nodes :
    retired[t] = <<x>> /\ t # u /\ Passed(t, u) /\ InOp(u) => rank[x] < start[u]

GInv(L, F, rank, start) ==
  /\ GhostTypeOK(L, F, rank, start)
  /\ Destroyed(L, F)
  /\ Disjoint(L, F)
  /\ TakenApart(L, F)
  /\ FreeLists(F, rank)
  /\ Ends(L, rank)
  /\ Linked(L, rank, start)
  /\ \A t \in Threads : TakenOf(t, L, rank) /\ PointersOf(t, L, rank, start)
  /\ Garbage(L, rank)
  /\ Grace(rank, start)

IInv ==
  /\ Control
  /\ \E L \in SUBSET Nodes, F \in [Threads -> SUBSET Nodes],
        rank \in [Nodes -> Int], start \in [Threads -> Int] : GInv(L, F, rank, start)

-----------------------------------------------------------------------------
(* The second layer: the lists in the order of their nodes, every allocated *)
(* node in a list or owned by a call, the values that the calls carry, and  *)
(* who is going to move a tail that is behind.                              *)
Owned(t) == Held(t) \cup Unlinked(t)

AllOwned == UNION {Owned(t) : t \in Threads}

(* The nodes of the queue; the rest of L is behind head. *)
Current(L, rank) == {x \in L : rank[head] <= rank[x]}

ValueOf(t) ==
  /\ pc[t] \in EnqLoop \cup {"upcycle", "fill"} => val[t] \in Values
  /\ pc[t] \in EnqLoop => data[node[t]] = val[t]
  /\ pc[t] \in DeqLoop \cup {"retire"} => node[t] = NULL
  /\ pc[t] \in (DeqLoop \ {"d_cas"}) \cup {"idle"} => val[t] = NULL
  /\ pc[t] = "d_cas" => val[t] = data[nxt[t]]
  /\ pc[t] = "retire" => val[t] \in Values
  /\ retired[t] # <<>> => node[t] = NULL /\ val[t] \in Values

(* Unless a CAS may fail for no reason, an enq that has linked to tail and  *)
(* not swung it yet is there as long as tail is behind.                     *)
TailAwaited ==
  Alive /\ ~SpuriousCAS /\ next[tail] # NULL =>
    \E t \in Threads : pc[t] = "e_swing" /\ last[t] = tail

SInv ==
  /\ Shape(AllOwned)
  /\ \A t \in Threads : ValueOf(t)
  /\ TailAwaited
=============================================================================
