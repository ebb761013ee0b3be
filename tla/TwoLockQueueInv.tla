------------------------------ MODULE TwoLockQueueInv ------------------------------
(***************************************************************************)
(* The inductive invariant of TwoLockQueue.  Control is about the locks    *)
(* and about pointers that are followed.  GInv says where tail may point   *)
(* while enq and deq are at work at the same time; L and F are the sets of *)
(* NodeLists.                                                              *)
(***************************************************************************)
EXTENDS TwoLockQueue, NodeLists

(* The pointers that t follows lead to nodes. *)
PointersOf(t) ==
  /\ pc[t] # "idle" => num_threads # 0
  /\ pc[t] \in {"fill", "link", "swing"} => node[t] \in Nodes
  /\ pc[t] \in {"d_val", "d_head"} => nxt[t] \in Nodes

Pointers ==
  /\ num_threads # 0 => head \in Nodes
  /\ \A t \in Threads : PointersOf(t)

Control == TypeOK /\ LocksHeld /\ Pointers

(* tail is about to be moved to x.  It points to the node before x, which   *)
(* is in the queue or was its dummy node until a moment ago.                *)
TailBefore(x, L) ==
  \/ tail \in L /\ next[tail] = x
  \/ /\ head = x
     /\ \E u \in Threads : pc[u] \in {"d_last", "d_enqlock"} /\ sentinel[u] = tail

LinksOf(t, L) ==
  /\ pc[t] = "link" => next[node[t]] = NULL
  /\ pc[t] = "swing" =>
       node[t] \in L /\ next[node[t]] = NULL /\ TailBefore(node[t], L)
  /\ pc[t] \in {"d_val", "d_head"} => sentinel[t] = head /\ nxt[t] = next[head]

(* Nobody else has the node that a call has taken or unlinked. *)
HeldApart(L, F) ==
  /\ \A t \in Threads : Apart(L, F, Held(t))
  /\ \A t, u \in Threads : t # u => Held(t) \cap Held(u) = {}

TailLast(L) ==
  num_threads # 0 /\ (\A t \in Threads : pc[t] # "swing") =>
    tail \in L /\ next[tail] = NULL

GInv(L, F) ==
  /\ Lists(L, F)
  /\ HeldApart(L, F)
  /\ \A t \in Threads : LinksOf(t, L)
  /\ TailLast(L)

IInv ==
  /\ Control
  /\ \E L \in SUBSET Nodes, F \in [Threads -> SUBSET Nodes] : GInv(L, F)

-----------------------------------------------------------------------------
(* The second layer: the lists in the order of their nodes, every allocated *)
(* node in a list or held, and the values that the calls carry.             *)
AllHeld == UNION {Held(t) : t \in Threads}

ValueOf(t) ==
  /\ pc[t] \in {"e_lock", "upcycle", "fill", "link", "e_refuse"} => val[t] \in Values
  /\ pc[t] = "link" => data[node[t]] = val[t]
  /\ pc[t] = "d_head" => val[t] = data[nxt[t]]
  /\ pc[t] \in {"d_last", "d_enqlock", "d_recheck", "d_enqunlock", "recycle", "d_unlock"}
       => val[t] \in Values

SInv == Shape(AllHeld) /\ \A t \in Threads : ValueOf(t)
=============================================================================
