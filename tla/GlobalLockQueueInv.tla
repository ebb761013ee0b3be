---------------------------- MODULE GlobalLockQueueInv ----------------------------
(***************************************************************************)
(* The inductive invariant of GlobalLockQueue.  RaceFree and TypeOK are    *)
(* not inductive: that deq may recycle a node without the lock depends on  *)
(* the node being in no list, which the sets L and F of NodeLists keep.    *)
(***************************************************************************)
EXTENDS GlobalLockQueue, NodeLists

(* What the locals of t point to while it is where it is. *)
PointersOf(t, L) ==
  /\ pc[t] # "idle" => num_threads # 0
  /\ pc[t] \in {"fill", "link", "swing"} => node[t] \in Nodes
  /\ pc[t] = "link" => next[node[t]] = NULL
  /\ pc[t] = "swing" => node[t] \in L /\ next[node[t]] = NULL
  /\ pc[t] = "d_val" => next[head] # NULL
  /\ pc[t] = "d_head" => sentinel[t] = head /\ next[head] # NULL
  /\ pc[t] = "d_tail" => next[sentinel[t]] = head
  /\ pc[t] \in {"d_tail", "d_unlock", "recycle"} => sentinel[t] \in Nodes

(* Nobody else has the node that a call has taken or unlinked. *)
HeldApart(L, F) ==
  /\ \A t \in Threads : Apart(L, F, Held(t))
  /\ \A t, u \in Threads : t # u => Held(t) \cap Held(u) = {}

TailLast(L) ==
  num_threads # 0 =>
    /\ tail \in L
    /\ (\A t \in Threads : pc[t] # "swing") => next[tail] = NULL

GInv(L, F) ==
  /\ Lists(L, F)
  /\ HeldApart(L, F)
  /\ \A t \in Threads : PointersOf(t, L)
  /\ TailLast(L)

IInv ==
  /\ TypeOK
  /\ LockHeld
  /\ \E L \in SUBSET Nodes, F \in [Threads -> SUBSET Nodes] : GInv(L, F)

-----------------------------------------------------------------------------
(* The second layer: the lists in the order of their nodes, every allocated *)
(* node in a list or held, and the values that the calls carry.             *)
AllHeld == UNION {Held(t) : t \in Threads}

ValueOf(t) ==
  /\ pc[t] \in {"e_lock", "upcycle", "fill", "link", "e_refuse"} => val[t] \in Values
  /\ pc[t] = "link" => data[node[t]] = val[t]
  /\ pc[t] = "d_head" => val[t] = data[next[head]]
  /\ pc[t] \in {"d_tail", "d_unlock", "recycle"} => val[t] \in Values

SInv == Shape(AllHeld) /\ \A t \in Threads : ValueOf(t)
=============================================================================
