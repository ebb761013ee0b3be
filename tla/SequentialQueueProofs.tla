--------------------------- MODULE SequentialQueueProofs ---------------------------
(***************************************************************************)
(* What is proved about SequentialQueue for every number of free lists and *)
(* every set of nodes and values: no sequence of calls loses a node, and   *)
(* every call does what it does to a sequence of values.                   *)
(***************************************************************************)
EXTENDS SequentialQueueInv, NodeListsProofs

(* The abstract queue of IsFifo. *)
AbsQueue == IF num_threads = 0 THEN <<>> ELSE Contents

(* A step is simulated if the invariant holds after it and the abstract     *)
(* queue makes a step of its own or none.                                   *)
Simulated == IInv' /\ (Fifo!FifoNext \/ UNCHANGED <<AbsQueue, result>>)

(* The abstract actions in these terms. *)
LEMMA AbsActions ==
  /\ \A v \in Values :
       AbsQueue' = Append(AbsQueue, v) /\ result' = <<1>> => Fifo!FifoNext
  /\ AbsQueue' = AbsQueue /\ result' = <<0>> => Fifo!FifoNext
  /\ AbsQueue # <<>> /\ AbsQueue' = Tail(AbsQueue) /\ result' = <<1, Head(AbsQueue)>>
       => Fifo!FifoNext
  /\ AbsQueue' = <<>> /\ result' = <<>> => Fifo!FifoNext
  BY Zenon
  DEF AbsQueue, Fifo!FifoNext, Fifo!EnqOk, Fifo!EnqRefused, Fifo!DeqOk, Fifo!Discard

(* The paths of a state of the invariant. *)
LEMMA Unfold ==
  ASSUME IInv
  PROVE  \E q \in Seq(Nodes), G \in [Threads -> Seq(Nodes)] :
           /\ Paths(q, G)
           /\ heap \ Listed(q, G) = {}
           /\ ValuesOf(q, data) \in Seq(Values)
           /\ AbsQueue = ValuesOf(q, data)
           /\ num_threads # 0 => tail = q[Len(q)]
<1>1. Shape({})
  BY DEF IInv
<1>2. PICK q \in Seq(Nodes), G \in [Threads -> Seq(Nodes)] :
        /\ Paths(q, G)
        /\ heap \ Listed(q, G) = {}
        /\ ValuesOf(q, data) \in Seq(Values)
        /\ AbsQueue = ValuesOf(q, data)
  BY <1>1, ShapeDef DEF AbsQueue
<1>3. q = QueuePath
  BY <1>2, PathsAreChains
<1> QED BY <1>2, <1>3 DEF IInv, TailLast

(* A step after which the lists are the paths q and G. *)
LEMMA Fold ==
  ASSUME TypeOK', NEW q, NEW G, Paths(q, G)', heap' \ Listed(q, G) = {},
         ValuesOf(q, data') \in Seq(Values), num_threads' # 0 => tail' = q[Len(q)]
  PROVE  IInv' /\ AbsQueue' = ValuesOf(q, data')
<1>1. PICK none : none = {}
  OBVIOUS
<1>2. Shape(none)' /\ AbsQueue' = ValuesOf(q, data')
  BY <1>1, ShapeNext DEF AbsQueue
<1>3. Shape({})'
  BY <1>1, <1>2 DEF Shape
<1>4. q = QueuePath'
  BY PathsAreChainsNext
<1> QED BY <1>2, <1>3, <1>4 DEF IInv, TailLast

-----------------------------------------------------------------------------
(* The last node of a queue is a node of it. *)
LEMMA PathLastNode ==
  ASSUME NEW q, NEW G, Paths(q, G), num_threads # 0
  PROVE  q[Len(q)] \in NodesOf(q) /\ q[Len(q)] \in Nodes
<1>1. q # <<>> /\ q \in Seq(Nodes)
  BY DEF Paths, IsPath
<1>2. Len(q) \in 1 .. Len(q)
  BY <1>1, EmptySeq
<1> QED BY <1>1, <1>2, ElementOfSeq DEF NodesOf

(* The lists after upcycle_node has given n to enq, which has linked it     *)
(* behind the last node l.                                                  *)
LEMMA EnqPaths ==
  ASSUME HeapTypeOK, NEW t \in Threads, NEW n \in Nodes, NEW q, NEW G, Paths(q, G),
         num_threads # 0, UpcycleNode(t, n), NEW l, l = q[Len(q)],
         next'[l] = n, n # l => next'[n] = NULL,
         \A y \in Nodes \ {n, l} : next'[y] = next[y],
         UNCHANGED <<num_threads, head>>, NEW G2, G2 = Popped(G, t)
  PROVE  /\ Paths(Append(q, n), G2)'
         /\ heap' \ Listed(Append(q, n), G2) = heap \ Listed(q, G)
         /\ n \notin NodesOf(q)
<1>1. q # <<>> /\ IsPath(q, head, next) /\ q \in Seq(Nodes)
  BY DEF Paths, IsPath
<1>2. l \in NodesOf(q) /\ l \in Nodes
  BY PathLastNode
<1>3. /\ n \notin NodesOf(q)
      /\ G2 \in [Threads -> Seq(Nodes)]
      /\ \A u \in Threads : IsPath(G2[u], freeHead'[u], next) /\ freeSize'[u] = Len(G2[u])
      /\ \A u \in Threads : NodesOf(G2[u]) = NodesOf(G[u]) \ {n}
      /\ heap' = heap \cup {n} /\ (n \in heap => n \in NodesOf(G[t]))
  <2>1. CASE freeHead[t] = NULL
    <3>1. G2 = G
      BY <2>1 DEF Paths, Popped
    <3>2. n \notin heap /\ heap' = heap \cup {n} /\ UNCHANGED <<freeHead, freeSize>>
      BY <2>1 DEF UpcycleNode
    <3> QED BY <3>1, <3>2 DEF Paths, Listed
  <2>2. CASE freeHead[t] # NULL
    <3>1. /\ n = freeHead[t] /\ heap' = heap
          /\ freeHead' = [freeHead EXCEPT ![t] = next[n]]
          /\ freeSize' = [freeSize EXCEPT ![t] = @ - 1]
      BY <2>2 DEF UpcycleNode
    <3>2. G2 = [G EXCEPT ![t] = Tail(G[t])]
      BY <2>2 DEF Popped
    <3>3. G2[t] = Tail(G[t]) /\ \A u \in Threads : u # t => G2[u] = G[u]
      BY <3>2 DEF Paths
    <3>4. IsPath(G[t], freeHead[t], next)
      BY DEF Paths
    <3>5. /\ IsPath(Tail(G[t]), next[freeHead[t]], next)
          /\ NodesOf(Tail(G[t])) = NodesOf(G[t]) \ {freeHead[t]}
          /\ Len(Tail(G[t])) = Len(G[t]) - 1
      BY <2>2, <3>4, PathPop
    <3>6. n \in NodesOf(G[t])
      BY <2>2, <3>1, <3>4, PathNodes
    <3>7. /\ freeHead'[t] = next[n] /\ freeSize'[t] = freeSize[t] - 1
          /\ \A u \in Threads : u # t => /\ freeHead'[u] = freeHead[u]
                                         /\ freeSize'[u] = freeSize[u]
      BY <3>1 DEF HeapTypeOK
    <3>8. n \notin NodesOf(q) /\ \A u \in Threads : u # t => n \notin NodesOf(G[u])
      BY <3>6 DEF Paths
    <3>9. n \in heap
      BY <3>6 DEF Paths, Listed
    <3>10. \A u \in Threads : /\ IsPath(G2[u], freeHead'[u], next)
                              /\ freeSize'[u] = Len(G2[u])
                              /\ NodesOf(G2[u]) = NodesOf(G[u]) \ {n}
      <4> TAKE u \in Threads
      <4>1. IsPath(G[u], freeHead[u], next) /\ freeSize[u] = Len(G[u])
        BY DEF Paths
      <4>2. CASE u = t
        BY <3>1, <3>3, <3>5, <3>7, <4>1, <4>2
      <4>3. CASE u # t
        BY <3>3, <3>7, <3>8, <4>1, <4>3
      <4> QED BY <4>2, <4>3
    <3>11. G2 \in [Threads -> Seq(Nodes)]
      <4>1. Tail(G[t]) \in Seq(Nodes)
        BY <3>5 DEF IsPath
      <4> QED BY <3>2, <4>1 DEF Paths
    <3> QED BY <3>1, <3>6, <3>8, <3>9, <3>10, <3>11
  <2> QED BY <2>1, <2>2
<1>4. n # l /\ next'[l] = n /\ next'[n] = NULL
  BY <1>2, <1>3
<1>5. \A y \in Nodes \ {n, l} : next'[y] = next[y]
  OBVIOUS
<1>6. IsPath(Append(q, n), head, next') /\ NodesOf(Append(q, n)) = NodesOf(q) \cup {n}
  <2>1. \A y \in NodesOf(q) \ {q[Len(q)]} : next'[y] = next[y]
    BY <1>1, <1>3, <1>5, PathNodes
  <2>2. next'[q[Len(q)]] = n
    BY <1>4
  <2>3. n \in Nodes \ NodesOf(q) /\ next'[n] = NULL
    BY <1>3, <1>4
  <2> QED BY ONLY <1>1, <2>1, <2>2, <2>3, PathAppend
<1>7. \A u \in Threads : IsPath(G2[u], freeHead'[u], next')
  <2> TAKE u \in Threads
  <2>1. l \notin NodesOf(G[u]) /\ NodesOf(G[u]) \subseteq Nodes
    BY <1>2 DEF Paths, Listed, HeapTypeOK
  <2>2. \A y \in NodesOf(G2[u]) : next'[y] = next[y]
    BY <1>3, <1>5, <2>1
  <2>3. IsPath(G2[u], freeHead'[u], next)
    BY <1>3
  <2> QED BY <2>2, <2>3, PathFrame
<1>8. Listed(Append(q, n), G2) = Listed(q, G) \cup {n}
  BY <1>3, <1>6 DEF Listed
<1>9. Listed(q, G) \subseteq heap /\ (n \in heap => n \in Listed(q, G))
  BY <1>3 DEF Paths, Listed
<1>10. Append(q, n) # <<>>
  BY <1>1, AppendProperties
<1>11. /\ \A u \in Threads : NodesOf(Append(q, n)) \cap NodesOf(G2[u]) = {}
       /\ \A u, v \in Threads : u # v => NodesOf(G2[u]) \cap NodesOf(G2[v]) = {}
  BY <1>3, <1>6 DEF Paths
<1>12. Paths(Append(q, n), G2)'
  BY <1>3, <1>6, <1>7, <1>8, <1>9, <1>10, <1>11 DEF Paths
<1> QED BY <1>3, <1>8, <1>9, <1>12

(* The lists after deq has moved head on and put the old dummy node x on a  *)
(* free list.                                                               *)
LEMMA DeqPaths ==
  ASSUME HeapTypeOK, NEW t \in Threads, NEW q, NEW G, Paths(q, G),
         num_threads # 0, NEW x, x = head, next[x] # NULL, head' = next[x],
         Recycle(t, x), UNCHANGED num_threads, NEW G2, G2 = Pushed(G, t, x)
  PROVE  /\ Paths(Tail(q), G2)'
         /\ heap' \ Listed(Tail(q), G2) = heap \ Listed(q, G)
         /\ q \in Seq(Nodes) /\ Len(q) > 1 /\ next[x] = q[2]
<1>1. q # <<>> /\ IsPath(q, x, next) /\ q \in Seq(Nodes)
  BY DEF Paths, IsPath
<1>2. x \in NodesOf(q) /\ x = q[1] /\ x # NULL /\ x \in Nodes
  BY <1>1, PathNodes
<1>3. Len(q) > 1 /\ next[x] = q[2]
  <2>1. PICK n \in Nat \ {0} : n = Len(q)
    BY <1>1, EmptySeq
  <2>2. next[q[1]] = IF 1 = n THEN NULL ELSE q[1 + 1]
    BY <1>1, <2>1 DEF IsPath
  <2> QED BY <1>2, <2>1, <2>2
<1>4. /\ IsPath(Tail(q), head', next)
      /\ NodesOf(Tail(q)) = NodesOf(q) \ {x}
  BY <1>1, <1>2, PathPop
<1>5. Tail(q) # <<>>
  BY <1>4, PathNodes
<1>6. /\ UNCHANGED <<data, heap>>
      /\ next'[x] = freeHead[t] /\ \A y \in Nodes : y # x => next'[y] = next[y]
      /\ freeHead'[t] = x /\ \A u \in Threads : u # t => freeHead'[u] = freeHead[u]
      /\ freeSize'[t] = freeSize[t] + 1
      /\ \A u \in Threads : u # t => freeSize'[u] = freeSize[u]
  BY <1>2 DEF Recycle, HeapTypeOK
<1>7. G2[t] = <<x>> \o G[t] /\ \A u \in Threads : u # t => G2[u] = G[u]
  BY DEF Paths, Pushed
<1>8. /\ \A u \in Threads : x \notin NodesOf(G[u]) /\ NodesOf(G[u]) \subseteq Nodes
      /\ NodesOf(q) \subseteq Nodes
  BY <1>2 DEF Paths, Listed, HeapTypeOK
<1>9. /\ IsPath(G2[t], freeHead'[t], next')
      /\ NodesOf(G2[t]) = NodesOf(G[t]) \cup {x}
      /\ Len(G2[t]) = Len(G[t]) + 1
  <2>1. IsPath(G[t], freeHead[t], next)
    BY DEF Paths
  <2>2. \A y \in NodesOf(G[t]) : next'[y] = next[y]
    BY <1>6, <1>8
  <2>3. x \in Nodes \ NodesOf(G[t])
    BY <1>2, <1>8
  <2>4. next'[x] = freeHead[t] /\ freeHead'[t] = x /\ G2[t] = <<x>> \o G[t]
    BY <1>6, <1>7
  <2>5. /\ IsPath(<<x>> \o G[t], x, next')
        /\ NodesOf(<<x>> \o G[t]) = NodesOf(G[t]) \cup {x}
        /\ Len(<<x>> \o G[t]) = Len(G[t]) + 1
    BY <2>1, <2>2, <2>3, <2>4, PathPush
  <2> QED BY <2>4, <2>5
<1>10. IsPath(Tail(q), head', next')
  <2>1. \A y \in NodesOf(Tail(q)) : next'[y] = next[y]
    BY <1>4, <1>6, <1>8
  <2> QED BY <1>4, <2>1, PathFrame
<1>11. \A u \in Threads : IsPath(G2[u], freeHead'[u], next') /\ freeSize'[u] = Len(G2[u])
  <2> TAKE u \in Threads
  <2>1. CASE u = t
    BY <1>6, <1>9, <2>1 DEF Paths
  <2>2. CASE u # t
    <3>1. \A y \in NodesOf(G[u]) : next'[y] = next[y]
      BY <1>6, <1>8
    <3>2. IsPath(G[u], freeHead[u], next) /\ freeSize[u] = Len(G[u])
      BY DEF Paths
    <3>3. IsPath(G[u], freeHead[u], next')
      BY <3>1, <3>2, PathFrame
    <3>4. freeHead'[u] = freeHead[u] /\ freeSize'[u] = freeSize[u] /\ G2[u] = G[u]
      BY <1>6, <1>7, <2>2
    <3> QED BY <3>2, <3>3, <3>4
  <2> QED BY <2>1, <2>2
<1>12. G2 \in [Threads -> Seq(Nodes)]
  <2>1. G2[t] \in Seq(Nodes)
    BY <1>9 DEF IsPath
  <2>2. G \in [Threads -> Seq(Nodes)]
    BY DEF Paths
  <2> QED BY <1>7, <2>1, <2>2 DEF Pushed
<1>13. \A u \in Threads : /\ u # t => NodesOf(G2[u]) = NodesOf(G[u])
                          /\ u = t => NodesOf(G2[u]) = NodesOf(G[u]) \cup {x}
  BY <1>7, <1>9
<1>14. Listed(Tail(q), G2) = Listed(q, G)
  <2>1. Listed(Tail(q), G2) \subseteq Listed(q, G)
    BY <1>2, <1>4, <1>13 DEF Listed
  <2>2. \A u \in Threads : NodesOf(G[u]) \subseteq NodesOf(G2[u])
    BY <1>13
  <2>3. NodesOf(q) \subseteq NodesOf(Tail(q)) \cup NodesOf(G2[t])
    BY <1>4, <1>9
  <2> QED BY <2>1, <2>2, <2>3 DEF Listed
<1>15. \A u \in Threads : NodesOf(Tail(q)) \cap NodesOf(G2[u]) = {}
  BY <1>4, <1>13 DEF Paths
<1>16. \A u, v \in Threads : u # v => NodesOf(G2[u]) \cap NodesOf(G2[v]) = {}
  <2> TAKE u, v \in Threads
  <2> HAVE u # v
  <2>1. NodesOf(G[u]) \cap NodesOf(G[v]) = {} /\ x \notin NodesOf(G[u]) /\ x \notin NodesOf(G[v])
    BY <1>8 DEF Paths
  <2> QED BY <1>13, <2>1
<1>17. Paths(Tail(q), G2)'
  BY <1>5, <1>6, <1>10, <1>11, <1>12, <1>14, <1>15, <1>16 DEF Paths
<1> QED BY <1>1, <1>3, <1>6, <1>14, <1>17

-----------------------------------------------------------------------------
(* enq appends its value. *)
LEMMA EnqSim ==
  ASSUME IInv, NEW t \in Threads, NEW v \in Values, Enq(t, v)
  PROVE  Simulated
<1>1. PICK q \in Seq(Nodes), G \in [Threads -> Seq(Nodes)] :
        /\ Paths(q, G) /\ heap \ Listed(q, G) = {}
        /\ ValuesOf(q, data) \in Seq(Values) /\ AbsQueue = ValuesOf(q, data)
        /\ num_threads # 0 => tail = q[Len(q)]
  BY Unfold
<1>2. PICK n \in Nodes :
        /\ UpcycleNode(t, n) /\ data' = [data EXCEPT ![n] = v]
        /\ next' = [next EXCEPT ![n] = NULL, ![tail] = n] /\ tail' = n
        /\ num_threads # 0 /\ result' = <<1>> /\ UNCHANGED <<num_threads, head>>
  BY DEF Enq
<1>3. PICK l : l = tail
  OBVIOUS
<1>4. PICK G2 : G2 = Popped(G, t)
  OBVIOUS
<1>5. PICK q2 : q2 = Append(q, n)
  OBVIOUS
<1>6. HeapTypeOK /\ TypeOK
  BY DEF IInv, TypeOK
<1>7. Paths(q2, G2)' /\ heap' \ Listed(q2, G2) = {} /\ n \notin NodesOf(q)
  <2>1. l = q[Len(q)] /\ l \in Nodes
    BY <1>1, <1>2, <1>3, PathLastNode
  <2>2. /\ next'[l] = n /\ (n # l => next'[n] = NULL)
        /\ \A y \in Nodes \ {n, l} : next'[y] = next[y]
    BY <1>2, <1>3, <1>6, <2>1 DEF HeapTypeOK
  <2>3. /\ Paths(Append(q, n), G2)'
        /\ heap' \ Listed(Append(q, n), G2) = heap \ Listed(q, G)
        /\ n \notin NodesOf(q)
    <3>1. UpcycleNode(t, n) /\ num_threads # 0 /\ UNCHANGED <<num_threads, head>>
      BY <1>2
    <3> QED BY <1>1, <1>4, <1>6, <2>1, <2>2, <3>1, EnqPaths
  <2> QED BY <1>1, <1>5, <2>3
<1>8. /\ ValuesOf(q2, data') = Append(AbsQueue, v)
      /\ ValuesOf(q2, data') \in Seq(Values)
  <2>1. \A y \in NodesOf(q) : data'[y] = data[y]
    <3>1. NodesOf(q) \subseteq Nodes
      BY <1>1, <1>6 DEF Paths, Listed, HeapTypeOK
    <3> QED BY <1>2, <1>6, <1>7, <3>1 DEF HeapTypeOK
  <2>2. ValuesOf(q, data') = AbsQueue /\ AbsQueue \in Seq(Values)
    BY <1>1, <2>1, ValuesFrame
  <2>3. data'[n] = v /\ q # <<>>
    BY <1>1, <1>2, <1>6 DEF HeapTypeOK, Paths
  <2>4. ValuesOf(q2, data') = Append(AbsQueue, v)
    BY <1>1, <1>5, <2>2, <2>3, ValuesAppend
  <2> QED BY <2>2, <2>4, AppendProperties
<1>9. TypeOK'
  <2>1. next' \in [Nodes -> NodeOrNULL] /\ data' \in [Nodes -> ValueOrNULL]
    BY <1>2, <1>6 DEF HeapTypeOK, NodeOrNULL, ValueOrNULL
  <2>2. heap' \in SUBSET Nodes
    BY <1>2, <1>6 DEF UpcycleNode, HeapTypeOK
  <2>3. freeHead' \in [Threads -> NodeOrNULL] /\ freeSize' \in [Threads -> Int]
    <3>1. next[n] \in NodeOrNULL /\ freeSize[t] - 1 \in Int
      BY <1>6 DEF HeapTypeOK
    <3>2. /\ freeHead' = freeHead \/ freeHead' = [freeHead EXCEPT ![t] = next[n]]
          /\ freeSize' = freeSize \/ freeSize' = [freeSize EXCEPT ![t] = freeSize[t] - 1]
      BY <1>2 DEF UpcycleNode
    <3> QED BY <1>6, <3>1, <3>2 DEF HeapTypeOK
  <2> QED BY <1>2, <1>6, <2>1, <2>2, <2>3 DEF TypeOK, HeapTypeOK, NodeOrNULL
<1>10. tail' = q2[Len(q2)]
  BY <1>1, <1>2, <1>5, AppendProperties
<1>11. IInv' /\ AbsQueue' = Append(AbsQueue, v)
  BY <1>7, <1>8, <1>9, <1>10, Fold
<1> QED BY <1>2, <1>11, AbsActions DEF Simulated

(* deq takes the oldest value away and returns it. *)
LEMMA DeqSim ==
  ASSUME IInv, NEW t \in Threads, Deq(t)
  PROVE  Simulated
<1>1. PICK q \in Seq(Nodes), G \in [Threads -> Seq(Nodes)] :
        /\ Paths(q, G) /\ heap \ Listed(q, G) = {}
        /\ ValuesOf(q, data) \in Seq(Values) /\ AbsQueue = ValuesOf(q, data)
        /\ num_threads # 0 => tail = q[Len(q)]
  BY Unfold
<1>2. PICK x : x = head
  OBVIOUS
<1>3. /\ num_threads # 0 /\ next[x] # NULL /\ result' = <<1, data[next[x]]>>
      /\ head' = next[x] /\ tail' = tail /\ Recycle(t, x) /\ UNCHANGED num_threads
  BY <1>2 DEF Deq
<1>4. PICK G2 : G2 = Pushed(G, t, x)
  OBVIOUS
<1>5. PICK q2 : q2 = Tail(q)
  OBVIOUS
<1>6. HeapTypeOK /\ TypeOK
  BY DEF IInv, TypeOK
<1>7. /\ Paths(q2, G2)' /\ heap' \ Listed(q2, G2) = {}
      /\ Len(q) > 1 /\ next[x] = q[2]
  BY <1>1, <1>2, <1>3, <1>4, <1>5, <1>6, DeqPaths
<1>8. /\ AbsQueue # <<>> /\ Head(AbsQueue) = data[next[x]] /\ data[next[x]] \in Values
      /\ ValuesOf(q2, data') = Tail(AbsQueue)
      /\ ValuesOf(q2, data') \in Seq(Values)
  BY <1>1, <1>3, <1>5, <1>7, ValuesTail DEF Recycle
<1>9. TypeOK'
  <2>1. next[x] \in Nodes /\ x \in Nodes
    BY <1>1, <1>2, <1>3, <1>7, PathNodes DEF Paths
  <2>2. next' \in [Nodes -> NodeOrNULL] /\ freeHead' \in [Threads -> NodeOrNULL]
          /\ freeSize' \in [Threads -> Int]
    BY <1>3, <1>6, <2>1 DEF Recycle, HeapTypeOK, NodeOrNULL
  <2> QED BY <1>3, <1>6, <1>8, <2>1, <2>2 DEF Recycle, TypeOK, HeapTypeOK, NodeOrNULL
<1>10. tail' = q2[Len(q2)]
  <2>1. PICK n \in Nat : n = Len(q) /\ n > 1
    <3>1. Len(q) \in Nat
      BY <1>1, LenProperties
    <3> QED BY <1>7, <3>1
  <2>2. Len(q2) = n - 1 /\ q2[n - 1] = q[(n - 1) + 1]
    <3>1. q # <<>>
      BY <1>1, <1>3 DEF Paths
    <3> QED BY <1>1, <1>5, <2>1, <3>1, HeadTailProperties
  <2>3. (n - 1) + 1 = n
    BY <2>1
  <2> QED BY <1>1, <1>3, <2>1, <2>2, <2>3
<1>11. IInv' /\ AbsQueue' = Tail(AbsQueue)
  BY <1>7, <1>8, <1>9, <1>10, Fold
<1> QED BY <1>3, <1>8, <1>11, AbsActions DEF Simulated

(* A call that returns 0 leaves the memory as it is; so does no step.       *)
LEMMA UnchangedSim ==
  ASSUME IInv, UNCHANGED heapVars, TypeOK'
  PROVE  IInv' /\ AbsQueue' = AbsQueue
<1>1. PICK q \in Seq(Nodes), G \in [Threads -> Seq(Nodes)] :
        /\ Paths(q, G) /\ heap \ Listed(q, G) = {}
        /\ ValuesOf(q, data) \in Seq(Values) /\ AbsQueue = ValuesOf(q, data)
        /\ num_threads # 0 => tail = q[Len(q)]
  BY Unfold
<1>2. UNCHANGED <<num_threads, head, tail, next, data, heap, freeHead, freeSize>>
  BY DEF heapVars
<1>3. Paths(q, G)'
  BY <1>1, <1>2 DEF Paths
<1> QED BY <1>1, <1>2, <1>3, Fold

(* Every call is a step of the abstract queue; init_queue is none. *)
LEMMA StepSim == IInv /\ [Next]_vars => IInv' /\ [Fifo!FifoNext]_<<AbsQueue, result>>
<1> SUFFICES ASSUME IInv, [Next]_vars
             PROVE  Simulated
  BY DEF Simulated
<1>1. TypeOK /\ HeapTypeOK
  BY DEF IInv, TypeOK
<1>2. ASSUME NEW t \in Threads, EnqNoMemory(t) \/ DeqEmpty
      PROVE  Simulated
  <2>1. UNCHANGED heapVars /\ result' = <<0>>
    BY <1>2 DEF EnqNoMemory, DeqEmpty
  <2>2. TypeOK'
    BY <1>1, <2>1 DEF TypeOK, HeapTypeOK, heapVars
  <2> QED BY <2>1, <2>2, UnchangedSim, AbsActions DEF Simulated
<1>3. CASE DeqEmpty
  <2>1. 0 \in Threads
    BY HeapAssumption DEF Threads
  <2> QED BY <1>2, <1>3, <2>1
<1>4. CASE Destroy
  <2>1. PICK q, G : Paths(q, G) /\ heap \ Listed(q, G) = {}
    BY Unfold
  <2>2. PICK G2 : G2 = [t \in Threads |-> <<>>]
    OBVIOUS
  <2>3. /\ Paths(<<>>, G2)' /\ ValuesOf(<<>>, data') = <<>>
        /\ heap' \ Listed(<<>>, G2) = {}
    BY <1>4, <2>1, <2>2, NoPaths DEF Destroy
  <2>4. result' = <<>> /\ num_threads' = 0
    BY <1>4 DEF Destroy, FreeAll
  <2>5. TypeOK'
    BY <1>1, <1>4 DEF Destroy, FreeAll, TypeOK, HeapTypeOK, NodeOrNULL, ValueOrNULL
  <2>6. <<>> \in Seq(Values)
    BY EmptySeq
  <2>7. IInv' /\ AbsQueue' = <<>>
    BY <2>3, <2>4, <2>5, <2>6, Fold
  <2> QED BY <2>4, <2>7, AbsActions DEF Simulated
<1>5. CASE InitQueue
  <2>1. PICK q, G : Paths(q, G) /\ heap \ Listed(q, G) = {}
    BY Unfold
  <2>2. PICK G2 : G2 = [t \in Threads |-> <<>>]
    OBVIOUS
  <2>3. PICK q2 : q2 = <<head>>'
    OBVIOUS
  <2>4. /\ Paths(q2, G2)' /\ ValuesOf(q2, data') = <<>>
        /\ heap' \ Listed(q2, G2) = {}
    BY <1>1, <1>5, <2>1, <2>2, <2>3, FreshPaths DEF InitQueue
  <2>5. tail' = q2[Len(q2)] /\ num_threads = 0 /\ result' = result
    BY <1>5, <2>3 DEF InitQueue, InitHeap
  <2>6. TypeOK'
    BY <1>1, <1>5, HeapAssumption
    DEF InitQueue, InitHeap, MakeNode, TypeOK, HeapTypeOK, NodeOrNULL, ValueOrNULL
  <2>7. <<>> \in Seq(Values)
    BY EmptySeq
  <2>8. IInv' /\ AbsQueue' = <<>>
    BY <2>4, <2>5, <2>6, <2>7, Fold
  <2>9. AbsQueue = <<>>
    BY <2>5 DEF AbsQueue
  <2> QED BY <2>5, <2>8, <2>9 DEF Simulated
<1>6. CASE UNCHANGED vars
  <2>1. UNCHANGED heapVars /\ result' = result
    BY <1>6 DEF vars
  <2>2. TypeOK'
    BY <1>1, <2>1 DEF TypeOK, HeapTypeOK, heapVars
  <2> QED BY <2>1, <2>2, UnchangedSim DEF Simulated
<1> QED BY <1>2, <1>3, <1>4, <1>5, <1>6, EnqSim, DeqSim DEF Next

(* At the start the queue is empty and every node is accounted for. *)
LEMMA InitSim == Init => IInv /\ Fifo!FifoInit
<1> SUFFICES ASSUME Init PROVE IInv /\ Fifo!FifoInit
  OBVIOUS
<1>1. PICK G : G = [t \in Threads |-> <<>>]
  OBVIOUS
<1>2. PICK q : q = <<head>>
  OBVIOUS
<1>3. /\ Paths(q, G) /\ heap \ Listed(q, G) = {}
      /\ ValuesOf(q, data) \in Seq(Values)
  BY <1>1, <1>2, FirstPaths DEF Init
<1>4. ValuesOf(q, data) = <<>>
  <2>1. Len(q) = 1
    BY <1>2
  <2> QED BY <2>1, ValuesOfNone
<1>5. num_threads # 0 /\ tail = q[Len(q)]
  BY <1>2, HeapAssumption DEF Init, HeapInit
<1>6. q = QueuePath /\ G = FreePaths /\ Contents = <<>>
  BY <1>3, <1>4, <1>5, PathsAreChains
<1>7. TypeOK
  BY HeapAssumption
  DEF Init, HeapInit, TypeOK, HeapTypeOK, NodeOrNULL, ValueOrNULL
<1>8. IInv
  BY <1>3, <1>5, <1>6, <1>7 DEF IInv, Shape, Loose, TailLast
<1> QED BY <1>5, <1>6, <1>8 DEF Fifo!FifoInit, Init

(* The invariant from which the theorems follow. *)
THEOREM Invariance == Spec => []IInv
<1>1. Init => IInv
  BY InitSim
<1>2. IInv /\ [Next]_vars => IInv'
  BY StepSim
<1> QED BY <1>1, <1>2, PTL DEF Spec

(* After any sequence of calls every allocated node is in exactly one list  *)
(* and the size fields are right, so that destroy_queue frees each node     *)
(* once and leaves none.                                                    *)
THEOREM Accounting == Spec => []NodesAccounted
<1>1. IInv => NodesAccounted
  <2> SUFFICES ASSUME IInv PROVE NodesAccounted
    OBVIOUS
  <2>1. PICK q, G : /\ q = QueuePath /\ G = FreePaths
                    /\ Paths(q, G) /\ heap \ Listed(q, G) = {}
    BY DEF IInv, Shape, Loose
  <2>2. PICK H : H = [t \in Threads |-> {}]
    OBVIOUS
  <2>3. /\ heap \ Listed(q, G) = UNION {H[t] : t \in Threads}
        /\ \A t, u \in Threads : t # u => H[t] \cap H[u] = {}
    BY <2>1, <2>2
  <2>4. /\ InQueue = NodesOf(q)
        /\ \A t \in Threads : ChainNodes(freeHead[t]) = NodesOf(G[t])
    <3>1. num_threads = 0 => q = <<>> /\ NodesOf(q) = {}
      BY <2>1, PathNodes, PathOfNone DEF QueuePath
    <3>2. /\ num_threads # 0 => ChainNodes(head) = NodesOf(q)
          /\ \A t \in Threads : ChainNodes(freeHead[t]) = NodesOf(G[t])
      BY <2>1, PathsAreChains
    <3> QED BY <3>1, <3>2 DEF InQueue
  <2>5. ASSUME NEW x \in Nodes
        PROVE  (IF x \in InQueue THEN 1 ELSE 0)
                 + Cardinality({t \in Threads : x \in ChainNodes(freeHead[t])})
               = IF x \in heap THEN 1 ELSE 0
    <3>1. (IF x \in NodesOf(q) THEN 1 ELSE 0)
             + Cardinality({t \in Threads : x \in NodesOf(G[t])})
             + Cardinality({t \in Threads : x \in H[t]})
           = IF x \in heap THEN 1 ELSE 0
      BY <2>1, <2>3, OneOwner
    <3>2. {t \in Threads : x \in H[t]} = {} /\ Cardinality({}) = 0
      BY <2>2, FS_EmptySet
    <3>3. {t \in Threads : x \in NodesOf(G[t])}
            = {t \in Threads : x \in ChainNodes(freeHead[t])}
      BY <2>4
    <3>4. Cardinality({t \in Threads : x \in NodesOf(G[t])}) \in Nat
      <4>1. IsFiniteSet(Threads)
        BY HeapAssumption, FS_Interval DEF Threads
      <4> QED BY <4>1, FS_Subset, FS_CardinalityType
    <3>5. PICK c \in Nat : c = Cardinality({t \in Threads : x \in NodesOf(G[t])})
      BY <3>4
    <3>6. (IF x \in NodesOf(q) THEN 1 ELSE 0) + c + 0 = IF x \in heap THEN 1 ELSE 0
      BY <3>1, <3>2, <3>5
    <3>7. (IF x \in NodesOf(q) THEN 1 ELSE 0) + c = IF x \in heap THEN 1 ELSE 0
      BY <3>6
    <3> QED BY <2>4, <3>3, <3>5, <3>7
  <2>6. \A t \in Threads : freeSize[t] = Len(Chain(freeHead[t]))
    BY <2>1 DEF Paths, FreePaths
  <2> QED BY <2>5, <2>6 DEF NodesAccounted, IInv
<1> QED BY <1>1, Invariance, PTL

(* Whatever calls are made, they return what the calls on a sequence of     *)
(* values return.                                                           *)
THEOREM Refinement == Spec => IsFifo
<1>1. Init => Fifo!FifoInit
  BY InitSim
<1>2. IInv /\ [Next]_vars => [Fifo!FifoNext]_<<AbsQueue, result>>
  BY StepSim
<1>3. Spec => Fifo!FifoInit /\ [][Fifo!FifoNext]_<<AbsQueue, result>>
  BY <1>1, <1>2, Invariance, PTL DEF Spec
<1> QED BY <1>3 DEF IsFifo, Fifo!FifoSpec, AbsQueue
=============================================================================
