----------------------------- MODULE NodeListsProofs -----------------------------
(***************************************************************************)
(* What the operations of NodeHeap make of the lists of NodeLists.         *)
(***************************************************************************)
EXTENDS NodeLists, FiniteSetTheorems, SequenceTheorems, TLAPS

(* A list does not depend on the nodes outside it. *)
LEMMA ListFrame ==
  ASSUME NEW S, NEW h, NEW nx, NEW ny, IsList(S, h, nx),
         \A x \in S : ny[x] = nx[x]
  PROVE  IsList(S, h, ny)
  BY DEF IsList

(* Taking the first node of a list. *)
LEMMA ListPop ==
  ASSUME NEW S, NEW h, NEW nx, IsList(S, h, nx), h \in S
  PROVE  IsList(S \ {h}, nx[h], nx)
  BY DEF IsList

(* Putting a node in front of a list. *)
LEMMA ListPush ==
  ASSUME NEW S \in SUBSET Nodes, NEW h, NEW nx \in [Nodes -> NodeOrNULL],
         NEW x \in Nodes \ S, IsList(S, h, nx)
  PROVE  IsList(S \cup {x}, x, [nx EXCEPT ![x] = h])
  BY HeapAssumption DEF IsList

(* Linking a node to the last one of a list. *)
LEMMA ListAppend ==
  ASSUME NEW S \in SUBSET Nodes, NEW h \in S, NEW nx \in [Nodes -> NodeOrNULL],
         NEW x \in Nodes \ S, NEW l \in S, IsList(S, h, nx), nx[l] = NULL, nx[x] = NULL
  PROVE  IsList(S \cup {x}, h, [nx EXCEPT ![l] = x])
  BY HeapAssumption DEF IsList

(* The list of one node. *)
LEMMA ListOfOne ==
  ASSUME NEW x \in Nodes, NEW nx, nx[x] = NULL
  PROVE  IsList({x}, x, nx)
  BY HeapAssumption DEF IsList

(* The empty list. *)
LEMMA ListOfNone ==
  ASSUME NEW nx
  PROVE  IsList({}, NULL, nx)
  BY DEF IsList

-----------------------------------------------------------------------------
(* The free lists and the fields of the nodes keep their types.             *)
LEMMA UpcycleType ==
  ASSUME HeapTypeOK, NEW t \in Threads, NEW n \in Nodes, Upcycle(t, n),
         UNCHANGED <<num_threads, head, tail>>
  PROVE  HeapTypeOK'
  BY DEF HeapTypeOK, Upcycle, MakeNode, NodeOrNULL, ValueOrNULL

(* Likewise when a node is put on a free list. *)
LEMMA RecycleType ==
  ASSUME HeapTypeOK, NEW t \in Threads, NEW x \in NodeOrNULL, Recycle(t, x),
         UNCHANGED <<num_threads, head, tail>>
  PROVE  HeapTypeOK'
<1>1. next' \in [Nodes -> NodeOrNULL] /\ freeHead' \in [Threads -> NodeOrNULL]
  BY DEF HeapTypeOK, Recycle
<1> QED BY <1>1 DEF HeapTypeOK, Recycle

(* upcylce_node takes a node that is in no list from then on, and no other  *)
(* node notices.                                                            *)
LEMMA UpcycleLists ==
  ASSUME HeapTypeOK, NEW t \in Threads, NEW n \in Nodes, Upcycle(t, n),
         UNCHANGED <<num_threads, head, tail>>,
         NEW L, NEW F, Lists(L, F), F \in [Threads -> SUBSET Nodes],
         NEW f, f = freeHead[t]
  PROVE  /\ HeapTypeOK'
         /\ Lists(L, Without(F, t, f))'
         /\ Apart(L, Without(F, t, f), {n})'
         /\ \A x \in heap : next'[x] = next[x]
         /\ \A S : Apart(L, F, S) => Apart(L, Without(F, t, f), S)' /\ n \notin S
<1> DEFINE F2 == Without(F, t, f)
<1>1. HeapTypeOK'
  BY UpcycleType
<1>2. F2 \in [Threads -> SUBSET Nodes] /\ \A u \in Threads : F2[u] \subseteq F[u]
  BY DEF Without
<1>3. L \subseteq heap /\ \A u \in Threads : F[u] \subseteq heap \ L
  BY DEF Lists
<1>4. heap \subseteq heap' /\ \A x \in heap : next'[x] = next[x]
  BY DEF Upcycle, MakeNode, HeapTypeOK
<1>5. n \in heap' /\ n \notin L /\ \A u \in Threads : n \notin F2[u]
  <2>1. CASE freeHead[t] # NULL
    <3>1. n = freeHead[t] /\ n \in F[t] /\ heap' = heap
      BY <2>1 DEF Upcycle, Lists, IsList
    <3> QED BY <3>1, <1>3 DEF Lists, Without
  <2>2. CASE freeHead[t] = NULL
    <3>1. n \notin heap /\ heap' = heap \cup {n}
      BY <2>2 DEF Upcycle, MakeNode
    <3> QED BY <3>1, <1>2, <1>3
  <2> QED BY <2>1, <2>2
<1>6. \A u \in Threads : IsList(F2[u], freeHead'[u], next')
  <2> SUFFICES ASSUME NEW u \in Threads
               PROVE  IsList(F2[u], freeHead'[u], next')
    OBVIOUS
  <2>1. IsList(F[u], freeHead[u], next)
    BY DEF Lists
  <2>2. IsList(F2[u], freeHead'[u], next)
    <3>1. CASE u = t /\ freeHead[t] # NULL
      <4>1. freeHead'[t] = next[freeHead[t]] /\ F2[t] = F[t] \ {freeHead[t]}
        BY <3>1 DEF Upcycle, HeapTypeOK, Without
      <4>2. freeHead[t] \in F[t]
        BY <2>1, <3>1 DEF IsList
      <4>3. IsList(F[t] \ {freeHead[t]}, next[freeHead[t]], next)
        BY <2>1, <3>1, <4>2, ListPop
      <4> QED BY <3>1, <4>1, <4>3
    <3>2. CASE ~(u = t /\ freeHead[t] # NULL)
      <4>1. F2[u] = F[u]
        BY <3>2, <2>1, HeapAssumption DEF Without
      <4>2. freeHead'[u] = freeHead[u]
        BY <3>2 DEF Upcycle, HeapTypeOK
      <4> QED BY <2>1, <4>1, <4>2
    <3> QED BY <3>1, <3>2
  <2>3. \A x \in F2[u] : next'[x] = next[x]
    BY <1>2, <1>3, <1>4
  <2> QED BY <2>2, <2>3, ListFrame
<1>7. num_threads # 0 => head \in L /\ IsList(L, head, next')
  BY <1>3, <1>4, ListFrame DEF Lists
<1>8. Lists(L, F2)'
  BY <1>2, <1>3, <1>4, <1>6, <1>7 DEF Lists
<1>9. \A S : Apart(L, F, S) => Apart(L, F2, S)' /\ n \notin S
  <2> SUFFICES ASSUME NEW S, Apart(L, F, S)
               PROVE  Apart(L, F2, S)' /\ n \notin S
    OBVIOUS
  <2>1. n \notin S
    BY DEF Apart, Lists, IsList, Upcycle, MakeNode
  <2> QED BY <2>1, <1>2, <1>4 DEF Apart
<1> QED BY <1>1, <1>4, <1>5, <1>8, <1>9 DEF Apart

(* recycle_node puts a node that is in no list into a free list. *)
LEMMA RecycleLists ==
  ASSUME HeapTypeOK, NEW t \in Threads, NEW x \in Nodes, Recycle(t, x),
         UNCHANGED <<num_threads, head, tail>>,
         NEW L, NEW F, Lists(L, F), F \in [Threads -> SUBSET Nodes], Apart(L, F, {x})
  PROVE  /\ HeapTypeOK'
         /\ Lists(L, With(F, t, x))'
         /\ \A y \in Nodes \ {x} : next'[y] = next[y]
         /\ \A S : Apart(L, F, S) /\ x \notin S => Apart(L, With(F, t, x), S)'
<1> DEFINE F2 == With(F, t, x)
<1>1. HeapTypeOK'
  BY RecycleType DEF NodeOrNULL
<1>2. next' = [next EXCEPT ![x] = freeHead[t]] /\ heap' = heap
  BY DEF Recycle
<1>3. \A y \in Nodes \ {x} : next'[y] = next[y]
  BY <1>2 DEF HeapTypeOK
<1>4. x \in heap /\ x \notin L /\ \A u \in Threads : x \notin F[u]
  BY DEF Apart
<1>5. L \subseteq heap /\ \A u \in Threads : F[u] \subseteq heap \ L
  BY DEF Lists
<1>6. heap \subseteq Nodes
  BY DEF HeapTypeOK
<1>7. \A u \in Threads : IsList(F2[u], freeHead'[u], next')
  <2> SUFFICES ASSUME NEW u \in Threads
               PROVE  IsList(F2[u], freeHead'[u], next')
    OBVIOUS
  <2>1. IsList(F[u], freeHead[u], next)
    BY DEF Lists
  <2>2. CASE u = t
    <3>1. freeHead'[t] = x /\ F2[t] = F[t] \cup {x}
      BY DEF Recycle, HeapTypeOK, With
    <3>2. next \in [Nodes -> NodeOrNULL] /\ F[t] \in SUBSET Nodes
      BY DEF HeapTypeOK
    <3>3. IsList(F[t] \cup {x}, x, [next EXCEPT ![x] = freeHead[t]])
      BY <2>1, <2>2, <3>2, <1>4, ListPush
    <3> QED BY <2>2, <3>1, <3>3, <1>2
  <2>3. CASE u # t
    <3>1. freeHead'[u] = freeHead[u] /\ F2[u] = F[u]
      BY <2>3 DEF Recycle, HeapTypeOK, With
    <3>2. \A y \in F[u] : next'[y] = next[y]
      BY <1>3, <1>4
    <3> QED BY <2>1, <3>1, <3>2, ListFrame
  <2> QED BY <2>2, <2>3
<1>8. num_threads # 0 => head \in L /\ IsList(L, head, next')
  BY <1>3, <1>4, <1>5, <1>6, ListFrame DEF Lists
<1>9. Lists(L, F2)'
  <2>1. \A u \in Threads : F2[u] \subseteq heap \ L
    BY <1>4, <1>5 DEF With
  <2>2. \A u, v \in Threads : u # v => F2[u] \cap F2[v] = {}
    BY <1>4 DEF Lists, With
  <2> QED BY <1>2, <1>5, <1>7, <1>8, <2>1, <2>2 DEF Lists
<1>10. \A S : Apart(L, F, S) /\ x \notin S => Apart(L, F2, S)'
  BY <1>2 DEF Apart, With
<1> QED BY <1>1, <1>3, <1>9, <1>10

(* A write to the fields of a node that is in no list. *)
LEMMA FillLists ==
  ASSUME HeapTypeOK, NEW L, NEW F, Lists(L, F), NEW x \in Nodes, Apart(L, F, {x}),
         next' = [next EXCEPT ![x] = NULL],
         UNCHANGED <<num_threads, head, heap, freeHead>>
  PROVE  /\ Lists(L, F)'
         /\ \A S : Apart(L, F, S) => Apart(L, F, S)'
<1>1. \A y \in heap \ {x} : next'[y] = next[y]
  BY DEF HeapTypeOK
<1>2. x \notin L /\ \A u \in Threads : x \notin F[u]
  BY DEF Apart
<1>3. \A u \in Threads : IsList(F[u], freeHead[u], next')
  BY <1>1, <1>2, ListFrame DEF Lists
<1>4. num_threads # 0 => IsList(L, head, next')
  BY <1>1, <1>2, ListFrame DEF Lists
<1> QED BY <1>3, <1>4 DEF Lists, Apart

(* enq links a node that is in no list to the last one of the queue. *)
LEMMA LinkLists ==
  ASSUME HeapTypeOK, NEW L, NEW F, Lists(L, F), num_threads # 0,
         NEW x \in Nodes, Apart(L, F, {x}), next[x] = NULL,
         NEW l \in L, next[l] = NULL, next' = [next EXCEPT ![l] = x],
         UNCHANGED <<num_threads, head, heap, freeHead>>
  PROVE  /\ Lists(L \cup {x}, F)'
         /\ \A S : Apart(L, F, S) /\ x \notin S => Apart(L \cup {x}, F, S)'
<1>1. x \in heap /\ x \notin L /\ \A u \in Threads : x \notin F[u]
  BY DEF Apart
<1>2. L \in SUBSET Nodes /\ head \in L /\ next \in [Nodes -> NodeOrNULL]
  BY DEF HeapTypeOK, Lists
<1>3. IsList(L \cup {x}, head, next')
  BY <1>1, <1>2, ListAppend DEF Lists
<1>4. \A u \in Threads : IsList(F[u], freeHead[u], next')
  <2>1. \A u \in Threads : \A y \in F[u] : next'[y] = next[y]
    BY <1>2 DEF Lists, HeapTypeOK
  <2> QED BY <2>1, ListFrame DEF Lists
<1> QED BY <1>1, <1>2, <1>3, <1>4 DEF Lists, Apart

(* deq moves head from h to its successor: h is in no list any more.        *)
LEMMA MoveHeadLists ==
  ASSUME HeapTypeOK, NEW L, NEW F, Lists(L, F), num_threads # 0,
         NEW h, h = head, next[h] # NULL, head' = next[h],
         UNCHANGED <<num_threads, next, heap, freeHead>>
  PROVE  /\ head' \in L \ {h}
         /\ Lists(L \ {h}, F)'
         /\ Apart(L \ {h}, F, {h})'
         /\ \A S : Apart(L, F, S) => Apart(L \ {h}, F, S)' /\ h \notin S
<1>1. h \in L /\ IsList(L, h, next)
  BY DEF Lists
<1>2. IsList(L \ {h}, next[h], next)
  BY <1>1, ListPop
<1>3. next[h] \in L \ {h}
  BY <1>1 DEF IsList
<1>4. Lists(L \ {h}, F)'
  BY <1>2, <1>3 DEF Lists
<1>5. Apart(L \ {h}, F, {h})'
  BY <1>1 DEF Lists, Apart
<1>6. \A S : Apart(L, F, S) => Apart(L \ {h}, F, S)' /\ h \notin S
  BY <1>1 DEF Apart
<1> QED BY <1>3, <1>4, <1>5, <1>6

(* A queue that is set up has one list, of one node. *)
LEMMA FreshLists ==
  ASSUME NEW x \in Nodes, head' = x, next'[x] = NULL, x \in heap',
         freeHead' = [t \in Threads |-> NULL],
         NEW F, F = [t \in Threads |-> {}]
  PROVE  Lists({x}, F)'
  BY ListOfOne, ListOfNone DEF Lists

(* So has a queue that exists from the start. *)
LEMMA FirstLists ==
  ASSUME NEW x \in Nodes, head = x, next[x] = NULL, x \in heap,
         freeHead = [t \in Threads |-> NULL],
         NEW F, F = [t \in Threads |-> {}]
  PROVE  Lists({x}, F)
  BY ListOfOne, ListOfNone DEF Lists

(* A queue that is destroyed has no lists. *)
LEMMA NoLists ==
  ASSUME num_threads' = 0, freeHead' = [t \in Threads |-> NULL],
         NEW F, F = [t \in Threads |-> {}]
  PROVE  Lists({}, F)'
  BY ListOfNone DEF Lists
-----------------------------------------------------------------------------
(* Induction over the natural numbers, for a set in the place of the        *)
(* predicate: a set that is closed under successors has no smallest number  *)
(* outside it.                                                              *)
LEMMA NatSetInduction ==
  ASSUME NEW S, 0 \in S, \A n \in Nat : n \in S => n + 1 \in S
  PROVE  Nat \subseteq S
<1> DEFINE T == Nat \ S
           R == OpToRel(<, Nat)
<1> SUFFICES ASSUME T # {} PROVE FALSE
  OBVIOUS
<1>1. IsWellFoundedOn(R, Nat)
  BY NatLessThanWellFounded
<1>2. T \subseteq Nat
  OBVIOUS
<1>3. \E x \in T : \A y \in T : <<y, x>> \notin R
  <2> HIDE DEF T, R
  <2> QED BY <1>1, <1>2, WFMin
<1>4. PICK m \in T : \A y \in T : <<y, m>> \notin R
  BY <1>3
<1>5. m - 1 \in Nat /\ m - 1 < m
  OBVIOUS
<1>6. <<m - 1, m>> \in R
  BY <1>5 DEF OpToRel
<1>7. m - 1 \in S
  BY <1>4, <1>5, <1>6
<1> QED BY <1>5, <1>7

(* g is the beginning of Walk(f, x), up to n.                               *)
Iterates(g, n, f, x) == g = [k \in 0 .. n |-> IF k = 0 THEN x ELSE f[g[k - 1]]]

(* Two beginnings agree as far as both go. *)
LEMMA IteratesAgree ==
  ASSUME NEW f, NEW x, NEW m \in Nat, NEW n \in Nat, NEW g, NEW h, m <= n,
         Iterates(g, m, f, x), Iterates(h, n, f, x)
  PROVE  \A k \in 0 .. m : g[k] = h[k]
<1> DEFINE S == {k \in Nat : k <= m => g[k] = h[k]}
<1>1. /\ \A k \in 0 .. m : g[k] = IF k = 0 THEN x ELSE f[g[k - 1]]
      /\ \A k \in 0 .. n : h[k] = IF k = 0 THEN x ELSE f[h[k - 1]]
  BY DEF Iterates
<1>2. 0 \in S
  BY <1>1
<1>3. \A k \in Nat : k \in S => k + 1 \in S
  <2> SUFFICES ASSUME NEW k \in S, k + 1 <= m PROVE g[k + 1] = h[k + 1]
    OBVIOUS
  <2>1. k + 1 \in 0 .. m /\ k + 1 \in 0 .. n /\ k + 1 # 0 /\ (k + 1) - 1 = k
    OBVIOUS
  <2> QED BY <1>1, <2>1
<1>4. Nat \subseteq S
  <2> HIDE DEF S
  <2> QED BY <1>2, <1>3, NatSetInduction
<1> QED BY <1>4

(* There is a beginning of every length. *)
LEMMA IteratesExist ==
  ASSUME NEW f, NEW x
  PROVE  \A n \in Nat : \E g : Iterates(g, n, f, x)
<1> DEFINE S == {n \in Nat : \E g : Iterates(g, n, f, x)}
<1>1. 0 \in S
  <2>1. Iterates([k \in 0 .. 0 |-> x], 0, f, x)
    BY DEF Iterates
  <2> QED BY <2>1
<1>2. \A n \in Nat : n \in S => n + 1 \in S
  <2> SUFFICES ASSUME NEW n \in Nat, NEW g, Iterates(g, n, f, x)
               PROVE  \E h : Iterates(h, n + 1, f, x)
    OBVIOUS
  <2> DEFINE h == [k \in 0 .. n + 1 |-> IF k = n + 1 THEN f[g[n]] ELSE g[k]]
  <2>1. \A k \in 0 .. n : g[k] = IF k = 0 THEN x ELSE f[g[k - 1]]
    BY DEF Iterates
  <2>2. \A k \in 0 .. n + 1 : h[k] = IF k = 0 THEN x ELSE f[h[k - 1]]
    BY <2>1
  <2>3. Iterates(h, n + 1, f, x)
    BY <2>2 DEF Iterates
  <2> QED BY <2>3
<1>3. Nat \subseteq S
  <2> HIDE DEF S
  <2> QED BY <1>1, <1>2, NatSetInduction
<1> QED BY <1>3

(* Walk is what its recursive definition says.                              *)
LEMMA WalkDef ==
  ASSUME NEW f, NEW x
  PROVE  /\ Walk(f, x)[0] = x
         /\ \A k \in Nat : Walk(f, x)[k + 1] = f[Walk(f, x)[k]]
<1> DEFINE upto(n) == CHOOSE g : Iterates(g, n, f, x)
           w == [n \in Nat |-> upto(n)[n]]
<1>1. \A n \in Nat : Iterates(upto(n), n, f, x)
  BY IteratesExist
<1> HIDE DEF upto
<1>2. \A n \in Nat : upto(n)[n] = IF n = 0 THEN x ELSE f[upto(n)[n - 1]]
  BY <1>1 DEF Iterates
<1>3. \A m, n \in Nat : m <= n => upto(m)[m] = upto(n)[m]
  <2> TAKE m \in Nat, n \in Nat
  <2> HAVE m <= n
  <2>1. Iterates(upto(m), m, f, x) /\ Iterates(upto(n), n, f, x)
    BY <1>1
  <2> QED BY <2>1, IteratesAgree
<1>4. \A n \in Nat : w[n] = IF n = 0 THEN x ELSE f[w[n - 1]]
  <2> TAKE n \in Nat
  <2>1. n # 0 => n - 1 \in Nat /\ upto(n - 1)[n - 1] = upto(n)[n - 1]
    BY <1>3
  <2> QED BY <1>2, <2>1
<1>5. w = [k \in Nat |-> w[k]]
  OBVIOUS
<1> HIDE DEF w
<1>6. w = [k \in Nat |-> IF k = 0 THEN x ELSE f[w[k - 1]]]
  BY <1>4, <1>5
<1>7. Walk(f, x) = [k \in Nat |-> IF k = 0 THEN x ELSE f[Walk(f, x)[k - 1]]]
  BY <1>6 DEF Walk
<1> QED BY <1>7

-----------------------------------------------------------------------------
(* A path does not come back to a node: from there on it would go on for    *)
(* ever.                                                                    *)
LEMMA PathInjective ==
  ASSUME NEW q, NEW h, NEW nx, IsPath(q, h, nx),
         NEW i \in 1 .. Len(q), NEW j \in 1 .. Len(q), q[i] = q[j]
  PROVE  i = j
<1>1. PICK n \in Nat : n = Len(q)
  BY DEF IsPath
<1>2. /\ q \in [1 .. n -> Nodes]
      /\ \A k \in 1 .. n : nx[q[k]] = IF k = n THEN NULL ELSE q[k + 1]
  BY <1>1 DEF IsPath
<1>3. \A a \in 1 .. n : \A b \in 1 .. n : q[a] = q[b] => ~(a < b)
  <2> SUFFICES ASSUME NEW a \in 1 .. n, NEW b \in 1 .. n, q[a] = q[b], a < b
               PROVE  FALSE
    OBVIOUS
  <2> DEFINE S == {k \in Nat : b + k <= n => q[a + k] = q[b + k]}
  <2>1. 0 \in S
    OBVIOUS
  <2>2. \A k \in Nat : k \in S => k + 1 \in S
    <3> SUFFICES ASSUME NEW k \in Nat, k \in S, b + (k + 1) <= n
                 PROVE  q[a + (k + 1)] = q[b + (k + 1)]
      OBVIOUS
    <3>1. q[a + k] = q[b + k]
      OBVIOUS
    <3>2. /\ a + k \in 1 .. n /\ a + k # n /\ (a + k) + 1 = a + (k + 1)
          /\ b + k \in 1 .. n /\ b + k # n /\ (b + k) + 1 = b + (k + 1)
      OBVIOUS
    <3> QED BY <1>2, <3>1, <3>2
  <2>3. Nat \subseteq S
    <3> HIDE DEF S
    <3> QED BY <2>1, <2>2, NatSetInduction
  <2>4. PICK k \in Nat : k = n - b
    OBVIOUS
  <2>5. b + k = n /\ a + k \in 1 .. n /\ a + k # n /\ (a + k) + 1 \in 1 .. n
    BY <2>4
  <2>6. q[a + k] = q[n]
    <3>1. k \in S
      <4> HIDE DEF S
      <4> QED BY <2>3
    <3> QED BY <2>5, <3>1
  <2>7. nx[q[n]] = NULL /\ nx[q[a + k]] \in Nodes
    BY <1>2, <2>5
  <2> QED BY <2>6, <2>7, HeapAssumption
<1> QED BY <1>1, <1>3

(* So it is no longer than there are nodes. *)
LEMMA PathBound ==
  ASSUME NEW q, NEW h, NEW nx, IsPath(q, h, nx)
  PROVE  Len(q) <= Cardinality(Nodes) /\ Cardinality(Nodes) \in Nat
<1>1. Len(q) \in Nat /\ q \in [1 .. Len(q) -> Nodes]
  BY DEF IsPath
<1>2. q \in Injection(1 .. Len(q), Nodes)
  BY <1>1, PathInjective DEF Injection, IsInjective
<1>3. Cardinality(1 .. Len(q)) <= Cardinality(Nodes)
  BY <1>2, FiniteMemory, FS_Injection
<1>4. Cardinality(1 .. Len(q)) = Len(q)
  BY <1>1, FS_Interval
<1> QED BY <1>3, <1>4, FiniteMemory, FS_CardinalityType

(* What Chain computes for a list that ends: its path.                      *)
LEMMA ChainIsPath ==
  ASSUME NEW q, NEW h, NEW nx, IsPath(q, h, nx)
  PROVE  ChainOf(nx, h) = q
<1>1. PICK n \in Nat : n = Len(q)
  BY DEF IsPath
<1>2. PICK c \in Nat : c = Cardinality(Nodes) /\ n <= c
  BY <1>1, PathBound
<1>3. /\ q \in [1 .. n -> Nodes]
      /\ n = 0 => h = NULL
      /\ n # 0 => h = q[1]
      /\ \A i \in 1 .. n : nx[q[i]] = IF i = n THEN NULL ELSE q[i + 1]
  BY <1>1 DEF IsPath
<1>4. PICK w : w = Walk(Succ(nx), h)
  OBVIOUS
<1>5. w[0] = h /\ \A k \in Nat : w[k + 1] = Succ(nx)[w[k]]
  BY <1>4, WalkDef
<1>6. Succ(nx)[NULL] = NULL /\ \A x \in Nodes : Succ(nx)[x] = nx[x]
  BY HeapAssumption DEF Succ, NodeOrNULL
<1> DEFINE S == {k \in Nat : w[k] = IF k < n THEN q[k + 1] ELSE NULL}
<1>7. 0 \in S
  <2>1. n # 0 => w[0] = q[0 + 1]
    BY ONLY <1>3, <1>5
  <2>2. n = 0 => w[0] = NULL
    BY ONLY <1>3, <1>5
  <2> QED BY ONLY <2>1, <2>2, n \in Nat
<1>8. \A k \in Nat : k \in S => k + 1 \in S
  <2> SUFFICES ASSUME NEW k \in Nat, w[k] = IF k < n THEN q[k + 1] ELSE NULL
               PROVE  w[k + 1] = IF k + 1 < n THEN q[(k + 1) + 1] ELSE NULL
    OBVIOUS
  <2>1. CASE k < n
    <3>1. w[k] = q[k + 1] /\ q[k + 1] \in Nodes /\ k + 1 \in 1 .. n
      BY <1>3, <2>1
    <3>2. w[k + 1] = nx[q[k + 1]]
      BY <1>5, <1>6, <3>1
    <3>3. nx[q[k + 1]] = IF k + 1 = n THEN NULL ELSE q[(k + 1) + 1]
      BY <1>3, <3>1
    <3>4. k + 1 = n <=> ~(k + 1 < n)
      BY <2>1
    <3> QED BY <3>2, <3>3, <3>4
  <2>2. CASE ~(k < n)
    BY <1>5, <1>6, <2>2
  <2> QED BY <2>1, <2>2
<1>9. Nat \subseteq S
  <2> HIDE DEF S
  <2> QED BY <1>7, <1>8, NatSetInduction
<1>10. \A k \in 1 .. c : w[k - 1] # NULL <=> k \in 1 .. n
  <2> TAKE k \in 1 .. c
  <2>1. k - 1 \in Nat /\ (k - 1 < n <=> k \in 1 .. n) /\ (k - 1) + 1 = k
    OBVIOUS
  <2>2. w[k - 1] = IF k - 1 < n THEN q[(k - 1) + 1] ELSE NULL
    BY <1>9, <2>1
  <2>3. k \in 1 .. n => q[k] \in Nodes
    BY <1>3
  <2> QED BY <2>1, <2>2, <2>3, HeapAssumption
<1>11. {k \in 1 .. c : w[k - 1] # NULL} = 1 .. n
  BY <1>2, <1>10
<1>12. Cardinality(1 .. n) = n
  <2>1. Cardinality(1 .. n) = IF 1 > n THEN 0 ELSE n - 1 + 1
    BY FS_Interval
  <2> QED BY <2>1
<1>13. ChainOf(nx, h) = [i \in 1 .. n |-> w[i - 1]]
  BY <1>2, <1>4, <1>11, <1>12 DEF ChainOf
<1>14. \A i \in 1 .. n : w[i - 1] = q[i]
  <2> TAKE i \in 1 .. n
  <2>1. i - 1 \in Nat /\ i - 1 < n /\ (i - 1) + 1 = i
    OBVIOUS
  <2> QED BY <1>9, <2>1
<1>15. q = [i \in 1 .. n |-> q[i]]
  BY <1>3
<1> QED BY <1>13, <1>14, <1>15

(* A path does not depend on the nodes outside it. *)
LEMMA PathFrame ==
  ASSUME NEW q, NEW h, NEW nx, NEW ny, IsPath(q, h, nx),
         \A x \in NodesOf(q) : ny[x] = nx[x]
  PROVE  IsPath(q, h, ny)
  BY DEF IsPath, NodesOf

(* The empty path. *)
LEMMA PathOfNone ==
  ASSUME NEW nx
  PROVE  IsPath(<<>>, NULL, nx) /\ NodesOf(<<>>) = {}
<1>1. Len(<<>>) = 0 /\ <<>> \in Seq(Nodes)
  OBVIOUS
<1> QED BY <1>1 DEF IsPath, NodesOf

(* The path of one node. *)
LEMMA PathOfOne ==
  ASSUME NEW x \in Nodes, NEW nx, nx[x] = NULL
  PROVE  IsPath(<<x>>, x, nx) /\ NodesOf(<<x>>) = {x}
<1>1. Len(<<x>>) = 1 /\ <<x>> \in Seq(Nodes) /\ <<x>>[1] = x /\ <<x>> # <<>>
  OBVIOUS
<1> QED BY <1>1 DEF IsPath, NodesOf

(* The nodes of a path are nodes; a path is empty if it leads nowhere.      *)
LEMMA PathNodes ==
  ASSUME NEW q, NEW h, NEW nx, IsPath(q, h, nx)
  PROVE  /\ NodesOf(q) \subseteq Nodes
         /\ q = <<>> <=> h = NULL
         /\ Len(q) \in Nat /\ (Len(q) = 0 <=> q = <<>>)
         /\ q # <<>> => h = q[1] /\ h \in NodesOf(q) /\ h \in Nodes
         /\ h # NULL => h = q[1] /\ h \in NodesOf(q) /\ h \in Nodes
<1>1. PICK n \in Nat : n = Len(q)
  BY DEF IsPath
<1>2. q \in [1 .. n -> Nodes] /\ (n = 0 <=> q = <<>>)
  BY <1>1 DEF IsPath
<1>3. NodesOf(q) \subseteq Nodes
  BY <1>1, <1>2 DEF NodesOf
<1>4. q # <<>> => h = q[1] /\ h \in NodesOf(q) /\ h \in Nodes
  BY <1>1, <1>2 DEF IsPath, NodesOf
<1> QED BY <1>1, <1>2, <1>3, <1>4, HeapAssumption DEF IsPath

(* What is in a list is met on the way through it.                          *)
LEMMA PathInList ==
  ASSUME NEW q, NEW h, NEW nx, IsPath(q, h, nx), NEW S, IsList(S, h, nx), NULL \notin S
  PROVE  NodesOf(q) \subseteq S
<1>1. PICK n \in Nat : n = Len(q)
  BY DEF IsPath
<1>2. /\ q \in [1 .. n -> Nodes]
      /\ n # 0 => h = q[1] /\ h \in S
      /\ \A k \in 1 .. n : nx[q[k]] = IF k = n THEN NULL ELSE q[k + 1]
  BY <1>1, HeapAssumption DEF IsPath, IsList
<1> DEFINE T == {k \in Nat : k + 1 <= n => q[k + 1] \in S}
<1>3. 0 \in T
  BY <1>2
<1>4. \A k \in Nat : k \in T => k + 1 \in T
  <2> SUFFICES ASSUME NEW k \in Nat, k + 1 <= n => q[k + 1] \in S, (k + 1) + 1 <= n
               PROVE  q[(k + 1) + 1] \in S
    OBVIOUS
  <2>1. k + 1 \in 1 .. n /\ k + 1 # n /\ (k + 1) + 1 \in 1 .. n
    OBVIOUS
  <2>2. nx[q[k + 1]] = q[(k + 1) + 1] /\ q[(k + 1) + 1] \in Nodes
    BY <1>2, <2>1
  <2> QED BY <2>1, <2>2, HeapAssumption DEF IsList
<1>5. Nat \subseteq T
  <2> HIDE DEF T
  <2> QED BY <1>3, <1>4, NatSetInduction
<1>6. \A i \in 1 .. n : q[i] \in S
  <2> TAKE i \in 1 .. n
  <2>1. i - 1 \in Nat /\ (i - 1) + 1 = i /\ i <= n
    OBVIOUS
  <2>2. i - 1 \in T
    <3> HIDE DEF T
    <3> QED BY <1>5, <2>1
  <2> QED BY <2>1, <2>2
<1> QED BY <1>1, <1>6 DEF NodesOf

(* The node of a list that has no successor is the last of its path.        *)
LEMMA PathLast ==
  ASSUME NEW q, NEW h, NEW nx, IsPath(q, h, nx), q # <<>>,
         NEW S, IsList(S, h, nx), NULL \notin S, NEW l \in S, nx[l] = NULL
  PROVE  l = q[Len(q)]
<1>1. PICK n \in Nat : n = Len(q) /\ n # 0
  BY DEF IsPath
<1>2. q[n] \in S
  BY <1>1, PathInList DEF NodesOf
<1>3. nx[q[n]] = NULL
  BY <1>1 DEF IsPath
<1> QED BY <1>1, <1>2, <1>3 DEF IsList

(* Taking the first node of a path. *)
LEMMA PathPop ==
  ASSUME NEW q, NEW h, NEW nx, IsPath(q, h, nx), h # NULL
  PROVE  /\ IsPath(Tail(q), nx[h], nx)
         /\ NodesOf(Tail(q)) = NodesOf(q) \ {h}
         /\ Len(Tail(q)) = Len(q) - 1
<1>1. PICK n \in Nat : n = Len(q)
  BY DEF IsPath
<1>2. /\ q \in Seq(Nodes)
      /\ n # 0 /\ h = q[1] /\ q # <<>>
      /\ \A k \in 1 .. n : q[k] \in Nodes
      /\ \A k \in 1 .. n : nx[q[k]] = IF k = n THEN NULL ELSE q[k + 1]
  BY <1>1 DEF IsPath
<1>3. PICK m \in Nat : m = n - 1
  BY <1>2
<1> DEFINE r == Tail(q)
<1>4. r \in Seq(Nodes) /\ Len(r) = m /\ \A i \in 1 .. m : r[i] = q[i + 1]
  BY <1>1, <1>2, <1>3, HeadTailProperties
<1> HIDE DEF r
<1>5. m = 0 <=> r = <<>>
  BY <1>4, EmptySeq
<1>6. nx[h] = IF r = <<>> THEN NULL ELSE r[1]
  BY <1>2, <1>3, <1>4, <1>5
<1>7. \A i \in 1 .. m : nx[r[i]] = IF i = m THEN NULL ELSE r[i + 1]
  <2> TAKE i \in 1 .. m
  <2>1. i + 1 \in 1 .. n /\ (i + 1 = n <=> i = m) /\ (i # m => i + 1 \in 1 .. m)
    BY <1>3
  <2>2. r[i] = q[i + 1] /\ (i # m => r[i + 1] = q[(i + 1) + 1])
    BY <1>4, <2>1
  <2> QED BY <1>2, <2>1, <2>2
<1>8. IsPath(r, nx[h], nx)
  BY <1>4, <1>6, <1>7 DEF IsPath
<1>9. NodesOf(r) = NodesOf(q) \ {h}
  <2>1. ASSUME NEW i \in 1 .. m
        PROVE  r[i] \in NodesOf(q) \ {h}
    <3>1. i + 1 \in 1 .. n /\ i + 1 # 1 /\ 1 \in 1 .. n
      BY <1>3
    <3>2. q[i + 1] # q[1]
      BY <1>1, <3>1, PathInjective
    <3> QED BY <1>1, <1>2, <1>4, <3>1, <3>2 DEF NodesOf
  <2>2. ASSUME NEW i \in 1 .. n, q[i] # h
        PROVE  q[i] \in NodesOf(r)
    <3>1. i # 1
      BY <1>2, <2>2
    <3>2. i - 1 \in 1 .. m /\ (i - 1) + 1 = i
      BY <1>3, <3>1
    <3>3. r[i - 1] = q[i]
      BY <1>4, <3>2
    <3> QED BY <1>4, <3>2, <3>3 DEF NodesOf
  <2> QED BY <1>1, <1>4, <2>1, <2>2 DEF NodesOf
<1> QED BY <1>1, <1>3, <1>4, <1>8, <1>9 DEF r

(* Putting a node in front of a path. *)
LEMMA PathPush ==
  ASSUME NEW q, NEW h, NEW nx, IsPath(q, h, nx), NEW x \in Nodes \ NodesOf(q),
         NEW ny, ny[x] = h, \A y \in NodesOf(q) : ny[y] = nx[y]
  PROVE  /\ IsPath(<<x>> \o q, x, ny)
         /\ NodesOf(<<x>> \o q) = NodesOf(q) \cup {x}
         /\ Len(<<x>> \o q) = Len(q) + 1
<1>1. PICK n \in Nat : n = Len(q)
  BY DEF IsPath
<1>2. /\ q \in Seq(Nodes) /\ (q = <<>> <=> n = 0)
      /\ h = IF n = 0 THEN NULL ELSE q[1]
      /\ \A k \in 1 .. n : q[k] \in NodesOf(q)
      /\ \A k \in 1 .. n : ny[q[k]] = IF k = n THEN NULL ELSE q[k + 1]
  BY <1>1 DEF IsPath, NodesOf
<1> DEFINE r == <<x>> \o q
<1>3. /\ r \in Seq(Nodes) /\ Len(r) = 1 + n
      /\ \A i \in 1 .. 1 + n : r[i] = IF i <= 1 THEN x ELSE q[i - 1]
  <2>1. <<x>> \in Seq(Nodes) /\ Len(<<x>>) = 1 /\ <<x>>[1] = x
    OBVIOUS
  <2>2. /\ <<x>> \o q \in Seq(Nodes)
        /\ Len(<<x>> \o q) = 1 + n
        /\ \A i \in 1 .. 1 + n :
             (<<x>> \o q)[i] = IF i <= 1 THEN <<x>>[i] ELSE q[i - 1]
    BY <1>1, <1>2, <2>1, ConcatProperties
  <2> QED BY <2>1, <2>2
<1> HIDE DEF r
<1>4. /\ Len(r) = n + 1 /\ r[1] = x
      /\ \A i \in 1 .. n : r[i + 1] = q[i]
  <2>1. \A i \in 1 .. n : i + 1 \in 1 .. 1 + n /\ ~(i + 1 <= 1) /\ (i + 1) - 1 = i
    OBVIOUS
  <2> QED BY <1>3, <2>1
<1>5. \A i \in 1 .. n + 1 : i # 1 => i - 1 \in 1 .. n /\ r[i] = q[i - 1]
  <2> TAKE i \in 1 .. n + 1
  <2> HAVE i # 1
  <2>1. i - 1 \in 1 .. n /\ (i - 1) + 1 = i
    OBVIOUS
  <2> QED BY <1>4, <2>1
<1>6. \A i \in 1 .. n + 1 : ny[r[i]] = IF i = n + 1 THEN NULL ELSE r[i + 1]
  <2> TAKE i \in 1 .. n + 1
  <2>1. CASE i = 1
    BY <1>2, <1>4, <2>1
  <2>2. CASE i # 1
    <3>1. i - 1 \in 1 .. n /\ r[i] = q[i - 1] /\ (i - 1) + 1 = i
      BY <1>5, <2>2
    <3>2. i # n + 1 => i \in 1 .. n /\ r[i + 1] = q[i]
      BY <1>4
    <3>3. i - 1 = n <=> i = n + 1
      OBVIOUS
    <3> QED BY <1>2, <3>1, <3>2, <3>3
  <2> QED BY <2>1, <2>2
<1>7. IsPath(r, x, ny)
  <2>1. r # <<>>
    BY <1>4, EmptySeq
  <2> QED BY <1>3, <1>4, <1>6, <2>1 DEF IsPath
<1>8. NodesOf(r) = NodesOf(q) \cup {x}
  <2>1. \A i \in 1 .. n + 1 : r[i] \in NodesOf(q) \cup {x}
    BY <1>2, <1>4, <1>5
  <2>2. \A i \in 1 .. n : i + 1 \in 1 .. n + 1 /\ q[i] = r[i + 1]
    BY <1>4
  <2>3. 1 \in 1 .. n + 1
    OBVIOUS
  <2> QED BY <1>1, <1>4, <2>1, <2>2, <2>3 DEF NodesOf
<1> QED BY <1>1, <1>3, <1>7, <1>8 DEF r

(* Linking a node to the last one of a path. *)
LEMMA PathAppend ==
  ASSUME NEW q, NEW h, NEW nx, IsPath(q, h, nx), q # <<>>,
         NEW x \in Nodes \ NodesOf(q),
         NEW ny, ny[q[Len(q)]] = x, ny[x] = NULL,
         \A y \in NodesOf(q) \ {q[Len(q)]} : ny[y] = nx[y]
  PROVE  /\ IsPath(Append(q, x), h, ny)
         /\ NodesOf(Append(q, x)) = NodesOf(q) \cup {x}
<1>1. PICK n \in Nat : n = Len(q)
  BY DEF IsPath
<1>2. /\ q \in Seq(Nodes) /\ n # 0 /\ h = q[1]
      /\ \A k \in 1 .. n : q[k] \in NodesOf(q)
      /\ \A k \in 1 .. n : nx[q[k]] = IF k = n THEN NULL ELSE q[k + 1]
  BY <1>1 DEF IsPath, NodesOf
<1> DEFINE r == Append(q, x)
<1>3. r \in Seq(Nodes) /\ r # <<>>
  BY <1>2, AppendProperties
<1>4. Len(r) = n + 1 /\ r[n + 1] = x /\ \A i \in 1 .. n : r[i] = q[i]
  BY <1>1, <1>2, AppendProperties
<1> HIDE DEF r
<1>5. \A i \in 1 .. n + 1 : ny[r[i]] = IF i = n + 1 THEN NULL ELSE r[i + 1]
  <2> TAKE i \in 1 .. n + 1
  <2>1. CASE i = n + 1
    BY <1>4, <2>1
  <2>2. CASE i = n
    BY <1>1, <1>4, <2>2
  <2>3. CASE i # n /\ i # n + 1
    <3>1. i \in 1 .. n /\ n \in 1 .. n /\ i + 1 \in 1 .. n
      BY <2>3
    <3>2. q[i] # q[n]
      BY <1>1, <2>3, <3>1, PathInjective
    <3>3. ny[q[i]] = nx[q[i]]
      BY <1>1, <1>2, <3>1, <3>2
    <3> QED BY <1>2, <1>4, <2>3, <3>1, <3>3
  <2> QED BY <2>1, <2>2, <2>3
<1>6. IsPath(r, h, ny)
  <2>1. r[1] = h
    BY <1>2, <1>4
  <2> QED BY <1>3, <1>4, <1>5, <2>1 DEF IsPath
<1>7. NodesOf(r) = NodesOf(q) \cup {x}
  <2>1. \A i \in 1 .. n + 1 : i = n + 1 \/ i \in 1 .. n
    OBVIOUS
  <2>2. \A i \in 1 .. n : i \in 1 .. n + 1
    OBVIOUS
  <2>3. n + 1 \in 1 .. n + 1
    OBVIOUS
  <2> QED BY <1>1, <1>4, <2>1, <2>2, <2>3 DEF NodesOf
<1> QED BY <1>6, <1>7 DEF r

-----------------------------------------------------------------------------
(* The values of a path depend on the data of its nodes only. *)
LEMMA ValuesFrame ==
  ASSUME NEW q, NEW d, NEW e, q \in Seq(Nodes), \A x \in NodesOf(q) : e[x] = d[x]
  PROVE  ValuesOf(q, e) = ValuesOf(q, d)
<1>1. PICK n \in Nat : n = Len(q)
  BY LenProperties
<1>2. \A i \in 1 .. n - 1 : i + 1 \in 1 .. n
  OBVIOUS
<1>3. \A i \in 1 .. n - 1 : e[q[i + 1]] = d[q[i + 1]]
  BY <1>1, <1>2 DEF NodesOf
<1> QED BY <1>1, <1>3 DEF ValuesOf

(* A path of at most one node has none. *)
LEMMA ValuesOfNone ==
  ASSUME NEW q, NEW d, Len(q) \in {0, 1}
  PROVE  ValuesOf(q, d) = <<>>
<1>1. PICK n \in {0, 1} : n = Len(q)
  OBVIOUS
<1>2. 1 .. n - 1 = {}
  OBVIOUS
<1> QED BY <1>1, <1>2 DEF ValuesOf

(* A node behind the last one adds a value at the end. *)
LEMMA ValuesAppend ==
  ASSUME NEW q \in Seq(Nodes), q # <<>>, NEW x \in Nodes, NEW d,
         ValuesOf(q, d) \in Seq(Values), d[x] \in Values
  PROVE  ValuesOf(Append(q, x), d) = Append(ValuesOf(q, d), d[x])
<1>1. PICK n \in Nat \ {0} : n = Len(q)
  BY EmptySeq
<1> DEFINE r == Append(q, x)
           a == ValuesOf(q, d)
           b == Append(a, d[x])
<1>2. Len(r) = n + 1 /\ r[n + 1] = x /\ \A i \in 1 .. n : r[i] = q[i]
  BY <1>1, AppendProperties
<1>3. Len(a) = n - 1 /\ \A i \in 1 .. n - 1 : a[i] = d[q[i + 1]]
  BY <1>1 DEF ValuesOf
<1>4. /\ b \in Seq(Values) /\ Len(b) = (n - 1) + 1
      /\ \A i \in 1 .. n - 1 : b[i] = a[i]
      /\ b[(n - 1) + 1] = d[x]
  BY <1>3, AppendProperties
<1> HIDE DEF r, a, b
<1>5. b = [i \in 1 .. n |-> b[i]]
  <2>1. b \in [1 .. Len(b) -> Values] /\ Len(b) = n
    BY <1>4, LenProperties
  <2> QED BY <2>1
<1>6. \A i \in 1 .. n : b[i] = d[r[i + 1]]
  <2> TAKE i \in 1 .. n
  <2>1. CASE i = n
    BY <1>2, <1>4, <2>1
  <2>2. CASE i # n
    <3>1. i \in 1 .. n - 1 /\ i + 1 \in 1 .. n
      BY <2>2
    <3> QED BY <1>2, <1>3, <1>4, <3>1
  <2> QED BY <2>1, <2>2
<1>7. ValuesOf(r, d) = [i \in 1 .. n |-> d[r[i + 1]]]
  BY <1>2 DEF ValuesOf
<1> QED BY <1>5, <1>6, <1>7 DEF r, a, b

(* Moving on by one node takes the first value away. *)
LEMMA ValuesTail ==
  ASSUME NEW q \in Seq(Nodes), Len(q) > 1, NEW d, ValuesOf(q, d) \in Seq(Values)
  PROVE  /\ ValuesOf(q, d) # <<>>
         /\ Head(ValuesOf(q, d)) = d[q[2]] /\ d[q[2]] \in Values
         /\ ValuesOf(Tail(q), d) = Tail(ValuesOf(q, d))
         /\ ValuesOf(Tail(q), d) \in Seq(Values)
<1>1. PICK n \in Nat : n = Len(q) /\ n > 1
  BY LenProperties
<1> DEFINE r == Tail(q)
           a == ValuesOf(q, d)
           b == Tail(a)
<1>2. Len(r) = n - 1 /\ \A i \in 1 .. n - 1 : r[i] = q[i + 1]
  <2>1. q # <<>>
    BY <1>1, EmptySeq
  <2> QED BY <1>1, <2>1, HeadTailProperties
<1>3. Len(a) = n - 1 /\ \A i \in 1 .. n - 1 : a[i] = d[q[i + 1]]
  BY <1>1 DEF ValuesOf
<1>4. a # <<>>
  BY <1>1, <1>3, EmptySeq
<1>5. Head(a) = a[1] /\ a[1] = d[q[2]] /\ a[1] \in Values
  <2>1. 1 \in 1 .. n - 1 /\ 1 + 1 = 2
    BY <1>1
  <2>2. a[1] \in Values
    BY <1>3, <2>1, ElementOfSeq
  <2> QED BY <1>3, <2>1, <2>2
<1>6. /\ b \in Seq(Values) /\ Len(b) = (n - 1) - 1
      /\ \A i \in 1 .. (n - 1) - 1 : b[i] = a[i + 1]
  BY <1>3, <1>4, HeadTailProperties
<1> HIDE DEF r, a, b
<1>7. b = [i \in 1 .. (n - 1) - 1 |-> b[i]]
  <2>1. b \in [1 .. Len(b) -> Values]
    BY <1>6, LenProperties
  <2> QED BY <1>6, <2>1
<1>8. \A i \in 1 .. (n - 1) - 1 : b[i] = d[r[i + 1]]
  <2> TAKE i \in 1 .. (n - 1) - 1
  <2>1. i + 1 \in 1 .. n - 1
    BY <1>1
  <2> QED BY <1>2, <1>3, <1>6, <2>1
<1>9. ValuesOf(r, d) = [i \in 1 .. (n - 1) - 1 |-> d[r[i + 1]]]
  BY <1>2 DEF ValuesOf
<1>10. ValuesOf(r, d) = b
  BY <1>7, <1>8, <1>9
<1> QED BY <1>4, <1>5, <1>6, <1>10 DEF r, a, b

-----------------------------------------------------------------------------
(* The paths are what Chain finds. *)
LEMMA PathsAreChains ==
  ASSUME NEW q, NEW G, Paths(q, G)
  PROVE  /\ q = QueuePath /\ G = FreePaths
         /\ num_threads # 0 => Contents = ValuesOf(q, data) /\ ChainNodes(head) = NodesOf(q)
         /\ \A t \in Threads : ChainNodes(freeHead[t]) = NodesOf(G[t])
<1>1. \A t \in Threads : Chain(freeHead[t]) = G[t]
  BY ChainIsPath DEF Paths, Chain
<1>2. num_threads # 0 => Chain(head) = q
  BY ChainIsPath DEF Paths, Chain
<1>3. num_threads = 0 => q = <<>>
  BY PathNodes DEF Paths
<1>4. \A x, p : p \in Seq(Nodes) /\ Chain(x) = p => ChainNodes(x) = NodesOf(p)
  BY LenProperties DEF ChainNodes, NodesOf
<1>5. q \in Seq(Nodes) /\ \A t \in Threads : G[t] \in Seq(Nodes)
  BY DEF Paths, IsPath
<1>6. G = [t \in Threads |-> G[t]]
  BY DEF Paths
<1> QED BY <1>1, <1>2, <1>3, <1>4, <1>5, <1>6 DEF QueuePath, FreePaths, Contents, ValuesOf

(* Also after a step. *)
LEMMA PathsAreChainsNext ==
  ASSUME NEW q, NEW G, Paths(q, G)'
  PROVE  /\ q = QueuePath' /\ G = FreePaths'
         /\ num_threads' # 0 => Contents' = ValuesOf(q, data')
<1>1. \A t \in Threads : Chain(freeHead[t])' = G[t]
  BY ChainIsPath DEF Paths, Chain
<1>2. num_threads' # 0 => Chain(head)' = q
  BY ChainIsPath DEF Paths, Chain
<1>3. num_threads' = 0 => q = <<>>
  BY PathNodes DEF Paths
<1>4. G = [t \in Threads |-> G[t]]
  BY DEF Paths
<1> QED BY <1>1, <1>2, <1>3, <1>4 DEF QueuePath, FreePaths, Contents, ValuesOf

(* upcylce_node takes a node off its list. *)
LEMMA UpcyclePaths ==
  ASSUME HeapTypeOK, NEW t \in Threads, NEW n \in Nodes, Upcycle(t, n),
         UNCHANGED <<num_threads, head, tail>>, NEW q, NEW G, Paths(q, G),
         NEW G2, G2 = Popped(G, t)
  PROVE  /\ Paths(q, G2)'
         /\ heap' \ Listed(q, G2) = (heap \ Listed(q, G)) \cup {n}
         /\ n \notin heap \ Listed(q, G) /\ n \notin Listed(q, G2)
         /\ ValuesOf(q, data') = ValuesOf(q, data)
<1>1. CASE freeHead[t] = NULL
  <2>1. G2 = G
    BY <1>1 DEF Paths, Popped
  <2>2. n \notin heap /\ heap' = heap \cup {n} /\ UNCHANGED <<freeHead, freeSize>>
    BY <1>1 DEF Upcycle, MakeNode
  <2>3. \A x \in heap : next'[x] = next[x] /\ data'[x] = data[x]
    BY <1>1 DEF Upcycle, MakeNode, HeapTypeOK
  <2>4. Listed(q, G) \subseteq heap
    BY DEF Paths
  <2>5. IsPath(q, IF num_threads' = 0 THEN NULL ELSE head', next')
    <3>1. \A x \in NodesOf(q) : next'[x] = next[x]
      BY <2>3, <2>4 DEF Listed
    <3> QED BY <3>1, PathFrame DEF Paths
  <2>6. \A u \in Threads : IsPath(G[u], freeHead'[u], next')
    <3> TAKE u \in Threads
    <3>1. \A x \in NodesOf(G[u]) : next'[x] = next[x]
      BY <2>3, <2>4 DEF Listed
    <3> QED BY <2>2, <3>1, PathFrame DEF Paths
  <2>7. ValuesOf(q, data') = ValuesOf(q, data)
    <3>1. \A x \in NodesOf(q) : data'[x] = data[x]
      BY <2>3, <2>4 DEF Listed
    <3> QED BY <3>1, ValuesFrame DEF Paths, IsPath
  <2>8. Paths(q, G)'
    BY <2>2, <2>4, <2>5, <2>6 DEF Paths
  <2> QED BY <2>1, <2>2, <2>4, <2>7, <2>8
<1>2. CASE freeHead[t] # NULL
  <2>1. /\ n = freeHead[t] /\ UNCHANGED <<next, data, heap>>
        /\ freeHead' = [freeHead EXCEPT ![t] = next[n]]
        /\ freeSize' = [freeSize EXCEPT ![t] = @ - 1]
    BY <1>2 DEF Upcycle
  <2>2. G2 = [G EXCEPT ![t] = Tail(G[t])]
    BY <1>2 DEF Popped
  <2>3. G2[t] = Tail(G[t]) /\ \A u \in Threads : u # t => G2[u] = G[u]
    BY <2>2 DEF Paths
  <2>4. IsPath(G[t], freeHead[t], next)
    BY DEF Paths
  <2>5. /\ IsPath(G2[t], next[n], next)
        /\ NodesOf(G2[t]) = NodesOf(G[t]) \ {n}
        /\ Len(G2[t]) = Len(G[t]) - 1
    <3>1. /\ IsPath(Tail(G[t]), next[freeHead[t]], next)
          /\ NodesOf(Tail(G[t])) = NodesOf(G[t]) \ {freeHead[t]}
          /\ Len(Tail(G[t])) = Len(G[t]) - 1
      BY <1>2, <2>4, PathPop
    <3> QED BY <2>1, <2>3, <3>1
  <2>6. n \in NodesOf(G[t])
    BY <1>2, <2>1, <2>4, PathNodes
  <2>7. /\ freeHead'[t] = next[n] /\ \A u \in Threads : u # t => freeHead'[u] = freeHead[u]
        /\ freeSize'[t] = freeSize[t] - 1
        /\ \A u \in Threads : u # t => freeSize'[u] = freeSize[u]
    BY <2>1 DEF HeapTypeOK
  <2>8. Listed(q, G2) = Listed(q, G) \ {n}
    <3>1. n \notin NodesOf(q) /\ \A u \in Threads : u # t => n \notin NodesOf(G[u])
      BY <2>6 DEF Paths
    <3> QED BY <2>3, <2>5, <3>1 DEF Listed
  <2>9. \A u \in Threads : IsPath(G2[u], freeHead'[u], next') /\ freeSize'[u] = Len(G2[u])
    <3> TAKE u \in Threads
    <3>1. IsPath(G[u], freeHead[u], next) /\ freeSize[u] = Len(G[u])
      BY DEF Paths
    <3>2. CASE u = t
      BY <2>1, <2>5, <2>7, <3>1, <3>2
    <3>3. CASE u # t
      BY <2>1, <2>3, <2>7, <3>1, <3>3
    <3> QED BY <3>2, <3>3
  <2>10. G2 \in [Threads -> Seq(Nodes)]
    <3>1. G2[t] \in Seq(Nodes)
      BY <2>5 DEF IsPath
    <3> QED BY <2>2, <2>3, <3>1 DEF Paths
  <2>11. num_threads # 0
    <3>1. G[t] # <<>>
      BY <1>2, <2>4, PathNodes
    <3> QED BY <3>1 DEF Paths
  <2>12. Paths(q, G2)'
    <3>1. Listed(q, G2) \subseteq heap'
      BY <2>1, <2>8 DEF Paths
    <3>2. \A u \in Threads : NodesOf(G2[u]) \subseteq NodesOf(G[u])
      BY <2>3, <2>5
    <3>3. /\ \A u \in Threads : NodesOf(q) \cap NodesOf(G2[u]) = {}
          /\ \A u, v \in Threads : u # v => NodesOf(G2[u]) \cap NodesOf(G2[v]) = {}
      BY <3>2 DEF Paths
    <3> QED BY <2>1, <2>9, <2>10, <2>11, <3>1, <3>3 DEF Paths
  <2>13. Listed(q, G) \subseteq heap /\ n \in Listed(q, G)
    BY <2>6 DEF Paths, Listed
  <2>14. heap' \ Listed(q, G2) = (heap \ Listed(q, G)) \cup {n}
    BY <2>1, <2>8, <2>13
  <2> QED BY <2>1, <2>8, <2>12, <2>13, <2>14
<1> QED BY <1>1, <1>2

(* recycle_node puts a loose node on a list. *)
LEMMA RecyclePaths ==
  ASSUME HeapTypeOK, NEW t \in Threads, NEW x \in Nodes, Recycle(t, x),
         UNCHANGED <<num_threads, head, tail>>, num_threads # 0, NEW q, NEW G, Paths(q, G),
         x \in heap \ Listed(q, G),
         NEW G2, G2 = Pushed(G, t, x)
  PROVE  /\ Paths(q, G2)'
         /\ heap' \ Listed(q, G2) = (heap \ Listed(q, G)) \ {x}
         /\ ValuesOf(q, data') = ValuesOf(q, data)
<1>1. /\ UNCHANGED <<data, heap>>
      /\ next'[x] = freeHead[t] /\ \A y \in Nodes : y # x => next'[y] = next[y]
      /\ freeHead'[t] = x /\ \A u \in Threads : u # t => freeHead'[u] = freeHead[u]
      /\ freeSize'[t] = freeSize[t] + 1
      /\ \A u \in Threads : u # t => freeSize'[u] = freeSize[u]
  BY DEF Recycle, HeapTypeOK
<1>2. G2[t] = <<x>> \o G[t] /\ \A u \in Threads : u # t => G2[u] = G[u]
  BY DEF Paths, Pushed
<1>3. /\ x \notin NodesOf(q) /\ \A u \in Threads : x \notin NodesOf(G[u])
      /\ NodesOf(q) \subseteq Nodes /\ \A u \in Threads : NodesOf(G[u]) \subseteq Nodes
  BY DEF Listed, Paths, HeapTypeOK
<1>4. /\ IsPath(G2[t], freeHead'[t], next')
      /\ NodesOf(G2[t]) = NodesOf(G[t]) \cup {x}
      /\ Len(G2[t]) = Len(G[t]) + 1
  <2>1. IsPath(G[t], freeHead[t], next)
    BY DEF Paths
  <2>2. \A y \in NodesOf(G[t]) : next'[y] = next[y]
    BY <1>1, <1>3
  <2> QED BY <1>1, <1>2, <1>3, <2>1, <2>2, PathPush
<1>5. IsPath(q, IF num_threads' = 0 THEN NULL ELSE head', next')
  <2>1. \A y \in NodesOf(q) : next'[y] = next[y]
    BY <1>1, <1>3
  <2> QED BY <2>1, PathFrame DEF Paths
<1>6. \A u \in Threads : IsPath(G2[u], freeHead'[u], next') /\ freeSize'[u] = Len(G2[u])
  <2> TAKE u \in Threads
  <2>1. CASE u = t
    BY <1>1, <1>4, <2>1 DEF Paths
  <2>2. CASE u # t
    <3>1. \A y \in NodesOf(G[u]) : next'[y] = next[y]
      BY <1>1, <1>3
    <3>2. IsPath(G[u], freeHead[u], next) /\ freeSize[u] = Len(G[u])
      BY DEF Paths
    <3>3. IsPath(G[u], freeHead[u], next')
      BY ONLY <3>1, <3>2, PathFrame
    <3>4. G2[u] = G[u] /\ freeHead'[u] = freeHead[u] /\ freeSize'[u] = freeSize[u]
      BY <1>1, <1>2, <2>2
    <3> QED BY ONLY <3>2, <3>3, <3>4
  <2> QED BY <2>1, <2>2
<1>7. Listed(q, G2) = Listed(q, G) \cup {x}
  BY <1>2, <1>4 DEF Listed
<1>8. G2 \in [Threads -> Seq(Nodes)]
  <2>1. G2[t] \in Seq(Nodes)
    BY <1>4 DEF IsPath
  <2>2. G \in [Threads -> Seq(Nodes)]
    BY DEF Paths
  <2> QED BY <1>2, <2>1, <2>2 DEF Pushed
<1>9. Listed(q, G2) \subseteq heap'
  BY <1>1, <1>7 DEF Paths
<1>10. /\ \A u \in Threads : NodesOf(q) \cap NodesOf(G2[u]) = {}
       /\ \A u, v \in Threads : u # v => NodesOf(G2[u]) \cap NodesOf(G2[v]) = {}
  <2>1. \A u \in Threads :
          /\ u # t => NodesOf(G2[u]) = NodesOf(G[u])
          /\ u = t => NodesOf(G2[u]) = NodesOf(G[u]) \cup {x}
    BY <1>2, <1>4
  <2>2. /\ \A u \in Threads : NodesOf(q) \cap NodesOf(G[u]) = {}
        /\ \A u, v \in Threads : u # v => NodesOf(G[u]) \cap NodesOf(G[v]) = {}
    BY DEF Paths
  <2>3. \A u \in Threads : NodesOf(q) \cap NodesOf(G2[u]) = {}
    BY <1>3, <2>1, <2>2
  <2>4. \A u, v \in Threads : u # v => NodesOf(G2[u]) \cap NodesOf(G2[v]) = {}
    <3> TAKE u, v \in Threads
    <3> HAVE u # v
    <3>1. NodesOf(G[u]) \cap NodesOf(G[v]) = {} /\ x \notin NodesOf(G[u]) /\ x \notin NodesOf(G[v])
      BY <1>3, <2>2
    <3> QED BY <2>1, <3>1
  <2> QED BY <2>3, <2>4
<1>11. num_threads' # 0 => q # <<>>
  BY DEF Paths
<1>12. Paths(q, G2)'
  BY <1>5, <1>6, <1>8, <1>9, <1>10, <1>11 DEF Paths
<1> QED BY <1>1, <1>7, <1>12

(* enq writes to the fields of a loose node. *)
LEMMA FillPaths ==
  ASSUME HeapTypeOK, NEW q, NEW G, Paths(q, G), NEW x \in Nodes, x \notin Listed(q, G),
         \A y \in Nodes \ {x} : next'[y] = next[y] /\ data'[y] = data[y],
         UNCHANGED <<num_threads, head, heap, freeHead, freeSize>>
  PROVE  Paths(q, G)' /\ ValuesOf(q, data') = ValuesOf(q, data)
<1>1. /\ \A y \in NodesOf(q) : next'[y] = next[y] /\ data'[y] = data[y]
      /\ \A u \in Threads : \A y \in NodesOf(G[u]) : next'[y] = next[y]
  BY DEF Listed, Paths, HeapTypeOK
<1>2. IsPath(q, IF num_threads' = 0 THEN NULL ELSE head', next')
  BY <1>1, PathFrame DEF Paths
<1>3. \A u \in Threads : IsPath(G[u], freeHead'[u], next')
  BY <1>1, PathFrame DEF Paths
<1>4. ValuesOf(q, data') = ValuesOf(q, data)
  BY <1>1, ValuesFrame DEF Paths, IsPath
<1> QED BY <1>2, <1>3, <1>4 DEF Paths

(* enq links a loose node to the last one of the queue. *)
LEMMA LinkPaths ==
  ASSUME HeapTypeOK, NEW q, NEW G, Paths(q, G), num_threads # 0,
         NEW x \in heap \ Listed(q, G), next[x] = NULL, data[x] \in Values,
         NEW l, l = q[Len(q)], next' = [next EXCEPT ![l] = x],
         UNCHANGED <<num_threads, head, data, heap, freeHead, freeSize>>,
         ValuesOf(q, data) \in Seq(Values)
  PROVE  /\ Paths(Append(q, x), G)'
         /\ heap' \ Listed(Append(q, x), G) = (heap \ Listed(q, G)) \ {x}
         /\ ValuesOf(Append(q, x), data') = Append(ValuesOf(q, data), data[x])
         /\ ValuesOf(Append(q, x), data') \in Seq(Values)
<1>1. q # <<>> /\ IsPath(q, head, next) /\ q \in Seq(Nodes)
  BY DEF Paths, IsPath
<1>2. l \in NodesOf(q) /\ l \in Nodes
  <2>1. Len(q) \in 1 .. Len(q)
    BY <1>1, EmptySeq
  <2> QED BY <1>1, <2>1, ElementOfSeq DEF NodesOf
<1>3. x \in Nodes /\ x \notin NodesOf(q) /\ \A u \in Threads : x \notin NodesOf(G[u])
  BY DEF Listed, HeapTypeOK
<1>4. x # l
  BY <1>2, <1>3
<1>5. next'[l] = x /\ next'[x] = NULL /\ \A y \in Nodes : y # l => next'[y] = next[y]
  BY <1>2, <1>3, <1>4 DEF HeapTypeOK
<1>6. /\ IsPath(Append(q, x), head, next')
      /\ NodesOf(Append(q, x)) = NodesOf(q) \cup {x}
  <2>1. \A y \in NodesOf(q) \ {q[Len(q)]} : next'[y] = next[y]
    BY <1>1, <1>5, PathNodes
  <2>2. next'[q[Len(q)]] = x
    BY <1>5
  <2>3. x \in Nodes \ NodesOf(q) /\ next'[x] = NULL
    BY <1>3, <1>5
  <2> QED BY ONLY <1>1, <2>1, <2>2, <2>3, PathAppend
<1>7. \A u \in Threads : IsPath(G[u], freeHead'[u], next')
  <2> TAKE u \in Threads
  <2>1. \A y \in NodesOf(G[u]) : next'[y] = next[y]
    BY <1>2, <1>5 DEF Paths, Listed, HeapTypeOK
  <2> QED BY <2>1, PathFrame DEF Paths
<1>8. Listed(Append(q, x), G) = Listed(q, G) \cup {x}
  BY <1>6 DEF Listed
<1>9. Append(q, x) # <<>> /\ Append(ValuesOf(q, data), data[x]) \in Seq(Values)
  BY <1>1, <1>3, AppendProperties
<1>10. ValuesOf(Append(q, x), data') = Append(ValuesOf(q, data), data[x])
  BY <1>1, <1>3, ValuesAppend
<1>11. Paths(Append(q, x), G)'
  BY <1>3, <1>6, <1>7, <1>8, <1>9 DEF Paths
<1> QED BY <1>8, <1>9, <1>10, <1>11

(* deq moves head on: the old dummy node is loose, and the oldest value is  *)
(* gone.                                                                    *)
LEMMA MoveHeadPaths ==
  ASSUME HeapTypeOK, NEW q, NEW G, Paths(q, G), num_threads # 0,
         next[head] # NULL, head' = next[head],
         UNCHANGED <<num_threads, next, data, heap, freeHead, freeSize>>,
         ValuesOf(q, data) \in Seq(Values)
  PROVE  /\ Paths(Tail(q), G)'
         /\ heap' \ Listed(Tail(q), G) = (heap \ Listed(q, G)) \cup {head}
         /\ head \in Listed(q, G) /\ head' \in NodesOf(Tail(q))
         /\ ValuesOf(q, data) # <<>>
         /\ Head(ValuesOf(q, data)) = data[next[head]] /\ data[next[head]] \in Values
         /\ ValuesOf(Tail(q), data') = Tail(ValuesOf(q, data))
         /\ ValuesOf(Tail(q), data') \in Seq(Values)
<1>1. q # <<>> /\ IsPath(q, head, next) /\ q \in Seq(Nodes)
  BY DEF Paths, IsPath
<1>2. head \in NodesOf(q) /\ head = q[1] /\ head # NULL
  BY <1>1, PathNodes
<1>3. Len(q) > 1 /\ next[head] = q[2]
  <2>1. PICK n \in Nat \ {0} : n = Len(q)
    BY <1>1, EmptySeq
  <2>2. next[q[1]] = IF 1 = n THEN NULL ELSE q[1 + 1]
    BY <1>1, <2>1 DEF IsPath
  <2> QED BY <1>2, <2>1, <2>2
<1>4. /\ IsPath(Tail(q), head', next)
      /\ NodesOf(Tail(q)) = NodesOf(q) \ {head}
  BY <1>1, <1>2, PathPop
<1>5. Tail(q) # <<>> /\ head' \in NodesOf(Tail(q))
  BY <1>4, PathNodes
<1>6. head \notin UNION {NodesOf(G[t]) : t \in Threads}
  BY <1>2 DEF Paths
<1>7. Listed(Tail(q), G) = Listed(q, G) \ {head}
  BY <1>4, <1>6 DEF Listed
<1>8. Paths(Tail(q), G)'
  BY <1>4, <1>5, <1>7 DEF Paths
<1>9. /\ ValuesOf(q, data) # <<>>
      /\ Head(ValuesOf(q, data)) = data[next[head]] /\ data[next[head]] \in Values
      /\ ValuesOf(Tail(q), data) = Tail(ValuesOf(q, data))
      /\ ValuesOf(Tail(q), data) \in Seq(Values)
  BY <1>1, <1>3, ValuesTail
<1>10. head \in Listed(q, G) /\ Listed(q, G) \subseteq heap
  BY <1>2 DEF Listed, Paths
<1> QED BY <1>5, <1>7, <1>8, <1>9, <1>10

(* A queue that exists from the start is a path of one node. *)
LEMMA FirstPaths ==
  ASSUME HeapInit, NEW G, G = [t \in Threads |-> <<>>]
  PROVE  /\ Paths(<<head>>, G)
         /\ heap \ Listed(<<head>>, G) = {}
         /\ ValuesOf(<<head>>, data) \in Seq(Values)
<1>1. PICK x \in Nodes : /\ head = x /\ next[x] = NULL /\ heap = {x} /\ num_threads # 0
                         /\ freeHead = [t \in Threads |-> NULL]
                         /\ freeSize = [t \in Threads |-> 0]
  BY HeapAssumption DEF HeapInit
<1>2. IsPath(<<x>>, x, next) /\ NodesOf(<<x>>) = {x} /\ Len(<<x>>) = 1 /\ <<x>> # <<>>
  BY <1>1, PathOfOne
<1>3. IsPath(<<>>, NULL, next) /\ NodesOf(<<>>) = {} /\ Len(<<>>) = 0 /\ <<>> \in Seq(Nodes)
  BY PathOfNone
<1>4. Listed(<<x>>, G) = {x}
  BY <1>2, <1>3 DEF Listed
<1>5. Paths(<<x>>, G)
  BY <1>1, <1>2, <1>3, <1>4 DEF Paths
<1>6. ValuesOf(<<x>>, data) = <<>> /\ <<>> \in Seq(Values)
  BY <1>2, ValuesOfNone
<1> QED BY <1>1, <1>4, <1>5, <1>6

(* So is a queue that is set up later. *)
LEMMA FreshPaths ==
  ASSUME HeapTypeOK, InitHeap, NEW q, NEW G, Paths(q, G), NEW G2, G2 = [t \in Threads |-> <<>>]
  PROVE  /\ Paths(<<head>>, G2)'
         /\ heap' \ Listed(<<head>>', G2) = heap \ Listed(q, G)
         /\ ValuesOf(<<head>>, data)' = <<>>
<1>1. PICK x \in Nodes \ heap :
        /\ head' = x /\ next' = [next EXCEPT ![x] = NULL] /\ heap' = heap \cup {x}
        /\ num_threads' # 0 /\ num_threads = 0
        /\ freeHead' = [t \in Threads |-> NULL]
        /\ freeSize' = [t \in Threads |-> 0]
  BY HeapAssumption DEF InitHeap, MakeNode
<1>2. next'[x] = NULL
  BY <1>1 DEF HeapTypeOK
<1>3. IsPath(<<x>>, x, next') /\ NodesOf(<<x>>) = {x} /\ Len(<<x>>) = 1 /\ <<x>> # <<>>
  BY <1>2, PathOfOne
<1>4. IsPath(<<>>, NULL, next') /\ NodesOf(<<>>) = {} /\ Len(<<>>) = 0 /\ <<>> \in Seq(Nodes)
  BY PathOfNone
<1>5. Listed(<<x>>, G2) = {x}
  BY <1>3, <1>4 DEF Listed
<1>6. Paths(<<head>>, G2)'
  BY <1>1, <1>3, <1>4, <1>5 DEF Paths
<1>7. ValuesOf(<<head>>, data)' = <<>>
  BY <1>1, <1>3, ValuesOfNone
<1>8. Listed(q, G) = {}
  <2>1. NodesOf(q) = {} /\ \A t \in Threads : NodesOf(G[t]) = {}
    <3>1. q = <<>> /\ \A t \in Threads : G[t] = <<>>
      BY <1>1, PathNodes DEF Paths
    <3> QED BY <1>4, <3>1
  <2> QED BY <2>1 DEF Listed
<1> QED BY <1>1, <1>5, <1>6, <1>7, <1>8

(* destroy_queue leaves no lists, and of the nodes only the loose ones that *)
(* it does not free.                                                        *)
LEMMA NoPaths ==
  ASSUME NEW q, NEW G, Paths(q, G), NEW others, FreeAll(others),
         NEW G2, G2 = [t \in Threads |-> <<>>]
  PROVE  /\ Paths(<<>>, G2)'
         /\ heap' \ Listed(<<>>, G2) = (heap \ Listed(q, G)) \ others
         /\ ValuesOf(<<>>, data') = <<>>
<1>1. /\ num_threads' = 0 /\ freeHead' = [t \in Threads |-> NULL]
      /\ freeSize' = [t \in Threads |-> 0]
      /\ num_threads # 0
      /\ heap' = heap \ (ChainNodes(head) \cup others
                          \cup UNION {ChainNodes(freeHead[t]) : t \in Threads})
  BY DEF FreeAll
<1>2. ChainNodes(head) = NodesOf(q) /\ \A t \in Threads : ChainNodes(freeHead[t]) = NodesOf(G[t])
  BY <1>1, PathsAreChains
<1>3. heap' = (heap \ Listed(q, G)) \ others
  BY <1>1, <1>2 DEF Listed
<1>4. IsPath(<<>>, NULL, next') /\ NodesOf(<<>>) = {} /\ Len(<<>>) = 0 /\ <<>> \in Seq(Nodes)
  BY PathOfNone
<1>5. Listed(<<>>, G2) = {}
  BY <1>4 DEF Listed
<1>6. Paths(<<>>, G2)'
  BY <1>1, <1>4, <1>5 DEF Paths
<1>7. ValuesOf(<<>>, data') = <<>>
  BY <1>4, ValuesOfNone
<1> QED BY <1>1, <1>3, <1>5, <1>6, <1>7

(* Every allocated node is in the queue, in one free list or in the hands   *)
(* of one thread.                                                           *)
LEMMA OneOwner ==
  ASSUME NEW q, NEW G, Paths(q, G), NEW H,
         heap \ Listed(q, G) = UNION {H[t] : t \in Threads},
         \A t, u \in Threads : t # u => H[t] \cap H[u] = {}, NEW x
  PROVE  (IF x \in NodesOf(q) THEN 1 ELSE 0)
           + Cardinality({t \in Threads : x \in NodesOf(G[t])})
           + Cardinality({t \in Threads : x \in H[t]})
         = IF x \in heap THEN 1 ELSE 0
<1> DEFINE A == {t \in Threads : x \in NodesOf(G[t])}
           B == {t \in Threads : x \in H[t]}
<1>1. Listed(q, G) \subseteq heap
  BY DEF Paths
<1>2. A = {} \/ \E t \in Threads : A = {t}
  BY DEF Paths
<1>3. B = {} \/ \E t \in Threads : B = {t}
  OBVIOUS
<1>4. A # {} => x \notin NodesOf(q) /\ x \in heap /\ B = {}
  BY <1>1 DEF Paths, Listed
<1>5. B # {} => x \notin NodesOf(q) /\ x \in heap /\ A = {}
  BY DEF Listed
<1>6. x \in NodesOf(q) => x \in heap
  BY <1>1 DEF Listed
<1>7. x \in heap => x \in NodesOf(q) \/ A # {} \/ B # {}
  BY DEF Listed
<1>8. Cardinality({}) = 0 /\ \A t : Cardinality({t}) = 1
  BY FS_EmptySet, FS_Singleton
<1> HIDE DEF A, B
<1>9. Cardinality(A) = (IF A = {} THEN 0 ELSE 1) /\ Cardinality(B) = (IF B = {} THEN 0 ELSE 1)
  BY <1>2, <1>3, <1>8
<1>10. (IF x \in NodesOf(q) THEN 1 ELSE 0) + Cardinality(A) + Cardinality(B)
         = IF x \in heap THEN 1 ELSE 0
  BY <1>4, <1>5, <1>6, <1>7, <1>9
<1> QED BY <1>10 DEF A, B

(* The shape in terms of any paths, now and after a step. *)
LEMMA ShapeDef ==
  ASSUME NEW held, Shape(held)
  PROVE  \E q \in Seq(Nodes), G \in [Threads -> Seq(Nodes)] :
           /\ Paths(q, G)
           /\ heap \ Listed(q, G) = held
           /\ ValuesOf(q, data) \in Seq(Values)
           /\ (IF num_threads = 0 THEN <<>> ELSE Contents) = ValuesOf(q, data)
<1>1. PICK q, G : q = QueuePath /\ G = FreePaths
  OBVIOUS
<1>2. Paths(q, G) /\ heap \ Listed(q, G) = held /\ ValuesOf(q, data) \in Seq(Values)
  BY <1>1 DEF Shape, Loose
<1>3. (IF num_threads = 0 THEN <<>> ELSE Contents) = ValuesOf(q, data)
  <2>1. CASE num_threads = 0
    <3>1. IsPath(q, NULL, next)
      BY <1>2, <2>1 DEF Paths
    <3>2. Len(q) = 0
      BY <3>1, PathNodes
    <3> QED BY <2>1, <3>2, ValuesOfNone
  <2>2. CASE num_threads # 0
    BY <1>2, <2>2, PathsAreChains
  <2> QED BY <2>1, <2>2
<1>4. q \in Seq(Nodes) /\ G \in [Threads -> Seq(Nodes)]
  BY <1>2 DEF Paths, IsPath
<1> QED BY <1>2, <1>3, <1>4

(* After a step. *)
LEMMA ShapeNext ==
  ASSUME NEW q, NEW G, Paths(q, G)', NEW held, heap' \ Listed(q, G) = held,
         ValuesOf(q, data') \in Seq(Values)
  PROVE  /\ Shape(held)'
         /\ (IF num_threads = 0 THEN <<>> ELSE Contents)' = ValuesOf(q, data')
<1>1. q = QueuePath' /\ G = FreePaths'
  BY PathsAreChainsNext
<1>2. Paths(QueuePath, FreePaths)'
  BY <1>1 DEF Paths
<1>3. Shape(held)'
  BY <1>1, <1>2 DEF Shape, Loose
<1>4. (IF num_threads = 0 THEN <<>> ELSE Contents)' = ValuesOf(q, data')
  <2>1. CASE num_threads' = 0
    <3>1. IsPath(q, NULL, next')
      BY <2>1 DEF Paths
    <3>2. Len(q) = 0
      BY <3>1, PathNodes
    <3> QED BY <2>1, <3>2, ValuesOfNone
  <2>2. CASE num_threads' # 0
    BY <2>2, PathsAreChainsNext
  <2> QED BY <2>1, <2>2
<1> QED BY <1>3, <1>4
=============================================================================
