------------------------------ MODULE OpenMPProofs ------------------------------
(***************************************************************************)
(* Theorems about the two programs that add up what the threads of an      *)
(* OpenMP team have counted: Library, for any number of iterations,        *)
(* threads, turns and copies, and Benchmark, for any number of threads and *)
(* repetitions, any batches and any width of the integers.                 *)
(***************************************************************************)
EXTENDS Library, Benchmark, SequenceTheorems, FiniteSetTheorems,
        NaturalsInduction, TLAPS

-----------------------------------------------------------------------------
(***************************************************************************)
(* Sums over a finite set, as the community module defines them.           *)
(***************************************************************************)
(* Induction over the natural numbers, for a set in the place of the        *)
(* predicate: a set that is closed under successors has no smallest number  *)
(* outside it.                                                              *)
LEMMA NatSetInduction ==
  ASSUME NEW S, 0 \in S, \A n \in Nat : n \in S => n + 1 \in S
  PROVE  Nat \subseteq S
<1> DEFINE Missing == Nat \ S
           R == OpToRel(<, Nat)
<1> SUFFICES ASSUME Missing # {} PROVE FALSE
  OBVIOUS
<1>1. IsWellFoundedOn(R, Nat)
  BY NatLessThanWellFounded
<1>2. Missing \subseteq Nat
  OBVIOUS
<1>3. \E x \in Missing : \A y \in Missing : <<y, x>> \notin R
  <2> HIDE DEF Missing, R
  <2> QED BY <1>1, <1>2, WFMin
<1>4. PICK m \in Missing : \A y \in Missing : <<y, m>> \notin R
  BY <1>3
<1>5. m - 1 \in Nat /\ m - 1 < m
  OBVIOUS
<1>6. <<m - 1, m>> \in R
  BY <1>5 DEF OpToRel
<1>7. m - 1 \in S
  BY <1>4, <1>5, <1>6
<1> QED BY <1>5, <1>7

(* Induction over the subsets of a finite set D, likewise for a set P of    *)
(* them: each subset is in P if those with one element less are.            *)
LEMMA SubsetInduction ==
  ASSUME NEW D, IsFiniteSet(D), NEW P,
         \A s \in SUBSET D : (\A x \in s : s \ {x} \in P) => s \in P
  PROVE  SUBSET D \subseteq P
<1> DEFINE N == {n \in Nat : \A s \in SUBSET D : Cardinality(s) = n => s \in P}
<1>1. \A s \in SUBSET D :
        /\ IsFiniteSet(s) /\ Cardinality(s) \in Nat
        /\ Cardinality(s) = 0 <=> s = {}
        /\ \A x \in s : Cardinality(s \ {x}) = Cardinality(s) - 1
  BY FS_Subset, FS_CardinalityType, FS_EmptySet, FS_RemoveElement
<1>2. 0 \in N
  BY <1>1
<1>3. \A n \in Nat : n \in N => n + 1 \in N
  <2> SUFFICES ASSUME NEW n \in N, NEW s \in SUBSET D, Cardinality(s) = n + 1
               PROVE  s \in P
    OBVIOUS
  <2>1. \A x \in s : s \ {x} \in SUBSET D /\ Cardinality(s \ {x}) = n
    BY <1>1
  <2> QED BY <2>1
<1>4. Nat \subseteq N
  <2> HIDE DEF N
  <2> QED BY <1>2, <1>3, NatSetInduction
<1> QED BY <1>1, <1>4

(* g[s] is the sum of f over s, for the subsets s of D in C.                *)
Sums(g, f, C) ==
  g = [s \in C |-> IF s = {} THEN 0
                   ELSE f[CHOOSE x \in s : TRUE] + g[s \ {CHOOSE x \in s : TRUE}]]

(* There are sums over all subsets of a finite set. *)
LEMMA SumsExist ==
  ASSUME NEW D, IsFiniteSet(D), NEW f
  PROVE  \E g : Sums(g, f, SUBSET D)
<1> DEFINE Small(n) == {s \in SUBSET D : Cardinality(s) <= n}
           N == {n \in Nat : \E g : Sums(g, f, Small(n))}
<1>1. \A s \in SUBSET D :
        /\ IsFiniteSet(s) /\ Cardinality(s) \in Nat
        /\ Cardinality(s) = 0 <=> s = {}
        /\ \A x \in s : Cardinality(s \ {x}) = Cardinality(s) - 1
        /\ Cardinality(s) <= Cardinality(D)
  BY FS_Subset, FS_CardinalityType, FS_EmptySet, FS_RemoveElement
<1>2. 0 \in N
  <2>1. Small(0) = {{}}
    BY <1>1
  <2>2. Sums([s \in {{}} |-> 0], f, {{}})
    BY DEF Sums
  <2> QED BY <2>1, <2>2
<1>3. ASSUME NEW n \in Nat, NEW g, Sums(g, f, Small(n))
      PROVE  \E h : Sums(h, f, Small(n + 1))
  <2> DEFINE c(s) == CHOOSE x \in s : TRUE
             h == [s \in Small(n + 1) |-> IF s = {} THEN 0 ELSE f[c(s)] + g[s \ {c(s)}]]
  <2>1. \A s \in Small(n) : g[s] = IF s = {} THEN 0 ELSE f[c(s)] + g[s \ {c(s)}]
    BY <1>3 DEF Sums
  <2>2. \A s \in Small(n + 1) : s # {} => c(s) \in s /\ s \ {c(s)} \in Small(n)
    BY <1>1
  <2>3. Small(n) \subseteq Small(n + 1)
    BY <1>1
  <2> HIDE DEF Small
  <2>4. \A s \in Small(n) : h[s] = g[s]
    BY <2>1, <2>3
  <2>5. ASSUME NEW s \in Small(n + 1)
        PROVE  h[s] = IF s = {} THEN 0 ELSE f[c(s)] + h[s \ {c(s)}]
    <3>1. s # {} => h[s \ {c(s)}] = g[s \ {c(s)}]
      <4> HIDE DEF h, c
      <4> QED BY <2>2, <2>4
    <3> QED BY <3>1
  <2>6. h = [s \in Small(n + 1) |-> h[s]]
    OBVIOUS
  <2> HIDE DEF h
  <2>7. Sums(h, f, Small(n + 1))
    BY <2>5, <2>6 DEF Sums
  <2> QED BY <2>7
<1> HIDE DEF Small
<1>4. \A n \in Nat : n \in N => n + 1 \in N
  BY <1>3
<1>5. Nat \subseteq N
  <2> HIDE DEF N
  <2> QED BY <1>2, <1>4, NatSetInduction
<1>6. Cardinality(D) \in N
  BY <1>1, <1>5
<1>7. Small(Cardinality(D)) = SUBSET D
  BY <1>1 DEF Small
<1> QED BY <1>6, <1>7

(* The sum of the community module is one of them. *)
LEMMA SumIsOne ==
  ASSUME NEW D, IsFiniteSet(D), NEW f
  PROVE  \E g : Sums(g, f, SUBSET D) /\ SumFunctionOnSet(f, D) = g[D]
<1> DEFINE Body(h) == [s \in SUBSET D |->
                         IF s = {} THEN 0
                         ELSE f[CHOOSE x \in s : TRUE] + h[s \ {CHOOSE x \in s : TRUE}]]
<1>1. PICK g : g = CHOOSE h : h = Body(h)
  OBVIOUS
<1>2. \E h : h = Body(h)
  <2>1. PICK h : Sums(h, f, SUBSET D)
    BY SumsExist
  <2>2. h = Body(h)
    BY <2>1 DEF Sums
  <2> QED BY <2>2
<1>3. g = Body(g)
  BY <1>1, <1>2
<1>4. SumFunctionOnSet(f, D) = (CHOOSE h : h = Body(h))[D]
  BY DEF SumFunctionOnSet, FoldFunctionOnSet, MapThenFoldSet
<1>5. SumFunctionOnSet(f, D) = g[D]
  BY ONLY <1>1, <1>4
<1>6. Sums(g, f, SUBSET D)
  BY ONLY <1>3 DEF Sums
<1> QED BY ONLY <1>5, <1>6

(* Sums over the same subsets are the same, whatever the larger sets.       *)
LEMMA SumsUnique ==
  ASSUME NEW D, IsFiniteSet(D), NEW E, E \subseteq D, NEW f, NEW g, NEW h,
         Sums(g, f, SUBSET D), Sums(h, f, SUBSET E)
  PROVE  g[E] = h[E]
<1> DEFINE c(s) == CHOOSE x \in s : TRUE
           P == {s \in SUBSET E : g[s] = h[s]}
<1>1. \A s \in SUBSET E : /\ g[s] = IF s = {} THEN 0 ELSE f[c(s)] + g[s \ {c(s)}]
                          /\ h[s] = IF s = {} THEN 0 ELSE f[c(s)] + h[s \ {c(s)}]
  BY DEF Sums
<1>2. ASSUME NEW s \in SUBSET E, \A x \in s : s \ {x} \in P
      PROVE  s \in P
  <2>1. s # {} => c(s) \in s
    OBVIOUS
  <2> QED BY <1>1, <1>2, <2>1
<1>3. IsFiniteSet(E)
  BY FS_Subset
<1>4. SUBSET E \subseteq P
  <2> HIDE DEF P
  <2> QED BY <1>2, <1>3, SubsetInduction
<1> QED BY <1>4

(* The recursion of the sum. *)
LEMMA SumRec ==
  ASSUME NEW D, IsFiniteSet(D), NEW f
  PROVE  SumFunctionOnSet(f, D) =
           IF D = {} THEN 0
           ELSE f[CHOOSE x \in D : TRUE]
                  + SumFunctionOnSet(f, D \ {CHOOSE x \in D : TRUE})
<1>1. PICK g : Sums(g, f, SUBSET D) /\ SumFunctionOnSet(f, D) = g[D]
  BY SumIsOne
<1>2. PICK E : E = D \ {CHOOSE x \in D : TRUE}
  OBVIOUS
<1>3. E \in SUBSET D /\ IsFiniteSet(E)
  BY <1>2, FS_Subset
<1>4. PICK h : Sums(h, f, SUBSET E) /\ SumFunctionOnSet(f, E) = h[E]
  BY <1>3, SumIsOne
<1>5. g[E] = h[E]
  BY <1>1, <1>3, <1>4, SumsUnique
<1>6. g[D] = IF D = {} THEN 0 ELSE f[CHOOSE x \in D : TRUE] + g[E]
  BY <1>1, <1>2 DEF Sums
<1> QED BY <1>1, <1>2, <1>4, <1>5, <1>6

(* A sum of integers is one. *)
LEMMA SumType ==
  ASSUME NEW D, IsFiniteSet(D), NEW f, \A x \in D : f[x] \in Int
  PROVE  \A s \in SUBSET D : SumFunctionOnSet(f, s) \in Int
<1> DEFINE P == {s \in SUBSET D : SumFunctionOnSet(f, s) \in Int}
<1>1. ASSUME NEW s \in SUBSET D, \A x \in s : s \ {x} \in P
      PROVE  s \in P
  <2>1. PICK x : x = CHOOSE y \in s : TRUE
    OBVIOUS
  <2>2. IsFiniteSet(s) /\ (s # {} => x \in s)
    BY <2>1, FS_Subset
  <2>3. SumFunctionOnSet(f, s) =
          IF s = {} THEN 0 ELSE f[x] + SumFunctionOnSet(f, s \ {x})
    BY <2>1, <2>2, SumRec
  <2> QED BY <1>1, <2>2, <2>3
<1>2. SUBSET D \subseteq P
  <2> HIDE DEF P
  <2> QED BY <1>1, SubsetInduction
<1> QED BY <1>2

(* Any element may be added last. *)
LEMMA SumSplit ==
  ASSUME NEW D, IsFiniteSet(D), NEW f, \A x \in D : f[x] \in Int
  PROVE  \A s \in SUBSET D, x \in D :
           x \in s => SumFunctionOnSet(f, s) = f[x] + SumFunctionOnSet(f, s \ {x})
<1> DEFINE Sum(s) == SumFunctionOnSet(f, s)
           P == {s \in SUBSET D : \A x \in s : Sum(s) = f[x] + Sum(s \ {x})}
<1>1. ASSUME NEW s \in SUBSET D, \A x \in s : s \ {x} \in P
      PROVE  s \in P
  <2> SUFFICES ASSUME NEW x \in s PROVE Sum(s) = f[x] + Sum(s \ {x})
    OBVIOUS
  <2>1. PICK c : c = CHOOSE y \in s : TRUE
    OBVIOUS
  <2>2. IsFiniteSet(s) /\ c \in s
    BY <2>1, FS_Subset
  <2>3. Sum(s) = f[c] + Sum(s \ {c})
    BY <2>1, <2>2, SumRec
  <2>4. CASE x = c
    BY <2>3, <2>4
  <2>5. CASE x # c
    <3>1. Sum(s \ {c}) = f[x] + Sum((s \ {c}) \ {x})
      BY <1>1, <2>2, <2>5
    <3>2. Sum(s \ {x}) = f[c] + Sum((s \ {x}) \ {c})
      BY <1>1, <2>2, <2>5
    <3>3. PICK r : r = (s \ {c}) \ {x}
      OBVIOUS
    <3>4. r = (s \ {x}) \ {c} /\ r \in SUBSET D
      BY <3>3
    <3>5. Sum(r) \in Int /\ f[x] \in Int /\ f[c] \in Int
      BY <2>2, <3>4, SumType
    <3>6. Sum(s \ {c}) = f[x] + Sum(r) /\ Sum(s \ {x}) = f[c] + Sum(r)
      BY <3>1, <3>2, <3>3, <3>4
    <3> HIDE DEF Sum
    <3> QED BY <2>3, <3>5, <3>6
  <2> QED BY <2>4, <2>5
<1>2. SUBSET D \subseteq P
  <2> HIDE DEF P
  <2> QED BY <1>1, SubsetInduction
<1> QED BY <1>2

(* The sum depends on the terms only. *)
LEMMA SumSame ==
  ASSUME NEW D, IsFiniteSet(D), NEW f, NEW g, \A x \in D : f[x] = g[x]
  PROVE  SumFunctionOnSet(f, D) = SumFunctionOnSet(g, D)
<1> DEFINE P == {s \in SUBSET D : SumFunctionOnSet(f, s) = SumFunctionOnSet(g, s)}
<1>1. ASSUME NEW s \in SUBSET D, \A x \in s : s \ {x} \in P
      PROVE  s \in P
  <2>1. PICK x : x = CHOOSE y \in s : TRUE
    OBVIOUS
  <2>2. IsFiniteSet(s) /\ (s # {} => x \in s)
    BY <2>1, FS_Subset
  <2>3. /\ SumFunctionOnSet(f, s) = IF s = {} THEN 0 ELSE f[x] + SumFunctionOnSet(f, s \ {x})
        /\ SumFunctionOnSet(g, s) = IF s = {} THEN 0 ELSE g[x] + SumFunctionOnSet(g, s \ {x})
    BY <2>1, <2>2, SumRec
  <2> QED BY <1>1, <2>2, <2>3
<1>2. SUBSET D \subseteq P
  <2> HIDE DEF P
  <2> QED BY <1>1, SubsetInduction
<1> QED BY <1>2

(* What becomes of the sum when one term changes. *)
LEMMA SumChange ==
  ASSUME NEW D, IsFiniteSet(D), NEW f \in [D -> Int], NEW g \in [D -> Int],
         NEW x \in D, \A y \in D \ {x} : g[y] = f[y]
  PROVE  SumFunction(g) = SumFunction(f) + g[x] - f[x]
<1>1. SumFunctionOnSet(f, D) = f[x] + SumFunctionOnSet(f, D \ {x})
  BY SumSplit
<1>2. SumFunctionOnSet(g, D) = g[x] + SumFunctionOnSet(g, D \ {x})
  BY SumSplit
<1>3. SumFunctionOnSet(f, D \ {x}) = SumFunctionOnSet(g, D \ {x})
  <2>1. IsFiniteSet(D \ {x})
    BY FS_Subset
  <2> QED BY <2>1, SumSame
<1>4. SumFunctionOnSet(f, D \ {x}) \in Int
  BY SumType
<1>5. SumFunction(f) = SumFunctionOnSet(f, D) /\ SumFunction(g) = SumFunctionOnSet(g, D)
  BY DEF SumFunction
<1> QED BY <1>1, <1>2, <1>3, <1>4, <1>5

(* The sum of equal terms. *)
LEMMA SumConst ==
  ASSUME NEW D, IsFiniteSet(D), NEW k \in Int, NEW f, f = [x \in D |-> k]
  PROVE  SumFunction(f) = Cardinality(D) * k
<1> DEFINE P == {s \in SUBSET D : SumFunctionOnSet(f, s) = Cardinality(s) * k}
<1>1. ASSUME NEW s \in SUBSET D, \A x \in s : s \ {x} \in P
      PROVE  s \in P
  <2>1. PICK x : x = CHOOSE y \in s : TRUE
    OBVIOUS
  <2>2. IsFiniteSet(s) /\ (s # {} => x \in s)
    BY <2>1, FS_Subset
  <2>3. SumFunctionOnSet(f, s) =
          IF s = {} THEN 0 ELSE f[x] + SumFunctionOnSet(f, s \ {x})
    BY <2>1, <2>2, SumRec
  <2>4. CASE s = {}
    <3>1. Cardinality(s) = 0
      BY <2>4, FS_EmptySet
    <3> QED BY <2>3, <2>4, <3>1
  <2>5. CASE s # {}
    <3>1. PICK n \in Nat : n = Cardinality(s)
      BY <2>2, FS_CardinalityType
    <3>2. PICK m \in Int : m = n - 1
      BY <3>1
    <3>6. Cardinality(s \ {x}) = m
      BY <2>2, <2>5, <3>1, <3>2, FS_RemoveElement
    <3>3. SumFunctionOnSet(f, s \ {x}) = m * k
      BY <1>1, <2>2, <2>5, <3>6
    <3>4. f[x] = k
      BY <2>2, <2>5
    <3>5. k + m * k = n * k
      BY <3>2, SMT
    <3> QED BY <2>3, <2>5, <3>1, <3>3, <3>4, <3>5
  <2> QED BY <2>4, <2>5
<1>2. SUBSET D \subseteq P
  <2> HIDE DEF P
  <2> QED BY <1>1, SubsetInduction
<1>3. SumFunction(f) = SumFunctionOnSet(f, D)
  BY DEF SumFunction
<1> QED BY <1>2, <1>3

(* Likewise the type of the sum of a function. *)
LEMMA SumFunctionType ==
  ASSUME NEW D, IsFiniteSet(D), NEW f \in [D -> Int]
  PROVE  SumFunction(f) \in Int
<1>1. SumFunctionOnSet(f, D) \in Int
  BY SumType
<1> QED BY <1>1 DEF SumFunction

(* The sum of nothing. *)
LEMMA SumEmpty ==
  ASSUME NEW f, DOMAIN f = {}
  PROVE  SumFunction(f) = 0
<1>1. SumFunctionOnSet(f, {}) = 0
  BY FS_EmptySet, SumRec
<1> QED BY <1>1 DEF SumFunction

(* A term is added. *)
LEMMA SumInsert ==
  ASSUME NEW D, IsFiniteSet(D), NEW x, x \notin D, NEW f \in [D -> Int],
         NEW E, E = D \cup {x}, NEW g \in [E -> Int], \A y \in D : g[y] = f[y]
  PROVE  SumFunction(g) = SumFunction(f) + g[x]
<1>2. IsFiniteSet(E) /\ x \in E /\ E \in SUBSET E /\ E \ {x} = D
  BY FS_AddElement
<1>3. \A y \in E : g[y] \in Int
  OBVIOUS
<1>4. SumFunctionOnSet(g, E) = g[x] + SumFunctionOnSet(g, D)
  BY <1>2, <1>3, SumSplit
<1>5. SumFunctionOnSet(g, D) = SumFunctionOnSet(f, D)
  BY SumSame
<1>6. SumFunctionOnSet(f, D) \in Int /\ g[x] \in Int
  BY <1>2, <1>3, SumType
<1>7. SumFunction(g) = SumFunctionOnSet(g, E) /\ SumFunction(f) = SumFunctionOnSet(f, D)
  BY DEF SumFunction
<1> QED BY <1>4, <1>5, <1>6, <1>7

(* The numbers from 0 to n - 1 are finitely many. *)
LEMMA FirstNumbers ==
  ASSUME NEW n \in Int
  PROVE  /\ IsFiniteSet(0 .. n - 1)
         /\ 0 .. n - 1 \subseteq Nat
         /\ n <= 0 => 0 .. n - 1 = {}
<1>1. PICK z \in Int, k \in Int : z = 0 /\ k = n - 1
  OBVIOUS
<1>2. IsFiniteSet(z .. k)
  BY FS_Interval
<1>3. 0 .. n - 1 \subseteq Nat /\ (n <= 0 => 0 .. n - 1 = {})
  OBVIOUS
<1> QED BY <1>1, <1>2, <1>3

(* The first n terms and one more. *)
LEMMA SumUpTo ==
  ASSUME NEW n \in Nat, NEW f, f \in [0 .. n - 1 -> Int], NEW g, g \in [0 .. n -> Int],
         \A i \in 0 .. n - 1 : g[i] = f[i]
  PROVE  SumFunction(g) = SumFunction(f) + g[n]
<1>1. PICK D, E : D = 0 .. n - 1 /\ E = 0 .. n
  OBVIOUS
<1>2. IsFiniteSet(D)
  BY <1>1, FS_Interval
<1>3. n \notin D /\ E = D \cup {n}
  BY <1>1
<1>4. f \in [D -> Int] /\ g \in [E -> Int] /\ \A i \in D : g[i] = f[i]
  BY <1>1
<1> QED BY ONLY <1>2, <1>3, <1>4, SumInsert

(* The same for a sequence, whose terms are numbered from 1. *)
LEMMA SumFrom1 ==
  ASSUME NEW n \in Nat, NEW f, f \in [1 .. n -> Int], NEW g, g \in [1 .. n + 1 -> Int],
         \A i \in 1 .. n : g[i] = f[i]
  PROVE  SumFunction(g) = SumFunction(f) + g[n + 1]
<1>1. PICK D, E : D = 1 .. n /\ E = 1 .. n + 1
  OBVIOUS
<1>2. IsFiniteSet(D)
  BY <1>1, FS_Interval
<1>3. n + 1 \notin D /\ E = D \cup {n + 1}
  BY <1>1
<1>4. f \in [D -> Int] /\ g \in [E -> Int] /\ \A i \in D : g[i] = f[i]
  BY <1>1
<1> QED BY ONLY <1>2, <1>3, <1>4, SumInsert

(* The sum of a sequence is an integer. *)
LEMMA SumSeqType ==
  ASSUME NEW s \in Seq(Int)
  PROVE  SumFunction(s) \in Int
<1>1. s \in [1 .. Len(s) -> Int] /\ Len(s) \in Nat
  BY LenProperties
<1>2. IsFiniteSet(1 .. Len(s))
  BY <1>1, FS_Interval
<1> QED BY <1>1, <1>2, SumFunctionType

(* An element is appended to a sequence. *)
LEMMA SumAppend ==
  ASSUME NEW s \in Seq(Int), NEW v \in Int
  PROVE  SumFunction(Append(s, v)) = SumFunction(s) + v
<1>1. PICK n \in Nat : n = Len(s)
  BY LenProperties
<1>2. PICK q \in Seq(Int) : q = Append(s, v)
  BY AppendProperties
<1>3. Len(q) = n + 1 /\ q[n + 1] = v /\ \A i \in 1 .. n : q[i] = s[i]
  BY <1>1, <1>2, AppendProperties
<1>4. PICK f : f = s
  OBVIOUS
<1>5. PICK g : g = q
  OBVIOUS
<1>6. f \in [1 .. n -> Int] /\ g \in [1 .. n + 1 -> Int] /\ \A i \in 1 .. n : g[i] = f[i]
  BY <1>1, <1>3, <1>4, <1>5, LenProperties
<1>7. SumFunction(g) = SumFunction(f) + g[n + 1]
  BY ONLY <1>6, SumFrom1, n \in Nat
<1> QED BY <1>2, <1>3, <1>4, <1>5, <1>7

(* The first element of a sequence is taken. *)
LEMMA SumTail ==
  ASSUME NEW s \in Seq(Int), s # <<>>
  PROVE  /\ Head(s) \in Int /\ Tail(s) \in Seq(Int)
         /\ SumFunction(s) = Head(s) + SumFunction(Tail(s))
<1> DEFINE N == {n \in Nat : \A q \in Seq(Int) : Len(q) = n + 1 =>
                   SumFunction(q) = Head(q) + SumFunction(Tail(q))}
<1>t. ASSUME NEW q \in Seq(Int), q # <<>> PROVE Head(q) \in Int /\ Tail(q) \in Seq(Int)
  BY <1>t, HeadTailProperties
<1>1. 0 \in N
  <2> SUFFICES ASSUME NEW q \in Seq(Int), Len(q) = 1
               PROVE  SumFunction(q) = Head(q) + SumFunction(Tail(q))
    OBVIOUS
  <2>1. q # <<>> /\ Head(q) = q[1]
    <3>1. q # <<>>
      <4>1. q = <<>> => Len(q) = 0
        BY EmptySeq
      <4>2. 1 # 0
        OBVIOUS
      <4> QED BY <4>1, <4>2
    <3> QED BY <3>1
  <2>2. Len(Tail(q)) = 0 /\ Tail(q) \in Seq(Int)
    BY <2>1, HeadTailProperties
  <2>3. SumFunction(Tail(q)) = 0
    <3>0. PICK r \in Seq(Int) : r = Tail(q) /\ Len(r) = 0
      BY <2>2
    <3>1. DOMAIN r = {}
      <4>1. DOMAIN r = 1 .. Len(r) /\ 1 .. 0 = {}
        BY LenProperties
      <4> QED BY <3>0, <4>1
    <3> QED BY <3>0, <3>1, SumEmpty
  <2>4. PICK v \in Int : v = q[1]
    BY <1>t, <2>1
  <2>5. q = Append(<<>>, v) /\ <<>> \in Seq(Int)
    <3>1. PICK k \in Seq(Int), u \in Int : q = Append(k, u)
      BY <2>1, SequenceEmptyOrAppend
    <3>2. Len(k) = 0 /\ Len(k) \in Nat /\ u = q[Len(k) + 1]
      BY <3>1, LenProperties, AppendProperties
    <3>3. k = <<>>
      BY <3>2, EmptySeq
    <3> QED BY <2>4, <3>1, <3>2, <3>3
  <2>6. SumFunction(<<>>) = 0
    <3>1. DOMAIN <<>> = {}
      OBVIOUS
    <3> QED BY <3>1, SumEmpty
  <2>7. SumFunction(q) = 0 + v
    BY <2>5, <2>6, SumAppend
  <2> QED BY <2>1, <2>3, <2>4, <2>7
<1>2. ASSUME NEW n \in Nat, n \in N PROVE n + 1 \in N
  <2> SUFFICES ASSUME NEW q \in Seq(Int), Len(q) = (n + 1) + 1
               PROVE  SumFunction(q) = Head(q) + SumFunction(Tail(q))
    OBVIOUS
  <2>1. q # <<>>
    BY EmptySeq
  <2>2. PICK k \in Seq(Int), v \in Int : q = Append(k, v)
    BY <2>1, SequenceEmptyOrAppend
  <2>3. Len(k) = n + 1 /\ k # <<>>
    BY <2>2, EmptySeq, LenProperties, AppendProperties
  <2>4. SumFunction(k) = Head(k) + SumFunction(Tail(k))
    BY <1>2, <2>3
  <2>5. Head(q) = Head(k) /\ Tail(q) = Append(Tail(k), v)
    BY <2>2, <2>3, HeadTailAppend
  <2>6. Head(k) \in Int /\ Tail(k) \in Seq(Int)
    BY <1>t, <2>3
  <2>7. /\ SumFunction(q) = SumFunction(k) + v
        /\ SumFunction(Tail(q)) = SumFunction(Tail(k)) + v
    BY <2>2, <2>5, <2>6, SumAppend
  <2>8. SumFunction(Tail(k)) \in Int
    BY <2>6, SumSeqType
  <2> QED BY <2>4, <2>5, <2>6, <2>7, <2>8
<1>3. Nat \subseteq N
  <2> HIDE DEF N
  <2> QED BY <1>1, <1>2, NatSetInduction
<1>4. PICK n \in Nat : Len(s) = n + 1
  <2>1. Len(s) \in Nat /\ Len(s) # 0
    BY EmptySeq, LenProperties
  <2>2. Len(s) - 1 \in Nat /\ Len(s) = (Len(s) - 1) + 1
    BY <2>1
  <2> QED BY <2>2
<1> QED BY <1>t, <1>3, <1>4

(* Terms that are zero may be left out. *)
LEMMA SumWithoutZeros ==
  ASSUME NEW D, IsFiniteSet(D), NEW E, E \subseteq D,
         NEW f \in [D -> Int], \A x \in D \ E : f[x] = 0
  PROVE  SumFunctionOnSet(f, D) = SumFunctionOnSet(f, E)
<1>0. PICK C : C = D \ E
  OBVIOUS
<1> DEFINE Sum(s) == SumFunctionOnSet(f, s)
           P == {s \in SUBSET C : Sum(E \cup s) = Sum(E)}
<1>1. IsFiniteSet(C)
  BY <1>0, FS_Subset
<1>2. ASSUME NEW s \in SUBSET C, \A x \in s : s \ {x} \in P
      PROVE  s \in P
  <2>1. CASE s = {}
    BY <2>1
  <2>2. CASE s # {}
    <3>1. PICK x \in s : s \ {x} \in P
      BY <1>2, <2>2
    <3>2. PICK A, B : A = E \cup s /\ B = E \cup (s \ {x})
      OBVIOUS
    <3>3. A \in SUBSET D /\ x \in A /\ x \in D /\ B = A \ {x} /\ f[x] = 0 /\ B \in SUBSET D
      BY <1>0, <3>2
    <3>4. Sum(A) = f[x] + Sum(B)
      BY <3>3, SumSplit
    <3>5. Sum(B) \in Int
      BY <3>3, SumType
    <3>6. Sum(B) = Sum(E)
      BY <3>1, <3>2
    <3> HIDE DEF Sum
    <3>7. Sum(E \cup s) = Sum(E)
      BY <3>2, <3>3, <3>4, <3>5, <3>6
    <3> QED BY <3>7
  <2> QED BY <2>1, <2>2
<1>3. SUBSET C \subseteq P
  <2> HIDE DEF P
  <2> QED BY <1>1, <1>2, SubsetInduction
<1>4. E \cup C = D
  BY <1>0
<1> QED BY <1>3, <1>4

(* The sum of zeros. *)
LEMMA SumZeros ==
  ASSUME NEW D, IsFiniteSet(D), NEW f, f = [x \in D |-> 0]
  PROVE  SumFunction(f) = 0
<1>1. PICK n \in Nat : n = Cardinality(D)
  BY FS_CardinalityType
<1>2. PICK z \in Int : z = 0
  OBVIOUS
<1>3. f = [x \in D |-> z]
  BY <1>2
<1>4. SumFunction(f) = n * z
  BY <1>1, <1>3, SumConst
<1>5. n * z = 0
  BY <1>2, SMT
<1> QED BY <1>4, <1>5

(* A sequence of ints is one of integers. *)
LEMMA SeqSubset ==
  ASSUME NEW A, NEW B, A \subseteq B, NEW s \in Seq(A)
  PROVE  s \in Seq(B)
<1>1. PICK n \in Nat : s \in [1 .. n -> A]
  BY SeqDef
<1>2. s \in [1 .. n -> B]
  BY <1>1
<1> QED BY <1>2, SeqDef

-----------------------------------------------------------------------------
(***************************************************************************)
(* Numbers and sums modulo m.                                              *)
(***************************************************************************)
(* a and b differ by a multiple of m. *)
Same(m, a, b) == \E q \in Int : a = b + q * m

(* Every number is the same as itself. *)
LEMMA SameRefl ==
  ASSUME NEW m \in Int, NEW a \in Int
  PROVE  Same(m, a, a)
<1>1. a = a + 0 * m
  BY SMT
<1> QED BY <1>1 DEF Same

(* It is symmetric. *)
LEMMA SameSym ==
  ASSUME NEW m \in Int, NEW a \in Int, NEW b \in Int, Same(m, a, b)
  PROVE  Same(m, b, a)
<1>1. PICK q \in Int : a = b + q * m
  BY DEF Same
<1>2. b = a + (-q) * m
  BY <1>1, SMT
<1>3. -q \in Int
  OBVIOUS
<1> QED BY <1>2, <1>3 DEF Same

(* It is transitive. *)
LEMMA SameTrans ==
  ASSUME NEW m \in Int, NEW a \in Int, NEW b \in Int, NEW c \in Int,
         Same(m, a, b), Same(m, b, c)
  PROVE  Same(m, a, c)
<1>1. PICK q \in Int : a = b + q * m
  BY DEF Same
<1>2. PICK r \in Int : b = c + r * m
  BY DEF Same
<1>3. a = c + (q + r) * m
  BY <1>1, <1>2, SMT
<1>4. q + r \in Int
  OBVIOUS
<1> QED BY <1>3, <1>4 DEF Same

(* Sums of same numbers are the same. *)
LEMMA SameAdd ==
  ASSUME NEW m \in Int, NEW a \in Int, NEW b \in Int, NEW c \in Int, NEW d \in Int,
         Same(m, a, b), Same(m, c, d)
  PROVE  Same(m, a + c, b + d)
<1>1. PICK q \in Int : a = b + q * m
  BY DEF Same
<1>2. PICK r \in Int : c = d + r * m
  BY DEF Same
<1>3. a + c = (b + d) + (q + r) * m
  BY <1>1, <1>2, SMT
<1>4. q + r \in Int
  OBVIOUS
<1> QED BY <1>3, <1>4 DEF Same

(* The remainder is the same number, between 0 and m - 1. *)
LEMMA ModFacts ==
  ASSUME NEW m \in Nat \ {0}, NEW a \in Int
  PROVE  a % m \in 0 .. m - 1 /\ Same(m, a % m, a) /\ (a \in 0 .. m - 1 => a % m = a)
<1>1. PICK q : q = a \div m
  OBVIOUS
<1>2. PICK r : r = a % m
  OBVIOUS
<1>3. q \in Int /\ r \in 0 .. m - 1 /\ a = q * m + r
  BY <1>1, <1>2, SMT
<1>4. r = a + (-q) * m
  BY <1>3, SMT
<1>5. -q \in Int
  BY <1>3
<1>6. a \in 0 .. m - 1 => r = a
  BY <1>2, SMT
<1> QED BY <1>2, <1>3, <1>4, <1>5, <1>6 DEF Same

(* Between 0 and m - 1 no two numbers are the same. *)
LEMMA SameSmall ==
  ASSUME NEW m \in Nat \ {0}, NEW a \in 0 .. m - 1, NEW b \in 0 .. m - 1, Same(m, a, b)
  PROVE  a = b
<1>1. PICK q \in Int : a = b + q * m
  BY DEF Same
<1>2. CASE q >= 1
  <2>1. q * m >= m
    BY <1>2, SMT
  <2> QED BY <1>1, <2>1
<1>3. CASE q <= -1
  <2>1. q * m <= -m
    BY <1>3, SMT
  <2> QED BY <1>1, <2>1
<1>4. CASE q = 0
  BY <1>1, <1>4, SMT
<1> QED BY <1>2, <1>3, <1>4

(* Numbers are the same modulo m if their remainders are equal. *)
LEMMA SameMod ==
  ASSUME NEW m \in Nat \ {0}, NEW a \in Int, NEW b \in Int
  PROVE  Same(m, a, b) <=> a % m = b % m
<1>1. PICK r \in Int : r = a % m
  BY ModFacts
<1>2. PICK s \in Int : s = b % m
  BY ModFacts
<1>3. r \in 0 .. m - 1 /\ s \in 0 .. m - 1 /\ Same(m, r, a) /\ Same(m, s, b)
  BY <1>1, <1>2, ModFacts
<1>4. Same(m, a, r) /\ Same(m, b, s)
  BY <1>3, SameSym
<1>5. ASSUME Same(m, a, b) PROVE r = s
  <2>1. Same(m, r, b)
    BY <1>3, <1>5, SameTrans
  <2>2. Same(m, r, s)
    BY <2>1, <1>4, SameTrans
  <2> QED BY <2>2, <1>3, SameSmall
<1>6. ASSUME r = s PROVE Same(m, a, b)
  <2>1. Same(m, a, s)
    BY <1>4, <1>6
  <2> QED BY <2>1, <1>3, SameTrans
<1> QED BY <1>1, <1>2, <1>5, <1>6

(* A part of a sum is replaced by one that is the same. *)
LEMMA SameMove ==
  ASSUME NEW m \in Int, NEW a \in Int, NEW s \in Int, NEW y \in Int, NEW z \in Int,
         Same(m, a, s), Same(m, y, z)
  PROVE  Same(m, a, s + y - z)
<1>1. PICK q \in Int : a = s + q * m
  BY DEF Same
<1>2. PICK r \in Int : y = z + r * m
  BY DEF Same
<1>3. a = (s + y - z) + (q - r) * m
  BY <1>1, <1>2, SMT
<1>4. q - r \in Int
  OBVIOUS
<1> QED BY <1>3, <1>4 DEF Same

(* Sums of terms that are the same modulo m are. *)
LEMMA SumSameMod ==
  ASSUME NEW D, IsFiniteSet(D), NEW m \in Int, NEW f \in [D -> Int], NEW g \in [D -> Int],
         \A x \in D : Same(m, f[x], g[x])
  PROVE  Same(m, SumFunction(f), SumFunction(g))
<1> DEFINE F(s) == SumFunctionOnSet(f, s)
           G(s) == SumFunctionOnSet(g, s)
           P == {s \in SUBSET D : Same(m, F(s), G(s))}
<1>1. ASSUME NEW s \in SUBSET D, \A x \in s : s \ {x} \in P
      PROVE  s \in P
  <2>1. PICK x : x = CHOOSE y \in s : TRUE
    OBVIOUS
  <2>2. IsFiniteSet(s) /\ (s # {} => x \in s)
    BY <2>1, FS_Subset
  <2>3. /\ F(s) = IF s = {} THEN 0 ELSE f[x] + F(s \ {x})
        /\ G(s) = IF s = {} THEN 0 ELSE g[x] + G(s \ {x})
    BY <2>1, <2>2, SumRec
  <2>4. CASE s = {}
    BY <2>3, <2>4, SameRefl
  <2>5. CASE s # {}
    <3>1. s \ {x} \in P /\ x \in D
      BY <1>1, <2>2, <2>5
    <3>2. PICK a, b : a = F(s \ {x}) /\ b = G(s \ {x})
      OBVIOUS
    <3>3. a \in Int /\ b \in Int /\ f[x] \in Int /\ g[x] \in Int
      BY <3>1, <3>2, SumType
    <3>4. Same(m, a, b) /\ Same(m, f[x], g[x])
      BY <3>1, <3>2
    <3>5. Same(m, f[x] + a, g[x] + b)
      BY <3>3, <3>4, SameAdd
    <3> QED BY <2>3, <2>5, <3>2, <3>5
  <2> QED BY <2>4, <2>5
<1>2. SUBSET D \subseteq P
  <2> HIDE DEF P
  <2> QED BY <1>1, SubsetInduction
<1>3. F(D) = SumFunction(f) /\ G(D) = SumFunction(g)
  BY DEF SumFunction
<1> QED BY <1>2, <1>3

(* An element is left out of a sum. *)
LEMMA SumRemove ==
  ASSUME NEW D, IsFiniteSet(D), NEW x \in D, NEW f \in [D -> Int],
         NEW E, E = D \ {x}, NEW g \in [E -> Int], \A y \in E : g[y] = f[y]
  PROVE  SumFunction(g) = SumFunction(f) - f[x]
<1>1. SumFunctionOnSet(f, D) = f[x] + SumFunctionOnSet(f, E)
  BY SumSplit
<1>2. SumFunctionOnSet(f, E) = SumFunctionOnSet(g, E)
  <2>1. IsFiniteSet(E)
    BY FS_Subset
  <2> QED BY <2>1, SumSame
<1>3. SumFunctionOnSet(f, E) \in Int
  BY SumType
<1>4. SumFunction(f) = SumFunctionOnSet(f, D) /\ SumFunction(g) = SumFunctionOnSet(g, E)
  BY DEF SumFunction
<1> QED BY <1>1, <1>2, <1>3, <1>4

-----------------------------------------------------------------------------
(***************************************************************************)
(* Library.                                                                *)
(***************************************************************************)
(* What makes SomeoneCanMove inductive: there is a copy in stock, or a      *)
(* thread with turns to make has a book.  The thread that finishes last     *)
(* leaves behind the copy it has returned in its last turn.                 *)
CopyOrReader ==
  \/ \E k \in Titles : stock[k] > 0
  \/ \E w \in Workers, k \in Titles : HasTurn(w) /\ held[iter[w]][k] > 0

IInv == LibTypeOK /\ CopyOrReader

(* The blocks of the static schedule lie within the iterations. *)
LEMMA BlockBounds ==
  ASSUME NEW w \in Int, 0 <= w, w <= LibTeam
  PROVE  FirstOf(w) \in 0 .. T /\ (w < LibTeam => FirstOf(w) < T)
<1> DEFINE q == T \div LibTeam
           r == T % LibTeam
<1>1. /\ T \in Nat \ {0} /\ LibTeam \in Nat \ {0} /\ LibTeam <= T
  BY LibraryAssumption DEF LibraryAssumption
<1>2. q \in Int /\ r \in 0 .. LibTeam - 1 /\ T = q * LibTeam + r
  BY <1>1, SMT
<1>3. q >= 1
  <2>1. CASE q <= 0
    <3>1. q * LibTeam <= 0
      BY <2>1, <1>1, <1>2, SMT
    <3>2. T <= r
      BY <3>1, <1>1, <1>2, SMT
    <3> QED  BY <3>2, <1>1, <1>2
  <2> QED  BY <2>1, <1>2
<1> HIDE DEF q, r
<1>4. w * q \in Int /\ w * q >= 0 /\ (LibTeam - w) * q \in Int /\ (LibTeam - w) * q >= 0
  BY <1>1, <1>2, <1>3, SMT
<1>5. w * q + (LibTeam - w) * q = q * LibTeam
  BY <1>1, <1>2, SMT
<1>6. w < LibTeam => (LibTeam - w) * q >= 1
  BY <1>1, <1>2, <1>3, SMT
<1>7. FirstOf(w) = w * q + (IF w < r THEN w ELSE r)
  BY DEF FirstOf, q, r
<1> QED  BY <1>1, <1>2, <1>4, <1>5, <1>6, <1>7

(* A block begins with an iteration, and ends before T. *)
LEMMA BlockFacts ==
  ASSUME NEW w \in Workers
  PROVE  FirstOf(w) \in Iterations /\ LastOf(w) \in Int /\ LastOf(w) < T
<1>1. /\ w \in Int /\ 0 <= w /\ w < LibTeam /\ T \in Nat /\ LibTeam \in Nat
  BY LibraryAssumption DEF LibraryAssumption, Workers
<1>2. FirstOf(w) \in 0 .. T /\ FirstOf(w) < T
  BY <1>1, BlockBounds
<1>3. FirstOf(w + 1) \in 0 .. T
  BY <1>1, BlockBounds
<1> QED  BY <1>1, <1>2, <1>3 DEF LastOf, Iterations

(* At first every copy is in stock. *)
LEMMA InitInvariant == LibInit => IInv
<1> SUFFICES ASSUME LibInit PROVE IInv
  OBVIOUS
<1>1. LibTypeOK
  <2> USE LibraryAssumption DEF LibraryAssumption, LibInit
  <2>1. iter \in [Workers -> Iterations]
    BY BlockFacts
  <2>2. /\ pc \in [Workers -> {"barrier", "turns", "end", "gone"}]
        /\ stock \in [Titles -> 0 .. Copies]
        /\ held \in [Iterations -> [Titles -> Nat]]
        /\ lends \in [Iterations -> Nat]
        /\ returned \in [Iterations -> 0 .. Times]
    OBVIOUS
  <2>3. DOMAIN result = {"set", "lends"} /\ result.set \in BOOLEAN
    OBVIOUS
  <2> QED  BY <2>1, <2>2, <2>3 DEF LibTypeOK
<1>2. CopyOrReader
  BY LibraryAssumption DEF LibraryAssumption, LibInit, CopyOrReader, Titles
<1> QED  BY <1>1, <1>2 DEF IInv

(* Every step keeps the invariant. *)
LEMMA NextInvariant == IInv /\ [LibNext]_libVars => IInv'
<1> SUFFICES ASSUME IInv, [LibNext]_libVars PROVE IInv'
  OBVIOUS
<1> USE LibraryAssumption DEF LibraryAssumption
<1>0. LibTypeOK /\ CopyOrReader
  BY DEF IInv
<1>1. CASE Release
  <2>1. LibTypeOK'
    BY <1>0, <1>1 DEF Release, LibTypeOK
  <2>2. \A w \in Workers : ~HasTurn(w)
    BY <1>1 DEF Release, HasTurn
  <2>3. CopyOrReader'
    BY <1>0, <1>1, <2>2 DEF Release, CopyOrReader
  <2> QED  BY <2>1, <2>3 DEF IInv
<1>2. ASSUME NEW w \in Workers, Finish(w) PROVE IInv'
  <2>1. LibTypeOK'
    <3>1. CASE iter[w] < LastOf(w)
      <4>1. iter[w] \in Iterations /\ LastOf(w) \in Int /\ LastOf(w) < T
        BY <1>0, BlockFacts DEF LibTypeOK
      <4>2. iter[w] + 1 \in Iterations
        BY <3>1, <4>1 DEF Iterations
      <4> QED  BY <1>0, <1>2, <3>1, <4>2 DEF Finish, LibTypeOK
    <3>2. CASE ~(iter[w] < LastOf(w))
      BY <1>0, <1>2, <3>2 DEF Finish, LibTypeOK
    <3> QED  BY <3>1, <3>2
  <2>2. ASSUME NEW u \in Workers, HasTurn(u)
        PROVE  HasTurn(u)' /\ iter'[u] = iter[u]
    BY <1>0, <1>2, <2>2 DEF Finish, HasTurn, LibTypeOK
  <2>3. CopyOrReader'
    BY <1>0, <1>2, <2>2 DEF Finish, CopyOrReader
  <2> QED  BY <2>1, <2>3 DEF IInv
<1>3. ASSUME NEW w \in Workers, NEW k \in Titles, Lend(w, k) PROVE IInv'
  <2>1. LibTypeOK'
    BY <1>0, <1>3 DEF Lend, LibTypeOK
  <2>2. HasTurn(w)' /\ held'[iter'[w]][k] > 0
    BY <1>0, <1>3 DEF Lend, HasTurn, LibTypeOK
  <2> QED  BY <2>1, <2>2 DEF IInv, CopyOrReader
<1>4. ASSUME NEW w \in Workers, NEW k \in Titles, Return(w, k) PROVE IInv'
  <2>1. LibTypeOK'
    BY <1>0, <1>4 DEF Return, HasTurn, LibTypeOK
  <2>2. stock'[k] > 0
    BY <1>0, <1>4 DEF Return, LibTypeOK
  <2> QED  BY <2>1, <2>2 DEF IInv, CopyOrReader
<1>5. CASE Reduce
  <2>1. \A w \in Workers : ~HasTurn(w)
    BY <1>5 DEF Reduce, HasTurn
  <2>2. CopyOrReader'
    BY <1>0, <1>5, <2>1 DEF Reduce, CopyOrReader
  <2>3. DOMAIN result' = {"set", "lends"} /\ result'.set \in BOOLEAN
    BY <1>5 DEF Reduce
  <2> QED  BY <1>0, <1>5, <2>2, <2>3 DEF Reduce, LibTypeOK, IInv
<1>6. CASE UNCHANGED libVars
  BY <1>0, <1>6 DEF libVars, IInv, LibTypeOK, CopyOrReader, HasTurn
<1> QED  BY <1>1, <1>2, <1>3, <1>4, <1>5, <1>6 DEF LibNext, Turn

(* The invariant on which the others rest. *)
THEOREM Invariance == LibSpec => []IInv
BY InitInvariant, NextInvariant, PTL DEF LibSpec

(* Every variable keeps its type; in particular no thread gets past the last *)
(* iteration of its block.                                                  *)
THEOREM TypeCorrect == LibSpec => []LibTypeOK
<1>1. IInv => LibTypeOK
  BY DEF IInv
<1> QED  BY <1>1, Invariance, PTL

(* As long as a thread has turns to make, some draw lends or returns a book *)
(* (library.c:71-101): the books can never all be with threads that are     *)
(* done, whatever is drawn and in whatever order the threads get in.        *)
THEOREM NeverStuck == LibSpec => []SomeoneCanMove
<1>1. IInv => SomeoneCanMove
  BY DEF IInv, CopyOrReader, SomeoneCanMove
<1> QED  BY <1>1, Invariance, PTL

Out == [k \in Titles |-> Copies - stock[k]]

(* Whatever has been lent has been returned or is out. *)
Ledger == SumFunction(lends) = SumFunction(returned) + SumFunction(Out)

(* What thread w has behind it of its block has made all its returns.       *)
BlockDone(w) ==
  /\ FirstOf(w) <= iter[w]
  /\ \A i \in Iterations : FirstOf(w) <= i /\ i < iter[w] => returned[i] = Times
  /\ pc[w] \in {"end", "gone"} => LastOf(w) <= iter[w] /\ returned[iter[w]] = Times

Books == Ledger /\ \A w \in Workers : BlockDone(w)

(* The iterations and the titles are finitely many. *)
LEMMA FiniteSums ==
  /\ IsFiniteSet(Iterations) /\ Cardinality(Iterations) = T
  /\ IsFiniteSet(Titles)
<1>1. T \in Nat \ {0}
  BY LibraryAssumption DEF LibraryAssumption
<1>2. IsFiniteSet(0 .. T - 1) /\ Cardinality(0 .. T - 1) = T
  BY <1>1, FS_Interval
<1>3. PICK a, b : Titles = {a, b}
  BY DEF Titles
<1>4. IsFiniteSet({a}) /\ {a, b} = {a} \cup {b}
  BY FS_Singleton
<1>5. IsFiniteSet({a} \cup {b})
  BY <1>4, FS_AddElement
<1> QED BY <1>2, <1>3, <1>4, <1>5 DEF Iterations

(* The blocks of the static schedule leave out no iteration. *)
LEMMA BlocksCover ==
  ASSUME NEW i \in Iterations
  PROVE  \E w \in Workers : FirstOf(w) <= i /\ i <= LastOf(w)
<1>1. /\ T \in Nat \ {0} /\ LibTeam \in Nat \ {0} /\ LibTeam <= T
      /\ i \in Nat /\ i < T
  BY LibraryAssumption DEF LibraryAssumption, Iterations
<1>2. \A w \in 0 .. LibTeam : FirstOf(w) \in Int
  BY <1>1, BlockBounds
<1>3. FirstOf(0) = 0
  <2>1. T \div LibTeam \in Int /\ T % LibTeam \in 0 .. LibTeam - 1
    BY <1>1, SMT
  <2> QED BY <2>1 DEF FirstOf
<1>4. FirstOf(LibTeam) = T
  <2>1. PICK q \in Int : q = T \div LibTeam
    BY <1>1, SMT
  <2>2. PICK r \in 0 .. LibTeam - 1 : r = T % LibTeam
    BY <1>1, SMT
  <2>3. T = LibTeam * q + r
    BY <1>1, <2>1, <2>2, SMT
  <2> QED BY <1>1, <2>1, <2>2, <2>3 DEF FirstOf
<1> DEFINE N == {n \in Nat : n <= LibTeam /\ i < FirstOf(n) =>
                   \E w \in Workers : FirstOf(w) <= i /\ i < FirstOf(w + 1)}
<1>5. 0 \in N
  BY <1>1, <1>3
<1>6. ASSUME NEW n \in Nat, n \in N
      PROVE  n + 1 \in N
  <2> SUFFICES ASSUME n + 1 <= LibTeam, i < FirstOf(n + 1)
               PROVE  \E w \in Workers : FirstOf(w) <= i /\ i < FirstOf(w + 1)
    OBVIOUS
  <2>1. n \in Workers /\ n \in 0 .. LibTeam /\ n <= LibTeam
    BY <1>1 DEF Workers
  <2>2. CASE i < FirstOf(n)
    BY <1>6, <2>1, <2>2
  <2>3. CASE ~(i < FirstOf(n))
    <3>1. FirstOf(n) <= i
      BY <1>1, <1>2, <2>1, <2>3
    <3> QED BY <2>1, <3>1
  <2> QED BY <2>2, <2>3
<1>7. Nat \subseteq N
  <2> HIDE DEF N
  <2> QED BY <1>5, <1>6, NatSetInduction
<1>8. LibTeam \in N
  BY <1>1, <1>7
<1>9. PICK w \in Workers : FirstOf(w) <= i /\ i < FirstOf(w + 1)
  BY <1>1, <1>4, <1>8
<1>10. w + 1 \in 0 .. LibTeam
  BY <1>1 DEF Workers
<1>11. i <= LastOf(w)
  BY <1>1, <1>2, <1>9, <1>10 DEF LastOf
<1> QED BY <1>9, <1>11

(* Nothing has been lent, and no thread has anything behind it. *)
LEMMA InitBooks == LibInit => Books
<1> SUFFICES ASSUME LibInit PROVE Books
  OBVIOUS
<1>m. T \in Nat /\ Copies \in Nat /\ Times \in Nat
  BY LibraryAssumption DEF LibraryAssumption
<1>1. /\ lends = [i \in Iterations |-> 0] /\ returned = [i \in Iterations |-> 0]
      /\ Out = [k \in Titles |-> 0]
  BY <1>m DEF LibInit, Out
<1>2. SumFunction(lends) = T * 0 /\ SumFunction(returned) = T * 0
  BY <1>1, FiniteSums, SumConst
<1>3. PICK n \in Nat : n = Cardinality(Titles)
  BY FiniteSums, FS_CardinalityType
<1>4. SumFunction(Out) = n * 0
  BY <1>1, <1>3, FiniteSums, SumConst
<1>5. Ledger
  BY <1>m, <1>2, <1>3, <1>4 DEF Ledger
<1>6. ASSUME NEW w \in Workers PROVE BlockDone(w)
  <2>1. iter[w] = FirstOf(w) /\ FirstOf(w) \in Int /\ pc[w] = "barrier"
    BY BlockFacts DEF LibInit, Iterations
  <2> QED BY <2>1 DEF BlockDone, Iterations
<1> QED BY <1>5, <1>6 DEF Books

(* The sums that a turn of iteration i about title k changes by one. *)
LEMMA TurnSums ==
  ASSUME LibTypeOK, LibTypeOK', NEW i \in Iterations, NEW k \in Titles,
         NEW dl \in Int, NEW dr \in Int, NEW do \in Int, dl = dr + do,
         lends'[i] = lends[i] + dl, returned'[i] = returned[i] + dr,
         stock'[k] = stock[k] - do,
         \A j \in Iterations \ {i} : lends'[j] = lends[j] /\ returned'[j] = returned[j],
         \A j \in Titles \ {k} : stock'[j] = stock[j],
         Ledger
  PROVE  Ledger'
<1>m. T \in Nat /\ Copies \in Nat /\ Times \in Nat
  BY LibraryAssumption DEF LibraryAssumption
<1>1. /\ lends \in [Iterations -> Int] /\ lends' \in [Iterations -> Int]
      /\ returned \in [Iterations -> Int] /\ returned' \in [Iterations -> Int]
      /\ Out \in [Titles -> Int] /\ Out' \in [Titles -> Int]
  BY <1>m DEF LibTypeOK, Out
<1>2. /\ lends'[i] = lends[i] + dl /\ returned'[i] = returned[i] + dr
      /\ Out'[k] = Out[k] + do
  BY <1>m DEF LibTypeOK, Out
<1>3. /\ \A j \in Iterations \ {i} : lends'[j] = lends[j] /\ returned'[j] = returned[j]
      /\ \A j \in Titles \ {k} : Out'[j] = Out[j]
  BY DEF LibTypeOK, Out
<1>4. SumFunction(lends') = SumFunction(lends) + lends'[i] - lends[i]
  <2>1. \A j \in Iterations \ {i} : lends'[j] = lends[j]
    BY <1>3
  <2> QED BY <1>1, <2>1, FiniteSums, SumChange
<1>5. SumFunction(returned') = SumFunction(returned) + returned'[i] - returned[i]
  <2>1. \A j \in Iterations \ {i} : returned'[j] = returned[j]
    BY <1>3
  <2> QED BY <1>1, <2>1, FiniteSums, SumChange
<1>6. SumFunction(Out') = SumFunction(Out) + Out'[k] - Out[k]
  BY <1>1, <1>3, FiniteSums, SumChange
<1>7. /\ SumFunction(lends) \in Int /\ SumFunction(returned) \in Int
      /\ SumFunction(Out) \in Int
  BY <1>1, FiniteSums, SumFunctionType
<1>8. /\ lends[i] \in Int /\ returned[i] \in Int /\ Out[k] \in Int
  BY <1>1
<1>9. /\ SumFunction(lends') = SumFunction(lends) + dl
      /\ SumFunction(returned') = SumFunction(returned) + dr
      /\ SumFunction(Out') = SumFunction(Out) + do
  BY <1>2, <1>4, <1>5, <1>6, <1>7, <1>8
<1> QED BY <1>7, <1>9 DEF Ledger

(* What is done stays done, since a thread with turns to make is at an      *)
(* iteration that is not.                                                   *)
LEMMA TurnBlocks ==
  ASSUME LibTypeOK, NEW w \in Workers, HasTurn(w), UNCHANGED <<pc, iter>>,
         \A j \in Iterations : returned'[j] = returned[j] \/ j = iter[w],
         NEW u \in Workers, BlockDone(u)
  PROVE  BlockDone(u)'
<1>1. returned[iter[w]] # Times /\ iter[u] \in Iterations
  BY LibraryAssumption DEF HasTurn, LibTypeOK, LibraryAssumption
<1>2. \A i \in Iterations : returned[i] = Times => returned'[i] = Times
  BY <1>1
<1>3. FirstOf(u)' = FirstOf(u) /\ LastOf(u)' = LastOf(u)
  BY DEF FirstOf, LastOf
<1> QED BY <1>1, <1>2, <1>3 DEF BlockDone

(* Every step keeps the books. *)
LEMMA NextBooks == IInv /\ Books /\ [LibNext]_libVars => Books'
<1> SUFFICES ASSUME IInv, Books, [LibNext]_libVars PROVE Books'
  OBVIOUS
<1>0. LibTypeOK /\ LibTypeOK' /\ Ledger /\ \A w \in Workers : BlockDone(w)
  BY NextInvariant DEF IInv, Books
<1>1. CASE Release
  <2>1. Ledger'
    BY <1>0, <1>1 DEF Release, Ledger, Out
  <2>2. ASSUME NEW u \in Workers PROVE BlockDone(u)'
    BY <1>0, <1>1 DEF Release, BlockDone, FirstOf, LastOf
  <2> QED BY <2>1, <2>2 DEF Books
<1>2. ASSUME NEW w \in Workers, Finish(w) PROVE Books'
  <2>1. Ledger'
    BY <1>0, <1>2 DEF Finish, Ledger, Out
  <2>2. ASSUME NEW u \in Workers PROVE BlockDone(u)'
    <3>1. /\ FirstOf(u) \in Int /\ LastOf(u) \in Int /\ iter[u] \in Iterations
          /\ FirstOf(u)' = FirstOf(u) /\ LastOf(u)' = LastOf(u)
      BY <1>0, BlockFacts DEF LibTypeOK, Iterations, FirstOf, LastOf
    <3>2. CASE u # w
      BY <1>0, <1>2, <3>1, <3>2 DEF Finish, BlockDone, LibTypeOK
    <3>3. CASE u = w /\ iter[w] < LastOf(w)
      <4>1. iter'[w] = iter[w] + 1 /\ pc'[w] = "barrier" /\ returned' = returned
        BY <1>0, <1>2, <3>3 DEF Finish, LibTypeOK
      <4>2. \A i \in Iterations : i < iter[w] + 1 => i < iter[w] \/ i = iter[w]
        BY <3>1, <3>3 DEF Iterations
      <4>3. FirstOf(w) <= iter[w] /\ FirstOf(w) <= iter[w] + 1
        BY <1>0, <3>1, <3>3 DEF BlockDone, Iterations
      <4> QED BY <1>0, <1>2, <3>1, <3>3, <4>1, <4>2, <4>3 DEF Finish, BlockDone
    <3>4. CASE u = w /\ ~(iter[w] < LastOf(w))
      <4>1. iter' = iter /\ pc'[w] = "end" /\ returned' = returned /\ returned[iter[w]] = Times
        BY <1>0, <1>2, <3>4 DEF Finish, LibTypeOK
      <4>2. LastOf(w) <= iter[w]
        BY <3>1, <3>4 DEF Iterations
      <4> QED BY <1>0, <3>1, <3>4, <4>1, <4>2 DEF BlockDone
    <3> QED BY <3>2, <3>3, <3>4
  <2> QED BY <2>1, <2>2 DEF Books
<1>3. ASSUME NEW w \in Workers, NEW k \in Titles, Lend(w, k) PROVE Books'
  <2>1. PICK i \in Iterations : i = iter[w]
    BY <1>0 DEF LibTypeOK
  <2>2. /\ lends'[i] = lends[i] + 1 /\ returned'[i] = returned[i] + 0
        /\ stock'[k] = stock[k] - 1
    BY <1>0, <1>3, <2>1 DEF Lend, LibTypeOK
  <2>3. /\ \A j \in Iterations \ {i} : lends'[j] = lends[j] /\ returned'[j] = returned[j]
        /\ \A j \in Titles \ {k} : stock'[j] = stock[j]
    BY <1>0, <1>3, <2>1 DEF Lend, LibTypeOK
  <2>4. Ledger'
    <3>1. 1 \in Int /\ 0 \in Int /\ 1 = 0 + 1
      OBVIOUS
    <3> QED BY ONLY <1>0, <2>2, <2>3, <3>1, k \in Titles, i \in Iterations, TurnSums
  <2>5. ASSUME NEW u \in Workers PROVE BlockDone(u)'
    BY <1>0, <1>3, TurnBlocks DEF Lend
  <2> QED BY <2>4, <2>5 DEF Books
<1>4. ASSUME NEW w \in Workers, NEW k \in Titles, Return(w, k) PROVE Books'
  <2>1. PICK i \in Iterations : i = iter[w]
    BY <1>0 DEF LibTypeOK
  <2>2. /\ lends'[i] = lends[i] + 0 /\ returned'[i] = returned[i] + 1
        /\ stock'[k] = stock[k] - (-1)
    BY <1>0, <1>4, <2>1 DEF Return, LibTypeOK
  <2>3. /\ \A j \in Iterations \ {i} : lends'[j] = lends[j] /\ returned'[j] = returned[j]
        /\ \A j \in Titles \ {k} : stock'[j] = stock[j]
    BY <1>0, <1>4, <2>1 DEF Return, LibTypeOK
  <2>4. Ledger'
    <3>1. 1 \in Int /\ 0 \in Int /\ -1 \in Int /\ 0 = 1 + (-1)
      OBVIOUS
    <3> QED BY ONLY <1>0, <2>2, <2>3, <3>1, k \in Titles, i \in Iterations, TurnSums
  <2>5. ASSUME NEW u \in Workers PROVE BlockDone(u)'
    BY <1>0, <1>4, <2>1, <2>3, TurnBlocks DEF Return
  <2> QED BY <2>4, <2>5 DEF Books
<1>5. CASE Reduce \/ UNCHANGED libVars
  <2>1. Ledger'
    BY <1>0, <1>5 DEF Reduce, libVars, Ledger, Out
  <2>2. ASSUME NEW u \in Workers PROVE BlockDone(u)'
    BY <1>0, <1>5 DEF Reduce, libVars, BlockDone, FirstOf, LastOf
  <2> QED BY <2>1, <2>2 DEF Books
<1> QED BY <1>1, <1>2, <1>3, <1>4, <1>5 DEF LibNext, Turn

(* When all threads are done, the counters that small_bench adds up          *)
(* (library.c:124-127) are explained by the stock: no lend and no return is *)
(* counted twice, or counted without a book changing hands.                 *)
THEOREM LendsExplained == LibSpec => []LendsExplainStock
<1>1. IInv /\ Books => LendsExplainStock
  <2> SUFFICES ASSUME LibTypeOK, Books, \A w \in Workers : pc[w] = "gone"
               PROVE  SumFunction(lends) = T * Times + SumFunction(Out)
    BY DEF IInv, LendsExplainStock, Out
  <2>m. T \in Nat /\ Times \in Nat
    BY LibraryAssumption DEF LibraryAssumption
  <2>1. ASSUME NEW i \in Iterations PROVE returned[i] = Times
    <3>1. PICK w \in Workers : FirstOf(w) <= i /\ i <= LastOf(w)
      BY BlocksCover
    <3>2. BlockDone(w) /\ LastOf(w) <= iter[w] /\ returned[iter[w]] = Times
      BY DEF Books, BlockDone
    <3>3. iter[w] \in Int /\ LastOf(w) \in Int /\ i \in Int
      BY BlockFacts DEF LibTypeOK, Iterations
    <3>4. i < iter[w] \/ i = iter[w]
      BY <3>1, <3>2, <3>3
    <3> QED BY <3>1, <3>2, <3>4 DEF BlockDone
  <2>2. returned = [i \in Iterations |-> Times]
    BY <2>1 DEF LibTypeOK
  <2>3. SumFunction(returned) = T * Times
    BY <2>m, <2>2, FiniteSums, SumConst
  <2> QED BY <2>3 DEF Books, Ledger
<1>2. LibSpec => [](IInv /\ Books)
  BY InitInvariant, NextInvariant, InitBooks, NextBooks, PTL DEF LibSpec
<1> QED BY <1>1, <1>2, PTL

-----------------------------------------------------------------------------
(***************************************************************************)
(* Benchmark.                                                              *)
(***************************************************************************)
(* The check begins when all threads of the team are at the end. *)
Joined == phase # "parallel" => \A t \in Started : thread[t].pc = "join"

(* The queue is destroyed when it is empty. *)
Emptied == phase \in {"write", "over"} => queue = <<>>

(* A thread that has ended has stored its counter; nobody writes the        *)
(* elements of the threads that were not started.                           *)
Stored ==
  /\ \A t \in Started : thread[t].pc = "join" => Nr_enq_operations[t] = thread[t].enq_count
  /\ \A t \in Threads \ Started : Nr_enq_operations[t] \in Garbage

(* What every step keeps, whatever overflows. *)
BenchInv == TypeOK /\ Joined /\ Emptied /\ Stored

(* The records of TypeOK. *)
ThreadState ==
  [pc : {"clock", "enq", "deq", "store", "join"}, enq : Nat, deq : Nat,
   batches : 0 .. MaxBatches, enq_count : Ints, deq_count : Ints,
   dequeue_sum : Longs]

(* What the wrapping arithmetic of int does: the result is an int, the same *)
(* number modulo 2 ^ IntBits, and the number itself if that is an int.      *)
LEMMA ToIntFacts ==
  ASSUME NEW x \in Int
  PROVE  /\ ToInt(x) \in Ints /\ ToInt(x) \in Int
         /\ Same(2 ^ IntBits, ToInt(x), x)
         /\ x \in Ints => ToInt(x) = x
<1>1. PICK h \in Nat \ {0} : h = 2 ^ (IntBits - 1)
  BY BenchmarkAssumption DEF BenchmarkAssumption
<1>2. PICK n \in Nat \ {0} : n = 2 ^ IntBits /\ n = 2 * h
  BY BenchmarkAssumption, <1>1 DEF BenchmarkAssumption
<1>3. PICK y \in Int : y = x + h
  OBVIOUS
<1>4. PICK r : r = y % n
  OBVIOUS
<1>5. r \in 0 .. n - 1 /\ Same(n, r, y) /\ (y \in 0 .. n - 1 => r = y)
  BY <1>4, ModFacts
<1>6. PICK i \in Int : i = r - h
  BY <1>5
<1>7. ToInt(x) = i
  BY <1>1, <1>2, <1>3, <1>4, <1>6 DEF ToInt
<1>8. Ints = -h .. h - 1
  BY <1>1 DEF Ints
<1>9. Same(n, i, x)
  <2>1. PICK q \in Int : r = y + q * n
    BY <1>5 DEF Same
  <2>2. i = x + q * n
    BY <2>1, <1>3, <1>5, <1>6, SMT
  <2> QED BY <2>2 DEF Same
<1>10. i \in Ints
  <2>1. i \in -h .. h - 1
    BY <1>2, <1>5, <1>6
  <2> QED BY <2>1, <1>8
<1>11. x \in Ints => i = x
  <2>1. x \in -h .. h - 1 => y \in 0 .. n - 1
    BY <1>2, <1>3
  <2> QED BY <2>1, <1>3, <1>5, <1>6, <1>8
<1> QED BY <1>2, <1>7, <1>9, <1>10, <1>11

(* It depends on the number modulo 2 ^ IntBits only. *)
LEMMA ToIntSame ==
  ASSUME NEW x \in Int, NEW y \in Int, Same(2 ^ IntBits, x, y)
  PROVE  ToInt(x) = ToInt(y)
<1>1. PICK h \in Nat \ {0} : h = 2 ^ (IntBits - 1)
  BY BenchmarkAssumption DEF BenchmarkAssumption
<1>2. PICK n \in Nat \ {0} : n = 2 ^ IntBits
  BY BenchmarkAssumption, <1>1 DEF BenchmarkAssumption
<1>3. PICK a \in Int, b \in Int : a = x + h /\ b = y + h
  OBVIOUS
<1>4. Same(n, a, b)
  <2>1. PICK q \in Int : x = y + q * n
    BY <1>2 DEF Same
  <2>2. a = b + q * n
    BY <2>1, <1>3, SMT
  <2> QED BY <2>2 DEF Same
<1>5. a % n = b % n
  BY <1>4, SameMod
<1> QED BY <1>1, <1>2, <1>3, <1>5 DEF ToInt

(* The same for the conversion to uint64_t. *)
LEMMA ToLongFacts ==
  ASSUME NEW x \in Int
  PROVE  /\ ToLong(x) \in Longs /\ ToLong(x) \in Int
         /\ Same(2 ^ LongBits, ToLong(x), x)
         /\ x \in Longs => ToLong(x) = x
<1>1. PICK n \in Nat \ {0} : n = 2 ^ LongBits
  BY BenchmarkAssumption DEF BenchmarkAssumption
<1>2. PICK r : r = x % n
  OBVIOUS
<1>3. r \in 0 .. n - 1 /\ Same(n, r, x) /\ (x \in 0 .. n - 1 => r = x)
  BY <1>2, ModFacts
<1>4. Longs = 0 .. n - 1 /\ ToLong(x) = r
  BY <1>1, <1>2 DEF Longs, ToLong
<1> QED BY <1>1, <1>3, <1>4

(* Likewise. *)
LEMMA ToLongSame ==
  ASSUME NEW x \in Int, NEW y \in Int
  PROVE  ToLong(x) = ToLong(y) <=> Same(2 ^ LongBits, x, y)
<1>1. PICK n \in Nat \ {0} : n = 2 ^ LongBits
  BY BenchmarkAssumption DEF BenchmarkAssumption
<1>2. Same(n, x, y) <=> x % n = y % n
  BY SameMod
<1> QED BY <1>1, <1>2 DEF ToLong

(* The sets of the model in terms of numbers. *)
LEMMA Widths ==
  /\ Ints \subseteq Int /\ Longs \subseteq Int /\ 0 \in Ints /\ 0 \in Longs
         /\ 2 ^ IntBits \in Nat \ {0} /\ 2 ^ LongBits \in Nat \ {0}
         /\ Started \subseteq Threads /\ Threads \subseteq Nat
         /\ IsFiniteSet(Started) /\ IsFiniteSet(Threads)
         /\ NumThreads \in Nat
<1>1. PICK h \in Nat \ {0} : h = 2 ^ (IntBits - 1)
  BY BenchmarkAssumption DEF BenchmarkAssumption
<1>2. PICK l \in Nat \ {0} : l = 2 ^ LongBits
  BY BenchmarkAssumption DEF BenchmarkAssumption
<1>3. PICK n \in Nat \ {0} : n = 2 ^ IntBits
  BY BenchmarkAssumption, <1>1 DEF BenchmarkAssumption
<1>4. Ints = -h .. h - 1 /\ Longs = 0 .. l - 1
  BY <1>1, <1>2 DEF Ints, Longs
<1>5. Team \in Nat /\ NumThreads \in Nat /\ Team <= NumThreads
  BY BenchmarkAssumption DEF BenchmarkAssumption
<1>6. Started \subseteq Threads /\ Threads \subseteq Nat
  BY <1>5 DEF Started, Threads
<1>7. IsFiniteSet(Started) /\ IsFiniteSet(Threads)
  <2>1. PICK a \in Int, b \in Int : a = Team - 1 /\ b = NumThreads - 1
    BY <1>5
  <2>2. PICK z \in Int : z = 0
    OBVIOUS
  <2>3. IsFiniteSet(z .. a) /\ IsFiniteSet(z .. b)
    BY FS_Interval
  <2> QED BY <2>1, <2>2, <2>3 DEF Started, Threads
<1>8. Ints \subseteq Int /\ Longs \subseteq Int /\ 0 \in Ints /\ 0 \in Longs
  BY <1>4
<1> QED BY <1>2, <1>3, <1>5, <1>6, <1>7, <1>8

(* What thread t adds to the queue is an int. *)
LEMMA ValueType ==
  ASSUME NEW t \in Threads, NEW i \in Int
  PROVE  Value(t, i) \in Ints /\ Value(t, i) \in Int
<1>1. i * NumThreads + t \in Int
  BY Widths
<1> QED BY <1>1, ToIntFacts DEF Value

(* The first repetition begins with everything zero. *)
LEMMA InitBench == Init => BenchInv
<1> SUFFICES ASSUME Init PROVE BenchInv
  OBVIOUS
<1>1. Fresh \in [Started -> ThreadState] /\ \A t \in Started : Fresh[t].pc = "clock"
  <2>1. 0 \in Ints /\ 0 \in Longs /\ 0 \in 0 .. MaxBatches
    BY BenchmarkAssumption, Widths DEF BenchmarkAssumption
  <2> QED BY <2>1 DEF Fresh, ThreadState
<1>2. TypeOK
  <2>1. rep \in 0 .. Repetitions - 1
    BY BenchmarkAssumption DEF Init, BenchmarkAssumption
  <2>2. 0 \in Longs
    BY Widths
  <2>3. Nr_enq_operations \in [Threads -> Ints \cup Garbage]
    BY DEF Init
  <2>4. <<>> \in Seq(Ints)
    OBVIOUS
  <2>5. thread \in [Started -> ThreadState]
    BY <1>1 DEF Init
  <2> QED BY <2>1, <2>2, <2>3, <2>4, <2>5 DEF Init, TypeOK, ThreadState
<1>3. Stored
  BY <1>1 DEF Init, Stored
<1> QED BY <1>2, <1>3 DEF BenchInv, Init, Joined, Emptied

(* What the steps of a thread do to its record. *)
Only(t) == \A u \in Started \ {t} : thread'[u] = thread[u]

(* The steps that leave the counters of a thread alone. *)
LEMMA Moves ==
  ASSUME BenchInv, NEW t \in Started,
         BeginBatches(t) \/ TimeOver(t) \/ DeqEmpty(t) \/ EndBatch(t)
  PROVE  /\ thread' \in [Started -> ThreadState] /\ Only(t)
         /\ thread[t].pc # "join" /\ thread'[t].pc # "join"
         /\ thread'[t].enq_count = thread[t].enq_count
         /\ thread'[t].deq_count = thread[t].deq_count
         /\ thread'[t].dequeue_sum = thread[t].dequeue_sum
<1>1. thread \in [Started -> ThreadState] /\ EnqSizes \cup DeqSizes \subseteq Nat /\ MaxBatches \in Nat
  BY BenchmarkAssumption DEF BenchInv, TypeOK, ThreadState, BenchmarkAssumption
<1>2. CASE BeginBatches(t)
  <2>1. PICK e \in Nat, d \in Nat :
          thread' = [thread EXCEPT ![t].pc = "enq", ![t].batches = @ + 1,
                                   ![t].enq = e, ![t].deq = d]
    BY <1>1, <1>2 DEF BeginBatches
  <2>2. thread[t].pc = "clock" /\ thread[t].batches + 1 \in 0 .. MaxBatches
    <3>1. thread[t].batches \in 0 .. MaxBatches
      BY <1>1 DEF ThreadState
    <3>2. thread[t].pc = "clock" /\ thread[t].batches < MaxBatches
      BY <1>2 DEF BeginBatches, At
    <3> QED BY <1>1, <3>1, <3>2
  <2> QED BY <1>1, <2>1, <2>2 DEF ThreadState, Only
<1>3. CASE TimeOver(t)
  BY <1>1, <1>3 DEF TimeOver, At, ThreadState, Only
<1>4. CASE DeqEmpty(t)
  <2>1. thread[t].deq - 1 \in Nat
    BY <1>1, <1>4 DEF DeqEmpty, ThreadState
  <2> QED BY <1>1, <1>4, <2>1 DEF DeqEmpty, At, ThreadState, Only
<1>5. CASE EndBatch(t)
  BY <1>1, <1>5 DEF EndBatch, At, ThreadState, Only
<1> QED BY <1>2, <1>3, <1>4, <1>5

(* A successful enq. *)
LEMMA EnqMoves ==
  ASSUME BenchInv, NEW t \in Started, Enq(t)
  PROVE  /\ thread' \in [Started -> ThreadState] /\ Only(t)
         /\ thread[t].pc = "enq" /\ thread'[t].pc = "enq"
         /\ thread'[t].enq_count = ToInt(thread[t].enq_count + 1)
         /\ thread'[t].deq_count = thread[t].deq_count
         /\ thread'[t].dequeue_sum = thread[t].dequeue_sum
         /\ thread'[t].enq = thread[t].enq - 1
         /\ thread'[t].batches = thread[t].batches
<1>1. thread \in [Started -> ThreadState]
  BY DEF BenchInv, TypeOK, ThreadState
<1>2. ToInt(thread[t].enq_count + 1) \in Ints
  <2>1. thread[t].enq_count + 1 \in Int
    <3>1. thread[t].enq_count \in Ints
      BY <1>1 DEF ThreadState
    <3>2. Ints \subseteq Int
      BY Widths
    <3>3. thread[t].enq_count \in Int
      BY ONLY <3>1, <3>2
    <3> QED BY ONLY <3>3
  <2> QED BY <2>1, ToIntFacts
<1>3. thread[t].enq - 1 \in Nat
  BY <1>1 DEF Enq, ThreadState
<1> QED BY <1>1, <1>2, <1>3 DEF Enq, At, ThreadState, Only

(* A successful deq. *)
LEMMA DeqMoves ==
  ASSUME BenchInv, NEW t \in Started, Deq(t)
  PROVE  /\ thread' \in [Started -> ThreadState] /\ Only(t)
         /\ thread[t].pc = "deq" /\ thread'[t].pc = "deq"
         /\ thread'[t].enq_count = thread[t].enq_count
         /\ thread'[t].deq_count = ToInt(thread[t].deq_count + 1)
         /\ thread'[t].dequeue_sum = ToLong(thread[t].dequeue_sum + ToLong(Head(queue)))
         /\ thread'[t].enq = thread[t].enq
         /\ thread'[t].batches = thread[t].batches
         /\ Head(queue) \in Int
<1>1. thread \in [Started -> ThreadState] /\ queue \in Seq(Ints) /\ queue # <<>>
  BY DEF BenchInv, TypeOK, ThreadState, Deq
<1>2. ToInt(thread[t].deq_count + 1) \in Ints
  <2>1. thread[t].deq_count + 1 \in Int
    <3>1. thread[t].deq_count \in Ints
      BY <1>1 DEF ThreadState
    <3>2. thread[t].deq_count \in Int
      BY <3>1, Widths
    <3> QED BY <3>2
  <2> QED BY <2>1, ToIntFacts
<1>3. Head(queue) \in Int
  BY <1>1, HeadTailProperties, Widths DEF BenchInv
<1>4. ToLong(thread[t].dequeue_sum + ToLong(Head(queue))) \in Longs
  <2>1. ToLong(Head(queue)) \in Int
    BY <1>3, ToLongFacts
  <2>2. thread[t].dequeue_sum \in Int
    <3>1. thread[t].dequeue_sum \in Longs
      BY <1>1 DEF ThreadState
    <3> QED BY <3>1, Widths
  <2>3. thread[t].dequeue_sum + ToLong(Head(queue)) \in Int
    BY <2>1, <2>2
  <2> QED BY <2>3, ToLongFacts
<1>5. thread[t].deq - 1 \in Nat
  BY <1>1 DEF Deq, ThreadState
<1>6. PICK c, y : /\ c = ToInt(thread[t].deq_count + 1)
                  /\ y = ToLong(thread[t].dequeue_sum + ToLong(Head(queue)))
  OBVIOUS
<1>7. thread' = [thread EXCEPT ![t].deq = @ - 1, ![t].deq_count = c, ![t].dequeue_sum = y]
  BY <1>1, <1>6 DEF Deq
<1>8. thread[t].pc = "deq"
  BY DEF Deq, At
<1>9. c \in Ints /\ y \in Longs
  BY <1>2, <1>4, <1>6
<1>10. /\ thread' \in [Started -> ThreadState] /\ Only(t)
       /\ thread'[t].pc = "deq"
       /\ thread'[t].enq_count = thread[t].enq_count
       /\ thread'[t].deq_count = c
       /\ thread'[t].dequeue_sum = y
       /\ thread'[t].enq = thread[t].enq
       /\ thread'[t].batches = thread[t].batches
  <2>1. PICK th : th = thread
    OBVIOUS
  <2>2. PICK o \in ThreadState : o = th[t]
    BY <1>1, <2>1
  <2>3. PICK d \in Nat : d = o.deq - 1
    BY <1>5, <2>1, <2>2
  <2>4. PICK new : new = [o EXCEPT !.deq = d, !.deq_count = c, !.dequeue_sum = y]
    OBVIOUS
  <2>5. /\ new \in ThreadState
        /\ new.pc = o.pc /\ new.enq_count = o.enq_count /\ new.deq_count = c
        /\ new.dequeue_sum = y /\ new.enq = o.enq /\ new.batches = o.batches
    BY <1>9, <2>2, <2>4 DEF ThreadState
  <2>6. thread' = [th EXCEPT ![t] = new]
    BY <1>7, <2>1, <2>2, <2>3, <2>4
  <2>7. thread' \in [Started -> ThreadState] /\ Only(t) /\ thread'[t] = new
    BY <1>1, <2>1, <2>5, <2>6 DEF Only
  <2> QED BY <1>8, <2>1, <2>2, <2>5, <2>7
<1> QED BY <1>3, <1>6, <1>8, <1>10

(* The end of the thread. *)
LEMMA StoreMoves ==
  ASSUME BenchInv, NEW t \in Started, Store(t)
  PROVE  /\ thread' \in [Started -> ThreadState] /\ Only(t)
         /\ thread[t].pc = "store" /\ thread'[t].pc = "join"
         /\ thread'[t].enq_count = thread[t].enq_count
         /\ thread'[t].deq_count = thread[t].deq_count
         /\ thread'[t].dequeue_sum = thread[t].dequeue_sum
         /\ thread'[t].enq = thread[t].enq
         /\ thread'[t].batches = thread[t].batches
<1>1. thread \in [Started -> ThreadState]
  BY DEF BenchInv, TypeOK, ThreadState
<1> QED BY <1>1 DEF Store, At, ThreadState, Only

(* What the next repetition starts with. *)
LEMMA FreshType ==
  /\ Fresh \in [Started -> ThreadState]
         /\ \A t \in Started : Fresh[t].pc = "clock" /\ Fresh[t].enq_count = 0
              /\ Fresh[t].deq_count = 0 /\ Fresh[t].dequeue_sum = 0
<1>1. 0 \in Ints /\ 0 \in Longs /\ 0 \in 0 .. MaxBatches
  BY BenchmarkAssumption, Widths DEF BenchmarkAssumption
<1> QED BY <1>1 DEF Fresh, ThreadState

(* Every step keeps the invariant. *)
LEMMA NextBench == BenchInv /\ [Next]_vars => BenchInv'
<1> SUFFICES ASSUME BenchInv, [Next]_vars PROVE BenchInv'
  OBVIOUS
<1>a. /\ thread \in [Started -> ThreadState] /\ queue \in Seq(Ints) /\ lost \in Seq(Ints)
      /\ total_dequeue_sum \in Int /\ total_dequeue_sum \in Longs
  BY Widths DEF BenchInv, TypeOK, ThreadState
<1>s. spare \in [Started -> Nat]
  BY DEF BenchInv, TypeOK
<1>1. ASSUME NEW t \in Started, BeginBatches(t) \/ TimeOver(t) \/ DeqEmpty(t) \/ EndBatch(t)
      PROVE  BenchInv'
  <2>1. /\ phase = "parallel"
        /\ UNCHANGED <<rep, phase, Nr_enq_operations, total_dequeue_sum, queue, spare, lost, passed>>
    BY <1>1 DEF BeginBatches, TimeOver, DeqEmpty, EndBatch, At
  <2>2. /\ thread' \in [Started -> ThreadState] /\ Only(t)
        /\ thread[t].pc # "join" /\ thread'[t].pc # "join"
    BY <1>1, Moves
  <2>3. TypeOK'
    BY <2>1, <2>2 DEF BenchInv, TypeOK, ThreadState
  <2>4. Stored'
    BY <2>1, <2>2 DEF BenchInv, Stored, Only
  <2> QED BY <2>1, <2>3, <2>4 DEF BenchInv, Joined, Emptied
<1>2. ASSUME NEW t \in Started, Enq(t) PROVE BenchInv'
  <2>1. /\ phase = "parallel"
        /\ UNCHANGED <<rep, phase, Nr_enq_operations, total_dequeue_sum, lost, passed>>
    BY <1>2 DEF Enq, At
  <2>2. /\ thread' \in [Started -> ThreadState] /\ Only(t)
        /\ thread[t].pc # "join" /\ thread'[t].pc # "join"
    BY <1>2, EnqMoves
  <2>3. queue' \in Seq(Ints)
    <3>1. Value(t, thread[t].enq_count) \in Ints
      BY <1>a, ValueType, Widths DEF ThreadState
    <3> QED BY <1>2, <1>a, <3>1, AppendProperties DEF Enq
  <2>4. spare' \in [Started -> Nat]
    <3>1. spare[t] \in Nat /\ (IF spare[t] > 0 THEN spare[t] - 1 ELSE spare[t]) \in Nat
      BY <1>s
    <3> QED BY <1>2, <1>s, <3>1 DEF Enq
  <2>5. TypeOK'
    BY <2>1, <2>2, <2>3, <2>4 DEF BenchInv, TypeOK, ThreadState
  <2>6. Stored'
    BY <2>1, <2>2 DEF BenchInv, Stored, Only
  <2> QED BY <2>1, <2>5, <2>6 DEF BenchInv, Joined, Emptied
<1>3. ASSUME NEW t \in Started, Deq(t) PROVE BenchInv'
  <2>1. /\ phase = "parallel"
        /\ UNCHANGED <<rep, phase, Nr_enq_operations, total_dequeue_sum, lost, passed>>
    BY <1>3 DEF Deq, At
  <2>2. /\ thread' \in [Started -> ThreadState] /\ Only(t)
        /\ thread[t].pc # "join" /\ thread'[t].pc # "join"
    BY <1>3, DeqMoves
  <2>3. queue' \in Seq(Ints)
    BY <1>3, <1>a, HeadTailProperties DEF Deq
  <2>4. spare' \in [Started -> Nat]
    <3>1. spare[t] \in Nat /\ (spare[t] + 1) \in Nat
      BY <1>s
    <3> QED BY <1>3, <1>s, <3>1 DEF Deq
  <2>5. TypeOK'
    BY <2>1, <2>2, <2>3, <2>4 DEF BenchInv, TypeOK, ThreadState
  <2>6. Stored'
    BY <2>1, <2>2 DEF BenchInv, Stored, Only
  <2> QED BY <2>1, <2>5, <2>6 DEF BenchInv, Joined, Emptied
<1>4. ASSUME NEW t \in Started, Store(t) PROVE BenchInv'
  <2>1. /\ phase = "parallel"
        /\ UNCHANGED <<rep, phase, queue, spare, lost, passed>>
    BY <1>4 DEF Store, At
  <2>2. /\ thread' \in [Started -> ThreadState] /\ Only(t)
        /\ thread'[t].enq_count = thread[t].enq_count
    BY <1>4, StoreMoves
  <2>3. t \in Threads /\ thread[t].enq_count \in Ints
    BY <1>a, Widths DEF ThreadState
  <2>4. Nr_enq_operations' = [Nr_enq_operations EXCEPT ![t] = thread[t].enq_count]
    BY <1>4 DEF Store
  <2>5. total_dequeue_sum' \in Longs
    <3>0. thread[t].dequeue_sum \in Int
      BY <1>a, Widths DEF ThreadState
    <3>1. total_dequeue_sum + thread[t].dequeue_sum \in Int
      BY <1>a, <3>0
    <3> QED BY <1>4, <3>1, ToLongFacts DEF Store
  <2>6. Nr_enq_operations \in [Threads -> Ints \cup Garbage]
    BY DEF BenchInv, TypeOK
  <2>7. TypeOK'
    BY <2>1, <2>2, <2>3, <2>4, <2>5, <2>6 DEF BenchInv, TypeOK, ThreadState
  <2>8. Stored'
    BY <2>2, <2>3, <2>4, <2>6 DEF BenchInv, Stored, Only
  <2> QED BY <2>1, <2>7, <2>8 DEF BenchInv, Joined, Emptied
<1>5. ASSUME Lose PROVE BenchInv'
  <2>1. Head(queue) \in Ints /\ Tail(queue) \in Seq(Ints)
    BY <1>5, <1>a, HeadTailProperties DEF Lose
  <2>2. Append(lost, Head(queue)) \in Seq(Ints)
    BY <1>a, <2>1, AppendProperties
  <2>3. TypeOK'
    BY <1>5, <2>1, <2>2 DEF BenchInv, TypeOK, Lose
  <2> QED BY <1>5, <2>3 DEF BenchInv, Joined, Emptied, Stored, Lose
<1>6. ASSUME Join PROVE BenchInv'
  BY <1>6 DEF BenchInv, TypeOK, Joined, Emptied, Stored, Join, At
<1>7. ASSUME Drain PROVE BenchInv'
  <2>1. Head(queue) \in Int /\ Tail(queue) \in Seq(Ints)
    BY <1>7, <1>a, HeadTailProperties, Widths DEF Drain
  <2>2. ToLong(Head(queue)) \in Int
    BY <2>1, ToLongFacts
  <2>3. total_dequeue_sum + ToLong(Head(queue)) \in Int
    BY <1>a, <2>2
  <2>4. total_dequeue_sum' \in Longs
    BY <1>7, <2>3, ToLongFacts DEF Drain
  <2>5. TypeOK'
    BY <1>7, <2>1, <2>4 DEF BenchInv, TypeOK, Drain
  <2> QED BY <1>7, <2>5 DEF BenchInv, Joined, Emptied, Stored, Drain
<1>8. ASSUME Check PROVE BenchInv'
  <2>1. passed' \in BOOLEAN
    BY <1>8 DEF Check
  <2>2. /\ UNCHANGED <<rep, thread, Nr_enq_operations, total_dequeue_sum, queue, lost>>
        /\ spare' \in [Started -> Nat]
    BY <1>8 DEF Check
  <2>3. phase = "check" /\ phase' = "write" /\ queue = <<>>
    BY <1>8 DEF Check
  <2> QED BY <2>1, <2>2, <2>3 DEF BenchInv, TypeOK, Joined, Emptied, Stored
<1>9. ASSUME WriteResults PROVE BenchInv'
  <2>1. phase = "write" /\ queue = <<>> /\ queue' = queue /\ spare' = spare
    BY <1>9 DEF WriteResults, BenchInv, Emptied
  <2>2. CASE rep + 1 < Repetitions
    <3>1. /\ rep' = rep + 1 /\ phase' = "parallel"
          /\ thread' = Fresh
          /\ Nr_enq_operations' \in [Threads -> Garbage]
          /\ total_dequeue_sum' = 0 /\ lost' = <<>> /\ passed' = FALSE
      BY <1>9, <2>2 DEF WriteResults
    <3>2. Fresh \in [Started -> ThreadState] /\ \A t \in Started : Fresh[t].pc = "clock"
      BY FreshType
    <3>3. rep' \in 0 .. Repetitions - 1
      <4>1. Repetitions \in Nat
        BY BenchmarkAssumption DEF BenchmarkAssumption
      <4>2. rep \in 0 .. Repetitions - 1
        BY DEF BenchInv, TypeOK
      <4> QED BY <2>2, <3>1, <4>1, <4>2
    <3>4. 0 \in Longs /\ <<>> \in Seq(Ints)
      BY Widths
    <3>5. TypeOK'
      BY <1>a, <1>s, <2>1, <3>1, <3>2, <3>3, <3>4 DEF TypeOK, ThreadState
    <3>6. Stored'
      BY <3>1, <3>2 DEF Stored
    <3> QED BY <3>1, <3>5, <3>6 DEF BenchInv, Joined, Emptied
  <2>3. CASE ~ (rep + 1 < Repetitions)
    <3>1. /\ phase' = "over"
          /\ UNCHANGED <<rep, thread, Nr_enq_operations, total_dequeue_sum, lost, passed>>
      BY <1>9, <2>3 DEF WriteResults
    <3> QED BY <2>1, <3>1 DEF BenchInv, TypeOK, Joined, Emptied, Stored
  <2> QED BY <2>2, <2>3
<1>10. ASSUME UNCHANGED vars PROVE BenchInv'
  BY <1>10 DEF BenchInv, TypeOK, Joined, Emptied, Stored, vars
<1> QED BY <1>1, <1>2, <1>3, <1>4, <1>5, <1>6, <1>7, <1>8, <1>9, <1>10
        DEF Next, Step, Master

(* What each thread has put into the queue and not taken out. *)
Balance(th) == [t \in Started |-> th[t].enq_count - th[t].deq_count]

(* CountsAgree, modulo 2 ^ IntBits. *)
Counts ==
  phase = "parallel" =>
    Same(2 ^ IntBits, SumFunction(Balance(thread)), Len(queue) + Len(lost))

(* The types of the counters. *)
LEMMA StateTypes ==
  ASSUME NEW th, th \in [Started -> ThreadState], NEW t \in Started
  PROVE  /\ th[t].enq_count \in Ints /\ th[t].enq_count \in Int
         /\ th[t].deq_count \in Ints /\ th[t].deq_count \in Int
         /\ th[t].dequeue_sum \in Longs /\ th[t].dequeue_sum \in Int
         /\ th[t].enq \in Nat /\ th[t].batches \in 0 .. MaxBatches
<1>1. th[t].enq_count \in Ints /\ th[t].deq_count \in Ints /\ th[t].dequeue_sum \in Longs
      /\ th[t].enq \in Nat /\ th[t].batches \in 0 .. MaxBatches
  BY DEF ThreadState
<1> QED BY <1>1, Widths

(* The balances and their sum are integers. *)
LEMMA BalanceType ==
  ASSUME NEW th, th \in [Started -> ThreadState]
  PROVE  /\ Balance(th) \in [Started -> Int]
         /\ SumFunction(Balance(th)) \in Int
<1>1. \A t \in Started : th[t].enq_count \in Int /\ th[t].deq_count \in Int
  BY StateTypes
<1>2. Balance(th) \in [Started -> Int]
  BY <1>1 DEF Balance
<1> QED BY <1>2, Widths, SumFunctionType

(* The sum of the balances follows that of the thread that moves. *)
LEMMA BalanceChange ==
  ASSUME NEW th, th \in [Started -> ThreadState],
         NEW tt, tt \in [Started -> ThreadState],
         NEW t \in Started, \A u \in Started \ {t} : tt[u] = th[u]
  PROVE  SumFunction(Balance(tt)) =
           SumFunction(Balance(th)) + (tt[t].enq_count - tt[t].deq_count)
             - (th[t].enq_count - th[t].deq_count)
<1>1. PICK f, g : f = Balance(th) /\ g = Balance(tt)
  OBVIOUS
<1>2. f \in [Started -> Int] /\ g \in [Started -> Int] /\ IsFiniteSet(Started)
  BY <1>1, BalanceType, Widths
<1>3. \A u \in Started \ {t} : g[u] = f[u]
  BY <1>1 DEF Balance
<1>4. SumFunction(g) = SumFunction(f) + g[t] - f[t]
  BY <1>2, <1>3, SumChange
<1> QED BY <1>1, <1>4 DEF Balance

(* It stays if the counters do. *)
LEMMA BalanceSame ==
  ASSUME NEW th, th \in [Started -> ThreadState],
         NEW tt, tt \in [Started -> ThreadState],
         NEW t \in Started, \A u \in Started \ {t} : tt[u] = th[u],
         tt[t].enq_count = th[t].enq_count, tt[t].deq_count = th[t].deq_count
  PROVE  SumFunction(Balance(tt)) = SumFunction(Balance(th))
<1>1. Balance(tt) = Balance(th)
  BY DEF Balance
<1> QED BY <1>1

(* Counting one more adds 1, modulo 2 ^ IntBits. *)
LEMMA ToIntStep ==
  ASSUME NEW c \in Int
  PROVE  /\ Same(2 ^ IntBits, ToInt(c + 1) - c, 1)
         /\ Same(2 ^ IntBits, c - ToInt(c + 1), -1)
<1>1. PICK n \in Int : n = 2 ^ IntBits
  BY Widths
<1>2. PICK d \in Int : d = c + 1
  OBVIOUS
<1>3. PICK x \in Int : x = ToInt(d) /\ Same(n, x, d)
  BY <1>1, ToIntFacts
<1>4. PICK q \in Int : x = d + q * n
  BY <1>3 DEF Same
<1>5. x - c = 1 + q * n /\ c - x = -1 + (-q) * n /\ -q \in Int
  BY <1>2, <1>4, SMT
<1>6. Same(n, x - c, 1) /\ Same(n, c - x, -1)
  BY <1>5 DEF Same
<1> QED BY <1>1, <1>2, <1>3, <1>6

(* At the beginning of a repetition the balances are zero. *)
LEMMA FreshBalance ==
  SumFunction(Balance(Fresh)) = 0
<1>1. Balance(Fresh) = [t \in Started |-> 0]
  BY DEF Fresh, Balance
<1> QED BY <1>1, Widths, SumZeros

(* Initially no thread has counted anything, and the queue is empty. *)
LEMMA InitCounts == Init => Counts
<1> SUFFICES ASSUME Init PROVE Counts
  OBVIOUS
<1>1. Len(queue) = 0 /\ Len(lost) = 0
  BY EmptySeq DEF Init
<1>2. SumFunction(Balance(thread)) = 0
  BY FreshBalance DEF Init
<1>3. Same(2 ^ IntBits, 0, 0)
  BY Widths, SameRefl
<1> QED BY <1>1, <1>2, <1>3 DEF Counts

(* An enq counts one more and makes the queue longer, a deq counts one more *)
(* and makes it shorter; the losses are counted too.                        *)
LEMMA NextCounts == BenchInv /\ Counts /\ [Next]_vars => Counts'
<1> SUFFICES ASSUME BenchInv, Counts, [Next]_vars PROVE Counts'
  OBVIOUS
<1>n. PICK n \in Int : n = 2 ^ IntBits
  BY Widths
<1>a. thread \in [Started -> ThreadState] /\ queue \in Seq(Ints) /\ lost \in Seq(Ints)
  BY DEF BenchInv, TypeOK, ThreadState
<1>l. PICK q \in Int, l \in Int : q = Len(queue) /\ l = Len(lost)
  BY <1>a, LenProperties
<1>s. PICK s \in Int : s = SumFunction(Balance(thread))
  BY <1>a, BalanceType
<1>h. phase = "parallel" => Same(n, s, q + l)
  BY <1>n, <1>l, <1>s DEF Counts
<1>g. SUFFICES ASSUME phase' = "parallel"
               PROVE  Same(n, SumFunction(Balance(thread')), Len(queue') + Len(lost'))
  BY <1>n DEF Counts, Balance
<1>1. ASSUME NEW t \in Started, BeginBatches(t) \/ TimeOver(t) \/ DeqEmpty(t) \/ EndBatch(t)
      PROVE  Same(n, SumFunction(Balance(thread')), Len(queue') + Len(lost'))
  <2>1. phase = "parallel" /\ UNCHANGED <<queue, lost>>
    BY <1>1 DEF BeginBatches, TimeOver, DeqEmpty, EndBatch, At
  <2>2. SumFunction(Balance(thread')) = s
    BY <1>a, <1>s, <1>1, Moves, BalanceSame DEF Only
  <2> QED BY <1>h, <1>l, <2>1, <2>2
<1>2. ASSUME NEW t \in Started, Enq(t)
      PROVE  Same(n, SumFunction(Balance(thread')), Len(queue') + Len(lost'))
  <2>1. phase = "parallel" /\ lost' = lost
    BY <1>2 DEF Enq, At
  <2>2. PICK c \in Int, d \in Int : c = thread[t].enq_count /\ d = thread[t].deq_count
    BY <1>a, StateTypes
  <2>3. PICK e \in Int : e = ToInt(c + 1)
    BY ToIntFacts
  <2>4. SumFunction(Balance(thread')) = s + (e - d) - (c - d)
    <3>1. PICK tt : tt = thread'
      OBVIOUS
    <3>2. /\ tt \in [Started -> ThreadState] /\ \A u \in Started \ {t} : tt[u] = thread[u]
          /\ tt[t].enq_count = e /\ tt[t].deq_count = d
      BY <1>2, <2>2, <2>3, <3>1, EnqMoves DEF Only
    <3>3. SumFunction(Balance(tt)) =
            SumFunction(Balance(thread)) + (tt[t].enq_count - tt[t].deq_count)
              - (thread[t].enq_count - thread[t].deq_count)
      BY <1>a, <3>2, BalanceChange
    <3> QED BY <1>s, <2>2, <3>1, <3>2, <3>3
  <2>5. Len(queue') = q + 1
    <3>1. Value(t, c) \in Ints
      BY <2>2, ValueType, Widths
    <3> QED BY <1>a, <1>l, <1>2, <2>2, <3>1, AppendProperties DEF Enq
  <2>6. Same(n, e - c, 1)
    BY <1>n, <2>3, ToIntStep
  <2>7. Same(n, s + (e - c), (q + l) + 1)
    <3>1. PICK k \in Int, r \in Int : k = e - c /\ r = q + l
      OBVIOUS
    <3>2. Same(n, s, r) /\ Same(n, k, 1)
      BY <1>h, <2>1, <2>6, <3>1
    <3>3. Same(n, s + k, r + 1)
      BY <3>2, SameAdd
    <3> QED BY <3>1, <3>3
  <2>8. s + (e - d) - (c - d) = s + (e - c) /\ (q + 1) + l = (q + l) + 1
    OBVIOUS
  <2> QED BY <1>l, <2>1, <2>4, <2>5, <2>7, <2>8
<1>3. ASSUME NEW t \in Started, Deq(t)
      PROVE  Same(n, SumFunction(Balance(thread')), Len(queue') + Len(lost'))
  <2>1. phase = "parallel" /\ lost' = lost
    BY <1>3 DEF Deq, At
  <2>2. PICK c \in Int, d \in Int : c = thread[t].enq_count /\ d = thread[t].deq_count
    BY <1>a, StateTypes
  <2>3. PICK e \in Int : e = ToInt(d + 1)
    BY ToIntFacts
  <2>4. SumFunction(Balance(thread')) = s + (c - e) - (c - d)
    <3>1. PICK tt : tt = thread'
      OBVIOUS
    <3>2. /\ tt \in [Started -> ThreadState] /\ \A u \in Started \ {t} : tt[u] = thread[u]
          /\ tt[t].enq_count = c /\ tt[t].deq_count = e
      BY <1>3, <2>2, <2>3, <3>1, DeqMoves DEF Only
    <3>3. SumFunction(Balance(tt)) =
            SumFunction(Balance(thread)) + (tt[t].enq_count - tt[t].deq_count)
              - (thread[t].enq_count - thread[t].deq_count)
      BY <1>a, <3>2, BalanceChange
    <3> QED BY <1>s, <2>2, <3>1, <3>2, <3>3
  <2>5. Len(queue') = q - 1
    BY <1>a, <1>l, <1>3, HeadTailProperties DEF Deq
  <2>6. Same(n, d - e, -1)
    BY <1>n, <2>3, ToIntStep
  <2>7. Same(n, s + (d - e), (q + l) + (-1))
    <3>1. PICK k \in Int, r \in Int, o \in Int : k = d - e /\ r = q + l /\ o = -1
      OBVIOUS
    <3>2. Same(n, s, r) /\ Same(n, k, o)
      BY <1>h, <2>1, <2>6, <3>1
    <3>3. Same(n, s + k, r + o)
      BY <3>2, SameAdd
    <3> QED BY <3>1, <3>3
  <2>8. s + (c - e) - (c - d) = s + (d - e) /\ (q - 1) + l = (q + l) + (-1)
    OBVIOUS
  <2> QED BY <1>l, <2>1, <2>4, <2>5, <2>7, <2>8
<1>4. ASSUME NEW t \in Started, Store(t)
      PROVE  Same(n, SumFunction(Balance(thread')), Len(queue') + Len(lost'))
  <2>1. phase = "parallel" /\ UNCHANGED <<queue, lost>>
    BY <1>4 DEF Store, At
  <2>2. SumFunction(Balance(thread')) = s
    BY <1>a, <1>s, <1>4, StoreMoves, BalanceSame DEF Only
  <2> QED BY <1>h, <1>l, <2>1, <2>2
<1>5. ASSUME Lose
      PROVE  Same(n, SumFunction(Balance(thread')), Len(queue') + Len(lost'))
  <2>1. phase = "parallel" /\ thread' = thread
    BY <1>5 DEF Lose
  <2>2. Len(queue') = q - 1 /\ Head(queue) \in Ints
    BY <1>a, <1>l, <1>5, HeadTailProperties DEF Lose
  <2>3. Len(lost') = l + 1
    BY <1>a, <1>l, <1>5, <2>2, AppendProperties DEF Lose
  <2>4. (q - 1) + (l + 1) = q + l
    OBVIOUS
  <2> QED BY <1>h, <1>s, <2>1, <2>2, <2>3, <2>4
<1>6. ASSUME Join \/ Drain \/ Check PROVE FALSE
  BY <1>g, <1>6 DEF Join, Drain, Check
<1>7. ASSUME WriteResults
      PROVE  Same(n, SumFunction(Balance(thread')), Len(queue') + Len(lost'))
  <2>1. thread' = Fresh /\ lost' = <<>> /\ queue' = <<>>
    BY <1>g, <1>7 DEF WriteResults, BenchInv, Emptied
  <2>2. SumFunction(Balance(thread')) = 0
    BY <2>1, FreshBalance
  <2>3. Len(queue') = 0 /\ Len(lost') = 0
    BY <2>1, EmptySeq
  <2> QED BY <2>2, <2>3, SameRefl
<1>8. ASSUME UNCHANGED vars
      PROVE  Same(n, SumFunction(Balance(thread')), Len(queue') + Len(lost'))
  BY <1>8, <1>g, <1>h, <1>l, <1>s DEF vars
<1> QED BY <1>1, <1>2, <1>3, <1>4, <1>5, <1>6, <1>7, <1>8
        DEF Next, Step, Master

(* The batches of a thread are no more values than int can count. *)
CountsFit ==
  \E most \in Nat :
    (\A n \in EnqSizes : n <= most) /\ MaxBatches * most < 2 ^ (IntBits - 1)

(* The counter of a thread, with the rest of its batch, is no more than its *)
(* batches allow.                                                           *)
Few ==
  \A t \in Started :
    /\ thread[t].enq_count >= 0
    /\ \A most \in Nat : (\A n \in EnqSizes : n <= most) =>
         thread[t].enq_count + thread[t].enq <= thread[t].batches * most

(* While a batch is not over, the counter can count one more. *)
LEMMA Fits ==
  ASSUME BenchInv, Few, CountsFit, NEW t \in Started, thread[t].enq > 0
  PROVE  /\ ToInt(thread[t].enq_count + 1) = thread[t].enq_count + 1
         /\ thread[t].enq_count \in Nat
<1>1. PICK h \in Nat \ {0} : h = 2 ^ (IntBits - 1)
  BY BenchmarkAssumption DEF BenchmarkAssumption
<1>2. PICK most \in Nat : (\A n \in EnqSizes : n <= most) /\ MaxBatches * most < h
  BY <1>1 DEF CountsFit
<1>3. thread \in [Started -> ThreadState]
  BY DEF BenchInv, TypeOK, ThreadState
<1>4. PICK c \in Int, e \in Nat, b \in 0 .. MaxBatches :
        c = thread[t].enq_count /\ e = thread[t].enq /\ b = thread[t].batches
  BY <1>3, StateTypes
<1>5. c >= 0 /\ c + e <= b * most
  BY <1>2, <1>4 DEF Few
<1>6. MaxBatches \in Nat
  BY BenchmarkAssumption DEF BenchmarkAssumption
<1>7. b * most <= MaxBatches * most
  <2>1. PICK m \in Nat : m = MaxBatches
    BY <1>6
  <2>2. b \in Nat /\ b <= m
    BY <2>1
  <2>3. b * most <= m * most
    BY <2>2, SMT
  <2> QED BY <2>1, <2>3
<1>8. b * most \in Int /\ MaxBatches * most \in Int
  <2>1. PICK m \in Nat, k \in Nat : m = MaxBatches /\ k = b
    BY <1>6
  <2>2. k * most \in Int /\ m * most \in Int
    BY SMT
  <2> QED BY <2>1, <2>2
<1>9. c + 1 <= h - 1
  BY <1>2, <1>4, <1>5, <1>7, <1>8
<1>10. c + 1 \in Ints
  BY <1>1, <1>5, <1>9 DEF Ints
<1>11. ToInt(c + 1) = c + 1
  <2>1. PICK d \in Int : d = c + 1
    OBVIOUS
  <2> QED BY <1>10, <2>1, ToIntFacts
<1> QED BY <1>4, <1>5, <1>11

(* Initially nothing has been counted. *)
LEMMA InitFew == Init => Few
<1> SUFFICES ASSUME Init, NEW t \in Started
             PROVE  /\ thread[t].enq_count >= 0
                    /\ \A most \in Nat : (\A n \in EnqSizes : n <= most) =>
                         thread[t].enq_count + thread[t].enq <= thread[t].batches * most
  BY DEF Few
<1>1. thread[t].enq_count = 0 /\ thread[t].enq = 0 /\ thread[t].batches = 0
  BY DEF Init, Fresh
<1>2. \A most \in Nat : 0 + 0 <= 0 * most
  BY SMT
<1> QED BY <1>1, <1>2

(* A batch that begins adds at most as many values as the largest one has. *)
LEMMA NextFew == BenchInv /\ Few /\ CountsFit /\ [Next]_vars => Few'
<1> SUFFICES ASSUME BenchInv, Few, CountsFit, [Next]_vars PROVE Few'
  OBVIOUS
<1>a. thread \in [Started -> ThreadState]
  BY DEF BenchInv, TypeOK, ThreadState
<1> DEFINE Ok(th, t) ==
      /\ th[t].enq_count >= 0
      /\ \A most \in Nat : (\A n \in EnqSizes : n <= most) =>
           th[t].enq_count + th[t].enq <= th[t].batches * most
<1>0. \A t \in Started : Ok(thread, t)
  BY DEF Few
<1>s. SUFFICES ASSUME NEW u \in Started PROVE Ok(thread', u)
  BY DEF Few
<1> HIDE DEF Ok
<1>1. ASSUME NEW t \in Started, BeginBatches(t) PROVE Ok(thread', u)
  <2>1. PICK e \in EnqSizes, d \in DeqSizes :
          thread' = [thread EXCEPT ![t].pc = "enq", ![t].batches = @ + 1,
                                   ![t].enq = e, ![t].deq = d]
    BY <1>1 DEF BeginBatches
  <2>2. CASE u = t
    <3>1. PICK c \in Int, x \in Nat, b \in Nat :
            c = thread[t].enq_count /\ x = thread[t].enq /\ b = thread[t].batches
      BY BenchmarkAssumption, <1>a, StateTypes DEF BenchmarkAssumption
    <3>2. thread'[t].enq_count = c /\ thread'[t].enq = e /\ thread'[t].batches = b + 1
      BY <1>a, <2>1, <3>1 DEF ThreadState
    <3>3. c >= 0
      BY <1>0, <3>1 DEF Ok
    <3>4. ASSUME NEW most \in Nat, \A n \in EnqSizes : n <= most
          PROVE  c + e <= (b + 1) * most
      <4>1. c + x <= b * most
        BY <1>0, <3>1, <3>4 DEF Ok
      <4>2. e <= most /\ e \in Nat
        BY BenchmarkAssumption, <3>4 DEF BenchmarkAssumption
      <4>3. (b + 1) * most = b * most + most
        BY SMT
      <4>4. PICK p \in Int : p = b * most
        BY SMT
      <4> QED BY <4>1, <4>2, <4>3, <4>4
    <3> QED BY <2>2, <3>2, <3>3, <3>4 DEF Ok
  <2>3. CASE u # t
    <3>1. thread'[u] = thread[u]
      BY <1>a, <2>1, <2>3
    <3> QED BY <1>0, <3>1 DEF Ok
  <2> QED BY <2>2, <2>3
<1>2. ASSUME NEW t \in Started, TimeOver(t) \/ DeqEmpty(t) \/ EndBatch(t)
      PROVE  Ok(thread', u)
  <2>1. /\ thread'[u].enq_count = thread[u].enq_count
        /\ thread'[u].enq = thread[u].enq
        /\ thread'[u].batches = thread[u].batches
    <3>1. CASE TimeOver(t)
      BY <1>a, <3>1 DEF TimeOver, ThreadState
    <3>2. CASE DeqEmpty(t)
      BY <1>a, <3>2 DEF DeqEmpty, ThreadState
    <3>3. CASE EndBatch(t)
      BY <1>a, <3>3 DEF EndBatch, ThreadState
    <3> QED BY <1>2, <3>1, <3>2, <3>3
  <2> QED BY <1>0, <2>1 DEF Ok
<1>3. ASSUME NEW t \in Started, Enq(t) PROVE Ok(thread', u)
  <2>1. CASE u = t
    <3>1. PICK c \in Int, x \in Nat, b \in Nat :
            c = thread[t].enq_count /\ x = thread[t].enq /\ b = thread[t].batches
      BY BenchmarkAssumption, <1>a, StateTypes DEF BenchmarkAssumption
    <3>2. ToInt(c + 1) = c + 1 /\ c >= 0
      BY <1>3, <3>1, Fits DEF Enq
    <3>3. thread'[t].enq_count = c + 1 /\ thread'[t].enq = x - 1 /\ thread'[t].batches = b
      BY <1>3, <3>1, <3>2, EnqMoves
    <3>4. (c + 1) + (x - 1) = c + x
      OBVIOUS
    <3>5. \A most \in Nat : (\A n \in EnqSizes : n <= most) => c + x <= b * most
      BY <1>0, <3>1 DEF Ok
    <3> QED BY <2>1, <3>2, <3>3, <3>4, <3>5 DEF Ok
  <2>2. CASE u # t
    <3>1. thread'[u] = thread[u]
      BY <1>3, <2>2, EnqMoves DEF Only
    <3> QED BY <1>0, <3>1 DEF Ok
  <2> QED BY <2>1, <2>2
<1>4. ASSUME NEW t \in Started, Deq(t) \/ Store(t) PROVE Ok(thread', u)
  <2>1. /\ thread'[u].enq_count = thread[u].enq_count
        /\ thread'[u].enq = thread[u].enq
        /\ thread'[u].batches = thread[u].batches
    BY <1>4, DeqMoves, StoreMoves DEF Only
  <2> QED BY <1>0, <2>1 DEF Ok
<1>5. ASSUME Lose \/ Join \/ Drain \/ Check \/ UNCHANGED vars PROVE Ok(thread', u)
  BY <1>0, <1>5 DEF Lose, Join, Drain, Check, vars
<1>6. ASSUME WriteResults PROVE Ok(thread', u)
  <2>1. CASE thread' = Fresh
    <3>1. thread'[u].enq_count = 0 /\ thread'[u].enq = 0 /\ thread'[u].batches = 0
      BY <2>1 DEF Fresh
    <3>2. \A most \in Nat : 0 + 0 <= 0 * most
      BY SMT
    <3> QED BY <3>1, <3>2 DEF Ok
  <2>2. CASE thread' = thread
    BY <1>0, <2>2
  <2> QED BY <1>6, <2>1, <2>2 DEF WriteResults
<1> QED BY <1>1, <1>2, <1>3, <1>4, <1>5, <1>6 DEF Next, Step, Master

(* The sum of the first n values of thread t. *)
FirstValues(t, n) == SumFunction([i \in 0 .. n - 1 |-> Value(t, i)])

(* What each thread has enqueued. *)
Enqueued(th) == [t \in Started |-> FirstValues(t, th[t].enq_count)]

(* What the threads that have not stored their sums have dequeued. *)
Carried(th) == [t \in {u \in Started : th[u].pc # "join"} |-> th[t].dequeue_sum]

(* SumsAgree, modulo 2 ^ LongBits. *)
SumsModulo ==
  phase \in {"parallel", "check"} =>
    Same(2 ^ LongBits, SumFunction(Enqueued(thread)),
         total_dequeue_sum + SumFunction(queue) + SumFunction(lost)
           + SumFunction(Carried(thread)))

(* The first values of a thread: none, or those before and one more. *)
LEMMA FirstValuesFacts ==
  ASSUME NEW t \in Threads, NEW n \in Int
  PROVE  /\ FirstValues(t, n) \in Int
         /\ n <= 0 => FirstValues(t, n) = 0
         /\ n >= 0 => FirstValues(t, n + 1) = FirstValues(t, n) + Value(t, n)
<1>1. PICK D : D = 0 .. n - 1
  OBVIOUS
<1>2. IsFiniteSet(D) /\ D \subseteq Int /\ (n <= 0 => D = {})
  BY <1>1, FirstNumbers
<1>3. PICK f : f = [i \in D |-> Value(t, i)]
  OBVIOUS
<1>4. f \in [D -> Int]
  BY <1>2, <1>3, ValueType
<1>5. FirstValues(t, n) = SumFunction(f)
  BY <1>1, <1>3 DEF FirstValues
<1>6. FirstValues(t, n) \in Int
  BY <1>2, <1>4, <1>5, SumFunctionType
<1>7. n <= 0 => FirstValues(t, n) = 0
  BY <1>2, <1>3, <1>5, SumEmpty
<1>8. ASSUME n >= 0 PROVE FirstValues(t, n + 1) = FirstValues(t, n) + Value(t, n)
  <2>1. PICK g : g = [i \in 0 .. n |-> Value(t, i)]
    OBVIOUS
  <2>2. g \in [0 .. n -> Int] /\ f \in [0 .. n - 1 -> Int]
        /\ \A i \in 0 .. n - 1 : g[i] = f[i]
    <3>1. \A i \in 0 .. n : i \in Int /\ Value(t, i) \in Int
      BY ValueType
    <3>2. g \in [0 .. n -> Int]
      BY <2>1, <3>1
    <3>3. f \in [0 .. n - 1 -> Int]
      BY <1>1, <1>4
    <3>4. \A i \in 0 .. n - 1 : i \in 0 .. n /\ i \in D
      BY <1>1
    <3>5. \A i \in 0 .. n - 1 : g[i] = f[i]
      BY <1>3, <2>1, <3>4, Zenon
    <3> QED BY <3>2, <3>3, <3>5
  <2>3. n \in Nat
    BY <1>8
  <2>4. SumFunction(g) = SumFunction(f) + g[n]
    BY <2>2, <2>3, SumUpTo
  <2>5. 0 .. (n + 1) - 1 = 0 .. n /\ n \in 0 .. n
    BY <1>8
  <2> QED BY <1>5, <2>1, <2>4, <2>5 DEF FirstValues
<1> QED BY <1>6, <1>7, <1>8

(* What has been enqueued adds up to an integer. *)
LEMMA EnqueuedType ==
  ASSUME NEW th, th \in [Started -> ThreadState]
  PROVE  /\ Enqueued(th) \in [Started -> Int]
         /\ SumFunction(Enqueued(th)) \in Int
<1>1. \A t \in Started : FirstValues(t, th[t].enq_count) \in Int
  BY StateTypes, Widths, FirstValuesFacts
<1>2. Enqueued(th) \in [Started -> Int]
  BY <1>1 DEF Enqueued
<1> QED BY <1>2, Widths, SumFunctionType

(* What the threads carry adds up to an integer. *)
LEMMA CarriedType ==
  ASSUME NEW th, th \in [Started -> ThreadState], NEW D,
         D = {u \in Started : th[u].pc # "join"}
  PROVE  /\ IsFiniteSet(D) /\ Carried(th) \in [D -> Int]
         /\ SumFunction(Carried(th)) \in Int
<1>1. IsFiniteSet(D)
  BY Widths, FS_Subset
<1>2. \A t \in D : th[t].dequeue_sum \in Int
  BY StateTypes
<1>3. Carried(th) \in [D -> Int]
  BY <1>2 DEF Carried
<1> QED BY <1>1, <1>3, SumFunctionType

(* Without an enq nothing more has been enqueued. *)
LEMMA EnqueuedSame ==
  ASSUME NEW th, NEW tt, \A u \in Started : tt[u].enq_count = th[u].enq_count
  PROVE  Enqueued(tt) = Enqueued(th)
BY DEF Enqueued

(* An enq adds the next value of its thread. *)
LEMMA EnqueuedStep ==
  ASSUME NEW th, th \in [Started -> ThreadState],
         NEW tt, tt \in [Started -> ThreadState],
         NEW t \in Started, \A u \in Started \ {t} : tt[u] = th[u],
         th[t].enq_count >= 0, tt[t].enq_count = th[t].enq_count + 1
  PROVE  SumFunction(Enqueued(tt)) =
           SumFunction(Enqueued(th)) + Value(t, th[t].enq_count)
<1>1. PICK f, g : f = Enqueued(th) /\ g = Enqueued(tt)
  OBVIOUS
<1>2. f \in [Started -> Int] /\ g \in [Started -> Int] /\ IsFiniteSet(Started)
  BY <1>1, EnqueuedType, Widths
<1>3. \A u \in Started \ {t} : g[u] = f[u]
  BY <1>1 DEF Enqueued
<1>4. SumFunction(g) = SumFunction(f) + g[t] - f[t]
  BY <1>2, <1>3, SumChange
<1>5. PICK c \in Int : c = th[t].enq_count
  BY StateTypes
<1>6. PICK v \in Int : v = Value(t, c)
  BY <1>5, ValueType, Widths
<1>7. f[t] = FirstValues(t, c) /\ g[t] = FirstValues(t, c + 1)
  BY <1>1, <1>5 DEF Enqueued
<1>8. g[t] = f[t] + v /\ f[t] \in Int
  BY <1>2, <1>5, <1>6, <1>7, Widths, FirstValuesFacts
<1>9. SumFunction(f) \in Int
  BY <1>2, SumFunctionType
<1> QED BY <1>1, <1>4, <1>5, <1>6, <1>8, <1>9

(* As long as no thread dequeues or ends, they carry the same. *)
LEMMA CarriedSame ==
  ASSUME NEW th, NEW tt,
         \A u \in Started : (tt[u].pc = "join" <=> th[u].pc = "join")
                              /\ tt[u].dequeue_sum = th[u].dequeue_sum
  PROVE  Carried(tt) = Carried(th)
<1>1. {u \in Started : tt[u].pc # "join"} = {u \in Started : th[u].pc # "join"}
  OBVIOUS
<1> QED BY <1>1 DEF Carried

(* A thread dequeues. *)
LEMMA CarriedChange ==
  ASSUME NEW th, th \in [Started -> ThreadState],
         NEW tt, tt \in [Started -> ThreadState],
         NEW t \in Started, \A u \in Started \ {t} : tt[u] = th[u],
         th[t].pc # "join", tt[t].pc # "join"
  PROVE  SumFunction(Carried(tt)) =
           SumFunction(Carried(th)) + tt[t].dequeue_sum - th[t].dequeue_sum
<1>1. PICK f, g, D : f = Carried(th) /\ g = Carried(tt) /\ D = {u \in Started : th[u].pc # "join"}
  OBVIOUS
<1>2. D = {u \in Started : tt[u].pc # "join"} /\ t \in D
  BY <1>1
<1>3. f \in [D -> Int] /\ g \in [D -> Int] /\ IsFiniteSet(D)
  BY <1>1, <1>2, CarriedType
<1>4. \A u \in D \ {t} : g[u] = f[u]
  BY <1>1, <1>2 DEF Carried
<1>5. SumFunction(g) = SumFunction(f) + g[t] - f[t]
  BY <1>2, <1>3, <1>4, SumChange
<1>6. f[t] = th[t].dequeue_sum /\ g[t] = tt[t].dequeue_sum
  BY <1>1, <1>2 DEF Carried
<1> QED BY <1>1, <1>5, <1>6

(* A thread ends: what it carried goes elsewhere. *)
LEMMA CarriedRemove ==
  ASSUME NEW th, th \in [Started -> ThreadState],
         NEW tt, tt \in [Started -> ThreadState],
         NEW t \in Started, \A u \in Started \ {t} : tt[u] = th[u],
         th[t].pc # "join", tt[t].pc = "join"
  PROVE  SumFunction(Carried(tt)) = SumFunction(Carried(th)) - th[t].dequeue_sum
<1>1. PICK f, g, D : f = Carried(th) /\ g = Carried(tt) /\ D = {u \in Started : th[u].pc # "join"}
  OBVIOUS
<1>2. PICK E : E = {u \in Started : tt[u].pc # "join"}
  OBVIOUS
<1>3. t \in D /\ E = D \ {t}
  BY <1>1, <1>2
<1>4. f \in [D -> Int] /\ g \in [E -> Int] /\ IsFiniteSet(D)
  BY <1>1, <1>2, CarriedType
<1>5. \A u \in E : g[u] = f[u]
  BY <1>1, <1>2, <1>3 DEF Carried
<1>6. SumFunction(g) = SumFunction(f) - f[t]
  BY <1>3, <1>4, <1>5, SumRemove
<1>7. f[t] = th[t].dequeue_sum
  BY <1>1, <1>3 DEF Carried
<1> QED BY <1>1, <1>6, <1>7

(* At the beginning of a repetition nothing has been enqueued or dequeued. *)
LEMMA FreshSums ==
  SumFunction(Enqueued(Fresh)) = 0 /\ SumFunction(Carried(Fresh)) = 0
<1>1. \A t \in Started : Fresh[t].enq_count = 0 /\ Fresh[t].pc # "join" /\ Fresh[t].dequeue_sum = 0
  BY DEF Fresh
<1>2. \A t \in Started : FirstValues(t, 0) = 0
  BY Widths, FirstValuesFacts
<1>3. Enqueued(Fresh) = [t \in Started |-> 0]
  BY <1>1, <1>2 DEF Enqueued
<1>4. {u \in Started : Fresh[u].pc # "join"} = Started
  BY <1>1
<1>5. Carried(Fresh) = [t \in Started |-> 0]
  BY <1>1, <1>4 DEF Carried
<1> QED BY <1>3, <1>5, Widths, SumZeros

(* An addition of uint64_t is one modulo 2 ^ LongBits. *)
LEMMA ToLongStep ==
  ASSUME NEW s \in Int, NEW x \in Int
  PROVE  /\ Same(2 ^ LongBits, ToLong(s + x), s + x)
         /\ Same(2 ^ LongBits, ToLong(s + ToLong(x)), s + x)
         /\ ToLong(s + ToLong(x)) \in Int /\ ToLong(s + x) \in Int
<1>1. PICK n \in Int : n = 2 ^ LongBits
  BY Widths
<1>2. PICK y \in Int : y = ToLong(x) /\ Same(n, y, x)
  BY <1>1, ToLongFacts
<1>3. PICK a \in Int, b \in Int : a = s + x /\ b = s + y
  OBVIOUS
<1>4. Same(n, b, a)
  BY <1>2, <1>3, SameAdd, SameRefl
<1>5. /\ Same(n, ToLong(a), a) /\ Same(n, ToLong(b), b)
      /\ ToLong(a) \in Int /\ ToLong(b) \in Int
  BY <1>1, ToLongFacts
<1>6. Same(n, ToLong(b), a)
  BY <1>4, <1>5, SameTrans
<1> QED BY <1>1, <1>2, <1>3, <1>5, <1>6

(* Initially all sums are zero. *)
LEMMA InitSums == Init => SumsModulo
<1> SUFFICES ASSUME Init PROVE SumsModulo
  OBVIOUS
<1>1. SumFunction(Enqueued(thread)) = 0 /\ SumFunction(Carried(thread)) = 0
  BY FreshSums DEF Init
<1>2. SumFunction(<<>>) = 0
  <2>1. DOMAIN <<>> = {}
    OBVIOUS
  <2> QED BY <2>1, SumEmpty
<1>3. Same(2 ^ LongBits, 0, 0) /\ 0 + 0 + 0 + 0 = 0
  BY Widths, SameRefl
<1> QED BY <1>1, <1>2, <1>3 DEF SumsModulo, Init

(* Every value goes from the thread to the queue, from there to a thread or *)
(* to the losses, and from the thread, or straight from the queue when it   *)
(* is drained, to the total.                                                *)
LEMMA NextSums == BenchInv /\ Few /\ CountsFit /\ SumsModulo /\ [Next]_vars => SumsModulo'
<1> SUFFICES ASSUME BenchInv, Few, CountsFit, SumsModulo, [Next]_vars PROVE SumsModulo'
  OBVIOUS
<1>m. PICK m \in Int : m = 2 ^ LongBits
  BY Widths
<1>a. thread \in [Started -> ThreadState] /\ queue \in Seq(Int) /\ lost \in Seq(Int)
  <2>1. queue \in Seq(Ints) /\ lost \in Seq(Ints) /\ Ints \subseteq Int
    BY Widths DEF BenchInv, TypeOK
  <2>2. queue \in Seq(Int) /\ lost \in Seq(Int)
    BY <2>1, SeqSubset
  <2> QED BY <2>2 DEF BenchInv, TypeOK, ThreadState
<1>p. PICK p \in Int : p = total_dequeue_sum
  BY Widths DEF BenchInv, TypeOK
<1>q. PICK q \in Int, l \in Int : q = SumFunction(queue) /\ l = SumFunction(lost)
  BY <1>a, SumSeqType
<1>s. PICK a \in Int, r \in Int :
        a = SumFunction(Enqueued(thread)) /\ r = SumFunction(Carried(thread))
  BY <1>a, EnqueuedType, CarriedType
<1>i. PICK s \in Int : s = p + q + l + r
  OBVIOUS
<1>h. phase \in {"parallel", "check"} => Same(m, a, s)
  BY <1>m, <1>p, <1>q, <1>s, <1>i DEF SumsModulo
<1> DEFINE Goal ==
      Same(m, SumFunction(Enqueued(thread')),
           total_dequeue_sum' + SumFunction(queue') + SumFunction(lost')
             + SumFunction(Carried(thread')))
<1>g. SUFFICES ASSUME phase' \in {"parallel", "check"} PROVE Goal
  BY <1>m DEF SumsModulo, Enqueued, Carried
<1>1. ASSUME NEW t \in Started, BeginBatches(t) \/ TimeOver(t) \/ DeqEmpty(t) \/ EndBatch(t)
      PROVE  Goal
  <2>1. phase = "parallel" /\ UNCHANGED <<queue, lost, total_dequeue_sum>>
    BY <1>1 DEF BeginBatches, TimeOver, DeqEmpty, EndBatch, At
  <2>2. \A u \in Started : /\ (thread'[u].pc = "join" <=> thread[u].pc = "join")
                           /\ thread'[u].dequeue_sum = thread[u].dequeue_sum
                           /\ thread'[u].enq_count = thread[u].enq_count
    BY <1>1, Moves DEF Only
  <2>3. Enqueued(thread') = Enqueued(thread) /\ Carried(thread') = Carried(thread)
    BY <2>2, EnqueuedSame, CarriedSame
  <2> QED BY <1>h, <1>i, <1>p, <1>q, <1>s, <2>1, <2>3
<1>2. ASSUME NEW t \in Started, Enq(t) PROVE Goal
  <2>1. phase = "parallel" /\ lost' = lost /\ total_dequeue_sum' = total_dequeue_sum
    BY <1>2 DEF Enq, At
  <2>2. PICK c \in Int : c = thread[t].enq_count
    BY <1>a, StateTypes
  <2>3. PICK v \in Int : v = Value(t, c)
    BY <2>2, ValueType, Widths
  <2>4. PICK tt : tt = thread'
    OBVIOUS
  <2>5. /\ tt \in [Started -> ThreadState] /\ \A u \in Started \ {t} : tt[u] = thread[u]
        /\ thread[t].pc # "join" /\ tt[t].pc # "join"
        /\ tt[t].dequeue_sum = thread[t].dequeue_sum
        /\ tt[t].enq_count = ToInt(c + 1)
    BY <1>2, <2>2, <2>4, EnqMoves DEF Only
  <2>6. ToInt(c + 1) = c + 1 /\ c >= 0
    BY <1>2, <2>2, Fits DEF Enq
  <2>7. SumFunction(Enqueued(tt)) = a + v
    <3>1. thread[t].enq_count >= 0 /\ tt[t].enq_count = thread[t].enq_count + 1
      BY <2>2, <2>5, <2>6
    <3>2. SumFunction(Enqueued(tt)) =
            SumFunction(Enqueued(thread)) + Value(t, thread[t].enq_count)
      <4>1. thread \in [Started -> ThreadState] /\ tt \in [Started -> ThreadState]
        BY <1>a, <2>5
      <4>2. \A u \in Started \ {t} : tt[u] = thread[u]
        BY <2>5
      <4>3. PICK th : th = thread
        OBVIOUS
      <4>4. SumFunction(Enqueued(tt)) = SumFunction(Enqueued(th)) + Value(t, th[t].enq_count)
        BY ONLY <3>1, <4>1, <4>2, <4>3, EnqueuedStep, t \in Started
      <4> QED BY <4>3, <4>4
    <3> QED BY <1>s, <2>2, <2>3, <3>2
  <2>8. Carried(tt) = Carried(thread)
    <3>1. \A u \in Started : /\ (tt[u].pc = "join" <=> thread[u].pc = "join")
                             /\ tt[u].dequeue_sum = thread[u].dequeue_sum
      BY <2>5
    <3> QED BY <3>1, CarriedSame
  <2>9. SumFunction(queue') = q + v
    BY <1>a, <1>q, <1>2, <2>2, <2>3, SumAppend DEF Enq
  <2>10. Same(m, a + v, s + v)
    BY <1>h, <2>1, SameAdd, SameRefl
  <2>11. s + v = p + (q + v) + l + r
    BY <1>i
  <2> QED BY <1>p, <1>q, <1>s, <2>1, <2>4, <2>7, <2>8, <2>9, <2>10, <2>11
<1>3. ASSUME NEW t \in Started, Deq(t) PROVE Goal
  <2>1. phase = "parallel" /\ lost' = lost /\ total_dequeue_sum' = total_dequeue_sum
    BY <1>3 DEF Deq, At
  <2>2. PICK x \in Int : x = Head(queue) /\ q = x + SumFunction(queue')
    BY <1>a, <1>q, <1>3, SumTail DEF Deq
  <2>3. SumFunction(queue') \in Int
    <3>1. queue' \in Seq(Int)
      BY <1>a, <1>3, SumTail DEF Deq
    <3> QED BY <3>1, SumSeqType
  <2>4. PICK c \in Int : c = thread[t].dequeue_sum
    BY <1>a, StateTypes
  <2>5. PICK y \in Int : y = ToLong(c + ToLong(x)) /\ Same(m, y, c + x)
    BY <1>m, ToLongStep
  <2>6. PICK tt : tt = thread'
    OBVIOUS
  <2>7. /\ tt \in [Started -> ThreadState] /\ \A u \in Started \ {t} : tt[u] = thread[u]
        /\ thread[t].pc # "join" /\ tt[t].pc # "join"
        /\ tt[t].dequeue_sum = y
        /\ tt[t].enq_count = thread[t].enq_count
    BY <1>3, <2>2, <2>4, <2>5, <2>6, DeqMoves DEF Only
  <2>8. Enqueued(tt) = Enqueued(thread)
    BY <2>7, EnqueuedSame
  <2>9. SumFunction(Carried(tt)) = r + y - c
    BY <1>a, <1>s, <2>4, <2>7, CarriedChange
  <2>10. Same(m, a, s + y - (c + x))
    <3>1. PICK z \in Int : z = c + x
      OBVIOUS
    <3> QED BY <1>h, <2>1, <2>5, <3>1, SameMove
  <2>11. s + y - (c + x) = p + SumFunction(queue') + l + (r + y - c)
    BY <1>i, <2>2, <2>3
  <2> QED BY <1>p, <1>q, <1>s, <2>1, <2>6, <2>8, <2>9, <2>10, <2>11
<1>4. ASSUME NEW t \in Started, Store(t) PROVE Goal
  <2>1. phase = "parallel" /\ UNCHANGED <<queue, lost>>
    BY <1>4 DEF Store, At
  <2>2. PICK c \in Int : c = thread[t].dequeue_sum
    BY <1>a, StateTypes
  <2>3. PICK y \in Int : y = ToLong(p + c) /\ Same(m, y, p + c)
    BY <1>m, ToLongStep
  <2>4. total_dequeue_sum' = y
    BY <1>4, <1>p, <2>2, <2>3 DEF Store
  <2>5. PICK tt : tt = thread'
    OBVIOUS
  <2>6. /\ tt \in [Started -> ThreadState] /\ \A u \in Started \ {t} : tt[u] = thread[u]
        /\ thread[t].pc # "join" /\ tt[t].pc = "join"
        /\ tt[t].enq_count = thread[t].enq_count
    BY <1>4, <2>5, StoreMoves DEF Only
  <2>7. Enqueued(tt) = Enqueued(thread)
    BY <2>6, EnqueuedSame
  <2>8. SumFunction(Carried(tt)) = r - c
    <3>1. SumFunction(Carried(tt)) = SumFunction(Carried(thread)) - thread[t].dequeue_sum
      <4>1. thread \in [Started -> ThreadState] /\ tt \in [Started -> ThreadState]
        BY <1>a, <2>6
      <4>2. /\ \A u \in Started \ {t} : tt[u] = thread[u]
            /\ thread[t].pc # "join" /\ tt[t].pc = "join"
        BY <2>6
      <4> QED BY ONLY <4>1, <4>2, CarriedRemove, t \in Started
    <3> QED BY <1>s, <2>2, <3>1
  <2>9. Same(m, a, s + y - (p + c))
    <3>1. PICK z \in Int : z = p + c
      OBVIOUS
    <3> QED BY <1>h, <2>1, <2>3, <3>1, SameMove
  <2>10. s + y - (p + c) = y + q + l + (r - c)
    BY <1>i
  <2> QED BY <1>q, <1>s, <2>1, <2>4, <2>5, <2>7, <2>8, <2>9, <2>10
<1>5. ASSUME Lose PROVE Goal
  <2>1. phase = "parallel" /\ thread' = thread /\ total_dequeue_sum' = total_dequeue_sum
    BY <1>5 DEF Lose
  <2>2. PICK x \in Int : x = Head(queue) /\ q = x + SumFunction(queue')
    BY <1>a, <1>q, <1>5, SumTail DEF Lose
  <2>3. SumFunction(queue') \in Int
    <3>1. queue' \in Seq(Int)
      BY <1>a, <1>5, SumTail DEF Lose
    <3> QED BY <3>1, SumSeqType
  <2>4. SumFunction(lost') = l + x
    BY <1>a, <1>q, <1>5, <2>2, SumAppend DEF Lose
  <2>5. s = p + SumFunction(queue') + (l + x) + r
    BY <1>i, <2>2, <2>3
  <2> QED BY <1>h, <1>p, <1>s, <2>1, <2>4, <2>5
<1>6. ASSUME Join PROVE Goal
  <2>1. /\ \A t \in Started : At(t, "join")
        /\ UNCHANGED <<thread, queue, lost, total_dequeue_sum>>
    BY <1>6 DEF Join
  <2>2. phase = "parallel"
    <3>1. 0 \in Started
      BY BenchmarkAssumption DEF Started, BenchmarkAssumption
    <3> QED BY <2>1, <3>1 DEF At
  <2> QED BY <1>h, <1>i, <1>p, <1>q, <1>s, <2>1, <2>2
<1>7. ASSUME Drain PROVE Goal
  <2>1. phase = "check" /\ UNCHANGED <<thread, lost>>
    BY <1>7 DEF Drain
  <2>2. PICK x \in Int : x = Head(queue) /\ q = x + SumFunction(queue')
    BY <1>a, <1>q, <1>7, SumTail DEF Drain
  <2>3. SumFunction(queue') \in Int
    <3>1. queue' \in Seq(Int)
      BY <1>a, <1>7, SumTail DEF Drain
    <3> QED BY <3>1, SumSeqType
  <2>4. PICK y \in Int : y = ToLong(p + ToLong(x)) /\ Same(m, y, p + x)
    BY <1>m, ToLongStep
  <2>5. total_dequeue_sum' = y
    BY <1>7, <1>p, <2>2, <2>4 DEF Drain
  <2>6. Same(m, a, s + y - (p + x))
    <3>1. PICK z \in Int : z = p + x
      OBVIOUS
    <3> QED BY <1>h, <2>1, <2>4, <3>1, SameMove
  <2>7. s + y - (p + x) = y + SumFunction(queue') + l + r
    BY <1>i, <2>2, <2>3
  <2> QED BY <1>q, <1>s, <2>1, <2>5, <2>6, <2>7
<1>8. ASSUME Check PROVE FALSE
  BY <1>g, <1>8 DEF Check
<1>9. ASSUME WriteResults PROVE Goal
  <2>1. thread' = Fresh /\ total_dequeue_sum' = 0 /\ lost' = <<>> /\ queue' = <<>>
    BY <1>g, <1>9 DEF WriteResults, BenchInv, Emptied
  <2>2. SumFunction(Enqueued(thread')) = 0 /\ SumFunction(Carried(thread')) = 0
    BY <2>1, FreshSums
  <2>3. SumFunction(<<>>) = 0
    <3>1. DOMAIN <<>> = {}
      OBVIOUS
    <3> QED BY <3>1, SumEmpty
  <2>4. Same(m, 0, 0) /\ 0 + 0 + 0 + 0 = 0
    BY SameRefl
  <2> QED BY <2>1, <2>2, <2>3, <2>4
<1>10. ASSUME UNCHANGED vars PROVE Goal
  BY <1>10, <1>g, <1>h, <1>i, <1>p, <1>q, <1>s DEF vars
<1> QED BY <1>1, <1>2, <1>3, <1>4, <1>5, <1>6, <1>7, <1>8, <1>9, <1>10
        DEF Next, Step, Master

(* The terms of the expected sum of thread t, if it has enqueued n values. *)
Term(t, n) == SumFunction([i \in 0 .. n - 1 |-> ToLong(i * NumThreads + t)])

(* They are the values that thread t has enqueued, as long as these have    *)
(* not overflowed int.                                                      *)
LEMMA Terms ==
  ASSUME NEW t \in Threads, NEW n \in Int
  PROVE  /\ Term(t, n) \in Int
         /\ n <= 0 => Term(t, n) = 0
         /\ (n - 1) * NumThreads + t < 2 ^ (IntBits - 1) =>
              Same(2 ^ LongBits, Term(t, n), FirstValues(t, n))
<1>1. PICK D : D = 0 .. n - 1
  OBVIOUS
<1>2. IsFiniteSet(D) /\ D \subseteq Nat /\ (n <= 0 => D = {})
  BY <1>1, FirstNumbers
<1>3. PICK N \in Nat : N = NumThreads
  BY Widths
<1>4. t \in Nat
  BY Widths
<1>5. \A i \in D : i * N + t \in Nat
  <2> SUFFICES ASSUME NEW i \in D PROVE i * N + t \in Nat
    OBVIOUS
  <2>1. PICK j \in Nat : j = i
    BY <1>2
  <2>2. j * N + t \in Nat
    BY <1>4, SMT
  <2> QED BY <2>1, <2>2
<1>6. PICK f, g : /\ f = [i \in D |-> ToLong(i * N + t)]
                  /\ g = [i \in D |-> Value(t, i)]
  OBVIOUS
<1>7. \A i \in D : ToLong(i * N + t) \in Int /\ Same(2 ^ LongBits, ToLong(i * N + t), i * N + t)
  <2> SUFFICES ASSUME NEW i \in D
               PROVE  ToLong(i * N + t) \in Int /\ Same(2 ^ LongBits, ToLong(i * N + t), i * N + t)
    OBVIOUS
  <2>1. PICK x \in Int : x = i * N + t
    BY <1>5
  <2> QED BY <2>1, ToLongFacts
<1>8. f \in [D -> Int] /\ g \in [D -> Int]
  BY <1>2, <1>6, <1>7, ValueType
<1>9. Term(t, n) = SumFunction(f) /\ FirstValues(t, n) = SumFunction(g)
  BY <1>1, <1>3, <1>6 DEF Term, FirstValues
<1>10. Term(t, n) \in Int
  BY <1>2, <1>8, <1>9, SumFunctionType
<1>11. n <= 0 => Term(t, n) = 0
  <2>1. n <= 0 => DOMAIN f = {}
    BY <1>2, <1>6
  <2> QED BY <1>9, <2>1, SumEmpty
<1>12. ASSUME (n - 1) * NumThreads + t < 2 ^ (IntBits - 1)
       PROVE  Same(2 ^ LongBits, Term(t, n), FirstValues(t, n))
  <2>1. PICK h \in Nat \ {0} : h = 2 ^ (IntBits - 1)
    BY BenchmarkAssumption DEF BenchmarkAssumption
  <2>2. \A i \in D : Value(t, i) = i * N + t
    <3> SUFFICES ASSUME NEW i \in D PROVE Value(t, i) = i * N + t
      OBVIOUS
    <3>1. PICK j \in Nat : j = i /\ j <= n - 1
      BY <1>1, <1>2
    <3>2. PICK k \in Int : k = n - 1
      OBVIOUS
    <3>3. j * N <= k * N /\ j * N \in Nat /\ k * N \in Int
      BY <3>1, <3>2, SMT
    <3>4. k * N + t < h
      BY <1>3, <1>12, <2>1, <3>2
    <3>5. PICK x \in Int : x = j * N + t
      BY <3>3, <1>4
    <3>6. x >= 0 /\ x < h
      BY <3>3, <3>4, <3>5, <1>4
    <3>7. x \in Ints
      BY <2>1, <3>6 DEF Ints
    <3>8. ToInt(x) = x
      BY <3>7, ToIntFacts
    <3> QED BY <1>3, <3>1, <3>5, <3>8 DEF Value
  <2>3. PICK m \in Int : m = 2 ^ LongBits
    BY Widths
  <2>4. \A i \in D : Same(m, f[i], g[i])
    BY <1>6, <1>7, <2>2, <2>3
  <2>5. Same(m, SumFunction(f), SumFunction(g))
    BY <1>2, <1>8, <2>4, SumSameMod
  <2> QED BY <1>9, <2>3, <2>5
<1> QED BY <1>10, <1>11, <1>12

(* The elements of the arrays that no thread has written count nothing, or  *)
(* there are none.                                                          *)
NothingUnwritten == Team < NumThreads => \A g \in Garbage : g <= 0

(* The sum that the check expects is that of what has been enqueued. *)
LEMMA Expected ==
  ASSUME BenchInv, NothingUnwritten, NoOverflow, phase = "check"
  PROVE  /\ ExpectedSum \in Longs
         /\ Same(2 ^ LongBits, ExpectedSum, SumFunction(Enqueued(thread)))
<1>a. thread \in [Started -> ThreadState] /\ Nr_enq_operations \in [Threads -> Ints \cup Garbage]
  BY DEF BenchInv, TypeOK, ThreadState
<1>m. PICK m \in Int : m = 2 ^ LongBits
  BY Widths
<1>1. PICK f, g : f = [t \in Threads |-> Term(t, Nr_enq_operations[t])] /\ g = Enqueued(thread)
  OBVIOUS
<1>2. \A t \in Threads : Nr_enq_operations[t] \in Int
  BY BenchmarkAssumption, <1>a, Widths DEF BenchmarkAssumption
<1>3. f \in [Threads -> Int] /\ g \in [Started -> Int]
  BY <1>a, <1>1, <1>2, Terms, EnqueuedType
<1>4. \A t \in Threads \ Started : f[t] = 0
  <2> SUFFICES ASSUME NEW t \in Threads \ Started PROVE f[t] = 0
    OBVIOUS
  <2>1. Nr_enq_operations[t] \in Garbage
    BY DEF BenchInv, Stored
  <2>2. Team < NumThreads
    BY BenchmarkAssumption DEF Threads, Started, BenchmarkAssumption
  <2>3. Nr_enq_operations[t] <= 0
    BY <2>1, <2>2 DEF NothingUnwritten
  <2> QED BY <1>1, <1>2, <2>3, Terms
<1>5. \A t \in Started : Same(m, f[t], g[t])
  <2> SUFFICES ASSUME NEW t \in Started PROVE Same(m, f[t], g[t])
    OBVIOUS
  <2>1. PICK c \in Int : c = thread[t].enq_count
    BY <1>a, StateTypes
  <2>2. Nr_enq_operations[t] = c
    BY <2>1 DEF BenchInv, Joined, Stored
  <2>3. t \in Threads
    BY Widths
  <2>4. f[t] = Term(t, c) /\ g[t] = FirstValues(t, c)
    BY <1>1, <2>1, <2>2, <2>3 DEF Enqueued
  <2>5. (c - 1) * NumThreads + t < 2 ^ (IntBits - 1)
    BY <2>1 DEF NoOverflow
  <2> QED BY <1>m, <2>3, <2>4, <2>5, Terms
<1>6. PICK e : e = [t \in Started |-> f[t]]
  OBVIOUS
<1>7. IsFiniteSet(Threads) /\ IsFiniteSet(Started) /\ Started \subseteq Threads
  BY Widths
<1>8. e \in [Started -> Int] /\ \A t \in Started : e[t] = f[t]
  BY <1>3, <1>6, <1>7
<1>9. SumFunction(f) = SumFunction(e)
  <2>1. SumFunctionOnSet(f, Threads) = SumFunctionOnSet(f, Started)
    BY <1>3, <1>4, <1>7, SumWithoutZeros
  <2>2. SumFunctionOnSet(e, Started) = SumFunctionOnSet(f, Started)
    BY <1>7, <1>8, SumSame
  <2>3. SumFunction(f) = SumFunctionOnSet(f, Threads) /\ SumFunction(e) = SumFunctionOnSet(e, Started)
    BY <1>3, <1>8 DEF SumFunction
  <2> QED BY <2>1, <2>2, <2>3
<1>10. Same(m, SumFunction(e), SumFunction(g))
  <2>1. \A t \in Started : Same(m, e[t], g[t])
    BY <1>5, <1>8
  <2> QED BY <1>3, <1>7, <1>8, <2>1, SumSameMod
<1>11. PICK x \in Int : x = SumFunction(f)
  BY <1>3, <1>7, SumFunctionType
<1>12. PICK y \in Int : y = SumFunction(g)
  BY <1>3, <1>7, SumFunctionType
<1>13. ExpectedSum = ToLong(x)
  BY <1>1, <1>11 DEF ExpectedSum, Term
<1>14. ToLong(x) \in Longs /\ ToLong(x) \in Int /\ Same(m, ToLong(x), x)
  BY <1>m, ToLongFacts
<1>15. Same(m, x, y)
  BY <1>9, <1>10, <1>11, <1>12
<1>16. Same(m, ToLong(x), y)
  <2>1. PICK z \in Int : z = ToLong(x)
    BY <1>14
  <2> QED BY <1>14, <1>15, <2>1, SameTrans
<1> QED BY <1>m, <1>1, <1>12, <1>13, <1>14, <1>16

(* Initially there is no verdict. *)
LEMMA InitVerdict == Init => VerdictExact
BY DEF Init, VerdictExact

(* When the check is made the queue is empty and no thread carries          *)
(* anything, so the total and the losses make up the expected sum.          *)
LEMMA NextVerdict ==
  BenchInv /\ SumsModulo /\ NothingUnwritten /\ VerdictExact /\ [Next]_vars => VerdictExact'
<1> SUFFICES ASSUME BenchInv, SumsModulo, NothingUnwritten, VerdictExact, [Next]_vars,
                    phase' = "write", NoOverflow'
             PROVE  passed' <=> ToLong(SumFunction(lost')) = 0
  BY DEF VerdictExact
<1>1. CASE Check
  <2>1. /\ phase = "check" /\ queue = <<>> /\ thread' = thread /\ lost' = lost
        /\ passed' = (total_dequeue_sum = ExpectedSum)
    BY <1>1 DEF Check
  <2>2. NoOverflow
    BY <2>1 DEF NoOverflow
  <2>3. PICK m \in Nat \ {0} : m = 2 ^ LongBits
    BY Widths
  <2>4. PICK p \in Int : p = total_dequeue_sum /\ p \in Longs
    BY Widths DEF BenchInv, TypeOK
  <2>5. PICK e \in Int : e = ExpectedSum /\ e \in Longs
    BY <2>1, <2>2, Expected, Widths
  <2>6. thread \in [Started -> ThreadState] /\ lost \in Seq(Int)
    <3>1. lost \in Seq(Ints) /\ Ints \subseteq Int
      BY Widths DEF BenchInv, TypeOK
    <3>2. lost \in Seq(Int)
      BY <3>1, SeqSubset
    <3> QED BY <3>2 DEF BenchInv, TypeOK, ThreadState
  <2>7. PICK a \in Int, l \in Int : a = SumFunction(Enqueued(thread)) /\ l = SumFunction(lost)
    BY <2>6, EnqueuedType, SumSeqType
  <2>8. Same(m, e, a)
    BY <2>1, <2>2, <2>3, <2>5, <2>7, Expected
  <2>9. SumFunction(Carried(thread)) = 0
    <3>1. \A t \in Started : thread[t].pc = "join"
      BY <2>1 DEF BenchInv, Joined
    <3>2. DOMAIN Carried(thread) = {}
      BY <3>1 DEF Carried
    <3> QED BY <3>2, SumEmpty
  <2>10. SumFunction(queue) = 0
    <3>1. DOMAIN queue = {}
      BY <2>1
    <3> QED BY <3>1, SumEmpty
  <2>11. Same(m, a, p + l)
    <3>1. Same(m, a, p + 0 + l + 0)
      BY <2>1, <2>3, <2>4, <2>7, <2>9, <2>10 DEF SumsModulo
    <3>2. p + 0 + l + 0 = p + l
      OBVIOUS
    <3> QED BY <3>1, <3>2
  <2>12. PICK k \in Int : e = p + l + k * m
    <3>1. PICK i \in Int : e = a + i * m
      BY <2>8 DEF Same
    <3>2. PICK j \in Int : a = p + l + j * m
      BY <2>11 DEF Same
    <3>3. e = p + l + (i + j) * m /\ i + j \in Int
      BY <3>1, <3>2, SMT
    <3> QED BY <3>3
  <2>13. ASSUME p = e PROVE ToLong(l) = 0
    <3>1. l = 0 + (-k) * m /\ -k \in Int
      BY <2>12, <2>13, SMT
    <3>2. Same(m, l, 0)
      BY <3>1 DEF Same
    <3>3. ToLong(l) = ToLong(0)
      BY <2>3, <3>2, ToLongSame
    <3>4. ToLong(0) = 0
      BY Widths, ToLongFacts
    <3> QED BY <3>3, <3>4
  <2>14. ASSUME ToLong(l) = 0 PROVE p = e
    <3>1. ToLong(0) = 0
      BY Widths, ToLongFacts
    <3>2. Same(m, l, 0)
      BY <2>3, <2>14, <3>1, ToLongSame
    <3>3. PICK j \in Int : l = 0 + j * m
      BY <3>2 DEF Same
    <3>4. e = p + (k + j) * m /\ k + j \in Int
      BY <2>12, <3>3, SMT
    <3>5. Same(m, e, p)
      BY <3>4 DEF Same
    <3>6. ToLong(e) = ToLong(p)
      BY <2>3, <3>5, ToLongSame
    <3> QED BY <2>4, <2>5, <3>6, ToLongFacts
  <2> QED BY <2>1, <2>4, <2>5, <2>7, <2>13, <2>14
<1>2. CASE UNCHANGED vars
  BY <1>2 DEF vars, VerdictExact, NoOverflow
<1>3. ASSUME Lose \/ Join \/ Drain \/ WriteResults PROVE FALSE
  BY <1>3 DEF Lose, Join, Drain, WriteResults
<1>4. ASSUME NEW t \in Started, Step(t) PROVE FALSE
  BY <1>4 DEF Step, BeginBatches, TimeOver, Enq, Deq, DeqEmpty, EndBatch, Store, At
<1> QED BY <1>1, <1>2, <1>3, <1>4 DEF Next, Master

(* Every variable of the benchmark keeps its type, and while the threads run *)
(* their counters together say how long the queue is (bench.c:57-116): no    *)
(* successful call is counted twice or not at all, whatever overflows.       *)
THEOREM CountersBalance == Spec => []CountsAgree
<1>1. BenchInv /\ Counts => CountsAgree
  <2> SUFFICES ASSUME BenchInv, Counts, phase = "parallel"
               PROVE  ToInt(SumFunction(Balance(thread)))
                        = ToInt(Len(queue) + Len(lost))
    BY DEF BenchInv, CountsAgree, Balance
  <2>1. SumFunction(Balance(thread)) \in Int
    BY BalanceType DEF BenchInv, TypeOK, ThreadState
  <2>2. Len(queue) + Len(lost) \in Int
    <3>1. Len(queue) \in Nat /\ Len(lost) \in Nat
      BY LenProperties DEF BenchInv, TypeOK
    <3> QED BY <3>1
  <2> QED BY <2>1, <2>2, ToIntSame DEF Counts, BenchInv
<1>2. Spec => [](BenchInv /\ Counts)
  BY InitBench, NextBench, InitCounts, NextCounts, PTL DEF Spec
<1> QED BY <1>1, <1>2, PTL

(* The equation of SumsAgree in terms of the invariant. *)
LEMMA SumsModuloAgree == BenchInv /\ SumsModulo => SumsAgree
<1> SUFFICES ASSUME BenchInv, SumsModulo, phase \in {"parallel", "check"}
             PROVE  ToLong(SumFunction(Enqueued(thread))) =
                      ToLong(total_dequeue_sum + SumFunction(queue) + SumFunction(lost)
                                     + SumFunction(Carried(thread)))
  BY DEF SumsAgree, Enqueued, FirstValues, Carried, Running
<1>1. thread \in [Started -> ThreadState] /\ queue \in Seq(Int) /\ lost \in Seq(Int)
  <2>1. queue \in Seq(Ints) /\ lost \in Seq(Ints) /\ Ints \subseteq Int
    BY Widths DEF BenchInv, TypeOK
  <2>2. queue \in Seq(Int) /\ lost \in Seq(Int)
    BY <2>1, SeqSubset
  <2> QED BY <2>2 DEF BenchInv, TypeOK, ThreadState
<1>2. PICK p \in Int : p = total_dequeue_sum
  BY Widths DEF BenchInv, TypeOK
<1>3. PICK q \in Int, l \in Int : q = SumFunction(queue) /\ l = SumFunction(lost)
  BY <1>1, SumSeqType
<1>4. PICK a \in Int, r \in Int :
        a = SumFunction(Enqueued(thread)) /\ r = SumFunction(Carried(thread))
  BY <1>1, EnqueuedType, CarriedType
<1>5. PICK s \in Int : s = p + q + l + r
  OBVIOUS
<1>6. Same(2 ^ LongBits, a, s)
  BY <1>2, <1>3, <1>4, <1>5 DEF SumsModulo
<1>7. ToLong(a) = ToLong(s)
  BY <1>6, ToLongSame
<1> QED BY <1>2, <1>3, <1>4, <1>5, <1>7

(* Whatever has been enqueued has been added to the total, or is with a     *)
(* thread, in the queue or lost, modulo 2^64, until the check has drained   *)
(* the queue (bench.c:57-161): the addition to the total loses no thread,   *)
(* and a value that overflows int is dequeued as the one that was enqueued. *)
THEOREM SumsBalance == CountsFit => (Spec => []SumsAgree)
<1> DEFINE Inv == BenchInv /\ Few /\ SumsModulo /\ CountsFit
<1>1. CountsFit /\ Init => Inv
  BY InitBench, InitFew, InitSums
<1>2. Inv /\ [Next]_vars => Inv'
  <2>1. CountsFit => CountsFit'
    BY DEF CountsFit
  <2> QED BY <2>1, NextBench, NextFew, NextSums
<1>3. Inv => SumsAgree
  BY SumsModuloAgree
<1> HIDE DEF Inv
<1> QED BY <1>1, <1>2, <1>3, PTL DEF Spec

(* As long as no value overflows int, "Correctness check passed"            *)
(* (bench.c:145-168) is printed exactly when what the queue has lost adds   *)
(* up to nothing, provided that the check reads nothing that no thread has  *)
(* written.                                                                 *)
THEOREM CheckIsExact ==
  CountsFit /\ NothingUnwritten => (Spec => []VerdictExact)
<1> DEFINE Inv == /\ BenchInv /\ Few /\ SumsModulo /\ CountsFit
                  /\ NothingUnwritten /\ VerdictExact
<1>1. CountsFit /\ NothingUnwritten /\ Init => Inv
  BY InitBench, InitFew, InitSums, InitVerdict
<1>2. Inv /\ [Next]_vars => Inv'
  <2>1. CountsFit /\ NothingUnwritten => CountsFit' /\ NothingUnwritten'
    BY DEF CountsFit, NothingUnwritten
  <2> QED BY <2>1, NextBench, NextFew, NextSums, NextVerdict
<1>3. Inv => VerdictExact
  OBVIOUS
<1> HIDE DEF Inv
<1> QED BY <1>1, <1>2, <1>3, PTL DEF Spec
=============================================================================
