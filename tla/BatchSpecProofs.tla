---------------------------- MODULE BatchSpecProofs ----------------------------
(***************************************************************************)
(* Theorems about BatchSpec for strings of any length over any numbers,    *)
(* any number of threads and any first size of the list.                   *)
(***************************************************************************)
EXTENDS BatchGrammar, SequenceTheorems, NaturalsInduction,
        WellFoundedInduction, TLAPS

(* What is known of the list at each place of the parser: there is room for *)
(* an element before one is parsed, and there is one behind it.             *)
Shape ==
  /\ pc = "args" => \A p \in Patterns : specs[p] = <<>>
  /\ pc \in {"open", "first"} => elems = <<>>
  /\ pc \in {"first", "room"} => cap > 0
  /\ pc \in {"room", "after", "end"} => Len(elems) <= cap
  /\ pc \in {"after", "end"} => Len(elems) > 0

IInv == TypeOK /\ StaysInside /\ Shape

-----------------------------------------------------------------------------
(* The two ends of a string are no tokens of it. *)
LEMMA TokenKinds ==
  /\ Beyond \notin Tokens /\ Nul # Beyond
  /\ Nul.kind = "nul" /\ Beyond.kind = "beyond"
BY DEF Tokens, Nul, Beyond, Char, Number

(* The lengths of sequences are natural numbers. *)
LEMMA SeqFacts ==
  ASSUME NEW S, NEW s \in Seq(S)
  PROVE  Len(s) \in Nat /\ <<>> \in Seq(S) /\ Len(<<>>) = 0
OBVIOUS

(* Moving the cursor on from a token inside the string keeps it there. *)
LEMMA AdvanceInside ==
  ASSUME TypeOK, look # Nul, look # Beyond, Advance
  PROVE  /\ look' \in Tokens \cup {Nul, Beyond} /\ look' # Beyond
         /\ seen' \in Seq(Tokens \cup {Nul, Beyond})
         /\ length' \in Nat
<1>1. look' \in Tokens \cup {Nul}
  BY DEF Advance
<1>2. look \in Tokens \cup {Nul, Beyond} /\ seen \in Seq(Tokens \cup {Nul, Beyond})
  BY DEF TypeOK
<1> DEFINE A == Tokens \cup {Nul, Beyond}
<1>3. Append(seen, look) \in Seq(A)
  <2> HIDE DEF A
  <2> SUFFICES ASSUME look \in A, seen \in Seq(A) PROVE Append(seen, look) \in Seq(A)
    BY <1>2 DEF A
  <2> QED  OBVIOUS
<1>4. seen' \in Seq(A)
  <2>1. CASE look.kind = "space"
    BY <1>2, <2>1 DEF Advance
  <2>2. CASE look.kind # "space"
    BY <1>3, <2>2 DEF Advance
  <2> QED  BY <2>1, <2>2
<1>5. length' \in Nat
  <2>1. length \in Nat /\ length' = length + 1
    BY DEF Advance, TypeOK
  <2> QED  BY <2>1
<1>6. look' # Beyond
  BY <1>1, TokenKinds
<1> QED  BY <1>1, <1>4, <1>5, <1>6

(* The invariant holds before the first argument is parsed ... *)
LEMMA InitInvariant == Init => IInv
<1> SUFFICES ASSUME Init PROVE IInv
  OBVIOUS
<1>1. MaxInt \in Nat
  BY BatchSpecAssumption DEF BatchSpecAssumption
<1>2. TypeOK
  BY <1>1 DEF Init, TypeOK, Patterns, Sizes
<1> QED  BY <1>2, TokenKinds DEF Init, StaysInside, InSpec, Shape, IInv

(* An exit changes nothing but pc. *)
LEMMA ExitKeeps ==
  ASSUME IInv, NEW how \in Rejected, Exit(how)
  PROVE  IInv'
BY DEF IInv, TypeOK, StaysInside, Shape, Exit, Rejected, cursor, parsed, InSpec, Parsing

(* An element is added to the list, in the memory there is for it. *)
LEMMA AddKeeps ==
  ASSUME IInv, pc \in InSpec, look # Nul, NEW s \in Specs, Advance, Add(s)
  PROVE  IInv'
<1>1. /\ look' \in Tokens \cup {Nul, Beyond} /\ look' # Beyond
      /\ seen' \in Seq(Tokens \cup {Nul, Beyond}) /\ length' \in Nat
  BY AdvanceInside DEF IInv, StaysInside
<1>2. elems \in Seq(Specs) /\ cap \in Nat /\ Len(elems) < cap
  BY DEF IInv, TypeOK, StaysInside
<1>3. /\ elems' \in Seq(Specs)
      /\ Len(elems') = Len(elems) + 1
  BY <1>2 DEF Add
<1>4. TypeOK'
  BY <1>1, <1>3 DEF IInv, TypeOK, Add, Goto, Parsing
<1>5. StaysInside' /\ Shape'
  BY <1>1, <1>2, <1>3 DEF Add, Goto, StaysInside, Shape, InSpec
<1> QED  BY <1>4, <1>5 DEF IInv

(* The element that thread t gets, wrapping round the list. *)
LEMMA ElementForThread ==
  ASSUME IInv, pc \in {"after", "end"}, NEW t \in 0 .. num_threads - 1
  PROVE  elems[(t % Len(elems)) + 1] \in Specs
<1>1. /\ elems \in Seq(Specs) /\ Len(elems) \in Nat /\ Len(elems) > 0
      /\ num_threads \in Nat
  BY SeqFacts DEF IInv, TypeOK, Shape
<1>2. t % Len(elems) \in 0 .. Len(elems) - 1
  BY <1>1, SMT
<1> QED  BY <1>1, <1>2

(* Every thread gets an element of the list. *)
LEMMA DeliverKeeps ==
  ASSUME IInv, pc \in {"after", "end"}, Deliver
  PROVE  IInv'
<1>2. \A t \in 0 .. num_threads - 1 : elems[(t % Len(elems)) + 1] \in Specs
  BY ElementForThread
<1>3. \A p \in Patterns : specs'[p] = <<>> \/ specs'[p] \in [0 .. num_threads' - 1 -> Specs]
  BY <1>2 DEF IInv, TypeOK, Deliver
<1>4. /\ look' \in Tokens \cup {Nul, Beyond} /\ look' # Beyond
      /\ seen' \in Seq(Tokens \cup {Nul, Beyond}) /\ length' \in Nat
  <2>1. CASE pattern = "enq"
    BY <2>1, TokenKinds DEF Deliver
  <2>2. CASE pattern # "enq"
    BY <2>2 DEF Deliver, cursor, IInv, TypeOK, StaysInside
  <2> QED  BY <2>1, <2>2
<1>5. pc' \in {"pattern", "done"} /\ pattern' \in Patterns
  BY DEF Deliver, Patterns, IInv, TypeOK
<1>6. TypeOK'
  BY <1>3, <1>4, <1>5 DEF Deliver, IInv, TypeOK, parsed, Parsing
<1> QED  BY <1>4, <1>5, <1>6 DEF IInv, StaysInside, Shape, InSpec

(* ... and after every step of the parser. *)
LEMMA NextInvariant == IInv /\ [Next]_vars => IInv'
<1> SUFFICES ASSUME IInv, [Next]_vars PROVE IInv'
  OBVIOUS
<1> USE DEF InSpec, Parsing
<1>0. TypeOK /\ StaysInside /\ Shape
  BY DEF IInv
<1>m. MaxInt \in Nat /\ InitialCap \in Nat \ {0}
  BY BatchSpecAssumption DEF BatchSpecAssumption
<1>l. /\ elems \in Seq(Specs) /\ Len(elems) \in Nat /\ cap \in Nat
      /\ <<>> \in Seq(Specs) /\ Len(<<>>) = 0
  <2>1. elems \in Seq(Specs) /\ cap \in Nat
    BY <1>0 DEF TypeOK
  <2> QED  BY <2>1, SeqFacts
<1>r. {"usage", "invalid", "nomemory"} = Rejected
  BY DEF Rejected
<1>a. ASSUME Advance, look.kind # "nul"
      PROVE  /\ look' \in Tokens \cup {Nul, Beyond} /\ look' # Beyond
             /\ seen' \in Seq(Tokens \cup {Nul, Beyond}) /\ length' \in Nat
             /\ look # Nul
  BY <1>0, <1>a, AdvanceInside, TokenKinds DEF StaysInside
<1>i. ASSUME IsInt PROVE look.kind = "num" /\ look.val \in Sizes
  BY <1>i DEF IsInt
<1>1. CASE ParseArgs
  <2>1. CASE Exit("usage")
    BY <2>1, <1>r, ExitKeeps
  <2>2. CASE /\ pc = "args" /\ pc' = "pattern" /\ num_threads' \in Nat
             /\ UNCHANGED <<pattern, cursor, parsed, specs>>
    BY <1>0, <2>2 DEF IInv, TypeOK, StaysInside, Shape, cursor, parsed
  <2> QED  BY <1>1, <2>1, <2>2 DEF ParseArgs
<1>2. CASE SkipWs
  <2>1. TypeOK'
    BY <1>0, <1>2, <1>a DEF SkipWs, TypeOK, parsed
  <2> QED  BY <1>0, <1>2, <1>a, <2>1 DEF SkipWs, IInv, StaysInside, Shape, parsed
<1>3. CASE ParsePattern
  <2>1. CASE Exit("invalid") \/ Exit("nomemory")
    BY <2>1, <1>r, ExitKeeps
  <2>2. CASE /\ look.kind \in {"[", "{"}
             /\ form' = look.kind /\ elems' = <<>> /\ cap' = 0
             /\ Advance /\ Goto("open") /\ UNCHANGED <<min_v, max_v>>
    BY <1>0, <1>a, <1>l, <2>2 DEF Goto, IInv, TypeOK, StaysInside, Shape
  <2>3. CASE /\ form' = "one" /\ elems' = <<>> /\ cap' = 1
             /\ Goto("spec") /\ UNCHANGED <<cursor, min_v, max_v>>
    <3>1. TypeOK'
      BY <1>0, <1>l, <2>3 DEF Goto, cursor, TypeOK
    <3>2. StaysInside' /\ Shape'
      BY <1>0, <1>l, <2>3 DEF Goto, cursor, StaysInside, Shape
    <3> QED  BY <3>1, <3>2 DEF IInv
  <2> QED  BY <1>3, <2>1, <2>2, <2>3 DEF ParsePattern
<1>4. CASE OpenList
  <2>1. CASE Exit("nomemory")
    BY <2>1, <1>r, ExitKeeps
  <2>2. CASE cap' = InitialCap /\ Goto("first") /\ UNCHANGED <<cursor, form, elems, min_v, max_v>>
    <3>1. TypeOK'
      BY <1>0, <1>4, <1>l, <1>m, <2>2 DEF OpenList, Goto, cursor, TypeOK
    <3>2. StaysInside' /\ Shape'
      BY <1>0, <1>4, <1>l, <1>m, <2>2 DEF OpenList, Goto, cursor, StaysInside, Shape
    <3> QED  BY <3>1, <3>2 DEF IInv
  <2> QED  BY <1>4, <2>1, <2>2 DEF OpenList
<1>5. CASE FirstElem
  <2>1. CASE Exit("invalid")
    BY <2>1, <1>r, ExitKeeps
  <2>2. CASE Goto("room") /\ UNCHANGED <<cursor, parsed>>
    <3>1. TypeOK'
      BY <1>0, <1>5, <1>l, <2>2 DEF FirstElem, At, Goto, cursor, parsed, TypeOK
    <3>2. StaysInside' /\ Shape'
      BY <1>0, <1>5, <1>l, <2>2 DEF FirstElem, At, Goto, cursor, parsed, StaysInside, Shape
    <3> QED  BY <3>1, <3>2 DEF IInv
  <2> QED  BY <1>5, <2>1, <2>2 DEF FirstElem
<1>6. CASE MakeRoom
  <2>1. CASE Exit("nomemory")
    BY <2>1, <1>r, ExitKeeps
  <2>2. CASE Len(elems) < cap /\ Goto("spec") /\ UNCHANGED <<cursor, parsed>>
    BY <1>0, <1>6, <2>2 DEF Goto, IInv, TypeOK, StaysInside, Shape, cursor, parsed
  <2>3. CASE /\ Len(elems) = cap
             /\ cap' = 2 * cap /\ Goto("spec") /\ UNCHANGED <<cursor, form, elems, min_v, max_v>>
    <3>1. cap' \in Nat
      BY <1>l, <2>3
    <3>2. TypeOK'
      BY <1>0, <2>3, <3>1 DEF Goto, cursor, TypeOK
    <3>3. StaysInside' /\ Shape'
      BY <1>0, <1>6, <1>l, <2>3 DEF MakeRoom, At, Goto, cursor, StaysInside, Shape
    <3> QED  BY <3>2, <3>3 DEF IInv
  <2> QED  BY <1>6, <2>1, <2>2, <2>3 DEF MakeRoom
<1>7. CASE ParseSpec
  <2>1. CASE Exit("invalid")
    BY <2>1, <1>r, ExitKeeps
  <2>2. CASE look.kind = "(" /\ Advance /\ Goto("min") /\ UNCHANGED parsed
    BY <1>0, <1>7, <1>a, <2>2 DEF ParseSpec, At, Goto, IInv, TypeOK, StaysInside, Shape, parsed
  <2>3. CASE IsInt /\ Advance /\ Add(FixedSpec(look.val))
    <3>1. FixedSpec(look.val) \in Specs
      BY <1>i, <1>m, <2>3 DEF FixedSpec, Specs, Sizes
    <3> QED  BY <1>7, <1>a, <1>i, <2>3, <3>1, AddKeeps DEF ParseSpec, At
  <2> QED  BY <1>7, <2>1, <2>2, <2>3 DEF ParseSpec
<1>8. CASE ParseMin
  <2>1. CASE Exit("invalid")
    BY <2>1, <1>r, ExitKeeps
  <2>2. CASE /\ IsInt /\ Advance /\ min_v' = look.val /\ Goto("comma")
             /\ UNCHANGED <<form, elems, cap, max_v>>
    BY <1>0, <1>8, <1>a, <1>i, <2>2 DEF ParseMin, At, Goto, IInv, TypeOK, StaysInside, Shape
  <2> QED  BY <1>8, <2>1, <2>2 DEF ParseMin
<1>9. CASE ParseComma
  <2>1. CASE Exit("invalid")
    BY <2>1, <1>r, ExitKeeps
  <2>2. CASE look.kind = "," /\ Advance /\ Goto("max") /\ UNCHANGED parsed
    BY <1>0, <1>9, <1>a, <2>2 DEF ParseComma, At, Goto, IInv, TypeOK, StaysInside, Shape, parsed
  <2> QED  BY <1>9, <2>1, <2>2 DEF ParseComma
<1>10. CASE ParseMax
  <2>1. CASE Exit("invalid")
    BY <2>1, <1>r, ExitKeeps
  <2>2. CASE /\ IsInt /\ Advance /\ max_v' = look.val /\ Goto("close")
             /\ UNCHANGED <<form, elems, cap, min_v>>
    BY <1>0, <1>10, <1>a, <1>i, <2>2 DEF ParseMax, At, Goto, IInv, TypeOK, StaysInside, Shape
  <2> QED  BY <1>10, <2>1, <2>2 DEF ParseMax
<1>11. CASE ParseClose
  <2>1. CASE Exit("invalid")
    BY <2>1, <1>r, ExitKeeps
  <2>2. CASE look.kind = ")" /\ min_v <= max_v /\ Advance /\ Add(RangeSpec(min_v, max_v))
    <3>1. RangeSpec(min_v, max_v) \in Specs
      BY <1>0, <1>m, <2>2 DEF RangeSpec, Specs, Sizes, TypeOK
    <3> QED  BY <1>11, <1>a, <2>2, <3>1, AddKeeps DEF ParseClose, At
  <2> QED  BY <1>11, <2>1, <2>2 DEF ParseClose
<1>12. CASE AfterElem
  <2>1. CASE Exit("invalid")
    BY <2>1, <1>r, ExitKeeps
  <2>2. CASE Deliver
    BY <1>12, <2>2, DeliverKeeps DEF AfterElem, At
  <2>3. CASE look.kind = "," /\ Advance /\ Goto("room") /\ UNCHANGED parsed
    <3>1. TypeOK'
      BY <1>0, <1>12, <1>a, <1>l, <2>3 DEF AfterElem, At, Goto, parsed, TypeOK
    <3>2. Len(elems) <= cap /\ cap > 0
      <4>1. Len(elems) <= cap /\ Len(elems) > 0
        BY <1>0, <1>12 DEF AfterElem, At, Shape
      <4> QED  BY <1>l, <4>1
    <3>3. StaysInside' /\ Shape'
      BY <1>a, <2>3, <3>2 DEF Goto, StaysInside, Shape, parsed
    <3> QED  BY <3>1, <3>3 DEF IInv
  <2>4. CASE Closes /\ Advance /\ Goto("end") /\ UNCHANGED parsed
    <3>1. look.kind # "nul"
      BY <2>4 DEF Closes
    <3> QED  BY <1>0, <1>12, <1>a, <2>4, <3>1 DEF AfterElem, At, Goto, IInv, TypeOK, StaysInside, Shape, parsed
  <2> QED  BY <1>12, <2>1, <2>2, <2>3, <2>4 DEF AfterElem
<1>13. CASE AfterList
  <2>1. CASE Exit("invalid")
    BY <2>1, <1>r, ExitKeeps
  <2>2. CASE Deliver
    BY <1>13, <2>2, DeliverKeeps DEF AfterList, At
  <2> QED  BY <1>13, <2>1, <2>2 DEF AfterList
<1>14. CASE UNCHANGED vars
  <2>1. TypeOK'
    BY <1>0, <1>14 DEF vars, cursor, parsed, TypeOK
  <2>2. StaysInside' /\ Shape'
    BY <1>0, <1>14 DEF vars, cursor, parsed, StaysInside, Shape
  <2> QED BY <2>1, <2>2 DEF IInv
<1> QED  BY <1>1, <1>2, <1>3, <1>4, <1>5, <1>6, <1>7, <1>8, <1>9, <1>10, <1>11,
            <1>12, <1>13, <1>14 DEF Next

(* The invariant on which the others rest. *)
THEOREM Invariance == Spec => []IInv
BY InitInvariant, NextInvariant, PTL DEF Spec

(* Every variable keeps its type; no number outside int gets into a spec. *)
THEOREM TypeCorrect == Spec => []TypeOK
<1>1. IInv => TypeOK
  BY DEF IInv
<1> QED  BY <1>1, Invariance, PTL

(* Whatever the string: the cursor never leaves it (skip_ws and the ++s of  *)
(* bench.h), and every element is written inside the memory of the list.    *)
THEOREM MemorySafe == Spec => []StaysInside
<1>1. IInv => StaysInside
  BY DEF IInv
<1> QED  BY <1>1, Invariance, PTL

(* Whatever the string: each thread's spec has 0 <= min <= max <= INT_MAX,  *)
(* so that the % of batch_spec_sample never divides by zero.                *)
THEOREM RangesValid == Spec => []RangesOrdered
<1>1. IInv => RangesOrdered
  <2> SUFFICES ASSUME IInv, NEW p \in Patterns, specs[p] # <<>>,
                      NEW t \in 0 .. num_threads - 1
               PROVE  /\ 0 <= specs[p][t].min /\ specs[p][t].min <= specs[p][t].max
                      /\ specs[p][t].max <= MaxInt
    BY DEF RangesOrdered
  <2>1. specs[p][t] \in Specs
    BY DEF IInv, TypeOK
  <2>2. MaxInt \in Nat
    BY BatchSpecAssumption DEF BatchSpecAssumption
  <2> QED  BY <2>1, <2>2 DEF Specs, Sizes
<1> QED  BY <1>1, Invariance, PTL

-----------------------------------------------------------------------------
(* What is known of the results: the one for "enq" is there when "deq" is   *)
(* being parsed, both are there at the end, and the number of threads no    *)
(* longer changes then.                                                     *)
Delivered(p) == specs[p] \in [0 .. num_threads - 1 -> Specs]
Results ==
  /\ pc = "args" => pattern = "enq"
  /\ pattern = "deq" => Delivered("enq")
  /\ pc = "done" => Delivered("enq") /\ Delivered("deq")

(* What is drawn from a range is in it, and each member of it can be drawn: *)
(* the residues of Rands modulo its size are all there are, since the size  *)
(* is at most the number of Rands and does not wrap.                        *)
LEMMA SampleExact ==
  ASSUME NEW s \in Specs
  PROVE  {Sample(s, r) : r \in Rands} = s.min .. s.max
<1>m. MaxInt \in Nat
  BY BatchSpecAssumption DEF BatchSpecAssumption
<1>0. s.min \in Nat /\ s.max \in Nat /\ s.min <= s.max /\ s.max <= MaxInt
  BY <1>m DEF Specs, Sizes
<1>1. CASE s.min = s.max
  <2>1. 0 \in Rands
    BY <1>m DEF Rands
  <2>2. \A r \in Rands : Sample(s, r) = s.min
    BY <1>1 DEF Sample
  <2>3. s.min .. s.max = {s.min}
    BY <1>0, <1>1
  <2> QED  BY <2>1, <2>2, <2>3
<1>2. CASE s.min # s.max
  <2> PICK span : span = s.max - s.min + 1
    OBVIOUS
  <2>1. span \in 1 .. MaxInt + 1 /\ s.max = s.min + span - 1
    BY <1>0, <1>m
  <2>2. span % (2 * (MaxInt + 1)) = span
    BY <1>m, <2>1, SMT
  <2>3. \A r \in Rands : Sample(s, r) = s.min + (r % span)
    BY <1>2, <2>2 DEF Sample
  <2>4. \A r \in Rands : r % span \in 0 .. span - 1
    BY <1>m, <2>1, SMT DEF Rands
  <2>5. \A j \in 0 .. span - 1 : j \in Rands /\ j % span = j
    BY <1>m, <2>1, SMT DEF Rands
  <2>6. ASSUME NEW r \in Rands PROVE Sample(s, r) \in s.min .. s.max
    BY <1>0, <2>1, <2>3, <2>4
  <2>7. ASSUME NEW v \in s.min .. s.max
        PROVE  \E r \in Rands : Sample(s, r) = v
    <3>1. v - s.min \in 0 .. span - 1 /\ s.min + (v - s.min) = v
      BY <1>0, <2>1
    <3> QED  BY <2>3, <2>5, <3>1
  <2> QED  BY <2>6, <2>7
<1> QED  BY <1>1, <1>2

(* There are no results at first. *)
LEMMA InitResults == Init => Results
BY DEF Init, Results

(* Deliver fills in the result for the pattern it has parsed. *)
LEMMA DeliverResults ==
  ASSUME IInv, Results, pc \in {"after", "end"}, Deliver
  PROVE  Results'
<1>2. specs'[pattern] = [t \in 0 .. num_threads - 1 |-> elems[(t % Len(elems)) + 1]]
  BY DEF Deliver, IInv, TypeOK
<1>3. \A t \in 0 .. num_threads - 1 : elems[(t % Len(elems)) + 1] \in Specs
  BY ElementForThread
<1>5. pattern \in {"enq", "deq"}
  BY DEF IInv, TypeOK, Patterns
<1>6. CASE pattern = "enq"
  BY <1>2, <1>3, <1>6 DEF Deliver, Results, Delivered
<1>7. CASE pattern = "deq"
  <2>1. specs'["enq"] = specs["enq"]
    BY <1>7 DEF Deliver, IInv, TypeOK, Patterns
  <2> QED  BY <1>2, <1>3, <1>7, <2>1 DEF Deliver, Results, Delivered
<1> QED  BY <1>5, <1>6, <1>7

(* Every other action leaves the results alone. *)
LEMMA NextResults == IInv /\ Results /\ [Next]_vars => Results'
<1> SUFFICES ASSUME IInv, Results, [Next]_vars PROVE Results'
  OBVIOUS
<1>1. CASE Deliver /\ pc \in {"after", "end"}
  BY <1>1, DeliverResults
<1>2. CASE ParseArgs
  <2>1. pc = "args" /\ UNCHANGED pattern /\ pc' \in {"usage", "pattern"}
    BY <1>2 DEF ParseArgs, Exit
  <2> QED  BY <2>1 DEF Results
<1>3. CASE /\ pc # "args" /\ UNCHANGED <<num_threads, pattern, specs>>
           /\ pc' \notin {"args", "done"}
  BY <1>3 DEF Results, Delivered
<1>4. CASE UNCHANGED vars
  BY <1>4 DEF vars, Results, Delivered
<1> USE DEF Exit, Goto, At, Add
<1>5. CASE SkipWs
  BY <1>5 DEF SkipWs, Parsing, InSpec, Results, Delivered
<1>6. CASE ParsePattern \/ OpenList \/ FirstElem \/ MakeRoom
  BY <1>3, <1>6 DEF ParsePattern, OpenList, FirstElem, MakeRoom
<1>7. CASE ParseSpec \/ ParseMin \/ ParseComma \/ ParseMax \/ ParseClose
  BY <1>3, <1>7 DEF ParseSpec, ParseMin, ParseComma, ParseMax, ParseClose
<1>8. CASE AfterElem \/ AfterList
  BY <1>1, <1>3, <1>8 DEF AfterElem, AfterList
<1> QED  BY <1>2, <1>4, <1>5, <1>6, <1>7, <1>8 DEF Next

(* "uniformly from the inclusive range [min,max]" (bench.c:229): what       *)
(* batch_spec_sample can draw for a thread is exactly what its spec holds.  *)
THEOREM SamplesExact == Spec => []SamplesFillRange
<1>1. IInv /\ Results => SamplesFillRange
  <2> SUFFICES ASSUME Results, pc = "done", NEW p \in Patterns,
                      NEW t \in 0 .. num_threads - 1
               PROVE  {Sample(specs[p][t], r) : r \in Rands} = specs[p][t].min .. specs[p][t].max
    BY DEF SamplesFillRange
  <2>1. specs[p][t] \in Specs
    BY DEF Results, Delivered, Patterns
  <2> QED  BY <2>1, SampleExact
<1>2. Spec => [](IInv /\ Results)
  BY InitInvariant, NextInvariant, InitResults, NextResults, PTL DEF Spec
<1> QED  BY <1>1, <1>2, PTL
-----------------------------------------------------------------------------
(***************************************************************************)
(* What is accepted is documented.  First the lemmas about the texts of    *)
(* BatchGrammar, which FlattenSeq puts together; then what has been read   *)
(* at each place of the parser, as the text of what has been parsed.       *)
(***************************************************************************)
(* Induction over the natural numbers, for a set in the place of the        *)
(* predicate: a set that is closed under successors has no smallest number  *)
(* outside it.                                                              *)
LEMMA NatSetInduction ==
  ASSUME NEW S, 0 \in S, \A n \in Nat : n \in S => n + 1 \in S
  PROVE  Nat \subseteq S
<1> DEFINE T == Nat \ S
           R == OpToRel(<, Nat)
<1> SUFFICES ASSUME T # {} PROVE FALSE
  OBVIOUS
<1>1. IsWellFoundedOn(R, Nat)
  BY NatLessThanWellFounded
<1>2. T \subseteq Nat
  OBVIOUS
<1>3. \E x \in T : \A y \in T : <<y, x>> \notin R
  <2> HIDE DEF T, R
  <2> QED BY <1>1, <1>2, WFMin
<1>4. PICK m \in T : \A y \in T : <<y, m>> \notin R
  BY <1>3
<1>5. m - 1 \in Nat /\ m - 1 < m
  OBVIOUS
<1>6. <<m - 1, m>> \in R
  BY <1>5 DEF OpToRel
<1>7. m - 1 \in S
  BY <1>4, <1>5, <1>6
<1> QED BY <1>5, <1>7

(* g[i] is the concatenation of the first i of the sequences l, up to n.    *)
Concats(g, l, n) == g = [i \in 1 .. n |-> IF i = 1 THEN l[i] ELSE g[i - 1] \o l[i]]

(* There are concatenations of any number of sequences. *)
LEMMA ConcatsExist ==
  ASSUME NEW l
  PROVE  \A n \in Nat : \E g : Concats(g, l, n)
<1> DEFINE N == {n \in Nat : \E g : Concats(g, l, n)}
<1>1. 0 \in N
  <2>1. Concats([i \in 1 .. 0 |-> l], l, 0)
    BY DEF Concats
  <2> QED BY <2>1
<1>2. ASSUME NEW n \in Nat, NEW g, Concats(g, l, n)
      PROVE  \E h : Concats(h, l, n + 1)
  <2> DEFINE h == [i \in 1 .. n + 1 |-> IF i = 1 THEN l[i] ELSE g[i - 1] \o l[i]]
  <2>1. \A i \in 1 .. n : g[i] = IF i = 1 THEN l[i] ELSE g[i - 1] \o l[i]
    BY <1>2 DEF Concats
  <2>2. \A i \in 1 .. n : h[i] = g[i]
    BY <2>1
  <2>3. ASSUME NEW i \in 1 .. n + 1
        PROVE  h[i] = IF i = 1 THEN l[i] ELSE h[i - 1] \o l[i]
    <3>1. i # 1 => i - 1 \in 1 .. n
      OBVIOUS
    <3>2. i # 1 => h[i - 1] = g[i - 1]
      BY <2>2, <3>1
    <3> QED BY <3>2
  <2>4. h = [i \in 1 .. n + 1 |-> h[i]]
    OBVIOUS
  <2> HIDE DEF h
  <2>5. Concats(h, l, n + 1)
    BY <2>3, <2>4 DEF Concats
  <2> QED BY <2>5
<1>3. \A n \in Nat : n \in N => n + 1 \in N
  BY <1>2
<1>4. Nat \subseteq N
  <2> HIDE DEF N
  <2> QED BY <1>1, <1>3, NatSetInduction
<1> QED BY <1>4

(* They are sequences over the same set, and do not depend on what follows. *)
LEMMA ConcatsFacts ==
  ASSUME NEW S, NEW n \in Nat, NEW m \in Nat, n <= m, NEW l, NEW k, NEW g, NEW h,
         \A i \in 1 .. n : l[i] \in Seq(S) /\ k[i] = l[i],
         Concats(g, l, n), Concats(h, k, m)
  PROVE  \A i \in 1 .. n : g[i] \in Seq(S) /\ h[i] = g[i]
<1> DEFINE N == {i \in Nat : i \in 1 .. n => g[i] \in Seq(S) /\ h[i] = g[i]}
<1>1. \A i \in 1 .. n : g[i] = IF i = 1 THEN l[i] ELSE g[i - 1] \o l[i]
  BY DEF Concats
<1>a. \A i \in 1 .. m : h[i] = IF i = 1 THEN k[i] ELSE h[i - 1] \o k[i]
  BY DEF Concats
<1>b. \A i \in 1 .. n : h[i] = IF i = 1 THEN k[i] ELSE h[i - 1] \o k[i]
  <2>1. \A i \in 1 .. n : i \in 1 .. m
    OBVIOUS
  <2> QED BY <1>a, <2>1
<1>c. \A i \in 1 .. n : l[i] \in Seq(S) /\ k[i] = l[i]
  OBVIOUS
<1>2. 0 \in N
  OBVIOUS
<1>3. ASSUME NEW i \in Nat, i \in N PROVE i + 1 \in N
  <2> SUFFICES ASSUME i + 1 \in 1 .. n PROVE g[i + 1] \in Seq(S) /\ h[i + 1] = g[i + 1]
    OBVIOUS
  <2>1. CASE i = 0
    <3>1. 1 \in 1 .. n /\ i + 1 = 1
      BY <2>1
    <3>2. g[1] = l[1] /\ h[1] = k[1]
      BY <1>1, <1>b, <3>1
    <3> QED BY <1>c, <3>1, <3>2
  <2>2. CASE i # 0
    <3>1. g[i] \in Seq(S) /\ h[i] = g[i]
      BY <1>3, <2>2
    <3>4. i + 1 # 1 /\ (i + 1) - 1 = i
      BY <2>2
    <3>2. g[i + 1] = g[i] \o l[i + 1] /\ h[i + 1] = h[i] \o k[i + 1]
      BY <1>1, <1>b, <3>4
    <3>3. l[i + 1] \in Seq(S) /\ k[i + 1] = l[i + 1]
      BY <1>c
    <3> QED BY <3>1, <3>2, <3>3, ConcatProperties
  <2> QED BY <2>1, <2>2
<1>4. Nat \subseteq N
  <2> HIDE DEF N
  <2> QED BY <1>2, <1>3, NatSetInduction
<1> QED BY <1>4

(* FlattenSeq is the last of them. *)
LEMMA FlattenIsLast ==
  ASSUME NEW S, NEW l \in Seq(S), l # <<>>
  PROVE  \E g : Concats(g, l, Len(l)) /\ FlattenSeq(l) = g[Len(l)]
<1> DEFINE Body(g) == [i \in 1 .. Len(l) |-> IF i = 1 THEN l[i] ELSE g[i - 1] \o l[i]]
<1>1. Len(l) \in Nat /\ Len(l) # 0
  OBVIOUS
<1>2. \E h : h = Body(h)
  <2>1. PICK h : Concats(h, l, Len(l))
    BY <1>1, ConcatsExist
  <2>2. h = Body(h)
    BY <2>1 DEF Concats
  <2> QED BY <2>2
<1>3. PICK g : g = CHOOSE h : h = Body(h)
  OBVIOUS
<1>4. g = Body(g)
  BY <1>2, <1>3
<1>5. FlattenSeq(l) = (CHOOSE h : h = Body(h))[Len(l)]
  BY <1>1 DEF FlattenSeq
<1>6. Concats(g, l, Len(l))
  BY <1>4 DEF Concats
<1>7. FlattenSeq(l) = g[Len(l)]
  BY <1>3, <1>5
<1> QED BY <1>6, <1>7

(* Flattening a list with one sequence more. *)
LEMMA FlattenAppend ==
  ASSUME NEW S, NEW l \in Seq(Seq(S)), NEW x \in Seq(S)
  PROVE  /\ FlattenSeq(l) \in Seq(S)
         /\ FlattenSeq(Append(l, x)) = FlattenSeq(l) \o x
<1> DEFINE k == Append(l, x)
           n == Len(l)
<1>1. /\ k \in Seq(Seq(S)) /\ k # <<>> /\ Len(k) = n + 1 /\ n \in Nat
      /\ k[n + 1] = x
      /\ \A i \in 1 .. n : k[i] = l[i] /\ l[i] \in Seq(S)
  BY AppendProperties
<1> HIDE DEF k
<1>2. PICK h : Concats(h, k, n + 1) /\ FlattenSeq(k) = h[n + 1]
  BY <1>1, FlattenIsLast
<1>3. \A i \in 1 .. n + 1 : h[i] = IF i = 1 THEN k[i] ELSE h[i - 1] \o k[i]
  BY <1>2 DEF Concats
<1>4. CASE l = <<>>
  <2>1. n = 0 /\ FlattenSeq(l) = <<>>
    BY <1>4 DEF FlattenSeq
  <2>2. FlattenSeq(k) = x
    BY <1>1, <1>2, <1>3, <2>1
  <2> QED BY <2>1, <2>2, ConcatEmptySeq DEF k
<1>5. CASE l # <<>>
  <2>1. PICK g : Concats(g, l, n) /\ FlattenSeq(l) = g[n]
    BY <1>5, FlattenIsLast
  <2>2. n \in 1 .. n
    BY <1>1, <1>5
  <2>3. g[n] \in Seq(S) /\ h[n] = g[n]
    <3>1. n <= n + 1 /\ n + 1 \in Nat
      BY <1>1
    <3>3. \A i \in 1 .. n : l[i] \in Seq(S) /\ k[i] = l[i]
      BY <1>1
    <3>4. n \in Nat /\ Concats(g, l, n) /\ Concats(h, k, n + 1)
      BY <1>1, <1>2, <2>1
    <3> HIDE DEF n
    <3>2. \A i \in 1 .. n : g[i] \in Seq(S) /\ h[i] = g[i]
      BY ONLY <3>1, <3>3, <3>4, ConcatsFacts, SMTT(30)
    <3> QED BY <2>2, <3>2
  <2>4. h[n + 1] = h[n] \o x
    <3>1. n + 1 # 1 /\ (n + 1) - 1 = n /\ n + 1 \in 1 .. n + 1
      BY <1>1, <2>2
    <3>2. h[n + 1] = h[(n + 1) - 1] \o k[n + 1]
      BY <1>3, <3>1
    <3> QED BY <1>1, <3>1, <3>2
  <2> QED BY <1>2, <2>1, <2>3, <2>4 DEF k
<1> QED BY <1>4, <1>5

Chars == Tokens \cup {Nul, Beyond}

(* What stands between the elements parsed so far and the next one.         *)
Separator(l) == IF l = <<>> THEN <<>> ELSE <<Char(",")>>

(* The text of a spec is a sequence of tokens, and not an empty one.        *)
LEMMA SpecTextType ==
  ASSUME NEW s \in SpecsWritten
  PROVE  SpecText(s) \in Seq(Chars) /\ Len(SpecText(s)) >= 1
<1>1. \A v \in Numbers : Number(v) \in Chars
  BY DEF Chars, Tokens
<1>2. Char("(") \in Chars /\ Char(")") \in Chars /\ Char(",") \in Chars
  BY DEF Chars, Tokens
<1>3. s.min \in Numbers /\ s.max \in Numbers
  BY DEF SpecsWritten, FixedSpec, RangeSpec
<1>4. PICK a, b, c, d, e : /\ a = Char("(") /\ b = Number(s.min) /\ c = Char(",")
                           /\ d = Number(s.max) /\ e = Char(")")
  OBVIOUS
<1>5. {a, b, c, d, e} \subseteq Chars
  BY <1>1, <1>2, <1>3, <1>4
<1>6. SpecText(s) = <<b>> \/ SpecText(s) = <<a, b, c, d, e>>
  BY <1>4 DEF SpecText
<1>7. CASE SpecText(s) = <<b>>
  BY <1>5, <1>7
<1>8. CASE SpecText(s) = <<a, b, c, d, e>>
  <2>1. <<a, b, c, d, e>> \in Seq(Chars)
    BY <1>5
  <2>2. Len(<<a, b, c, d, e>>) = 5
    OBVIOUS
  <2> QED BY <1>8, <2>1, <2>2
<1> QED BY <1>6, <1>7, <1>8

(* The text of a list with one element more. *)
LEMMA ListTextAppend ==
  ASSUME NEW l \in Seq(SpecsWritten), NEW s \in SpecsWritten
  PROVE  /\ ListText(l) \in Seq(Chars)
         /\ ListText(Append(l, s)) = ListText(l) \o (Separator(l) \o SpecText(s))
<1> DEFINE Piece(k, i) == (IF i = 1 THEN <<>> ELSE <<Char(",")>>) \o SpecText(k[i])
           p == [i \in DOMAIN l |-> Piece(l, i)]
           n == Len(l)
<1>1. Char(",") \in Chars
  BY DEF Chars, Tokens
<1>2. ASSUME NEW i, NEW k, k[i] \in SpecsWritten PROVE Piece(k, i) \in Seq(Chars)
  <2>1. SpecText(k[i]) \in Seq(Chars)
    BY <1>2, SpecTextType
  <2>2. <<>> \in Seq(Chars) /\ <<Char(",")>> \in Seq(Chars)
    <3>1. ASSUME NEW A, NEW c \in A PROVE <<>> \in Seq(A) /\ <<c>> \in Seq(A)
      BY <3>1
    <3> QED BY <1>1, <3>1
  <2> QED BY <2>1, <2>2, ConcatProperties
<1>3. n \in Nat /\ DOMAIN l = 1 .. n /\ \A i \in 1 .. n : l[i] \in SpecsWritten
  OBVIOUS
<1>4. p \in [1 .. n -> Seq(Chars)]
  <2> HIDE DEF Piece
  <2> QED BY <1>2, <1>3
<1>5. p \in Seq(Seq(Chars)) /\ Len(p) = n
  <2> HIDE DEF p
  <2> QED BY <1>3, <1>4, SeqDef
<1>6. PICK x : x = Piece(Append(l, s), n + 1)
  OBVIOUS
<1>7. Append(l, s)[n + 1] = s /\ \A i \in 1 .. n : Append(l, s)[i] = l[i]
  BY AppendProperties
<1>8. x \in Seq(Chars)
  BY <1>2, <1>6, <1>7
<1>9. [i \in DOMAIN Append(l, s) |-> Piece(Append(l, s), i)] = Append(p, x)
  <2>1. DOMAIN Append(l, s) = 1 .. n + 1
    BY <1>3
  <2>2. \A i \in 1 .. n : Piece(Append(l, s), i) = p[i]
    BY <1>3, <1>7
  <2>3. /\ DOMAIN Append(p, x) = 1 .. n + 1
        /\ \A i \in 1 .. n : Append(p, x)[i] = p[i]
        /\ Append(p, x)[n + 1] = x
        /\ Append(p, x) = [i \in 1 .. n + 1 |-> Append(p, x)[i]]
    <3>1. ASSUME NEW A, NEW q \in Seq(A), NEW y \in A, Len(q) = n
          PROVE  /\ Append(q, y) \in Seq(A)
                 /\ Len(Append(q, y)) = n + 1
                 /\ \A i \in 1 .. n : Append(q, y)[i] = q[i]
                 /\ Append(q, y)[n + 1] = y
      BY <3>1, AppendProperties
    <3>2. ASSUME NEW A, NEW q \in Seq(A)
          PROVE  DOMAIN q = 1 .. Len(q) /\ q = [i \in 1 .. Len(q) |-> q[i]]
      BY <3>2
    <3> HIDE DEF p
    <3>3. Append(p, x) \in Seq(Seq(Chars)) /\ Len(Append(p, x)) = n + 1
      BY ONLY <1>5, <1>8, <3>1
    <3>4. (\A i \in 1 .. n : Append(p, x)[i] = p[i]) /\ Append(p, x)[n + 1] = x
      BY ONLY <1>5, <1>8, <3>1
    <3>5. /\ DOMAIN Append(p, x) = 1 .. n + 1
          /\ Append(p, x) = [i \in 1 .. n + 1 |-> Append(p, x)[i]]
      <4> PICK q : q = Append(p, x)
        OBVIOUS
      <4>1. q \in Seq(Seq(Chars)) /\ Len(q) = n + 1
        BY <3>3
      <4>2. DOMAIN q = 1 .. n + 1 /\ q = [i \in 1 .. n + 1 |-> q[i]]
        BY <3>2, <4>1
      <4> QED BY <4>2
    <3> QED BY <3>4, <3>5
  <2> HIDE DEF p, Piece
  <2>4. \A i \in 1 .. n + 1 : i \in 1 .. n \/ i = n + 1
    BY <1>3
  <2>5. \A i \in 1 .. n + 1 : Piece(Append(l, s), i) = Append(p, x)[i]
    BY <1>6, <2>2, <2>3, <2>4
  <2> QED BY <2>1, <2>3, <2>5
<1>10. FlattenSeq(p) \in Seq(Chars) /\ FlattenSeq(Append(p, x)) = FlattenSeq(p) \o x
  <2> HIDE DEF p
  <2> QED BY <1>5, <1>8, FlattenAppend
<1>11. x = Separator(l) \o SpecText(s)
  <2>1. n + 1 = 1 <=> l = <<>>
    BY <1>3
  <2> QED BY <1>6, <1>7, <2>1 DEF Separator
<1>12. ListText(l) = FlattenSeq(p) /\ ListText(Append(l, s)) = FlattenSeq(Append(p, x))
  <2>1. ListText(l) = FlattenSeq(p)
    BY DEF ListText
  <2>2. ListText(Append(l, s)) = FlattenSeq([i \in DOMAIN Append(l, s) |-> Piece(Append(l, s), i)])
    BY DEF ListText
  <2> HIDE DEF p, Piece
  <2> QED BY <1>9, <2>1, <2>2
<1> QED BY <1>10, <1>11, <1>12

(* The text of the empty list, and of one element. *)
LEMMA ListTextShort ==
  /\ ListText(<<>>) = <<>>
  /\ \A s \in SpecsWritten : ListText(<<s>>) = SpecText(s)
<1>1. ListText(<<>>) = <<>>
  BY DEF ListText, FlattenSeq
<1>2. ASSUME NEW s \in SpecsWritten PROVE ListText(<<s>>) = SpecText(s)
  <2>1. <<>> \in Seq(SpecsWritten) /\ <<s>> = Append(<<>>, s) /\ Separator(<<>>) = <<>>
    BY DEF Separator
  <2>2. ListText(<<s>>) = <<>> \o (<<>> \o SpecText(s))
    BY <1>1, <2>1, ListTextAppend
  <2> QED BY <2>2, SpecTextType, ConcatEmptySeq
<1> QED BY <1>1, <1>2

(* What has been read is, at each place of the parser, the text of what has *)
(* been parsed: of the list without its closing bracket, and before an      *)
(* element that comes next.                                                 *)
ListRead   == (IF form = "one" THEN <<>> ELSE <<Char(form)>>) \o ListText(elems)
BeforeSpec == ListRead \o Separator(elems)
Closing    == Char(IF form = "[" THEN "]" ELSE "}")

AfterParen == Append(BeforeSpec, Char("("))
AfterMin   == Append(AfterParen, Number(min_v))
AfterComma == Append(AfterMin, Char(","))
AfterMax   == Append(AfterComma, Number(max_v))

Text ==
  /\ pc \in {"args", "pattern"} => seen = <<>>
  /\ pc \in {"open", "first"}   => seen = <<Char(form)>> /\ form # "one"
  /\ pc \in {"room", "spec"}    => seen = BeforeSpec
  /\ pc = "min"   => seen = AfterParen
  /\ pc = "comma" => seen = AfterMin
  /\ pc = "max"   => seen = AfterComma
  /\ pc = "close" => seen = AfterMax
  /\ pc = "after" => seen = ListRead
  /\ pc = "end"   => seen = Append(ListRead, Closing) /\ form # "one"
  /\ pc = "done"  => seen = IF form = "one" THEN ListRead ELSE Append(ListRead, Closing)

(* The elements are made of the numbers there are; a pattern without        *)
(* brackets is one element.                                                 *)
Elements ==
  /\ elems \in Seq(SpecsWritten)
  /\ pc \in {"comma", "max", "close"} => min_v \in Numbers
  /\ pc = "close" => max_v \in Numbers
  /\ pc = "room" => form # "one"
  /\ form = "one" => /\ pc \in InSpec => elems = <<>>
                     /\ pc \in {"after", "done"} => Len(elems) = 1

(* The cursor is in a string of MaxLen[pattern] tokens at most, and an      *)
(* element takes two of them, except for one.                               *)
Lengths ==
  /\ length <= MaxLen[pattern] /\ Len(seen) <= length
  /\ look \in Tokens => length < MaxLen[pattern]
  /\ 2 * Len(elems) <= Len(ListText(elems)) + 1
  /\ pc \in Parsing \cup {"done"} => num_threads \in 1 .. MaxThreads

(* What the parser has delivered in the end. *)
Meaning ==
  pc = "done" =>
    /\ pattern = "deq" /\ Len(elems) > 0
    /\ form = "{" => Len(elems) = num_threads
    /\ specs["deq"] = [t \in 0 .. num_threads - 1 |-> elems[(t % Len(elems)) + 1]]

Grammar == Text /\ Elements /\ Lengths /\ Meaning
-----------------------------------------------------------------------------
(* A token is known by its kind, a number by its kind and value. *)
LEMMA TokenIs ==
  ASSUME NEW x \in Chars
  PROVE  /\ x.kind = "num" => x.val \in Numbers /\ x = Number(x.val)
         /\ x.kind # "num" => x = Char(x.kind)
<1>1. CASE \E v \in Numbers : x = Number(v)
  <2>1. PICK v \in Numbers : x = Number(v)
    BY <1>1
  <2>2. x.kind = "num" /\ x.val = v
    BY <2>1 DEF Number
  <2> QED BY <2>1, <2>2
<1> DEFINE C == {"(", ")", "[", "]", "{", "}", ",", "space", "other", "nul", "beyond"}
<1>2. CASE \E c \in C : x = Char(c)
  <2>1. PICK c \in C : x = Char(c)
    BY <1>2
  <2>2. x.kind = c /\ c # "num"
    BY <2>1 DEF Char
  <2> QED BY <2>1, <2>2
<1> QED BY <1>1, <1>2 DEF Chars, Tokens, Nul, Beyond

(* Sequences can be put together in either order. *)
LEMMA ConcatThree ==
  \A S : \A x, y, z \in Seq(S) :
    \A u, v : u = x \o y /\ v = y \o z => u \o z = x \o v
<1> TAKE S
<1> TAKE x, y, z \in Seq(S)
<1>1. (x \o y) \o z = x \o (y \o z)
  BY ONLY ConcatAssociative, x \in Seq(S), y \in Seq(S), z \in Seq(S), SMT
<1> QED BY ONLY <1>1

(* Sequences without or with one element. *)
LEMMA ShortSeqs ==
  ASSUME NEW S, NEW c \in S
  PROVE  <<>> \in Seq(S) /\ <<c>> \in Seq(S) /\ Len(<<>>) = 0 /\ Len(<<c>>) = 1
OBVIOUS

(* What has been read of a list, and its length. *)
LEMMA ReadTypes ==
  ASSUME form \in {"one", "[", "{"}, elems \in Seq(SpecsWritten)
  PROVE  /\ ListText(elems) \in Seq(Chars) /\ ListRead \in Seq(Chars)
         /\ Separator(elems) \in Seq(Chars) /\ BeforeSpec \in Seq(Chars)
         /\ Len(ListRead) = Len(ListText(elems)) + (IF form = "one" THEN 0 ELSE 1)
<1>1. Char("[") \in Chars /\ Char("{") \in Chars /\ Char(",") \in Chars
  BY DEF Chars, Tokens
<1>3. ListText(elems) \in Seq(Chars)
  <2>1. CASE elems = <<>>
    BY <1>1, <2>1, ShortSeqs, ListTextShort
  <2>2. CASE elems # <<>>
    <3>1. PICK l \in Seq(SpecsWritten), s \in SpecsWritten : elems = Append(l, s)
      BY <2>2, SequenceEmptyOrAppend
    <3>2. ListText(l) \in Seq(Chars) /\ ListText(elems) = ListText(l) \o (Separator(l) \o SpecText(s))
      BY <3>1, ListTextAppend
    <3>3. Separator(l) \in Seq(Chars)
      BY <1>1, ShortSeqs DEF Separator
    <3>4. SpecText(s) \in Seq(Chars)
      BY SpecTextType
    <3> QED BY <3>2, <3>3, <3>4, ConcatProperties
  <2> QED BY <2>1, <2>2
<1>4. PICK b : b = IF form = "one" THEN <<>> ELSE <<Char(form)>>
  OBVIOUS
<1>5. b \in Seq(Chars) /\ Len(b) = IF form = "one" THEN 0 ELSE 1
  BY <1>1, <1>4, ShortSeqs
<1>6. ListRead = b \o ListText(elems)
  BY <1>4 DEF ListRead
<1>7. /\ ListRead \in Seq(Chars)
      /\ Len(ListRead) = Len(b) + Len(ListText(elems))
  BY <1>3, <1>5, <1>6, ConcatProperties
<1>8. Separator(elems) \in Seq(Chars)
  BY <1>1, ShortSeqs DEF Separator
<1>9. BeforeSpec \in Seq(Chars)
  BY <1>7, <1>8, ConcatProperties DEF BeforeSpec
<1>10. Len(ListText(elems)) \in Nat
  BY <1>3, LenProperties
<1>11. Len(ListRead) = Len(ListText(elems)) + (IF form = "one" THEN 0 ELSE 1)
  <2> PICK n : n = Len(ListText(elems))
    OBVIOUS
  <2>1. CASE form = "one"
    BY <1>5, <1>7, <1>10, <2>1
  <2>2. CASE form # "one"
    <3>1. Len(b) = 1
      BY <1>5, <2>2
    <3>2. n + 1 = 1 + n
      <4>1. n \in Nat
        BY ONLY <1>10, n = Len(ListText(elems)), Zenon
      <4> QED BY ONLY <4>1
    <3>3. Len(ListRead) = n + 1
      BY <1>7, <3>1, <3>2
    <3> QED BY <2>2, <3>3
  <2> QED BY <2>1, <2>2
<1> QED BY <1>3, <1>7, <1>8, <1>9, <1>11

(* How the cursor moves on from a token that is not white space. *)
LEMMA AdvanceReads ==
  ASSUME IInv, Lengths, Advance, pattern' = pattern, look.kind \notin {"nul", "space"}
  PROVE  /\ seen' = Append(seen, look) /\ look \in Tokens
         /\ length' <= MaxLen[pattern'] /\ Len(seen') <= length'
         /\ look' \in Tokens => length' < MaxLen[pattern']
<1>1. look \in Tokens /\ look # Nul /\ look # Beyond
  BY TokenKinds DEF IInv, TypeOK, StaysInside
<1>2. look \in Chars /\ seen \in Seq(Chars) /\ length \in Nat /\ pattern \in Patterns
  BY DEF IInv, TypeOK, Chars
<1>3. MaxLen[pattern] \in Nat
  BY <1>2, BatchSpecAssumption DEF BatchSpecAssumption
<1>4. seen' = Append(seen, look) /\ length' = length + 1
  BY DEF Advance
<1>5. Len(seen) \in Nat /\ Len(seen') = Len(seen) + 1
  BY <1>2, <1>4, LenProperties, AppendProperties
<1>6. Len(seen) <= length /\ length < MaxLen[pattern]
  BY <1>1 DEF Lengths
<1>7. look' \in {Nul} \cup (IF length + 1 < MaxLen[pattern] THEN Tokens ELSE {})
  BY <1>1 DEF Advance
<1>8. Nul \notin Tokens
  BY DEF Nul, Tokens, Char, Number
<1>9. look' \in Tokens => length' < MaxLen[pattern]
  BY <1>4, <1>7, <1>8
<1>10. length' <= MaxLen[pattern] /\ Len(seen') <= length'
  BY <1>2, <1>3, <1>4, <1>5, <1>6
<1> QED BY <1>1, <1>4, <1>9, <1>10

(* A list with an element more. *)
LEMMA AddGrammar ==
  ASSUME IInv, Grammar, pc \in {"spec", "close"}, NEW s \in SpecsWritten,
         Advance, Add(s), look.kind \notin {"nul", "space"},
         Append(seen, look) = BeforeSpec \o SpecText(s)
  PROVE  Grammar'
<1>1. /\ elems \in Seq(SpecsWritten) /\ form \in {"one", "[", "{"}
      /\ Text /\ Elements /\ Lengths
      /\ form = "one" => elems = <<>>
  BY DEF Grammar, Elements, IInv, TypeOK, InSpec
<1>2. /\ elems' = Append(elems, s) /\ UNCHANGED <<form, num_threads, pattern, specs>>
      /\ pc' = "after"
  BY DEF Add, Goto
<1>3. /\ seen' = BeforeSpec \o SpecText(s)
      /\ length' <= MaxLen[pattern'] /\ Len(seen') <= length'
      /\ look' \in Tokens => length' < MaxLen[pattern']
  BY <1>1, <1>2, AdvanceReads
<1>4. /\ ListText(elems) \in Seq(Chars)
      /\ ListText(elems') = ListText(elems) \o (Separator(elems) \o SpecText(s))
  BY <1>1, <1>2, ListTextAppend
<1>5. Separator(elems) \in Seq(Chars) /\ ListRead \in Seq(Chars)
  BY <1>1, ReadTypes
<1>6. SpecText(s) \in Seq(Chars) /\ Len(SpecText(s)) >= 1
  BY SpecTextType
<1>7. PICK b \in Seq(Chars) : b = IF form = "one" THEN <<>> ELSE <<Char(form)>>
  <2>1. Char("[") \in Chars /\ Char("{") \in Chars
    BY DEF Chars, Tokens
  <2> QED BY <1>1, <2>1, ShortSeqs
<1>9. ListRead = b \o ListText(elems) /\ ListRead' = b \o ListText(elems')
  BY <1>2, <1>7 DEF ListRead
<1>10. seen' = ListRead'
  <2>1. PICK t \in Seq(Chars), r \in Seq(Chars), u \in Seq(Chars) :
          t = ListText(elems) /\ r = Separator(elems) /\ u = SpecText(s)
    BY <1>4, <1>5, <1>6
  <2>2. PICK q \in Seq(Chars) : q = r \o u
    BY ConcatProperties
  <2>3. PICK read \in Seq(Chars) : read = ListRead
    BY <1>5
  <2>4. seen' = read \o q
    <3>1. seen' = BeforeSpec \o u /\ BeforeSpec = read \o r
      BY <1>3, <2>1, <2>3 DEF BeforeSpec
    <3>2. \A y, z : y = read \o r /\ z = r \o u => y \o u = read \o z
      BY ONLY ConcatThree, r \in Seq(Chars), u \in Seq(Chars), read \in Seq(Chars), SMTT(20)
    <3> QED BY ONLY <2>2, <3>1, <3>2
  <2>5. read \o q = b \o (t \o q)
    <3>1. read = b \o t
      BY <1>9, <2>1, <2>3
    <3>2. \A y, z : y = b \o t /\ z = t \o q => y \o q = b \o z
      BY ONLY ConcatThree, b \in Seq(Chars), t \in Seq(Chars), q \in Seq(Chars), SMTT(20)
    <3> QED BY ONLY <3>1, <3>2
  <2> QED BY <1>4, <1>9, <2>1, <2>2, <2>4, <2>5
<1>11. Text'
  BY <1>2, <1>10 DEF Text
<1>12. elems' \in Seq(SpecsWritten) /\ Len(elems') = Len(elems) + 1 /\ Len(elems) \in Nat
  <2>1. ASSUME NEW A, NEW q \in Seq(A), NEW y \in A
        PROVE  Append(q, y) \in Seq(A) /\ Len(Append(q, y)) = Len(q) + 1 /\ Len(q) \in Nat
    BY AppendProperties, LenProperties
  <2> QED BY <1>1, <1>2, <2>1
<1>13. Elements'
  <2>1. form = "one" => Len(elems) = 0
    BY <1>1
  <2>2. form = "one" => Len(elems') = 1
    BY <1>12, <2>1
  <2> QED BY <1>2, <1>12, <2>2 DEF Elements, InSpec
<1>14. 2 * Len(elems') <= Len(ListText(elems')) + 1
  <2>1. /\ Len(ListText(elems)) \in Nat /\ Len(Separator(elems)) \in Nat
        /\ Len(SpecText(s)) \in Nat
    BY <1>4, <1>5, <1>6, LenProperties
  <2>2. Len(ListText(elems')) = Len(ListText(elems)) + (Len(Separator(elems)) + Len(SpecText(s)))
    <3>1. /\ Separator(elems) \o SpecText(s) \in Seq(Chars)
          /\ Len(Separator(elems) \o SpecText(s)) = Len(Separator(elems)) + Len(SpecText(s))
      BY <1>5, <1>6, ConcatProperties
    <3> QED BY <1>4, <3>1, ConcatProperties
  <2>3. CASE elems = <<>>
    <3>1. Len(elems) = 0
      BY <2>3
    <3> QED BY <1>6, <1>12, <2>1, <2>2, <3>1
  <2>4. CASE elems # <<>>
    <3>1. Len(Separator(elems)) = 1
      BY <2>4 DEF Separator
    <3>2. 2 * Len(elems) <= Len(ListText(elems)) + 1
      BY <1>1 DEF Lengths
    <3> QED BY <1>6, <1>12, <2>1, <2>2, <3>1, <3>2
  <2> QED BY <2>3, <2>4
<1>15. Lengths'
  <2>1. num_threads \in 1 .. MaxThreads
    BY <1>1 DEF Lengths, Parsing, InSpec
  <2> QED BY <1>2, <1>3, <1>14, <2>1 DEF Lengths
<1>16. Meaning'
  BY <1>2 DEF Meaning
<1> QED BY <1>11, <1>13, <1>15, <1>16 DEF Grammar

(* Nothing has been read and nothing parsed. *)
LEMMA InitGrammar == Init => Grammar
<1> SUFFICES ASSUME Init PROVE Grammar
  OBVIOUS
<1>1. MaxLen["enq"] \in Nat \ {0}
  BY BatchSpecAssumption DEF BatchSpecAssumption, Patterns
<1>2. Text /\ Meaning
  BY DEF Init, Text, Meaning
<1>3. Elements
  BY EmptySeq DEF Init, Elements, InSpec
<1>4. Len(seen) = 0 /\ Len(elems) = 0 /\ Len(ListText(elems)) = 0
  BY EmptySeq, ListTextShort DEF Init
<1>5. Lengths
  BY <1>1, <1>4 DEF Init, Lengths, Parsing, InSpec
<1> QED BY <1>2, <1>3, <1>5 DEF Grammar

(* An exit leaves everything as it is, and no text has to be explained. *)
LEMMA ExitGrammar ==
  ASSUME Grammar, NEW how \in Rejected, Exit(how)
  PROVE  Grammar'
<1>1. /\ UNCHANGED <<num_threads, pattern, look, seen, length, form, elems, min_v, max_v, specs>>
      /\ pc' \in {"usage", "invalid", "nomemory"}
  BY DEF Exit, cursor, parsed, Rejected
<1>2. Text' /\ Meaning'
  BY <1>1 DEF Text, Meaning
<1>3. Elements'
  BY <1>1 DEF Grammar, Elements, InSpec
<1>4. Lengths'
  BY <1>1 DEF Grammar, Lengths, Parsing, InSpec
<1> QED BY <1>2, <1>3, <1>4 DEF Grammar

(* A step past a token that leaves the elements alone: what has to be shown *)
(* is that the texts agree at the new place.                                *)
LEMMA PassGrammar ==
  ASSUME IInv, Grammar, pc \in Parsing, look.kind \notin {"nul", "space"},
         Advance, pc' \in Parsing, UNCHANGED <<elems, num_threads, pattern>>,
         Text', Elements'
  PROVE  Grammar'
<1>1. Lengths
  BY DEF Grammar
<1>2. /\ length' <= MaxLen[pattern'] /\ Len(seen') <= length'
      /\ look' \in Tokens => length' < MaxLen[pattern']
  BY <1>1, AdvanceReads
<1>3. Lengths'
  BY <1>1, <1>2 DEF Lengths
<1>4. Meaning'
  BY DEF Meaning, Parsing, InSpec
<1> QED BY <1>3, <1>4 DEF Grammar

(* The same for a step that stays at the token. *)
LEMMA StayGrammar ==
  ASSUME Grammar, pc \in Parsing, pc' \in Parsing,
         UNCHANGED <<cursor, elems, num_threads, pattern>>, Text', Elements'
  PROVE  Grammar'
<1>1. Lengths'
  BY DEF Grammar, Lengths, cursor
<1>2. Meaning'
  BY DEF Meaning, Parsing, InSpec
<1> QED BY <1>1, <1>2 DEF Grammar

(* White space is not part of the text. *)
LEMMA SkipGrammar ==
  ASSUME IInv, Grammar, SkipWs
  PROVE  Grammar'
<1>1. /\ pc \in Parsing /\ look.kind = "space" /\ Advance
      /\ UNCHANGED <<pc, num_threads, pattern, form, elems, min_v, max_v, specs>>
  BY DEF SkipWs, parsed
<1>2. seen' = seen /\ length' = length + 1
  BY <1>1 DEF Advance
<1>3. look \in Tokens /\ look # Nul /\ look # Beyond
  BY <1>1, TokenKinds DEF IInv, TypeOK
<1>4. /\ length \in Nat /\ MaxLen[pattern] \in Nat /\ Len(seen) \in Nat
  <2>1. pattern \in Patterns /\ length \in Nat /\ seen \in Seq(Chars)
    BY DEF IInv, TypeOK, Chars
  <2> QED BY <2>1, LenProperties, BatchSpecAssumption DEF BatchSpecAssumption
<1>5. Len(seen) <= length /\ length < MaxLen[pattern]
  BY <1>3 DEF Grammar, Lengths
<1>6. look' \in {Nul} \cup (IF length + 1 < MaxLen[pattern] THEN Tokens ELSE {})
  BY <1>1, <1>3 DEF Advance
<1>7. Nul \notin Tokens
  BY DEF Nul, Tokens, Char, Number
<1>8. Text'
  BY <1>1, <1>2 DEF Grammar, Text, ListRead, BeforeSpec, Closing, AfterParen, AfterMin,
     AfterComma, AfterMax
<1>9. Elements' /\ Meaning'
  BY <1>1 DEF Grammar, Elements, Meaning, Parsing, InSpec
<1>10. /\ length' <= MaxLen[pattern'] /\ Len(seen') <= length'
       /\ look' \in Tokens => length' < MaxLen[pattern']
  BY <1>1, <1>2, <1>4, <1>5, <1>6, <1>7
<1>11. Lengths'
  BY <1>1, <1>10 DEF Grammar, Lengths
<1> QED BY <1>8, <1>9, <1>11 DEF Grammar

(* What is delivered is what has been parsed. *)
LEMMA DeliverGrammar ==
  ASSUME IInv, Grammar, Deliver, pc \in {"after", "end"},
         form = "one" <=> pc = "after",
         form = "{" => Len(elems) = num_threads
  PROVE  Grammar'
<1>1. /\ elems \in Seq(SpecsWritten) /\ pattern \in Patterns /\ Len(elems) > 0
      /\ DOMAIN specs = Patterns
  BY DEF Grammar, Elements, IInv, TypeOK, Shape
<1>2. UNCHANGED <<num_threads, form, elems, min_v, max_v>>
  BY DEF Deliver, parsed
<1>3. CASE pattern = "enq"
  <2>1. /\ pc' = "pattern" /\ pattern' = "deq"
        /\ look' \in Tokens \cup {Nul} /\ seen' = <<>> /\ length' = 0
    BY <1>3 DEF Deliver
  <2>2. Text' /\ Meaning'
    BY <2>1 DEF Text, Meaning
  <2>3. Elements'
    BY <1>1, <1>2, <2>1 DEF Elements, InSpec
  <2>4. MaxLen["deq"] \in Nat \ {0} /\ Len(seen') = 0
    BY <2>1, EmptySeq, BatchSpecAssumption DEF BatchSpecAssumption, Patterns
  <2>5. Lengths'
    <3>1. length' <= MaxLen[pattern'] /\ Len(seen') <= length' /\ length' < MaxLen[pattern']
      <4>1. MaxLen[pattern'] \in Nat \ {0} /\ Len(seen') = 0 /\ length' = 0
        BY <2>1, <2>4
      <4> QED BY ONLY <4>1
    <3>2. 2 * Len(elems') <= Len(ListText(elems')) + 1
      BY <1>2 DEF Grammar, Lengths
    <3>3. num_threads' \in 1 .. MaxThreads
      BY <1>2 DEF Grammar, Lengths, Parsing, InSpec
    <3> QED BY <3>1, <3>2, <3>3 DEF Lengths
  <2> QED BY <2>2, <2>3, <2>5 DEF Grammar
<1>4. CASE pattern = "deq"
  <2>1. pc' = "done" /\ UNCHANGED <<pattern, look, seen, length>>
    BY <1>4 DEF Deliver, cursor
  <2>2. specs'["deq"] = [t \in 0 .. num_threads - 1 |-> elems[(t % Len(elems)) + 1]]
    BY <1>1, <1>4 DEF Deliver
  <2>3. Meaning'
    BY <1>1, <1>2, <1>4, <2>1, <2>2 DEF Meaning
  <2>4. Text'
    BY <1>2, <2>1 DEF Grammar, Text, ListRead, Closing
  <2>5. Elements'
    BY <1>1, <1>2, <2>1 DEF Grammar, Elements, InSpec
  <2>6. Lengths'
    BY <1>2, <2>1 DEF Grammar, Lengths, Parsing, InSpec
  <2> QED BY <2>3, <2>4, <2>5, <2>6 DEF Grammar
<1> QED BY <1>1, <1>3, <1>4 DEF Patterns

(* Each action reads the next piece of the text of what it parses. *)
LEMMA NextGrammar == IInv /\ Grammar /\ [Next]_vars => Grammar'
<1> SUFFICES ASSUME IInv, Grammar, [Next]_vars PROVE Grammar'
  OBVIOUS
<1> USE DEF InSpec, Parsing
<1>0. /\ Text /\ Elements /\ Lengths /\ Meaning
      /\ look \in Chars /\ form \in {"one", "[", "{"} /\ elems \in Seq(SpecsWritten)
      /\ Lengths
  BY DEF Grammar, Elements, IInv, TypeOK, Chars
<1>r. {"usage", "invalid", "nomemory"} = Rejected
  BY DEF Rejected
<1>t. /\ look.kind = "num" => look.val \in Numbers /\ look = Number(look.val)
      /\ look.kind # "num" => look = Char(look.kind)
  BY <1>0, TokenIs
<1>i. ASSUME IsInt
      PROVE  /\ look.val \in Numbers \cap Sizes /\ look = Number(look.val)
             /\ look.kind = "num"
  BY <1>i, <1>t DEF IsInt
<1>a. ASSUME Advance, pattern' = pattern, look.kind \notin {"nul", "space"}
      PROVE  seen' = Append(seen, look)
  BY <1>0, <1>a, AdvanceReads
<1>p. /\ BeforeSpec \in Seq(Chars) /\ ListRead \in Seq(Chars)
      /\ min_v \in Sizes /\ max_v \in Sizes
  BY <1>0, ReadTypes DEF IInv, TypeOK
<1>c. Char("(") \in Chars /\ Char(")") \in Chars /\ Char(",") \in Chars
  BY DEF Chars, Tokens
<1>1. CASE ParseArgs
  <2>1. CASE Exit("usage")
    BY <2>1, <1>r, ExitGrammar
  <2>2. CASE /\ pc = "args" /\ pc' = "pattern" /\ num_threads' \in 1 .. MaxThreads
             /\ UNCHANGED <<pattern, cursor, parsed, specs>>
    <3>1. UNCHANGED <<pattern, look, seen, length, form, elems, min_v, max_v>>
      BY <2>2 DEF cursor, parsed
    <3>2. Text' /\ Elements' /\ Meaning'
      BY <1>0, <2>2, <3>1 DEF Text, Elements, Meaning
    <3>3. Lengths'
      BY <1>0, <2>2, <3>1 DEF Lengths
    <3> QED BY <3>2, <3>3 DEF Grammar
  <2> QED
    <3>1. ASSUME NEW n \in -1 .. MaxThreads, n > 0 PROVE n \in 1 .. MaxThreads
      BY <3>1, BatchSpecAssumption DEF BatchSpecAssumption
    <3> QED BY <1>1, <2>1, <2>2, <3>1 DEF ParseArgs
<1>2. CASE SkipWs
  BY <1>2, SkipGrammar
<1>3. CASE ParsePattern
  <2>1. CASE Exit("invalid") \/ Exit("nomemory")
    BY <2>1, <1>r, ExitGrammar
  <2>2. CASE /\ look.kind \in {"[", "{"} /\ pc = "pattern"
             /\ form' = look.kind /\ elems' = <<>>
             /\ Advance /\ Goto("open")
    <3>1. pc' = "open" /\ UNCHANGED <<num_threads, pattern, specs>>
      BY <2>2 DEF Goto
    <3>2. /\ seen' = Append(seen, look)
          /\ length' <= MaxLen[pattern'] /\ Len(seen') <= length'
          /\ look' \in Tokens => length' < MaxLen[pattern']
      BY <1>0, <2>2, <3>1, AdvanceReads
    <3>3. seen = <<>> /\ look = Char(form')
      BY <1>0, <1>t, <2>2 DEF Text
    <3>4. seen' = <<Char(form')>>
      BY <3>2, <3>3
    <3>5. Text' /\ Meaning'
      BY <2>2, <3>1, <3>4 DEF Text, Meaning
    <3>6. Elements'
      BY <2>2, <3>1, EmptySeq DEF Elements
    <3>7. Len(elems') = 0 /\ Len(ListText(elems')) = 0
      BY <2>2, ListTextShort, EmptySeq
    <3>8. Lengths'
      <4>1. 2 * Len(elems') <= Len(ListText(elems')) + 1
        BY <3>7
      <4>2. num_threads' \in 1 .. MaxThreads
        BY <1>0, <2>2, <3>1 DEF Lengths
      <4> QED BY <3>2, <4>1, <4>2 DEF Lengths
    <3> QED BY <3>5, <3>6, <3>8 DEF Grammar
  <2>3. CASE /\ pc = "pattern" /\ form' = "one" /\ elems' = <<>>
             /\ Goto("spec") /\ UNCHANGED <<cursor, min_v, max_v>>
    <3>1. pc' = "spec" /\ UNCHANGED <<num_threads, pattern, specs, look, seen, length>>
      BY <2>3 DEF Goto, cursor
    <3>2. Len(elems') = 0 /\ Len(ListText(elems')) = 0
      BY <2>3, ListTextShort, EmptySeq
    <3>3. BeforeSpec' = <<>>
      <4>1. <<>> \o <<>> = <<>>
        OBVIOUS
      <4>2. ListRead' = <<>> \o ListText(<<>>) /\ Separator(elems') = <<>>
        BY <2>3 DEF ListRead, Separator
      <4>3. ListRead' = <<>>
        BY <4>1, <4>2, ListTextShort
      <4> QED BY <4>1, <4>2, <4>3 DEF BeforeSpec
    <3>4. Text' /\ Meaning'
      BY <1>0, <2>3, <3>1, <3>3 DEF Text, Meaning
    <3>5. Elements'
      BY <2>3, <3>1, EmptySeq DEF Elements
    <3>6. Lengths'
      <4>1. 2 * Len(elems') <= Len(ListText(elems')) + 1
        BY <3>2
      <4>2. num_threads' \in 1 .. MaxThreads
        BY <1>0, <2>3, <3>1 DEF Lengths
      <4>3. /\ length' <= MaxLen[pattern'] /\ Len(seen') <= length'
            /\ look' \in Tokens => length' < MaxLen[pattern']
        BY <1>0, <3>1 DEF Lengths
      <4> QED BY <4>1, <4>2, <4>3 DEF Lengths
    <3> QED BY <3>4, <3>5, <3>6 DEF Grammar
  <2> QED BY <1>3, <2>1, <2>2, <2>3 DEF ParsePattern, At
<1>4. CASE OpenList
  <2>1. CASE Exit("nomemory")
    BY <2>1, <1>r, ExitGrammar
  <2>2. CASE Goto("first") /\ pc = "open" /\ UNCHANGED <<cursor, form, elems, min_v, max_v>>
    <3>1. Text'
      BY <1>0, <2>2 DEF Goto, cursor, Text
    <3>2. Elements'
      BY <1>0, <2>2 DEF Goto, Elements
    <3> QED BY <2>2, <3>1, <3>2, StayGrammar DEF Goto
  <2> QED BY <1>4, <2>1, <2>2 DEF OpenList
<1>5. CASE FirstElem
  <2>1. CASE Exit("invalid")
    BY <2>1, <1>r, ExitGrammar
  <2>2. CASE pc = "first" /\ Goto("room") /\ UNCHANGED <<cursor, parsed>>
    <3>1. /\ pc' = "room"
          /\ UNCHANGED <<num_threads, pattern, specs, seen, form, elems, min_v, max_v>>
      BY <2>2 DEF Goto, cursor, parsed
    <3>2. elems = <<>> /\ seen = <<Char(form)>> /\ form # "one"
      BY <1>0, <2>2 DEF IInv, Shape, Text
    <3>3. BeforeSpec' = <<Char(form)>>
      <4>1. ASSUME NEW c PROVE <<c>> \o <<>> = <<c>>
        OBVIOUS
      <4>2. ListRead' = <<Char(form)>> \o ListText(<<>>) /\ Separator(elems') = <<>>
        BY <3>1, <3>2 DEF ListRead, Separator
      <4>3. ListRead' = <<Char(form)>>
        BY <4>1, <4>2, ListTextShort
      <4> QED BY <4>1, <4>2, <4>3 DEF BeforeSpec
    <3>4. Text'
      BY <3>1, <3>2, <3>3 DEF Text
    <3>5. Elements'
      BY <1>0, <3>1, <3>2 DEF Elements
    <3> QED BY <2>2, <3>1, <3>4, <3>5, StayGrammar
  <2> QED BY <1>5, <2>1, <2>2 DEF FirstElem, At
<1>b. ASSUME UNCHANGED <<form, elems>>
      PROVE  ListRead' = ListRead /\ BeforeSpec' = BeforeSpec /\ Closing' = Closing
  BY <1>b DEF ListRead, BeforeSpec, Closing
<1>6. CASE MakeRoom
  <2>1. CASE Exit("nomemory")
    BY <2>1, <1>r, ExitGrammar
  <2>2. CASE pc = "room" /\ Goto("spec") /\ UNCHANGED <<cursor, form, elems, min_v, max_v>>
    <3>1. /\ pc' = "spec"
          /\ UNCHANGED <<num_threads, pattern, specs, seen, form, elems, min_v, max_v>>
      BY <2>2 DEF Goto, cursor
    <3>2. Text'
      BY <1>0, <1>b, <2>2, <3>1 DEF Text
    <3>3. Elements'
      BY <1>0, <2>2, <3>1 DEF Elements
    <3> QED BY <2>2, <3>1, <3>2, <3>3, StayGrammar
  <2> QED BY <1>6, <2>1, <2>2 DEF MakeRoom, At, parsed
<1>7. CASE ParseSpec
  <2>0. pc = "spec" /\ seen = BeforeSpec
    BY <1>0, <1>7 DEF ParseSpec, At, Text
  <2>1. CASE Exit("invalid")
    BY <2>1, <1>r, ExitGrammar
  <2>2. CASE look.kind = "(" /\ Advance /\ Goto("min") /\ UNCHANGED parsed
    <3>1. pc' = "min" /\ UNCHANGED <<num_threads, pattern, specs, form, elems, min_v, max_v>>
      BY <2>2 DEF Goto, parsed
    <3>2. seen' = AfterParen'
      BY <1>a, <1>b, <1>t, <2>0, <2>2, <3>1 DEF AfterParen
    <3>3. Text'
      BY <3>1, <3>2 DEF Text
    <3>4. Elements'
      BY <1>0, <2>0, <3>1 DEF Elements
    <3> QED BY <2>0, <2>2, <3>1, <3>3, <3>4, PassGrammar
  <2>3. CASE IsInt /\ Advance /\ Add(FixedSpec(look.val))
    <3> DEFINE s == FixedSpec(look.val)
    <3>1. s \in SpecsWritten
      BY <1>i, <2>3 DEF SpecsWritten
    <3>2. SpecText(s) = <<look>>
      BY <1>i, <2>3 DEF SpecText, FixedSpec
    <3>3. Append(BeforeSpec, look) = BeforeSpec \o <<look>>
      BY <1>0, <1>p, AppendIsConcat
    <3>4. Append(seen, look) = BeforeSpec \o SpecText(s)
      BY <2>0, <3>2, <3>3
    <3>5. look.kind \notin {"nul", "space"}
      BY <1>i, <2>3
    <3> HIDE DEF s
    <3>6. Add(s)
      BY <2>3 DEF s
    <3> QED BY <2>0, <2>3, <3>1, <3>4, <3>5, <3>6, AddGrammar
  <2> QED BY <1>7, <2>1, <2>2, <2>3 DEF ParseSpec
<1>8. CASE ParseMin
  <2>0. pc = "min" /\ seen = AfterParen
    BY <1>0, <1>8 DEF ParseMin, At, Text
  <2>1. CASE Exit("invalid")
    BY <2>1, <1>r, ExitGrammar
  <2>2. CASE /\ IsInt /\ Advance /\ min_v' = look.val /\ Goto("comma")
             /\ UNCHANGED <<form, elems, cap, max_v>>
    <3>1. pc' = "comma" /\ UNCHANGED <<num_threads, pattern, specs, form, elems, max_v>>
      BY <2>2 DEF Goto
    <3>0. look.kind \notin {"nul", "space"}
      BY <1>i, <2>2
    <3>2. seen' = AfterMin'
      <4>1. AfterParen' = AfterParen
        BY <1>b, <3>1 DEF AfterParen
      <4>2. look = Number(min_v')
        BY <1>i, <2>2
      <4> QED BY <1>a, <2>0, <2>2, <3>0, <3>1, <4>1, <4>2 DEF AfterMin
    <3>3. Text'
      BY <3>1, <3>2 DEF Text
    <3>4. Elements'
      BY <1>0, <1>i, <2>0, <2>2, <3>1 DEF Elements
    <3> QED BY <2>0, <2>2, <3>0, <3>1, <3>3, <3>4, PassGrammar
  <2> QED BY <1>8, <2>1, <2>2 DEF ParseMin
<1>9. CASE ParseComma
  <2>0. pc = "comma" /\ seen = AfterMin
    BY <1>0, <1>9 DEF ParseComma, At, Text
  <2>1. CASE Exit("invalid")
    BY <2>1, <1>r, ExitGrammar
  <2>2. CASE look.kind = "," /\ Advance /\ Goto("max") /\ UNCHANGED parsed
    <3>1. pc' = "max" /\ UNCHANGED <<num_threads, pattern, specs, form, elems, min_v, max_v>>
      BY <2>2 DEF Goto, parsed
    <3>2. seen' = AfterComma'
      <4>1. AfterMin' = AfterMin
        BY <1>b, <3>1 DEF AfterMin, AfterParen
      <4> QED BY <1>a, <1>t, <2>0, <2>2, <3>1, <4>1 DEF AfterComma
    <3>3. Text'
      BY <3>1, <3>2 DEF Text
    <3>4. Elements'
      BY <1>0, <2>0, <3>1 DEF Elements
    <3> QED BY <2>0, <2>2, <3>1, <3>3, <3>4, PassGrammar
  <2> QED BY <1>9, <2>1, <2>2 DEF ParseComma
<1>10. CASE ParseMax
  <2>0. pc = "max" /\ seen = AfterComma
    BY <1>0, <1>10 DEF ParseMax, At, Text
  <2>1. CASE Exit("invalid")
    BY <2>1, <1>r, ExitGrammar
  <2>2. CASE /\ IsInt /\ Advance /\ max_v' = look.val /\ Goto("close")
             /\ UNCHANGED <<form, elems, cap, min_v>>
    <3>1. pc' = "close" /\ UNCHANGED <<num_threads, pattern, specs, form, elems, min_v>>
      BY <2>2 DEF Goto
    <3>0. look.kind \notin {"nul", "space"}
      BY <1>i, <2>2
    <3>2. seen' = AfterMax'
      <4>1. AfterComma' = AfterComma
        BY <1>b, <3>1 DEF AfterComma, AfterMin, AfterParen
      <4>2. look = Number(max_v')
        BY <1>i, <2>2
      <4> QED BY <1>a, <2>0, <2>2, <3>0, <3>1, <4>1, <4>2 DEF AfterMax
    <3>3. Text'
      BY <3>1, <3>2 DEF Text
    <3>4. Elements'
      BY <1>0, <1>i, <2>0, <2>2, <3>1 DEF Elements
    <3> QED BY <2>0, <2>2, <3>0, <3>1, <3>3, <3>4, PassGrammar
  <2> QED BY <1>10, <2>1, <2>2 DEF ParseMax
<1>11. CASE ParseClose
  <2>0. pc = "close" /\ seen = AfterMax
    BY <1>0, <1>11 DEF ParseClose, At, Text
  <2>1. CASE Exit("invalid")
    BY <2>1, <1>r, ExitGrammar
  <2>2. CASE look.kind = ")" /\ min_v <= max_v /\ Advance /\ Add(RangeSpec(min_v, max_v))
    <3> DEFINE s == RangeSpec(min_v, max_v)
    <3>1. min_v \in Numbers \cap Sizes /\ max_v \in Numbers \cap Sizes
      BY <1>0, <1>p, <2>0 DEF Elements
    <3>2. s \in SpecsWritten
      <4>1. <<min_v, max_v>> \in {q \in (Numbers \cap Sizes) \X (Numbers \cap Sizes) : q[1] <= q[2]}
        BY <2>2, <3>1
      <4>2. s = RangeSpec(<<min_v, max_v>>[1], <<min_v, max_v>>[2])
        OBVIOUS
      <4> QED BY <4>1, <4>2 DEF SpecsWritten
    <3>3. SpecText(s) = <<Char("("), Number(min_v), Char(","), Number(max_v), Char(")")>>
      BY DEF SpecText, RangeSpec
    <3>4. Number(min_v) \in Chars /\ Number(max_v) \in Chars
      BY <3>1 DEF Chars, Tokens
    <3>5. look = Char(")")
      BY <1>t, <2>2
    <3>6. Append(AfterMax, Char(")"))
            = BeforeSpec \o <<Char("("), Number(min_v), Char(","), Number(max_v), Char(")")>>
      <4>1. PICK q \in Seq(Chars) : q = BeforeSpec
        BY <1>p
      <4>2. PICK a \in Chars, b \in Chars, c \in Chars, d \in Chars, e \in Chars :
              /\ a = Char("(") /\ b = Number(min_v) /\ c = Char(",")
              /\ d = Number(max_v) /\ e = Char(")")
        BY <1>c, <3>4
      <4>3. PICK v, w, x : v = AfterParen /\ w = AfterMin /\ x = AfterComma
        OBVIOUS
      <4>4. PICK y : y = AfterMax
        OBVIOUS
      <4>5. v = Append(q, a) /\ w = Append(v, b) /\ x = Append(w, c) /\ y = Append(x, d)
        BY <4>1, <4>2, <4>3, <4>4 DEF AfterMax, AfterComma, AfterMin, AfterParen
      <4>6. Append(y, e) = q \o <<a, b, c, d, e>>
        <5>1. Append(Append(Append(Append(Append(q, a), b), c), d), e) = q \o <<a, b, c, d, e>>
          BY ONLY q \in Seq(Chars), a \in Chars, b \in Chars, c \in Chars, d \in Chars, e \in Chars, SMTT(30)
        <5> QED BY <4>5, <5>1
      <4> QED BY <4>1, <4>2, <4>4, <4>6
    <3>7. Append(seen, look) = BeforeSpec \o SpecText(s)
      BY <2>0, <3>3, <3>5, <3>6
    <3> HIDE DEF s
    <3>8. Add(s)
      BY <2>2 DEF s
    <3> QED BY <2>0, <2>2, <3>2, <3>7, <3>8, AddGrammar
  <2> QED BY <1>11, <2>1, <2>2 DEF ParseClose
<1>12. CASE AfterElem
  <2>0. pc = "after" /\ seen = ListRead /\ look.kind # "space"
    BY <1>0, <1>12 DEF AfterElem, At, Text
  <2>1. CASE Exit("invalid")
    BY <2>1, <1>r, ExitGrammar
  <2>2. CASE form = "one" /\ Deliver
    BY <2>0, <2>2, DeliverGrammar
  <2>3. CASE form # "one" /\ look.kind = "," /\ Advance /\ Goto("room") /\ UNCHANGED parsed
    <3>1. pc' = "room" /\ UNCHANGED <<num_threads, pattern, specs, form, elems, min_v, max_v>>
      BY <2>3 DEF Goto, parsed
    <3>2. elems # <<>>
      BY <2>0, EmptySeq DEF IInv, Shape
    <3>3. seen' = BeforeSpec'
      <4>1. seen' = Append(ListRead, Char(","))
        BY <1>a, <1>t, <2>0, <2>3, <3>1
      <4>2. BeforeSpec = ListRead \o <<Char(",")>>
        BY <3>2 DEF BeforeSpec, Separator
      <4> QED BY <1>b, <1>c, <1>p, <3>1, <4>1, <4>2, AppendIsConcat
    <3>4. Text'
      BY <3>1, <3>3 DEF Text
    <3>5. Elements'
      BY <1>0, <2>3, <3>1 DEF Elements
    <3> QED BY <2>0, <2>3, <3>1, <3>4, <3>5, PassGrammar
  <2>4. CASE form # "one" /\ Closes /\ Advance /\ Goto("end") /\ UNCHANGED parsed
    <3>1. pc' = "end" /\ UNCHANGED <<num_threads, pattern, specs, form, elems, min_v, max_v>>
      BY <2>4 DEF Goto, parsed
    <3>0. look = Closing /\ look.kind \notin {"nul", "space"}
      BY <1>t, <2>4 DEF Closes, Closing
    <3>2. seen' = Append(ListRead, Closing)'
      BY <1>a, <1>b, <2>0, <2>4, <3>0, <3>1
    <3>3. Text'
      BY <2>4, <3>1, <3>2 DEF Text
    <3>4. Elements'
      BY <1>0, <2>4, <3>1 DEF Elements
    <3> QED BY <2>0, <2>4, <3>0, <3>1, <3>3, <3>4, PassGrammar
  <2> QED BY <1>12, <2>1, <2>2, <2>3, <2>4 DEF AfterElem
<1>13. CASE AfterList
  <2>0. pc = "end" /\ form # "one"
    BY <1>0, <1>13 DEF AfterList, At, Text
  <2>1. CASE Exit("invalid")
    BY <2>1, <1>r, ExitGrammar
  <2>2. CASE (form = "{" => Len(elems) = num_threads) /\ Deliver
    BY <2>0, <2>2, DeliverGrammar
  <2> QED BY <1>13, <2>1, <2>2 DEF AfterList
<1>14. CASE UNCHANGED vars
  <2>1. /\ UNCHANGED <<pc, num_threads, pattern, look, seen, length>>
        /\ UNCHANGED <<form, elems, min_v, max_v, specs>>
    BY <1>14 DEF vars, cursor, parsed
  <2>2. Text'
    <3>1. UNCHANGED <<ListRead, BeforeSpec, Closing, AfterParen, AfterMin, AfterComma, AfterMax>>
      BY <2>1 DEF ListRead, BeforeSpec, Closing, AfterParen, AfterMin, AfterComma, AfterMax
    <3> QED BY <1>0, <2>1, <3>1 DEF Text
  <2>3. Elements' /\ Meaning'
    BY <1>0, <2>1 DEF Elements, Meaning
  <2>4. Lengths'
    BY <1>0, <2>1 DEF Lengths
  <2> QED BY <2>2, <2>3, <2>4 DEF Grammar
<1> QED BY <1>1, <1>2, <1>3, <1>4, <1>5, <1>6, <1>7, <1>8, <1>9, <1>10, <1>11,
           <1>12, <1>13, <1>14 DEF Next

(* What is documented for n threads: a spec, a list, an explicit list. *)
LEMMA DocumentedFor ==
  ASSUME NEW n \in 1 .. MaxThreads
  PROVE  /\ \A s \in SpecsWritten :
              <<SpecText(s), [t \in 0 .. n - 1 |-> s]>> \in Documented[n]
         /\ \A l \in Lists :
              <<<<Char("[")>> \o ListText(l) \o <<Char("]")>>,
                [t \in 0 .. n - 1 |-> l[(t % Len(l)) + 1]]>> \in Documented[n]
         /\ \A l \in Lists : Len(l) = n =>
              <<<<Char("{")>> \o ListText(l) \o <<Char("}")>>,
                [t \in 0 .. n - 1 |-> l[t + 1]]>> \in Documented[n]
BY DEF Documented

(* The pattern without brackets is one spec, for every thread. *)
LEMMA OneDocumented ==
  ASSUME IInv, Grammar, pc = "done", form = "one"
  PROVE  <<seen, specs["deq"]>> \in Documented[num_threads]
<1>1. /\ elems \in Seq(SpecsWritten) /\ Len(elems) = 1 /\ seen = ListRead
      /\ specs["deq"] = [t \in 0 .. num_threads - 1 |-> elems[(t % Len(elems)) + 1]]
      /\ num_threads \in 1 .. MaxThreads
  BY DEF Grammar, Text, Elements, Lengths, Meaning
<1>2. PICK s \in SpecsWritten : s = elems[1]
  BY <1>1
<1>3. elems = <<s>>
  BY <1>1, <1>2
<1>4. SpecText(s) \in Seq(Chars)
  BY SpecTextType
<1>5. seen = SpecText(s)
  <2>1. ListRead = <<>> \o ListText(elems) /\ ListText(elems) = SpecText(s)
    BY <1>3, ListTextShort DEF ListRead
  <2> QED BY <1>1, <1>4, <2>1, ConcatEmptySeq
<1>6. specs["deq"] = [t \in 0 .. num_threads - 1 |-> s]
  <2>1. num_threads \in Int
    BY <1>1
  <2>2. \A t \in 0 .. num_threads - 1 : (t % 1) + 1 = 1
    BY <2>1, SMT
  <2> QED BY <1>1, <1>2, <2>2
<1> QED BY <1>1, <1>5, <1>6, DocumentedFor

(* A list fits into the pattern, and is therefore one of Lists. *)
LEMMA ListFits ==
  ASSUME IInv, Grammar, pc = "done", form # "one"
  PROVE  /\ elems \in Lists
         /\ seen = (<<Char(form)>> \o ListText(elems)) \o <<Closing>>
<1>1. /\ elems \in Seq(SpecsWritten) /\ Len(elems) > 0 /\ seen = Append(ListRead, Closing)
      /\ Len(seen) <= length /\ length <= MaxLen["deq"] /\ length \in Nat
      /\ 2 * Len(elems) <= Len(ListText(elems)) + 1
      /\ form \in {"one", "[", "{"}
  BY DEF Grammar, Text, Elements, Lengths, Meaning, IInv, TypeOK
<1>2. /\ ListText(elems) \in Seq(Chars) /\ ListRead \in Seq(Chars)
      /\ Len(ListRead) = Len(ListText(elems)) + 1
  BY <1>1, ReadTypes
<1>3. Closing \in Chars
  BY DEF Closing, Chars, Tokens
<1>4. /\ seen = ListRead \o <<Closing>> /\ Len(seen) = Len(ListRead) + 1
  BY <1>1, <1>2, <1>3, AppendIsConcat, AppendProperties
<1>5. ListRead = <<Char(form)>> \o ListText(elems)
  BY DEF ListRead
<1>6. PICK n \in Nat : n = Len(ListText(elems))
  BY <1>2, LenProperties
<1>7. PICK k \in Nat : k = Len(elems)
  BY <1>1, LenProperties
<1>8. /\ MaxElems \in Nat /\ MaxLen["deq"] \in Nat /\ MaxLen["deq"] <= 2 * MaxElems + 2
  BY GrammarAssumption, BatchSpecAssumption DEF GrammarAssumption, BatchSpecAssumption, Patterns
<1>9. n + 2 <= MaxLen["deq"]
  <2>1. Len(seen) = (n + 1) + 1
    BY <1>2, <1>4, <1>6
  <2>2. (n + 1) + 1 <= length /\ length <= MaxLen["deq"] /\ length \in Nat
    BY <1>1, <2>1
  <2>3. MaxLen["deq"] \in Nat
    BY <1>8
  <2> QED BY ONLY <2>2, <2>3, n \in Nat
<1>10. k \in 1 .. MaxElems
  <2>1. k > 0 /\ 2 * k <= n + 1
    BY <1>1, <1>6, <1>7
  <2> QED BY ONLY <1>8, <1>9, <2>1, n \in Nat, k \in Nat
<1>11. elems \in [1 .. k -> SpecsWritten]
  BY <1>1, <1>7, LenProperties
<1>12. elems \in Lists
  <2>1. \E j \in 1 .. MaxElems : elems \in [1 .. j -> SpecsWritten]
    BY <1>10, <1>11
  <2>2. elems \in UNION {[1 .. j -> SpecsWritten] : j \in 1 .. MaxElems}
    BY <2>1
  <2>3. Len(ListText(elems)) + 2 <= MaxLen["deq"]
    BY <1>6, <1>9
  <2> QED BY <2>2, <2>3 DEF Lists
<1> QED BY <1>4, <1>5, <1>12

(* A list is taken in turns, an explicit list thread by thread. *)
LEMMA ListDocumented ==
  ASSUME IInv, Grammar, pc = "done", form # "one"
  PROVE  <<seen, specs["deq"]>> \in Documented[num_threads]
<1>1. /\ form \in {"one", "[", "{"} /\ Len(elems) > 0
      /\ form = "{" => Len(elems) = num_threads
      /\ specs["deq"] = [t \in 0 .. num_threads - 1 |-> elems[(t % Len(elems)) + 1]]
      /\ num_threads \in 1 .. MaxThreads
  BY DEF Grammar, Lengths, Meaning, IInv, TypeOK
<1>2. /\ elems \in Lists
      /\ seen = (<<Char(form)>> \o ListText(elems)) \o <<Closing>>
  BY ListFits
<1>3. CASE form = "["
  <2>1. seen = <<Char("[")>> \o ListText(elems) \o <<Char("]")>>
    BY <1>2, <1>3 DEF Closing
  <2> QED BY <1>1, <1>2, <2>1, DocumentedFor
<1>4. CASE form = "{"
  <2>1. seen = <<Char("{")>> \o ListText(elems) \o <<Char("}")>>
    BY <1>2, <1>4 DEF Closing
  <2>2. \A t \in 0 .. num_threads - 1 : t % num_threads = t
    <3>1. num_threads \in Nat \ {0}
      <4>1. MaxThreads \in Nat
        BY BatchSpecAssumption DEF BatchSpecAssumption
      <4>2. num_threads \in 1 .. MaxThreads
        BY <1>1
      <4> QED BY ONLY <4>1, <4>2
    <3> QED BY <3>1, SMT
  <2>3. Len(elems) = num_threads
    BY <1>1, <1>4
  <2>4. specs["deq"] = [t \in 0 .. num_threads - 1 |-> elems[t + 1]]
    BY <1>1, <2>2, <2>3
  <2> QED BY <1>1, <1>2, <2>1, <2>3, <2>4, DocumentedFor
<1> QED BY <1>1, <1>3, <1>4

(* "Batch size specification forms" (bench.c:224): whatever the string and  *)
(* the number of threads, a pattern that is accepted is a documented one,   *)
(* and every thread gets the spec that the documentation gives it.          *)
THEOREM AcceptedIsDocumented == Spec => []AcceptsDocumented
<1>1. IInv /\ Grammar => AcceptsDocumented
  BY OneDocumented, ListDocumented DEF AcceptsDocumented
<1>2. Spec => [](IInv /\ Grammar)
  BY InitInvariant, NextInvariant, InitGrammar, NextGrammar, PTL DEF Spec
<1> QED BY <1>1, <1>2, PTL

-----------------------------------------------------------------------------
(* What a pattern is made of, and its text. *)
Opening(f) == IF f = "one" THEN <<>> ELSE <<Char(f)>>
Ending(f)  == IF f = "one" THEN <<>> ELSE <<Char(IF f = "[" THEN "]" ELSE "}")>>

Written ==
  {w \in [form : {"one", "[", "{"}, elems : Seq(SpecsWritten)] :
     w.elems # <<>> /\ (w.form = "one" => Len(w.elems) = 1)}

TextOf(w) == (Opening(w.form) \o ListText(w.elems)) \o Ending(w.form)

(* The sequence x begins with s. *)
Begins(s, x) == Len(s) <= Len(x) /\ \A i \in 1 .. Len(s) : x[i] = s[i]

(* Sequences begin with themselves, with what they have been put together   *)
(* from, and with the beginnings of that.                                   *)
LEMMA BeginsConcat ==
  ASSUME NEW S, NEW x \in Seq(S), NEW y \in Seq(S)
  PROVE  Begins(x, x) /\ Begins(x, x \o y)
<1>1. Len(x) \in Nat /\ Len(y) \in Nat
  BY LenProperties
<1>2. /\ Len(x \o y) = Len(x) + Len(y)
      /\ \A i \in 1 .. Len(x) : (x \o y)[i] = x[i]
  BY ConcatProperties
<1> QED BY <1>1, <1>2 DEF Begins

LEMMA BeginsTrans ==
  ASSUME NEW S, NEW x \in Seq(S), NEW y \in Seq(S), NEW z \in Seq(S),
         Begins(x, y), Begins(y, z)
  PROVE  Begins(x, z)
<1>1. Len(x) \in Nat /\ Len(y) \in Nat /\ Len(z) \in Nat
  BY LenProperties
<1>2. Len(x) <= Len(y) /\ Len(y) <= Len(z)
  BY DEF Begins
<1>3. \A i \in 1 .. Len(x) : i \in 1 .. Len(y)
  BY <1>1, <1>2
<1> QED BY <1>1, <1>2, <1>3 DEF Begins

LEMMA BeginsBehind ==
  ASSUME NEW S, NEW o \in Seq(S), NEW x \in Seq(S), NEW y \in Seq(S), Begins(x, y)
  PROVE  Begins(o \o x, o \o y)
<1>1. Len(o) \in Nat /\ Len(x) \in Nat /\ Len(y) \in Nat /\ Len(x) <= Len(y)
      /\ \A i \in 1 .. Len(x) : y[i] = x[i]
  BY LenProperties DEF Begins
<1>2. /\ Len(o \o x) = Len(o) + Len(x) /\ Len(o \o y) = Len(o) + Len(y)
      /\ \A i \in 1 .. Len(o) + Len(x) :
           (o \o x)[i] = IF i <= Len(o) THEN o[i] ELSE x[i - Len(o)]
      /\ \A i \in 1 .. Len(o) + Len(y) :
           (o \o y)[i] = IF i <= Len(o) THEN o[i] ELSE y[i - Len(o)]
  BY ConcatProperties
<1>3. \A i \in 1 .. Len(o) + Len(x) : (o \o y)[i] = (o \o x)[i]
  <2> TAKE i \in 1 .. Len(o) + Len(x)
  <2>1. i \in 1 .. Len(o) + Len(y)
    BY <1>1
  <2>2. ~(i <= Len(o)) => i - Len(o) \in 1 .. Len(x)
    BY <1>1
  <2> QED BY <1>1, <1>2, <2>1, <2>2
<1> QED BY <1>1, <1>2, <1>3 DEF Begins

(* What comes behind a beginning. *)
LEMMA BeginsAppend ==
  ASSUME NEW S, NEW s \in Seq(S), NEW c \in S, NEW x \in Seq(S)
  PROVE  Begins(Append(s, c), x) <=>
           Begins(s, x) /\ Len(s) < Len(x) /\ x[Len(s) + 1] = c
<1>1. Len(s) \in Nat /\ Len(x) \in Nat
  BY LenProperties
<1>2. PICK q : q = Append(s, c)
  OBVIOUS
<1>3. /\ Len(q) = Len(s) + 1 /\ q[Len(s) + 1] = c
      /\ \A i \in 1 .. Len(s) : q[i] = s[i]
  BY <1>2, AppendProperties
<1>4. \A i \in 1 .. Len(s) + 1 : i \in 1 .. Len(s) \/ i = Len(s) + 1
  BY <1>1
<1>5. \A i \in 1 .. Len(s) : i \in 1 .. Len(s) + 1
  BY <1>1
<1>6. Len(s) + 1 \in 1 .. Len(s) + 1
  BY <1>1
<1>7. Begins(q, x) => Begins(s, x) /\ Len(s) < Len(x) /\ x[Len(s) + 1] = c
  BY <1>1, <1>3, <1>5, <1>6 DEF Begins
<1>8. Begins(s, x) /\ Len(s) < Len(x) /\ x[Len(s) + 1] = c => Begins(q, x)
  BY <1>1, <1>3, <1>4 DEF Begins
<1> QED BY <1>2, <1>7, <1>8

(* A beginning of the same length is all. *)
LEMMA BeginsAll ==
  ASSUME NEW S, NEW s \in Seq(S), NEW x \in Seq(S), Begins(s, x), Len(s) = Len(x)
  PROVE  s = x
<1>1. /\ s = [i \in 1 .. Len(s) |-> s[i]] /\ x = [i \in 1 .. Len(x) |-> x[i]]
  OBVIOUS
<1> QED BY <1>1 DEF Begins

(* A beginning is a part of the list from its first element on. *)
LEMMA BeginsSub ==
  ASSUME NEW S, NEW l \in Seq(S), NEW k \in 0 .. Len(l)
  PROVE  /\ SubSeq(l, 1, k) \in Seq(S) /\ Len(SubSeq(l, 1, k)) = k
         /\ Begins(SubSeq(l, 1, k), l)
         /\ k < Len(l) => SubSeq(l, 1, k + 1) = Append(SubSeq(l, 1, k), l[k + 1])
<1>1. Len(l) \in Nat /\ k \in Nat /\ k <= Len(l)
  BY LenProperties
<1>2. ASSUME NEW j \in 0 .. Len(l)
      PROVE  /\ SubSeq(l, 1, j) = [i \in 1 .. j |-> l[i]]
             /\ SubSeq(l, 1, j) \in Seq(S) /\ Len(SubSeq(l, 1, j)) = j
             /\ \A i \in 1 .. j : l[i] \in S
  <2>1. j \in Nat /\ j <= Len(l)
    BY <1>1
  <2>2. SubSeq(l, 1, j) = [i \in 1 .. j |-> l[i]]
    BY <2>1
  <2>3. \A i \in 1 .. j : l[i] \in S
    BY <1>1, <2>1
  <2>4. [i \in 1 .. j |-> l[i]] \in Seq(S)
    BY <2>1, <2>3
  <2> QED BY <2>1, <2>2, <2>3, <2>4
<1>3. Begins(SubSeq(l, 1, k), l)
  BY <1>1, <1>2 DEF Begins
<1>4. ASSUME k < Len(l)
      PROVE  SubSeq(l, 1, k + 1) = Append(SubSeq(l, 1, k), l[k + 1])
  <2>1. k + 1 \in 0 .. Len(l) /\ l[k + 1] \in S
    BY <1>1, <1>4
  <2>2. SubSeq(l, 1, k + 1) = [i \in 1 .. k + 1 |-> l[i]]
    BY <1>2, <2>1
  <2>3. PICK q \in Seq(S) : q = SubSeq(l, 1, k) /\ Len(q) = k /\ q = [i \in 1 .. k |-> l[i]]
    BY <1>2
  <2>4. /\ Append(q, l[k + 1]) \in Seq(S) /\ Len(Append(q, l[k + 1])) = k + 1
        /\ \A i \in 1 .. k : Append(q, l[k + 1])[i] = q[i]
        /\ Append(q, l[k + 1])[k + 1] = l[k + 1]
    BY <2>1, <2>3, AppendProperties
  <2>5. Append(q, l[k + 1]) = [i \in 1 .. k + 1 |-> Append(q, l[k + 1])[i]]
    BY <2>4
  <2>6. \A i \in 1 .. k + 1 : Append(q, l[k + 1])[i] = l[i]
    <3>1. \A i \in 1 .. k + 1 : i \in 1 .. k \/ i = k + 1
      BY <1>1
    <3> QED BY <2>3, <2>4, <3>1
  <2> QED BY <2>2, <2>3, <2>5, <2>6
<1> QED BY <1>2, <1>3, <1>4

(* What separates elements. *)
LEMMA SeparatorType ==
  ASSUME NEW l
  PROVE  Separator(l) \in Seq(Chars)
<1>1. Char(",") \in Chars
  BY DEF Chars, Tokens
<1> QED BY <1>1, ShortSeqs DEF Separator

(* The text of a list, and of what separates it from the next element. *)
LEMMA ListTextType ==
  ASSUME NEW l \in Seq(SpecsWritten)
  PROVE  ListText(l) \in Seq(Chars)
<1>1. CASE l = <<>>
  <2>1. Char(",") \in Chars
    BY DEF Chars, Tokens
  <2> QED BY <1>1, <2>1, ShortSeqs, ListTextShort
<1>2. CASE l # <<>>
  <2>1. PICK k \in Seq(SpecsWritten), s \in SpecsWritten : l = Append(k, s)
    BY <1>2, SequenceEmptyOrAppend
  <2>2. Separator(k) \in Seq(Chars)
    BY SeparatorType
  <2> QED BY <2>1, <2>2, ListTextAppend, SpecTextType, ConcatProperties
<1> QED BY <1>1, <1>2

(* The text of a list begins with those of its beginnings. *)
LEMMA TextBegins ==
  ASSUME NEW l \in Seq(SpecsWritten), NEW k \in 0 .. Len(l)
  PROVE  /\ ListText(l) \in Seq(Chars) /\ ListText(SubSeq(l, 1, k)) \in Seq(Chars)
         /\ Begins(ListText(SubSeq(l, 1, k)), ListText(l))
<1>1. Len(l) \in Nat
  BY LenProperties
<1>2. ASSUME NEW j \in Seq(SpecsWritten) PROVE ListText(j) \in Seq(Chars)
  BY <1>2, ListTextType
<1> DEFINE S == {j \in Nat : j <= Len(l) =>
                   Begins(ListText(SubSeq(l, 1, Len(l) - j)), ListText(l))}
<1>3. 0 \in S
  <2>1. SubSeq(l, 1, Len(l)) = l
    BY <1>1
  <2>2. Len(l) - 0 = Len(l)
    BY <1>1
  <2> QED BY <1>2, <2>1, <2>2, BeginsConcat
<1>4. ASSUME NEW j \in Nat, j \in S PROVE j + 1 \in S
  <2> SUFFICES ASSUME j + 1 <= Len(l)
               PROVE  Begins(ListText(SubSeq(l, 1, Len(l) - (j + 1))), ListText(l))
    OBVIOUS
  <2>0. PICK m : m = Len(l) - (j + 1)
    OBVIOUS
  <2>1. m \in 0 .. Len(l) /\ m < Len(l) /\ m + 1 = Len(l) - j /\ j <= Len(l)
    BY <1>1, <2>0
  <2>2. Begins(ListText(SubSeq(l, 1, m + 1)), ListText(l))
    BY <1>4, <2>1
  <2>3. /\ SubSeq(l, 1, m) \in Seq(SpecsWritten)
        /\ SubSeq(l, 1, m + 1) = Append(SubSeq(l, 1, m), l[m + 1])
        /\ l[m + 1] \in SpecsWritten
    BY <1>1, <2>1, BeginsSub
  <2>4. PICK t \in Seq(Chars) : t = ListText(SubSeq(l, 1, m))
    BY <1>2, <2>3
  <2>5. PICK r \in Seq(Chars) : r = Separator(SubSeq(l, 1, m)) \o SpecText(l[m + 1])
    <3>1. Separator(SubSeq(l, 1, m)) \in Seq(Chars)
      BY SeparatorType
    <3> QED BY <2>3, <3>1, SpecTextType, ConcatProperties
  <2>6. ListText(SubSeq(l, 1, m + 1)) = t \o r
    BY <2>3, <2>4, <2>5, ListTextAppend
  <2>7. Begins(t, t \o r) /\ t \o r \in Seq(Chars)
    BY BeginsConcat, ConcatProperties
  <2>8. Begins(t, ListText(l))
    BY <1>2, <2>2, <2>6, <2>7, BeginsTrans
  <2> QED BY <2>0, <2>4, <2>8
<1>5. Nat \subseteq S
  <2> HIDE DEF S
  <2> QED BY <1>3, <1>4, NatSetInduction
<1>6. Len(l) - k \in Nat /\ Len(l) - k <= Len(l) /\ Len(l) - (Len(l) - k) = k
  BY <1>1
<1>7. Begins(ListText(SubSeq(l, 1, k)), ListText(l))
  BY <1>5, <1>6
<1> QED BY <1>2, <1>7, BeginsSub

(* A sequence that is not empty has an element. *)
LEMMA NotEmpty ==
  ASSUME NEW S, NEW s \in Seq(S), s # <<>>
  PROVE  Len(s) \in Nat /\ Len(s) > 0
OBVIOUS

(* The pieces of a pattern. *)
LEMMA PatternPieces ==
  ASSUME NEW w \in Written
  PROVE  /\ w.form \in {"one", "[", "{"} /\ w.elems \in Seq(SpecsWritten)
         /\ Len(w.elems) \in Nat /\ Len(w.elems) > 0
         /\ w.form = "one" => Len(w.elems) = 1
         /\ Opening(w.form) \in Seq(Chars) /\ Ending(w.form) \in Seq(Chars)
         /\ ListText(w.elems) \in Seq(Chars) /\ TextOf(w) \in Seq(Chars)
         /\ Begins(Opening(w.form) \o ListText(w.elems), TextOf(w))
<1>1. /\ w.form \in {"one", "[", "{"} /\ w.elems \in Seq(SpecsWritten)
      /\ w.elems # <<>>
      /\ w.form = "one" => Len(w.elems) = 1
  BY DEF Written
<1>2. Len(w.elems) \in Nat /\ Len(w.elems) > 0
  BY <1>1, NotEmpty
<1>3. Opening(w.form) \in Seq(Chars)
  <2>1. Char("[") \in Chars /\ Char("{") \in Chars
    BY DEF Chars, Tokens
  <2> QED BY <1>1, <2>1, ShortSeqs DEF Opening
<1>4. Ending(w.form) \in Seq(Chars)
  <2>1. Char("]") \in Chars /\ Char("}") \in Chars
    BY DEF Chars, Tokens
  <2> QED BY <1>1, <2>1, ShortSeqs DEF Ending
<1>5. ListText(w.elems) \in Seq(Chars)
  BY <1>1, ListTextType
<1>6. Opening(w.form) \o ListText(w.elems) \in Seq(Chars)
  BY <1>3, <1>5, ConcatProperties
<1>7. TextOf(w) \in Seq(Chars)
  BY <1>4, <1>6, ConcatProperties DEF TextOf
<1>8. Begins(Opening(w.form) \o ListText(w.elems), TextOf(w))
  BY <1>4, <1>6, BeginsConcat DEF TextOf
<1> QED BY <1>1, <1>2, <1>3, <1>4, <1>5, <1>7, <1>8

(* As long as the elements parsed are the first of a pattern, the text of   *)
(* its next one comes after what stands before it.                          *)
LEMMA NextElement ==
  ASSUME NEW w \in Written, form = w.form, elems \in Seq(SpecsWritten),
         Begins(elems, w.elems), Len(elems) < Len(w.elems),
         NEW s, s = w.elems[Len(elems) + 1]
  PROVE  /\ s \in SpecsWritten /\ BeforeSpec \in Seq(Chars)
         /\ Begins(BeforeSpec \o SpecText(s), TextOf(w))
<1>1. /\ form \in {"one", "[", "{"} /\ w.elems \in Seq(SpecsWritten)
      /\ Len(w.elems) \in Nat /\ ListText(w.elems) \in Seq(Chars)
      /\ TextOf(w) \in Seq(Chars)
  BY PatternPieces
<1>2. PICK k : k = Len(elems)
  OBVIOUS
<1>a. k \in 0 .. Len(w.elems) /\ k + 1 \in 0 .. Len(w.elems) /\ k + 1 \in 1 .. Len(w.elems)
      /\ k < Len(w.elems)
  <2>1. k \in Nat
    BY <1>2, LenProperties
  <2>2. PICK n \in Nat : n = Len(w.elems)
    BY <1>1
  <2>3. k < n
    BY <1>2, <2>2
  <2>4. k \in 0 .. n /\ k + 1 \in 0 .. n /\ k + 1 \in 1 .. n
    BY ONLY <2>1, <2>3, n \in Nat
  <2> QED BY ONLY <2>2, <2>3, <2>4
<1>3. s \in SpecsWritten
  <2>1. PICK l \in Seq(SpecsWritten) : l = w.elems
    BY <1>1
  <2>2. k + 1 \in 1 .. Len(l)
    BY <1>a, <2>1
  <2>3. l[k + 1] \in SpecsWritten
    BY ONLY <2>2, l \in Seq(SpecsWritten)
  <2> QED BY <1>2, <2>1, <2>3
<1>4. elems = SubSeq(w.elems, 1, k)
  <2>1. PICK q \in Seq(SpecsWritten) : q = SubSeq(w.elems, 1, k) /\ Len(q) = k /\ Begins(q, w.elems)
    BY <1>1, <1>a, BeginsSub
  <2>2. Begins(elems, q)
    BY <1>2, <2>1 DEF Begins
  <2> QED BY <1>2, <2>1, <2>2, BeginsAll
<1>5. Append(elems, s) = SubSeq(w.elems, 1, k + 1)
  BY <1>1, <1>2, <1>a, <1>4, BeginsSub
<1>6. Begins(ListText(Append(elems, s)), ListText(w.elems))
  BY <1>1, <1>a, <1>5, TextBegins
<1>7. PICK t \in Seq(Chars), r \in Seq(Chars), u \in Seq(Chars) :
        t = ListText(elems) /\ r = Separator(elems) /\ u = SpecText(s)
  BY <1>3, ListTextType, SeparatorType, SpecTextType
<1>8. PICK o \in Seq(Chars) : o = Opening(form)
  BY PatternPieces
<1>9. PICK q \in Seq(Chars) : q = r \o u
  BY ConcatProperties
<1>10. Begins(t \o q, ListText(w.elems)) /\ t \o q \in Seq(Chars)
  BY <1>3, <1>6, <1>7, <1>9, ListTextAppend, ConcatProperties
<1>11. Begins(o \o (t \o q), o \o ListText(w.elems))
  BY <1>1, <1>10, BeginsBehind
<1>12. /\ o \o (t \o q) \in Seq(Chars) /\ o \o ListText(w.elems) \in Seq(Chars)
       /\ Begins(o \o ListText(w.elems), TextOf(w))
  BY <1>1, <1>8, <1>10, PatternPieces, ConcatProperties
<1>13. Begins(o \o (t \o q), TextOf(w))
  BY <1>1, <1>11, <1>12, BeginsTrans
<1>14. /\ ListRead = o \o t /\ BeforeSpec = ListRead \o r
       /\ o \o t \in Seq(Chars) /\ (o \o t) \o r \in Seq(Chars)
  BY <1>7, <1>8, ConcatProperties DEF ListRead, BeforeSpec, Opening
<1>15. BeforeSpec \o u = o \o (t \o q)
  <2>1. PICK l \in Seq(Chars) : l = o \o t
    BY <1>14
  <2>2. \A y, z : y = l \o r /\ z = r \o u => y \o u = l \o z
    BY ONLY ConcatThree, l \in Seq(Chars), r \in Seq(Chars), u \in Seq(Chars), SMTT(20)
  <2>3. \A y, z : y = o \o t /\ z = t \o q => y \o q = o \o z
    BY ONLY ConcatThree, o \in Seq(Chars), t \in Seq(Chars), q \in Seq(Chars), SMTT(20)
  <2>4. BeforeSpec \o u = l \o q
    BY ONLY <1>9, <1>14, <2>1, <2>2
  <2> QED BY ONLY <2>1, <2>3, <2>4
<1> QED BY <1>3, <1>7, <1>13, <1>14, <1>15

(* Behind m tokens x has those of s. *)
SpecAt(s, m, x) ==
  /\ s.kind = "fixed" => Len(x) >= m + 1 /\ x[m + 1] = Number(s.min)
  /\ s.kind # "fixed" =>
       /\ Len(x) >= m + 5
       /\ x[m + 1] = Char("(") /\ x[m + 2] = Number(s.min)
       /\ x[m + 3] = Char(",") /\ x[m + 4] = Number(s.max)
       /\ x[m + 5] = Char(")")

(* The tokens of the next element, one after the other. *)
LEMMA NextTokens ==
  ASSUME NEW w \in Written, form = w.form, elems \in Seq(SpecsWritten),
         Begins(elems, w.elems), Len(elems) < Len(w.elems),
         NEW s, s = w.elems[Len(elems) + 1],
         NEW m, m = Len(BeforeSpec), NEW x, x = TextOf(w)
  PROVE  m \in Nat /\ Len(x) \in Nat /\ SpecAt(s, m, x)
<1>1. /\ s \in SpecsWritten /\ BeforeSpec \in Seq(Chars) /\ x \in Seq(Chars)
      /\ Begins(BeforeSpec \o SpecText(s), x)
  BY NextElement, PatternPieces
<1>2. PICK b \in Seq(Chars), u \in Seq(Chars) : b = BeforeSpec /\ u = SpecText(s)
  BY <1>1, SpecTextType
<1>3. m \in Nat /\ Len(x) \in Nat /\ Len(u) \in Nat
  BY <1>1, <1>2, LenProperties
<1>4. /\ Len(b \o u) = m + Len(u)
      /\ \A i \in 1 .. m + Len(u) : (b \o u)[i] = IF i <= m THEN b[i] ELSE u[i - m]
  BY <1>2, ConcatProperties
<1>5. Begins(b \o u, x)
  BY <1>1, <1>2
<1>6. /\ m + Len(u) <= Len(x)
      /\ \A i \in 1 .. m + Len(u) : x[i] = IF i <= m THEN b[i] ELSE u[i - m]
  BY ONLY <1>4, <1>5 DEF Begins
<1>7. \A j \in 1 .. Len(u) : x[m + j] = u[j]
  <2> TAKE j \in 1 .. Len(u)
  <2>1. m + j \in 1 .. m + Len(u) /\ ~(m + j <= m) /\ (m + j) - m = j
    BY <1>3
  <2> QED BY <1>6, <2>1
<1>8. CASE s.kind = "fixed"
  <2>1. Len(u) = 1 /\ u[1] = Number(s.min)
    BY <1>2, <1>8 DEF SpecText
  <2> QED BY <1>3, <1>6, <1>7, <1>8, <2>1 DEF SpecAt
<1>9. CASE s.kind # "fixed"
  <2>1. PICK a, c, d, e, f : /\ a = Char("(") /\ c = Number(s.min) /\ d = Char(",")
                             /\ e = Number(s.max) /\ f = Char(")")
    OBVIOUS
  <2>2. u = <<a, c, d, e, f>>
    BY <1>2, <1>9, <2>1 DEF SpecText
  <2>3. Len(u) = 5 /\ u[1] = a /\ u[2] = c /\ u[3] = d /\ u[4] = e /\ u[5] = f
    BY ONLY <2>2
  <2>4. x[m + 1] = a /\ x[m + 2] = c /\ x[m + 3] = d /\ x[m + 4] = e /\ x[m + 5] = f
    BY ONLY <1>7, <2>3
  <2> QED BY <1>3, <1>6, <1>9, <2>1, <2>3, <2>4 DEF SpecAt
<1> QED BY <1>8, <1>9

(* Behind an element comes the next one, after a comma, or the end. *)
LEMMA BehindElement ==
  ASSUME NEW w \in Written, form = w.form, elems \in Seq(SpecsWritten), elems # <<>>,
         Begins(elems, w.elems), NEW x, x = TextOf(w)
  PROVE  /\ Len(elems) < Len(w.elems) =>
              Len(x) > Len(ListRead) /\ x[Len(ListRead) + 1] = Char(",")
         /\ Len(elems) = Len(w.elems) =>
              elems = w.elems /\ x = IF form = "one" THEN ListRead ELSE Append(ListRead, Closing)
<1>1. /\ form \in {"one", "[", "{"} /\ w.elems \in Seq(SpecsWritten)
      /\ ListText(w.elems) \in Seq(Chars) /\ TextOf(w) \in Seq(Chars)
      /\ ListRead \in Seq(Chars)
  BY PatternPieces, ReadTypes
<1>2. ASSUME Len(elems) < Len(w.elems)
      PROVE  Len(x) > Len(ListRead) /\ x[Len(ListRead) + 1] = Char(",")
  <2>1. PICK s : s = w.elems[Len(elems) + 1]
    OBVIOUS
  <2>2. /\ s \in SpecsWritten /\ BeforeSpec \in Seq(Chars)
        /\ Begins(BeforeSpec \o SpecText(s), x)
    BY <1>2, <2>1, NextElement
  <2>3. PICK u \in Seq(Chars) : u = SpecText(s)
    BY <2>2, SpecTextType
  <2>4. Begins(BeforeSpec, x)
    <3>1. Begins(BeforeSpec, BeforeSpec \o u) /\ BeforeSpec \o u \in Seq(Chars)
      BY <2>2, BeginsConcat, ConcatProperties
    <3> QED BY <1>1, <2>2, <2>3, <3>1, BeginsTrans
  <2>5. PICK c \in Chars : c = Char(",")
    BY DEF Chars, Tokens
  <2>6. PICK r \in Seq(Chars) : r = ListRead
    BY <1>1
  <2>7. BeforeSpec = Append(r, c)
    <3>1. BeforeSpec = r \o <<c>>
      BY <2>5, <2>6 DEF BeforeSpec, Separator
    <3> QED BY <3>1, AppendIsConcat
  <2>8. PICK y \in Seq(Chars) : y = x
    BY <1>1
  <2>9. Begins(Append(r, c), y)
    BY <2>4, <2>7, <2>8
  <2>10. Len(r) < Len(y) /\ y[Len(r) + 1] = c
    BY ONLY <2>9, BeginsAppend, r \in Seq(Chars), c \in Chars, y \in Seq(Chars)
  <2>11. Len(r) \in Nat /\ Len(y) \in Nat
    BY LenProperties
  <2>12. Len(y) > Len(r)
    BY ONLY <2>10, <2>11
  <2> QED BY <2>5, <2>6, <2>8, <2>10, <2>12
<1>3. ASSUME Len(elems) = Len(w.elems)
      PROVE  elems = w.elems /\ x = IF form = "one" THEN ListRead ELSE Append(ListRead, Closing)
  <2>1. elems = w.elems
    BY <1>1, <1>3, BeginsAll
  <2>2. x = ListRead \o Ending(form)
    BY <2>1 DEF TextOf, ListRead, Opening
  <2>3. ASSUME form = "one" PROVE x = ListRead
    BY <1>1, <2>2, <2>3, ConcatEmptySeq DEF Ending
  <2>4. ASSUME form # "one" PROVE x = Append(ListRead, Closing)
    <3>1. Ending(form) = <<Closing>> /\ Closing \in Chars
      BY <2>4 DEF Ending, Closing, Chars, Tokens
    <3> QED BY <1>1, <2>2, <3>1, AppendIsConcat
  <2> QED BY <2>1, <2>3, <2>4
<1> QED BY <1>2, <1>3

(* A sequence of length one. *)
LEMMA OneElement ==
  ASSUME NEW S, NEW l \in Seq(S), Len(l) = 1
  PROVE  \E s \in S : l = <<s>>
<1>1. l[1] \in S /\ l = <<l[1]>>
  OBVIOUS
<1> QED BY <1>1

(* How a pattern begins. *)
LEMMA FirstToken ==
  ASSUME NEW w \in Written, NEW x, x = TextOf(w)
  PROVE  /\ Len(x) \in Nat /\ Len(x) >= 1
         /\ w.form # "one" => x[1] = Char(w.form)
         /\ w.form = "one" => x[1].kind \in {"num", "("}
<1>1. /\ w.form \in {"one", "[", "{"} /\ w.elems \in Seq(SpecsWritten)
      /\ ListText(w.elems) \in Seq(Chars) /\ x \in Seq(Chars)
      /\ Opening(w.form) \in Seq(Chars)
      /\ Begins(Opening(w.form) \o ListText(w.elems), x)
  BY PatternPieces
<1>2. Len(x) \in Nat
  BY <1>1, LenProperties
<1>3. ASSUME w.form # "one"
      PROVE  Len(x) >= 1 /\ x[1] = Char(w.form)
  <2>1. PICK o \in Seq(Chars), t \in Seq(Chars) :
          o = <<Char(w.form)>> /\ o = Opening(w.form) /\ t = ListText(w.elems)
    BY <1>1, <1>3 DEF Opening
  <2>2. Begins(o, o \o t) /\ o \o t \in Seq(Chars)
    BY BeginsConcat, ConcatProperties
  <2>3. Begins(o, x)
    BY <1>1, <2>1, <2>2, BeginsTrans
  <2>4. Len(o) = 1 /\ o[1] = Char(w.form)
    BY <2>1
  <2> QED BY <2>3, <2>4 DEF Begins
<1>4. ASSUME w.form = "one"
      PROVE  Len(x) >= 1 /\ x[1].kind \in {"num", "("}
  <2>1. Len(w.elems) = 1
    BY <1>4, PatternPieces
  <2>2. PICK s \in SpecsWritten : w.elems = <<s>>
    BY <1>1, <2>1, OneElement
  <2>3. x = (<<>> \o SpecText(s)) \o <<>>
    BY <1>4, <2>2, ListTextShort DEF TextOf, Opening, Ending
  <2>4. x = SpecText(s) /\ Len(x) >= 1
    BY <2>3, SpecTextType, ConcatEmptySeq
  <2>5. x[1] = Number(s.min) \/ x[1] = Char("(")
    <3>1. PICK a, b, c, d, e : /\ a = Char("(") /\ b = Number(s.min) /\ c = Char(",")
                               /\ d = Number(s.max) /\ e = Char(")")
      OBVIOUS
    <3>2. x = <<b>> \/ x = <<a, b, c, d, e>>
      BY <2>4, <3>1 DEF SpecText
    <3>3. x[1] = b \/ x[1] = a
      BY ONLY <3>2
    <3> QED BY <3>1, <3>3
  <2> QED BY <2>4, <2>5 DEF Number, Char
<1> QED BY <1>2, <1>3, <1>4

(* The pattern w goes on from where the parser is: it may be what is being  *)
(* parsed.                                                                  *)
Aligned(w) ==
  /\ (pc = "spec" /\ form = "one") \/ (form = w.form /\ Begins(elems, w.elems))
  /\ pc \in {"open", "first", "room"} \cup InSpec => Len(elems) < Len(w.elems)
  /\ pc \in {"min", "comma", "max", "close"} => w.elems[Len(elems) + 1].kind = "range"
  /\ pc \in {"comma", "max", "close"} => w.elems[Len(elems) + 1].min = min_v
  /\ pc = "close" => w.elems[Len(elems) + 1].max = max_v
  /\ pc = "end" => Len(elems) = Len(w.elems)

(* Every pattern whose text begins with what has been read may be. *)
Follows ==
  /\ pc = "spec" /\ form = "one" => look.kind \notin {"[", "{", "nul", "space"}
  /\ pc \in Parsing \ {"pattern"} =>
       \A w \in Written : Begins(seen, TextOf(w)) => Aligned(w)

(* A token of each kind is known by its kind. *)
LEMMA KindOf ==
  /\ \A v : Number(v).kind = "num" /\ Number(v).val = v
  /\ \A c : Char(c).kind = c
  /\ Nul.kind = "nul"
BY DEF Number, Char, Nul

(* Which token comes next where an element, or a part of it, is expected. *)
LEMMA SpecComes ==
  ASSUME IInv, Grammar, NEW w \in Written, form = w.form, Begins(elems, w.elems),
         Len(elems) < Len(w.elems), NEW s, s = w.elems[Len(elems) + 1],
         pc \in {"first"} \cup InSpec,
         pc \in {"min", "comma", "max", "close"} => s.kind = "range",
         pc \in {"comma", "max", "close"} => s.min = min_v,
         NEW x, x = TextOf(w)
  PROVE  /\ s \in SpecsWritten /\ Len(seen) < Len(x)
         /\ pc \in {"first", "spec"} =>
              x[Len(seen) + 1] = IF s.kind = "fixed" THEN Number(s.min) ELSE Char("(")
         /\ pc = "min"   => x[Len(seen) + 1] = Number(s.min)
         /\ pc = "comma" => x[Len(seen) + 1] = Char(",")
         /\ pc = "max"   => x[Len(seen) + 1] = Number(s.max)
         /\ pc = "close" => x[Len(seen) + 1] = Char(")")
<1>1. Text /\ Elements /\ elems \in Seq(SpecsWritten) /\ form \in {"one", "[", "{"}
  BY DEF Grammar, Elements, IInv, TypeOK
<1>2. s \in SpecsWritten /\ BeforeSpec \in Seq(Chars)
  BY <1>1, NextElement
<1>3. PICK b \in Seq(Chars) : b = BeforeSpec
  BY <1>2
<1>4. PICK m : m = Len(b)
  OBVIOUS
<1>5. m \in Nat /\ Len(x) \in Nat /\ SpecAt(s, m, x)
  <2>1. m = Len(BeforeSpec)
    BY <1>3, <1>4
  <2> QED BY <1>1, <2>1, NextTokens
<1>n. m \in Nat /\ Len(x) \in Nat
  BY <1>5
<1>6. /\ pc \in {"first", "spec"} => Len(seen) = m
      /\ pc = "min" => Len(seen) = m + 1
      /\ pc = "comma" => Len(seen) = m + 2
      /\ pc = "max" => Len(seen) = m + 3
      /\ pc = "close" => Len(seen) = m + 4
  <2>1. pc = "first" => seen = b
    <3>1. ASSUME pc = "first" PROVE seen = b
      <4>1. seen = <<Char(form)>> /\ form # "one" /\ elems = <<>>
        BY <1>1, <3>1 DEF Text, IInv, Shape
      <4>2. PICK o \in Seq(Chars) : o = <<Char(form)>>
        <5>1. Char("[") \in Chars /\ Char("{") \in Chars
          BY DEF Chars, Tokens
        <5> QED BY <1>1, <4>1, <5>1, ShortSeqs
      <4>3. BeforeSpec = (o \o <<>>) \o <<>>
        BY <4>1, <4>2, ListTextShort DEF BeforeSpec, ListRead, Separator
      <4> QED BY <1>3, <4>1, <4>2, <4>3, ConcatEmptySeq
    <3> QED BY <3>1
  <2>0. PICK c1, c2, c3, c4 :
          /\ c1 = Char("(") /\ c2 = Number(min_v) /\ c3 = Char(",") /\ c4 = Number(max_v)
    OBVIOUS
  <2>2. PICK A : A = Chars \cup {c1, c2, c3, c4}
    OBVIOUS
  <2>3. b \in Seq(A)
    <3>1. Chars \subseteq A
      BY <2>2
    <3> QED BY ONLY <3>1, b \in Seq(Chars)
  <2>4. PICK q1, q2, q3, q4 : /\ q1 = Append(b, c1) /\ q2 = Append(q1, c2)
                              /\ q3 = Append(q2, c3) /\ q4 = Append(q3, c4)
    OBVIOUS
  <2>5. ASSUME NEW q \in Seq(A), NEW c \in A
        PROVE  Append(q, c) \in Seq(A) /\ Len(Append(q, c)) = Len(q) + 1
    BY AppendProperties
  <2>6. c1 \in A /\ c2 \in A /\ c3 \in A /\ c4 \in A
    BY <2>2
  <2>7. q1 \in Seq(A) /\ Len(q1) = m + 1
    BY ONLY <1>4, <2>3, <2>4, <2>5, <2>6
  <2>8. q2 \in Seq(A) /\ Len(q2) = (m + 1) + 1
    BY ONLY <2>4, <2>5, <2>6, <2>7
  <2>9. q3 \in Seq(A) /\ Len(q3) = ((m + 1) + 1) + 1
    BY ONLY <2>4, <2>5, <2>6, <2>8
  <2>10. q4 \in Seq(A) /\ Len(q4) = (((m + 1) + 1) + 1) + 1
    BY ONLY <2>4, <2>5, <2>6, <2>9
  <2>11. AfterParen = q1 /\ AfterMin = q2 /\ AfterComma = q3 /\ AfterMax = q4
    BY <1>3, <2>0, <2>4 DEF AfterParen, AfterMin, AfterComma, AfterMax
  <2>12. (m + 1) + 1 = m + 2 /\ ((m + 1) + 1) + 1 = m + 3 /\ (((m + 1) + 1) + 1) + 1 = m + 4
    BY ONLY <1>n
  <2>14. (pc = "min" => seen = q1) /\ (pc = "comma" => seen = q2)
         /\ (pc = "max" => seen = q3) /\ (pc = "close" => seen = q4) /\ (pc = "spec" => seen = b)
    BY <1>1, <1>3, <2>0, <2>11 DEF Text
  <2> QED BY ONLY <1>4, <2>1, <2>7, <2>8, <2>9, <2>10, <2>12, <2>14
<1>7. /\ (m + 1) + 1 = m + 2 /\ (m + 2) + 1 = m + 3 /\ (m + 3) + 1 = m + 4 /\ (m + 4) + 1 = m + 5
  BY ONLY <1>n
<1>8. "range" # "fixed"
  OBVIOUS
<1>9. CASE pc \in {"first", "spec"}
  <2>1. Len(seen) = m
    BY <1>6, <1>9
  <2>2. m < Len(x)
    <3> PICK n \in Nat : n = Len(x)
      BY <1>n
    <3>1. n >= m + 1
      <4>1. m + 5 >= m + 1
        BY ONLY <1>n
      <4>2. n >= m + 1 \/ n >= m + 5
        BY <1>5 DEF SpecAt
      <4> QED BY ONLY <1>n, <4>2, n \in Nat
    <3> QED BY <1>n, <3>1
  <2> QED BY <1>2, <1>5, <1>9, <2>1, <2>2 DEF SpecAt
<1>10. CASE pc \in {"min", "comma", "max", "close"}
  <2>1. s.kind # "fixed"
    BY <1>8, <1>10
  <2>2. /\ Len(x) >= m + 5 /\ x[m + 2] = Number(s.min)
        /\ x[m + 3] = Char(",") /\ x[m + 4] = Number(s.max)
        /\ x[m + 5] = Char(")")
    BY ONLY <1>5, <2>1 DEF SpecAt
  <2>3. m + 1 < Len(x) /\ m + 2 < Len(x) /\ m + 3 < Len(x) /\ m + 4 < Len(x)
    <3> PICK n \in Nat : n = Len(x)
      BY <1>n
    <3>1. n >= m + 5
      BY <2>2
    <3>2. m + 1 < n /\ m + 2 < n /\ m + 3 < n /\ m + 4 < n
      BY ONLY <1>n, <3>1, n \in Nat
    <3> QED BY <3>2
  <2> QED BY <1>2, <1>6, <1>7, <1>10, <2>2, <2>3
<1> QED BY <1>9, <1>10 DEF InSpec

(* A pattern without a bracket in front is one spec. *)
LEMMA OneFollows ==
  ASSUME IInv, Grammar, Follows, NEW w \in Written, pc = "spec", form = "one",
         Begins(Append(seen, look), TextOf(w))
  PROVE  w.form = "one" /\ elems = <<>>
<1>1. elems = <<>> /\ elems \in Seq(SpecsWritten) /\ seen = BeforeSpec /\ look \in Chars
  BY DEF Grammar, Text, Elements, IInv, TypeOK, InSpec, Chars
<1>2. seen = <<>>
  <2>1. BeforeSpec = (<<>> \o <<>>) \o <<>>
    BY <1>1, ListTextShort DEF BeforeSpec, ListRead, Separator
  <2> QED BY <1>1, <2>1
<1>3. PICK x \in Seq(Chars) : x = TextOf(w)
  BY PatternPieces
<1>4. x[1] = look
  <2>1. Begins(Append(<<>>, look), x)
    BY <1>2, <1>3
  <2>2. x[Len(<<>>) + 1] = look
    <3>1. PICK e \in Seq(Chars) : e = <<>>
      BY <1>1, ShortSeqs
    <3>2. Begins(Append(e, look), x)
      BY <2>1, <3>1
    <3>3. x[Len(e) + 1] = look
      BY ONLY <1>1, <3>2, BeginsAppend, e \in Seq(Chars), x \in Seq(Chars)
    <3> QED BY <3>1, <3>3
  <2>3. Len(<<>>) + 1 = 1
    OBVIOUS
  <2> QED BY <2>2, <2>3
<1>5. look.kind \notin {"[", "{"}
  BY DEF Follows
<1>6. w.form \in {"one", "[", "{"} /\ (w.form # "one" => x[1] = Char(w.form))
  BY <1>3, PatternPieces, FirstToken
<1> QED BY <1>1, <1>4, <1>5, <1>6, KindOf

(* The token at the cursor is the one that comes next in a pattern that may *)
(* still be what is being parsed ...                                        *)
LEMMA Looked ==
  ASSUME IInv, Grammar, Follows, NEW w \in Written, pc \in {"first"} \cup InSpec,
         Begins(Append(seen, look), TextOf(w)), NEW s, s = w.elems[Len(elems) + 1]
  PROVE  /\ form = w.form /\ Begins(elems, w.elems) /\ Len(elems) < Len(w.elems)
         /\ s \in SpecsWritten
         /\ pc \in {"first", "spec"} =>
              look = IF s.kind = "fixed" THEN Number(s.min) ELSE Char("(")
         /\ pc \in {"min", "comma", "max", "close"} => s.kind = "range"
         /\ pc = "min"   => look = Number(s.min)
         /\ pc = "comma" => look = Char(",") /\ s.min = min_v
         /\ pc = "max"   => look = Number(s.max) /\ s.min = min_v
         /\ pc = "close" => look = Char(")") /\ s.min = min_v /\ s.max = max_v
<1>1. look \in Chars /\ seen \in Seq(Chars) /\ elems \in Seq(SpecsWritten)
  BY DEF IInv, TypeOK, Chars, Grammar, Elements
<1>2. PICK x \in Seq(Chars) : x = TextOf(w)
  BY PatternPieces
<1>3. Begins(seen, x) /\ Len(seen) < Len(x) /\ x[Len(seen) + 1] = look
  <2>1. Begins(Append(seen, look), x)
    BY <1>2
  <2> QED BY ONLY <1>1, <2>1, BeginsAppend, x \in Seq(Chars)
<1>4. Aligned(w)
  BY <1>2, <1>3 DEF Follows, Parsing, InSpec
<1>5. form = w.form /\ Begins(elems, w.elems)
  <2>1. CASE pc = "spec" /\ form = "one"
    <3>1. w.form = "one" /\ elems = <<>>
      BY <2>1, OneFollows
    <3>2. Len(w.elems) \in Nat /\ Len(<<>>) = 0
      BY PatternPieces
    <3>3. Begins(<<>>, w.elems)
      BY <3>2 DEF Begins
    <3> QED BY <2>1, <3>1, <3>3
  <2>2. CASE ~(pc = "spec" /\ form = "one")
    BY <1>4, <2>2 DEF Aligned
  <2> QED BY <2>1, <2>2
<1>6. /\ Len(elems) < Len(w.elems)
      /\ pc \in {"min", "comma", "max", "close"} => s.kind = "range"
      /\ pc \in {"comma", "max", "close"} => s.min = min_v
      /\ pc = "close" => s.max = max_v
  <2>1. Len(elems) < Len(w.elems)
    <3>1. CASE pc = "first"
      BY <1>4, <3>1 DEF Aligned
    <3>2. CASE pc \in InSpec
      BY <1>4, <3>2 DEF Aligned
    <3> QED BY <3>1, <3>2
  <2> QED BY <1>4, <2>1 DEF Aligned
<1>7. /\ s \in SpecsWritten
      /\ pc \in {"first", "spec"} =>
           x[Len(seen) + 1] = IF s.kind = "fixed" THEN Number(s.min) ELSE Char("(")
      /\ pc = "min"   => x[Len(seen) + 1] = Number(s.min)
      /\ pc = "comma" => x[Len(seen) + 1] = Char(",")
      /\ pc = "max"   => x[Len(seen) + 1] = Number(s.max)
      /\ pc = "close" => x[Len(seen) + 1] = Char(")")
  BY <1>2, <1>5, <1>6, SpecComes
<1> QED BY <1>3, <1>5, <1>6, <1>7

(* ... and so it is behind an element; behind a list there is none.         *)
LEMMA LookedBehind ==
  ASSUME IInv, Grammar, Follows, NEW w \in Written, pc \in {"after", "end"},
         Begins(Append(seen, look), TextOf(w))
  PROVE  /\ pc = "after" /\ form # "one" /\ form = w.form /\ Begins(elems, w.elems)
         /\ look = IF Len(elems) < Len(w.elems) THEN Char(",") ELSE Closing
         /\ ~(Len(elems) < Len(w.elems)) => Len(elems) = Len(w.elems)
<1>1. /\ look \in Chars /\ seen \in Seq(Chars) /\ elems \in Seq(SpecsWritten)
      /\ elems # <<>> /\ form \in {"one", "[", "{"}
      /\ pc = "after" => seen = ListRead
      /\ pc = "end" => seen = Append(ListRead, Closing) /\ form # "one"
  <2>1. Len(elems) > 0
    BY DEF IInv, Shape
  <2>2. elems # <<>>
    BY <2>1
  <2> QED BY <2>2 DEF IInv, TypeOK, Chars, Grammar, Elements, Text
<1>2. PICK x \in Seq(Chars) : x = TextOf(w)
  BY PatternPieces
<1>3. Begins(seen, x) /\ Len(seen) < Len(x) /\ x[Len(seen) + 1] = look
  <2>1. Begins(Append(seen, look), x)
    BY <1>2
  <2> QED BY ONLY <1>1, <2>1, BeginsAppend, x \in Seq(Chars)
<1>4. Aligned(w)
  BY <1>2, <1>3 DEF Follows, Parsing, InSpec
<1>5. form = w.form /\ Begins(elems, w.elems) /\ (pc = "end" => Len(elems) = Len(w.elems))
  BY <1>4 DEF Aligned
<1>6. /\ Len(elems) < Len(w.elems) =>
           Len(x) > Len(ListRead) /\ x[Len(ListRead) + 1] = Char(",")
      /\ Len(elems) = Len(w.elems) =>
           elems = w.elems /\ x = IF form = "one" THEN ListRead ELSE Append(ListRead, Closing)
  BY <1>1, <1>2, <1>5, BehindElement
<1>7. Len(seen) \in Nat /\ Len(x) \in Nat /\ seen # x
  <2>1. Len(seen) \in Nat /\ Len(x) \in Nat
    BY <1>1, LenProperties
  <2>2. ~(Len(x) < Len(x))
    BY <2>1
  <2> QED BY <1>3, <2>1, <2>2
<1>8. pc = "after"
  <2>1. ASSUME pc = "end" PROVE FALSE
    BY <1>1, <1>5, <1>6, <1>7, <2>1
  <2> QED BY <2>1
<1>9. Len(elems) < Len(w.elems) \/ Len(elems) = Len(w.elems)
  <2>1. Len(elems) \in Nat /\ Len(w.elems) \in Nat /\ Len(elems) <= Len(w.elems)
    BY <1>1, <1>5, PatternPieces, LenProperties DEF Begins
  <2> QED BY <2>1
<1>10. ASSUME Len(elems) < Len(w.elems) PROVE look = Char(",") /\ form # "one"
  <2>1. look = Char(",")
    BY <1>1, <1>3, <1>6, <1>8, <1>10
  <2>2. Len(elems) \in Nat /\ Len(w.elems) \in Nat /\ Len(elems) > 0
    BY <1>1, NotEmpty, PatternPieces
  <2>3. Len(w.elems) # 1
    <3>1. PICK a \in Nat, b \in Nat : a = Len(elems) /\ b = Len(w.elems)
      BY <2>2
    <3>2. a > 0 /\ a < b
      BY <1>10, <2>2, <3>1
    <3>3. b # 1
      BY ONLY <3>2, a \in Nat, b \in Nat
    <3> QED BY <3>1, <3>3
  <2> QED BY <1>5, <2>1, <2>3, PatternPieces
<1>11. ASSUME Len(elems) = Len(w.elems)
       PROVE  look = Closing /\ form # "one" /\ ~(Len(elems) < Len(w.elems))
  <2>1. form # "one"
    BY <1>1, <1>6, <1>7, <1>8, <1>11
  <2>2. x = Append(ListRead, Closing)
    BY <1>6, <1>11, <2>1
  <2>3. PICK r \in Seq(Chars), c \in Chars : r = ListRead /\ c = Closing
    <3>1. Closing \in Chars
      BY DEF Closing, Chars, Tokens
    <3> QED BY <1>1, <3>1, ReadTypes
  <2>4. Append(r, c)[Len(r) + 1] = c
    BY AppendProperties
  <2>5. look = Closing
    BY <1>1, <1>3, <1>8, <2>2, <2>3, <2>4
  <2>6. Len(w.elems) \in Nat
    BY PatternPieces
  <2> QED BY <1>11, <2>1, <2>5, <2>6
<1> QED BY <1>5, <1>8, <1>9, <1>10, <1>11

(* The bounds of what can be written. *)
LEMMA WrittenBounds ==
  ASSUME NEW s \in SpecsWritten
  PROVE  /\ s.min \in Sizes /\ s.max \in Sizes /\ s.min <= s.max
         /\ s.kind \in {"fixed", "range"}
         /\ s.kind = "fixed" => s = FixedSpec(s.min)
         /\ s.kind = "range" => s = RangeSpec(s.min, s.max)
<1>1. CASE \E v \in Numbers \cap Sizes : s = FixedSpec(v)
  <2>1. PICK v \in Numbers \cap Sizes : s = FixedSpec(v)
    BY <1>1
  <2>2. v <= v
    <3>1. v \in Int
      BY DEF Sizes
    <3> QED BY <3>1
  <2> QED BY <2>1, <2>2 DEF FixedSpec
<1>2. CASE \E p \in (Numbers \cap Sizes) \X (Numbers \cap Sizes) :
             p[1] <= p[2] /\ s = RangeSpec(p[1], p[2])
  <2>1. PICK p \in (Numbers \cap Sizes) \X (Numbers \cap Sizes) :
          p[1] <= p[2] /\ s = RangeSpec(p[1], p[2])
    BY <1>2
  <2>2. p[1] \in Numbers \cap Sizes /\ p[2] \in Numbers \cap Sizes
    OBVIOUS
  <2> QED BY <2>1, <2>2 DEF RangeSpec
<1> QED BY <1>1, <1>2 DEF SpecsWritten

(* The text of a pattern that is valid for the threads there are is not the *)
(* string, nor does it go on with the token at which the parser gives up.   *)
Denies(w) == IF look = Nul THEN seen # TextOf(w) ELSE ~Begins(Append(seen, look), TextOf(w))
Valid(w)  == w.form = "{" => Len(w.elems) = num_threads
Rejects ==
  pc = "invalid" =>
    num_threads \in 1 .. MaxThreads /\ \A w \in Written : Valid(w) => Denies(w)

(* Where the string ends too early or is too long, no pattern ends. *)
LEMMA DeniesEnd ==
  ASSUME IInv, Grammar, Follows, NEW w \in Written, Valid(w), look = Nul,
         pc \in {"pattern", "first", "after", "end"} \cup InSpec,
         pc = "after" => form # "one",
         pc = "end" => ~(form = "{" => Len(elems) = num_threads)
  PROVE  seen # TextOf(w)
<1> SUFFICES ASSUME seen = TextOf(w) PROVE FALSE
  OBVIOUS
<1>1. PICK x \in Seq(Chars) : x = TextOf(w)
  BY PatternPieces
<1>2. PICK n \in Nat : n = Len(x)
  BY LenProperties
<1>3. Begins(seen, TextOf(w))
  BY <1>1, BeginsConcat
<1>4. CASE pc = "pattern"
  <2>1. seen = <<>> /\ Len(<<>>) = 0
    BY <1>4 DEF Grammar, Text
  <2>2. n >= 1
    BY <1>1, <1>2, FirstToken
  <2>3. n = 0
    <3>1. x = <<>>
      BY <1>1, <2>1
    <3> QED BY ONLY <1>2, <2>1, <3>1
  <2> QED BY ONLY <2>2, <2>3
<1>5. CASE pc # "pattern"
  <2>1. Aligned(w)
    BY <1>3, <1>5 DEF Follows, Parsing, InSpec
  <2>2. ~(pc = "spec" /\ form = "one")
    BY KindOf DEF Follows
  <2>3. form = w.form /\ Begins(elems, w.elems)
    BY <2>1, <2>2 DEF Aligned
  <2>4. /\ elems \in Seq(SpecsWritten) /\ form \in {"one", "[", "{"}
        /\ pc \in {"after", "end"} => Len(elems) > 0
        /\ pc = "after" => seen = ListRead
        /\ pc = "end" => form # "one"
    BY DEF Grammar, Elements, Text, IInv, TypeOK, Shape
  <2>5. CASE pc \in {"first"} \cup InSpec
    <3>1. PICK s : s = w.elems[Len(elems) + 1]
      OBVIOUS
    <3>2. /\ Len(elems) < Len(w.elems)
          /\ pc \in {"min", "comma", "max", "close"} => s.kind = "range"
          /\ pc \in {"comma", "max", "close"} => s.min = min_v
      <4>1. Len(elems) < Len(w.elems)
        BY <2>1, <2>5 DEF Aligned
      <4> QED BY <2>1, <3>1, <4>1 DEF Aligned
    <3>3. Len(seen) < Len(TextOf(w))
      BY <2>3, <2>5, <3>1, <3>2, SpecComes
    <3>4. n < n
      BY <1>1, <1>2, <3>3
    <3> QED BY ONLY <3>4, n \in Nat
  <2>6. CASE pc = "after"
    <3>0. elems # <<>>
      <4>1. Len(elems) > 0
        BY <2>4, <2>6
      <4>2. Len(<<>>) = 0
        BY EmptySeq
      <4> QED BY ONLY <4>1, <4>2
    <3>1. form # "one" /\ seen = ListRead
      BY <2>4, <2>6
    <3>2. PICK a \in Nat, b \in Nat : a = Len(elems) /\ b = Len(w.elems)
      BY <2>4, PatternPieces, LenProperties
    <3>3. a < b \/ a = b
      <4>1. a <= b
        BY <2>3, <3>2 DEF Begins
      <4> QED BY ONLY <4>1, a \in Nat, b \in Nat
    <3>4. ASSUME a < b PROVE FALSE
      <4>1. Len(x) > Len(ListRead)
        BY <1>1, <2>3, <2>4, <3>0, <3>2, <3>4, BehindElement
      <4>2. n > n
        BY <1>1, <1>2, <3>1, <4>1
      <4> QED BY ONLY <4>2, n \in Nat
    <3>5. ASSUME a = b PROVE FALSE
      <4>1. x = Append(ListRead, Closing)
        BY <1>1, <2>3, <2>4, <3>0, <3>1, <3>2, <3>5, BehindElement
      <4>2. Closing \in Chars
        BY DEF Closing, Chars, Tokens
      <4>3. Len(Append(x, Closing)) = n + 1
        BY <1>2, <4>2, AppendProperties
      <4>4. n = n + 1
        BY <1>1, <1>2, <3>1, <4>1, <4>3
      <4> QED BY ONLY <4>4, n \in Nat
    <3> QED BY <3>3, <3>4, <3>5
  <2>7. CASE pc = "end"
    BY <2>1, <2>3, <2>7 DEF Aligned, Valid
  <2> QED BY <1>5, <2>5, <2>6, <2>7
<1> QED BY <1>4, <1>5

(* A token that cannot stand at its place stands there in no pattern. *)
LEMMA DeniesToken ==
  ASSUME IInv, Grammar, Follows, NEW w \in Written,
         \/ pc = "first" /\ Closes
         \/ pc = "spec" /\ look.kind # "(" /\ ~IsInt
         \/ pc = "min" /\ ~IsInt
         \/ pc = "comma" /\ look.kind # ","
         \/ pc = "max" /\ ~IsInt
         \/ pc = "close" /\ ~(look.kind = ")" /\ min_v <= max_v)
         \/ pc = "after" /\ form = "one"
         \/ pc = "after" /\ look.kind # "," /\ ~Closes
         \/ pc = "end"
  PROVE  ~Begins(Append(seen, look), TextOf(w))
<1> SUFFICES ASSUME Begins(Append(seen, look), TextOf(w)) PROVE FALSE
  OBVIOUS
<1>1. CASE pc \in {"first"} \cup InSpec
  <2>1. PICK s : s = w.elems[Len(elems) + 1]
    OBVIOUS
  <2>2. /\ s \in SpecsWritten
        /\ pc \in {"first", "spec"} =>
             look = IF s.kind = "fixed" THEN Number(s.min) ELSE Char("(")
        /\ pc = "min"   => look = Number(s.min)
        /\ pc = "comma" => look = Char(",")
        /\ pc = "max"   => look = Number(s.max)
        /\ pc = "close" => look = Char(")") /\ s.min = min_v /\ s.max = max_v
    BY <1>1, <2>1, Looked
  <2>3. s.min \in Sizes /\ s.max \in Sizes /\ s.min <= s.max
    BY <2>2, WrittenBounds
  <2>4. \A v \in Sizes : look = Number(v) => IsInt
    BY KindOf DEF IsInt
  <2>5. \A c : look = Char(c) => look.kind = c
    BY KindOf
  <2>6. \A v : look = Number(v) => look.kind = "num"
    BY KindOf
  <2>7. CASE pc = "first"
    <3>1. look.kind \in {"num", "("}
      BY <2>2, <2>5, <2>6, <2>7
    <3>2. look.kind \in {"]", "}"}
      BY <2>7 DEF Closes
    <3> QED BY <3>1, <3>2
  <2>8. CASE pc = "spec"
    BY <2>2, <2>3, <2>4, <2>5, <2>8
  <2>9. CASE pc \in {"min", "max"}
    BY <2>2, <2>3, <2>4, <2>9
  <2>10. CASE pc \in {"comma", "close"}
    BY <2>2, <2>3, <2>5, <2>10
  <2> QED BY <1>1, <2>7, <2>8, <2>9, <2>10 DEF InSpec
<1>2. CASE pc \in {"after", "end"}
  <2>1. /\ pc = "after" /\ form # "one"
        /\ look = Char(",") \/ look = Closing
    BY <1>2, LookedBehind
  <2>2. look.kind = "," \/ Closes
    BY <2>1, KindOf DEF Closing, Closes
  <2> QED BY <2>1, <2>2
<1> QED BY <1>1, <1>2 DEF InSpec

(* The empty list is the beginning of all that can be written. *)
LEMMA EmptyBegins ==
  ASSUME NEW w \in Written
  PROVE  Begins(<<>>, w.elems) /\ Len(<<>>) < Len(w.elems)
<1>1. Len(w.elems) \in Nat /\ Len(w.elems) > 0
  BY PatternPieces
<1>2. Len(<<>>) = 0
  BY EmptySeq
<1>3. 0 <= Len(w.elems) /\ 0 < Len(w.elems)
  BY <1>1
<1>4. \A i \in 1 .. 0 : FALSE
  OBVIOUS
<1> QED BY <1>2, <1>3, <1>4 DEF Begins

(* The first token decides which form it is. *)
LEMMA PatternFollows ==
  ASSUME IInv, Grammar, Follows, ParsePattern
  PROVE  Follows'
<1>1. /\ pc = "pattern" /\ look.kind # "space" /\ seen = <<>> /\ look \in Chars
  BY DEF ParsePattern, At, Grammar, Text, IInv, TypeOK, Chars
<1>2. CASE pc' \in Rejected
  BY <1>2 DEF Follows, Parsing, InSpec, Rejected
<1>3. CASE /\ look.kind \in {"[", "{"}
           /\ form' = look.kind /\ elems' = <<>> /\ cap' = 0
           /\ Advance /\ Goto("open") /\ UNCHANGED <<min_v, max_v>>
  <2>1. pc' = "open"
    BY <1>3 DEF Goto
  <2>2. seen' = Append(seen, look)
    BY <1>3 DEF Advance
  <2>3. ASSUME NEW w \in Written, Begins(seen', TextOf(w)) PROVE Aligned(w)'
    <3>1. PICK x \in Seq(Chars) : x = TextOf(w)
      BY PatternPieces
    <3>2. PICK e \in Seq(Chars) : e = <<>>
      BY <1>1, ShortSeqs
    <3>3. Begins(Append(e, look), x)
      BY <1>1, <2>2, <2>3, <3>1, <3>2
    <3>4. x[Len(e) + 1] = look
      BY ONLY <1>1, <3>3, BeginsAppend, e \in Seq(Chars), x \in Seq(Chars)
    <3>5. x[1] = look
      BY <3>2, <3>4, EmptySeq
    <3>6. /\ w.form # "one" => x[1] = Char(w.form)
          /\ w.form = "one" => x[1].kind \in {"num", "("}
      BY <3>1, FirstToken
    <3>7. form' = w.form
      BY <1>3, <3>5, <3>6, KindOf
    <3> QED BY <1>3, <2>1, <3>7, EmptyBegins DEF Aligned
  <2> QED BY <2>1, <2>3 DEF Follows
<1>4. CASE /\ look.kind \notin {"[", "{"} /\ look # Nul
           /\ form' = "one" /\ elems' = <<>> /\ cap' = 1
           /\ Goto("spec") /\ UNCHANGED <<cursor, min_v, max_v>>
  <2>1. pc' = "spec" /\ look' = look
    BY <1>4 DEF Goto, cursor
  <2>2. look.kind # "nul"
    BY <1>1, <1>4, TokenIs DEF Nul
  <2>3. ASSUME NEW w \in Written PROVE Aligned(w)'
    BY <1>4, <2>1, EmptyBegins DEF Aligned
  <2> QED BY <1>1, <1>4, <2>1, <2>2, <2>3 DEF Follows
<1> QED BY <1>2, <1>3, <1>4 DEF ParsePattern, Exit, Rejected

(* An element that is added is the one that the pattern has there. *)
LEMMA AddFollows ==
  ASSUME IInv, Grammar, Follows, pc \in {"spec", "close"}, NEW s, Add(s),
         NEW w \in Written, Begins(Append(seen, look), TextOf(w)),
         s = w.elems[Len(elems) + 1]
  PROVE  Aligned(w)'
<1>1. /\ form = w.form /\ Begins(elems, w.elems) /\ Len(elems) < Len(w.elems)
      /\ s \in SpecsWritten
  BY Looked DEF InSpec
<1>2. PICK l \in Seq(SpecsWritten), k \in Seq(SpecsWritten) : l = elems /\ k = w.elems
  BY PatternPieces DEF Grammar, Elements
<1>3. Begins(l, k) /\ Len(l) < Len(k) /\ k[Len(l) + 1] = s
  BY <1>1, <1>2
<1>4. Begins(Append(l, s), k)
  BY ONLY <1>1, <1>3, BeginsAppend, l \in Seq(SpecsWritten), k \in Seq(SpecsWritten)
<1>5. /\ pc' = "after" /\ form' = form /\ elems' = Append(elems, s)
  BY DEF Add, Goto
<1> QED BY <1>1, <1>2, <1>4, <1>5 DEF Aligned, InSpec

(* The parser stays aligned with every pattern that goes on as the string   *)
(* does: inside an element ...                                              *)
LEMMA SpecFollows ==
  ASSUME IInv, Grammar, Follows,
         ParseSpec \/ ParseMin \/ ParseComma \/ ParseMax \/ ParseClose
  PROVE  Follows'
<1>1. CASE pc' \in Rejected
  BY <1>1 DEF Follows, Parsing, InSpec, Rejected
<1>2. CASE pc' \notin Rejected
  <2>1. Advance /\ look.kind # "space" /\ pc \in InSpec /\ pc' # "spec"
    BY <1>2 DEF ParseSpec, ParseMin, ParseComma, ParseMax, ParseClose, Exit, Rejected, At,
       InSpec, Goto, Add
  <2>2. seen' = Append(seen, look)
    BY <2>1 DEF Advance
  <2>3. ASSUME NEW w \in Written, Begins(seen', TextOf(w)) PROVE Aligned(w)'
    <3>1. PICK s : s = w.elems[Len(elems) + 1]
      OBVIOUS
    <3>2. /\ form = w.form /\ Begins(elems, w.elems) /\ Len(elems) < Len(w.elems)
          /\ s \in SpecsWritten
          /\ pc \in {"first", "spec"} =>
               look = IF s.kind = "fixed" THEN Number(s.min) ELSE Char("(")
          /\ pc \in {"min", "comma", "max", "close"} => s.kind = "range"
          /\ pc = "min"   => look = Number(s.min)
          /\ pc = "comma" => look = Char(",") /\ s.min = min_v
          /\ pc = "max"   => look = Number(s.max) /\ s.min = min_v
          /\ pc = "close" => look = Char(")") /\ s.min = min_v /\ s.max = max_v
      BY <2>1, <2>2, <2>3, <3>1, Looked
    <3>3. /\ s.kind \in {"fixed", "range"}
          /\ s.kind = "fixed" => s = FixedSpec(s.min)
          /\ s.kind = "range" => s = RangeSpec(s.min, s.max)
      BY <3>2, WrittenBounds
    <3>4. CASE pc = "spec"
      <4>1. CASE look.kind = "("
        <5>1. s.kind = "range"
          BY <3>2, <3>3, <3>4, <4>1, KindOf
        <5>2. pc' = "min" /\ UNCHANGED <<form, elems>>
          BY <1>2, <3>4, <4>1 DEF ParseSpec, ParseMin, ParseComma, ParseMax, ParseClose,
             At, Goto, parsed, IsInt
        <5> QED BY <3>1, <3>2, <5>1, <5>2 DEF Aligned
      <4>2. CASE look.kind # "("
        <5>1. s = FixedSpec(look.val)
          BY <3>2, <3>3, <3>4, <4>2, KindOf
        <5>2. Add(s)
          BY <1>2, <3>4, <4>2, <5>1 DEF ParseSpec, ParseMin, ParseComma, ParseMax, ParseClose,
             At, Exit, Rejected
        <5> QED BY <2>2, <2>3, <3>1, <3>4, <5>2, AddFollows
      <4> QED BY <4>1, <4>2
    <3>5. CASE pc = "min"
      <4>1. look.val = s.min
        BY <3>2, <3>5, KindOf
      <4>2. pc' = "comma" /\ UNCHANGED <<form, elems>> /\ min_v' = look.val
        BY <1>2, <3>5 DEF ParseSpec, ParseMin, ParseComma, ParseMax, ParseClose,
           At, Goto, Exit, Rejected
      <4> QED BY <3>1, <3>2, <3>5, <4>1, <4>2 DEF Aligned
    <3>6. CASE pc = "comma"
      <4>1. pc' = "max" /\ UNCHANGED <<form, elems, min_v>>
        BY <1>2, <3>6 DEF ParseSpec, ParseMin, ParseComma, ParseMax, ParseClose,
           At, Goto, Exit, Rejected, parsed
      <4> QED BY <3>1, <3>2, <3>6, <4>1 DEF Aligned
    <3>7. CASE pc = "max"
      <4>1. look.val = s.max
        BY <3>2, <3>7, KindOf
      <4>2. pc' = "close" /\ UNCHANGED <<form, elems, min_v>> /\ max_v' = look.val
        BY <1>2, <3>7 DEF ParseSpec, ParseMin, ParseComma, ParseMax, ParseClose,
           At, Goto, Exit, Rejected
      <4> QED BY <3>1, <3>2, <3>7, <4>1, <4>2 DEF Aligned
    <3>8. CASE pc = "close"
      <4>1. s = RangeSpec(min_v, max_v)
        BY <3>2, <3>3, <3>8
      <4>2. Add(s)
        BY <1>2, <3>8, <4>1 DEF ParseSpec, ParseMin, ParseComma, ParseMax, ParseClose,
           At, Exit, Rejected
      <4> QED BY <2>2, <2>3, <3>1, <3>8, <4>2, AddFollows
    <3> QED BY <2>1, <3>4, <3>5, <3>6, <3>7, <3>8 DEF InSpec
  <2> QED BY <2>1, <2>3 DEF Follows
<1> QED BY <1>1, <1>2

(* ... and behind one. *)
LEMMA BehindFollows ==
  ASSUME IInv, Grammar, Follows, AfterElem
  PROVE  Follows'
<1>1. pc = "after" /\ look.kind # "space"
  BY DEF AfterElem, At
<1>2. CASE Deliver \/ Exit("invalid")
  <2>1. pc' \in {"pattern", "done", "invalid"}
    BY <1>2 DEF Deliver, Exit
  <2> QED BY <2>1 DEF Follows, Parsing, InSpec
<1>3. ASSUME form # "one", Advance, UNCHANGED parsed, pc' \in {"room", "end"},
             pc' = "room" => look.kind = ",",
             pc' = "end" => Closes
      PROVE  Follows'
  <2>1. seen' = Append(seen, look) /\ UNCHANGED <<form, elems>>
    BY <1>1, <1>3 DEF Advance, parsed
  <2>2. ASSUME NEW w \in Written, Begins(seen', TextOf(w)) PROVE Aligned(w)'
    <3>1. /\ form = w.form /\ Begins(elems, w.elems)
          /\ look = IF Len(elems) < Len(w.elems) THEN Char(",") ELSE Closing
          /\ ~(Len(elems) < Len(w.elems)) => Len(elems) = Len(w.elems)
      BY <1>1, <2>1, <2>2, LookedBehind
    <3>2. Closing.kind # "," /\ Char(",").kind = ","
      BY KindOf DEF Closing
    <3>3. pc' = "room" => Len(elems) < Len(w.elems)
      BY <1>3, <3>1, <3>2
    <3>4. pc' = "end" => Len(elems) = Len(w.elems)
      BY <1>3, <3>1, <3>2 DEF Closes
    <3> QED BY <1>3, <2>1, <3>1, <3>3, <3>4 DEF Aligned, InSpec
  <2> QED BY <1>3, <2>2 DEF Follows
<1> QED BY <1>2, <1>3 DEF AfterElem, Goto

(* Nothing is being parsed yet. *)
LEMMA InitFollows == Init => Follows /\ Rejects
BY DEF Init, Follows, Rejects, Parsing, InSpec

(* ... so it does with every step. *)
LEMMA NextFollows == IInv /\ Grammar /\ Follows /\ [Next]_vars => Follows'
<1> SUFFICES ASSUME IInv, Grammar, Follows, [Next]_vars PROVE Follows'
  OBVIOUS
<1>1. CASE ParseArgs
  <2>1. pc' \in {"pattern", "usage"}
    BY <1>1 DEF ParseArgs, Exit
  <2> QED BY <2>1 DEF Follows, Parsing, InSpec
<1>2. CASE SkipWs
  <2>1. /\ seen' = seen /\ look.kind = "space" /\ pc \in Parsing
        /\ UNCHANGED <<pc, form, elems, min_v, max_v>>
    BY <1>2 DEF SkipWs, Advance, parsed
  <2>2. ~(pc = "spec" /\ form = "one")
    BY <2>1 DEF Follows
  <2>3. ASSUME NEW w \in Written, Begins(seen', TextOf(w)), pc' \in Parsing \ {"pattern"}
        PROVE  Aligned(w)'
    <3>1. Aligned(w)
      BY <2>1, <2>3 DEF Follows
    <3> QED BY <2>1, <3>1 DEF Aligned
  <2> QED BY <2>1, <2>2, <2>3 DEF Follows
<1>3. CASE ParsePattern
  BY <1>3, PatternFollows
<1>4. CASE OpenList \/ FirstElem \/ MakeRoom
  <2>1. /\ pc \in {"open", "first", "room"} /\ UNCHANGED <<seen, form, elems>>
        /\ pc' \in {"first", "room", "spec"} \cup Rejected
        /\ pc' = "spec" => pc = "room"
    BY <1>4 DEF OpenList, FirstElem, MakeRoom, At, Goto, Exit, cursor, parsed, Rejected
  <2>2. CASE pc' \in Rejected
    BY <2>2 DEF Follows, Parsing, InSpec, Rejected
  <2>3. CASE pc' \in {"first", "room", "spec"}
    <3>1. pc' = "spec" => form' # "one"
      BY <2>1 DEF Grammar, Elements
    <3>2. ASSUME NEW w \in Written, Begins(seen', TextOf(w)) PROVE Aligned(w)'
      <4>1. Aligned(w)
        BY <2>1, <3>2 DEF Follows, Parsing, InSpec
      <4>2. form = w.form /\ Begins(elems, w.elems) /\ Len(elems) < Len(w.elems)
        BY <2>1, <4>1 DEF Aligned
      <4> QED BY <2>1, <2>3, <4>2 DEF Aligned
    <3> QED BY <3>1, <3>2 DEF Follows
  <2> QED BY <2>1, <2>2, <2>3
<1>5. CASE ParseSpec \/ ParseMin \/ ParseComma \/ ParseMax \/ ParseClose
  BY <1>5, SpecFollows
<1>6. CASE AfterElem
  BY <1>6, BehindFollows
<1>7. CASE AfterList
  <2>1. pc' \in {"pattern", "done", "invalid"}
    BY <1>7 DEF AfterList, Deliver, Exit
  <2> QED BY <2>1 DEF Follows, Parsing, InSpec
<1>8. CASE UNCHANGED vars
  <2>1. UNCHANGED <<pc, look, seen, form, elems, min_v, max_v>>
    BY <1>8 DEF vars, cursor, parsed
  <2>2. ASSUME NEW w \in Written PROVE Aligned(w)' <=> Aligned(w)
    BY <2>1 DEF Aligned
  <2> QED BY <2>1, <2>2 DEF Follows
<1> QED BY <1>1, <1>2, <1>3, <1>4, <1>5, <1>6, <1>7, <1>8 DEF Next

(* Where the parser gives up, no valid pattern goes on as the string does. *)
LEMMA NextRejects == IInv /\ Grammar /\ Follows /\ Rejects /\ [Next]_vars => Rejects'
<1> SUFFICES ASSUME IInv, Grammar, Follows, Rejects, [Next]_vars, pc' = "invalid"
             PROVE  Rejects'
  BY DEF Rejects
<1>1. CASE UNCHANGED vars
  <2>1. UNCHANGED <<pc, look, seen, num_threads>>
    BY <1>1 DEF vars, cursor
  <2>2. ASSUME NEW w \in Written PROVE (Denies(w)' <=> Denies(w)) /\ (Valid(w)' <=> Valid(w))
    BY <2>1 DEF Denies, Valid
  <2> QED BY <2>1, <2>2 DEF Rejects
<1>2. CASE Next
  <2>1. UNCHANGED <<look, seen, num_threads>>
    BY <1>2 DEF Next, ParseArgs, SkipWs, ParsePattern, OpenList, FirstElem, MakeRoom, ParseSpec,
       ParseMin, ParseComma, ParseMax, ParseClose, AfterElem, AfterList, Deliver, Add, Goto,
       Exit, cursor, parsed, At, Parsing, InSpec
  <2>2. \/ pc = "pattern" /\ look = Nul
        \/ pc = "first" /\ Closes
        \/ pc = "spec" /\ look.kind # "(" /\ ~IsInt
        \/ pc = "min" /\ ~IsInt
        \/ pc = "comma" /\ look.kind # ","
        \/ pc = "max" /\ ~IsInt
        \/ pc = "close" /\ ~(look.kind = ")" /\ min_v <= max_v)
        \/ pc = "after" /\ form = "one" /\ look # Nul
        \/ pc = "after" /\ form # "one" /\ look.kind # "," /\ ~Closes
        \/ pc = "end" /\ ~(look = Nul /\ (form = "{" => Len(elems) = num_threads))
    BY <1>2 DEF Next, ParseArgs, SkipWs, ParsePattern, OpenList, FirstElem, MakeRoom, ParseSpec,
       ParseMin, ParseComma, ParseMax, ParseClose, AfterElem, AfterList, Deliver, Add, Goto,
       Exit, cursor, parsed, At, Parsing, InSpec
  <2>3. num_threads \in 1 .. MaxThreads
    BY <2>2 DEF Grammar, Lengths, Parsing, InSpec
  <2>4. ASSUME NEW w \in Written, Valid(w) PROVE Denies(w)
    <3>1. ASSUME look = Nul PROVE seen # TextOf(w)
      BY <2>2, <2>4, <3>1, DeniesEnd DEF InSpec
    <3>2. ASSUME look # Nul PROVE ~Begins(Append(seen, look), TextOf(w))
      BY <2>2, <3>2, DeniesToken
    <3> QED BY <3>1, <3>2 DEF Denies
  <2>5. ASSUME NEW w \in Written PROVE (Denies(w)' <=> Denies(w)) /\ (Valid(w)' <=> Valid(w))
    BY <2>1 DEF Denies, Valid
  <2> QED BY <2>1, <2>3, <2>4, <2>5 DEF Rejects
<1> QED BY <1>1, <1>2

(* A function on 1 .. k is a sequence. *)
LEMMA FunctionIsSeq ==
  ASSUME NEW S, NEW k \in Nat, NEW l \in [1 .. k -> S]
  PROVE  l \in Seq(S) /\ Len(l) = k
OBVIOUS

(* The lists of the documentation are sequences with an element. *)
LEMMA ListsType ==
  ASSUME NEW l \in Lists
  PROVE  l \in Seq(SpecsWritten) /\ l # <<>>
<1>1. PICK m \in Nat : m = MaxElems
  BY GrammarAssumption DEF GrammarAssumption
<1>2. \A k \in 1 .. m : k \in Nat /\ k # 0
  BY ONLY m \in Nat
<1>3. PICK k \in 1 .. m : l \in [1 .. k -> SpecsWritten]
  BY <1>1 DEF Lists
<1>4. k \in Nat /\ k # 0
  BY <1>2
<1>5. l \in Seq(SpecsWritten) /\ Len(l) = k
  BY <1>3, <1>4, FunctionIsSeq
<1>6. Len(<<>>) = 0
  BY EmptySeq
<1> QED BY <1>4, <1>5, <1>6

(* Every documented pattern is one that can be written. *)
LEMMA DocumentedWritten ==
  ASSUME NEW n \in 1 .. MaxThreads, NEW x \in Texts[n]
  PROVE  \E w \in Written : x = TextOf(w) /\ (w.form = "{" => Len(w.elems) = n)
<1>1. PICK d \in Documented[n] : x = d[1]
  BY DEF Texts
<1>2. CASE \E s \in SpecsWritten : d = <<SpecText(s), [t \in 0 .. n - 1 |-> s]>>
  <2>1. PICK s \in SpecsWritten : d = <<SpecText(s), [t \in 0 .. n - 1 |-> s]>>
    BY <1>2
  <2>2. x = SpecText(s)
    BY <1>1, <2>1
  <2>3. PICK l \in Seq(SpecsWritten) : l = <<s>> /\ Len(l) = 1 /\ l # <<>>
    <3>1. <<s>> \in Seq(SpecsWritten) /\ Len(<<s>>) = 1 /\ Len(<<>>) = 0
      BY ShortSeqs
    <3>2. <<s>> # <<>>
      BY <3>1
    <3> QED BY <3>1, <3>2
  <2>4. PICK w : w = [form |-> "one", elems |-> l]
    OBVIOUS
  <2>5. w \in Written /\ w.form = "one" /\ w.elems = l
    BY <2>3, <2>4 DEF Written
  <2>6. TextOf(w) = (<<>> \o SpecText(s)) \o <<>>
    BY <2>3, <2>5, ListTextShort DEF TextOf, Opening, Ending
  <2>7. TextOf(w) = SpecText(s)
    BY <2>6, SpecTextType, ConcatEmptySeq
  <2> QED BY <2>2, <2>5, <2>7
<1>3. ASSUME NEW l \in Lists, NEW f \in {"[", "{"}, f = "{" => Len(l) = n,
             x = <<Char(f)>> \o ListText(l) \o <<Char(IF f = "[" THEN "]" ELSE "}")>>
      PROVE  \E w \in Written : x = TextOf(w) /\ (w.form = "{" => Len(w.elems) = n)
  <2>1. l \in Seq(SpecsWritten) /\ l # <<>>
    BY ListsType
  <2>2. PICK w : w = [form |-> f, elems |-> l]
    OBVIOUS
  <2>3. w \in Written /\ w.form = f /\ w.elems = l
    BY <2>1, <2>2 DEF Written
  <2>4. x = TextOf(w)
    BY <1>3, <2>3 DEF TextOf, Opening, Ending
  <2> QED BY <1>3, <2>3, <2>4
<1>4. CASE \E l \in Lists :
             d = <<<<Char("[")>> \o ListText(l) \o <<Char("]")>>,
                   [t \in 0 .. n - 1 |-> l[(t % Len(l)) + 1]]>>
  <2>1. PICK l \in Lists :
          d = <<<<Char("[")>> \o ListText(l) \o <<Char("]")>>,
                [t \in 0 .. n - 1 |-> l[(t % Len(l)) + 1]]>>
    BY <1>4
  <2>2. PICK y : y = <<Char("[")>> \o ListText(l) \o <<Char("]")>>
    OBVIOUS
  <2>3. d[1] = y
    BY <2>1, <2>2
  <2> QED BY <1>1, <1>3, <2>2, <2>3
<1>5. CASE \E l \in Lists : Len(l) = n /\
             d = <<<<Char("{")>> \o ListText(l) \o <<Char("}")>>, [t \in 0 .. n - 1 |-> l[t + 1]]>>
  <2>1. PICK l \in Lists :
          /\ Len(l) = n
          /\ d = <<<<Char("{")>> \o ListText(l) \o <<Char("}")>>, [t \in 0 .. n - 1 |-> l[t + 1]]>>
    BY <1>5
  <2>2. PICK y : y = <<Char("{")>> \o ListText(l) \o <<Char("}")>>
    OBVIOUS
  <2>3. d[1] = y
    BY <2>1, <2>2
  <2> QED BY <1>1, <1>3, <2>1, <2>2, <2>3
<1> QED BY <1>2, <1>4, <1>5 DEF Documented

(* "Batch size specification forms" (bench.c:224), the other direction:     *)
(* whatever the string and the number of threads, a documented pattern is   *)
(* never rejected as invalid: at the token where the parser gives up, none  *)
(* goes on as the string does.                                              *)
THEOREM RejectedIsNotDocumented == Spec => []RejectsOthers
<1>1. IInv /\ Grammar /\ Rejects => RejectsOthers
  <2> SUFFICES ASSUME IInv, Grammar, Rejects, pc = "invalid"
               PROVE  IF look = Nul THEN seen \notin Texts[num_threads]
                      ELSE Append(seen, look) \notin Beginnings[num_threads]
    BY DEF RejectsOthers
  <2>1. num_threads \in 1 .. MaxThreads /\ \A w \in Written : Valid(w) => Denies(w)
    BY DEF Rejects
  <2>2. ASSUME NEW x \in Texts[num_threads]
        PROVE  \E w \in Written : x = TextOf(w) /\ Denies(w)
    BY <2>1, <2>2, DocumentedWritten DEF Valid
  <2>3. ASSUME look = Nul, seen \in Texts[num_threads] PROVE FALSE
    BY <2>2, <2>3 DEF Denies
  <2>4. ASSUME look # Nul, Append(seen, look) \in Beginnings[num_threads] PROVE FALSE
    <3>1. PICK x \in Texts[num_threads] : \E k \in 1 .. Len(x) : Append(seen, look) = SubSeq(x, 1, k)
      BY <2>1, <2>4 DEF Beginnings
    <3>2. PICK k \in 1 .. Len(x) : Append(seen, look) = SubSeq(x, 1, k)
      BY <3>1
    <3>3. PICK w \in Written : x = TextOf(w) /\ Denies(w)
      BY <2>2
    <3>4. PICK y \in Seq(Chars) : y = x
      BY <3>3, PatternPieces
    <3>5. k \in 0 .. Len(y)
      BY <3>2, <3>4, LenProperties
    <3>6. Begins(SubSeq(y, 1, k), y)
      BY <3>5, BeginsSub
    <3> QED BY <2>4, <3>2, <3>3, <3>4, <3>6 DEF Denies
  <2> QED BY <2>3, <2>4
<1>2. Spec => [](IInv /\ Grammar /\ Follows /\ Rejects)
  BY InitInvariant, NextInvariant, InitGrammar, NextGrammar, InitFollows, NextFollows,
     NextRejects, PTL DEF Spec
<1> QED BY <1>1, <1>2, PTL
=============================================================================
