------------------------------ MODULE BatchGrammar ------------------------------
(***************************************************************************)
(* The documented forms of a batch-size pattern (bench.c:224-246) as texts *)
(* with their meaning, for the parser to be compared with.                 *)
(***************************************************************************)
EXTENDS BatchSpec, SequencesExt

CONSTANT MaxElems   \* the longest list that MaxLen has room for

ASSUME GrammarAssumption == MaxElems \in Nat /\ MaxLen["deq"] <= 2 * MaxElems + 2

SpecText(s) ==
  IF s.kind = "fixed" THEN <<Number(s.min)>>
  ELSE <<Char("("), Number(s.min), Char(","), Number(s.max), Char(")")>>

ListText(l) ==
  FlattenSeq([i \in DOMAIN l |->
    (IF i = 1 THEN <<>> ELSE <<Char(",")>>) \o SpecText(l[i])])

(* What can be written with the numbers there are. *)
SpecsWritten ==
  LET N == Numbers \cap Sizes
  IN  {FixedSpec(v) : v \in N}
        \cup {RangeSpec(p[1], p[2]) : p \in {q \in N \X N : q[1] <= q[2]}}

Lists == {l \in UNION {[1 .. k -> SpecsWritten] : k \in 1 .. MaxElems} :
            Len(ListText(l)) + 2 <= MaxLen["deq"]}

(* Text and meaning of each pattern that is valid for n threads. *)
Documented ==
  [n \in 1 .. MaxThreads |->
     {<<SpecText(s), [t \in 0 .. n - 1 |-> s]>> : s \in SpecsWritten}
       \cup {<<<<Char("[")>> \o ListText(l) \o <<Char("]")>>,
               [t \in 0 .. n - 1 |-> l[(t % Len(l)) + 1]]>> : l \in Lists}
       \cup {<<<<Char("{")>> \o ListText(l) \o <<Char("}")>>,
               [t \in 0 .. n - 1 |-> l[t + 1]]>> : l \in {m \in Lists : Len(m) = n}}]

Texts == [n \in 1 .. MaxThreads |-> {d[1] : d \in Documented[n]}]

Beginnings ==
  [n \in 1 .. MaxThreads |->
     UNION {{SubSeq(x, 1, k) : k \in 1 .. Len(x)} : x \in Texts[n]}]

(* What the parser accepts is documented, and means what the documentation  *)
(* says for every thread.                                                   *)
AcceptsDocumented ==
  pc = "done" => <<seen, specs["deq"]>> \in Documented[num_threads]

(* What it rejects is not: with the token at which it gives up, no valid    *)
(* pattern goes on like this, or, at the end of the string, is this one.    *)
RejectsOthers ==
  pc = "invalid" =>
    IF look = Nul THEN seen \notin Texts[num_threads]
    ELSE Append(seen, look) \notin Beginnings[num_threads]

(* "draw a fresh random size uniformly" (bench.c:229): every size of a      *)
(* range is returned for equally many results of rand_r.                    *)
Uniform ==
  pc = "done" =>
    \A t \in 0 .. num_threads - 1 :
      LET s == specs["deq"][t]
      IN  \A x, y \in s.min .. s.max :
            s.kind = "range" =>
              Cardinality({r \in Rands : Sample(s, r) = x})
                = Cardinality({r \in Rands : Sample(s, r) = y})
=============================================================================
