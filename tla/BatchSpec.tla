-------------------------------- MODULE BatchSpec --------------------------------
(***************************************************************************)
(* bench.h: parse_args and, for each of the two batch-size patterns, the   *)
(* recursive-descent parser, one action per place where it looks at the    *)
(* string; and the sampling of a batch size.                               *)
(*                                                                         *)
(* A string is a sequence of tokens: a number with its sign, as strtol     *)
(* takes it in one piece, a bracket, a comma, a white-space character, or  *)
(* any other character.  The parser never goes back, so what the string    *)
(* has at a place is chosen when the cursor gets there.                    *)
(*                                                                         *)
(* An operator named ..._Faulty is what a mistake could make of the        *)
(* definition after it.  No action uses one.                               *)
(***************************************************************************)
EXTENDS Integers, Sequences

CONSTANTS
  IntBits,      \* the width of int
  Numbers,      \* the numbers that occur in patterns
  MaxThreads,   \* the largest number of threads asked for
  MaxLen,       \* MaxLen[p]: the length of pattern p that is not exceeded
  InitialCap    \* how many elements parse_spec_list allocates first: 8

MaxInt   == 2 ^ (IntBits - 1) - 1
Patterns == {"enq", "deq"}     \* argv[4] and argv[5]

ASSUME BatchSpecAssumption ==
  /\ MaxInt \in Nat /\ Numbers \subseteq Int
  /\ MaxThreads \in Nat /\ MaxLen \in [Patterns -> Nat \ {0}]
  /\ InitialCap \in Nat \ {0}

Sizes == 0 .. MaxInt

(* batch_spec_t: a fixed size has min = max. *)
Specs == {s \in [kind : {"fixed", "range"}, min : Sizes, max : Sizes] : s.min <= s.max}
FixedSpec(v)    == [kind |-> "fixed", min |-> v, max |-> v]
RangeSpec(a, b) == [kind |-> "range", min |-> a, max |-> b]

Number(v) == [kind |-> "num", val |-> v]
Char(c)   == [kind |-> c, val |-> 0]
Tokens == {Number(v) : v \in Numbers}
            \cup {Char(c) : c \in {"(", ")", "[", "]", "{", "}", ",", "space", "other"}}
Nul    == Char("nul")       \* the end of the string
Beyond == Char("beyond")    \* what lies behind it

VARIABLES
  pc,           \* what is expected next, or how the program has ended
  num_threads,
  pattern,      \* which of the two is being parsed
  look,         \* the token at the cursor
  seen,         \* those before it, without white space
  length,       \* how far the cursor has got
  form,         \* "one", or the opening bracket of the list
  elems, cap,   \* the elements parsed so far and the memory for them
  min_v, max_v,
  specs         \* specs[p]: the result for pattern p, one spec per thread

cursor == <<look, seen, length>>
parsed == <<form, elems, cap, min_v, max_v>>
vars == <<pc, num_threads, pattern, cursor, parsed, specs>>

InSpec   == {"spec", "min", "comma", "max", "close"}
Parsing  == InSpec \cup {"pattern", "open", "first", "room", "after", "end"}
Rejected == {"usage", "invalid", "nomemory"}

TypeOK ==
  /\ pc \in Parsing \cup Rejected \cup {"args", "done"}
  /\ num_threads \in Nat /\ pattern \in Patterns
  /\ look \in Tokens \cup {Nul, Beyond} /\ seen \in Seq(Tokens \cup {Nul, Beyond})
  /\ length \in Nat
  /\ form \in {"one", "[", "{"}
  /\ elems \in Seq(Specs) /\ cap \in Nat
  /\ min_v \in Sizes /\ max_v \in Sizes
  /\ DOMAIN specs = Patterns
  /\ \A p \in Patterns :
       specs[p] = <<>> \/ specs[p] \in [0 .. num_threads - 1 -> Specs]

Init ==
  /\ pc = "args" /\ num_threads = 0 /\ pattern = "enq"
  /\ look \in Tokens \cup {Nul} /\ seen = <<>> /\ length = 0
  /\ form = "one" /\ elems = <<>> /\ cap = 0 /\ min_v = 0 /\ max_v = 0
  /\ specs = [p \in Patterns |-> <<>>]

-----------------------------------------------------------------------------
Exit(how) == pc' = how /\ UNCHANGED <<num_threads, pattern, cursor, parsed, specs>>

(* parse_args up to the patterns: n, reps and time are what atoi makes of   *)
(* the first three arguments.                                               *)
ParseArgs ==
  /\ pc = "args"
  /\ \E argc \in 5 .. 8, n \in -1 .. MaxThreads, reps, time \in 0 .. 1 :
       IF argc \in 6 .. 7 /\ n > 0 /\ reps > 0 /\ time > 0
       THEN /\ pc' = "pattern" /\ num_threads' = n
            /\ UNCHANGED <<pattern, cursor, parsed, specs>>
       ELSE Exit("usage")

(* The cursor is moved on by one. *)
Advance ==
  /\ look' \in (IF look \in {Nul, Beyond} THEN {Beyond}
                ELSE {Nul} \cup (IF length + 1 < MaxLen[pattern] THEN Tokens ELSE {}))
  /\ seen' = IF look.kind = "space" THEN seen ELSE Append(seen, look)
  /\ length' = length + 1

SkipWs_Faulty ==        \* the white space is found and not skipped
  pc \in Parsing \ {"open"} /\ look.kind = "space" /\ UNCHANGED vars

(* skip_ws, which comes before each look at the string. *)
SkipWs ==
  /\ pc \in Parsing \ {"open"} /\ look.kind = "space"
  /\ Advance
  /\ UNCHANGED <<pc, num_threads, pattern, parsed, specs>>

At(place) == pc = place /\ look.kind # "space"

(* parse_int_token finds a number that fits into int. *)
IsInt == look.kind = "num" /\ look.val \in Sizes

Goto(place) == pc' = place /\ UNCHANGED <<num_threads, pattern, specs>>

(* parse_batch_size_pattern: which of the forms it is. *)
ParsePattern ==
  /\ At("pattern")
  /\ \/ look = Nul /\ Exit("invalid")
     \/ look # Nul /\ Exit("nomemory")
     \/ /\ look.kind \in {"[", "{"}
        /\ form' = look.kind /\ elems' = <<>> /\ cap' = 0
        /\ Advance /\ Goto("open") /\ UNCHANGED <<min_v, max_v>>
     \/ /\ look.kind \notin {"[", "{"} /\ look # Nul
        /\ form' = "one" /\ elems' = <<>> /\ cap' = 1
        /\ Goto("spec") /\ UNCHANGED <<cursor, min_v, max_v>>

(* parse_spec_list allocates the first elements. *)
OpenList ==
  /\ pc = "open"
  /\ \/ Exit("nomemory")
     \/ cap' = InitialCap /\ Goto("first") /\ UNCHANGED <<cursor, form, elems, min_v, max_v>>

Closes_Faulty == look.kind = "]"

Closes == look.kind = (IF form = "[" THEN "]" ELSE "}")

FirstElem ==
  /\ At("first")
  /\ IF Closes THEN Exit("invalid") ELSE Goto("room") /\ UNCHANGED <<cursor, parsed>>

(* The head of the loop: room for one more element. *)
MakeRoom ==
  /\ At("room")
  /\ \/ Len(elems) < cap /\ Goto("spec") /\ UNCHANGED <<cursor, parsed>>
     \/ /\ Len(elems) = cap
        /\ cap' = 2 * cap /\ Goto("spec") /\ UNCHANGED <<cursor, form, elems, min_v, max_v>>
     \/ Len(elems) = cap /\ Exit("nomemory")

Add(s) ==
  elems' = Append(elems, s) /\ Goto("after") /\ UNCHANGED <<form, cap, min_v, max_v>>

(* parse_spec: a number ... *)
ParseSpec ==
  /\ At("spec")
  /\ \/ look.kind = "(" /\ Advance /\ Goto("min") /\ UNCHANGED parsed
     \/ IsInt /\ Advance /\ Add(FixedSpec(look.val))
     \/ look.kind # "(" /\ ~IsInt /\ Exit("invalid")

(* ... or a tuple. *)
ParseMin ==
  /\ At("min")
  /\ \/ IsInt /\ Advance /\ min_v' = look.val /\ Goto("comma")
        /\ UNCHANGED <<form, elems, cap, max_v>>
     \/ ~IsInt /\ Exit("invalid")

ParseComma_Faulty ==         \* whatever is there is taken for the comma
  At("comma") /\ Advance /\ Goto("max") /\ UNCHANGED parsed

ParseComma ==
  /\ At("comma")
  /\ \/ look.kind = "," /\ Advance /\ Goto("max") /\ UNCHANGED parsed
     \/ look.kind # "," /\ Exit("invalid")

ParseMax ==
  /\ At("max")
  /\ \/ IsInt /\ Advance /\ max_v' = look.val /\ Goto("close")
        /\ UNCHANGED <<form, elems, cap, min_v>>
     \/ ~IsInt /\ Exit("invalid")

ParseClose_Faulty ==         \* min and max are not compared
  /\ At("close")
  /\ \/ look.kind = ")" /\ Advance /\ Add(RangeSpec(min_v, max_v))
     \/ look.kind # ")" /\ Exit("invalid")

ParseClose ==
  /\ At("close")
  /\ IF look.kind = ")" /\ min_v <= max_v
     THEN Advance /\ Add(RangeSpec(min_v, max_v))
     ELSE Exit("invalid")

(* The results for the threads; then the next pattern, if there is one.     *)
Deliver ==
  /\ specs' = [specs EXCEPT ![pattern] =
                 [t \in 0 .. num_threads - 1 |-> elems[(t % Len(elems)) + 1]]]
  /\ IF pattern = "enq"
     THEN /\ pc' = "pattern" /\ pattern' = "deq"
          /\ look' \in Tokens \cup {Nul} /\ seen' = <<>> /\ length' = 0
     ELSE pc' = "done" /\ UNCHANGED <<pattern, cursor>>
  /\ UNCHANGED <<num_threads, parsed>>

(* Behind an element. *)
AfterElem ==
  /\ At("after")
  /\ \/ form = "one" /\ look = Nul /\ Deliver
     \/ form # "one" /\ look.kind = "," /\ Advance /\ Goto("room") /\ UNCHANGED parsed
     \/ form # "one" /\ Closes /\ Advance /\ Goto("end") /\ UNCHANGED parsed
     \/ form = "one" /\ look # Nul /\ Exit("invalid")
     \/ form # "one" /\ look.kind # "," /\ ~Closes /\ Exit("invalid")

AfterList_Faulty ==           \* the length of an explicit list is not checked
  At("end") /\ IF look = Nul THEN Deliver ELSE Exit("invalid")

(* Behind a list. *)
AfterList ==
  /\ At("end")
  /\ IF look = Nul /\ (form = "{" => Len(elems) = num_threads)
     THEN Deliver
     ELSE Exit("invalid")

Next ==
  \/ ParseArgs \/ SkipWs
  \/ ParsePattern \/ OpenList \/ FirstElem \/ MakeRoom
  \/ ParseSpec \/ ParseMin \/ ParseComma \/ ParseMax \/ ParseClose
  \/ AfterElem \/ AfterList

Spec == Init /\ [][Next]_vars

(* The program runs. *)
FairSpec == Spec /\ WF_vars(Next)

-----------------------------------------------------------------------------
Sample_Faulty(s, r) ==  \* the upper end of the range is left out
  IF s.min = s.max THEN s.min ELSE s.min + (r % (s.max - s.min))

(* batch_spec_sample, when rand_r returns r.  The build lets hi - lo + 1    *)
(* wrap, and the conversion makes it unsigned: modulo 2 ^ IntBits.          *)
Sample(s, r) ==
  IF s.min = s.max THEN s.min
  ELSE s.min + (r % ((s.max - s.min + 1) % (2 * (MaxInt + 1))))

Rands == 0 .. MaxInt    \* RAND_MAX is INT32_MAX

-----------------------------------------------------------------------------
(* The cursor never leaves the string, which no caller has checked, and no  *)
(* element is written behind the memory of the list.                        *)
StaysInside ==
  /\ look # Beyond
  /\ pc \in InSpec => Len(elems) < cap

(* Every thread gets a spec whose range is not empty and fits into int,     *)
(* which is what batch_spec_sample and its % rely on.                       *)
RangesOrdered ==
  \A p \in Patterns : specs[p] # <<>> =>
    \A t \in 0 .. num_threads - 1 :
      /\ 0 <= specs[p][t].min /\ specs[p][t].min <= specs[p][t].max
      /\ specs[p][t].max <= MaxInt

(* "uniformly from the inclusive range [min,max]" (bench.c:229), the range: *)
(* what can be drawn for a thread is exactly what its spec contains.        *)
SamplesFillRange ==
  pc = "done" =>
    \A p \in Patterns, t \in 0 .. num_threads - 1 :
      {Sample(specs[p][t], r) : r \in Rands} = specs[p][t].min .. specs[p][t].max

(* Every command line is accepted or rejected. *)
ParserEnds == <>(pc \in Rejected \cup {"done"})
=============================================================================
