--------------------------------- MODULE Library ---------------------------------
(***************************************************************************)
(* library.c: one call of small_bench.  The iterations of its parallel     *)
(* loop are calls of random_bench1, dealt out to the threads of the team   *)
(* in blocks (the static schedule); each lends and returns books, one turn *)
(* per critical section, until it has returned Times of them.              *)
(*                                                                         *)
(* random_bench1 waits at a barrier before its turns.  The loop ends with  *)
(* a barrier of the same team, so a thread that has no iteration left      *)
(* takes part in what is the start barrier for another one.                *)
(*                                                                         *)
(* A turn that neither lends nor returns only counts failed_turns, which   *)
(* is left out: it is a step that changes nothing.                         *)
(***************************************************************************)
EXTENDS Integers, FiniteSets, Functions

CONSTANTS
  T,         \* the argument t: how many iterations there are
  LibTeam,   \* how many threads the runtime gives the team
  Times,     \* the argument len
  Copies,    \* how many copies of each title the library has: 20
  LibGarbage \* what the uninitialised counters of result may contain

ASSUME LibraryAssumption ==
  /\ T \in Nat \ {0} /\ LibTeam \in 1 .. T
  /\ Times \in Nat /\ Copies \in Nat \ {0}
  /\ LibGarbage \subseteq Int

Iterations == 0 .. T - 1
Workers    == 0 .. LibTeam - 1
Titles     == {"art_of_multiprocessor_programming", "the_c_programming_language"}

VARIABLES
  pc,        \* pc[w]: "barrier", "turns", "end" (of the loop) or "gone"
  iter,      \* iter[w]: the iteration that thread w is at
  stock,     \* the fields of library
  held,      \* held[i][k]: the copies of k that iteration i has
  lends,     \* lends[i]: successful_lends of iteration i
  returned,  \* returned[i]: the loop counter i of random_bench1
  result     \* result.reduced_counters.successful_lends, or "unset"

libVars == <<pc, iter, stock, held, lends, returned, result>>

LibTypeOK ==
  /\ pc \in [Workers -> {"barrier", "turns", "end", "gone"}]
  /\ iter \in [Workers -> Iterations]
  /\ stock \in [Titles -> 0 .. Copies]
  /\ held \in [Iterations -> [Titles -> Nat]]
  /\ lends \in [Iterations -> Nat]
  /\ returned \in [Iterations -> 0 .. Times]
  /\ DOMAIN result = {"set", "lends"} /\ result.set \in BOOLEAN

(* The block of iterations of thread w: the first T % LibTeam threads have  *)
(* one more than the others.                                                *)
FirstOf(w) ==
  w * (T \div LibTeam) + (IF w < T % LibTeam THEN w ELSE T % LibTeam)

LastOf(w) == FirstOf(w + 1) - 1

LibInit ==
  /\ pc = [w \in Workers |-> "barrier"]
  /\ iter = [w \in Workers |-> FirstOf(w)]
  /\ stock = [k \in Titles |-> Copies]
  /\ held = [i \in Iterations |-> [k \in Titles |-> 0]]
  /\ lends = [i \in Iterations |-> 0]
  /\ returned = [i \in Iterations |-> 0]
  /\ result \in [set : {FALSE}, lends : LibGarbage]

(* Every thread of the team has arrived at the barrier, some of them        *)
(* possibly at the end of the loop; all go on.                              *)
Release ==
  /\ \A w \in Workers : pc[w] \in {"barrier", "end"}
  /\ pc' = [w \in Workers |-> IF pc[w] = "end" THEN "gone" ELSE "turns"]
  /\ UNCHANGED <<iter, stock, held, lends, returned, result>>

HasTurn(w) == pc[w] = "turns" /\ returned[iter[w]] < Times

Lend(w, k) ==
  /\ HasTurn(w)
  /\ stock[k] > 0
  /\ stock' = [stock EXCEPT ![k] = @ - 1]
  /\ held' = [held EXCEPT ![iter[w]][k] = @ + 1]
  /\ lends' = [lends EXCEPT ![iter[w]] = @ + 1]
  /\ UNCHANGED <<pc, iter, returned, result>>

Return_Faulty(w, k) ==  \* the book is taken from the reader and disappears
  /\ HasTurn(w)
  /\ stock[k] = 0 /\ held[iter[w]][k] > 0
  /\ held' = [held EXCEPT ![iter[w]][k] = @ - 1]
  /\ returned' = [returned EXCEPT ![iter[w]] = @ + 1]
  /\ UNCHANGED <<pc, iter, stock, lends, result>>

(* A title is returned only when its last copy is lent. *)
Return(w, k) ==
  /\ HasTurn(w)
  /\ stock[k] = 0 /\ held[iter[w]][k] > 0
  /\ stock' = [stock EXCEPT ![k] = @ + 1]
  /\ held' = [held EXCEPT ![iter[w]][k] = @ - 1]
  /\ returned' = [returned EXCEPT ![iter[w]] = @ + 1]
  /\ UNCHANGED <<pc, iter, lends, result>>

(* One pass through the critical section, for the title drawn. *)
Turn(w, k) == Lend(w, k) \/ Return(w, k)

Finish_Faulty(w) ==     \* the loop is left one return early
  /\ pc[w] = "turns" /\ returned[iter[w]] + 1 >= Times
  /\ IF iter[w] < LastOf(w)
     THEN /\ iter' = [iter EXCEPT ![w] = @ + 1]
          /\ pc' = [pc EXCEPT ![w] = "barrier"]
     ELSE /\ pc' = [pc EXCEPT ![w] = "end"]
          /\ UNCHANGED iter
  /\ UNCHANGED <<stock, held, lends, returned, result>>

(* random_bench1 returns, whatever books it still has; the thread goes on   *)
(* to the next iteration of its block.                                      *)
Finish(w) ==
  /\ pc[w] = "turns" /\ returned[iter[w]] = Times
  /\ IF iter[w] < LastOf(w)
     THEN /\ iter' = [iter EXCEPT ![w] = @ + 1]
          /\ pc' = [pc EXCEPT ![w] = "barrier"]
     ELSE /\ pc' = [pc EXCEPT ![w] = "end"]
          /\ UNCHANGED iter
  /\ UNCHANGED <<stock, held, lends, returned, result>>

(* The loop is over and its counters are added to result, which nobody has  *)
(* initialised.                                                             *)
Reduce ==
  /\ \A w \in Workers : pc[w] = "gone"
  /\ ~result.set
  /\ result' = [set |-> TRUE, lends |-> result.lends + SumFunction(lends)]
  /\ UNCHANGED <<pc, iter, stock, held, lends, returned>>

LibNext ==
  \/ Release
  \/ \E w \in Workers : Finish(w) \/ \E k \in Titles : Turn(w, k)
  \/ Reduce

LibSpec == LibInit /\ [][LibNext]_libVars

(* Every thread keeps running and draws every title again and again, and    *)
(* the critical section keeps letting it in.                                *)
LibFairSpec ==
  /\ LibSpec
  /\ WF_libVars(Release) /\ WF_libVars(Reduce)
  /\ \A w \in Workers :
       WF_libVars(Finish(w)) /\ \A k \in Titles : WF_libVars(Turn(w, k))

-----------------------------------------------------------------------------
(* As long as some thread has turns to make, there is a title that it or    *)
(* another such thread can lend or return, though the threads that are done *)
(* keep their books: the last of them has just returned one.                *)
SomeoneCanMove ==
  (\E w \in Workers : HasTurn(w)) =>
    \E w \in Workers, k \in Titles :
      HasTurn(w) /\ (stock[k] > 0 \/ held[iter[w]][k] > 0)

(* At the end the counters are explained by the stock: each iteration has    *)
(* returned Times books, and all others that were lent are still out.       *)
LendsExplainStock ==
  (\A w \in Workers : pc[w] = "gone") =>
    SumFunction(lends) = T * Times + SumFunction([k \in Titles |-> Copies - stock[k]])

(* What small_bench prints as "successful lends" (library.c:132) is what    *)
(* the threads have counted.                                                *)
ResultIsSum ==
  result.set => result.lends = SumFunction(lends)

(* small_bench returns. *)
Ends == <>(result.set)
=============================================================================
