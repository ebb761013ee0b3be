------------------------------- MODULE Benchmark -------------------------------
(***************************************************************************)
(* bench.c, compiled with CHECK_CORRECTNESS: the repetitions of main, each *)
(* a run_benchmark with its threads, the check of the sums and the lines   *)
(* in the results file.  The queue is an atomic one, which is what its     *)
(* versions are shown to be.                                               *)
(*                                                                         *)
(* The clock is a choice: whenever a thread looks at it, the time may be   *)
(* over.  Counters that only reach the results file (failed calls, CASes,  *)
(* free lists, times) are left out; a failing enq is then a step that      *)
(* changes nothing.                                                        *)
(*                                                                         *)
(* An operator named ..._Faulty is what a mistake could make of the        *)
(* definition after it.  No action uses one.                               *)
(***************************************************************************)
EXTENDS Integers, Sequences, Functions

CONSTANTS
  NumThreads,   \* num_threads, which version 1 has set to 1
  Team,         \* how many of them the OpenMP runtime really starts
  Repetitions,
  EnqSizes,     \* the batch sizes that batch_spec_sample may return
  DeqSizes,
  MaxBatches,   \* how often a thread finds that there is time left
  Memory,       \* how many nodes malloc has, besides the dummy node
  IntBits,      \* the width of int
  LongBits,     \* the width of uint64_t
  Garbage,      \* what an array element that nobody has written may hold
  Losses,       \* how many values a wrong queue loses in a repetition
  OpenFails     \* whether fopen may fail

ASSUME BenchmarkAssumption ==
  /\ NumThreads \in Nat \ {0} /\ Team \in 1 .. NumThreads
  /\ {Repetitions, IntBits, LongBits} \subseteq Nat \ {0} /\ IntBits < LongBits
  /\ EnqSizes \cup DeqSizes \subseteq Nat /\ {MaxBatches, Memory, Losses} \subseteq Nat
  /\ Garbage \subseteq Int /\ OpenFails \in BOOLEAN
  /\ {2 ^ (IntBits - 1), 2 ^ LongBits} \subseteq Nat \ {0}
  /\ 2 ^ IntBits = 2 * 2 ^ (IntBits - 1)

Started == 0 .. Team - 1
Threads == 0 .. NumThreads - 1

VARIABLES
  rep,      \* the loop counter of main
  phase,    \* "parallel", "check", "write" or "over"
  thread,   \* thread[t]: where t is, the rest of its batches, its counters
  Nr_enq_operations,
  total_dequeue_sum,
  queue,
  spare,    \* spare[t]: the length of t's free list in the queue
  lost,     \* what a wrong queue has lost in this repetition
  passed,   \* the outcome of the check
  file      \* the lines of the results file

vars == <<rep, phase, thread, Nr_enq_operations, total_dequeue_sum, queue, spare,
          lost, passed, file>>

Ints  == -(2 ^ (IntBits - 1)) .. 2 ^ (IntBits - 1) - 1
Longs == 0 .. 2 ^ LongBits - 1

(* The results of int arithmetic, whose overflow the build lets wrap, and   *)
(* of the conversion to uint64_t.                                           *)
ToInt(x)  == ((x + 2 ^ (IntBits - 1)) % 2 ^ IntBits) - 2 ^ (IntBits - 1)
ToLong(x) == x % 2 ^ LongBits

TypeOK ==
  /\ rep \in 0 .. Repetitions - 1
  /\ phase \in {"parallel", "check", "write", "over"}
  /\ thread \in [Started ->
       [pc : {"clock", "enq", "deq", "store", "join"}, enq : Nat, deq : Nat,
        batches : 0 .. MaxBatches, enq_count : Ints, deq_count : Ints,
        dequeue_sum : Longs]]
  /\ Nr_enq_operations \in [Threads -> Ints \cup Garbage]
  /\ total_dequeue_sum \in Longs
  /\ queue \in Seq(Ints) /\ spare \in [Started -> Nat] /\ lost \in Seq(Ints)
  /\ passed \in BOOLEAN

Fresh == [t \in Started |->
            [pc |-> "clock", enq |-> 0, deq |-> 0, batches |-> 0,
             enq_count |-> 0, deq_count |-> 0, dequeue_sum |-> 0]]

Init ==
  /\ rep = 0 /\ phase = "parallel"
  /\ thread = Fresh
  /\ Nr_enq_operations \in [Threads -> Garbage]
  /\ total_dequeue_sum = 0
  /\ queue = <<>> /\ spare = [t \in Started |-> 0] /\ lost = <<>>
  /\ passed = FALSE
  /\ file = <<>>

-----------------------------------------------------------------------------
At(t, label) == phase = "parallel" /\ thread[t].pc = label

(* The loop condition: there is time left, and the sizes of the next two    *)
(* batches are drawn, or there is none.                                     *)
BeginBatches(t) ==
  /\ At(t, "clock")
  /\ thread[t].batches < MaxBatches
  /\ \E e \in EnqSizes, d \in DeqSizes :
       thread' = [thread EXCEPT ![t].pc = "enq", ![t].batches = @ + 1,
                                ![t].enq = e, ![t].deq = d]
  /\ UNCHANGED <<rep, phase, Nr_enq_operations, total_dequeue_sum, queue,
                 spare, lost, passed, file>>

TimeOver(t) ==
  /\ At(t, "clock")
  /\ thread' = [thread EXCEPT ![t].pc = "store"]
  /\ UNCHANGED <<rep, phase, Nr_enq_operations, total_dequeue_sum, queue,
                 spare, lost, passed, file>>

(* What thread t enqueues when it has enqueued i values. *)
Value(t, i) == ToInt(i * NumThreads + t)

(* There is a node for an enq of t on its own free list or from malloc.     *)
HasNode(t) ==
  spare[t] > 0 \/ Len(queue) + Len(lost) + SumFunction(spare) < Memory

(* One successful enq of the batch.  When there is no node it is tried      *)
(* again, without a look at the clock.                                      *)
Enq(t) ==
  /\ At(t, "enq") /\ thread[t].enq > 0
  /\ HasNode(t)
  /\ queue' = Append(queue, Value(t, thread[t].enq_count))
  /\ spare' = [spare EXCEPT ![t] = IF @ > 0 THEN @ - 1 ELSE @]
  /\ thread' = [thread EXCEPT ![t].enq = @ - 1, ![t].enq_count = ToInt(@ + 1)]
  /\ UNCHANGED <<rep, phase, Nr_enq_operations, total_dequeue_sum, lost, passed, file>>

Deq_Faulty(t) ==        \* every attempt is counted
  /\ At(t, "deq") /\ thread[t].deq > 0
  /\ queue' = IF queue = <<>> THEN <<>> ELSE Tail(queue)
  /\ thread' = [thread EXCEPT ![t].deq = @ - 1, ![t].deq_count = ToInt(@ + 1)]
  /\ UNCHANGED <<rep, phase, Nr_enq_operations, total_dequeue_sum, spare, lost, passed, file>>

(* An attempt of the dequeue batch that succeeds, which leaves a node on    *)
(* t's free list, or finds the queue empty.                                 *)
Deq(t) ==
  /\ At(t, "deq") /\ thread[t].deq > 0
  /\ queue # <<>>
  /\ queue' = Tail(queue)
  /\ spare' = [spare EXCEPT ![t] = @ + 1]
  /\ thread' = [thread EXCEPT ![t].deq = @ - 1, ![t].deq_count = ToInt(@ + 1),
                              ![t].dequeue_sum = ToLong(@ + ToLong(Head(queue)))]
  /\ UNCHANGED <<rep, phase, Nr_enq_operations, total_dequeue_sum, lost, passed, file>>

DeqEmpty_Faulty(t) ==   \* only successful attempts count towards the batch
  At(t, "deq") /\ thread[t].deq > 0 /\ queue = <<>> /\ UNCHANGED vars

DeqEmpty(t) ==
  /\ At(t, "deq") /\ thread[t].deq > 0
  /\ queue = <<>>
  /\ thread' = [thread EXCEPT ![t].deq = @ - 1]
  /\ UNCHANGED <<rep, phase, Nr_enq_operations, total_dequeue_sum, queue,
                 spare, lost, passed, file>>

EndBatch(t) ==
  /\ \/ /\ At(t, "enq") /\ thread[t].enq = 0
        /\ thread' = [thread EXCEPT ![t].pc = "deq"]
     \/ /\ At(t, "deq") /\ thread[t].deq = 0
        /\ thread' = [thread EXCEPT ![t].pc = "clock"]
  /\ UNCHANGED <<rep, phase, Nr_enq_operations, total_dequeue_sum, queue,
                 spare, lost, passed, file>>

Store_Faulty(t) ==      \* the addition to the total is not atomic: one is lost
  /\ At(t, "store")
  /\ thread' = [thread EXCEPT ![t].pc = "join"]
  /\ Nr_enq_operations' = [Nr_enq_operations EXCEPT ![t] = thread[t].enq_count]
  /\ total_dequeue_sum' = thread[t].dequeue_sum
  /\ UNCHANGED <<rep, phase, queue, spare, lost, passed, file>>

(* The counters go to the arrays, the sum is added to the total. *)
Store(t) ==
  /\ At(t, "store")
  /\ thread' = [thread EXCEPT ![t].pc = "join"]
  /\ Nr_enq_operations' = [Nr_enq_operations EXCEPT ![t] = thread[t].enq_count]
  /\ total_dequeue_sum' = ToLong(total_dequeue_sum + thread[t].dequeue_sum)
  /\ UNCHANGED <<rep, phase, queue, spare, lost, passed, file>>

(* What the check is there to find: the queue under test loses a value, and *)
(* the node with it.                                                        *)
Lose ==
  /\ phase = "parallel" /\ queue # <<>> /\ Len(lost) < Losses
  /\ lost' = Append(lost, Head(queue))
  /\ queue' = Tail(queue)
  /\ UNCHANGED <<rep, phase, thread, Nr_enq_operations, total_dequeue_sum, spare, passed, file>>

(* The end of the parallel region. *)
Join ==
  /\ \A t \in Started : At(t, "join")
  /\ phase' = "check"
  /\ UNCHANGED <<rep, thread, Nr_enq_operations, total_dequeue_sum, queue,
                 spare, lost, passed, file>>

(* By now nobody looks at the free lists.                                   *)
Drain ==
  /\ phase = "check" /\ queue # <<>>
  /\ queue' = Tail(queue)
  /\ total_dequeue_sum' = ToLong(total_dequeue_sum + ToLong(Head(queue)))
  /\ UNCHANGED <<rep, phase, thread, Nr_enq_operations, spare, lost, passed, file>>

(* The sum of the values that the counters say have been enqueued, in       *)
(* unsigned arithmetic.                                                     *)
ExpectedSum ==
  ToLong(SumFunction([t \in Threads |->
           SumFunction([i \in 0 .. Nr_enq_operations[t] - 1 |-> ToLong(i * NumThreads + t)])]))

Check_Faulty ==         \* the values left in the queue are forgotten
  /\ phase = "check"
  /\ phase' = "write"
  /\ passed' = (total_dequeue_sum = ExpectedSum)
  /\ queue' = <<>>
  /\ spare' = [t \in Started |-> 0]
  /\ UNCHANGED <<rep, thread, Nr_enq_operations, total_dequeue_sum, lost, file>>

(* The check is printed and destroy_queue frees the nodes. *)
Check ==
  /\ phase = "check" /\ queue = <<>>
  /\ phase' = "write"
  /\ passed' = (total_dequeue_sum = ExpectedSum)
  /\ spare' = [t \in Started |-> 0]
  /\ UNCHANGED <<rep, thread, Nr_enq_operations, total_dequeue_sum, queue, lost, file>>

(* The lines of one repetition, the first with the header before it. *)
Lines ==
  (IF rep = 0 THEN <<<<"header">>>> ELSE <<>>) \o [i \in 1 .. NumThreads |-> <<rep + 1, i - 1>>]

(* write_results_line, then the next repetition or the end of main. *)
WriteResults ==
  /\ phase = "write"
  /\ \/ file' = file \o Lines
     \/ OpenFails /\ UNCHANGED file
  /\ IF rep + 1 < Repetitions
     THEN /\ rep' = rep + 1 /\ phase' = "parallel"
          /\ thread' = Fresh
          /\ Nr_enq_operations' \in [Threads -> Garbage]
          /\ total_dequeue_sum' = 0 /\ lost' = <<>> /\ passed' = FALSE
     ELSE /\ phase' = "over"
          /\ UNCHANGED <<rep, thread, Nr_enq_operations, total_dequeue_sum, lost, passed>>
  /\ UNCHANGED <<queue, spare>>

-----------------------------------------------------------------------------
Step(t) ==
  \/ BeginBatches(t) \/ TimeOver(t)
  \/ Enq(t) \/ Deq(t) \/ DeqEmpty(t) \/ EndBatch(t)
  \/ Store(t)

Master == Join \/ Drain \/ Check \/ WriteResults

Next == (\E t \in Started : Step(t)) \/ Lose \/ Master

Spec == Init /\ [][Next]_vars

(* Every thread keeps being scheduled. *)
FairSpec == Spec /\ WF_vars(Master) /\ \A t \in Started : WF_vars(Step(t))

-----------------------------------------------------------------------------
Running == {t \in Started : thread[t].pc # "join"}

(* The last value of each thread is the product and sum that the code means. *)
NoOverflow ==
  \A t \in Started :
    (thread[t].enq_count - 1) * NumThreads + t < 2 ^ (IntBits - 1)

(* What has been enqueued is accounted for at every moment: dequeued and    *)
(* added to the total, dequeued by a thread that has not added it yet, in   *)
(* the queue, or lost.  It holds modulo 2^64, also when the values overflow *)
(* int, as long as no thread has enqueued more of them than int can count.  *)
SumsAgree ==
  phase \in {"parallel", "check"} =>
    ToLong(SumFunction([t \in Started |->
             SumFunction([i \in 0 .. thread[t].enq_count - 1 |-> Value(t, i)])]))
    = ToLong(total_dequeue_sum + SumFunction(queue) + SumFunction(lost)
             + SumFunction([t \in Running |-> thread[t].dequeue_sum]))

(* Every variable has its type, and the counters of all threads together    *)
(* say how long the queue is, up to overflows of int.                       *)
CountsAgree ==
  /\ TypeOK
  /\ phase = "parallel" =>
       ToInt(SumFunction([t \in Started |-> thread[t].enq_count - thread[t].deq_count]))
         = ToInt(Len(queue) + Len(lost))

(* As long as no value has overflowed int, the check tells a queue that has *)
(* lost something from one that has not, unless what it has lost adds up to *)
(* nothing: the first value of thread 0 is 0, and nobody would miss it.     *)
VerdictExact ==
  phase = "write" /\ NoOverflow => (passed <=> ToLong(SumFunction(lost)) = 0)

(* An enq of some thread fails. *)
Refused == \E t \in Started : At(t, "enq") /\ thread[t].enq > 0 /\ ~HasNode(t)

(* "fixed runtime per experiment" (README.md:89): the benchmark ends ...    *)
RunEnds == <>(phase = "over")

(* ... exactly if no enq ever fails.  One that does is repeated for ever:   *)
(* what other threads dequeue in the meantime goes to their own free lists, *)
(* and a thread in the middle of an enqueue batch dequeues nothing itself.  *)
EndsUnlessRefused ==
  /\ RunEnds \/ <>Refused
  /\ [](phase # "over") \/ []~Refused

(* "Benchmark completed. Results written to ..." (bench.c:306): the file    *)
(* has the header and then one line per repetition and thread.              *)
ResultsWritten ==
  phase = "over" =>
    file = <<<<"header">>>> \o
           [i \in 1 .. Repetitions * NumThreads |->
              <<((i - 1) \div NumThreads) + 1, (i - 1) % NumThreads>>]
=============================================================================
