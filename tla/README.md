# A verification of the AMP queues

The repository holds four versions of one FIFO queue in C (sequential, one lock, two
locks, lock-free with quiescent-state based reclamation), a benchmark that drives them, a
parser for the benchmark's batch-size patterns, and a small lending-library demo. This
directory models them, and an earlier two-lock queue that lies in the archive, in TLA+, checks small instances with TLC and proves nearly all
safety properties for every size with TLAPS, among them that the four versions implement a FIFO queue. Paths below are relative to
`src/project_skeleton/src/` unless they say otherwise.

- [The system](#the-system): components, state, operations, what is hard
- [The modules](#the-modules): which module models what, and how
- [The runs](#the-runs): what TLC checks, with which bounds and fairness
- [The proofs](#the-proofs): what holds for every size, and why
- [What is not modelled](#what-is-not-modelled)
- [Open ends](#open-ends)

## The system

A queue (`queue_t`) is a singly linked list behind a dummy node. `head` points to the
dummy, `tail` to the last node; `free_lists[t]` is a list of nodes that thread `t` has
removed and will reuse. A node leaves the queue by becoming the new dummy: `deq` returns
the data of the dummy's successor, moves `head` to it and recycles the old dummy. The
operations are the same in every version:

| operation | what it does |
|---|---|
| `init_queue(Q, n)` | one dummy node, `n` empty free lists, locks or counters |
| `enq(v, Q, tid)` | take a node (`upcycle`: from the free list, else `malloc`), fill it, link it behind `tail`, move `tail` |
| `deq(&v, Q, tid)` | return 0 if the dummy has no successor; else read the value, move `head`, put the old dummy on the own free list (`recycle_node`) |
| `destroy_queue(Q)` | free the nodes of the queue, of the free lists and, in version 5, of the retired lists |

### Components

| component | state | operations | interacts with | correct means |
|---|---|---|---|---|
| Sequential queue, `Ex1.c` | list, free lists | as above, one thread | called by the benchmark | FIFO; no node lost or in two lists |
| Global-lock queue, `Ex2.c` | the same and `lock` | `enq`, `deq` under the lock; `deq` recycles after the unlock | threads meet at the lock | linearizable, no data race although one part runs unlocked, the lock is given back on every path |
| Two-lock queue, `Ex4.c` | the same and `enq_lock`, `deq_lock` | `enq` under one lock, `deq` under the other; a `deq` that empties the queue takes `enq_lock` as well | the two meet in the last node and its `next` | linearizable, no deadlock, the node recycled is not the one `tail` points to |
| Lock-free queue, `Ex5.c` | the same with atomics, `ctr[t]`, `retired[t]` | CAS loops between `mm_op_begin` and `mm_op_end`; the latter waits for every thread inside an operation and then recycles | threads meet in every field | linearizable, no node recycled while somebody can still follow a pointer to it, no ABA, nobody waits in a circle |
| Benchmark, `bench.c` | per-thread counters, a queue per repetition | batches of `enq` (repeated until they succeed) and `deq` until the time is over; sums what was dequeued and drains the rest | calls the queue, writes a results file | the sums agree exactly when nothing is lost; the run ends as long as there is memory; every repetition reaches the file |
| Patterns and arguments, `bench.h` | the specs per thread | parser of `5`, `(0,10)`, `[..]`, `{..}`; sampling with `rand_r` | feeds the benchmark | accepts exactly the documented forms, whatever the string stays inside its memory; samples fill the range |
| Lending library, `library.c` | two stocks of books, what each thread has | lend or return under `omp critical`, after a barrier | stand-alone | books are neither lost nor made; every thread finishes |
| Archived two-lock queue, `src/archive/Ex4_old.c` | two locks and a Peterson lock between them | as version 4 | none | the locks are given back on every path, nobody waits for ever, Peterson's lock excludes `enq` from `deq`, no node is lost; the last two do not hold |
| Tests, plots, scripts | – | fixed scenarios, figures, command lines | call the others | – |

### What is hard

- **Interleaving.** Version 5 has no critical section at all: between the read of `head` and the
  CAS on it, the node can be removed, recycled, filled and linked again (ABA). In version 4 an
  `enq` that has linked its node and not yet moved `tail` overlaps with a `deq` that removes that node.
- **Waiting.** Every successful `deq` of version 5 busy-waits for all threads inside an
  operation; two dequeuers may wait at the same time. Version 4 takes one lock while it has the other.
- **Counters.** The parity of `ctr[t]` says whether `t` is inside an operation, and a waiter sees only
  two samples of it; it wraps.
- **Plain memory.** The `data` field is not atomic in version 5, and nothing is in versions 1 to 4: which
  accesses overlap is part of correctness.
- **Failure.** `malloc` may return NULL: `enq` of versions 2 and 4 must give its lock back. A
  thread that stops inside an operation of version 5 holds up the others.
- **The compiler and the processor.** The archived queue relies on the order of plain and volatile accesses; both may change it.
- **The OpenMP runtime** may start fewer threads than were asked for. `bench.c` then reads what nobody has written, `library.c` waits at a barrier that nobody else reaches.
- **Arithmetic.** The values and counters of a benchmark run are `int` and wrap in long runs, the check compares 64-bit sums; the sampling
  computes `hi - lo + 1` and a remainder.
- **Long sequences.** Nodes move from thread to thread through the queue and the free lists; losing one or having
  it twice shows only much later, or in `destroy_queue`.

`PROJECT.json` lists each hazard at its line with the properties aimed at it.

## The modules

The queues with several threads:

```
LinearizableQueue   NodeHeap                       abstract queue | nodes, head, tail, free lists
        |          /    |     \    \
        |         /     |      \    NodeLists --------- NodeListsProofs
 LockFreeQueue   TwoLockQueue   GlobalLockQueue  |                |
        |             |              |           |                |
 LockFreeQueueInv  TwoLockQueueInv  GlobalLockQueueInv            |    the inductive invariants
        |             |              |                            |
 LockFreeQueueProofs TwoLockQueueProofs  GlobalLockQueueProofs ---'    EXTEND both
```

The rest:

```
 FifoQueue   NodeHeap           NodeHeap            BatchSpec        Library     Benchmark
      \     /                       |                   |                |             |
  SequentialQueue             PetersonTwoLock      BatchGrammar         OpenMPProofs
        |                           |                   |
 SequentialQueueInv        PetersonTwoLockProofs  BatchSpecProofs
        |
 SequentialQueueProofs
```

`MC...` modules hold what only TLC needs: symmetry sets, the numbers in a pattern, and for version 5 the progress properties with their fairness.

**LinearizableQueue** says what all versions promise. It is no translation: a call is *called*,
then takes effect in one step, then returns. A `deq` that fails takes effect
at some moment at which the queue is empty. `enq` may be refused (`RefuseEnq`) only without any effect.
Each version is shown to implement it: `Abs == INSTANCE LinearizableQueue WITH queue <- ..., call <- ...`
and the property `Linearizable == Abs!AbsSpec`.

**NodeHeap** is the memory all versions share: `num_threads`, `head`, `tail`, `next`, `data`,
`freeHead`, `freeSize`, and `heap`, the addresses that are allocated. `Upcycle`, `Recycle`,
`MakeNode`, `FreeAll` and `InitHeap` are the bodies of the functions of those names (`destroy_queue`
and `init_queue` for the last two); `malloc` may return any
address not in use. `Nodes` bounds the memory. `Chain` follows `next` from a node.

**NodeLists** is for the proofs: which node is in which list, as sets that satisfy `Lists` and as sequences that satisfy `Paths`. **NodeListsProofs** has a
lemma for each of the ways in which the code changes a list, in both forms.

**LockFreeQueue** (`Ex5.c`): the program counter `pc[t]` names the next access to shared
memory; every atomic load, store and CAS is one action, `CASResults` gives the results a weak CAS may have.
Loads that nobody else can change in between (thread-local lists, `retired_count`) are part of the next action.
`ctr` wraps at `CtrMod` instead of 2^64. The loop over threads in
`mm_wait_until_unreserved` is `ScanSkip`, `ScanBusy`, `ScanDone` and `Spin`; a turn of the busy wait that sees no
change is a stuttering step. `mm_reclaim_all` is one `Reclaim` step per node.

**TwoLockQueue** (`Ex4.c`): a lock is the id of the thread that has it, or `Unset`. Within a
critical section each access to what the *other* section may touch is a step: the link, the move of `tail`, deq's
two unlocked tests for a successor, the read of the value, the move of `head`, and the recycling.

**GlobalLockQueue** (`Ex2.c`): the same with one lock. All steps inside the section could be one;
they are separate so that the unlocked `recycle_node` is interleaved with each of them.

**SequentialQueue** (`Ex1.c`): one thread makes all calls, so a call is one action; the thread id selects a free list. It implements **FifoQueue**, an
abstract queue whose calls are atomic and return a result (`IsFifo == Fifo!FifoSpec`).

**PetersonTwoLock** (`src/archive/Ex4_old.c`): one step per access to what `enq` and `deq` share. A call that sees `head->next == tail` (`EnqReadHead`, `EnqReadFirst`, `EnqTest`;
`DeqReadNext`, `DeqTest`, since `deq` alone moves `head`) goes through `LockPeterson`, `EndWait` and `UnlockPeterson`; `aba_wait[t]` remembers it. The two stores of `lock_peterson` are issued together and become visible one
by one (`Commit`, `pending`): the thread may read the other flag before that, which is what an x86 store buffer does. Where the compiled code at -O3 uses what the first test has read and at -O0 reads again,
the step does either: the last two reads of enq's test come in any order, `EnqReadTail` and the tests of `deq` for a successor and for the last node take the old pointer or the new one.

**Benchmark** (`bench.c` with `CHECK_CORRECTNESS`): `thread[t]` is the thread in the parallel region with the rest of its two batches; the queue is atomic, which `Linearizable` and
`IsFifo` justify. The clock is a choice (`BeginBatches` or `TimeOver`). `spare[t]` counts the nodes on the free list of `t`: a node comes from there or from `malloc` (`HasNode`), and goes to the list of the thread that dequeues it.
A failing `enq` (versions 1, 2 and 4) is a step that changes nothing, so `Enq` is simply not enabled without a node.
`ToInt` wraps at `IntBits`, `ToLong` at `LongBits`. `Lose` stands for a queue with a mistake, which is what the check is for. `Team` of the `NumThreads` threads exist; the array elements of the
others keep what was there (`Garbage`).

**BatchSpec** (`bench.h`): a string is a sequence of tokens, chosen one by one as the cursor gets to them, which is all that a parser without
backtracking can see; `Nul` is its end and `Beyond` what lies behind it. `pc` is the place in the grammar; `SkipWs` may precede every look. `Sample` is
`batch_spec_sample` for one result of `rand_r`. **BatchGrammar** writes the documented forms (bench.c:224-246) as texts with their meaning and compares.

**Library** (`library.c`): `Workers` are the threads of the team, `Iterations` the calls of `random_bench1`, dealt out in blocks as the static schedule of libgomp does. `Release` is a barrier that all
threads have reached; some of them may be at the one that ends the loop (`"end"`), since libgomp has one barrier per team. A turn that neither lends nor returns is stuttering.
The names that begin with `Lib` would otherwise be those of `Benchmark`; one module proves the theorems about both.

| code | version 5 | version 4 | version 2 |
|---|---|---|---|
| take a node | `EnqUpcycle` | `EnqUpcycle`, `EnqNoMemory`, `EnqRefuse` | the same |
| fill it | `EnqFill` | `EnqFill` | `EnqFill` |
| link it (enq takes effect) | `EnqLink` | `EnqLink` | `EnqLink` |
| move tail | `EnqSwing`, `EnqHelp`, `DeqHelp` | `EnqSwing`, `DeqRecheck` | `EnqSwing`, `DeqMoveTail` |
| find it empty | `DeqCheck` | `DeqRead`, `DeqEmpty` | `DeqTest`, `DeqEmpty` |
| move head (deq takes effect) | `DeqRemove` | `DeqMoveHead` | `DeqMoveHead` |
| recycle | `Retire` ... `Reclaim` | `DeqRecycle` | `DeqRecycle` |

### Memory model

Version 5 uses `seq_cst` for all its atomics, so the model interleaves. The one plain
field, `data`, is never raced (`DataRaceFree`, proved), so interleaving is enough for
it too.

Version 4 has a data race, and a compiler may do anything to it. What the
repository's build does (`gcc -O3`, x86-64) is this: the four stores of `enq` (`data`, `next`, the link, `tail`)
appear in program order in the object code, x86 keeps stores in order, and pointers are written in one piece. The model therefore
interleaves the stores in program order. The object code of `deq` reads the successor for the second test
(Ex4.c:128) just before it stores `head` instead of just after. No thread without `deq_lock` looks at `head`, so the
difference is one step of delay between the test and `omp_set_lock`, which the model has anyway. `Linearizable` of
version 4 is a statement about this build, not about C11. Versions 4 and 2 are otherwise free of data races
(`OnlyLinkRaces`, `RaceFree`, both proved); the lock functions are calls the compiler moves nothing across.

The archived queue races everywhere between `enq` and `deq`, and Peterson's lock itself is made of volatile fields. What the compiled code of `gcc` does with them at -O0 and at -O3 is modelled as said above. Of the stores only those of `lock_peterson`
are delayed, the ones that the algorithm needs to be visible; later stores to shared memory and the release of a lock wait for them (`Drained`), as they do on x86. `NothingLost` fails without any delay, `PlockExclusive` because of it.

## The runs

All runs allow any interleaving, and `destroy_queue` followed by `init_queue` whenever nobody is in a call.
All finish in less than five minutes with two workers. `CHECK_DEADLOCK FALSE` stands where the program ends (benchmark, parser, library) and for the archived queue, whose
lost nodes use up the memory of the model. One run carries all properties that its instance suits; the instance of another run differs because a property needs it.

| run | instance | what it shows |
|---|---|---|
| `lockfree_two` | 2 threads, 3 nodes, 1 value, counters mod 4, any number of calls | `TypeOK`, `NodesAccounted`, `SafeReclaim`, `DataRaceFree`, `TailLag`, `WaitsForWorker`, `EndsMove`; `SomeCallReturns`, `EnqSurvives` and `DeqWaitsForStopped` |
| `lockfree_three` | 3 threads, 3 nodes, 2 values, up to 2 calls each, CASes that fail spuriously | `Linearizable` |
| `twolock` | 2 threads, 3 nodes, 2 values | `LocksHeld`, `TailNotRecycled`, `WaitMovesTail`, `OnlyLinkRaces`, `NodesAccounted`, `Linearizable`; every call returns if finitely many are made |
| `twolock_race` | 2 threads, 3 nodes | *violated*: `RaceFree` |
| `globallock` | 2 threads, 3 nodes, 2 values | `LockHeld`, `RaceFree`, `NodesAccounted`, `Linearizable`; every call returns if finitely many are made |
| `sequential` | 1 thread, 3 free lists, 5 nodes, 2 values | `NodesAccounted`, `IsFifo` |
| `peterson` | 2 threads, 3 nodes, 1 value | `LocksHeld`; every call returns if finitely many are made |
| `peterson_plock` | the same | *violated*: `PlockExclusive` |
| `peterson_lost` | the same | *violated*: `NothingLost` |
| `bench` | 2 threads, 2 repetitions, 3 rounds, memory for 3 nodes, 3-bit `int`, 5-bit sums, a queue that loses up to 1 value, `fopen` may fail | `SumsAgree`, `CountsAgree`, `VerdictExact`, `EndsUnlessRefused` |
| `spec_parse` | strings of up to 9 tokens, 5 numbers, 1 to 3 threads | `StaysInside`, `RangesOrdered`, `AcceptsDocumented`, `RejectsOthers`, `SamplesFillRange`, `ParserEnds` |
| `library` | 6 iterations on 3 threads, 2 copies | `SomeoneCanMove`, `LendsExplainStock`, `Ends` |

What the runs taught:

- **`deq` of version 5 waits for stopped threads, and for nothing else.** README.md:60 lists "lock-free progress via CAS", :66 concedes that a failed thread can block the others.
  `DeqWaitsForStopped` says what that comes to: a `deq` that has removed a node may wait for ever for one thread that stopped inside an operation; until it has, it makes its way around stopped threads as `enq` does (`EnqSurvives`), helping a `tail` that one of them has left behind.
- **Version 4 has one data race** (finding 1), on the `next` field of the last node (Ex4.c:103 against :116 and :128).
- **The assignment at Ex4.c:134 never changes `tail`.** Whenever it is reached, the `enq` that linked the last node has
  finished its own move of `tail` (`WaitMovesTail`, proved); the comment at :126 expects `tail` to need moving. What lines 128-136 *do* achieve is the wait:
  the old dummy is not recycled while `tail` still points to it (`TailNotRecycled`, proved). With the whole block removed
  (`DeqTestLast_Faulty`) that property fails, while `NodesAccounted` and `Linearizable` still hold in the instance of `twolock`.
- **The archived queue loses values** (finding 2). Whether Peterson's lock is taken depends on an unlocked test, so `deq` can set `tail` back (Ex4_old.c:159) behind a node
  that `enq` has just appended; the next `enq` then overwrites the link to it. The compiled program loses most of its values with one producer and one consumer. Version 4, which replaced it, tests again under `enq_lock`.
- **Peterson's lock excludes nobody** (finding 3): there is no fence between the store of the own flag (Ex4_old.c:33) and the load of the other one (:35), and x86 lets the load go first. That everybody gets and gives back the locks does not depend on it.
- **The benchmark ends exactly if no `enq` ever fails** (`EndsUnlessRefused`), whatever the time limit. The batch loop repeats a failing `enq` without a look at the clock (bench.c:64), and nothing can help it: nodes that other threads dequeue go to their
  own free lists, and the thread itself dequeues only after the batch. "fixed runtime per experiment" (README.md:89) is true as long as memory lasts.
- **The check of the benchmark is exact as long as `int` suffices** (`VerdictExact`, proved): it misses only losses that add up to 0, the first value of thread 0 among them.
  When the values overflow, what was enqueued and what was dequeued still agree (`SumsAgree`, proved), but the expected sum is computed with another width, and the check fails for a correct queue:
  `VerdictExact` without `NoOverflow` is violated.
- **The parser accepts exactly the documented forms**, stays inside string and list, and what it accepts can be sampled. Sampling reaches all sizes of a range. All of it is proved.
- **Readers of the library never get stuck**, although those that are done keep their books (`SomeoneCanMove`, proved): a reader stops right after having returned a book, so that its title is in stock.

### Variations

The modules have parameters for circumstances in which the code does go wrong. They belong to no run; changing a configuration as follows makes TLC find the behaviour.

| configuration | change | what TLC finds |
|---|---|---|
| `Benchmark.cfg` | `Team = 1`, `Garbage = {0, 3}`, `Losses = 0` | `VerdictExact` violated: with fewer threads than asked for (`OMP_THREAD_LIMIT`) the check reads elements that nobody wrote (bench.c:282). |
| `Benchmark.cfg` | `PROPERTIES RunEnds` | violated: a failing `enq` is repeated for ever (bench.c:64). With `Memory = 8`, more than all values, it holds. |
| `Benchmark.cfg` | `INVARIANTS ResultsWritten` | violated: success is reported also when the results file could not be opened (bench.c:181, :306). |
| `BatchSpec.cfg` | `DeqLen = 5`, `INVARIANTS Uniform` | violated: `r % span` favours small values (bench.h:281), though bench.c:229 says "uniformly". |
| `Library.cfg` | `T = 3`, `LibTeam = 2` | `Ends` violated: the barrier inside the worksharing loop (library.c:56) is never completed when the team does not divide the iterations. |
| `Library.cfg` | `INVARIANTS ResultIsSum` | violated: `small_bench` adds to a struct that was never initialised (library.c:125). |

### Bounds

- `NumThreads`: two threads are one enqueuer or dequeuer against another, which is every pairwise race. In version 5 a third matters, because the scan of `mm_wait_until_unreserved`
  passes over several threads and two threads can wait for the same one (`lockfree_three`). In versions 2 and 4 and in the archived queue a further thread only waits at a lock or has nodes in one more free list. What
  is proved holds for any number.
- `Nodes` bounds memory: one is the dummy, so 3 nodes are a queue of up to two values. This is
  small enough that nodes are reused at once, which is what ABA and double recycling need, and
  that `malloc` fails in versions 2 and 4. In version 5, whose `make_node` dereferences NULL, `MemoryFor` keeps an `enq` from
  beginning unless a node is sure to be there.
- `Values`: data is only copied; two values are enough to see the order exchanged or a stale one delivered. What is not about the order of values needs one.
- `CtrMod = 4` in `lockfree_two`: parity survives the wrap, a waiter can see a counter that changed and is odd again (1 to 3), and a counter that went
  round completely (1 to 1), which at 2^64 nobody ever sees.
- `CtrBound` limits the calls per thread: a thread whose counter has reached it begins no call. In `lockfree_two` it equals
  `CtrMod` and so limits nothing; 3 in `lockfree_three` is two calls per thread after each `init_queue`.
- `SpuriousCAS`: a weak CAS may fail for no reason in `lockfree_three`. `lockfree_two` contains liveness, and a CAS that keeps failing for ever would refute it for that reason alone.
- `SizeBound`: the size field of a free list in the archived queue can drift when a node is lost or recycled twice. A thread whose list counts more than this begins no call. 2 is what
  three nodes reach in an undamaged queue.
- `MaxBatches`, `EnqSizes`, `DeqSizes`: up to three rounds with one `enq` and 0 or 2 calls of `deq` let threads dequeue each other's values, find the queue empty and leave values for the drain. `Memory = 3` is half of
  what they can enqueue: an `enq` may fail while the nodes are in the queue, lost, or on the free list of the other thread, still running or not. `IntBits = 3` makes the values of the third round overflow, and `LongBits = 5`, larger as in the code, wraps in the sums.
- `Repetitions = 2`: the first writes the header, the second does not, and the arrays are new.
- `MCNumbers`: a negative number, 0, two inside, one beyond the 3-bit `int`, which stand for the ranges that `parse_int_token` tells apart. Nine tokens hold a list of a tuple and a number and more, or four numbers. The first
  pattern is a single token: the parser is the same for both and starts afresh (`Deliver`).
- `InitialCap` is 1 instead of 8, so that lists of 2 and 3 elements make the memory grow.
- `T`, `LibTeam`: six iterations on three threads, so that a thread goes on to a second iteration, and through a second barrier, while others keep books of their first. `Copies` is 2 instead of 20, so that a title runs out, which is
  when books are returned.
- Symmetry is used in runs without liveness only: `Nodes` and `Values` are interchangeable, thread ids are not (the scan of version 5 goes through them in order).

### Fairness

`FairSpec` adds weak fairness of `Step(t)` for each thread: the operating system keeps scheduling every thread. It says nothing about starting calls, nor
about which of several waiting threads gets a lock: OpenMP locks are not fair, so strong fairness of the lock actions would not be justified, and starvation by an
endless stream of other calls is possible. `CallsReturn` of the queues with locks therefore speaks of the behaviours with finitely many calls.
In version 5 nobody holds a lock, and the progress properties name what they need: `SomeCallReturns` assumes in its own text that all threads are scheduled, and says that of the calls in progress one
returns, however many are made; `SurvivorSpec`, the specification of that run, has weak fairness of thread 0 alone, which is all that `EnqSurvives` and `DeqWaitsForStopped` get. Both allow that the others complete calls for ever instead.
In the archived queue a store does not stay invisible for ever either. `Benchmark` has weak fairness of the threads and of what follows their join; the bound on the rounds stands
for the clock, which goes on. `Library` has weak fairness of each turn: a thread draws both titles again and again, and the critical section lets in whoever keeps asking. The parser is a sequential program that runs.
Weak CAS is taken not to fail spuriously where liveness is checked (`SpuriousCAS = FALSE`), which is what `lock cmpxchg` on x86 does.

## The proofs

The constants are arbitrary, within named assumptions. `HeapAssumption` asks for at least one thread and a `NULL` that is neither node nor value; `FiniteMemory` says that there are
finitely many addresses, which is what makes every list end; `CtrAssumption` (version 5) that the counters wrap at an even number, as 2^64 is. `LibraryAssumption` asks for
at least one iteration, at most one thread per iteration and at least one copy; `BatchSpecAssumption` for integers as numbers and for room for at least one element and one token;
`BenchmarkAssumption` for a team between 1 and the number of threads and an `int` that is narrower than `uint64_t`; it includes two facts about powers of 2 that the provers do not know;
`GrammarAssumption` ties the longest documented list to the longest string, `MaxElems` being a bound that only enumeration by TLC needs.

| module | theorem | states |
|---|---|---|
| `LockFreeQueueProofs` | `TypeCorrect` | `Spec => []TypeOK` |
| | `ReclamationSafe` | `Spec => []SafeReclaim` |
| | `NoDataRace` | `Spec => []DataRaceFree` |
| | `WaitingIsAcyclic` | `Spec => []WaitsForWorker` |
| | `NoABA` | `Spec => EndsMove` |
| | `Accounting` | `Spec => []NodesAccounted` |
| | `TailBehind` | `Spec => []TailLag` |
| | `Linearizability` | `Spec => Linearizable` |
| `TwoLockQueueProofs` | `TypeCorrect` | `Spec => []TypeOK` |
| | `MutualExclusion` | `Spec => []LocksHeld` |
| | `RecyclesOldSentinel` | `Spec => []TailNotRecycled` |
| | `TailSetInVain` | `Spec => []WaitMovesTail` |
| | `RacesConfined` | `Spec => []OnlyLinkRaces` |
| | `Accounting` | `Spec => []NodesAccounted` |
| | `Linearizability` | `Spec => Linearizable` |
| `GlobalLockQueueProofs` | `TypeCorrect` | `Spec => []TypeOK` |
| | `MutualExclusion` | `Spec => []LockHeld` |
| | `NoDataRace` | `Spec => []RaceFree` |
| | `Accounting` | `Spec => []NodesAccounted` |
| | `Linearizability` | `Spec => Linearizable` |
| `SequentialQueueProofs` | `Accounting` | `Spec => []NodesAccounted` |
| | `Refinement` | `Spec => IsFifo` |
| `PetersonTwoLockProofs` | `LocksReleased` | `Spec => []LocksHeld` |
| `OpenMPProofs` | `TypeCorrect` | `LibSpec => []LibTypeOK` |
| | `NeverStuck` | `LibSpec => []SomeoneCanMove` |
| | `LendsExplained` | `LibSpec => []LendsExplainStock` |
| | `CountersBalance` | `Spec => []CountsAgree` |
| | `SumsBalance` | `CountsFit => (Spec => []SumsAgree)` |
| | `CheckIsExact` | `CountsFit /\ NothingUnwritten => (Spec => []VerdictExact)` |
| `BatchSpecProofs` | `TypeCorrect` | `Spec => []TypeOK` |
| | `MemorySafe` | `Spec => []StaysInside` |
| | `RangesValid` | `Spec => []RangesOrdered` |
| | `SamplesExact` | `Spec => []SamplesFillRange` |
| | `AcceptedIsDocumented` | `Spec => []AcceptsDocumented` |
| | `RejectedIsNotDocumented` | `Spec => []RejectsOthers` |

Each of these modules also has `Invariance`, `Spec => []IInv`, and the three queues with threads `ShapeInvariance`, `Spec => []SInv`, on which the others rest.

### The queues: two layers

That the lists are right is proved twice, first as sets and then as sequences. To say of a set of nodes that it is a list takes no counting, so the first layer (`IInv`) can say
where every pointer leads and who may touch what by quantifiers alone. It gives the second layer (`SInv`) the two facts it could not easily find for itself:
which node is *not* in a list, and which node is the last one. The second layer follows the lists: `Chain(head)` ends, is the queue, and its values are what
`LinearizableQueue` says they should be.

**First layer, versions 4 and 2.** A set `S` *is a list* from `h` (`IsList` of `NodeLists`) if `h` and
all successors are in `S` or NULL, no two nodes have the same successor and none has `h` as successor. That is preserved by the four ways the
code changes a list (pop, push, append, move of `head`). `IInv` says that such sets exist
for the queue and the free lists, that they are disjoint, that the nodes in the hands of a call are in none of them, and where `tail` is. In version 4 `tail` is
the last node, or, while an `enq` is between link and swing, the one before (`TailBefore`), which may be a dummy already unlinked, but only while its `deq` has not got past `enq_lock`. `Control` (types, locks,
pointers that are not NULL) is proved first.

**First layer, version 5.** None of the properties is inductive: that a node may be recycled depends on when the other operations began. `IInv`
(`LockFreeQueueInv`) says that there are sets `L` (nodes linked and not recycled since) and `F[t]` (the free lists), a `rank` for each node (the number
of the link that put it in the queue), and `start[t]`, the rank of `head` when the operation of `t` began. The argument is `PointersOf` and
`Grace`: a node that `t` can still follow has a rank of at least `start[t]`; a node waiting to be recycled was passed by `head` before the wait began, so every operation
that began later has a greater start, and the wait ends when those that began earlier are over. The ghosts are bound by an existential, so the program has no history variables; the lemma of each step
names the new ghosts. `EndsMove` follows because two nodes of `L` never have the same rank: an address that has come back has another rank, and `PointersOf` says which.

**Second layer.** A sequence `q` *is a path* from `h` (`IsPath`) if following `next` from `h` meets its elements and then NULL. `ChainIsPath` is the lemma that ties this to the program's
data: if there is a path, `Chain` finds it, and there is only one. It is proved by induction on the length; that a path is no longer than `Nodes` has elements (`PathBound`) is where `FiniteMemory` is used.
The steps then change paths (`Popped`, `Pushed`, append) as they change sets. `SInv` is `Shape` (the lists are paths, every allocated node is in one of them or owned by a call, the nodes behind the dummy hold values),
the values that calls carry (`ValueOf`) and, in version 5, who is going to move a `tail` that is behind (`TailAwaited`). Every step lemma proves `SInv'` together with the abstract step: the link is `TakeEnq`, the move of
`head` is `TakeDeq`, reading NULL behind the dummy is `SeeEmpty`, everything else between call and return is a stutter. In version 5 the append uses that a node without successor has the highest rank,
so that `tail` is at the end of the path when the CAS on its `next` succeeds; and `SeeEmpty` that `first` is still `head` then, though the check of this comes later.
`NodesAccounted` counts the owners in `Shape`; `TailLag` puts the ranks of the first layer in the order of the path of the second (`PathRanks`).

The sequential queue needs the second layer only: between two calls no node is in anybody's hands.

### The others

**The archived queue.** Its invariant is about control, not lists, since the lists do go wrong. `Flags` says that a flag is up, or its store is on its way, exactly for a side that contends, which the two ordinary
locks make a single thread; `LocksHeld` follows. `AbaWait` says where `aba_wait` can be set, so that `unlock_peterson` is called by those who have called `lock_peterson` and by nobody else. That the lock excludes anybody is not part of it, and not true.

**Library.** `LibTypeOK` says that no thread runs past the last iteration, for which `BlockBounds` and `BlockFacts` do the arithmetic of the static schedule. That somebody can move is not inductive; `CopyOrReader` is: of every title
there is a copy in stock or with an iteration that still has turns to make. A reader that becomes done has just returned a book or, if `Times` is 0, has not begun, and a reader
that lends the last copy has it. `LendsExplained` rests on two more invariants: `Ledger`, by which the books lent are those returned and those that are out at any time, and `BlockDone`, by which a thread has made all
returns of the iterations behind it. The sums are folds over sets of iterations and titles; `SumsExist`, `SumRec` and `SumChange` say by induction on finite sets that they exist and change by what one summand changes.

**Benchmark.** `OpenMPProofs` extends both `Library` and `Benchmark`, which use the same lemmas about sums. `BenchInv` is about control: the check begins when all threads have ended (`Joined`), the queue is destroyed when it is empty (`Emptied`), a thread that has ended has stored its counter (`Stored`).
The equations are kept modulo the width, as `Same(m, a, b)`: `Counts` for the counters, `SumsModulo` for the values. Each step moves a value from one summand to another (`EnqueuedStep`, `SumTail`, `CarriedChange`, `CarriedRemove`), and the arithmetic of `int`
and `uint64_t` changes a summand only by a multiple of `m` (`ToIntStep`, `ToLongStep`). What has been enqueued is known from the counter of a thread only while that has not wrapped itself: `CountsFit` says that the batches a thread may begin have fewer values than
`int` can count, and `Few` is the invariant that makes it so (about 2^31 calls by one thread in one repetition). `CheckIsExact` compares what the check expects with what has been enqueued, term by term (`Terms`, `Expected`). `NothingUnwritten` is its other hypothesis: the team is the one
asked for, or the elements that no thread has written are not positive; without it TLC finds the check wrong (see *Variations*).

**BatchSpec.** `IInv` adds to the two properties what is known of the list at each place of the parser (`Shape`): there is room before an element is parsed, and an element behind it, so the division by the
length of the list is one by a positive number. The strings are arbitrary: a step may find any token. `SampleExact` is the arithmetic of the sampling: the size of a range is at most `MaxInt + 1`, so it does not wrap, and
`rand_r` returns each remainder. For `AcceptedIsDocumented` the invariant `Grammar` says at each place of the parser what has been read, as a text made of what has been parsed (`ListRead`, `AfterMin`, ...), so that at the end it is one of the texts
that `Documented` lists; `FlattenAppend` and `ListTextAppend` are the lemmas about those texts, and `Lengths` shows that a list that was read is not longer than those enumerated.

`RejectedIsNotDocumented` is the other direction, and looks at all documented patterns at once (`Written`, whose texts are `TextOf`). `Follows` says that a pattern whose text begins with what has been read is one that the parser is
following (`Aligned`): the same bracket, the elements parsed are its first ones, there is one more where an element is expected, and the part of it that has been parsed is right. That is inductive because in such a pattern the next token is known
at every place (`SpecComes`, `BehindElement`), so the step that reads a token goes on with exactly the patterns that have it (`Looked`, `LookedBehind`). `Rejects` then holds at every exit: the token at which the parser gives up
is not the one that comes next in any of them (`DeniesToken`), and where the string ends none of them does (`DeniesEnd`). The number of threads matters only at the end of an explicit list.

### Induction

The theorems of the library about induction take a predicate as a parameter, which the installed provers cannot instantiate. `NatSetInduction` is induction for sets: a set of numbers with 0 and all successors
contains `Nat`; `SubsetInduction` is the same for finite sets. With `{n \in Nat : ...}` as the set they do what is needed for the recursive functions here (`Chain`, sums, `FlattenSeq`), whose definitions by `CHOOSE` are
shown to have a value first.

### Only model-checked

- `NothingLost` and `PlockExclusive` of the archived queue and `RaceFree` of version 4: they are false, and the runs show it.
- Liveness (`CallsReturn`, `SomeCallReturns`, `EnqSurvives`, `DeqWaitsForStopped`, `EndsUnlessRefused`, `ParserEnds`, `Ends`), which is out of the prover's reach.

## What is not modelled

- Version 5 without memory: `make_node` and `mm_retire` use the result of `malloc` unchecked, and the program ends there. In `init_queue` of every version likewise.
- The counters for statistics (`failed_*_CAS_count`, `free_list_insertion_count`) and `retired_count`, which is the length of the retired list.
- The overflow of `freelist_t.size`, which needs 2^31 nodes.
- The concurrent bag: README and report discuss it, there is no code.
- `plot.py`, the Makefiles and the shell scripts: no state that a property could be about.
- The test programs: clients with fixed scenarios, covered by the runs, in which any client runs.

- Statistics of the benchmark (failed calls, CASes, list sizes, times), `DEBUG` output and assertions, the printing functions of `bench.h`, `failed_turns` and the time in `library.c`.
- A misuse of `atoi` on the first three arguments: `ParseArgs` begins with the numbers it returns.
- The compiled order of the queue's own stores in the archived version beyond what is said under *Memory model*.

## Open ends

All components with state are modelled, and all their safety properties that hold are proved. What could still be added: the delivery of the archived queue when Peterson's lock is always taken, which would say what the unlocked test costs; and an instance of `Benchmark` over `LockFreeQueue` itself instead of the atomic queue, to see drain and destruction right after
the last operations of the threads, which today rests on `Linearizability` and on `Destroy` being possible whenever nobody is in a call.
