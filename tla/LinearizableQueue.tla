--------------------------- MODULE LinearizableQueue ---------------------------
(***************************************************************************)
(* What every queue of the repository promises to the threads that share   *)
(* it: each call of enq or deq takes effect at one instant between its     *)
(* invocation and its return, in first-in-first-out order.                 *)
(*                                                                         *)
(* A call that changes the queue has its instant as a step of its own      *)
(* (TakeEnq, TakeDeq).  A deq that fails changes nothing, so its instant   *)
(* is any moment of the call at which the queue was empty: SeeEmpty        *)
(* records that the call has met such a moment, and a call that goes on    *)
(* looking drops the record again (LookAgain).                             *)
(***************************************************************************)
EXTENDS Naturals, Sequences

CONSTANTS
  Threads,  \* the thread ids that may call the queue
  Values    \* the values that may be enqueued

VARIABLES
  queue,    \* the abstract contents, oldest value first
  call      \* call[t]: how far the current call of thread t has got

avars == <<queue, call>>

Idle       == [op |-> "idle"]
Enq(v)     == [op |-> "enq", arg |-> v]      \* called, not yet effective
EnqDone    == [op |-> "enqDone"]
Deq        == [op |-> "deq"]                 \* called, not yet effective
DeqEmpty   == [op |-> "deqEmpty"]            \* has seen an empty queue
DeqDone(v) == [op |-> "deqDone", res |-> v]

Calls == {Idle, EnqDone, Deq, DeqEmpty}
           \cup {Enq(v) : v \in Values} \cup {DeqDone(v) : v \in Values}

AbsTypeOK == queue \in Seq(Values) /\ call \in [Threads -> Calls]

AbsInit == queue = <<>> /\ call = [t \in Threads |-> Idle]

(* The call of thread t goes from one stage to the next. *)
Move(t, from, to) == call[t] = from /\ call' = [call EXCEPT ![t] = to]

CallEnq(t, v) == Move(t, Idle, Enq(v)) /\ UNCHANGED queue

TakeEnq(t, v) == Move(t, Enq(v), EnqDone) /\ queue' = Append(queue, v)

(* An enq for which there is no memory leaves the queue as it was. *)
RefuseEnq(t, v) == Move(t, Enq(v), Idle) /\ UNCHANGED queue

ReturnEnq(t) == Move(t, EnqDone, Idle) /\ UNCHANGED queue

CallDeq(t) == Move(t, Idle, Deq) /\ UNCHANGED queue

TakeDeq(t) ==
  /\ queue # <<>>
  /\ Move(t, Deq, DeqDone(Head(queue)))
  /\ queue' = Tail(queue)

SeeEmpty(t) == queue = <<>> /\ Move(t, Deq, DeqEmpty) /\ UNCHANGED queue

LookAgain(t) == Move(t, DeqEmpty, Deq) /\ UNCHANGED queue

ReturnDeq(t) ==
  /\ \/ Move(t, DeqEmpty, Idle)
     \/ \E v \in Values : Move(t, DeqDone(v), Idle)
  /\ UNCHANGED queue

(* destroy_queue and a later init_queue, called while no call is running. *)
Discard ==
  /\ \A t \in Threads : call[t] = Idle
  /\ queue' = <<>>
  /\ UNCHANGED call

(* A step of t moves its call on, which the first conjunct says beforehand. *)
AbsNext ==
  \/ \E t \in Threads :
       /\ call'[t] # call[t]
       /\ \/ \E v \in Values : CallEnq(t, v) \/ TakeEnq(t, v) \/ RefuseEnq(t, v)
          \/ ReturnEnq(t) \/ CallDeq(t) \/ TakeDeq(t)
          \/ SeeEmpty(t) \/ LookAgain(t) \/ ReturnDeq(t)
  \/ Discard

AbsSpec == AbsInit /\ [][AbsNext]_avars
=============================================================================
