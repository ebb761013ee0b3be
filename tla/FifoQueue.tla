------------------------------- MODULE FifoQueue -------------------------------
(***************************************************************************)
(* What a queue promises when one thread makes all the calls: each call is *)
(* one step, and result holds what the last one returned, <<1>> and        *)
(* <<1, value>> for success, <<0>> for failure.                            *)
(***************************************************************************)
EXTENDS Naturals, Sequences

CONSTANT Values

VARIABLES queue, result

FifoInit == queue = <<>> /\ result = <<>>

EnqOk(v) == queue' = Append(queue, v) /\ result' = <<1>>

EnqRefused == UNCHANGED queue /\ result' = <<0>>

DeqOk ==
  /\ queue # <<>>
  /\ queue' = Tail(queue)
  /\ result' = <<1, Head(queue)>>

DeqFails == queue = <<>> /\ UNCHANGED queue /\ result' = <<0>>

(* destroy_queue and init_queue. *)
Discard == queue' = <<>> /\ result' = <<>>

FifoNext ==
  (\E v \in Values : EnqOk(v)) \/ EnqRefused \/ DeqOk \/ DeqFails \/ Discard

FifoSpec == FifoInit /\ [][FifoNext]_<<queue, result>>
=============================================================================
