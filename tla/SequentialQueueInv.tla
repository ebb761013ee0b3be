---------------------------- MODULE SequentialQueueInv ----------------------------
(***************************************************************************)
(* The inductive invariant of SequentialQueue: between two calls every     *)
(* allocated node is in a list, and tail is the last node of the queue.    *)
(***************************************************************************)
EXTENDS SequentialQueue, NodeLists

TailLast == num_threads # 0 => tail = QueuePath[Len(QueuePath)]

IInv == TypeOK /\ Shape({}) /\ TailLast
=============================================================================
