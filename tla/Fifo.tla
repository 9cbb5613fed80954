-------------------------------- MODULE Fifo --------------------------------
(***************************************************************************)
(* A first-in first-out buffer: items are appended in order, several at    *)
(* once, never past the capacity, and leave in the same order.  CirBuffer  *)
(* and Channel implement it.                                               *)
(***************************************************************************)
EXTENDS Integers, Sequences

CONSTANTS Items, Capacity

VARIABLE queue

FifoInit == queue = <<>>

Append1OrMore ==
  /\ Len(queue') \in Len(queue) + 1 .. Capacity
  /\ \A i \in 1 .. Len(queue') : queue'[i] \in Items
  /\ SubSeq(queue', 1, Len(queue)) = queue

Remove1OrMore ==
  \E n \in 1 .. Len(queue) : queue' = SubSeq(queue, n + 1, Len(queue))

FifoNext == Append1OrMore \/ Remove1OrMore

FifoSpec == FifoInit /\ [][FifoNext]_queue
=============================================================================
