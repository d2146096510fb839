-------------------------------- MODULE Fifo --------------------------------
(***************************************************************************)
(* A bounded first-in first-out queue: what the four rings of the          *)
(* scheduler are used as, and the form they have in Scheduler.tla.         *)
(***************************************************************************)
EXTENDS Naturals, Sequences

CONSTANTS Capacity, Value

VARIABLE queue

FifoInit == queue \in Seq(Value) /\ Len(queue) <= Capacity

Enqueue(v) ==
    /\ Len(queue) < Capacity
    /\ queue' = Append(queue, v)

Dequeue ==
    /\ queue # <<>>
    /\ queue' = Tail(queue)

FifoNext == (\E v \in Value : Enqueue(v)) \/ Dequeue

FifoSpec == FifoInit /\ [][FifoNext]_queue

=============================================================================
