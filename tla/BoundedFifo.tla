----------------------------- MODULE BoundedFifo -----------------------------
(* What the event bus promises: a queue of bounded length that refuses the   *)
(* newest event when it is full and hands the others out in order.           *)
EXTENDS Naturals, Sequences

CONSTANTS Events, Capacity

VARIABLE fifo

Init == fifo = <<>>

Post(e) == /\ Len(fifo) < Capacity
           /\ fifo' = Append(fifo, e)

Take == /\ fifo # <<>>
        /\ fifo' = Tail(fifo)

Next == (\E e \in Events : Post(e)) \/ Take

Spec == Init /\ [][Next]_fifo
=============================================================================
