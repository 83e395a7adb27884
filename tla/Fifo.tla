-------------------------------- MODULE Fifo --------------------------------
(***************************************************************************)
(* What a queue between two stages promises: what goes in comes out in     *)
(* order, until the queue is drained.                                      *)
(***************************************************************************)
EXTENDS Naturals, Sequences

CONSTANT Capacity

VARIABLE queue

Init  == queue = <<>>
Put   == /\ Len(queue) < Capacity
         /\ queue' # <<>> /\ queue' = Append(queue, queue'[Len(queue')])
Take  == queue # <<>> /\ queue' = Tail(queue)
Drain == queue' = <<>>

Next == Put \/ Take \/ Drain

Spec == Init /\ [][Next]_queue

=============================================================================
