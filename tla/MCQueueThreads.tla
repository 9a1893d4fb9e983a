--------------------------- MODULE MCQueueThreads ---------------------------
(* QueueThreads with a limit of 3 bytes: "small" items fit three times,     *)
(* "large" ones once, "oversize" ones only in an empty queue.               *)
EXTENDS QueueThreads

CONSTANTS p1, p2, c1, c2, small, large, oversize

MCProducers == {p1, p2}
MCItems == {small, large, oversize}
MCSize == [i \in MCItems |-> CASE i = small -> 1 [] i = large -> 2 [] i = oversize -> 5]
MCConsumers == {c1, c2}
MCTimedPut == {p2}
MCTimedGet == {c2}
=============================================================================
