------------------------- MODULE MemoryBoundedQueue -------------------------
(***************************************************************************)
(* The data structure of FIREQ_SERVER/utils/memory_queue.py: a FIFO that    *)
(* is bounded by the estimated bytes of its items and not by their number, *)
(* every item being tagged with the session it was put in.                 *)
(*                                                                         *)
(* This module holds the state and the critical sections that change it    *)
(* (each runs under the queue's only lock, so each is one step).  The       *)
(* threads that block on the two condition variables are in QueueThreads;   *)
(* the server's output queue is an instance used by FIREQServer.           *)
(***************************************************************************)
EXTENDS Integers, Sequences

CONSTANTS
    Items,     \* what producers put
    Size,      \* Size[i]: the bytes _estimate_size() finds in item i
    MaxBytes   \* max_memory_bytes

\* sys.getsizeof() is part of every estimate, so no item has size 0.
ASSUME SizeAssumption == Size \in [Items -> Nat \ {0}]
ASSUME MaxBytesAssumption == MaxBytes \in Nat

VARIABLES
    queue,         \* _queue: the deque of [item, session]; its size_bytes is Size[item]
    currentBytes,  \* _current_bytes
    session,       \* _session
    closed         \* _closed

queueVars == <<queue, currentBytes, session, closed>>

Entries == [item : Items, session : Nat]

QueueType ==
    /\ queue \in Seq(Entries)
    /\ currentBytes \in Nat
    /\ session \in Nat
    /\ closed \in BOOLEAN

QueueInit ==
    /\ queue = <<>>
    /\ currentBytes = 0
    /\ session = 0
    /\ closed = FALSE

-----------------------------------------------------------------------------
\* Mutant: the size of the item is not counted.
Fits_AnySize(item) == queue = <<>> \/ currentBytes <= MaxBytes

\* The negation of the condition put() loops on: an item that is larger than
\* the limit fits in an empty queue only.
Fits(item) == queue = <<>> \/ currentBytes + Size[item] <= MaxBytes

\* The end of put(), once there is room and nothing discards the item.
AppendItem(item) ==
    /\ Fits(item)
    /\ queue' = Append(queue, [item |-> item, session |-> session])
    /\ currentBytes' = currentBytes + Size[item]
    /\ session' = session /\ closed' = closed

\* The end of get_with_session(): what it returns is Head(queue).
PopItem ==
    /\ queue # <<>>
    /\ queue' = Tail(queue)
    /\ currentBytes' = currentBytes - Size[Head(queue).item]
    /\ session' = session /\ closed' = closed

\* Mutant: the counter is reset and the items stay.
ClearItems_KeepsQueue ==
    /\ currentBytes' = 0
    /\ queue' = queue /\ session' = session /\ closed' = closed

\* clear()
ClearItems ==
    /\ queue' = <<>>
    /\ currentBytes' = 0
    /\ session' = session /\ closed' = closed

\* Mutant: the counter survives the items.
NewSession_KeepsBytes ==
    /\ queue' = <<>>
    /\ session' = session + 1
    /\ UNCHANGED <<currentBytes, closed>>

\* Mutant: the items of the previous session stay.
NewSession_KeepsItems ==
    /\ session' = session + 1
    /\ UNCHANGED <<queue, currentBytes, closed>>

\* new_session(): what it returns is session'.
NewSession ==
    /\ queue' = <<>>
    /\ currentBytes' = 0
    /\ session' = session + 1
    /\ closed' = closed

\* close()
CloseQueue ==
    /\ closed' = TRUE
    /\ UNCHANGED <<queue, currentBytes, session>>

-----------------------------------------------------------------------------
\* The queue never accounts for more than its limit, unless it holds one single
\* item (which is then larger than the limit by itself): put() admits an
\* oversize item only into an empty queue and admits nothing beside it.
MemoryBound == currentBytes <= MaxBytes \/ Len(queue) = 1

\* left is what the queue would account for if it lost its first i items, for
\* every i: all of currentBytes for 0 and nothing once every item is gone.
IsAccount(left) ==
    /\ left[0] = currentBytes
    /\ left[Len(queue)] = 0
    /\ \A i \in 1..Len(queue) : left[i - 1] = left[i] + Size[queue[i].item]
    /\ \A i, j \in 0..Len(queue) : i <= j => left[j] <= left[i]

\* The byte counter, which put() and get() only adjust, is at every moment the
\* sum of the sizes of the queued items: it drifts neither up, which would block
\* producers for ever, nor below zero.
Accounted == \E left \in [0..Len(queue) -> 0..currentBytes] : IsAccount(left)

\* What is queued was put in the session that is current: new_session() leaves
\* no item of an earlier client behind.
OneSession == \A i \in 1..Len(queue) : queue[i].session = session
=============================================================================
