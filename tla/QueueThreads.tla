---------------------------- MODULE QueueThreads ----------------------------
(***************************************************************************)
(* The threads around a MemoryBoundedQueue: producers blocked in put() on   *)
(* the condition variable _not_full, consumers blocked in get() on          *)
(* _not_empty, an owner that clears the queue, starts sessions or closes    *)
(* it, and the outside condition discard_when() that nobody announces on   *)
(* either condition variable.                                              *)
(*                                                                         *)
(* A thread is "ready" when it may take the lock and evaluate its loop      *)
(* condition, "waiting" while it sleeps on its condition variable.          *)
(***************************************************************************)
EXTENDS MemoryBoundedQueue, FiniteSets

CONSTANTS
    Producers,    \* threads that call put()
    Consumers,    \* threads that call get() or get_with_session()
    TimedPut,     \* the producers that call put() with a timeout
    TimedGet,     \* the consumers that call get() with a timeout
    Nobody,       \* the item of a producer outside put()
    MaxSessions   \* bound of the model: how often new_session() is called

ASSUME ThreadsAssumption ==
    /\ Nobody \notin Items
    /\ TimedPut \subseteq Producers
    /\ TimedGet \subseteq Consumers
    /\ IsFiniteSet(Consumers)
    /\ MaxSessions \in Nat

VARIABLES
    producer,  \* [Producers -> "idle" | "ready" | "waiting"]
    putting,   \* the item of the put() a producer is in
    consumer,  \* [Consumers -> "idle" | "ready" | "waiting"]
    discard    \* what discard_when() returns

vars == <<queue, currentBytes, session, closed, producer, putting, consumer, discard>>

ThreadStates == {"idle", "ready", "waiting"}

\* Every variable has its type.
TypeOK ==
    /\ QueueType
    /\ producer \in [Producers -> ThreadStates]
    /\ putting \in [Producers -> Items \cup {Nobody}]
    /\ \A p \in Producers : producer[p] = "idle" <=> putting[p] = Nobody
    /\ consumer \in [Consumers -> ThreadStates]
    /\ discard \in BOOLEAN

Init ==
    /\ QueueInit
    /\ producer = [p \in Producers |-> "idle"]
    /\ putting = [p \in Producers |-> Nobody]
    /\ consumer = [c \in Consumers |-> "idle"]
    /\ discard = FALSE

-----------------------------------------------------------------------------
Discards == closed \/ discard

Waiting == {p \in Producers : producer[p] = "waiting"}

Sleeping == {c \in Consumers : consumer[c] = "waiting"}

\* _not_full.notify() and _not_empty.notify(): one waiting thread, if any.
WakeOneProducer ==
    \/ Waiting = {} /\ UNCHANGED producer
    \/ \E p \in Waiting : producer' = [producer EXCEPT ![p] = "ready"]

WakeOneConsumer ==
    \/ Sleeping = {} /\ UNCHANGED consumer
    \/ \E c \in Sleeping : consumer' = [consumer EXCEPT ![c] = "ready"]

\* _not_full.notify_all() and _not_empty.notify_all()
WakeProducers ==
    producer' = [p \in Producers |-> IF p \in Waiting THEN "ready" ELSE producer[p]]

WakeConsumers ==
    consumer' = [c \in Consumers |-> IF c \in Sleeping THEN "ready" ELSE consumer[c]]

\* put() returns or raises.
Leave(p) ==
    /\ producer' = [producer EXCEPT ![p] = "idle"]
    /\ putting' = [putting EXCEPT ![p] = Nobody]

PutCall(p, item) ==
    /\ producer[p] = "idle"
    /\ producer' = [producer EXCEPT ![p] = "ready"]
    /\ putting' = [putting EXCEPT ![p] = item]
    /\ UNCHANGED <<queueVars, consumer, discard>>

\* Mutant: put() notifies only when the queue was empty.
PutAppend_NotifiesFirst(p) ==
    /\ producer[p] = "ready"
    /\ ~Discards
    /\ AppendItem(putting[p])
    /\ Leave(p)
    /\ IF queue = <<>> THEN WakeOneConsumer ELSE UNCHANGED consumer
    /\ UNCHANGED discard

\* The item is enqueued: put() returns True.
PutAppend(p) ==
    /\ producer[p] = "ready"
    /\ ~Discards
    /\ AppendItem(putting[p])
    /\ Leave(p)
    /\ WakeOneConsumer
    /\ UNCHANGED discard

\* The item is dropped, with room or without: put() returns False.
PutDrop(p) ==
    /\ producer[p] = "ready"
    /\ Discards
    /\ Leave(p)
    /\ UNCHANGED <<queueVars, consumer, discard>>

\* No room: sleep until notified, and at most _DISCARD_POLL_SECONDS.
PutWait(p) ==
    /\ producer[p] = "ready"
    /\ ~Fits(putting[p])
    /\ ~Discards
    /\ producer' = [producer EXCEPT ![p] = "waiting"]
    /\ UNCHANGED <<queueVars, putting, consumer, discard>>

\* No room and the caller's timeout is over: put() raises Full.
PutFull(p) ==
    /\ p \in TimedPut
    /\ producer[p] = "ready"
    /\ ~Fits(putting[p])
    /\ ~Discards
    /\ Leave(p)
    /\ UNCHANGED <<queueVars, consumer, discard>>

\* Mutant: only a put() with a timeout limits its sleep.
PutPoll_OnlyTimed(p) ==
    /\ p \in TimedPut
    /\ producer[p] = "waiting"
    /\ producer' = [producer EXCEPT ![p] = "ready"]
    /\ UNCHANGED <<queueVars, putting, consumer, discard>>

\* The poll interval of a sleeping producer is over.
PutPoll(p) ==
    /\ producer[p] = "waiting"
    /\ producer' = [producer EXCEPT ![p] = "ready"]
    /\ UNCHANGED <<queueVars, putting, consumer, discard>>

-----------------------------------------------------------------------------
GetCall(c) ==
    /\ consumer[c] = "idle"
    /\ consumer' = [consumer EXCEPT ![c] = "ready"]
    /\ UNCHANGED <<queueVars, producer, putting, discard>>

GetItem(c) ==
    /\ consumer[c] = "ready"
    /\ PopItem
    /\ consumer' = [consumer EXCEPT ![c] = "idle"]
    /\ WakeOneProducer
    /\ UNCHANGED <<putting, discard>>

GetWait(c) ==
    /\ consumer[c] = "ready"
    /\ queue = <<>>
    /\ ~closed
    /\ consumer' = [consumer EXCEPT ![c] = "waiting"]
    /\ UNCHANGED <<queueVars, producer, putting, discard>>

\* get() raises Empty: the queue is closed, or the timeout is over.
GetEmpty(c) ==
    /\ consumer[c] = "ready"
    /\ queue = <<>>
    /\ closed \/ c \in TimedGet
    /\ consumer' = [consumer EXCEPT ![c] = "idle"]
    /\ UNCHANGED <<queueVars, producer, putting, discard>>

GetTimeout(c) ==
    /\ c \in TimedGet
    /\ consumer[c] = "waiting"
    /\ consumer' = [consumer EXCEPT ![c] = "ready"]
    /\ UNCHANGED <<queueVars, producer, putting, discard>>

-----------------------------------------------------------------------------
Clear ==
    /\ ClearItems
    /\ WakeProducers
    /\ UNCHANGED <<putting, consumer, discard>>

StartSession ==
    /\ session < MaxSessions
    /\ NewSession
    /\ WakeProducers
    /\ UNCHANGED <<putting, consumer, discard>>

\* Mutant: close() notifies one consumer.
Close_WakesOne ==
    /\ ~closed
    /\ CloseQueue
    /\ WakeProducers
    /\ WakeOneConsumer
    /\ UNCHANGED <<putting, discard>>

Close ==
    /\ ~closed
    /\ CloseQueue
    /\ WakeProducers
    /\ WakeConsumers
    /\ UNCHANGED <<putting, discard>>

\* The client connects or disconnects: no condition variable is notified.
ToggleDiscard ==
    /\ discard' = ~discard
    /\ UNCHANGED <<queueVars, producer, putting, consumer>>

Put(p) == PutAppend(p) \/ PutDrop(p) \/ PutWait(p) \/ PutFull(p)

Get(c) == GetItem(c) \/ GetWait(c) \/ GetEmpty(c)

Next ==
    \/ \E p \in Producers :
        \/ \E item \in Items : PutCall(p, item)
        \/ Put(p)
        \/ PutPoll(p)
    \/ \E c \in Consumers :
        \/ GetCall(c)
        \/ Get(c)
        \/ GetTimeout(c)
    \/ Clear
    \/ StartSession
    \/ Close
    \/ ToggleDiscard

\* A thread that can run does run, and a sleep with a time limit ends; nobody
\* has to call put(), get(), clear(), new_session() or close().
Fairness ==
    /\ \A p \in Producers : WF_vars(Put(p)) /\ WF_vars(PutPoll(p))
    /\ \A c \in Consumers : WF_vars(Get(c)) /\ WF_vars(GetTimeout(c))

Spec == Init /\ [][Next]_vars /\ Fairness

-----------------------------------------------------------------------------
\* No lost wake-up, which a get() without a timeout would never recover from:
\* when a consumer sleeps, every item of the queue has a consumer of its own
\* that is awake and about to take it, and the queue was not closed (put() and
\* close() notify under the lock that guards the queue).
NoSleepOnItem ==
    Sleeping # {} =>
        /\ Len(queue) <= Cardinality({c \in Consumers : consumer[c] = "ready"})
        /\ ~closed

\* A producer that waits for room is released by a disconnection, although a
\* disconnection notifies no condition variable: while discard_when() stays
\* true, every put() returns.
DiscardReleasesPut ==
    \A p \in Producers : (discard /\ producer[p] # "idle") ~> (producer[p] = "idle" \/ ~discard)

\* Closing the queue ends every blocked call.
CloseReleasesAll ==
    /\ \A p \in Producers : closed /\ producer[p] # "idle" ~> producer[p] = "idle"
    /\ \A c \in Consumers : closed /\ consumer[c] # "idle" ~> consumer[c] = "idle"
=============================================================================
