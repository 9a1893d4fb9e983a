------------------------- MODULE QueueThreads_proofs -------------------------
(***************************************************************************)
(* The invariants of the queue and its threads, for any number of producers *)
(* and consumers, any items and sizes, and any limit.                       *)
(***************************************************************************)
EXTENDS QueueThreads, MemoryBoundedQueue_proofs, FiniteSetTheorems

\* What a thread puts is one of the items.
LEMMA PuttingItem ==
    ASSUME TypeOK, NEW p \in Producers, producer[p] # "idle"
    PROVE  putting[p] \in Items
BY DEF TypeOK

\* The part of a type that no step of the queue is about: the threads.
ThreadsType ==
    /\ producer \in [Producers -> ThreadStates]
    /\ putting \in [Producers -> Items \cup {Nobody}]
    /\ \A p \in Producers : producer[p] = "idle" <=> putting[p] = Nobody
    /\ consumer \in [Consumers -> ThreadStates]

\* notify() and notify_all() on _not_full leave the producers in order.
LEMMA WakeProducerType ==
    ASSUME ThreadsType, UNCHANGED putting, WakeOneProducer \/ WakeProducers
    PROVE  /\ producer' \in [Producers -> ThreadStates]
           /\ \A p \in Producers : producer'[p] = "idle" <=> putting'[p] = Nobody
<1>1. CASE WakeOneProducer
    BY <1>1 DEF ThreadsType, WakeOneProducer, Waiting, ThreadStates
<1>2. CASE WakeProducers
    BY <1>2 DEF ThreadsType, WakeProducers, Waiting, ThreadStates
<1> QED
    BY <1>1, <1>2

\* A producer that leaves put() has no item any more.
LEMMA LeaveType ==
    ASSUME ThreadsType, NEW p \in Producers, Leave(p)
    PROVE  /\ producer' \in [Producers -> ThreadStates]
           /\ putting' \in [Producers -> Items \cup {Nobody}]
           /\ \A q \in Producers : producer'[q] = "idle" <=> putting'[q] = Nobody
BY DEF ThreadsType, Leave, ThreadStates

\* notify() on _not_empty leaves the consumers in order.
LEMMA WakeConsumerType ==
    ASSUME ThreadsType, WakeOneConsumer \/ WakeConsumers \/ UNCHANGED consumer
    PROVE  consumer' \in [Consumers -> ThreadStates]
BY DEF ThreadsType, WakeOneConsumer, WakeConsumers, Sleeping, ThreadStates

\* The invariant that the steps preserve: the types need the account of the
\* queue (its counter stays a natural number), the account needs the types.
Inv == TypeOK /\ QueueInv

\* Each step preserves the invariant.
LEMMA StepInv == Inv /\ [Next]_vars => Inv'
<1> SUFFICES ASSUME Inv, [Next]_vars PROVE Inv'
    OBVIOUS
<1>0. ThreadsType /\ QueueInv /\ discard \in BOOLEAN /\ Nobody \notin Items
    BY ThreadsAssumption DEF Inv, TypeOK, ThreadsType
<1>a. ASSUME QueueInv', ThreadsType', discard' \in BOOLEAN PROVE Inv'
    BY <1>a DEF Inv, TypeOK, ThreadsType, QueueInv
<1>b. ASSUME UNCHANGED queueVars PROVE QueueInv'
    <2>1. closed \in BOOLEAN /\ closed' = closed
        BY <1>0, <1>b DEF QueueInv, QueueType, queueVars
    <2>2. closed' \in BOOLEAN
        BY Zenon, <2>1
    <2>3. UNCHANGED <<queue, currentBytes, session>>
        BY <1>b DEF queueVars
    <2> QED
        BY <1>0, <2>2, <2>3, SameInv
<1>1. ASSUME NEW p \in Producers, NEW item \in Items, PutCall(p, item) PROVE Inv'
    <2>1. ThreadsType'
        BY <1>0, <1>1 DEF PutCall, ThreadsType, ThreadStates
    <2>2. UNCHANGED queueVars /\ discard' \in BOOLEAN
        BY Zenon, <1>0, <1>1 DEF PutCall
    <2> QED
        BY <1>a, <1>b, <2>1, <2>2
<1>2. ASSUME NEW p \in Producers, PutAppend(p) PROVE Inv'
    <2>1. putting[p] \in Items
        BY <1>2, PuttingItem DEF Inv, PutAppend
    <2>2. QueueInv'
        BY <1>0, <1>2, <2>1, AppendInv DEF PutAppend
    <2>3. ThreadsType'
        BY <1>0, <1>2, LeaveType, WakeConsumerType DEF PutAppend, ThreadsType
    <2>4. discard' \in BOOLEAN
        BY Zenon, <1>0, <1>2 DEF PutAppend
    <2> QED
        BY <1>a, <2>2, <2>3, <2>4
<1>3. ASSUME NEW p \in Producers, PutDrop(p) \/ PutFull(p) PROVE Inv'
    <2>1. ThreadsType'
        BY <1>0, <1>3, LeaveType DEF PutDrop, PutFull, ThreadsType
    <2>2. UNCHANGED queueVars /\ discard' \in BOOLEAN
        BY Zenon, <1>0, <1>3 DEF PutDrop, PutFull
    <2> QED
        BY <1>a, <1>b, <2>1, <2>2
<1>4. ASSUME NEW p \in Producers, PutWait(p) \/ PutPoll(p) PROVE Inv'
    <2>1. ThreadsType'
        BY <1>0, <1>4 DEF PutWait, PutPoll, ThreadsType, ThreadStates
    <2>2. UNCHANGED queueVars /\ discard' \in BOOLEAN
        BY Zenon, <1>0, <1>4 DEF PutWait, PutPoll
    <2> QED
        BY <1>a, <1>b, <2>1, <2>2
<1>5. ASSUME NEW c \in Consumers, GetItem(c) PROVE Inv'
    <2>1. QueueInv'
        BY <1>0, <1>5, PopInv DEF GetItem
    <2>2. ThreadsType'
        <3>1. consumer' \in [Consumers -> ThreadStates]
            BY <1>0, <1>5 DEF GetItem, ThreadsType, ThreadStates
        <3> QED
            BY <1>0, <1>5, <3>1, WakeProducerType DEF GetItem, ThreadsType
    <2>3. discard' \in BOOLEAN
        BY Zenon, <1>0, <1>5 DEF GetItem
    <2> QED
        BY <1>a, <2>1, <2>2, <2>3
<1>6. ASSUME NEW c \in Consumers, GetCall(c) \/ GetWait(c) \/ GetEmpty(c) \/ GetTimeout(c)
      PROVE  Inv'
    <2>1. ThreadsType'
        BY <1>0, <1>6 DEF GetCall, GetWait, GetEmpty, GetTimeout, ThreadsType, ThreadStates
    <2>2. UNCHANGED queueVars /\ discard' \in BOOLEAN
        BY Zenon, <1>0, <1>6 DEF GetCall, GetWait, GetEmpty, GetTimeout
    <2> QED
        BY <1>a, <1>b, <2>1, <2>2
<1>7. ASSUME Clear \/ StartSession PROVE Inv'
    <2>1. QueueInv'
        BY <1>0, <1>7, EmptiedInv DEF Clear, StartSession
    <2>2. ThreadsType'
        BY <1>0, <1>7, WakeProducerType DEF Clear, StartSession, ThreadsType
    <2>3. discard' \in BOOLEAN
        BY Zenon, <1>0, <1>7 DEF Clear, StartSession
    <2> QED
        BY <1>a, <2>1, <2>2, <2>3
<1>8. CASE Close
    <2>1. UNCHANGED <<queue, currentBytes, session>>
        BY <1>8 DEF Close, CloseQueue
    <2>2. closed' \in BOOLEAN /\ discard' \in BOOLEAN
        BY Zenon, <1>0, <1>8 DEF Close, CloseQueue
    <2>3. QueueInv'
        BY <1>0, <2>1, <2>2, SameInv
    <2>4. ThreadsType'
        BY <1>0, <1>8, WakeProducerType, WakeConsumerType DEF Close, ThreadsType
    <2> QED
        BY <1>a, <2>2, <2>3, <2>4
<1>9. CASE ToggleDiscard
    <2>1. ThreadsType'
        BY <1>0, <1>9 DEF ToggleDiscard, ThreadsType
    <2>2. UNCHANGED queueVars /\ discard' \in BOOLEAN
        BY Zenon, <1>0, <1>9 DEF ToggleDiscard
    <2> QED
        BY <1>a, <1>b, <2>1, <2>2
<1>10. CASE UNCHANGED vars
    <2>1. ThreadsType'
        BY <1>0, <1>10 DEF vars, ThreadsType
    <2>2. UNCHANGED queueVars /\ discard' \in BOOLEAN
        BY Zenon, <1>0, <1>10 DEF vars, queueVars
    <2> QED
        BY <1>a, <1>b, <2>1, <2>2
<1> QED
    BY <1>1, <1>2, <1>3, <1>4, <1>5, <1>6, <1>7, <1>8, <1>9, <1>10 DEF Next, Put, Get

\* __init__(): nobody waits.
LEMMA StartInv == Init => Inv
<1> SUFFICES ASSUME Init PROVE Inv
    OBVIOUS
<1>1. QueueInv
    BY InitInv DEF Init
<1>2. discard \in BOOLEAN
    BY Zenon DEF Init
<1>3. ThreadsType
    BY DEF Init, ThreadsType, ThreadStates
<1> QED
    BY <1>1, <1>2, <1>3 DEF Inv, TypeOK, ThreadsType, QueueInv

\* What every behaviour of the threads keeps.
LEMMA AlwaysInv == Spec => []Inv
BY StartInv, StepInv, PTL DEF Spec

\* Every variable keeps its type: the byte counter, which get() only decrements
\* by the size of what it takes, never goes below zero, and a thread has an item
\* in its hand exactly while it is in put() (memory_queue.py).
THEOREM QueueTypes == Spec => []TypeOK
<1>1. Inv => TypeOK
    BY DEF Inv
<1> QED
    BY <1>1, AlwaysInv, PTL

\* However many threads put, the queue never accounts for more than its limit,
\* unless it holds a single item that is larger by itself (memory_queue.py: put).
THEOREM QueueBounded == Spec => []MemoryBound
<1>1. Inv => MemoryBound
    BY DEF Inv, QueueInv
<1> QED
    BY <1>1, AlwaysInv, PTL

\* The byte counter is at every moment the sum of the sizes of what is queued,
\* and what is queued is of the current session (memory_queue.py:
\* get_with_session, clear, new_session, close).
THEOREM QueueSafety == Spec => [](Accounted /\ OneSession)
<1>1. Inv => Accounted /\ OneSession
    BY DEF Inv, QueueInv
<1> QED
    BY <1>1, AlwaysInv, PTL

-----------------------------------------------------------------------------
(* The consumers that are awake, counted as one of them changes its state.  *)

\* The consumers that are about to look at the queue.
Awake == {c \in Consumers : consumer[c] = "ready"}

\* There are finitely many threads.
LEMMA AwakeCount == IsFiniteSet(Awake) /\ Cardinality(Awake) \in Nat
<1>1. Awake \subseteq Consumers /\ IsFiniteSet(Consumers)
    BY ThreadsAssumption DEF Awake
<1> QED
    BY <1>1, FS_Subset, FS_CardinalityType

\* A consumer that wakes up or enters get() is one more.
LEMMA OneMoreAwake ==
    ASSUME consumer \in [Consumers -> ThreadStates], NEW c \in Consumers, consumer[c] # "ready",
           consumer' = [consumer EXCEPT ![c] = "ready"]
    PROVE  Cardinality(Awake') = Cardinality(Awake) + 1
<1>1. Awake' = Awake \cup {c} /\ c \notin Awake
    BY DEF Awake, ThreadStates
<1> QED
    BY <1>1, AwakeCount, FS_AddElement

\* A consumer that falls asleep or leaves get() is one less.
LEMMA OneLessAwake ==
    ASSUME consumer \in [Consumers -> ThreadStates], NEW c \in Consumers, consumer[c] = "ready",
           NEW s \in {"idle", "waiting"}, consumer' = [consumer EXCEPT ![c] = s]
    PROVE  Cardinality(Awake') = Cardinality(Awake) - 1
<1>1. Awake' = Awake \ {c} /\ c \in Awake
    BY DEF Awake, ThreadStates
<1> QED
    BY <1>1, AwakeCount, FS_RemoveElement

\* No step loses a wake-up.
LEMMA StepNoSleep == Inv /\ NoSleepOnItem /\ [Next]_vars => NoSleepOnItem'
<1> SUFFICES ASSUME Inv, NoSleepOnItem, [Next]_vars, Sleeping' # {}
             PROVE  Len(queue') <= Cardinality(Awake') /\ ~closed'
    BY DEF NoSleepOnItem, Awake
<1>0. /\ consumer \in [Consumers -> ThreadStates]
      /\ queue \in Seq(Entries) /\ Len(queue) \in Nat
      /\ Cardinality(Awake) \in Nat
      /\ Sleeping # {} => Len(queue) <= Cardinality(Awake) /\ ~closed
    BY AwakeCount DEF Inv, TypeOK, QueueType, NoSleepOnItem, Awake
<1>n. Cardinality(Awake') \in Nat
    <2>1. (Cardinality(Awake) \in Nat)'
        BY AwakeCount, PTL
    <2> QED
        BY <2>1
<1>a. ASSUME UNCHANGED <<queue, closed, consumer>>
      PROVE  Len(queue') <= Cardinality(Awake') /\ ~closed'
    <2>1. Sleeping # {} /\ Awake' = Awake
        BY <1>a DEF Sleeping, Awake
    <2>2. ~closed'
        BY Zenon, <1>0, <1>a, <2>1
    <2> QED
        BY <1>0, <1>a, <2>1, <2>2
<1>1. ASSUME NEW p \in Producers, PutAppend(p)
      PROVE  Len(queue') <= Cardinality(Awake') /\ ~closed'
    <2>1. Len(queue') = Len(queue) + 1 /\ closed' = closed
        BY <1>0, <1>1 DEF PutAppend, AppendItem
    <2>2. PICK c \in Sleeping : consumer' = [consumer EXCEPT ![c] = "ready"]
        BY <1>1 DEF PutAppend, WakeOneConsumer, Sleeping
    <2>3. Cardinality(Awake') = Cardinality(Awake) + 1
        BY <1>0, <2>2, OneMoreAwake DEF Sleeping
    <2>4. ~closed'
        BY Zenon, <1>0, <2>1, <2>2
    <2> QED
        BY <1>0, <2>1, <2>2, <2>3, <2>4
<1>2. ASSUME NEW p \in Producers,
             \/ \E item \in Items : PutCall(p, item)
             \/ PutDrop(p) \/ PutWait(p) \/ PutFull(p) \/ PutPoll(p)
      PROVE  Len(queue') <= Cardinality(Awake') /\ ~closed'
    BY <1>a, <1>2 DEF PutCall, PutDrop, PutWait, PutFull, PutPoll, queueVars
<1>3. ASSUME NEW c \in Consumers, GetCall(c) \/ GetTimeout(c)
      PROVE  Len(queue') <= Cardinality(Awake') /\ ~closed'
    <2>1. /\ consumer[c] # "ready" /\ consumer' = [consumer EXCEPT ![c] = "ready"]
          /\ queue' = queue /\ closed' = closed
        BY <1>3 DEF GetCall, GetTimeout, queueVars
    <2>2. Sleeping # {}
        BY <1>0, <2>1 DEF Sleeping, ThreadStates
    <2>3. Cardinality(Awake') = Cardinality(Awake) + 1
        BY <1>0, <2>1, OneMoreAwake
    <2>4. ~closed'
        BY Zenon, <1>0, <2>1, <2>2
    <2> QED
        BY <1>0, <2>1, <2>2, <2>3, <2>4
<1>4. ASSUME NEW c \in Consumers, GetItem(c)
      PROVE  Len(queue') <= Cardinality(Awake') /\ ~closed'
    <2>1. /\ consumer[c] = "ready" /\ consumer' = [consumer EXCEPT ![c] = "idle"]
          /\ Len(queue') = Len(queue) - 1 /\ closed' = closed
        BY <1>0, <1>4 DEF GetItem, PopItem
    <2>2. Sleeping # {}
        BY <1>0, <2>1 DEF Sleeping, ThreadStates
    <2>3. Cardinality(Awake') = Cardinality(Awake) - 1
        BY <1>0, <2>1, OneLessAwake
    <2>4. ~closed'
        BY Zenon, <1>0, <2>1, <2>2
    <2> QED
        BY <1>0, <2>1, <2>2, <2>3, <2>4
<1>5. ASSUME NEW c \in Consumers, GetWait(c)
      PROVE  Len(queue') <= Cardinality(Awake') /\ ~closed'
    <2>1. Len(queue') = 0
        BY <1>5 DEF GetWait, queueVars
    <2>2. ~closed'
        BY Zenon, <1>5 DEF GetWait, queueVars
    <2> QED
        BY <1>n, <2>1, <2>2
<1>6. ASSUME NEW c \in Consumers, GetEmpty(c)
      PROVE  Len(queue') <= Cardinality(Awake') /\ ~closed'
    <2>1. /\ consumer[c] = "ready" /\ consumer' = [consumer EXCEPT ![c] = "idle"]
          /\ Len(queue') = 0 /\ closed' = closed
        BY <1>6 DEF GetEmpty, queueVars
    <2>2. Sleeping # {}
        BY <1>0, <2>1 DEF Sleeping, ThreadStates
    <2>3. ~closed'
        BY Zenon, <1>0, <2>1, <2>2
    <2> QED
        BY <1>n, <2>1, <2>3
<1>7. ASSUME Clear \/ StartSession
      PROVE  Len(queue') <= Cardinality(Awake') /\ ~closed'
    <2>1. Len(queue') = 0 /\ closed' = closed /\ consumer' = consumer
        BY <1>7 DEF Clear, StartSession, ClearItems, NewSession
    <2>2. Sleeping # {}
        BY <2>1 DEF Sleeping
    <2>3. ~closed'
        BY Zenon, <1>0, <2>1, <2>2
    <2> QED
        BY <1>n, <2>1, <2>3
<1>8. CASE Close
    BY <1>0, <1>8 DEF Close, WakeConsumers, Sleeping, ThreadStates
<1>9. CASE ToggleDiscard \/ UNCHANGED vars
    BY <1>a, <1>9 DEF ToggleDiscard, vars, queueVars
<1> QED
    BY <1>1, <1>2, <1>3, <1>4, <1>5, <1>6, <1>7, <1>8, <1>9 DEF Next, Put, Get

\* No wake-up is lost, however many consumers sleep on _not_empty: it is enough
\* that put() notifies one of them and close() all.
THEOREM NoLostWakeUp == Spec => []NoSleepOnItem
<1>1. Init => NoSleepOnItem
    BY DEF Init, NoSleepOnItem, Sleeping
<1>2. Inv /\ NoSleepOnItem /\ [Next]_vars => NoSleepOnItem'
    BY StepNoSleep
<1> QED
    BY <1>1, <1>2, StartInv, StepInv, PTL DEF Spec
=============================================================================
