---------------------- MODULE MemoryBoundedQueue_proofs ----------------------
(***************************************************************************)
(* Every critical section of the memory-bounded queue preserves its type,   *)
(* its accounting, its memory bound and its sessions, for any set of items *)
(* with any sizes and for any limit.  Neither the type nor the bound is      *)
(* inductive by itself: that the byte counter stays a natural number when    *)
(* an item leaves follows from the accounting only.                         *)
(***************************************************************************)
EXTENDS MemoryBoundedQueue, TLAPS

QueueInv == QueueType /\ Accounted /\ MemoryBound /\ OneSession

\* A queue that was emptied, its counter reset with it, is in order.
LEMMA EmptyInv ==
    QueueType /\ queue = <<>> /\ currentBytes = 0 => QueueInv
<1> SUFFICES ASSUME QueueType, queue = <<>>, currentBytes = 0
             PROVE  QueueInv
    OBVIOUS
<1> DEFINE left == [i \in 0..0 |-> 0]
<1>1. Len(queue) = 0
    OBVIOUS
<1>2. left \in [0..Len(queue) -> 0..currentBytes] /\ IsAccount(left)
    BY <1>1 DEF IsAccount
<1>3. Accounted
    BY <1>2 DEF Accounted
<1>4. MemoryBound /\ OneSession
    BY <1>1, MaxBytesAssumption DEF MemoryBound, OneSession
<1> QED
    BY <1>3, <1>4 DEF QueueInv

\* __init__(): a new queue is empty.
LEMMA InitInv == QueueInit => QueueInv
<1> SUFFICES ASSUME QueueInit PROVE QueueInv
    OBVIOUS
<1>1. queue = <<>> /\ currentBytes = 0 /\ session = 0
    BY DEF QueueInit
<1>2. closed \in BOOLEAN
    BY Zenon DEF QueueInit
<1> QED
    BY <1>1, <1>2, EmptyInv DEF QueueType

\* put(): what it enqueues is added to every suffix that holds it.
LEMMA AppendInv ==
    ASSUME QueueInv, NEW item \in Items, AppendItem(item)
    PROVE  QueueInv'
<1> DEFINE n == Len(queue)
           s == Size[item]
<1>1. /\ queue \in Seq(Entries) /\ currentBytes \in Nat /\ session \in Nat
      /\ n \in Nat /\ s \in Nat /\ s > 0 /\ MaxBytes \in Nat
    BY SizeAssumption, MaxBytesAssumption DEF QueueInv, QueueType
<1>2. /\ queue' = Append(queue, [item |-> item, session |-> session])
      /\ currentBytes' = currentBytes + s
      /\ session' = session /\ closed' = closed
    BY DEF AppendItem
<1>3. /\ Len(queue') = n + 1
      /\ \A i \in 1..n : queue'[i] = queue[i]
      /\ queue'[n + 1] = [item |-> item, session |-> session]
    BY <1>1, <1>2
<1>4. QueueType'
    BY <1>1, <1>2 DEF QueueInv, QueueType, Entries
<1>5. OneSession'
    BY <1>1, <1>2, <1>3 DEF QueueInv, OneSession
<1>6. MemoryBound'
    <2>1. CASE queue = <<>>
        BY <1>1, <1>3, <2>1 DEF MemoryBound
    <2>2. CASE currentBytes + s <= MaxBytes
        BY <1>2, <2>2 DEF MemoryBound
    <2> QED
        BY <2>1, <2>2 DEF AppendItem, Fits
<1>7. Accounted'
    <2>1. PICK left \in [0..n -> 0..currentBytes] : IsAccount(left)
        BY DEF QueueInv, Accounted
    <2> PICK longer : longer = [i \in 0..n + 1 |-> IF i = n + 1 THEN 0 ELSE left[i] + s]
        OBVIOUS
    <2>2. \A i \in 0..n : left[i] \in Nat /\ left[i] <= currentBytes
        BY <1>1, <2>1
    <2>3. longer \in [0..n + 1 -> 0..currentBytes + s]
        BY <1>1, <2>2
    <2>4. longer[0] = currentBytes + s /\ longer[n + 1] = 0
        BY <1>1, <2>1 DEF IsAccount
    <2>5. ASSUME NEW i \in 1..n + 1
          PROVE  longer[i - 1] = longer[i] + Size[queue'[i].item]
        <3>1. CASE i = n + 1
            <4>1. longer[i - 1] = left[n] + s /\ longer[i] = 0
                BY <1>1, <3>1
            <4> QED
                BY <1>1, <1>3, <2>1, <3>1, <4>1 DEF IsAccount
        <3>2. CASE i \in 1..n
            <4>1. longer[i - 1] = left[i - 1] + s /\ longer[i] = left[i] + s
                BY <1>1, <3>2
            <4>2. left[i - 1] = left[i] + Size[queue[i].item]
                BY <2>1, <3>2 DEF IsAccount
            <4>3. queue[i] \in Entries
                BY <1>1, <3>2
            <4>5. Size[queue[i].item] \in Nat
                BY <4>3, SizeAssumption DEF Entries
            <4>4. left[i] \in Nat /\ left[i - 1] \in Nat /\ queue'[i] = queue[i]
                BY <1>1, <1>3, <2>2, <3>2
            <4> QED
                BY <1>1, <4>1, <4>2, <4>5, <4>4
        <3> QED
            BY <1>1, <3>1, <3>2
    <2>6. ASSUME NEW i \in 0..n + 1, NEW j \in 0..n + 1, i <= j
          PROVE  longer[j] <= longer[i]
        BY <1>1, <2>1, <2>2, <2>6 DEF IsAccount
    <2>7. IsAccount(longer)'
        BY <1>2, <1>3, <2>4, <2>5, <2>6 DEF IsAccount
    <2> QED
        BY <1>2, <1>3, <2>3, <2>7 DEF Accounted
<1> QED
    BY <1>4, <1>5, <1>6, <1>7 DEF QueueInv

\* get(): the item that leaves is the one the account starts with, so the
\* counter cannot fall below zero.
LEMMA PopInv ==
    ASSUME QueueInv, PopItem
    PROVE  QueueInv'
<1> DEFINE n == Len(queue)
           s == Size[Head(queue).item]
<1>1. /\ queue \in Seq(Entries) /\ currentBytes \in Nat /\ session \in Nat
      /\ n \in Nat /\ n > 0 /\ queue[1] \in Entries /\ Head(queue) = queue[1]
    BY DEF QueueInv, QueueType, PopItem
<1>2. /\ queue' = Tail(queue)
      /\ currentBytes' = currentBytes - s
      /\ session' = session /\ closed' = closed
    BY DEF PopItem
<1>3. /\ Len(queue') = n - 1
      /\ \A i \in 1..n - 1 : queue'[i] = queue[i + 1]
      /\ queue' \in Seq(Entries)
    BY <1>1, <1>2
<1>4. s \in Nat /\ s > 0
    BY <1>1, SizeAssumption DEF Entries
<1>5. PICK left \in [0..n -> 0..currentBytes] : IsAccount(left)
    BY DEF QueueInv, Accounted
<1>6. /\ \A i \in 0..n : left[i] \in Nat
      /\ left[0] = currentBytes /\ left[n] = 0
      /\ \A i \in 1..n : left[i - 1] = left[i] + Size[queue[i].item]
      /\ \A i, j \in 0..n : i <= j => left[j] <= left[i]
    BY <1>1, <1>5 DEF IsAccount
<1>7. left[1] = currentBytes - s /\ left[1] \in Nat
    <2>1. left[0] = left[1] + Size[queue[1].item] /\ left[1] \in Nat
        BY <1>1, <1>6
    <2> QED
        BY <1>1, <1>4, <1>6, <2>1
<1>8. QueueType'
    BY <1>2, <1>3, <1>7 DEF QueueInv, QueueType
<1>9. OneSession'
    BY <1>1, <1>2, <1>3 DEF QueueInv, OneSession
<1>10. MemoryBound'
    <2>1. CASE currentBytes <= MaxBytes
        BY <1>1, <1>2, <1>4, <2>1, MaxBytesAssumption DEF MemoryBound
    <2>2. CASE n = 1
        BY <1>2, <1>6, <1>7, <2>2, MaxBytesAssumption DEF MemoryBound
    <2> QED
        BY <2>1, <2>2 DEF QueueInv, MemoryBound
<1>11. Accounted'
    <2> PICK shorter : shorter = [i \in 0..n - 1 |-> left[i + 1]]
        OBVIOUS
    <2>1. \A i \in 0..n - 1 : shorter[i] = left[i + 1] /\ i + 1 \in 0..n
        BY <1>1
    <2>2. shorter \in [0..n - 1 -> 0..currentBytes - s]
        <3>1. \A i \in 0..n - 1 : left[i + 1] <= left[1] /\ left[i + 1] \in Nat
            BY <1>1, <1>6
        <3> QED
            BY <1>1, <1>7, <3>1
    <2>3. shorter[0] = currentBytes - s /\ shorter[n - 1] = 0
        BY <1>1, <1>6, <1>7, <2>1
    <2>4. ASSUME NEW i \in 1..n - 1
          PROVE  shorter[i - 1] = shorter[i] + Size[queue'[i].item]
        <3>1. shorter[i - 1] = left[i] /\ shorter[i] = left[i + 1]
            BY <1>1, <2>1
        <3>2. left[i] = left[i + 1] + Size[queue[i + 1].item]
            <4>1. i + 1 \in 1..n /\ (i + 1) - 1 = i
                BY <1>1
            <4> QED
                BY <1>6, <4>1
        <3> QED
            BY <1>3, <3>1, <3>2
    <2>5. ASSUME NEW i \in 0..n - 1, NEW j \in 0..n - 1, i <= j
          PROVE  shorter[j] <= shorter[i]
        BY <1>1, <1>6, <2>1, <2>5
    <2>6. IsAccount(shorter)'
        BY <1>2, <1>3, <2>3, <2>4, <2>5 DEF IsAccount
    <2> QED
        BY <1>2, <1>3, <2>2, <2>6 DEF Accounted
<1> QED
    BY <1>8, <1>9, <1>10, <1>11 DEF QueueInv

\* clear() and new_session(): both leave an empty queue.
LEMMA EmptiedInv ==
    ASSUME QueueInv, ClearItems \/ NewSession
    PROVE  QueueInv'
<1>1. queue' = <<>> /\ currentBytes' = 0 /\ closed' = closed
    BY DEF ClearItems, NewSession
<1>2. session' \in Nat
    BY DEF QueueInv, QueueType, ClearItems, NewSession
<1>3. QueueType'
    BY <1>1, <1>2 DEF QueueInv, QueueType
<1>4. (QueueType /\ queue = <<>> /\ currentBytes = 0 => QueueInv)'
    BY EmptyInv, PTL
<1> QED
    BY <1>1, <1>3, <1>4

\* A step that changes neither the items, nor their bytes, nor the session.
LEMMA SameInv ==
    ASSUME QueueInv, UNCHANGED <<queue, currentBytes, session>>, closed' \in BOOLEAN
    PROVE  QueueInv'
<1>1. queue' = queue /\ currentBytes' = currentBytes /\ session' = session
    OBVIOUS
<1> QED
    BY <1>1 DEF QueueInv, QueueType, Accounted, IsAccount, MemoryBound, OneSession
=============================================================================
