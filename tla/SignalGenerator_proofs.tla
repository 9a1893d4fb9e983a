----------------------- MODULE SignalGenerator_proofs -----------------------
(***************************************************************************)
(* For any number of children, channels and slots: an entry of the drive      *)
(* order stands for the pulse it was set to, and, where the channels divide   *)
(* the samples of every envelope, no envelope overwrites another.             *)
(***************************************************************************)
EXTENDS SignalGenerator, TLAPS

-----------------------------------------------------------------------------
(* The invariant.  That a slot has one owner follows from the next free slot  *)
(* being above all that were given away; what the memories refer to has to    *)
(* be said of the children, which a reset removes with their slots.           *)

\* Whoever writes a word to the wave memory has a slot.
Equipped(c) ==
    /\ ~c.readout /\ (c.kind = "vzgate" \/ (c.kind = "pulse" /\ c.built)) => c.slot # None
    /\ c.kind = "pulse" /\ c.built => c.envelope \in Names \cup {Rectangular}

Owning == \A n \in Names : Equipped(child[n])

SlotsDistinct ==
    /\ \A n \in Names : child[n].slot # None => child[n].kind # "absent" /\ child[n].slot < nextSlot
    /\ \A m, n \in Names : child[m].slot # None /\ child[m].slot = child[n].slot => m = n

\* A word and an entry of the drive order are where the slot of their child is.
Referring ==
    /\ \A s \in 0..Slots - 1 : words[s].owner # None => child[words[s].owner].slot = s
    /\ \A i \in 0..OrderDepth - 1 : ordered[i] # None => child[ordered[i]].slot = order[i]

IInv == TypeOK /\ Owning /\ SlotsDistinct /\ Referring

\* What the invariant says of slots, words and orders makes each entry play its pulse.
LEMMA EntriesPlay == IInv => OrderPlaysItsPulses
<1> SUFFICES ASSUME IInv, NEW i \in 0..OrderDepth - 1, ordered[i] # None
             PROVE  /\ child[ordered[i]].slot = order[i]
                    /\ words[order[i]].owner \in {ordered[i], None}
  BY DEF OrderPlaysItsPulses
<1>1. child[ordered[i]].slot = order[i] /\ order[i] \in 0..Slots - 1 /\ ordered[i] \in Names
  BY DEF IInv, TypeOK, Referring
<1>2. words[order[i]].owner \in Names \cup {None}
  BY <1>1 DEF IInv, TypeOK, Words
<1>3. order[i] # None
  BY <1>1, GeneratorAssumption
<1>4. CASE words[order[i]].owner # None
  <2>1. child[words[order[i]].owner].slot = order[i]
    BY <1>1, <1>4 DEF IInv, Referring
  <2> QED
    BY <1>1, <1>2, <1>3, <1>4, <2>1 DEF IInv, SlotsDistinct
<1> QED
  BY <1>1, <1>4

-----------------------------------------------------------------------------
(* ARITHMETIC OF SEGMENTS *)

\* The number of words a quotient of samples takes is a natural number.
LEMMA Quotient == ASSUME NEW x \in Nat, NEW y \in Nat \ {0} PROVE x \div y \in Nat
BY SMT

\* So is a product, such as the addresses of all channels.
LEMMA Product == ASSUME NEW x \in Nat, NEW y \in Nat PROVE x * y \in Nat
BY SMT

\* A reserved segment has a length, whether or not the channels share it.
LEMMA ReservedNat ==
    ASSUME NEW common \in BOOLEAN, NEW length \in Lengths
    PROVE  Reserved(common, length) \in Nat
BY Quotient, GeneratorAssumption DEF Reserved

\* What is stored keeps the type of the memory.
LEMMA StoreType ==
    ASSUME TypeOK, NEW common \in BOOLEAN, NEW start \in Nat, NEW length \in Nat,
           NEW id \in 0..MaxWrites, Store(common, start, length, id)
    PROVE  memory' \in [0..Channels - 1 -> [0..Depth - 1 -> Samples]]
<1>1. ASSUME NEW c \in 0..Channels - 1, NEW a \in 0..Depth - 1, a >= start
      PROVE  <<id, SampleAt(common, start, c, a)>> \in Samples
  <2>1. a - start \in Nat /\ c \in Nat /\ Channels \in Nat
    BY <1>1, GeneratorAssumption
  <2>2. (a - start) * Channels \in Nat
    BY <2>1, Product
  <2>3. SampleAt(common, start, c, a) \in Nat
    BY <2>1, <2>2 DEF SampleAt
  <2> QED
    BY <2>3 DEF Samples
<1>2. ASSUME NEW c \in 0..Channels - 1, NEW a \in 0..Depth - 1
      PROVE  memory[c][a] \in Samples
  BY DEF TypeOK
<1> QED
  BY <1>1, <1>2 DEF Store

-----------------------------------------------------------------------------
(* WHAT THE STEPS HAVE IN COMMON *)

\* The slots, words and orders.
Slotted == Owning /\ SlotsDistinct /\ Referring

\* A child that is created takes the next slot or none.
LEMMA CreatedSlotted ==
    ASSUME IInv, NEW n \in Names, Free(n), NEW c \in Children, c.kind # "absent",
           child' = [child EXCEPT ![n] = c],
           \/ c.slot = None /\ nextSlot' = nextSlot
           \/ c.slot = nextSlot /\ nextSlot' = nextSlot + 1,
           Equipped(c),
           UNCHANGED <<words, order, ordered>>
    PROVE  Slotted'
<1>1. child[n].slot = None
  BY DEF IInv, SlotsDistinct, Free
<1>2. \A m \in Names : child'[m] = IF m = n THEN c ELSE child[m]
  BY DEF IInv, TypeOK
<1>3. nextSlot \in Nat /\ None \notin Nat
  BY GeneratorAssumption DEF IInv, TypeOK
<1>4. \A m \in Names : child[m].slot \in Nat \cup {None}
  BY DEF IInv, TypeOK, Children
<1>5. Owning'
  BY <1>2 DEF IInv, Owning
<1>6. SlotsDistinct'
  BY <1>2, <1>3, <1>4 DEF IInv, SlotsDistinct
<1>7. ASSUME NEW s \in 0..Slots - 1, words[s].owner # None
      PROVE  child'[words[s].owner].slot = s
  <2>1. words[s].owner \in Names
    BY <1>7 DEF IInv, TypeOK, Words
  <2>2. child[words[s].owner].slot = s /\ s # None
    BY <1>3, <1>7, GeneratorAssumption DEF IInv, Referring
  <2> QED
    BY <1>1, <1>2, <2>1, <2>2
<1>8. ASSUME NEW i \in 0..OrderDepth - 1, ordered[i] # None
      PROVE  child'[ordered[i]].slot = order[i]
  <2>1. ordered[i] \in Names /\ order[i] \in Nat
    BY <1>8, GeneratorAssumption DEF IInv, TypeOK
  <2>2. child[ordered[i]].slot = order[i]
    BY <1>8 DEF IInv, Referring
  <2> QED
    BY <1>1, <1>2, <1>3, <2>1, <2>2
<1> QED
  BY <1>5, <1>6, <1>7, <1>8 DEF Slotted, Referring

\* A step that leaves the slots of the children as they are.
LEMMA KeptSlotted ==
    ASSUME IInv, nextSlot' = nextSlot,
           \A m \in Names : /\ child'[m].slot = child[m].slot /\ child'[m].kind = child[m].kind
                            /\ child'[m].readout = child[m].readout /\ child'[m].built = child[m].built
                            /\ child'[m].envelope = child[m].envelope
    PROVE  /\ Owning' /\ SlotsDistinct'
           /\ UNCHANGED <<words, order, ordered>> => Slotted'
<1>1. Owning'
  BY DEF IInv, Owning, Equipped
<1>2. SlotsDistinct'
  BY DEF IInv, SlotsDistinct
<1>3. \A s \in 0..Slots - 1 : words[s].owner \in Names \cup {None}
  BY DEF IInv, TypeOK, Words
<1>4. \A i \in 0..OrderDepth - 1 : ordered[i] \in Names \cup {None}
  BY DEF IInv, TypeOK
<1>5. UNCHANGED <<words, order, ordered>> => Referring'
  BY <1>3, <1>4 DEF IInv, Referring
<1> QED
  BY <1>1, <1>2, <1>5 DEF Slotted

\* A word goes to the slot of its child, or is that of the readout.
LEMMA WordWritten ==
    ASSUME IInv, NEW n \in Names, NEW word \in Words, word.owner = n, WriteWord(n, word),
           child[n].readout \/ child[n].slot # None
    PROVE  /\ words' \in [0..Slots - 1 -> Words] /\ readoutWord' \in Words
           /\ \A s \in 0..Slots - 1 :
                 words'[s].owner # None => child[words'[s].owner].slot = s
<1>1. CASE child[n].readout
  BY <1>1 DEF WriteWord, IInv, TypeOK, Referring
<1>2. CASE ~child[n].readout
  <2>1. child[n].slot \in 0..Slots - 1
    BY <1>2, GeneratorAssumption DEF WriteWord, IInv, TypeOK, Children
  <2>2. words' = [words EXCEPT ![child[n].slot] = word] /\ readoutWord' = readoutWord
    BY <1>2 DEF WriteWord
  <2>3. words \in [0..Slots - 1 -> Words] /\ readoutWord \in Words
    BY DEF IInv, TypeOK
  <2>4. \A s \in 0..Slots - 1 : words'[s] = IF s = child[n].slot THEN word ELSE words[s]
    BY <2>2, <2>3
  <2>5. \A s \in 0..Slots - 1 : words'[s].owner # None => child[words'[s].owner].slot = s
    BY <2>4 DEF IInv, Referring
  <2> QED
    BY <2>1, <2>2, <2>3, <2>5
<1> QED
  BY <1>1, <1>2

-----------------------------------------------------------------------------
(* STEPS *)

\* A generator starts without children, with memories that are blank.
LEMMA InitIInv == Init => IInv
<1> SUFFICES ASSUME Init PROVE IInv
  OBVIOUS
<1>1. Absent \in Children /\ Absent.slot = None /\ Absent.kind = "absent"
  BY DEF Absent, Children, NoSegment, Segments
<1>2. Zero \in Words /\ Zero.owner = None
  BY DEF Zero, Words, NoSegment, Segments
<1>3. <<0, 0>> \in Samples
  BY GeneratorAssumption DEF Samples
<1>4. TypeOK
  BY <1>1, <1>2, <1>3, GeneratorAssumption DEF Init, TypeOK, Blank
<1>5. Owning /\ SlotsDistinct /\ Referring
  BY <1>1, <1>2 DEF Init, Owning, Equipped, SlotsDistinct, Referring
<1> QED
  BY <1>4, <1>5 DEF IInv

\* The records that children are created from.
LEMMA AbsentType == Absent \in Children /\ Absent.slot = None
BY DEF Absent, Children, NoSegment, Segments

\* A readout pulse gets no slot, any other one a number.
LEMMA SlotForType == IInv => \A readout \in BOOLEAN : SlotFor(readout) \in Nat \cup {None}
BY DEF IInv, TypeOK, SlotFor

\* An envelope owns no slot and writes no word.
LEMMA CreateEnvelopeStep == ASSUME IInv, NEW n \in Names, CreateEnvelope(n) PROVE IInv'
<1>1. PICK common \in BOOLEAN, built \in BOOLEAN :
          child' = [child EXCEPT ![n] = [Absent EXCEPT !.kind = "envelope", !.common = common, !.built = built]]
  BY DEF CreateEnvelope
<1> DEFINE c == [Absent EXCEPT !.kind = "envelope", !.common = common, !.built = built]
<1>2. c \in Children /\ c.kind = "envelope" /\ c.slot = None
  BY AbsentType DEF Children
<1>3. TypeOK'
  BY <1>1, <1>2 DEF IInv, TypeOK, CreateEnvelope
<1>4. Slotted'
  <2> HIDE DEF c
  <2> QED
    BY <1>1, <1>2, CreatedSlotted DEF CreateEnvelope, Equipped, c
<1> QED
  BY <1>3, <1>4 DEF IInv, Slotted

\* A pulse whose constructor fails stays in the tree without a slot.
LEMMA CreatePulseFailsStep == ASSUME IInv, NEW n \in Names, CreatePulseFails(n) PROVE IInv'
<1>1. PICK readout \in BOOLEAN :
          child' = [child EXCEPT ![n] = [Absent EXCEPT !.kind = "pulse", !.readout = readout]]
  BY DEF CreatePulseFails
<1> DEFINE c == [Absent EXCEPT !.kind = "pulse", !.readout = readout]
<1>2. c \in Children /\ c.kind = "pulse" /\ c.slot = None /\ ~c.built
  BY AbsentType DEF Children, Absent
<1>3. TypeOK'
  BY <1>1, <1>2 DEF IInv, TypeOK, CreatePulseFails
<1>4. Slotted'
  <2> HIDE DEF c
  <2> QED
    BY <1>1, <1>2, CreatedSlotted DEF CreatePulseFails, Equipped, c
<1> QED
  BY <1>3, <1>4 DEF IInv, Slotted

\* A pulse gets a slot above all that were given away.
LEMMA CreatePulseStep == ASSUME IInv, NEW n \in Names, CreatePulse(n) PROVE IInv'
<1>1. PICK e \in Names \cup {Rectangular}, readout \in BOOLEAN :
          /\ LET natural == e = Rectangular \/ child[e].segment.length > 0
             IN  child' = [child EXCEPT ![n] = [Absent EXCEPT
                              !.kind = "pulse", !.readout = readout, !.slot = SlotFor(readout),
                              !.envelope = e, !.timed = natural,
                              !.built = natural \/ child[e].built]]
          /\ e # Rectangular => child[e].kind = "envelope"
          /\ ReserveSlot(readout)
  BY DEF CreatePulse
<1> DEFINE natural == e = Rectangular \/ child[e].segment.length > 0
           built == natural \/ child[e].built
           c == [Absent EXCEPT !.kind = "pulse", !.readout = readout, !.slot = SlotFor(readout),
                     !.envelope = e, !.timed = natural, !.built = built]
<1>2. natural \in BOOLEAN /\ built \in BOOLEAN
  BY DEF IInv, TypeOK, Children
<1>3. c \in Children /\ c.kind = "pulse" /\ c.slot = SlotFor(readout) /\ c.readout = readout
      /\ c.envelope = e
  <2> HIDE DEF natural, built
  <2> QED
    BY <1>2, AbsentType, SlotForType DEF Children
<1>4. child' = [child EXCEPT ![n] = c]
  BY <1>1
<1> HIDE DEF c
<1>5. nextSlot \in Nat /\ None \notin Nat
  BY GeneratorAssumption DEF IInv, TypeOK
<1>6. TypeOK'
  BY <1>1, <1>3, <1>4, <1>5 DEF IInv, TypeOK, CreatePulse, ReserveSlot
<1>7. Slotted'
  BY <1>1, <1>3, <1>4, <1>5, CreatedSlotted DEF CreatePulse, ReserveSlot, SlotFor, Equipped
<1> QED
  BY <1>6, <1>7 DEF IInv, Slotted

\* So does a virtual gate.
LEMMA CreateVZGateStep == ASSUME IInv, NEW n \in Names, CreateVZGate(n) PROVE IInv'
<1>1. PICK readout \in BOOLEAN :
          /\ child' = [child EXCEPT ![n] = [Absent EXCEPT
                          !.kind = "vzgate", !.readout = readout, !.slot = SlotFor(readout), !.built = TRUE]]
          /\ ReserveSlot(readout)
  BY DEF CreateVZGate
<1> DEFINE c == [Absent EXCEPT !.kind = "vzgate", !.readout = readout, !.slot = SlotFor(readout), !.built = TRUE]
<1>2. c \in Children /\ c.kind = "vzgate" /\ c.slot = SlotFor(readout) /\ c.readout = readout
  BY AbsentType, SlotForType DEF Children
<1>3. child' = [child EXCEPT ![n] = c]
  BY <1>1
<1> HIDE DEF c
<1>4. nextSlot \in Nat /\ None \notin Nat
  BY GeneratorAssumption DEF IInv, TypeOK
<1>5. TypeOK'
  BY <1>1, <1>2, <1>3, <1>4 DEF IInv, TypeOK, CreateVZGate, ReserveSlot
<1>6. Slotted'
  BY <1>1, <1>2, <1>3, <1>4, CreatedSlotted DEF CreateVZGate, ReserveSlot, SlotFor, Equipped
<1> QED
  BY <1>5, <1>6 DEF IInv, Slotted

\* The samples of an envelope change no slot.
LEMMA WriteSamplesStep == ASSUME IInv, NEW n \in Names, WriteSamples(n) PROVE IInv'
<1> DEFINE common == child[n].common
<1>1. PICK length \in Lengths :
          LET fits == Address(n) + Written(common, length) <= Depth
              id == IF fits THEN writes + 1 ELSE 0
          IN  /\ nextEnvelope' = nextEnvelope + Reserved(common, length)
              /\ child' = [child EXCEPT ![n].segment = [start |-> Address(n), length |-> length, id |-> id]]
              /\ IF fits THEN Store(common, Address(n), length, id) ELSE UNCHANGED memory
  BY DEF WriteSamples
<1> DEFINE fits == Address(n) + Written(common, length) <= Depth
           id == IF fits THEN writes + 1 ELSE 0
           segment == [start |-> Address(n), length |-> length, id |-> id]
<1>2. common \in BOOLEAN /\ length \in Nat /\ Address(n) \in Nat /\ id \in 0..MaxWrites
  BY GeneratorAssumption DEF IInv, TypeOK, Children, WriteSamples, Address
<1>3. nextEnvelope' \in Nat
  BY <1>1, <1>2, ReservedNat DEF IInv, TypeOK
<1>4. segment \in Segments
  BY <1>2, GeneratorAssumption DEF Segments
<1>5. child' \in [Names -> Children]
  <2>1. child' = [child EXCEPT ![n].segment = segment]
    BY <1>1
  <2> QED
    BY <1>4, <2>1 DEF IInv, TypeOK, Children
<1>6. memory' \in [0..Channels - 1 -> [0..Depth - 1 -> Samples]]
  <2>1. CASE fits
    BY <1>1, <1>2, <2>1, StoreType DEF IInv
  <2>2. CASE ~fits
    BY <1>1, <2>2 DEF IInv, TypeOK
  <2> QED
    BY <2>1, <2>2
<1>7. TypeOK'
  <2>1. writes' \in 0..MaxWrites
    BY GeneratorAssumption DEF IInv, TypeOK, WriteSamples
  <2> QED
    BY <1>3, <1>5, <1>6, <2>1 DEF IInv, TypeOK, WriteSamples
<1>8. Slotted'
  <2>1. \A m \in Names : /\ child'[m].slot = child[m].slot /\ child'[m].kind = child[m].kind
                         /\ child'[m].readout = child[m].readout /\ child'[m].built = child[m].built
                         /\ child'[m].envelope = child[m].envelope
    BY <1>1 DEF IInv, TypeOK, Children
  <2> QED
    BY <2>1, KeptSlotted DEF WriteSamples
<1> QED
  BY <1>7, <1>8 DEF IInv, Slotted

\* What WritePulse writes.
LEMMA PulseWritten ==
    ASSUME IInv, NEW n \in Names, child[n].kind = "pulse", child[n].built, WritePulse(n)
    PROVE  /\ words' \in [0..Slots - 1 -> Words] /\ readoutWord' \in Words
           /\ \A s \in 0..Slots - 1 :
                 words'[s].owner # None => child[words'[s].owner].slot = s
<1> DEFINE e == child[n].envelope
<1>1. /\ child[n].readout \/ child[n].slot # None
      /\ e \in Names \cup {Rectangular}
  BY DEF IInv, Owning, Equipped
<1>2. CASE e = Rectangular
  <2> DEFINE word == [Zero EXCEPT !.owner = n]
  <2>1. word \in Words /\ word.owner = n
    BY DEF Zero, Words, NoSegment, Segments
  <2>2. WriteWord(n, word)
    BY <1>2 DEF WritePulse
  <2> HIDE DEF word
  <2> QED
    BY <1>1, <2>1, <2>2, WordWritten
<1>3. CASE e # Rectangular
  <2> DEFINE word == [owner |-> n, common |-> child[e].common, segment |-> child[e].segment]
  <2>1. WriteWord(n, word) /\ child[e].built
    BY <1>3 DEF WritePulse
  <2>2. word \in Words /\ word.owner = n
    BY <1>1, <1>3 DEF IInv, TypeOK, Children, Words
  <2> HIDE DEF word
  <2> QED
    BY <1>1, <2>1, <2>2, WordWritten
<1> QED
  BY <1>2, <1>3

\* A duration writes the word of its pulse, or fails and leaves it as it was.
LEMMA SetDurationStep == ASSUME IInv, NEW n \in Names, SetDuration(n) PROVE IInv'
<1>1. /\ words' \in [0..Slots - 1 -> Words] /\ readoutWord' \in Words
      /\ \A s \in 0..Slots - 1 : words'[s].owner # None => child[words'[s].owner].slot = s
  <2>1. CASE WritePulse(n)
    BY <2>1, PulseWritten DEF SetDuration
  <2>2. CASE WritePulseFails(n)
    BY <2>2 DEF WritePulseFails, IInv, TypeOK, Referring
  <2> QED
    BY <2>1, <2>2 DEF SetDuration
<1>2. child' \in [Names -> Children]
  <2>1. child \in [Names -> Children] /\ child' = [child EXCEPT ![n].timed = TRUE]
    BY DEF SetDuration, IInv, TypeOK
  <2> QED
    BY <2>1 DEF Children
<1>3. \A m \in Names : /\ child'[m].slot = child[m].slot /\ child'[m].kind = child[m].kind
                       /\ child'[m].readout = child[m].readout /\ child'[m].built = child[m].built
                       /\ child'[m].envelope = child[m].envelope
  BY DEF SetDuration, IInv, TypeOK, Children
<1>4. TypeOK'
  BY <1>1, <1>2 DEF SetDuration, IInv, TypeOK
<1>5. Owning' /\ SlotsDistinct'
  BY <1>3, KeptSlotted DEF SetDuration
<1>6. Referring'
  <2>1. \A s \in 0..Slots - 1 : words'[s].owner \in Names \cup {None}
    BY <1>1 DEF Words
  <2>2. \A i \in 0..OrderDepth - 1 : ordered[i] \in Names \cup {None}
    BY DEF IInv, TypeOK
  <2> QED
    BY <1>1, <1>3, <2>1, <2>2 DEF SetDuration, IInv, Referring
<1> QED
  BY <1>4, <1>5, <1>6 DEF IInv

\* The steps that write a word and change no child.
LEMMA OnlyWordStep ==
    ASSUME IInv, words' \in [0..Slots - 1 -> Words], readoutWord' \in Words,
           \A s \in 0..Slots - 1 : words'[s].owner # None => child[words'[s].owner].slot = s,
           UNCHANGED <<child, nextEnvelope, nextSlot, memory, order, writes, ordered>>
    PROVE  IInv'
<1>1. TypeOK'
  BY DEF IInv, TypeOK
<1>2. Owning' /\ SlotsDistinct'
  BY DEF IInv, Owning, SlotsDistinct
<1>3. Referring'
  BY DEF IInv, Referring
<1> QED
  BY <1>1, <1>2, <1>3 DEF IInv

\* A gain writes the word of its pulse.
LEMMA SetGainStep == ASSUME IInv, NEW n \in Names, SetGain(n) PROVE IInv'
BY PulseWritten, OnlyWordStep DEF SetGain

\* A virtual gate writes its own word.
LEMMA WriteVZGateStep == ASSUME IInv, NEW n \in Names, WriteVZGate(n) PROVE IInv'
<1> DEFINE word == [Zero EXCEPT !.owner = n]
<1>1. word \in Words /\ word.owner = n
  BY DEF Zero, Words, NoSegment, Segments
<1>2. WriteWord(n, word)
  BY DEF WriteVZGate
<1>3. child[n].readout \/ child[n].slot # None
  BY DEF WriteVZGate, IInv, Owning, Equipped, TypeOK, Children
<1> HIDE DEF word
<1> QED
  BY <1>1, <1>2, <1>3, WordWritten, OnlyWordStep DEF WriteVZGate

\* What was accepted of a drive order has slots of the wave memory.
LEMMA SetDriveOrderStep == ASSUME IInv, SetDriveOrder PROVE IInv'
<1> DEFINE Taken(k, names) == {i \in 0..k - 1 : \A j \in 0..i : Accepts(j, child[names[j]].slot)}
           Filled(S, names) ==
               /\ order' = [i \in 0..OrderDepth - 1 |-> IF i \in S THEN child[names[i]].slot ELSE order[i]]
               /\ ordered' = [i \in 0..OrderDepth - 1 |-> IF i \in S THEN names[i] ELSE ordered[i]]
<1>0. PICK k \in 0..MaxOrder : \E names \in [0..k - 1 -> Orderable] : Filled(Taken(k, names), names)
  BY DEF SetDriveOrder
<1>1. PICK names \in [0..k - 1 -> Orderable] : Filled(Taken(k, names), names)
  BY <1>0
<1> DEFINE set == Taken(k, names)
<1>2. ASSUME NEW i \in set
      PROVE  names[i] \in Names /\ child[names[i]].slot \in 0..Slots - 1
  <2>1. names[i] \in Names /\ child[names[i]].slot # None
    BY <1>2 DEF Orderable
  <2>2. child[names[i]].slot \in Nat
    BY <2>1 DEF IInv, TypeOK, Children
  <2>3. i \in 0..i
    BY <1>2, GeneratorAssumption
  <2>4. Accepts(i, child[names[i]].slot)
    BY <2>3
  <2> QED
    BY <2>1, <2>2, <2>4, GeneratorAssumption DEF Accepts
<1> HIDE DEF set
<1>3. Filled(set, names)
  BY <1>1 DEF set
<1>4. TypeOK'
  BY <1>2, <1>3 DEF SetDriveOrder, IInv, TypeOK
<1>5. Owning' /\ SlotsDistinct'
  BY DEF SetDriveOrder, IInv, Owning, SlotsDistinct
<1>6. Referring'
  BY <1>2, <1>3 DEF SetDriveOrder, IInv, Referring
<1> QED
  BY <1>4, <1>5, <1>6 DEF IInv

\* A reset leads back to an initial state.
LEMMA ResetStep == Reset => Init'
BY DEF Reset, Init

\* Every step keeps the invariant.
LEMMA NextIInv == IInv /\ [Next]_vars => IInv'
<1> SUFFICES ASSUME IInv, [Next]_vars PROVE IInv'
  OBVIOUS
<1>1. ASSUME NEW n \in Names, CreateEnvelope(n) PROVE IInv'
  BY <1>1, CreateEnvelopeStep
<1>2. ASSUME NEW n \in Names, WriteSamples(n) PROVE IInv'
  BY <1>2, WriteSamplesStep
<1>3. ASSUME NEW n \in Names, CreatePulseFails(n) PROVE IInv'
  BY <1>3, CreatePulseFailsStep
<1>4. ASSUME NEW n \in Names, CreatePulse(n) PROVE IInv'
  BY <1>4, CreatePulseStep
<1>5. ASSUME NEW n \in Names, CreateVZGate(n) PROVE IInv'
  BY <1>5, CreateVZGateStep
<1>6. ASSUME NEW n \in Names, SetDuration(n) PROVE IInv'
  BY <1>6, SetDurationStep
<1>7. ASSUME NEW n \in Names, SetGain(n) PROVE IInv'
  BY <1>7, SetGainStep
<1>8. ASSUME NEW n \in Names, WriteVZGate(n) PROVE IInv'
  BY <1>8, WriteVZGateStep
<1>9. CASE SetDriveOrder
  BY <1>9, SetDriveOrderStep
<1>10. CASE Reset
  <2>1. Init'
    BY <1>10, ResetStep
  <2>2. Init' => IInv'
    BY InitIInv, PTL
  <2> QED
    BY <2>1, <2>2
<1>11. CASE UNCHANGED vars
  BY <1>11 DEF vars, IInv, TypeOK, Owning, SlotsDistinct, Referring
<1> QED
  BY <1>1, <1>2, <1>3, <1>4, <1>5, <1>6, <1>7, <1>8, <1>9, <1>10, <1>11 DEF Next

-----------------------------------------------------------------------------
(* THEOREMS *)

\* The invariant holds in every behaviour.
LEMMA Invariance == Spec => []IInv
BY InitIInv, NextIInv, PTL DEF Spec

\* The types of the generator's state: in particular, no entry of the drive order names
\* a slot that the wave memory does not have.
THEOREM GeneratorTypes == Spec => []TypeOK
<1>1. IInv => TypeOK
  BY DEF IInv
<1> QED
  BY <1>1, Invariance, PTL

\* After any configurations, failed ones included, and resets, an entry of the drive
\* order plays the pulse it was set to.
THEOREM OrdersKept == Spec => []OrderPlaysItsPulses
BY EntriesPlay, Invariance, PTL

-----------------------------------------------------------------------------
(* WHAT IS IN MEMORY STAYS.  Segments are reserved by one rule and written by *)
(* another; the two agree when the channels divide the samples of every       *)
(* envelope, and then a segment ends below the next free address.             *)

\* Every envelope fills all channels to the same address.
Aligned == \A length \in Lengths : length % Channels = 0

\* A quotient and its remainder.
LEMMA Division ==
    ASSUME NEW x \in Nat, NEW y \in Nat \ {0}
    PROVE  x = ((x \div y) * y) + (x % y)
OBVIOUS

\* More words hold more samples.
LEMMA MoreWords == ASSUME NEW m \in Nat, NEW n \in Nat, m <= n, NEW u \in Nat PROVE m * u <= n * u
OBVIOUS

\* The addresses of a segment end where the next one may begin.
LEMMA EndsBefore ==
    ASSUME NEW common \in BOOLEAN, NEW start \in Nat, NEW length \in Nat, length % Channels = 0,
           NEW c \in 0..Channels - 1, NEW a \in Nat, a >= start,
           SampleAt(common, start, c, a) < length
    PROVE  a < start + Reserved(common, length)
<1>1. CASE common
    BY <1>1 DEF SampleAt, Reserved
<1>2. CASE ~common
    <2> DEFINE q == length \div Channels
               m == a - start
    <2>1. Channels \in Nat \ {0} /\ c \in Nat /\ m \in Nat
        BY GeneratorAssumption
    <2>2. q \in Nat /\ length = q * Channels
        <3>1. q \in Nat /\ length = (q * Channels) + (length % Channels)
            BY <2>1, Division, Quotient
        <3>2. q * Channels \in Nat
            BY <2>1, <3>1, Product
        <3> QED
            BY <3>1, <3>2
    <2>3. m * Channels + c < length
        BY <1>2 DEF SampleAt
    <2> HIDE DEF q, m
    <2>4. m * Channels \in Nat /\ q * Channels \in Nat
        BY <2>1, <2>2, Product
    <2>5. m * Channels < q * Channels
        BY <2>1, <2>2, <2>3, <2>4
    <2>6. ~(q <= m)
        BY <2>1, <2>2, <2>4, <2>5, MoreWords
    <2>7. m < q
        BY <2>1, <2>2, <2>6
    <2>8. a - start < length \div Channels /\ length \div Channels \in Nat
        BY <2>2, <2>7 DEF m, q
    <2>9. a < start + (length \div Channels)
        BY <2>8
    <2> QED
        BY <1>2, <2>9 DEF Reserved
<1> QED
    BY <1>1, <1>2

\* A segment that was written ends below the next free address, with all its samples, as
\* Intact says of the memory of now.
Placed(mem, next, common, segment) ==
    segment.id # 0 =>
        /\ segment.length \in Lengths
        /\ segment.start + Reserved(common, segment.length) <= next
        /\ \A c \in 0..Channels - 1, a \in 0..Depth - 1 :
               LET i == SampleAt(common, segment.start, c, a)
               IN  a >= segment.start /\ i < segment.length => mem[c][a] = <<segment.id, i>>

\* The segments of the children, and those the words were built of.
SegmentsPlaced ==
    /\ \A n \in Names : Placed(memory, nextEnvelope, child[n].common, child[n].segment)
    /\ \A s \in 0..Slots - 1 : Placed(memory, nextEnvelope, words[s].common, words[s].segment)
    /\ Placed(memory, nextEnvelope, readoutWord.common, readoutWord.segment)

\* A segment in its place is intact.
LEMMA PlacedIntact ==
    ASSUME NEW common, NEW segment, Placed(memory, nextEnvelope, common, segment)
    PROVE  Intact(common, segment)
BY DEF Placed, Intact

\* So the envelopes are, and what the words were built of.
LEMMA AllIntact == SegmentsPlaced => EnvelopesIntact /\ WordsPlayTheirSamples
BY PlacedIntact DEF SegmentsPlaced, EnvelopesIntact, WordsPlayTheirSamples

\* A segment that is stored at the next free address leaves the others alone.
LEMMA StoreKeeps ==
    ASSUME Aligned, nextEnvelope \in Nat, nextEnvelope' \in Nat, nextEnvelope' >= nextEnvelope,
           NEW common \in BOOLEAN, NEW length, NEW id,
           Store(common, nextEnvelope, length, id) \/ UNCHANGED memory,
           NEW other \in BOOLEAN, NEW segment \in Segments,
           Placed(memory, nextEnvelope, other, segment)
    PROVE  Placed(memory', nextEnvelope', other, segment)
<1> SUFFICES ASSUME segment.id # 0
             PROVE  /\ segment.length \in Lengths
                    /\ segment.start + Reserved(other, segment.length) <= nextEnvelope'
                    /\ \A c \in 0..Channels - 1, a \in 0..Depth - 1 :
                           LET i == SampleAt(other, segment.start, c, a)
                           IN  a >= segment.start /\ i < segment.length
                               => memory'[c][a] = <<segment.id, i>>
  BY DEF Placed
<1>1. /\ segment.length \in Lengths /\ segment.length \in Nat /\ segment.start \in Nat
      /\ segment.start + Reserved(other, segment.length) <= nextEnvelope
  BY GeneratorAssumption DEF Placed, Segments
<1>2. Reserved(other, segment.length) \in Nat
  BY <1>1, ReservedNat
<1>3. segment.start + Reserved(other, segment.length) <= nextEnvelope'
  BY <1>1, <1>2
<1>4. ASSUME NEW c \in 0..Channels - 1, NEW a \in 0..Depth - 1, a >= segment.start,
             SampleAt(other, segment.start, c, a) < segment.length
      PROVE  memory'[c][a] = <<segment.id, SampleAt(other, segment.start, c, a)>>
  <2>1. a < segment.start + Reserved(other, segment.length)
    BY <1>1, <1>4, EndsBefore, GeneratorAssumption DEF Aligned
  <2>2. ~(a >= nextEnvelope)
    BY <1>1, <1>2, <2>1, GeneratorAssumption
  <2>3. memory'[c][a] = memory[c][a]
    BY <2>2 DEF Store
  <2> QED
    BY <1>4, <2>3 DEF Placed
<1> QED
  BY <1>1, <1>3, <1>4

\* What was never written is in no place.
LEMMA UnwrittenPlaced ==
    ASSUME NEW mem, NEW next, NEW common PROVE Placed(mem, next, common, NoSegment)
BY DEF Placed, NoSegment

\* The samples of an envelope go to the next free address.
LEMMA WriteSamplesPlaced ==
    ASSUME Aligned, IInv, SegmentsPlaced, NEW n \in Names, WriteSamples(n)
    PROVE  SegmentsPlaced'
<1> DEFINE common == child[n].common
<1>1. PICK length \in Lengths :
          LET fits == Address(n) + Written(common, length) <= Depth
              id == IF fits THEN writes + 1 ELSE 0
          IN  /\ nextEnvelope' = nextEnvelope + Reserved(common, length)
              /\ child' = [child EXCEPT ![n].segment = [start |-> Address(n), length |-> length, id |-> id]]
              /\ IF fits THEN Store(common, Address(n), length, id) ELSE UNCHANGED memory
  BY DEF WriteSamples
<1> DEFINE fits == nextEnvelope + Written(common, length) <= Depth
           id == IF fits THEN writes + 1 ELSE 0
           segment == [start |-> nextEnvelope, length |-> length, id |-> id]
<1>2. /\ nextEnvelope' = nextEnvelope + Reserved(common, length)
      /\ child' = [child EXCEPT ![n].segment = segment]
      /\ IF fits THEN Store(common, nextEnvelope, length, id) ELSE UNCHANGED memory
      /\ UNCHANGED <<words, readoutWord>>
  BY <1>1 DEF Address, WriteSamples
<1>3. common \in BOOLEAN /\ nextEnvelope \in Nat /\ Reserved(common, length) \in Nat
  BY ReservedNat DEF IInv, TypeOK, Children
<1>4. nextEnvelope' \in Nat /\ nextEnvelope' >= nextEnvelope
  BY <1>2, <1>3
<1>5. ASSUME NEW other \in BOOLEAN, NEW seg \in Segments, Placed(memory, nextEnvelope, other, seg)
      PROVE  Placed(memory', nextEnvelope', other, seg)
  BY <1>2, <1>3, <1>4, <1>5, StoreKeeps
<1>6. Placed(memory', nextEnvelope', common, segment)
  <2> SUFFICES ASSUME fits PROVE Placed(memory', nextEnvelope', common, segment)
    BY DEF Placed
  <2>1. segment.start + Reserved(common, length) <= nextEnvelope'
    BY <1>2, <1>3
  <2>2. Store(common, nextEnvelope, length, id)
    BY <1>2
  <2> HIDE DEF id, common
  <2>3. \A c \in 0..Channels - 1, a \in 0..Depth - 1 :
            a >= nextEnvelope /\ SampleAt(common, nextEnvelope, c, a) < length
            => memory'[c][a] = <<id, SampleAt(common, nextEnvelope, c, a)>>
    BY <2>2 DEF Store
  <2> QED
    BY <2>1, <2>3 DEF Placed
<1>7. \A m \in Names : /\ child'[m].common = child[m].common
                       /\ child'[m].segment = IF m = n THEN segment ELSE child[m].segment
  BY <1>2 DEF IInv, TypeOK, Children
<1> HIDE DEF segment, fits, id
<1>8. \A m \in Names : child[m].common \in BOOLEAN /\ child[m].segment \in Segments
  BY DEF IInv, TypeOK, Children
<1>9. /\ \A s \in 0..Slots - 1 : words[s].common \in BOOLEAN /\ words[s].segment \in Segments
      /\ readoutWord.common \in BOOLEAN /\ readoutWord.segment \in Segments
  BY DEF IInv, TypeOK, Words
<1> QED
  BY <1>2, <1>5, <1>6, <1>7, <1>8, <1>9 DEF SegmentsPlaced

\* A word takes the segment of a child, or none.
LEMMA WriteWordPlaced ==
    ASSUME IInv, SegmentsPlaced, NEW n \in Names, NEW word, WriteWord(n, word),
           Placed(memory, nextEnvelope, word.common, word.segment), child[n].slot \in Nat \/ child[n].readout,
           UNCHANGED <<memory, nextEnvelope>>,
           \A m \in Names : child'[m].common = child[m].common /\ child'[m].segment = child[m].segment
    PROVE  SegmentsPlaced'
<1>1. readoutWord' \in {readoutWord, word}
  BY DEF WriteWord
<1>2. \A s \in 0..Slots - 1 : words'[s] \in {words[s], word}
  BY DEF WriteWord, IInv, TypeOK
<1> QED
  BY <1>1, <1>2 DEF SegmentsPlaced

\* A pulse writes the segment its envelope has now.
LEMMA WritePulsePlaced ==
    ASSUME IInv, SegmentsPlaced, NEW n \in Names, child[n].kind = "pulse", child[n].built,
           WritePulse(n), UNCHANGED <<memory, nextEnvelope>>,
           \A m \in Names : child'[m].common = child[m].common /\ child'[m].segment = child[m].segment
    PROVE  SegmentsPlaced'
<1> DEFINE e == child[n].envelope
<1>1. /\ child[n].slot \in Nat \/ child[n].readout
      /\ e \in Names \cup {Rectangular}
  BY DEF IInv, Owning, Equipped, TypeOK, Children
<1>2. CASE e = Rectangular
  <2> DEFINE word == [Zero EXCEPT !.owner = n]
  <2>1. word.segment = NoSegment /\ WriteWord(n, word)
    BY <1>2 DEF WritePulse, Zero
  <2> HIDE DEF word
  <2> QED
    BY <1>1, <2>1, UnwrittenPlaced, WriteWordPlaced
<1>3. CASE e # Rectangular
  <2> DEFINE word == [owner |-> n, common |-> child[e].common, segment |-> child[e].segment]
  <2>1. /\ WriteWord(n, word) /\ e \in Names
        /\ word.common = child[e].common /\ word.segment = child[e].segment
    BY <1>1, <1>3 DEF WritePulse
  <2> HIDE DEF word
  <2>2. Placed(memory, nextEnvelope, word.common, word.segment)
    BY <2>1 DEF SegmentsPlaced
  <2> QED
    BY <1>1, <2>1, <2>2, WriteWordPlaced
<1> QED
  BY <1>2, <1>3

\* Nothing that is created has samples yet.
LEMMA CreatePlaced ==
    ASSUME IInv, SegmentsPlaced, NEW n \in Names, NEW c, c.segment = NoSegment,
           child' = [child EXCEPT ![n] = c], UNCHANGED <<memory, nextEnvelope, words, readoutWord>>
    PROVE  SegmentsPlaced'
<1>1. \A m \in Names : child'[m] = IF m = n THEN c ELSE child[m]
  BY DEF IInv, TypeOK
<1> QED
  BY <1>1, UnwrittenPlaced DEF SegmentsPlaced

\* In particular at the start.
LEMMA InitPlaced == Init => SegmentsPlaced
<1> SUFFICES ASSUME Init PROVE SegmentsPlaced
  OBVIOUS
<1>1. Absent.segment = NoSegment /\ Zero.segment = NoSegment
  BY DEF Absent, Zero
<1>2. /\ \A n \in Names : child[n] = Absent
      /\ \A s \in 0..Slots - 1 : words[s] = Zero
      /\ readoutWord = Zero
  BY DEF Init
<1> QED
  BY <1>1, <1>2, UnwrittenPlaced DEF SegmentsPlaced

\* Every step leaves the segments where they are.
LEMMA NextPlaced ==
    ASSUME Aligned
    PROVE  IInv /\ SegmentsPlaced /\ [Next]_vars => SegmentsPlaced'
<1> SUFFICES ASSUME IInv, SegmentsPlaced, [Next]_vars PROVE SegmentsPlaced'
  OBVIOUS
<1>0. Absent.segment = NoSegment
  BY DEF Absent
<1>1. ASSUME NEW n \in Names, CreateEnvelope(n) PROVE SegmentsPlaced'
  <2>1. PICK common \in BOOLEAN, built \in BOOLEAN :
            child' = [child EXCEPT ![n] = [Absent EXCEPT !.kind = "envelope", !.common = common, !.built = built]]
    BY <1>1 DEF CreateEnvelope
  <2> DEFINE c == [Absent EXCEPT !.kind = "envelope", !.common = common, !.built = built]
  <2>2. c.segment = NoSegment
    BY DEF Absent
  <2> HIDE DEF c
  <2> QED
    BY <1>1, <2>1, <2>2, CreatePlaced DEF CreateEnvelope, c
<1>2. ASSUME NEW n \in Names, CreatePulseFails(n) PROVE SegmentsPlaced'
  <2>1. PICK readout \in BOOLEAN :
            child' = [child EXCEPT ![n] = [Absent EXCEPT !.kind = "pulse", !.readout = readout]]
    BY <1>2 DEF CreatePulseFails
  <2> DEFINE c == [Absent EXCEPT !.kind = "pulse", !.readout = readout]
  <2>2. c.segment = NoSegment
    BY DEF Absent
  <2> HIDE DEF c
  <2> QED
    BY <1>2, <2>1, <2>2, CreatePlaced DEF CreatePulseFails, c
<1>3. ASSUME NEW n \in Names, CreatePulse(n) PROVE SegmentsPlaced'
  <2>1. PICK e \in Names \cup {Rectangular}, readout \in BOOLEAN :
            LET natural == e = Rectangular \/ child[e].segment.length > 0
            IN  child' = [child EXCEPT ![n] = [Absent EXCEPT
                             !.kind = "pulse", !.readout = readout, !.slot = SlotFor(readout),
                             !.envelope = e, !.timed = natural,
                             !.built = natural \/ child[e].built]]
    BY <1>3 DEF CreatePulse
  <2> DEFINE natural == e = Rectangular \/ child[e].segment.length > 0
             c == [Absent EXCEPT !.kind = "pulse", !.readout = readout, !.slot = SlotFor(readout),
                       !.envelope = e, !.timed = natural, !.built = natural \/ child[e].built]
  <2>2. c.segment = NoSegment /\ child' = [child EXCEPT ![n] = c]
    BY <2>1 DEF Absent
  <2> HIDE DEF c
  <2> QED
    BY <1>3, <2>2, CreatePlaced DEF CreatePulse
<1>4. ASSUME NEW n \in Names, CreateVZGate(n) PROVE SegmentsPlaced'
  <2>1. PICK readout \in BOOLEAN :
            child' = [child EXCEPT ![n] = [Absent EXCEPT
                          !.kind = "vzgate", !.readout = readout, !.slot = SlotFor(readout), !.built = TRUE]]
    BY <1>4 DEF CreateVZGate
  <2> DEFINE c == [Absent EXCEPT !.kind = "vzgate", !.readout = readout, !.slot = SlotFor(readout), !.built = TRUE]
  <2>2. c.segment = NoSegment
    BY DEF Absent
  <2> HIDE DEF c
  <2> QED
    BY <1>4, <2>1, <2>2, CreatePlaced DEF CreateVZGate, c
<1>5. ASSUME NEW n \in Names, SetDuration(n) PROVE SegmentsPlaced'
  <2>1. \A m \in Names : child'[m].common = child[m].common /\ child'[m].segment = child[m].segment
    BY <1>5 DEF SetDuration, IInv, TypeOK, Children
  <2>2. CASE WritePulse(n)
    BY <1>5, <2>1, <2>2, WritePulsePlaced DEF SetDuration
  <2>3. CASE WritePulseFails(n)
    BY <1>5, <2>1, <2>3 DEF SetDuration, WritePulseFails, SegmentsPlaced
  <2> QED
    BY <1>5, <2>2, <2>3 DEF SetDuration
<1>6. ASSUME NEW n \in Names, SetGain(n) PROVE SegmentsPlaced'
  BY <1>6, WritePulsePlaced DEF SetGain
<1>7. ASSUME NEW n \in Names, WriteVZGate(n) PROVE SegmentsPlaced'
  <2> DEFINE word == [Zero EXCEPT !.owner = n]
  <2>1. /\ WriteWord(n, word) /\ word.segment = NoSegment
        /\ UNCHANGED <<child, memory, nextEnvelope>>
        /\ child[n].slot \in Nat \/ child[n].readout
    BY <1>7 DEF WriteVZGate, Zero, IInv, Owning, Equipped, TypeOK, Children
  <2> HIDE DEF word
  <2> QED
    BY <2>1, UnwrittenPlaced, WriteWordPlaced
<1>8. CASE Reset
  <2>1. Init'
    BY <1>8, ResetStep
  <2>2. Init' => SegmentsPlaced'
    BY InitPlaced, PTL
  <2> QED
    BY <2>1, <2>2
<1>9. CASE SetDriveOrder \/ UNCHANGED vars
  BY <1>9 DEF SetDriveOrder, vars, SegmentsPlaced
<1> QED
  BY <1>1, <1>2, <1>3, <1>4, <1>5, <1>6, <1>7, <1>8, <1>9, WriteSamplesPlaced DEF Next

\* When the channels divide the samples of every envelope, then no envelope is overwritten by
\* another, after any configurations, failed ones included, and resets (write_samples,
\* write_envelope_memory).
THEOREM EnvelopesKept == Aligned => (Spec => []EnvelopesIntact)
<1> SUFFICES ASSUME Aligned PROVE Spec => []EnvelopesIntact
  OBVIOUS
<1>1. IInv /\ SegmentsPlaced /\ [Next]_vars => SegmentsPlaced'
  BY NextPlaced
<1>2. SegmentsPlaced => EnvelopesIntact
  BY AllIntact
<1> QED
  BY <1>1, <1>2, InitIInv, NextIInv, InitPlaced, PTL DEF Spec

\* And every wave definition word plays the samples that its envelope had when the word was
\* written, although the envelope may have been given new ones since (_write_pulse).
THEOREM WordsKept == Aligned => (Spec => []WordsPlayTheirSamples)
<1> SUFFICES ASSUME Aligned PROVE Spec => []WordsPlayTheirSamples
  OBVIOUS
<1>1. IInv /\ SegmentsPlaced /\ [Next]_vars => SegmentsPlaced'
  BY NextPlaced
<1>2. SegmentsPlaced => WordsPlayTheirSamples
  BY AllIntact
<1> QED
  BY <1>1, <1>2, InitIInv, NextIInv, InitPlaced, PTL DEF Spec
=============================================================================
