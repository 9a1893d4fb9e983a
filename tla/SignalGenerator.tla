--------------------------- MODULE SignalGenerator ---------------------------
(***************************************************************************)
(* SignalGeneratorNode: the envelopes, pulses and virtual Z gates that        *)
(* configurations create below it, and the memories of the generator they    *)
(* are written to.                                                           *)
(*                                                                         *)
(* A step is one entry of a configuration: a child that is created or a      *)
(* parameter that is applied, at once or later by a sweep.  An entry that     *)
(* fails ends its configuration, and nothing is rolled back, so what a       *)
(* configuration leaves is what some sequence of steps leaves.               *)
(***************************************************************************)
EXTENDS Integers

CONSTANTS
    Names,       \* names of children
    Rectangular, \* the envelope _RECTANGULAR, which every generator has
    None,        \* None, and the owner of a word of zeros
    Channels,    \* number_of_channels
    Depth,       \* channel_sample_memory_depth
    Slots,       \* words in the wave memory
    OrderDepth,  \* entries of the memory-mapped FIFO
    Lengths,     \* bound of the model: samples of an envelope
    MaxWrites,   \* bound of the model: envelopes written between two resets
    MaxOrder     \* bound of the model: length of a drive order

ASSUME GeneratorAssumption ==
    /\ Rectangular \notin Names /\ None \notin Names \cup Nat
    /\ Channels \in Nat \ {0} /\ Depth \in Nat \ {0} /\ Slots \in Nat \ {0} /\ OrderDepth \in Nat
    /\ Lengths \subseteq Nat \ {0} /\ MaxWrites \in Nat /\ MaxOrder \in Nat

VARIABLES
    child,         \* the children by name
    nextEnvelope,  \* _envelope_next_address
    nextSlot,      \* _wdw_next_address
    memory,        \* the envelope memory, by channel and address
    words,         \* the wave memory
    readoutWord,   \* the readout wave register
    order,         \* the memory-mapped FIFO
    writes,        \* history: envelopes written, to tell their samples apart
    ordered        \* history: the names the entries of the drive order stand for

vars == <<child, nextEnvelope, nextSlot, memory, words, readoutWord, order, writes, ordered>>

\* What an envelope has in memory: length samples from start, known by id, which is 0
\* when they were never written; a length of 0 is a natural_length of None.
Segments == [start : Nat, length : Nat, id : Nat]
NoSegment == [start |-> 0, length |-> 0, id |-> 0]

\* A child whose constructor failed stays in the tree without being built.
Children == [kind : {"absent", "envelope", "pulse", "vzgate"}, built : BOOLEAN,
             common : BOOLEAN,                        \* _for_interpolation of an envelope
             segment : Segments,                      \* _address and natural_length
             readout : BOOLEAN, slot : Nat \cup {None},
             envelope : Names \cup {Rectangular, None},
             timed : BOOLEAN]                         \* a pulse has a duration
Absent == [kind |-> "absent", built |-> FALSE, common |-> FALSE, segment |-> NoSegment,
           readout |-> FALSE, slot |-> None, envelope |-> None, timed |-> FALSE]

\* A wave definition word, as far as it refers to an envelope.
Words == [owner : Names \cup {None}, common : BOOLEAN, segment : Segments]
Zero == [owner |-> None, common |-> FALSE, segment |-> NoSegment]

\* A sample of an envelope: <<id, index>>; a word of zeros is <<0, 0>>.
Samples == (0..MaxWrites) \X Nat
Blank == [c \in 0..Channels - 1 |-> [a \in 0..Depth - 1 |-> <<0, 0>>]]

\* Every variable has its type.
TypeOK ==
    /\ child \in [Names -> Children]
    /\ nextEnvelope \in Nat /\ nextSlot \in Nat
    /\ memory \in [0..Channels - 1 -> [0..Depth - 1 -> Samples]]
    /\ words \in [0..Slots - 1 -> Words] /\ readoutWord \in Words
    /\ order \in [0..OrderDepth - 1 -> 0..Slots - 1]
    /\ writes \in 0..MaxWrites
    /\ ordered \in [0..OrderDepth - 1 -> Names \cup {None}]

Init ==
    /\ child = [n \in Names |-> Absent]
    /\ nextEnvelope = 0 /\ nextSlot = 0
    /\ memory = Blank
    /\ words = [s \in 0..Slots - 1 |-> Zero] /\ readoutWord = Zero
    /\ order = [i \in 0..OrderDepth - 1 |-> 0]
    /\ writes = 0
    /\ ordered = [i \in 0..OrderDepth - 1 |-> None]

-----------------------------------------------------------------------------
(* ENVELOPES *)

\* create_child() refuses a name that is taken.
Free(n) == child[n].kind = "absent"

\* _GenericEnvelope: for a symmetric envelope with interpolation the evenness has to be
\* given, which is found missing when the node is in the tree already.
CreateEnvelope(n) ==
    /\ Free(n)
    /\ \E common, built \in BOOLEAN :
        /\ common \/ built
        /\ child' = [child EXCEPT ![n] = [Absent EXCEPT !.kind = "envelope", !.common = common, !.built = built]]
    /\ UNCHANGED <<nextEnvelope, nextSlot, memory, words, readoutWord, order, writes, ordered>>

\* Mutant: the samples of an envelope for interpolation are counted in words of all
\* channels, too.
Reserved_PerChannel(common, length) == length \div Channels

\* The addresses that write_samples() reserves,
Reserved(common, length) == IF common THEN length ELSE length \div Channels

\* and those that the driver writes.
Written(common, length) == IF common THEN length ELSE (length + Channels - 1) \div Channels

\* The index of the sample that an envelope at start has at an address of a channel: an
\* envelope for interpolation is in all channels, another is dealt out to them.
SampleAt(common, start, c, a) == IF common THEN a - start ELSE (a - start) * Channels + c

\* write_envelope_memory()
Store(common, start, length, id) ==
    memory' = [c \in 0..Channels - 1 |-> [a \in 0..Depth - 1 |->
                  IF a >= start /\ SampleAt(common, start, c, a) < length
                  THEN <<id, SampleAt(common, start, c, a)>> ELSE memory[c][a]]]

\* Mutant: samples that are written again replace those of before.
Address_InPlace(n) == IF child[n].segment.id # 0 THEN child[n].segment.start ELSE nextEnvelope

\* Where the samples of an envelope go.
Address(n) == nextEnvelope

\* write_samples(): the segment is reserved and remembered before the driver finds
\* that it exceeds the memory.
WriteSamples(n) ==
    /\ child[n].kind = "envelope"
    /\ writes < MaxWrites
    /\ \E length \in Lengths :
        LET common == child[n].common
            fits == Address(n) + Written(common, length) <= Depth
            id == IF fits THEN writes + 1 ELSE 0
        IN  /\ nextEnvelope' = nextEnvelope + Reserved(common, length)
            /\ child' = [child EXCEPT ![n].segment =
                            [start |-> Address(n), length |-> length, id |-> id]]
            /\ IF fits THEN Store(common, Address(n), length, id) ELSE UNCHANGED memory
    /\ writes' = writes + 1
    /\ UNCHANGED <<nextSlot, words, readoutWord, order, ordered>>

-----------------------------------------------------------------------------
(* PULSES *)

\* Mutant: the next free slot is not advanced.
ReserveSlot_Kept(readout) == UNCHANGED nextSlot

\* reserve_wdw(): a child has a slot of its own, unless it is for the readout.
ReserveSlot(readout) == nextSlot' = IF readout THEN nextSlot ELSE nextSlot + 1

SlotFor(readout) == IF readout THEN None ELSE nextSlot

\* _Pulse without an envelope, or with one that does not exist
CreatePulseFails(n) ==
    /\ Free(n)
    /\ \E readout \in BOOLEAN :
        child' = [child EXCEPT ![n] = [Absent EXCEPT !.kind = "pulse", !.readout = readout]]
    /\ UNCHANGED <<nextEnvelope, nextSlot, memory, words, readoutWord, order, writes, ordered>>

\* _Pulse with an envelope.  One that was not built has no natural_length before samples
\* are written to it: the constructor fails when the slot is reserved already.
CreatePulse(n) ==
    /\ Free(n)
    /\ \E e \in Names \cup {Rectangular}, readout \in BOOLEAN :
        /\ e # Rectangular => child[e].kind = "envelope"
        /\ LET natural == e = Rectangular \/ child[e].segment.length > 0
           IN  child' = [child EXCEPT ![n] = [Absent EXCEPT
                            !.kind = "pulse", !.readout = readout, !.slot = SlotFor(readout),
                            !.envelope = e, !.timed = natural,
                            !.built = natural \/ child[e].built]]
        /\ ReserveSlot(readout)
    /\ UNCHANGED <<nextEnvelope, memory, words, readoutWord, order, writes, ordered>>

CreateVZGate(n) ==
    /\ Free(n)
    /\ \E readout \in BOOLEAN :
        /\ child' = [child EXCEPT ![n] = [Absent EXCEPT
                        !.kind = "vzgate", !.readout = readout, !.slot = SlotFor(readout), !.built = TRUE]]
        /\ ReserveSlot(readout)
    /\ UNCHANGED <<nextEnvelope, memory, words, readoutWord, order, writes, ordered>>

\* write_readout_wave(), or add_wave_in_wave_memory(), which refuses a slot that is not
\* in the wave memory.
WriteWord(n, word) ==
    IF child[n].readout
    THEN readoutWord' = word /\ UNCHANGED words
    ELSE /\ child[n].slot < Slots
         /\ words' = [words EXCEPT ![child[n].slot] = word]
         /\ UNCHANGED readoutWord

\* _write_pulse(): the word takes the segment the envelope has now.
WritePulse(n) ==
    LET e == child[n].envelope
    IN  IF e = Rectangular THEN WriteWord(n, [Zero EXCEPT !.owner = n])
        ELSE /\ child[e].built
             /\ WriteWord(n, [owner |-> n, common |-> child[e].common, segment |-> child[e].segment])

\* No word is built of an envelope that was not built, nor of one for interpolation
\* without samples, unless the duration is a single period; no slot may be free.
WritePulseFails(n) ==
    /\ LET e == child[n].envelope
       IN  \/ e # Rectangular /\ (child[e].built => child[e].common /\ child[e].segment.length = 0)
           \/ ~child[n].readout /\ child[n].slot >= Slots
    /\ UNCHANGED <<words, readoutWord>>

\* Only a pulse that was built can be written.  The duration stays when the write fails.
SetDuration(n) ==
    /\ child[n].kind = "pulse" /\ child[n].built
    /\ child' = [child EXCEPT ![n].timed = TRUE]
    /\ WritePulse(n) \/ WritePulseFails(n)
    /\ UNCHANGED <<nextEnvelope, nextSlot, memory, order, writes, ordered>>

SetGain(n) ==
    /\ child[n].kind = "pulse" /\ child[n].built
    /\ child[n].timed
    /\ WritePulse(n)
    /\ UNCHANGED <<child, nextEnvelope, nextSlot, memory, order, writes, ordered>>

WriteVZGate(n) ==
    /\ child[n].kind = "vzgate"
    /\ WriteWord(n, [Zero EXCEPT !.owner = n])
    /\ UNCHANGED <<child, nextEnvelope, nextSlot, memory, order, writes, ordered>>

-----------------------------------------------------------------------------
(* DRIVE ORDER AND RESET *)

\* What the drive order may name: a pulse or gate with a slot.
Orderable == {n \in Names : child[n].slot # None}

\* Mutant: the slot is not checked.
Accepts_AnySlot(index, slot) == index < OrderDepth

\* add_wave_to_drive_wave_sequence() refuses what is out of range.
Accepts(index, slot) == index < OrderDepth /\ slot < Slots

\* set_drive_order(): the addresses are collected first, then written until one is
\* refused, which leaves the entries before it.
SetDriveOrder ==
    /\ \E k \in 0..MaxOrder : \E names \in [0..k - 1 -> Orderable] :
        LET set == {i \in 0..k - 1 : \A j \in 0..i : Accepts(j, child[names[j]].slot)}
        IN  /\ order' = [i \in 0..OrderDepth - 1 |-> IF i \in set THEN child[names[i]].slot ELSE order[i]]
            /\ ordered' = [i \in 0..OrderDepth - 1 |-> IF i \in set THEN names[i] ELSE ordered[i]]
    /\ UNCHANGED <<child, nextEnvelope, nextSlot, memory, words, readoutWord, writes>>

\* Mutant: the children outlive the words they were written to.
Reset_KeepsChildren ==
    /\ nextEnvelope' = 0 /\ nextSlot' = 0
    /\ memory' = Blank
    /\ words' = [s \in 0..Slots - 1 |-> Zero] /\ readoutWord' = Zero
    /\ order' = [i \in 0..OrderDepth - 1 |-> 0]
    /\ writes' = 0 /\ ordered' = [i \in 0..OrderDepth - 1 |-> None]
    /\ UNCHANGED child

\* reset_all(): the registers and memories, then the children and both addresses.
Reset ==
    /\ child' = [n \in Names |-> Absent]
    /\ nextEnvelope' = 0 /\ nextSlot' = 0
    /\ memory' = Blank
    /\ words' = [s \in 0..Slots - 1 |-> Zero] /\ readoutWord' = Zero
    /\ order' = [i \in 0..OrderDepth - 1 |-> 0]
    /\ writes' = 0 /\ ordered' = [i \in 0..OrderDepth - 1 |-> None]

Next ==
    \/ \E n \in Names :
        \/ CreateEnvelope(n) \/ WriteSamples(n)
        \/ CreatePulseFails(n) \/ CreatePulse(n) \/ CreateVZGate(n)
        \/ SetDuration(n) \/ SetGain(n) \/ WriteVZGate(n)
    \/ SetDriveOrder
    \/ Reset

Spec == Init /\ [][Next]_vars

-----------------------------------------------------------------------------
(* PROPERTIES *)

\* All samples of a segment that was written are in memory, where the generator reads
\* them.
Intact(common, segment) ==
    segment.id # 0 =>
        \A c \in 0..Channels - 1, a \in 0..Depth - 1 :
            LET i == SampleAt(common, segment.start, c, a)
            IN  a >= segment.start /\ i < segment.length => memory[c][a] = <<segment.id, i>>

\* No envelope is overwritten by another, also after entries that failed, and although
\* segments are reserved by one rule and written by another.
EnvelopesIntact == \A n \in Names : child[n].kind = "envelope" => Intact(child[n].common, child[n].segment)

\* A word that was written to the generator plays the samples its envelope had when it
\* was written, although the envelope may have new ones since.
WordsPlayTheirSamples ==
    /\ \A s \in 0..Slots - 1 : Intact(words[s].common, words[s].segment)
    /\ Intact(readoutWord.common, readoutWord.segment)

\* An entry of the drive order plays the pulse it was set to: its slot was not given to
\* another since, nor written by another.
OrderPlaysItsPulses ==
    \A i \in 0..OrderDepth - 1 :
        ordered[i] # None =>
            /\ child[ordered[i]].slot = order[i]
            /\ words[order[i]].owner \in {ordered[i], None}
=============================================================================
