----------------------------- MODULE IpRegisters -----------------------------
(***************************************************************************)
(* What configurations write to the registers of the IPs of a system that is  *)
(* up (acquisition_driver.py, generator_driver.py, trigger_generator_driver.py *)
(* of FIREQ_LL_API, as their nodes in FIREQ_SYSTEM call them).                 *)
(*                                                                         *)
(* A step is one entry of a configuration that is accepted; one that is       *)
(* refused changes nothing.  apply_configuration() rolls nothing back, so the *)
(* steps are what any configurations, complete or not, leave.  The registers  *)
(* are the set of the bits that are 1.                                        *)
(***************************************************************************)
EXTENDS FIREQBoot

CONSTANTS
    \* parameters of the IPs
    DurationWidth, TimeOfFlightWidth, TriggerWordWidth, SeedWidth, PhaseDepth, DriveTimerWidth,
    FifoDepth,
    \* bounds of the model: what the entries of a configuration are chosen from ...
    Configured,  \* the designs that are configured
    Cycles,      \* durations, times of flight and delays, in cycles of the fabric clock
    Carriers,    \* frequencies, in units of the samplerate of the DACs ...
    Resolution,  \* ... over this number
    Seeds,
    ExperimentBits, \* of the duration of an experiment
    ItemNames, Items,
    Sessions     \* ... and how many of them which modules hold

\* The fields of a word do not overlap.
ASSUME ParameterAssumption ==
    /\ {DurationWidth, TimeOfFlightWidth, TriggerWordWidth, SeedWidth, PhaseDepth,
        DriveTimerWidth, FifoDepth, ExperimentBits} \subseteq Nat
    /\ DurationWidth + TimeOfFlightWidth <= 25
    /\ TriggerWordWidth <= 15 /\ SeedWidth <= 27 /\ PhaseDepth <= 64 /\ DriveTimerWidth <= 32
    /\ ExperimentBits <= 64
    /\ Cycles \subseteq Nat /\ Carriers \subseteq Nat /\ Seeds \subseteq Nat
    /\ Resolution \in Nat \ {0}
    /\ Items \subseteq [ttype : {"drive", "readout", "other"}, mask : Nat, index : Nat]
    /\ Sessions \subseteq [modules : SUBSET Modules, entries : Nat]

VARIABLES
    registers,   \* <<word, position>> of each bit that is 1
    cache,       \* _cache of acquisition drivers
    shot,        \* payload of acquisition drivers; {} if there is none
    items,       \* delay items, by their names
    settings,    \* history: <<field, bit>> of what was accepted last
    tuned        \* history: the module and the last $rfrequency it accepted

registerVars == <<registers, cache, shot, items, settings, tuned>>
vars == <<bootVars, registerVars>>

Modes == {"raw", "decimated", "accumulated"}
Idle == [active |-> FALSE, duration |-> 0, output_mode |-> "none"]
Interface == [raw |-> "m00_axis", decimated |-> "m01_axis", accumulated |-> "m01_axis"]

\* Where the setters put a value.  A field of 64 bits takes two words, the lower half first.
Places ==
    [ acquisition |->
        [ duration    |-> [offset |-> 0, start |-> 0, length |-> DurationWidth],
          tof         |-> [offset |-> 0, start |-> DurationWidth, length |-> TimeOfFlightWidth],
          output_type |-> [offset |-> 0, start |-> 25, length |-> 3],
          rfrequency  |-> [offset |-> 3, start |-> 0, length |-> 64],
          rchannel    |-> [offset |-> 5, start |-> 0, length |-> TriggerWordWidth] ],
      generator |->
        [ lfsr_seed      |-> [offset |-> 0, start |-> 0, length |-> SeedWidth],
          tmanual_dest   |-> [offset |-> 0, start |-> 28, length |-> 1],
          manual_trigger |-> [offset |-> 0, start |-> 31, length |-> 1],
          rfrequency     |-> [offset |-> 5, start |-> 0, length |-> 64],
          dfrequency     |-> [offset |-> 7, start |-> 0, length |-> 64],
          dchannel       |-> [offset |-> 11, start |-> 0, length |-> TriggerWordWidth],
          rchannel       |-> [offset |-> 11, start |-> TriggerWordWidth,
                              length |-> TriggerWordWidth] ],
      trigger_generator |->
        [ experiment_duration |-> [offset |-> 2, start |-> 0, length |-> 64],
          mask                |-> [offset |-> 0, start |-> 0, length |-> 32],
          delay               |-> [offset |-> 1, start |-> 0, length |-> 32] ] ]

\* A field is that of a module or, if its number is not 0, of a delay: the memory of the
\* delays has two words for each.
Field(m, name) == <<m, name, 0>>
Place(f) == Places[Kind(f[1])][f[2]]
Word(f) == IF f[3] = 0 THEN <<f[1], "lite", Place(f).offset>>
                       ELSE <<f[1], "full", 2 * (f[3] - 1) + Place(f).offset>>
Bits(v, length) == {i \in 0 .. length - 1 : (v \div Pow2[i]) % 2 = 1}

\* Mutant: the bits that were 1 stay.
SetBits_Kept(bits, word, start, length, value) == bits \cup {<<word, start + i>> : i \in value}

\* _set_bits(), _set_bit() three times, or a write of the whole word.
SetBits(bits, word, start, length, value) ==
    {b \in bits : b[1] # word \/ b[2] \notin start .. start + length - 1}
    \cup {<<word, start + i>> : i \in value}

Written(bits, f, value) == SetBits(bits, Word(f), Place(f).start, Place(f).length, value)
Recorded(history, f, value) == {s \in history : s[1] # f} \cup ({f} \X value)

Set(f, value) ==
    /\ registers' = Written(registers, f, value)
    /\ settings' = Recorded(settings, f, value)

Init ==
    /\ BootInit
    /\ registers = {}
    /\ cache = [m \in Modules |-> Idle] /\ shot = [m \in Modules |-> {}]
    /\ items = <<>>
    /\ settings = {} /\ tuned = {}

\* A system that is up takes an entry for a module, within the bound.
Entries == {s[1] : s \in settings}
Enter(m) ==
    /\ pc = "ready" /\ design \in Configured
    /\ \E b \in Sessions : /\ {m} \cup {f[1] : f \in Entries} \subseteq b.modules
                           /\ Cardinality(Entries) + Cardinality(DOMAIN items) < b.entries

(* ----------------------------- acquisitions ----------------------------- *)

\* Mutant: the decimated samples of an odd duration are rounded down.
PayloadOf_RoundedDown(c) ==
    IF c.active /\ c.duration > 0 /\ c.output_mode # "none"
    THEN {[on_interface |-> Interface[c.output_mode],
           size |-> CASE c.output_mode = "raw" -> c.duration
                      [] c.output_mode = "decimated" -> c.duration \div 2
                      [] OTHER -> 1]}
    ELSE {}

\* _calculate_payload(), its size in words of the interface.
PayloadOf(c) ==
    IF c.active /\ c.duration > 0 /\ c.output_mode # "none"
    THEN {[on_interface |-> Interface[c.output_mode],
           size |-> CASE c.output_mode = "raw" -> c.duration
                      [] c.output_mode = "decimated" -> (c.duration + 1) \div 2
                      [] OTHER -> 1]}
    ELSE {}

Cached(m, key, value) ==
    /\ cache' = [cache EXCEPT ![m][key] = value]
    /\ shot' = [shot EXCEPT ![m] = PayloadOf(cache'[m])]

SetAcquisitionDuration(m, duration) ==
    /\ duration \in 1 .. Pow2[DurationWidth]
    /\ Set(Field(m, "duration"), Bits(duration - 1, DurationWidth))
    /\ Cached(m, "duration", duration)
    /\ UNCHANGED <<bootVars, items, tuned>>

SetTimeOfFlight(m, time) ==
    /\ time \in 1 .. Pow2[TimeOfFlightWidth]
    /\ Set(Field(m, "tof"), Bits(time - 1, TimeOfFlightWidth))
    /\ UNCHANGED <<bootVars, cache, shot, items, tuned>>

\* The bits select the accumulation, enable it or the decimation, and enable the raw data.
SetOutputMode(m, mode) ==
    /\ Set(Field(m, "output_type"),
           CASE mode = "raw" -> {2} [] mode = "decimated" -> {1} [] OTHER -> {0, 1})
    /\ Cached(m, "output_mode", mode)
    /\ UNCHANGED <<bootVars, items, tuned>>

\* Channel 0 is none.
ChannelMask(channel) == {channel - 1} \cap Nat

SetAcquisitionChannel(m, channel) ==
    /\ channel \in 0 .. TriggerWordWidth
    /\ Set(Field(m, "rchannel"), ChannelMask(channel))
    /\ Cached(m, "active", channel > 0)
    /\ UNCHANGED <<bootVars, items, tuned>>

\* The increment of the phase for carrier / Resolution, rounded down.
Increment(carrier) == Bits((Pow2[PhaseDepth] * (carrier % Resolution)) \div Resolution, PhaseDepth)

\* Mutant: the increment keeps all its bits.
Masked_Not(bits) == bits

\* What is left of it with dac_to_adc_ratio_mask.
Masked(bits) == bits \ Bits(ratio - 1, PhaseDepth)

Tune(m, carrier) == tuned' = {t \in tuned : t[1] # m} \cup {<<m, carrier>>}

\* The frequency is given over the samplerate of the ADCs.
SetDemodulationFrequency(m, carrier) ==
    /\ Set(Field(m, "rfrequency"), Masked(Increment(ratio * carrier)))
    /\ Tune(m, carrier)
    /\ UNCHANGED <<bootVars, cache, shot, items>>

(* ------------------------------ generators ------------------------------ *)

SetReadoutFrequency(m, carrier) ==
    /\ Set(Field(m, "rfrequency"), Increment(carrier))
    /\ Tune(m, carrier)
    /\ UNCHANGED <<bootVars, cache, shot, items>>

SetDriveFrequency(m, carrier) ==
    /\ Set(Field(m, "dfrequency"), Increment(carrier))
    /\ UNCHANGED <<bootVars, cache, shot, items, tuned>>

SetGeneratorChannel(m, name, channel) ==
    /\ channel \in 0 .. TriggerWordWidth
    /\ Set(Field(m, name), ChannelMask(channel))
    /\ UNCHANGED <<bootVars, cache, shot, items, tuned>>

SetLfsrSeed(m, seed) ==
    /\ seed < Pow2[SeedWidth]
    /\ Set(Field(m, "lfsr_seed"), Bits(seed, SeedWidth))
    /\ UNCHANGED <<bootVars, cache, shot, items, tuned>>

SetManualWaveDestination(m, destination) ==
    /\ Set(Field(m, "tmanual_dest"), IF destination = "readout" THEN {0} ELSE {})
    /\ UNCHANGED <<bootVars, cache, shot, items, tuned>>

\* trigger_ip_manually(), which only generators support.
TriggerManually(m) ==
    /\ Set(Field(m, "manual_trigger"), {0})
    /\ UNCHANGED <<bootVars, cache, shot, items, tuned>>

(* -------------------------- the trigger generator ------------------------- *)

SetExperimentDuration(m, duration) ==
    /\ Set(Field(m, "experiment_duration"), Bits(duration, ExperimentBits))
    /\ UNCHANGED <<bootVars, cache, shot, items, tuned>>

\* create_child().  An item of an unsupported type raises when it is in the tree already.
CreateDelayItem(m, name, item) ==
    /\ name \notin DOMAIN items
    /\ items' = Extended(items, [n \in {name} |-> item])
    /\ UNCHANGED <<bootVars, registers, cache, shot, settings, tuned>>

\* Mutant: the index is not compared with the depth of the memory.
InRange_AnyIndex(item, delay) ==
    item.mask < Pow2[TriggerWordWidth] /\ item.index >= 1 /\ delay \in 1 .. Pow2[DriveTimerWidth]

\* What insert_delay() accepts.
InRange(item, delay) ==
    /\ item.mask < Pow2[TriggerWordWidth]
    /\ item.index \in 1 .. FifoDepth \div 2
    /\ delay \in 1 .. Pow2[DriveTimerWidth]

\* set_delay() of an item: the delay and the mask, whose bit 15 is the type.
SetDelay(m, name, delay) ==
    /\ name \in DOMAIN items
    /\ LET item == items[name]
           time == <<m, "delay", item.index>>
           mask == <<m, "mask", item.index>>
           cycles == Bits(delay - 1, DriveTimerWidth)
           triggers == Bits(item.mask, 15) \cup (IF item.ttype = "readout" THEN {15} ELSE {})
       IN  /\ item.ttype \in {"drive", "readout"}
           /\ InRange(item, delay)
           /\ registers' = Written(Written(registers, time, cycles), mask, triggers)
           /\ settings' = Recorded(Recorded(settings, time, cycles), mask, triggers)
    /\ UNCHANGED <<bootVars, cache, shot, items, tuned>>

\* FIREQSystemNode.reset_all(): the registers and memories of the FIREQ IPs, but not
\* those of a switch, the drivers and the nodes.
ResetAll ==
    /\ pc = "ready"
    /\ registers' = {} /\ settings' = {} /\ tuned' = {}
    /\ cache' = [m \in Modules |-> Idle] /\ shot' = [m \in Modules |-> {}]
    /\ items' = <<>>
    /\ index' = [m \in Modules |-> 0]
    /\ UNCHANGED <<parserVars, pc, ips, ratio, todo, nodeVars, route>>

ConfigureAcquisition(m) ==
    /\ Enter(m)
    /\ \/ \E c \in Cycles : SetAcquisitionDuration(m, c) \/ SetTimeOfFlight(m, c)
       \/ \E mode \in Modes : SetOutputMode(m, mode)
       \/ \E channel \in 0 .. TriggerWordWidth + 1 : SetAcquisitionChannel(m, channel)
       \/ \E carrier \in Carriers : SetDemodulationFrequency(m, carrier)

ConfigureGenerator(m) ==
    /\ Enter(m)
    /\ \/ \E carrier \in Carriers : SetReadoutFrequency(m, carrier) \/ SetDriveFrequency(m, carrier)
       \/ \E channel \in 0 .. TriggerWordWidth + 1, name \in {"rchannel", "dchannel"} :
             SetGeneratorChannel(m, name, channel)
       \/ \E seed \in Seeds : SetLfsrSeed(m, seed)
       \/ \E destination \in {"drive", "readout"} : SetManualWaveDestination(m, destination)
       \/ TriggerManually(m)

ConfigureTriggerGenerator(m) ==
    /\ Enter(m)
    /\ \/ \E c \in Cycles : SetExperimentDuration(m, c)
       \/ \E name \in ItemNames : \/ \E item \in Items : CreateDelayItem(m, name, item)
                                  \/ \E c \in Cycles : SetDelay(m, name, c)

Next ==
    \/ BootNext /\ UNCHANGED registerVars
    \/ \E m \in OfKind("acquisition") : ConfigureAcquisition(m)
    \/ \E m \in OfKind("generator") : ConfigureGenerator(m)
    \/ \E m \in OfKind("trigger_generator") : ConfigureTriggerGenerator(m)
    \/ ResetAll

Spec == Init /\ [][Next]_vars

(* ------------------------------ properties ------------------------------ *)

\* Every variable has its type; nothing is written past the registers of an IP or the memory
\* of the delays.
Words ==
    (Modules \X {"lite"} \X (0 .. 11)) \cup (Modules \X {"full"} \X (0 .. FifoDepth - 1))
TypeOK ==
    /\ BootTypeOK
    /\ registers \subseteq Words \X (0 .. 63)
    /\ cache \in [Modules -> [active : BOOLEAN, duration : Nat, output_mode : Modes \cup {"none"}]]
    /\ \A m \in Modules : shot[m] \subseteq [on_interface : Range(Interface), size : Nat]
    /\ DOMAIN items \subseteq ItemNames /\ Range(items) \subseteq Items
    /\ tuned \subseteq Modules \X Carriers

\* The registers hold exactly the bits of what was last accepted for each parameter since the
\* last reset: a setter that reads a word and writes it back, or two words for a delay, leaves
\* every other parameter of the same word alone, in any order (_set_bits, insert_delay).
RegistersHoldSettings ==
    registers = {<<Word(s[1]), Place(s[1]).start + s[2]>> : s \in settings}

\* What an acquisition sends in a shot, as its registers tell the hardware, is the payload its
\* driver computes, with which FIFOs, shots and DMAs are planned (_calculate_payload).  A
\* duration has to have been given: without one the registers say one cycle.
Value(f) ==
    LET value[i \in 0 .. Place(f).length] ==
            IF i = 0 THEN 0
            ELSE value[i - 1] + (IF <<Word(f), Place(f).start + i - 1>> \in registers
                                 THEN Pow2[i - 1] ELSE 0)
    IN  value[Place(f).length]
Produced(m) ==
    LET mode == Value(Field(m, "output_type"))
        cycles == Value(Field(m, "duration")) + 1
    IN  IF mode = 0 \/ Value(Field(m, "rchannel")) = 0 THEN {}
        ELSE {[on_interface |-> IF mode >= 4 THEN "m00_axis" ELSE "m01_axis",
               size |-> CASE mode = 4 -> cycles
                          [] mode = 2 -> (cycles + 1) \div 2
                          [] OTHER -> 1]}
PayloadProduced ==
    \A m \in OfKind("acquisition") : cache[m].duration > 0 => shot[m] = Produced(m)

\* A generator and an acquisition that were given the same frequency advance by the same
\* phase in the same time, although each increment was rounded in its own units and the
\* acquisition advances ratio times as far in a sample (set_demodulation_frequency).
InPhase ==
    \A t, u \in tuned :
        Kind(t[1]) = "generator" /\ Kind(u[1]) = "acquisition" /\ t[2] = u[2]
        => Value(Field(u[1], "rfrequency"))
              = (ratio * Value(Field(t[1], "rfrequency"))) % Pow2[PhaseDepth]
=============================================================================
