--------------------------- MODULE FIREQSystemNode ---------------------------
(***************************************************************************)
(* FIREQSystemNode.run_experiment() with the nodes it drives: acquisitions,  *)
(* their FIFOs, the data switches, the DMAs and the trigger generator.  The  *)
(* shots asked for are split into parts that no FIFO overflows on; in each   *)
(* part the hardware runs by itself while the software plans the next part.  *)
(*                                                                         *)
(* An update of the dependencies is one step here: DependencyOrchestrator    *)
(* shows that it leaves every reference as its update function computes it.  *)
(* A reference that was cleared, and a count that is None, is 0.             *)
(***************************************************************************)
EXTENDS Integers, Sequences, FiniteSets, FiniteSetsExt, Functions

CONSTANTS
    Acqs,            \* the acquisition IPs
    Topologies,      \* the designs: for each DMA the FIFOs behind its switch, in order
    FifoSize,        \* fifo_byte_size of every FIFO
    MaxRepetitions,  \* max_hw_repetitions of the trigger generator
    RawWidth, DecimatedWidth,  \* the widths of the two outputs of an acquisition, in bits
    Durations,       \* bound of the model: the acquisition durations, in clock cycles
    Counts,          \* bound of the model: the arguments of $shots, valid or not
    Unhashed         \* cached_hash is None

\* The outputs of the acquisitions, and the one that a mode uses; _output_interfaces
Outputs == Acqs \X {"m00", "m01"}
Modes == {"raw", "decimated", "accumulated"}
PortOf(mode) == IF mode = "raw" THEN "m00" ELSE "m01"

ASSUME TopologyAssumption ==
    \A t \in Topologies : t \in Seq(Seq(Outputs)) /\ t # <<>> /\ \A d \in DOMAIN t : t[d] # <<>>
\* A stream has one end (a bus_id is unique for each connection): a FIFO is behind one
\* input of one switch.
ASSUME StreamAssumption ==
    \A t \in Topologies : \A d, e \in DOMAIN t : \A i \in DOMAIN t[d], j \in DOMAIN t[e] :
        t[d][i] = t[e][j] => d = e /\ i = j
ASSUME SizeAssumption ==
    /\ FifoSize \in Nat \ {0} /\ MaxRepetitions \in Nat \ {0}
    /\ RawWidth \in Nat \ {0} /\ RawWidth % 8 = 0
    /\ DecimatedWidth \in Nat \ {0} /\ DecimatedWidth % 8 = 0
ASSUME InputAssumption ==
    /\ Durations \subseteq Nat \ {0}
    /\ Counts \subseteq Int
\* A hash is never None.
ASSUME HashAssumption == Unhashed \notin Nat

VARIABLES
    inputs,       \* the design: _input_interfaces of each switch
    cache,        \* _cache of every AcquisitionDriver
    shots,
    \* references
    hwShots,
    cachedHw,     \* cached_hash of hw_shots
    register,     \* _shots_num_l of the trigger generator
    \* the DMA nodes
    transferring, index, saved, savedShots,
    \* locals of run_experiment(), and the DMA its loops are at
    pc, dma, executed, part,
    \* the hardware
    left,         \* shots still to trigger in this part
    level,        \* bytes in each FIFO
    overflown,    \* a FIFO was full when data arrived
    armed,        \* the receive channel of each DMA waits for a packet
    route,        \* the input each switch is set to
    buffer,       \* bytes of the last packet received
    \* history
    clean,        \* no run has failed half way
    configured,   \* $shots was set, to a valid count, since the last reset
    delivered     \* shots delivered by each FIFO in this run

refVars == <<hwShots, cachedHw, register>>
dmaVars == <<transferring, index, saved, savedShots>>
hardwareVars == <<left, level, overflown, armed, route, buffer>>
historyVars == <<clean, configured, delivered>>
vars == <<inputs, cache, shots, refVars, dmaVars, pc, dma, executed, part,
          hardwareVars, historyVars>>

Dmas == DOMAIN inputs

\* A FIFO is named after the output that fills it; not every output has one.
Fifos == UNION {Range(inputs[d]) : d \in Dmas}

Inactive == [active |-> FALSE, duration |-> 0, mode |-> "none"]

\* Every variable has its type.
TypeOK ==
    /\ inputs \in Topologies
    /\ cache \in [Acqs -> [active : BOOLEAN, duration : Nat, mode : {"none"} \cup Modes]]
    /\ shots \in Nat
    /\ hwShots \in Nat
    /\ cachedHw \in Nat \cup {Unhashed}
    /\ register \in 0..MaxRepetitions - 1
    /\ transferring \in [Dmas -> BOOLEAN]
    /\ index \in [Dmas -> Nat]
    /\ saved \in [Fifos -> Nat] /\ savedShots \in Nat
    /\ pc \in {"idle", "init", "start", "save", "plan", "transfer", "wait", "failing"}
    /\ dma \in Dmas /\ executed \in Nat /\ part \in Nat
    /\ left \in Nat
    /\ level \in [Fifos -> 0..FifoSize]
    /\ overflown \in BOOLEAN
    /\ armed \in [Dmas -> BOOLEAN]
    /\ route \in [Dmas -> Nat] /\ buffer \in [Dmas -> Nat]
    /\ clean \in BOOLEAN /\ configured \in BOOLEAN
    /\ delivered \in [Fifos -> Nat]

Init ==
    /\ inputs \in Topologies
    /\ cache = [a \in Acqs |-> Inactive]
    /\ shots = 0
    /\ hwShots = 0 /\ cachedHw = Unhashed /\ register = 0
    /\ transferring = [d \in Dmas |-> FALSE] /\ index = [d \in Dmas |-> 0]
    /\ saved = [f \in Fifos |-> 0] /\ savedShots = 0
    /\ pc = "idle" /\ dma = 1 /\ executed = 0 /\ part = 0
    /\ left = 0 /\ level = [f \in Fifos |-> 0] /\ overflown = FALSE
    /\ armed = [d \in Dmas |-> FALSE]
    /\ route = [d \in Dmas |-> 1] /\ buffer = [d \in Dmas |-> 0]
    /\ clean = TRUE /\ configured = FALSE /\ delivered = [f \in Fifos |-> 0]

-----------------------------------------------------------------------------
(* CONFIGURATION *)

\* The callbacks of the configuration, or of a sweep between two runs.
SetShots ==
    /\ pc = "idle"
    /\ \E n \in Counts : shots' = (IF n > 0 THEN n ELSE 0) /\ configured' = (n > 0)
    /\ UNCHANGED <<inputs, cache, refVars, dmaVars, pc, dma, executed, part, hardwareVars,
                   clean, delivered>>

\* The setters of an acquisition; an argument they refuse changes nothing.  What
\* follows from the cache, the payload, is Unit.
SetAcquisition(a, field, value) ==
    /\ pc = "idle"
    /\ cache' = [cache EXCEPT ![a][field] = value]
    /\ UNCHANGED <<inputs, shots, refVars, dmaVars, pc, dma, executed, part, hardwareVars, historyVars>>

SetDuration == \E a \in Acqs, n \in Durations : SetAcquisition(a, "duration", n)

SetOutputMode == \E a \in Acqs, m \in Modes : SetAcquisition(a, "mode", m)

\* Channel 0 is no trigger.
SetTriggerChannel == \E a \in Acqs, on \in BOOLEAN : SetAcquisition(a, "active", on)

\* Mutant: the hashes survive.
ResetAll_KeepsHashes ==
    /\ pc = "idle"
    /\ register' = 0
    /\ cache' = [a \in Acqs |-> Inactive]
    /\ transferring' = [d \in Dmas |-> FALSE] /\ index' = [d \in Dmas |-> 0]
    /\ configured' = FALSE
    /\ UNCHANGED <<inputs, shots, hwShots, cachedHw, saved, savedShots,
                   pc, dma, executed, part, hardwareVars, clean, delivered>>

\* reset_all(): the registers, the acquisitions, the DMA nodes and every hash.
ResetAll ==
    /\ pc = "idle"
    /\ register' = 0
    /\ cache' = [a \in Acqs |-> Inactive]
    /\ transferring' = [d \in Dmas |-> FALSE] /\ index' = [d \in Dmas |-> 0]
    /\ cachedHw' = Unhashed
    /\ configured' = FALSE
    /\ UNCHANGED <<inputs, shots, hwShots, saved, savedShots,
                   pc, dma, executed, part, hardwareVars, clean, delivered>>

-----------------------------------------------------------------------------
(* THE UPDATE FUNCTIONS *)

\* _calculate_payload(): the bytes of a shot.
Size(c) ==
    CASE c.mode = "raw" -> (c.duration * RawWidth) \div 8
      [] c.mode = "decimated" -> (((c.duration + 1) \div 2) * DecimatedWidth) \div 8
      [] c.mode = "accumulated" -> DecimatedWidth \div 8

\* The bytes of a shot that an acquisition sends to a FIFO, 0 when it sends none.
Unit(f) ==
    LET c == cache[f[1]]
    IN  IF c.active /\ c.duration > 0 /\ c.mode # "none" /\ PortOf(c.mode) = f[2] THEN Size(c) ELSE 0

\* Mutant: the first FIFO decides.
MaxHwShots_OneFifo ==
    LET used == {f \in Fifos : Unit(f) > 0}
    IN  IF used = {} THEN 0 ELSE Min({MaxRepetitions, FifoSize \div Unit(CHOOSE f \in used : TRUE)})

\* Mutant: the limit of the trigger generator is forgotten.
MaxHwShots_NoLimit ==
    LET room == {FifoSize \div Unit(f) : f \in {f \in Fifos : Unit(f) > 0}}
    IN  IF room = {} \/ 0 \in room THEN 0 ELSE Min(room)

\* The FIFO that has room for the fewest shots, and the trigger generator, limit a
\* part.
MaxHwShots ==
    LET room == {FifoSize \div Unit(f) : f \in {f \in Fifos : Unit(f) > 0}}
    IN  IF room = {} \/ 0 \in room THEN 0 ELSE Min(room \cup {MaxRepetitions})

\* The payload of each FIFO in the current part.
Payload == [f \in Fifos |-> hwShots * Unit(f)]

\* The orchestrator's update after requested_hw_shots was set.  The trigger
\* generator is only written when hw_shots has changed.
Update(count) ==
    /\ hwShots' = IF MaxHwShots = 0 THEN 0 ELSE Min({MaxHwShots, count})
    /\ cachedHw' = hwShots'
    /\ register' = IF hwShots' \notin {0, cachedHw} THEN hwShots' - 1 ELSE register

-----------------------------------------------------------------------------
(* RUN_EXPERIMENT *)

\* The run begins, or is refused for want of a valid number of shots.
BeginRun ==
    /\ pc = "idle"
    /\ shots # 0
    /\ Update(shots)
    /\ pc' = IF hwShots' = 0 THEN "idle" ELSE "init"
    /\ part' = hwShots'
    /\ UNCHANGED <<inputs, cache, shots, dmaVars, dma, executed, hardwareVars, historyVars>>

\* Mutant: an empty payload is waited for like another.
Pending_Any(content, d, i) == {j \in DOMAIN inputs[d] : j > i}

\* The inputs after i whose payload is not empty.
Pending(content, d, i) == {j \in DOMAIN inputs[d] : j > i /\ content[inputs[d][j]] > 0}

NextDma(here, next) ==
    IF dma = Len(inputs) THEN dma' = 1 /\ pc' = next ELSE dma' = dma + 1 /\ pc' = here

\* init_dma(): the node is transferring already, or has nothing to transfer.
InitDmaFails ==
    /\ pc = "init"
    /\ transferring[dma] \/ Pending(Payload, dma, 0) = {}
    /\ pc' = "failing"
    /\ UNCHANGED <<inputs, cache, shots, refVars, dmaVars, dma, executed, part, hardwareVars, historyVars>>

\* init_dma(): the switch is set and the receive channel started; one that was
\* left waiting by a run that failed may refuse that.
InitDma ==
    /\ pc = "init"
    /\ ~transferring[dma]
    /\ LET pending == Pending(Payload, dma, 0)
       IN  /\ pending # {}
           /\ index' = [index EXCEPT ![dma] = Min(pending)]
           /\ route' = [route EXCEPT ![dma] = Min(pending)]
    /\ transferring' = [transferring EXCEPT ![dma] = TRUE]
    /\ armed' = [armed EXCEPT ![dma] = TRUE]
    /\ \/ NextDma("init", "start")
       \/ ~clean /\ pc' = "failing" /\ UNCHANGED dma
    /\ UNCHANGED <<inputs, cache, shots, refVars, saved, savedShots, executed, part,
                   left, level, overflown, buffer, historyVars>>

\* start_experiment(): the hardware takes the number of shots from the register
\* now; a later write does not affect the part that runs.
StartExperiment ==
    /\ pc = "start"
    /\ left' = register + 1
    /\ pc' = "save"
    /\ UNCHANGED <<inputs, cache, shots, refVars, dmaVars, dma, executed, part,
                   level, overflown, armed, route, buffer, historyVars>>

SaveVariables ==
    /\ pc = "save"
    /\ saved' = Payload /\ savedShots' = hwShots
    /\ pc' = "plan"
    /\ UNCHANGED <<inputs, cache, shots, refVars, transferring, index, dma, executed, part,
                   hardwareVars, historyVars>>

\* Mutant: the last part is as large as the others.
PlanNext_NoReduction ==
    /\ pc = "plan"
    /\ executed' = executed + part
    /\ pc' = "transfer"
    /\ UNCHANGED <<refVars, part>>
    /\ UNCHANGED <<inputs, cache, shots, dmaVars, dma, hardwareVars, historyVars>>

\* While the hardware runs: a smaller last part is planned.
PlanNext ==
    /\ pc = "plan"
    /\ executed' = executed + part
    /\ LET remaining == shots - executed'
       IN  IF part > remaining /\ remaining > 0
           THEN /\ part' = remaining
                /\ Update(remaining)
                /\ pc' = IF hwShots' = remaining THEN "transfer" ELSE "failing"
           ELSE pc' = "transfer" /\ UNCHANGED <<refVars, part>>
    /\ UNCHANGED <<inputs, cache, shots, dmaVars, dma, hardwareVars, historyVars>>

\* transfer_all() finds the receive channel in error.
TransferError ==
    /\ pc = "transfer"
    /\ transferring' = [transferring EXCEPT ![dma] = FALSE]
    /\ index' = [index EXCEPT ![dma] = 0]
    /\ pc' = "failing"
    /\ clean' = FALSE
    /\ UNCHANGED <<inputs, cache, shots, refVars, saved, savedShots, dma, executed, part,
                   hardwareVars, configured, delivered>>

\* Mutant: the package is described by the references, which an update for the
\* next part may have changed.
Labels_Live(f) == [size |-> Payload[f], shots |-> hwShots]

\* What the header of a package says.
Labels(f) == [size |-> saved[f], shots |-> savedShots]

\* transfer_all(): the packet has arrived; it is put in the queue, and the next
\* input of the switch is received.
TransferPut ==
    /\ pc = "transfer"
    /\ transferring[dma] /\ ~armed[dma]
    /\ LET f == inputs[dma][index[dma]]
           pending == Pending(saved, dma, index[dma])
       IN  /\ delivered' = [delivered EXCEPT ![f] = @ + Labels(f).shots]
           /\ IF pending = {}
              THEN /\ transferring' = [transferring EXCEPT ![dma] = FALSE]
                   /\ index' = [index EXCEPT ![dma] = 0]
                   /\ NextDma("transfer", "wait")
                   /\ UNCHANGED <<armed, route>>
              ELSE /\ index' = [index EXCEPT ![dma] = Min(pending)]
                   /\ route' = [route EXCEPT ![dma] = Min(pending)]
                   /\ armed' = [armed EXCEPT ![dma] = TRUE]
                   /\ UNCHANGED <<transferring, pc, dma>>
    /\ UNCHANGED <<inputs, cache, shots, refVars, saved, savedShots, executed, part,
                   left, level, overflown, buffer, clean, configured>>

\* The locals are gone, and what no other run reads is forgotten with them.
Return ==
    /\ executed' = 0 /\ part' = 0
    /\ saved' = [f \in Fifos |-> 0] /\ savedShots' = 0
    /\ buffer' = [d \in Dmas |-> 0]
    /\ delivered' = [f \in Fifos |-> 0]

\* is_done() is polled; then the next part begins or the run returns.
WaitDone ==
    /\ pc = "wait"
    /\ left = 0
    /\ IF executed < shots
       THEN pc' = "init" /\ UNCHANGED <<executed, part, saved, savedShots, buffer, delivered>>
       ELSE pc' = "idle" /\ Return
    /\ UNCHANGED <<inputs, cache, shots, refVars, transferring, index, dma,
                   left, level, overflown, armed, route, clean, configured>>

\* A run that fails before a channel is armed leaves clean hardware.  What becomes
\* of a part that is under way is not known: the hardware is at rest when the next
\* run begins, and nothing is claimed of that run's data.
Abandon ==
    /\ dma' = 1 /\ Return
    /\ clean' = (clean /\ \A d \in Dmas : ~armed[d])
    /\ left' = 0 /\ level' = [f \in Fifos |-> 0] /\ armed' = [d \in Dmas |-> FALSE]

\* Mutant: only the node that failed is reset.
FailRun_OneNode ==
    /\ pc = "failing"
    /\ transferring' = [transferring EXCEPT ![dma] = FALSE]
    /\ index' = [index EXCEPT ![dma] = 0]
    /\ Abandon
    /\ pc' = "idle"
    /\ UNCHANGED <<inputs, cache, shots, refVars, overflown, route, configured>>

\* The exception handler: the nodes are reset, the hardware is not.
FailRun ==
    /\ pc = "failing"
    /\ transferring' = [d \in Dmas |-> FALSE] /\ index' = [d \in Dmas |-> 0]
    /\ Abandon
    /\ pc' = "idle"
    /\ UNCHANGED <<inputs, cache, shots, refVars, overflown, route, configured>>

-----------------------------------------------------------------------------
(* THE HARDWARE *)

\* A shot: every active acquisition fills its FIFO.
Shot ==
    /\ left > 0
    /\ left' = left - 1
    /\ level' = [f \in Fifos |-> Min({level[f] + Unit(f), FifoSize})]
    /\ overflown' = (overflown \/ \E f \in Fifos : level[f] + Unit(f) > FifoSize)
    /\ UNCHANGED <<inputs, cache, shots, refVars, dmaVars, pc, dma, executed, part,
                   armed, route, buffer, historyVars>>

\* The packet of the FIFO that the switch is set to ends with the last shot.
Receive(d) ==
    /\ armed[d]
    /\ left = 0
    /\ LET f == inputs[d][route[d]]
       IN  /\ level[f] > 0
           /\ buffer' = [buffer EXCEPT ![d] = level[f]]
           /\ level' = [level EXCEPT ![f] = 0]
    /\ armed' = [armed EXCEPT ![d] = FALSE]
    /\ UNCHANGED <<inputs, cache, shots, refVars, dmaVars, pc, dma, executed, part,
                   left, overflown, route, historyVars>>

Configure == SetShots \/ SetDuration \/ SetOutputMode \/ SetTriggerChannel \/ ResetAll

Step ==
    \/ InitDmaFails \/ InitDma \/ StartExperiment \/ SaveVariables \/ PlanNext
    \/ TransferPut \/ WaitDone \/ FailRun

Hardware == Shot \/ \E d \in Dmas : Receive(d)

Next == Configure \/ BeginRun \/ Step \/ TransferError \/ Hardware

\* A run goes on by itself, and so does the hardware; no error of a receive channel
\* need occur.
Spec == Init /\ [][Next]_vars /\ WF_vars(Step) /\ WF_vars(Hardware)

-----------------------------------------------------------------------------
(* PROPERTIES *)

\* No FIFO overflows, even if nothing is read before the part has ended.
NoOverflow == clean => ~overflown

\* When the trigger generator is started its register has been written, though it
\* is only written when hw_shots changed: the shots it makes are those of the part.
RegisterIsPart == pc = "start" => register + 1 = part /\ part = hwShots /\ part <= shots - executed

\* Every package holds what its header says, although the references may already
\* describe the next part.
PackagesTrue ==
    [][TransferPut /\ clean =>
        LET f == inputs[dma][index[dma]]
        IN  buffer[dma] = Labels(f).size /\ Labels(f).size = Labels(f).shots * Unit(f)]_vars

\* A run that returns has delivered the shots asked for, no more and no less, from
\* every acquisition behind a DMA, and leaves nothing behind.
RunComplete ==
    pc = "wait" /\ left = 0 /\ clean =>
        /\ \A f \in Fifos : Unit(f) > 0 => delivered[f] = executed
        /\ \A f \in Fifos : level[f] = 0
        /\ \A d \in Dmas : ~armed[d]
        /\ executed <= shots

\* Between runs no DMA node is transferring, so that no run is refused because
\* of an earlier one that failed.
NoneTransferring == pc = "idle" => \A d \in Dmas : ~transferring[d]

\* A reset leaves the system like its first initialization: no run begins before
\* $shots was set again.
ShotsConfigured == pc # "idle" => configured

\* A run on hardware that is at rest returns or fails: no receive channel waits for
\* a packet that will not come.
RunEnds == pc = "init" /\ clean ~> pc = "idle"
=============================================================================
