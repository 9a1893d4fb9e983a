# FIREQ-Server: a verification project

FIREQ-Server runs on an RFSoC board and lets one client at a time configure a
quantum-control design over TCP, run experiments on it and receive the data. This
directory holds TLA+ models of its control, the TLC runs that check them, and proofs
that TLAPS checks. Paths below are relative to the repository.

## The system

| part | state it keeps | operations | talks to |
|---|---|---|---|
| `FIREQServer` (`FIREQ_SERVER/fireq_server.py`, main thread) | the client's socket, `stop_event`, where it is in a conversation | accept, handshake, one branch per command, `_config_and_run`, `_close_client`, `stop` | both workers, the system tree |
| `ReceiveWorker` (`network/receive_worker.py`, a thread) | its socket, `queue_in` | `_run`, `_receive_message`, `get`, `clear_input_queue`, `stop` | the socket, the main thread through `queue_in`, the event `client_connected` |
| `SendWorker` (`network/send_worker.py`, a thread) | the tuple `_session`, `queue_out` | `start_session`, `_run`, `_sendmsg_all`, `stop` | the socket, everyone who puts packets, `client_connected` |
| `MemoryBoundedQueue` (`utils/memory_queue.py`) | items with their session, a byte counter, a lock with two conditions, `closed` | `put`, `get_with_session`, `clear`, `new_session`, `close` | a discard condition of its user |
| `SweepExperiment` (`execution/sweep_experiment.py`) | variables in their order, callbacks, the frames of a recursion | construction, `run` | callbacks of the tree, an experiment, an abort condition |
| `_DependencyOrchestrator`, `_MutableRef` (`FIREQ_SYSTEM/`) | a graph, its cached order, a hash for each reference | `add_node`, `add_dependency`, `update` | update functions of the nodes |
| `FIREQSystemNode` (`FIREQ_SYSTEM/fireq_system_node.py`) | `shots`, three references | `set_shots`, `reset_all`, `run_experiment`, update functions | all nodes, the orchestrator |
| `DMANode`, `FIFONode`, `SwitchNode` | transfer state, saved payload and shots, references, the input of the switch | `init_dma`, `save_variables`, `transfer_all`, `reset_transfer_state` | the hardware, `queue_out` |
| `AcquisitionNode`, `AcquisitionDriver` | the cache of the configuration, registers | setters | the hardware |
| `TriggerGeneratorNode`, its driver | registers, delay items and their memory | `update_hw_shots`, `start_experiment`, `is_done`, `create_child`, `set_delay`, `set_experiment_duration` | the hardware |
| `_GenericNode` | the tree | `apply_configuration`, `create_child`, `get_child` | callbacks |
| `SignalGeneratorNode`, `GeneratorDriver` | next free addresses, envelopes, pulses | `create_child`, `write_samples`, `write_pulse`, ... | generator memory |
| `FIREQSoC`, `FireqParser` (`FIREQ_LL_API/`) | the graphs of the design, the IPs, the clocks | boot, `get_interface_map`, `reset_all_ip_memory_and_registers` | files, pynq, all nodes when they are made |

What is hard in it, and hard to test:

- **Three threads and one event.** The main thread replaces the client while the workers
  may be anywhere in their loops, with a message or a packet in their hands; all three
  write `client_connected`. Either queue can be full, and each thread can be blocked on
  a queue that only another one drains.
- **Failures in the middle**: of a packet, of a handshake, of a run whose header was sent,
  of a loop over the DMA nodes, of a sweep.
- **Pruned updates.** The orchestrator evaluates only what a change reaches and stops
  early; the hardware is written only when a hash has changed, and a reset zeroes the
  hardware.
- **Overlap of software and hardware**: the next part of an experiment is planned while
  the current one runs, so references are ahead of the data.
- **A design found by names.** At boot the wires of the hardware become graphs, modules that
  pass a bus on are collapsed out of them, and nodes find each other's data by the name of
  a bus, in the order in which the file happens to list the modules.
- **Registers shared by setters**, each of which reads a word and writes it back, while
  payloads are computed apart from them.
- **Order without names**: the client attributes data to the points of a sweep by
  counting, and packets to its commands by their order.

`PROJECT.json` lists each hazard at its line with the properties that watch it.

## The modules

**`MemoryBoundedQueue`** is the queue as a data type, without threads: what one
operation does to the items, the counter and the session under the lock, and the
invariants `QueueType`, `Accounted`, `MemoryBound`, `OneSession`. The size of an item is a
constant function, which stands for `_estimate_size()`.

**`QueueThreads`** puts producers and consumers around it. A step is what a thread does
while it holds the lock; between two steps it is in the set of sleepers of a condition,
ready to take the lock again, or outside. `notify()` wakes any one sleeper; a timed wait
may end at any moment; a put with a discard condition polls.

**`FIREQServer`** composes three threads, two queues, clients and their sockets. It uses
`MemoryBoundedQueue` for `queue_out` by INSTANCE. A step is what one thread does between
two accesses to state that another thread can change: `StartSession` and `ReplaceSession`
are the two steps of `start_session()`, `RecvCheckSocket` and `RecvClearConnected` the two
of the worker's exception handler. A connection is named by a number, and a socket by
that of its connection; packets and messages are kinds with their connection and their
number, and one data packet stands for all payloads of an experiment. What a client will
send is chosen when it connects; when it is sent makes no difference before it is read.
`Stop` is `stop()` by another thread or by `start_server.main()` after a
KeyboardInterrupt, which can hit the main thread anywhere; `WithStop` says whether it may come,
and `Streams` what clients send in either case, to bound the runs. `Accept` is accept() and the
assignment of its socket in one step, so that a `stop()` exactly between them is not seen, and
an unexpected exception of accept() is left out.

**`ExperimentProtocol`** is the abstract specification of what clients see: one connection
after the other, and on each the packets follow a table of phases. `FIREQServer`
implements it: `FollowsProtocol` is `Protocol!Spec` under the mapping
`transcript <- the kinds received on each connection, ended <- closed`. An iteration has one
data packet or more: it has none only in a design without a DMA, which the model leaves out.

**`SweepExperiment`** models the order of the variables (a stable sort by cost) and the
recursion with an explicit stack of frames. The value of an expression is the record of
the variables it uses, so that two points are told apart exactly if they can be.

**`DependencyOrchestrator`** models any graph that `add_node` and `add_dependency` can
build, the cached order as any topological order, `update()` as one step for each node of
the order, and the hash of a reference as its value. Two kinds of nodes: those with a
reference, and registers that are written when evaluated. `Compute` is any function,
idempotent on registers.

**`FIREQSystemNode`** models `run_experiment()` with the nodes it drives over a design
given by constants: for each DMA, the FIFOs behind its switch. An update of the
dependencies is one step, with every reference what its function computes, which is what
`Fresh` says of the orchestrator. The hardware is external: a shot fills the FIFOs of
active acquisitions, the packet of the FIFO a switch is set to ends with the last shot,
`start_experiment` latches the number of shots. What a failed run leaves in the hardware is
not in the source, so the history variable `clean` ends most claims there.

**`SignalGenerator`** models what configurations leave below a generator node. A step is
one entry: a child that is created, completely or half way (the constructor puts it in the
tree before it can fail), or one parameter. Entries come in any order and may fail, and
`apply_configuration()` rolls nothing back, so a configuration of any nesting leaves what
some sequence of steps leaves. An envelope in memory is a segment with an identity for the
samples of one `write_samples()`; a word is what it refers to, its child and a segment as
it was when the word was written. Reserving (`Reserved`, in the node) and writing (`Written`,
`Store`, in the driver) are separate operators, as they are separate computations in the
code.

**`FireqParser`** models the parser from what it reads of the file: modules in their order,
ends of buses, clock pins, parameters. One step builds the system graph, one each of the
three graphs of a bus, one collapses a module. A graph is a set of edges.

**`FIREQBoot`** goes on from there: `FIREQSoC` finds the IPs, checks them and their clocks,
then each constructor of a node is a step, each `_build_dependencies()` another. What a
constructor raises on is the condition of its step; a system that is not up is `refused`. A
reference is what its name leads to, an output of a module. When the system is up, a DMA node
may select inputs of its switch. pynq is external: an attribute exists for the instances
in the memory map.

**`IpRegisters`** composes this with what configurations write to the IPs that were found. A
step is one parameter that is accepted. Registers are the set of the bits that are 1; `Places`
says where the setters put their values, from the constants of the drivers. `settings`
records what was accepted and `tuned` the frequencies, both for the properties only.
Frequencies are exact fractions of the samplerate, not floats; times are in
clock cycles.

MC modules give values to the constants for TLC; `*_proofs` modules hold the theorems.

## The runs

| run | question | bounds |
|---|---|---|
| `queue_threads` | account, bound, sessions, lost wake-ups, release of blocked calls | two producers and two consumers, one of each with a timeout; sizes 1, 2 and one above the limit of 3; one change of session |
| `server_clients` | separation of clients, gaps, commands, torn packets, refinement of the protocol | two connections, an input queue of one message, an output queue of two bytes |
| `server_service` | a dead client is left, a run ends, a handshake ends, `stop()` ends every thread | one connection that may stall or go, every kind of message, a sweep of two points; in the behaviours in which `stop()` may come, a client that sends more than the input queue holds; an output queue of one byte |
| `server_stale` | does an error on a replaced socket leave the new client alone? *It does not* | as `server_clients` |
| `sweep` | point, order and completeness of a sweep | all lists of two callbacks over three variables from six expressions and two costs, some of three callbacks; up to three values |
| `orchestrator` | nothing stale, nothing early | all graphs of four nodes, one of them a register |
| `system` | overflow, register, packages, completeness, end of a run, recovery | two designs of two acquisitions, five bytes in a FIFO, shots of 1, 2 or 6 bytes, a generator of three repetitions, up to five shots |
| `generator` | do envelopes, words and drive orders keep what they were given? | three children, two channels of four addresses, two slots, two entries of the order; envelopes of two or four samples, three of them written |
| `envelope_overlap` | does a reserved segment hold its samples? *Only if the channels divide them* | two children, envelopes of one or three samples |
| `boot` | does the system come up on the right designs, in any order, with data on the right wires; do registers hold what was set, payloads and phases agree with it? | 43 designs (10 sound ones, 7 with a part missing or one too many, 2 debug overlays, 9 with other clocks or channels, two of which are still sound, 15 badly wired), each in its order and the reverse, the first ten rotated as well; then configurations of two of them, with two and four times as many samples generated as acquired: five parameters of an acquisition, three of a generator, two of both, five entries of the trigger generator; fields of two bits, phases of four |
| `debug_overlay` | does a design without an RF-DC come up? *It does not* | as `boot` |
| `system_reset` | does a run after `reset_all()` ask for `$shots`? *It does not* | as `system` |

Why they are enough: a change of client involves two connections, and a third adds only a
longer history (the proofs below cover any number). Queues of one message and of one
or two bytes are full after one or two packets, which is what the blocked branches need, and
a data packet of two bytes fills the queue alone. `server_clients` has no sweep: for
that path the protocol rests on the proof (`ServerFollowsProtocol`, for any number of points);
`server_service`, which has one, looks at how it ends. Four nodes contain the diamond, the chain and
the shortcut past a pruned node. In `system`, the FIFO holds five shots, two or none, and
the generator cuts the first to three: one part, equal parts, a smaller last part, a
payload that does not fit, a switch with empty inputs in every position, and a DMA
without data all occur.

In `generator` three children need one slot more than there is, three envelopes of two
words exceed the memory, a drive order may be longer than its memory, and an envelope may
be written again with a pulse that refers to its first samples. `generator` gives all
envelopes a number of samples that the channels divide; `envelope_overlap` does not.

In `boot` the designs have chains of two pass-throughs in either order, a ring of them, a
FIFO on each output of an acquisition, a switch with all, one, exchanged or distant inputs,
and none. Two bits hold every value below, at and above a limit of four; a carrier over
twelve is rounded differently in a phase of four bits for the generator and the
acquisition, and `Carriers` has one above the samplerate. The entries of a session exceed
the parameters that share a word.

Deadlock is checked for the queue, the orchestrator, the system node and the generator. The
other runs may stop: a server that has been stopped or waits for a client that owes
nothing, a sweep that is done, a system that refuses its design.

### Fairness

Each of the three threads is weakly fair as a whole: the interpreter schedules every
thread that can run. `HandshakeTimeout` is strongly fair: the deadline is a moment that
passes, whatever else the thread does in its loop meanwhile. `stop()`, once called, goes on.
Clients owe nothing: they may stall for ever or go. In `QueueThreads` every thread that
can take the lock does so eventually, and a poll or a timeout comes. In `FIREQSystemNode`
the run and the hardware go on; an error of a receive channel need not occur. No fairness
is assumed of new calls, commands, configurations or failures.

## What the runs found

- `server_stale`: the workers check that the failed socket is the one in service and clear
  `client_connected` in two steps. When the main thread closes the old client and puts the
  next one in service in between, the event of the new client is cleared and it is
  disconnected, which the comments at `receive_worker.py:103` and `send_worker.py:110`
  exclude.
- `system_reset`: `reset_all()` does not reset `shots`, so a later run uses the number of
  shots of before the reset, where the docstring at `fireq_system_node.py:96` promises the
  state of the first initialization, in which a run is refused.
- `envelope_overlap`: the node reserves `len(samples) // number_of_channels` words, the driver
  writes that number rounded up. The next envelope overwrites the end of one whose samples
  the channels do not divide, or all of one with fewer samples than channels, as in the
  example at `FIREQ_SYSTEM/README.md:72`.

- `debug_overlay`: in a design without an RF-DC, `_discover_rfdc()` and `_discover_mts()` go on
  as for a debug overlay (`fireq_soc.py:222-225` and 251, `FIREQ_LL_API/README.md:66`), but
  then the constructor of `FIREQSoC` iterates over `active_adcs`, which is None
  (`fireq_soc.py:108`). `Acceptable` asks for no RF-DC; `BootsIffAcceptable` names the exception,
  `DebugOverlayBoots` is what it breaks.
- `boot`: `SwitchNode` numbers its payloads without the inputs that are not connected
  (`switch_node.py:57`), the DMA node hands that number to the hardware (`dma_node.py:125`), which
  counts all inputs (`axi_stream_switch_driver.py:58`). Such designs come up and are among those
  of the run. `DataFollowsWires` says exactly when a switch is set to the input of the payload
  it was asked for: when all inputs up to its number are connected. With a gap before it, it
  is set to an input without data or to that of another acquisition, in every such design.

Seen while modelling, without a run of their own:

- The payload of an acquisition is empty until a duration is given, while its registers mean
  one cycle: hence the premise of `PayloadProduced`.
- The generator writes a phase offset without masking it (`generator_driver.py:340`), the
  acquisition masks it; `set_experiment_duration()` does not compare with
  `experiment_timer_max`; the docstring of `_DelayItem` names two parameters it does not have
  (`trigger_generator_node.py:23`).

## The proofs

All hold for every value of the constants under the named assumptions of the modules
(`SizeAssumption`, `ServerAssumption`, `StreamAssumption`, ...), which state types and, for the
registers, that the fields of a word fit into it.

- **The queue** (`MemoryBoundedQueue_proofs`, `QueueThreads_proofs`). Types, account, bound and
  sessions are inductive only together: that the counter stays a natural number when an
  item leaves follows from the account. The account is an existential over what each
  suffix of the queue occupies, so that no sum over the queue has to be unfolded. The
  lemmas are about the data type, one for each critical section; `QueueTypes`, `QueueBounded`
  and `QueueSafety` lift them to any threads. `NoLostWakeUp` counts: when a consumer sleeps,
  there are at least as many awake consumers as items.
- **The server** (`FIREQServer_proofs`). `ServerTypes` instantiates the queue's lemmas. For
  `ClientsSeparated` the sessions are shown to count like the connections: the tag of a
  queued packet names the connection it was produced for, and the tuple read after the
  get pairs a session with the socket of that connection, in any interleaving.
  `PacketsInOrder` and `TornPacketIsLast` need where a packet is (`Order`): what was received
  on a connection, then the packet in the hand of the send worker, then the queue, are
  numbered without a gap (`Sequenced`); while packets can be delivered, the last one on its way
  is the last that was produced (`NothingDropped`); a send worker that gave a packet up, torn or
  not, takes no other one of that session (`GaveUp`, `TornLast`). `CommandsAreOwn`: the receive
  worker reads from the client in service, which is the one that answered the handshake
  (`Served`).
- **The protocol.** `ServerFollowsProtocol`, the refinement of `ExperimentProtocol`: what was
  sent to the connection in service is a walk through its table of phases, and the last
  phase is one that the program counter of the main thread allows (`Spoken`, `Turn`, `Tells`).
  `Phase` is defined by recursion, so that a longer transcript takes an induction over its
  length, which the proof makes with a set of numbers that has no least counterexample
  (`SetInduction`).
- **The sweep** (`SweepExperiment_proofs`). `EveryRunAtItsPoint`: a frame accounts for the
  callbacks its outer loops can evaluate and executes those that only it can (`Accounts`),
  and what is accounted for is up to date with the point (`Current`), since no variable of
  its expression moves further in; the innermost loop covers every callback. `PointsInOrder`,
  that experiment `r` is at point `r` of the grid, is an argument over numbers: a fold does not
  depend on the order in which it takes the members of a set (`FoldTakesAny`), so that what a
  loop spans is the product of the counts of the loops inside it (`SpansMultiply`), which is the
  stride of its variable in the announcement because the order of the variables is strict
  (`StrideIsSpan`). The invariant `GridInv` says that the loops together number the points
  (`Within`, `Placed`, `History`), and dividing a point's number by the strides gives back the
  positions of the loops (`Quotient`, `InnermostNumber`).
- **The orchestrator** (`DependencyOrchestrator_proofs`). `DependenciesFirst` from the order;
  `NothingStaleAfterUpdate` from an invariant of the loop: what was visited is settled, and
  the update is either cold (it began with every hash reset, and whatever follows a visited
  node waits) or warm (what does not wait is up to date). Leaving the loop early is sound
  because the nodes evaluated are counted against those that wait.
- **The system node** (`FIREQSystemNode_proofs`), for any design, FIFO and shots. One invariant
  relates the plan to the hardware: what each DMA is about to fetch and what it was
  promised (`Planned`), whose turn it is among the FIFOs of a switch (`Turns`, `Selected`), that
  a part fits into its FIFOs (`Room`), what they hold between a shot and a transfer (`Levels`)
  and what has been put into the queue so far (`Counted`). From it follow `PartsFit`,
  `RegisterWritten`, `RunsComplete`, `NodesReleased` and, of steps, `PackagesAreTrue`. The
  assumptions say that a stream has one end (`StreamAssumption`, the bus identifiers of the
  parser) and that no hash is the None of a register not yet written (`HashAssumption`).
- **The generator** (`SignalGenerator_proofs`). `OrdersKept`: that an entry of the drive order
  plays its pulse needs that a slot has one owner (`SlotsDistinct`, from the next free slot
  being above all that were given away), that who writes a word has a slot (`Owning`, where
  half-built children matter), and that words and entries are where the slot of their child
  is (`Referring`). The reset is sound because it leads back to an initial state.
  `EnvelopesKept` and `WordsKept` hold where the channels divide the samples (`Aligned`): then a
  segment is what was reserved for it, and below the next free address no two segments meet
  (`SegmentsPlaced`). The run `envelope_overlap` shows that they do not hold otherwise.
- **The registers** (`IpRegisters_proofs`). `SettingsHeld`: two fields of one word have no bit in
  common (`FieldsDisjoint`, by cases over `Places` and the assumption that duration and time
  of flight leave bits 25 to 27 free), so that writing one changes the registers exactly as
  recording its value changes the settings (`WriteAgrees`); each setter gives bits within the
  length of its field. The value of a field adds the powers of two of its bits; by induction
  it is the number whose bits were set, less what a mask took from it (`ValueOfBits`). With
  that, `PayloadsTrue`: the cache of a driver says the same as the settings (`CacheAgrees`), the
  payload follows the cache, and three bits tell its mode (`ModeOf`). `PhasesAgree`: the
  frequencies that were accepted agree with the settings (`TunedAgrees`), boot leaves a ratio
  that is a power of two (`Booted`, from the numbers of channels), and what the mask takes
  away is exactly what the two roundings differ by (`Rounding`, `PhasesMeet`), for any depth
  of the phase, a ratio above a whole turn included. `RegisterTypes` says that no step asks for
  what is not there, through all of boot (`BootInv`): a module about to be collapsed has one
  edge in and one out whichever others were collapsed before it (`Collapsible`,
  `BypassedOne`), the clocks are looked at once there is something they drive (`Found`), who
  tells a size tells a payload (`Sized`), so that the sizes of a switch are those of FIFOs that
  were made before (`Making`); and no delay is beyond the memory (`Fits`). It needs that a
  design has finitely many connections (`DesignAssumption`), as a file has. `GraphsAreWiring`:
  each edge left in a graph leads back, by a chain of modules that are no longer in it, from
  the input it ends at to the output it starts from (`Traced`), and each input that is still
  connected has one (`TracedGraph`); leaving out one more module joins two such ways (`WayOn`,
  `BypassedTraced`). A module that passes a bus on has one input of it (`OneInput`), so
  that a way cannot meet itself (`WayBound`) and the origin of an input is what its way ends at,
  found within as many steps as the file has modules (`OriginOfWay`). `DataFollows` goes on
  from there: the payload told under the name of a bus is of the output that is on it
  (`Telling`), and a node looks for the name that its wire starts with (`ReferenceFollows`), so
  that what each node has found follows the wires once the loop has left it behind (`Taking`),
  and the size of a switch is at least that of each FIFO before it (`SizeOk`). A switch
  has one output, which drives one input (`OriginsDiffer`), so that no two DMA nodes set the
  same switch (`Selection`, `SwitchesDiffer`). The n-th of the inputs that are connected is the
  n-th input of the switch exactly if the first n all are (`FilteredPlaces`), and two inputs of a
  switch have different origins, so that the switch is set to the right input in that case and
  in no other (`RouteFollows`). It needs that the interfaces of the IPs
  have the role that their name says, and that those of a switch are numbered up to `NUM_SI`
  (`InterfaceAssumption`), which is how the IPs are made; the code relies on it and does not
  look.

Left to TLC alone: liveness (`DiscardReleasesPut`, `CloseReleasesAll`, `LeavesDeadClient`,
`RunCompletes`, `HandshakeEnds`, `StopEndsThreads`, `RunEnds`; the prover has no ENABLED and no
fairness), and `BootsIffAcceptable`, the condition on which a design comes up. Every invariant
and every other action property of a run is proved.

## What is not modelled

The layout of packets in bytes, msgpack, the syntax of sweep expressions and of variable
definitions (a malformed one is refused before anything is sent), logging. The branch of
the send worker for an unexpected exception: no packet the server builds raises it. Phase
offsets (no other state depends on them), the gain and duration inside a wave word, and
`set_drive_order_source()`, which nothing calls. Of boot: XML, the loading of the bitstream, the
addresses at which registers are mapped, the settings of converters.

## Plan

Done, in this order: the queue, the server, the sweep, the orchestrator, the system node,
the generator, boot and the registers. What a further step could add:

1. The nesting of `apply_configuration()` and its list of callbacks, composed with the sweep.
2. Proofs: that boot comes up on the acceptable designs and on no other.
