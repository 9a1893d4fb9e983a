------------------------------ MODULE FIREQBoot ------------------------------
(***************************************************************************)
(* The start of the system: FIREQSoC finds and checks the IPs of a design    *)
(* (FIREQ_LL_API/fireq_soc.py), FIREQSystemNode makes a node for each of them *)
(* and lets the nodes find each other by the names of the buses between them  *)
(* (FIREQ_SYSTEM).  Once it is up, each DMA node selects inputs of its switch. *)
(***************************************************************************)
EXTENDS FireqParser, FiniteSetsExt

VARIABLES
    ips,         \* FIREQSoC.ips, in its order
    ratio,       \* dac_samplerate // adc_samplerate
    todo,        \* the modules of ips that the current loop has left
    refs,        \* _references: what each name is of
    functions,   \* the nodes of the dependency graph
    dependencies,
    payload,     \* _input_payload of FIFO and DMA nodes, payload of switch nodes
    maxSize,     \* max_payload_size of FIFO and switch nodes
    index,       \* _current_payload_index of DMA nodes, counted from 1; 0 is None
    route        \* hardware: the input each switch is set to, likewise

nodeVars == <<refs, functions, dependencies, payload, maxSize>>
runVars == <<index, route>>
bootVars == <<parserVars, pc, ips, ratio, todo, nodeVars, runVars>>

FireqKinds == {"generator", "acquisition", "trigger_generator"}
NodeKinds == FireqKinds \cup {"fifo", "switch", "dma"}
SlavePorts == <<"S00_AXIS", "S01_AXIS", "S02_AXIS", "S03_AXIS">>

\* The interfaces of the IPs that become nodes have the role that their name says, and
\* the inputs of a switch are numbered up to NUM_SI (as the IPs are made).
ASSUME InterfaceAssumption ==
    \A d \in Designs : \A e \in {f \in d.ends : d.kind[f.module] \in NodeKinds} :
        /\ e.port \in Range(SlavePorts) \cup {"S_AXIS", "S_AXIS_S2MM"} => e.role = "slave"
        /\ e.port \in {"m00_axis", "m01_axis", "M_AXIS", "M00_AXIS"} => e.role = "master"
        /\ d.kind[e.module] = "switch" =>
              \A i \in DOMAIN SlavePorts : e.port = SlavePorts[i] => i <= d.numSlaves[e.module]

\* A dictionary with the entries of another one that it does not have yet.
Extended(f, g) == [x \in DOMAIN f \cup DOMAIN g |-> IF x \in DOMAIN f THEN f[x] ELSE g[x]]

Kind(m) == design.kind[m]
OfKind(k) == {m \in Range(ips) : Kind(m) = k}

\* What a reference is of: an output of a module, or the module itself.
Outputs == (Modules \cup {"system"}) \X (Ports \cup {"self"})
Names == (Nets \cup Modules \cup {"system"}) \X
         {"payload", "max_payload_size", "payload_switch_func", "max_hw_shots", "hw_shots",
          "requested_hw_shots", "hw_supported_hw_shots"}

Phases == {"system_graph", "graphs", "check", "clocks", "nodes", "dependencies", "ready",
           "refused"}

\* The types of these variables.
BootTypeOK ==
    /\ design \in Designs
    /\ edges \subseteq Edges
    /\ graph \in [Range(BusTypes) -> SUBSET Edges]
    /\ pending \in Seq(Range(BusTypes))
    /\ collapse \in Seq(Range(BusTypes) \X Modules)
    /\ pc \in Phases
    /\ ips \in Seq(Modules) /\ todo \in Seq(Modules)
    /\ ratio \in Nat
    /\ DOMAIN refs \subseteq Names /\ Range(refs) \subseteq Outputs
    /\ functions \subseteq Names
    /\ dependencies \subseteq functions \X functions
    /\ DOMAIN payload \subseteq Modules /\ Range(payload) \subseteq Seq(Outputs)
    /\ DOMAIN maxSize \subseteq Modules /\ Range(maxSize) \subseteq Nat
    /\ index \in [Modules -> Nat] /\ route \in [Modules -> Nat]

BootInit ==
    /\ ParserInit
    /\ ips = <<>> /\ todo = <<>>
    /\ ratio = 0
    /\ refs = <<>> /\ functions = {} /\ dependencies = {}
    /\ payload = <<>> /\ maxSize = <<>>
    /\ index = [m \in Modules |-> 0] /\ route = [m \in Modules |-> 0]

(* -------------------------------- FIREQSoC ------------------------------- *)

\* The overlay has an attribute for every instance in the memory map, and for the FIFOs
\* that are given one.  To look at the attribute of a switch builds its driver, which
\* raises if it has more than one output.
IsAttribute(m) == m \in design.mapped \/ Kind(m) = "fifo"

\* _init_fireq_ips() and _discover_ips().
DiscoverIps ==
    /\ pending = <<>> /\ collapse = <<>>
    /\ Proceed("graphs",
               /\ design.hasMap
               /\ \A m \in design.mapped : Kind(m) = "switch" => design.numMasters[m] <= 1,
               "check")
    /\ ips' = Filtered(Nodes, {m \in Modules : Kind(m) # "ps" /\ IsAttribute(m)})
    /\ UNCHANGED <<parserVars, ratio, todo, nodeVars, runVars>>

\* _check_fireq_ips().
CheckFireqIps ==
    /\ Proceed("check",
               /\ OfKind("generator") # {} /\ OfKind("acquisition") # {}
               /\ Cardinality(OfKind("trigger_generator")) = 1,
               "clocks")
    /\ UNCHANGED <<parserVars, ips, ratio, todo, nodeVars, runVars>>

\* get_ip_frequency(), at the fabric_clock_port of a driver.
ClockAt(m) == {e \in graph["clk"] : e.slave = m /\ e.sport = "HS_axi_clock"}
Frequencies == UNION {{e.freq : e \in ClockAt(m)} : m \in UNION {OfKind(k) : k \in FireqKinds}}
Channels(k) == {design.channels[m] : m \in OfKind(k)}
Ratio == Min(Channels("generator")) \div Min(Channels("acquisition"))

\* _discover_rfdc(), _discover_clocks() and the loop over active_adcs, which is None
\* when there is no RF-DC.  With one frequency, samplerates are in proportion to the
\* channels; FIREQSystemNode then makes its nodes.
DiscoverClocks ==
    /\ Proceed("clocks",
               /\ \A k \in FireqKinds : \A m \in OfKind(k) : ClockAt(m) # {}
               /\ Cardinality(Frequencies) = 1 /\ 0 \notin Frequencies
               /\ Cardinality(Channels("generator")) = 1
               /\ Cardinality(Channels("acquisition")) = 1
               /\ Ratio >= 1
               /\ OfKind("rfdc") # {},
               "nodes")
    /\ ratio' = Ratio
    /\ todo' = Filtered(ips, {m \in Modules : Kind(m) \in NodeKinds})
    /\ UNCHANGED <<parserVars, ips, nodeVars, runVars>>

(* ------------------------------- the nodes ------------------------------- *)

Interfaces(m) == InterfaceMap(m, graph["axis"])

\* The ports whose data a node takes and those it drives.  A switch node takes the
\* inputs that are connected, in the order of their numbers.
InputPorts(m) ==
    CASE Kind(m) = "fifo" -> <<"S_AXIS">>
      [] Kind(m) = "switch" -> Filtered(SlavePorts, DOMAIN Interfaces(m))
      [] Kind(m) = "dma" -> <<"S_AXIS_S2MM">>
      [] OTHER -> <<>>
OutputPorts(m) ==
    CASE Kind(m) = "acquisition" -> {"m00_axis", "m01_axis"}
      [] Kind(m) = "fifo" -> {"M_AXIS"}
      [] Kind(m) = "switch" -> {"M00_AXIS"}
      [] OTHER -> {}

\* Mutant: the inputs in another order.
InputNets_Reversed(m) == [i \in DOMAIN InputPorts(m) |-> Interfaces(m)[Reverse(InputPorts(m))[i]]]

InputNets(m) == [i \in DOMAIN InputPorts(m) |-> Interfaces(m)[InputPorts(m)[i]]]

\* The references a constructor adds: what it tells of each output, and of the module.
Shared(m) ==
    CASE Kind(m) = "acquisition" -> {"payload"}
      [] Kind(m) = "fifo" -> {"payload", "max_payload_size"}
      [] Kind(m) = "switch" -> {"payload", "max_payload_size", "payload_switch_func"}
      [] OTHER -> {}
OwnRefs(m) ==
    CASE Kind(m) = "fifo" -> {<<m, "max_hw_shots">>}
      [] Kind(m) = "trigger_generator" -> {<<"system", "hw_supported_hw_shots">>}
      [] OTHER -> {}
NodeRefs(m) ==
    LET ports == OutputPorts(m) \cap DOMAIN Interfaces(m)
        names == {<<Interfaces(m)[p], w>> : p \in ports, w \in Shared(m)}
    IN  Extended([n \in names |-> <<m, CHOOSE p \in ports : Interfaces(m)[p] = n[1]>>],
                 [n \in OwnRefs(m) |-> <<m, "self">>])

\* The update functions it registers.
NodeFunctions(m) ==
    CASE Kind(m) \in {"acquisition", "fifo"} ->
            {n \in DOMAIN NodeRefs(m) : n[2] \in {"payload", "max_hw_shots"}}
      [] Kind(m) = "trigger_generator" -> {<<m, "hw_shots">>}
      [] OTHER -> {}

\* _init_nodes(): one constructor.  A node needs its interfaces, and a switch an input.
InitNode ==
    LET m == Head(todo)
    IN  /\ todo # <<>>
        /\ Proceed("nodes",
                   /\ OutputPorts(m) \cup Range(InputPorts(m)) \subseteq DOMAIN Interfaces(m)
                   /\ Kind(m) = "switch" => InputPorts(m) # <<>>
                   /\ DOMAIN NodeRefs(m) \cap DOMAIN refs = {}
                   /\ NodeFunctions(m) \cap functions = {},
                   "nodes")
        /\ todo' = Tail(todo)
        /\ refs' = Extended(refs, NodeRefs(m))
        /\ functions' = functions \cup NodeFunctions(m)
        /\ maxSize' = IF Kind(m) = "fifo" THEN Extended(maxSize, [x \in {m} |-> design.size[x]])
                                          ELSE maxSize
        /\ UNCHANGED <<parserVars, ips, ratio, dependencies, payload, runVars>>

\* What the constructor of the system node does between its two loops over the nodes.
InitRoot ==
    /\ todo = <<>>
    /\ Proceed("nodes", TRUE, "dependencies")
    /\ todo' = Filtered(ips, {m \in Modules : Kind(m) \in NodeKinds})
    /\ refs' = Extended(refs, [n \in {<<"system", "hw_shots">>} |-> <<"system", "self">>])
    /\ functions' = functions \cup ({"system"} \X {"max_hw_shots", "requested_hw_shots", "hw_shots"})
    /\ UNCHANGED <<parserVars, ips, ratio, dependencies, payload, maxSize, runVars>>

\* _DependencyOrchestrator.add_dependency(), of a set of pairs of a function and one
\* that it depends on.
IsAcyclic(pairs) ==
    LET names == {p[1] : p \in pairs} \cup {p[2] : p \in pairs}
        \* the names from which k dependencies can be followed
        left[k \in 0 .. Cardinality(names)] ==
            IF k = 0 THEN names
            ELSE LET before == left[k - 1]
                 IN  {p[1] : p \in {q \in pairs : q[1] \in before /\ q[2] \in before}}
    IN  left[Cardinality(names)] = {}

\* Mutant: the graph may have a cycle.
CanDepend_Cyclic(pairs) == pairs \subseteq functions \X functions

CanDepend(pairs) == pairs \subseteq functions \X functions /\ IsAcyclic(dependencies \cup pairs)

NodeDependencies(m) ==
    CASE Kind(m) = "fifo" ->
            LET in == <<Interfaces(m)["S_AXIS"], "payload">>
                out == <<Interfaces(m)["M_AXIS"], "payload">>
            IN  {<<<<m, "max_hw_shots">>, in>>, <<out, in>>, <<out, <<"system", "hw_shots">> >>}
      [] Kind(m) = "trigger_generator" -> {<<<<m, "hw_shots">>, <<"system", "hw_shots">> >>}
      [] OTHER -> {}

\* The references a node gets for an input: its payload, and the size unless it is a FIFO.
\* A switch refuses the list of payloads of another one.
Resolves(m, net) ==
    /\ <<net, "payload">> \in DOMAIN refs
    /\ Kind(m) \in {"switch", "dma"} => <<net, "max_payload_size">> \in DOMAIN refs
    /\ Kind(m) = "switch" => Kind(refs[<<net, "payload">>][1]) # "switch"

\* _build_dependencies() of one node.
BuildDependencies ==
    LET m == Head(todo)
        nets == InputNets(m)
        resolved == /\ CanDepend(NodeDependencies(m))
                    /\ \A n \in Range(nets) : Resolves(m, n)
    IN  /\ todo # <<>>
        /\ Proceed("dependencies", resolved, "dependencies")
        /\ todo' = Tail(todo)
        /\ IF ~resolved \/ nets = <<>> THEN UNCHANGED payload
           ELSE payload' = Extended(payload,
                   [x \in {m} |-> [i \in DOMAIN nets |-> refs[<<nets[i], "payload">>]]])
        /\ IF ~resolved \/ Kind(m) # "switch" THEN UNCHANGED maxSize
           ELSE maxSize' = Extended(maxSize, [x \in {m} |->
                   Max({maxSize[refs[<<n, "max_payload_size">>][1]] : n \in Range(nets)})])
        /\ dependencies' = IF resolved THEN dependencies \cup NodeDependencies(m)
                                       ELSE dependencies
        /\ UNCHANGED <<parserVars, ips, ratio, refs, functions, runVars>>

RootDependencies ==
    {<<<<"system", "max_hw_shots">>, <<f, "max_hw_shots">> >> : f \in OfKind("fifo")}
    \cup {<<<<"system", "hw_shots">>, <<"system", w>> >> :
            w \in {"requested_hw_shots", "max_hw_shots"}}

\* The rest of FIREQSystemNode._build_dependencies() and of the constructor.
BuildRootDependencies ==
    /\ todo = <<>>
    /\ Proceed("dependencies",
               /\ \A m \in Range(ips) : OwnRefs(m) \subseteq DOMAIN refs
               /\ CanDepend(RootDependencies),
               "ready")
    /\ dependencies' = dependencies \cup RootDependencies
    /\ UNCHANGED <<parserVars, ips, ratio, todo, refs, functions, payload, maxSize, runVars>>

(* ----------------------- the switch of a DMA node ----------------------- *)

Source(d) == payload[d][1][1]
HasSwitch(d) == Kind(Source(d)) = "switch"

\* init_dma() and transfer_all() select the payload at an index: the driver gets the
\* number of that index, counted from 1, and refuses one above NUM_SI.
Select(d, i) ==
    /\ pc = "ready"
    /\ HasSwitch(d) /\ i \in DOMAIN payload[Source(d)]
    /\ index' = [index EXCEPT ![d] = i]
    /\ route' = IF i <= design.numSlaves[Source(d)]
                THEN [route EXCEPT ![Source(d)] = i] ELSE route
    /\ UNCHANGED <<parserVars, pc, ips, ratio, todo, nodeVars>>

BootNext ==
    \/ BuildSystemGraph /\ UNCHANGED <<ips, ratio, todo, nodeVars, runVars>>
    \/ CreateGraph /\ UNCHANGED <<ips, ratio, todo, nodeVars, runVars>>
    \/ Collapse /\ UNCHANGED <<ips, ratio, todo, nodeVars, runVars>>
    \/ DiscoverIps \/ CheckFireqIps \/ DiscoverClocks
    \/ InitNode \/ InitRoot
    \/ BuildDependencies \/ BuildRootDependencies
    \/ \E d \in OfKind("dma"), i \in 1 .. Len(SlavePorts) : Select(d, i)

(* ------------------------------ properties ------------------------------ *)

\* What is asked of a design, told from its wires and in no order.  The IPs are the
\* modules with a connection that the memory map or a wrapper makes attributes.
Connected(m) ==
    \/ \E e, f \in design.ends : e.module = m /\ e.net = f.net /\ e.role # f.role
    \/ \E p, q \in ClocksOf(design) : p.module = m /\ p.net = q.net /\ p.dir # q.dir
Ips(k) == {m \in Range(design.order) : Kind(m) = k /\ IsAttribute(m) /\ Connected(m)}

Ends(m, role) == {e \in design.ends : e.module = m /\ e.role = role}
Port(m, p) == CHOOSE e \in design.ends : e.module = m /\ e.port = p
HasPort(m, role, p) == \E e \in Ends(m, role) : e.port = p
DrivenFrom(m, p, kinds) ==
    /\ HasPort(m, "slave", p) /\ Port(m, p) \in Inputs("axis")
    /\ LET o == Origin("axis", Port(m, p))
       IN  o.module \in UNION {Ips(k) : k \in kinds}

\* A module that passes a bus on has one input and one output of it, or none in use.
PassesOn ==
    \A type \in {"axi4", "axis"} : \A m \in PassThrough(type) :
        LET ins == Inputs(type) \cap Ends(m, "slave")
            outs == {e \in Ends(m, "master") : e.type = type}
        IN  ins \cup outs = {} \/ (Cardinality(ins) = 1 /\ Cardinality(outs) = 1)

Drivers(m) == {q \in ClocksOf(design) :
                  /\ q.dir = "out"
                  /\ \E p \in ClocksOf(design) : /\ p.module = m /\ p.port = "HS_axi_clock"
                                                 /\ p.dir = "in" /\ p.net = q.net}
FireqIps == UNION {Ips(k) : k \in FireqKinds}
ClocksAgree ==
    /\ \A m \in FireqIps : Drivers(m) # {}
    /\ \E f \in {q.freq : q \in ClocksOf(design)} \ {0} :
          \A m \in FireqIps : \A q \in Drivers(m) : q.freq = f
    /\ \A k \in {"generator", "acquisition"} :
          \A m, n \in Ips(k) : design.channels[m] = design.channels[n]
    /\ \A m \in Ips("generator"), n \in Ips("acquisition") :
          design.channels[m] >= design.channels[n]

DataArrives ==
    /\ \A m \in Ips("acquisition") : \A p \in {"m00_axis", "m01_axis"} : HasPort(m, "master", p)
    /\ \A m \in Ips("fifo") :
          HasPort(m, "master", "M_AXIS") /\ DrivenFrom(m, "S_AXIS", {"acquisition"})
    /\ \A m \in Ips("switch") :
          LET driven == {p \in Range(SlavePorts) : /\ HasPort(m, "slave", p)
                                                   /\ Port(m, p) \in Inputs("axis")}
          IN  /\ HasPort(m, "master", "M00_AXIS") /\ driven # {}
              /\ \A p \in driven : DrivenFrom(m, p, {"fifo"})
    /\ \A m \in Ips("dma") : DrivenFrom(m, "S_AXIS_S2MM", {"fifo", "switch"})

Acceptable ==
    /\ design.knownBoard /\ design.hasMap
    /\ \E m \in Range(design.order) : Kind(m) = "ps"
    /\ WellConnected(design) /\ PassesOn
    /\ \A m \in design.mapped : Kind(m) = "switch" => design.numMasters[m] <= 1
    /\ Ips("generator") # {} /\ Ips("acquisition") # {}
    /\ Cardinality(Ips("trigger_generator")) = 1
    /\ ClocksAgree
    /\ DataArrives

\* No RF-DC is asked for: without one _discover_rfdc() assumes a debug overlay.
DebugOverlay == Ips("rfdc") = {}

\* The system comes up on the acceptable designs and on no others, whatever the order in
\* which the file lists the modules: a node may be made, and may look for a payload, before
\* the modules its data passes through (FIREQSystemNode.__init__, the constructors).  The
\* exception is an error of the code, which DebugOverlayBoots is about: it refuses
\* every debug overlay, also an acceptable one (FIREQSoC.__init__, fireq_soc.py:108).
BootsIffAcceptable ==
    [][/\ pc # "ready" /\ pc' = "ready" => Acceptable /\ ~DebugOverlay
       /\ pc # "refused" /\ pc' = "refused" => ~Acceptable \/ DebugOverlay]_bootVars

\* What FIREQ_LL_API/README.md:66 and _discover_rfdc() promise of a debug overlay: nothing
\* but what is asked of every design keeps it from coming up.
DebugOverlayBoots ==
    [][pc # "refused" /\ pc' = "refused" /\ DebugOverlay => ~Acceptable]_bootVars

\* Once it is up, each payload a node works with is that of the output its input is wired
\* to, a switch has one for each wired input, and the buffer of a DMA node holds what each
\* FIFO behind it can.  (The references go by the name of the bus at either end of a chain
\* of modules; SwitchNode._build_dependencies, DMANode._build_dependencies.)
WiredTo(m, p) ==
    LET o == Origin("axis", Port(m, p)) IN <<o.module, o.port>>
Behind(d) == IF HasSwitch(d) THEN Range(payload[Source(d)]) ELSE Range(payload[d])
PayloadsFollowWires ==
    pc = "ready" =>
        /\ \A m \in OfKind("fifo") : payload[m] = <<WiredTo(m, "S_AXIS")>>
        /\ \A m \in OfKind("dma") :
              /\ payload[m] = <<WiredTo(m, "S_AXIS_S2MM")>>
              /\ \A f \in Behind(m) : maxSize[Source(m)] >= design.size[f[1]]
        /\ \A m \in OfKind("switch") :
              LET wired == Filtered(SlavePorts, {p \in Ports : /\ HasPort(m, "slave", p)
                                                               /\ Port(m, p) \in Inputs("axis")})
              IN  payload[m] = [i \in DOMAIN wired |-> WiredTo(m, wired[i])]

\* The input a switch is set to is the one the selected payload comes in at exactly if
\* every input up to the number of the payload is connected.  Otherwise the hardware sends
\* what comes in at another input, or nothing: SwitchNode numbers the payloads without the
\* inputs that are not connected (switch_node.py:57), the hardware counts them, and the
\* DMA node hands the one number on as the other (dma_node.py:125).
AreConnected(s, ports) ==
    \A p \in ports : \E e \in Inputs("axis") : e.module = s /\ e.port = p
IsRoutedTo(s, output) ==
    \E e \in Inputs("axis"), i \in DOMAIN SlavePorts :
        /\ i = route[s] /\ e.module = s /\ e.port = SlavePorts[i]
        /\ WiredTo(e.module, e.port) = output
RouteFollowsPayload ==
    \A d \in OfKind("dma") :
        index[d] # 0 =>
            (IsRoutedTo(Source(d), payload[Source(d)][index[d]])
                <=> AreConnected(Source(d), {SlavePorts[i] : i \in 1 .. index[d]}))

\* The payloads a DMA node works with are those of the wires, whatever the wiring; but the
\* data it sends under the name of an acquisition are that acquisition's exactly if
\* the inputs of its switch are connected up to the one it selects, whichever it selects and
\* whatever the others have selected since.
DataFollowsWires ==
    [][bootVars' # bootVars => (PayloadsFollowWires /\ RouteFollowsPayload)']_bootVars
=============================================================================
