----------------------------- MODULE FireqParser -----------------------------
(***************************************************************************)
(* FireqParser (FIREQ_LL_API/_fireq_parser.py): from the hardware            *)
(* description of a design to the graph of its connections and, for each     *)
(* kind of bus, the graph in which modules that only pass a bus through are   *)
(* collapsed.                                                                *)
(*                                                                         *)
(* A design is what the parser reads of the file: its modules in their order, *)
(* the ends of its buses, its clock pins and the parameters of its modules.   *)
(***************************************************************************)
EXTENDS Integers, Sequences, FiniteSets, SequencesExt, Functions

CONSTANTS
    Modules,   \* FULLNAME of the modules
    Ports,     \* names of bus interfaces and pins
    Nets,      \* BUSNAME of the buses, SIGNAME of the clocks
    Designs    \* bound of the model: the designs to choose from

Kinds == {"ps", "generator", "acquisition", "trigger_generator", "fifo", "switch", "dma",
          "rfdc", "axis_pass_through", "axi4_pass_through", "other"}
BusTypes == <<"axi4", "axis", "clk">>

\* A connected bus interface, and a connected pin with SIGIS="clk"; a frequency of
\* 0 is an attribute that is missing.
BusEnds == [module : Modules, port : Ports, role : {"master", "slave"}, net : Nets,
            type : {"axi4", "axis"}]
ClockPins == [module : Modules, port : Ports, dir : {"out", "in"}, net : Nets, freq : Nat]

DesignType ==
    [ order       : Seq(Modules),              \* as the file lists them
      kind        : [Modules -> Kinds],
      ends        : SUBSET BusEnds,
      pins        : SUBSET ClockPins,
      bare        : SUBSET Modules,            \* those without <BUSINTERFACES>
      knownBoard  : BOOLEAN,
      hasMap      : BOOLEAN,                   \* the PS has a <MEMORYMAP>
      mapped      : SUBSET Modules,            \* the instances in it
      channels    : [Modules -> Nat \ {0}],    \* number_of_channels
      size        : [Modules -> Nat],          \* fifo_byte_size
      numSlaves   : [Modules -> Nat],          \* NUM_SI and NUM_MI of a switch
      numMasters  : [Modules -> Nat] ]

\* The powers of two, by recursion.
Pow2[n \in Nat] == IF n = 0 THEN 1 ELSE 2 * Pow2[n - 1]

\* The elements of a sequence that a set has, in their order.
Filtered(s, set) ==
    LET filtered[i \in 0 .. Len(s)] ==
            IF i = 0 THEN <<>>
            ELSE IF s[i] \in set THEN Append(filtered[i - 1], s[i]) ELSE filtered[i - 1]
    IN  filtered[Len(s)]

\* A file has finitely many connections; the order has every module of it once, an
\* <BUSINTERFACES> that is missing has no buses, one port connects to one net, and the
\* channels are given by their logarithm.
ASSUME DesignAssumption ==
    \A d \in Designs :
        /\ d \in DesignType
        /\ IsFiniteSet(d.ends) /\ IsFiniteSet(d.pins)
        /\ \A m \in Modules : \E w \in 0 .. d.channels[m] : d.channels[m] = Pow2[w]
        /\ IsInjective(d.order)
        /\ \A e \in d.ends \cup d.pins : e.module \in Range(d.order)
        /\ \A e \in d.ends : e.module \notin d.bare
        /\ d.mapped \subseteq Range(d.order)
        /\ \A e, f \in d.ends : e.module = f.module /\ e.port = f.port => e = f
        /\ \A p, q \in d.pins : p.module = q.module /\ p.port = q.port => p = q

VARIABLES
    design,
    edges,      \* system_graph
    graph,      \* control_graph, dataflow_graph and clock_graph
    pending,    \* the graphs still to create
    collapse,   \* nodes_to_collapse of the last one created
    pc

parserVars == <<design, edges, graph, pending, collapse>>

Edges == [master : Modules, mport : Ports, slave : Modules, sport : Ports,
          net : Nets, type : Range(BusTypes), freq : Nat]

Touching(es, m) == {e \in es : m \in {e.master, e.slave}}
Into(es, m) == {e \in es : e.slave = m}
OutOf(es, m) == {e \in es : e.master = m}

\* A step of the constructors, which raise unless a condition holds.  Nothing is left
\* of an object whose constructor has raised.
Proceed(at, ok, next) == pc = at /\ pc' = IF ok THEN next ELSE "refused"

ParserInit ==
    /\ design \in Designs
    /\ edges = {}
    /\ graph = [t \in Range(BusTypes) |-> {}]
    /\ pending = BusTypes
    /\ collapse = <<>>
    /\ pc = "system_graph"

(* -------------------------- the system graph -------------------------- *)

\* The loop over the modules leaves one that has no <BUSINTERFACES> before it looks
\* at its pins.
ClocksOf(d) == {p \in d.pins : p.module \notin d.bare}

\* No two ends of one role share a bus, no two outputs a clock, and every master has
\* a slave.  A slave without a master and a clock without a reader are left out.
WellConnected(d) ==
    /\ \A e, f \in d.ends : e.role = f.role /\ e.net = f.net => e = f
    /\ \A p, q \in ClocksOf(d) : p.dir = "out" /\ q.dir = "out" /\ p.net = q.net => p = q
    /\ \A e \in d.ends : e.role = "master" => \E f \in d.ends : f.role = "slave" /\ f.net = e.net

BusEdges(d) ==
    { [master |-> c[1].module, mport |-> c[1].port, slave |-> c[2].module, sport |-> c[2].port,
       net |-> c[1].net, type |-> c[1].type, freq |-> 0] :
      c \in {x \in d.ends \X d.ends : /\ x[1].role = "master" /\ x[2].role = "slave"
                                      /\ x[1].net = x[2].net} }

ClockEdges(d) ==
    { [master |-> c[1].module, mport |-> c[1].port, slave |-> c[2].module, sport |-> c[2].port,
       net |-> c[1].net, type |-> "clk", freq |-> c[1].freq] :
      c \in {x \in ClocksOf(d) \X ClocksOf(d) : /\ x[1].dir = "out" /\ x[2].dir = "in"
                                                /\ x[1].net = x[2].net} }

\* The constructor up to _build_system_graph(): the board and the PS are known.
BuildSystemGraph ==
    /\ Proceed("system_graph",
               /\ design.knownBoard
               /\ \E m \in Range(design.order) : design.kind[m] = "ps"
               /\ WellConnected(design),
               "graphs")
    /\ edges' = BusEdges(design) \cup ClockEdges(design)
    /\ UNCHANGED <<design, graph, pending, collapse>>

\* The nodes left in the system graph, in the order of the file.
Nodes == Filtered(design.order, {m \in Modules : Touching(edges, m) # {}})

(* ------------------------ one graph for each bus ------------------------ *)

PassThrough(type) ==
    {m \in Modules : \/ type = "axis" /\ design.kind[m] = "axis_pass_through"
                     \/ type = "axi4" /\ design.kind[m] = "axi4_pass_through"}

CreateGraph ==
    LET type == Head(pending)
        filtered == {e \in edges : e.type = type}
        through == Filtered(Nodes, {m \in PassThrough(type) : Touching(filtered, m) # {}})
    IN  /\ pending # <<>> /\ collapse = <<>>
        /\ Proceed("graphs",
                   \A m \in Range(through) : /\ Cardinality(Into(filtered, m)) = 1
                                             /\ Cardinality(OutOf(filtered, m)) = 1,
                   "graphs")
        /\ graph' = [graph EXCEPT ![type] = filtered]
        /\ collapse' = [i \in DOMAIN through |-> <<type, through[i]>>]
        /\ pending' = Tail(pending)
        /\ UNCHANGED <<design, edges>>

\* Mutant: the edge that is left ends at the port of the module that was left out.
Bypassed_KeepsPort(es, m) ==
    LET in == CHOOSE e \in Into(es, m) : TRUE
        out == CHOOSE e \in OutOf(es, m) : TRUE
    IN  {e \in es \cup {[in EXCEPT !.slave = out.slave]} : m \notin {e.master, e.slave}}

\* The two edges of a pass-through become one, which keeps the data of the first but
\* for the port of the slave.
Bypassed(es, m) ==
    LET in == CHOOSE e \in Into(es, m) : TRUE
        out == CHOOSE e \in OutOf(es, m) : TRUE
    IN  {e \in es \cup {[in EXCEPT !.slave = out.slave, !.sport = out.sport]} :
            m \notin {e.master, e.slave}}

Collapse ==
    /\ pc = "graphs" /\ collapse # <<>>
    /\ graph' = [graph EXCEPT ![Head(collapse)[1]] = Bypassed(@, Head(collapse)[2])]
    /\ collapse' = Tail(collapse)
    /\ UNCHANGED <<design, edges, pending, pc>>

\* get_interface_map(): the net at each port of a module.
InterfaceMap(m, es) ==
    LET ports == {e.mport : e \in OutOf(es, m)} \cup {e.sport : e \in Into(es, m)}
        At(p) == CHOOSE e \in es : \/ e.master = m /\ e.mport = p
                                   \/ e.slave = m /\ e.sport = p
    IN  [p \in ports |-> At(p).net]

(* ------------------------------ properties ------------------------------ *)

\* The output that drives an input of a module, looked for against the flow of the data
\* and through at most as many modules that pass the bus on as there are.
Driver(s) == CHOOSE e \in design.ends : e.role = "master" /\ e.net = s.net
Driven(s) == \E e \in design.ends : e.role = "master" /\ e.net = s.net
Inputs(type) == {s \in design.ends : s.role = "slave" /\ Driven(s) /\ Driver(s).type = type}
Through(type, m) == CHOOSE s \in Inputs(type) : s.module = m
Origin(type, input) ==
    LET most == Len(design.order)
        origin[k \in 0 .. most] ==
            [s \in Inputs(type) |->
                IF k = 0 \/ Driver(s).module \notin PassThrough(type)
                THEN Driver(s)
                ELSE origin[k - 1][Through(type, Driver(s).module)]]
    IN  origin[most][input]

\* The wires that connect modules of a design, seen from the inputs.
Wires(type) ==
    { [master |-> Origin(type, s).module, mport |-> Origin(type, s).port,
       slave |-> s.module, sport |-> s.port, net |-> Origin(type, s).net] :
      s \in {s \in Inputs(type) : s.module \notin PassThrough(type)} }

\* A graph that is complete has exactly the wires of the design between modules that do
\* not pass a bus through, each under the name of its first segment: whatever the order
\* in which the pass-throughs of a chain are collapsed (_create_bus_connectivity_graph).
Wired ==
    \A type \in {"axi4", "axis"} :
        pc # "refused" /\ collapse = <<>> /\ type \notin Range(pending)
        => Wires(type) = {[master |-> e.master, mport |-> e.mport, slave |-> e.slave,
                           sport |-> e.sport, net |-> e.net] : e \in graph[type]}
GraphIsWiring == [][<<graph, pending>>' # <<graph, pending>> => Wired']_parserVars
=============================================================================
