------------------------ MODULE DependencyOrchestrator ------------------------
(***************************************************************************)
(* _DependencyOrchestrator (FIREQ_SYSTEM/_dependency_orchestrator.py) and    *)
(* the references it keeps up to date (_MutableRef in _utils.py): the graph  *)
(* that the nodes of the system build, and update(), which visits it in      *)
(* topological order and passes over what no change has reached.             *)
(*                                                                         *)
(* A reference is named after its update function.  What hash() makes of a   *)
(* reference is the content itself: different contents have different hashes. *)
(***************************************************************************)
EXTENDS Naturals, Sequences, FiniteSets, Functions

CONSTANTS
    Nodes,      \* the labels of the update functions
    Values,     \* what a reference may contain
    Empty,      \* an empty reference, and a register that is zero
    Unhashed,   \* cached_hash is None
    Registers,  \* the nodes whose update function writes a register
    Compute(_, _, _, _)
        \* Compute(n, in, up, own): what the update function of n makes of what it
        \* reads outside the graph, of the nodes it depends on and of n itself

\* An update function returns a value, and returns the same one when it is called
\* again; only its declared dependencies can make it change.
ASSUME ValueAssumption == Empty \in Values /\ Unhashed \notin Values /\ Registers \subseteq Nodes
ASSUME FiniteAssumption == IsFiniteSet(Nodes)
ASSUME ComputeAssumption ==
    \A n \in Nodes, in \in Values, P \in SUBSET Nodes, own \in Values :
        \A up \in [P -> Values] :
            LET new == Compute(n, in, up, own)
            IN  new \in Values /\ Compute(n, in, up, new) = new

VARIABLES
    nodes,      \* the nodes of _dependency_graph
    edges,      \* its edges: <<u, n>> when n depends on u
    order,      \* the cached topological order
    valid,      \* _valid_cached_order
    input,      \* what the update functions read outside the graph
    value,      \* what the references and registers contain
    cached,     \* cached_hash of each reference
    pc,
    \* locals of update()
    position, toRun, evaluated

graphVars == <<nodes, edges, order, valid>>
refVars == <<value, cached>>
loopVars == <<position, toRun, evaluated>>
vars == <<graphVars, input, refVars, pc, loopVars>>

\* Every variable has its type.
TypeOK ==
    /\ nodes \subseteq Nodes
    /\ edges \subseteq nodes \X nodes
    /\ order \in Seq(nodes)
    /\ valid \in BOOLEAN
    /\ input \in [Nodes -> Values]
    /\ value \in [Nodes -> Values]
    /\ cached \in [Nodes -> Values \cup {Unhashed}]
    /\ pc \in {"building", "idle", "update", "updated"}
    /\ position \in Nat \ {0}
    /\ toRun \subseteq nodes
    /\ evaluated \in Nat

Init ==
    /\ nodes = {} /\ edges = {}
    /\ order = <<>> /\ valid = FALSE
    /\ input = [n \in Nodes |-> Empty]
    /\ value = [n \in Nodes |-> Empty]
    /\ cached = [n \in Nodes |-> Unhashed]
    /\ pc = "building"
    /\ position = 1 /\ toRun = {} /\ evaluated = 0

-----------------------------------------------------------------------------
(* THE GRAPH *)

Upstream(n) == {u \in nodes : <<u, n>> \in edges}
Successors(n) == {s \in nodes : <<n, s>> \in edges}
Starts == {n \in nodes : Upstream(n) = {}}

\* Mutant: the nodes in any order, such as the one they were added in.
IsOrder_Unsorted(o, E) ==
    Range(o) = nodes /\ IsInjective(o)

\* networkx: a topological order of the graph with these edges
IsOrder(o, E) ==
    /\ Range(o) = nodes /\ IsInjective(o)
    /\ \A i, j \in DOMAIN o : <<o[i], o[j]>> \in E => i < j

Orders(E) == {o \in [1..Cardinality(nodes) -> nodes] : IsOrder(o, E)}

\* The graph is built by the constructors and the _build_dependencies() of the
\* nodes, before the first update.  A name that is taken, a node that is not there
\* and an edge that closes a cycle are refused and change nothing.
AddNode ==
    /\ pc = "building"
    /\ \E n \in Nodes \ nodes : nodes' = nodes \cup {n}
    /\ valid' = FALSE
    /\ UNCHANGED <<edges, order, input, refVars, pc, loopVars>>

AddDependency ==
    /\ pc = "building"
    /\ \E u, n \in nodes :
        /\ edges' = edges \cup {<<u, n>>}
        /\ Orders(edges') # {}
    /\ valid' = FALSE
    /\ UNCHANGED <<nodes, order, input, refVars, pc, loopVars>>

-----------------------------------------------------------------------------
(* UPDATE *)

\* update() begins: the order is computed unless it is cached.
BeginUpdate ==
    /\ pc # "update"
    /\ IF valid THEN UNCHANGED order ELSE order' \in Orders(edges)
    /\ valid' = TRUE
    /\ position' = 1 /\ toRun' = Starts /\ evaluated' = 0
    /\ pc' = "update"
    /\ UNCHANGED <<nodes, edges, input, refVars>>

current == order[position]

\* The node is not in the active frontier.
PassOver ==
    /\ pc = "update"
    /\ position <= Len(order)
    /\ current \notin toRun
    /\ position' = position + 1
    /\ UNCHANGED <<graphVars, input, refVars, pc, toRun, evaluated>>

\* What the update function of n computes now.
Computed(n) == Compute(n, input[n], [u \in Upstream(n) |-> value[u]], value[n])

\* Mutant: a node reports no change the first time.
Changed_NotFirst(n, new) == cached[n] # Unhashed /\ cached[n] # new

\* hash_and_compare(); what a register reports does not matter, nothing depends
\* on it.
Changed(n, new) == cached[n] # new

\* Mutant: only the first node a change reaches is added to the frontier.
Frontier_OneSuccessor(n, changed) ==
    IF changed /\ Successors(n) # {} THEN toRun \cup {CHOOSE s \in Successors(n) : TRUE} ELSE toRun

\* The frontier after n was evaluated.
Frontier(n, changed) == IF changed THEN toRun \cup Successors(n) ELSE toRun

\* The node is evaluated, and the loop is left once no node waits.
Evaluate ==
    /\ pc = "update"
    /\ position <= Len(order)
    /\ current \in toRun
    /\ LET new == Computed(current)
       IN  /\ value' = [value EXCEPT ![current] = new]
           /\ cached' = [cached EXCEPT ![current] = new]
           /\ toRun' = Frontier(current, Changed(current, new))
    /\ evaluated' = evaluated + 1
    /\ position' = position + 1
    /\ pc' = IF evaluated' = Cardinality(toRun') THEN "updated" ELSE "update"
    /\ UNCHANGED <<graphVars, input>>

EndUpdate ==
    /\ pc = "update"
    /\ position > Len(order)
    /\ pc' = "updated"
    /\ UNCHANGED <<graphVars, input, refVars, loopVars>>

-----------------------------------------------------------------------------
(* BETWEEN UPDATES *)

\* A callback or run_experiment() changes what an update function reads outside
\* the graph.  Only the functions without dependencies read anything there.
SetInput ==
    /\ pc \in {"idle", "updated"}
    /\ \E n \in Starts : \E v \in Values : input' = [input EXCEPT ![n] = v]
    /\ pc' = "idle"
    /\ UNCHANGED <<graphVars, refVars, loopVars>>

\* Mutant: the registers are cleared and the hashes are kept.
Reset_KeepsHashes ==
    /\ pc \in {"idle", "updated"}
    /\ cached' = cached
    /\ value' = [n \in Nodes |-> IF n \in Registers THEN Empty ELSE value[n]]
    /\ pc' = "idle"
    /\ UNCHANGED <<graphVars, input, loopVars>>

\* Mutant: a cleared register holds no value at all.
Reset_WritesNone ==
    /\ pc \in {"idle", "updated"}
    /\ cached' = [n \in Nodes |-> Unhashed]
    /\ value' = [n \in Nodes |-> IF n \in Registers THEN Unhashed ELSE value[n]]
    /\ pc' = "idle"
    /\ UNCHANGED <<graphVars, input, loopVars>>

\* reset_all(): every hash is reset, and the registers are cleared.
Reset ==
    /\ pc \in {"idle", "updated"}
    /\ cached' = [n \in Nodes |-> Unhashed]
    /\ value' = [n \in Nodes |-> IF n \in Registers THEN Empty ELSE value[n]]
    /\ pc' = "idle"
    /\ UNCHANGED <<graphVars, input, loopVars>>

Next ==
    \/ AddNode \/ AddDependency
    \/ BeginUpdate \/ PassOver \/ Evaluate \/ EndUpdate
    \/ SetInput \/ Reset

Spec == Init /\ [][Next]_vars

-----------------------------------------------------------------------------
(* PROPERTIES *)

\* After an update every reference and every register is what its update function
\* would make of its dependencies, though most of them were passed over.
Fresh == pc = "updated" => \A n \in nodes : value[n] = Computed(n)

\* When a node is evaluated, all it depends on is final for this update.
InOrder ==
    [][Evaluate => \A u \in Upstream(current) : \E i \in 1..position - 1 : order[i] = u]_vars
=============================================================================
