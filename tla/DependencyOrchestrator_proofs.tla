-------------------- MODULE DependencyOrchestrator_proofs --------------------
(* Proofs about update(): what it passes over is up to date all the same. *)
EXTENDS DependencyOrchestrator, FiniteSetTheorems, TLAPS

-----------------------------------------------------------------------------
(* THE INVARIANT                                                             *)
(*                                                                           *)
(* Fresh is not inductive.  An update may pass over a node because nothing it *)
(* depends on has changed since its last evaluation, so the invariant has to  *)
(* say what holds of that evaluation: the hash of a reference is that of its  *)
(* content, and either every hash is reset (Cold) or no hash is and what waits *)
(* for nobody is up to date (Warm).  Half of the hashes reset would be fatal. *)

Consistent(n) == value[n] = Computed(n)

Settled(n) == cached[n] # Unhashed /\ Consistent(n)

HashOfContent == \A n \in Nodes : cached[n] = Unhashed \/ cached[n] = value[n]

Sorted ==
    /\ valid => order \in Orders(edges)
    /\ pc # "building" => valid
    /\ pc = "building" => cached = [n \in Nodes |-> Unhashed]

\* Between updates.
Resting ==
    \/ \A n \in nodes : cached[n] = Unhashed
    \/ \A n \in nodes : cached[n] # Unhashed /\ (n \notin Starts => Consistent(n))

Visited == {order[i] : i \in 1..position - 1}

\* During an update that began with every hash reset: whatever follows a visited
\* node waits.
Cold ==
    /\ \A n \in nodes \ Visited : cached[n] = Unhashed
    /\ \A v \in Visited : Successors(v) \subseteq toRun

\* During any other update: what does not wait is up to date.
Warm == \A n \in nodes \ Visited : cached[n] # Unhashed /\ (n \notin toRun => Consistent(n))

Updating ==
    /\ position \in 1..Len(order) + 1
    /\ Starts \subseteq toRun
    /\ evaluated = Cardinality(Visited \cap toRun)
    /\ \A v \in Visited : Settled(v)
    /\ Cold \/ Warm

IInv ==
    /\ TypeOK
    /\ HashOfContent
    /\ Sorted
    /\ pc # "update" => Resting
    /\ pc = "update" => Updating
    /\ Fresh

-----------------------------------------------------------------------------
(* LEMMAS *)

\* A graph has finitely many nodes.
LEMMA NodesFinite == TypeOK => IsFiniteSet(nodes) /\ Cardinality(nodes) \in Nat
BY FiniteAssumption, FS_Subset, FS_CardinalityType DEF TypeOK

\* A cached order visits every node once, and after all it depends on.
LEMMA OrderFacts ==
    ASSUME TypeOK, order \in Orders(edges)
    PROVE  /\ Len(order) = Cardinality(nodes)
           /\ DOMAIN order = 1..Len(order)
           /\ \A n \in nodes : \E i \in 1..Len(order) : order[i] = n
           /\ \A i \in 1..Len(order) : order[i] \in nodes
           /\ \A i, j \in 1..Len(order) : order[i] = order[j] => i = j
           /\ \A i \in 1..Len(order) : \A u \in Upstream(order[i]) :
                 \E j \in 1..i - 1 : order[j] = u
<1>1. Cardinality(nodes) \in Nat
  BY NodesFinite
<1>2. order \in [1..Cardinality(nodes) -> nodes] /\ IsOrder(order, edges)
  BY DEF Orders
<1>3. Len(order) = Cardinality(nodes) /\ DOMAIN order = 1..Len(order)
  BY <1>1, <1>2 DEF TypeOK
<1> QED
  BY <1>1, <1>2, <1>3 DEF IsOrder, Range, IsInjective, Upstream, TypeOK

\* The nodes before the current one are not evaluated again.
LEMMA VisitedFacts ==
    ASSUME TypeOK, order \in Orders(edges), position \in 1..Len(order)
    PROVE  /\ current \in nodes \ Visited
           /\ Upstream(current) \subseteq Visited
           /\ \A v \in Visited : v \in nodes /\ Upstream(v) \subseteq Visited
           /\ {order[i] : i \in 1..position} = Visited \cup {current}
           /\ Successors(current) \subseteq nodes \ (Visited \cup {current})
<1>1. position \in Nat /\ Len(order) \in Nat
  BY DEF TypeOK
<1>2. current \in nodes
  BY OrderFacts DEF current
<1>3. current \notin Visited
  <2>1. \A i \in 1..position - 1 : order[i] # order[position]
    BY <1>1, OrderFacts
  <2> QED
    BY <2>1 DEF current, Visited
<1>4. Upstream(current) \subseteq Visited
  <2>1. \A u \in Upstream(order[position]) : \E j \in 1..position - 1 : order[j] = u
    BY OrderFacts
  <2> QED
    BY <2>1 DEF current, Visited
<1>5. \A v \in Visited : v \in nodes /\ Upstream(v) \subseteq Visited
  <2> SUFFICES ASSUME NEW i \in 1..position - 1
               PROVE  order[i] \in nodes /\ Upstream(order[i]) \subseteq Visited
    BY DEF Visited
  <2>1. i \in 1..Len(order)
    BY <1>1
  <2>2. \A u \in Upstream(order[i]) : \E j \in 1..i - 1 : order[j] = u
    BY <2>1, OrderFacts
  <2>3. \A j \in 1..i - 1 : j \in 1..position - 1
    BY <1>1
  <2>4. order[i] \in nodes
    BY <2>1, OrderFacts
  <2> QED
    BY <2>2, <2>3, <2>4 DEF Visited
<1>6. {order[i] : i \in 1..position} = Visited \cup {current}
  BY <1>1 DEF Visited, current
<1>7. Successors(current) \subseteq nodes \ (Visited \cup {current})
  <2> SUFFICES ASSUME NEW s \in Successors(current), s \in Visited \cup {current}
               PROVE  FALSE
    BY DEF Successors
  <2>1. current \in Upstream(s)
    BY <1>2 DEF Successors, Upstream
  <2>2. Upstream(s) \subseteq Visited
    BY <1>4, <1>5
  <2> QED
    BY <2>1, <2>2, <1>3
<1> QED
  BY <1>2, <1>3, <1>4, <1>5, <1>6, <1>7

\* What an update function computes is a value, and the same one the next time.
LEMMA ComputedFacts ==
    ASSUME TypeOK, NEW n \in nodes
    PROVE  /\ Computed(n) \in Values
           /\ Compute(n, input[n], [u \in Upstream(n) |-> value[u]], Computed(n)) = Computed(n)
<1>1. n \in Nodes /\ input[n] \in Values /\ value[n] \in Values
  BY DEF TypeOK
<1>2. Upstream(n) \in SUBSET Nodes
  BY DEF TypeOK, Upstream
<1>3. [u \in Upstream(n) |-> value[u]] \in [Upstream(n) -> Values]
  BY <1>2 DEF TypeOK
<1> QED
  BY <1>1, <1>2, <1>3, ComputeAssumption DEF Computed

-----------------------------------------------------------------------------
(* TYPES *)

\* Every step keeps the types.
LEMMA TypeStep == TypeOK /\ Sorted /\ [Next]_vars => TypeOK'
<1> SUFFICES ASSUME TypeOK, Sorted, [Next]_vars
             PROVE  TypeOK'
  OBVIOUS
<1> USE DEF graphVars, refVars, loopVars
<1>1. CASE AddNode
  <2>1. nodes \subseteq nodes' /\ nodes' \subseteq Nodes
    BY <1>1 DEF AddNode, TypeOK
  <2>2. edges' \subseteq nodes' \X nodes' /\ toRun' \subseteq nodes'
    BY <1>1, <2>1 DEF AddNode, TypeOK
  <2>3. order' = order /\ order \in Seq(nodes)
    BY <1>1 DEF AddNode, TypeOK
  <2>4. order' \in Seq(nodes')
    BY <2>1, <2>3
  <2> QED
    BY <2>1, <2>2, <2>4, <1>1 DEF AddNode, TypeOK
<1>2. CASE AddDependency
  <2>1. edges' \subseteq nodes' \X nodes'
    BY <1>2 DEF AddDependency, TypeOK
  <2> QED
    BY <2>1, <1>2 DEF AddDependency, TypeOK
<1>3. CASE BeginUpdate
  <2>1. Starts \subseteq nodes
    BY DEF Starts
  <2>2. order' \in Seq(nodes)
    <3>1. CASE valid
      BY <3>1, <1>3 DEF BeginUpdate, TypeOK
    <3>2. CASE ~valid
      BY <3>2, <1>3, NodesFinite DEF BeginUpdate, Orders
    <3> QED
      BY <3>1, <3>2
  <2> QED
    BY <2>1, <2>2, <1>3 DEF BeginUpdate, TypeOK
<1>4. CASE PassOver
  BY <1>4 DEF PassOver, TypeOK
<1>5. CASE Evaluate
  <2>1. current \in nodes
    BY <1>5 DEF Evaluate, TypeOK
  <2>2. Computed(current) \in Values
    BY <2>1, ComputedFacts
  <2>3. toRun' \subseteq nodes
    BY <1>5 DEF Evaluate, TypeOK, Frontier, Successors
  <2>4. value' \in [Nodes -> Values]
    BY <1>5, <2>2 DEF Evaluate, TypeOK
  <2>5. cached' \in [Nodes -> Values \cup {Unhashed}]
    BY <1>5, <2>2 DEF Evaluate, TypeOK
  <2>6. pc' \in {"update", "updated"} /\ evaluated' \in Nat /\ position' \in Nat \ {0}
    BY <1>5 DEF Evaluate, TypeOK
  <2> QED
    BY <2>3, <2>4, <2>5, <2>6, <1>5 DEF Evaluate, TypeOK
<1>6. CASE EndUpdate
  BY <1>6 DEF EndUpdate, TypeOK
<1>7. CASE SetInput
  BY <1>7 DEF SetInput, TypeOK
<1>8. CASE Reset
  BY <1>8, ValueAssumption DEF Reset, TypeOK
<1>9. CASE UNCHANGED vars
  BY <1>9 DEF vars, TypeOK
<1> QED
  BY <1>1, <1>2, <1>3, <1>4, <1>5, <1>6, <1>7, <1>8, <1>9 DEF Next

\* A cached order stays a topological order of the graph.
LEMMA SortedStep == TypeOK /\ Sorted /\ [Next]_vars => Sorted'
<1> SUFFICES ASSUME TypeOK, Sorted, [Next]_vars
             PROVE  Sorted'
  OBVIOUS
<1>1. CASE AddNode \/ AddDependency
  BY <1>1 DEF AddNode, AddDependency, Sorted, refVars
<1>2. CASE BeginUpdate
  <2>1. order' \in Orders(edges)
    BY <1>2 DEF BeginUpdate, Sorted
  <2>2. Orders(edges)' = Orders(edges)
    BY <1>2 DEF BeginUpdate, Orders, IsOrder, Range, IsInjective
  <2> QED
    BY <2>1, <2>2, <1>2 DEF BeginUpdate, Sorted
<1>3. CASE PassOver \/ Evaluate \/ EndUpdate \/ SetInput \/ Reset \/ UNCHANGED vars
  <2>1. UNCHANGED graphVars
    BY <1>3 DEF PassOver, Evaluate, EndUpdate, SetInput, Reset, vars
  <2>2. Orders(edges)' = Orders(edges) /\ order' = order /\ valid' = valid
    BY <2>1 DEF graphVars, Orders, IsOrder
  <2>3. pc' # "building" \/ UNCHANGED <<pc, cached>>
    BY <1>3 DEF PassOver, Evaluate, EndUpdate, SetInput, Reset, vars, refVars
  <2>4. pc # "building" \/ pc' = pc
    BY <1>3 DEF PassOver, Evaluate, EndUpdate, SetInput, Reset, vars
  <2> QED
    BY <2>2, <2>3, <2>4 DEF Sorted
<1> QED
  BY <1>1, <1>2, <1>3 DEF Next

\* The empty graph has its types and no order that could be wrong.
LEMMA InitFacts == Init => TypeOK /\ Sorted
<1> SUFFICES ASSUME Init
             PROVE  TypeOK /\ Sorted
  OBVIOUS
<1>1. input \in [Nodes -> Values] /\ value \in [Nodes -> Values]
  BY ValueAssumption DEF Init
<1>2. cached \in [Nodes -> Values \cup {Unhashed}]
  BY DEF Init
<1>3. order \in Seq(nodes)
  BY DEF Init
<1>4. nodes \subseteq Nodes /\ edges \subseteq nodes \X nodes /\ toRun \subseteq nodes
  BY DEF Init
<1>5. valid \in BOOLEAN
  BY Zenon DEF Init
<1>6. pc \in {"building", "idle", "update", "updated"}
  BY DEF Init
<1>7. position \in Nat \ {0} /\ evaluated \in Nat
  BY DEF Init
<1>8. Sorted
  BY DEF Init, Sorted
<1> QED
  BY <1>1, <1>2, <1>3, <1>4, <1>5, <1>6, <1>7, <1>8 DEF TypeOK

\* Every variable has its type.
THEOREM OrchestratorTypes == Spec => []TypeOK
<1>1. Init => TypeOK /\ Sorted
  BY InitFacts
<1>2. TypeOK /\ Sorted /\ [Next]_vars => (TypeOK /\ Sorted)'
  BY TypeStep, SortedStep
<1> QED
  BY <1>1, <1>2, PTL DEF Spec

\* update(): what a node depends on is final when the node is evaluated.
THEOREM DependenciesFirst == Spec => InOrder
<1>1. Init => TypeOK /\ Sorted
  BY InitFacts
<1>2. TypeOK /\ Sorted /\ [Next]_vars => (TypeOK /\ Sorted)'
  BY TypeStep, SortedStep
<1>3. TypeOK /\ Sorted /\ Evaluate =>
        \A u \in Upstream(current) : \E i \in 1..position - 1 : order[i] = u
  <2> SUFFICES ASSUME TypeOK, Sorted, Evaluate
               PROVE  \A u \in Upstream(current) : \E i \in 1..position - 1 : order[i] = u
    OBVIOUS
  <2>1. order \in Orders(edges)
    BY DEF Evaluate, Sorted
  <2>2. position \in 1..Len(order)
    BY DEF Evaluate, TypeOK
  <2> QED
    BY <2>1, <2>2, OrderFacts DEF current
<1> QED
  BY <1>1, <1>2, <1>3, PTL DEF Spec, InOrder

-----------------------------------------------------------------------------
(* WHAT IS PASSED OVER IS UP TO DATE *)

\* A node stays as it is when neither it nor what it depends on changes.
LEMMA ConsistentKept ==
    ASSUME NEW n, UNCHANGED <<nodes, edges>>, input'[n] = input[n],
           value'[n] = value[n], \A u \in Upstream(n) : value'[u] = value[u]
    PROVE  Consistent(n)' <=> Consistent(n)
<1>1. Upstream(n)' = Upstream(n)
  BY DEF Upstream
<1>2. [u \in Upstream(n)' |-> value'[u]] = [u \in Upstream(n) |-> value[u]]
  BY <1>1
<1> QED
  BY <1>2 DEF Consistent, Computed

\* When the loop of update() ends, no node is stale.
LEMMA Finished ==
    TypeOK /\ order \in Orders(edges) /\ Updating
        /\ (evaluated = Cardinality(toRun) \/ position > Len(order))
    => \A n \in nodes : Settled(n)
<1> SUFFICES ASSUME TypeOK, order \in Orders(edges), Updating,
                    evaluated = Cardinality(toRun) \/ position > Len(order),
                    NEW n \in nodes
             PROVE  Settled(n)
  OBVIOUS
<1>1. position \in Nat /\ Len(order) \in Nat
  BY DEF TypeOK
<1>2. CASE position > Len(order)
  <2>1. PICK i \in 1..Len(order) : order[i] = n
    BY OrderFacts
  <2>2. n \in Visited
    BY <1>1, <1>2, <2>1 DEF Visited, Updating
  <2> QED
    BY <2>2 DEF Updating
<1>3. CASE position <= Len(order) /\ evaluated = Cardinality(toRun)
  <2>1. IsFiniteSet(toRun)
    BY NodesFinite, FS_Subset DEF TypeOK
  <2>2. Visited \cap toRun = toRun
    BY <2>1, <1>3, FS_Subset DEF Updating
  <2>3. position \in 1..Len(order)
    BY <1>1, <1>3 DEF Updating
  <2>4. ~Cold
    <3> SUFFICES ASSUME Cold
                 PROVE  FALSE
      OBVIOUS
    <3>1. current \in toRun
      <4>1. CASE Upstream(current) = {}
        BY <2>3, <4>1, VisitedFacts DEF Starts, Updating
      <4>2. CASE Upstream(current) # {}
        <5>1. PICK u \in Upstream(current) : TRUE
          BY <4>2
        <5>2. u \in Visited /\ current \in Successors(u)
          BY <2>3, <5>1, VisitedFacts DEF Upstream, Successors
        <5> QED
          BY <5>2 DEF Cold
      <4> QED
        BY <4>1, <4>2
    <3> QED
      BY <3>1, <2>2, <2>3, VisitedFacts
  <2>5. CASE n \in Visited
    BY <2>5 DEF Updating
  <2>6. CASE n \notin Visited
    BY <2>6, <2>2, <2>4 DEF Updating, Warm, Settled
  <2> QED
    BY <2>5, <2>6
<1> QED
  BY <1>1, <1>2, <1>3

\* update() begins.
LEMMA BeginStep ==
    ASSUME TypeOK, Sorted, Resting, BeginUpdate
    PROVE  Updating'
<1>1. /\ UNCHANGED <<nodes, edges, input, value, cached>>
      /\ position' = 1 /\ toRun' = Starts /\ evaluated' = 0
  BY DEF BeginUpdate, refVars
<1>2. Visited' = {} /\ Starts' = Starts
  BY <1>1 DEF Visited, Starts, Upstream
<1>3. \A n \in nodes : Consistent(n)' <=> Consistent(n)
  BY <1>1, ConsistentKept
<1>4. Len(order)' \in Nat
  <2>1. TypeOK'
    BY TypeStep DEF Next
  <2> QED
    BY <2>1 DEF TypeOK
<1>5. Cold' \/ Warm'
  <2>1. CASE \A n \in nodes : cached[n] = Unhashed
    BY <2>1, <1>1, <1>2 DEF Cold
  <2>2. CASE \A n \in nodes : cached[n] # Unhashed /\ (n \notin Starts => Consistent(n))
    BY <2>2, <1>1, <1>2, <1>3 DEF Warm
  <2> QED
    BY <2>1, <2>2 DEF Resting
<1>6. evaluated' = Cardinality((Visited \cap toRun)')
  BY <1>1, <1>2, FS_EmptySet
<1> QED
  BY <1>1, <1>2, <1>4, <1>5, <1>6 DEF Updating

\* A node is passed over: it was up to date.
LEMMA PassOverStep ==
    ASSUME TypeOK, Sorted, Updating, PassOver
    PROVE  Updating'
<1>1. /\ UNCHANGED <<nodes, edges, order, input, value, cached, toRun, evaluated>>
      /\ position' = position + 1
  BY DEF PassOver, graphVars, refVars
<1>2. order \in Orders(edges) /\ position \in 1..Len(order)
  BY DEF PassOver, Sorted, Updating
<1>3. PICK c \in nodes : c = current
  BY <1>2, VisitedFacts
<1>4. c \notin Visited /\ Upstream(c) \subseteq Visited /\ c \notin toRun
  BY <1>2, <1>3, VisitedFacts DEF PassOver
<1>5. Visited' = Visited \cup {c}
  <2>1. position' - 1 = position
    BY <1>1, <1>2
  <2> QED
    BY <2>1, <1>1, <1>2, <1>3, VisitedFacts DEF Visited
<1>6. \A n \in nodes : Consistent(n)' <=> Consistent(n)
  BY <1>1, ConsistentKept
<1>7. Warm
  <2> SUFFICES ASSUME Cold
               PROVE  FALSE
    BY DEF Updating
  <2>1. PICK u \in Upstream(c) : TRUE
    BY <1>3, <1>4 DEF Updating, Starts
  <2>2. c \in Successors(u)
    BY <1>3, <2>1 DEF Successors, Upstream
  <2> QED
    BY <2>1, <2>2, <1>4 DEF Cold
<1>8. Settled(c)'
  BY <1>1, <1>3, <1>4, <1>6, <1>7 DEF Warm, Settled
<1>9. \A v \in Visited : Settled(v)'
  BY <1>1, <1>2, <1>6, VisitedFacts DEF Updating, Settled
<1>10. Warm'
  BY <1>1, <1>5, <1>6, <1>7 DEF Warm
<1>11. Starts' = Starts
  BY <1>1 DEF Starts, Upstream
<1>12. (Visited \cap toRun)' = Visited \cap toRun
  BY <1>1, <1>4, <1>5
<1>13. position' \in 1..Len(order') + 1
  BY <1>1, <1>2
<1> QED
  BY <1>1, <1>5, <1>8, <1>9, <1>10, <1>11, <1>12, <1>13 DEF Updating

\* A node is evaluated: it is up to date now, and what the change reaches waits.
LEMMA EvaluateStep ==
    ASSUME TypeOK, Sorted, HashOfContent, Updating, Evaluate
    PROVE  Updating' /\ HashOfContent'
<1>1. UNCHANGED <<nodes, edges, order, input>> /\ position' = position + 1
  BY DEF Evaluate, graphVars
<1>2. order \in Orders(edges) /\ position \in 1..Len(order)
  BY DEF Evaluate, Sorted, Updating
<1>3. PICK c \in nodes : c = current
  BY <1>2, VisitedFacts
<1>4. /\ c \notin Visited /\ Upstream(c) \subseteq Visited /\ c \in toRun
      /\ Successors(c) \subseteq nodes \ (Visited \cup {c})
  BY <1>2, <1>3, VisitedFacts DEF Evaluate
<1>5. Visited' = Visited \cup {c}
  <2>1. position' - 1 = position
    BY <1>1, <1>2
  <2> QED
    BY <2>1, <1>1, <1>2, <1>3, VisitedFacts DEF Visited
<1>6. PICK new \in Values :
         /\ new = Computed(c)
         /\ value' = [value EXCEPT ![c] = new]
         /\ cached' = [cached EXCEPT ![c] = new]
         /\ toRun' = Frontier(c, Changed(c, new))
  BY <1>3, ComputedFacts DEF Evaluate
<1>7. /\ value'[c] = new /\ cached'[c] = new /\ new # Unhashed
      /\ \A n \in nodes : n # c => value'[n] = value[n] /\ cached'[n] = cached[n]
  BY <1>6, ValueAssumption DEF TypeOK
<1>8. HashOfContent'
  BY <1>6, <1>7 DEF HashOfContent, TypeOK
<1>9. Settled(c)'
  <2>1. [u \in Upstream(c)' |-> value'[u]] = [u \in Upstream(c) |-> value[u]]
    BY <1>1, <1>4, <1>7 DEF Upstream
  <2>2. Computed(c)' = Compute(c, input[c], [u \in Upstream(c) |-> value[u]], new)
    BY <2>1, <1>1, <1>7 DEF Computed
  <2>3. Computed(c)' = new
    BY <2>2, <1>6, ComputedFacts
  <2> QED
    BY <2>3, <1>7 DEF Settled, Consistent
<1>10. \A n \in nodes : n # c /\ c \notin Upstream(n) => (Consistent(n)' <=> Consistent(n))
  <2> SUFFICES ASSUME NEW n \in nodes, n # c, c \notin Upstream(n)
               PROVE  Consistent(n)' <=> Consistent(n)
    OBVIOUS
  <2>1. \A u \in Upstream(n) : value'[u] = value[u]
    BY <1>7 DEF Upstream
  <2> QED
    BY <2>1, <1>1, <1>7, ConsistentKept
<1>11. \A v \in Visited : Settled(v)'
  <2> SUFFICES ASSUME NEW v \in Visited
               PROVE  Settled(v)'
    OBVIOUS
  <2>1. v \in nodes /\ v # c /\ c \notin Upstream(v)
    BY <1>2, <1>4, VisitedFacts
  <2>2. Settled(v)
    BY DEF Updating
  <2> QED
    BY <2>1, <2>2, <1>7, <1>10 DEF Settled
<1>12. toRun \subseteq toRun' /\ toRun' \subseteq toRun \cup Successors(c)
  BY <1>6 DEF Frontier
<1>13. Starts' = Starts /\ \A n : Successors(n)' = Successors(n)
  BY <1>1 DEF Starts, Upstream, Successors
<1>14. Cold => Cold'
  <2> SUFFICES ASSUME Cold
               PROVE  Cold'
    OBVIOUS
  <2>1. Successors(c) \subseteq toRun'
    BY <1>4, <1>6, <1>7 DEF Cold, Changed, Frontier
  <2>2. \A v \in Visited' : Successors(v)' \subseteq toRun'
    BY <2>1, <1>5, <1>12, <1>13 DEF Cold
  <2>3. \A n \in nodes' \ Visited' : cached'[n] = Unhashed
    BY <1>1, <1>5, <1>7 DEF Cold
  <2> QED
    BY <2>2, <2>3 DEF Cold
<1>15. Warm => Warm'
  <2> SUFFICES ASSUME Warm, NEW n \in nodes, n \notin Visited, n # c
               PROVE  cached'[n] # Unhashed /\ (n \notin toRun' => Consistent(n)')
    BY <1>1, <1>5 DEF Warm
  <2>1. cached'[n] # Unhashed
    BY <1>7 DEF Warm
  <2>2. ASSUME n \notin toRun'
        PROVE  Consistent(n)'
    <3>1. Consistent(n)
      BY <2>2, <1>12 DEF Warm
    <3>2. CASE c \notin Upstream(n)
      BY <3>1, <3>2, <1>10
    <3>3. CASE c \in Upstream(n)
      <4>1. n \in Successors(c)
        BY <3>3 DEF Upstream, Successors
      <4>2. cached[c] = new
        BY <4>1, <2>2, <1>6 DEF Frontier, Changed
      <4>3. value[c] = new
        BY <4>2, <1>7 DEF HashOfContent, TypeOK
      <4>4. \A m \in nodes : value'[m] = value[m]
        BY <4>3, <1>7
      <4> QED
        BY <4>4, <3>1, <1>1, ConsistentKept DEF Upstream
    <3> QED
      BY <3>2, <3>3
  <2> QED
    BY <2>1, <2>2
<1>16. evaluated' = Cardinality((Visited \cap toRun)')
  <2>1. (Visited \cap toRun)' = (Visited \cap toRun) \cup {c}
    BY <1>4, <1>5, <1>12
  <2>2. IsFiniteSet(Visited \cap toRun)
    BY NodesFinite, FS_Subset DEF TypeOK
  <2>3. Cardinality((Visited \cap toRun) \cup {c}) = Cardinality(Visited \cap toRun) + 1
    BY <2>2, <1>4, FS_AddElement
  <2> QED
    BY <2>1, <2>3 DEF Evaluate, Updating
<1>17. position' \in 1..Len(order') + 1
  BY <1>1, <1>2
<1>18. Starts' \subseteq toRun'
  BY <1>12, <1>13 DEF Updating
<1> QED
  BY <1>5, <1>8, <1>9, <1>11, <1>14, <1>15, <1>16, <1>17, <1>18 DEF Updating

\* Every step keeps the invariant.
LEMMA InvStep == IInv /\ [Next]_vars => IInv'
<1> SUFFICES ASSUME IInv, [Next]_vars
             PROVE  IInv'
  OBVIOUS
<1> USE DEF graphVars, refVars, loopVars
<1>1. TypeOK' /\ Sorted'
  BY TypeStep, SortedStep DEF IInv
<1>2. Sorted /\ TypeOK
  BY DEF IInv
<1>3. CASE AddNode \/ AddDependency
  <2>1. HashOfContent' /\ pc' = "building"
    BY <1>3 DEF AddNode, AddDependency, IInv, HashOfContent
  <2>2. Resting'
    BY <2>1, <1>1 DEF Sorted, Resting, TypeOK
  <2> QED
    BY <2>1, <2>2, <1>1 DEF IInv, Fresh
<1>4. CASE BeginUpdate
  <2>1. HashOfContent' /\ pc' = "update" /\ Resting
    BY <1>4 DEF BeginUpdate, IInv, HashOfContent
  <2>2. Updating'
    BY <2>1, <1>2, <1>4, BeginStep
  <2> QED
    BY <2>1, <2>2, <1>1 DEF IInv, Fresh
<1>5. CASE PassOver
  <2>1. HashOfContent' /\ pc' = "update" /\ Updating
    BY <1>5 DEF PassOver, IInv, HashOfContent
  <2>2. Updating'
    BY <2>1, <1>2, <1>5, PassOverStep
  <2> QED
    BY <2>1, <2>2, <1>1 DEF IInv, Fresh
<1>6. CASE Evaluate
  <2>1. Updating' /\ HashOfContent'
    BY <1>2, <1>6, EvaluateStep DEF IInv, Evaluate
  <2>2. CASE pc' = "update"
    BY <2>1, <2>2, <1>1 DEF IInv, Fresh
  <2>3. CASE pc' = "updated"
    <3>1. (evaluated = Cardinality(toRun) \/ position > Len(order))'
      BY <2>3, <1>6 DEF Evaluate
    <3>2. (order \in Orders(edges))'
      BY <2>3, <1>1 DEF Sorted
    <3>3. (\A n \in nodes : Settled(n))'
      BY <1>1, <2>1, <3>1, <3>2, Finished, PTL
    <3>4. Resting' /\ Fresh'
      BY <3>3 DEF Settled, Resting, Fresh, Consistent
    <3> QED
      BY <2>1, <2>3, <3>4, <1>1 DEF IInv
  <2> QED
    BY <2>2, <2>3, <1>6 DEF Evaluate
<1>7. CASE EndUpdate
  <2>1. UNCHANGED <<nodes, edges, input, value, cached>> /\ pc' = "updated"
    BY <1>7 DEF EndUpdate
  <2>2. HashOfContent'
    BY <2>1 DEF IInv, HashOfContent
  <2>3. \A n \in nodes : Settled(n)
    BY <1>2, <1>7, Finished DEF EndUpdate, IInv, Sorted
  <2>4. \A n \in nodes : Settled(n)'
    BY <2>1, <2>3, ConsistentKept DEF Settled
  <2>5. Resting' /\ Fresh'
    BY <2>1, <2>4 DEF Settled, Resting, Fresh, Consistent
  <2> QED
    BY <2>1, <2>2, <2>5, <1>1 DEF IInv
<1>8. CASE SetInput
  <2>1. UNCHANGED <<nodes, edges, value, cached>> /\ pc' = "idle" /\ pc # "update"
    BY <1>8 DEF SetInput
  <2>2. HashOfContent'
    BY <2>1 DEF IInv, HashOfContent
  <2>3. Starts' = Starts
    BY <2>1 DEF Starts, Upstream
  <2>4. \A n \in nodes : n \notin Starts => input'[n] = input[n]
    BY <1>8, <1>2 DEF SetInput, TypeOK
  <2>5. \A n \in nodes : n \notin Starts => (Consistent(n)' <=> Consistent(n))
    BY <2>1, <2>4, ConsistentKept
  <2>6. Resting'
    BY <2>1, <2>3, <2>5 DEF IInv, Resting
  <2> QED
    BY <2>1, <2>2, <2>6, <1>1 DEF IInv, Fresh
<1>9. CASE Reset
  <2>1. HashOfContent' /\ pc' = "idle" /\ Resting'
    BY <1>9, <1>1 DEF Reset, HashOfContent, Resting, TypeOK
  <2> QED
    BY <2>1, <1>1 DEF IInv, Fresh
<1>10. CASE UNCHANGED vars
  <2>1. \A n : Consistent(n)' <=> Consistent(n)
    BY <1>10, ConsistentKept DEF vars
  <2>2. Starts' = Starts /\ Visited' = Visited /\ \A n : Successors(n)' = Successors(n)
    BY <1>10 DEF vars, Starts, Upstream, Visited, Successors
  <2>3. HashOfContent' /\ (pc' # "update" => Resting')
    BY <1>10, <2>1, <2>2 DEF IInv, HashOfContent, Resting, vars
  <2>4. pc' = "update" => Updating'
    BY <1>10, <2>1, <2>2 DEF IInv, Updating, Cold, Warm, Settled, vars
  <2>5. Fresh'
    BY <1>10, <2>1 DEF IInv, Fresh, Consistent, vars
  <2> QED
    BY <2>3, <2>4, <2>5, <1>1 DEF IInv
<1> QED
  BY <1>3, <1>4, <1>5, <1>6, <1>7, <1>8, <1>9, <1>10 DEF Next

\* update(): after it no reference and no register is stale, whatever the graph,
\* the order and the changes are.
THEOREM NothingStaleAfterUpdate == Spec => []Fresh
<1>1. Init => IInv
  <2> SUFFICES ASSUME Init
               PROVE  IInv
    OBVIOUS
  <2>1. TypeOK /\ Sorted
    BY InitFacts
  <2>2. HashOfContent /\ Resting /\ pc = "building"
    BY DEF Init, HashOfContent, Resting
  <2> QED
    BY <2>1, <2>2 DEF IInv, Fresh
<1>2. IInv /\ [Next]_vars => IInv'
  BY InvStep
<1>3. IInv => Fresh
  BY DEF IInv
<1> QED
  BY <1>1, <1>2, <1>3, PTL DEF Spec
=============================================================================
