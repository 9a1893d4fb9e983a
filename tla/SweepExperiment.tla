--------------------------- MODULE SweepExperiment ---------------------------
(***************************************************************************)
(* SweepExperiment (execution/sweep_experiment.py): the constructor, which  *)
(* orders the variables of the sweep by the cost of the callbacks that use  *)
(* them, and run(), whose recursion is the stack of its Python frames.      *)
(*                                                                         *)
(* A value of a variable is named by its position in the list of its values, *)
(* and the value of an expression by the values of the variables in it.     *)
(***************************************************************************)
EXTENDS Naturals, Sequences, FiniteSets, Functions

CONSTANTS
    Vars,        \* the names of the variables
    Routines,    \* bound of the model: the lists of sweep callbacks to choose from
    Definitions  \* bound of the model: the definitions of the variables to choose from

\* A callback has the variables of its expression, in the order in which they
\* appear in it, and its cost; constants such as "#0.5" have no variables.
Callbacks == [vars : Seq(Vars), cost : Nat]

\* A definition gives the number of values of each variable it defines.
ASSUME SweepAssumption ==
    /\ Routines \subseteq Seq(Callbacks)
    /\ \A d \in Definitions : DOMAIN d \subseteq Vars /\ \A v \in DOMAIN d : d[v] \in Nat

VARIABLES
    routine,     \* sweep_routine
    numValues,   \* the number of values of each variable in computed_vars
    varsOrder,   \* vars_order
    frames,      \* the frames of _nested_loop_recursive()
    todo,        \* the callbacks still to call in the innermost of them
    point,       \* _current_sweep_point, 0 for a variable that is not in it yet
    applied,     \* what each callback was last called with, <<>> before that
    runs,        \* history: the points at which _run_experiment() was called
    pc

vars == <<routine, numValues, varsOrder, frames, todo, point, applied, runs, pc>>

Ends == {"rejected", "done", "aborted", "failed"}

\* A frame has the callbacks accounted for by outer loops, those that execute in
\* this loop and the position of the current value of its variable.
Frames == [accounted : SUBSET Nat, executing : SUBSET Nat, at : Nat]

Deps(i) == Range(routine[i].vars)
Used == UNION {Deps(i) : i \in DOMAIN routine}

\* Every variable has its type.
TypeOK ==
    /\ routine \in Routines
    /\ numValues \in Definitions
    /\ varsOrder \in Seq(Vars)
    /\ frames \in Seq(Frames)
    /\ todo \subseteq DOMAIN routine
    /\ point \in [Vars -> Nat]
    /\ DOMAIN applied = DOMAIN routine
    /\ runs \in Seq([Vars -> Nat])
    /\ pc \in {"construct", "call", "loop", "callbacks"} \cup Ends

Init ==
    /\ routine \in Routines
    /\ numValues \in Definitions
    /\ varsOrder = <<>>
    /\ frames = <<>> /\ todo = {}
    /\ point = [v \in Vars |-> 0]
    /\ applied = [i \in DOMAIN routine |-> <<>>]
    /\ runs = <<>>
    /\ pc = "construct"

-----------------------------------------------------------------------------
(* THE CONSTRUCTOR *)

\* sweep_costs: the costs of the callbacks whose expressions use the variable
SweepCost(v) ==
    FoldFunction(+, 0, [i \in DOMAIN routine |-> IF v \in Deps(i) THEN routine[i].cost ELSE 0])

\* u is in an expression before v is in any.
AppearsBefore(u, v) ==
    \E i \in DOMAIN routine : \E k \in DOMAIN routine[i].vars :
        /\ routine[i].vars[k] = u
        /\ \A j \in 1..i-1 : v \notin Deps(j)
        /\ \A l \in 1..k-1 : routine[i].vars[l] # v

\* By cost from high to low, then by first appearance: sorted() is stable, with
\* reverse=True too.
Precedes(u, v) ==
    \/ SweepCost(u) > SweepCost(v)
    \/ SweepCost(u) = SweepCost(v) /\ u # v /\ AppearsBefore(u, v)

\* Mutant: the cheapest variable varies slowest.
Ordered_CheapestFirst(order) == \A i \in DOMAIN order : \A j \in 1..i-1 : Precedes(order[i], order[j])

Ordered(order) == \A i \in DOMAIN order : \A j \in 1..i-1 : Precedes(order[j], order[i])

\* The sequences of all variables used, without duplicates.
Arrangements ==
    {order \in UNION {[1..n -> Used] : n \in 0..Cardinality(Used)} :
        IsInjective(order) /\ Range(order) = Used}

\* A sweep needs a variable, and each variable it uses a definition and a value.
Construct ==
    /\ pc = "construct"
    /\ \E order \in Arrangements : Ordered(order) /\ varsOrder' = order
    /\ pc' = IF Used # {} /\ \A v \in Used : v \in DOMAIN numValues /\ numValues[v] > 0
             THEN "call" ELSE "rejected"
    /\ UNCHANGED <<routine, numValues, frames, todo, point, applied, runs>>

-----------------------------------------------------------------------------
(* THE NESTED LOOPS *)

depth == Len(frames)
frame == frames[depth]
iteratingVar == varsOrder[depth]

\* The variables of the first d loops.
Outer(d) == {varsOrder[e] : e \in 1..d}

\* What the expression of a callback evaluates to at a point.
Eval(i, p) == [v \in Deps(i) |-> p[v]]

\* Mutant: indices start at zero.
Executing_FromZero(accounted, d) ==
    {i - 1 : i \in {j \in DOMAIN routine \ accounted : Deps(j) \subseteq Outer(d)}}

\* Mutant: a callback executes in the loop of the first of its variables.
Executing_AnyVariable(accounted, d) ==
    {i \in DOMAIN routine \ accounted : Deps(i) \cap Outer(d) # {}}

\* A callback executes in the outermost loop in which all its variables have a
\* value.
Executing(accounted, d) == {i \in DOMAIN routine \ accounted : Deps(i) \subseteq Outer(d)}

\* _nested_loop_recursive() is called, from run() or from a loop.
EnterLoop ==
    /\ pc = "call"
    /\ LET accounted == IF frames = <<>> THEN {} ELSE frame.accounted \cup frame.executing
       IN  frames' = Append(frames, [accounted |-> accounted,
                                     executing |-> Executing(accounted, depth + 1), at |-> 0])
    /\ pc' = "loop"
    /\ UNCHANGED <<routine, numValues, varsOrder, todo, point, applied, runs>>

HasNext == frame.at < numValues[iteratingVar]

\* The next iteration of the loop: the variable gets its value, and the callbacks
\* of the loop are to be called.
NextValue ==
    /\ pc = "loop"
    /\ HasNext
    /\ frames' = [frames EXCEPT ![depth].at = @ + 1]
    /\ point' = [point EXCEPT ![iteratingVar] = frame.at + 1]
    /\ todo' = frame.executing
    /\ pc' = "callbacks"
    /\ UNCHANGED <<routine, numValues, varsOrder, applied, runs>>

\* The loop has no more values: the call returns.
LoopEnds ==
    /\ pc = "loop"
    /\ ~HasNext
    /\ frames' = SubSeq(frames, 1, depth - 1)
    /\ pc' = IF depth = 1 THEN "done" ELSE "loop"
    /\ UNCHANGED <<routine, numValues, varsOrder, todo, point, applied, runs>>

\* The callbacks are called in their order; one that raises or returns an error
\* code ends the sweep.
CallCallback ==
    /\ pc = "callbacks"
    /\ \E i \in todo :
        /\ \A j \in todo : i <= j
        /\ \/ /\ applied' = [applied EXCEPT ![i] = Eval(i, point)]
              /\ todo' = todo \ {i}
              /\ UNCHANGED pc
           \/ pc' = "failed" /\ UNCHANGED <<applied, todo>>
    /\ UNCHANGED <<routine, numValues, varsOrder, frames, point, runs>>

Innermost == depth = Len(varsOrder)

Descend ==
    /\ pc = "callbacks" /\ todo = {}
    /\ ~Innermost
    /\ pc' = "call"
    /\ UNCHANGED <<routine, numValues, varsOrder, frames, todo, point, applied, runs>>

\* In the innermost loop: _should_abort() is asked, then the experiment runs,
\* or raises.
RunPoint ==
    /\ pc = "callbacks" /\ todo = {}
    /\ Innermost
    /\ \/ runs' = Append(runs, point) /\ pc' \in {"loop", "failed"}
       \/ pc' = "aborted" /\ UNCHANGED runs
    /\ UNCHANGED <<routine, numValues, varsOrder, frames, todo, point, applied>>

Next == Construct \/ EnterLoop \/ NextValue \/ LoopEnds \/ CallCallback \/ Descend \/ RunPoint

Spec == Init /\ [][Next]_vars

-----------------------------------------------------------------------------
(* PROPERTIES *)

\* Whenever an experiment runs, every swept parameter has been set to the value of
\* its expression at the current point, although a callback is only called in the
\* outermost loop that can evaluate it.
HardwareAtPoint ==
    pc = "callbacks" /\ todo = {} /\ Innermost
        => \A i \in DOMAIN routine : applied[i] = Eval(i, point)

\* The number of points between two values of v: the variables after it vary
\* faster.
Stride(v) ==
    FoldFunction(LAMBDA n, stride : n * stride, 1, [u \in {u \in Used : Precedes(v, u)} |-> numValues[u]])

\* The k-th point, counted from zero, of the grid of all values, the costliest
\* variable varying slowest.
GridPoint(k) ==
    [v \in Vars |-> IF v \in Used THEN 1 + ((k \div Stride(v)) % numValues[v]) ELSE 0]

\* The points are run in the order the header of the experiment announces, each
\* once, and all of them if the sweep is neither aborted nor failed (the client matches
\* iterations to points by counting).
GridInOrder ==
    /\ \A k \in DOMAIN runs : runs[k] = GridPoint(k - 1)
    /\ pc = "done" =>
        Len(runs) = FoldFunction(LAMBDA n, total : n * total, 1, [u \in Used |-> numValues[u]])
=============================================================================
