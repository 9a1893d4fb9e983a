----------------------- MODULE SweepExperiment_proofs -----------------------
(***************************************************************************)
(* For any variables, callbacks and values: when an experiment of a sweep    *)
(* runs, every swept parameter has the value of its expression at the point, *)
(* and the experiments run in the announced order of the points.             *)
(***************************************************************************)
EXTENDS SweepExperiment, SequenceTheorems, FiniteSetTheorems, WellFoundedInduction, TLAPS

\* The callbacks that the first d loops can evaluate.
Covered(d) == {i \in DOMAIN routine : Deps(i) \subseteq Outer(d)}

-----------------------------------------------------------------------------
(* The invariant.                                                           *)

\* The lists and what the constructor made of them.
Inputs ==
    /\ routine \in Routines
    /\ numValues \in Definitions
    /\ varsOrder \in Seq(Vars)
    /\ pc \notin {"construct", "rejected"} =>
           /\ varsOrder # <<>>
           /\ IsInjective(varsOrder)
           /\ Range(varsOrder) = Used
           /\ \A v \in Used : v \in DOMAIN numValues

Types ==
    /\ frames \in Seq(Frames)
    /\ todo \subseteq DOMAIN routine
    /\ point \in [Vars -> Nat]
    /\ DOMAIN applied = DOMAIN routine
    /\ runs \in Seq([Vars -> Nat])
    /\ pc \in {"construct", "call", "loop", "callbacks"} \cup Ends

\* There is a frame for each of the outer loops.
Nesting ==
    /\ pc \in {"construct", "rejected"} => frames = <<>>
    /\ Len(frames) <= Len(varsOrder)
    /\ pc = "call" => Len(frames) < Len(varsOrder)
    /\ pc \in {"loop", "callbacks"} => frames # <<>>

\* A frame has accounted for what its outer loops can evaluate, and executes what
\* only it can.
Accounts ==
    \A d \in 1..Len(frames) :
        /\ frames[d].accounted = IF d = 1 THEN {} ELSE Covered(d - 1)
        /\ frames[d].executing = Executing(frames[d].accounted, d)

\* The callbacks that are up to date with the current point.
UpToDate(S) == \A i \in S : applied[i] = Eval(i, point)

Current ==
    /\ pc = "loop" => UpToDate(frame.accounted)
    /\ pc = "callbacks" => UpToDate(Covered(depth) \ todo)
    /\ pc = "call" /\ frames # <<>> => UpToDate(Covered(depth))

Inv == Inputs /\ Types /\ Nesting /\ Accounts /\ Current

-----------------------------------------------------------------------------
(* What the loops can evaluate.                                             *)

\* The variables in the expressions of a routine are variables.
LEMMA DepsAreVars ==
    ASSUME Inputs, NEW i \in DOMAIN routine PROVE Deps(i) \subseteq Vars
<1>1. routine \in Seq(Callbacks)
    BY SweepAssumption DEF Inputs
<1>2. routine[i] \in Callbacks
    BY <1>1
<1>3. routine[i].vars \in Seq(Vars)
    BY <1>2 DEF Callbacks
<1> QED
    BY <1>3 DEF Deps, Range

\* An inner loop can evaluate at least what an outer one can.
LEMMA CoveredGrows ==
    ASSUME NEW d \in Nat, NEW e \in Nat, d <= e PROVE Covered(d) \subseteq Covered(e)
BY DEF Covered, Outer

\* What a loop executes completes what was accounted for.
LEMMA CoveredSplits ==
    ASSUME Inv, NEW d \in 1..Len(frames)
    PROVE  /\ frames[d].accounted \subseteq Covered(d)
           /\ Covered(d) \ frames[d].executing \subseteq frames[d].accounted
           /\ frames[d].accounted \cup frames[d].executing = Covered(d)
<1>1. frames \in Seq(Frames)
    BY DEF Inv, Types
<1>2. d \in Nat /\ d - 1 \in Nat
    BY <1>1
<1>3. frames[d].accounted \subseteq Covered(d)
    BY <1>2, CoveredGrows DEF Inv, Accounts
<1>4. frames[d].executing = Executing(frames[d].accounted, d)
    BY DEF Inv, Accounts
<1>5. frames[d].executing = Covered(d) \ frames[d].accounted
    BY <1>4 DEF Executing, Covered
<1> QED
    BY <1>3, <1>5

\* The innermost loop can evaluate every callback.
LEMMA AllCovered ==
    ASSUME Inv, pc = "callbacks", Innermost PROVE Covered(depth) = DOMAIN routine
<1>1. Used = Outer(Len(varsOrder))
    BY DEF Inv, Inputs, Range, Outer
<1>2. \A i \in DOMAIN routine : Deps(i) \subseteq Used
    BY DEF Used
<1> QED
    BY <1>1, <1>2 DEF Covered, Innermost

\* A new value of the variable of a loop does not change what outer loops set.
LEMMA OuterUnchanged ==
    ASSUME Inv, pc = "loop", NEW i \in frame.accounted, NEW n
    PROVE  Eval(i, [point EXCEPT ![iteratingVar] = n]) = Eval(i, point)
<1>1. depth \in 1..Len(frames) /\ depth \in 1..Len(varsOrder)
    BY DEF Inv, Nesting, Types, Inputs, depth
<1>2. depth # 1 /\ i \in Covered(depth - 1)
    BY <1>1 DEF Inv, Accounts, frame
<1>3. iteratingVar \notin Outer(depth - 1)
    BY <1>1 DEF Inv, Inputs, iteratingVar, Outer, IsInjective
<1>4. iteratingVar \notin Deps(i)
    BY <1>2, <1>3 DEF Covered
<1>5. \A v \in Deps(i) : v \in DOMAIN point
    BY <1>2, DepsAreVars DEF Inv, Types, Covered
<1> QED
    BY <1>4, <1>5 DEF Eval

-----------------------------------------------------------------------------
(* Every step preserves the invariant.                                      *)

\* Before run() there are no frames.
LEMMA StartInv == Init => Inv
<1> SUFFICES ASSUME Init PROVE Inv
    OBVIOUS
<1>1. Inputs /\ Types
    BY DEF Init, Inputs, Types, Ends
<1>2. Nesting /\ Accounts /\ Current
    BY DEF Init, Nesting, Accounts, Current
<1> QED
    BY <1>1, <1>2 DEF Inv

\* The constructor orders the variables that are used.
LEMMA ConstructInv == ASSUME Inv, Construct PROVE Inv'
<1>1. PICK order \in Arrangements : Ordered(order) /\ varsOrder' = order
    BY DEF Construct
<1>2. order \in Seq(Used) /\ IsInjective(order) /\ Range(order) = Used
    BY <1>1 DEF Arrangements
<1>3. Used \subseteq Vars
    BY DepsAreVars DEF Inv, Used
<1>4. Used' = Used
    BY DEF Construct, Used, Deps
<1>5. varsOrder' \in Seq(Vars)
    BY <1>1, <1>2, <1>3
<1>6. pc' = "call" => varsOrder' # <<>> /\ \A v \in Used : v \in DOMAIN numValues
    BY <1>1, <1>2 DEF Construct, Range
<1>7. Inputs'
    BY <1>1, <1>2, <1>4, <1>5, <1>6 DEF Construct, Inv, Inputs
<1>8. Types'
    BY DEF Construct, Inv, Types, Ends
<1>9. frames = <<>> /\ frames' = <<>>
    BY DEF Construct, Inv, Nesting
<1>10. Nesting' /\ Accounts' /\ Current'
    BY <1>5, <1>6, <1>9 DEF Construct, Nesting, Accounts, Current
<1> QED
    BY <1>7, <1>8, <1>10 DEF Inv

\* Except in the constructor, what the loops can evaluate never changes.
LEMMA SameLoops ==
    ASSUME UNCHANGED <<routine, varsOrder>>
    PROVE  /\ \A d : Covered(d)' = Covered(d)
           /\ \A S, d : Executing(S, d)' = Executing(S, d)
           /\ Used' = Used
           /\ \A i, p : Eval(i, p)' = Eval(i, p)
BY DEF Covered, Executing, Outer, Deps, Used, Eval

\* Nor do the lists.
LEMMA SameInputs ==
    ASSUME Inv, pc \notin {"construct", "rejected"}, UNCHANGED <<routine, numValues, varsOrder>>
    PROVE  Inputs'
BY SameLoops DEF Inv, Inputs

\* A new frame accounts for all that the loops around it execute.
LEMMA EnterLoopInv == ASSUME Inv, EnterLoop PROVE Inv'
<1> DEFINE accounted == IF frames = <<>> THEN {} ELSE frame.accounted \cup frame.executing
           executing == Executing(accounted, depth + 1)
           new == [accounted |-> accounted, executing |-> executing, at |-> 0]
<1>0. frames \in Seq(Frames) /\ depth \in Nat /\ routine \in Seq(Callbacks)
    BY SweepAssumption DEF Inv, Types, Inputs, depth
<1>1. frames' = Append(frames, new) /\ pc = "call" /\ pc' = "loop"
    BY DEF EnterLoop
<1>2. accounted = IF depth = 0 THEN {} ELSE Covered(depth)
    <2>1. CASE frames = <<>>
        BY <2>1 DEF depth
    <2>2. CASE frames # <<>>
        <3>1. depth \in 1..Len(frames) /\ depth # 0
            BY <1>0, <2>2 DEF depth
        <3> QED
            BY <2>2, <3>1, CoveredSplits DEF frame
    <2> QED
        BY <2>1, <2>2
<1>3. new \in Frames
    <2>1. DOMAIN routine \subseteq Nat
        BY <1>0
    <2>2. accounted \subseteq Nat /\ executing \subseteq Nat
        <3> HIDE DEF accounted
        <3> QED
            BY <1>2, <2>1 DEF Covered, Executing
    <2> QED
        BY <2>2 DEF Frames
<1>4. Inputs'
    BY <1>1, SameInputs DEF EnterLoop
<1>5. Types'
    BY <1>0, <1>1, <1>3 DEF EnterLoop, Inv, Types
<1>6. Len(frames') = depth + 1 /\ frames'[depth + 1] = new
      /\ \A d \in 1..depth : frames'[d] = frames[d]
    BY <1>0, <1>1, <1>3 DEF depth
<1>7. Nesting'
    <2>1. varsOrder \in Seq(Vars) /\ Len(frames) < Len(varsOrder) /\ varsOrder' = varsOrder
        BY <1>1 DEF Inv, Inputs, Nesting, EnterLoop
    <2> QED
        BY <1>0, <1>1, <1>6, <2>1 DEF Nesting, depth
<1>8. Accounts'
    <2> SUFFICES ASSUME NEW d \in 1..depth + 1
                 PROVE  /\ frames'[d].accounted = IF d = 1 THEN {} ELSE Covered(d - 1)
                        /\ frames'[d].executing = Executing(frames'[d].accounted, d)
        <3> HIDE DEF accounted, executing, new
        <3>1. ASSUME NEW d \in Nat PROVE Covered(d - 1)' = Covered(d - 1)
            BY SameLoops DEF EnterLoop
        <3>2. ASSUME NEW d \in Nat
              PROVE  Executing(frames[d].accounted, d)' = Executing(frames'[d].accounted, d)
            BY DEF EnterLoop, Executing, Outer, Deps
        <3> QED
            BY <1>0, <1>6, <3>1, <3>2 DEF Accounts
    <2>1. CASE d = depth + 1
        <3> HIDE DEF accounted, executing
        <3>1. frames'[d].accounted = accounted /\ frames'[d].executing = executing
            BY <1>6, <2>1
        <3>2. d - 1 = depth /\ (d = 1 <=> depth = 0)
            BY <1>0, <2>1
        <3>3. executing = Executing(accounted, d)
            BY <2>1 DEF executing
        <3> QED
            BY <1>2, <3>1, <3>2, <3>3
    <2>2. CASE d # depth + 1
        <3>1. d \in 1..depth /\ d \in 1..Len(frames)
            BY <1>0, <2>2 DEF depth
        <3> QED
            BY <1>6, <3>1 DEF Inv, Accounts
    <2> QED
        BY <2>1, <2>2
<1>9. Current'
    <2>1. frame'.accounted = accounted
        BY <1>0, <1>6 DEF frame, depth
    <2>2. UpToDate(accounted)
        <3>1. CASE frames = <<>>
            BY <3>1 DEF UpToDate
        <3>2. CASE frames # <<>>
            BY <1>0, <1>1, <1>2, <3>2 DEF Inv, Current, UpToDate
        <3> QED
            BY <3>1, <3>2
    <2>3. \A i \in accounted : applied'[i] = Eval(i, point)'
        BY <2>2 DEF UpToDate, EnterLoop, Eval, Deps
    <2> QED
        BY <1>1, <2>1, <2>3 DEF Current, UpToDate
<1> QED
    BY <1>4, <1>5, <1>7, <1>8, <1>9 DEF Inv

\* The frames of the loops that go on keep their accounts.
LEMMA AccountsKept ==
    ASSUME Inv, UNCHANGED <<routine, varsOrder>>,
           frames' \in Seq(Frames), Len(frames') <= Len(frames),
           \A d \in 1..Len(frames') : /\ frames'[d].accounted = frames[d].accounted
                                      /\ frames'[d].executing = frames[d].executing
    PROVE  Accounts'
<1>1. ASSUME NEW d \in Nat PROVE Covered(d - 1)' = Covered(d - 1)
    BY SameLoops
<1>2. ASSUME NEW d \in Nat
      PROVE  Executing(frames[d].accounted, d)' = Executing(frames'[d].accounted, d)
    BY DEF Executing, Outer, Deps
<1>3. Len(frames) \in Nat /\ Len(frames') \in Nat
    BY DEF Inv, Types
<1>4. ASSUME NEW d \in 1..Len(frames') PROVE d \in 1..Len(frames)
    BY <1>3
<1> QED
    BY <1>1, <1>2, <1>3, <1>4 DEF Inv, Accounts

\* A new value leaves only the callbacks of its own loop out of date.
LEMMA NextValueInv == ASSUME Inv, NextValue PROVE Inv'
<1>1. /\ pc = "loop" /\ pc' = "callbacks"
      /\ frames' = [frames EXCEPT ![depth].at = @ + 1]
      /\ point' = [point EXCEPT ![iteratingVar] = frame.at + 1]
      /\ todo' = frame.executing
      /\ UNCHANGED <<routine, numValues, varsOrder, applied, runs>>
    BY DEF NextValue
<1>2. frames \in Seq(Frames) /\ depth \in 1..Len(frames) /\ frame \in Frames
    BY <1>1 DEF Inv, Types, Nesting, depth, frame
<1>3. frames' \in Seq(Frames) /\ Len(frames') = Len(frames) /\ depth' = depth
    <2> DEFINE new == [frames[depth] EXCEPT !.at = @ + 1]
    <2>1. new \in Frames
        <3> DEFINE old == frames[depth]
        <3>1. old \in Frames
            BY <1>2 DEF frame
        <3> HIDE DEF old
        <3>2. [old EXCEPT !.at = @ + 1] \in Frames
            BY <3>1 DEF Frames
        <3> QED
            BY <3>2 DEF old
    <2>2. frames' = [frames EXCEPT ![depth] = new]
        BY <1>1
    <2> HIDE DEF new
    <2> QED
        BY <1>2, <2>1, <2>2, ExceptSeq DEF depth
<1>4. \A d \in 1..Len(frames') : /\ frames'[d].accounted = frames[d].accounted
                                 /\ frames'[d].executing = frames[d].executing
    BY <1>1, <1>2, <1>3
<1>5. Inputs'
    BY <1>1, SameInputs
<1>6. Accounts'
    BY <1>1, <1>3, <1>4, AccountsKept
<1>7. Nesting'
    BY <1>1, <1>2, <1>3 DEF Inv, Nesting
<1>8. Covered(depth)' = Covered(depth)
    BY <1>1, <1>3, SameLoops
<1>9. Types'
    <2>1. frame.executing \subseteq DOMAIN routine
        BY <1>2 DEF Inv, Accounts, frame, Executing
    <2>2. point' \in [Vars -> Nat]
        <3>1. frame.at + 1 \in Nat
            BY <1>2 DEF Frames
        <3> QED
            BY <1>1, <3>1 DEF Inv, Types
    <2> QED
        BY <1>1, <1>3, <2>1, <2>2 DEF Inv, Types
<1>10. Current'
    <2>1. Covered(depth) \ frame.executing \subseteq frame.accounted
        BY <1>2, CoveredSplits DEF frame
    <2>2. ASSUME NEW i \in frame.accounted PROVE applied'[i] = Eval(i, point)'
        <3>1. applied[i] = Eval(i, point)
            BY <1>1 DEF Inv, Current, UpToDate
        <3>2. Eval(i, point)' = Eval(i, [point EXCEPT ![iteratingVar] = frame.at + 1])
            BY <1>1 DEF Eval, Deps
        <3>3. Eval(i, [point EXCEPT ![iteratingVar] = frame.at + 1]) = Eval(i, point)
            BY <1>1, OuterUnchanged
        <3> QED
            BY <1>1, <3>1, <3>2, <3>3
    <2> QED
        BY <1>1, <1>8, <2>1, <2>2 DEF Current, UpToDate
<1> QED
    BY <1>5, <1>6, <1>7, <1>9, <1>10 DEF Inv

\* When a loop ends, what the loop around it has accounted for is still set.
LEMMA LoopEndsInv == ASSUME Inv, LoopEnds PROVE Inv'
<1>1. /\ pc = "loop" /\ pc' = IF depth = 1 THEN "done" ELSE "loop"
      /\ frames' = SubSeq(frames, 1, depth - 1)
      /\ UNCHANGED <<routine, numValues, varsOrder, todo, point, applied, runs>>
    BY DEF LoopEnds
<1>2. frames \in Seq(Frames) /\ depth \in 1..Len(frames)
    BY <1>1 DEF Inv, Types, Nesting, depth
<1>3. /\ frames' \in Seq(Frames) /\ Len(frames') = depth - 1
      /\ \A d \in 1..depth - 1 : frames'[d] = frames[d]
    <2> DEFINE outer == SubSeq(frames, 1, depth - 1)
    <2>1. depth - 1 \in Int /\ depth - 1 >= 0 /\ \A i \in 1..depth - 1 : frames[i] \in Frames
        BY <1>2 DEF depth
    <2>2. outer \in Seq(Frames) /\ Len(outer) = IF 1 <= depth - 1 THEN depth - 1 - 1 + 1 ELSE 0
        BY <2>1, SubSeqProperties
    <2>3. \A d \in 1..depth - 1 - 1 + 1 : outer[d] = frames[1 + d - 1]
        BY <2>1, SubSeqProperties
    <2> HIDE DEF outer
    <2>4. frames' = outer
        BY <1>1 DEF outer
    <2>5. Len(outer) = depth - 1 /\ \A d \in 1..depth - 1 : outer[d] = frames[d]
        BY <2>1, <2>2, <2>3
    <2> QED
        BY <2>2, <2>4, <2>5
<1>4. Inputs'
    BY <1>1, SameInputs
<1>5. Accounts'
    BY <1>1, <1>2, <1>3, AccountsKept DEF depth
<1>6. Nesting'
    <2>1. Len(varsOrder) \in Nat /\ Len(frames) <= Len(varsOrder) /\ varsOrder' = varsOrder
        BY <1>1 DEF Inv, Inputs, Nesting
    <2>2. depth \in Nat /\ depth = Len(frames) /\ depth >= 1
        BY <1>2 DEF depth
    <2>3. depth # 1 => frames' # <<>>
        BY <1>3, <2>2
    <2> QED
        BY <1>1, <1>3, <2>1, <2>2, <2>3 DEF Nesting
<1>7. Types'
    BY <1>1, <1>3 DEF Inv, Types, Ends
<1>8. Current'
    <2> SUFFICES ASSUME depth # 1
                 PROVE  \A i \in frames[depth - 1].accounted : applied[i] = Eval(i, point)
        <3>1. \A i : Eval(i, point)' = Eval(i, point)
            BY <1>1 DEF Eval, Deps
        <3>2. depth # 1 => frame' = frames[depth - 1]
            BY <1>2, <1>3 DEF frame, depth
        <3> QED
            BY <1>1, <3>1, <3>2 DEF Current, UpToDate
    <2>1. depth - 1 \in 1..Len(frames)
        BY <1>2
    <2>2. frames[depth - 1].accounted \subseteq Covered(depth - 1)
        BY <2>1, CoveredSplits
    <2>3. frame.accounted = Covered(depth - 1)
        BY <1>2 DEF Inv, Accounts, frame
    <2> QED
        BY <1>1, <2>2, <2>3 DEF Inv, Current, UpToDate
<1> QED
    BY <1>4, <1>5, <1>6, <1>7, <1>8 DEF Inv

\* A callback that is called is up to date; the others stay as they are.
LEMMA CallCallbackInv == ASSUME Inv, CallCallback PROVE Inv'
<1>1. PICK i \in todo :
          \/ /\ applied' = [applied EXCEPT ![i] = Eval(i, point)]
             /\ todo' = todo \ {i}
             /\ UNCHANGED pc
          \/ pc' = "failed" /\ UNCHANGED <<applied, todo>>
    BY DEF CallCallback
<1>2. pc = "callbacks" /\ UNCHANGED <<routine, numValues, varsOrder, frames, point, runs>>
    BY DEF CallCallback
<1>3. frames \in Seq(Frames) /\ i \in DOMAIN applied
    BY DEF Inv, Types
<1>4. Inputs'
    BY <1>2, SameInputs
<1>5. Accounts'
    BY <1>2, <1>3, AccountsKept
<1>6. Types' /\ Nesting'
    BY <1>1, <1>2 DEF Inv, Types, Nesting, Ends
<1>7. Current'
    <2> SUFFICES ASSUME pc' = "callbacks"
                 PROVE  \A j \in Covered(depth) \ todo' : applied'[j] = Eval(j, point)
        <3>1. Covered(depth)' = Covered(depth) /\ \A j : Eval(j, point)' = Eval(j, point)
            BY <1>2 DEF Covered, Outer, Deps, Eval, depth
        <3> QED
            BY <1>1, <1>2, <3>1 DEF Current, UpToDate
    <2>1. applied' = [applied EXCEPT ![i] = Eval(i, point)] /\ todo' = todo \ {i}
        BY <1>1
    <2>2. \A j \in Covered(depth) \ todo : applied[j] = Eval(j, point)
        BY <1>2 DEF Inv, Current, UpToDate
    <2>3. \A j \in Covered(depth) : j \in DOMAIN applied
        BY DEF Inv, Types, Covered
    <2> QED
        BY <1>3, <2>1, <2>2, <2>3
<1> QED
    BY <1>4, <1>5, <1>6, <1>7 DEF Inv

\* Going down a loop, running a point and giving up change no parameter.
LEMMA PointInv == ASSUME Inv, Descend \/ RunPoint PROVE Inv'
<1>1. /\ pc = "callbacks" /\ todo = {}
      /\ pc' \in {"call", "loop", "failed", "aborted"}
      /\ pc' = "call" => ~Innermost
      /\ UNCHANGED <<routine, numValues, varsOrder, frames, todo, point, applied>>
    BY DEF Descend, RunPoint
<1>2. frames \in Seq(Frames) /\ depth \in 1..Len(frames)
    BY <1>1 DEF Inv, Types, Nesting, depth
<1>3. Inputs'
    BY <1>1, SameInputs
<1>4. Accounts'
    BY <1>1, <1>2, AccountsKept
<1>5. Types'
    <2>1. runs' = runs \/ runs' = Append(runs, point)
        BY DEF Descend, RunPoint
    <2>2. runs' \in Seq([Vars -> Nat])
        <3> DEFINE Points == [Vars -> Nat]
        <3>1. runs \in Seq(Points) /\ point \in Points
            BY DEF Inv, Types
        <3> HIDE DEF Points
        <3>2. runs' \in Seq(Points)
            BY <2>1, <3>1
        <3> QED
            BY <3>2 DEF Points
    <2>3. frames' \in Seq(Frames) /\ todo' \subseteq DOMAIN routine' /\ DOMAIN applied' = DOMAIN routine'
        BY <1>1 DEF Inv, Types
    <2>4. point' \in [Vars -> Nat]
        BY <1>1 DEF Inv, Types
    <2> QED
        BY <1>1, <2>2, <2>3, <2>4 DEF Types, Ends
<1>6. Nesting'
    <2>1. pc' = "call" => Len(frames) < Len(varsOrder)
        BY <1>1, <1>2 DEF Inv, Inputs, Nesting, Innermost, depth
    <2> QED
        BY <1>1, <2>1 DEF Inv, Nesting
<1>7. Current'
    <2>1. frame.accounted \subseteq Covered(depth) /\ UpToDate(Covered(depth))
        BY <1>1, <1>2, CoveredSplits DEF frame, Inv, Current
    <2>2. Covered(depth)' = Covered(depth) /\ frame' = frame /\ \A j : Eval(j, point)' = Eval(j, point)
        BY <1>1 DEF Covered, Outer, Deps, Eval, depth, frame
    <2> QED
        BY <1>1, <2>1, <2>2 DEF Current, UpToDate
<1> QED
    BY <1>3, <1>4, <1>5, <1>6, <1>7 DEF Inv

\* Nothing changes when nothing changes.
LEMMA StutterInv == ASSUME Inv, UNCHANGED vars PROVE Inv'
<1>1. Inputs' /\ Types' /\ Nesting'
    BY DEF vars, Inv, Inputs, Types, Nesting, Used, Deps
<1>2. Accounts'
    BY AccountsKept DEF vars, Inv, Types
<1>3. \A i : applied'[i] = applied[i] /\ Eval(i, point)' = Eval(i, point)
    BY DEF vars, Eval, Deps
<1>4. Covered(depth)' = Covered(depth)
    BY DEF vars, Covered, Outer, Deps, depth
<1>5. pc' = pc /\ todo' = todo /\ frames' = frames /\ frame' = frame
    BY DEF vars, frame, depth
<1>6. Current'
    BY <1>3, <1>4, <1>5 DEF Inv, Current, UpToDate
<1> QED
    BY <1>1, <1>2, <1>6 DEF Inv

\* The invariant holds in every state.
LEMMA AlwaysInv == Spec => []Inv
<1>1. ASSUME Inv, [Next]_vars PROVE Inv'
    BY <1>1, ConstructInv, EnterLoopInv, NextValueInv, LoopEndsInv, CallCallbackInv, PointInv,
       StutterInv DEF Next
<1> QED
    BY <1>1, StartInv, PTL DEF Spec

\* The state of the sweep keeps its types, whatever is swept.
THEOREM SweepTypes == Spec => []TypeOK
<1>1. Inv => TypeOK
    BY DEF Inv, Inputs, Types, TypeOK
<1> QED
    BY <1>1, AlwaysInv, PTL

\* Every experiment of every sweep runs with all swept parameters at the current
\* point, though _nested_loop_recursive() calls a callback only in one loop.
THEOREM EveryRunAtItsPoint == Spec => []HardwareAtPoint
<1>1. ASSUME Inv PROVE HardwareAtPoint
    BY <1>1, AllCovered DEF HardwareAtPoint, Inv, Current, UpToDate
<1> QED
    BY <1>1, AlwaysInv, PTL

-----------------------------------------------------------------------------
(* INDUCTION over the natural numbers, for a set of them.                    *)

\* The smaller of two numbers first.
Below == {p \in Nat \X Nat : p[1] < p[2]}

\* A set of numbers that has 0 and with each number the next one has them all.
LEMMA SetInduction ==
    ASSUME NEW T, T \subseteq Nat, 0 \in T, \A n \in T : n + 1 \in T
    PROVE  T = Nat
<1> DEFINE U == Nat \ T
<1>1. IsWellFoundedOn(Below, Nat)
    <2>1. OpToRel(<, Nat) = Below
        BY Zenon DEF OpToRel, Below
    <2> QED
        BY Zenon, <2>1, NatLessThanWellFounded
<1>2. SUFFICES ASSUME U # {} PROVE FALSE
    OBVIOUS
<1>3. U \subseteq Nat
    OBVIOUS
<1> HIDE DEF U
<1>4. PICK x \in U : \A y \in U : ~(<<y, x>> \in Below)
    BY Zenon, <1>1, <1>2, <1>3, WFMin
<1>5. x \in Nat /\ x # 0 /\ x - 1 \in Nat
    BY <1>3, <1>4 DEF U
<1>6. x - 1 \notin U
    <2>1. <<x - 1, x>> \in Below
        BY <1>5 DEF Below
    <2> QED
        BY <1>4, <2>1
<1>7. x - 1 \in T /\ (x - 1) + 1 = x
    BY <1>5, <1>6 DEF U
<1> QED
    BY <1>4, <1>7 DEF U

-----------------------------------------------------------------------------
(* FOLDS: sums and products over sets do not depend on the order in which    *)
(* their members are taken.                                                  *)

\* The operation of a product or of a sum, and what nothing adds up to.
Joined(op, x, y) == IF op = "product" THEN x * y ELSE x + y
Neutral(op) == IF op = "product" THEN 1 ELSE 0

\* What is left of a set without the member that is taken first.
First(s) == CHOOSE x \in s : TRUE
Rest(s) == s \ {First(s)}

\* g folds f over every subset of S.
Folds(g, op, f, S) ==
    g = [s \in SUBSET S |-> IF s = {} THEN Neutral(op) ELSE Joined(op, f[First(s)], g[Rest(s)])]

\* The rest of a finite set is smaller.
LEMMA RestIsSmaller ==
    ASSUME NEW s, IsFiniteSet(s), s # {}
    PROVE  /\ First(s) \in s /\ Rest(s) \subseteq s /\ IsFiniteSet(Rest(s))
           /\ Cardinality(s) \in Nat \ {0} /\ Cardinality(Rest(s)) = Cardinality(s) - 1
<1>1. First(s) \in s
    BY DEF First
<1>2. IsFiniteSet(Rest(s)) /\ Cardinality(Rest(s)) = Cardinality(s) - 1
    BY <1>1, FS_RemoveElement DEF Rest
<1>3. Cardinality(s) \in Nat /\ Cardinality(s) # 0
    BY FS_CardinalityType, FS_EmptySet
<1> QED
    BY <1>1, <1>2, <1>3 DEF Rest

\* Two folds of one function agree where both are defined.
LEMMA FoldsAgree ==
    ASSUME NEW op, NEW f, NEW S, NEW T, NEW g, NEW h, Folds(g, op, f, S), Folds(h, op, f, T)
    PROVE  \A s : IsFiniteSet(s) /\ s \subseteq S /\ s \subseteq T => g[s] = h[s]
<1> DEFINE P(n) == \A s : /\ IsFiniteSet(s) /\ s \subseteq S /\ s \subseteq T
                          /\ Cardinality(s) = n
                          => g[s] = h[s]
           Ns == {n \in Nat : P(n)}
<1>1. 0 \in Ns
    <2>1. g[{}] = Neutral(op) /\ h[{}] = Neutral(op)
        BY DEF Folds
    <2> QED
        BY <2>1, FS_EmptySet
<1>2. ASSUME NEW n \in Ns PROVE n + 1 \in Ns
    <2> SUFFICES ASSUME NEW s, IsFiniteSet(s), s \subseteq S, s \subseteq T, Cardinality(s) = n + 1
                 PROVE  g[s] = h[s]
        OBVIOUS
    <2>1. s # {}
        BY FS_EmptySet
    <2>2. IsFiniteSet(Rest(s)) /\ Rest(s) \subseteq s /\ Cardinality(Rest(s)) = n
        BY <2>1, RestIsSmaller
    <2>3. g[Rest(s)] = h[Rest(s)]
        BY <2>2
    <2>4. g[s] = Joined(op, f[First(s)], g[Rest(s)]) /\ h[s] = Joined(op, f[First(s)], h[Rest(s)])
        BY <2>1 DEF Folds
    <2> QED
        BY <2>3, <2>4
<1>3. Ns \subseteq Nat
    OBVIOUS
<1> HIDE DEF Ns
<1>4. Ns = Nat
    BY <1>1, <1>2, <1>3, SetInduction
<1> QED
    BY <1>4, FS_CardinalityType DEF Ns

\* A function can be folded over any finite set.
LEMMA FoldsExist ==
    ASSUME NEW op, NEW f
    PROVE  \A S : IsFiniteSet(S) => \E g : Folds(g, op, f, S)
<1> DEFINE P(n) == \A S : IsFiniteSet(S) /\ Cardinality(S) <= n => \E g : Folds(g, op, f, S)
           Ns == {n \in Nat : P(n)}
<1>1. 0 \in Ns
    <2> SUFFICES ASSUME NEW S, IsFiniteSet(S), Cardinality(S) <= 0
                 PROVE  \E g : Folds(g, op, f, S)
        OBVIOUS
    <2>1. S = {}
        BY FS_CardinalityType, FS_EmptySet
    <2> DEFINE g == [s \in SUBSET S |-> Neutral(op)]
    <2>2. Folds(g, op, f, S)
        BY <2>1 DEF Folds
    <2> QED
        BY <2>2
<1>2. ASSUME NEW n \in Ns PROVE n + 1 \in Ns
    <2> SUFFICES ASSUME NEW S, IsFiniteSet(S), Cardinality(S) <= n + 1
                 PROVE  \E g : Folds(g, op, f, S)
        OBVIOUS
    <2> DEFINE h(t) == CHOOSE g : Folds(g, op, f, t)
               g == [s \in SUBSET S |-> IF s = {} THEN Neutral(op)
                                        ELSE Joined(op, f[First(s)], h(Rest(s))[Rest(s)])]
    <2>1. ASSUME NEW s \in SUBSET S, s # {}
          PROVE  IsFiniteSet(Rest(s)) /\ Rest(s) \in SUBSET S /\ Folds(h(Rest(s)), op, f, Rest(s))
        <3>1. IsFiniteSet(s) /\ Cardinality(s) <= Cardinality(S) /\ Cardinality(S) \in Nat
            BY FS_Subset, FS_CardinalityType
        <3>2. IsFiniteSet(Rest(s)) /\ Rest(s) \subseteq s /\ Cardinality(s) \in Nat
              /\ Cardinality(Rest(s)) = Cardinality(s) - 1
            BY <2>1, <3>1, RestIsSmaller
        <3>3. Cardinality(Rest(s)) <= n
            BY <3>1, <3>2
        <3>4. \E g1 : Folds(g1, op, f, Rest(s))
            BY <3>2, <3>3
        <3> QED
            BY <3>2, <3>4
    <2> HIDE DEF h
    <2>2. ASSUME NEW s \in SUBSET S, s # {} PROVE h(Rest(s))[Rest(s)] = g[Rest(s)]
        <3> DEFINE t == Rest(s)
        <3>1. IsFiniteSet(t) /\ t \in SUBSET S /\ Folds(h(t), op, f, t)
            BY <2>1, <2>2
        <3> HIDE DEF t
        <3>2. CASE t = {}
            <4>1. h(t)[t] = Neutral(op)
                BY <3>1, <3>2 DEF Folds
            <4> QED
                BY <3>1, <3>2, <4>1 DEF t
        <3>3. CASE t # {}
            <4>1. IsFiniteSet(Rest(t)) /\ Folds(h(Rest(t)), op, f, Rest(t))
                BY <2>1, <3>1, <3>3
            <4>2. Rest(t) \subseteq t
                BY DEF Rest
            <4>3. h(t)[Rest(t)] = h(Rest(t))[Rest(t)]
                BY <3>1, <4>1, <4>2, FoldsAgree
            <4>4. h(t)[t] = Joined(op, f[First(t)], h(t)[Rest(t)])
                BY <3>1, <3>3 DEF Folds
            <4>5. g[t] = Joined(op, f[First(t)], h(Rest(t))[Rest(t)])
                BY <3>1, <3>3
            <4> QED
                BY <4>3, <4>4, <4>5 DEF t
        <3> QED
            BY <3>2, <3>3
    <2>3. Folds(g, op, f, S)
        <3>1. g = [s \in SUBSET S |-> IF s = {} THEN Neutral(op)
                                      ELSE Joined(op, f[First(s)], g[Rest(s)])]
            BY <2>2
        <3> HIDE DEF g
        <3> QED
            BY <3>1 DEF Folds
    <2> QED
        BY <2>3
<1>3. Ns \subseteq Nat
    OBVIOUS
<1> HIDE DEF Ns
<1>4. Ns = Nat
    BY <1>1, <1>2, <1>3, SetInduction
<1> QED
    BY <1>4, FS_CardinalityType DEF Ns

\* Numbers fold to a number.
LEMMA FoldIsNumber ==
    ASSUME NEW op, NEW f, NEW S, NEW g, Folds(g, op, f, S), \A x \in S : f[x] \in Nat
    PROVE  \A s : IsFiniteSet(s) /\ s \subseteq S => g[s] \in Nat
<1> DEFINE P(n) == \A s : IsFiniteSet(s) /\ s \subseteq S /\ Cardinality(s) = n => g[s] \in Nat
           Ns == {n \in Nat : P(n)}
<1>1. 0 \in Ns
    <2>1. g[{}] = Neutral(op)
        BY DEF Folds
    <2> QED
        BY <2>1, FS_EmptySet DEF Neutral
<1>2. ASSUME NEW n \in Ns PROVE n + 1 \in Ns
    <2> SUFFICES ASSUME NEW s, IsFiniteSet(s), s \subseteq S, Cardinality(s) = n + 1
                 PROVE  g[s] \in Nat
        OBVIOUS
    <2>1. s # {}
        BY FS_EmptySet
    <2>2. First(s) \in s /\ IsFiniteSet(Rest(s)) /\ Rest(s) \subseteq s /\ Cardinality(Rest(s)) = n
        BY <2>1, RestIsSmaller
    <2>3. g[Rest(s)] \in Nat /\ f[First(s)] \in Nat
        BY <2>2
    <2>4. g[s] = Joined(op, f[First(s)], g[Rest(s)])
        BY <2>1 DEF Folds
    <2> QED
        BY <2>3, <2>4 DEF Joined
<1>3. Ns \subseteq Nat
    OBVIOUS
<1> HIDE DEF Ns
<1>4. Ns = Nat
    BY <1>1, <1>2, <1>3, SetInduction
<1> QED
    BY <1>4, FS_CardinalityType DEF Ns

\* Any member can be taken first.
LEMMA FoldTakesAny ==
    ASSUME NEW f, NEW S, NEW g, Folds(g, "product", f, S), \A x \in S : f[x] \in Nat
    PROVE  \A s : IsFiniteSet(s) /\ s \subseteq S => \A x \in s : g[s] = f[x] * g[s \ {x}]
<1> DEFINE P(n) == \A s : /\ IsFiniteSet(s) /\ s \subseteq S /\ Cardinality(s) = n
                          => \A x \in s : g[s] = f[x] * g[s \ {x}]
           Ns == {n \in Nat : P(n)}
<1>1. 0 \in Ns
    BY FS_EmptySet
<1>2. ASSUME NEW n \in Ns PROVE n + 1 \in Ns
    <2> SUFFICES ASSUME NEW s, IsFiniteSet(s), s \subseteq S, Cardinality(s) = n + 1, NEW x \in s
                 PROVE  g[s] = f[x] * g[s \ {x}]
        OBVIOUS
    <2> DEFINE c == First(s)
    <2>1. s # {}
        OBVIOUS
    <2>2. c \in s /\ IsFiniteSet(Rest(s)) /\ Rest(s) \subseteq s /\ Cardinality(Rest(s)) = n
        BY <2>1, RestIsSmaller
    <2>3. g[s] = f[c] * g[Rest(s)]
        BY <2>1 DEF Folds, Joined
    <2>4. CASE x = c
        BY <2>3, <2>4 DEF Rest
    <2>5. CASE x # c
        <3> DEFINE both == Rest(s) \ {x}
        <3>1. x \in Rest(s) /\ g[Rest(s)] = f[x] * g[both]
            BY <2>2, <2>5 DEF Rest
        <3>2. IsFiniteSet(s \ {x}) /\ Cardinality(s \ {x}) = n /\ s \ {x} \subseteq S
            <4>1. IsFiniteSet(s \ {x}) /\ Cardinality(s \ {x}) = Cardinality(s) - 1
                BY FS_RemoveElement
            <4>2. n \in Nat /\ Cardinality(s) = n + 1
                OBVIOUS
            <4> QED
                BY <4>1, <4>2
        <3>3. c \in s \ {x} /\ (s \ {x}) \ {c} = both
            BY <2>2, <2>5 DEF Rest
        <3>4. g[s \ {x}] = f[c] * g[both]
            BY <3>2, <3>3
        <3>5. f[c] \in Nat /\ f[x] \in Nat /\ g[both] \in Nat
            <4>1. IsFiniteSet(both) /\ both \subseteq S
                BY <2>2, FS_Subset
            <4> QED
                BY <2>2, <4>1, FoldIsNumber
        <3> HIDE DEF c, both
        <3>6. \A a, b, r \in Nat : a * (b * r) = b * (a * r)
            OBVIOUS
        <3> QED
            BY <2>3, <3>1, <3>4, <3>5, <3>6
    <2> QED
        BY <2>4, <2>5
<1>3. Ns \subseteq Nat
    OBVIOUS
<1> HIDE DEF Ns
<1>4. Ns = Nat
    BY <1>1, <1>2, <1>3, SetInduction
<1> QED
    BY <1>4, FS_CardinalityType DEF Ns

-----------------------------------------------------------------------------
(* THE GRID.  What the model writes as folds.                                *)

\* The number of points of the grid of some variables with w values.
Points(w, S) == FoldFunction(LAMBDA n, total : n * total, 1, [u \in S |-> w[u]])

\* A sum of costs.
Sum(f) == FoldFunction(+, 0, f)

\* A fold of the library is a fold.
LEMMA ProductsAreFolds ==
    ASSUME NEW f
    PROVE  FoldFunction(LAMBDA n, total : n * total, 1, f)
              = (CHOOSE g : Folds(g, "product", f, DOMAIN f))[DOMAIN f]
<1> DEFINE Unfolded(g) ==
        g = [s \in SUBSET DOMAIN f |->
                IF s = {} THEN 1 ELSE f[CHOOSE x \in s : TRUE] * g[s \ {CHOOSE x \in s : TRUE}]]
<1>1. FoldFunction(LAMBDA n, total : n * total, 1, f) = (CHOOSE g : Unfolded(g))[DOMAIN f]
    BY Zenon DEF FoldFunction, FoldFunctionOnSet, MapThenFoldSet
<1>2. \A g : Unfolded(g) <=> Folds(g, "product", f, DOMAIN f)
    BY DEF Folds, Joined, Neutral, First, Rest
<1> HIDE DEF Unfolded
<1>3. (CHOOSE g : Unfolded(g)) = (CHOOSE g : Folds(g, "product", f, DOMAIN f))
    BY <1>2
<1> QED
    BY <1>1, <1>3

\* So is one that adds.
LEMMA SumsAreFolds ==
    ASSUME NEW f
    PROVE  FoldFunction(+, 0, f) = (CHOOSE g : Folds(g, "sum", f, DOMAIN f))[DOMAIN f]
<1> DEFINE Unfolded(g) ==
        g = [s \in SUBSET DOMAIN f |->
                IF s = {} THEN 0 ELSE f[CHOOSE x \in s : TRUE] + g[s \ {CHOOSE x \in s : TRUE}]]
<1>1. FoldFunction(+, 0, f) = (CHOOSE g : Unfolded(g))[DOMAIN f]
    BY Zenon DEF FoldFunction, FoldFunctionOnSet, MapThenFoldSet
<1>2. \A g : Unfolded(g) <=> Folds(g, "sum", f, DOMAIN f)
    BY DEF Folds, Joined, Neutral, First, Rest
<1> HIDE DEF Unfolded
<1>3. (CHOOSE g : Unfolded(g)) = (CHOOSE g : Folds(g, "sum", f, DOMAIN f))
    BY <1>2
<1> QED
    BY <1>1, <1>3

\* The points of a set of variables are a fold over any larger set.
LEMMA PointsFolded ==
    ASSUME NEW w, NEW S, NEW T, IsFiniteSet(S), T \subseteq S, NEW g, Folds(g, "product", w, S)
    PROVE  Points(w, T) = g[T]
<1> DEFINE f == [u \in T |-> w[u]]
           h == CHOOSE h : Folds(h, "product", f, DOMAIN f)
           k == [s \in SUBSET T |-> g[s]]
<1>1. DOMAIN f = T /\ IsFiniteSet(T)
    BY FS_Subset
<1>2. Points(w, T) = h[T]
    BY <1>1, ProductsAreFolds DEF Points
<1>3. Folds(h, "product", f, T)
    BY <1>1, FoldsExist
<1>4. ASSUME NEW s \in SUBSET T, s # {}
      PROVE  First(s) \in T /\ Rest(s) \in SUBSET T /\ Rest(s) \in SUBSET S /\ s \in SUBSET S
    BY <1>4 DEF First, Rest
<1>5. ASSUME NEW s \in SUBSET T
      PROVE  k[s] = IF s = {} THEN Neutral("product") ELSE Joined("product", f[First(s)], k[Rest(s)])
    <2>1. CASE s = {}
        BY <2>1 DEF Folds
    <2>2. CASE s # {}
        <3>1. g[s] = Joined("product", w[First(s)], g[Rest(s)])
            BY <1>4, <2>2 DEF Folds
        <3> QED
            BY <1>4, <2>2, <3>1
    <2> QED
        BY <2>1, <2>2
<1>6. Folds(k, "product", f, T)
    <2>1. k = [s \in SUBSET T |-> IF s = {} THEN Neutral("product")
                                  ELSE Joined("product", f[First(s)], k[Rest(s)])]
        BY <1>5
    <2> HIDE DEF k
    <2> QED
        BY <2>1 DEF Folds
<1>7. h[T] = k[T]
    <2> HIDE DEF h, k, f
    <2>1. \A s : IsFiniteSet(s) /\ s \subseteq T /\ s \subseteq T => h[s] = k[s]
        BY <1>3, <1>6, FoldsAgree
    <2> QED
        BY <1>1, <2>1
<1> QED
    BY <1>2, <1>7

\* Without variables there is one point; a variable has its values for each point of the
\* others.
LEMMA PointsMultiply ==
    ASSUME NEW w, NEW S, IsFiniteSet(S), \A v \in S : w[v] \in Nat
    PROVE  /\ Points(w, S) \in Nat
           /\ Points(w, {}) = 1
           /\ \A u \in S : Points(w, S) = w[u] * Points(w, S \ {u})
<1>1. PICK g : Folds(g, "product", w, S)
    BY FoldsExist
<1>2. \A T : T \subseteq S => Points(w, T) = g[T]
    BY <1>1, PointsFolded
<1>3. g[{}] = 1
    BY <1>1 DEF Folds, Neutral
<1>4. g[S] \in Nat
    BY <1>1, FoldIsNumber
<1>5. ASSUME NEW u \in S PROVE g[S] = w[u] * g[S \ {u}]
    <2>1. \A s : IsFiniteSet(s) /\ s \subseteq S => \A x \in s : g[s] = w[x] * g[s \ {x}]
        BY <1>1, FoldTakesAny
    <2> QED
        BY <2>1
<1>6. Points(w, S) \in Nat /\ Points(w, {}) = 1
    BY <1>2, <1>3, <1>4
<1>7. ASSUME NEW u \in S PROVE Points(w, S) = w[u] * Points(w, S \ {u})
    <2>1. Points(w, S) = g[S] /\ Points(w, S \ {u}) = g[S \ {u}]
        BY <1>2
    <2> QED
        BY <1>5, <2>1
<1> QED
    BY <1>6, <1>7

\* The cost of a variable is a number.
LEMMA CostIsNumber == ASSUME Inputs PROVE \A v : SweepCost(v) \in Nat
<1> SUFFICES ASSUME NEW v PROVE SweepCost(v) \in Nat
    OBVIOUS
<1> DEFINE f == [i \in DOMAIN routine |-> IF v \in Deps(i) THEN routine[i].cost ELSE 0]
           h == CHOOSE h : Folds(h, "sum", f, DOMAIN f)
<1>1. routine \in Seq(Callbacks)
    BY SweepAssumption DEF Inputs
<1>2. DOMAIN routine = 1..Len(routine) /\ \A i \in DOMAIN routine : routine[i].cost \in Nat
    <2>1. \A i \in DOMAIN routine : routine[i] \in Callbacks
        BY <1>1
    <2> QED
        BY <1>1, <2>1 DEF Callbacks
<1>3. IsFiniteSet(DOMAIN f)
    BY <1>1, <1>2, FS_Interval
<1>4. \A i \in DOMAIN f : f[i] \in Nat
    BY <1>2
<1>5. SweepCost(v) = h[DOMAIN f]
    BY SumsAreFolds DEF SweepCost
<1>6. Folds(h, "sum", f, DOMAIN f)
    BY <1>3, FoldsExist
<1> HIDE DEF f, h
<1> QED
    BY <1>3, <1>4, <1>5, <1>6, FoldIsNumber

\* Costs come from the routine alone.
Costs(v) == [i \in DOMAIN routine |-> IF v \in Deps(i) THEN routine[i].cost ELSE 0]

\* They are added.
LEMMA CostIsSum == \A v : SweepCost(v) = Sum(Costs(v))
BY DEF SweepCost, Sum, Costs

\* They stay as long as the routine does.
LEMMA SameCosts == ASSUME routine' = routine PROVE \A v : SweepCost(v)' = SweepCost(v)
<1>1. \A v : SweepCost(v) = Sum(Costs(v))
    BY CostIsSum
<1>2. (\A v : SweepCost(v) = Sum(Costs(v)))'
    BY CostIsSum, PTL
<1>3. \A v : SweepCost(v)' = Sum(Costs(v)')
    BY <1>2
<1>4. \A v : Costs(v)' = Costs(v)
    BY DEF Costs, Deps
<1> QED
    BY <1>1, <1>3, <1>4

\* No two variables precede each other.
LEMMA PrecedenceIsStrict ==
    ASSUME Inputs, NEW u, NEW v, Precedes(u, v), Precedes(v, u)
    PROVE  FALSE
<1>1. SweepCost(u) \in Nat /\ SweepCost(v) \in Nat
    BY CostIsNumber
<1>2. u # v /\ AppearsBefore(u, v) /\ AppearsBefore(v, u)
    BY <1>1 DEF Precedes
<1>3. PICK i, k :
          /\ i \in DOMAIN routine /\ k \in DOMAIN routine[i].vars
          /\ routine[i].vars[k] = u
          /\ \A j \in 1..i-1 : v \notin Deps(j)
          /\ \A l \in 1..k-1 : routine[i].vars[l] # v
    BY <1>2 DEF AppearsBefore
<1>4. PICK j, l :
          /\ j \in DOMAIN routine /\ l \in DOMAIN routine[j].vars
          /\ routine[j].vars[l] = v
          /\ \A e \in 1..j-1 : u \notin Deps(e)
          /\ \A e \in 1..l-1 : routine[j].vars[e] # u
    BY <1>2 DEF AppearsBefore
<1>5. u \in Deps(i) /\ v \in Deps(j)
    BY <1>3, <1>4 DEF Deps, Range
<1>6. routine \in Seq(Callbacks) /\ i \in 1..Len(routine) /\ j \in 1..Len(routine)
    BY <1>3, <1>4, SweepAssumption DEF Inputs
<1>7. i = j
    <2>1. ~(i < j) /\ ~(j < i)
        BY <1>3, <1>4, <1>5, <1>6
    <2> QED
        BY <1>6, <2>1
<1>8. routine[i].vars \in Seq(Vars)
    <2>1. routine[i] \in Callbacks
        BY <1>6
    <2> QED
        BY <2>1 DEF Callbacks
<1>9. k \in 1..Len(routine[i].vars) /\ l \in 1..Len(routine[i].vars) /\ Len(routine[i].vars) \in Nat
    BY <1>3, <1>4, <1>7, <1>8
<1>10. k = l
    <2>1. ~(k < l) /\ ~(l < k)
        BY <1>3, <1>4, <1>7, <1>9
    <2> QED
        BY <1>9, <2>1
<1> QED
    BY <1>2, <1>3, <1>4, <1>7, <1>10

-----------------------------------------------------------------------------
(* THE GRID.  How many points the loops have.                                *)

\* The values of the variable of a loop, the variables of the loops in it, and the points
\* those go through.
Count(d) == numValues[varsOrder[d]]
Inner(d) == {varsOrder[e] : e \in d + 1..Len(varsOrder)}
Span(d) == Points(numValues, Inner(d))

\* What the constructor has made sure of.
Arranged ==
    pc \notin {"construct", "rejected"} =>
        Ordered(varsOrder) /\ \A v \in Used : numValues[v] \in Nat /\ numValues[v] > 0

\* The variables used are finitely many, those of inner loops among them.
LEMMA LoopVariables ==
    ASSUME Inputs, pc \notin {"construct", "rejected"}
    PROVE  /\ Len(varsOrder) \in Nat /\ IsFiniteSet(Used)
           /\ \A d \in 0..Len(varsOrder) : Inner(d) \subseteq Used /\ IsFiniteSet(Inner(d))
           /\ Inner(0) = Used /\ Inner(Len(varsOrder)) = {}
           /\ \A d \in 1..Len(varsOrder) :
                 /\ varsOrder[d] \in Inner(d - 1) /\ varsOrder[d] \in Used
                 /\ Inner(d - 1) \ {varsOrder[d]} = Inner(d)
<1>1. varsOrder \in Seq(Vars) /\ IsInjective(varsOrder) /\ Range(varsOrder) = Used
    BY DEF Inputs
<1>2. Len(varsOrder) \in Nat /\ DOMAIN varsOrder = 1..Len(varsOrder)
    BY <1>1
<1>3. IsFiniteSet(Used)
    <2>1. varsOrder \in Surjection(1..Len(varsOrder), Used)
        BY <1>1, <1>2 DEF Surjection, Range
    <2> QED
        BY <1>2, <2>1, FS_Interval, FS_Surjection
<1>4. ASSUME NEW d \in 0..Len(varsOrder) PROVE Inner(d) \subseteq Used /\ IsFiniteSet(Inner(d))
    <2>1. Inner(d) \subseteq Used
        BY <1>1, <1>2 DEF Inner, Range
    <2> QED
        BY <1>3, <2>1, FS_Subset
<1>5. Inner(0) = Used
    BY <1>1, <1>2 DEF Inner, Range
<1>6. Inner(Len(varsOrder)) = {}
    BY <1>2 DEF Inner
<1>7. ASSUME NEW d \in 1..Len(varsOrder)
      PROVE  /\ varsOrder[d] \in Inner(d - 1) /\ varsOrder[d] \in Used
             /\ Inner(d - 1) \ {varsOrder[d]} = Inner(d)
    <2>1. varsOrder[d] \in Used
        BY <1>1, <1>2 DEF Range
    <2>2. d \in (d - 1) + 1..Len(varsOrder)
        BY <1>2
    <2>3. varsOrder[d] \in Inner(d - 1)
        BY <2>2 DEF Inner
    <2>4. varsOrder[d] \notin Inner(d)
        BY <1>1, <1>2 DEF Inner, IsInjective
    <2>5. \A e : e \in (d - 1) + 1..Len(varsOrder) <=> e = d \/ e \in d + 1..Len(varsOrder)
        BY <1>2
    <2> QED
        BY <2>1, <2>3, <2>4, <2>5 DEF Inner
<1> QED
    BY <1>2, <1>3, <1>4, <1>5, <1>6, <1>7

\* A loop goes through the points of the loops in it for each of its values.
LEMMA SpansMultiply ==
    ASSUME Inputs, Arranged, pc \notin {"construct", "rejected"}
    PROVE  /\ \A d \in 0..Len(varsOrder) : Span(d) \in Nat
           /\ Span(0) = Points(numValues, Used) /\ Span(Len(varsOrder)) = 1
           /\ \A d \in 1..Len(varsOrder) :
                 /\ Count(d) \in Nat /\ Count(d) > 0
                 /\ Span(d - 1) = Count(d) * Span(d)
<1>1. \A v \in Used : numValues[v] \in Nat /\ numValues[v] > 0
    BY DEF Arranged
<1>2. ASSUME NEW d \in 0..Len(varsOrder) PROVE Span(d) \in Nat
    <2>1. IsFiniteSet(Inner(d)) /\ \A u \in Inner(d) : numValues[u] \in Nat
        BY <1>1, LoopVariables
    <2> QED
        BY <2>1, PointsMultiply DEF Span
<1>3. Span(0) = Points(numValues, Used)
    BY LoopVariables DEF Span
<1>4. Span(Len(varsOrder)) = 1
    <2>1. IsFiniteSet({}) /\ \A u \in {} : numValues[u] \in Nat
        BY FS_EmptySet
    <2>2. Points(numValues, {}) = 1
        BY <2>1, PointsMultiply
    <2> QED
        BY <2>2, LoopVariables DEF Span
<1>5. ASSUME NEW d \in 1..Len(varsOrder)
      PROVE  /\ Count(d) \in Nat /\ Count(d) > 0
             /\ Span(d - 1) = Count(d) * Span(d)
    <2>1. /\ IsFiniteSet(Used) /\ Inner(d - 1) \subseteq Used
          /\ varsOrder[d] \in Inner(d - 1) /\ varsOrder[d] \in Used
          /\ Inner(d - 1) \ {varsOrder[d]} = Inner(d)
        <3>1. d - 1 \in 0..Len(varsOrder)
            BY LoopVariables
        <3> QED
            BY <3>1, LoopVariables
    <2>2. \A u \in Inner(d - 1) : numValues[u] \in Nat
        BY <1>1, <2>1
    <2>3. IsFiniteSet(Inner(d - 1))
        BY <2>1, FS_Subset
    <2>4. \A u \in Inner(d - 1) : Points(numValues, Inner(d - 1))
                                  = numValues[u] * Points(numValues, Inner(d - 1) \ {u})
        BY <2>2, <2>3, PointsMultiply
    <2> QED
        BY <1>1, <2>1, <2>4 DEF Span, Count
<1> QED
    BY <1>2, <1>3, <1>4, <1>5

\* The whole grid has a number of points.
LEMMA WholeSpan == Inputs /\ Arranged /\ pc \notin {"construct", "rejected"} => Span(0) \in Nat
<1> SUFFICES ASSUME Inputs, Arranged, pc \notin {"construct", "rejected"} PROVE Span(0) \in Nat
    OBVIOUS
<1>1. 0 \in 0..Len(varsOrder)
    BY LoopVariables
<1> QED
    BY <1>1, SpansMultiply

\* The stride of a variable is the number of points of the loops in its loop.
LEMMA StrideIsSpan ==
    ASSUME Inputs, Arranged, pc \notin {"construct", "rejected"}, NEW d \in 1..Len(varsOrder)
    PROVE  Stride(varsOrder[d]) = Span(d)
<1> DEFINE after == {u \in Used : Precedes(varsOrder[d], u)}
<1>1. varsOrder \in Seq(Vars) /\ Range(varsOrder) = Used /\ Ordered(varsOrder)
    BY DEF Inputs, Arranged
<1>2. Len(varsOrder) \in Nat /\ DOMAIN varsOrder = 1..Len(varsOrder)
    BY <1>1
<1>3. ASSUME NEW u \in Inner(d) PROVE u \in after
    <2>1. PICK e \in d + 1..Len(varsOrder) : u = varsOrder[e]
        BY DEF Inner
    <2>2. e \in DOMAIN varsOrder /\ d \in 1..e - 1
        BY <1>2
    <2> QED
        BY <1>1, <2>1, <2>2 DEF Ordered, Range
<1>4. ASSUME NEW u \in after PROVE u \in Inner(d)
    <2>1. PICK e \in 1..Len(varsOrder) : u = varsOrder[e]
        BY <1>1, <1>2 DEF Range
    <2>2. Precedes(varsOrder[d], u)
        OBVIOUS
    <2>3. e # d
        BY <2>1, <2>2, PrecedenceIsStrict
    <2>4. ~(e < d)
        <3> SUFFICES ASSUME e < d PROVE FALSE
            OBVIOUS
        <3>1. d \in DOMAIN varsOrder /\ e \in 1..d - 1
            BY <1>2
        <3>2. Precedes(u, varsOrder[d])
            BY <1>1, <2>1, <3>1 DEF Ordered
        <3> QED
            BY <2>2, <3>2, PrecedenceIsStrict
    <2>5. e \in d + 1..Len(varsOrder)
        BY <1>2, <2>3, <2>4
    <2> QED
        BY <2>1, <2>5 DEF Inner
<1>5. after = Inner(d)
    BY <1>3, <1>4
<1>6. Stride(varsOrder[d]) = Points(numValues, after)
    BY DEF Stride, Points
<1> QED
    BY <1>5, <1>6 DEF Span

-----------------------------------------------------------------------------
(* THE GRID.  How far the loops have come.                                   *)

\* The loops whose variable has a value, and the number of the point they are at among
\* the points of their own variables.
Started == IF pc = "loop" THEN depth - 1 ELSE depth
Numbered(number, d) ==
    /\ number \in [Nat -> Nat]
    /\ number[0] = 0
    /\ \A e \in 1..d : number[e] = number[e - 1] * Count(e) + (frames[e].at - 1)

Running == pc \in {"call", "loop", "callbacks"}

\* A loop is within its values, and the point is where the loops are.
Within ==
    Running =>
        /\ \A d \in 1..Started : frames[d].at \in 1..Count(d) /\ point[varsOrder[d]] = frames[d].at
        /\ pc = "loop" => frame.at <= Count(depth)

\* As many points have been run as lie before the one the loops are at.
Placed ==
    Running => \E number :
        /\ Numbered(number, Started)
        /\ Len(runs) = IF pc = "loop" THEN (number[depth - 1] * Count(depth) + frame.at) * Span(depth)
                       ELSE number[depth] * Span(depth)

\* The k-th point, as the loops count.
IsPoint(p, k) ==
    /\ p \in [Vars -> Nat]
    /\ \A v \in Vars \ Used : p[v] = 0
    /\ \A d \in 1..Len(varsOrder) : p[varsOrder[d]] = 1 + ((k \div Span(d)) % Count(d))

History ==
    /\ \A v \in Vars \ Used : point[v] = 0
    /\ pc \in {"construct", "rejected"} => runs = <<>>
    /\ \A k \in DOMAIN runs : IsPoint(runs[k], k - 1)
    /\ pc = "done" => Len(runs) = Span(0)

GridInv == Inv /\ Arranged /\ Within /\ Placed /\ History

\* Before run() nothing has run.
LEMMA StartGrid == Init => GridInv
<1> SUFFICES ASSUME Init PROVE GridInv
    OBVIOUS
<1>1. Used \subseteq Vars
    BY StartInv, DepsAreVars DEF Inv, Used
<1> QED
    BY <1>1, StartInv DEF Init, GridInv, Arranged, Within, Placed, History, Running

\* After the constructor nothing that the loops count with changes.
LEMMA SameCounts ==
    ASSUME UNCHANGED <<routine, numValues, varsOrder>>
    PROVE  /\ \A d : Count(d)' = Count(d) /\ Span(d)' = Span(d)
           /\ Used' = Used
           /\ \A p, k : IsPoint(p, k)' = IsPoint(p, k)
<1>1. \A d : Count(d)' = Count(d) /\ Inner(d)' = Inner(d)
    BY DEF Count, Inner
<1>2. \A d : Span(d)' = Span(d)
    BY <1>1 DEF Span
<1>3. Used' = Used
    BY DEF Used, Deps
<1>4. ASSUME NEW p, NEW k PROVE IsPoint(p, k)' = IsPoint(p, k)
    BY <1>1, <1>2, <1>3 DEF IsPoint
<1> QED
    BY <1>1, <1>2, <1>3, <1>4

\* Nor does their order.
LEMMA SameOrder ==
    ASSUME Arranged, pc \notin {"construct", "rejected"}, UNCHANGED <<routine, numValues, varsOrder>>
    PROVE  Arranged'
<1>1. \A u, v : AppearsBefore(u, v)' = AppearsBefore(u, v)
    BY DEF AppearsBefore, Deps
<1>2. \A u, v : Precedes(u, v)' = Precedes(u, v)
    BY <1>1, SameCosts DEF Precedes
<1>3. Ordered(varsOrder)' = Ordered(varsOrder)
    BY <1>2 DEF Ordered
<1> QED
    BY <1>3, SameCounts DEF Arranged

\* The constructor orders the variables and looks at their values.
LEMMA ConstructGrid == ASSUME GridInv, Construct PROVE GridInv'
<1>1. Inv'
    BY ConstructInv DEF GridInv
<1>2. PICK order : Ordered(order) /\ varsOrder' = order
    BY DEF Construct
<1>3. UNCHANGED <<routine, numValues, frames, point, runs>> /\ pc = "construct"
    BY DEF Construct
<1>4. Ordered(varsOrder)'
    <2>1. \A u, v : AppearsBefore(u, v)' = AppearsBefore(u, v)
        BY <1>3 DEF AppearsBefore, Deps
    <2>2. \A u, v : Precedes(u, v)' = Precedes(u, v)
        BY <1>3, <2>1, SameCosts DEF Precedes
    <2> QED
        BY <1>2, <2>2 DEF Ordered
<1>5. Used' = Used
    BY <1>3 DEF Used, Deps
<1>6. Arranged'
    <2>1. numValues \in Definitions
        BY DEF GridInv, Inv, Inputs
    <2>2. pc' = "call" => \A v \in Used : v \in DOMAIN numValues /\ numValues[v] > 0
        BY DEF Construct
    <2>3. \A v \in DOMAIN numValues : numValues[v] \in Nat
        BY <2>1, SweepAssumption
    <2>4. pc' \in {"call", "rejected"}
        BY DEF Construct
    <2> QED
        BY <1>3, <1>4, <1>5, <2>2, <2>3, <2>4 DEF Arranged
<1>7. frames = <<>> /\ runs = <<>> /\ depth = 0 /\ depth' = 0
    BY <1>3 DEF GridInv, Inv, Nesting, History, depth
<1>8. pc' \in {"call", "rejected"}
    BY DEF Construct
<1>9. Within'
    BY <1>7, <1>8 DEF Within, Started
<1>10. Placed'
    <2> SUFFICES ASSUME pc' = "call" PROVE Placed'
        BY <1>8 DEF Placed, Running
    <2> DEFINE number == [n \in Nat |-> 0]
    <2>1. Numbered(number, 0)'
        BY DEF Numbered
    <2>2. Span(0)' \in Nat
        <3>1. Inputs' /\ Arranged' /\ pc' \notin {"construct", "rejected"}
            BY <1>1, <1>6 DEF Inv
        <3>2. (Inputs /\ Arranged /\ pc \notin {"construct", "rejected"} => Span(0) \in Nat)'
            BY WholeSpan, PTL
        <3> QED
            BY <3>1, <3>2
    <2>3. Len(runs') = number[0] * Span(0)'
        BY <1>3, <1>7, <2>2
    <2> QED
        BY <1>7, <2>1, <2>3 DEF Placed, Started
<1>11. History'
    BY <1>3, <1>5, <1>7, <1>8 DEF GridInv, History
<1> QED
    BY <1>1, <1>6, <1>9, <1>10, <1>11 DEF GridInv

\* While the loops count, runs that stay the same stay true.
LEMMA HistoryKept ==
    ASSUME History, UNCHANGED <<routine, numValues, varsOrder, runs>>,
           pc' \notin {"construct", "rejected", "done"},
           \A v \in Vars \ Used : point'[v] = 0
    PROVE  History'
<1>1. Used' = Used /\ \A p, k : IsPoint(p, k)' = IsPoint(p, k)
    BY SameCounts
<1> QED
    BY <1>1 DEF History

\* What the lists say of the loop at a depth.
LEMMA LoopCounts ==
    ASSUME GridInv, Running
    PROVE  /\ frames \in Seq(Frames) /\ depth \in Nat /\ depth <= Len(varsOrder)
           /\ Len(varsOrder) \in Nat
           /\ \A d \in 0..Len(varsOrder) : Span(d) \in Nat
           /\ \A d \in 1..Len(varsOrder) :
                 Count(d) \in Nat /\ Count(d) > 0 /\ Span(d - 1) = Count(d) * Span(d)
           /\ \A d \in 1..depth : frames[d].at \in Nat
<1>1. pc \notin {"construct", "rejected"}
    BY DEF Running
<1>2. Inputs /\ Arranged /\ frames \in Seq(Frames)
    BY DEF GridInv, Inv, Types
<1>3. depth \in Nat /\ \A d \in 1..depth : frames[d].at \in Nat
    <2>1. depth \in Nat /\ \A d \in 1..depth : frames[d] \in Frames
        BY <1>2 DEF depth
    <2>2. \A f \in Frames : f.at \in Nat
        BY DEF Frames
    <2> QED
        BY <2>1, <2>2
<1>4. depth <= Len(varsOrder)
    BY DEF GridInv, Inv, Nesting, depth
<1> QED
    BY <1>1, <1>2, <1>3, <1>4, SpansMultiply, LoopVariables

\* A loop begins where the loops around it are.
LEMMA EnterLoopGrid == ASSUME GridInv, EnterLoop PROVE GridInv'
<1>1. Inv'
    BY EnterLoopInv DEF GridInv
<1>2. /\ pc = "call" /\ pc' = "loop" /\ Running
      /\ UNCHANGED <<routine, numValues, varsOrder, todo, point, applied, runs>>
    BY DEF EnterLoop, Running
<1>3. Arranged'
    BY <1>2, SameOrder DEF GridInv
<1>4. depth \in Nat /\ depth < Len(varsOrder) /\ Len(varsOrder) \in Nat /\ frames \in Seq(Frames)
    BY <1>2, LoopCounts DEF GridInv, Inv, Nesting, depth
<1>5. /\ depth' = depth + 1 /\ frames'[depth + 1].at = 0
      /\ \A d \in 1..depth : frames'[d] = frames[d]
    BY <1>4 DEF EnterLoop, depth
<1>6. frame'.at = 0
    BY <1>5 DEF frame
<1>7. Started = depth /\ Started' = depth
    BY <1>2, <1>4, <1>5 DEF Started
<1>8. \A d : Count(d)' = Count(d) /\ Span(d)' = Span(d)
    BY <1>2, SameCounts
<1>9. Within'
    <2>1. depth + 1 \in 1..Len(varsOrder)
        BY <1>4
    <2>2. Count(depth + 1) \in Nat
        BY <1>2, <2>1, LoopCounts
    <2>3. 0 <= Count(depth + 1)
        BY <2>2
    <2>4. \A d \in 1..depth : frames[d].at \in 1..Count(d) /\ point[varsOrder[d]] = frames[d].at
        BY <1>2, <1>7 DEF GridInv, Within
    <2>5. Count(depth)' = Count(depth + 1)
        BY <1>2, <1>5 DEF Count
    <2> QED
        BY <1>2, <1>5, <1>6, <1>7, <1>8, <2>3, <2>4, <2>5 DEF Within
<1>10. Placed'
    <2>1. PICK number : Numbered(number, depth) /\ Len(runs) = number[depth] * Span(depth)
        BY <1>2, <1>7 DEF GridInv, Placed
    <2>2. Numbered(number, Started)'
        BY <1>5, <1>7, <1>8, <2>1 DEF Numbered
    <2>3. /\ depth + 1 \in 1..Len(varsOrder) /\ depth + 1 \in 0..Len(varsOrder)
          /\ (depth + 1) - 1 = depth
        BY <1>4
    <2>4. /\ Count(depth + 1) \in Nat /\ Span(depth + 1) \in Nat
          /\ Span(depth) = Count(depth + 1) * Span(depth + 1)
        BY <1>2, <2>3, LoopCounts
    <2>5. number[depth] \in Nat
        BY <1>4, <2>1 DEF Numbered
    <2>6. \A a, c, s \in Nat : a * (c * s) = (a * c + 0) * s
        OBVIOUS
    <2>7. Len(runs) = (number[depth] * Count(depth + 1) + 0) * Span(depth + 1)
        BY <2>1, <2>4, <2>5, <2>6
    <2>8. Count(depth)' = Count(depth + 1) /\ Span(depth)' = Span(depth + 1)
        <3>1. Inner(depth)' = Inner(depth + 1)
            BY <1>2, <1>5 DEF Inner
        <3> QED
            BY <1>2, <1>5, <3>1 DEF Count, Span
    <2>9. Len(runs)' = (number[depth' - 1] * Count(depth)' + frame'.at) * Span(depth)'
        BY <1>2, <1>5, <1>6, <2>3, <2>7, <2>8
    <2> QED
        BY <1>2, <2>2, <2>9 DEF Placed
<1>11. History'
    BY <1>2, HistoryKept DEF GridInv, History
<1> QED
    BY <1>1, <1>3, <1>9, <1>10, <1>11 DEF GridInv

\* The next value is the next of the points of the variables so far.
LEMMA NextValueGrid == ASSUME GridInv, NextValue PROVE GridInv'
<1>1. Inv'
    BY NextValueInv DEF GridInv
<1>2. /\ pc = "loop" /\ pc' = "callbacks" /\ Running
      /\ frames' = [frames EXCEPT ![depth].at = @ + 1]
      /\ point' = [point EXCEPT ![iteratingVar] = frame.at + 1]
      /\ UNCHANGED <<routine, numValues, varsOrder, applied, runs>>
      /\ frame.at < Count(depth)
    BY DEF NextValue, Running, HasNext, Count, iteratingVar
<1>3. Arranged'
    BY <1>2, SameOrder DEF GridInv
<1>4. /\ depth \in 1..Len(varsOrder) /\ depth \in 1..Len(frames) /\ depth - 1 \in Nat
      /\ frames \in Seq(Frames) /\ Len(varsOrder) \in Nat /\ frame = frames[depth] /\ frame.at \in Nat
      /\ Count(depth) \in Nat
    <2>1. frames # <<>>
        BY <1>2 DEF GridInv, Inv, Nesting
    <2>2. depth \in 1..depth /\ depth \in 1..Len(varsOrder)
        BY <1>2, <2>1, LoopCounts DEF depth
    <2> QED
        BY <1>2, <2>2, LoopCounts DEF depth, frame
<1>5. /\ depth' = depth /\ frames'[depth].at = frame.at + 1
      /\ \A d \in 1..depth - 1 : frames'[d] = frames[d]
    BY <1>2, <1>4 DEF depth
<1>6. Started = depth - 1 /\ Started' = depth
    BY <1>2, <1>5 DEF Started
<1>7. \A d : Count(d)' = Count(d) /\ Span(d)' = Span(d)
    BY <1>2, SameCounts
<1>8. /\ point \in [Vars -> Nat] /\ iteratingVar \in Used /\ Used \subseteq Vars
      /\ \A d \in 1..depth - 1 : varsOrder[d] # iteratingVar
      /\ \A d \in 1..depth : varsOrder[d] \in Vars
    <2>1. varsOrder \in Seq(Vars) /\ IsInjective(varsOrder) /\ Range(varsOrder) = Used
        BY <1>2 DEF GridInv, Inv, Inputs
    <2>2. Used \subseteq Vars
        BY DepsAreVars DEF GridInv, Inv, Used
    <2> QED
        BY <1>4, <2>1, <2>2 DEF iteratingVar, Range, IsInjective, GridInv, Inv, Types
<1>9. Within'
    <2>1. \A d \in 1..depth - 1 : frames[d].at \in 1..Count(d) /\ point[varsOrder[d]] = frames[d].at
        BY <1>2, <1>6 DEF GridInv, Within
    <2>2. frame.at + 1 \in 1..Count(depth)
        BY <1>2, <1>4
    <2>3. point'[iteratingVar] = frame.at + 1
        BY <1>2, <1>8
    <2>4. \A d \in 1..depth - 1 : point'[varsOrder[d]] = frames[d].at
        BY <1>2, <1>4, <1>8, <2>1
    <2>5. \A d \in 1..depth : d = depth \/ d \in 1..depth - 1
        BY <1>4
    <2>6. \A d \in 1..depth : frames'[d].at \in 1..Count(d) /\ point'[varsOrder[d]] = frames'[d].at
        BY <1>4, <1>5, <2>1, <2>2, <2>3, <2>4, <2>5 DEF iteratingVar
    <2> QED
        BY <1>2, <1>6, <1>7, <2>6 DEF Within
<1>10. Placed'
    <2>1. PICK number : /\ Numbered(number, depth - 1)
                        /\ Len(runs) = (number[depth - 1] * Count(depth) + frame.at) * Span(depth)
        BY <1>2, <1>6 DEF GridInv, Placed
    <2> DEFINE next == number[depth - 1] * Count(depth) + frame.at
    <2>2. number \in [Nat -> Nat] /\ number[0] = 0 /\ number[depth - 1] \in Nat
        BY <1>4, <2>1 DEF Numbered
    <2>3. next \in Nat
        <3>1. \A a, b, c \in Nat : a * b + c \in Nat
            OBVIOUS
        <3> QED
            BY <1>4, <2>2, <3>1
    <2>4. PICK counted : /\ counted \in [Nat -> Nat] /\ counted[depth] = next
                         /\ \A e \in 0..depth - 1 : counted[e] = number[e]
        <3> HIDE DEF next
        <3> DEFINE extended == [number EXCEPT ![depth] = next]
        <3>1. extended \in [Nat -> Nat]
            BY <2>2, <2>3
        <3>2. depth \in Nat /\ \A e \in 0..depth - 1 : e \in Nat /\ e # depth
            BY <1>4
        <3>3. extended[depth] = next /\ \A e \in 0..depth - 1 : extended[e] = number[e]
            BY <2>2, <3>2
        <3> HIDE DEF extended
        <3> QED
            BY <3>1, <3>3
    <2>5. ASSUME NEW e \in 1..depth
          PROVE  counted[e] = counted[e - 1] * Count(e) + (frames'[e].at - 1)
        <3>1. CASE e = depth
            <4>1. counted[e - 1] = number[depth - 1]
                <5>1. depth - 1 \in 0..depth - 1
                    BY <1>4
                <5> QED
                    BY <2>4, <3>1, <5>1
            <4>2. frames'[e].at - 1 = frame.at
                BY <1>4, <1>5, <3>1
            <4> QED
                BY <2>4, <3>1, <4>1, <4>2
        <3>2. CASE e # depth
            <4>1. e \in 1..depth - 1 /\ e \in 0..depth - 1 /\ e - 1 \in 0..depth - 1
                BY <1>4, <3>2
            <4>2. number[e] = number[e - 1] * Count(e) + (frames[e].at - 1)
                BY <2>1, <4>1 DEF Numbered
            <4> QED
                BY <1>5, <2>4, <4>1, <4>2
        <3> QED
            BY <3>1, <3>2
    <2>6. counted[0] = 0
        BY <1>4, <2>2, <2>4
    <2>7. Numbered(counted, Started)'
        BY <1>6, <1>7, <2>4, <2>5, <2>6 DEF Numbered
    <2>8. Span(depth)' = Span(depth)
        BY <1>2, <1>5 DEF Span, Inner
    <2>9. Len(runs)' = counted[depth'] * Span(depth)'
        BY <1>2, <1>5, <2>1, <2>4, <2>8
    <2> QED
        BY <1>2, <2>7, <2>9 DEF Placed
<1>11. History'
    <2>1. \A v \in Vars \ Used : point'[v] = 0
        BY <1>2, <1>8 DEF GridInv, History
    <2> QED
        BY <1>2, <2>1, HistoryKept DEF GridInv
<1> QED
    BY <1>1, <1>3, <1>9, <1>10, <1>11 DEF GridInv

\* A loop that ends has gone through the points of one value of the loop around it.
LEMMA LoopEndsGrid == ASSUME GridInv, LoopEnds PROVE GridInv'
<1>1. Inv'
    BY LoopEndsInv DEF GridInv
<1>2. /\ pc = "loop" /\ pc' = IF depth = 1 THEN "done" ELSE "loop"
      /\ frames' = SubSeq(frames, 1, depth - 1) /\ Running
      /\ UNCHANGED <<routine, numValues, varsOrder, todo, point, applied, runs>>
      /\ ~(frame.at < Count(depth))
    BY DEF LoopEnds, Running, HasNext, Count, iteratingVar
<1>3. Arranged'
    BY <1>2, SameOrder DEF GridInv
<1>4. /\ depth \in 1..Len(varsOrder) /\ depth - 1 \in Nat
      /\ frames \in Seq(Frames) /\ Len(varsOrder) \in Nat /\ frame = frames[depth] /\ frame.at \in Nat
      /\ Count(depth) \in Nat /\ Span(depth) \in Nat /\ Span(depth - 1) = Count(depth) * Span(depth)
      /\ depth \in Nat /\ depth <= Len(frames)
    <2>1. frames # <<>>
        BY <1>2 DEF GridInv, Inv, Nesting
    <2>2. depth \in 1..depth /\ depth \in 1..Len(varsOrder) /\ depth \in 0..Len(varsOrder)
        BY <1>2, <2>1, LoopCounts DEF depth
    <2> QED
        BY <1>2, <2>2, LoopCounts DEF depth, frame
<1>5. depth' = depth - 1 /\ \A d \in 1..depth - 1 : frames'[d] = frames[d]
    <2> DEFINE outer == SubSeq(frames, 1, depth - 1)
    <2>1. depth - 1 \in Int /\ depth - 1 >= 0 /\ \A i \in 1..depth - 1 : frames[i] \in Frames
        BY <1>4 DEF depth
    <2>2. Len(outer) = IF 1 <= depth - 1 THEN depth - 1 - 1 + 1 ELSE 0
        BY <2>1, SubSeqProperties
    <2>3. \A d \in 1..depth - 1 - 1 + 1 : outer[d] = frames[1 + d - 1]
        BY <2>1, SubSeqProperties
    <2> HIDE DEF outer
    <2>4. frames' = outer
        BY <1>2 DEF outer
    <2>5. Len(outer) = depth - 1 /\ \A d \in 1..depth - 1 : outer[d] = frames[d]
        BY <1>4, <2>1, <2>2, <2>3
    <2> QED
        BY <2>4, <2>5 DEF depth
<1>6. frame.at = Count(depth)
    <2>1. frame.at <= Count(depth)
        BY <1>2 DEF GridInv, Within
    <2> QED
        BY <1>2, <1>4, <2>1
<1>7. Started = depth - 1
    BY <1>2 DEF Started
<1>8. \A d : Count(d)' = Count(d) /\ Span(d)' = Span(d)
    BY <1>2, SameCounts
<1>9. PICK number : /\ Numbered(number, depth - 1)
                    /\ Len(runs) = (number[depth - 1] * Count(depth) + frame.at) * Span(depth)
    BY <1>2, <1>7 DEF GridInv, Placed
<1>10. number[depth - 1] \in Nat /\ number[0] = 0
    BY <1>4, <1>9 DEF Numbered
<1>11. Len(runs) = (number[depth - 1] + 1) * Span(depth - 1)
    <2>1. \A a, c, s \in Nat : (a * c + c) * s = (a + 1) * (c * s)
        OBVIOUS
    <2> QED
        BY <1>4, <1>6, <1>9, <1>10, <2>1
<1>12. CASE depth = 1
    <2>1. pc' = "done"
        BY <1>2, <1>12
    <2>2. Len(runs) = Span(0)
        <3>1. Span(0) \in Nat
            BY <1>2, <1>4, LoopCounts
        <3> QED
            BY <1>10, <1>11, <1>12, <3>1
    <2>3. Used' = Used /\ \A p, k : IsPoint(p, k)' = IsPoint(p, k)
        BY <1>2, SameCounts
    <2>4. History'
        BY <1>2, <1>8, <2>1, <2>2, <2>3 DEF GridInv, History
    <2> QED
        BY <1>1, <1>3, <2>1, <2>4 DEF GridInv, Within, Placed, Running
<1>13. CASE depth # 1
    <2>1. pc' = "loop" /\ Started' = depth - 2 /\ frame' = frames[depth - 1]
        BY <1>2, <1>4, <1>5, <1>13 DEF Started, frame
    <2>2. /\ depth - 1 \in 1..depth - 1 /\ depth - 2 \in Nat /\ (depth - 1) - 1 = depth - 2
          /\ \A d \in 1..depth - 2 : d \in 1..depth - 1
        BY <1>4, <1>13
    <2>3. \A d \in 1..depth - 1 : frames[d].at \in 1..Count(d) /\ point[varsOrder[d]] = frames[d].at
        BY <1>2, <1>7 DEF GridInv, Within
    <2>4. Count(depth)' = Count(depth - 1) /\ Span(depth)' = Span(depth - 1)
        BY <1>2, <1>5 DEF Count, Span, Inner
    <2>5. Count(depth - 1) \in Nat /\ frames[depth - 1].at \in 1..Count(depth - 1)
        <3>1. depth - 1 \in 1..Len(varsOrder)
            BY <1>4, <2>2
        <3> QED
            BY <1>2, <2>2, <2>3, <3>1, LoopCounts
    <2>6. Within'
        <3>1. frame'.at <= Count(depth)'
            BY <2>1, <2>4, <2>5
        <3>2. \A d \in 1..depth - 2 : /\ frames'[d].at \in 1..Count(d)'
                                      /\ point'[varsOrder'[d]] = frames'[d].at
            BY <1>2, <1>5, <1>8, <2>2, <2>3
        <3> QED
            BY <2>1, <3>1, <3>2 DEF Within
    <2>7. Placed'
        <3>1. Numbered(number, Started)'
            BY <1>5, <1>8, <1>9, <2>1, <2>2 DEF Numbered
        <3>2. number[depth - 1] = number[depth - 2] * Count(depth - 1) + (frames[depth - 1].at - 1)
            BY <1>9, <2>2 DEF Numbered
        <3>3. number[depth - 2] \in Nat
            BY <1>9, <2>2 DEF Numbered
        <3>4. number[depth - 1] + 1 = number[depth - 2] * Count(depth - 1) + frames[depth - 1].at
            <4>1. \A a, b, c \in Nat : a * b + (c - 1) + 1 = a * b + c
                OBVIOUS
            <4> QED
                BY <2>5, <3>2, <3>3, <4>1
        <3>5. Len(runs)' = (number[depth' - 1] * Count(depth)' + frame'.at) * Span(depth)'
            BY <1>2, <1>5, <1>11, <2>1, <2>2, <2>4, <3>4
        <3> QED
            BY <2>1, <3>1, <3>5 DEF Placed
    <2>8. History'
        BY <1>2, <2>1, HistoryKept DEF GridInv, History
    <2> QED
        BY <1>1, <1>3, <2>6, <2>7, <2>8 DEF GridInv
<1> QED
    BY <1>12, <1>13

\* Calling a callback and going down a loop move no loop.
LEMMA SamePlaceGrid == ASSUME GridInv, CallCallback \/ Descend PROVE GridInv'
<1>1. Inv'
    BY CallCallbackInv, PointInv DEF GridInv
<1>2. /\ pc = "callbacks" /\ pc' \in {"callbacks", "call", "failed"} /\ Running
      /\ UNCHANGED <<routine, numValues, varsOrder, frames, point, runs>>
    BY DEF CallCallback, Descend, Running
<1>3. Arranged'
    BY <1>2, SameOrder DEF GridInv
<1>4. depth' = depth /\ Started = depth /\ Started' = depth
    BY <1>2 DEF Started, depth
<1>5. \A d : Count(d)' = Count(d) /\ Span(d)' = Span(d)
    BY <1>2, SameCounts
<1>6. Within'
    BY <1>2, <1>4, <1>5 DEF GridInv, Within
<1>7. Placed'
    <2>1. PICK number : Numbered(number, depth) /\ Len(runs) = number[depth] * Span(depth)
        BY <1>2, <1>4 DEF GridInv, Placed
    <2>2. Numbered(number, Started)'
        BY <1>2, <1>4, <1>5, <2>1 DEF Numbered
    <2>3. Span(depth)' = Span(depth)
        BY <1>2, <1>4 DEF Span, Inner
    <2> QED
        BY <1>2, <1>4, <2>1, <2>2, <2>3 DEF Placed, Running
<1>8. History'
    BY <1>2, HistoryKept DEF GridInv, History
<1> QED
    BY <1>1, <1>3, <1>6, <1>7, <1>8 DEF GridInv

\* Nor does a step that changes nothing.
LEMMA StutterGrid == ASSUME GridInv, UNCHANGED vars PROVE GridInv'
<1>1. Inv'
    BY StutterInv DEF GridInv
<1>2. UNCHANGED <<routine, numValues, varsOrder, frames, point, runs, pc>>
    BY DEF vars
<1>3. Arranged'
    <2>1. CASE pc \in {"construct", "rejected"}
        BY <1>2, <2>1 DEF Arranged
    <2>2. CASE pc \notin {"construct", "rejected"}
        BY <1>2, <2>2, SameOrder DEF GridInv
    <2> QED
        BY <2>1, <2>2
<1>4. depth' = depth /\ Started' = Started /\ frame' = frame /\ Running' = Running
    BY <1>2 DEF Started, depth, frame, Running
<1>5. \A d : Count(d)' = Count(d) /\ Span(d)' = Span(d)
    BY <1>2, SameCounts
<1>6. Count(depth)' = Count(depth) /\ Span(depth)' = Span(depth)
    BY <1>2, <1>4 DEF Count, Span, Inner
<1>7. Within'
    BY <1>2, <1>4, <1>5, <1>6 DEF GridInv, Within
<1>8. Placed'
    <2> SUFFICES ASSUME Running' PROVE Placed'
        BY DEF Placed
    <2>1. PICK number :
              /\ Numbered(number, Started)
              /\ Len(runs) = IF pc = "loop" THEN (number[depth - 1] * Count(depth) + frame.at) * Span(depth)
                             ELSE number[depth] * Span(depth)
        BY <1>4 DEF GridInv, Placed
    <2>2. Numbered(number, Started)'
        BY <1>2, <1>4, <1>5, <2>1 DEF Numbered
    <2> QED
        BY <1>2, <1>4, <1>6, <2>1, <2>2 DEF Placed
<1>9. History'
    <2>1. Used' = Used /\ \A p, k : IsPoint(p, k)' = IsPoint(p, k)
        BY <1>2, SameCounts
    <2>2. Span(0)' = Span(0)
        BY <1>5
    <2> QED
        BY <1>2, <2>1, <2>2 DEF GridInv, History
<1> QED
    BY <1>1, <1>3, <1>7, <1>8, <1>9 DEF GridInv

-----------------------------------------------------------------------------
(* THE GRID.  The number of a point says where its loops are.               *)

\* A number of whole parts and less than one more is divided into them.
LEMMA Quotient ==
    ASSUME NEW a \in Nat, NEW s \in Nat, NEW r \in Nat, r < s
    PROVE  (a * s + r) \div s = a /\ (a * s + r) % s = r
<1> DEFINE whole == a * s
           q == (whole + r) \div s
           m == (whole + r) % s
<1>1. whole \in Nat
    OBVIOUS
<1>2. q \in Nat /\ m \in Nat /\ m < s /\ whole + r = s * q + m
    <2> HIDE DEF whole
    <2> QED
        BY <1>1
<1> HIDE DEF q, m
<1>3. ~(q < a)
    <2> SUFFICES ASSUME q < a PROVE FALSE
        OBVIOUS
    <2>1. PICK k \in Nat : a = q + 1 + k
        <3>1. a - q - 1 \in Nat /\ a = q + 1 + (a - q - 1)
            BY <1>2
        <3> QED
            BY <3>1
    <2>2. whole = s * q + s + k * s
        BY <1>2, <2>1
    <2>3. k * s \in Nat /\ s * q \in Nat
        BY <1>2, <2>1
    <2> HIDE DEF whole
    <2> QED
        BY <1>1, <1>2, <2>2, <2>3
<1>4. ~(a < q)
    <2> SUFFICES ASSUME a < q PROVE FALSE
        OBVIOUS
    <2>1. PICK k \in Nat : q = a + 1 + k
        <3>1. q - a - 1 \in Nat /\ q = a + 1 + (q - a - 1)
            BY <1>2
        <3> QED
            BY <3>1
    <2>2. s * q = whole + s + k * s
        BY <1>2, <2>1
    <2>3. k * s \in Nat /\ s * q \in Nat
        BY <1>2, <2>1
    <2> HIDE DEF whole
    <2> QED
        BY <1>1, <1>2, <2>2, <2>3
<1>5. q = a
    BY <1>2, <1>3, <1>4
<1>6. m = r
    <2>1. whole = s * q
        BY <1>2, <1>5
    <2> HIDE DEF whole
    <2> QED
        BY <1>1, <1>2, <2>1
<1> QED
    BY <1>5, <1>6 DEF q, m

\* In the innermost loop, the points run in the current iteration of a loop are fewer than
\* the loops in it have.
LEMMA InnermostNumber ==
    ASSUME GridInv, pc = "callbacks", Innermost, NEW number, Numbered(number, depth)
    PROVE  \A d \in 0..depth : \E r \in Nat : r < Span(d) /\ number[depth] = number[d] * Span(d) + r
<1>1. Running
    BY DEF Running
<1>2. /\ depth \in Nat /\ depth = Len(varsOrder) /\ number \in [Nat -> Nat]
      /\ \A d \in 0..depth : Span(d) \in Nat
      /\ \A d \in 1..depth : Count(d) \in Nat /\ Span(d - 1) = Count(d) * Span(d)
    BY <1>1, LoopCounts DEF Innermost, Numbered
<1> DEFINE Holds(d) == \E r \in Nat : r < Span(d) /\ number[depth] = number[d] * Span(d) + r
           T == {i \in Nat : i <= depth => Holds(depth - i)}
<1>3. 0 \in T
    <2>1. Span(depth) = 1
        BY <1>1, <1>2, SpansMultiply DEF GridInv, Inv, Running
    <2>2. 0 < Span(depth) /\ number[depth] = number[depth] * Span(depth) + 0
        BY <1>2, <2>1
    <2>3. Holds(depth) /\ depth - 0 = depth
        BY <1>2, <2>2
    <2> QED
        BY <2>3
<1>4. ASSUME NEW i \in T PROVE i + 1 \in T
    <2> SUFFICES ASSUME i + 1 <= depth PROVE Holds(depth - (i + 1))
        OBVIOUS
    <2> DEFINE d == depth - i
    <2>1. d \in 1..depth /\ d \in 0..depth /\ d - 1 = depth - (i + 1) /\ d - 1 \in Nat
        <3>1. i \in Nat /\ i + 1 <= depth
            OBVIOUS
        <3>2. depth \in Nat
            BY <1>2
        <3> HIDE DEF T, Holds
        <3> QED
            BY <3>1, <3>2
    <2>2. Holds(d)
        BY <1>2
    <2> HIDE DEF d
    <2>3. PICK r \in Nat : r < Span(d) /\ number[depth] = number[d] * Span(d) + r
        BY <2>2
    <2>4. number[d] = number[d - 1] * Count(d) + (frames[d].at - 1)
        BY <2>1 DEF Numbered
    <2>5. frames[d].at \in 1..Count(d)
        BY <1>1, <2>1 DEF GridInv, Within, Started
    <2> DEFINE a == frames[d].at - 1
    <2>6. a \in Nat /\ a < Count(d)
        <3>1. Count(d) \in Nat
            BY <1>2, <2>1
        <3> QED
            BY <2>5, <3>1
    <2>7. number[d - 1] \in Nat /\ Count(d) \in Nat /\ Span(d) \in Nat
        BY <1>2, <2>1
    <2> HIDE DEF a
    <2>8. \A n, c, s, b, e \in Nat : (n * c + b) * s + e = n * (c * s) + (b * s + e)
        OBVIOUS
    <2>9. number[depth] = number[d - 1] * Span(d - 1) + (a * Span(d) + r)
        <3>1. number[d] = number[d - 1] * Count(d) + a
            BY <2>4 DEF a
        <3>2. Span(d - 1) = Count(d) * Span(d)
            BY <1>2, <2>1
        <3> QED
            BY <2>3, <2>6, <2>7, <2>8, <3>1, <3>2
    <2>10. a * Span(d) + r \in Nat /\ a * Span(d) + r < Span(d - 1)
        <3>1. PICK k \in Nat : Count(d) = a + 1 + k
            <4>1. Count(d) - a - 1 \in Nat /\ Count(d) = a + 1 + (Count(d) - a - 1)
                BY <2>6, <2>7
            <4> QED
                BY <4>1
        <3>2. \A b, j, s \in Nat : (b + 1 + j) * s = b * s + s + j * s /\ j * s \in Nat /\ b * s \in Nat
            OBVIOUS
        <3>3. Span(d - 1) = Count(d) * Span(d)
            BY <1>2, <2>1
        <3>4. Span(d - 1) = a * Span(d) + Span(d) + k * Span(d) /\ k * Span(d) \in Nat /\ a * Span(d) \in Nat
            BY <2>6, <2>7, <3>1, <3>2, <3>3
        <3> QED
            BY <2>3, <2>7, <3>4
    <2>11. Holds(d - 1)
        BY <2>9, <2>10
    <2> QED
        BY <2>1, <2>11
<1>5. T = Nat
    <2>1. T \subseteq Nat
        OBVIOUS
    <2> HIDE DEF T
    <2> QED
        BY <1>3, <1>4, <2>1, SetInduction
<1>6. ASSUME NEW d \in 0..depth PROVE Holds(d)
    <2>1. depth - d \in Nat /\ depth - d <= depth /\ depth - (depth - d) = d
        BY <1>2
    <2>2. depth - d \in T
        BY <1>5, <2>1
    <2> QED
        BY <2>1, <2>2
<1> QED
    BY <1>6

\* The point at which an experiment runs is the one whose turn it is.
LEMMA RunsItsPoint ==
    ASSUME GridInv, pc = "callbacks", Innermost
    PROVE  IsPoint(point, Len(runs))
<1>1. Running /\ Started = depth
    BY DEF Running, Started
<1>2. PICK number : Numbered(number, depth) /\ Len(runs) = number[depth] * Span(depth)
    BY <1>1 DEF GridInv, Placed
<1>3. /\ depth \in Nat /\ depth = Len(varsOrder) /\ number \in [Nat -> Nat]
      /\ \A d \in 0..depth : Span(d) \in Nat
      /\ \A d \in 1..depth : Count(d) \in Nat
    BY <1>1, <1>2, LoopCounts DEF Innermost, Numbered
<1>4. Len(runs) = number[depth]
    <2>1. Span(depth) = 1
        BY <1>1, <1>3, SpansMultiply DEF GridInv, Inv, Running
    <2> QED
        BY <1>2, <1>3, <2>1
<1>5. ASSUME NEW d \in 1..Len(varsOrder)
      PROVE  point[varsOrder[d]] = 1 + ((Len(runs) \div Span(d)) % Count(d))
    <2>1. d \in 1..depth /\ d \in 0..depth /\ d - 1 \in Nat /\ d \in Nat
        BY <1>3
    <2>2. PICK r \in Nat : r < Span(d) /\ number[depth] = number[d] * Span(d) + r
        BY <1>2, <2>1, InnermostNumber
    <2>3. number[d] \in Nat /\ number[d - 1] \in Nat /\ Span(d) \in Nat /\ Count(d) \in Nat
        BY <1>3, <2>1
    <2>4. Len(runs) \div Span(d) = number[d]
        <3>1. (number[d] * Span(d) + r) \div Span(d) = number[d]
            BY Zenon, <2>2, <2>3, Quotient
        <3> QED
            BY <1>4, <2>2, <3>1
    <2>5. number[d] = number[d - 1] * Count(d) + (frames[d].at - 1)
        BY <1>2, <2>1 DEF Numbered
    <2>6. frames[d].at \in 1..Count(d) /\ point[varsOrder[d]] = frames[d].at
        BY <1>1, <2>1 DEF GridInv, Within
    <2> DEFINE a == frames[d].at - 1
    <2>7. a \in Nat /\ a < Count(d) /\ point[varsOrder[d]] = 1 + a
        BY <2>3, <2>6
    <2>8. number[d] % Count(d) = a
        <3> HIDE DEF a
        <3>1. number[d] = number[d - 1] * Count(d) + a
            BY <2>5 DEF a
        <3>2. (number[d - 1] * Count(d) + a) % Count(d) = a
            BY Zenon, <2>3, <2>7, Quotient
        <3> QED
            BY <3>1, <3>2
    <2> QED
        BY <2>4, <2>7, <2>8
<1> QED
    BY <1>5 DEF IsPoint, GridInv, Inv, Types, History

\* An experiment that runs is the next one of the grid.
LEMMA RunPointGrid == ASSUME GridInv, RunPoint PROVE GridInv'
<1>1. Inv'
    BY PointInv DEF GridInv
<1>2. /\ pc = "callbacks" /\ Innermost /\ Running
      /\ pc' \in {"loop", "failed", "aborted"}
      /\ UNCHANGED <<routine, numValues, varsOrder, frames, todo, point, applied>>
      /\ \/ runs' = Append(runs, point)
         \/ pc' = "aborted" /\ runs' = runs
    BY DEF RunPoint, Running
<1>3. Arranged'
    BY <1>2, SameOrder DEF GridInv
<1>4. depth' = depth /\ frame' = frame /\ Started = depth /\ (pc' = "loop" => Started' = depth - 1)
    BY <1>2 DEF Started, depth, frame
<1>5. \A d : Count(d)' = Count(d) /\ Span(d)' = Span(d)
    BY <1>2, SameCounts
<1>6. Count(depth)' = Count(depth) /\ Span(depth)' = Span(depth)
    BY <1>2, <1>4 DEF Count, Span, Inner
<1>7. /\ depth \in Nat \ {0} /\ depth \in 1..depth /\ depth - 1 \in Nat
      /\ \A d \in 1..depth - 1 : d \in 1..depth
      /\ frame = frames[depth] /\ depth = Len(varsOrder)
    <2>1. frames # <<>> /\ frames \in Seq(Frames)
        BY <1>2 DEF GridInv, Inv, Nesting, Types
    <2>2. depth \in Nat /\ depth # 0
        BY <2>1 DEF depth
    <2> QED
        BY <1>2, <2>2 DEF frame, Innermost
<1>8. \A d \in 1..depth : frames[d].at \in 1..Count(d) /\ point[varsOrder[d]] = frames[d].at
    BY <1>2, <1>4 DEF GridInv, Within
<1>9. Within'
    <2>1. frame.at <= Count(depth)
        <3>1. Count(depth) \in Nat
            BY <1>2, <1>7, LoopCounts
        <3> QED
            BY <1>7, <1>8, <3>1
    <2> QED
        BY <1>2, <1>4, <1>5, <1>6, <1>7, <1>8, <2>1 DEF Within, Running
<1>10. runs \in Seq([Vars -> Nat]) /\ point \in [Vars -> Nat]
    BY DEF GridInv, Inv, Types
<1>11. Placed'
    <2> SUFFICES ASSUME pc' = "loop" PROVE Placed'
        BY <1>2 DEF Placed, Running
    <2>1. PICK number : Numbered(number, depth) /\ Len(runs) = number[depth] * Span(depth)
        BY <1>2, <1>4 DEF GridInv, Placed
    <2>2. Numbered(number, Started)'
        BY <1>2, <1>4, <1>5, <1>7, <2>1 DEF Numbered
    <2>3. Span(depth) = 1
        BY <1>2, <1>7, SpansMultiply DEF GridInv, Inv
    <2>4. Len(runs') = Len(runs) + 1
        <3> DEFINE Places == [Vars -> Nat]
        <3>1. runs \in Seq(Places) /\ point \in Places
            BY <1>10
        <3> HIDE DEF Places
        <3> QED
            BY <1>2, <3>1
    <2>5. /\ number[depth] = number[depth - 1] * Count(depth) + (frame.at - 1)
          /\ number[depth] \in Nat /\ number[depth - 1] \in Nat
        BY <1>7, <2>1 DEF Numbered
    <2>6. Count(depth) \in Nat /\ frame.at \in 1..Count(depth)
        BY <1>2, <1>7, <1>8, LoopCounts
    <2>7. \A n, c, b \in Nat : (n * c + (b - 1)) * 1 + 1 = (n * c + b) * 1
        OBVIOUS
    <2>8. Len(runs') = (number[depth - 1] * Count(depth) + frame.at) * Span(depth)
        BY <2>1, <2>3, <2>4, <2>5, <2>6, <2>7
    <2> QED
        BY <1>4, <1>6, <2>2, <2>8 DEF Placed
<1>12. History'
    <2>1. Used' = Used /\ \A p, k : IsPoint(p, k)' = IsPoint(p, k)
        BY <1>2, SameCounts
    <2>2. \A k \in DOMAIN runs' : IsPoint(runs'[k], k - 1)
        <3>1. CASE runs' = runs
            BY <3>1 DEF GridInv, History
        <3>2. CASE runs' = Append(runs, point)
            <4> DEFINE Places == [Vars -> Nat]
            <4>1. runs \in Seq(Places) /\ point \in Places
                BY <1>10
            <4> HIDE DEF Places
            <4>2. IsPoint(point, Len(runs))
                BY <1>2, RunsItsPoint
            <4>3. \A k \in DOMAIN runs : IsPoint(runs[k], k - 1)
                BY DEF GridInv, History
            <4>4. ASSUME NEW k \in DOMAIN runs'
                  PROVE  \/ k \in DOMAIN runs /\ runs'[k] = runs[k]
                         \/ k - 1 = Len(runs) /\ runs'[k] = point
                BY <3>2, <4>1
            <4> QED
                BY <4>2, <4>3, <4>4
        <3> QED
            BY <1>2, <3>1, <3>2
    <2>3. (\A k \in DOMAIN runs : IsPoint(runs[k], k - 1))'
        BY <1>2, <1>5, <2>1, <2>2 DEF IsPoint
    <2> QED
        BY <1>2, <2>1, <2>3 DEF GridInv, History
<1> QED
    BY <1>1, <1>3, <1>9, <1>11, <1>12 DEF GridInv

\* The loops count in every state.
LEMMA AlwaysGrid == Spec => []GridInv
<1>1. ASSUME GridInv, [Next]_vars PROVE GridInv'
    BY <1>1, ConstructGrid, EnterLoopGrid, NextValueGrid, LoopEndsGrid, SamePlaceGrid, RunPointGrid,
       StutterGrid DEF Next
<1> QED
    BY <1>1, StartGrid, PTL DEF Spec

\* The point whose turn it is, as the loops count, is the one that the strides give.
LEMMA PointIsGridPoint ==
    ASSUME Inputs, Arranged, pc \notin {"construct", "rejected"}, NEW p, NEW k, IsPoint(p, k)
    PROVE  p = GridPoint(k)
<1>1. varsOrder \in Seq(Vars) /\ Range(varsOrder) = Used
    BY DEF Inputs
<1>2. ASSUME NEW v \in Used PROVE p[v] = 1 + ((k \div Stride(v)) % numValues[v])
    <2>1. PICK d \in 1..Len(varsOrder) : v = varsOrder[d]
        BY <1>1 DEF Range
    <2>2. Stride(varsOrder[d]) = Span(d)
        BY StrideIsSpan
    <2> QED
        BY <2>1, <2>2 DEF IsPoint, Count
<1>3. p \in [Vars -> Nat] /\ \A v \in Vars \ Used : p[v] = 0
    BY DEF IsPoint
<1>4. p = [v \in Vars |-> IF v \in Used THEN 1 + ((k \div Stride(v)) % numValues[v]) ELSE 0]
    BY <1>2, <1>3
<1> QED
    BY <1>4 DEF GridPoint

\* The points of every sweep are run in the order of the grid, each once, and all of them
\* unless it is aborted or fails: whatever its variables, and however many values they
\* have, the recursion of _nested_loop_recursive() counts like the strides.
THEOREM PointsInOrder == Spec => []GridInOrder
<1>1. ASSUME GridInv PROVE GridInOrder
    <2>1. CASE pc \in {"construct", "rejected"}
        <3>1. runs = <<>> /\ pc # "done"
            BY <1>1, <2>1 DEF GridInv, History
        <3>2. \A k \in DOMAIN runs : runs[k] = GridPoint(k - 1)
            BY <3>1
        <3> QED
            BY <3>1, <3>2 DEF GridInOrder
    <2>2. CASE pc \notin {"construct", "rejected"}
        <3>1. Inputs /\ Arranged
            BY <1>1 DEF GridInv, Inv
        <3>2. \A k \in DOMAIN runs : runs[k] = GridPoint(k - 1)
            BY <1>1, <2>2, <3>1, PointIsGridPoint DEF GridInv, History
        <3>3. pc = "done" => Len(runs) = Points(numValues, Used)
            BY <1>1, <2>2, <3>1, SpansMultiply DEF GridInv, History
        <3> QED
            BY <3>2, <3>3 DEF GridInOrder, Points
    <2> QED
        BY <2>1, <2>2
<1> QED
    BY <1>1, AlwaysGrid, PTL
=============================================================================
