-------------------------- MODULE MCSweepExperiment --------------------------
(* Sweeps of up to two callbacks over three variables of at most two values,   *)
(* and some of three callbacks.                                                *)
EXTENDS SweepExperiment, TLC

CONSTANTS a, b, c

MCVars == {a, b, c}

Expressions == {<<>>, <<a>>, <<b>>, <<b, a>>, <<a, c>>, <<c, b, a>>}
MCCallbacks == [vars : Expressions, cost : {1, 10}]
MCRoutines ==
    UNION {[1..n -> MCCallbacks] : n \in 0..2}
        \cup {<<x, y, z>> : x \in [vars : {<<a>>, <<c, b, a>>}, cost : {1}],
                            y \in [vars : {<<>>, <<b>>}, cost : {1, 3}],
                            z \in [vars : {<<a, c>>, <<b, a>>}, cost : {1, 2}]}

\* Also a variable without values, and one that is not defined.
MCDefinitions ==
    [MCVars -> {1, 2}] \cup {a :> 3 @@ b :> 2 @@ c :> 2, a :> 2 @@ b :> 0 @@ c :> 1, a :> 2 @@ c :> 2}
=============================================================================
