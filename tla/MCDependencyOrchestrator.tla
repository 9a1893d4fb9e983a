----------------------- MODULE MCDependencyOrchestrator -----------------------
(* Every graph of up to four nodes; a node is the parity of what it depends on, *)
(* except the register, which keeps what it has when it depends on zeros only.  *)
EXTENDS DependencyOrchestrator

CONSTANTS w, x, y, r

MCNodes == {w, x, y, r}
MCRegisters == {r}
MCValues == {0, 1}

MCCompute(n, in, up, own) ==
    IF DOMAIN up = {} THEN in
    ELSE IF n = r /\ \A u \in DOMAIN up : up[u] = 0 THEN own
    ELSE Cardinality({u \in DOMAIN up : up[u] = 1}) % 2
=============================================================================
