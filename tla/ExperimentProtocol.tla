------------------------- MODULE ExperimentProtocol -------------------------
(***************************************************************************)
(* What the server promises its clients, without threads, queues or        *)
(* sockets: connections are served one after the other, and on each of     *)
(* them the packets follow the experiment protocol (a handshake, then       *)
(* answers; a run is a header, for every iteration its payloads and an      *)
(* "iteration_ended", and a footer; a failed run is an error and a footer   *)
(* with "aborted" set).                                                     *)
(***************************************************************************)
EXTENDS Naturals, Sequences

CONSTANT Conns   \* connections, numbered in the order they are accepted

VARIABLES
    transcript,  \* transcript[c]: the kinds of packet client c has received
    ended        \* the connections that are over

\* <<phase, packet, next phase>>: a client that has received what leads to the
\* phase may receive the packet next.
Moves ==
    { <<"fresh",      "handshake",       "idle">>,
      <<"idle",       "answer",          "idle">>,
      <<"idle",       "error",           "idle">>,
      <<"idle",       "ok",              "configured">>,
      <<"configured", "answer",          "idle">>,
      <<"configured", "error",           "idle">>,
      <<"configured", "warning",         "idle">>,
      <<"configured", "ok",              "configured">>,
      <<"configured", "header",          "started">>,
      <<"started",    "data",            "payloads">>,
      <<"started",    "error",           "failed">>,
      <<"started",    "aborted",         "idle">>,
      <<"payloads",   "data",            "payloads">>,
      <<"payloads",   "iteration_ended", "iterated">>,
      <<"payloads",   "error",           "failed">>,
      <<"iterated",   "data",            "payloads">>,
      <<"iterated",   "error",           "failed">>,
      <<"iterated",   "footer",          "idle">>,
      <<"iterated",   "aborted",         "idle">>,
      <<"failed",     "aborted",         "idle">> }

Kinds == {m[2] : m \in Moves}

\* A header was received and its footer was not.
RunPhases == {"started", "payloads", "iterated", "failed"}

After(phase, kind) ==
    LET next == {m \in Moves : m[1] = phase /\ m[2] = kind}
    IN  IF next = {} THEN "illegal" ELSE (CHOOSE m \in next : TRUE)[3]

\* What a client knows after each of the packets it has received, and after all of them.
Phase(kinds) ==
    LET phase[i \in 0..Len(kinds)] == IF i = 0 THEN "fresh" ELSE After(phase[i - 1], kinds[i])
    IN  phase[Len(kinds)]

Init ==
    /\ transcript = [c \in Conns |-> <<>>]
    /\ ended = {}

\* The client in service receives a packet that the protocol allows.
Receive(c, kind) ==
    /\ c \notin ended
    /\ \A d \in Conns : d < c => d \in ended
    /\ After(Phase(transcript[c]), kind) # "illegal"
    /\ transcript' = [transcript EXCEPT ![c] = Append(@, kind)]
    /\ UNCHANGED ended

End(c) ==
    /\ ended' = ended \cup {c}
    /\ UNCHANGED transcript

Next == \E c \in Conns : End(c) \/ \E kind \in Kinds : Receive(c, kind)

Spec == Init /\ [][Next]_<<transcript, ended>>
=============================================================================
