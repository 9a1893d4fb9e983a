---------------------------- MODULE MCFIREQServer ----------------------------
(* FIREQServer with packets of one byte and payloads of two.                *)
EXTENDS FIREQServer

MCBytesOf == [k \in PacketKinds |-> IF k = "data" THEN 2 ELSE 1]

\* Two clients: a regular conversation, an answer too many, a client that is mute.
MCClientsStreams ==
    [w \in BOOLEAN |-> {<<"ack", "run", "logout">>, <<"ack", "ack">>, <<>>}]

\* One client: more messages than the input queue holds, every kind of message, a
\* client that is refused and one that never answers; where stop() may be called, more
\* messages than the input queue holds.
MCServiceStreams ==
    [w \in BOOLEAN |->
        IF w THEN {<<"ack", "query", "query", "query">>}
        ELSE {<<"ack", "query", "run">>, <<"ack", "garbage", "apply", "logout">>, <<"oversize">>,
              <<>>}]
=============================================================================
