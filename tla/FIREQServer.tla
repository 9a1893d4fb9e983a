----------------------------- MODULE FIREQServer -----------------------------
(***************************************************************************)
(* The TCP server of FIREQ_SERVER: the main thread that accepts clients one *)
(* after the other and executes their commands (fireq_server.py), the       *)
(* receive worker and the send worker (network/), the event client_connected *)
(* all three write, the bounded input queue and the memory-bounded output  *)
(* queue between them, and the clients and their sockets as environment.    *)
(*                                                                         *)
(* A socket is named by the number of its connection, 0 standing for None.  *)
(* A step is what one thread does between two accesses to state another     *)
(* thread can change; in particular, checking whose socket failed and       *)
(* clearing the event are two steps of a worker, as they are in the code.   *)
(***************************************************************************)
EXTENDS Integers, Sequences

CONSTANTS
    MaxConns,    \* bound of the model: connections accepted in a behaviour
    MaxPoints,   \* bound of the model: points of a sweep
    WithStop,    \* bound of the model: {TRUE} if stop() may be called, {FALSE} if not,
                 \* both if it may be in some behaviours
    Streams,     \* bound of the model: all that a client sends on a connection, for either
    MayStall,    \* whether clients may stop reading for a while
    InCapacity,  \* maxsize of queue_in
    MaxBytes,    \* QUEUE_MAX_MEMORY_BYTES
    BytesOf      \* BytesOf[k]: the bytes a packet of kind k occupies in queue_out

\* "ack" is a handshake_ack with the right token, "query" any other command that
\* is answered by one packet, "apply" and "run" are apply_configuration and
\* config_and_run, "garbage" is a header that is not a msgpack dict, "oversize" a
\* size beyond the limit.
AllMsgKinds == {"ack", "query", "apply", "run", "logout", "garbage", "oversize"}

\* The packets of the server; "aborted" is a footer with "aborted" set to True.
PacketKinds == {"handshake", "answer", "ok", "warning", "error", "header",
                "data", "iteration_ended", "footer", "aborted"}

ASSUME ServerAssumption ==
    /\ MaxConns \in Nat /\ MaxPoints \in Nat
    /\ WithStop \subseteq BOOLEAN
    /\ Streams \in [BOOLEAN -> SUBSET Seq(AllMsgKinds)]
    /\ MayStall \in BOOLEAN
    /\ InCapacity \in Nat \ {0}
    /\ MaxBytes \in Nat
    /\ BytesOf \in [PacketKinds -> Nat \ {0}]

Conns == 1..MaxConns
Sockets == 0..MaxConns

\* A packet remembers for which connection the main thread produced it, and that
\* it was the n-th packet it produced for it.
Packets == [conn : Conns, n : Nat, kind : PacketKinds]
Messages == [conn : Conns, kind : AllMsgKinds]

VARIABLES
    connected,    \* the event client_connected
    stopPhase,    \* how far stop() has come; -1 where it is never called
    \* main thread
    mpc,          \* where it is
    ret,          \* where _close_client() returns to
    points,       \* the points left of the sweep that runs, 0 without a sweep
    clientSocket, \* FIREQServer._client_socket
    accepted,     \* the number of connections accepted so far
    puts,         \* history: the packets produced for the current connection
    ackFrom,      \* history: who sent the handshake_ack that authenticated it
    \* receive worker: its locals, ReceiveWorker.client_socket and queue_in
    rpc, rSocket, rMsg, recvSocket, inQueue,
    \* send worker: its locals, SendWorker._session and queue_out
    spc, sItem, sSession, sSocket, sendSession, outQueue, outBytes, outSession,
    \* sockets and clients
    closed,       \* the sockets the server has closed
    peer,         \* what the client at the other end does
    inbox,        \* what it sends and the server has not read
    received,     \* the packets it has received in whole
    torn          \* the connections on which a packet was begun and abandoned

pcVars == <<mpc, ret, points>>
connVars == <<clientSocket, accepted, recvSocket, sendSession>>
historyVars == <<puts, ackFrom>>
recvVars == <<rpc, rSocket, rMsg>>
sendVars == <<spc, sItem, sSession, sSocket>>
outVars == <<outQueue, outBytes, outSession>>
clientVars == <<closed, peer, inbox>>
deliveryVars == <<received, torn>>
vars == <<connected, stopPhase, pcVars, connVars, historyVars, recvVars, inQueue,
          sendVars, outVars, clientVars, deliveryVars>>

Nothing == [conn |-> 0, n |-> 0, kind |-> "none"]

Out == INSTANCE MemoryBoundedQueue
           WITH Items <- Packets, Size <- [p \in Packets |-> BytesOf[p.kind]],
                queue <- outQueue, currentBytes <- outBytes, session <- outSession,
                closed <- FALSE  \* the server never calls close()

\* stop() sets _stop_event, closes the sockets, then stops one worker after the
\* other, joining each for at most two seconds.
Stopping == stopPhase >= 1
RecvStopped == stopPhase >= 3
SendStopped == stopPhase >= 4

-----------------------------------------------------------------------------
AcceptPcs == {"accept", "assign", "session", "session_tuple", "set_connected"}
HandshakePcs == {"greet", "handshake", "handshake_get"}
CommandPcs == {"answer", "apply", "apply_warning", "configure", "sweep_error", "header",
               "point", "experiment", "iteration", "failed", "footer", "footer_aborted"}
ClosePcs == {"close", "close_event", "close_in", "close_out"}
MainPcs == AcceptPcs \cup HandshakePcs \cup {"loop", "get"} \cup CommandPcs \cup ClosePcs
               \cup {"done", "interrupted"}
RecvPcs == {"wait", "take", "recv", "put", "check", "clear", "done"}
SendPcs == {"wait", "get", "match", "send", "sending", "check", "clear", "done"}

\* Every variable has its type.
TypeOK ==
    /\ connected \in BOOLEAN
    /\ stopPhase \in -1..4
    /\ mpc \in MainPcs
    /\ ret \in {"loop", "accept"}
    /\ clientSocket \in Sockets
    /\ accepted \in Sockets
    /\ points \in 0..MaxPoints
    /\ puts \in Nat
    /\ ackFrom \in Sockets
    /\ rpc \in RecvPcs
    /\ rSocket \in Sockets
    /\ rMsg \in Messages \cup {Nothing}
    /\ recvSocket \in Sockets
    /\ inQueue \in Seq(Messages)
    /\ spc \in SendPcs
    /\ sItem \in Packets \cup {Nothing}
    /\ sSession \in Nat
    /\ sSocket \in Sockets
    /\ sendSession \in Nat \X Sockets
    /\ Out!QueueType
    /\ closed \in SUBSET Conns
    /\ peer \in [Conns -> {"none", "up", "stalled", "gone"}]
    /\ inbox \in [Conns -> Seq(AllMsgKinds)]
    /\ received \in [Conns -> Seq(Packets)]
    /\ torn \in SUBSET Conns

Init ==
    /\ connected = FALSE
    /\ stopPhase \in {IF w THEN 0 ELSE -1 : w \in WithStop}
    /\ mpc = "accept" /\ ret = "accept"
    /\ clientSocket = 0 /\ accepted = 0
    /\ points = 0 /\ puts = 0 /\ ackFrom = 0
    /\ rpc = "wait" /\ rSocket = 0 /\ rMsg = Nothing
    /\ recvSocket = 0 /\ inQueue = <<>>
    /\ spc = "wait" /\ sItem = Nothing /\ sSession = 0 /\ sSocket = 0
    /\ sendSession = <<0, 0>>
    /\ Out!QueueInit
    /\ closed = {}
    /\ peer = [c \in Conns |-> "none"]
    /\ inbox = [c \in Conns |-> <<>>]
    /\ received = [c \in Conns |-> <<>>]
    /\ torn = {}

-----------------------------------------------------------------------------
(* MAIN THREAD: connections *)

\* No step of the main thread touches the workers' locals or a packet in flight.
MainFrame == UNCHANGED <<stopPhase, recvVars, sendVars, deliveryVars>>

Goto(pc) == mpc' = pc

\* _accept_client() returns a connection; it ends when stop() was called.  All the
\* client will send is in its stream from now on: when a message is sent makes no
\* difference before the receive worker reads it.
Accept ==
    /\ mpc = "accept"
    /\ ~Stopping
    /\ accepted < MaxConns
    /\ accepted' = accepted + 1
    /\ clientSocket' = accepted'
    /\ peer' = [peer EXCEPT ![accepted'] = "up"]
    /\ \E stream \in Streams[stopPhase = 0] : inbox' = [inbox EXCEPT ![accepted'] = stream]
    /\ puts' = 0 /\ ackFrom' = 0
    /\ Goto("assign")
    /\ UNCHANGED <<connected, ret, points, recvSocket, sendSession, inQueue, outVars, closed>>
    /\ MainFrame

AcceptStops ==
    /\ mpc = "accept"
    /\ Stopping
    /\ Goto("done")
    /\ UNCHANGED <<connected, ret, points, connVars, historyVars, inQueue, outVars, clientVars>>
    /\ MainFrame

\* settimeout() raises out of _run() on a socket that stop() has closed.
SetTimeoutFails ==
    /\ mpc = "assign"
    /\ clientSocket \in closed
    /\ Goto("interrupted")
    /\ UNCHANGED <<connected, ret, points, connVars, historyVars, inQueue, outVars, clientVars>>
    /\ MainFrame

\* The receive worker's socket, then SendWorker.start_session() in its two
\* steps, and only then the event.
AssignReceiver ==
    /\ mpc = "assign"
    /\ clientSocket \notin closed
    /\ recvSocket' = clientSocket
    /\ Goto("session")
    /\ UNCHANGED <<connected, ret, points, clientSocket, accepted, sendSession, historyVars,
                   inQueue, outVars, clientVars>>
    /\ MainFrame

StartSession ==
    /\ mpc = "session"
    /\ Out!NewSession
    /\ Goto("session_tuple")
    /\ UNCHANGED <<connected, ret, points, connVars, historyVars, inQueue, clientVars>>
    /\ MainFrame

ReplaceSession ==
    /\ mpc = "session_tuple"
    /\ sendSession' = <<outSession, clientSocket>>
    /\ Goto("set_connected")
    /\ UNCHANGED <<connected, ret, points, clientSocket, accepted, recvSocket, historyVars,
                   inQueue, outVars, clientVars>>
    /\ MainFrame

SetConnected ==
    /\ mpc = "set_connected"
    /\ connected' = TRUE
    /\ Goto("greet")
    /\ UNCHANGED <<ret, points, connVars, historyVars, inQueue, outVars, clientVars>>
    /\ MainFrame

\* sock.close(): nothing is read from the socket any more, nor sent on it.
Closing(socket) ==
    /\ closed' = closed \cup ({socket} \ {0})
    /\ inbox' = [c \in Conns |-> IF c = socket THEN <<>> ELSE inbox[c]]
    /\ peer' = [c \in Conns |-> IF c = socket THEN "gone" ELSE peer[c]]

\* _close_client(): the socket (unless logout already closed it), the event, the
\* input queue, which is drained one message at a time, and the output queue.
BeginClose(whereTo) == Goto("close") /\ ret' = whereTo

CloseSocket ==
    /\ mpc = "close"
    /\ Closing(clientSocket)
    /\ clientSocket' = 0
    /\ Goto("close_event")
    /\ UNCHANGED <<connected, ret, points, accepted, recvSocket, sendSession, historyVars,
                   inQueue, outVars>>
    /\ MainFrame

ClearConnected ==
    /\ mpc = "close_event"
    /\ connected' = FALSE
    /\ Goto("close_in")
    /\ UNCHANGED <<ret, points, connVars, historyVars, inQueue, outVars, clientVars>>
    /\ MainFrame

ClearInput ==
    /\ mpc = "close_in"
    /\ IF inQueue = <<>> THEN Goto("close_out") /\ UNCHANGED inQueue
                         ELSE inQueue' = Tail(inQueue) /\ UNCHANGED mpc
    /\ UNCHANGED <<connected, ret, points, connVars, historyVars, outVars, clientVars>>
    /\ MainFrame

ClearOutput ==
    /\ mpc = "close_out"
    /\ Out!ClearItems
    /\ Goto(ret) /\ ret' = "accept"
    /\ UNCHANGED <<connected, points, connVars, historyVars, inQueue, clientVars>>
    /\ MainFrame

-----------------------------------------------------------------------------
(* MAIN THREAD: packets and messages *)

\* Mutant: a disconnection does not release a blocked put().
Undeliverable_WhenStopped == SendStopped

\* Mutant: stop() does not release a blocked put().
Undeliverable_WhenDisconnected == ~connected

\* _is_disconnected(), the discard condition of queue_out
Undeliverable == SendStopped \/ ~connected

\* Mutant: a full queue drops the packet.
PutPacket_Lossy(kind) ==
    /\ puts' = puts + 1
    /\ \/ UNCHANGED outVars
       \/ ~Undeliverable /\ Out!AppendItem([conn |-> accepted, n |-> puts + 1, kind |-> kind])

\* queue_out.put() returns: the packet is in the queue, or dropped because it
\* cannot be delivered.  While neither is possible the main thread is blocked.
PutPacket(kind) ==
    /\ puts' = puts + 1
    /\ \/ Undeliverable /\ UNCHANGED outVars
       \/ ~Undeliverable /\ Out!AppendItem([conn |-> accepted, n |-> puts + 1, kind |-> kind])

\* A step of the main thread that does nothing but a put().
PutThen(here, kind, next) ==
    /\ mpc = here
    /\ PutPacket(kind)
    /\ Goto(next)
    /\ UNCHANGED <<connected, ret, points, connVars, ackFrom, inQueue, clientVars>>
    /\ MainFrame

\* A step of the main thread that only decides where to go on.
Decide(here) ==
    /\ mpc = here
    /\ UNCHANGED <<connected, points, connVars, historyVars, inQueue, outVars, clientVars>>
    /\ MainFrame

\* The condition of both the handshake loop and the main loop.
Serving == ~Stopping /\ connected

\* Mutant: every queued message is taken for one of the client in service.
InService_Any(m) == TRUE

\* The message was read from the socket that is in service.
InService(m) == m.conn = recvSocket

\* ReceiveWorker.get(): a message of a replaced socket is dropped and the get
\* goes on; otherwise Take says what becomes of the message.
GetMessage(here, Take(_)) ==
    /\ mpc = here
    /\ inQueue # <<>>
    /\ inQueue' = Tail(inQueue)
    /\ IF InService(Head(inQueue))
       THEN Take(Head(inQueue))
       ELSE UNCHANGED <<pcVars, ackFrom>>
    /\ UNCHANGED <<connected, connVars, puts, outVars, clientVars>>
    /\ MainFrame

Greet == PutThen("greet", "handshake", "handshake")

\* The handshake loop: its guard, its deadline, and an Empty that returns to it.
HandshakeLoop ==
    /\ Decide("handshake")
    /\ IF Serving THEN Goto("handshake_get") /\ UNCHANGED ret ELSE BeginClose("accept")

\* Mutant: the deadline is only looked at once the client is gone.
HandshakeTimeout_Late == Decide("handshake") /\ ~connected /\ BeginClose("accept")

HandshakeTimeout == Decide("handshake") /\ Serving /\ BeginClose("accept")

HandshakeEmpty ==
    /\ Decide("handshake_get")
    /\ inQueue = <<>>
    /\ Goto("handshake") /\ UNCHANGED ret

CheckAnswer(m) ==
    /\ IF m.kind = "ack" THEN Goto("loop") /\ ackFrom' = m.conn /\ UNCHANGED ret
                         ELSE BeginClose("accept") /\ UNCHANGED ackFrom
    /\ UNCHANGED points

HandshakeAnswer == GetMessage("handshake_get", CheckAnswer)

\* _main_loop(): it is left on logout, disconnection or stop.
MainLoop ==
    /\ Decide("loop")
    /\ IF Serving THEN Goto("get") /\ UNCHANGED ret ELSE BeginClose("accept")

MainEmpty ==
    /\ Decide("get")
    /\ inQueue = <<>>
    /\ Goto("loop") /\ UNCHANGED ret

\* _process_message() up to its first put().  The points of the sweep, or 0 for
\* an experiment without one, are what the message asks for.
Process(m) ==
    /\ IF m.kind = "logout" THEN BeginClose("loop")
       ELSE /\ Goto(CASE m.kind = "apply" -> "apply" [] m.kind = "run" -> "configure"
                      [] OTHER -> "answer")
            /\ UNCHANGED ret
    /\ points' \in IF m.kind = "run" THEN 0..MaxPoints ELSE {0}
    /\ UNCHANGED ackFrom

MainMessage == GetMessage("get", Process)

-----------------------------------------------------------------------------
(* MAIN THREAD: commands *)

\* A single answer: ping, reset_all, mts_sync, set_nyquist, trigger_manually, an
\* unknown command, or the error packet of any of them.
AnswerQuery == PutThen("answer", "answer", "loop")

\* apply_configuration: sweepable parameters are not applied, with a warning.
ApplyConfiguration ==
    \/ PutThen("apply", "error", "loop")
    \/ PutThen("apply", "ok", "loop")
    \/ PutThen("apply", "ok", "apply_warning")
    \/ PutThen("apply_warning", "warning", "loop")

\* config_and_run up to its header: the configuration is refused, or it is
\* accepted and the sweep it asks for is refused, or the run begins.
ConfigureRun ==
    \/ PutThen("configure", "error", "loop")
    \/ PutThen("configure", "ok", "header")
    \/ points > 0 /\ PutThen("configure", "ok", "sweep_error")
    \/ PutThen("sweep_error", "error", "loop")

SendHeader == PutThen("header", "header", IF points > 0 THEN "point" ELSE "experiment")

\* The innermost loop of a sweep: the callbacks of the point, which may fail, and
\* the check of _should_abort_run() before the experiment.
SweepPoint ==
    /\ Decide("point")
    /\ \/ Goto("failed")
       \/ Serving /\ Goto("experiment")
       \/ ~Serving /\ Goto("footer_aborted")
    /\ UNCHANGED ret

\* FIREQSystemNode.run_experiment() puts the payloads of the experiment (one
\* packet stands for all of them) and may fail before or after it did.
RunExperiment ==
    \/ PutThen("experiment", "data", "iteration")
    \/ (Decide("experiment") \/ Decide("iteration")) /\ Goto("failed") /\ UNCHANGED ret

\* Mutant: only the iterations of a sweep are announced.
EndIteration_OnlySweeps ==
    /\ mpc = "iteration"
    /\ IF points > 0 THEN PutPacket("iteration_ended") ELSE UNCHANGED <<puts, outVars>>
    /\ Goto(IF points > 1 THEN "point" ELSE "footer")
    /\ points' = IF points > 1 THEN points - 1 ELSE 0
    /\ UNCHANGED <<connected, ret, connVars, ackFrom, inQueue, clientVars>>
    /\ MainFrame

EndIteration ==
    /\ mpc = "iteration"
    /\ PutPacket("iteration_ended")
    /\ Goto(IF points > 1 THEN "point" ELSE "footer")
    /\ points' = IF points > 1 THEN points - 1 ELSE 0
    /\ UNCHANGED <<connected, ret, connVars, ackFrom, inQueue, clientVars>>
    /\ MainFrame

\* Mutant: a failed run has no footer.
EndRun_ErrorLast ==
    \/ PutThen("failed", "error", "loop")
    \/ PutThen("footer", "footer", "loop")
    \/ PutThen("footer_aborted", "aborted", "loop")

EndRun ==
    \/ PutThen("failed", "error", "footer_aborted")
    \/ PutThen("footer", "footer", "loop")
    \/ PutThen("footer_aborted", "aborted", "loop")

Main ==
    \/ Accept \/ AcceptStops \/ SetTimeoutFails
    \/ AssignReceiver \/ StartSession \/ ReplaceSession \/ SetConnected
    \/ Greet \/ HandshakeLoop \/ HandshakeTimeout \/ HandshakeEmpty \/ HandshakeAnswer
    \/ MainLoop \/ MainEmpty \/ MainMessage
    \/ AnswerQuery \/ ApplyConfiguration \/ ConfigureRun \/ SendHeader
    \/ SweepPoint \/ RunExperiment \/ EndIteration \/ EndRun
    \/ CloseSocket \/ ClearConnected \/ ClearInput \/ ClearOutput

-----------------------------------------------------------------------------
(* RECEIVE WORKER *)

RecvFrame ==
    UNCHANGED <<stopPhase, pcVars, connVars, historyVars, sendVars, outVars,
                closed, peer, deliveryVars>>

\* The worker goes on, keeping its socket and message, or back to the head of its
\* loop, where neither matters any more.
RecvGoto(from, to) == rpc = from /\ rpc' = to /\ UNCHANGED <<rSocket, rMsg>>
RecvAgain(from) == rpc = from /\ rpc' = "wait" /\ rSocket' = 0 /\ rMsg' = Nothing

\* The head of the loop: stop, or go on once a client is connected.
RecvLoop ==
    /\ \/ RecvStopped /\ RecvGoto("wait", "done")
       \/ ~RecvStopped /\ connected /\ RecvGoto("wait", "take")
    /\ UNCHANGED <<connected, inQueue, inbox>>
    /\ RecvFrame

TakeSocket ==
    /\ rpc = "take" /\ rpc' = "recv"
    /\ rSocket' = recvSocket
    /\ UNCHANGED <<connected, rMsg, inQueue, inbox>>
    /\ RecvFrame

\* _receive_message() reads a whole packet.  After an invalid header the stream
\* stays aligned; after an oversized length the client must be dropped.
ReceiveMessage ==
    /\ rpc = "recv"
    /\ rSocket \notin closed
    /\ inbox[rSocket] # <<>>
    /\ inbox' = [inbox EXCEPT ![rSocket] = Tail(@)]
    /\ LET kind == Head(inbox[rSocket])
       IN  CASE kind = "garbage" -> RecvAgain("recv")
             [] kind = "oversize" -> RecvGoto("recv", "check")
             [] OTHER -> /\ rpc' = "put"
                         /\ rMsg' = [conn |-> rSocket, kind |-> kind]
                         /\ UNCHANGED rSocket
    /\ UNCHANGED <<connected, inQueue>>
    /\ RecvFrame

\* recv() fails or returns nothing, possibly with messages unread; or it times
\* out and the socket is no longer the one to serve.
ReceiveFails ==
    /\ RecvGoto("recv", "check")
    /\ \/ rSocket \in closed
       \/ peer[rSocket] = "gone"
       \/ rSocket # recvSocket
       \/ ~connected
    /\ UNCHANGED <<connected, inQueue, inbox>>
    /\ RecvFrame

\* IncompleteTransferError: the worker is being stopped.
ReceiveStopped ==
    /\ RecvStopped
    /\ RecvAgain("recv")
    /\ UNCHANGED <<connected, inQueue, inbox>>
    /\ RecvFrame

\* queue_in.put(), without a timeout
PutMessage ==
    /\ RecvAgain("put")
    /\ Len(inQueue) < InCapacity
    /\ inQueue' = Append(inQueue, rMsg)
    /\ UNCHANGED <<connected, inbox>>
    /\ RecvFrame

\* The error is that of the socket in service, or it is ignored.
RecvCheckSocket ==
    /\ IF rSocket = recvSocket THEN RecvGoto("check", "clear") ELSE RecvAgain("check")
    /\ UNCHANGED <<connected, inQueue, inbox>>
    /\ RecvFrame

RecvClearConnected ==
    /\ RecvAgain("clear")
    /\ connected' = FALSE
    /\ UNCHANGED <<inQueue, inbox>>
    /\ RecvFrame

Recv ==
    \/ RecvLoop \/ TakeSocket \/ ReceiveMessage \/ ReceiveFails \/ ReceiveStopped
    \/ PutMessage \/ RecvCheckSocket \/ RecvClearConnected

-----------------------------------------------------------------------------
(* SEND WORKER *)

SendFrame ==
    UNCHANGED <<stopPhase, pcVars, connVars, historyVars, recvVars, inQueue, clientVars>>

\* As for the receive worker: go on with the item, or go back to the loop.
SendGoto(from, to) == spc \in from /\ spc' = to /\ UNCHANGED <<sItem, sSession, sSocket>>
SendAgain(from) ==
    spc \in from /\ spc' = "wait" /\ sItem' = Nothing /\ sSession' = 0 /\ sSocket' = 0

SendLoop ==
    /\ \/ SendStopped /\ SendGoto({"wait"}, "done")
       \/ ~SendStopped /\ connected /\ SendGoto({"wait"}, "get")
    /\ UNCHANGED <<connected, outVars, deliveryVars>>
    /\ SendFrame

\* get_with_session() pops a packet, or raises Empty after its timeout.
GetPacket ==
    /\ spc = "get"
    /\ \/ /\ Out!PopItem
          /\ spc' = "match"
          /\ sItem' = Head(outQueue).item
          /\ sSession' = Head(outQueue).session
          /\ UNCHANGED sSocket
       \/ /\ outQueue = <<>>
          /\ SendAgain({"get"})
          /\ UNCHANGED outVars
    /\ UNCHANGED <<connected, deliveryVars>>
    /\ SendFrame

\* Mutant: the packet is sent whatever session it was put in.
MatchSession_Any ==
    /\ spc = "match" /\ spc' = "send"
    /\ sSocket' = sendSession[2]
    /\ UNCHANGED <<sItem, sSession, connected, outVars, deliveryVars>>
    /\ SendFrame

\* The session is read after the get; a packet of another session is dropped.
MatchSession ==
    /\ spc = "match"
    /\ IF sSession = sendSession[1]
       THEN spc' = "send" /\ sSocket' = sendSession[2] /\ UNCHANGED <<sItem, sSession>>
       ELSE SendAgain({"match"})
    /\ UNCHANGED <<connected, outVars, deliveryVars>>
    /\ SendFrame

\* sendmsg() takes the rest of the packet.  What is sent to a client that has
\* gone is accepted by the system and lost.
SendWhole ==
    /\ SendAgain({"send", "sending"})
    /\ sSocket \notin closed
    /\ \/ peer[sSocket] = "up" /\ received' = [received EXCEPT ![sSocket] = Append(@, sItem)]
       \/ peer[sSocket] = "gone" /\ UNCHANGED received
    /\ UNCHANGED <<connected, outVars, torn>>
    /\ SendFrame

\* sendmsg() takes a part of the packet.
SendPart ==
    /\ SendGoto({"send"}, "sending")
    /\ sSocket \notin closed
    /\ peer[sSocket] # "gone"
    /\ UNCHANGED <<connected, outVars, deliveryVars>>
    /\ SendFrame

\* The packet is given up; torn is what the client then has of it.
GiveUp ==
    /\ torn' = IF spc = "sending" THEN torn \cup {sSocket} ELSE torn
    /\ UNCHANGED <<connected, outVars, received>>
    /\ SendFrame

\* Mutant: a packet whose sendmsg() times out is given up for the next one.
SendFails_NextPacket == SendAgain({"send", "sending"}) /\ GiveUp

\* sendmsg() fails, or it times out and the socket is no longer the one to serve.
SendFails ==
    /\ SendGoto({"send", "sending"}, "check")
    /\ \/ sSocket \in closed
       \/ peer[sSocket] = "gone"
       \/ sSocket # sendSession[2]
       \/ ~connected
    /\ GiveUp

\* _sendmsg_all() returns in the middle of a packet when the worker is stopped.
SendAbandoned ==
    /\ SendStopped
    /\ SendAgain({"send", "sending"})
    /\ GiveUp

\* The error is that of the session in service, or it is ignored.
SendCheckSession ==
    /\ IF sSession = sendSession[1] THEN SendGoto({"check"}, "clear") ELSE SendAgain({"check"})
    /\ UNCHANGED <<connected, outVars, deliveryVars>>
    /\ SendFrame

SendClearConnected ==
    /\ SendAgain({"clear"})
    /\ connected' = FALSE
    /\ UNCHANGED <<outVars, deliveryVars>>
    /\ SendFrame

Send ==
    \/ SendLoop \/ GetPacket \/ MatchSession \/ SendWhole \/ SendPart \/ SendFails
    \/ SendAbandoned \/ SendCheckSession \/ SendClearConnected

-----------------------------------------------------------------------------
(* STOP AND CLIENTS *)

OutsideFrame ==
    UNCHANGED <<connected, ret, points, connVars, historyVars, recvVars, inQueue, sendVars,
                outVars, deliveryVars>>

\* stop() is called by another thread, or by start_server.main() after a
\* KeyboardInterrupt took the main thread out of _run() wherever it was.
CallStop ==
    /\ stopPhase = 0
    /\ stopPhase' = 1
    /\ UNCHANGED mpc \/ Goto("interrupted")
    /\ UNCHANGED clientVars
    /\ OutsideFrame

StopClosesSockets ==
    /\ stopPhase = 1
    /\ stopPhase' = 2
    /\ Closing(clientSocket)
    /\ UNCHANGED mpc
    /\ OutsideFrame

\* ReceiveWorker.stop() then SendWorker.stop(): a join may time out.
StopWorkers ==
    /\ stopPhase \in {2, 3}
    /\ stopPhase' = stopPhase + 1
    /\ UNCHANGED <<mpc, clientVars>>
    /\ OutsideFrame

Stop == CallStop \/ StopClosesSockets \/ StopWorkers

\* A client stops reading, reads again, or goes (closes, resets, dies).
Client ==
    /\ \E c \in Conns :
        \/ MayStall /\ peer[c] = "up" /\ peer' = [peer EXCEPT ![c] = "stalled"]
        \/ peer[c] = "stalled" /\ peer' = [peer EXCEPT ![c] = "up"]
        \/ peer[c] \in {"up", "stalled"} /\ peer' = [peer EXCEPT ![c] = "gone"]
    /\ UNCHANGED <<stopPhase, mpc, closed, inbox>>
    /\ OutsideFrame

Next == Main \/ Recv \/ Send \/ Stop \/ Client

\* The three threads run, stop() goes on once called, the handshake's deadline
\* passes and the hardware ends its experiments.  Clients owe nothing.
Fairness ==
    /\ WF_vars(Main)
    /\ SF_vars(HandshakeTimeout)
    /\ WF_vars(Recv)
    /\ WF_vars(Send)
    /\ WF_vars(StopClosesSockets \/ StopWorkers)

SafeSpec == Init /\ [][Next]_vars
Spec == SafeSpec /\ Fairness

-----------------------------------------------------------------------------
(* PROPERTIES *)

\* No packet, and no part of one, reaches another client than the one it was
\* produced for, however the threads interleave while one client replaces
\* another (the session tags of queue_out and the tuple SendWorker._session).
NoCrossTalk ==
    /\ \A c \in Conns : \A i \in 1..Len(received[c]) : received[c][i].conn = c
    /\ spc \in {"send", "sending"} => sItem.conn = sSocket

\* A client receives what was produced for it in order and without a gap: the
\* packets that put() drops, that clear() removes and that a worker discards are
\* always the last ones of their connection.
NoGap == \A c \in Conns : \A i \in 1..Len(received[c]) : received[c][i].n = i

\* A command is executed for a client only if it sent the command itself and had
\* answered the handshake itself: neither a command nor an answer left over from
\* a previous client counts (ReceiveWorker.get() and _perform_handshake()).
OwnCommands ==
    [][mpc = "get" /\ mpc' \notin {"get", "loop", "interrupted"} =>
           Head(inQueue).conn = accepted /\ ackFrom = accepted]_vars

\* A packet that was begun and not finished is the last thing on its connection,
\* so the client never takes the bytes of a packet for those of another.
NothingAfterTorn == [][\A c \in torn : received'[c] = received[c]]_vars

\* What the comments at receive_worker.py:103 and send_worker.py:110 promise: an
\* error on a socket that has been replaced does not disconnect the new client,
\* whose event is then set.
StaleErrorIgnored ==
    [][/\ connected /\ RecvClearConnected => rSocket = recvSocket
       /\ connected /\ SendClearConnected => sSession = sendSession[1]]_vars

KindsOf(packets) == [i \in DOMAIN packets |-> packets[i].kind]

\* What the clients see is a behaviour of the documented protocol.
Protocol == INSTANCE ExperimentProtocol
                WITH transcript <- [c \in Conns |-> KindsOf(received[c])], ended <- closed
FollowsProtocol == Protocol!Spec

\* A client that is gone is left: the server closes its socket, whatever it was
\* doing for it (a run, a put() into a full queue, a handshake).
LeavesDeadClient ==
    \A c \in Conns : peer[c] = "gone" ~> c \in closed \/ mpc = "interrupted"

\* A run whose header was received comes to its footer, unless the client stops
\* reading or the connection ends.
RunCompletes ==
    \A c \in Conns :
        Protocol!Phase(KindsOf(received[c])) \in Protocol!RunPhases
            ~> \/ Protocol!Phase(KindsOf(received[c])) \notin Protocol!RunPhases
               \/ peer[c] # "up"
               \/ c \in closed

\* A client that connects is either authenticated or closed.
HandshakeEnds ==
    \A c \in Conns : accepted = c ~> (accepted = c /\ ackFrom = c) \/ c \in closed \/ mpc = "interrupted"

\* stop() ends every thread, also one that is blocked on a full queue; a receive
\* worker may stay behind only when the main thread was interrupted and nobody
\* drains its queue any more.
StopEndsThreads ==
    Stopping ~> spc = "done" /\ (mpc = "interrupted" \/ (mpc = "done" /\ rpc = "done"))
=============================================================================
