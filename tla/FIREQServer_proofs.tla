------------------------- MODULE FIREQServer_proofs -------------------------
(***************************************************************************)
(* For any number of connections, any streams, any capacity of the two       *)
(* queues and any sizes of the packets: clients are kept apart, each receives *)
(* what was produced for it in order, commands are those of the client, and   *)
(* the server follows the protocol that ExperimentProtocol states.            *)
(***************************************************************************)
EXTENDS FIREQServer, SequenceTheorems, WellFoundedInduction, TLAPS

\* What is proved of the queue holds of queue_out.
OutP == INSTANCE MemoryBoundedQueue_proofs
            WITH Items <- Packets, Size <- [p \in Packets |-> BytesOf[p.kind]],
                 queue <- outQueue, currentBytes <- outBytes, session <- outSession,
                 closed <- FALSE

\* The assumptions of the queue hold of the packets and their sizes.
LEMMA OutAssumptions == OutP!SizeAssumption /\ OutP!MaxBytesAssumption
BY ServerAssumption DEF Packets, PacketKinds, OutP!SizeAssumption, OutP!MaxBytesAssumption

-----------------------------------------------------------------------------
(* The type invariant, by thread.                                           *)

FlagType == connected \in BOOLEAN

MainType ==
    /\ stopPhase \in -1..4
    /\ mpc \in MainPcs
    /\ ret \in {"loop", "accept"}
    /\ clientSocket \in Sockets
    /\ accepted \in Sockets
    /\ points \in 0..MaxPoints
    /\ puts \in Nat
    /\ ackFrom \in Sockets
    /\ recvSocket \in Sockets
    /\ sendSession \in Nat \X Sockets

RecvType ==
    /\ rpc \in RecvPcs
    /\ rSocket \in Sockets
    /\ rMsg \in Messages \cup {Nothing}
    /\ inQueue \in Seq(Messages)

SendType ==
    /\ spc \in SendPcs
    /\ sItem \in Packets \cup {Nothing}
    /\ sSession \in Nat
    /\ sSocket \in Sockets

ClientType ==
    /\ closed \in SUBSET Conns
    /\ peer \in [Conns -> {"none", "up", "stalled", "gone"}]
    /\ inbox \in [Conns -> Seq(AllMsgKinds)]
    /\ received \in [Conns -> Seq(Packets)]
    /\ torn \in SUBSET Conns

\* A receive worker that reads has a socket to read from, and a message to put.
RecvBusy ==
    /\ connected \/ rpc = "take" \/ mpc \in {"session", "session_tuple", "set_connected"}
          => recvSocket # 0
    /\ rpc \in {"recv", "check", "clear"} => rSocket # 0
    /\ rpc = "put" => rMsg \in Messages

\* Sessions are numbered like connections: start_session() is called once for
\* each of them, before anything is put for it.
SessionsCounted ==
    /\ mpc \notin {"accept", "done", "interrupted"} => accepted # 0
    /\ mpc \in {"assign", "session"} => outSession + 1 = accepted
    /\ mpc \notin {"assign", "session", "interrupted"} => outSession = accepted
    /\ mpc \in {"assign", "session", "session_tuple"} => clientSocket = accepted
    /\ outSession <= accepted

\* So a session has one socket, and the session of a packet is its connection,
\* in the queue and in the hands of the send worker.
OneSocket == sendSession[1] = sendSession[2]

Tagged ==
    /\ \A i \in 1..Len(outQueue) : outQueue[i].item.conn = outQueue[i].session
    /\ sItem.conn = sSession
    /\ spc \in {"match", "send", "sending"} => sItem \in Packets
    /\ spc \in {"send", "sending"} => sSocket = sSession

\* What a client has received was produced for it.
Delivered == \A c \in Conns : \A i \in 1..Len(received[c]) : received[c][i].conn = c

TypeInv ==
    /\ FlagType /\ MainType /\ RecvType /\ SendType /\ ClientType
    /\ OutP!QueueInv /\ RecvBusy

Inv == TypeInv /\ SessionsCounted /\ OneSocket /\ Tagged /\ Delivered


\* The invariant is strong enough.
LEMMA InvImplies == Inv => TypeOK /\ NoCrossTalk
<1> SUFFICES ASSUME Inv PROVE TypeOK /\ NoCrossTalk
    OBVIOUS
<1>1. Out!QueueType
    BY DEF Inv, TypeInv, OutP!QueueInv, OutP!QueueType, OutP!Entries, Out!QueueType, Out!Entries
<1>2. TypeOK
    BY <1>1 DEF Inv, TypeInv, FlagType, MainType, RecvType, SendType, ClientType, TypeOK
<1>3. NoCrossTalk
    BY DEF Inv, Tagged, Delivered, NoCrossTalk
<1> QED
    BY <1>2, <1>3

\* __init__() and start(): no client, empty queues, idle workers.
LEMMA StartInv == Init => Inv
<1> SUFFICES ASSUME Init PROVE Inv
    OBVIOUS
<1>1. FlagType
    BY Zenon DEF Init, FlagType
<1>2. OutP!QueueInv
    BY OutAssumptions, OutP!InitInv DEF Init, Out!QueueInit, OutP!QueueInit
<1>3. MainType /\ RecvType /\ SendType /\ ClientType
    BY ServerAssumption DEF Init, MainType, RecvType, SendType, ClientType, Sockets, Conns,
        MainPcs, AcceptPcs, RecvPcs, SendPcs
<1>4. RecvBusy
    <2>1. ~connected
        BY Zenon DEF Init
    <2> QED
        BY <2>1 DEF Init, RecvBusy
<1>5. SessionsCounted /\ OneSocket /\ Tagged /\ Delivered
    BY DEF Init, SessionsCounted, OneSocket, Tagged, Delivered, Out!QueueInit, Nothing
<1> QED
    BY <1>1, <1>2, <1>3, <1>4, <1>5 DEF Inv, TypeInv

-----------------------------------------------------------------------------
(* What the steps of a thread leave alone and what they do to the queues.   *)

\* The main thread never writes the locals of a worker, and only takes messages.
LEMMA MainEffects ==
    ASSUME Main, inQueue \in Seq(Messages)
    PROVE  MainFrame /\ inQueue' \in Seq(Messages)
BY DEF Main, Accept, AcceptStops, SetTimeoutFails, AssignReceiver, StartSession, ReplaceSession,
       SetConnected, Greet, HandshakeLoop, HandshakeTimeout, HandshakeEmpty, HandshakeAnswer,
       MainLoop, MainEmpty, MainMessage, AnswerQuery, ApplyConfiguration, ConfigureRun, SendHeader,
       SweepPoint, RunExperiment, EndIteration, EndRun, CloseSocket, ClearConnected, ClearInput,
       ClearOutput, PutThen, Decide, GetMessage

\* The states of the main thread in which it puts a packet.
PutPcs == CommandPcs \cup {"greet"}

\* What the main thread does to queue_out.
OutEffect ==
    \/ UNCHANGED outVars
    \/ mpc = "session" /\ Out!NewSession
    \/ Out!ClearItems
    \/ /\ mpc \in PutPcs
       /\ \E kind \in PacketKinds :
              Out!AppendItem([conn |-> accepted, n |-> puts + 1, kind |-> kind])

\* A put() appends the packet or drops it.
LEMMA PutEffect ==
    ASSUME NEW kind \in PacketKinds, PutPacket(kind), mpc \in PutPcs
    PROVE  OutEffect
BY DEF PutPacket, OutEffect

\* Every step of the main thread has one of these effects.
LEMMA MainOutEffect == Main => OutEffect
<1> SUFFICES ASSUME Main PROVE OutEffect
    OBVIOUS
<1>1. ASSUME NEW here \in PutPcs, NEW kind \in PacketKinds, NEW next, PutThen(here, kind, next)
      PROVE  OutEffect
    BY <1>1, PutEffect DEF PutThen
<1>2. CASE Greet \/ AnswerQuery \/ ApplyConfiguration \/ ConfigureRun \/ SendHeader \/ EndRun
    BY <1>1, <1>2 DEF Greet, AnswerQuery, ApplyConfiguration, ConfigureRun, SendHeader, EndRun,
           PacketKinds, PutPcs, CommandPcs
<1>3. CASE RunExperiment \/ EndIteration
    BY <1>1, <1>3, PutEffect DEF RunExperiment, EndIteration, Decide, OutEffect,
           PacketKinds, PutPcs, CommandPcs
<1>4. CASE StartSession \/ ClearOutput
    BY <1>4 DEF StartSession, ClearOutput, OutEffect
<1>5. CASE HandshakeAnswer \/ MainMessage
    BY <1>5 DEF HandshakeAnswer, MainMessage, GetMessage, OutEffect
<1>6. CASE \/ Accept \/ AcceptStops \/ SetTimeoutFails \/ AssignReceiver \/ ReplaceSession
           \/ SetConnected \/ CloseSocket \/ ClearConnected \/ ClearInput
    BY <1>6 DEF Accept, AcceptStops, SetTimeoutFails, AssignReceiver, ReplaceSession,
           SetConnected, CloseSocket, ClearConnected, ClearInput, OutEffect
<1>7. CASE \/ HandshakeLoop \/ HandshakeTimeout \/ HandshakeEmpty \/ MainLoop \/ MainEmpty
           \/ SweepPoint
    BY <1>7 DEF HandshakeLoop, HandshakeTimeout, HandshakeEmpty, MainLoop, MainEmpty, SweepPoint,
           Decide, OutEffect
<1> QED
    BY <1>2, <1>3, <1>4, <1>5, <1>6, <1>7 DEF Main

\* The receive worker writes its locals, the event, queue_in and the streams.
LEMMA RecvEffects == Recv => RecvFrame
BY DEF Recv, RecvLoop, TakeSocket, ReceiveMessage, ReceiveFails, ReceiveStopped, PutMessage,
       RecvCheckSocket, RecvClearConnected

\* The send worker writes its locals, the event, queue_out and what is received.
LEMMA SendEffects == Send => SendFrame
BY DEF Send, SendLoop, GetPacket, MatchSession, SendWhole, SendPart, SendFails, SendAbandoned,
       SendCheckSession, SendClearConnected, GiveUp

\* stop() and the clients write neither queues nor locals.
LEMMA OutsideEffects == Stop \/ Client => OutsideFrame
BY DEF Stop, CallStop, StopClosesSockets, StopWorkers, Client

-----------------------------------------------------------------------------
(* Every part of the invariant is preserved.                                *)

\* queue_out keeps its account, its bound and its sessions.
LEMMA QueueStep == ASSUME Inv, Next PROVE OutP!QueueInv'
<1>1. ASSUME UNCHANGED outVars PROVE OutP!QueueInv'
    BY Zenon, <1>1, OutAssumptions, OutP!SameInv DEF Inv, TypeInv, outVars
<1>2. CASE Main
    <2>1. ASSUME NEW kind \in PacketKinds, mpc \in PutPcs,
                 Out!AppendItem([conn |-> accepted, n |-> puts + 1, kind |-> kind])
          PROVE  OutP!QueueInv'
        <3> DEFINE item == [conn |-> accepted, n |-> puts + 1, kind |-> kind]
        <3>1. accepted \in Conns
            BY <2>1, ServerAssumption DEF Inv, TypeInv, MainType, SessionsCounted, PutPcs, CommandPcs, Conns, Sockets
        <3>2. item \in Packets
            BY <3>1 DEF Inv, TypeInv, MainType, Packets
        <3>3. OutP!AppendItem(item)
            BY <2>1 DEF Out!AppendItem, Out!Fits, OutP!AppendItem, OutP!Fits
        <3> QED
            BY <3>2, <3>3, OutAssumptions, OutP!AppendInv DEF Inv, TypeInv
    <2>2. CASE Out!NewSession \/ Out!ClearItems
        BY <2>2, OutAssumptions, OutP!EmptiedInv
           DEF Inv, TypeInv, Out!NewSession, Out!ClearItems, OutP!NewSession, OutP!ClearItems
    <2> QED
        BY <1>1, <1>2, <2>1, <2>2, MainOutEffect DEF OutEffect
<1>3. CASE Recv
    BY <1>1, <1>3, RecvEffects DEF RecvFrame
<1>4. CASE Stop \/ Client
    BY <1>1, <1>4, OutsideEffects DEF OutsideFrame
<1>5. CASE Send
    <2>1. CASE Out!PopItem
        BY <2>1, OutAssumptions, OutP!PopInv DEF Inv, TypeInv, Out!PopItem, OutP!PopItem
    <2>2. UNCHANGED outVars \/ Out!PopItem
        BY <1>5 DEF Send, SendLoop, GetPacket, MatchSession, SendWhole, SendPart, SendFails,
               SendAbandoned, SendCheckSession, SendClearConnected, GiveUp
    <2> QED
        BY <1>1, <2>1, <2>2
<1> QED
    BY <1>2, <1>3, <1>4, <1>5 DEF Next


\* The event stays a Boolean.
LEMMA FlagStep == ASSUME Inv, Next PROVE FlagType'
<1>0. FlagType
    BY DEF Inv, TypeInv
<1>1. ASSUME connected' = connected \/ connected' = TRUE \/ connected' = FALSE PROVE FlagType'
    BY Zenon, <1>0, <1>1 DEF FlagType
<1>2. CASE Main
    BY <1>1, <1>2
       DEF Main, Accept, AcceptStops, SetTimeoutFails, AssignReceiver, StartSession, ReplaceSession,
           SetConnected, Greet, HandshakeLoop, HandshakeTimeout, HandshakeEmpty, HandshakeAnswer,
           MainLoop, MainEmpty, MainMessage, AnswerQuery, ApplyConfiguration, ConfigureRun,
           SendHeader, SweepPoint, RunExperiment, EndIteration, EndRun, CloseSocket,
           ClearConnected, ClearInput, ClearOutput, PutThen, Decide, GetMessage
<1>3. CASE Recv
    BY <1>1, <1>3 DEF Recv, RecvLoop, TakeSocket, ReceiveMessage, ReceiveFails, ReceiveStopped,
           PutMessage, RecvCheckSocket, RecvClearConnected
<1>4. CASE Send
    BY <1>1, <1>4 DEF Send, SendLoop, GetPacket, MatchSession, SendWhole, SendPart, SendFails,
           SendAbandoned, SendCheckSession, SendClearConnected, GiveUp
<1>5. CASE Stop \/ Client
    BY <1>1, <1>5, OutsideEffects DEF OutsideFrame
<1> QED
    BY <1>2, <1>3, <1>4, <1>5 DEF Next

\* The main thread, the sockets and the tuple SendWorker._session keep their types.
LEMMA MainTypeStep == ASSUME Inv, Next PROVE MainType'
<1> USE ServerAssumption DEF Inv, TypeInv, MainType
<1>1. CASE Accept
    BY <1>1 DEF Accept, MainFrame, Goto, MainPcs, AcceptPcs, Conns, Sockets
<1>2. CASE AcceptStops \/ SetTimeoutFails
    BY <1>2 DEF AcceptStops, SetTimeoutFails, MainFrame, Goto, connVars, historyVars, MainPcs
<1>3. CASE AssignReceiver
    BY <1>3 DEF AssignReceiver, MainFrame, Goto, historyVars, MainPcs, AcceptPcs
<1>4. CASE StartSession
    BY <1>4 DEF StartSession, MainFrame, Goto, connVars, historyVars, MainPcs, AcceptPcs
<1>5. CASE ReplaceSession
    BY <1>5 DEF ReplaceSession, MainFrame, Goto, historyVars, MainPcs, AcceptPcs,
           OutP!QueueInv, OutP!QueueType
<1>6. CASE SetConnected
    BY <1>6 DEF SetConnected, MainFrame, Goto, connVars, historyVars, MainPcs, HandshakePcs
<1>7. CASE CloseSocket
    BY <1>7 DEF CloseSocket, MainFrame, Goto, historyVars, MainPcs, ClosePcs, Sockets
<1>8. CASE ClearConnected \/ ClearInput
    BY <1>8 DEF ClearConnected, ClearInput, MainFrame, Goto, connVars, historyVars, MainPcs, ClosePcs
<1>9. CASE ClearOutput
    BY <1>9 DEF ClearOutput, MainFrame, Goto, connVars, historyVars, MainPcs, AcceptPcs
<1>10. ASSUME NEW here, NEW kind, NEW next \in MainPcs, PutThen(here, kind, next)
      PROVE  MainType'
    BY <1>10 DEF PutThen, PutPacket, MainFrame, Goto, connVars
<1>11. CASE \/ Greet \/ AnswerQuery \/ ApplyConfiguration \/ ConfigureRun \/ SendHeader \/ EndRun
    <2> HIDE DEF MainType, Inv
    <2> QED
      BY <1>10, <1>11 DEF Greet, AnswerQuery, ApplyConfiguration, ConfigureRun, SendHeader, EndRun,
           MainPcs, HandshakePcs, CommandPcs
<1>12. ASSUME NEW here, Decide(here), mpc' \in MainPcs, ret' \in {"loop", "accept"}
      PROVE  MainType'
    BY <1>12 DEF Decide, MainFrame, connVars, historyVars
<1>13. CASE HandshakeLoop \/ HandshakeTimeout \/ HandshakeEmpty \/ MainLoop \/ MainEmpty \/ SweepPoint
    BY <1>12, <1>13 DEF HandshakeLoop, HandshakeTimeout, HandshakeEmpty, MainLoop, MainEmpty,
           SweepPoint, BeginClose, Goto, MainPcs, HandshakePcs, CommandPcs, ClosePcs
<1>14. CASE RunExperiment
    BY <1>10, <1>12, <1>14 DEF RunExperiment, Goto, MainPcs, CommandPcs
<1>15. CASE EndIteration
    BY <1>15 DEF EndIteration, PutPacket, MainFrame, Goto, connVars, MainPcs, CommandPcs
<1>16. CASE HandshakeAnswer
    <2>1. Head(inQueue) \in Messages
        BY <1>16 DEF HandshakeAnswer, GetMessage, RecvType
    <2>2. Head(inQueue).conn \in Sockets
        BY <2>1 DEF Messages, Conns, Sockets
    <2> QED
        BY <1>16, <2>2 DEF HandshakeAnswer, GetMessage, CheckAnswer, MainFrame, BeginClose, Goto,
           pcVars, connVars, MainPcs, ClosePcs
<1>17. CASE MainMessage
    BY <1>17 DEF MainMessage, GetMessage, Process, MainFrame, BeginClose, Goto, pcVars,
           connVars, MainPcs, CommandPcs, ClosePcs
<1>18. CASE Recv
    BY <1>18, RecvEffects DEF RecvFrame, pcVars, connVars, historyVars
<1>19. CASE Send
    BY <1>19, SendEffects DEF SendFrame, pcVars, connVars, historyVars
<1>20. CASE Stop \/ Client
    BY <1>20 DEF Stop, CallStop, StopClosesSockets, StopWorkers, Client, OutsideFrame, Goto,
           connVars, historyVars, MainPcs
<1> QED
    BY <1>1, <1>2, <1>3, <1>4, <1>5, <1>6, <1>7, <1>8, <1>9, <1>11, <1>13, <1>14, <1>15, <1>16, <1>17, <1>18, <1>19, <1>20
       DEF Next, Main

\* The receive worker and queue_in keep their types.
LEMMA RecvTypeStep == ASSUME Inv, Next PROVE RecvType'
<1> USE DEF Inv, TypeInv, RecvType
<1>1. CASE Main
    BY <1>1, MainEffects DEF MainFrame, recvVars
<1>2. CASE Recv
    <2> USE ServerAssumption DEF RecvGoto, RecvAgain, RecvFrame, RecvPcs
    <2>1. CASE RecvLoop \/ ReceiveFails \/ ReceiveStopped \/ RecvCheckSocket \/ RecvClearConnected
        BY <2>1 DEF RecvLoop, ReceiveFails, ReceiveStopped, RecvCheckSocket, RecvClearConnected, Sockets
    <2>2. CASE TakeSocket
        BY <2>2 DEF TakeSocket, MainType
    <2>3. CASE ReceiveMessage
        <3>1. rSocket \in Conns /\ inbox[rSocket] \in Seq(AllMsgKinds)
            BY <2>3 DEF ReceiveMessage, RecvBusy, ClientType, Conns, Sockets
        <3> QED
            BY <2>3, <3>1 DEF ReceiveMessage, Messages, Sockets
    <2>4. CASE PutMessage
        BY <2>4 DEF PutMessage, RecvBusy, Sockets
    <2> QED
        BY <1>2, <2>1, <2>2, <2>3, <2>4 DEF Recv
<1>3. CASE Send
    BY <1>3, SendEffects DEF SendFrame, recvVars
<1>4. CASE Stop \/ Client
    BY <1>4, OutsideEffects DEF OutsideFrame, recvVars
<1> QED
    BY <1>1, <1>2, <1>3, <1>4 DEF Next

\* The send worker keeps its types.
LEMMA SendTypeStep == ASSUME Inv, Next PROVE SendType'
<1> USE DEF Inv, TypeInv, SendType
<1>1. CASE Main
    BY <1>1, MainEffects DEF RecvType, MainFrame, sendVars
<1>2. CASE Recv
    BY <1>2, RecvEffects DEF RecvFrame, sendVars
<1>3. CASE Send
    <2> USE ServerAssumption DEF SendGoto, SendAgain, SendPcs, Sockets
    <2>1. CASE GetPacket
        <3>1. outQueue # <<>> => Head(outQueue) \in OutP!Entries
            BY DEF OutP!QueueInv, OutP!QueueType
        <3> QED
            BY <2>1, <3>1 DEF GetPacket, Out!PopItem, OutP!Entries
    <2>2. CASE MatchSession
        BY <2>2 DEF MatchSession, MainType
    <2>3. CASE SendLoop \/ SendPart \/ SendFails
        BY <2>3 DEF SendLoop, SendPart, SendFails
    <2>4. CASE SendWhole \/ SendAbandoned \/ SendClearConnected
        BY <2>4 DEF SendWhole, SendAbandoned, SendClearConnected
    <2>5. CASE SendCheckSession
        BY <2>5 DEF SendCheckSession
    <2> QED
        BY <1>3, <2>1, <2>2, <2>3, <2>4, <2>5 DEF Send
<1>4. CASE Stop \/ Client
    BY <1>4, OutsideEffects DEF OutsideFrame, sendVars
<1> QED
    BY <1>1, <1>2, <1>3, <1>4 DEF Next

\* close() on a socket.
LEMMA ClosingType ==
    ASSUME ClientType, NEW socket \in Sockets, Closing(socket)
    PROVE  /\ closed' \in SUBSET Conns
           /\ peer' \in [Conns -> {"none", "up", "stalled", "gone"}]
           /\ inbox' \in [Conns -> Seq(AllMsgKinds)]
BY DEF Closing, ClientType, Sockets, Conns

\* Sockets, streams and what was received keep their types.
LEMMA ClientTypeStep == ASSUME Inv, Next PROVE ClientType'
<1> USE DEF Inv, TypeInv
<1>a. ASSUME UNCHANGED <<clientVars, deliveryVars>> PROVE ClientType'
    BY <1>a DEF ClientType, clientVars, deliveryVars
<1>1. CASE Main
    <2>0. UNCHANGED deliveryVars
        BY <1>1, MainEffects DEF RecvType, MainFrame
    <2>1. CASE Accept
        <3>1. \A w \in BOOLEAN : Streams[w] \subseteq Seq(AllMsgKinds)
            BY ServerAssumption
        <3>2. (stopPhase = 0) \in BOOLEAN
            OBVIOUS
        <3>3. Streams[stopPhase = 0] \subseteq Seq(AllMsgKinds)
            BY <3>1, <3>2
        <3>4. inbox' \in [Conns -> Seq(AllMsgKinds)]
            BY <2>1, <3>3 DEF Accept, ClientType
        <3> QED
            BY <2>0, <2>1, <3>4, ServerAssumption
               DEF Accept, ClientType, MainType, deliveryVars, Conns, Sockets
    <2>2. CASE CloseSocket
        BY <2>0, <2>2, ClosingType DEF CloseSocket, ClientType, MainType, deliveryVars
    <2>3. Accept \/ CloseSocket \/ UNCHANGED clientVars
        BY <1>1 DEF Main, AcceptStops, SetTimeoutFails, AssignReceiver, StartSession, ReplaceSession,
               SetConnected, Greet, HandshakeLoop, HandshakeTimeout, HandshakeEmpty,
               HandshakeAnswer, MainLoop, MainEmpty, MainMessage, AnswerQuery, ApplyConfiguration,
               ConfigureRun, SendHeader, SweepPoint, RunExperiment, EndIteration, EndRun,
               ClearConnected, ClearInput, ClearOutput, PutThen, Decide, GetMessage
    <2> QED
        BY <1>a, <2>0, <2>1, <2>2, <2>3
<1>2. CASE Recv
    <2>1. UNCHANGED <<closed, peer, deliveryVars>>
        BY <1>2, RecvEffects DEF RecvFrame
    <2>2. inbox' \in [Conns -> Seq(AllMsgKinds)]
        <3>1. CASE ReceiveMessage
            BY <3>1 DEF ReceiveMessage, RecvBusy, RecvType, ClientType, Conns, Sockets
        <3>2. ReceiveMessage \/ inbox' = inbox
            BY <1>2 DEF Recv, RecvLoop, TakeSocket, ReceiveFails, ReceiveStopped, PutMessage,
                   RecvCheckSocket, RecvClearConnected
        <3> QED
            BY <3>1, <3>2 DEF ClientType
    <2> QED
        BY <2>1, <2>2 DEF ClientType, deliveryVars
<1>3. CASE Send
    <2>0. UNCHANGED clientVars
        BY <1>3, SendEffects DEF SendFrame
    <2>1. CASE SendWhole
        <3>1. sItem \in Packets /\ sSocket \in Conns
            BY <2>1 DEF SendWhole, SendAgain, Tagged, Packets
        <3>2. received' \in [Conns -> Seq(Packets)] /\ torn' = torn
            <4>1. Append(received[sSocket], sItem) \in Seq(Packets)
                BY <3>1 DEF ClientType
            <4>2. \/ received' = [received EXCEPT ![sSocket] = Append(received[sSocket], sItem)]
                  \/ received' = received
                BY <2>1 DEF SendWhole
            <4> QED
                BY <2>1, <4>1, <4>2 DEF SendWhole, ClientType
        <3> QED
            BY <2>0, <3>2 DEF ClientType, clientVars
    <2>2. CASE SendFails \/ SendAbandoned
        <3>1. sSocket \in Conns
            BY <2>2 DEF SendFails, SendAbandoned, SendGoto, SendAgain, SendType, Tagged, Packets
        <3> QED
            BY <2>0, <2>2, <3>1 DEF SendFails, SendAbandoned, GiveUp, ClientType, clientVars
    <2>3. SendWhole \/ SendFails \/ SendAbandoned \/ UNCHANGED deliveryVars
        BY <1>3 DEF Send, SendLoop, GetPacket, MatchSession, SendPart, SendCheckSession,
               SendClearConnected
    <2> QED
        BY <1>a, <2>0, <2>1, <2>2, <2>3
<1>4. CASE Stop \/ Client
    <2>0. UNCHANGED deliveryVars
        BY <1>4, OutsideEffects DEF OutsideFrame
    <2>1. CASE StopClosesSockets
        BY <2>0, <2>1, ClosingType DEF StopClosesSockets, ClientType, MainType, deliveryVars
    <2>2. CASE Client
        BY <2>0, <2>2 DEF Client, ClientType, deliveryVars
    <2>3. StopClosesSockets \/ Client \/ UNCHANGED clientVars
        BY <1>4 DEF Stop, CallStop, StopWorkers
    <2> QED
        BY <1>a, <2>0, <2>1, <2>2, <2>3
<1> QED
    BY <1>1, <1>2, <1>3, <1>4 DEF Next

\* The receive worker is never without a socket when it reads or fails.
LEMMA RecvBusyStep == ASSUME Inv, Next PROVE RecvBusy'
<1> USE DEF Inv, TypeInv, RecvBusy
<1>1. CASE Main
    <2>0. UNCHANGED <<rpc, rSocket, rMsg>>
        BY <1>1, MainEffects DEF RecvType, MainFrame, recvVars
    <2>1. CASE AssignReceiver
        BY <2>0, <2>1 DEF AssignReceiver, SessionsCounted
    <2>2. CASE StartSession \/ ReplaceSession \/ SetConnected
        BY <2>0, <2>2 DEF StartSession, ReplaceSession, SetConnected, Goto, connVars
    <2>3. CASE ClearConnected
        BY <2>0, <2>3 DEF ClearConnected, Goto, connVars
    <2>4. \/ AssignReceiver \/ StartSession \/ ReplaceSession \/ SetConnected \/ ClearConnected
          \/ /\ UNCHANGED <<connected, recvSocket>>
             /\ mpc' \notin {"session", "session_tuple", "set_connected"}
        BY <1>1
           DEF Main, Accept, AcceptStops, SetTimeoutFails, Greet, HandshakeLoop, HandshakeTimeout,
               HandshakeEmpty, HandshakeAnswer, MainLoop, MainEmpty, MainMessage, AnswerQuery,
               ApplyConfiguration, ConfigureRun, SendHeader, SweepPoint, RunExperiment,
               EndIteration, EndRun, CloseSocket, ClearInput, ClearOutput, PutThen, Decide,
               GetMessage, Process, CheckAnswer, BeginClose, Goto, connVars, pcVars, MainType
    <2> QED
        BY <2>0, <2>1, <2>2, <2>3, <2>4
<1>2. CASE Recv
    <2>0. UNCHANGED <<mpc, recvSocket>>
        BY <1>2, RecvEffects DEF RecvFrame, pcVars, connVars
    <2> USE DEF RecvGoto, RecvAgain
    <2>1. CASE RecvLoop \/ TakeSocket
        BY <2>0, <2>1 DEF RecvLoop, TakeSocket
    <2>2. CASE ReceiveMessage
        <3>1. rSocket \in Conns /\ inbox[rSocket] \in Seq(AllMsgKinds)
            BY <2>2 DEF ReceiveMessage, RecvType, ClientType, Conns, Sockets
        <3> QED
            BY <2>0, <2>2, <3>1 DEF ReceiveMessage, Messages
    <2>3. CASE ReceiveFails \/ ReceiveStopped \/ PutMessage \/ RecvCheckSocket \/ RecvClearConnected
        BY <2>0, <2>3 DEF ReceiveFails, ReceiveStopped, PutMessage, RecvCheckSocket,
               RecvClearConnected
    <2> QED
        BY <1>2, <2>1, <2>2, <2>3 DEF Recv
<1>3. CASE Send
    <2>1. UNCHANGED <<mpc, recvSocket, rpc, rSocket, rMsg>>
        BY <1>3, SendEffects DEF SendFrame, pcVars, connVars, recvVars
    <2>2. connected' => connected
        BY <1>3 DEF Send, SendLoop, GetPacket, MatchSession, SendWhole, SendPart, SendFails,
               SendAbandoned, SendCheckSession, SendClearConnected, GiveUp
    <2> QED
        BY <2>1, <2>2
<1>4. CASE Stop \/ Client
    <2>1. UNCHANGED <<connected, recvSocket, rpc, rSocket, rMsg>>
        BY <1>4, OutsideEffects DEF OutsideFrame, connVars, recvVars
    <2>2. mpc' = mpc \/ mpc' = "interrupted"
        BY <1>4 DEF Stop, CallStop, StopClosesSockets, StopWorkers, Client, Goto
    <2> QED
        BY <2>1, <2>2
<1> QED
    BY <1>1, <1>2, <1>3, <1>4 DEF Next

\* There is one call of start_session() for a connection, before its packets.
LEMMA SessionsStep == ASSUME Inv, Next PROVE SessionsCounted' /\ OneSocket'
<1> USE DEF Inv, TypeInv, SessionsCounted, OneSocket
<1>1. CASE Main
    <2>1. CASE Accept
        BY <2>1 DEF Accept, Goto, outVars, MainType, Sockets
    <2>2. CASE AcceptStops \/ SetTimeoutFails
        BY <2>2 DEF AcceptStops, SetTimeoutFails, Goto, outVars, connVars
    <2>3. CASE AssignReceiver
        BY <2>3 DEF AssignReceiver, Goto, outVars
    <2>4. CASE StartSession
        BY <2>4 DEF StartSession, Goto, Out!NewSession, connVars
    <2>5. CASE ReplaceSession
        BY <2>5 DEF ReplaceSession, Goto, outVars
    <2>6. ASSUME UNCHANGED <<outSession, accepted, sendSession>>,
                 mpc \notin {"accept", "assign", "session", "done", "interrupted"},
                 mpc' \notin {"assign", "session", "session_tuple", "interrupted"}
          PROVE  SessionsCounted' /\ OneSocket'
        BY <2>6
    <2>7. CASE SetConnected \/ CloseSocket \/ ClearConnected \/ ClearInput
        BY <2>6, <2>7 DEF SetConnected, CloseSocket, ClearConnected, ClearInput, Goto, outVars, connVars
    <2>8. CASE ClearOutput
        BY <2>6, <2>8 DEF ClearOutput, Out!ClearItems, Goto, connVars, MainType
    <2>9. ASSUME NEW here, NEW kind, NEW next, PutThen(here, kind, next),
                 here \notin {"accept", "assign", "session", "done", "interrupted"},
                 next \notin {"assign", "session", "session_tuple", "interrupted"}
          PROVE  SessionsCounted' /\ OneSocket'
        BY <2>6, <2>9 DEF PutThen, PutPacket, Out!AppendItem, Goto, outVars, connVars
    <2>10. CASE Greet \/ AnswerQuery \/ ApplyConfiguration \/ ConfigureRun \/ SendHeader \/ EndRun
        <3> HIDE DEF SessionsCounted, OneSocket, Inv
        <3> QED
            BY <2>9, <2>10 DEF Greet, AnswerQuery, ApplyConfiguration, ConfigureRun, SendHeader, EndRun
    <2>11. CASE RunExperiment
        BY <2>6, <2>9, <2>11 DEF RunExperiment, Decide, Goto, outVars, connVars
    <2>12. CASE EndIteration
        BY <2>6, <2>12 DEF EndIteration, PutPacket, Out!AppendItem, Goto, outVars, connVars
    <2>13. CASE \/ HandshakeLoop \/ HandshakeTimeout \/ HandshakeEmpty \/ MainLoop \/ MainEmpty
                \/ SweepPoint
        BY <2>6, <2>13 DEF HandshakeLoop, HandshakeTimeout, HandshakeEmpty, MainLoop, MainEmpty,
               SweepPoint, Decide, BeginClose, Goto, outVars, connVars
    <2>14. CASE HandshakeAnswer \/ MainMessage
        BY <2>6, <2>14 DEF HandshakeAnswer, MainMessage, GetMessage, CheckAnswer, Process,
               BeginClose, Goto, outVars, connVars, pcVars
    <2> QED
        BY <1>1, <2>1, <2>2, <2>3, <2>4, <2>5, <2>7, <2>8, <2>10, <2>11, <2>12, <2>13, <2>14 DEF Main
<1>2. CASE Recv
    BY <1>2, RecvEffects DEF RecvFrame, pcVars, connVars, outVars
<1>3. CASE Send
    <2>1. UNCHANGED <<mpc, clientSocket, accepted, sendSession>>
        BY <1>3, SendEffects DEF SendFrame, pcVars, connVars
    <2>2. outSession' = outSession
        BY <1>3 DEF Send, SendLoop, GetPacket, MatchSession, SendWhole, SendPart, SendFails,
               SendAbandoned, SendCheckSession, SendClearConnected, GiveUp, Out!PopItem, outVars
    <2> QED
        BY <2>1, <2>2
<1>4. CASE Stop \/ Client
    <2>1. UNCHANGED <<clientSocket, accepted, sendSession, outSession>>
        BY <1>4, OutsideEffects DEF OutsideFrame, connVars, outVars
    <2>2. mpc' = mpc \/ mpc' = "interrupted"
        BY <1>4 DEF Stop, CallStop, StopClosesSockets, StopWorkers, Client, Goto
    <2> QED
        BY <2>1, <2>2
<1> QED
    BY <1>1, <1>2, <1>3, <1>4 DEF Next

\* The session of a packet is its connection from put() to sendmsg().
LEMMA TaggedStep == ASSUME Inv, Next PROVE Tagged'
<1> USE DEF Inv, TypeInv, Tagged
<1>0. outQueue \in Seq([item : Packets, session : Nat])
    BY DEF OutP!QueueInv, OutP!QueueType, OutP!Entries
<1>1. CASE Main
    <2>0. UNCHANGED sendVars
        BY <1>1, MainEffects DEF RecvType, MainFrame
    <2>1. ASSUME NEW kind \in PacketKinds, mpc \in PutPcs,
                 Out!AppendItem([conn |-> accepted, n |-> puts + 1, kind |-> kind])
          PROVE  Tagged'
        <3>1. outSession = accepted
            BY <2>1 DEF SessionsCounted, PutPcs, CommandPcs
        <3>2. outQueue' = Append(outQueue, [item |-> [conn |-> accepted, n |-> puts + 1, kind |-> kind],
                                            session |-> outSession])
            BY <2>1 DEF Out!AppendItem
        <3>3. \A i \in 1..Len(outQueue') : outQueue'[i].item.conn = outQueue'[i].session
            BY <1>0, <3>1, <3>2
        <3> QED
            BY <2>0, <3>3 DEF sendVars
    <2>2. CASE Out!NewSession \/ Out!ClearItems \/ UNCHANGED outVars
        BY <2>0, <2>2 DEF Out!NewSession, Out!ClearItems, outVars, sendVars
    <2> QED
        BY <1>1, <2>1, <2>2, MainOutEffect DEF OutEffect
<1>2. CASE Recv
    BY <1>2, RecvEffects DEF RecvFrame, sendVars, outVars
<1>3. CASE Send
    <2> USE DEF SendGoto, SendAgain, Nothing
    <2>1. CASE GetPacket
        <3>1. CASE outQueue = <<>>
            BY <2>1, <3>1 DEF GetPacket, Out!PopItem, outVars
        <3>2. CASE outQueue # <<>>
            <4> DEFINE Tags == [item : Packets, session : Nat]
            <4> HIDE DEF Tags
            <4>0. Head(outQueue) = outQueue[1] /\ 1 \in 1..Len(outQueue) /\ outQueue[1] \in Tags
                <5>1. outQueue \in Seq(Tags)
                    BY <1>0 DEF Tags
                <5> QED
                    BY <3>2, <5>1
            <4>1. /\ Head(outQueue).item.conn = Head(outQueue).session
                  /\ Head(outQueue).item \in Packets
                BY <4>0 DEF Tags
            <4>2. outQueue' = Tail(outQueue) /\ spc' = "match" /\ sItem' = Head(outQueue).item
                      /\ sSession' = Head(outQueue).session
                BY <2>1, <3>2 DEF GetPacket, Out!PopItem
            <4>3. \A i \in 1..Len(outQueue') : outQueue'[i].item.conn = outQueue'[i].session
                BY <1>0, <3>2, <4>2
            <4> QED
                BY <4>1, <4>2, <4>3
        <3> QED
            BY <3>1, <3>2
    <2>2. CASE MatchSession
        BY <2>2 DEF MatchSession, OneSocket, outVars
    <2>3. CASE SendLoop \/ SendWhole \/ SendPart \/ SendFails
        BY <2>3 DEF SendLoop, SendWhole, SendPart, SendFails, GiveUp, outVars
    <2>4. CASE SendAbandoned \/ SendCheckSession \/ SendClearConnected
        BY <2>4 DEF SendAbandoned, SendCheckSession, SendClearConnected, GiveUp, outVars
    <2> QED
        BY <1>3, <2>1, <2>2, <2>3, <2>4 DEF Send
<1>4. CASE Stop \/ Client
    BY <1>4, OutsideEffects DEF OutsideFrame, sendVars, outVars
<1> QED
    BY <1>1, <1>2, <1>3, <1>4 DEF Next

\* So what is sent on a socket was produced for its connection.
LEMMA DeliveredStep == ASSUME Inv, Next PROVE Delivered'
<1>a. ASSUME UNCHANGED received PROVE Delivered'
    BY <1>a DEF Inv, Delivered
<1>1. CASE Main
    BY <1>a, <1>1, MainEffects DEF Inv, TypeInv, RecvType, MainFrame, deliveryVars
<1>2. CASE Recv
    BY <1>a, <1>2, RecvEffects DEF RecvFrame, deliveryVars
<1>3. CASE Send
    <2>1. CASE SendWhole
        <3>1. sItem.conn = sSocket /\ received \in [Conns -> Seq(Packets)]
            BY <2>1 DEF SendWhole, SendAgain, Inv, TypeInv, Tagged, ClientType
        <3>2. \/ received' = [received EXCEPT ![sSocket] = Append(received[sSocket], sItem)]
              \/ received' = received
            BY <2>1 DEF SendWhole
        <3>3. CASE received' = [received EXCEPT ![sSocket] = Append(received[sSocket], sItem)]
            <4> SUFFICES \A c \in Conns : \A i \in 1..Len(received'[c]) : received'[c][i].conn = c
                BY DEF Delivered
            <4> TAKE c \in Conns
            <4>1. received[c] \in Seq(Packets)
                BY <3>1
            <4>2. received'[c] = IF c = sSocket THEN Append(received[c], sItem) ELSE received[c]
                BY <3>1, <3>3
            <4> QED
                BY <3>1, <4>1, <4>2 DEF Inv, Delivered
        <3> QED
            BY <1>a, <3>2, <3>3
    <2>2. SendWhole \/ UNCHANGED received
        BY <1>3 DEF Send, SendLoop, GetPacket, MatchSession, SendPart, SendFails, SendAbandoned,
               SendCheckSession, SendClearConnected, GiveUp, deliveryVars
    <2> QED
        BY <1>a, <2>1, <2>2
<1>4. CASE Stop \/ Client
    BY <1>a, <1>4, OutsideEffects DEF OutsideFrame, deliveryVars
<1> QED
    BY <1>1, <1>2, <1>3, <1>4 DEF Next

\* The invariant is inductive.
LEMMA StepInv == Inv /\ [Next]_vars => Inv'
<1> SUFFICES ASSUME Inv, [Next]_vars PROVE Inv'
    OBVIOUS
<1>1. CASE Next
    BY <1>1, FlagStep, MainTypeStep, RecvTypeStep, SendTypeStep, ClientTypeStep, QueueStep,
       RecvBusyStep, SessionsStep, TaggedStep, DeliveredStep
       DEF Inv, TypeInv
<1>2. CASE UNCHANGED vars
    <2>1. OutP!QueueInv'
        BY Zenon, <1>2, OutAssumptions, OutP!SameInv DEF Inv, TypeInv, vars, outVars
    <2>2. FlagType'
        BY Zenon, <1>2 DEF Inv, TypeInv, FlagType, vars
    <2>3. MainType' /\ RecvType' /\ SendType' /\ ClientType'
        BY <1>2 DEF Inv, TypeInv, MainType, RecvType, SendType, ClientType, vars, pcVars, connVars,
            historyVars, recvVars, sendVars, clientVars, deliveryVars
    <2>4. RecvBusy' /\ SessionsCounted' /\ OneSocket' /\ Tagged' /\ Delivered'
        BY <1>2 DEF Inv, TypeInv, RecvBusy, SessionsCounted, OneSocket, Tagged, Delivered, vars,
            pcVars, connVars, recvVars, sendVars, outVars, deliveryVars
    <2> QED
        BY <2>1, <2>2, <2>3, <2>4 DEF Inv, TypeInv
<1> QED
    BY <1>1, <1>2

\* The types of the server's state hold in every behaviour.
THEOREM ServerTypes == SafeSpec => []TypeOK
BY InvImplies, StartInv, StepInv, PTL DEF SafeSpec

\* However many clients replace one another, and however the threads interleave
\* while they do, no client receives a packet, or a part of one, that was
\* produced for another (memory_queue.py: new_session, get_with_session;
\* send_worker.py: start_session, _run).
THEOREM ClientsSeparated == SafeSpec => []NoCrossTalk
BY InvImplies, StartInv, StepInv, PTL DEF SafeSpec

-----------------------------------------------------------------------------
(* The order of the packets of a connection, from put() to the client.      *)

\* The send worker has taken a packet and has not given it up; it is one of the
\* current session.
Holding == spc \in {"match", "send", "sending"}
HoldsCurrent == Holding /\ sSession = outSession

\* It has given up a packet of the current session: until the next session begins it
\* takes no other.
GaveUp ==
    \/ spc \in {"check", "clear"} /\ sSession = outSession
    \/ spc = "wait" /\ (~connected \/ SendStopped)
    \/ spc = "done"

\* The main thread is between the end of a connection and the event of the next.
Between == {"close_in", "close_out"} \cup AcceptPcs

\* The session has begun and the client is not announced yet.
Opening == {"session_tuple", "set_connected"}

\* Where the event and the session of the send worker stand.
Handover ==
    /\ mpc \in Between => ~connected
    /\ connected => outSession \in Conns
    /\ sSession <= outSession
    /\ mpc \notin {"session_tuple", "interrupted"} => sendSession[1] = outSession
    /\ outQueue # <<>> => sendSession[1] = outSession
    /\ spc \notin {"wait", "get", "done"} /\ sSession = outSession => sendSession[1] = outSession
    /\ mpc \in AcceptPcs \ {"accept"} => puts = 0
    /\ mpc \in Opening => outQueue = <<>> /\ sSession < outSession

\* A connection whose session has not begun to be served has received nothing.
Fresh ==
    \A c \in Conns :
        c > outSession \/ (c = outSession /\ mpc \in Opening) => received[c] = <<>> /\ c \notin torn

\* The packet in hand is the next one of its connection, those in the queue follow one
\* another, and the first of them follows what was taken before it.
Sequenced ==
    /\ Holding /\ peer[sItem.conn] # "gone" => sItem.n = Len(received[sItem.conn]) + 1
    /\ \A i \in 1..Len(outQueue) - 1 : outQueue[i + 1].item.n = outQueue[i].item.n + 1
    /\ outQueue # <<>> /\ HoldsCurrent => outQueue[1].item.n = sItem.n + 1
    /\ outQueue # <<>> /\ ~HoldsCurrent /\ ~GaveUp /\ peer[outSession] # "gone"
           => outQueue[1].item.n = Len(received[outSession]) + 1

\* While packets can be delivered, the last one on its way is the last that was produced.
NothingDropped ==
    connected /\ ~SendStopped =>
        /\ outQueue # <<>> => outQueue[Len(outQueue)].item.n = puts
        /\ outQueue = <<>> /\ HoldsCurrent => sItem.n = puts
        /\ outQueue = <<>> /\ ~HoldsCurrent /\ ~GaveUp /\ peer[outSession] # "gone"
               => Len(received[outSession]) = puts

\* A torn packet was the last of its session.
TornLast ==
    /\ Holding => sItem.conn \notin torn
    /\ outSession \in torn => GaveUp

Order == Handover /\ Fresh /\ Sequenced /\ NothingDropped /\ TornLast /\ NoGap

-----------------------------------------------------------------------------
(* What a client may know in each place of the main thread.                 *)

\* What a client can have been told.
Told == {"fresh", "idle", "configured", "started", "payloads", "iterated", "failed"}

\* What it has been told when it has all packets that were produced.
Reached(pc) ==
    CASE pc = "greet" -> {"fresh"}
      [] pc \in {"handshake", "handshake_get"} -> {"idle"}
      [] pc \in {"loop", "get", "answer", "apply", "configure"} -> {"idle", "configured"}
      [] pc \in {"apply_warning", "sweep_error", "header"} -> {"configured"}
      [] pc \in {"point", "experiment"} -> {"started", "iterated"}
      [] pc = "iteration" -> {"payloads"}
      [] pc = "footer" -> {"iterated"}
      [] pc = "failed" -> {"started", "payloads", "iterated"}
      [] pc = "footer_aborted" -> {"started", "iterated", "failed"}
      [] OTHER -> Told

\* No place before a connection, or at its end, asks for anything.
LEMMA Anywhere ==
    ASSUME NEW pc
    PROVE  /\ Reached(pc) \subseteq Told
           /\ pc \notin {"handshake", "handshake_get", "loop", "get"} \cup PutPcs \cup {"point", "iteration"}
                  => Reached(pc) = Told
BY DEF Reached, Told, PutPcs, CommandPcs

\* The protocol has one move for a packet.
LEMMA OneMove ==
    ASSUME NEW m \in Protocol!Moves PROVE Protocol!After(m[1], m[2]) = m[3]
<1> DEFINE next == {n \in Protocol!Moves : n[1] = m[1] /\ n[2] = m[2]}
<1>1. next # {}
    OBVIOUS
<1>2. \A n \in next : n[3] = m[3]
    BY DEF Protocol!Moves
<1> HIDE DEF next
<1>3. (CHOOSE n \in next : TRUE) \in next
    BY <1>1
<1> QED
    BY <1>1, <1>2, <1>3 DEF Protocol!After, next

\* The packet of kind takes a client from what it knows here to what it knows there.
Tells(here, kind, there) == \A phase \in Reached(here) : Protocol!After(phase, kind) \in Reached(there)

\* The packets of the commands.
LEMMA Telling ==
    /\ Tells("greet", "handshake", "handshake")
    /\ Tells("answer", "answer", "loop")
    /\ Tells("apply", "error", "loop") /\ Tells("apply", "ok", "loop")
    /\ Tells("apply", "ok", "apply_warning") /\ Tells("apply_warning", "warning", "loop")
    /\ Tells("configure", "error", "loop") /\ Tells("configure", "ok", "header")
    /\ Tells("configure", "ok", "sweep_error") /\ Tells("sweep_error", "error", "loop")
    /\ Tells("header", "header", "point") /\ Tells("header", "header", "experiment")
    /\ Tells("experiment", "data", "iteration")
    /\ Tells("iteration", "iteration_ended", "point") /\ Tells("iteration", "iteration_ended", "footer")
    /\ Tells("failed", "error", "footer_aborted")
    /\ Tells("footer", "footer", "loop") /\ Tells("footer_aborted", "aborted", "loop")
<1> DEFINE Move(phase, kind, next) == Protocol!After(phase, kind) = next
<1>1. ASSUME NEW m \in Protocol!Moves PROVE Move(m[1], m[2], m[3])
    BY OneMove
<1> HIDE DEF Move
<1>2. /\ Move("fresh", "handshake", "idle")
      /\ Move("idle", "answer", "idle") /\ Move("configured", "answer", "idle")
      /\ Move("idle", "error", "idle") /\ Move("configured", "error", "idle")
      /\ Move("idle", "ok", "configured") /\ Move("configured", "ok", "configured")
      /\ Move("configured", "warning", "idle") /\ Move("configured", "header", "started")
    BY <1>1 DEF Protocol!Moves
<1>3. /\ Move("started", "data", "payloads") /\ Move("iterated", "data", "payloads")
      /\ Move("payloads", "iteration_ended", "iterated") /\ Move("iterated", "footer", "idle")
      /\ Move("started", "error", "failed") /\ Move("payloads", "error", "failed")
      /\ Move("iterated", "error", "failed") /\ Move("failed", "aborted", "idle")
      /\ Move("started", "aborted", "idle") /\ Move("iterated", "aborted", "idle")
    BY <1>1 DEF Protocol!Moves
<1> QED
    BY <1>2, <1>3 DEF Tells, Reached, Move

-----------------------------------------------------------------------------
(* The steps, as far as the order of the packets is concerned.              *)

\* A step that does not touch the packets: the event may be cleared, the stop may go on
\* and clients may go.
Quiet ==
    /\ UNCHANGED <<puts, outVars, sendSession, sendVars, deliveryVars>>
    /\ connected' => connected
    /\ SendStopped => SendStopped'
    /\ \A c \in Conns : peer'[c] # "gone" => peer[c] # "gone"
    /\ \/ mpc' = mpc
       \/ mpc' = "interrupted"
       \/ /\ mpc \notin Opening \cup {"interrupted"}
          /\ mpc' \notin Opening \cup {"assign"}
          /\ mpc' = "session" => mpc = "assign"
          /\ mpc' \in Between => mpc \in Between \/ ~connected'
    /\ connected' => Reached(mpc) \subseteq Reached(mpc')

\* A put() of the main thread returns.
Produce ==
    /\ UNCHANGED <<connected, stopPhase, peer, sendSession, accepted, sendVars, deliveryVars>>
    /\ mpc \in PutPcs
    /\ mpc' \in PutPcs \cup {"handshake", "loop", "point", "iteration"}
    /\ \E kind \in PacketKinds : PutPacket(kind) /\ Tells(mpc, kind, mpc')

\* A put() followed by a change of place is such a step.
LEMMA PutThenProduces ==
    ASSUME NEW here \in PutPcs, NEW kind \in PacketKinds,
           NEW next \in PutPcs \cup {"handshake", "loop", "point", "iteration"},
           PutThen(here, kind, next), Tells(here, kind, next)
    PROVE  Produce
BY DEF PutThen, Produce, MainFrame, Goto, connVars, clientVars

\* A step that leaves the packets alone and goes on from one place to another.
LEMMA Goes ==
    ASSUME UNCHANGED <<connected, puts, sendSession, outVars, peer>>, MainFrame,
           mpc \notin Opening \cup {"interrupted"}, mpc' \notin Between,
           Reached(mpc) \subseteq Reached(mpc')
    PROVE  Quiet
BY DEF Quiet, MainFrame, Opening, Between, AcceptPcs, SendStopped

\* What a step of the main thread is.
LEMMA MainSteps ==
    ASSUME Inv, Main
    PROVE  \/ Accept \/ StartSession \/ ReplaceSession \/ SetConnected \/ ClearOutput
           \/ Produce \/ Quiet
<1> DEFINE After == PutPcs \cup {"handshake", "loop", "point", "iteration"}
<1>1. CASE Greet \/ AnswerQuery \/ ApplyConfiguration \/ ConfigureRun \/ SendHeader \/ EndRun
    BY <1>1, PutThenProduces, Telling
       DEF Greet, AnswerQuery, ApplyConfiguration, ConfigureRun, SendHeader, EndRun, PacketKinds,
           PutPcs, CommandPcs
<1>2. CASE RunExperiment
    <2>1. CASE PutThen("experiment", "data", "iteration")
        BY <2>1, PutThenProduces, Telling DEF PacketKinds, PutPcs, CommandPcs
    <2>2. CASE (Decide("experiment") \/ Decide("iteration")) /\ Goto("failed")
        BY <2>2, Goes DEF Decide, Goto, historyVars, connVars, clientVars, Opening, Between, AcceptPcs,
               Reached
    <2> QED
        BY <1>2, <2>1, <2>2 DEF RunExperiment
<1>3. CASE EndIteration
    BY <1>3, Telling DEF EndIteration, Produce, MainFrame, Goto, connVars, clientVars, PacketKinds, PutPcs,
           CommandPcs
<1>4. CASE \/ HandshakeLoop \/ HandshakeTimeout \/ HandshakeEmpty \/ MainLoop \/ MainEmpty
           \/ SweepPoint
    BY <1>4, Goes
       DEF HandshakeLoop, HandshakeTimeout, HandshakeEmpty, MainLoop, MainEmpty, SweepPoint,
           Decide, BeginClose, Goto, historyVars, connVars, clientVars, Opening, Between, AcceptPcs,
           Reached, Told
<1>5. CASE HandshakeAnswer \/ MainMessage
    BY <1>5, Goes
       DEF HandshakeAnswer, MainMessage, GetMessage, CheckAnswer, Process, BeginClose, Goto,
           pcVars, connVars, clientVars, Opening, Between, AcceptPcs, Reached, Told
<1>6. CASE AcceptStops \/ SetTimeoutFails
    BY <1>6, Goes
       DEF AcceptStops, SetTimeoutFails, Goto, historyVars, connVars, clientVars, Opening, Between,
           AcceptPcs, Reached
<1>7. CASE AssignReceiver
    BY <1>7 DEF AssignReceiver, Quiet, MainFrame, Goto, historyVars, clientVars, Opening, Between,
           AcceptPcs, SendStopped, Reached
<1>8. CASE CloseSocket
    BY <1>8 DEF CloseSocket, Closing, Quiet, MainFrame, Goto, historyVars, Opening, Between,
           AcceptPcs, SendStopped, Reached
<1>9. CASE ClearConnected \/ ClearInput
    BY <1>9 DEF ClearConnected, ClearInput, Quiet, MainFrame, Goto, historyVars, connVars,
           clientVars, Opening, Between, AcceptPcs, SendStopped, Reached
<1> QED
    BY <1>1, <1>2, <1>3, <1>4, <1>5, <1>6, <1>7, <1>8, <1>9 DEF Main

\* The receive worker, stop() and the clients touch no packet.
LEMMA OthersQuiet == ASSUME Inv, Recv \/ Stop \/ Client PROVE Quiet
<1>1. CASE Recv
    <2>1. connected' => connected
        BY <1>1 DEF Recv, RecvLoop, TakeSocket, ReceiveMessage, ReceiveFails, ReceiveStopped,
               PutMessage, RecvCheckSocket, RecvClearConnected
    <2> QED
        BY <1>1, <2>1, RecvEffects, Anywhere
           DEF RecvFrame, Quiet, pcVars, connVars, historyVars, SendStopped
<1>2. CASE Stop \/ Client
    <2>1. UNCHANGED <<connected, puts, outVars, sendSession, sendVars, deliveryVars>>
        BY <1>2, OutsideEffects DEF OutsideFrame, connVars, historyVars
    <2>2. (mpc' = mpc \/ mpc' = "interrupted") /\ (SendStopped => SendStopped')
        BY <1>2 DEF Stop, CallStop, StopClosesSockets, StopWorkers, Client, Goto, SendStopped,
               Inv, TypeInv, MainType
    <2>3. \A c \in Conns : peer'[c] # "gone" => peer[c] # "gone"
        BY <1>2 DEF Stop, CallStop, StopClosesSockets, StopWorkers, Closing, Client, clientVars,
               Inv, TypeInv, ClientType
    <2>4. Reached(mpc) \subseteq Reached(mpc')
        BY <2>2, Anywhere DEF PutPcs, CommandPcs
    <2> QED
        BY <2>1, <2>2, <2>3, <2>4 DEF Quiet
<1> QED
    BY <1>1, <1>2

-----------------------------------------------------------------------------
(* Every step keeps the order.                                              *)

\* What is queued is of the current session, and of a connection.
LEMMA Queued ==
    ASSUME Inv
    PROVE  /\ outQueue \in Seq(OutP!Entries) /\ outSession \in Nat
           /\ \A i \in 1..Len(outQueue) :
                  outQueue[i].item \in Packets /\ outQueue[i].item.conn = outSession
           /\ outQueue # <<>> => outSession \in Conns
<1>1. outQueue \in Seq(OutP!Entries) /\ outSession \in Nat
    BY DEF Inv, TypeInv, OutP!QueueInv, OutP!QueueType
<1>2. ASSUME NEW i \in 1..Len(outQueue)
      PROVE  outQueue[i].item \in Packets /\ outQueue[i].item.conn = outSession
    <2>1. outQueue[i] \in OutP!Entries
        BY <1>1, <1>2
    <2>2. outQueue[i].session = outSession /\ outQueue[i].item.conn = outQueue[i].session
        BY <1>2 DEF Inv, Tagged, TypeInv, OutP!QueueInv, OutP!OneSession
    <2> QED
        BY <2>1, <2>2 DEF OutP!Entries
<1>3. outQueue # <<>> => outSession \in Conns
    <2>1. outQueue # <<>> => 1 \in 1..Len(outQueue)
        BY <1>1
    <2> QED
        BY <1>2, <2>1 DEF Packets
<1> QED
    BY <1>1, <1>2, <1>3

\* A packet in hand is of a connection that was accepted, and what is received is counted.
LEMMA Held ==
    ASSUME Inv
    PROVE  /\ Holding => sItem \in Packets /\ sItem.conn = sSession /\ sSession \in Conns
           /\ sSession \in Nat
           /\ \A c \in Conns : received[c] \in Seq(Packets) /\ Len(received[c]) \in Nat
           /\ puts \in Nat
<1>1. Holding => sItem \in Packets /\ sItem.conn = sSession
    BY DEF Inv, Tagged, Holding
<1>2. \A p \in Packets : p.conn \in Conns
    BY DEF Packets
<1>3. sSession \in Nat /\ puts \in Nat
    BY DEF Inv, TypeInv, MainType, SendType
<1>4. ASSUME NEW c \in Conns PROVE received[c] \in Seq(Packets) /\ Len(received[c]) \in Nat
    BY DEF Inv, TypeInv, ClientType
<1> QED
    BY <1>1, <1>2, <1>3, <1>4

\* The steps that touch no packet.
LEMMA QuietOrder == ASSUME Inv, Order, Quiet PROVE Order'
<1> USE DEF Order, Quiet, outVars, sendVars, deliveryVars
<1>0. /\ UNCHANGED <<puts, outQueue, outSession, sendSession, spc, sItem, sSession, received, torn>>
      /\ connected' => connected
      /\ SendStopped => SendStopped'
    OBVIOUS
<1>1. Holding' = Holding /\ HoldsCurrent' = HoldsCurrent /\ (GaveUp => GaveUp')
    BY <1>0 DEF Holding, HoldsCurrent, GaveUp, SendStopped
<1>2. Handover'
    BY <1>0 DEF Handover, Between, AcceptPcs, Opening
<1>3. Fresh'
    BY <1>0 DEF Fresh, Opening
<1>4. Sequenced'
    <2>1. ASSUME Holding, peer'[sItem.conn] # "gone" PROVE peer[sItem.conn] # "gone"
        BY <2>1, Held DEF Packets
    <2>2. ASSUME outQueue # <<>>, peer'[outSession] # "gone" PROVE peer[outSession] # "gone"
        BY <2>2, Queued
    <2> QED
        BY <1>0, <1>1, <2>1, <2>2 DEF Sequenced
<1>5. NothingDropped'
    <2>1. ASSUME connected, peer'[outSession] # "gone" PROVE peer[outSession] # "gone"
        BY <2>1 DEF Handover
    <2> QED
        BY <1>0, <1>1, <2>1 DEF NothingDropped
<1>6. TornLast' /\ NoGap'
    BY <1>0, <1>1 DEF TornLast, NoGap
<1> QED
    BY <1>2, <1>3, <1>4, <1>5, <1>6

\* A new client is accepted while nobody is connected.
LEMMA AcceptOrder == ASSUME Inv, Order, Accept PROVE Order'
<1> USE DEF Order, MainFrame, outVars, sendVars, deliveryVars
<1>0. /\ UNCHANGED <<connected, stopPhase, outQueue, outSession, sendSession, spc, sItem, sSession,
                     received, torn>>
      /\ mpc = "accept" /\ mpc' = "assign" /\ puts' = 0
      /\ peer' = [peer EXCEPT ![accepted + 1] = "up"]
    BY DEF Accept, Goto
<1>1. ~connected /\ outSession = accepted /\ accepted \in Nat
    BY <1>0 DEF Handover, Between, AcceptPcs, Inv, SessionsCounted, TypeInv, MainType, Sockets
<1>2. \A c \in Conns : c <= outSession => peer'[c] = peer[c]
    BY <1>0, <1>1 DEF Inv, TypeInv, ClientType, Conns
<1>3. Holding' = Holding /\ HoldsCurrent' = HoldsCurrent /\ GaveUp' = GaveUp
    BY <1>0 DEF Holding, HoldsCurrent, GaveUp, SendStopped
<1>4. Handover'
    BY <1>0, <1>1 DEF Handover, Between, AcceptPcs, Opening
<1>5. Fresh'
    BY <1>0 DEF Fresh, Opening
<1>6. Sequenced'
    <2>1. Holding => peer'[sItem.conn] = peer[sItem.conn]
        BY <1>2, Held DEF Handover
    <2>2. outQueue # <<>> => peer'[outSession] = peer[outSession]
        BY <1>2, Queued
    <2> QED
        BY <1>0, <1>3, <2>1, <2>2 DEF Sequenced
<1>7. NothingDropped' /\ TornLast' /\ NoGap'
    BY <1>0, <1>1, <1>3 DEF NothingDropped, TornLast, NoGap
<1> QED
    BY <1>4, <1>5, <1>6, <1>7

\* new_session(): what the previous client did not get is dropped.
LEMMA SessionOrder == ASSUME Inv, Order, StartSession PROVE Order'
<1> USE DEF Order, MainFrame, sendVars, deliveryVars
<1>0. /\ UNCHANGED <<connected, stopPhase, puts, sendSession, spc, sItem, sSession, received, torn, peer>>
      /\ mpc = "session" /\ mpc' = "session_tuple"
      /\ outQueue' = <<>> /\ outSession' = outSession + 1
    BY DEF StartSession, Goto, historyVars, connVars, clientVars, Out!NewSession
<1>1. ~connected /\ puts = 0 /\ sSession <= outSession /\ sSession \in Nat /\ outSession \in Nat
    BY <1>0, Queued, Held DEF Handover, Between, AcceptPcs
<1>2. Holding' = Holding /\ ~HoldsCurrent'
    BY <1>0, <1>1 DEF Holding, HoldsCurrent
<1>3. Handover'
    BY <1>0, <1>1 DEF Handover, Between, AcceptPcs, Opening
<1>4. Fresh'
    BY <1>0, <1>1 DEF Fresh, Opening, Conns
<1>5. Sequenced'
    BY <1>0, <1>2 DEF Sequenced
<1>6. NothingDropped'
    BY <1>0, <1>1 DEF NothingDropped
<1>7. TornLast' /\ NoGap'
    BY <1>0, <1>1, <1>2 DEF TornLast, NoGap, Fresh, Inv, TypeInv, ClientType, Conns
<1> QED
    BY <1>3, <1>4, <1>5, <1>6, <1>7

\* SendWorker._session is replaced.
LEMMA TupleOrder == ASSUME Inv, Order, ReplaceSession PROVE Order'
<1> USE DEF Order, MainFrame, outVars, sendVars, deliveryVars
<1>0. /\ UNCHANGED <<connected, stopPhase, puts, outQueue, outSession, spc, sItem, sSession,
                     received, torn, peer>>
      /\ mpc = "session_tuple" /\ mpc' = "set_connected"
      /\ sendSession'[1] = outSession
    BY DEF ReplaceSession, Goto, historyVars, clientVars
<1>1. Holding' = Holding /\ HoldsCurrent' = HoldsCurrent /\ GaveUp' = GaveUp
    BY <1>0 DEF Holding, HoldsCurrent, GaveUp, SendStopped
<1>2. Handover'
    BY <1>0 DEF Handover, Between, AcceptPcs, Opening
<1>3. Fresh' /\ Sequenced'
    BY <1>0, <1>1 DEF Fresh, Opening, Sequenced
<1>4. NothingDropped' /\ TornLast' /\ NoGap'
    BY <1>0, <1>1 DEF NothingDropped, TornLast, NoGap, SendStopped
<1> QED
    BY <1>2, <1>3, <1>4

\* The client is announced: nothing was produced for it and nothing is on its way.
LEMMA ConnectedOrder == ASSUME Inv, Order, SetConnected PROVE Order'
<1> USE DEF Order, MainFrame, outVars, sendVars, deliveryVars
<1>0. /\ UNCHANGED <<stopPhase, puts, outQueue, outSession, sendSession, spc, sItem, sSession,
                     received, torn, peer>>
      /\ mpc = "set_connected" /\ mpc' = "greet"
    BY DEF SetConnected, Goto, historyVars, connVars, clientVars
<1>1. /\ outQueue = <<>> /\ puts = 0 /\ sSession < outSession
      /\ outSession \in Conns /\ sSession \in Nat
    BY <1>0, Held DEF Handover, Opening, AcceptPcs, Inv, SessionsCounted, TypeInv, MainType, Sockets,
        Conns
<1>2. received[outSession] = <<>> /\ outSession \notin torn
    BY <1>0, <1>1 DEF Fresh, Opening
<1>3. Holding' = Holding /\ ~HoldsCurrent'
    BY <1>0, <1>1 DEF Holding, HoldsCurrent
<1>4. Handover'
    BY <1>0, <1>1 DEF Handover, Between, AcceptPcs, Opening
<1>5. Fresh' /\ Sequenced'
    BY <1>0, <1>1, <1>3 DEF Fresh, Opening, Sequenced
<1>6. NothingDropped' /\ TornLast' /\ NoGap'
    BY <1>0, <1>1, <1>2, <1>3 DEF NothingDropped, TornLast, NoGap
<1> QED
    BY <1>4, <1>5, <1>6

\* clear(): the connection has ended.
LEMMA ClearOrder == ASSUME Inv, Order, ClearOutput PROVE Order'
<1> USE DEF Order, MainFrame, sendVars, deliveryVars
<1>0. /\ UNCHANGED <<connected, stopPhase, puts, outSession, sendSession, spc, sItem, sSession,
                     received, torn, peer>>
      /\ mpc = "close_out" /\ mpc' \in {"loop", "accept"} /\ outQueue' = <<>>
    BY DEF ClearOutput, Goto, historyVars, connVars, clientVars, Out!ClearItems, Inv, TypeInv, MainType
<1>1. ~connected
    BY <1>0 DEF Handover, Between
<1>2. Holding' = Holding /\ GaveUp' = GaveUp
    BY <1>0 DEF Holding, GaveUp, SendStopped
<1>3. Handover'
    BY <1>0, <1>1 DEF Handover, Between, AcceptPcs, Opening
<1>4. Fresh' /\ Sequenced'
    BY <1>0, <1>2 DEF Fresh, Opening, Sequenced
<1>5. NothingDropped' /\ TornLast' /\ NoGap'
    BY <1>0, <1>1, <1>2 DEF NothingDropped, TornLast, NoGap
<1> QED
    BY <1>3, <1>4, <1>5

\* put(): the packet follows the last one, unless it cannot be delivered any more.
LEMMA ProduceOrder == ASSUME Inv, Order, Produce PROVE Order'
<1> USE DEF Order, sendVars, deliveryVars
<1>0. /\ UNCHANGED <<connected, stopPhase, peer, sendSession, accepted, spc, sItem, sSession,
                     received, torn>>
      /\ mpc \in PutPcs /\ mpc' \in PutPcs \cup {"handshake", "loop", "point", "iteration"}
      /\ puts' = puts + 1
    BY DEF Produce, PutPacket
<1>1. /\ mpc \notin Between \cup Opening \cup {"interrupted"}
      /\ mpc' \notin Between \cup Opening \cup {"interrupted"}
      /\ Between = {"close_in", "close_out"} \cup AcceptPcs
    BY <1>0 DEF Between, AcceptPcs, Opening, PutPcs, CommandPcs
<1>2. outSession' = outSession /\ Holding' = Holding /\ HoldsCurrent' = HoldsCurrent /\ GaveUp' = GaveUp
    <2>1. outSession' = outSession
        BY DEF Produce, PutPacket, outVars, Out!AppendItem
    <2> QED
        BY <1>0, <2>1 DEF Holding, HoldsCurrent, GaveUp, SendStopped
<1>3. Handover'
    BY <1>0, <1>1, <1>2 DEF Handover, Opening
<1>4. Fresh' /\ TornLast' /\ NoGap'
    BY <1>0, <1>1, <1>2 DEF Fresh, TornLast, NoGap
<1>5. CASE Undeliverable /\ UNCHANGED outVars
    <2>1. Sequenced'
        BY <1>0, <1>2, <1>5 DEF Sequenced, outVars
    <2>2. NothingDropped'
        BY <1>0, <1>5 DEF NothingDropped, Undeliverable, SendStopped
    <2> QED
        BY <1>3, <1>4, <2>1, <2>2
<1>6. ASSUME NEW kind \in PacketKinds, ~Undeliverable,
             Out!AppendItem([conn |-> accepted, n |-> puts + 1, kind |-> kind])
      PROVE  Order'
    <2>1. connected /\ ~SendStopped
        BY <1>6 DEF Undeliverable
    <2>2. /\ outQueue' = Append(outQueue, [item |-> [conn |-> accepted, n |-> puts + 1, kind |-> kind],
                                           session |-> outSession])
          /\ outQueue \in Seq(OutP!Entries)
        BY <1>6, Queued DEF Out!AppendItem
    <2>3. /\ Len(outQueue') = Len(outQueue) + 1 /\ Len(outQueue) \in Nat
          /\ outQueue'[Len(outQueue')].item.n = puts + 1
          /\ \A i \in 1..Len(outQueue) : outQueue'[i] = outQueue[i]
          /\ outQueue' # <<>>
          /\ outQueue # <<>> => Len(outQueue) >= 1 /\ outQueue'[1] = outQueue[1]
          /\ outQueue = <<>> => outQueue'[1].item.n = puts + 1 /\ Len(outQueue) = 0
        BY <2>2
    <2>4. NothingDropped'
        BY <1>0, <2>3 DEF NothingDropped
    <2>5. Sequenced'
        <3>1. outQueue # <<>> => outQueue[Len(outQueue)].item.n = puts
            BY <2>1 DEF NothingDropped
        <3>2. ASSUME NEW i \in 1..Len(outQueue') - 1
              PROVE  outQueue'[i + 1].item.n = outQueue'[i].item.n + 1
            <4>1. CASE i = Len(outQueue)
                BY <2>3, <3>1, <4>1
            <4>2. CASE i # Len(outQueue)
                <5>1. i \in 1..Len(outQueue) - 1 /\ i \in 1..Len(outQueue) /\ i + 1 \in 1..Len(outQueue)
                    BY <2>3, <4>2
                <5> QED
                    BY <2>3, <5>1 DEF Sequenced
            <4> QED
                BY <4>1, <4>2
        <3>3. HoldsCurrent => outQueue'[1].item.n = sItem.n + 1
            BY <2>1, <2>3 DEF NothingDropped, Sequenced
        <3>4. ~HoldsCurrent /\ ~GaveUp /\ peer[outSession] # "gone"
                  => outQueue'[1].item.n = Len(received[outSession]) + 1
            BY <2>1, <2>3 DEF NothingDropped, Sequenced
        <3>5. Holding /\ peer[sItem.conn] # "gone" => sItem.n = Len(received[sItem.conn]) + 1
            BY DEF Sequenced
        <3> HIDE DEF Order
        <3> QED
            BY <1>0, <1>2, <3>2, <3>3, <3>4, <3>5 DEF Sequenced
    <2> QED
        BY <1>3, <1>4, <2>4, <2>5
<1> QED
    BY <1>5, <1>6 DEF Produce, PutPacket

\* The send worker only moves, keeping its packet and its session, or forgetting one that
\* is not of the current session or that was given up.
Moves ==
    /\ UNCHANGED <<outQueue, outSession, received, torn>>
    /\ connected' => connected
    /\ Holding' => Holding /\ UNCHANGED <<sItem, sSession>>
    /\ HoldsCurrent' <=> HoldsCurrent
    /\ GaveUp => GaveUp'
    /\ sSession' \in {0, sSession}
    /\ spc' \notin {"wait", "get", "done"} => spc \notin {"wait", "get", "done"} /\ sSession' = sSession

\* The steps of the send worker change nothing of the main thread.
LEMMA SendLeaves ==
    ASSUME Send
    PROVE  UNCHANGED <<stopPhase, mpc, puts, sendSession, peer>>
BY SendEffects DEF SendFrame, pcVars, connVars, historyVars, clientVars

\* Such a move keeps the order.
LEMMA MovesOrder == ASSUME Inv, Order, Send, Moves PROVE Order'
<1> USE DEF Order
<1>0. UNCHANGED <<stopPhase, mpc, puts, sendSession, peer>>
    BY SendLeaves
<1> USE DEF Moves
<1>1. Handover'
    BY <1>0, Held, Queued DEF Handover
<1>2. Fresh' /\ TornLast' /\ NoGap'
    BY <1>0 DEF Fresh, TornLast, NoGap
<1>3. HoldsCurrent' => Holding /\ HoldsCurrent /\ sItem' = sItem
    BY DEF HoldsCurrent
<1>4. Sequenced'
    BY <1>0, <1>3 DEF Sequenced
<1>5. NothingDropped'
    BY <1>0, <1>3 DEF NothingDropped, SendStopped
<1> QED
    BY <1>1, <1>2, <1>4, <1>5

\* The loop, the match, a part of a packet and the check of the session are such moves.
LEMMA MoveSteps ==
    ASSUME Inv, Order, Send,
           SendLoop \/ MatchSession \/ SendPart \/ SendCheckSession \/ SendClearConnected
    PROVE  Moves
<1> USE DEF Order, Moves, Holding, HoldsCurrent, GaveUp
<1>0. UNCHANGED <<stopPhase, mpc, puts, sendSession, peer>> /\ outSession \in Nat /\ sSession \in Nat
    BY SendLeaves, Queued, Held
<1>1. CASE SendLoop
    BY <1>0, <1>1 DEF SendLoop, SendGoto, outVars, deliveryVars, SendStopped
<1>2. CASE MatchSession
    BY <1>0, <1>2 DEF MatchSession, SendAgain, outVars, deliveryVars, SendStopped, Handover
<1>3. CASE SendPart
    BY <1>0, <1>3 DEF SendPart, SendGoto, outVars, deliveryVars
<1>4. CASE SendCheckSession
    BY <1>0, <1>4 DEF SendCheckSession, SendGoto, SendAgain, outVars, deliveryVars, SendStopped,
        Handover
<1>5. CASE SendClearConnected
    BY <1>0, <1>5 DEF SendClearConnected, SendAgain, outVars, deliveryVars, SendStopped
<1> QED
    BY <1>1, <1>2, <1>3, <1>4, <1>5

\* get_with_session(): the first packet of the queue is now the one in hand.
LEMMA GetOrder == ASSUME Inv, Order, Send, GetPacket PROVE Order'
<1> USE DEF Order
<1>0. /\ UNCHANGED <<stopPhase, mpc, puts, sendSession, peer, connected, received, torn>>
      /\ spc = "get" /\ ~Holding /\ ~HoldsCurrent /\ ~GaveUp
    BY SendLeaves DEF GetPacket, deliveryVars, Holding, HoldsCurrent, GaveUp
<1>1. CASE outQueue = <<>>
    <2>1. Moves
        BY <1>0, <1>1, Queued, Held
           DEF GetPacket, Out!PopItem, SendAgain, Moves, outVars, Holding, HoldsCurrent, GaveUp, Handover
    <2> QED
        BY <2>1, MovesOrder
<1>2. CASE outQueue # <<>>
    <2> DEFINE head == outQueue[1]
    <2>1. /\ outQueue' = Tail(outQueue) /\ outSession' = outSession
          /\ spc' = "match" /\ sItem' = Head(outQueue).item /\ sSession' = Head(outQueue).session
        BY <1>2 DEF GetPacket, Out!PopItem, SendAgain
    <2>2. /\ outQueue \in Seq(OutP!Entries) /\ Head(outQueue) = head
          /\ head.item.conn = outSession /\ head.session = outSession
          /\ outSession \in Conns
        <3>1. 1 \in 1..Len(outQueue)
            BY <1>2, Queued
        <3> QED
            BY <1>2, <3>1, Queued DEF Inv, Tagged
    <2>3. /\ Len(outQueue') = Len(outQueue) - 1 /\ Len(outQueue) \in Nat \ {0}
          /\ \A i \in 1..Len(outQueue') : outQueue'[i] = outQueue[i + 1]
        BY <1>2, <2>1, <2>2
    <2>4. Holding' /\ HoldsCurrent' /\ sItem'.conn = outSession
        BY <2>1, <2>2 DEF Holding, HoldsCurrent
    <2>5. Handover'
        BY <1>0, <1>2, <2>1, <2>2, Queued DEF Handover
    <2>6. Fresh' /\ NoGap'
        BY <1>0, <2>1 DEF Fresh, NoGap
    <2>7. TornLast'
        BY <1>0, <2>1, <2>4 DEF TornLast
    <2>8. Sequenced'
        <3>1. Holding' /\ peer'[sItem'.conn] # "gone" => sItem'.n = Len(received'[sItem'.conn]) + 1
            BY <1>0, <1>2, <2>1, <2>2 DEF Sequenced
        <3>2. ASSUME NEW i \in 1..Len(outQueue') - 1
              PROVE  outQueue'[i + 1].item.n = outQueue'[i].item.n + 1
            <4>1. i + 1 \in 1..Len(outQueue) - 1 /\ i \in 1..Len(outQueue') /\ i + 1 \in 1..Len(outQueue')
                BY <2>3
            <4> QED
                BY <2>3, <4>1 DEF Sequenced
        <3>3. outQueue' # <<>> => outQueue'[1].item.n = sItem'.n + 1
            <4>1. outQueue' # <<>> => 1 \in 1..Len(outQueue') /\ 1 \in 1..Len(outQueue) - 1
                BY <2>1, <2>2, <2>3
            <4> QED
                BY <2>1, <2>2, <2>3, <4>1 DEF Sequenced
        <3> QED
            BY <2>4, <3>1, <3>2, <3>3 DEF Sequenced
    <2>9. NothingDropped'
        <3>1. ASSUME connected, ~SendStopped, outQueue' # <<>>
              PROVE  outQueue'[Len(outQueue')].item.n = puts
            <4>1. Len(outQueue') \in 1..Len(outQueue')
                BY <2>1, <2>2, <2>3, <3>1
            <4>2. outQueue'[Len(outQueue')] = outQueue[Len(outQueue)]
                BY <2>3, <4>1
            <4> QED
                BY <1>2, <3>1, <4>2 DEF NothingDropped
        <3>2. ASSUME connected, ~SendStopped, outQueue' = <<>>
              PROVE  sItem'.n = puts
            <4>1. Len(outQueue) = 1
                BY <2>3, <3>2
            <4> QED
                BY <1>2, <2>1, <2>2, <3>2, <4>1 DEF NothingDropped
        <3> QED
            BY <1>0, <2>4, <3>1, <3>2 DEF NothingDropped, SendStopped
    <2> QED
        BY <2>5, <2>6, <2>7, <2>8, <2>9
<1> QED
    BY <1>1, <1>2

\* sendmsg() takes the rest of the packet.
LEMMA WholeOrder ==
    ASSUME Inv, Order, Send, SendWhole
    PROVE  Order' /\ \A c \in torn : received'[c] = received[c]
<1> USE DEF Order
<1>0. /\ UNCHANGED <<stopPhase, mpc, puts, sendSession, peer, connected, outQueue, outSession, torn>>
      /\ spc \in {"send", "sending"} /\ Holding /\ ~GaveUp
      /\ spc' = "wait" /\ sSession' = 0 /\ ~Holding' /\ ~HoldsCurrent'
      /\ sItem \in Packets /\ sItem.conn = sSession /\ sSocket = sSession /\ sSession \in Conns
      /\ sSession \in Nat /\ sSession <= outSession /\ outSession \in Nat
      /\ sSession \notin torn
    BY SendLeaves, Held, Queued
       DEF SendWhole, SendAgain, outVars, Holding, HoldsCurrent, GaveUp, Inv, Tagged, Handover, TornLast
<1>1. /\ received \in [Conns -> Seq(Packets)]
      /\ \/ /\ peer[sSession] = "up"
            /\ received' = [received EXCEPT ![sSession] = Append(received[sSession], sItem)]
         \/ peer[sSession] = "gone" /\ received' = received
    BY <1>0 DEF SendWhole, Inv, TypeInv, ClientType
<1>2. \A c \in Conns \ {sSession} : received'[c] = received[c]
    BY <1>0, <1>1
<1>3. \A c \in torn : received'[c] = received[c]
    BY <1>0, <1>2 DEF Inv, TypeInv, ClientType
<1>4. Handover'
    BY <1>0 DEF Handover, AcceptPcs, Opening
<1>5. Fresh'
    BY <1>0, <1>2 DEF Fresh, Handover, Conns
<1>6. TornLast'
    BY <1>0 DEF TornLast
<1>7. ASSUME peer[sSession] = "up"
      PROVE  /\ sItem.n = Len(received[sSession]) + 1
             /\ Len(received'[sSession]) = sItem.n
             /\ received'[sSession] = Append(received[sSession], sItem)
    <2>1. sItem.n = Len(received[sSession]) + 1
        BY <1>0, <1>7 DEF Sequenced
    <2>2. received'[sSession] = Append(received[sSession], sItem) /\ received[sSession] \in Seq(Packets)
        BY <1>0, <1>1, <1>7
    <2> QED
        BY <2>1, <2>2
<1>8. NoGap'
    <2> SUFFICES ASSUME NEW c \in Conns, NEW i \in 1..Len(received'[c])
                 PROVE  received'[c][i].n = i
        BY DEF NoGap
    <2>1. CASE received'[c] = received[c]
        BY <2>1 DEF NoGap
    <2>2. CASE c = sSession /\ peer[sSession] = "up"
        <3>1. /\ received[c] \in Seq(Packets) /\ received'[c] = Append(received[c], sItem)
              /\ sItem.n = Len(received[c]) + 1
            BY <1>0, <1>1, <1>7, <2>2
        <3>2. CASE i = Len(received[c]) + 1
            BY <3>1, <3>2
        <3>3. CASE i # Len(received[c]) + 1
            <4>1. i \in 1..Len(received[c]) /\ received'[c][i] = received[c][i]
                BY <3>1, <3>3
            <4> QED
                BY <4>1 DEF NoGap
        <3> QED
            BY <3>2, <3>3
    <2> QED
        BY <1>1, <1>2, <2>1, <2>2
<1>9. CASE sSession = outSession
    <2>1. HoldsCurrent
        BY <1>0, <1>9 DEF HoldsCurrent
    <2>2. Sequenced'
        BY <1>0, <1>1, <1>7, <1>9, <2>1 DEF Sequenced
    <2>3. NothingDropped'
        BY <1>0, <1>1, <1>7, <1>9, <2>1 DEF NothingDropped, SendStopped
    <2> QED
        BY <1>3, <1>4, <1>5, <1>6, <1>8, <2>2, <2>3
<1>10. CASE sSession # outSession
    <2>1. ~HoldsCurrent
        BY <1>10 DEF HoldsCurrent
    <2>2. outSession \in Conns => received'[outSession] = received[outSession]
        BY <1>2, <1>10
    <2>3. Sequenced'
        BY <1>0, <2>1, <2>2, Queued DEF Sequenced
    <2>4. NothingDropped'
        BY <1>0, <2>1, <2>2 DEF NothingDropped, Handover, SendStopped
    <2> QED
        BY <1>3, <1>4, <1>5, <1>6, <1>8, <2>3, <2>4
<1> QED
    BY <1>9, <1>10

\* A packet is given up, and nothing more is sent in its session.
LEMMA GiveUpOrder == ASSUME Inv, Order, Send, SendFails \/ SendAbandoned PROVE Order'
<1> USE DEF Order
<1>0. /\ UNCHANGED <<stopPhase, mpc, puts, sendSession, peer, connected, outQueue, outSession, received>>
      /\ spc \in {"send", "sending"} /\ Holding /\ ~GaveUp /\ ~Holding' /\ ~HoldsCurrent'
      /\ sSession' \in {0, sSession} /\ sSocket = sSession /\ sSession \in Conns
      /\ sSession \in Nat /\ sSession <= outSession /\ outSession \in Nat
      /\ torn' = torn \/ torn' = torn \cup {sSession}
      /\ spc' \notin {"wait", "get", "done"} => sSession' = sSession
    BY SendLeaves, Held, Queued
       DEF SendFails, SendAbandoned, SendGoto, SendAgain, GiveUp, outVars, Holding, HoldsCurrent,
           GaveUp, Inv, Tagged, Handover
<1>1. sSession = outSession => GaveUp'
    BY <1>0 DEF SendFails, SendAbandoned, SendGoto, SendAgain, GaveUp, SendStopped
<1>2. Handover'
    BY <1>0 DEF Handover, AcceptPcs, Opening
<1>3. Fresh'
    BY <1>0 DEF Fresh, Handover, Conns
<1>4. TornLast'
    BY <1>0, <1>1 DEF TornLast
<1>5. NoGap'
    BY <1>0 DEF NoGap
<1>6. ~GaveUp' => ~HoldsCurrent
    BY <1>1 DEF HoldsCurrent
<1>7. Sequenced'
    BY <1>0, <1>6 DEF Sequenced
<1>8. NothingDropped'
    BY <1>0, <1>6 DEF NothingDropped, SendStopped
<1> QED
    BY <1>2, <1>3, <1>4, <1>5, <1>7, <1>8

\* Nothing is on its way at the start.
LEMMA StartOrder == Init => Order
<1> SUFFICES ASSUME Init PROVE Order
    OBVIOUS
<1>1. ~connected
    BY Zenon DEF Init
<1>2. Handover /\ Fresh /\ NoGap
    BY <1>1 DEF Init, Handover, Fresh, NoGap, Out!QueueInit, Between, AcceptPcs, Opening
<1>3. Sequenced /\ NothingDropped /\ TornLast
    BY <1>1 DEF Init, Sequenced, NothingDropped, TornLast, Holding, HoldsCurrent, Out!QueueInit
<1> QED
    BY <1>2, <1>3 DEF Order

\* Every step keeps the order of the packets.
LEMMA StepOrder == Inv /\ Order /\ [Next]_vars => Order'
<1> SUFFICES ASSUME Inv, Order, [Next]_vars PROVE Order'
    OBVIOUS
<1>1. CASE Main
    BY <1>1, MainSteps, AcceptOrder, SessionOrder, TupleOrder, ConnectedOrder, ClearOrder,
       ProduceOrder, QuietOrder
<1>2. CASE Recv \/ Stop \/ Client
    BY <1>2, OthersQuiet, QuietOrder
<1>3. CASE Send
    BY <1>3, MoveSteps, MovesOrder, GetOrder, WholeOrder, GiveUpOrder DEF Send
<1>4. CASE UNCHANGED vars
    <2>1. Quiet
        BY <1>4 DEF Quiet, vars, pcVars, connVars, historyVars, outVars, sendVars, clientVars,
            deliveryVars, SendStopped
    <2> QED
        BY <2>1, QuietOrder
<1> QED
    BY <1>1, <1>2, <1>3, <1>4 DEF Next

\* What has been received of a connection on which a packet was torn never grows.
LEMMA TornStep == Inv /\ Order /\ [Next]_vars => [\A c \in torn : received'[c] = received[c]]_vars
<1> SUFFICES ASSUME Inv, Order, Next PROVE \A c \in torn : received'[c] = received[c]
    OBVIOUS
<1>1. CASE SendWhole
    <2>1. Send
        BY <1>1 DEF Send
    <2> QED
        BY <1>1, <2>1, WholeOrder
<1>2. SendWhole \/ received' = received
    <2>1. CASE Main
        BY <2>1, MainEffects DEF Inv, TypeInv, RecvType, MainFrame, deliveryVars
    <2>2. CASE Recv
        BY <2>2, RecvEffects DEF RecvFrame, deliveryVars
    <2>3. CASE Stop \/ Client
        BY <2>3, OutsideEffects DEF OutsideFrame, deliveryVars
    <2>4. CASE Send
        BY <2>4 DEF Send, SendLoop, GetPacket, MatchSession, SendPart, SendFails, SendAbandoned,
               SendCheckSession, SendClearConnected, GiveUp, deliveryVars
    <2> QED
        BY <2>1, <2>2, <2>3, <2>4 DEF Next
<1> QED
    BY <1>1, <1>2

\* However the threads interleave, and whatever is dropped when a connection ends or the
\* server stops, a client receives the packets that were produced for it in order and
\* without a gap (memory_queue.py: put, clear; send_worker.py: _run).
THEOREM PacketsInOrder == SafeSpec => []NoGap
<1>1. Order => NoGap
    BY DEF Order
<1> QED
    BY <1>1, StartInv, StepInv, StartOrder, StepOrder, PTL DEF SafeSpec

\* Once a packet was abandoned half way, nothing else is sent on its connection
\* (send_worker.py: _sendmsg_all, _run).
THEOREM TornPacketIsLast == SafeSpec => NothingAfterTorn
BY StartInv, StepInv, StartOrder, StepOrder, TornStep, PTL DEF SafeSpec, NothingAfterTorn

-----------------------------------------------------------------------------
(* Whose commands are executed.                                             *)

\* The main thread serves the client that the receive worker reads from, and once past
\* the handshake, the one that answered it.
Served ==
    /\ mpc \notin {"accept", "assign", "done", "interrupted"} => recvSocket = accepted
    /\ mpc \in {"loop", "get"} \cup CommandPcs \/ (mpc \in ClosePcs /\ ret = "loop")
           => ackFrom = accepted

\* Nobody is served at the start.
LEMMA StartServed == Init => Served
BY DEF Init, Served, CommandPcs, ClosePcs

\* Only an answer to the handshake leads to the main loop, and only the main loop leads
\* to a command or to a logout.
LEMMA ServedStep == Inv /\ Served /\ [Next]_vars => Served'
<1> SUFFICES ASSUME Inv, Served, [Next]_vars PROVE Served'
    OBVIOUS
<1> USE DEF Served
<1>a. ASSUME UNCHANGED <<recvSocket, accepted, ackFrom, ret>>, mpc' = mpc \/ mpc' = "interrupted"
      PROVE  Served'
    BY <1>a DEF CommandPcs, ClosePcs
<1>1. CASE Main
    <2>1. CASE Accept \/ AcceptStops \/ SetTimeoutFails
        BY <2>1 DEF Accept, AcceptStops, SetTimeoutFails, Goto, CommandPcs, ClosePcs
    <2>2. CASE AssignReceiver
        BY <2>2 DEF AssignReceiver, Goto, CommandPcs, ClosePcs, Inv, SessionsCounted
    <2>3. CASE StartSession \/ ReplaceSession \/ SetConnected
        BY <2>3 DEF StartSession, ReplaceSession, SetConnected, Goto, connVars, historyVars,
               CommandPcs, ClosePcs
    <2>4. CASE CloseSocket \/ ClearConnected \/ ClearInput \/ ClearOutput
        BY <2>4 DEF CloseSocket, ClearConnected, ClearInput, ClearOutput, Goto, connVars,
               historyVars, CommandPcs, ClosePcs, Inv, TypeInv, MainType
    <2>5. ASSUME NEW here \in CommandPcs, NEW kind, NEW next \in CommandPcs \cup {"loop"},
                 PutThen(here, kind, next)
          PROVE  Served'
        BY <2>5 DEF PutThen, Goto, connVars, CommandPcs, ClosePcs
    <2>6. CASE AnswerQuery \/ ApplyConfiguration \/ ConfigureRun \/ SendHeader \/ EndRun
        <3> HIDE DEF Served
        <3> QED
            BY <2>5, <2>6 DEF AnswerQuery, ApplyConfiguration, ConfigureRun, SendHeader, EndRun,
                   CommandPcs
    <2>7. CASE Greet
        BY <2>7 DEF Greet, PutThen, Goto, connVars, CommandPcs, ClosePcs
    <2>8. CASE RunExperiment \/ EndIteration
        BY <2>5, <2>8 DEF RunExperiment, EndIteration, Decide, Goto, connVars, historyVars,
               CommandPcs, ClosePcs
    <2>9. CASE \/ HandshakeLoop \/ HandshakeTimeout \/ HandshakeEmpty \/ MainLoop \/ MainEmpty
               \/ SweepPoint
        BY <2>9 DEF HandshakeLoop, HandshakeTimeout, HandshakeEmpty, MainLoop, MainEmpty, SweepPoint,
               Decide, BeginClose, Goto, connVars, historyVars, CommandPcs, ClosePcs
    <2>10. CASE HandshakeAnswer
        BY <2>10 DEF HandshakeAnswer, GetMessage, InService, CheckAnswer, BeginClose, Goto, pcVars,
               connVars, CommandPcs, ClosePcs
    <2>11. CASE MainMessage
        BY <2>11 DEF MainMessage, GetMessage, Process, BeginClose, Goto, pcVars, connVars,
               CommandPcs, ClosePcs
    <2> QED
        BY <1>1, <2>1, <2>2, <2>3, <2>4, <2>6, <2>7, <2>8, <2>9, <2>10, <2>11 DEF Main
<1>2. CASE Recv
    BY <1>a, <1>2, RecvEffects DEF RecvFrame, pcVars, connVars, historyVars
<1>3. CASE Send
    BY <1>a, <1>3, SendEffects DEF SendFrame, pcVars, connVars, historyVars
<1>4. CASE Stop \/ Client
    <2>1. mpc' = mpc \/ mpc' = "interrupted"
        BY <1>4 DEF Stop, CallStop, StopClosesSockets, StopWorkers, Client, Goto
    <2> QED
        BY <1>a, <1>4, <2>1, OutsideEffects DEF OutsideFrame, connVars, historyVars
<1>5. CASE UNCHANGED vars
    BY <1>a, <1>5 DEF vars, pcVars, connVars, historyVars
<1> QED
    BY <1>1, <1>2, <1>3, <1>4, <1>5 DEF Next

\* The main loop leaves the get with a message only to execute it.
LEMMA OwnStep ==
    ASSUME Inv, Served, Next, mpc = "get", mpc' \notin {"get", "loop", "interrupted"}
    PROVE  Head(inQueue).conn = accepted /\ ackFrom = accepted
<1>1. CASE Main
    <2>1. CASE MainMessage
        BY <2>1 DEF MainMessage, GetMessage, InService, pcVars, Served
    <2>2. CASE MainEmpty
        BY <2>2 DEF MainEmpty, Goto
    <2>3. ASSUME NEW here, NEW kind, NEW next, PutThen(here, kind, next), here # "get"
          PROVE  FALSE
        BY <2>3 DEF PutThen
    <2>4. ASSUME NEW here, Decide(here), here # "get" PROVE FALSE
        BY <2>4 DEF Decide
    <2>5. MainMessage \/ MainEmpty
        BY <1>1, <2>3, <2>4
           DEF Main, Accept, AcceptStops, SetTimeoutFails, AssignReceiver, StartSession,
               ReplaceSession, SetConnected, Greet, HandshakeLoop, HandshakeTimeout, HandshakeEmpty,
               HandshakeAnswer, GetMessage, MainLoop, AnswerQuery, ApplyConfiguration, ConfigureRun,
               SendHeader, SweepPoint, RunExperiment, EndIteration, EndRun, CloseSocket,
               ClearConnected, ClearInput, ClearOutput
    <2> QED
        BY <2>1, <2>2, <2>5
<1>2. CASE Recv \/ Send
    BY <1>2, RecvEffects, SendEffects DEF RecvFrame, SendFrame, pcVars
<1>3. CASE Stop \/ Client
    BY <1>3 DEF Stop, CallStop, StopClosesSockets, StopWorkers, Client, Goto
<1> QED
    BY <1>1, <1>2, <1>3 DEF Next

\* A command is executed only for the client that sent it and that answered the handshake
\* of its own connection, whatever earlier clients left behind in the input queue
\* (receive_worker.py: get; fireq_server.py: _perform_handshake, _main_loop).
THEOREM CommandsAreOwn == SafeSpec => OwnCommands
<1>1. Inv /\ Served /\ [Next]_vars =>
          [mpc = "get" /\ mpc' \notin {"get", "loop", "interrupted"} =>
               Head(inQueue).conn = accepted /\ ackFrom = accepted]_vars
    BY OwnStep
<1> QED
    BY <1>1, StartInv, StepInv, StartServed, ServedStep, PTL DEF SafeSpec, OwnCommands

-----------------------------------------------------------------------------
(* The phases of a sequence of packets.  Phase is a recursive function: that  *)
(* it has the values that its equation gives it is an induction, on a set of  *)
(* natural numbers.                                                          *)

\* The order of the natural numbers, as a relation.
Below == {p \in Nat \X Nat : p[1] < p[2]}

\* Induction on a set of natural numbers.
LEMMA SetInduction ==
    ASSUME NEW T, T \subseteq Nat, 0 \in T, \A n \in T : n + 1 \in T
    PROVE  T = Nat
<1> DEFINE U == Nat \ T
<1>1. IsWellFoundedOn(Below, Nat)
    <2>1. OpToRel(<, Nat) = Below
        BY Zenon DEF OpToRel, Below
    <2> QED
        BY Zenon, <2>1, NatLessThanWellFounded
<1>2. SUFFICES ASSUME U # {} PROVE FALSE
    OBVIOUS
<1>3. U \subseteq Nat
    OBVIOUS
<1> HIDE DEF U
<1>4. PICK x \in U : \A y \in U : ~(<<y, x>> \in Below)
    BY Zenon, <1>1, <1>2, <1>3, WFMin
<1>5. x \in Nat /\ x # 0 /\ x - 1 \in Nat
    BY <1>3, <1>4 DEF U
<1>6. x - 1 \notin U
    <2>1. <<x - 1, x>> \in Below
        BY <1>5 DEF Below
    <2> QED
        BY <1>4, <2>1
<1>7. x - 1 \in T /\ (x - 1) + 1 = x
    BY <1>5, <1>6 DEF U
<1> QED
    BY <1>4, <1>7 DEF U

\* f says what is known after each of the first n packets.
Walks(f, kinds, n) ==
    f = [i \in 0..n |-> IF i = 0 THEN "fresh" ELSE Protocol!After(f[i - 1], kinds[i])]

\* There is such a function,
LEMMA WalkExists == ASSUME NEW kinds, NEW n \in Nat PROVE \E f : Walks(f, kinds, n)
<1> DEFINE T == {m \in Nat : \E f : Walks(f, kinds, m)}
<1>1. 0 \in T
    <2> DEFINE f == [i \in 0..0 |-> "fresh"]
    <2>1. f = [i \in 0..0 |-> IF i = 0 THEN "fresh" ELSE Protocol!After(f[i - 1], kinds[i])]
        OBVIOUS
    <2> QED
        BY <2>1 DEF Walks
<1>2. ASSUME NEW m \in T PROVE m + 1 \in T
    <2>1. PICK f : Walks(f, kinds, m)
        OBVIOUS
    <2> DEFINE g == [i \in 0..m + 1 |->
                        IF i = m + 1 THEN Protocol!After(f[m], kinds[i]) ELSE f[i]]
    <2>2. ASSUME NEW i \in 0..m + 1
          PROVE  g[i] = IF i = 0 THEN "fresh" ELSE Protocol!After(g[i - 1], kinds[i])
        <3>1. m \in Nat /\ i \in Nat
            OBVIOUS
        <3>2. CASE i = 0
            BY <2>1, <3>1, <3>2 DEF Walks
        <3>3. CASE i = m + 1
            <4>1. i # 0 /\ i - 1 = m /\ m \in 0..m + 1 /\ m # m + 1
                BY <3>1, <3>3
            <4>2. g[i - 1] = f[m]
                BY <4>1
            <4> QED
                BY <3>3, <4>1, <4>2
        <3>4. CASE i # 0 /\ i # m + 1
            <4>1. i \in 0..m /\ i - 1 \in 0..m + 1 /\ i - 1 # m + 1
                BY <3>1, <3>4
            <4>2. g[i] = f[i] /\ g[i - 1] = f[i - 1]
                BY <3>4, <4>1
            <4>3. f[i] = Protocol!After(f[i - 1], kinds[i])
                BY <2>1, <3>4, <4>1 DEF Walks
            <4> QED
                BY <3>4, <4>2, <4>3
        <3> QED
            BY <3>2, <3>3, <3>4
    <2> HIDE DEF g
    <2>3. g = [i \in 0..m + 1 |->
                  IF i = 0 THEN "fresh" ELSE Protocol!After(g[i - 1], kinds[i])]
        <3>1. g = [i \in 0..m + 1 |-> g[i]]
            BY DEF g
        <3> QED
            BY <2>2, <3>1
    <2>4. m + 1 \in Nat
        OBVIOUS
    <2> QED
        BY <2>3, <2>4 DEF Walks
<1>3. T \subseteq Nat
    OBVIOUS
<1> HIDE DEF T
<1>4. T = Nat
    BY <1>1, <1>2, <1>3, SetInduction
<1> QED
    BY <1>4 DEF T

\* which is what Phase chooses.
LEMMA PhaseOfWalk ==
    ASSUME NEW kinds, Len(kinds) \in Nat
    PROVE  \E f : Walks(f, kinds, Len(kinds)) /\ Protocol!Phase(kinds) = f[Len(kinds)]
<1> DEFINE phase == CHOOSE f : f = [i \in 0..Len(kinds) |->
                        IF i = 0 THEN "fresh" ELSE Protocol!After(f[i - 1], kinds[i])]
<1>1. Protocol!Phase(kinds) = phase[Len(kinds)]
    BY DEF Protocol!Phase
<1>2. Walks(phase, kinds, Len(kinds))
    BY WalkExists DEF Walks
<1> QED
    BY <1>1, <1>2

\* What is known after the same packets is the same.
LEMMA WalksAgree ==
    ASSUME NEW kinds, NEW more, NEW m \in Nat, NEW n \in Nat, NEW f, NEW g,
           Walks(f, kinds, m), Walks(g, more, n), m <= n,
           \A i \in 1..m : kinds[i] = more[i]
    PROVE  \A i \in 0..m : f[i] = g[i]
<1> DEFINE T == {k \in Nat : k <= m => f[k] = g[k]}
<1>1. 0 \in T
    BY DEF Walks
<1>2. ASSUME NEW k \in T PROVE k + 1 \in T
    <2> SUFFICES ASSUME k + 1 <= m PROVE f[k + 1] = g[k + 1]
        OBVIOUS
    <2>1. k \in Nat /\ f[k] = g[k]
        OBVIOUS
    <2>2. k + 1 \in 0..m /\ k + 1 \in 0..n /\ k + 1 # 0 /\ (k + 1) - 1 = k /\ k + 1 \in 1..m
        BY <2>1
    <2>3. f[k + 1] = Protocol!After(f[k], kinds[k + 1])
        BY <2>2 DEF Walks
    <2>4. g[k + 1] = Protocol!After(g[k], more[k + 1])
        BY <2>2 DEF Walks
    <2> QED
        BY <2>1, <2>2, <2>3, <2>4
<1>3. T \subseteq Nat
    OBVIOUS
<1> HIDE DEF T
<1>4. T = Nat
    BY <1>1, <1>2, <1>3, SetInduction
<1> QED
    BY <1>4 DEF T

\* A client that has received nothing knows nothing.
LEMMA PhaseOfNothing == Protocol!Phase(<<>>) = "fresh"
<1>1. Len(<<>>) = 0 /\ 0 \in Nat
    OBVIOUS
<1>2. PICK f : Walks(f, <<>>, 0) /\ Protocol!Phase(<<>>) = f[0]
    BY <1>1, PhaseOfWalk
<1> QED
    BY <1>2 DEF Walks

\* A packet moves the phase.
LEMMA PhaseAppend ==
    ASSUME NEW S, NEW kinds \in Seq(S), NEW kind \in S
    PROVE  Protocol!Phase(Append(kinds, kind)) = Protocol!After(Protocol!Phase(kinds), kind)
<1> DEFINE more == Append(kinds, kind)
           n == Len(kinds)
<1>1. /\ n \in Nat /\ Len(more) = n + 1 /\ more[n + 1] = kind
      /\ \A i \in 1..n : kinds[i] = more[i]
    OBVIOUS
<1>2. PICK f : Walks(f, kinds, n) /\ Protocol!Phase(kinds) = f[n]
    BY <1>1, PhaseOfWalk
<1> HIDE DEF more, n
<1>3. PICK g : Walks(g, more, n + 1) /\ Protocol!Phase(more) = g[n + 1]
    BY <1>1, PhaseOfWalk
<1>4. f[n] = g[n]
    <2>1. n + 1 \in Nat /\ n <= n + 1 /\ n \in 0..n
        BY <1>1
    <2> QED
        BY <1>1, <1>2, <1>3, <2>1, WalksAgree
<1>5. g[n + 1] = Protocol!After(g[n], more[n + 1])
    <2>1. n + 1 \in 0..n + 1 /\ n + 1 # 0 /\ (n + 1) - 1 = n
        BY <1>1
    <2> QED
        BY <1>3, <2>1 DEF Walks
<1> QED
    BY <1>1, <1>2, <1>3, <1>4, <1>5 DEF more

\* Nothing is legal after what is not.
LEMMA Lawful ==
    ASSUME NEW phase, NEW kind, Protocol!After(phase, kind) # "illegal"
    PROVE  phase # "illegal" /\ kind \in Protocol!Kinds
BY DEF Protocol!After, Protocol!Moves, Protocol!Kinds

\* So what comes before legal packets is legal.
LEMMA PhasePrefix ==
    ASSUME NEW kinds, NEW more, Len(kinds) \in Nat, Len(more) \in Nat, Len(kinds) <= Len(more),
           \A i \in 1..Len(kinds) : kinds[i] = more[i],
           Protocol!Phase(more) # "illegal"
    PROVE  Protocol!Phase(kinds) # "illegal"
<1> DEFINE m == Len(kinds)
           n == Len(more)
<1>1. PICK f : Walks(f, kinds, m) /\ Protocol!Phase(kinds) = f[m]
    BY PhaseOfWalk
<1>2. PICK g : Walks(g, more, n) /\ Protocol!Phase(more) = g[n]
    BY PhaseOfWalk
<1> HIDE DEF m, n
<1>3. m \in Nat /\ n \in Nat /\ m <= n /\ \A i \in 1..m : kinds[i] = more[i]
    BY DEF m, n
<1>4. f[m] = g[m]
    <2>1. m \in 0..m
        BY <1>3
    <2> QED
        BY <1>1, <1>2, <1>3, <2>1, WalksAgree
<1> DEFINE T == {k \in Nat : k <= n => g[n - k] # "illegal"}
<1>5. 0 \in T
    BY <1>2, <1>3
<1>6. ASSUME NEW k \in T PROVE k + 1 \in T
    <2> SUFFICES ASSUME k + 1 <= n PROVE g[n - (k + 1)] # "illegal"
        OBVIOUS
    <2>1. k \in Nat /\ k <= n /\ g[n - k] # "illegal"
        BY <1>3
    <2>2. n - k \in 0..n /\ n - k # 0 /\ (n - k) - 1 = n - (k + 1)
        BY <1>3, <2>1
    <2>3. g[n - k] = Protocol!After(g[n - (k + 1)], more[n - k])
        BY <1>2, <2>2 DEF Walks
    <2> QED
        BY <2>1, <2>3, Lawful
<1>7. T \subseteq Nat
    OBVIOUS
<1> HIDE DEF T
<1>8. T = Nat
    BY <1>5, <1>6, <1>7, SetInduction
<1>9. n - m \in T /\ n - (n - m) = m /\ n - m <= n
    BY <1>3, <1>8
<1> QED
    BY <1>1, <1>4, <1>9 DEF T

-----------------------------------------------------------------------------
(* What the current client has received, what the send worker has in hand and *)
(* what is queued are one conversation.                                      *)

ItemsOf(entries) == [i \in 1..Len(entries) |-> entries[i].item]
InHand == IF HoldsCurrent THEN <<sItem>> ELSE <<>>
Sent == (received[outSession] \o InHand) \o ItemsOf(outQueue)

\* It is legal, and while packets can be delivered it ends where the main thread is.
Spoken ==
    outSession \in Conns /\ ~GaveUp /\ peer[outSession] # "gone" =>
        /\ Protocol!Phase(KindsOf(Sent)) # "illegal"
        /\ connected /\ ~SendStopped => Protocol!Phase(KindsOf(Sent)) \in Reached(mpc)

\* A connection is over before the next one begins, and its socket is closed.
Turn ==
    /\ clientSocket \in {0, accepted}
    /\ \A c \in Conns : c < accepted \/ (c = accepted /\ clientSocket = 0) => c \in closed
    /\ mpc \in {"accept", "done", "close_event", "close_in", "close_out"} => clientSocket = 0

\* The kinds of packets are as many as the packets.
LEMMA KindsOfPackets ==
    ASSUME NEW s \in Seq(Packets)
    PROVE  /\ KindsOf(s) \in Seq(PacketKinds)
           /\ Len(KindsOf(s)) = Len(s) /\ Len(s) \in Nat
           /\ \A i \in 1..Len(s) : KindsOf(s)[i] = s[i].kind
<1>1. Len(s) \in Nat /\ DOMAIN s = 1..Len(s) /\ \A i \in 1..Len(s) : s[i].kind \in PacketKinds
    <2>1. \A p \in Packets : p.kind \in PacketKinds
        BY DEF Packets
    <2>2. \A i \in 1..Len(s) : s[i] \in Packets
        BY ElementOfSeq
    <2> QED
        BY <2>1, <2>2, LenProperties
<1>2. KindsOf(s) = [i \in 1..Len(s) |-> s[i].kind]
    BY <1>1 DEF KindsOf
<1> QED
    BY <1>1, <1>2

\* One packet more is one kind more.
LEMMA KindsOfAppend ==
    ASSUME NEW s \in Seq(Packets), NEW p \in Packets
    PROVE  KindsOf(Append(s, p)) = Append(KindsOf(s), p.kind)
<1> DEFINE a == KindsOf(Append(s, p))
           b == Append(KindsOf(s), p.kind)
<1>1. Append(s, p) \in Seq(Packets) /\ Len(Append(s, p)) = Len(s) + 1 /\ p.kind \in PacketKinds
    BY DEF Packets
<1>2. a \in Seq(PacketKinds) /\ Len(a) = Len(s) + 1 /\ \A i \in 1..Len(a) : a[i] = Append(s, p)[i].kind
    BY <1>1, KindsOfPackets
<1>3. b \in Seq(PacketKinds) /\ Len(b) = Len(s) + 1
    BY <1>1, KindsOfPackets
<1>4. ASSUME NEW i \in 1..Len(s) + 1 PROVE a[i] = b[i]
    <2>1. CASE i = Len(s) + 1
        <3>1. Append(s, p)[i] = p /\ b[i] = p.kind
            BY <1>1, <2>1, KindsOfPackets, AppendProperties
        <3> QED
            BY <1>2, <3>1
    <2>2. CASE i # Len(s) + 1
        <3>1. i \in 1..Len(s)
            BY <2>2, KindsOfPackets
        <3>2. Append(s, p)[i] = s[i] /\ b[i] = KindsOf(s)[i]
            BY <1>1, <3>1, KindsOfPackets, AppendProperties
        <3> QED
            BY <1>2, <3>1, <3>2, KindsOfPackets
    <2> QED
        BY <2>1, <2>2
<1> HIDE DEF a, b
<1>5. a = b
    BY <1>2, <1>3, <1>4, SeqEqual
<1> QED
    BY <1>5 DEF a, b

\* What is before more packets is legal if all is.
LEMMA LegalPrefix ==
    ASSUME NEW s \in Seq(Packets), NEW t \in Seq(Packets),
           Protocol!Phase(KindsOf(s \o t)) # "illegal"
    PROVE  Protocol!Phase(KindsOf(s)) # "illegal"
<1>1. /\ s \o t \in Seq(Packets) /\ Len(s \o t) = Len(s) + Len(t)
      /\ \A i \in 1..Len(s) : (s \o t)[i] = s[i]
      /\ Len(s) \in Nat /\ Len(t) \in Nat
    BY ConcatProperties
<1>2. /\ Len(KindsOf(s)) = Len(s) /\ Len(KindsOf(s \o t)) = Len(s) + Len(t)
      /\ \A i \in 1..Len(s) : KindsOf(s)[i] = KindsOf(s \o t)[i]
    <2>1. \A i \in 1..Len(s) : i \in 1..Len(s \o t)
        BY <1>1
    <2>2. \A i \in 1..Len(s \o t) : KindsOf(s \o t)[i] = (s \o t)[i].kind
        BY <1>1, KindsOfPackets
    <2>3. Len(KindsOf(s)) = Len(s) /\ Len(KindsOf(s \o t)) = Len(s) + Len(t)
        BY <1>1, KindsOfPackets
    <2>4. \A i \in 1..Len(s) : KindsOf(s)[i] = s[i].kind
        BY KindsOfPackets
    <2> QED
        BY <1>1, <2>1, <2>2, <2>3, <2>4
<1> QED
    BY <1>1, <1>2, PhasePrefix

\* The items of the queue are packets; they follow it.
LEMMA Items ==
    ASSUME NEW q \in Seq(OutP!Entries)
    PROVE  /\ ItemsOf(q) \in Seq(Packets)
           /\ q = <<>> => ItemsOf(q) = <<>>
           /\ q # <<>> => ItemsOf(q) = <<Head(q).item>> \o ItemsOf(Tail(q)) /\ Head(q).item \in Packets
           /\ \A e \in OutP!Entries : ItemsOf(Append(q, e)) = ItemsOf(q) \o <<e.item>>
<1>1. ASSUME NEW r \in Seq(OutP!Entries)
      PROVE  /\ ItemsOf(r) \in Seq(Packets) /\ Len(ItemsOf(r)) = Len(r) /\ Len(r) \in Nat
             /\ \A i \in 1..Len(r) : ItemsOf(r)[i] = r[i].item
    <2>1. \A e \in OutP!Entries : e.item \in Packets
        BY DEF OutP!Entries
    <2>2. Len(r) \in Nat /\ \A i \in 1..Len(r) : r[i] \in OutP!Entries
        BY ElementOfSeq, LenProperties
    <2> QED
        BY <2>1, <2>2 DEF ItemsOf
<1>2. q = <<>> => ItemsOf(q) = <<>>
    BY DEF ItemsOf
<1>3. ASSUME q # <<>>
      PROVE  ItemsOf(q) = <<Head(q).item>> \o ItemsOf(Tail(q)) /\ Head(q).item \in Packets
    <2>1. /\ Head(q) = q[1] /\ Head(q) \in OutP!Entries /\ Tail(q) \in Seq(OutP!Entries)
          /\ Len(Tail(q)) = Len(q) - 1 /\ \A i \in 1..Len(q) - 1 : Tail(q)[i] = q[i + 1]
          /\ Len(q) \in Nat \ {0}
        BY <1>3
    <2>2. Head(q).item \in Packets
        BY <2>1 DEF OutP!Entries
    <2> DEFINE h == <<Head(q).item>>
               r == ItemsOf(Tail(q))
               a == ItemsOf(q)
    <2>3. /\ h \in Seq(Packets) /\ Len(h) = 1 /\ h[1] = q[1].item
          /\ r \in Seq(Packets) /\ Len(r) = Len(q) - 1
          /\ \A i \in 1..Len(q) - 1 : r[i] = q[i + 1].item
          /\ a \in Seq(Packets) /\ Len(a) = Len(q) /\ \A i \in 1..Len(q) : a[i] = q[i].item
        <3>1. h \in Seq(Packets) /\ Len(h) = 1 /\ h[1] = q[1].item
            BY <2>1, <2>2
        <3>2. r \in Seq(Packets) /\ Len(r) = Len(q) - 1 /\ \A i \in 1..Len(q) - 1 : r[i] = q[i + 1].item
            <4>1. r \in Seq(Packets) /\ Len(r) = Len(q) - 1
                BY <1>1, <2>1
            <4>2. \A i \in 1..Len(q) - 1 : r[i] = Tail(q)[i].item
                BY <1>1, <2>1
            <4> QED
                BY <2>1, <4>1, <4>2
        <3>3. a \in Seq(Packets) /\ Len(a) = Len(q) /\ \A i \in 1..Len(q) : a[i] = q[i].item
            BY <1>1
        <3> QED
            BY <3>1, <3>2, <3>3
    <2> HIDE DEF h, r, a
    <2>4. /\ h \o r \in Seq(Packets) /\ Len(h \o r) = Len(q)
          /\ \A i \in 1..Len(q) : (h \o r)[i] = IF i <= 1 THEN h[i] ELSE r[i - 1]
        <3>1. Len(h) + Len(r) = Len(q)
            BY <2>1, <2>3
        <3>2. /\ h \o r \in Seq(Packets) /\ Len(h \o r) = Len(h) + Len(r)
              /\ \A i \in 1..Len(h) + Len(r) :
                     (h \o r)[i] = IF i <= Len(h) THEN h[i] ELSE r[i - Len(h)]
            <4>1. h \in Seq(Packets) /\ r \in Seq(Packets)
                BY <2>3
            <4> QED
                BY <4>1, ConcatProperties
        <3> QED
            BY <2>3, <3>1, <3>2
    <2>5. ASSUME NEW i \in 1..Len(q) PROVE a[i] = (h \o r)[i]
        <3>1. CASE i = 1
            BY <2>3, <2>4, <3>1
        <3>2. CASE i # 1
            <4>1. i - 1 \in 1..Len(q) - 1 /\ (i - 1) + 1 = i /\ ~(i <= 1)
                BY <2>1, <3>2
            <4> QED
                BY <2>3, <2>4, <4>1
        <3> QED
            BY <3>1, <3>2
    <2>6. a = h \o r
        BY <2>3, <2>4, <2>5, SeqEqual
    <2> QED
        BY <2>2, <2>6 DEF a, h, r
<1>4. ASSUME NEW e \in OutP!Entries PROVE ItemsOf(Append(q, e)) = ItemsOf(q) \o <<e.item>>
    <2> DEFINE more == Append(q, e)
               a == ItemsOf(more)
               b == ItemsOf(q)
    <2>1. /\ more \in Seq(OutP!Entries) /\ Len(more) = Len(q) + 1 /\ more[Len(q) + 1] = e
          /\ \A i \in 1..Len(q) : more[i] = q[i]
        BY AppendProperties
    <2>2. e.item \in Packets
        BY DEF OutP!Entries
    <2>3. /\ a \in Seq(Packets) /\ Len(a) = Len(q) + 1 /\ \A i \in 1..Len(q) + 1 : a[i] = more[i].item
          /\ b \in Seq(Packets) /\ Len(b) = Len(q) /\ \A i \in 1..Len(q) : b[i] = q[i].item
          /\ Len(q) \in Nat
        BY <1>1, <2>1
    <2> HIDE DEF a, b, more
    <2>4. /\ Append(b, e.item) \in Seq(Packets) /\ Len(Append(b, e.item)) = Len(q) + 1
          /\ \A i \in 1..Len(q) : Append(b, e.item)[i] = b[i]
          /\ Append(b, e.item)[Len(q) + 1] = e.item
        BY <2>2, <2>3, AppendProperties
    <2>5. ASSUME NEW i \in 1..Len(q) + 1 PROVE a[i] = Append(b, e.item)[i]
        <3>1. CASE i = Len(q) + 1
            BY <2>1, <2>3, <2>4, <3>1
        <3>2. CASE i # Len(q) + 1
            <4>1. i \in 1..Len(q)
                BY <2>3, <3>2
            <4> QED
                BY <2>1, <2>3, <2>4, <4>1
        <3> QED
            BY <3>1, <3>2
    <2>6. a = Append(b, e.item)
        BY <2>3, <2>4, <2>5, SeqEqual
    <2>7. a = b \o <<e.item>>
        BY <2>2, <2>3, <2>6, AppendIsConcat
    <2> QED
        BY <2>7 DEF a, b, more
<1> QED
    BY <1>1, <1>2, <1>3, <1>4

\* The parts of the conversation are packets.
LEMMA SentPackets ==
    ASSUME Inv, outSession \in Conns
    PROVE  /\ received[outSession] \in Seq(Packets) /\ InHand \in Seq(Packets)
           /\ ItemsOf(outQueue) \in Seq(Packets) /\ Sent \in Seq(Packets)
<1>1. received[outSession] \in Seq(Packets) /\ ItemsOf(outQueue) \in Seq(Packets)
    BY Held, Queued, Items
<1>2. InHand \in Seq(Packets)
    <2>1. CASE HoldsCurrent
        <3>1. sItem \in Packets
            BY <2>1, Held DEF HoldsCurrent
        <3> QED
            BY <2>1, <3>1 DEF InHand
    <2>2. CASE ~HoldsCurrent
        BY <2>2 DEF InHand
    <2> QED
        BY <2>1, <2>2
<1>3. received[outSession] \o InHand \in Seq(Packets)
    BY <1>1, <1>2, ConcatProperties
<1> QED
    BY <1>1, <1>2, <1>3, ConcatProperties DEF Sent

\* While the conversation is the same and the main thread goes on as it should, what was
\* legal is.
LEMMA SameSpoken ==
    ASSUME Spoken, outSession' = outSession,
           Sent' = Sent,
           GaveUp => GaveUp',
           outSession \in Conns /\ peer'[outSession] # "gone" => peer[outSession] # "gone",
           connected' /\ ~SendStopped' => connected /\ ~SendStopped /\ Reached(mpc) \subseteq Reached(mpc')
    PROVE  Spoken'
BY DEF Spoken, KindsOf

\* It is, if its parts are.
LEMMA SameSent ==
    ASSUME outSession' = outSession, outQueue' = outQueue, received'[outSession] = received[outSession],
           HoldsCurrent' <=> HoldsCurrent, HoldsCurrent' => sItem' = sItem
    PROVE  Sent' = Sent
BY DEF Sent, InHand, ItemsOf

\* The steps that touch no packet.
LEMMA QuietSpoken == ASSUME Inv, Order, Spoken, Quiet PROVE Spoken'
<1>0. /\ UNCHANGED <<outQueue, outSession, spc, sItem, sSession, received>>
      /\ connected' => connected
      /\ SendStopped => SendStopped'
    BY DEF Quiet, outVars, sendVars, deliveryVars
<1>1. HoldsCurrent' = HoldsCurrent /\ (GaveUp => GaveUp')
    BY <1>0 DEF Holding, HoldsCurrent, GaveUp, SendStopped
<1>2. Sent' = Sent
    BY <1>0, <1>1, SameSent
<1> QED
    BY <1>0, <1>1, <1>2, SameSpoken DEF Quiet

\* A new client is accepted, and SendWorker._session is replaced, while nobody is
\* connected.
LEMMA ApartSpoken == ASSUME Inv, Order, Spoken, Accept \/ ReplaceSession PROVE Spoken'
<1>0. /\ UNCHANGED <<connected, stopPhase, outQueue, outSession, spc, sItem, sSession, received>>
      /\ mpc \in AcceptPcs
    BY DEF Accept, ReplaceSession, MainFrame, outVars, sendVars, deliveryVars, AcceptPcs
<1>1. ~connected
    BY <1>0 DEF Order, Handover, Between
<1>2. outSession \in Conns => peer'[outSession] = peer[outSession]
    <2>1. CASE Accept
        <3>1. outSession = accepted /\ accepted \in Nat /\ peer' = [peer EXCEPT ![accepted + 1] = "up"]
            BY <2>1 DEF Accept, Inv, SessionsCounted, TypeInv, MainType, Sockets
        <3> QED
            BY <3>1 DEF Inv, TypeInv, ClientType
    <2>2. CASE ReplaceSession
        BY <2>2 DEF ReplaceSession, clientVars
    <2> QED
        BY <2>1, <2>2
<1>3. HoldsCurrent' = HoldsCurrent /\ GaveUp' = GaveUp
    BY <1>0 DEF Holding, HoldsCurrent, GaveUp, SendStopped
<1>4. Sent' = Sent
    BY <1>0, <1>3, SameSent
<1> QED
    BY <1>0, <1>1, <1>2, <1>3, <1>4, SameSpoken

\* A conversation begins with nothing.
LEMMA NothingSent ==
    ASSUME NEW c \in Conns, outSession = c, received[c] = <<>>, ~HoldsCurrent, outQueue = <<>>
    PROVE  Protocol!Phase(KindsOf(Sent)) = "fresh"
<1>1. ItemsOf(outQueue) = <<>> /\ InHand = <<>>
    BY DEF ItemsOf, InHand
<1>2. Sent = <<>>
    BY <1>1 DEF Sent
<1>3. KindsOf(Sent) = <<>>
    BY <1>2 DEF KindsOf
<1> QED
    BY <1>3, PhaseOfNothing

\* new_session(): the conversation with the next client is empty.
LEMMA SessionSpoken == ASSUME Inv, Order, Spoken, StartSession PROVE Spoken'
<1>0. /\ UNCHANGED <<connected, spc, sSession, received>>
      /\ mpc = "session" /\ outQueue' = <<>> /\ outSession' = outSession + 1
    BY DEF StartSession, Goto, historyVars, connVars, clientVars, Out!NewSession, MainFrame, sendVars,
        deliveryVars
<1>1. ~connected /\ sSession <= outSession /\ sSession \in Nat /\ outSession \in Nat
    BY <1>0, Queued, Held DEF Order, Handover, Between, AcceptPcs
<1>2. ~HoldsCurrent'
    BY <1>0, <1>1 DEF HoldsCurrent
<1>3. ASSUME outSession' \in Conns PROVE Protocol!Phase(KindsOf(Sent))' = "fresh"
    <2>1. received'[outSession'] = <<>>
        BY <1>0, <1>1, <1>3 DEF Order, Fresh
    <2>2. ItemsOf(outQueue)' = <<>> /\ InHand' = <<>>
        BY <1>0, <1>2 DEF ItemsOf, InHand
    <2>3. Sent' = <<>>
        BY <2>1, <2>2 DEF Sent
    <2>4. KindsOf(Sent)' = <<>>
        BY <2>3 DEF KindsOf
    <2> QED
        BY <2>4, PhaseOfNothing
<1> QED
    BY <1>0, <1>1, <1>3 DEF Spoken

\* The client is announced: the main thread is about to greet it.
LEMMA ConnectedSpoken == ASSUME Inv, Order, Spoken, SetConnected PROVE Spoken'
<1>0. /\ UNCHANGED <<stopPhase, outQueue, outSession, spc, sItem, sSession, received, peer>>
      /\ mpc = "set_connected" /\ mpc' = "greet"
    BY DEF SetConnected, Goto, historyVars, connVars, clientVars, MainFrame, outVars, sendVars, deliveryVars
<1>1. outQueue = <<>> /\ sSession < outSession /\ outSession \in Nat /\ sSession \in Nat
    BY <1>0, Queued, Held DEF Order, Handover, Opening
<1>2. ~HoldsCurrent /\ HoldsCurrent' = HoldsCurrent
    BY <1>0, <1>1 DEF HoldsCurrent, Holding
<1>3. Sent' = Sent
    BY <1>0, <1>2, SameSent
<1>4. outSession \in Conns => Protocol!Phase(KindsOf(Sent)) = "fresh"
    BY <1>0, <1>1, <1>2, NothingSent DEF Order, Fresh, Opening
<1>5. KindsOf(Sent)' = KindsOf(Sent)
    BY <1>3 DEF KindsOf
<1>6. "fresh" \in Reached("greet")
    BY DEF Reached
<1> QED
    BY <1>0, <1>4, <1>5, <1>6 DEF Spoken

\* clear(): what remains of the conversation is its beginning.
LEMMA ClearSpoken == ASSUME Inv, Order, Spoken, ClearOutput PROVE Spoken'
<1>0. /\ UNCHANGED <<connected, stopPhase, outSession, spc, sItem, sSession, received, peer>>
      /\ mpc = "close_out" /\ outQueue' = <<>>
    BY DEF ClearOutput, Goto, historyVars, connVars, clientVars, Out!ClearItems, MainFrame, sendVars,
        deliveryVars
<1>1. ~connected
    BY <1>0 DEF Order, Handover, Between
<1>2. HoldsCurrent' = HoldsCurrent /\ GaveUp' = GaveUp
    BY <1>0 DEF Holding, HoldsCurrent, GaveUp, SendStopped
<1> DEFINE s == received[outSession] \o InHand
<1>3. InHand' = InHand /\ ItemsOf(outQueue)' = <<>>
    BY <1>0, <1>2 DEF InHand, ItemsOf
<1>4. ASSUME outSession \in Conns, ~GaveUp, peer[outSession] # "gone"
      PROVE  Protocol!Phase(KindsOf(Sent))' # "illegal"
    <2>1. s \in Seq(Packets) /\ ItemsOf(outQueue) \in Seq(Packets)
        BY <1>4, SentPackets, ConcatProperties
    <2>2. Sent' = s \o <<>> /\ Sent = s \o ItemsOf(outQueue)
        BY <1>0, <1>3 DEF Sent
    <2> HIDE DEF s
    <2>3. Sent' = s
        BY <2>1, <2>2, ConcatEmptySeq
    <2>4. Protocol!Phase(KindsOf(s)) # "illegal"
        BY <1>4, <2>1, <2>2, LegalPrefix DEF Spoken
    <2>5. KindsOf(Sent)' = KindsOf(s)
        BY <2>3 DEF KindsOf
    <2> QED
        BY <2>4, <2>5
<1> QED
    BY <1>0, <1>1, <1>2, <1>4 DEF Spoken

\* put(): the conversation goes on as the protocol says, or it cannot go on.
LEMMA ProduceSpoken == ASSUME Inv, Order, Spoken, Produce PROVE Spoken'
<1>0. /\ UNCHANGED <<connected, stopPhase, peer, accepted, spc, sItem, sSession, received>>
      /\ mpc \in PutPcs
    BY DEF Produce, sendVars, deliveryVars
<1>1. /\ outSession' = outSession /\ HoldsCurrent' = HoldsCurrent /\ GaveUp' = GaveUp
      /\ SendStopped' = SendStopped
    <2>1. outSession' = outSession
        BY DEF Produce, PutPacket, outVars, Out!AppendItem
    <2> QED
        BY <1>0, <2>1 DEF Holding, HoldsCurrent, GaveUp, SendStopped
<1>2. CASE Undeliverable /\ UNCHANGED outVars
    <2>1. Sent' = Sent
        BY <1>0, <1>1, <1>2, SameSent DEF outVars
    <2> QED
        BY <1>0, <1>1, <1>2, <2>1, SameSpoken DEF Undeliverable
<1>3. ASSUME NEW kind \in PacketKinds, Tells(mpc, kind, mpc'), ~Undeliverable,
             Out!AppendItem([conn |-> accepted, n |-> puts + 1, kind |-> kind])
      PROVE  Spoken'
    <2> SUFFICES ASSUME outSession \in Conns, ~GaveUp, peer[outSession] # "gone"
                 PROVE  /\ Protocol!Phase(KindsOf(Sent))' # "illegal"
                        /\ Protocol!Phase(KindsOf(Sent))' \in Reached(mpc')
        BY <1>0, <1>1 DEF Spoken
    <2> DEFINE p == [conn |-> accepted, n |-> puts + 1, kind |-> kind]
               e == [item |-> p, session |-> outSession]
               s == received[outSession] \o InHand
    <2>1. accepted \in Conns
        BY <1>0, ServerAssumption
           DEF Inv, TypeInv, MainType, SessionsCounted, PutPcs, CommandPcs, Conns, Sockets
    <2>2. p \in Packets /\ e \in OutP!Entries /\ e.item = p /\ p.kind = kind
        BY <2>1, Queued, Held DEF Packets, OutP!Entries
    <2>3. outQueue' = Append(outQueue, e) /\ outQueue \in Seq(OutP!Entries)
        BY <1>3, Queued DEF Out!AppendItem
    <2> HIDE DEF p, e
    <2>4. s \in Seq(Packets) /\ ItemsOf(outQueue) \in Seq(Packets) /\ <<p>> \in Seq(Packets)
        BY <2>2, SentPackets, ConcatProperties
    <2>5. ItemsOf(outQueue') = ItemsOf(outQueue) \o <<p>>
        BY <2>2, <2>3, Items
    <2>6. Sent' = s \o ItemsOf(outQueue') /\ Sent = s \o ItemsOf(outQueue)
        BY <1>0, <1>1 DEF Sent, InHand, ItemsOf
    <2> HIDE DEF s
    <2>7. Sent' = Sent \o <<p>>
        BY <2>4, <2>5, <2>6, ConcatAssociative
    <2>8. Sent' = Append(Sent, p) /\ Sent \in Seq(Packets)
        BY <2>2, <2>7, SentPackets, AppendIsConcat
    <2>9. KindsOf(Sent)' = Append(KindsOf(Sent), kind)
        <3>1. KindsOf(Append(Sent, p)) = Append(KindsOf(Sent), kind)
            BY <2>2, <2>8, KindsOfAppend
        <3> QED
            BY <2>8, <3>1 DEF KindsOf
    <2>10. Protocol!Phase(KindsOf(Sent))' = Protocol!After(Protocol!Phase(KindsOf(Sent)), kind)
        BY <2>8, <2>9, KindsOfPackets, PhaseAppend
    <2>11. Protocol!Phase(KindsOf(Sent)) \in Reached(mpc)
        BY <1>3 DEF Spoken, Undeliverable
    <2>12. Protocol!Phase(KindsOf(Sent))' \in Reached(mpc')
        BY <1>3, <2>10, <2>11 DEF Tells
    <2>13. Protocol!Phase(KindsOf(Sent))' # "illegal"
        BY <2>12, Anywhere DEF Told
    <2> QED
        BY <2>12, <2>13
<1> QED
    BY <1>2, <1>3 DEF Produce, PutPacket

\* The send worker only moves.
LEMMA MovesSpoken == ASSUME Inv, Order, Spoken, Send, Moves PROVE Spoken'
<1>0. UNCHANGED <<stopPhase, mpc, peer>> /\ UNCHANGED <<outQueue, outSession, received>>
    BY SendLeaves DEF Moves
<1>1. HoldsCurrent' = HoldsCurrent /\ (HoldsCurrent' => sItem' = sItem)
    BY DEF Moves, HoldsCurrent, Holding
<1>2. Sent' = Sent
    BY <1>0, <1>1, SameSent
<1> QED
    BY <1>0, <1>2, SameSpoken DEF Moves, SendStopped

\* get_with_session(): the packet that was next in the queue is next in hand.
LEMMA GetSpoken == ASSUME Inv, Order, Spoken, Send, GetPacket PROVE Spoken'
<1>0. /\ UNCHANGED <<stopPhase, mpc, peer, connected, received, torn>>
      /\ spc = "get" /\ ~Holding /\ ~HoldsCurrent /\ ~GaveUp
    BY SendLeaves DEF GetPacket, deliveryVars, Holding, HoldsCurrent, GaveUp
<1>1. CASE outQueue = <<>>
    <2>1. Moves
        BY <1>0, <1>1, Queued, Held
           DEF GetPacket, Out!PopItem, SendAgain, Moves, outVars, Holding, HoldsCurrent, GaveUp,
               Order, Handover
    <2> QED
        BY <2>1, MovesSpoken
<1>2. CASE outQueue # <<>>
    <2>1. /\ outQueue' = Tail(outQueue) /\ outSession' = outSession
          /\ spc' = "match" /\ sItem' = Head(outQueue).item /\ sSession' = Head(outQueue).session
        BY <1>2 DEF GetPacket, Out!PopItem, SendAgain
    <2>2. Head(outQueue).session = outSession
        <3>1. 1 \in 1..Len(outQueue) /\ Head(outQueue) = outQueue[1]
            BY <1>2, Queued
        <3> QED
            BY <3>1, Queued DEF Inv, Tagged
    <2>3. HoldsCurrent' /\ ~GaveUp'
        BY <2>1, <2>2 DEF HoldsCurrent, Holding, GaveUp
    <2>4. ASSUME outSession \in Conns PROVE Sent' = Sent
        <3> DEFINE r == received[outSession]
                   h == <<sItem'>>
                   q == ItemsOf(Tail(outQueue))
        <3>1. ItemsOf(outQueue) = h \o q /\ sItem' \in Packets
            BY <1>2, <2>1, Queued, Items
        <3>2. r \in Seq(Packets)
            BY <2>4, SentPackets
        <3>3. h \in Seq(Packets)
            BY <3>1
        <3>4. q \in Seq(Packets)
            BY <1>2, Queued, Items, HeadTailProperties
        <3>5. Sent = (r \o <<>>) \o ItemsOf(outQueue)
            BY <1>0 DEF Sent, InHand
        <3>6. Sent' = (r \o h) \o q
            BY <1>0, <2>1, <2>3 DEF Sent, InHand, ItemsOf
        <3> HIDE DEF r, h, q
        <3>7. Sent = r \o (h \o q)
            BY <3>1, <3>2, <3>5, ConcatEmptySeq
        <3> QED
            BY <3>2, <3>3, <3>4, <3>6, <3>7, ConcatAssociative
    <2>5. ASSUME outSession \in Conns PROVE Spoken'
        BY <1>0, <2>1, <2>3, <2>4, <2>5, SameSpoken DEF SendStopped
    <2> QED
        BY <2>1, <2>5 DEF Spoken
<1> QED
    BY <1>1, <1>2

\* sendmsg() takes the rest of the packet: what was in hand has been received.
LEMMA WholeSpoken == ASSUME Inv, Order, Spoken, Send, SendWhole PROVE Spoken'
<1>0. /\ UNCHANGED <<stopPhase, mpc, peer, connected, outQueue, outSession>>
      /\ spc \in {"send", "sending"} /\ Holding /\ ~GaveUp /\ ~HoldsCurrent'
      /\ sItem \in Packets /\ sSocket = sSession /\ sSession \in Conns
    BY SendLeaves, Held
       DEF SendWhole, SendAgain, outVars, Holding, HoldsCurrent, GaveUp, Inv, Tagged
<1>1. /\ received \in [Conns -> Seq(Packets)]
      /\ \/ received' = [received EXCEPT ![sSession] = Append(received[sSession], sItem)]
         \/ peer[sSession] = "gone" /\ received' = received
    BY <1>0 DEF SendWhole, Inv, TypeInv, ClientType
<1>2. CASE sSession = outSession
    <2> SUFFICES ASSUME peer[outSession] # "gone" PROVE Spoken'
        BY <1>0 DEF Spoken
    <2> DEFINE r == received[outSession]
               h == <<sItem>>
               q == ItemsOf(outQueue)
    <2>1. r \in Seq(Packets) /\ q \in Seq(Packets)
        BY <1>0, <1>2, SentPackets
    <2>2. received'[outSession] = r \o h
        BY <1>0, <1>1, <1>2, <2>1, AppendIsConcat
    <2>3. r \o h \in Seq(Packets)
        BY <1>0, <2>1, ConcatProperties
    <2>4. HoldsCurrent
        BY <1>0, <1>2 DEF HoldsCurrent
    <2>5. Sent' = ((r \o h) \o <<>>) \o q
        BY <1>0, <2>2 DEF Sent, InHand, ItemsOf
    <2>6. Sent = (r \o h) \o q
        BY <2>4 DEF Sent, InHand
    <2> HIDE DEF r, h, q
    <2>7. Sent' = Sent
        BY <2>3, <2>5, <2>6, ConcatEmptySeq
    <2> QED
        BY <1>0, <2>7, SameSpoken DEF SendStopped
<1>3. CASE sSession # outSession
    <2>1. ~HoldsCurrent
        BY <1>3 DEF HoldsCurrent
    <2>2. ASSUME outSession \in Conns PROVE Spoken'
        <3>1. received'[outSession] = received[outSession]
            BY <1>0, <1>1, <1>3, <2>2
        <3>2. Sent' = Sent
            BY <1>0, <2>1, <3>1, SameSent
        <3> QED
            BY <1>0, <3>2, SameSpoken DEF SendStopped
    <2> QED
        BY <1>0, <2>2 DEF Spoken
<1> QED
    BY <1>2, <1>3

\* A packet is given up, and with it the conversation.
LEMMA GiveUpSpoken == ASSUME Inv, Order, Spoken, Send, SendFails \/ SendAbandoned PROVE Spoken'
<1>0. /\ UNCHANGED <<stopPhase, mpc, peer, connected, outQueue, outSession, received>>
      /\ spc \in {"send", "sending"} /\ ~GaveUp /\ ~HoldsCurrent'
    BY SendLeaves
       DEF SendFails, SendAbandoned, SendGoto, SendAgain, GiveUp, outVars, Holding, HoldsCurrent, GaveUp
<1>1. CASE sSession = outSession
    <2>1. GaveUp'
        BY <1>0, <1>1 DEF SendFails, SendAbandoned, SendGoto, SendAgain, GaveUp, SendStopped
    <2> QED
        BY <2>1 DEF Spoken
<1>2. CASE sSession # outSession
    <2>1. ~HoldsCurrent
        BY <1>2 DEF HoldsCurrent
    <2>2. Sent' = Sent
        BY <1>0, <2>1, SameSent
    <2> QED
        BY <1>0, <2>2, SameSpoken DEF SendStopped
<1> QED
    BY <1>1, <1>2

\* Every step keeps the conversation.
LEMMA SpokenStep == Inv /\ Order /\ Spoken /\ [Next]_vars => Spoken'
<1> SUFFICES ASSUME Inv, Order, Spoken, [Next]_vars PROVE Spoken'
    OBVIOUS
<1>1. CASE Main
    BY <1>1, MainSteps, ApartSpoken, SessionSpoken, ConnectedSpoken, ClearSpoken, ProduceSpoken,
       QuietSpoken
<1>2. CASE Recv \/ Stop \/ Client
    BY <1>2, OthersQuiet, QuietSpoken
<1>3. CASE Send
    BY <1>3, MoveSteps, MovesSpoken, GetSpoken, WholeSpoken, GiveUpSpoken DEF Send
<1>4. CASE UNCHANGED vars
    <2>1. Quiet
        BY <1>4 DEF Quiet, vars, pcVars, connVars, historyVars, outVars, sendVars, clientVars,
            deliveryVars, SendStopped
    <2> QED
        BY <2>1, QuietSpoken
<1> QED
    BY <1>1, <1>2, <1>3, <1>4 DEF Next

\* Nobody is talked to at the start, and no connection was accepted.
LEMMA StartSpoken == Init => Spoken /\ Turn
<1> SUFFICES ASSUME Init PROVE Spoken /\ Turn
    OBVIOUS
<1>1. outSession = 0 /\ 0 \notin Conns
    BY DEF Init, Out!QueueInit, Conns
<1>2. Spoken
    BY <1>1 DEF Spoken
<1>3. Turn
    BY ServerAssumption DEF Init, Turn, Conns
<1> QED
    BY <1>2, <1>3

\* A socket is closed before the next one is accepted.
LEMMA TurnStep == Inv /\ Turn /\ [Next]_vars => Turn'
<1> SUFFICES ASSUME Inv, Turn, [Next]_vars PROVE Turn'
    OBVIOUS
<1>0. accepted \in Nat /\ closed \subseteq Conns /\ clientSocket \in {0, accepted} /\ Conns \subseteq Nat
      /\ 0 \notin Conns
    BY DEF Inv, TypeInv, MainType, ClientType, Sockets, Turn, Conns
<1>a. ASSUME UNCHANGED <<clientSocket, accepted, closed>>,
             mpc' \in {"accept", "done", "close_event", "close_in", "close_out"} => clientSocket = 0
      PROVE  Turn'
    BY <1>a DEF Turn
<1>1. CASE Accept
    <2>1. clientSocket = 0 /\ clientSocket' = accepted + 1 /\ accepted' = accepted + 1 /\ closed' = closed
          /\ mpc' = "assign"
        BY <1>1 DEF Accept, Turn, Goto
    <2> QED
        BY <1>0, <2>1 DEF Turn
<1>2. CASE CloseSocket
    <2>1. /\ closed' = closed \cup ({clientSocket} \ {0}) /\ clientSocket' = 0 /\ accepted' = accepted
        BY <1>2 DEF CloseSocket, Closing
    <2> QED
        BY <1>0, <2>1 DEF Turn
<1>3. CASE StopClosesSockets
    <2>1. closed \subseteq closed' /\ UNCHANGED <<clientSocket, accepted, mpc>>
        BY <1>3 DEF StopClosesSockets, Closing, OutsideFrame, connVars
    <2> QED
        BY <2>1 DEF Turn
<1>4. CASE AcceptStops \/ ClearConnected \/ ClearInput \/ ClearOutput
    <2>1. UNCHANGED <<clientSocket, accepted, closed>> /\ clientSocket = 0
        BY <1>4 DEF AcceptStops, ClearConnected, ClearInput, ClearOutput, connVars, clientVars, Turn
    <2> QED
        BY <1>a, <2>1
<1>5. CASE Main /\ ~(Accept \/ CloseSocket \/ AcceptStops \/ ClearConnected \/ ClearInput \/ ClearOutput)
    <2> DEFINE Late == {"accept", "done", "close_event", "close_in", "close_out"}
    <2>1. ASSUME NEW here, NEW kind, NEW next, next \notin Late, PutThen(here, kind, next) PROVE Turn'
        BY <1>a, <2>1 DEF PutThen, Goto, connVars, clientVars
    <2>2. CASE Greet \/ AnswerQuery \/ ApplyConfiguration \/ ConfigureRun \/ SendHeader \/ EndRun
        BY <2>1, <2>2 DEF Greet, AnswerQuery, ApplyConfiguration, ConfigureRun, SendHeader, EndRun
    <2>3. CASE RunExperiment \/ EndIteration
        BY <1>a, <2>1, <2>3 DEF RunExperiment, EndIteration, Decide, Goto, connVars, clientVars
    <2>4. CASE \/ HandshakeLoop \/ HandshakeTimeout \/ HandshakeEmpty \/ MainLoop \/ MainEmpty
               \/ SweepPoint
        BY <1>a, <2>4 DEF HandshakeLoop, HandshakeTimeout, HandshakeEmpty, MainLoop, MainEmpty,
               SweepPoint, Decide, BeginClose, Goto, connVars, clientVars
    <2>5. CASE HandshakeAnswer \/ MainMessage
        BY <1>a, <2>5 DEF HandshakeAnswer, MainMessage, GetMessage, CheckAnswer, Process, BeginClose,
               Goto, pcVars, connVars, clientVars
    <2>6. CASE SetTimeoutFails \/ AssignReceiver \/ StartSession \/ ReplaceSession \/ SetConnected
        BY <1>a, <2>6 DEF SetTimeoutFails, AssignReceiver, StartSession, ReplaceSession, SetConnected,
               Goto, connVars, clientVars
    <2> QED
        BY <1>5, <2>2, <2>3, <2>4, <2>5, <2>6 DEF Main
<1>6. CASE Recv \/ Send
    <2>1. UNCHANGED <<clientSocket, accepted, closed, mpc>>
        BY <1>6, RecvEffects, SendEffects DEF RecvFrame, SendFrame, pcVars, connVars, clientVars
    <2> QED
        BY <1>a, <2>1 DEF Turn
<1>7. CASE CallStop \/ StopWorkers \/ Client
    <2>1. UNCHANGED <<clientSocket, accepted, closed>> /\ (mpc' = mpc \/ mpc' = "interrupted")
        BY <1>7, OutsideEffects
           DEF Stop, CallStop, StopWorkers, Client, OutsideFrame, Goto, connVars, clientVars
    <2> QED
        BY <1>a, <2>1 DEF Turn
<1>8. CASE UNCHANGED vars
    BY <1>a, <1>8 DEF vars, pcVars, connVars, clientVars, Turn
<1> QED
    BY <1>1, <1>2, <1>3, <1>4, <1>5, <1>6, <1>7, <1>8 DEF Next, Stop

-----------------------------------------------------------------------------
(* The refinement: what the clients receive is a run of ExperimentProtocol.  *)

\* Nothing is received and no connection is over at the start.
LEMMA StartProtocol == Init => Protocol!Init
<1> SUFFICES ASSUME Init PROVE Protocol!Init
    OBVIOUS
<1>1. closed = {} /\ \A c \in Conns : received[c] = <<>>
    BY DEF Init
<1>2. KindsOf(<<>>) = <<>>
    BY DEF KindsOf
<1>3. [c \in Conns |-> KindsOf(received[c])] = [c \in Conns |-> <<>>]
    BY <1>1, <1>2
<1> QED
    BY <1>1, <1>3 DEF Protocol!Init

\* A packet that is received is received by the client in service and is legal.
LEMMA ReceiveStep ==
    ASSUME Inv, Order, Spoken, Turn, Send, SendWhole, received' # received
    PROVE  \E c \in Conns, kind \in Protocol!Kinds : Protocol!Receive(c, kind)
<1>0. /\ outSession \in Nat /\ closed' = closed /\ spc \in {"send", "sending"} /\ Holding
      /\ sItem \in Packets /\ sSocket = sSession /\ sSession \in Conns
      /\ sSession <= outSession /\ sSession \notin closed
      /\ received \in [Conns -> Seq(Packets)]
    BY SendEffects, Held, Queued
       DEF SendWhole, SendAgain, SendFrame, clientVars, Holding, Inv, Tagged, TypeInv, ClientType,
           Order, Handover
<1>1. /\ peer[sSession] = "up"
      /\ received' = [received EXCEPT ![sSession] = Append(received[sSession], sItem)]
    BY <1>0 DEF SendWhole
<1>2. outSession <= accepted /\ accepted \in Nat
    BY DEF Inv, SessionsCounted, TypeInv, MainType, Sockets
<1>3. sSession = accepted /\ \A d \in Conns : d < sSession => d \in closed
    BY <1>0, <1>2 DEF Turn, Conns
<1>4. sSession = outSession /\ HoldsCurrent
    BY <1>0, <1>2, <1>3 DEF HoldsCurrent, Conns
<1> DEFINE r == received[sSession]
           q == ItemsOf(outQueue)
<1>5. r \in Seq(Packets) /\ q \in Seq(Packets) /\ sItem.kind \in PacketKinds
    BY <1>0, <1>4, SentPackets DEF Packets
<1>6. Protocol!Phase(KindsOf(Sent)) # "illegal"
    BY <1>0, <1>1, <1>4 DEF Spoken, GaveUp
<1>7. Sent = (r \o <<sItem>>) \o q
    BY <1>4 DEF Sent, InHand
<1> HIDE DEF r, q
<1>8. Append(r, sItem) = r \o <<sItem>> /\ Append(r, sItem) \in Seq(Packets)
    BY <1>0, <1>5, AppendIsConcat, AppendProperties
<1>9. Protocol!Phase(KindsOf(Append(r, sItem))) # "illegal"
    BY <1>5, <1>6, <1>7, <1>8, LegalPrefix
<1>10. KindsOf(Append(r, sItem)) = Append(KindsOf(r), sItem.kind)
    BY <1>0, <1>5, KindsOfAppend
<1>11. Protocol!After(Protocol!Phase(KindsOf(r)), sItem.kind) # "illegal"
    BY <1>5, <1>9, <1>10, KindsOfPackets, PhaseAppend
<1>12. sItem.kind \in Protocol!Kinds
    BY <1>11, Lawful
<1> DEFINE before == [c \in Conns |-> KindsOf(received[c])]
           after == [c \in Conns |-> KindsOf(received'[c])]
<1>13. after = [before EXCEPT ![sSession] = Append(before[sSession], sItem.kind)]
    <2>1. \A c \in Conns : received'[c] = IF c = sSession THEN Append(r, sItem) ELSE received[c]
        BY <1>0, <1>1 DEF r
    <2>2. before[sSession] = KindsOf(r)
        BY <1>0 DEF r
    <2>3. \A c \in Conns : after[c] = IF c = sSession THEN Append(KindsOf(r), sItem.kind) ELSE before[c]
        BY <1>10, <2>1
    <2> QED
        BY <1>0, <2>2, <2>3
<1>14. Protocol!Receive(sSession, sItem.kind)
    BY <1>0, <1>3, <1>11, <1>13 DEF Protocol!Receive, r, KindsOf
<1> QED
    BY <1>0, <1>12, <1>14

\* Every step is one of the protocol, or nothing to a client.
LEMMA ProtocolStep ==
    Inv /\ Order /\ Spoken /\ Turn /\ [Next]_vars
        => [Protocol!Next]_<<[c \in Conns |-> KindsOf(received[c])], closed>>
<1> SUFFICES ASSUME Inv, Order, Spoken, Turn, [Next]_vars
             PROVE  \/ Protocol!Next
                    \/ UNCHANGED <<[c \in Conns |-> KindsOf(received[c])], closed>>
    OBVIOUS
<1>1. ASSUME UNCHANGED <<received, closed>>
      PROVE  UNCHANGED <<[c \in Conns |-> KindsOf(received[c])], closed>>
    BY <1>1 DEF KindsOf
<1>2. CASE Send
    <2>1. closed' = closed
        BY <1>2, SendEffects DEF SendFrame, clientVars
    <2>2. SendWhole \/ received' = received
        BY <1>2 DEF Send, SendLoop, GetPacket, MatchSession, SendPart, SendFails, SendAbandoned,
               SendCheckSession, SendClearConnected, GiveUp, deliveryVars
    <2> QED
        BY <1>1, <1>2, <2>1, <2>2, ReceiveStep DEF Protocol!Next
<1>3. CASE CloseSocket \/ StopClosesSockets
    <2>1. received' = received /\ closed' = closed \cup ({clientSocket} \ {0})
        BY <1>3 DEF CloseSocket, StopClosesSockets, Closing, MainFrame, OutsideFrame, deliveryVars
    <2>2. clientSocket = 0 \/ clientSocket \in Conns
        BY DEF Inv, TypeInv, MainType, Sockets, Conns
    <2>3. CASE clientSocket = 0
        BY <1>1, <2>1, <2>3
    <2>4. CASE clientSocket \in Conns /\ clientSocket # 0
        <3>1. Protocol!End(clientSocket)
            BY <2>1, <2>4 DEF Protocol!End, KindsOf
        <3> QED
            BY <2>4, <3>1 DEF Protocol!Next
    <2> QED
        BY <2>2, <2>3, <2>4 DEF Conns
<1>4. CASE Main /\ ~CloseSocket
    <2>1. received' = received
        BY <1>4, MainEffects DEF Inv, TypeInv, RecvType, MainFrame, deliveryVars
    <2>2. closed' = closed
        BY <1>4 DEF Main, Accept, AcceptStops, SetTimeoutFails, AssignReceiver, StartSession, ReplaceSession,
           SetConnected, Greet, HandshakeLoop, HandshakeTimeout, HandshakeEmpty, HandshakeAnswer,
           MainLoop, MainEmpty, MainMessage, AnswerQuery, ApplyConfiguration, ConfigureRun, SendHeader,
           SweepPoint, RunExperiment, EndIteration, EndRun, ClearConnected, ClearInput,
           ClearOutput, PutThen, Decide, GetMessage, clientVars
    <2> QED
        BY <1>1, <2>1, <2>2
<1>5. CASE Recv
    BY <1>1, <1>5, RecvEffects DEF RecvFrame, deliveryVars
<1>6. CASE CallStop \/ StopWorkers \/ Client
    BY <1>1, <1>6, OutsideEffects
       DEF Stop, CallStop, StopWorkers, Client, OutsideFrame, deliveryVars, clientVars
<1>7. CASE UNCHANGED vars
    BY <1>1, <1>7 DEF vars, clientVars, deliveryVars
<1> QED
    BY <1>2, <1>3, <1>4, <1>5, <1>6, <1>7 DEF Next, Stop

\* The server implements the protocol: with its threads, its queues and its sockets,
\* whatever is dropped, torn or given up, each client receives a conversation that the
\* protocol allows, and one client at a time (fireq_server.py: _run, _process_message;
\* memory_queue.py; send_worker.py).
THEOREM ServerFollowsProtocol == SafeSpec => FollowsProtocol
<1>1. Inv /\ Order /\ Spoken /\ Turn /\ [Next]_vars => (Inv /\ Order /\ Spoken /\ Turn)'
    BY StepInv, StepOrder, SpokenStep, TurnStep
<1> QED
    BY <1>1, StartInv, StartOrder, StartSpoken, StartProtocol, ProtocolStep, PTL
       DEF SafeSpec, FollowsProtocol, Protocol!Spec
=============================================================================
