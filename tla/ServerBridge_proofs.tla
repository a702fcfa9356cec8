------------------------- MODULE ServerBridge_proofs -------------------------
(***************************************************************************)
(* The promises of the TCP_SERVER build, for every size of the buffers,    *)
(* every number of bytes, clients and failures, and every set of faults.   *)
(***************************************************************************)
EXTENDS ServerBridge, Bridge_proofs

\* The steps of the socket thread that only the server takes.
ServerStep == Open \/ AcceptClient \/ AcceptFails \/ CheckError

\* The steps of either build that do not touch the listening socket.
QuietStep ==
  \/ ComDataReadProc \/ ComDataWriteProc
  \/ SocketDataEventsHandler \/ WriteComToTcp
  \/ Startup \/ Disconnected \/ Sleep \/ Stop
  \/ EnumNetworkEvents \/ WaitComRcv \/ WaitClose \/ WaitTimeout
  \/ Environment

\* Every step of the server is one that both builds share or one of its own.
LEMMA NextSteps ==
  ASSUME Next
  PROVE  \/ QuietStep /\ UNCHANGED listening
         \/ CloseServerSocket
         \/ ServerStep
         \/ Clients
         \/ UNCHANGED serverVars
BY DEF Next, SockDataExchangeProc, WaitOther, Terminated, QuietStep, ServerStep

\* Only accept touches bytes: it gives the old client's up.
LEMMA ServerShape ==
  ASSUME Bridged, ServerStep
  PROVE  Types' /\ Idle' /\ Sizes' /\ Room' /\ Flags'
<1>1. ASSUME AcceptClient PROVE Types' /\ Idle' /\ Sizes' /\ Room' /\ Flags'
  <2> USE <1>1 DEF Bridged, AcceptClient, shared, reader, writer, socket, device,
       network, history
  <2>1. Types' /\ Sizes'
    BY Dropping DEF Types, Sizes
  <2>2. Idle'
    BY DEF Idle
  <2>3. Flags'
    BY DEF Flags, DropConnection
  <2>4. Room'
    BY RoomElse
  <2> QED BY <2>1, <2>2, <2>3, <2>4
<1>2. ASSUME Open \/ AcceptFails \/ CheckError PROVE Types' /\ Idle' /\ Sizes' /\ Room' /\ Flags'
  <2> USE <1>2 DEF Bridged, Open, AcceptFails, CheckError, Leave,
            shared, reader, writer, socket, device, network, history
  <2>1. Types'
    <3>1. failures + 1 \in Nat
      BY DEF Types
    <3> QED BY <3>1 DEF Types
  <2>2. Idle'
    BY DEF Idle
  <2>3. Sizes'
    BY DEF Sizes
  <2>4. Flags'
    BY DEF Flags
  <2>5. Room'
    BY RoomElse
  <2> QED BY <2>1, <2>2, <2>3, <2>4, <2>5
<1> QED BY <1>1, <1>2 DEF ServerStep

\* accept says Connected, of a socket that is.
LEMMA ServerControl == ASSUME Bridged, ServerStep PROVE Control'
<1> USE DEF Bridged, ServerStep, Open, AcceptClient, AcceptFails, CheckError,
     DropConnection, Leave,
            shared, reader, writer, socket, device, network, history
<1>1. Phases'
  BY DEF Control, Phases
<1>2. Labels'
  BY DEF Control, Labels
<1>3. Connection'
  BY DEF Control, Connection, Looping, Established, StatusOfPhase, Idle
<1>4. StatusOfPhase'
  BY DEF Control, StatusOfPhase, Looping
<1> QED BY <1>1, <1>2, <1>3, <1>4 DEF Control

\* The client accepted comes with an FD_WRITE.
LEMMA ServerWakeups == ASSUME Bridged, ServerStep PROVE Wakeups'
BY DEF Bridged, ServerStep, Open, AcceptClient, AcceptFails, CheckError, DropConnection,
     Leave, Idle,
   Control, Connection, Wakeups, ComRcvPending, WriteWakeup,
   shared, reader, writer, socket, device, network, history

\* accept loses what was under way to and from the old client.
LEMMA ServerFlow == ASSUME Bridged, ServerStep PROVE ComFlow' /\ TcpFlow'
<1>1. ASSUME AcceptClient PROVE ComFlow' /\ TcpFlow'
  BY <1>1, ComFlowDropped, TcpFlowDropped
     DEF Bridged, AcceptClient, DropConnection, reader, writer, device
<1>2. ASSUME Open \/ AcceptFails \/ CheckError PROVE ComFlow' /\ TcpFlow'
  BY <1>2, ComKept, TcpKept DEF Bridged, Open, AcceptFails, CheckError, Leave,
   ComInFlight, TcpInFlight, shared, reader, writer, socket, device, network, history
<1> QED BY <1>1, <1>2 DEF ServerStep

\* The invariant of the shared steps holds of the whole server.
LEMMA ServerBridged ==
  ASSUME Bridged, [Next]_serverVars
  PROVE  Bridged'
<1>1. CASE QuietStep
  BY <1>1, BridgedStep DEF QuietStep, SharedStep, LoopStep
<1>2. CASE CloseServerSocket
  BY <1>2, BridgedStep DEF CloseServerSocket, SharedStep, LoopStep
<1>3. CASE ServerStep
  BY <1>3, ServerShape, ServerControl, ServerWakeups, ServerFlow DEF Bridged
<1>4. CASE Clients \/ UNCHANGED serverVars
  BY <1>4, BridgedStutter DEF Clients, FirstClientConnects, AnotherClientConnects,
       ClientConnects, ClientLeaves, serverVars
<1> QED BY <1>1, <1>2, <1>3, <1>4, NextSteps

\* The backlog and the event that tells of it.
Backlog ==
  /\ pending \in Nat /\ gone \in Nat /\ acceptEvent \in BOOLEAN
  /\ ~Listening => pending = 0 /\ gone = 0
  /\ acceptEvent => pending > 0 \/ gone > 0
  /\ (Looping /\ conn # "up" /\ (pending > 0 \/ gone > 0)) => acceptEvent \/ "FD_CLOSE" \in netEvents
       \cup skGot

\* The steps that do not touch the listening socket: a client that closes or resets
\* leaves its FD_CLOSE.
LEMMA BacklogQuiet ==
  ASSUME Bridged, Backlog, QuietStep, UNCHANGED listening
  PROVE  Backlog'
<1> USE DEF Bridged, Backlog, Listening, Looping, Control, Phases, Labels, Idle,
            listening, shared, reader, writer, socket, device, network, history
<1>1. CASE ComDataReadProc \/ ComDataWriteProc
  BY <1>1 DEF ComDataReadProc, ReaderWait, ReaderRead, ReaderCheck, ReaderWrite,
       ReaderCopy, ReaderPublish, ReaderSet,
       ComDataWriteProc, WriterWait, WriterRead, WriterFile, WriterMore
<1>2. CASE SocketDataEventsHandler
  BY <1>2 DEF SocketDataEventsHandler, HandleRead, HandleReadSet, HandleConnect,
       HandleWrite, HandleClose,
       Pending, Nothing, Leave
<1>3. CASE WriteComToTcp
  BY <1>3 DEF WriteComToTcp, SendRead, SendSome, SendBlocked, SendFails, SendCancel,
       SendMore, Leave
<1>4. CASE \/ Startup \/ Disconnected \/ Sleep \/ Stop
           \/ EnumNetworkEvents \/ WaitComRcv \/ WaitClose \/ WaitTimeout
  BY <1>4 DEF Startup, Disconnected, Sleep, Stop,
       EnumNetworkEvents, WaitComRcv, WaitClose, WaitTimeout, Leave
<1>5. CASE Environment
  BY <1>5 DEF Environment, ComDeviceSends, PeerSends, PeerReceives, PeerCloses,
       ConnectionResets, CloseThreads
<1> QED BY <1>1, <1>2, <1>3, <1>4, <1>5 DEF QuietStep

\* WSAResetEvent after accept, closing the listening socket, and clients that
\* connect or leave.
LEMMA BacklogServer ==
  ASSUME Bridged, Backlog, CloseServerSocket \/ ServerStep \/ Clients \/ UNCHANGED serverVars
  PROVE  Backlog'
<1> USE DEF Backlog, Listening, Looping, listening
<1>1. CASE CloseServerSocket
  BY <1>1 DEF CloseServerSocket, CloseSocket
<1>2. CASE ServerStep /\ ~AcceptClient
  <2>1. CASE Open
    BY <2>1 DEF Open
  <2>2. CASE AcceptFails
    BY <2>2 DEF AcceptFails, Leave
  <2>3. CASE CheckError
    BY <2>3 DEF CheckError, Leave
  <2> QED BY <1>2, <2>1, <2>2, <2>3 DEF ServerStep
<1>3. CASE AcceptClient
  <2>1. pending - 1 \in Nat
    BY <1>3 DEF AcceptClient
  <2> QED BY <1>3, <2>1 DEF AcceptClient
<1>4. CASE FirstClientConnects \/ AnotherClientConnects
  <2>1. /\ pending' = pending + 1 /\ acceptEvent' = (acceptEvent \/ Unaccepted = 0) /\ Listening
        /\ UNCHANGED <<vars, gone>>
    BY <1>4 DEF FirstClientConnects, AnotherClientConnects, ClientConnects
  <2>2. pending' \in Nat /\ pending' > 0
    BY <2>1
  <2>3. acceptEvent' \in BOOLEAN /\ (acceptEvent \/ Unaccepted = 0 => acceptEvent')
    BY Zenon, <2>1
  <2>4. Unaccepted = 0 \/ pending > 0 \/ gone > 0
    BY DEF Unaccepted
  <2> QED BY <2>1, <2>2, <2>3, <2>4 DEF vars, socket, network
<1>6. CASE ClientLeaves
  <2>1. /\ pending > 0 /\ Listening /\ pending' = pending - 1 /\ gone' = gone + 1
        /\ UNCHANGED <<vars, acceptEvent>>
    BY <1>6 DEF ClientLeaves
  <2>2. pending' \in Nat /\ gone' \in Nat /\ gone' > 0
    BY <2>1
  <2> QED BY <2>1, <2>2 DEF vars, socket, network
<1>5. CASE UNCHANGED serverVars
  BY <1>5 DEF serverVars, vars, socket, network
<1> QED BY <1>1, <1>2, <1>3, <1>4, <1>5, <1>6 DEF ServerStep, Clients

\* The inductive invariant of the server.
THEOREM ServerInvariant == Spec => [](Bridged /\ Backlog)
<1>1. ServerInit => Bridged /\ Backlog
  <2>1. ServerInit => Bridged
    BY BridgedInit DEF ServerInit
  <2>2. ServerInit => Backlog
    <3> SUFFICES ASSUME ServerInit PROVE Backlog
      OBVIOUS
    <3>1. pending = 0 /\ gone = 0 /\ ~acceptEvent
      BY DEF ServerInit
    <3>2. acceptEvent \in BOOLEAN
      BY Zenon DEF ServerInit
    <3> QED BY <3>1, <3>2 DEF Backlog
  <2> QED BY <2>1, <2>2
<1>2. Bridged /\ Backlog /\ [Next]_serverVars => (Bridged /\ Backlog)'
  <2> SUFFICES ASSUME Bridged, Backlog, [Next]_serverVars PROVE Bridged' /\ Backlog'
    OBVIOUS
  <2>1. Bridged'
    BY ServerBridged
  <2>2. Backlog'
    BY BacklogQuiet, BacklogServer, NextSteps
  <2> QED BY <2>1, <2>2
<1> QED BY <1>1, <1>2, PTL DEF Spec

\* Every variable keeps its type: the numbers of bytes never exceed what was sent, and
\* no ring, buffer or window ever holds more than it has room for.
THEOREM ServerTypes == Spec => []TypeOK
<1>1. Bridged => TypeOK
  BY BridgedTypes
<1> QED BY <1>1, ServerInvariant, PTL

\* Bytes from the COM port reach the peer in order and at most once, whatever partial
\* sends, cancelled reads, overruns of the ring, reconnects and unfinished Writes come
\* between: unless a read was cancelled inside a Write that had counted on
\* its room, which is the one way to swap or repeat a byte.
THEOREM ServerComInOrder == Spec => []ComBytesInOrder
<1>1. Bridged => ComBytesInOrder
  BY BridgedPromises
<1> QED BY <1>1, ServerInvariant, PTL

\* Every byte of the COM device is under way, has arrived, or was lost where the code
\* drops it, until a read is cancelled inside a Write that had counted on its room.
THEOREM ServerComAccounted == Spec => []ComBytesAccounted
<1>1. Bridged => ComBytesAccounted
  BY BridgedPromises
<1> QED BY <1>1, ServerInvariant, PTL

\* Bytes from the peer reach the COM port in order and at most once.
THEOREM ServerTcpInOrder == Spec => []TcpBytesInOrder
<1>1. Bridged => TcpBytesInOrder
  BY BridgedPromises
<1> QED BY <1>1, ServerInvariant, PTL

\* Every byte of the peer is under way, has arrived, or was lost where the code drops it.
THEOREM ServerTcpAccounted == Spec => []TcpBytesAccounted
<1>1. Bridged => TcpBytesAccounted
  BY BridgedPromises
<1> QED BY <1>1, ServerInvariant, PTL

\* No wakeup of the socket thread is lost: needResend, FD_WRITE and m_ComRcvEvent together
\* see to every byte left in the ring, except after a send that failed.
THEOREM ServerSendWakes == Spec => []SendWakeup
<1>1. Bridged => SendWakeup
  BY BridgedPromises
<1> QED BY <1>1, ServerInvariant, PTL

\* No wakeup of the COM write thread is lost, except after a WriteFile that failed.
THEOREM ServerWriteWakes == Spec => []WriteWakeup
<1>1. Bridged => WriteWakeup
  BY BridgedPromises
<1> QED BY <1>1, ServerInvariant, PTL

\* Whenever the socket thread waits, the status says Connected if and only if its
\* connection has come up.
THEOREM ServerStatusTells == Spec => []StatusTellsConnection
<1>1. Bridged => StatusTellsConnection
  BY BridgedPromises
<1> QED BY <1>1, ServerInvariant, PTL

\* Listening says Processing, accept says Connected.
LEMMA ToldServer ==
  ASSUME Bridged, ServerStep \/ CloseServerSocket
  PROVE  ToldStep
<1>1. ASSUME Open PROVE ToldStep
  <2>1. status \in {"Stopped", "Disconnected"} /\ status' = "Processing" /\ skPc # "done"
       /\ skPc' # "done"
    BY <1>1 DEF Open, Bridged, Control, StatusOfPhase
  <2> QED BY <2>1, Telling DEF Told!Status, Told!Follows
<1>2. ASSUME AcceptClient PROVE ToldStep
  <2>1. status \in {"Processing", "Connected"} /\ status' = "Connected" /\ skPc # "done"
       /\ skPc' # "done"
    BY <1>2 DEF AcceptClient, Bridged, Control, StatusOfPhase, Looping
  <2>2. CASE status = "Processing"
    BY <2>1, <2>2, Telling DEF Told!Status, Told!Follows
  <2> QED BY <2>1, <2>2, ToldKept
<1>3. ASSUME AcceptFails \/ CheckError \/ CloseServerSocket PROVE ToldStep
  <2>1. UNCHANGED status /\ skPc # "done" /\ skPc' # "done"
    BY <1>3 DEF AcceptFails, CheckError, CloseServerSocket, CloseSocket, Leave, shared
  <2> QED BY <2>1, ToldKept
<1> QED BY <1>1, <1>2, <1>3 DEF ServerStep

\* The socket thread of the server tells what SocketStatus promises
\* (CPortSetting::setStatus).
THEOREM ServerImplementsStatus == Spec => ImplementsStatus
<1>1. ServerInit => Told!Init
  BY DEF ServerInit, Init, Told!Init
<1>2. Bridged /\ [Next]_serverVars => [Told!Next]_(Told!vars)
  <2> SUFFICES ASSUME Bridged, [Next]_serverVars PROVE [Told!Next]_(Told!vars)
    OBVIOUS
  <2>1. CASE QuietStep
    BY <2>1, ToldThreads, ToldHandler, ToldSender, ToldLoop DEF Bridged, QuietStep,
         LoopStep, ToldStep
  <2>2. CASE CloseServerSocket \/ ServerStep
    BY <2>2, ToldServer DEF ToldStep
  <2>3. CASE Clients \/ UNCHANGED serverVars
    BY <2>3 DEF Clients, FirstClientConnects, AnotherClientConnects, ClientConnects,
       ClientLeaves, serverVars,
       vars, shared, socket, Told!vars
  <2> QED BY <2>1, <2>2, <2>3, NextSteps
<1> QED BY <1>1, <1>2, ServerInvariant, PTL DEF Spec, ImplementsStatus, Told!Spec

\* When accept is called there is a client in the backlog, or one that has aborted:
\* accept's event never outlives the clients it was set for, so that for want of a
\* client only an aborted one ends the thread (threads.cpp:524-529).
THEOREM ServerAcceptFindsClient == Spec => []AcceptFindsClient
<1>1. Backlog => AcceptFindsClient
  BY DEF Backlog, AcceptFindsClient
<1> QED BY <1>1, ServerInvariant, PTL

\* A server without a live client does not sleep on a backlog with clients in it.
THEOREM ServerAcceptWakeup == Spec => []AcceptWakeup
<1>1. Bridged /\ Backlog => AcceptWakeup
  BY DEF Bridged, Backlog, Idle, Looping, AcceptWakeup
<1> QED BY <1>1, ServerInvariant, PTL
=============================================================================
