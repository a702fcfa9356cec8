------------------------- MODULE ClientBridge_proofs -------------------------
(***************************************************************************)
(* The promises of the TCP_CLIENT build, for every size of the buffers,    *)
(* every number of bytes and every set of faults.                          *)
(***************************************************************************)
EXTENDS ClientBridge, Bridge_proofs

\* The steps that only the client takes.
ClientStep == Open \/ CheckError \/ Accepted \/ Refused

\* Every step of the client is one that both builds share or one of its own.
LEMMA NextSteps ==
  ASSUME Next
  PROVE  SharedStep \/ ClientStep \/ UNCHANGED vars
BY DEF Next, SockDataExchangeProc, Terminated, SharedStep, LoopStep, ClientStep

\* None of them touches a byte.
LEMMA ClientShape ==
  ASSUME Bridged, ClientStep
  PROVE  Types' /\ Idle' /\ Sizes' /\ Room' /\ Flags'
<1> USE DEF Bridged, ClientStep, Open, CheckError, Accepted, Refused, Leave,
            shared, reader, writer, socket, device, network, history
<1>1. Types'
  <2>1. failures + 1 \in Nat
    BY DEF Types
  <2> QED BY <2>1 DEF Types
<1>2. Idle'
  BY DEF Idle
<1>3. Sizes'
  BY DEF Sizes
<1>4. Flags'
  BY DEF Flags
<1>5. Room'
  BY RoomElse
<1> QED BY <1>1, <1>2, <1>3, <1>4, <1>5

\* The client's own steps: Processing while it connects, and Connected is left to
\* FD_CONNECT.
LEMMA ClientControl == ASSUME Bridged, ClientStep PROVE Control'
<1> USE DEF Bridged, ClientStep, Open, CheckError, Accepted, Refused, Leave,
            shared, reader, writer, socket, device, network, history
<1>1. Phases'
  BY DEF Control, Phases
<1>2. Labels'
  BY DEF Control, Labels
<1>3. Connection'
  BY DEF Control, Connection, Looping, Established, StatusOfPhase, Idle
<1>4. StatusOfPhase'
  BY DEF Control, StatusOfPhase, Looping
<1> QED BY <1>1, <1>2, <1>3, <1>4 DEF Control

\* A new connection waits for the FD_WRITE that comes with it.
LEMMA ClientWakeups == ASSUME Bridged, ClientStep PROVE Wakeups'
BY DEF Bridged, ClientStep, Open, CheckError, Accepted, Refused, Leave, Idle,
   Control, Connection, Wakeups, ComRcvPending, WriteWakeup,
   shared, reader, writer, socket, device, network, history

\* None of them moves a byte.
LEMMA ClientFlow == ASSUME Bridged, ClientStep PROVE ComFlow' /\ TcpFlow'
BY ComKept, TcpKept DEF Bridged, ClientStep, Open, CheckError, Accepted, Refused, Leave,
   ComInFlight, TcpInFlight, shared, reader, writer, socket, device, network, history

\* The invariant of the shared steps is one of the whole client.
THEOREM ClientInvariant == Spec => []Bridged
<1>1. Init => Bridged
  BY BridgedInit
<1>2. Bridged /\ [Next]_vars => Bridged'
  <2> SUFFICES ASSUME Bridged, [Next]_vars PROVE Bridged'
    OBVIOUS
  <2>1. CASE SharedStep
    BY <2>1, BridgedStep
  <2>2. CASE ClientStep
    BY <2>2, ClientShape, ClientControl, ClientWakeups, ClientFlow DEF Bridged
  <2>3. CASE UNCHANGED vars
    BY <2>3, BridgedStutter
  <2> QED BY <2>1, <2>2, <2>3, NextSteps
<1> QED BY <1>1, <1>2, PTL DEF Spec

\* Every variable keeps its type: the numbers of bytes never exceed what was sent, and
\* no ring, buffer or window ever holds more than it has room for.
THEOREM ClientTypes == Spec => []TypeOK
<1>1. Bridged => TypeOK
  BY BridgedTypes
<1> QED BY <1>1, ClientInvariant, PTL

\* Bytes from the COM port reach the peer in order and at most once, whatever partial
\* sends, cancelled reads, overruns of the ring, reconnects and unfinished Writes come
\* between: unless a read was cancelled inside a Write that had counted on
\* its room, which is the one way to swap or repeat a byte.
THEOREM ClientComInOrder == Spec => []ComBytesInOrder
<1>1. Bridged => ComBytesInOrder
  BY BridgedPromises
<1> QED BY <1>1, ClientInvariant, PTL

\* Every byte of the COM device is under way, has arrived, or was lost where the code
\* drops it, until a read is cancelled inside a Write that had counted on its room.
THEOREM ClientComAccounted == Spec => []ComBytesAccounted
<1>1. Bridged => ComBytesAccounted
  BY BridgedPromises
<1> QED BY <1>1, ClientInvariant, PTL

\* Bytes from the peer reach the COM port in order and at most once.
THEOREM ClientTcpInOrder == Spec => []TcpBytesInOrder
<1>1. Bridged => TcpBytesInOrder
  BY BridgedPromises
<1> QED BY <1>1, ClientInvariant, PTL

\* Every byte of the peer is under way, has arrived, or was lost where the code drops it.
THEOREM ClientTcpAccounted == Spec => []TcpBytesAccounted
<1>1. Bridged => TcpBytesAccounted
  BY BridgedPromises
<1> QED BY <1>1, ClientInvariant, PTL

\* No wakeup of the socket thread is lost: needResend, FD_WRITE and m_ComRcvEvent together
\* see to every byte left in the ring, except after a send that failed.
THEOREM ClientSendWakes == Spec => []SendWakeup
<1>1. Bridged => SendWakeup
  BY BridgedPromises
<1> QED BY <1>1, ClientInvariant, PTL

\* No wakeup of the COM write thread is lost, except after a WriteFile that failed.
THEOREM ClientWriteWakes == Spec => []WriteWakeup
<1>1. Bridged => WriteWakeup
  BY BridgedPromises
<1> QED BY <1>1, ClientInvariant, PTL

\* Whenever the socket thread waits, the status says Connected if and only if its
\* connection has come up.
THEOREM ClientStatusTells == Spec => []StatusTellsConnection
<1>1. Bridged => StatusTellsConnection
  BY BridgedPromises
<1> QED BY <1>1, ClientInvariant, PTL

\* An attempt to connect says Processing, after Stopped or Disconnected.
LEMMA ToldClient == ASSUME Bridged, ClientStep PROVE ToldStep
<1>1. ASSUME Open PROVE ToldStep
  <2>1. status \in {"Stopped", "Disconnected"} /\ status' = "Processing" /\ skPc # "done"
       /\ skPc' # "done"
    BY <1>1 DEF Open, Bridged, Control, StatusOfPhase
  <2> QED BY <2>1, Telling DEF Told!Status, Told!Follows
<1>2. ASSUME CheckError \/ Accepted \/ Refused PROVE ToldStep
  <2>1. UNCHANGED status /\ ((skPc # "done" /\ skPc' # "done") \/ UNCHANGED skPc)
    BY <1>2 DEF CheckError, Accepted, Refused, Leave, shared, socket
  <2> QED BY <2>1 DEF ToldStep, Told!vars
<1> QED BY <1>1, <1>2 DEF ClientStep

\* The socket thread of the client tells what SocketStatus promises
\* (CPortSetting::setStatus).
THEOREM ClientImplementsStatus == Spec => ImplementsStatus
<1>1. Init => Told!Init
  BY DEF Init, Told!Init
<1>2. Bridged /\ [Next]_vars => [Told!Next]_(Told!vars)
  <2> SUFFICES ASSUME Bridged, [Next]_vars PROVE [Told!Next]_(Told!vars)
    OBVIOUS
  <2>1. CASE SharedStep
    BY <2>1, ToldThreads, ToldHandler, ToldSender, ToldLoop DEF Bridged, SharedStep, ToldStep
  <2>2. CASE ClientStep
    BY <2>2, ToldClient DEF ToldStep
  <2>3. CASE UNCHANGED vars
    BY <2>3 DEF vars, shared, socket, Told!vars
  <2> QED BY <2>1, <2>2, <2>3, NextSteps
<1> QED BY <1>1, <1>2, ClientInvariant, PTL DEF Spec, ImplementsStatus, Told!Spec
=============================================================================
