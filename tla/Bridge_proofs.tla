---------------------------- MODULE Bridge_proofs ----------------------------
(***************************************************************************)
(* Proofs about the steps that the client and the server build share, for  *)
(* every size of the buffers, every number of bytes and every set of       *)
(* faults.  Bridged is an inductive invariant of these steps; modules      *)
(* ClientBridge_proofs and ServerBridge_proofs add the steps of their own  *)
(* and state the theorems.                                                 *)
(***************************************************************************)
EXTENDS Bytes_proofs

-----------------------------------------------------------------------------
(* What the variables hold and how much of it. *)

Types ==
  /\ comToTcp \in Bytes /\ tcpToCom \in Bytes /\ rdBuf \in Bytes /\ wrBuf \in Bytes
  /\ skBuf \in Bytes /\ comIn \in Bytes /\ comOut \in Bytes /\ rx \in Bytes
  /\ window \in Bytes /\ peerGot \in Bytes
  /\ comSent \in Nat /\ peerSent \in Nat /\ failures \in Nat /\ raced \in BOOLEAN

\* A buffer is empty while its thread is not between filling and emptying it.
Idle ==
  /\ rdPc \notin {"check", "write", "copy", "publish"} => rdBuf = <<>>
  /\ wrPc # "file" => wrBuf = <<>>
  /\ skPc \notin {"send", "cancel"} => skBuf = <<>>
  /\ skPc # "handle" => skGot = {}
  /\ conn = "reset" => rx = <<>>

Sizes ==
  /\ Len(comToTcp) < BufferSize /\ Len(tcpToCom) < BufferSize
  /\ Len(skBuf) <= TcpBufSize /\ Len(skBuf) < BufferSize /\ Len(wrBuf) <= TcpBufSize
  /\ Len(window) <= SendWindow

\* The bytes of a Write that is under way have room in the ring, unless a cancelled
\* read has taken it.
Room ==
  rdPc \in {"copy", "publish"} =>
    Len(rdBuf) < BufferSize /\ (raced \/ Len(comToTcp) + Len(rdBuf) < BufferSize)

LoopStep ==
  \/ Startup \/ CloseSocket \/ Disconnected \/ Sleep \/ Stop
  \/ EnumNetworkEvents \/ WaitComRcv \/ WaitClose \/ WaitTimeout

\* comDataReadProc empties readBuf on every path back to its wait.
LEMMA IdleReader == ASSUME Idle, ComDataReadProc PROVE Idle'
BY DEF Idle, ComDataReadProc, ReaderWait, ReaderRead, ReaderCheck, ReaderWrite,
     ReaderCopy, ReaderPublish, ReaderSet,
       shared, reader, writer, socket, device, network, history

\* comDataWriteProc empties sendBuf on every path back to its wait.
LEMMA IdleWriter == ASSUME Idle, ComDataWriteProc PROVE Idle'
BY DEF Idle, ComDataWriteProc, WriterWait, WriterRead, WriterFile, WriterMore,
       shared, reader, writer, socket, device, network, history

\* socketDataEventsHandler leaves no event unhandled, and recv finds nothing after a
\* reset.
LEMMA IdleHandler == ASSUME Types, Idle, SocketDataEventsHandler PROVE Idle'
<1>1. ASSUME HandleRead PROVE Idle'
  <2>1. rx = <<>> => rx' = <<>>
    BY <1>1, Taking DEF HandleRead, Types
  <2> QED
    BY <1>1, <2>1 DEF Idle, HandleRead, Pending, shared, reader, writer, socket, device,
         network, history
<1>2. ASSUME HandleReadSet \/ HandleConnect \/ HandleWrite \/ HandleClose PROVE Idle'
  BY <1>2 DEF Idle, HandleReadSet, HandleConnect, HandleWrite, HandleClose, Leave,
       Pending, Nothing, shared, reader, writer, socket, device, network, history
<1> QED BY <1>1, <1>2 DEF SocketDataEventsHandler

\* writeComToTcp empties sendBuf on every way out of its loop.
LEMMA IdleSender == ASSUME Types, Idle, WriteComToTcp PROVE Idle'
<1>1. ASSUME SendSome PROVE Idle'
  <2>1. PICK n \in 1..Least(Len(skBuf), SendWindow - Len(window)) :
          /\ skBuf' = Rest(skBuf, n)
          /\ skPc' = IF n = Len(skBuf) THEN "sendMore" ELSE "send"
    BY <1>1 DEF SendSome
  <2>2. n = Len(skBuf) => skBuf' = <<>>
    BY SMTT(60), <2>1, Positive, Lengths, Cutting DEF Types, Least
  <2> QED
    BY <1>1, <2>1, <2>2 DEF Idle, SendSome, shared, reader, writer, socket, device,
         network, history
<1>2. ASSUME SendRead \/ SendBlocked \/ SendFails \/ SendCancel \/ SendMore PROVE Idle'
  BY <1>2 DEF Idle, SendRead, SendBlocked, SendFails, SendCancel, SendMore, Leave, Sendable,
       shared, reader, writer, socket, device, network, history
<1> QED BY <1>1, <1>2 DEF WriteComToTcp

\* The device, the peer and the dialog do not touch the threads' buffers; a reset
\* drops rx.
LEMMA IdleEnvironment == ASSUME Idle, Environment PROVE Idle'
BY DEF Idle, Environment, ComDeviceSends, PeerSends, PeerReceives, PeerCloses,
     ConnectionResets, CloseThreads, Sendable, shared, reader, writer, socket, device,
     network, history

\* Nor do the loop's own steps, which hand what was enumerated to the handler.
LEMMA IdleLoop == ASSUME Idle, LoopStep PROVE Idle'
BY DEF Idle, LoopStep, Startup, CloseSocket, DropConnection, Disconnected, Sleep, Stop,
       EnumNetworkEvents, WaitComRcv, WaitClose, WaitTimeout, Leave,
       shared, reader, writer, socket, device, network, history

\* comDataReadProc: what Write keeps fits the ring.
LEMMA TypesReader ==
  ASSUME Types, Sizes, Room, ComDataReadProc
  PROVE  Types' /\ Sizes'
<1> USE DEF Types, Sizes, shared, reader, writer, socket, device, network, history
<1>1. ASSUME ReaderWrite PROVE Types' /\ Sizes'
  <2>1. rdBuf' \in Bytes
    BY <1>1, Fitting DEF ReaderWrite
  <2> QED BY <1>1, <2>1 DEF ReaderWrite
<1>2. ASSUME ReaderCopy PROVE Types' /\ Sizes'
  <2>1. comToTcp' \in Bytes /\ Len(comToTcp') < BufferSize
    BY <1>2, Overwriting DEF ReaderCopy
  <2> QED BY <1>2, <2>1 DEF ReaderCopy
<1>3. ASSUME ReaderPublish PROVE Types' /\ Sizes'
  <2>1. comToTcp' = Wrapped(Cat(comToTcp, rdBuf))
    BY <1>3 DEF ReaderPublish, Cat
  <2>2. Cat(comToTcp, rdBuf) \in Bytes /\ Len(Cat(comToTcp, rdBuf)) < BufferSize + BufferSize
    <3>1. rdPc = "publish"
      BY <1>3 DEF ReaderPublish
    <3>2. Len(rdBuf) < BufferSize /\ Len(comToTcp) < BufferSize
      BY <3>1 DEF Room
    <3>3. comToTcp \in Bytes /\ rdBuf \in Bytes
      OBVIOUS
    <3> QED BY ONLY <3>2, <3>3, Joining, Positive, Lengths
  <2>3. comToTcp' \in Bytes /\ Len(comToTcp') < BufferSize
    BY <2>1, <2>2, Wrapping
  <2> QED BY <1>3, <2>3, Empty DEF ReaderPublish
<1>4. ASSUME ReaderWait \/ ReaderRead \/ ReaderCheck \/ ReaderSet PROVE Types' /\ Sizes'
  BY <1>4, Empty DEF ReaderWait, ReaderRead, ReaderCheck, ReaderSet
<1> QED BY <1>1, <1>2, <1>3, <1>4 DEF ComDataReadProc

\* Write takes its room when it takes its sizes,
LEMMA RoomReader ==
  ASSUME Types, Sizes, Room, ComDataReadProc
  PROVE  Room'
<1> USE DEF Types, Sizes
<1>1. ASSUME ReaderWrite PROVE Room'
  <2>1. Len(rdBuf') < BufferSize /\ Len(comToTcp) + Len(rdBuf') < BufferSize
    BY <1>1, Fitting DEF ReaderWrite
  <2>2. comToTcp' = comToTcp
    BY <1>1 DEF ReaderWrite, shared
  <2> QED BY <2>1, <2>2 DEF Room
<1>2. ASSUME ReaderCopy PROVE Room'
  <2>1. /\ Len(comToTcp') = Len(comToTcp) /\ rdPc = "copy"
        /\ UNCHANGED <<rdBuf, raced>>
    BY <1>2, Overwriting DEF ReaderCopy, history
  <2> QED BY <2>1 DEF Room
<1>3. ASSUME ReaderPublish \/ ReaderWait \/ ReaderRead \/ ReaderCheck \/ ReaderSet
      PROVE  Room'
  BY <1>3 DEF Room, ReaderPublish, ReaderWait, ReaderRead, ReaderCheck, ReaderSet
<1> QED BY <1>1, <1>2, <1>3 DEF ComDataReadProc

\* and only a cancelled read takes it back.
LEMMA RoomSender ==
  ASSUME Types, Sizes, Room, WriteComToTcp
  PROVE  Room'
<1> USE DEF Types, Sizes
<1>1. ASSUME SendRead PROVE Room'
  <2>1. Len(comToTcp') <= Len(comToTcp) /\ comToTcp' \in Bytes
    BY <1>1, Taking DEF SendRead
  <2>2. UNCHANGED <<rdPc, rdBuf, raced>>
    BY <1>1 DEF SendRead, reader, history
  <2> QED BY <2>1, <2>2, Lengths, Positive DEF Room
<1>2. ASSUME SendCancel PROVE Room'
  <2> DEFINE back == Cancelled(comToTcp, skBuf)
  <2>1. back \in Bytes /\ Len(back) < BufferSize
    BY Cancelling
  <2>2. /\ comToTcp' = IF rdPc = "publish" THEN Overwritten(back, rdBuf) ELSE back
        /\ raced' = (raced \/ Racing(back))
        /\ UNCHANGED <<rdPc, rdBuf>>
    BY <1>2 DEF SendCancel, reader
  <2> HIDE DEF back
  <2>3. Len(comToTcp') = Len(back)
    BY <2>1, <2>2, Overwriting
  <2>4. ASSUME rdPc \in {"copy", "publish"}, ~(Len(back) + Len(rdBuf) < BufferSize)
        PROVE  raced'
    <3>1. Racing(back)
      BY <2>1, <2>4, Lengths, Positive DEF Racing
    <3> QED BY <2>2, <3>1
  <2> QED BY <2>2, <2>3, <2>4 DEF Room
<1>3. ASSUME SendSome \/ SendBlocked \/ SendFails \/ SendMore PROVE Room'
  BY <1>3 DEF Room, SendSome, SendBlocked, SendFails, SendMore, shared, reader, history
<1> QED BY <1>1, <1>2, <1>3 DEF WriteComToTcp

\* No other step touches the ring, readBuf or the comDataReadProc's place.
LEMMA RoomElse ==
  ASSUME Room, UNCHANGED <<rdPc, rdBuf, comToTcp, raced>>
  PROVE  Room'
BY DEF Room

\* Such are the steps of the other threads and of the environment.
LEMMA RoomKept ==
  ASSUME Room, ComDataWriteProc \/ SocketDataEventsHandler \/ LoopStep \/ Environment
  PROVE  Room'
<1>1. UNCHANGED <<rdPc, rdBuf, comToTcp, raced>>
  BY DEF ComDataWriteProc, WriterWait, WriterRead, WriterFile, WriterMore,
     SocketDataEventsHandler, HandleRead, HandleReadSet, HandleConnect, HandleWrite,
     HandleClose, LoopStep, Startup, CloseSocket, Disconnected, Sleep, Stop,
     EnumNetworkEvents, WaitComRcv, WaitClose, WaitTimeout,
     Environment, ComDeviceSends, PeerSends, PeerReceives, PeerCloses, ConnectionResets,
     CloseThreads, Leave, shared, reader, history
<1> QED BY <1>1, RoomElse

\* comDataWriteProc: a Read takes at most TCP_BUF_SIZE bytes.
LEMMA TypesWriter ==
  ASSUME Types, Sizes, ComDataWriteProc
  PROVE  Types' /\ Sizes'
<1> USE DEF Types, Sizes, shared, reader, writer, socket, device, network, history
<1>1. ASSUME WriterRead PROVE Types' /\ Sizes'
  <2>1. /\ wrBuf' \in Bytes /\ Len(wrBuf') <= TcpBufSize
        /\ tcpToCom' \in Bytes /\ Len(tcpToCom') <= Len(tcpToCom)
    BY <1>1, Taking, Lengths DEF WriterRead
  <2> QED BY <1>1, <2>1, Lengths, Smaller DEF WriterRead
<1>2. ASSUME WriterFile PROVE Types' /\ Sizes'
  <2>1. comOut' \in Bytes
    BY <1>2, Cutting, Laws DEF WriterFile, Cat
  <2> QED BY <1>2, <2>1, Empty DEF WriterFile
<1>3. ASSUME WriterWait \/ WriterMore PROVE Types' /\ Sizes'
  BY <1>3 DEF WriterWait, WriterMore
<1> QED BY <1>1, <1>2, <1>3 DEF ComDataWriteProc

\* socketDataEventsHandler: what recv brings, or the noise of a failed one, fits the
\* ring.
LEMMA TypesHandler ==
  ASSUME Types, Sizes, SocketDataEventsHandler
  PROVE  Types' /\ Sizes'
<1> USE DEF Types, Sizes, shared, reader, writer, socket, device, network, history
<1>1. ASSUME HandleRead PROVE Types' /\ Sizes'
  <2> DEFINE taken == First(rx, Least(TcpBufSize, Len(rx)))
             noise == [i \in 1..(BufferSize - 1 - Len(tcpToCom)) |-> 0]
             data == IF conn = "reset" THEN noise ELSE taken
  <2>1. noise \in Bytes
    BY Positive, Lengths DEF Bytes
  <2>2. data \in Bytes /\ rx' \in Bytes
    BY <1>1, <2>1, Taking DEF HandleRead
  <2>3. tcpToCom' = Written(tcpToCom, data)
    BY <1>1 DEF HandleRead
  <2>4. tcpToCom' \in Bytes /\ Len(tcpToCom') < BufferSize
    BY <2>2, <2>3, Fitting
  <2> QED BY <1>1, <2>2, <2>4 DEF HandleRead, Pending
<1>2. ASSUME HandleReadSet \/ HandleConnect \/ HandleWrite \/ HandleClose PROVE Types' /\ Sizes'
  BY <1>2 DEF HandleReadSet, HandleConnect, HandleWrite, HandleClose, Leave
<1> QED BY <1>1, <1>2 DEF SocketDataEventsHandler

\* writeComToTcp: a Read, a partial send and a cancelled read stay within the
\* buffers.
LEMMA TypesSender ==
  ASSUME Types, Sizes, WriteComToTcp
  PROVE  Types' /\ Sizes'
<1> USE DEF Types, Sizes, shared, reader, writer, socket, device, network, history
<1>1. ASSUME SendRead PROVE Types' /\ Sizes'
  <2>1. /\ skBuf' \in Bytes /\ Len(skBuf') <= TcpBufSize /\ Len(skBuf') <= Len(comToTcp)
        /\ comToTcp' \in Bytes /\ Len(comToTcp') <= Len(comToTcp)
    BY <1>1, Taking, Lengths DEF SendRead
  <2> QED BY <1>1, <2>1, Lengths, Smaller DEF SendRead
<1>2. ASSUME SendSome PROVE Types' /\ Sizes'
  <2>1. PICK n \in 1..Least(Len(skBuf), SendWindow - Len(window)) :
          /\ window' = window \o First(skBuf, n)
          /\ skBuf' = Rest(skBuf, n)
    BY <1>2 DEF SendSome
  <2>2. n \in 0..Len(skBuf) /\ n <= SendWindow - Len(window)
    BY Positive, Lengths DEF Least
  <2>3. /\ First(skBuf, n) \in Bytes /\ Len(First(skBuf, n)) = n
        /\ skBuf' \in Bytes
    BY <2>1, <2>2, Cutting
  <2>4. window' \in Bytes /\ Len(window') <= SendWindow
    BY SMTT(60), <2>1, <2>2, <2>3, Joining, Positive, Lengths DEF Cat
  <2>5. Len(skBuf') <= TcpBufSize /\ Len(skBuf') < BufferSize
    BY <2>1, <2>2, Smaller, Cutting, Lengths
  <2> QED BY <1>2, <2>3, <2>4, <2>5 DEF SendSome
<1>3. ASSUME SendCancel PROVE Types' /\ Sizes'
  <2> DEFINE back == Cancelled(comToTcp, skBuf)
  <2>1. back \in Bytes /\ Len(back) < BufferSize
    BY Cancelling
  <2>2. comToTcp' = IF rdPc = "publish" THEN Overwritten(back, rdBuf) ELSE back
    BY <1>3 DEF SendCancel
  <2> HIDE DEF back
  <2>3. comToTcp' \in Bytes /\ Len(comToTcp') < BufferSize
    BY <2>1, <2>2, Overwriting
  <2>4. raced' \in BOOLEAN
    BY <1>3, Zenon DEF SendCancel
  <2> QED BY <1>3, <2>3, <2>4, Empty DEF SendCancel
<1>4. ASSUME SendBlocked \/ SendFails \/ SendMore PROVE Types' /\ Sizes'
  BY <1>4, Empty DEF SendBlocked, SendFails, SendMore, Leave
<1> QED BY <1>1, <1>2, <1>3, <1>4 DEF WriteComToTcp

\* The device and the peer add bytes at the ends that are theirs.
LEMMA TypesEnvironment ==
  ASSUME Types, Sizes, Environment
  PROVE  Types' /\ Sizes'
<1> USE DEF Types, Sizes, shared, reader, writer, socket, device, network, history
<1>1. ASSUME PeerReceives PROVE Types' /\ Sizes'
  <2>1. peerGot' \in Bytes /\ window' \in Bytes /\ Len(window') <= SendWindow
    BY <1>1, Shifting, Positive, Lengths DEF PeerReceives
  <2> QED BY <1>1, <2>1 DEF PeerReceives
<1>2. ASSUME ComDeviceSends \/ PeerSends \/ CloseThreads PROVE Types' /\ Sizes'
  BY <1>2, Appending DEF ComDeviceSends, PeerSends, CloseThreads
<1>3. ASSUME PeerCloses \/ ConnectionResets PROVE Types' /\ Sizes'
  <2>1. failures + 1 \in Nat
    OBVIOUS
  <2> QED BY <1>3, <2>1, Empty DEF PeerCloses, ConnectionResets
<1> QED BY <1>1, <1>2, <1>3 DEF Environment

\* What arrives of the window when a connection is given up is a sequence of bytes.
LEMMA Dropping ==
  ASSUME Types, DropConnection
  PROVE  /\ peerGot' \in Bytes /\ rx' \in Bytes /\ window' \in Bytes
         /\ Len(window') <= SendWindow
BY Cutting, Laws, Empty DEF DropConnection, Types, Cat

\* The loop's own steps: closing the socket empties its buffers.
LEMMA TypesLoop == ASSUME Types, Sizes, LoopStep PROVE Types' /\ Sizes'
<1>1. ASSUME CloseSocket PROVE Types' /\ Sizes'
  BY <1>1, Dropping DEF CloseSocket, Types, Sizes, shared, reader, writer, socket,
       device, history
<1>2. ASSUME LoopStep, ~CloseSocket PROVE Types' /\ Sizes'
  BY <1>2 DEF LoopStep, Startup, Disconnected, Sleep, Stop, EnumNetworkEvents,
       WaitComRcv, WaitClose, WaitTimeout,
   Leave, Types, Sizes, shared, reader, writer, socket, device, network, history
<1> QED BY <1>1, <1>2

-----------------------------------------------------------------------------
(* Where the threads are, and what the status says of it. *)

Phases ==
  /\ rdPc \in {"wait", "read", "check", "write", "copy", "publish", "set", "done"}
  /\ wrPc \in {"wait", "read", "file", "more", "done"}
  /\ skPc \in {"start", "open", "wait", "handle", "sendRead", "send", "cancel", "sendMore",
               "check", "leave", "closed", "sleep", "stop", "done"}
  /\ skResult \in {"CONTINUE", "RECONNECT", "FREE"}

Labels ==
  /\ status \in {"Stopped", "Disconnected", "Processing", "Connected"}
  /\ conn \in {"none", "connecting", "refused", "up", "closed", "reset"}
  /\ skGot \subseteq {"FD_READ", "TcpRcv", "FD_CONNECT", "FD_WRITE", "FD_CLOSE"}
  /\ netEvents \subseteq {"FD_READ", "FD_CONNECT", "FD_WRITE", "FD_CLOSE"}
  /\ stranded \subseteq {"comToTcp", "tcpToCom"}

Flags == {comRcvEvent, tcpRcvEvent, closeEvent, needResend, rxChar, blocked} \subseteq BOOLEAN

Looping == skPc \in {"wait", "handle", "sendRead", "send", "cancel", "sendMore", "check"}
Established == conn \in {"up", "closed", "reset"} /\ "FD_CONNECT" \notin netEvents \cup skGot

Connection ==
  /\ skPc \in {"start", "open", "closed", "sleep", "stop", "done"} => conn = "none"
  /\ conn \in {"none", "connecting"} => netEvents = {} /\ skGot = {}
  /\ "FD_CONNECT" \notin netEvents \cap skGot
  /\ Looping => (status = "Connected" <=> Established)

StatusOfPhase ==
  /\ skPc \in {"start", "done"} => status = "Stopped"
  /\ skPc = "open" => status \in {"Stopped", "Disconnected"}
  /\ Looping \/ skPc \in {"leave", "closed"} => status \in {"Processing", "Connected"}
  /\ skPc = "sleep" => status = "Disconnected"
  /\ skPc = "stop" => status \in {"Processing", "Disconnected"}

Control == Phases /\ Labels /\ Connection /\ StatusOfPhase

\* The COM threads do not touch the connection.
LEMMA ConnectionThreads ==
  ASSUME Connection, ComDataReadProc \/ ComDataWriteProc
  PROVE  Connection'
<1>1. UNCHANGED <<status, conn, netEvents, skGot, skPc>>
  BY DEF ComDataReadProc, ReaderWait, ReaderRead, ReaderCheck, ReaderWrite,
     ReaderCopy, ReaderPublish, ReaderSet,
     ComDataWriteProc, WriterWait, WriterRead, WriterFile, WriterMore,
     shared, reader, writer, socket, device, network, history
<1> QED BY <1>1 DEF Connection, Looping, Established

\* The COM threads move their own counters only.
LEMMA ControlThreads ==
  ASSUME Idle, Control, ComDataReadProc \/ ComDataWriteProc
  PROVE  Control'
<1> USE DEF ComDataReadProc, ReaderWait, ReaderRead, ReaderCheck, ReaderWrite,
     ReaderCopy, ReaderPublish, ReaderSet,
       ComDataWriteProc, WriterWait, WriterRead, WriterFile, WriterMore,
       shared, reader, writer, socket, device, network, history
<1>1. Phases'
  BY DEF Idle, Control, Phases
<1>4. Labels'
  BY DEF Idle, Control, Labels
<1>2. Connection'
  BY ConnectionThreads DEF Control
<1>3. StatusOfPhase'
  BY DEF Idle, Control, StatusOfPhase, Looping, Labels, Phases
<1> QED BY <1>1, <1>2, <1>3, <1>4 DEF Control

\* They set and reset flags.
LEMMA FlagsThreads ==
  ASSUME Flags, ComDataReadProc \/ ComDataWriteProc
  PROVE  Flags'
BY DEF Flags, ComDataReadProc, ReaderWait, ReaderRead, ReaderCheck, ReaderWrite,
     ReaderCopy, ReaderPublish, ReaderSet,
       ComDataWriteProc, WriterWait, WriterRead, WriterFile, WriterMore,
       shared, reader, writer, socket, device, network, history

\* The handler knows of a connection from FD_CONNECT, and leaves when it is refused.
LEMMA ConnectionHandler ==
  ASSUME Phases, Labels, Connection, SocketDataEventsHandler
  PROVE  Connection'
<1>1. ASSUME HandleRead PROVE Connection'
  <2>1. /\ UNCHANGED <<status, conn, skPc>> /\ skPc = "handle"
        /\ skGot' = (skGot \ {"FD_READ"}) \cup {"TcpRcv"} /\ skGot # {}
        /\ netEvents' = netEvents \/ netEvents' = netEvents \cup {"FD_READ"}
    BY <1>1 DEF HandleRead, Pending
  <2> QED BY <2>1 DEF Connection, Looping, Established
<1>2. ASSUME HandleReadSet PROVE Connection'
  <2>1. /\ UNCHANGED <<status, conn, netEvents, skPc>> /\ skPc = "handle"
        /\ skGot' = skGot \ {"TcpRcv"} /\ skGot # {}
    BY <1>2 DEF HandleReadSet, Pending, network
  <2> QED BY <2>1 DEF Connection, Looping, Established
<1>3. ASSUME HandleConnect PROVE Connection'
  BY <1>3 DEF HandleConnect, Pending, Nothing, Leave, network, Connection, Looping,
     Established, Labels
<1>4. ASSUME HandleWrite PROVE Connection'
  BY <1>4 DEF HandleWrite, Pending, Nothing, Leave, network, Connection, Looping,
     Established, Labels
<1>5. ASSUME HandleClose PROVE Connection'
  BY <1>5 DEF HandleClose, Pending, Nothing, Leave, shared, network, Connection, Looping,
     Established, Labels
<1> QED BY <1>1, <1>2, <1>3, <1>4, <1>5 DEF SocketDataEventsHandler

\* The handler says Connected exactly when it takes an FD_CONNECT without an error.
LEMMA ControlHandler ==
  ASSUME Idle, Control, SocketDataEventsHandler
  PROVE  Control'
<1> USE DEF SocketDataEventsHandler, HandleRead, HandleReadSet, HandleConnect,
     HandleWrite, HandleClose,
       Pending, Nothing, Leave,
       shared, reader, writer, socket, device, network, history
<1>1. Phases'
  BY DEF Idle, Control, Phases
<1>4. Labels'
  BY DEF Idle, Control, Labels
<1>2. Connection'
  BY ConnectionHandler DEF Control
<1>3. StatusOfPhase'
  BY DEF Idle, Control, StatusOfPhase, Looping, Labels, Phases
<1> QED BY <1>1, <1>2, <1>3, <1>4 DEF Control

\* It sets and resets flags.
LEMMA FlagsHandler == ASSUME Flags, SocketDataEventsHandler PROVE Flags'
BY DEF Flags, SocketDataEventsHandler, HandleRead, HandleReadSet, HandleConnect,
     HandleWrite, HandleClose,
       Pending, Nothing, Leave,
       shared, reader, writer, socket, device, network, history

\* writeComToTcp does not touch the status; a send that fails leaves the loop.
LEMMA ControlSender ==
  ASSUME Idle, Control, WriteComToTcp
  PROVE  Control'
<1> USE DEF WriteComToTcp, SendRead, SendSome, SendBlocked, SendFails, SendCancel,
     SendMore, Leave, Sendable,
       shared, reader, writer, socket, device, network, history
<1>1. Phases'
  BY DEF Idle, Control, Phases
<1>4. Labels'
  BY DEF Idle, Control, Labels
<1>2. Connection'
  BY DEF Idle, Control, Connection, Looping, Established, Labels, Phases
<1>3. StatusOfPhase'
  BY DEF Idle, Control, StatusOfPhase, Looping, Labels, Phases
<1> QED BY <1>1, <1>2, <1>3, <1>4 DEF Control

\* It sets and resets flags.
LEMMA FlagsSender == ASSUME Flags, WriteComToTcp PROVE Flags'
BY DEF Flags, WriteComToTcp, SendRead, SendSome, SendBlocked, SendFails, SendCancel,
     SendMore, Leave, Sendable,
       shared, reader, writer, socket, device, network, history

\* The peer and the network record events on a connection that is up, and end it.
LEMMA ConnectionEnvironment ==
  ASSUME Connection, Environment
  PROVE  Connection'
<1>1. ASSUME ComDeviceSends \/ CloseThreads PROVE Connection'
  <2>1. UNCHANGED <<status, conn, netEvents, skGot, skPc>>
    BY <1>1 DEF ComDeviceSends, CloseThreads, shared, socket, network
  <2> QED BY <2>1 DEF Connection, Looping, Established
<1>2. ASSUME PeerSends \/ PeerReceives \/ PeerCloses \/ ConnectionResets PROVE Connection'
  <2>1. /\ UNCHANGED <<status, skGot, skPc>>
        /\ conn \in {"up", "closed"} /\ conn' \in {"up", "closed", "reset"}
        /\ \E e \in SUBSET {"FD_READ", "FD_WRITE", "FD_CLOSE"} : netEvents' = netEvents \cup e
    <3>1. ASSUME PeerSends
          PROVE  netEvents' = netEvents \cup {} \/ netEvents' = netEvents \cup {"FD_READ"}
      BY <3>1 DEF PeerSends
    <3>2. ASSUME PeerReceives
          PROVE  netEvents' = netEvents \cup {} \/ netEvents' = netEvents \cup {"FD_WRITE"}
      BY <3>2 DEF PeerReceives
    <3>3. ASSUME PeerCloses \/ ConnectionResets PROVE netEvents' = netEvents \cup {"FD_CLOSE"}
      BY <3>3 DEF PeerCloses, ConnectionResets
    <3>4. \E e \in SUBSET {"FD_READ", "FD_WRITE", "FD_CLOSE"} : netEvents' = netEvents \cup e
      BY <1>2, <3>1, <3>2, <3>3
    <3>5. /\ UNCHANGED <<status, skGot, skPc>>
          /\ conn \in {"up", "closed"} /\ conn' \in {"up", "closed", "reset"}
      BY <1>2 DEF PeerSends, PeerReceives, PeerCloses, ConnectionResets, Sendable, shared, socket
    <3> QED BY <3>4, <3>5
  <2> QED BY <2>1 DEF Connection, Looping, Established
<1> QED BY <1>1, <1>2 DEF Environment

\* A connection that is up stays known as such when it is closed or reset.
LEMMA ControlEnvironment ==
  ASSUME Idle, Control, Environment
  PROVE  Control'
<1> USE DEF Environment, ComDeviceSends, PeerSends, PeerReceives, PeerCloses,
     ConnectionResets, CloseThreads, Sendable,
       shared, reader, writer, socket, device, network, history
<1>1. Phases'
  BY DEF Idle, Control, Phases
<1>4. Labels'
  BY DEF Idle, Control, Labels
<1>2. Connection'
  BY ConnectionEnvironment DEF Control
<1>3. StatusOfPhase'
  BY DEF Idle, Control, StatusOfPhase, Looping, Labels, Phases
<1> QED BY <1>1, <1>2, <1>3, <1>4 DEF Control

\* The device, the network and the dialog set and reset flags.
LEMMA FlagsEnvironment == ASSUME Flags, Environment PROVE Flags'
BY DEF Flags, Environment, ComDeviceSends, PeerSends, PeerReceives, PeerCloses,
     ConnectionResets, CloseThreads, Sendable,
       shared, reader, writer, socket, device, network, history

\* The status follows the phases of the loop.
LEMMA ControlLoop ==
  ASSUME Idle, Control, LoopStep
  PROVE  Control'
<1> USE DEF LoopStep, Startup, CloseSocket, DropConnection, Disconnected, Sleep, Stop,
       EnumNetworkEvents, WaitComRcv, WaitClose, WaitTimeout, Leave,
       shared, reader, writer, socket, device, network, history
<1>1. Phases'
  BY DEF Idle, Control, Phases
<1>4. Labels'
  BY DEF Idle, Control, Labels
<1>2. Connection'
  BY DEF Idle, Control, Connection, Looping, Established, Labels, Phases
<1>3. StatusOfPhase'
  BY DEF Idle, Control, StatusOfPhase, Looping, Labels, Phases
<1> QED BY <1>1, <1>2, <1>3, <1>4 DEF Control

\* The waits reset the events they report.
LEMMA FlagsLoop == ASSUME Flags, LoopStep PROVE Flags'
BY DEF Flags, LoopStep, Startup, CloseSocket, DropConnection, Disconnected, Sleep, Stop,
       EnumNetworkEvents, WaitComRcv, WaitClose, WaitTimeout, Leave,
       shared, reader, writer, socket, device, network, history

-----------------------------------------------------------------------------
(* No wakeup is lost. *)

ComRcvPending == 
  \/ comRcvEvent 
  \/ rdPc = "set" 
  \/ "comToTcp" \in stranded
  \/ needResend /\ (conn = "up" => blocked \/ "FD_WRITE" \in netEvents \cup skGot)

Wakeups ==
  /\ (comToTcp # <<>> /\ skPc \notin {"sendRead", "send", "cancel", "sendMore"}) =>
       ComRcvPending
  /\ (skPc = "cancel" /\ conn = "up") => blocked \/ "FD_WRITE" \in netEvents
  /\ WriteWakeup

\* What the reader puts in the ring it announces; the writer leaves its loop with the
\* ring empty.
LEMMA WakeupsThreads ==
  ASSUME Types, Sizes, Control, Wakeups, ComDataReadProc \/ ComDataWriteProc
  PROVE  Wakeups'
<1> USE DEF Control, Labels, Phases, Wakeups, ComRcvPending, WriteWakeup,
        shared, reader, writer, socket, device, network, history
<1>1. ASSUME ReaderCopy PROVE Wakeups'
  <2>1. comToTcp' \in Bytes /\ Len(comToTcp') = Len(comToTcp)
    BY <1>1, Overwriting DEF ReaderCopy, Types, Sizes
  <2>2. comToTcp' # <<>> => comToTcp # <<>>
    BY <2>1, Lengths DEF Types
  <2> QED BY <1>1, <2>2 DEF ReaderCopy
<1>2. ASSUME ComDataReadProc \/ ComDataWriteProc, ~ReaderCopy PROVE Wakeups'
  BY <1>2 DEF ComDataReadProc, ReaderWait, ReaderRead, ReaderCheck, ReaderWrite,
     ReaderPublish, ReaderSet,
     ComDataWriteProc, WriterWait, WriterRead, WriterFile, WriterMore
<1> QED BY <1>1, <1>2

\* The handler announces what recv brought, and turns FD_WRITE into m_ComRcvEvent for
\* a resend.
LEMMA WakeupsHandler ==
  ASSUME Idle, Control, Wakeups, SocketDataEventsHandler
  PROVE  Wakeups'
BY DEF Idle, Control, Labels, Phases, Wakeups, ComRcvPending, WriteWakeup,
   SocketDataEventsHandler, HandleRead, HandleReadSet, HandleConnect, HandleWrite, HandleClose,
   Pending, Nothing, Leave, shared, reader, writer, socket, device, network, history

\* writeComToTcp leaves its loop with the ring empty, with an FD_WRITE to come, or
\* for good.
LEMMA WakeupsSender ==
  ASSUME Idle, Control, Wakeups, WriteComToTcp
  PROVE  Wakeups'
BY DEF Idle, Control, Labels, Phases, Wakeups, ComRcvPending, WriteWakeup,
   WriteComToTcp, SendRead, SendSome, SendBlocked, SendFails, SendCancel, SendMore,
        Leave, Sendable,
   shared, reader, writer, socket, device, network, history

\* A peer that makes room posts the FD_WRITE that a blocked send waits for.
LEMMA WakeupsEnvironment ==
  ASSUME Idle, Control, Wakeups, Environment
  PROVE  Wakeups'
BY DEF Idle, Control, Labels, Phases, Connection, Looping, Established, Wakeups,
     ComRcvPending, WriteWakeup,
   Environment, ComDeviceSends, PeerSends, PeerReceives, PeerCloses, ConnectionResets,
        CloseThreads, Sendable,
   shared, reader, writer, socket, device, network, history

\* The loop takes m_ComRcvEvent only to empty the ring.
LEMMA WakeupsLoop == ASSUME Idle, Control, Wakeups, LoopStep PROVE Wakeups'
BY DEF Idle, Control, Labels, Phases, Connection, Looping, Established, Wakeups,
     ComRcvPending, WriteWakeup,
   LoopStep, Startup, CloseSocket, DropConnection, Disconnected, Sleep, Stop,
   EnumNetworkEvents, WaitComRcv, WaitClose, WaitTimeout, Leave,
   shared, reader, writer, socket, device, network, history

-----------------------------------------------------------------------------
(* From the COM port to the peer. *)

ComSources == Range(ComInFlight) \cup lostCom \subseteq 1..comSent
ComFlow == ComSources /\ (raced \/ Flow(ComInFlight, lostCom, comSent, {}))

\* The six places of a byte of the COM device.
LEMMA ComPlaces ==
  /\ ComInFlight = Cat(Cat(Cat(Cat(Cat(peerGot, window), skBuf), comToTcp), rdBuf), comIn)
  /\ ComInFlight' = Cat(Cat(Cat(Cat(Cat(peerGot', window'), skBuf'), comToTcp'), rdBuf'),
       comIn')
BY DEF ComInFlight, Cat

\* A step that moves no byte to another place in the order keeps the flow.
LEMMA ComKept ==
  ASSUME ComFlow, ComInFlight' = ComInFlight, UNCHANGED <<lostCom, comSent, raced>>
  PROVE  ComFlow'
BY DEF ComFlow, ComSources

\* A step that drops bytes out of the middle keeps the flow of the others.
LEMMA ComLoses ==
  ASSUME Types, ComFlow, NEW a \in Bytes, NEW b \in Bytes, NEW c \in Bytes,
         ComInFlight = Cat(Cat(a, b), c), ComInFlight' = Cat(a, c),
         lostCom' = lostCom \cup Range(b), UNCHANGED <<comSent, raced>>
  PROVE  ComFlow'
<1>1. ComSources'
  <2>1. Cat(a, b) \in Bytes /\ Range(Cat(a, b)) = Range(a) \cup Range(b)
    BY RangeCat, Laws
  <2>2. /\ Range(Cat(Cat(a, b), c)) = Range(a) \cup Range(b) \cup Range(c)
        /\ Range(Cat(a, c)) = Range(a) \cup Range(c)
    BY <2>1, RangeCat
  <2> QED BY <2>2 DEF ComFlow, ComSources
<1>2. ASSUME Flow(ComInFlight, lostCom, comSent, {})
      PROVE  Flow(ComInFlight', lostCom', comSent', {})
  BY <1>2, Losing DEF Types
<1> QED BY <1>1, <1>2 DEF ComFlow

\* Where the bytes of the COM device are, place by place.
LEMMA ComRange ==
  ASSUME Types
  PROVE  Range(ComInFlight) = Range(peerGot) \cup Range(window) \cup Range(skBuf) \cup
           Range(comToTcp) \cup Range(rdBuf) \cup Range(comIn)
<1> USE DEF Types
<1> DEFINE x == Cat(Cat(Cat(peerGot, window), skBuf), comToTcp)
<1>1. /\ x \in Bytes
      /\ Range(x) = Range(peerGot) \cup Range(window) \cup Range(skBuf) \cup Range(comToTcp)
  BY RangeCat4
<1>2. ComInFlight = Cat(Cat(x, rdBuf), comIn)
  BY ComPlaces
<1> HIDE DEF x
<1>3. Cat(x, rdBuf) \in Bytes /\ Range(Cat(x, rdBuf)) = Range(x) \cup Range(rdBuf)
  BY <1>1, RangeCat, Laws
<1> QED BY <1>1, <1>2, <1>3, RangeCat

\* Once a Write and a cancelled read have raced, all that is claimed is that no byte
\* comes from nowhere.
LEMMA ComRaced ==
  ASSUME Types, Types', ComFlow, raced', UNCHANGED <<peerGot, window, comIn, comSent>>,
         Range(skBuf') \cup Range(comToTcp') \cup Range(rdBuf') \subseteq
           Range(skBuf) \cup Range(comToTcp) \cup Range(rdBuf),
         lostCom' \subseteq lostCom \cup Range(skBuf) \cup Range(comToTcp)
  PROVE  ComFlow'
<1>1. Range(ComInFlight') = Range(peerGot') \cup Range(window') \cup Range(skBuf') \cup
        Range(comToTcp') \cup Range(rdBuf') \cup Range(comIn')
  <2> USE DEF Types
  <2> DEFINE x == Cat(Cat(Cat(peerGot', window'), skBuf'), comToTcp')
  <2>1. /\ x \in Bytes
        /\ Range(x) = Range(peerGot') \cup Range(window') \cup Range(skBuf') \cup
             Range(comToTcp')
    BY RangeCat4
  <2>2. ComInFlight' = Cat(Cat(x, rdBuf'), comIn')
    BY ComPlaces
  <2> HIDE DEF x
  <2>3. Cat(x, rdBuf') \in Bytes /\ Range(Cat(x, rdBuf')) = Range(x) \cup Range(rdBuf')
    BY <2>1, RangeCat, Laws
  <2> QED BY <2>1, <2>2, <2>3, RangeCat
<1>2. Range(ComInFlight') \cup lostCom' \subseteq Range(ComInFlight) \cup lostCom
  BY <1>1, ComRange
<1> QED BY <1>2 DEF ComFlow, ComSources

\* comDataReadProc passes on what it read, drops it when not connected, or loses what
\* the ring has no room for.
LEMMA ComFlowReader ==
  ASSUME Types, Types', Idle, Sizes, Room, ComFlow, ComDataReadProc
  PROVE  ComFlow'
<1> USE DEF Types
<1>1. ASSUME ReaderWait \/ ReaderSet PROVE ComFlow'
  BY <1>1, ComKept DEF ReaderWait, ReaderSet, ComInFlight, shared, reader, writer,
       socket, device, network, history
<1>2. ASSUME ReaderRead PROVE ComFlow'
  <2>1. /\ rdBuf = <<>> /\ ((rdBuf' = comIn /\ comIn' = <<>>) \/ UNCHANGED <<rdBuf, comIn>>)
        /\ UNCHANGED <<peerGot, window, skBuf, comToTcp, lostCom, comSent, raced>>
    BY <1>2 DEF ReaderRead, Idle, shared, socket, network, history
  <2>2. CASE UNCHANGED <<rdBuf, comIn>>
    BY <2>1, <2>2, ComPlaces, ComKept
  <2>3. CASE rdBuf' = comIn /\ comIn' = <<>>
    <3> DEFINE a == Cat(Cat(Cat(peerGot, window), skBuf), comToTcp)
    <3>1. a \in Bytes
      BY Laws
    <3>2. ComInFlight = Cat(Cat(a, <<>>), comIn) /\ ComInFlight' = Cat(Cat(a, comIn), <<>>)
      BY <2>1, <2>3, ComPlaces
    <3> HIDE DEF a
    <3>3. ComInFlight' = ComInFlight
      BY <3>1, <3>2, Laws
    <3> QED BY <2>1, <3>3, ComKept
  <2> QED BY <2>1, <2>2, <2>3
<1>3. ASSUME ReaderCheck PROVE ComFlow'
  <2>1. UNCHANGED <<peerGot, window, skBuf, comToTcp, comIn, comSent, raced>>
    BY <1>3 DEF ReaderCheck, shared, socket, network, device
  <2>2. CASE status = "Connected"
    BY <1>3, <2>1, <2>2, ComPlaces, ComKept DEF ReaderCheck
  <2>3. CASE status # "Connected"
    <3> DEFINE a == Cat(Cat(Cat(peerGot, window), skBuf), comToTcp)
    <3>1. a \in Bytes
      BY Laws
    <3>2. rdBuf' = <<>> /\ lostCom' = lostCom \cup Range(rdBuf)
      BY <1>3, <2>3 DEF ReaderCheck
    <3>3. ComInFlight = Cat(Cat(a, rdBuf), comIn) /\ ComInFlight' = Cat(a, comIn)
      BY <2>1, <3>1, <3>2, ComPlaces, Laws
    <3> QED BY <2>1, <3>1, <3>2, <3>3, ComLoses
  <2> QED BY <2>2, <2>3
<1>4. ASSUME ReaderWrite PROVE ComFlow'
  <2> DEFINE a == Cat(Cat(Cat(peerGot, window), skBuf), comToTcp)
             f == First(rdBuf, Fits(comToTcp, rdBuf))
             r == Rest(rdBuf, Fits(comToTcp, rdBuf))
  <2>1. /\ UNCHANGED <<peerGot, window, skBuf, comToTcp, comIn, comSent, raced>>
        /\ rdBuf' = f /\ lostCom' = lostCom \cup Range(r)
    BY <1>4 DEF ReaderWrite, Overflow, shared, socket, network, device
  <2>2. f \in Bytes /\ r \in Bytes /\ Cat(f, r) = rdBuf
    BY Fitting DEF Sizes
  <2>3. a \in Bytes /\ ComInFlight = Cat(Cat(a, rdBuf), comIn)
        /\ ComInFlight' = Cat(Cat(a, rdBuf'), comIn)
    BY <2>1, ComPlaces, Laws
  <2> HIDE DEF a, f, r
  <2>4. /\ Cat(a, f) \in Bytes
        /\ ComInFlight = Cat(Cat(Cat(a, f), r), comIn)
        /\ ComInFlight' = Cat(Cat(a, f), comIn)
    BY <2>1, <2>2, <2>3, Laws
  <2> QED BY <2>1, <2>2, <2>4, ComLoses
<1>5. ASSUME ReaderCopy PROVE ComFlow'
  <2>1. /\ UNCHANGED <<peerGot, window, skBuf, rdBuf, comIn, comSent, lostCom, raced>>
        /\ comToTcp' = Overwritten(comToTcp, rdBuf) /\ rdPc = "copy"
    BY <1>5 DEF ReaderCopy, socket, network, device, history
  <2>2. /\ Range(comToTcp') \subseteq Range(comToTcp) \cup Range(rdBuf)
        /\ Len(comToTcp) + Len(rdBuf) < BufferSize => comToTcp' = comToTcp
    BY <2>1, Overwriting DEF Sizes
  <2>3. CASE raced
    BY <2>1, <2>2, <2>3, ComRaced
  <2>4. CASE ~raced
    <3>1. comToTcp' = comToTcp
      BY <2>1, <2>2, <2>4 DEF Room
    <3> QED BY <2>1, <3>1, ComPlaces, ComKept
  <2> QED BY <2>3, <2>4
<1>6. ASSUME ReaderPublish PROVE ComFlow'
  <2> DEFINE all == Cat(comToTcp, rdBuf)
  <2>1. /\ UNCHANGED <<peerGot, window, skBuf, comIn, comSent, lostCom, raced>>
        /\ comToTcp' = Wrapped(all) /\ rdBuf' = <<>> /\ rdPc = "publish"
    BY <1>6 DEF ReaderPublish, socket, network, device, history, Cat
  <2>2. all \in Bytes /\ Len(all) = Len(comToTcp) + Len(rdBuf)
        /\ Range(all) = Range(comToTcp) \cup Range(rdBuf)
    BY Joining, RangeCat
  <2>3. Len(all) < BufferSize + BufferSize
    BY <2>1, <2>2, Lengths, Positive DEF Sizes, Room
  <2> HIDE DEF all
  <2>4. CASE raced
    <3>1. PICK over \in Bytes : Cat(over, comToTcp') = all
      BY <2>1, <2>2, <2>3, Wrapping
    <3>2. comToTcp' \in Bytes
      BY <2>1, <2>2, <2>3, Wrapping
    <3>3. Range(comToTcp') \subseteq Range(all)
      BY <3>1, <3>2, RangeCat
    <3> QED BY <2>1, <2>2, <2>4, <3>3, ComRaced, Empty
  <2>5. CASE ~raced
    <3>1. comToTcp' = Cat(comToTcp, rdBuf)
      BY <2>1, <2>2, <2>5 DEF Room, Wrapped, all
    <3> DEFINE a == Cat(Cat(peerGot, window), skBuf)
    <3>2. a \in Bytes /\ ComInFlight = Cat(Cat(Cat(a, comToTcp), rdBuf), comIn)
          /\ ComInFlight' = Cat(Cat(Cat(a, comToTcp'), <<>>), comIn)
      BY <2>1, ComPlaces, Laws
    <3> HIDE DEF a
    <3>3. ComInFlight' = ComInFlight
      BY <3>1, <3>2, Laws
    <3> QED BY <2>1, <3>3, ComKept
  <2> QED BY <2>4, <2>5
<1> QED BY <1>1, <1>2, <1>3, <1>4, <1>5, <1>6 DEF ComDataReadProc

\* writeComToTcp passes bytes on in order, and puts back what send has not taken in
\* front of the rest.
LEMMA ComFlowSender ==
  ASSUME Types, Types', Idle, Sizes, Room, ComFlow, WriteComToTcp
  PROVE  ComFlow'
<1> USE DEF Types
<1>1. ASSUME SendBlocked \/ SendMore PROVE ComFlow'
  BY <1>1, ComKept DEF SendBlocked, SendMore, ComInFlight, shared, reader, writer,
       socket, device, network, history
<1>2. ASSUME SendRead PROVE ComFlow'
  <2>1. /\ skBuf = <<>> /\ skBuf' \in Bytes /\ comToTcp' \in Bytes
        /\ Cat(skBuf', comToTcp') = comToTcp
        /\ UNCHANGED <<peerGot, window, rdBuf, comIn, lostCom, comSent, raced>>
    BY <1>2, Taking DEF SendRead, Idle, reader, network, device, history
  <2> DEFINE a == Cat(peerGot, window)
  <2>2. a \in Bytes
    BY Laws
  <2> HIDE DEF a
  <2>3. Cat(Cat(a, skBuf'), comToTcp') = Cat(Cat(a, skBuf), comToTcp)
    BY <2>1, <2>2, Laws
  <2>4. ComInFlight' = ComInFlight
    BY <2>1, <2>3, ComPlaces DEF a
  <2> QED BY <2>1, <2>4, ComKept
<1>3. ASSUME SendSome PROVE ComFlow'
  <2>1. PICK n \in 1..Least(Len(skBuf), SendWindow - Len(window)) :
          window' = window \o First(skBuf, n) /\ skBuf' = Rest(skBuf, n)
    BY <1>3 DEF SendSome
  <2>2. n \in 0..Len(skBuf)
    BY Lengths, Positive DEF Least
  <2>3. /\ First(skBuf, n) \in Bytes /\ skBuf' \in Bytes
        /\ Cat(First(skBuf, n), skBuf') = skBuf /\ window' = Cat(window, First(skBuf, n))
    BY <2>1, <2>2, Cutting DEF Cat
  <2>4. UNCHANGED <<peerGot, comToTcp, rdBuf, comIn, lostCom, comSent, raced>>
    BY <1>3 DEF SendSome, shared, reader, device, history
  <2>5. ComInFlight' = ComInFlight
    BY <2>3, <2>4, ComPlaces, Laws
  <2> QED BY <2>4, <2>5, ComKept
<1>4. ASSUME SendFails PROVE ComFlow'
  <2> DEFINE a == Cat(peerGot, window)
             c == Cat(Cat(comToTcp, rdBuf), comIn)
  <2>1. /\ UNCHANGED <<peerGot, window, comToTcp, rdBuf, comIn, comSent, raced>>
        /\ skBuf' = <<>> /\ lostCom' = lostCom \cup Range(skBuf)
    BY <1>4 DEF SendFails, shared, reader, device, network
  <2>2. a \in Bytes /\ Cat(a, skBuf) \in Bytes /\ c \in Bytes
    BY Laws
  <2>3. ComInFlight = Cat(Cat(a, skBuf), c) /\ ComInFlight' = Cat(a, c)
    BY <2>1, <2>2, ComPlaces, Grouping
  <2> QED BY <2>1, <2>2, <2>3, ComLoses
<1>5. ASSUME SendCancel PROVE ComFlow'
  <2> DEFINE back == Cancelled(comToTcp, skBuf)
  <2>1. /\ UNCHANGED <<peerGot, window, rdBuf, comIn, comSent>>
        /\ comToTcp' = IF rdPc = "publish" THEN Overwritten(back, rdBuf) ELSE back
        /\ raced' = (raced \/ Racing(back))
        /\ skBuf' = <<>> /\ lostCom' = lostCom \cup Overrun(comToTcp, skBuf)
    BY <1>5 DEF SendCancel, reader, device, network
  <2>2. /\ back \in Bytes /\ Len(back) < BufferSize
        /\ Overrun(comToTcp, skBuf) = Range(Cat(skBuf, comToTcp)) \ Range(back)
    BY Cancelling DEF Sizes
  <2>3. PICK over \in Bytes : Cat(over, back) = Cat(skBuf, comToTcp)
    BY Cancelling DEF Sizes
  <2>4. /\ Range(comToTcp') \subseteq Range(back) \cup Range(rdBuf)
        /\ Len(back) + Len(rdBuf) < BufferSize => comToTcp' = back
    BY <2>1, <2>2, Overwriting
  <2> HIDE DEF back
  <2>5. Range(over) \cup Range(back) = Range(skBuf) \cup Range(comToTcp)
    BY <2>2, <2>3, RangeCat
  <2>6. CASE raced'
    <3>1. Range(Cat(skBuf, comToTcp)) = Range(skBuf) \cup Range(comToTcp)
      BY RangeCat
    <3> QED BY <2>1, <2>2, <2>4, <2>5, <2>6, <3>1, ComRaced, Empty
  <2>7. CASE ~raced'
    <3>1. ~raced /\ ~raced' /\ ~Racing(back)
      BY <2>1, <2>7
    <3>2. UNCHANGED raced
      BY <3>1
    <3>3. comToTcp' = back
      BY <2>1, <2>2, <2>4, <3>1, Lengths, Positive DEF Racing
    <3> DEFINE a == Cat(peerGot, window)
               c == Cat(Cat(comToTcp', rdBuf), comIn)
    <3>4. a \in Bytes /\ c \in Bytes
      BY <2>2, <3>3, Laws
    <3>5. ComInFlight = Cat(Cat(a, over), c) /\ ComInFlight' = Cat(a, c)
      <4>1. Cat(Cat(a, over), back) = Cat(Cat(a, skBuf), comToTcp) /\ Cat(a, over) \in Bytes
        <5>1. /\ a \in Bytes /\ over \in Bytes /\ back \in Bytes /\ skBuf \in Bytes
              /\ comToTcp \in Bytes
          BY <2>2, <2>3, <3>4
        <5> HIDE DEF a
        <5> QED BY ONLY <2>3, <5>1, Laws
      <4>2. /\ ComInFlight = Cat(Cat(Cat(Cat(a, skBuf), comToTcp), rdBuf), comIn)
            /\ ComInFlight' = Cat(Cat(Cat(Cat(a, <<>>), back), rdBuf), comIn)
        BY <2>1, <3>3, ComPlaces
      <4>3. c = Cat(Cat(back, rdBuf), comIn) /\ rdBuf \in Bytes /\ comIn \in Bytes
        BY <3>3
      <4> HIDE DEF a, c
      <4>4. Cat(Cat(Cat(Cat(a, over), back), rdBuf), comIn) = Cat(Cat(a, over), c)
        BY <2>2, <4>1, <4>3, Grouping
      <4>5. Cat(Cat(Cat(Cat(a, <<>>), back), rdBuf), comIn) = Cat(a, c)
        BY <2>2, <3>4, <4>3, Grouping
      <4> QED BY <4>1, <4>2, <4>4, <4>5
    <3>6. Range(over) \cap Range(back) = {}
      <4>1. ComInFlight = Cat(Cat(a, over), Cat(back, Cat(rdBuf, comIn)))
        BY <2>2, <2>3, <3>3, <3>4, <3>5, Laws
      <4>2. InOrder(ComInFlight, {})
        BY <3>1 DEF ComFlow, Flow
      <4>3. Cat(a, over) \in Bytes /\ Cat(rdBuf, comIn) \in Bytes /\ Cat(back,
           Cat(rdBuf, comIn)) \in Bytes
        BY <2>2, <3>4, Laws
      <4>4. Range(Cat(a, over)) \cap Range(Cat(back, Cat(rdBuf, comIn))) = {}
        BY <4>1, <4>2, <4>3, Distinct
      <4>5. Range(over) \subseteq Range(Cat(a, over)) /\ Range(back) \subseteq
           Range(Cat(back, Cat(rdBuf, comIn)))
        BY <2>2, <3>4, <4>3, RangeCat
      <4> QED BY <4>4, <4>5
    <3>7. Overrun(comToTcp, skBuf) = Range(over)
      BY <2>2, <2>3, <3>6, RangeCat
    <3> QED BY <2>1, <3>2, <3>4, <3>5, <3>7, ComLoses
  <2> QED BY <2>6, <2>7
<1> QED BY <1>1, <1>2, <1>3, <1>4, <1>5 DEF WriteComToTcp

\* The threads of the other direction do not touch it.
LEMMA ComFlowElse ==
  ASSUME ComFlow, ComDataWriteProc \/ SocketDataEventsHandler
  PROVE  ComFlow'
BY ComKept DEF ComDataWriteProc, WriterWait, WriterRead, WriterFile, WriterMore,
     SocketDataEventsHandler, HandleRead, HandleReadSet, HandleConnect, HandleWrite,
          HandleClose, Leave,
     ComInFlight, shared, reader, socket, device, network, history

\* The device adds the next byte, the peer takes the oldest, a reset loses the
\* window.
LEMMA ComFlowEnvironment ==
  ASSUME Types, ComFlow, Environment
  PROVE  ComFlow'
<1> USE DEF Types
<1>1. ASSUME PeerSends \/ PeerCloses \/ CloseThreads PROVE ComFlow'
  BY <1>1, ComKept DEF PeerSends, PeerCloses, CloseThreads, ComInFlight, shared, reader,
       socket, device, network, history
<1>2. ASSUME ComDeviceSends PROVE ComFlow'
  <2>1. /\ comIn' = Append(comIn, comSent + 1) /\ comSent' = comSent + 1
        /\ UNCHANGED <<peerGot, window, skBuf, comToTcp, rdBuf, lostCom, raced>>
    BY <1>2 DEF ComDeviceSends, shared, reader, socket, network, history
  <2> DEFINE new == <<comSent + 1>>
  <2>2. new \in Bytes /\ comIn' = Cat(comIn, new)
    BY <2>1, Appending DEF Bytes
  <2>3. /\ ComInFlight \in Bytes
        /\ Flow(ComInFlight, lostCom, comSent, {}) =>
             Flow(Cat(ComInFlight, new), lostCom, comSent + 1, {})
    BY Gaining, ComPlaces, Laws
  <2>5. Range(new) = {comSent + 1}
    BY DEF Range
  <2> HIDE DEF new
  <2>4. ComInFlight' = Cat(ComInFlight, new)
    <3> DEFINE x == Cat(Cat(Cat(Cat(peerGot, window), skBuf), comToTcp), rdBuf)
    <3>1. x \in Bytes
      BY Laws
    <3>2. ComInFlight = Cat(x, comIn) /\ ComInFlight' = Cat(x, comIn')
      BY <2>1, ComPlaces
    <3> HIDE DEF x
    <3> QED BY <2>2, <3>1, <3>2, Laws
  <2>6. ComSources'
    <3>1. Range(ComInFlight') = Range(ComInFlight) \cup {comSent + 1}
      BY <2>2, <2>3, <2>4, <2>5, RangeCat
    <3>2. Range(ComInFlight) \cup lostCom \subseteq 1..comSent
      BY DEF ComFlow, ComSources
    <3> QED BY <2>1, <3>1, <3>2 DEF ComSources
  <2> QED BY <2>1, <2>3, <2>4, <2>6 DEF ComFlow
<1>3. ASSUME PeerReceives PROVE ComFlow'
  <2>1. /\ UNCHANGED <<skBuf, comToTcp, rdBuf, comIn, comSent, lostCom, raced>>
        /\ Cat(peerGot', window') = Cat(peerGot, window)
    BY <1>3, Shifting DEF PeerReceives, shared, reader, socket, device, history
  <2> QED BY <2>1, ComPlaces, ComKept
<1>4. ASSUME ConnectionResets PROVE ComFlow'
  <2>1. /\ UNCHANGED <<peerGot, skBuf, comToTcp, rdBuf, comIn, comSent, raced>>
        /\ window' = <<>> /\ lostCom' = lostCom \cup Range(window)
    BY <1>4 DEF ConnectionResets, shared, reader, socket, device
  <2> DEFINE c == Cat(Cat(Cat(skBuf, comToTcp), rdBuf), comIn)
  <2>2. Cat(peerGot, window) \in Bytes
    BY Laws
  <2>3. c \in Bytes /\ ComInFlight = Cat(Cat(peerGot, window), c) /\ ComInFlight' =
       Cat(peerGot, c)
    BY <2>1, <2>2, ComPlaces, LastFour
  <2> QED BY <2>1, <2>3, ComLoses
<1> QED BY <1>1, <1>2, <1>3, <1>4 DEF Environment

\* When a connection is given up some of the window still arrives, and the rest is
\* lost.
LEMMA ComFlowDropped ==
  ASSUME Types, ComFlow, DropConnection,
         UNCHANGED <<skBuf, comToTcp, rdBuf, comIn, comSent, raced>>
  PROVE  ComFlow'
<1> USE DEF Types
<1>1. PICK n \in 0..Len(window) :
        peerGot' = peerGot \o First(window, n) /\ lostCom' = lostCom \cup Range(Rest(window, n))
  BY DEF DropConnection
<1> DEFINE f == First(window, n)
           r == Rest(window, n)
           c == Cat(Cat(Cat(skBuf, comToTcp), rdBuf), comIn)
<1>2. f \in Bytes /\ r \in Bytes /\ Cat(f, r) = window /\ peerGot' = Cat(peerGot, f)
  BY <1>1, Cutting DEF Cat
<1>3. window' = <<>>
  BY DEF DropConnection
<1> HIDE DEF f, r
<1>4. Cat(peerGot, f) \in Bytes /\ Cat(Cat(peerGot, f), r) = Cat(peerGot, window)
  BY <1>2, Laws
<1>6. c \in Bytes
  BY LastFour, Laws
<1>7. Cat(peerGot, window) \in Bytes
  BY Laws
<1>5. ComInFlight = Cat(Cat(Cat(peerGot, f), r), c) /\ ComInFlight' = Cat(Cat(peerGot, f), c)
  <2>1. ComInFlight = Cat(Cat(peerGot, window), c)
    BY <1>7, ComPlaces, LastFour
  <2> DEFINE p == Cat(peerGot, f)
  <2>3. ComInFlight' = Cat(Cat(Cat(Cat(Cat(p, <<>>), skBuf), comToTcp), rdBuf), comIn)
    BY <1>2, <1>3, ComPlaces
  <2>4. p \in Bytes
    BY <1>4
  <2> HIDE DEF p
  <2>5. Cat(Cat(Cat(Cat(Cat(p, <<>>), skBuf), comToTcp), rdBuf), comIn) = Cat(p, c)
    BY <2>4, LastFour
  <2>2. ComInFlight' = Cat(Cat(peerGot, f), c)
    BY <2>3, <2>5 DEF p
  <2> QED BY <1>4, <2>1, <2>2
<1> QED BY <1>1, <1>2, <1>4, <1>5, <1>6, ComLoses DEF r

\* Of the loop's own steps only closing the socket moves bytes.
LEMMA ComFlowLoop == ASSUME Types, ComFlow, LoopStep PROVE ComFlow'
<1>1. ASSUME CloseSocket PROVE ComFlow'
  BY <1>1, ComFlowDropped DEF CloseSocket, shared, reader, device
<1>2. ASSUME LoopStep, ~CloseSocket PROVE ComFlow'
  BY <1>2, ComKept DEF LoopStep, Startup, Disconnected, Sleep, Stop, EnumNetworkEvents,
       WaitComRcv, WaitClose, WaitTimeout,
   ComInFlight, shared, reader, socket, device, network, history
<1> QED BY <1>1, <1>2

-----------------------------------------------------------------------------
(* From the peer to the COM port. *)

TcpFlow == Flow(TcpInFlight, lostTcp, peerSent, {0})

\* The four places of a byte of the peer.
LEMMA TcpPlaces ==
  /\ TcpInFlight = Cat(Cat(Cat(comOut, wrBuf), tcpToCom), rx)
  /\ TcpInFlight' = Cat(Cat(Cat(comOut', wrBuf'), tcpToCom'), rx')
BY DEF TcpInFlight, Cat

\* A step that moves no byte to another place in the order keeps the flow.
LEMMA TcpKept ==
  ASSUME TcpFlow, TcpInFlight' = TcpInFlight, UNCHANGED <<lostTcp, peerSent>>
  PROVE  TcpFlow'
BY DEF TcpFlow

\* A step that drops bytes out of the middle keeps the flow of the others.
LEMMA TcpLoses ==
  ASSUME Types, TcpFlow, NEW a \in Bytes, NEW b \in Bytes, NEW c \in Bytes,
         TcpInFlight = Cat(Cat(a, b), c), TcpInFlight' = Cat(a, c),
         lostTcp' = lostTcp \cup Range(b), UNCHANGED peerSent
  PROVE  TcpFlow'
BY Losing DEF TcpFlow, Types

\* comDataWriteProc passes bytes on in order and loses what WriteFile has not
\* written.
LEMMA TcpFlowWriter ==
  ASSUME Types, Idle, TcpFlow, ComDataWriteProc
  PROVE  TcpFlow'
<1> USE DEF Types
<1>1. ASSUME WriterWait \/ WriterMore PROVE TcpFlow'
  BY <1>1, TcpKept DEF WriterWait, WriterMore, TcpInFlight, shared, reader, writer,
       socket, device, network, history
<1>2. ASSUME WriterRead PROVE TcpFlow'
  <2>1. /\ wrBuf = <<>> /\ wrBuf' \in Bytes /\ tcpToCom' \in Bytes
        /\ Cat(wrBuf', tcpToCom') = tcpToCom
        /\ UNCHANGED <<comOut, rx, lostTcp, peerSent>>
    BY <1>2, Taking DEF WriterRead, Idle, network, device, history
  <2>2. Cat(Cat(comOut, wrBuf'), tcpToCom') = Cat(Cat(comOut, wrBuf), tcpToCom)
    BY <2>1, Laws
  <2>3. TcpInFlight' = TcpInFlight
    BY <2>1, <2>2, TcpPlaces
  <2> QED BY <2>1, <2>3, TcpKept
<1>3. ASSUME WriterFile PROVE TcpFlow'
  <2>1. PICK n \in 0..Len(wrBuf) : 
          comOut' = comOut \o First(wrBuf, n) /\ lostTcp' = lostTcp \cup Range(Rest(wrBuf, n))
    BY <1>3 DEF WriterFile
  <2> DEFINE f == First(wrBuf, n)
             r == Rest(wrBuf, n)
             c == Cat(tcpToCom, rx)
  <2>2. f \in Bytes /\ r \in Bytes /\ Cat(f, r) = wrBuf /\ comOut' = Cat(comOut, f)
    BY <2>1, Cutting DEF Cat
  <2>3. wrBuf' = <<>> /\ UNCHANGED <<tcpToCom, rx, peerSent>>
    BY <1>3 DEF WriterFile, shared, network
  <2> HIDE DEF f, r
  <2>4. Cat(comOut, f) \in Bytes /\ Cat(Cat(comOut, f), r) = Cat(comOut, wrBuf) /\ c \in Bytes
    BY <2>2, Laws
  <2>5. Cat(comOut, wrBuf) \in Bytes
    BY Laws
  <2>6. TcpInFlight = Cat(Cat(comOut, wrBuf), c)
    BY <2>5, TcpPlaces, Laws
  <2>7. TcpInFlight' = Cat(Cat(comOut, f), c)
    BY <2>2, <2>3, <2>4, TcpPlaces, Laws
  <2> QED BY <2>1, <2>2, <2>3, <2>4, <2>6, <2>7, TcpLoses DEF r
<1> QED BY <1>1, <1>2, <1>3 DEF ComDataWriteProc

\* recv passes bytes on in order, loses what the ring has no room for, or brings
\* noise.
LEMMA TcpFlowHandler ==
  ASSUME Types, Idle, Sizes, TcpFlow, SocketDataEventsHandler
  PROVE  TcpFlow'
<1> USE DEF Types
<1>1. ASSUME HandleReadSet \/ HandleConnect \/ HandleWrite \/ HandleClose PROVE TcpFlow'
  BY <1>1, TcpKept DEF HandleReadSet, HandleConnect, HandleWrite, HandleClose,
       TcpInFlight, writer, device, network, shared, history
<1>2. ASSUME HandleRead PROVE TcpFlow'
  <2> DEFINE taken == First(rx, Least(TcpBufSize, Len(rx)))
             noise == [i \in 1..(BufferSize - 1 - Len(tcpToCom)) |-> 0]
             data == IF conn = "reset" THEN noise ELSE taken
             f == First(data, Fits(tcpToCom, data))
             r == Rest(data, Fits(tcpToCom, data))
             a == Cat(comOut, wrBuf)
             x == Cat(a, tcpToCom)
  <2>1. /\ tcpToCom' = Written(tcpToCom, data) /\ lostTcp' = lostTcp \cup Range(r)
        /\ rx' = Rest(rx, Len(taken)) /\ UNCHANGED <<comOut, wrBuf, peerSent>>
    BY <1>2 DEF HandleRead, Overflow, writer, device
  <2>2. noise \in Bytes /\ Range(noise) \subseteq {0}
    BY Positive, Lengths DEF Bytes, Range
  <2>3. /\ taken \in Bytes /\ rx' \in Bytes /\ Cat(taken, rx') = rx
        /\ rx = <<>> => rx' = <<>>
    BY <2>1, Taking
  <2>4. a \in Bytes /\ x \in Bytes /\ TcpInFlight = Cat(x, rx)
    BY TcpPlaces, Laws
  <2>5. Flow(Cat(x, rx), lostTcp, peerSent, {0})
    BY <2>4 DEF TcpFlow
  <2> HIDE DEF taken, noise, a, x
  <2>6. data \in Bytes /\ Flow(Cat(Cat(x, data), rx'), lostTcp, peerSent, {0})
    <3>1. CASE conn = "reset"
      <4>1. rx' = rx
        BY <2>3, <3>1 DEF Idle
      <4> QED BY <2>2, <2>4, <2>5, <3>1, <4>1, Noising
    <3>2. CASE conn # "reset"
      BY <2>3, <2>4, <2>5, <3>2, Laws
    <3> QED BY <3>1, <3>2
  <2> HIDE DEF data
  <2>7. f \in Bytes /\ r \in Bytes /\ Cat(f, r) = data /\ tcpToCom' = Cat(tcpToCom, f)
    BY <2>1, <2>6, Fitting DEF Sizes
  <2> HIDE DEF f, r
  <2>8. Cat(x, f) \in Bytes /\ Cat(Cat(x, f), r) = Cat(x, data) /\ Cat(x, f) = Cat(a, tcpToCom')
    BY <2>4, <2>7, Laws DEF x
  <2>9. Flow(Cat(Cat(x, f), rx'), lostTcp \cup Range(r), peerSent, {0})
    BY <2>3, <2>6, <2>7, <2>8, Losing
  <2>10. TcpInFlight' = Cat(Cat(x, f), rx')
    BY <2>1, <2>8, TcpPlaces DEF a
  <2> QED BY <2>1, <2>9, <2>10 DEF TcpFlow
<1> QED BY <1>1, <1>2 DEF SocketDataEventsHandler

\* The threads of the other direction do not touch it.
LEMMA TcpFlowElse ==
  ASSUME TcpFlow, ComDataReadProc \/ WriteComToTcp
  PROVE  TcpFlow'
BY TcpKept DEF ComDataReadProc, ReaderWait, ReaderRead, ReaderCheck, ReaderWrite,
     ReaderCopy, ReaderPublish, ReaderSet,
     WriteComToTcp, SendRead, SendSome, SendBlocked, SendFails, SendCancel, SendMore, Leave,
     TcpInFlight, shared, writer, device, network, history

\* The bytes that recv has not taken are lost.
LEMMA TcpFlowDropped ==
  ASSUME Types, TcpFlow, rx' = <<>>, lostTcp' = lostTcp \cup Range(rx),
         UNCHANGED <<comOut, wrBuf, tcpToCom, peerSent>>
  PROVE  TcpFlow'
<1> DEFINE a == Cat(Cat(comOut, wrBuf), tcpToCom)
<1>1. a \in Bytes
  BY Laws DEF Types
<1>2. TcpInFlight = Cat(a, rx) /\ TcpInFlight' = Cat(a, <<>>)
  BY TcpPlaces
<1> HIDE DEF a
<1>3. TcpInFlight = Cat(Cat(a, rx), <<>>) /\ <<>> \in Bytes
  BY <1>1, <1>2, Laws DEF Types
<1> QED BY <1>1, <1>2, <1>3, TcpLoses DEF Types

\* The peer adds the next byte, a reset loses what recv has not taken.
LEMMA TcpFlowEnvironment ==
  ASSUME Types, TcpFlow, Environment
  PROVE  TcpFlow'
<1>1. ASSUME ComDeviceSends \/ PeerReceives \/ PeerCloses \/ CloseThreads PROVE TcpFlow'
  BY <1>1, TcpKept DEF ComDeviceSends, PeerReceives, PeerCloses, CloseThreads,
       TcpInFlight, shared, writer, device, network, history
<1>2. ASSUME PeerSends PROVE TcpFlow'
  <2> DEFINE new == <<peerSent + 1>>
             a == Cat(Cat(comOut, wrBuf), tcpToCom)
  <2>1. /\ rx' = Append(rx, peerSent + 1) /\ peerSent' = peerSent + 1
        /\ UNCHANGED <<comOut, wrBuf, tcpToCom, lostTcp>>
    BY <1>2 DEF PeerSends, shared, writer, device, history
  <2>2. new \in Bytes /\ rx' = Cat(rx, new)
    BY SMTT(60), <2>1, Appending DEF Bytes, Types
  <2>3. a \in Bytes /\ TcpInFlight = Cat(a, rx) /\ TcpInFlight' = Cat(a, rx')
    BY <2>1, TcpPlaces, Laws DEF Types
  <2> HIDE DEF a
  <2>4. Flow(Cat(TcpInFlight, new), lostTcp, peerSent + 1, {0})
    BY <2>3, Gaining, Laws DEF TcpFlow, Types
  <2> HIDE DEF new
  <2>5. TcpInFlight' = Cat(TcpInFlight, new)
    BY <2>2, <2>3, Laws DEF Types
  <2> QED BY <2>1, <2>4, <2>5 DEF TcpFlow
<1>3. ASSUME ConnectionResets PROVE TcpFlow'
  BY <1>3, TcpFlowDropped DEF ConnectionResets, shared, writer, device
<1> QED BY <1>1, <1>2, <1>3 DEF Environment

\* Of the loop's own steps only closing the socket loses bytes.
LEMMA TcpFlowLoop == ASSUME Types, TcpFlow, LoopStep PROVE TcpFlow'
<1>1. ASSUME CloseSocket PROVE TcpFlow'
  BY <1>1, TcpFlowDropped DEF CloseSocket, DropConnection, shared, writer, device
<1>2. ASSUME LoopStep, ~CloseSocket PROVE TcpFlow'
  BY <1>2, TcpKept DEF LoopStep, Startup, Disconnected, Sleep, Stop, EnumNetworkEvents,
       WaitComRcv, WaitClose, WaitTimeout,
   TcpInFlight, shared, writer, device, network, history
<1> QED BY <1>1, <1>2

-----------------------------------------------------------------------------
(* What the status tells, step by step. *)

ToldStep == Told!Next \/ UNCHANGED Told!vars

\* A thread that goes on and says nothing takes no step of SocketStatus.
LEMMA ToldKept ==
  ASSUME UNCHANGED status, skPc # "done", skPc' # "done"
  PROVE  ToldStep
BY DEF ToldStep, Told!vars

\* The COM threads and the environment neither say anything nor end the socket
\* thread.
LEMMA ToldThreads ==
  ASSUME ComDataReadProc \/ ComDataWriteProc \/ Environment
  PROVE  ToldStep
<1>1. UNCHANGED <<status, skPc>>
  BY DEF ComDataReadProc, ReaderWait, ReaderRead, ReaderCheck, ReaderWrite,
     ReaderCopy, ReaderPublish, ReaderSet,
       ComDataWriteProc, WriterWait, WriterRead, WriterFile, WriterMore,
       Environment, ComDeviceSends, PeerSends, PeerReceives, PeerCloses,
            ConnectionResets, CloseThreads,
       shared, socket
<1> QED BY <1>1 DEF ToldStep, Told!vars

\* Saying what may follow is a step of SocketStatus; Stopped comes with the end.
LEMMA Telling ==
  ASSUME NEW s \in Told!Status, skPc # "done", s \in Told!Follows[status], status' = s,
         skPc' = "done" <=> s = "Stopped"
  PROVE  ToldStep
<1>1. Told!Tell(s)
  BY DEF Told!Tell
<1> QED BY <1>1 DEF ToldStep, Told!Next

\* Only FD_CONNECT makes the handler say something, and that after Processing.
LEMMA ToldHandler == ASSUME Control, SocketDataEventsHandler PROVE ToldStep
<1>1. ASSUME HandleConnect PROVE ToldStep
  <2>1. skPc = "handle" /\ skPc' # "done" /\ "FD_CONNECT" \in skGot /\ status' \in
       {status, "Connected"}
    BY <1>1 DEF HandleConnect, Pending, Leave
  <2>2. status = "Processing"
    BY <2>1 DEF Control, Connection, Looping, Established, StatusOfPhase
  <2>3. CASE status' = status
    BY <2>1, <2>3, ToldKept
  <2>4. CASE status' = "Connected"
    BY <2>1, <2>2, <2>4, Telling DEF Told!Status, Told!Follows
  <2> QED BY <2>1, <2>3, <2>4
<1>2. ASSUME HandleRead \/ HandleReadSet \/ HandleWrite \/ HandleClose PROVE ToldStep
  BY <1>2, ToldKept DEF HandleRead, HandleReadSet, HandleWrite, HandleClose, Pending,
       Nothing, Leave, shared, socket
<1> QED BY <1>1, <1>2 DEF SocketDataEventsHandler

\* writeComToTcp says nothing.
LEMMA ToldSender == ASSUME WriteComToTcp PROVE ToldStep
BY ToldKept DEF WriteComToTcp, SendRead, SendSome, SendBlocked, SendFails, SendCancel,
     SendMore, Leave, shared

\* The loop says Disconnected after a connection and Stopped at its end.
LEMMA ToldLoop == ASSUME Control, LoopStep PROVE ToldStep
<1>1. ASSUME Startup PROVE ToldStep
  <2>1. status = "Stopped" /\ skPc = "start" /\ status' = status /\ skPc' \in {"open", "done"}
    BY <1>1 DEF Startup, Control, StatusOfPhase, shared
  <2>2. CASE skPc' = "done"
    <3>1. Told!GiveUp
      BY <2>1, <2>2 DEF Told!GiveUp
    <3> QED BY <3>1 DEF ToldStep, Told!Next
  <2> QED BY <2>1, <2>2, ToldKept
<1>2. ASSUME Disconnected PROVE ToldStep
  <2>1. status \in {"Processing", "Connected"} /\ status' = "Disconnected" /\ skPc #
       "done" /\ skPc' # "done"
    BY <1>2 DEF Disconnected, Control, StatusOfPhase
  <2> QED BY <2>1, Telling DEF Told!Status, Told!Follows
<1>3. ASSUME Stop PROVE ToldStep
  <2>1. status \in {"Processing", "Disconnected"} /\ status' = "Stopped" /\ skPc # "done"
       /\ skPc' = "done"
    BY <1>3 DEF Stop, Control, StatusOfPhase
  <2> QED BY <2>1, Telling DEF Told!Status, Told!Follows
<1>4. ASSUME CloseSocket \/ Sleep \/ EnumNetworkEvents \/ WaitComRcv \/ WaitClose \/
     WaitTimeout PROVE ToldStep
  BY <1>4, ToldKept DEF CloseSocket, Sleep, EnumNetworkEvents, WaitComRcv, WaitClose,
       WaitTimeout, Leave, shared
<1> QED BY <1>1, <1>2, <1>3, <1>4 DEF LoopStep

-----------------------------------------------------------------------------
(* All of it together. *)

\* The inductive invariant of what the two builds share.
Bridged ==
  /\ Types /\ Idle /\ Sizes /\ Room
  /\ Control /\ Flags
  /\ Wakeups
  /\ ComFlow /\ TcpFlow

SharedStep ==
  \/ ComDataReadProc \/ ComDataWriteProc
  \/ SocketDataEventsHandler \/ WriteComToTcp \/ LoopStep
  \/ Environment

\* The threads start in it.
LEMMA BridgedInit == ASSUME Init PROVE Bridged
<1> USE DEF Init
<1>1. Types /\ Idle /\ Sizes /\ Room
  BY Empty DEF Types, Idle, Sizes, Room
<1>2. Control /\ Flags
  BY DEF Control, Phases, Labels, Connection, StatusOfPhase, Looping, Established, Flags
<1>3. Wakeups
  BY DEF Wakeups, WriteWakeup
<1>4. ComFlow /\ TcpFlow
  <2>1. ComInFlight = <<>> /\ TcpInFlight = <<>>
    BY ComPlaces, TcpPlaces, Laws
  <2>2. Flow(<<>>, {}, 0, {}) /\ Flow(<<>>, {}, 0, {0})
    BY Empty DEF Flow, InOrder, Accounted
  <2>3. ComSources
    BY <2>1, Empty DEF ComSources
  <2> QED BY <2>1, <2>2, <2>3 DEF ComFlow, TcpFlow
<1> QED BY <1>1, <1>2, <1>3, <1>4 DEF Bridged

\* Every step the builds share keeps it.
LEMMA BridgedStep == ASSUME Bridged, SharedStep PROVE Bridged'
<1> USE DEF Bridged
<1>1. CASE ComDataReadProc
  BY <1>1, IdleReader, TypesReader, RoomReader, ControlThreads, FlagsThreads, WakeupsThreads,
     ComFlowReader, TcpFlowElse
<1>2. CASE ComDataWriteProc
  BY <1>2, IdleWriter, TypesWriter, RoomKept, ControlThreads, FlagsThreads, WakeupsThreads,
     ComFlowElse, TcpFlowWriter
<1>3. CASE SocketDataEventsHandler
  BY <1>3, IdleHandler, TypesHandler, RoomKept, ControlHandler, FlagsHandler, WakeupsHandler,
     ComFlowElse, TcpFlowHandler
<1>4. CASE WriteComToTcp
  BY <1>4, IdleSender, TypesSender, RoomSender, ControlSender, FlagsSender, WakeupsSender,
     ComFlowSender, TcpFlowElse
<1>5. CASE LoopStep
  BY <1>5, IdleLoop, TypesLoop, RoomKept, ControlLoop, FlagsLoop, WakeupsLoop,
     ComFlowLoop, TcpFlowLoop
<1>6. CASE Environment
  BY <1>6, IdleEnvironment, TypesEnvironment, RoomKept, ControlEnvironment, FlagsEnvironment,
     WakeupsEnvironment, ComFlowEnvironment, TcpFlowEnvironment
<1> QED BY <1>1, <1>2, <1>3, <1>4, <1>5, <1>6 DEF SharedStep

\* So does a step that changes nothing of it.
LEMMA BridgedStutter == ASSUME Bridged, UNCHANGED vars PROVE Bridged'
<1> USE DEF vars, shared, reader, writer, socket, device, network, history
<1>1. Types' /\ Idle' /\ Sizes' /\ Room'
  BY DEF Bridged, Types, Idle, Sizes, Room
<1>2. Control' /\ Flags'
  BY DEF Bridged, Control, Phases, Labels, Connection, StatusOfPhase, Looping,
       Established, Flags
<1>3. Wakeups'
  BY DEF Bridged, Wakeups, ComRcvPending, WriteWakeup
<1>4. ComFlow' /\ TcpFlow'
  BY ComKept, TcpKept DEF Bridged, ComInFlight, TcpInFlight
<1> QED BY <1>1, <1>2, <1>3, <1>4 DEF Bridged

\* Bytes out of a set are a sequence over it.
LEMMA BytesOf ==
  ASSUME NEW S, NEW q \in Bytes, Range(q) \subseteq S
  PROVE  q \in Seq(S)
BY DEF Bytes, Range

\* The invariant types every variable,
LEMMA BridgedTypes == ASSUME Bridged PROVE TypeOK
<1> USE DEF Bridged
<1>1. Range(ComInFlight) \cup lostCom \subseteq 1..comSent
  BY DEF ComFlow, ComSources
<1>2. Range(TcpInFlight) \cup lostTcp \subseteq 0..peerSent
  <2>1. (Range(TcpInFlight) \cup lostTcp) \ {0} = 1..peerSent
    BY DEF TcpFlow, Flow, Accounted
  <2> QED BY <2>1 DEF Types
<1>3. {peerGot, window, skBuf, comToTcp, rdBuf, comIn} \subseteq Seq(1..comSent)
  <2>1. \A q \in {peerGot, window, skBuf, comToTcp, rdBuf, comIn} : Range(q) \subseteq
       Range(ComInFlight)
    BY ComRange
  <2>2. {peerGot, window, skBuf, comToTcp, rdBuf, comIn} \subseteq Bytes
    BY DEF Types
  <2> QED BY <1>1, <2>1, <2>2, BytesOf
<1>4. {comOut, wrBuf, tcpToCom, rx} \subseteq Seq(0..peerSent)
  <2>1. Range(TcpInFlight) = Range(comOut) \cup Range(wrBuf) \cup Range(tcpToCom) \cup Range(rx)
    BY TcpPlaces, RangeCat4 DEF Types
  <2>2. {comOut, wrBuf, tcpToCom, rx} \subseteq Bytes
    BY DEF Types
  <2> QED BY <1>2, <2>1, <2>2, BytesOf
<1>5. {comSent, peerSent, failures} \subseteq Nat
  BY DEF Types
<1>6. raced \in BOOLEAN
  BY DEF Types
<1>7. {comRcvEvent, tcpRcvEvent, closeEvent, needResend, rxChar, blocked, raced} \subseteq BOOLEAN
  BY <1>6, Zenon DEF Flags
<1> QED
  BY <1>1, <1>2, <1>3, <1>4, <1>5, <1>7 DEF TypeOK, Sizes, Control, Phases, Labels

\* and has the properties of either build.
LEMMA BridgedPromises ==
  ASSUME Bridged
  PROVE  /\ ComBytesInOrder /\ ComBytesAccounted
         /\ TcpBytesInOrder /\ TcpBytesAccounted
         /\ SendWakeup /\ WriteWakeup
         /\ StatusTellsConnection
<1>1. ComBytesInOrder /\ ComBytesAccounted /\ TcpBytesInOrder /\ TcpBytesAccounted
  BY DEF Bridged, ComFlow, TcpFlow, Flow, ComBytesInOrder, ComBytesAccounted, TcpBytesInOrder,
     TcpBytesAccounted
<1>2. SendWakeup /\ WriteWakeup
  BY DEF Bridged, Wakeups, ComRcvPending, Idle, SendWakeup
<1>3. StatusTellsConnection
  BY DEF Bridged, Control, Connection, Looping, Established, Idle, StatusTellsConnection
<1> QED BY <1>1, <1>2, <1>3
=============================================================================
