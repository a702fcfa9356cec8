------------------------------- MODULE Bridge -------------------------------
(***************************************************************************)
(* What the client and the server build of the bridge share: the state of  *)
(* CThreadConfig, the two COM threads (comDataReadProc, comDataWriteProc)  *)
(* and the two halves of the socket thread's loop body, which is           *)
(* socketDataEventsHandler and writeComToTcp (Source/threads.cpp).         *)
(*                                                                         *)
(* The ring buffers are used at the granularity of their calls, for which  *)
(* module RingBuffer shows that byte by byte they behave as such queues,   *)
(* with one exception: the Write of m_ComToTcpBuf takes its sizes, copies  *)
(* and publishes in three steps, because the CancelReadBytes of the socket *)
(* thread may fall between them (the history variable raced tells).        *)
(* Windows' side (the COM driver, the socket, the peer) is modelled from   *)
(* how this code uses it; the events m_ConfigEvent, m_ReconnectEvent and   *)
(* m_ConnectEvent are left out because nothing sets or awaits them, except *)
(* that the socket thread waits for a m_ReconnectEvent that never comes.   *)
(*                                                                         *)
(* Bytes are numbered in the order the COM device and the peer send them.  *)
(***************************************************************************)
EXTENDS Integers, Sequences, FiniteSets, Functions

CONSTANTS BufferSize,   \* DATA_BUFFER_SIZE
          TcpBufSize,   \* TCP_BUF_SIZE
          SendWindow,   \* bytes the socket takes before send would block
          Faults,       \* the calls that may fail: subset of FaultKinds
          MaxCom,       \* bound: bytes the COM device sends
          MaxTcp,       \* bound: bytes the peer sends
          MaxFailures   \* bound: connections that are refused, closed or reset

FaultKinds == {"comRead", "comWrite", "socket"}

ASSUME BridgeAssumption == /\ BufferSize \in Nat \ {0}
                           /\ TcpBufSize \in Nat \ {0}
                           /\ SendWindow \in Nat \ {0}
                           /\ Faults \subseteq FaultKinds
                           /\ MaxCom \in Nat /\ MaxTcp \in Nat /\ MaxFailures \in Nat

VARIABLES
  status,        \* CPortSetting.status
  comToTcp,      \* m_ComToTcpBuf: bytes in the ring, oldest first
  tcpToCom,      \* m_TcpToComBuf
  comRcvEvent,   \* m_ComRcvEvent, auto-reset
  tcpRcvEvent,   \* m_TcpRcvEvent, auto-reset
  closeEvent,    \* m_CloseEvent, manual-reset
  needResend,    \* m_NeedResend
  rdPc, rdBuf,   \* comDataReadProc: where it is, and its readBuf
  wrPc, wrBuf,   \* comDataWriteProc: where it is, and its sendBuf
  skPc,          \* sockDataExchangeProc: where it is,
  skGot,         \* the network events it still has to handle,
  skBuf,         \* the bytes of sendBuf that it still has to send,
  skResult,      \* and the threadStatus its wait loop ended with
  comIn,         \* external: bytes the COM driver holds for ReadFile
  comSent,       \* external: how many bytes the COM device has sent
  rxChar,        \* external: EV_RXCHAR has happened since the last one reported
  comOut,        \* external: bytes written to the COM port
  conn,          \* external: the connection
  netEvents,     \* external: network events recorded and not yet enumerated
  rx,            \* external: bytes received that recv has not taken
  peerSent,      \* external: how many bytes the peer has sent
  window,        \* external: bytes send has taken and the peer has not
  blocked,       \* external: a send has failed with WSAEWOULDBLOCK since FD_WRITE
  peerGot,       \* external: bytes the peer has received
  failures,      \* external: connections that have failed so far
  lostCom,       \* history: bytes of the COM device that will never arrive
  lostTcp,       \* history: bytes of the peer that will never arrive
  raced,         \* history: a cancelled read has taken room from a Write
  stranded       \* history: a failure left bytes in a ring with no event set:
                 \* subset of {"comToTcp", "tcpToCom"}

shared == <<status, comToTcp, tcpToCom, comRcvEvent, tcpRcvEvent, closeEvent, needResend>>
reader == <<rdPc, rdBuf>>
writer == <<wrPc, wrBuf>>
socket == <<skPc, skGot, skBuf, skResult>>
device == <<comIn, comSent, rxChar, comOut>>
network == <<conn, netEvents, rx, peerSent, window, blocked, peerGot, failures>>
history == <<lostCom, lostTcp, raced, stranded>>
vars == <<shared, reader, writer, socket, device, network, history>>

-----------------------------------------------------------------------------
(* The ring buffers, call by call. *)

Least(a, b) == IF a < b THEN a ELSE b

First(q, n) == SubSeq(q, 1, n)
Rest(q, n) == SubSeq(q, n + 1, Len(q))

\* How many of data's bytes Write copies into q; it throws the rest away.
Fits(q, data) == Least(Len(data), BufferSize - 1 - Len(q))
Written(q, data) == q \o First(data, Fits(q, data))
Overflow(q, data) == Range(Rest(data, Fits(q, data)))

\* Mutant: a tail that meets the head is taken for a full ring, not an empty one.
BadWrapped(q) == IF Len(q) <= BufferSize THEN q ELSE Rest(q, BufferSize)

\* The ring after a pointer has moved over a Write or a cancelled read: where the
\* head and the tail pass each other a whole buffer of bytes is gone.
Wrapped(q) == IF Len(q) < BufferSize THEN q ELSE Rest(q, BufferSize)

\* CancelReadBytes with data the bytes read last and q the bytes left since.
\* The head moves back without a look at the tail.
Cancelled(q, data) == Wrapped(data \o q)
Overrun(q, data) == Range(data \o q) \ Range(Cancelled(q, data))

\* The bytes q of the ring once data has been copied to the cells from the tail
\* on: those of q that data has no room beside are overwritten.
Overwritten(q, data) ==
  [i \in 1..Len(q) |-> LET k == i + BufferSize - Len(q)
                       IN  IF k <= Len(data) THEN data[k] ELSE q[i]]

-----------------------------------------------------------------------------
Init ==
  /\ status = "Stopped"
  /\ comToTcp = <<>> /\ tcpToCom = <<>>
  /\ comRcvEvent = FALSE /\ tcpRcvEvent = FALSE /\ closeEvent = FALSE
  /\ needResend = FALSE
  /\ rdPc = "wait" /\ rdBuf = <<>>
  /\ wrPc = "wait" /\ wrBuf = <<>>
  /\ skPc = "start" /\ skGot = {} /\ skBuf = <<>> /\ skResult = "CONTINUE"
  /\ comIn = <<>> /\ comSent = 0 /\ rxChar = FALSE /\ comOut = <<>>
  /\ conn = "none" /\ netEvents = {} /\ rx = <<>> /\ peerSent = 0
  /\ window = <<>> /\ blocked = FALSE /\ peerGot = <<>> /\ failures = 0
  /\ lostCom = {} /\ lostTcp = {} /\ raced = FALSE /\ stranded = {}

-----------------------------------------------------------------------------
(* comDataReadProc. *)

\* WaitForMultipleObjects reports the lowest event set: EV_RXCHAR before close.
\* If SetCommMask fails before it the thread ends, and nobody is told.
ReaderWait ==
  /\ rdPc = "wait"
  /\ \/ rxChar /\ rxChar' = FALSE /\ rdPc' = "read"
     \/ ~rxChar /\ closeEvent /\ rdPc' = "done" /\ UNCHANGED rxChar
     \/ "comRead" \in Faults /\ rdPc' = "done" /\ UNCHANGED rxChar
  /\ UNCHANGED <<shared, rdBuf, writer, socket, comIn, comSent, comOut, network, history>>

\* ClearCommError and ReadFile take all the driver holds; a failed read leaves it.
ReaderRead ==
  /\ rdPc = "read"
  /\ \/ comIn # <<>> /\ rdPc' = "check" /\ rdBuf' = comIn /\ comIn' = <<>>
     \/ (comIn = <<>> \/ "comRead" \in Faults) /\ rdPc' = "wait" /\ UNCHANGED <<rdBuf, comIn>>
  /\ UNCHANGED <<shared, writer, socket, comSent, rxChar, comOut, network, history>>

ReaderCheck ==
  /\ rdPc = "check"
  /\ \/ /\ status = "Connected"
        /\ rdPc' = "write"
        /\ UNCHANGED <<rdBuf, lostCom, raced>>
     \/ /\ status # "Connected"
        /\ rdPc' = "wait"
        /\ rdBuf' = <<>>
        /\ lostCom' = lostCom \cup Range(rdBuf)
  /\ UNCHANGED <<shared, writer, socket, device, network, lostTcp, raced, stranded>>

\* Write: how many bytes there is room for, at this moment.
ReaderWrite ==
  /\ rdPc = "write"
  /\ rdBuf' = First(rdBuf, Fits(comToTcp, rdBuf))
  /\ lostCom' = lostCom \cup Overflow(comToTcp, rdBuf)
  /\ rdPc' = IF rdBuf' = <<>> THEN "set" ELSE "copy"
  /\ UNCHANGED <<shared, writer, socket, device, network, lostTcp, raced, stranded>>

\* Write: CopyMemory, to where a read cancelled meanwhile may have its bytes.
ReaderCopy ==
  /\ rdPc = "copy"
  /\ comToTcp' = Overwritten(comToTcp, rdBuf)
  /\ rdPc' = "publish"
  /\ UNCHANGED <<status, tcpToCom, comRcvEvent, tcpRcvEvent, closeEvent, needResend,
                 rdBuf, writer, socket, device, network, history>>

\* Write: the tail moves over the bytes copied.
ReaderPublish ==
  /\ rdPc = "publish"
  /\ comToTcp' = Wrapped(comToTcp \o rdBuf)
  /\ rdBuf' = <<>>
  /\ rdPc' = "set"
  /\ UNCHANGED <<status, tcpToCom, comRcvEvent, tcpRcvEvent, closeEvent, needResend,
                 writer, socket, device, network, history>>

ReaderSet ==
  /\ rdPc = "set"
  /\ comRcvEvent' = TRUE
  /\ stranded' = stranded \ {"comToTcp"}
  /\ rdPc' = "wait"
  /\ UNCHANGED <<status, comToTcp, tcpToCom, tcpRcvEvent, closeEvent, needResend,
                 rdBuf, writer, socket, device, network, lostCom, lostTcp, raced>>

ComDataReadProc ==
  \/ ReaderWait \/ ReaderRead \/ ReaderCheck
  \/ ReaderWrite \/ ReaderCopy \/ ReaderPublish \/ ReaderSet

-----------------------------------------------------------------------------
(* comDataWriteProc and its loop writeTcpToCom. *)

WriterWait ==
  /\ wrPc = "wait"
  /\ \/ tcpRcvEvent /\ tcpRcvEvent' = FALSE /\ wrPc' = "read"
     \/ ~tcpRcvEvent /\ closeEvent /\ wrPc' = "done" /\ UNCHANGED tcpRcvEvent
  /\ UNCHANGED <<status, comToTcp, tcpToCom, comRcvEvent, closeEvent, needResend,
                 reader, wrBuf, socket, device, network, history>>

WriterRead ==
  /\ wrPc = "read"
  /\ wrBuf' = First(tcpToCom, Least(TcpBufSize, Len(tcpToCom)))
  /\ tcpToCom' = Rest(tcpToCom, Len(wrBuf'))
  /\ wrPc' = IF wrBuf' = <<>> THEN "more" ELSE "file"
  /\ UNCHANGED <<status, comToTcp, comRcvEvent, tcpRcvEvent, closeEvent, needResend,
                 reader, socket, device, network, history>>

\* Mutant: a partial WriteFile is repeated from the start of the buffer.
BadWriterFile ==
  /\ wrPc = "file"
  /\ \E n \in 1..Len(wrBuf) :
        /\ comOut' = comOut \o First(wrBuf, n)
        /\ IF n = Len(wrBuf) THEN wrPc' = "more" /\ wrBuf' = <<>>
                            ELSE UNCHANGED writer
  /\ UNCHANGED <<shared, reader, socket, comIn, comSent, rxChar, network, history>>

\* WriteFile writes all the bytes; or some of them, which is only logged; or it
\* fails, and the loop breaks with what is left still in the ring.
WriterFile ==
  /\ wrPc = "file"
  /\ \E n \in 0..Len(wrBuf), failed \in BOOLEAN :
        /\ (n < Len(wrBuf) \/ failed) => "comWrite" \in Faults
        /\ failed => n = 0
        /\ comOut' = comOut \o First(wrBuf, n)
        /\ lostTcp' = lostTcp \cup Range(Rest(wrBuf, n))
        /\ wrPc' = IF failed THEN "wait" ELSE "more"
        /\ stranded' = IF failed THEN stranded \cup {"tcpToCom"} ELSE stranded
  /\ wrBuf' = <<>>
  /\ UNCHANGED <<shared, reader, socket, comIn, comSent, rxChar, network, lostCom, raced>>

\* Mutant: one Read for each event.
BadWriterMore ==
  /\ wrPc = "more"
  /\ wrPc' = "wait"
  /\ UNCHANGED <<shared, reader, wrBuf, socket, device, network, history>>

\* While the ring holds data the writing is repeated.
WriterMore ==
  /\ wrPc = "more"
  /\ wrPc' = IF tcpToCom # <<>> THEN "read" ELSE "wait"
  /\ UNCHANGED <<shared, reader, wrBuf, socket, device, network, history>>

ComDataWriteProc == WriterWait \/ WriterRead \/ WriterFile \/ WriterMore

-----------------------------------------------------------------------------
(* The socket thread: socketDataEventsHandler. *)

\* The wait loop ends; what follows depends on the build.
Leave(result) == skPc' = "leave" /\ skResult' = result

\* The network event is signalled: WSAEnumNetworkEvents takes the record of it.
EnumNetworkEvents ==
  /\ skPc = "wait"
  /\ netEvents # {}
  /\ skGot' = netEvents
  /\ netEvents' = {}
  /\ skPc' = "handle"
  /\ UNCHANGED <<shared, reader, writer, skBuf, skResult, device, conn, rx, peerSent,
                 window, blocked, peerGot, failures, history>>

\* The handler's order: FD_READ and its SetEvent, FD_CONNECT, FD_WRITE, FD_CLOSE.
Pending(events) == skPc = "handle" /\ skGot \cap events # {}
Nothing(events) == skPc = "handle" /\ skGot \cap events = {}

\* Mutant: the handler takes one recv for all the bytes that have come.
BadHandleRead ==
  /\ Pending({"FD_READ"})
  /\ LET taken == First(rx, Least(TcpBufSize, Len(rx)))
     IN  /\ tcpToCom' = Written(tcpToCom, taken)
         /\ lostTcp' = lostTcp \cup Overflow(tcpToCom, taken)
  /\ rx' = <<>>
  /\ skGot' = (skGot \ {"FD_READ"}) \cup {"TcpRcv"}
  /\ UNCHANGED <<status, comToTcp, comRcvEvent, tcpRcvEvent, closeEvent, needResend, reader,
                 writer, skPc, skBuf, skResult, device, conn, netEvents, peerSent, window,
                 blocked, peerGot, failures, lostCom, raced, stranded>>

\* recv takes at most TcpBufSize bytes, and FD_READ is recorded again if it left
\* some.  On a connection that was reset it returns SOCKET_ERROR, which as a
\* SIZE_T is more than any ring has room for: Write fills the ring, here with 0.
HandleRead ==
  /\ Pending({"FD_READ"})
  /\ LET taken == First(rx, Least(TcpBufSize, Len(rx)))
         noise == [i \in 1..(BufferSize - 1 - Len(tcpToCom)) |-> 0]
         data == IF conn = "reset" THEN noise ELSE taken
     IN  /\ tcpToCom' = Written(tcpToCom, data)
         /\ lostTcp' = lostTcp \cup Overflow(tcpToCom, data)
         /\ rx' = Rest(rx, Len(taken))
         /\ netEvents' = IF rx' # <<>> THEN netEvents \cup {"FD_READ"} ELSE netEvents
  /\ skGot' = (skGot \ {"FD_READ"}) \cup {"TcpRcv"}
  /\ UNCHANGED <<status, comToTcp, comRcvEvent, tcpRcvEvent, closeEvent, needResend, reader,
                 writer, skPc, skBuf, skResult, device, conn, peerSent, window, blocked,
                 peerGot, failures, lostCom, raced, stranded>>

HandleReadSet ==
  /\ Pending({"TcpRcv"})
  /\ tcpRcvEvent' = TRUE
  /\ stranded' = stranded \ {"tcpToCom"}
  /\ skGot' = skGot \ {"TcpRcv"}
  /\ UNCHANGED <<status, comToTcp, tcpToCom, comRcvEvent, closeEvent, needResend, reader,
                 writer, skPc, skBuf, skResult, device, network, lostCom, lostTcp, raced>>

\* Mutant: FD_CONNECT is taken for a connection without a look at its error.
BadHandleConnect ==
  /\ Nothing({"FD_READ", "TcpRcv"})
  /\ Pending({"FD_CONNECT"})
  /\ status' = "Connected" /\ skGot' = skGot \ {"FD_CONNECT"}
  /\ UNCHANGED <<comToTcp, tcpToCom, comRcvEvent, tcpRcvEvent, closeEvent, needResend, reader,
                 writer, skPc, skBuf, skResult, device, network, history>>

HandleConnect ==
  /\ Nothing({"FD_READ", "TcpRcv"})
  /\ Pending({"FD_CONNECT"})
  /\ IF conn = "refused"
     THEN Leave("RECONNECT") /\ skGot' = {} /\ UNCHANGED status
     ELSE status' = "Connected" /\ skGot' = skGot \ {"FD_CONNECT"} /\ UNCHANGED <<skPc, skResult>>
  /\ UNCHANGED <<comToTcp, tcpToCom, comRcvEvent, tcpRcvEvent, closeEvent, needResend, reader,
                 writer, skBuf, device, network, history>>

\* Mutant: FD_WRITE forgets to set the event.
BadHandleWrite ==
  /\ Nothing({"FD_READ", "TcpRcv", "FD_CONNECT"})
  /\ Pending({"FD_WRITE"})
  /\ needResend' = FALSE
  /\ skGot' = skGot \ {"FD_WRITE"}
  /\ UNCHANGED <<status, comToTcp, tcpToCom, comRcvEvent, tcpRcvEvent, closeEvent, reader,
                 writer, skPc, skBuf, skResult, device, network, history>>

HandleWrite ==
  /\ Nothing({"FD_READ", "TcpRcv", "FD_CONNECT"})
  /\ Pending({"FD_WRITE"})
  /\ needResend' = FALSE
  /\ comRcvEvent' = (comRcvEvent \/ needResend)
  /\ stranded' = IF needResend THEN stranded \ {"comToTcp"} ELSE stranded
  /\ skGot' = skGot \ {"FD_WRITE"}
  /\ UNCHANGED <<status, comToTcp, tcpToCom, tcpRcvEvent, closeEvent, reader, writer,
                 skPc, skBuf, skResult, device, network, lostCom, lostTcp, raced>>

\* Mutant: FD_CLOSE does not leave the loop.
BadHandleClose ==
  /\ Nothing({"FD_READ", "TcpRcv", "FD_CONNECT", "FD_WRITE"})
  /\ skPc' = "check"
  /\ skGot' = {}
  /\ UNCHANGED <<shared, reader, writer, skBuf, skResult, device, network, history>>

\* FD_CLOSE leaves the loop, whatever recv has not taken yet.
HandleClose ==
  /\ Nothing({"FD_READ", "TcpRcv", "FD_CONNECT", "FD_WRITE"})
  /\ IF "FD_CLOSE" \in skGot
     THEN Leave("RECONNECT")
     ELSE skPc' = "check" /\ UNCHANGED skResult
  /\ skGot' = {}
  /\ UNCHANGED <<shared, reader, writer, skBuf, device, network, history>>

SocketDataEventsHandler ==
  HandleRead \/ HandleReadSet \/ HandleConnect \/ HandleWrite \/ HandleClose

-----------------------------------------------------------------------------
(* The socket thread: writeComToTcp. *)

SendRead ==
  /\ skPc = "sendRead"
  /\ skBuf' = First(comToTcp, Least(TcpBufSize, Len(comToTcp)))
  /\ comToTcp' = Rest(comToTcp, Len(skBuf'))
  /\ skPc' = IF skBuf' = <<>> THEN "sendMore" ELSE "send"
  /\ UNCHANGED <<status, tcpToCom, comRcvEvent, tcpRcvEvent, closeEvent, needResend, reader,
                 writer, skGot, skResult, device, network, history>>

Sendable == conn \in {"up", "closed"}

\* Mutant: a partial send is taken for a whole one.
BadSendSome ==
  /\ skPc = "send"
  /\ Sendable
  /\ \E n \in 1..Least(Len(skBuf), SendWindow - Len(window)) :
        window' = window \o First(skBuf, n)
  /\ skBuf' = <<>>
  /\ skPc' = "sendMore"
  /\ UNCHANGED <<shared, reader, writer, skGot, skResult, device, conn, netEvents, rx,
                 peerSent, blocked, peerGot, failures, history>>

\* send takes some of the bytes.
SendSome ==
  /\ skPc = "send"
  /\ Sendable
  /\ \E n \in 1..Least(Len(skBuf), SendWindow - Len(window)) :
        /\ window' = window \o First(skBuf, n)
        /\ skBuf' = Rest(skBuf, n)
        /\ skPc' = IF n = Len(skBuf) THEN "sendMore" ELSE "send"
  /\ UNCHANGED <<shared, reader, writer, skGot, skResult, device, conn, netEvents, rx,
                 peerSent, blocked, peerGot, failures, history>>

\* send fails with WSAEWOULDBLOCK; FD_WRITE will follow.
SendBlocked ==
  /\ skPc = "send"
  /\ Sendable
  /\ Len(window) = SendWindow
  /\ blocked' = TRUE
  /\ skPc' = "cancel"
  /\ UNCHANGED <<shared, reader, writer, skGot, skBuf, skResult, device, conn, netEvents, rx,
                 peerSent, window, peerGot, failures, history>>

\* send fails for good: what was read from the ring is lost, the rest stays there.
SendFails ==
  /\ skPc = "send"
  /\ ~Sendable
  /\ Leave("RECONNECT")
  /\ lostCom' = lostCom \cup Range(skBuf)
  /\ skBuf' = <<>>
  /\ stranded' = stranded \cup {"comToTcp"}
  /\ UNCHANGED <<shared, reader, writer, skGot, device, network, lostTcp, raced>>

\* A Write is under way and its bytes have no room beside those of q.
Racing(q) == rdPc \in {"copy", "publish"} /\ Len(q) + Len(rdBuf) >= BufferSize

\* Mutant: cancels as many bytes as the Read took, not those send left.
BadSendCancel ==
  /\ skPc = "cancel"
  /\ comToTcp' = Cancelled(comToTcp, window \o skBuf)
  /\ lostCom' = lostCom \cup Overrun(comToTcp, skBuf)
  /\ raced' = (raced \/ Racing(comToTcp'))
  /\ needResend' = TRUE
  /\ skBuf' = <<>>
  /\ skPc' = "check"
  /\ UNCHANGED <<status, tcpToCom, comRcvEvent, tcpRcvEvent, closeEvent, reader, writer,
                 skGot, skResult, device, network, lostTcp, stranded>>

\* The bytes send has not taken go back, whatever the reader wrote meanwhile; a
\* Write that is under way has overwritten them, or will, if it took their room.
SendCancel ==
  /\ skPc = "cancel"
  /\ LET back == Cancelled(comToTcp, skBuf)
     IN  /\ comToTcp' = IF rdPc = "publish" THEN Overwritten(back, rdBuf) ELSE back
         /\ raced' = (raced \/ Racing(back))
  /\ lostCom' = lostCom \cup Overrun(comToTcp, skBuf)
  /\ needResend' = TRUE
  /\ skBuf' = <<>>
  /\ skPc' = "check"
  /\ UNCHANGED <<status, tcpToCom, comRcvEvent, tcpRcvEvent, closeEvent, reader, writer,
                 skGot, skResult, device, network, lostTcp, stranded>>

\* Mutant: one Read for each event.
BadSendMore ==
  /\ skPc = "sendMore"
  /\ skPc' = "check"
  /\ UNCHANGED <<shared, reader, writer, skGot, skBuf, skResult, device, network, history>>

\* While the ring holds data the sending is repeated.
SendMore ==
  /\ skPc = "sendMore"
  /\ skPc' = IF comToTcp # <<>> THEN "sendRead" ELSE "check"
  /\ UNCHANGED <<shared, reader, writer, skGot, skBuf, skResult, device, network, history>>

WriteComToTcp == SendRead \/ SendSome \/ SendBlocked \/ SendFails \/ SendCancel \/ SendMore

-----------------------------------------------------------------------------
(* The socket thread: what the loops of the two builds have in common.  The  *)
(* wait reports the lowest event set: the socket's, m_ComRcvEvent, then      *)
(* m_CloseEvent.                                                             *)

\* WSAStartup; if it fails the thread ends and the status stays Stopped.
Startup ==
  /\ skPc = "start"
  /\ \/ skPc' = "open"
     \/ "socket" \in Faults /\ skPc' = "done"
  /\ UNCHANGED <<shared, reader, writer, skGot, skBuf, skResult, device, network, history>>

WaitComRcv ==
  /\ skPc = "wait"
  /\ netEvents = {}
  /\ comRcvEvent
  /\ comRcvEvent' = FALSE
  /\ skPc' = "sendRead"
  /\ UNCHANGED <<status, comToTcp, tcpToCom, tcpRcvEvent, closeEvent, needResend, reader, writer,
                 skGot, skBuf, skResult, device, network, history>>

\* Mutant: m_CloseEvent made auto-reset, so one thread takes it from the others.
BadWaitClose ==
  /\ skPc = "wait"
  /\ netEvents = {} /\ ~comRcvEvent
  /\ closeEvent
  /\ closeEvent' = FALSE
  /\ Leave("FREE")
  /\ UNCHANGED <<status, comToTcp, tcpToCom, comRcvEvent, tcpRcvEvent, needResend, reader, writer,
                 skGot, skBuf, device, network, history>>

WaitClose ==
  /\ skPc = "wait"
  /\ netEvents = {} /\ ~comRcvEvent
  /\ closeEvent
  /\ Leave("FREE")
  /\ UNCHANGED <<shared, reader, writer, skGot, skBuf, device, network, history>>

\* After 100 ms without an event.
WaitTimeout ==
  /\ skPc = "wait"
  /\ netEvents = {} /\ ~comRcvEvent /\ ~closeEvent
  /\ skPc' = "check"
  /\ UNCHANGED <<shared, reader, writer, skGot, skBuf, skResult, device, network, history>>

\* The connection is given up.  What recv has not taken is lost, and of the bytes
\* in the window some still arrive.
DropConnection ==
  /\ rx' = <<>>
  /\ lostTcp' = lostTcp \cup Range(rx)
  /\ \E n \in 0..Len(window) :
        /\ peerGot' = peerGot \o First(window, n)
        /\ lostCom' = lostCom \cup Range(Rest(window, n))
  /\ window' = <<>>
  /\ blocked' = FALSE

\* shutdown and closesocket.
CloseSocket ==
  /\ skPc = "leave"
  /\ conn' = "none"
  /\ netEvents' = {}
  /\ DropConnection
  /\ skPc' = "closed"
  /\ \/ UNCHANGED skResult
     \/ "socket" \in Faults /\ skResult' = "FREE"
  /\ UNCHANGED <<shared, reader, writer, skGot, skBuf, device, peerSent, failures, raced, stranded>>

\* Mutant: the status is not touched when the connection is gone.
BadDisconnected ==
  /\ skPc = "closed"
  /\ skPc' = IF skResult = "FREE" THEN "stop" ELSE "sleep"
  /\ UNCHANGED <<shared, reader, writer, skGot, skBuf, skResult, device, network, history>>

Disconnected ==
  /\ skPc = "closed"
  /\ status' = "Disconnected"
  /\ skPc' = IF skResult = "FREE" THEN "stop" ELSE "sleep"
  /\ UNCHANGED <<comToTcp, tcpToCom, comRcvEvent, tcpRcvEvent, closeEvent, needResend, reader,
                 writer, skGot, skBuf, skResult, device, network, history>>

\* Sleep(RECONNECT_TIMEOUT) cannot be interrupted.
Sleep ==
  /\ skPc = "sleep"
  /\ skPc' = "open"
  /\ UNCHANGED <<shared, reader, writer, skGot, skBuf, skResult, device, network, history>>

Stop ==
  /\ skPc = "stop"
  /\ status' = "Stopped"
  /\ skPc' = "done"
  /\ UNCHANGED <<comToTcp, tcpToCom, comRcvEvent, tcpRcvEvent, closeEvent, needResend, reader,
                 writer, skGot, skBuf, skResult, device, network, history>>

-----------------------------------------------------------------------------
(* External: the COM device, the connection once it is up, the dialog. *)

ComDeviceSends ==
  /\ comSent < MaxCom
  /\ comSent' = comSent + 1
  /\ comIn' = Append(comIn, comSent + 1)
  /\ rxChar' = TRUE
  /\ UNCHANGED <<shared, reader, writer, socket, comOut, network, history>>

\* FD_READ is recorded unless it was enumerated and recv is still to come.
PeerSends ==
  /\ conn = "up"
  /\ peerSent < MaxTcp
  /\ peerSent' = peerSent + 1
  /\ rx' = Append(rx, peerSent + 1)
  /\ netEvents' = IF "FD_READ" \in skGot THEN netEvents ELSE netEvents \cup {"FD_READ"}
  /\ UNCHANGED <<shared, reader, writer, socket, device, conn, window, blocked, peerGot,
                 failures, history>>

PeerReceives ==
  /\ Sendable
  /\ window # <<>>
  /\ peerGot' = Append(peerGot, Head(window))
  /\ window' = Tail(window)
  /\ netEvents' = IF blocked THEN netEvents \cup {"FD_WRITE"} ELSE netEvents
  /\ blocked' = FALSE
  /\ UNCHANGED <<shared, reader, writer, socket, device, conn, rx, peerSent, failures, history>>

PeerCloses ==
  /\ conn = "up"
  /\ failures < MaxFailures
  /\ failures' = failures + 1
  /\ conn' = "closed"
  /\ netEvents' = netEvents \cup {"FD_CLOSE"}
  /\ UNCHANGED <<shared, reader, writer, socket, device, rx, peerSent, window, blocked,
                 peerGot, history>>

ConnectionResets ==
  /\ conn = "up"
  /\ failures < MaxFailures
  /\ failures' = failures + 1
  /\ conn' = "reset"
  /\ netEvents' = netEvents \cup {"FD_CLOSE"}
  /\ rx' = <<>>
  /\ window' = <<>>
  /\ blocked' = FALSE
  /\ lostTcp' = lostTcp \cup Range(rx)
  /\ lostCom' = lostCom \cup Range(window)
  /\ UNCHANGED <<shared, reader, writer, socket, device, peerSent, peerGot, raced, stranded>>

\* The dialog deletes the CThreadConfig: its destructor sets m_CloseEvent.
CloseThreads ==
  /\ ~closeEvent
  /\ closeEvent' = TRUE
  /\ UNCHANGED <<status, comToTcp, tcpToCom, comRcvEvent, tcpRcvEvent, needResend,
                 reader, writer, socket, device, network, history>>

Environment ==
  ComDeviceSends \/ PeerSends \/ PeerReceives \/ PeerCloses \/ ConnectionResets \/ CloseThreads

-----------------------------------------------------------------------------
(* Properties of either build. *)

TypeOK ==
  /\ status \in {"Stopped", "Disconnected", "Processing", "Connected"}
  /\ comToTcp \in Seq(1..comSent) /\ Len(comToTcp) < BufferSize
  /\ tcpToCom \in Seq(0..peerSent) /\ Len(tcpToCom) < BufferSize
  /\ {comRcvEvent, tcpRcvEvent, closeEvent, needResend, rxChar, blocked, raced} \subseteq BOOLEAN
  /\ rdPc \in {"wait", "read", "check", "write", "copy", "publish", "set", "done"}
  /\ wrPc \in {"wait", "read", "file", "more", "done"}
  /\ skPc \in {"start", "open", "wait", "handle", "sendRead", "send", "cancel", "sendMore",
               "check", "leave", "closed", "sleep", "stop", "done"}
  /\ skGot \subseteq {"FD_READ", "TcpRcv", "FD_CONNECT", "FD_WRITE", "FD_CLOSE"}
  /\ netEvents \subseteq {"FD_READ", "FD_CONNECT", "FD_WRITE", "FD_CLOSE"}
  /\ {rdBuf, comIn, peerGot} \subseteq Seq(1..comSent)
  /\ skBuf \in Seq(1..comSent) /\ Len(skBuf) <= TcpBufSize
  /\ wrBuf \in Seq(0..peerSent) /\ Len(wrBuf) <= TcpBufSize
  /\ {rx, comOut} \subseteq Seq(0..peerSent)
  /\ skResult \in {"CONTINUE", "RECONNECT", "FREE"}
  /\ conn \in {"none", "connecting", "refused", "up", "closed", "reset"}
  /\ window \in Seq(1..comSent) /\ Len(window) <= SendWindow
  /\ {comSent, peerSent, failures} \subseteq Nat
  /\ lostCom \subseteq 1..comSent /\ lostTcp \subseteq 0..peerSent
  /\ stranded \subseteq {"comToTcp", "tcpToCom"}

\* The bytes of s that are not noise are strictly ascending.
InOrder(s, noise) ==
  \A i, j \in 1..Len(s) : i < j => s[i] \in noise \/ s[j] \in noise \/ s[i] < s[j]

\* Every byte that was sent is in s or was lost, and none is both.
Accounted(s, lost, sent, noise) ==
  /\ (Range(s) \cup lost) \ noise = 1..sent
  /\ Range(s) \cap lost \subseteq noise

\* Every byte of the COM device that is not lost yet, the oldest first.
ComInFlight == peerGot \o window \o skBuf \o comToTcp \o rdBuf \o comIn

\* Bytes from the COM port reach the peer in order and at most once, over all
\* connections together: neither a partial send, nor an overrun of the ring, nor a
\* reconnect, nor a cancelled read swaps or repeats one.  The one thing that does
\* is a read cancelled inside a Write that had counted on its room (raced).
ComBytesInOrder == raced \/ InOrder(ComInFlight, {})

\* Every byte of the COM device is somewhere or was lost where the code drops
\* it: not connected, ring full, ring overrun, send failed, connection gone; until
\* a cancelled read and a Write have raced.
ComBytesAccounted == raced \/ Accounted(ComInFlight, lostCom, comSent, {})

\* Every byte of the peer that is not lost yet; 0 is noise of a failed recv.
TcpInFlight == comOut \o wrBuf \o tcpToCom \o rx

\* The same for the bytes from the peer to the COM port.
TcpBytesInOrder == InOrder(TcpInFlight, {0})
TcpBytesAccounted == Accounted(TcpInFlight, lostTcp, peerSent, {0})

\* No wakeup is lost: when the socket thread waits on a connection that is up
\* and the ring to it is not empty, then its event is set or about to be, or
\* the FD_WRITE that will set it is on its way.  The one exception is a failed
\* send, which leaves the rest of the ring behind.
SendWakeup ==
  (skPc = "wait" /\ conn = "up" /\ comToTcp # <<>>) =>
    \/ comRcvEvent
    \/ rdPc = "set"
    \/ needResend /\ (blocked \/ "FD_WRITE" \in netEvents)
    \/ "comToTcp" \in stranded

\* The same for the COM write thread: it never sleeps on a ring with data in it,
\* except after a WriteFile that failed.
WriteWakeup ==
  (wrPc = "wait" /\ tcpToCom # <<>>) =>
    tcpRcvEvent \/ "TcpRcv" \in skGot \/ "tcpToCom" \in stranded

\* What the dialog and the COM read thread are told is true whenever the socket
\* thread waits: it says Connected if and only if the connection has come up.
StatusTellsConnection ==
  skPc = "wait" =>
    (status = "Connected" <=> conn \in {"up", "closed", "reset"} /\ "FD_CONNECT" \notin netEvents)

\* What the COM read thread has put in the ring is sent, or stranded by a send that
\* failed, however often the connection is lost in between; unless the threads are
\* to stop or the socket thread has given up for want of a socket.
RingIsSent == (comToTcp # <<>> /\ "comToTcp" \notin stranded) ~>
                (comToTcp = <<>> \/ "comToTcp" \in stranded \/ closeEvent \/ skPc = "done")

\* A connection that failed is followed by another one, or by the end.
Reconnects == (conn \in {"refused", "closed", "reset"}) ~> (conn = "up" \/ skPc = "done")

\* SetEvent(m_CloseEvent) stops all three threads, and the status says so.
CloseStopsAll ==
  closeEvent ~> (rdPc = "done" /\ wrPc = "done" /\ skPc = "done" /\ status = "Stopped")

\* What the dialog is told is what module SocketStatus promises, and Stopped comes
\* last: the thread that has said it touches the settings no more.
Told == INSTANCE SocketStatus WITH told <- status, ended <- skPc = "done"
ImplementsStatus == Told!Spec

\* What is written to the COM port was received from the peer, as the README says
\* of the bridge: "Receive data from TCP port and send to COM port."
OnlyReceivedBytes == Range(comOut) \subseteq 1..peerSent
=============================================================================
