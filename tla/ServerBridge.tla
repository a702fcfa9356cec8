---------------------------- MODULE ServerBridge ----------------------------
(***************************************************************************)
(* The TCP_SERVER build: sockDataExchangeProc creates a listening socket   *)
(* and runs waitForDataEventsLoop, which accepts clients and bridges the   *)
(* COM port to the one accepted last, until that one fails or the threads  *)
(* are to stop (Source/threads.cpp).                                       *)
(*                                                                         *)
(* conn, netEvents, rx and window of module Bridge are those of the client *)
(* in clientSocket.  When clientSocket is given up the bytes under way to  *)
(* the old client arrive or are lost there and then.                       *)
(***************************************************************************)
EXTENDS Bridge

CONSTANT MaxExtra   \* bound: clients that connect while another one is there

ASSUME ServerAssumption == MaxExtra \in Nat

VARIABLES
  acceptEvent,   \* hDataEvent[0], manual-reset: FD_ACCEPT
  pending,       \* external: the backlog: clients that wait to be accepted,
  gone,          \* and clients that have aborted before they were
  orphans,       \* history: clients that were connected when clientSocket was
                 \* given up; they stay connected
  extra          \* external: clients that have connected while another was there

listening == <<acceptEvent, pending, gone, orphans, extra>>
serverVars == <<vars, listening>>

ServerInit ==
  /\ Init
  /\ acceptEvent = FALSE /\ pending = 0 /\ gone = 0 /\ orphans = 0 /\ extra = 0

-----------------------------------------------------------------------------
(* sockDataExchangeProc. *)

\* socket, bind, listen and WSAEventSelect(FD_ACCEPT).
Open ==
  /\ skPc = "open"
  /\ status' = "Processing"
  /\ \/ skPc' = "wait"
     \/ "socket" \in Faults /\ skPc' = "stop"
  /\ skResult' = "CONTINUE"
  /\ UNCHANGED <<comToTcp, tcpToCom, comRcvEvent, tcpRcvEvent, closeEvent, needResend, reader,
                 writer, skGot, skBuf, device, network, history, listening>>

\* Only the listening socket is closed, and with it the clients in its backlog:
\* a client in clientSocket stays connected.
CloseServerSocket ==
  /\ CloseSocket
  /\ acceptEvent' = FALSE
  /\ pending' = 0
  /\ gone' = 0
  /\ orphans' = IF conn = "up" THEN orphans + 1 ELSE orphans
  /\ UNCHANGED extra

-----------------------------------------------------------------------------
(* waitForDataEventsLoop: FD_ACCEPT comes before the client's events. *)

\* Mutant: the event is not reset after accept.
BadAcceptClient ==
  /\ skPc = "wait"
  /\ acceptEvent
  /\ pending > 0
  /\ pending' = pending - 1
  /\ status' = "Connected"
  /\ conn' = "up"
  /\ netEvents' = {"FD_WRITE"}
  /\ DropConnection
  /\ skPc' = "check"
  /\ UNCHANGED <<comToTcp, tcpToCom, comRcvEvent, tcpRcvEvent, closeEvent, needResend, reader,
                 writer, skGot, skBuf, skResult, device, peerSent, failures, stranded,
                 raced, acceptEvent, gone, orphans, extra>>

\* Mutant: the status is left to FD_CONNECT, which an accepted socket never has.
BadQuietAcceptClient ==
  /\ skPc = "wait"
  /\ acceptEvent
  /\ pending > 0
  /\ acceptEvent' = FALSE
  /\ pending' = pending - 1
  /\ conn' = "up"
  /\ netEvents' = {"FD_WRITE"}
  /\ DropConnection
  /\ skPc' = "check"
  /\ UNCHANGED <<shared, reader, writer, skGot, skBuf, skResult, device, peerSent, failures,
                 raced, stranded, gone, orphans, extra>>

\* The client accepted takes the place of the one before, whose socket is neither
\* closed nor kept.  WSAResetEvent also resets the event that accept has just set
\* again for the next client in the backlog.
AcceptClient ==
  /\ skPc = "wait"
  /\ acceptEvent
  /\ pending > 0
  /\ acceptEvent' = FALSE
  /\ pending' = pending - 1
  /\ orphans' = IF conn = "up" THEN orphans + 1 ELSE orphans
  /\ status' = "Connected"
  /\ conn' = "up"
  /\ netEvents' = {"FD_WRITE"}
  /\ DropConnection
  /\ skPc' = "check"
  /\ UNCHANGED <<comToTcp, tcpToCom, comRcvEvent, tcpRcvEvent, closeEvent, needResend, reader,
                 writer, skGot, skBuf, skResult, device, peerSent, failures, raced, stranded,
                 gone, extra>>

\* accept fails, which ends the thread: it returns the error of a client that
\* has aborted, or finds none.
AcceptFails ==
  /\ skPc = "wait"
  /\ acceptEvent
  /\ pending = 0 \/ gone > 0 \/ "socket" \in Faults
  /\ acceptEvent' = FALSE
  /\ Leave("FREE")
  /\ UNCHANGED <<shared, reader, writer, skGot, skBuf, device, network, history,
                 pending, gone, orphans, extra>>

\* The events after FD_ACCEPT, as in either build.
WaitOther ==
  /\ ~acceptEvent
  /\ EnumNetworkEvents \/ WaitComRcv \/ WaitClose \/ WaitTimeout
  /\ UNCHANGED listening

\* getsockopt SO_ERROR of the listening socket.
CheckError ==
  /\ skPc = "check"
  /\ \/ skPc' = "wait" /\ UNCHANGED <<skResult, failures>>
     \/ /\ "socket" \in Faults
        /\ failures < MaxFailures
        /\ failures' = failures + 1
        /\ Leave("RECONNECT")
  /\ UNCHANGED <<shared, reader, writer, skGot, skBuf, device, conn, netEvents, rx, peerSent,
                 window, blocked, peerGot, history, listening>>

SockDataExchangeProc ==
  \/ Open \/ CloseServerSocket
  \/ AcceptClient \/ AcceptFails \/ WaitOther \/ CheckError
  \/ /\ SocketDataEventsHandler \/ WriteComToTcp
        \/ Startup \/ Disconnected \/ Sleep \/ Stop
     /\ UNCHANGED listening

-----------------------------------------------------------------------------
(* External: the clients. *)

Listening == skPc \notin {"start", "open", "closed", "sleep", "stop", "done"}

Unaccepted == pending + gone

\* FD_ACCEPT is recorded, unless a client in the backlog has its record already.
ClientConnects ==
  /\ Listening
  /\ pending' = pending + 1
  /\ acceptEvent' = (acceptEvent \/ Unaccepted = 0)
  /\ UNCHANGED <<vars, gone, orphans>>

FirstClientConnects ==
  /\ conn # "up" /\ Unaccepted = 0
  /\ ClientConnects
  /\ UNCHANGED extra

AnotherClientConnects ==
  /\ conn = "up" \/ Unaccepted > 0
  /\ extra < MaxExtra
  /\ ClientConnects
  /\ extra' = extra + 1

\* A client aborts before it is accepted: what is left of it is for accept to find.
ClientLeaves ==
  /\ Listening
  /\ pending > 0
  /\ pending' = pending - 1
  /\ gone' = gone + 1
  /\ UNCHANGED <<vars, acceptEvent, orphans, extra>>

Clients == FirstClientConnects \/ AnotherClientConnects \/ ClientLeaves

-----------------------------------------------------------------------------
Terminated ==
  /\ rdPc = "done" /\ wrPc = "done" /\ skPc = "done"
  /\ UNCHANGED serverVars

Next ==
  \/ SockDataExchangeProc
  \/ Clients
  \/ /\ ComDataReadProc \/ ComDataWriteProc \/ Environment
     /\ UNCHANGED listening
  \/ Terminated

Spec == ServerInit /\ [][Next]_serverVars

\* As in the client build; somebody connects to a server that has no client.
Fairness ==
  /\ WF_serverVars(SockDataExchangeProc)
  /\ WF_serverVars(ComDataReadProc /\ UNCHANGED listening)
  /\ WF_serverVars(ComDataWriteProc /\ UNCHANGED listening)
  /\ WF_serverVars(FirstClientConnects)
  /\ WF_serverVars(PeerReceives /\ UNCHANGED listening)

FairSpec == Spec /\ Fairness

-----------------------------------------------------------------------------
(* Properties. *)

\* A server without a live client does not sleep on a backlog with clients in it:
\* accept's event is set, or the old client's FD_CLOSE will end the loop.  The
\* event that WSAResetEvent wipes out is only ever that of a second client.
AcceptWakeup ==
  (skPc = "wait" /\ conn # "up" /\ pending > 0) => acceptEvent \/ "FD_CLOSE" \in netEvents

\* accept's event never outlives the clients it was set for: when accept is called
\* there is a client to accept, or one that has aborted, and only that one makes
\* accept fail for want of a client, which stops the server for good.
AcceptFindsClient == acceptEvent => pending > 0 \/ gone > 0

\* Every client that was accepted and is still connected is the one the server
\* serves; the README promises to send what is received to the COM port.
AcceptedAreServed == orphans = 0
=============================================================================
