---------------------------- MODULE ClientBridge ----------------------------
(***************************************************************************)
(* The TCP_CLIENT build: sockDataExchangeProc connects to the server, runs *)
(* waitForDataEventsLoop until the connection fails or the threads are to  *)
(* stop, closes the socket and starts again (Source/threads.cpp).          *)
(***************************************************************************)
EXTENDS Bridge

-----------------------------------------------------------------------------
(* sockDataExchangeProc. *)

\* socket, the non-blocking connect and WSAEventSelect.
Open ==
  /\ skPc = "open"
  /\ status' = "Processing"
  /\ \/ /\ skPc' = "wait"
        /\ conn' = "connecting"
     \/ /\ "socket" \in Faults
        /\ skPc' = "stop"
        /\ UNCHANGED conn
  /\ skResult' = "CONTINUE"
  /\ UNCHANGED <<comToTcp, tcpToCom, comRcvEvent, tcpRcvEvent, closeEvent, needResend, reader,
                 writer, skGot, skBuf, device, netEvents, rx, peerSent, window, blocked,
                 peerGot, failures, history>>

\* getsockopt SO_ERROR; a failed connection may have set it or not.
CheckError ==
  /\ skPc = "check"
  /\ \/ skPc' = "wait" /\ UNCHANGED skResult
     \/ conn \in {"refused", "reset"} /\ Leave("RECONNECT")
  /\ UNCHANGED <<shared, reader, writer, skGot, skBuf, device, network, history>>

SockDataExchangeProc ==
  \/ Startup \/ Open \/ CloseSocket \/ Disconnected \/ Sleep \/ Stop
  \/ EnumNetworkEvents \/ WaitComRcv \/ WaitClose \/ WaitTimeout \/ CheckError
  \/ SocketDataEventsHandler
  \/ WriteComToTcp

-----------------------------------------------------------------------------
(* External: the server accepts the connection or refuses it. *)

Accepted ==
  /\ conn = "connecting"
  /\ conn' = "up"
  /\ netEvents' = netEvents \cup {"FD_CONNECT", "FD_WRITE"}
  /\ UNCHANGED <<shared, reader, writer, socket, device, rx, peerSent, window, blocked,
                 peerGot, failures, history>>

Refused ==
  /\ conn = "connecting"
  /\ failures < MaxFailures
  /\ failures' = failures + 1
  /\ conn' = "refused"
  /\ netEvents' = netEvents \cup {"FD_CONNECT"}
  /\ UNCHANGED <<shared, reader, writer, socket, device, rx, peerSent, window, blocked,
                 peerGot, history>>

-----------------------------------------------------------------------------
Terminated ==
  /\ rdPc = "done" /\ wrPc = "done" /\ skPc = "done"
  /\ UNCHANGED vars

Next ==
  \/ SockDataExchangeProc
  \/ ComDataReadProc
  \/ ComDataWriteProc
  \/ Accepted \/ Refused
  \/ Environment
  \/ Terminated

Spec == Init /\ [][Next]_vars

\* The scheduler runs every thread, the COM port answers every call, and the
\* network does not stay silent: a connection attempt ends, a peer reads on.
\* Nobody has to send, to fail or to stop the threads.
Fairness ==
  /\ WF_vars(SockDataExchangeProc)
  /\ WF_vars(ComDataReadProc)
  /\ WF_vars(ComDataWriteProc)
  /\ WF_vars(Accepted)
  /\ WF_vars(PeerReceives)

FairSpec == Spec /\ Fairness
=============================================================================
