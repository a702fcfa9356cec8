\* The server build: clients that come, go, leave the backlog and come twice.
CONSTANTS
  BufferSize = 3
  TcpBufSize = 1
  SendWindow = 1
  Faults = {"comRead", "socket"}
  MaxCom = 2
  MaxTcp = 0
  MaxFailures = 1
  MaxExtra = 1
SPECIFICATION FairSpec
INVARIANT AcceptWakeup
INVARIANT AcceptFindsClient
INVARIANT StatusTellsConnection
INVARIANT SendWakeup
PROPERTY RingIsSent
PROPERTY Reconnects
PROPERTY CloseStopsAll
PROPERTY ImplementsStatus
