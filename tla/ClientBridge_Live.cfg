\* Liveness, bytes in both directions, anything may fail.
CONSTANTS
  BufferSize = 3
  TcpBufSize = 1
  SendWindow = 1
  Faults = {"comRead", "comWrite", "socket"}
  MaxCom = 2
  MaxTcp = 1
  MaxFailures = 1
SPECIFICATION FairSpec
PROPERTY RingIsSent
PROPERTY Reconnects
PROPERTY CloseStopsAll
