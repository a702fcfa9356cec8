\* Bytes from the COM port to the server.
CONSTANTS
  BufferSize = 4
  TcpBufSize = 2
  SendWindow = 1
  Faults = {"comRead", "socket"}
  MaxCom = 5
  MaxTcp = 0
  MaxFailures = 1
SPECIFICATION Spec
INVARIANT TypeOK
INVARIANT ComBytesInOrder
INVARIANT ComBytesAccounted
INVARIANT SendWakeup
INVARIANT StatusTellsConnection
PROPERTY ImplementsStatus
