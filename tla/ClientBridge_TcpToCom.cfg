\* Bytes from the server to the COM port.
CONSTANTS
  BufferSize = 4
  TcpBufSize = 2
  SendWindow = 1
  Faults = {"comWrite", "socket"}
  MaxCom = 0
  MaxTcp = 4
  MaxFailures = 2
SPECIFICATION Spec
INVARIANT TcpBytesInOrder
INVARIANT TcpBytesAccounted
INVARIANT WriteWakeup
