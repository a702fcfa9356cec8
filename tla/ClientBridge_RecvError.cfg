\* A connection that is reset between FD_READ and recv.
CONSTANTS
  BufferSize = 3
  TcpBufSize = 2
  SendWindow = 1
  Faults = {}
  MaxCom = 0
  MaxTcp = 1
  MaxFailures = 1
SPECIFICATION Spec
INVARIANT OnlyReceivedBytes
