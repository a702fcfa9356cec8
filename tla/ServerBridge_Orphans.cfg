\* A second client connects to a server that has one.
CONSTANTS
  BufferSize = 3
  TcpBufSize = 2
  SendWindow = 1
  Faults = {}
  MaxCom = 0
  MaxTcp = 0
  MaxFailures = 1
  MaxExtra = 1
SPECIFICATION Spec
INVARIANT AcceptedAreServed
