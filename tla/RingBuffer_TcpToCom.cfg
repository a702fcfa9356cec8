\* m_TcpToComBuf: written by the socket thread, read by the COM write thread.
CONSTANTS
  Size = 5
  HeadTwoStores = TRUE
  TailTwoStores = FALSE
  ReadSize = 3
  MaxWrite = 5
  MaxBytes = 12
SPECIFICATION Spec
INVARIANT TypeOK
INVARIANT SnapshotsHold
INVARIANT UnreadBytesIntact
INVARIANT ReadsInOrder
PROPERTY ImplementsFifo
