\* What GetAvailableSpace's comment says of a snapshot, on m_ComToTcpBuf.
CONSTANTS
  Size = 5
  HeadTwoStores = FALSE
  TailTwoStores = FALSE
  ReadSize = 3
  MaxWrite = 5
  MaxBytes = 12
SPECIFICATION CancelSpec
INVARIANT SnapshotsHold
