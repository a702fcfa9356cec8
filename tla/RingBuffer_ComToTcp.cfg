\* m_ComToTcpBuf: written by the COM read thread, read by the socket thread.
CONSTANTS
  Size = 5
  HeadTwoStores = TRUE
  TailTwoStores = TRUE
  ReadSize = 3
  MaxWrite = 5
  MaxBytes = 12
SPECIFICATION CancelSpec
INVARIANT IInv
INVARIANT SafeUnlessRaced
PROPERTY ImplementsFifoUnlessRaced
