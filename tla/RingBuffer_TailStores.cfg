\* m_TcpToComBuf in a build that stores m_Tail = m_End before m_Tail = m_Base.
CONSTANTS
  Size = 5
  HeadTwoStores = FALSE
  TailTwoStores = TRUE
  ReadSize = 3
  MaxWrite = 5
  MaxBytes = 12
SPECIFICATION Spec
INVARIANT ReadsInOrder
