\* Four sequence numbers before the wrap; the buffer holds one packet less
\* than the stream has.
CONSTANTS
  m_iMaxSeqNo = 15
  m_iSeqNoTH = 7
  m_szSize = 5
  MessageOf <- MCMessageOf
  ISN = 14
SPECIFICATION Spec
INVARIANTS
  WindowIntact
  OutOfOrderCount
  ReadsWholeMessage
  ReadInTurn
PROPERTY
  NoHeadLeftBehind
CHECK_DEADLOCK FALSE
