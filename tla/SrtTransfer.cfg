\* Three messages through a buffer for two, across the wrap of the sequence
\* numbers.
CONSTANTS
  m_iMaxSeqNo = 15
  m_iSeqNoTH = 7
  m_szSize = 3
  ISN = 14
  iMaxReorderTolerance = 1
  MaxMsgs = 3
  Flags <- MCFlags
  MayAge = {2}
  NetRoom = 2
  MaxLosses = 1
SPECIFICATION FairSpec
INVARIANTS
  LossListExact
  
  NeverBroken
  
PROPERTIES
  
  LossesRepaired
  
CHECK_DEADLOCK FALSE
