CONSTANTS
  Mime = "video/avc"
  Fed = {"sps", "idr", "slice", "sei"}
  QueueRoom = 3
  InputBuffers = 1
  OutputBuffers = 1
  MaxFailures = 1
  MaxNalus = 4
SPECIFICATION FairSpec
INVARIANTS
  Ledger
  
  
PROPERTY
  QueueDrains
CHECK_DEADLOCK FALSE
