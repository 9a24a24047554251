CONSTANTS
  Bytes <- SomeBytes
  Chunks <- SomeChunks
  MaxChunk = 2
  BufferLimit = 3
  MaxStream = 9
  MaxGaps = 1
SPECIFICATION Spec
INVARIANTS
  SplitsAsAnnexB
  Tiles
  
