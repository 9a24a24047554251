CONSTANTS
  MaxCodecs = 3
SPECIFICATION FairSpec
INVARIANTS
  LoopsOnStartedCodec
  WindowsReleased
  
PROPERTIES
  NoThreadOverwritten
  ReleaseEnds
