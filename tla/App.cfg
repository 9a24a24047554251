CONSTANTS
  SetupMayFail = TRUE
  MaxStarts = 3
  MaxPackets = 1
  MaxActivities = 2
  MaxToggles = 3
SPECIFICATION AppFairSpec
INVARIANTS
  ReadyToStart
  ModeHolds
  OneFeeder
  PortIsFreeAgain
PROPERTIES
  NothingFedAfterStop
  
  CallbacksReturn
CHECK_DEADLOCK FALSE
