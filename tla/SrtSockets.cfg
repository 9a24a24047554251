\* One client that asks again and again, a queue of one, three socket IDs.
CONSTANTS
  p1 = p1
  p2 = p2
  Peers <- OneClient
  NoPeer = NoPeer
  MaxSockets = 3
  Backlog = 1
SPECIFICATION FairSpec
INVARIANTS
  InUseNotDeleted
  EveryConnectionHasAnOwner
  PortIsListenable
PROPERTIES
  StopReturns
  DeadAreDeleted
\* When the IDs are used up and nothing is left to do, the model stops.
CHECK_DEADLOCK FALSE
