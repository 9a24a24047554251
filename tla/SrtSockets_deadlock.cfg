\* A close() of the listener meets a connection request.
CONSTANTS
  p1 = p1
  p2 = p2
  Peers <- TwoClients
  NoPeer = NoPeer
  MaxSockets = 3
  Backlog = 1
SPECIFICATION Spec
INVARIANT NoLockInversion
CHECK_DEADLOCK FALSE
