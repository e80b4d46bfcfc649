CONSTANTS
  Peers = {p1, p2}
  None = None
  InboxCap = 1
  MaxPending = 1
  DispatcherCanFail = FALSE
SPECIFICATION Spec
INVARIANT ShutdownReachesEveryPeer
CHECK_DEADLOCK FALSE
