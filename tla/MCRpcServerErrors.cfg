CONSTANTS
  Peers = {p1, p2}
  None = None
  InboxCap = 1
  MaxPending = 1
  DispatcherCanFail = TRUE
SPECIFICATION Spec
INVARIANT TypeOK
INVARIANT LivePeersRegistered
PROPERTY DeadPeersPruned
CHECK_DEADLOCK FALSE
