CONSTANTS
  Peers = {p1, p2}
  None = None
  InboxCap = 1
  MaxPending = 1
  DispatcherCanFail = FALSE
SPECIFICATION Spec
PROPERTY DropReturns
CHECK_DEADLOCK FALSE
