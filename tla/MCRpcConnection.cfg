CONSTANTS
  ScriptHashes = {s1}
  Statuses = {null, t1}
  BestHeaders = {h1, h2}
  Unsubscribed = Unsubscribed
  InboxCap = 2
  MaxLines = 2
  MaxChainChanges = 2
  QueryCanFail = TRUE
SPECIFICATION Spec
INVARIANT TypeOK
PROPERTY RequestsAnswered
CHECK_DEADLOCK FALSE
PROPERTY PeerRefined
