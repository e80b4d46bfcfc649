CONSTANTS
  ScriptHashes = {s1, s2}
  Statuses = {null, t1}
  BestHeaders = {h1, h2}
  Unsubscribed = Unsubscribed
  InboxCap = 2
  MaxLines = 2
  MaxChainChanges = 2
  QueryCanFail = TRUE
SPECIFICATION Spec
INVARIANT ViewMatchesRecord
PROPERTY SubscriptionsRefined
PROPERTY EventuallyFresh
CHECK_DEADLOCK FALSE
