SPECIFICATION FairSpec
CONSTANTS
  p1 = p1
  p2 = p2
  Publishers = {p1, p2}
  Cap = 2
  Limit = 2
  Present = 1
  MaxEvents = 4
  MaxConns = 2
  None = None
INVARIANTS
  KeepsNewest
  NoSendOnClosed
  FeedAccounted
PROPERTIES
  PublishReturns
CHECK_DEADLOCK FALSE
