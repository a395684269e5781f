SPECIFICATION FairSpec
CONSTANTS
  d1 = d1
  d2 = d2
  Deliveries = {d1, d2}
  MaxAttempts = 2
  BatchSize = 1
  MaxManual = 1
  None = None
INVARIANTS
  DeliveredWasAccepted
  AttemptsBounded
PROPERTIES
  EndsAreFinal
  EventuallySettled
