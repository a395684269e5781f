SPECIFICATION FairSpec
CONSTANTS
  p1 = p1
  p2 = p2
  r1 = r1
  r2 = r2
  r3 = r3
  Producers = {p1, p2}
  Records = {r1, r2, r3}
  Size <- MCSize
  MaxBytes = 3
  None = None
INVARIANTS
  Accounted
  NoLostWakeup
PROPERTIES
  ImplementsQueue
  EventuallyAcked
