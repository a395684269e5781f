SPECIFICATION FairSpec
CONSTANTS
  s1 = s1
  r1 = r1
  r2 = r2
  r3 = r3
  k1 = k1
  k2 = k2
  Beat = Beat
  None = None
  Sensors = {s1}
  Streams = {k1, k2}
  Owner <- OneOwner
  Records = {r1, r2, r3}
  Oversize = {r3}
  Capacity = 2
INVARIANTS
  ExactlyOnce
  HandedOver
  InOrder
  AnswersMatch
PROPERTIES
  ReplayedInTurn
  ImplementsLog
