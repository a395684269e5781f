\* The instance runs out of events when all are acknowledged.
CHECK_DEADLOCK FALSE
SPECIFICATION Spec
CONSTANTS
  e1 = e1
  e2 = e2
  f1 = f1
  f2 = f2
  w1 = w1
  w2 = w2
  Events = {e1, e2}
  Facts = {f1, f2}
  Workers = {w1, w2}
  Triggers <- MCTriggers
  Queried = {f2}
  Aged = {e2}
  Cooldown <- MCCooldown
  MaxClock = 0
  MaxGone = 1
  Marks = {"open", "resolved"}
  None = None
SYMMETRY WorkerSymmetry
INVARIANTS
  ReservedIsQueued
