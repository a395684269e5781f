SPECIFICATION HealthFairSpec
CONSTANTS
  s1 = s1
  s2 = s2
  Sensors = {s1, s2}
  Window = 1
  Backlog = 1
  NoSensor = NoSensor
INVARIANTS
  AtMostOneAlert
PROPERTIES
  SilenceShown
  Heals
