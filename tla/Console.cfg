SPECIFICATION FairSpec
CONSTANTS
  a1 = a1
  a2 = a2
  h1 = h1
  h2 = h2
  v1 = v1
  vFile = vFile
  vForm = vForm
  s1 = s1
  None = None
  Values = {v1}
  FileValue = vFile
  FormValue = vForm
  Secrets = {s1}
  FileSecret = None
  Handlers = {h1, h2}
  Artifacts = {a1, a2}
  Queued = {a2}
  BatchSize = 1
  MaxActs = 2
  MaxStops = 1
INVARIANTS
  PreferencesKept
  ViewCurrent
  PanelMatches
PROPERTIES
  EveryQueuedSettles
CHECK_DEADLOCK FALSE
