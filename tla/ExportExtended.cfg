SPECIFICATION Spec
CONSTANTS
  Stamps = {1, 2, 3, 4}
  PageSize = 2
  ExportPage = 1
INVARIANTS
  NotExtended
CHECK_DEADLOCK FALSE
