SPECIFICATION Spec
CONSTANTS
  h1 = h1
  h2 = h2
  Hooks = {h1, h2}
  RotateAt = 9
  BatchLines = 2
  CalmStarts = TRUE
  MaxEvents = 4
  MaxRuns = 2
  MaxFaults = 2
  MaxCrashes = 1
SYMMETRY Symmetry
CHECK_DEADLOCK FALSE
INVARIANTS
  TypeOK
  OffsetIsSent
PROPERTIES
  NothingDropped
