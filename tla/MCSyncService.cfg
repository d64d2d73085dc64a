SPECIFICATION Spec
CONSTANTS
  Archives = 1
  RotateAt = 5
  MaxEvent = 2
  Margin = 1
  Sizes <- MCSizes
  Charged <- ExactCharged
  Line <- MCLine
  BatchMax = 2
  MaxRounds = 8
  NoWait = FALSE
  MaxHooks = 0
  MaxFaults = 0
CHECK_DEADLOCK FALSE
INVARIANT HistoryKeptByService
