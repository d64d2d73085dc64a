SPECIFICATION FairSpec
CONSTANTS
  Archives = 1
  RotateAt = 5
  MaxEvent = 2
  Margin = 1
  Sizes <- MCSizes
  Charged <- MCCharged
  Line <- MCLine
  BatchMax = 2
  MaxRounds = 8
  NoWait = FALSE
  MaxHooks = 1
  MaxFaults = 1
CHECK_DEADLOCK FALSE
INVARIANTS
  TypeOK
  NothingSkipped
PROPERTIES
  HistoryKept
  RoomIsEnough
  EventuallyWritten
