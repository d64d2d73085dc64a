SPECIFICATION FairSpec
CONSTANTS
  Archives = 1
  RotateAt = 6
  MaxEvents = 5
  Inodes = {f1, f2, f3}
  NoFile = NoFile
  InodeReuse = FALSE
  Guards = {FALSE}
  MaxFaults = 1
  NoCp = NoCp
  HeadMax = 1
  MaxLines = 2
  PostLines = 1
  Blank = {}
  Oversized = {}
  TooLarge = {1}
  Starts = {}
  MaxStarts = 0
  SaveFails = TRUE
INVARIANT ResendsOneBatch
PROPERTY EventuallySettled
CHECK_DEADLOCK FALSE
