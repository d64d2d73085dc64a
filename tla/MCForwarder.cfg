SPECIFICATION Spec
CONSTANTS
  Archives = 2
  RotateAt = 2
  MaxEvents = 4
  Inodes = {f1, f2, f3, f4}
  NoFile = NoFile
  InodeReuse = FALSE
  Guards = {FALSE}
  MaxFaults = 1
  NoCp = NoCp
  HeadMax = 1
  MaxLines = 2
  PostLines = 1
  Blank = {4}
  Oversized = {2}
  TooLarge = {3}
  Starts <- AllStarts
  MaxStarts = 1
  SaveFails = TRUE
SYMMETRY InodeSymmetry
INVARIANTS CheckpointSafe RetainedNotForgotten OnLineBoundary
PROPERTIES KeepsPromise
CHECK_DEADLOCK FALSE
