SPECIFICATION Spec
CONSTANTS
  Archives = 1
  RotateAt = 4
  MaxEvents = 6
  Inodes = {f1, f2, f3}
  NoFile = NoFile
  InodeReuse = TRUE
  Guards = {FALSE}
  MaxFaults = 0
  NoCp = NoCp
  HeadMax = 1
  MaxLines = 2
  PostLines = 1
  Blank = {}
  Oversized = {}
  TooLarge = {}
  Starts = {}
  MaxStarts = 0
  SaveFails = FALSE
SYMMETRY InodeSymmetry
INVARIANT CheckpointSafe
CHECK_DEADLOCK FALSE
