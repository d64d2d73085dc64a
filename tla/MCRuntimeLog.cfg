SPECIFICATION ReportSpec
CONSTANTS
  Archives = 2
  RotateAt = 4
  MaxEvents = 8
  Inodes = {f1, f2, f3, f4, f5, f6}
  NoFile = NoFile
  InodeReuse = FALSE
  Guards = {TRUE, FALSE}
  MaxFaults = 1
SYMMETRY InodeSymmetry
INVARIANT OlderInHigherSlots
PROPERTIES ReportIsExact OnlyLastSlotIsDeleted GuardKeepsOwnOutput
CHECK_DEADLOCK FALSE
