SPECIFICATION FairSpec
CONSTANTS
  a = a
  b = b
  r = r
  p1 = p1
  p2 = p2
  None = None
  Absent = Absent
  Procs = {p1, p2}
  Syncers = {p1}
  Mems = {a, b, r}
  Here = {a, b}
  Before <- MCBefore
  MaxSupersedes = 1
  MaxRemote = 1
  MaxFaults = 1
CHECK_DEADLOCK FALSE
INVARIANTS
  TypeOK
  SyncedIsTrue
  SupersededByDecision
PROPERTIES
  EventuallySynced
