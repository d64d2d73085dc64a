SPECIFICATION FairSpec
CONSTANTS
  t1 = t1
  t2 = t2
  Turns = {t1, t2}
  MaxAttempts = 3
  MaxFailures = 4
  MaxSuspends = 2
  MaxFaults = 1
CHECK_DEADLOCK FALSE
INVARIANTS
  TypeOK
  SentOnce
PROPERTIES
  LeavesWhenDone
  DeliveredOrRefused
