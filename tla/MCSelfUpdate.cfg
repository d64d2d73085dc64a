SPECIFICATION FairSpec
CONSTANTS
  daemon = daemon
  admin = admin
  nobody = nobody
  Updaters = {daemon, admin}
  Daemon = daemon
  Nobody = nobody
  MaxVersion = 3
  BadVersions = {2}
  MaxFaults = 2
  MaxCrashes = 1
CHECK_DEADLOCK FALSE
INVARIANTS
  TypeOK
  AllOrNothing
  OldTreeKept
PROPERTIES
  EventuallyUpdated
