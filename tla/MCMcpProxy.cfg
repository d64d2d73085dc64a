SPECIFICATION FairSpec
CONSTANTS
  Script <- OneSession
  s1 = s1
  s2 = s2
  Scopes = {s1, s2}
  NoScope = NoScope
  MaxTokens = 2
  MaxChanges = 1
  MaxFaults = 1
INVARIANTS
  TypeOK
  ServedOnce
  AnnouncedFirst
  SessionsTracked
PROPERTIES
  EveryAnswered
