SPECIFICATION Spec
CONSTANTS
  p1 = p1
  p2 = p2
  a = a
  NoProc = NoProc
  Procs = {p1, p2}
  Issuers = {a}
  IssuerOf <- TheIssuer
  Keychain = TRUE
  MaxTokens = 3
  MaxFaults = 1
  MaxOutages = 1
SYMMETRY Symmetry
INVARIANTS
  TypeOK
  RedeemedOnce
  SessionsAccounted
  SignedOutStays
  NoOlderCopy
