SPECIFICATION Spec
CONSTANTS
  j1 = j1
  j2 = j2
  c1 = c1
  c2 = c2
  Job <- MCJob
  Cert <- MCCert
  NONE = NONE
  Ports = 2
  ShareDays = 1
  Start <- MCStart
  MaxTokens = 2
  MaxChanges = 1
  MaxDays = 2
SYMMETRY Symmetry
CHECK_DEADLOCK FALSE
INVARIANTS
  TokenOfPinnedAgent
  PrintedOnce
  FailureHasACause
PROPERTIES
  PairsOnlyWhenDue
