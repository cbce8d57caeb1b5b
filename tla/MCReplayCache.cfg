SPECIFICATION Spec
CONSTANTS
  s1 = s1
  s2 = s2
  Sig <- MCSig
  NONE = NONE
  MaxSkew = 2
  Lag = 1
  MaxStamp = 4
  MaxTime = 8
SYMMETRY Symmetry
INVARIANTS
  PastStampsOnce
