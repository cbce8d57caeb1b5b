SPECIFICATION Spec
CONSTANTS
  u1 = u1
  u2 = u2
  o1 = o1
  o2 = o2
  Upload <- MCUpload
  Op <- MCOp
  Base = {"report"}
  NONE = NONE
  MaxCopy = 2
SYMMETRY Symmetry
INVARIANT
  CollisionsKeepBoth
