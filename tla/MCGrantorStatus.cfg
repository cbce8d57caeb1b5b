SPECIFICATION Spec
CONSTANTS
  a = a
  b = b
  Node <- MCNode
  Self = Self
  NONE = NONE
  PendingTtl = 1
  MaxPending = 1
  MaxDecisions = 1
  Durations = {1}
  Perm = {"files"}
  Scopes = {"all"}
  FullScope = "all"
  OwnStatus = {"approved"}
  MaxTime = 1
SYMMETRY Symmetry
INVARIANT
  LiveGrantAnswersApproved
