SPECIFICATION SyncSpec
CONSTANTS
  a = a
  Node <- MCNode
  Self = Self
  NONE = NONE
  PendingTtl = 1
  MaxPending = 1
  MaxDecisions = 1
  Durations = {0}
  Perm = {"files"}
  Scopes = {"all"}
  FullScope = "all"
  OwnStatus = {}
  MaxTime = 0
INVARIANTS
  SyncTypeOK
  OutcomeWasDecided
PROPERTIES
  RemovedStaysRemoved
  NotStuckPending
