SPECIFICATION Spec
CONSTANTS
  Self = Self
  Other = Other
  Addr = {1, 2}
  Default = 1
  NONE = NONE
  Ttl = 3
  Slack = 1
  MaxQueue = 2
INVARIANTS
  SteadyStaysListed
  CallGetsThrough
PROPERTIES
  ShownIsListed
  GoneIsDropped
