SPECIFICATION Spec
CONSTANTS
  first = first
  second = second
  pid1 = pid1
  pid2 = pid2
  NONE = NONE
  Junk = Junk
  Cut = Cut
  Caller = {first, second}
  Job = {first, second}
  Pid = {pid1, pid2}
  First <- MCFirst
  Published <- MCPublished
  Release <- MCRelease
  Budget <- MCBudget
INVARIANTS
  WishKept
  NoDaemonLeft
  HalvesMatch
  ProgressIsReal
PROPERTIES
  NeverOlder
  UpdateTakesEffect
  CheckingEnds
CHECK_DEADLOCK FALSE
