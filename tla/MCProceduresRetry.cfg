\* An episode that its caller records again after failures.
SPECIFICATION Spec
CONSTANTS
  c1 = c1
  c2 = c2
  u1 = u1
  None = None
  Episode = {1}
  Recorder = {c1}
  User = {u1}
  ActionOf <- MCActionOf
  Succeeded = {1}
  MaxStamp = 2
  Window = 1
  Promote = 2
  DemoteBelow = 60
  ReinstateAt = 70
  Retries = TRUE
  MaxUses = 0
  MaxFaults = 2
INVARIANT ActiveHasRecurred
CHECK_DEADLOCK FALSE
