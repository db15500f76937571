\* A sweep that overlaps a use.
SPECIFICATION Spec
CONSTANTS
  c1 = c1
  c2 = c2
  u1 = u1
  None = None
  Episode = {1, 2, 3}
  Recorder = {c1}
  User = {u1}
  ActionOf <- MCActionOf
  Succeeded = {1, 2, 3}
  MaxStamp = 2
  Window = 0
  Promote = 2
  DemoteBelow = 70
  ReinstateAt = 80
  Retries = FALSE
  MaxUses = 2
  MaxFaults = 0
PROPERTY DemotionIsNotUndone
CHECK_DEADLOCK FALSE
