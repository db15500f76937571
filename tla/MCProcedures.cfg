\* Two tasks record three episodes with fresh ids.
SPECIFICATION FairSpec
CONSTANTS
  c1 = c1
  c2 = c2
  u1 = u1
  None = None
  Episode = {1, 2, 3}
  Recorder = {c1, c2}
  User = {u1}
  ActionOf <- MCActionOf
  Succeeded = {1, 2, 3}
  MaxStamp = 2
  Window = 0
  Promote = 2
  DemoteBelow = 60
  ReinstateAt = 70
  Retries = FALSE
  MaxUses = 1
  MaxFaults = 1
INVARIANTS
  ChainsRunForward
  ActiveHasRecurred
PROPERTIES
  RecurringIsLearnt
CHECK_DEADLOCK FALSE
