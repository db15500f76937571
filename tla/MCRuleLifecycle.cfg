\* Two rules, one of which nobody can run once it is registered, and two agents.
SPECIFICATION FairSpec
CONSTANTS
  a1 = a1
  a2 = a2
  r1 = r1
  r2 = r2
  None = None
  Agent = {a1, a2}
  Rule = {r1, r2}
  NameOf <- MCNameOf
  Poison = {"warn"}
  Full = 7
  Initial = 4
  Boost = 2
  Decay <- MCDecay
  DemoteBelow = 3
  PromoteFrom = 5
  PruneAfter = 2
  RunRulesInSweep = TRUE
  MinInterval = 2
  MaxFaults = 1
INVARIANTS
  ActiveIsRegistered
PROPERTIES
  MatchedIsNotDemoted
  NoDecayUnswept
  OnlyMatchingStaysActive
