\* Rules are not run in sweeps, and decay all the same; rules are defined with
\* a confidence that promotes them at their first decay.
SPECIFICATION Spec
CONSTANTS
  a1 = a1
  a2 = a2
  r1 = r1
  r2 = r2
  None = None
  Agent = {a1, a2}
  Rule = {r1, r2}
  NameOf <- MCNameOf
  Poison = {"warn"}
  Full = 7
  Initial = 7
  Boost = 2
  Decay <- MCDecay
  DemoteBelow = 3
  PromoteFrom = 5
  PruneAfter = 2
  RunRulesInSweep = FALSE
  MinInterval = 2
  MaxFaults = 0
PROPERTIES
  NoDecayUnswept
