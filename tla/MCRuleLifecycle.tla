--------------------------- MODULE MCRuleLifecycle ---------------------------
EXTENDS RuleLifecycle, TLC
CONSTANTS a1, a2, r1, r2
MCNameOf == r1 :> "greet" @@ r2 :> "warn"
MCDecay == [c \in 0..7 |-> IF c = 0 THEN 0 ELSE c - 1]
MCSymmetry == Permutations(Agent)
=============================================================================
