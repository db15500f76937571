-------------------------- MODULE MCSessionSurface --------------------------
(* Both turns state the same observation, so the observation surface has a *)
(* row that is kept while the turn it first came from goes.                *)
EXTENDS SessionSurface, TLC

CONSTANTS f1, f2, a

MCSays == 1 :> a @@ 2 :> a
MCSymmetry == Permutations(Caller)
=============================================================================
