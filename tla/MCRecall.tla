------------------------------ MODULE MCRecall ------------------------------
(* Two turns of two sessions that state one belief.                        *)
EXTENDS Recall, TLC

CONSTANTS t1, t2, s1, s2, b1

MCSessionOf == t1 :> s1 @@ t2 :> s2
MCSwap == {[x \in {t1, t2, s1, s2} |-> x], t1 :> t2 @@ t2 :> t1 @@ s1 :> s2 @@ s2 :> s1}
MCScopes == {{}, {s1}, {s2}}
MCSays == [t \in Turns |-> b1]
=============================================================================
