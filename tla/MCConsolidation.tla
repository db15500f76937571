-------------------------- MODULE MCConsolidation --------------------------
(***************************************************************************)
(* Instances of Consolidation for TLC.  Two rival objects on one subject   *)
(* and predicate, two turns by two senders in one session: the first turn  *)
(* speaks for "a", the second twice for "b"; o3 names a date to come.       *)
(***************************************************************************)
EXTENDS Consolidation, TLC

CONSTANTS m1, m2, o1, o2, o3, o4, alice, bob, s1, p1, a, b, e1, w1, w2

MCMessageOf == [o \in Observation |-> IF o = o1 THEN m1 ELSE m2]
MCAboutOf == [o \in Observation |-> IF o = o1 THEN {bob} ELSE {}]
MCSenderOf == m1 :> alice @@ m2 :> bob
MCSessionOf == m1 :> s1 @@ m2 :> s1
MCPairOf == [o \in Observation |-> p1]
MCObjectOf == [o \in Observation |-> IF o = o1 THEN a ELSE b]
MCAnchorOf == [o \in Observation |-> IF o = o3 THEN "ahead" ELSE "none"]
MCSubjectOf == p1 :> e1
MCClusterOf == [x \in Object |-> x]
MCObservedAt == [o \in Observation |-> IF o = o1 THEN 1
                                       ELSE IF o = o2 THEN 2 ELSE 3]
(* The stripes: each of the Entity's is that of a Fact too; or one is both. *)
MCFactStripe == [f \in Fact |-> IF f[2] = a THEN 1 ELSE IF f[2] = b THEN 2 ELSE 3]
MCNameStripe == [s \in Subject |-> 2]
MCNodeStripe == [s \in Subject |-> 1]
MCNodeStripeOwn == [s \in Subject |-> 2]
Workers == Permutations(Worker)
=============================================================================
