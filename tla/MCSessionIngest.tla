-------------------------- MODULE MCSessionIngest --------------------------
(***************************************************************************)
(* Instances of SessionIngest for TLC: a handle and a stream of one        *)
(* session, and an action that names an entity of its turns.  The stripe   *)
(* of bob's node key is also that of an entity and has the number of the   *)
(* session's setup stripe, and the entities' node keys share the stripe of *)
(* alice's.  The turn t4 reuses the message id of t1 for another content   *)
(* of another sender.                                                      *)
(***************************************************************************)
EXTENDS SessionIngest

CONSTANTS h, k, s1, d1, a1, alice, bob, e1, e2, t1, t2, t3, t4

MCSessionOf == [x \in Writer \cup Document |-> s1]
MCMessageId == t1 :> "m1" @@ t2 :> "m2" @@ t3 :> "m3" @@ t4 :> "m1"
MCSender == t1 :> alice @@ t2 :> bob @@ t3 :> alice @@ t4 :> bob
MCAddressedTo == [t \in Turn |-> IF t = t3 THEN {bob} ELSE {}]
MCMentions == t1 :> {e1} @@ t2 :> {} @@ t3 :> {e1, e2} @@ t4 :> {}
MCUnits == h :> {<<t1, t2>>, <<t3>>} @@ k :> {<<t1>>, <<t4>>}
MCSetupStripe == s1 :> 1 @@ alice :> 2 @@ bob :> 1
MCRmwStripe == alice :> 2 @@ bob :> 1 @@ e1 :> 1 @@ e2 :> 2
MCNodeStripe == e1 :> 2 @@ e2 :> 2
MCEntityOf == [l \in Linker |-> e1]
=============================================================================
