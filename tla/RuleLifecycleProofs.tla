------------------------- MODULE RuleLifecycleProofs -------------------------
(***************************************************************************)
(* Proofs about RuleLifecycle, for any rules, agents, thresholds and       *)
(* intervals that its assumption allows, and for rules of distinct names,  *)
(* as AddRuleParams asks (lifecycle.rs:76).                                *)
(***************************************************************************)
EXTENDS RuleLifecycle, TLAPS

DistinctNames == NameOf \in [Rule -> {NameOf[r] : r \in Rule}]
                 /\ \A q, r \in Rule : NameOf[q] = NameOf[r] => q = r

(* A rule without its program is pruned or will be, and until then cannot  *)
(* match again.                                                            *)
RegisteredInv ==
  /\ defining \cap Nodes = {}
  /\ \A r \in defining : NameOf[r] \in runtime
  /\ \A r \in Nodes : \/ NameOf[r] \in runtime
                      \/ rule[r].status = "pruned" \/ Prunes(rule[r])
  /\ worker.at = "credit" => worker.current \in Rule /\ NameOf[worker.current] \in runtime
  /\ worker.at = "prune" => worker.current \in Rule /\ Prunes(rule[worker.current])
  /\ worker.at \in {"decay", "prune"} => worker.todo \subseteq Nodes

(* An active rule has the confidence for it, and one that has matched has  *)
(* enough for the decay to come.                                           *)
ConfidenceInv ==
  \A r \in Rule : rule[r].status = "active" =>
    /\ DemoteBelow <= rule[r].confidence
    /\ r \in matched => DemoteBelow <= Decay[rule[r].confidence]

(* While an active rule waits for its turn since the last decay, no agent  *)
(* has run the rules since then; so decay is not due before they run.      *)
Waiting == {r \in Rule : rule[r].status = "active"} \ swept
NoneRan == \A a \in Agent : sinceDecay <= since[a]
TurnInv ==
  /\ worker.at = "idle" => Waiting = {} \/ NoneRan
  /\ worker.at = "decide" => Waiting = {} \/ (NoneRan /\ sinceDecay < MinInterval)
  /\ worker.at \in {"run", "credit", "decayscan"} => Waiting = {}
  /\ worker.at = "run" => worker.todo \subseteq swept
  /\ worker.at = "credit" => worker.todo \subseteq swept /\ worker.current \in swept
  /\ worker.at \in {"decay", "prune"} => Waiting \cap worker.todo = {}
  /\ worker.at \in {"decayscan", "decay", "prune"} => sinceDecay = 0
-----------------------------------------------------------------------------
(* The two functions of confidence stay within their bounds.               *)
LEMMA RewardIsBounded ==
  ASSUME NEW s \in Node
  PROVE  /\ s.status # "none" => Rewarded(s) \in Node /\ Rewarded(s).status # "none"
         /\ Rewarded(s).confidence \in Confidence
PROOF
  <1>1. s.confidence \in 0..Full /\ s.status \in {"none", "candidate", "active", "demoted", "pruned"}
    BY DEF Node, Confidence
  <1>2. Boost \in Nat /\ Full \in Nat /\ PruneAfter \in Nat
    BY RuleLifecycleAssumption
  <1> QED
    BY <1>1, <1>2 DEF Rewarded, Node, Confidence

LEMMA DecayIsBounded ==
  ASSUME NEW s \in Node, NEW status \in {"none", "candidate", "active", "demoted", "pruned"}
  PROVE  /\ Decayed(s, status) \in Node
         /\ Decayed(s, status).status = status
         /\ Decayed(s, status).confidence = Decay[s.confidence]
         /\ Decayed(s, status).scored = s.scored
         /\ StatusAfter(s) \in {"none", "candidate", "active", "demoted", "pruned"}
PROOF
  <1>1. s.confidence \in Confidence /\ s.status \in {"none", "candidate", "active", "demoted", "pruned"}
        /\ s.scored \in (0..PruneAfter) \cup {None}
    BY DEF Node
  <1>2. Decay[s.confidence] \in Confidence
    BY <1>1, RuleLifecycleAssumption
  <1>3. StatusAfter(s) \in {"none", "candidate", "active", "demoted", "pruned"}
    BY <1>1 DEF StatusAfter
  <1>4. /\ Decayed(s, status) \in Node /\ Decayed(s, status).status = status
        /\ Decayed(s, status).confidence = Decay[s.confidence] /\ Decayed(s, status).scored = s.scored
    BY <1>2 DEF Node, Decayed
  <1> QED
    BY <1>3, <1>4

LEMMA AgeIsBounded ==
  ASSUME NEW s \in Node
  PROVE  /\ Older(s) \in Node /\ Older(s).status = s.status /\ Older(s).confidence = s.confidence
         /\ Prunes(s) => Prunes(Older(s))
PROOF
  <1>1. s.scored \in (0..PruneAfter) \cup {None} /\ PruneAfter \in Nat /\ None \notin Nat
    BY RuleLifecycleAssumption DEF Node
  <1>2. CASE s.scored = None \/ s.scored >= PruneAfter
    BY <1>2 DEF Older
  <1>3. CASE ~(s.scored = None \/ s.scored >= PruneAfter)
    <2>1. s.scored + 1 \in 0..PruneAfter
      BY <1>1, <1>3
    <2> QED
      BY <1>1, <1>3, <2>1 DEF Older, Node, Prunes, Stale
  <1> QED
    BY <1>2, <1>3

(* The worker and its updates keep their types.                            *)
LEMMA UpdateTypes ==
  ASSUME TypeOK, NEW r \in Rule,
         NEW status \in {"none", "candidate", "active", "demoted", "pruned"},
         Update(r, status), UNCHANGED <<runtime, defining, since, sinceDecay>>
  PROVE  TypeOK'
PROOF
  <1>1. CASE rule' = [rule EXCEPT ![r] = Decayed(@, status)] /\ UNCHANGED faults
             /\ worker' = [worker EXCEPT !.at = "decay", !.todo = @ \ {r}, !.current = None]
             /\ matched' = matched \ {r} /\ swept' = swept \ {r}
    <2>1. rule[r] \in Node
      BY DEF TypeOK
    <2>2. Decayed(rule[r], status) \in Node
      BY <2>1, DecayIsBounded
    <2>3. rule' \in [Rule -> Node]
      BY <1>1, <2>2 DEF TypeOK
    <2>4. worker' \in Worker
      BY <1>1 DEF TypeOK, Worker
    <2> QED
      BY <1>1, <2>3, <2>4 DEF TypeOK
  <1>2. CASE worker' = Idle /\ Fault /\ UNCHANGED <<rule, matched, swept>>
    BY <1>2, RuleLifecycleAssumption DEF TypeOK, Idle, Fault, Worker
  <1> QED
    BY <1>1, <1>2 DEF Update

LEMMA Types ==
  ASSUME TypeOK, [Next]_vars PROVE TypeOK'
PROOF
  <1>0. /\ MinInterval \in Nat /\ MinInterval > 0 /\ MaxFaults \in Nat /\ Initial \in Confidence
        /\ PruneAfter \in Nat
    BY RuleLifecycleAssumption
  <1>1. CASE UNCHANGED vars
    BY <1>1 DEF TypeOK, vars
  <1>2. ASSUME NEW r \in Rule, Register(r) PROVE TypeOK'
    BY <1>2 DEF TypeOK, Register
  <1>3. ASSUME NEW r \in Rule, Record(r) PROVE TypeOK'
    BY <1>0, <1>3 DEF TypeOK, Record, Node
  <1>4. ASSUME NEW a \in Agent, Sweep(a) PROVE TypeOK'
    <2>1. worker' \in Worker
      BY <1>4 DEF TypeOK, Sweep, Idle, Worker
    <2>2. since' \in [Agent -> 0..MinInterval]
      BY <1>0, <1>4 DEF TypeOK, Sweep
    <2> QED
      BY <1>4, <2>1, <2>2 DEF TypeOK, Sweep
  <1>5. CASE Scan
    <2>1. Runnable \subseteq Rule
      BY DEF Runnable
    <2>2. worker' \in Worker
      BY <1>5, <2>1 DEF TypeOK, Scan, Worker
    <2> QED
      BY <1>0, <1>5, <2>1, <2>2 DEF TypeOK, Scan, Fault
  <1>6. ASSUME NEW r \in Rule, Run(r) PROVE TypeOK'
    <2>1. worker' \in Worker
      BY <1>6 DEF TypeOK, Run, Worker
    <2> QED
      BY <1>0, <1>6, <2>1 DEF TypeOK, Run, Fault
  <1>7. CASE Credit
    <2>1. worker' \in Worker
      BY <1>7 DEF Credit, TypeOK, Worker
    <2>2. CASE Fault /\ UNCHANGED <<rule, matched>>
      BY <1>0, <1>7, <2>1, <2>2 DEF Credit, TypeOK, Fault
    <2>3. ASSUME NEW q \in Nodes, rule' = [rule EXCEPT ![q] = Rewarded(@)],
                 matched' = matched \cup {q}, UNCHANGED faults
          PROVE  TypeOK'
      <3>1. q \in Rule /\ rule[q] \in Node /\ rule[q].status # "none"
        BY DEF TypeOK, Nodes
      <3>2. Rewarded(rule[q]) \in Node
        BY <3>1, RewardIsBounded
      <3> QED
        BY <1>7, <2>1, <2>3, <3>1, <3>2 DEF Credit, TypeOK
    <2> QED
      BY <1>7, <2>2, <2>3 DEF Credit
  <1>8. CASE AllRun
    BY <1>8 DEF TypeOK, AllRun, Worker
  <1>9. CASE Decide
    BY <1>0, <1>9 DEF TypeOK, Decide, Idle, Worker
  <1>10. CASE DecayScan
    <2>1. Nodes \subseteq Rule
      BY DEF Nodes
    <2>2. Idle \in Worker /\ [worker EXCEPT !.at = "decay", !.todo = Nodes] \in Worker
      BY <2>1 DEF TypeOK, Idle, Worker
    <2>3. worker' \in Worker
      BY <1>10, <2>2 DEF DecayScan
    <2> QED
      BY <1>0, <1>10, <2>3 DEF TypeOK, DecayScan, Fault
  <1>11. ASSUME NEW r \in Rule, DecayRule(r) PROVE TypeOK'
    <2>1. StatusAfter(rule[r]) \in {"none", "candidate", "active", "demoted", "pruned"}
      BY DecayIsBounded DEF TypeOK
    <2> QED
      BY <1>11, <2>1, UpdateTypes DEF DecayRule
  <1>12. ASSUME NEW r \in Rule, Unregister(r) PROVE TypeOK'
    <2>1. worker' \in Worker
      BY <1>12 DEF TypeOK, Unregister, Worker
    <2>2. runtime' \subseteq {NameOf[q] : q \in Rule}
      BY <1>12 DEF TypeOK, Unregister
    <2>3. faults' \in 0..MaxFaults
      BY <1>0, <1>12 DEF TypeOK, Unregister, Fault
    <2> QED
      BY <1>12, <2>1, <2>2, <2>3 DEF TypeOK, Unregister
  <1>13. CASE Prune
    <2>1. CASE worker.current \in Rule
      BY <1>13, <2>1, UpdateTypes DEF Prune
    <2>2. CASE worker.current \notin Rule
      <3>1. rule' = rule \/ rule' = [rule EXCEPT ![worker.current] = Decayed(@, "pruned")]
        BY <1>13 DEF Prune, Update
      <3>2. rule' \in [Rule -> Node]
        BY <2>2, <3>1 DEF TypeOK
      <3>3. worker' \in Worker
        <4>1. Idle \in Worker
          BY DEF Idle, Worker
        <4>2. [worker EXCEPT !.at = "decay", !.todo = @ \ {worker.current}, !.current = None] \in Worker
          BY DEF TypeOK, Worker
        <4> QED
          BY <1>13, <4>1, <4>2 DEF Prune, Update
      <3>4. faults' \in 0..MaxFaults
        BY <1>0, <1>13 DEF TypeOK, Prune, Update, Fault
      <3>5. matched' \subseteq Rule /\ swept' \subseteq Rule
        BY <1>13 DEF TypeOK, Prune, Update
      <3> QED
        BY <1>13, <3>2, <3>3, <3>4, <3>5 DEF TypeOK, Prune
    <2> QED
      BY <2>1, <2>2
  <1>14. CASE AllDecayed
    BY <1>14 DEF TypeOK, AllDecayed, Idle, Worker
  <1>15. CASE Tick
    BY <1>0, <1>15 DEF TypeOK, Tick
  <1>16. CASE Day
    <2>1. \A r \in Rule : Older(rule[r]) \in Node
      BY AgeIsBounded DEF TypeOK
    <2> QED
      BY <1>0, <1>16, <2>1 DEF TypeOK, Day
  <1> QED
    BY <1>1, <1>2, <1>3, <1>4, <1>5, <1>6, <1>7, <1>8, <1>9, <1>10, <1>11, <1>12, <1>13, <1>14,
       <1>15, <1>16 DEF Next, Working

LEMMA InitTypes ==
  Init => TypeOK
PROOF
  BY RuleLifecycleAssumption DEF Init, TypeOK, NoNode, Idle, Node, Worker, Confidence

(* The state has its types throughout.                                     *)
THEOREM TypeCorrect ==
  Spec => []TypeOK
PROOF
  BY InitTypes, Types, PTL DEF Spec
-----------------------------------------------------------------------------
(* The program of a rule.                                                  *)

LEMMA UpdateRegisters ==
  ASSUME TypeOK, RegisteredInv, NEW r \in Nodes, NEW status,
         \/ status = "pruned"
         \/ ~Prunes(rule[r]) /\ status = StatusAfter(rule[r]),
         worker.at \in {"decay", "prune"}, Update(r, status), UNCHANGED <<runtime, defining>>
  PROVE  RegisteredInv'
PROOF
  <1>0. r \in Rule /\ rule[r] \in Node /\ rule[r].status # "none"
    BY DEF Nodes, TypeOK
  <1>1. CASE rule' = [rule EXCEPT ![r] = Decayed(@, status)]
             /\ worker' = [worker EXCEPT !.at = "decay", !.todo = @ \ {r}, !.current = None]
    <2>1. worker'.at = "decay" /\ worker'.todo = worker.todo \ {r}
      BY <1>1 DEF TypeOK, Worker
    <2>2. status \in {"candidate", "active", "demoted", "pruned"}
      BY <1>0 DEF StatusAfter, Node
    <2>3. rule'[r] = Decayed(rule[r], status) /\ \A q \in Rule \ {r} : rule'[q] = rule[q]
      BY <1>0, <1>1 DEF TypeOK
    <2>4. rule'[r].status = status
      BY <1>0, <2>2, <2>3, DecayIsBounded
    <2>5. Nodes' = Nodes
      BY <1>0, <2>2, <2>3, <2>4 DEF Nodes
    <2>6. status # "pruned" => NameOf[r] \in runtime \/ rule[r].status = "pruned"
      BY DEF RegisteredInv
    <2>7. rule[r].status = "pruned" => status = "pruned"
      BY <1>0 DEF StatusAfter
    <2>8. \A q \in Nodes' : \/ NameOf[q] \in runtime'
                            \/ rule'[q].status = "pruned" \/ Prunes(rule'[q])
      BY <2>3, <2>4, <2>5, <2>6, <2>7 DEF RegisteredInv, Nodes
    <2>9. worker.todo \subseteq Nodes
      BY DEF RegisteredInv
    <2>10. worker.todo \ {r} \subseteq Nodes'
      BY <2>5, <2>9
    <2> QED
      BY <2>1, <2>5, <2>8, <2>10 DEF RegisteredInv
  <1>2. CASE worker' = Idle /\ UNCHANGED rule
    BY <1>2 DEF RegisteredInv, Idle, Nodes
  <1> QED
    BY <1>1, <1>2 DEF Update

LEMMA Registered ==
  ASSUME TypeOK, RegisteredInv, DistinctNames, [Next]_vars PROVE RegisteredInv'
PROOF
  <1>1. CASE UNCHANGED vars
    BY <1>1 DEF RegisteredInv, Nodes, vars
  <1>2. ASSUME NEW r \in Rule, Register(r) PROVE RegisteredInv'
    BY <1>2 DEF RegisteredInv, Register, Nodes
  <1>3. ASSUME NEW r \in Rule, Record(r) PROVE RegisteredInv'
    <2>1. rule'[r].status = "candidate" /\ \A q \in Rule \ {r} : rule'[q] = rule[q]
      BY <1>3 DEF Record, TypeOK
    <2>2. Nodes' = Nodes \cup {r} /\ r \notin Nodes
      BY <1>3, <2>1 DEF Nodes, Record, RegisteredInv
    <2>3. worker.at = "prune" => worker.current \in Nodes
      BY DEF RegisteredInv, Prunes, Nodes
    <2> QED
      BY <1>3, <2>1, <2>2, <2>3 DEF RegisteredInv, Record, Nodes
  <1>4. ASSUME NEW a \in Agent, Sweep(a) PROVE RegisteredInv'
    <2>1. worker'.at \in {"decide", "scan"}
      BY <1>4 DEF Sweep, Idle
    <2> QED
      BY <1>4, <2>1 DEF Sweep, RegisteredInv, Nodes
  <1>5. CASE Scan
    <2>1. worker'.at \in {"decide", "run"}
      BY <1>5 DEF Scan, TypeOK, Worker
    <2> QED
      BY <1>5, <2>1 DEF Scan, RegisteredInv, Nodes
  <1>6. ASSUME NEW r \in Rule, Run(r) PROVE RegisteredInv'
    <2>1. \/ worker'.at = "run"
          \/ worker'.at = "credit" /\ worker'.current = r /\ NameOf[r] \in runtime
      BY <1>6 DEF Run, Answers, TypeOK, Worker
    <2> QED
      BY <1>6, <2>1 DEF Run, RegisteredInv, Nodes
  <1>7. CASE Credit
    <2>1. worker'.at = "run"
      BY <1>7 DEF Credit, TypeOK, Worker
    <2>2. CASE UNCHANGED rule
      BY <1>7, <2>1, <2>2 DEF Credit, RegisteredInv, Nodes
    <2>3. ASSUME NEW q \in Nodes, NameOf[q] = NameOf[worker.current],
                 rule' = [rule EXCEPT ![q] = Rewarded(@)]
          PROVE  RegisteredInv'
      <3>1. q \in Rule /\ rule[q] \in Node /\ rule[q].status # "none"
        BY DEF Nodes, TypeOK
      <3>2. rule'[q].status # "none" /\ \A p \in Rule \ {q} : rule'[p] = rule[p]
        BY <2>3, <3>1, RewardIsBounded DEF TypeOK
      <3>3. Nodes' = Nodes
        BY <3>1, <3>2 DEF Nodes
      <3>4. NameOf[q] \in runtime
        BY <1>7, <2>3 DEF RegisteredInv, Credit
      <3> QED
        BY <1>7, <2>1, <3>2, <3>3, <3>4 DEF Credit, RegisteredInv, Nodes
    <2> QED
      BY <1>7, <2>2, <2>3 DEF Credit
  <1>8. CASE AllRun
    <2>1. worker'.at = "decide"
      BY <1>8 DEF AllRun, TypeOK, Worker
    <2> QED
      BY <1>8, <2>1 DEF AllRun, RegisteredInv, Nodes
  <1>9. CASE Decide
    <2>1. worker'.at \in {"idle", "decayscan"}
      BY <1>9 DEF Decide, TypeOK, Worker, Idle
    <2> QED
      BY <1>9, <2>1 DEF Decide, RegisteredInv, Nodes
  <1>10. CASE DecayScan
    <2>1. CASE worker' = [worker EXCEPT !.at = "decay", !.todo = Nodes]
      <3>1. worker'.at = "decay" /\ worker'.todo = Nodes
        BY <2>1 DEF TypeOK, Worker
      <3> QED
        BY <1>10, <3>1 DEF DecayScan, RegisteredInv, Nodes
    <2>2. CASE worker' = Idle
      BY <1>10, <2>2 DEF DecayScan, RegisteredInv, Nodes, Idle
    <2> QED
      BY <1>10, <2>1, <2>2 DEF DecayScan
  <1>11. ASSUME NEW r \in Rule, DecayRule(r) PROVE RegisteredInv'
    <2>1. r \in Nodes
      BY <1>11 DEF DecayRule, RegisteredInv
    <2> QED
      BY <1>11, <2>1, UpdateRegisters DEF DecayRule
  <1>12. ASSUME NEW r \in Rule, Unregister(r) PROVE RegisteredInv'
    <2>1. r \in Nodes /\ r \notin defining
      BY <1>12 DEF Unregister, RegisteredInv
    <2>2. worker'.at = "prune" /\ worker'.current = r /\ worker'.todo = worker.todo
      BY <1>12 DEF Unregister, TypeOK, Worker
    <2>3. \A q \in Rule : q # r /\ NameOf[q] \in runtime => NameOf[q] \in runtime'
      BY <1>12 DEF Unregister, DistinctNames
    <2>4. \A q \in defining : NameOf[q] \in runtime'
      BY <2>1, <2>3 DEF RegisteredInv, TypeOK
    <2>5. \A q \in Nodes : \/ NameOf[q] \in runtime' \/ rule[q].status = "pruned" \/ Prunes(rule[q])
      BY <1>12, <2>3 DEF RegisteredInv, Unregister, Nodes
    <2> QED
      BY <1>12, <2>2, <2>4, <2>5 DEF Unregister, RegisteredInv, Nodes
  <1>13. CASE Prune
    <2>1. worker.current \in Nodes
      BY <1>13 DEF Prune, RegisteredInv, Prunes, Nodes
    <2> QED
      BY <1>13, <2>1, UpdateRegisters DEF Prune
  <1>14. CASE AllDecayed
    BY <1>14 DEF AllDecayed, Idle, RegisteredInv, Nodes
  <1>15. CASE Tick
    BY <1>15 DEF Tick, RegisteredInv, Nodes
  <1>16. CASE Day
    <2>1. \A r \in Rule : /\ rule'[r].status = rule[r].status
                          /\ Prunes(rule[r]) => Prunes(rule'[r])
      BY <1>16, AgeIsBounded DEF Day, TypeOK
    <2>2. Nodes' = Nodes
      BY <2>1 DEF Nodes
    <2> QED
      BY <1>16, <2>1, <2>2 DEF Day, RegisteredInv, Nodes
  <1> QED
    BY <1>1, <1>2, <1>3, <1>4, <1>5, <1>6, <1>7, <1>8, <1>9, <1>10, <1>11, <1>12, <1>13, <1>14,
       <1>15, <1>16 DEF Next, Working

LEMMA InitRegistered ==
  Init => RegisteredInv
PROOF
  BY DEF Init, RegisteredInv, NoNode, Idle, Nodes

(* A rule that every sweep runs has its program in the runtime, whatever   *)
(* fails between the two writes of define_rule and of a pruning.           *)
THEOREM ActiveHasItsProgram ==
  ASSUME DistinctNames PROVE Spec => []ActiveIsRegistered
PROOF
  <1>1. TypeOK /\ RegisteredInv /\ [Next]_vars => TypeOK' /\ RegisteredInv'
    BY Types, Registered
  <1>2. TypeOK /\ RegisteredInv => ActiveIsRegistered
    BY DEF RegisteredInv, ActiveIsRegistered, Nodes, Prunes
  <1> QED
    BY <1>1, <1>2, InitTypes, InitRegistered, PTL DEF Spec
-----------------------------------------------------------------------------
(* The confidence of a rule.                                               *)

(* One decay keeps what an active rule has, or ends its being active.      *)
LEMMA DecayKeepsOrDemotes ==
  ASSUME NEW s \in Node, StatusAfter(s) = "active"
  PROVE  DemoteBelow <= Decay[s.confidence]
PROOF
  <1>1. s.confidence \in Confidence /\ Decay[s.confidence] \in Nat
        /\ DemoteBelow \in Nat /\ PromoteFrom \in Nat /\ DemoteBelow <= PromoteFrom
    BY RuleLifecycleAssumption DEF Node, Confidence
  <1> QED
    BY <1>1 DEF StatusAfter

(* A match lifts an active rule above what one decay can take.             *)
LEMMA RewardLastsADecay ==
  ASSUME NEW s \in Node, s.status = "active" => DemoteBelow <= s.confidence,
         Rewarded(s).status = "active"
  PROVE  /\ DemoteBelow <= Rewarded(s).confidence
         /\ DemoteBelow <= Decay[Rewarded(s).confidence]
PROOF
  <1>1. s.confidence \in 0..Full /\ {Full, Boost, DemoteBelow, PromoteFrom} \subseteq Nat
        /\ DemoteBelow <= PromoteFrom /\ DemoteBelow + Boost <= Full
    BY RuleLifecycleAssumption DEF Node, Confidence
  <1> DEFINE c == Rewarded(s).confidence
  <1>2. c \in Confidence
    BY RewardIsBounded
  <1>3. c = IF s.confidence + Boost < Full THEN s.confidence + Boost ELSE Full
    BY DEF Rewarded
  <1>4. CASE s.status = "active"
    <2>1. DemoteBelow + Boost <= c /\ DemoteBelow + Boost \in Confidence
      BY <1>1, <1>3, <1>4 DEF Confidence
    <2>2. Decay[DemoteBelow + Boost] <= Decay[c]
      BY <1>2, <2>1, RuleLifecycleAssumption
    <2>3. DemoteBelow <= Decay[DemoteBelow + Boost]
          /\ Decay[DemoteBelow + Boost] \in Nat /\ Decay[c] \in Nat
      BY <1>2, <2>1, RuleLifecycleAssumption DEF Confidence
    <2>4. DemoteBelow <= c /\ DemoteBelow <= Decay[c]
      BY <1>1, <1>2, <2>1, <2>2, <2>3 DEF Confidence
    <2> QED
      BY <2>4
  <1>5. CASE s.status # "active"
    <2>1. PromoteFrom <= c
      BY <1>3, <1>5 DEF Rewarded
    <2>2. PromoteFrom \in Confidence
      BY RuleLifecycleAssumption
    <2>3. Decay[PromoteFrom] <= Decay[c]
      BY <1>2, <2>1, <2>2, RuleLifecycleAssumption
    <2>4. DemoteBelow <= Decay[PromoteFrom] /\ {Decay[PromoteFrom], Decay[c]} \subseteq Nat
      <3>1. DemoteBelow <= Decay[PromoteFrom] /\ {Decay[PromoteFrom], Decay[c]} \subseteq Confidence
        BY <1>2, <2>2, RuleLifecycleAssumption
      <3>2. Confidence \subseteq Nat
        BY DEF Confidence
      <3> QED
        BY <3>1, <3>2
    <2>5. DemoteBelow <= c /\ DemoteBelow <= Decay[c]
      BY <1>1, <1>2, <2>1, <2>3, <2>4 DEF Confidence
    <2> QED
      BY <2>5
  <1> QED
    BY <1>4, <1>5

LEMMA UpdateConfidence ==
  ASSUME TypeOK, ConfidenceInv, NEW r \in Rule, NEW status \in {"pruned", StatusAfter(rule[r])},
         Update(r, status)
  PROVE  ConfidenceInv'
PROOF
  <1>0. rule[r] \in Node
    BY DEF TypeOK
  <1>1. CASE rule' = [rule EXCEPT ![r] = Decayed(@, status)] /\ matched' = matched \ {r}
    <2>1. rule'[r] = Decayed(rule[r], status) /\ \A q \in Rule \ {r} : rule'[q] = rule[q]
      BY <1>1 DEF TypeOK
    <2>2. status \in {"none", "candidate", "active", "demoted", "pruned"}
      BY <1>0, DecayIsBounded
    <2>3. rule'[r].status = status /\ rule'[r].confidence = Decay[rule[r].confidence]
      BY <1>0, <2>1, <2>2, DecayIsBounded
    <2>4. status = "active" => DemoteBelow <= rule'[r].confidence
      BY <1>0, <2>3, DecayKeepsOrDemotes
    <2> QED
      BY <1>1, <2>1, <2>3, <2>4 DEF ConfidenceInv
  <1>2. CASE UNCHANGED <<rule, matched>>
    BY <1>2 DEF ConfidenceInv
  <1> QED
    BY <1>1, <1>2 DEF Update

LEMMA Confident ==
  ASSUME TypeOK, RegisteredInv, ConfidenceInv, [Next]_vars PROVE ConfidenceInv'
PROOF
  <1>1. CASE UNCHANGED <<rule, matched>>
    BY <1>1 DEF ConfidenceInv
  <1>2. ASSUME NEW r \in Rule, Record(r) PROVE ConfidenceInv'
    BY <1>2 DEF Record, ConfidenceInv, TypeOK
  <1>3. CASE Credit
    <2>1. ASSUME NEW q \in Nodes, rule' = [rule EXCEPT ![q] = Rewarded(@)],
                 matched' = matched \cup {q}
          PROVE  ConfidenceInv'
      <3>1. q \in Rule /\ rule[q] \in Node
        BY DEF Nodes, TypeOK
      <3>2. rule'[q] = Rewarded(rule[q]) /\ \A p \in Rule \ {q} : rule'[p] = rule[p]
        BY <2>1, <3>1 DEF TypeOK
      <3>3. rule'[q].status = "active" => /\ DemoteBelow <= rule'[q].confidence
                                          /\ DemoteBelow <= Decay[rule'[q].confidence]
        BY <3>1, <3>2, RewardLastsADecay DEF ConfidenceInv
      <3> QED
        BY <2>1, <3>2, <3>3 DEF ConfidenceInv
    <2> QED
      BY <1>1, <1>3, <2>1 DEF Credit
  <1>4. ASSUME NEW r \in Rule, DecayRule(r) PROVE ConfidenceInv'
    BY <1>4, UpdateConfidence DEF DecayRule
  <1>5. CASE Prune
    BY <1>5, UpdateConfidence DEF Prune, RegisteredInv
  <1>6. CASE Day
    <2>1. \A r \in Rule : /\ rule'[r].status = rule[r].status
                          /\ rule'[r].confidence = rule[r].confidence
      BY <1>6, AgeIsBounded DEF Day, TypeOK
    <2> QED
      BY <1>6, <2>1 DEF Day, ConfidenceInv
  <1>7. ASSUME NEW r \in Rule, Register(r) \/ Run(r) \/ Unregister(r) PROVE ConfidenceInv'
    BY <1>1, <1>7 DEF Register, Run, Unregister
  <1>8. ASSUME NEW a \in Agent, Sweep(a) PROVE ConfidenceInv'
    BY <1>1, <1>8 DEF Sweep
  <1>9. CASE Scan \/ AllRun \/ Decide \/ DecayScan \/ AllDecayed \/ Tick
    BY <1>1, <1>9 DEF Scan, AllRun, Decide, DecayScan, AllDecayed, Tick
  <1>10. CASE UNCHANGED vars
    BY <1>1, <1>10 DEF vars
  <1> QED
    BY <1>2, <1>3, <1>4, <1>5, <1>6, <1>7, <1>8, <1>9, <1>10 DEF Next, Working

(* A step that demotes a rule is its decay, and finds too little left.     *)
LEMMA DemotionsAreDecays ==
  ASSUME TypeOK, RegisteredInv, ConfidenceInv, [Next]_vars, NEW r \in Rule, Demotes(r)
  PROVE  r \notin matched
PROOF
  <1>0. rule'[r] # rule[r] /\ rule[r].status = "active" /\ rule'[r].status = "demoted"
        /\ rule[r] \in Node
    BY DEF Demotes, TypeOK
  <1>1. CASE DecayRule(r)
    <2>1. rule'[r] = Decayed(rule[r], StatusAfter(rule[r]))
      BY <1>0, <1>1 DEF DecayRule, Update, TypeOK
    <2>2. StatusAfter(rule[r]) = "demoted"
      BY <1>0, <2>1, DecayIsBounded
    <2>3. Decay[rule[r].confidence] < DemoteBelow
      BY <1>0, <2>2 DEF StatusAfter
    <2>4. Decay[rule[r].confidence] \in Nat /\ DemoteBelow \in Nat
      BY <1>0, RuleLifecycleAssumption DEF Node, Confidence
    <2> QED
      BY <1>0, <2>3, <2>4 DEF ConfidenceInv
  <1>2. ASSUME NEW q \in Rule, DecayRule(q), q # r PROVE FALSE
    BY <1>0, <1>2 DEF DecayRule, Update, TypeOK
  <1>3. CASE Prune
    <2>1. worker.current \in Rule /\ worker.current # r
      BY <1>0, <1>3 DEF Prune, RegisteredInv, Prunes
    <2> QED
      BY <1>0, <1>3, <2>1 DEF Prune, Update, TypeOK
  <1>4. CASE Credit
    <2>1. PICK q \in Nodes : rule' = [rule EXCEPT ![q] = Rewarded(@)]
      BY <1>0, <1>4 DEF Credit
    <2>2. rule'[r] = Rewarded(rule[r])
      BY <1>0, <2>1 DEF TypeOK, Nodes
    <2> QED
      BY <1>0, <2>2 DEF Rewarded
  <1>5. ASSUME NEW q \in Rule, Record(q) PROVE FALSE
    BY <1>0, <1>5 DEF Record, TypeOK
  <1>6. CASE Day
    BY <1>0, <1>6, AgeIsBounded DEF Day
  <1>7. CASE ~UNCHANGED rule
    BY <1>1, <1>2, <1>3, <1>4, <1>5, <1>6, <1>7
    DEF Next, Working, vars, Register, Sweep, Scan, Run, AllRun, Decide, DecayScan, Unregister,
        AllDecayed, Tick
  <1> QED
    BY <1>0, <1>7

LEMMA InitConfident ==
  Init => ConfidenceInv
PROOF
  BY DEF Init, ConfidenceInv, NoNode

(* A match protects from the next decay pass, whatever the thresholds.     *)
THEOREM MatchProtects ==
  ASSUME DistinctNames PROVE Spec => MatchedIsNotDemoted
PROOF
  <1> DEFINE IInv == TypeOK /\ RegisteredInv /\ ConfidenceInv
  <1>1. Init => IInv
    BY InitTypes, InitRegistered, InitConfident
  <1>2. IInv /\ [Next]_vars => IInv'
    BY Types, Registered, Confident
  <1>3. IInv /\ [Next]_vars => [\A r \in Rule : Demotes(r) => r \notin matched]_vars
    BY DemotionsAreDecays
  <1> QED
    BY <1>1, <1>2, <1>3, PTL DEF Spec, MatchedIsNotDemoted
-----------------------------------------------------------------------------
(* Whose turn it is.                                                       *)

LEMMA UpdateTurns ==
  ASSUME TypeOK, TurnInv, NEW r \in Rule, NEW status, worker.at \in {"decay", "prune"},
         Update(r, status), UNCHANGED <<since, sinceDecay>>
  PROVE  TurnInv'
PROOF
  <1>0. sinceDecay = 0 /\ NoneRan'
    BY DEF TurnInv, NoneRan, TypeOK
  <1>1. CASE /\ rule' = [rule EXCEPT ![r] = Decayed(@, status)] /\ swept' = swept \ {r}
             /\ worker' = [worker EXCEPT !.at = "decay", !.todo = @ \ {r}, !.current = None]
    <2>1. worker'.at = "decay" /\ worker'.todo = worker.todo \ {r}
      BY <1>1 DEF TypeOK, Worker
    <2>2. Waiting' \subseteq Waiting \cup {r}
      BY <1>1 DEF Waiting, TypeOK
    <2> QED
      BY <1>0, <2>1, <2>2 DEF TurnInv
  <1>2. CASE worker' = Idle
    BY <1>0, <1>2 DEF TurnInv, Idle
  <1> QED
    BY <1>1, <1>2 DEF Update

LEMMA Turns ==
  ASSUME TypeOK, RegisteredInv, TurnInv, DistinctNames, RunRulesInSweep, [Next]_vars
  PROVE  TurnInv'
PROOF
  <1>0. MinInterval \in Nat /\ MinInterval > 0 /\ sinceDecay \in 0..MinInterval
        /\ since \in [Agent -> 0..MinInterval]
    BY RuleLifecycleAssumption DEF TypeOK
  <1>1. CASE UNCHANGED vars
    BY <1>1 DEF TurnInv, Waiting, NoneRan, vars
  <1>2. ASSUME NEW r \in Rule, Register(r) PROVE TurnInv'
    BY <1>2 DEF TurnInv, Waiting, NoneRan, Register
  <1>3. ASSUME NEW r \in Rule, Record(r) PROVE TurnInv'
    <2>1. Waiting' \subseteq Waiting
      BY <1>3 DEF Record, Waiting, TypeOK
    <2> QED
      BY <1>3, <2>1 DEF Record, TurnInv, NoneRan
  <1>4. ASSUME NEW a \in Agent, Sweep(a) PROVE TurnInv'
    <2>1. CASE since[a] < MinInterval
      <3>1. worker'.at = "decide" /\ Waiting' = Waiting /\ UNCHANGED <<since, sinceDecay>>
        BY <1>4, <2>1 DEF Sweep, Idle, Waiting
      <3>2. NoneRan => sinceDecay < MinInterval
        BY <1>0, <2>1 DEF NoneRan
      <3>3. (Waiting = {} \/ NoneRan) /\ NoneRan' = NoneRan
        BY <1>4, <3>1 DEF TurnInv, NoneRan, Sweep
      <3>4. Waiting' = {} \/ (NoneRan' /\ sinceDecay' < MinInterval)
        BY <3>1, <3>2, <3>3
      <3> QED
        BY <3>1, <3>4 DEF TurnInv
    <2>2. CASE ~(since[a] < MinInterval)
      <3>1. worker'.at = "scan"
        BY <1>4, <2>2 DEF Sweep, Idle
      <3> QED
        BY <3>1 DEF TurnInv
    <2> QED
      BY <2>1, <2>2
  <1>5. CASE Scan
    <2>1. Waiting' = {}
      BY <1>5 DEF Scan, Waiting, Runnable
    <2>2. worker'.at = "decide" \/ (worker'.at = "run" /\ worker'.todo = Runnable)
      <3>1. CASE worker' = [worker EXCEPT !.at = "run", !.todo = Runnable]
        BY <3>1 DEF TypeOK, Worker
      <3>2. CASE worker' = [worker EXCEPT !.at = "decide"]
        <4>1. worker'.at = "decide"
          BY <3>2 DEF TypeOK, Worker
        <4> QED
          BY <4>1
      <3> QED
        BY <1>5, <3>1, <3>2 DEF Scan
    <2>3. Runnable \subseteq swept'
      BY <1>5 DEF Scan
    <2>4. worker'.at = "run" => worker'.todo \subseteq swept'
      BY <2>2, <2>3
    <2> QED
      BY <2>1, <2>2, <2>4 DEF TurnInv
  <1>6. ASSUME NEW r \in Rule, Run(r) PROVE TurnInv'
    <2>1. /\ worker'.at \in {"run", "credit"} /\ worker'.todo \subseteq worker.todo
          /\ worker'.at = "credit" => worker'.current = r
      BY <1>6 DEF Run, TypeOK, Worker
    <2> QED
      BY <1>6, <2>1 DEF Run, TurnInv, Waiting
  <1>7. CASE Credit
    <2>1. worker'.at = "run" /\ worker'.todo = worker.todo
      BY <1>7 DEF Credit, TypeOK, Worker
    <2>2. CASE UNCHANGED rule
      BY <1>7, <2>1, <2>2 DEF Credit, TurnInv, Waiting
    <2>3. ASSUME NEW q \in Nodes, NameOf[q] = NameOf[worker.current],
                 rule' = [rule EXCEPT ![q] = Rewarded(@)]
          PROVE  TurnInv'
      <3>1. q = worker.current
        BY <1>7, <2>3 DEF DistinctNames, Nodes, Credit, RegisteredInv
      <3>2. Waiting' \subseteq Waiting \cup ({q} \ swept)
        BY <1>7, <2>3 DEF Waiting, Credit, TypeOK
      <3> QED
        BY <1>7, <2>1, <3>1, <3>2 DEF Credit, TurnInv
    <2> QED
      BY <1>7, <2>2, <2>3 DEF Credit
  <1>8. CASE AllRun
    <2>1. worker'.at = "decide"
      BY <1>8 DEF AllRun, TypeOK, Worker
    <2>2. Waiting = {} /\ Waiting' = Waiting
      BY <1>8 DEF AllRun, TurnInv, Waiting
    <2> QED
      BY <2>1, <2>2 DEF TurnInv
  <1>9. CASE Decide
    <2>1. CASE sinceDecay < MinInterval
      <3>1. worker'.at = "idle" /\ Waiting' = Waiting /\ UNCHANGED <<since, sinceDecay>>
        BY <1>9, <2>1 DEF Decide, Idle, Waiting
      <3> QED
        BY <1>9, <3>1 DEF TurnInv, NoneRan, Decide
    <2>2. CASE ~(sinceDecay < MinInterval)
      <3>1. worker'.at = "decayscan" /\ Waiting' = Waiting /\ sinceDecay' = 0
        BY <1>9, <2>2 DEF Decide, TypeOK, Worker, Waiting
      <3> QED
        BY <1>9, <2>2, <3>1 DEF TurnInv, Decide
    <2> QED
      BY <2>1, <2>2
  <1>10. CASE DecayScan
    <2>1. Waiting = {} /\ Waiting' = Waiting /\ sinceDecay' = 0
      BY <1>10 DEF DecayScan, TurnInv, Waiting
    <2>2. worker'.at \in {"idle", "decay"}
      <3>1. CASE worker' = [worker EXCEPT !.at = "decay", !.todo = Nodes]
        BY <3>1 DEF TypeOK, Worker
      <3> QED
        BY <1>10, <3>1 DEF DecayScan, Idle
    <2> QED
      BY <2>1, <2>2 DEF TurnInv
  <1>11. ASSUME NEW r \in Rule, DecayRule(r) PROVE TurnInv'
    BY <1>11, UpdateTurns DEF DecayRule
  <1>12. ASSUME NEW r \in Rule, Unregister(r) PROVE TurnInv'
    <2>1. worker'.at = "prune" /\ worker'.todo = worker.todo
      BY <1>12 DEF Unregister, TypeOK, Worker
    <2> QED
      BY <1>12, <2>1 DEF Unregister, TurnInv, Waiting
  <1>13. CASE Prune
    BY <1>13, UpdateTurns DEF Prune, RegisteredInv
  <1>14. CASE AllDecayed
    <2>1. worker'.at = "idle" /\ NoneRan'
      BY <1>0, <1>14 DEF AllDecayed, Idle, TurnInv, NoneRan
    <2> QED
      BY <2>1 DEF TurnInv
  <1>15. CASE Tick
    <2>1. NoneRan => NoneRan'
      BY <1>0, <1>15 DEF Tick, NoneRan
    <2> QED
      BY <1>15, <2>1 DEF Tick, TurnInv, Waiting
  <1>16. CASE Day
    <2>1. NoneRan'
      BY <1>0, <1>16 DEF Day, NoneRan
    <2> QED
      BY <1>16, <2>1 DEF Day, TurnInv
  <1> QED
    BY <1>1, <1>2, <1>3, <1>4, <1>5, <1>6, <1>7, <1>8, <1>9, <1>10, <1>11, <1>12, <1>13, <1>14,
       <1>15, <1>16 DEF Next, Working

(* An active rule whose confidence falls is one whose turn has come.       *)
LEMMA FallsInTurn ==
  ASSUME TypeOK, RegisteredInv, TurnInv, [Next]_vars,
         NEW r \in Rule, rule[r].status = "active", Decays(r)
  PROVE  r \in swept
PROOF
  <1>0. rule'[r].confidence # rule[r].confidence /\ r \notin matched' /\ rule[r] \in Node
    BY DEF Decays, TypeOK
  <1>1. CASE DecayRule(r)
    BY <1>1 DEF DecayRule, TurnInv, Waiting
  <1>2. ASSUME NEW q \in Rule, DecayRule(q), q # r PROVE FALSE
    BY <1>0, <1>2 DEF DecayRule, Update, TypeOK
  <1>3. CASE Prune
    <2>1. worker.current \in Rule /\ worker.current # r
      BY <1>3 DEF Prune, RegisteredInv, Prunes
    <2> QED
      BY <1>0, <1>3, <2>1 DEF Prune, Update, TypeOK
  <1>4. CASE Credit
    <2>1. PICK q \in Nodes : rule' = [rule EXCEPT ![q] = Rewarded(@)] /\ matched' = matched \cup {q}
      BY <1>0, <1>4 DEF Credit
    <2>2. q # r
      BY <1>0, <2>1
    <2> QED
      BY <1>0, <2>1, <2>2 DEF TypeOK, Nodes
  <1>5. ASSUME NEW q \in Rule, Record(q) PROVE FALSE
    <2>1. q # r
      BY <1>5 DEF Record, RegisteredInv, Nodes
    <2> QED
      BY <1>0, <1>5, <2>1 DEF Record, TypeOK
  <1>6. CASE Day
    BY <1>0, <1>6, AgeIsBounded DEF Day
  <1>7. CASE ~UNCHANGED rule
    BY <1>1, <1>2, <1>3, <1>4, <1>5, <1>6, <1>7
    DEF Next, Working, vars, Register, Sweep, Scan, Run, AllRun, Decide, DecayScan, Unregister,
        AllDecayed, Tick
  <1> QED
    BY <1>0, <1>7

LEMMA InitTurns ==
  Init => TurnInv
PROOF
  BY RuleLifecycleAssumption DEF Init, TurnInv, NoneRan, Waiting, NoNode, Idle

(* While rules are run in sweeps, the two throttles never let an active    *)
(* rule decay twice without its turn in between.                           *)
THEOREM DecayWaitsForATurn ==
  ASSUME DistinctNames, RunRulesInSweep PROVE Spec => NoDecayUnswept
PROOF
  <1> DEFINE IInv == TypeOK /\ RegisteredInv /\ TurnInv
  <1>1. Init => IInv
    BY InitTypes, InitRegistered, InitTurns
  <1>2. IInv /\ [Next]_vars => IInv'
    BY Types, Registered, Turns
  <1>3. IInv /\ [Next]_vars
        => [\A r \in Rule : rule[r].status = "active" /\ Decays(r) => r \in swept]_vars
    BY FallsInTurn
  <1> QED
    BY <1>1, <1>2, <1>3, PTL DEF Spec, NoDecayUnswept
=============================================================================
