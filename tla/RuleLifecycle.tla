---------------------------- MODULE RuleLifecycle ----------------------------
(***************************************************************************)
(* The confidence of authored Locy rules: how the cortex sweep of the      *)
(* consolidation worker runs them, rewards those that match, decays all of *)
(* them, and demotes and prunes on the way.                                *)
(*                                                                         *)
(* A rule lives twice, as a Rule node of the graph and as a program in the *)
(* runtime of uni-db, which are written one after the other; every await   *)
(* may fail.  Execution is throttled for each agent, decay for all of them *)
(* together.  Only the worker changes a node once it exists, so a lookup   *)
(* and the update that follows it are one step.  The four rules of the     *)
(* standard library have a fixed confidence and are left out, and so is    *)
(* missed_cycles, which no code reads.                                     *)
(***************************************************************************)
EXTENDS Integers, FiniteSets

CONSTANTS
  Agent,        \* agents whose cycles trigger a sweep
  Rule,         \* rule ids that define_rule gives
  NameOf,       \* the name of each rule
  Poison,       \* names whose program asks for a parameter nobody binds
  Full,         \* confidence 1.0
  Initial,      \* confidence of a rule just defined
  Boost,        \* reward of a match
  Decay,        \* confidence after a decay pass, for each confidence
  DemoteBelow,  \* demote_threshold
  PromoteFrom,  \* repromote_threshold
  PruneAfter,   \* prune_after_days
  RunRulesInSweep, \* run_rules_in_sweep
  MinInterval,  \* cortex_min_interval, in ticks
  MaxFaults,    \* bound on awaits that fail
  None

Confidence == 0..Full

(* With the defaults in thousandths: 0.95 of 400 + 50 is 427.              *)
ASSUME RuleLifecycleAssumption ==
  /\ {Full, Initial, Boost, DemoteBelow, PromoteFrom, PruneAfter, MinInterval, MaxFaults} \subseteq Nat
  /\ Initial \in Confidence /\ DemoteBelow <= PromoteFrom /\ MinInterval > 0 /\ PruneAfter > 0
  /\ DemoteBelow + Boost <= Full
  /\ Decay \in [Confidence -> Confidence]
  /\ \A c, d \in Confidence : c <= d => Decay[c] <= Decay[d]
  /\ DemoteBelow <= Decay[DemoteBelow + Boost]
  /\ PromoteFrom \in Confidence /\ DemoteBelow <= Decay[PromoteFrom]
  /\ RunRulesInSweep \in BOOLEAN /\ None \notin Nat

VARIABLES
  rule,       \* the Rule nodes
  runtime,    \* names registered in uni-db
  defining,   \* rules whose program is registered and whose node is not there yet
  worker,     \* the sweep the worker is in
  since,      \* ticks since each agent's rules were run
  sinceDecay, \* ticks since the last decay pass
  faults,     \* awaits that failed
  matched,    \* history: rules rewarded since their last decay
  swept       \* history: rules whose turn to be run came since their last decay

vars == <<rule, runtime, defining, worker, since, sinceDecay, faults, matched, swept>>

NoNode == [status |-> "none", confidence |-> 0, scored |-> None]
Idle == [at |-> "idle", agent |-> None, todo |-> {}, current |-> None]

Init ==
  /\ rule = [r \in Rule |-> NoNode] /\ runtime = {} /\ defining = {}
  /\ worker = Idle
  /\ since = [a \in Agent |-> MinInterval] /\ sinceDecay = MinInterval
  /\ faults = 0 /\ matched = {} /\ swept = {}

Nodes == {r \in Rule : rule[r].status # "none"}
Fault == faults < MaxFaults /\ faults' = faults + 1
-----------------------------------------------------------------------------
(* define_rule: the program first, then the node; a failure in between     *)
(* leaves the program.                                                     *)
Register(r) ==
  /\ r \notin Nodes \cup defining
  /\ runtime' = runtime \cup {NameOf[r]} /\ defining' = defining \cup {r}
  /\ UNCHANGED <<rule, worker, since, sinceDecay, faults, matched, swept>>

Record(r) ==
  /\ r \in defining
  /\ defining' = defining \ {r}
  /\ rule' = [rule EXCEPT ![r] = [status |-> "candidate", confidence |-> Initial, scored |-> None]]
  /\ UNCHANGED <<runtime, worker, since, sinceDecay, faults, matched, swept>>
-----------------------------------------------------------------------------
(* The cortex sweep of an agent's n-th cycle: execution, unless it is      *)
(* switched off or the agent's rules have just been run, then decay,       *)
(* unless that has.                                                        *)
Sweep(a) ==
  /\ worker.at = "idle"
  /\ IF ~RunRulesInSweep \/ since[a] < MinInterval
     THEN /\ worker' = [Idle EXCEPT !.at = "decide", !.agent = a] /\ UNCHANGED since
     ELSE /\ worker' = [Idle EXCEPT !.at = "scan", !.agent = a]
          /\ since' = [since EXCEPT ![a] = 0]
  /\ UNCHANGED <<rule, runtime, defining, sinceDecay, faults, matched, swept>>

(* run_active_rules: those that are active, and candidates.                *)
Runnable == {r \in Rule : rule[r].status \in {"active", "candidate"}}
Scan ==
  /\ worker.at = "scan"
  /\ swept' = swept \cup Runnable
  /\ \/ worker' = [worker EXCEPT !.at = "run", !.todo = Runnable] /\ UNCHANGED faults
     \/ worker' = [worker EXCEPT !.at = "decide"] /\ Fault
  /\ UNCHANGED <<rule, runtime, defining, since, sinceDecay, matched>>

(* query_rule fails when the rule is not registered, or when any program   *)
(* that is asks for what is not bound; a failure is logged and skipped, as *)
(* is a rule that matches nothing.                                         *)
Answers(r) == NameOf[r] \in runtime /\ runtime \cap Poison = {}
Run(r) ==
  /\ worker.at = "run" /\ r \in worker.todo
  /\ \/ /\ Answers(r)
        /\ worker' = [worker EXCEPT !.at = "credit", !.todo = @ \ {r}, !.current = r]
        /\ UNCHANGED faults
     \/ /\ worker' = [worker EXCEPT !.todo = @ \ {r}]
        /\ UNCHANGED faults \/ Fault
  /\ UNCHANGED <<rule, runtime, defining, since, sinceDecay, matched, swept>>

(* Mutant: no cap.                                                         *)
RewardedUncapped(s) ==
  [status |-> IF s.status # "active" /\ s.confidence + Boost >= PromoteFrom THEN "active" ELSE s.status,
   confidence |-> s.confidence + Boost, scored |-> 0]

(* Mutant: any match promotes.                                             *)
RewardedActive(s) ==
  [status |-> "active", scored |-> 0,
   confidence |-> IF s.confidence + Boost < Full THEN s.confidence + Boost ELSE Full]

Rewarded(s) ==
  LET c == IF s.confidence + Boost < Full THEN s.confidence + Boost ELSE Full
  IN  [status |-> IF s.status \in {"candidate", "demoted"} /\ c >= PromoteFrom
                  THEN "active" ELSE s.status,
       confidence |-> c, scored |-> 0]

(* record_rule_match: a node with the name of the rule that matched.       *)
Credit ==
  /\ worker.at = "credit"
  /\ worker' = [worker EXCEPT !.at = "run", !.current = None]
  /\ \/ \E q \in Nodes :
          /\ NameOf[q] = NameOf[worker.current]
          /\ rule' = [rule EXCEPT ![q] = Rewarded(@)]
          /\ matched' = matched \cup {q}
          /\ UNCHANGED faults
     \/ Fault /\ UNCHANGED <<rule, matched>>
  /\ UNCHANGED <<runtime, defining, since, sinceDecay, swept>>

AllRun ==
  /\ worker.at = "run" /\ worker.todo = {}
  /\ worker' = [worker EXCEPT !.at = "decide"]
  /\ UNCHANGED <<rule, runtime, defining, since, sinceDecay, faults, matched, swept>>

(* Mutant: decay with the throttle of the agent.                           *)
DecideByAgent ==
  /\ worker.at = "decide"
  /\ worker' = [worker EXCEPT !.at = "decayscan"] /\ sinceDecay' = 0
  /\ UNCHANGED <<rule, runtime, defining, since, faults, matched, swept>>

(* run_rule_decay_sweep                                                    *)
Decide ==
  /\ worker.at = "decide"
  /\ IF sinceDecay < MinInterval
     THEN worker' = Idle /\ UNCHANGED sinceDecay
     ELSE worker' = [worker EXCEPT !.at = "decayscan"] /\ sinceDecay' = 0
  /\ UNCHANGED <<rule, runtime, defining, since, faults, matched, swept>>

DecayScan ==
  /\ worker.at = "decayscan"
  /\ \/ worker' = [worker EXCEPT !.at = "decay", !.todo = Nodes] /\ UNCHANGED faults
     \/ worker' = Idle /\ Fault
  /\ UNCHANGED <<rule, runtime, defining, since, sinceDecay, matched, swept>>
-----------------------------------------------------------------------------
(* apply_decay_cycle, one rule after the other.                            *)
Stale(s) == s.scored # None /\ s.scored >= PruneAfter
PrunesAny(s) == Stale(s) \* mutant: whatever its status
Prunes(s) == s.status \in {"demoted", "candidate"} /\ Stale(s)

StatusAfter(s) ==
  CASE s.status = "active" /\ Decay[s.confidence] < DemoteBelow -> "demoted"
    [] s.status \in {"demoted", "candidate"} /\ Decay[s.confidence] >= PromoteFrom -> "active"
    [] OTHER -> s.status

DecayedIdle(s, status) == \* mutant: active rules keep theirs
  [s EXCEPT !.confidence = IF status = "active" THEN @ ELSE Decay[@], !.status = status]
Decayed(s, status) == [s EXCEPT !.confidence = Decay[@], !.status = status]

(* What update_node writes; when it fails, so does the pass.               *)
Update(r, status) ==
  \/ /\ rule' = [rule EXCEPT ![r] = Decayed(@, status)]
     /\ worker' = [worker EXCEPT !.at = "decay", !.todo = @ \ {r}, !.current = None]
     /\ matched' = matched \ {r} /\ swept' = swept \ {r}
     /\ UNCHANGED faults
  \/ worker' = Idle /\ Fault /\ UNCHANGED <<rule, matched, swept>>

DecayRule(r) ==
  /\ worker.at = "decay" /\ r \in worker.todo /\ ~Prunes(rule[r])
  /\ Update(r, StatusAfter(rule[r]))
  /\ UNCHANGED <<runtime, defining, since, sinceDecay>>

(* delete_rule may fail, which is logged; then the node is updated.        *)
Unregister(r) ==
  /\ worker.at = "decay" /\ r \in worker.todo /\ Prunes(rule[r])
  /\ \/ runtime' = runtime \ {NameOf[r]} /\ UNCHANGED faults
     \/ Fault /\ UNCHANGED runtime
  /\ worker' = [worker EXCEPT !.at = "prune", !.current = r]
  /\ UNCHANGED <<rule, defining, since, sinceDecay, matched, swept>>

Prune ==
  /\ worker.at = "prune"
  /\ Update(worker.current, "pruned")
  /\ UNCHANGED <<runtime, defining, since, sinceDecay>>

AllDecayed ==
  /\ worker.at = "decay" /\ worker.todo = {}
  /\ worker' = Idle
  /\ UNCHANGED <<rule, runtime, defining, since, sinceDecay, faults, matched, swept>>
-----------------------------------------------------------------------------
(* Time: ticks of the throttles, and days, each longer than an interval.   *)
(* A sweep reads the clock once, so none passes within it.                 *)
Tick ==
  /\ worker.at = "idle"
  /\ sinceDecay < MinInterval \/ \E a \in Agent : since[a] < MinInterval
  /\ since' = [a \in Agent |-> IF since[a] < MinInterval THEN since[a] + 1 ELSE since[a]]
  /\ sinceDecay' = IF sinceDecay < MinInterval THEN sinceDecay + 1 ELSE sinceDecay
  /\ UNCHANGED <<rule, runtime, defining, worker, faults, matched, swept>>

Older(s) == IF s.scored = None \/ s.scored >= PruneAfter THEN s ELSE [s EXCEPT !.scored = @ + 1]
Day ==
  /\ worker.at = "idle"
  /\ rule' = [r \in Rule |-> Older(rule[r])] /\ rule' # rule
  /\ since' = [a \in Agent |-> MinInterval] /\ sinceDecay' = MinInterval
  /\ UNCHANGED <<runtime, defining, worker, faults, matched, swept>>

Working ==
  \/ Scan \/ Credit \/ AllRun \/ Decide \/ DecayScan \/ Prune \/ AllDecayed
  \/ \E r \in Rule : Run(r) \/ DecayRule(r) \/ Unregister(r)
Next ==
  \/ \E r \in Rule : Register(r) \/ Record(r)
  \/ \E a \in Agent : Sweep(a)
  \/ Working \/ Tick \/ Day

Spec == Init /\ [][Next]_vars

(* Some agent goes on having cycles, the worker does not stop inside a     *)
(* sweep, and the clock does not stop.                                     *)
Fairness == WF_vars(\E a \in Agent : Sweep(a)) /\ WF_vars(Working) /\ SF_vars(Tick)
FairSpec == Spec /\ Fairness
-----------------------------------------------------------------------------
(* Properties.                                                             *)

Node == [status : {"none", "candidate", "active", "demoted", "pruned"}, confidence : Confidence,
         scored : (0..PruneAfter) \cup {None}]

Worker == [at : {"idle", "scan", "run", "credit", "decide", "decayscan", "decay", "prune"},
           agent : Agent \cup {None}, todo : SUBSET Rule, current : Rule \cup {None}]

(* Every variable has its type.                                            *)
TypeOK ==
  /\ rule \in [Rule -> Node] /\ runtime \subseteq {NameOf[r] : r \in Rule}
  /\ defining \subseteq Rule /\ matched \subseteq Rule /\ swept \subseteq Rule
  /\ worker \in Worker
  /\ since \in [Agent -> 0..MinInterval] /\ sinceDecay \in 0..MinInterval
  /\ faults \in 0..MaxFaults

(* A rule that is active, and so is run by every sweep, is known to the    *)
(* runtime, as long as no two rules have one name (lifecycle.rs:80).       *)
ActiveIsRegistered == \A r \in Rule : rule[r].status = "active" => NameOf[r] \in runtime

(* Rules run before they decay so that one that matched in a pass is not   *)
(* penalized by it (consolidation_worker.rs:247): the pass that follows a  *)
(* match never demotes.                                                    *)
Demotes(r) == rule[r].status = "active" /\ rule'[r].status = "demoted"
MatchedIsNotDemoted == [][\A r \in Rule : Demotes(r) => r \notin matched]_vars

(* A rule that is active for good is one that goes on matching.            *)
OnlyMatchingStaysActive ==
  \A r \in Rule : <>[](rule[r].status = "active") => []<>(r \in matched)

(* Execution is throttled for each agent and decay once for all, and yet   *)
(* no active rule decays without its turn to match since it last did:      *)
(* whenever decay is due, some agent has run the rules in its interval.    *)
(* That is so while rules are run in sweeps at all.  With                  *)
(* run_rules_in_sweep off decay goes on by itself and only lowers          *)
(* (consolidation_worker.rs:264 guards execution and nothing guards 307).  *)
Decays(r) == rule'[r].confidence # rule[r].confidence /\ r \notin matched'
NoDecayUnswept == [][\A r \in Rule : rule[r].status = "active" /\ Decays(r) => r \in swept]_vars
=============================================================================
