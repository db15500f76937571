------------------------ MODULE ConsolidationProofs ------------------------
(***************************************************************************)
(* Theorems of Consolidation, for any observations, facts, clusters, tasks *)
(* and bounds: types; that evidence is wired before it is marked; and what *)
(* the counters stand for, observation_count of a Fact for its             *)
(* SUPPORTED_BY edges, the drift record of an Entity for the INVALIDATES   *)
(* edges into its Facts, and an INVALIDATES edge for a replacement that has*)
(* evidence.  Each of these is an invariant about work in progress: what a *)
(* cycle has counted and not yet wired is "due".                           *)
(***************************************************************************)
EXTENDS Consolidation, FiniteSetTheorems, WellFoundedInduction, TLAPS

(* The initial state is well typed.                                        *)
LEMMA InitTypeOK ==
  ASSUME Init PROVE TypeOK
PROOF
  <1> USE GraphAssumption, CycleAssumption DEF Init, GraphInit, TypeOK, GraphTypeOK
  <1>1. NoFact \in FactNode
    BY DEF NoFact, FactNode
  <1>2. NoCycle \in Cycle
    BY <1>1 DEF NoCycle, Cycle
  <1> QED
    BY <1>1, <1>2 DEF Await

(* The number of votes a batch casts for a fact is a natural number.       *)
LEMMA ContributionNat ==
  ASSUME TypeOK, NEW w \in Worker, NEW f \in Fact
  PROVE  Contribution(w, f) \in Nat
PROOF
  <1>1. Votes(cycle[w].batch, f[1]) \subseteq Observation
    BY DEF TypeOK, Cycle, Votes
  <1>2. IsFiniteSet(Votes(cycle[w].batch, f[1]))
    BY <1>1, GraphAssumption, FS_Subset
  <1> QED
    BY <1>2, FS_CardinalityType DEF Contribution

(* Assigning to one field of a worker's cycle keeps it in its type.        *)
LEMMA CycleUpdate ==
  ASSUME NEW c \in [Worker -> Cycle], NEW w \in Worker
  PROVE  /\ \A B \in SUBSET Observation :
              [c EXCEPT ![w].batch = B] \in [Worker -> Cycle]
         /\ \A S \in [Fact -> FactNode] :
              [c EXCEPT ![w].seen = S] \in [Worker -> Cycle]
         /\ \A H \in SUBSET Nat :
              [c EXCEPT ![w].held = H] \in [Worker -> Cycle]
         /\ \A F \in SUBSET Fact :
              /\ [c EXCEPT ![w].targets = F] \in [Worker -> Cycle]
              /\ [c EXCEPT ![w].stale = F] \in [Worker -> Cycle]
              /\ [c EXCEPT ![w].definite = F] \in [Worker -> Cycle]
              /\ [c EXCEPT ![w].closing = F] \in [Worker -> Cycle]
              /\ [c EXCEPT ![w].created = F] \in [Worker -> Cycle]
              /\ [c EXCEPT ![w].invalidated = F] \in [Worker -> Cycle]
PROOF
  <1>1. ASSUME NEW B \in SUBSET Observation
        PROVE  [c EXCEPT ![w].batch = B] \in [Worker -> Cycle]
    BY DEF Cycle
  <1>2. ASSUME NEW S \in [Fact -> FactNode]
        PROVE  [c EXCEPT ![w].seen = S] \in [Worker -> Cycle]
    BY DEF Cycle
  <1>h. ASSUME NEW H \in SUBSET Nat
        PROVE  [c EXCEPT ![w].held = H] \in [Worker -> Cycle]
    BY DEF Cycle
  <1>3. ASSUME NEW F \in SUBSET Fact
        PROVE  /\ [c EXCEPT ![w].targets = F] \in [Worker -> Cycle]
               /\ [c EXCEPT ![w].stale = F] \in [Worker -> Cycle]
               /\ [c EXCEPT ![w].definite = F] \in [Worker -> Cycle]
               /\ [c EXCEPT ![w].closing = F] \in [Worker -> Cycle]
               /\ [c EXCEPT ![w].created = F] \in [Worker -> Cycle]
               /\ [c EXCEPT ![w].invalidated = F] \in [Worker -> Cycle]
    <2>1. [c EXCEPT ![w].targets = F] \in [Worker -> Cycle]
      BY DEF Cycle
    <2>2. [c EXCEPT ![w].stale = F] \in [Worker -> Cycle]
      BY DEF Cycle
    <2>3. [c EXCEPT ![w].definite = F] \in [Worker -> Cycle]
      BY DEF Cycle
    <2>4. [c EXCEPT ![w].closing = F] \in [Worker -> Cycle]
      BY DEF Cycle
    <2>5. [c EXCEPT ![w].created = F] \in [Worker -> Cycle]
      BY DEF Cycle
    <2>6. [c EXCEPT ![w].invalidated = F] \in [Worker -> Cycle]
      BY DEF Cycle
    <2> QED
      BY <2>1, <2>2, <2>3, <2>4, <2>5, <2>6
  <1> QED
    BY <1>1, <1>2, <1>3, <1>h

(* The same for a Fact node.                                               *)
LEMMA FactUpdate ==
  ASSUME NEW c \in [Fact -> FactNode], NEW f \in Fact,
         NEW b \in BOOLEAN, NEW d \in BOOLEAN
  PROVE  /\ [c EXCEPT ![f].open = b, ![f].definite = d] \in [Fact -> FactNode]
         /\ [c EXCEPT ![f].ahead = b] \in [Fact -> FactNode]
PROOF
  <1>1. [c EXCEPT ![f].open = b, ![f].definite = d] \in [Fact -> FactNode]
    BY DEF FactNode
  <1>2. [c EXCEPT ![f].ahead = b] \in [Fact -> FactNode]
    BY DEF FactNode
  <1> QED
    BY <1>1, <1>2

(* The same for the drift record of an Entity.                             *)
LEMMA EntityUpdate ==
  ASSUME NEW e \in [Subject -> [exists : BOOLEAN, count : Nat, unstable : BOOLEAN]],
         NEW s \in Subject, NEW b \in BOOLEAN
  PROVE  [e EXCEPT ![s].count = @ + 1, ![s].unstable = b]
           \in [Subject -> [exists : BOOLEAN, count : Nat, unstable : BOOLEAN]]
PROOF
  <1> DEFINE d == [e EXCEPT ![s].count = @ + 1]
  <1>1. d \in [Subject -> [exists : BOOLEAN, count : Nat, unstable : BOOLEAN]]
    OBVIOUS
  <1>2. [e EXCEPT ![s].count = @ + 1, ![s].unstable = b]
          = [d EXCEPT ![s].unstable = b]
    OBVIOUS
  <1> HIDE DEF d
  <1> QED
    BY <1>1, <1>2

(* A Fact node stays one when its interval is closed.                      *)
LEMMA CloseFactsTypeOK ==
  ASSUME TypeOK, NEW targets, CloseFacts(targets)
  PROVE  fact' \in [Fact -> FactNode]
PROOF
  <1>1. \A r \in FactNode : [r EXCEPT !.open = FALSE] \in FactNode
    BY DEF FactNode
  <1>2. \A f \in Fact : fact[f] \in FactNode
    BY DEF TypeOK, GraphTypeOK
  <1> QED
    BY <1>1, <1>2 DEF CloseFacts

(* Every operation on the evidence keeps the graph well typed.             *)
LEMMA EvidenceTypeOK ==
  ASSUME TypeOK, Evidence, UNCHANGED cycleVars
  PROVE  TypeOK'
PROOF
  <1> USE GraphAssumption DEF GraphTypeOK
  <1>0. SUFFICES GraphTypeOK'
    BY DEF TypeOK, cycleVars
  <1>1. GraphTypeOK
    BY DEF TypeOK
  <1>2. ASSUME NEW doomed, NEW forced, Erase(doomed, forced) PROVE GraphTypeOK'
    <2>1. fact' \in [Fact -> FactNode]
      BY <1>2, CloseFactsTypeOK DEF Erase
    <2> QED
      BY <1>1, <1>2, <2>1 DEF Erase, Counted
  <1>3. ASSUME NEW m \in Message, Observe(m) PROVE GraphTypeOK'
    BY <1>1, <1>3 DEF Observe
  <1>4. ASSUME NEW m \in Message, DeleteMessage(m) PROVE GraphTypeOK'
    BY <1>2, <1>4 DEF DeleteMessage
  <1>5. ASSUME NEW m \in Message, ForgetMessage(m) PROVE GraphTypeOK'
    <2>1. \A f \in Fact : [fact[f] EXCEPT !.hidden = TRUE] \in FactNode
      BY <1>1 DEF FactNode
    <2>2. fact' \in [Fact -> FactNode]
      BY <1>1, <1>5, <2>1 DEF ForgetMessage
    <2> QED
      BY <1>1, <1>5, <2>2 DEF ForgetMessage, Counted, LiveOf, Live
  <1>6. ASSUME NEW s \in Session, DeleteSession(s) PROVE GraphTypeOK'
    BY <1>2, <1>6 DEF DeleteSession
  <1>7. ASSUME NEW p \in Participant, ForgetParticipant(p) PROVE GraphTypeOK'
    BY <1>2, <1>7 DEF ForgetParticipant
  <1>8. ASSUME NEW f \in Fact, DateArrives(f) PROVE GraphTypeOK'
    <2>1. fact' \in [Fact -> FactNode]
      BY <1>1, <1>8, FactUpdate DEF DateArrives
    <2> QED
      BY <1>1, <1>8, <2>1 DEF DateArrives
  <1> QED
    BY <1>3, <1>4, <1>5, <1>6, <1>7, <1>8 DEF Evidence

(* Every step of a cycle keeps the variables well typed.                   *)
LEMMA WorkerTypeOK ==
  ASSUME TypeOK, NEW w \in Worker, Advance(w) \/ Falter(w)
  PROVE  TypeOK'
PROOF
  <1> USE DEF graphVars
  <1>a. NoFact \in FactNode /\ NoCycle \in Cycle
    BY DEF NoFact, NoCycle, FactNode, Cycle
  <1>b. /\ cycle \in [Worker -> Cycle]
        /\ cycle[w] \in Cycle
        /\ fact \in [Fact -> FactNode]
    BY DEF TypeOK, GraphTypeOK
  <1>c. ASSUME NEW step \in Await, Goto(w, step)
        PROVE  at' \in [Worker -> Await]
    BY <1>c DEF TypeOK, Goto
  <1>d. ASSUME cycle' = [cycle EXCEPT ![w] = NoCycle]
        PROVE  cycle' \in [Worker -> Cycle]
    BY <1>a, <1>d DEF TypeOK
  <1>e. ASSUME NEW remaining, AfterStale(w, remaining)
        PROVE  at' \in [Worker -> Await]
    BY <1>c, <1>e DEF AfterStale, Await
  <1>f. failures < MaxFailures /\ failures' = failures + 1
        => failures' \in 0..MaxFailures
    BY CycleAssumption DEF TypeOK
  <1>1. CASE Fetch(w)
    <2>1. PICK B \in Batches : cycle' = [cycle EXCEPT ![w].batch = B]
      BY <1>1 DEF Fetch
    <2>2. B \subseteq Observation
      BY DEF Batches, Pending, Live
    <2>3. cycle' \in [Worker -> Cycle]
      BY <2>1, <2>2, <1>b, CycleUpdate
    <2> QED
      BY <1>1, <1>c, <2>3 DEF Fetch, TypeOK, GraphTypeOK, Await
  <1>2. ASSUME NEW priors \in SUBSET Fact, PlanWith(w, priors)
        PROVE cycle' \in [Worker -> Cycle] /\ at' \in [Worker -> Await]
    <2> DEFINE stale(T) == StaleFacts(cycle[w].batch, priors, T)
               definite(T) == {f \in stale(T) : fact[f].definite}
    <2>1. PICK T \in Targets(cycle[w].batch) :
            /\ cycle' = [cycle EXCEPT ![w].targets = T,
                                      ![w].stale = stale(T),
                                      ![w].definite = definite(T)]
            /\ Goto(w, "lock")
      BY <1>2 DEF PlanWith
    <2>2. T \subseteq Fact /\ stale(T) \subseteq Fact /\ definite(T) \subseteq Fact
      BY DEF Targets, StaleFacts
    <2>3. cycle' \in [Worker -> Cycle]
      <3> DEFINE c1 == [cycle EXCEPT ![w].targets = T]
                 c2 == [c1 EXCEPT ![w].stale = stale(T)]
      <3>1. cycle' = [c2 EXCEPT ![w].definite = definite(T)]
        BY <2>1
      <3> HIDE DEF stale, definite
      <3>2. c1 \in [Worker -> Cycle]
        BY <2>2, <1>b, CycleUpdate
      <3> HIDE DEF c1
      <3>3. c2 \in [Worker -> Cycle]
        BY <2>2, <3>2, CycleUpdate
      <3> HIDE DEF c2
      <3> QED
        BY <2>2, <3>1, <3>3, CycleUpdate
    <2> QED
      BY <1>c, <2>1, <2>3 DEF Await
  <1>3. CASE Plan(w)
    <2>1. OpenFacts \in SUBSET Fact
      BY DEF OpenFacts
    <2> QED
      BY <1>2, <1>3, <2>1 DEF Plan, PlanWith, TypeOK, GraphTypeOK
  <1>4. CASE PlanBlind(w)
    <2>1. {} \in SUBSET Fact
      OBVIOUS
    <2> QED
      BY <1>2, <1>4, <1>f, <2>1 DEF PlanBlind, PlanWith, TypeOK, GraphTypeOK
  <1>20. CASE TakeStripe(w)
    <2>1. PICK i \in Missing(w) : cycle' = [cycle EXCEPT ![w].held = @ \cup {i}]
      BY <1>20 DEF TakeStripe
    <2>2. cycle[w].held \cup {i} \in SUBSET Nat
      BY <1>b, CycleAssumption DEF Cycle, Missing
    <2>3. cycle' \in [Worker -> Cycle]
      BY <2>1, <2>2, <1>b, CycleUpdate
    <2> QED
      BY <1>20, <2>3 DEF TakeStripe, TypeOK, GraphTypeOK
  <1>5. CASE ReadFacts(w)
    <2> DEFINE seen == [f \in Fact |-> IF f \in cycle[w].targets THEN fact[f]
                                                               ELSE NoFact]
    <2>1. seen \in [Fact -> FactNode]
      BY <1>a, <1>b
    <2>2. cycle' \in [Worker -> Cycle]
      <3>1. cycle' = [cycle EXCEPT ![w].seen = seen]
        BY <1>5 DEF TakeStripe, ReadFacts
      <3> HIDE DEF seen
      <3> QED
        BY <2>1, <3>1, <1>b, CycleUpdate
    <2> QED
      BY <1>5, <1>c, <2>2 DEF TakeStripe, ReadFacts, TypeOK, GraphTypeOK, Await
  <1>6. CASE CreateFacts(w)
    <2> DEFINE new == {f \in cycle[w].targets : ~cycle[w].seen[f].exists}
               node(f) == [exists |-> TRUE, count |-> Contribution(w, f),
                           open |-> TRUE, definite |-> FALSE, hidden |-> FALSE,
                           ahead |-> StartsAhead(cycle[w].batch, f[1])]
    <2>1. \A f \in Fact : node(f) \in FactNode
      BY ContributionNat DEF FactNode, StartsAhead
    <2>2. fact' = [f \in Fact |-> IF f \in new THEN node(f) ELSE fact[f]]
      BY <1>6 DEF CreateFacts
    <2>3. fact' \in [Fact -> FactNode]
      <3> HIDE DEF new, node
      <3> QED
        BY <1>b, <2>1, <2>2
    <2>4. new \subseteq Fact
      BY <1>b DEF Cycle
    <2>5. cycle' \in [Worker -> Cycle]
      <3>1. cycle' = [cycle EXCEPT ![w].created = new]
        BY <1>6 DEF CreateFacts
      <3> HIDE DEF new, node
      <3> QED
        BY <2>4, <3>1, <1>b, CycleUpdate
    <2> QED
      BY <1>6, <1>c, <2>3, <2>5 DEF CreateFacts, TypeOK, GraphTypeOK, Await
  <1>7. CASE UpdateFacts(w)
    <2>1. \A f \in Fact : Reinforced(w, f) \in FactNode
      <3> TAKE f \in Fact
      <3>1. cycle[w].seen[f] \in FactNode /\ fact[f] \in FactNode
        BY <1>b DEF Cycle
      <3>2. cycle[w].seen[f].count + Contribution(w, f) \in Nat
        BY <3>1, ContributionNat DEF FactNode
      <3> QED
        BY <3>1, <3>2 DEF Reinforced, FactNode
    <2>2. fact' \in [Fact -> FactNode]
      BY <1>7, <1>b, <2>1 DEF UpdateFacts
    <2>3. NoCycle.seen \in [Fact -> FactNode]
      BY <1>a DEF NoCycle
    <2>4. cycle' \in [Worker -> Cycle]
      <3> DEFINE none == NoCycle.seen
                 c1 == [cycle EXCEPT ![w].seen = none]
      <3>1. cycle' = [c1 EXCEPT ![w].held = {}]
        BY <1>7 DEF UpdateFacts
      <3>2. none \in [Fact -> FactNode] /\ {} \in SUBSET Nat
        BY <2>3
      <3> HIDE DEF none
      <3>3. c1 \in [Worker -> Cycle]
        BY <3>2, <1>b, CycleUpdate
      <3> HIDE DEF c1
      <3> QED
        BY <3>1, <3>2, <3>3, CycleUpdate
    <2> QED
      BY <1>7, <1>c, <2>2, <2>4 DEF UpdateFacts, TypeOK, GraphTypeOK, Await
  <1>8. CASE WireSupport(w)
    <2>1. support' \in [Fact -> [Observation -> Nat]]
      BY <1>8 DEF WireSupport, TypeOK, GraphTypeOK
    <2> QED
      BY <1>8, <1>e, <2>1 DEF WireSupport, TypeOK, GraphTypeOK
  <1>9. ASSUME NEW f \in Fact, CloseStale(w, f) PROVE TypeOK'
    <2>1. fact' \in [Fact -> FactNode]
      <3>1. FALSE \in BOOLEAN /\ (f \in cycle[w].definite) \in BOOLEAN
        OBVIOUS
      <3> QED
        BY <1>9, <1>b, <3>1, FactUpdate DEF CloseStale
    <2>2. cycle' \in [Worker -> Cycle]
      <3>1. {f} \in SUBSET Fact
        OBVIOUS
      <3> QED
        BY <1>9, <1>b, <3>1, CycleUpdate DEF CloseStale
    <2> QED
      BY <1>9, <1>c, <2>1, <2>2 DEF CloseStale, TypeOK, GraphTypeOK, Await
  <1>10. ASSUME NEW f \in Fact, PanicOnClose(w, f) PROVE TypeOK'
    BY <1>10, <1>c, <1>d DEF PanicOnClose, TypeOK, GraphTypeOK, Await
  <1>11. CASE LinkStale(w)
    <2>1. cycle' \in [Worker -> Cycle]
      <3>1. cycle[w].invalidated \cup cycle[w].closing \in SUBSET Fact
        BY <1>b DEF Cycle
      <3> QED
        BY <1>11, <1>b, <3>1, CycleUpdate DEF LinkStale
    <2>2. invalidates' \in [Fact -> Nat]
      BY <1>11 DEF LinkStale, TypeOK
    <2> QED
      BY <1>11, <1>c, <2>1, <2>2 DEF LinkStale, TypeOK, GraphTypeOK, Await
  <1>12. ASSUME NextStale(w)
         PROVE cycle' \in [Worker -> Cycle] /\ at' \in [Worker -> Await]
    <2>1. cycle' \in [Worker -> Cycle]
      <3> DEFINE rest == cycle[w].stale \ cycle[w].closing
                 c1 == [cycle EXCEPT ![w].stale = rest]
                 c2 == [c1 EXCEPT ![w].closing = {}]
      <3>1. rest \in SUBSET Fact /\ {} \in SUBSET Fact /\ {} \in SUBSET Nat
        BY <1>b DEF Cycle
      <3>2. cycle' = [c2 EXCEPT ![w].held = {}]
        BY <1>12 DEF NextStale
      <3> HIDE DEF rest
      <3>3. c1 \in [Worker -> Cycle]
        BY <1>b, <3>1, CycleUpdate
      <3> HIDE DEF c1
      <3>4. c2 \in [Worker -> Cycle]
        BY <3>1, <3>3, CycleUpdate
      <3> HIDE DEF c2
      <3> QED
        BY <3>1, <3>2, <3>4, CycleUpdate
    <2> QED
      BY <1>12, <1>e, <2>1 DEF NextStale
  <1>g. Closing(w) \subseteq Subject
    BY <1>b, CycleAssumption DEF Closing, Cycle, Fact
  <1>21. CASE FindEntity(w)
    <2>1. PICK r \in Closing(w) :
            /\ cycle' = [cycle EXCEPT ![w].held = {NameStripe[r]}]
            /\ Goto(w, IF entity[r].exists THEN "count" ELSE "merge")
      BY <1>21 DEF FindEntity
    <2>2. {NameStripe[r]} \in SUBSET Nat
      BY <1>g, CycleAssumption
    <2>3. cycle' \in [Worker -> Cycle]
      BY <2>1, <2>2, <1>b, CycleUpdate
    <2>4. at' \in [Worker -> Await]
      BY <2>1, <1>c DEF Await
    <2> QED
      BY <1>21, <2>3, <2>4 DEF FindEntity, TypeOK, GraphTypeOK
  <1>22. CASE MergeEntity(w)
    <2>1. PICK r \in Subject : entity' = [entity EXCEPT ![r].exists = TRUE]
      BY <1>22, <1>g DEF MergeEntity
    <2>2. entity' \in [Subject -> [exists : BOOLEAN, count : Nat, unstable : BOOLEAN]]
      BY <2>1 DEF TypeOK
    <2>3. at' \in [Worker -> Await]
      BY <1>22, <1>c DEF MergeEntity, Await
    <2> QED
      BY <1>22, <2>2, <2>3 DEF MergeEntity, TypeOK, GraphTypeOK
  <1>13. CASE RecordDrift(w)
    <2>1. entity' \in [Subject -> [exists : BOOLEAN, count : Nat, unstable : BOOLEAN]]
      <3>1. PICK r \in Closing(w) :
              entity' = [entity EXCEPT
                           ![r].count = @ + 1,
                           ![r].unstable = Invalidations(r) > DriftThreshold]
        BY <1>13 DEF RecordDrift
      <3>2. (Invalidations(r) > DriftThreshold) \in BOOLEAN
        OBVIOUS
      <3>3. r \in Subject
        BY <1>g
      <3> QED
        BY <3>1, <3>2, <3>3, EntityUpdate DEF TypeOK
    <2> QED
      BY <1>12, <1>13, <2>1 DEF FindEntity, MergeEntity, RecordDrift, TypeOK, GraphTypeOK
  <1>14. CASE SkipLinkOrDrift(w)
    BY <1>12, <1>14, <1>f DEF SkipLinkOrDrift, TypeOK, GraphTypeOK
  <1>15. ASSUME NEW f \in Fact, SkipClose(w, f) PROVE TypeOK'
    <2>1. cycle' \in [Worker -> Cycle]
      <3>1. cycle[w].stale \ {f} \in SUBSET Fact
        BY <1>b DEF Cycle
      <3> QED
        BY <1>15, <1>b, <3>1, CycleUpdate DEF SkipClose
    <2> QED
      BY <1>15, <1>e, <1>f, <2>1 DEF SkipClose, TypeOK, GraphTypeOK
  <1>16. ASSUME NEW step, NextBatch(w, step)
         PROVE cycle' \in [Worker -> Cycle] /\ at' \in [Worker -> Await]
    <2>1. PICK next \in AuditEdge \cup {"idle"} :
            /\ Goto(w, next)
            /\ cycle' = IF next = "idle" THEN [cycle EXCEPT ![w] = NoCycle]
                                         ELSE cycle
      BY <1>16 DEF NextBatch
    <2> QED
      BY <1>c, <1>d, <2>1 DEF Await, TypeOK
  <1>17. CASE MarkProcessed(w)
    <2>1. processed' \subseteq Observation
      BY <1>17, <1>b DEF MarkProcessed, TypeOK, Cycle
    <2> QED
      BY <1>16, <1>17, <2>1 DEF MarkProcessed, TypeOK, GraphTypeOK
  <1>18. ASSUME NEW kind \in AuditEdge, WireAudit(w, kind) PROVE TypeOK'
    BY <1>16, <1>18 DEF WireAudit, TypeOK, GraphTypeOK
  <1>19. CASE Fail(w)
    BY <1>19, <1>c, <1>d, <1>f DEF Fail, TypeOK, GraphTypeOK, Await
  <1> QED
    BY <1>1, <1>3, <1>4, <1>5, <1>6, <1>7, <1>8, <1>9, <1>10, <1>11, <1>13,
       <1>14, <1>15, <1>17, <1>18, <1>19, <1>20, <1>21, <1>22
    DEF Advance, Proceed, Falter

(* Type correctness: every variable keeps its type in every behaviour.     *)
THEOREM TypeCorrect == Spec => []TypeOK
PROOF
  <1>1. Init => TypeOK
    BY InitTypeOK
  <1>2. TypeOK /\ [Next]_vars => TypeOK'
    <2> SUFFICES ASSUME TypeOK, [Next]_vars PROVE TypeOK'
      OBVIOUS
    <2>1. CASE Evidence /\ UNCHANGED cycleVars
      BY <2>1, EvidenceTypeOK
    <2>2. ASSUME NEW w \in Worker, Advance(w) \/ Falter(w) PROVE TypeOK'
      BY <2>2, WorkerTypeOK
    <2>3. CASE UNCHANGED vars
      BY <2>3 DEF vars, graphVars, cycleVars, TypeOK, GraphTypeOK
    <2>4. ASSUME NEW s \in Subject, Recognize(s) PROVE TypeOK'
      <3>1. entity' \in [Subject -> [exists : BOOLEAN, count : Nat, unstable : BOOLEAN]]
        BY <2>4 DEF Recognize, TypeOK
      <3> QED
        BY <2>4, <3>1 DEF Recognize, graphVars, TypeOK, GraphTypeOK
    <2> QED
      BY <2>1, <2>2, <2>3, <2>4 DEF Next
  <1> QED
    BY <1>1, <1>2, PTL DEF Spec

-----------------------------------------------------------------------------
(* The steps of one cycle leave the other cycles alone.                    *)
LEMMA OtherCycles ==
  ASSUME TypeOK, NEW w \in Worker, Advance(w) \/ Falter(w),
         NEW v \in Worker, v # w
  PROVE  at'[v] = at[v] /\ cycle'[v] = cycle[v]
PROOF
  <1>1. ASSUME NEW step, Goto(w, step) PROVE at'[v] = at[v]
    BY <1>1 DEF Goto, TypeOK
  <1>2. ASSUME NEW step, NextBatch(w, step)
        PROVE at'[v] = at[v] /\ cycle'[v] = cycle[v]
    BY <1>1, <1>2 DEF NextBatch, TypeOK
  <1>3. CASE Advance(w)
    BY <1>1, <1>2, <1>3
    DEF Advance, Proceed, Fetch, Plan, PlanWith, TakeStripe, ReadFacts, CreateFacts, UpdateFacts,
        WireSupport, CloseStale, PanicOnClose, LinkStale, FindEntity, MergeEntity, RecordDrift,
        NextStale, AfterStale, MarkProcessed, WireAudit, TypeOK
  <1>4. CASE Falter(w)
    BY <1>1, <1>4
    DEF Falter, PlanBlind, PlanWith, SkipLinkOrDrift, NextStale, SkipClose,
        AfterStale, Fail, TypeOK
  <1> QED
    BY <1>3, <1>4

(* No step removes a SUPPORTED_BY edge.                                    *)
LEMMA SupportGrows ==
  ASSUME TypeOK, [Next]_vars, NEW f \in Fact, NEW o \in Observation
  PROVE  support'[f][o] >= support[f][o]
PROOF
  <1>0. support[f][o] \in Nat
    BY DEF TypeOK, GraphTypeOK
  <1>1. SUFFICES ASSUME support' # support PROVE support'[f][o] >= support[f][o]
    BY <1>0
  <1>2. PICK w \in Worker : WireSupport(w)
    BY <1>1
    DEF Next, Recognize, vars, graphVars, Evidence, Observe, DeleteMessage, DeleteSession,
        ForgetParticipant, ForgetMessage, DateArrives, Erase,
        Advance, Proceed, Falter, Fetch, Plan, PlanBlind, PlanWith, TakeStripe, ReadFacts,
        CreateFacts, UpdateFacts, CloseStale, PanicOnClose, LinkStale,
        FindEntity, MergeEntity, RecordDrift, SkipLinkOrDrift, SkipClose, MarkProcessed, WireAudit, Fail
  <1> QED
    BY <1>0, <1>2 DEF WireSupport

(* Where a cycle is with respect to the evidence of its batch: planned for *)
(* some target Fact, or already wired to one.                              *)
Covered(w) ==
  \A o \in cycle[w].batch : \E f \in cycle[w].targets : f[1] = PairOf[o]

Wired(o) == \E f \in Fact : f[1] = PairOf[o] /\ support[f][o] > 0

EvidenceInv ==
  /\ EvidenceKept
  /\ \A w \in Worker :
       /\ at[w] \in {"lock", "create", "update", "support"} => Covered(w)
       /\ at[w] \in {"invalidate", "link", "drift", "merge", "count", "processed"} =>
            \A o \in cycle[w].batch : Wired(o)

(* The step of a cycle keeps what EvidenceInv says of that cycle.          *)
LEMMA OwnEvidence ==
  ASSUME TypeOK, EvidenceInv, NEW w \in Worker, Advance(w) \/ Falter(w)
  PROVE  /\ at'[w] \in {"lock", "create", "update", "support"} => Covered(w)'
         /\ at'[w] \in {"invalidate", "link", "drift", "merge", "count", "processed"} =>
              \A o \in cycle'[w].batch : Wired(o)'
PROOF
  <1> DEFINE Early == {"lock", "create", "update", "support"}
             Late  == {"invalidate", "link", "drift", "merge", "count", "processed"}
             Same  == /\ cycle'[w].batch = cycle[w].batch
                      /\ cycle'[w].targets = cycle[w].targets
  <1>a. /\ at \in [Worker -> Await]
        /\ cycle \in [Worker -> Cycle]
        /\ cycle[w] \in Cycle
    BY DEF TypeOK
  <1>b. ASSUME NEW step, Goto(w, step) PROVE at'[w] = step
    BY <1>a, <1>b DEF Goto
  <1>c. ASSUME NEW o \in Observation, Wired(o) PROVE Wired(o)'
    <2>1. PICK f \in Fact : f[1] = PairOf[o] /\ support[f][o] > 0
      BY <1>c DEF Wired
    <2>2. support'[f][o] >= support[f][o]
      BY SupportGrows DEF Next
    <2>3. support[f][o] \in Nat /\ support'[f][o] \in Nat
      BY WorkerTypeOK DEF TypeOK, GraphTypeOK
    <2> QED
      BY <2>1, <2>2, <2>3 DEF Wired
  <1>d. ASSUME Same, at[w] \in Early, at'[w] \in Early \cup {"idle"}
        PROVE  /\ at'[w] \in Early => Covered(w)'
               /\ at'[w] \notin Late
    BY <1>d DEF EvidenceInv, Covered
  <1>e. ASSUME cycle'[w].batch = cycle[w].batch, at[w] \in Late
        PROVE  \A o \in cycle'[w].batch : Wired(o)'
    BY <1>a, <1>c, <1>e DEF EvidenceInv, Cycle
  <1>1. CASE Fetch(w)
    BY <1>1, <1>b DEF Fetch
  <1>2. ASSUME NEW priors, PlanWith(w, priors)
        PROVE  at'[w] = "lock" /\ Covered(w)'
    <2>1. PICK T \in Targets(cycle[w].batch) :
            /\ cycle'[w].batch = cycle[w].batch
            /\ cycle'[w].targets = T
      BY <1>2, <1>a DEF PlanWith, Cycle
    <2> QED
      BY <1>2, <1>b, <2>1 DEF PlanWith, Covered, Targets
  <1>3. CASE Plan(w) \/ PlanBlind(w)
    BY <1>2, <1>3 DEF Plan, PlanBlind
  <1>4. CASE TakeStripe(w) \/ ReadFacts(w)
    <2>1. Same
      BY <1>4, <1>a DEF TakeStripe, ReadFacts, Cycle
    <2> QED
      BY <1>4, <1>b, <1>d, <2>1 DEF TakeStripe, ReadFacts
  <1>5. CASE CreateFacts(w)
    <2>1. Same
      BY <1>5, <1>a DEF CreateFacts, Cycle
    <2> QED
      BY <1>5, <1>b, <1>d, <2>1 DEF CreateFacts
  <1>6. CASE UpdateFacts(w)
    <2>1. Same
      BY <1>6, <1>a DEF UpdateFacts, Cycle
    <2> QED
      BY <1>6, <1>b, <1>d, <2>1 DEF UpdateFacts
  <1>7. CASE WireSupport(w)
    <2>1. at'[w] \in {"processed", "invalidate"}
      BY <1>7, <1>b DEF WireSupport, AfterStale
    <2>2. ASSUME NEW o \in cycle[w].batch PROVE Wired(o)'
      <3>1. PICK f \in cycle[w].targets : f[1] = PairOf[o]
        BY <1>7 DEF WireSupport, EvidenceInv, Covered
      <3>2. f \in Fact /\ o \in Observation
        BY <1>a DEF Cycle
      <3>3. RestsOn(w, f, o)
        BY <3>1 DEF RestsOn, Votes
      <3>4. support'[f][o] = support[f][o] + 1
        BY <1>7, <3>2, <3>3 DEF WireSupport
      <3>5. support[f][o] \in Nat
        BY <3>2 DEF TypeOK, GraphTypeOK
      <3> QED
        BY <3>1, <3>2, <3>4, <3>5 DEF Wired
    <2> QED
      BY <1>7, <2>1, <2>2 DEF WireSupport
  <1>8. ASSUME NEW f \in Fact, CloseStale(w, f) \/ SkipClose(w, f)
        PROVE  /\ at[w] \in Late /\ at'[w] \in Late
               /\ cycle'[w].batch = cycle[w].batch
    BY <1>8, <1>a, <1>b DEF CloseStale, SkipClose, AfterStale, Cycle
  <1>9. ASSUME NEW f \in Fact, PanicOnClose(w, f) PROVE at'[w] = "panicked"
    BY <1>9, <1>b DEF PanicOnClose
  <1>10. CASE LinkStale(w)
    <2>1. at[w] \in Late /\ at'[w] \in Late /\ cycle'[w].batch = cycle[w].batch
      BY <1>10, <1>a, <1>b DEF LinkStale, Cycle
    <2> QED
      BY <1>e, <2>1
  <1>11. CASE FindEntity(w) \/ MergeEntity(w) \/ RecordDrift(w) \/ SkipLinkOrDrift(w)
    <2>1. at[w] \in Late /\ at'[w] \in Late
      BY <1>11, <1>b DEF FindEntity, MergeEntity, RecordDrift, SkipLinkOrDrift,
                         NextStale, AfterStale
    <2>2. cycle'[w].batch = cycle[w].batch
      BY <1>11, <1>a DEF FindEntity, MergeEntity, RecordDrift, SkipLinkOrDrift,
                         NextStale, Cycle
    <2> QED
      BY <1>e, <2>1, <2>2
  <1>12. ASSUME NEW step, NextBatch(w, step)
         PROVE  at'[w] \in AuditEdge \cup {"idle"}
    BY <1>12, <1>b DEF NextBatch
  <1>13. CASE MarkProcessed(w)
    BY <1>12, <1>13 DEF MarkProcessed, AuditEdge
  <1>14. ASSUME NEW kind \in AuditEdge, WireAudit(w, kind)
         PROVE  at'[w] \in AuditEdge \cup {"idle"}
    BY <1>12, <1>14 DEF WireAudit
  <1>15. CASE Fail(w)
    BY <1>15, <1>b DEF Fail
  <1>16. CASE \E f \in Fact : CloseStale(w, f) \/ SkipClose(w, f)
    BY <1>8, <1>16, <1>e
  <1> QED
    BY <1>1, <1>3, <1>4, <1>5, <1>6, <1>7, <1>9, <1>10, <1>11, <1>13, <1>14,
       <1>15, <1>16 DEF Advance, Proceed, Falter, AuditEdge

(* EvidenceInv is inductive.                                               *)
LEMMA EvidenceInvStep ==
  ASSUME TypeOK, EvidenceInv, [Next]_vars
  PROVE  EvidenceInv'
PROOF
  <1> DEFINE Early == {"lock", "create", "update", "support"}
             Late  == {"invalidate", "link", "drift", "merge", "count", "processed"}
  <1>a. ASSUME NEW o \in Observation, Wired(o) PROVE Wired(o)'
    <2>1. PICK f \in Fact : f[1] = PairOf[o] /\ support[f][o] > 0
      BY <1>a DEF Wired
    <2>2. support'[f][o] >= support[f][o]
      BY SupportGrows
    <2>3. support[f][o] \in Nat /\ support'[f][o] \in Nat
      BY EvidenceTypeOK, WorkerTypeOK
      DEF Next, Recognize, TypeOK, GraphTypeOK, vars, graphVars
    <2> QED
      BY <2>1, <2>2, <2>3 DEF Wired
  <1>b. /\ processed \subseteq Observation
        /\ \A v \in Worker : cycle[v].batch \subseteq Observation
    BY DEF TypeOK, Cycle
  <1>c. ASSUME NEW v \in Worker, at'[v] = at[v], cycle'[v] = cycle[v]
        PROVE  /\ at'[v] \in Early => Covered(v)'
               /\ at'[v] \in Late => \A o \in cycle'[v].batch : Wired(o)'
    <2>1. at'[v] \in Early => Covered(v)'
      BY <1>c DEF EvidenceInv, Covered
    <2>2. at'[v] \in Late => \A o \in cycle'[v].batch : Wired(o)'
      BY <1>a, <1>b, <1>c DEF EvidenceInv
    <2> QED
      BY <2>1, <2>2
  <1>d. ASSUME NEW o \in processed PROVE Wired(o)'
    BY <1>a, <1>b, <1>d DEF EvidenceInv, EvidenceKept, Wired
  <1>1. CASE Evidence /\ UNCHANGED cycleVars
    <2>1. processed' = processed /\ at' = at /\ cycle' = cycle
      BY <1>1 DEF cycleVars
    <2> QED
      BY <1>c, <1>d, <2>1 DEF EvidenceInv, EvidenceKept, Wired
  <1>2. ASSUME NEW w \in Worker, Advance(w) \/ Falter(w)
        PROVE  EvidenceInv'
    <2>1. ASSUME NEW v \in Worker
          PROVE  /\ at'[v] \in Early => Covered(v)'
                 /\ at'[v] \in Late => \A o \in cycle'[v].batch : Wired(o)'
      <3>1. CASE v = w
        BY <1>2, <3>1, OwnEvidence
      <3>2. CASE v # w
        BY <1>2, <1>c, <3>2, OtherCycles
      <3> QED
        BY <3>1, <3>2
    <2>2. processed' = processed \/ MarkProcessed(w)
      BY <1>2
      DEF Advance, Proceed, Falter, Fetch, Plan, PlanBlind, PlanWith, TakeStripe, ReadFacts,
          CreateFacts, UpdateFacts, WireSupport, CloseStale, PanicOnClose,
          LinkStale, FindEntity, MergeEntity, RecordDrift, SkipLinkOrDrift, SkipClose, WireAudit, Fail
    <2>3. ASSUME NEW o \in processed' PROVE Wired(o)'
      <3>1. CASE o \in processed
        BY <1>d, <3>1
      <3>2. CASE MarkProcessed(w) /\ o \in cycle[w].batch
        BY <1>a, <1>b, <3>2 DEF MarkProcessed, EvidenceInv
      <3> QED
        BY <2>2, <2>3, <3>1, <3>2 DEF MarkProcessed
    <2> QED
      BY <2>1, <2>3 DEF EvidenceInv, EvidenceKept, Wired
  <1>3. CASE UNCHANGED vars \/ \E s \in Subject : Recognize(s)
    <2>1. processed' = processed /\ at' = at /\ cycle' = cycle
      BY <1>3 DEF Recognize, vars, cycleVars
    <2> QED
      BY <1>c, <1>d, <2>1 DEF EvidenceInv, EvidenceKept, Wired
  <1> QED
    BY <1>1, <1>2, <1>3 DEF Next

(* No evidence is lost: an observation marked PROCESSED supports a Fact of *)
(* its own group, for any number of cycles, failures and erasures.         *)
THEOREM EvidenceIsKept == Spec => []EvidenceKept
PROOF
  <1>1. Init => EvidenceInv
    BY DEF Init, EvidenceInv, EvidenceKept, Covered
  <1>2. TypeOK /\ EvidenceInv /\ [Next]_vars => EvidenceInv'
    BY EvidenceInvStep
  <1>3. EvidenceInv => EvidenceKept
    BY DEF EvidenceInv
  <1> QED
    BY <1>1, <1>2, <1>3, TypeCorrect, PTL DEF Spec

-----------------------------------------------------------------------------
(* Counting edges.                                                         *)

(* One more parallel edge at each node of a finite V.                      *)
LEMMA EdgesGrow ==
  ASSUME NEW S, NEW n, NEW m, NEW V \in SUBSET S,
         IsFiniteSet(V), IsFiniteSet(Edges(n, S)),
         \A x \in S : n[x] \in Nat,
         \A x \in S : m[x] = IF x \in V THEN n[x] + 1 ELSE n[x]
  PROVE  /\ IsFiniteSet(Edges(m, S))
         /\ Cardinality(Edges(m, S)) = Cardinality(Edges(n, S)) + Cardinality(V)
PROOF
  <1> DEFINE new == {<<x, n[x] + 1>> : x \in V}
             g == [x \in V |-> <<x, n[x] + 1>>]
  <1>1. Edges(m, S) = Edges(n, S) \cup new
    <2>1. ASSUME NEW e \in Edges(m, S) PROVE e \in Edges(n, S) \cup new
      <3>1. PICK x \in S : e \in {x} \X (1..m[x])
        BY <2>1 DEF Edges
      <3>2. PICK i \in 1..m[x] : e = <<x, i>>
        BY <3>1
      <3>3. CASE i \in 1..n[x]
        BY <3>2, <3>3 DEF Edges
      <3>4. CASE i \notin 1..n[x]
        <4>1. x \in V /\ i = n[x] + 1
          BY <3>2, <3>4
        <4> QED
          BY <3>2, <4>1
      <3> QED
        BY <3>3, <3>4
    <2>2. ASSUME NEW e \in Edges(n, S) PROVE e \in Edges(m, S)
      <3>1. PICK x \in S : e \in {x} \X (1..n[x])
        BY <2>2 DEF Edges
      <3>2. PICK i \in 1..n[x] : e = <<x, i>>
        BY <3>1
      <3>3. i \in 1..m[x]
        BY <3>2
      <3> QED
        BY <3>2, <3>3 DEF Edges
    <2>3. ASSUME NEW e \in new PROVE e \in Edges(m, S)
      <3>1. PICK x \in V : e = <<x, n[x] + 1>>
        BY <2>3
      <3>2. n[x] + 1 \in 1..m[x]
        BY <3>1
      <3> QED
        BY <3>1, <3>2 DEF Edges
    <2> QED
      BY <2>1, <2>2, <2>3
  <1>2. Edges(n, S) \cap new = {}
    BY DEF Edges
  <1>3. g \in Bijection(V, new)
    <2>1. g \in [V -> new]
      OBVIOUS
    <2>2. \A x, y \in V : g[x] = g[y] => x = y
      OBVIOUS
    <2>3. \A t \in new : \E x \in V : g[x] = t
      OBVIOUS
    <2>4. IsInjective(g)
      BY <2>1, <2>2 DEF IsInjective
    <2> HIDE DEF g, new
    <2> QED
      BY <2>1, <2>3, <2>4 DEF Bijection, Injection, Surjection
  <1>4. IsFiniteSet(new) /\ Cardinality(new) = Cardinality(V)
    BY <1>3, FS_Bijection DEF ExistsBijection
  <1>5. /\ IsFiniteSet(Edges(n, S) \cup new)
        /\ Cardinality(Edges(n, S) \cup new)
             = Cardinality(Edges(n, S)) + Cardinality(new) - Cardinality({})
    <2> HIDE DEF new
    <2> QED
      BY <1>2, <1>4, FS_Union
  <1>6. Cardinality(Edges(n, S)) \in Nat /\ Cardinality(new) \in Nat
    BY <1>4, FS_CardinalityType
  <1> QED
    BY <1>1, <1>4, <1>5, <1>6, FS_EmptySet

(* Marking the elements of a finite set with a worker keeps their number.  *)
LEMMA MarkedSize ==
  ASSUME NEW w, NEW V, IsFiniteSet(V)
  PROVE  /\ IsFiniteSet({w} \X V)
         /\ Cardinality({w} \X V) = Cardinality(V)
         /\ Cardinality(V) \in Nat
PROOF
  <1>1. IsFiniteSet({w}) /\ Cardinality({w}) = 1
    BY FS_Singleton
  <1>2. /\ IsFiniteSet({w} \X V)
        /\ Cardinality({w} \X V) = Cardinality({w}) * Cardinality(V)
    BY <1>1, FS_Product
  <1>3. Cardinality(V) \in Nat
    BY FS_CardinalityType
  <1> QED
    BY <1>1, <1>2, <1>3

-----------------------------------------------------------------------------
(* How a cycle moves.                                                      *)

(* Which step leads to which await.                                        *)
LEMMA Arrives ==
  ASSUME TypeOK, NEW w \in Worker, Advance(w) \/ Falter(w)
  PROVE  /\ at'[w] = "lock" => Plan(w) \/ PlanBlind(w) \/ TakeStripe(w)
         /\ at'[w] = "create" => ReadFacts(w)
         /\ at'[w] = "update" => CreateFacts(w)
         /\ at'[w] = "support" => UpdateFacts(w)
         /\ at'[w] = "invalidate" =>
              \/ WireSupport(w) \/ RecordDrift(w) \/ SkipLinkOrDrift(w)
              \/ \E f \in Fact : SkipClose(w, f)
         /\ at'[w] = "link" => \E f \in Fact : CloseStale(w, f)
         /\ at'[w] = "drift" => LinkStale(w)
         /\ at'[w] = "merge" => FindEntity(w)
         /\ at'[w] = "count" => FindEntity(w) \/ MergeEntity(w)
PROOF
  <1>1. ASSUME NEW step, Goto(w, step) PROVE at'[w] = step
    BY <1>1 DEF Goto, TypeOK
  <1>2. ASSUME NEW rest, AfterStale(w, rest)
        PROVE at'[w] \in {"processed", "invalidate"}
    BY <1>1, <1>2 DEF AfterStale
  <1>3. ASSUME NEW step, NextBatch(w, step)
        PROVE at'[w] \in AuditEdge \cup {"idle"}
    BY <1>1, <1>3 DEF NextBatch
  <1>4. CASE Fetch(w)
    BY <1>1, <1>4 DEF Fetch
  <1>5. CASE Plan(w) \/ PlanBlind(w)
    BY <1>1, <1>5 DEF Plan, PlanBlind, PlanWith
  <1>0. CASE TakeStripe(w)
    BY <1>0 DEF TakeStripe
  <1>6. CASE ReadFacts(w)
    BY <1>1, <1>6 DEF ReadFacts
  <1>7. CASE CreateFacts(w)
    BY <1>1, <1>7 DEF CreateFacts
  <1>8. CASE UpdateFacts(w)
    BY <1>1, <1>8 DEF UpdateFacts
  <1>9. CASE WireSupport(w)
    BY <1>2, <1>9 DEF WireSupport
  <1>10. ASSUME NEW f \in Fact, CloseStale(w, f) PROVE at'[w] = "link"
    BY <1>1, <1>10 DEF CloseStale
  <1>11. ASSUME NEW f \in Fact, PanicOnClose(w, f) PROVE at'[w] = "panicked"
    BY <1>1, <1>11 DEF PanicOnClose
  <1>12. CASE LinkStale(w)
    BY <1>1, <1>12 DEF LinkStale
  <1>13. CASE RecordDrift(w) \/ SkipLinkOrDrift(w)
    BY <1>2, <1>13 DEF RecordDrift, SkipLinkOrDrift, NextStale
  <1>22. CASE FindEntity(w) \/ MergeEntity(w)
    BY <1>1, <1>22 DEF FindEntity, MergeEntity
  <1>14. ASSUME NEW f \in Fact, SkipClose(w, f)
         PROVE at'[w] \in {"processed", "invalidate"}
    BY <1>2, <1>14 DEF SkipClose
  <1>15. CASE MarkProcessed(w)
    BY <1>3, <1>15 DEF MarkProcessed, AuditEdge
  <1>16. ASSUME NEW kind \in AuditEdge, WireAudit(w, kind)
         PROVE at'[w] \in AuditEdge \cup {"idle"}
    BY <1>3, <1>16 DEF WireAudit
  <1>17. CASE Fail(w)
    BY <1>1, <1>17 DEF Fail
  <1>18. CASE \E f \in Fact : CloseStale(w, f)
    BY <1>10, <1>18
  <1>19. CASE \E f \in Fact : PanicOnClose(w, f)
    BY <1>11, <1>19
  <1>20. CASE \E f \in Fact : SkipClose(w, f)
    BY <1>14, <1>20
  <1>21. CASE \E kind \in AuditEdge : WireAudit(w, kind)
    BY <1>16, <1>21 DEF AuditEdge
  <1> QED
    BY <1>0, <1>4, <1>5, <1>6, <1>7, <1>8, <1>9, <1>12, <1>13, <1>15, <1>17,
       <1>18, <1>19, <1>20, <1>21, <1>22 DEF Advance, Proceed, Falter

(* What the counts of a Fact depend on.                                    *)
SameFact(f) ==
  fact'[f].count = fact[f].count /\ fact'[f].exists = fact[f].exists

(* Only the two writing phases of an upsert change a count or create.      *)
LEMMA WorkerFact ==
  ASSUME TypeOK, NEW w \in Worker, Advance(w) \/ Falter(w), NEW f \in Fact,
         CreateFacts(w) \/ UpdateFacts(w) => f \notin cycle[w].targets
  PROVE  SameFact(f)
PROOF
  <1>0. fact \in [Fact -> FactNode] /\ fact[f] \in FactNode
    BY DEF TypeOK, GraphTypeOK
  <1>1. CASE fact' = fact
    BY <1>1 DEF SameFact
  <1>2. CASE CreateFacts(w) \/ UpdateFacts(w)
    BY <1>2 DEF CreateFacts, UpdateFacts, SameFact
  <1>3. CASE \E g \in Fact : CloseStale(w, g)
    <2>1. PICK g \in Fact : CloseStale(w, g)
      BY <1>3
    <2>2. fact' = [fact EXCEPT ![g].open = FALSE,
                               ![g].definite = g \in cycle[w].definite]
      BY <2>1 DEF CloseStale
    <2>3. CASE f = g
      BY <1>0, <2>2, <2>3 DEF SameFact, FactNode
    <2>4. CASE f # g
      BY <1>0, <2>2, <2>4 DEF SameFact
    <2> QED
      BY <2>3, <2>4
  <1> QED
    BY <1>1, <1>2, <1>3
    DEF graphVars, Advance, Proceed, Falter, Fetch, Plan, PlanBlind, PlanWith, TakeStripe, ReadFacts,
        WireSupport, PanicOnClose, LinkStale, FindEntity, MergeEntity, RecordDrift, SkipLinkOrDrift,
        SkipClose, MarkProcessed, WireAudit, Fail

(* Neither does an operation on the evidence, nor does it touch an edge.   *)
LEMMA EvidenceFact ==
  ASSUME TypeOK, Evidence
  PROVE  /\ \A f \in Fact : SameFact(f)
         /\ support' = support
PROOF
  <1>0. fact \in [Fact -> FactNode]
    BY DEF TypeOK, GraphTypeOK
  <1>1. ASSUME NEW targets, CloseFacts(targets)
        PROVE  \A f \in Fact : SameFact(f)
    BY <1>0, <1>1 DEF CloseFacts, SameFact, FactNode
  <1>2. ASSUME NEW doomed, NEW forced, Erase(doomed, forced)
        PROVE  /\ \A f \in Fact : SameFact(f)
               /\ support' = support
    BY <1>1, <1>2 DEF Erase
  <1>3. ASSUME NEW m \in Message, ForgetMessage(m)
        PROVE  /\ \A f \in Fact : SameFact(f)
               /\ support' = support
    BY <1>0, <1>3 DEF ForgetMessage, SameFact, FactNode
  <1>4. ASSUME NEW g \in Fact, DateArrives(g)
        PROVE  /\ \A f \in Fact : SameFact(f)
               /\ support' = support
    BY <1>0, <1>4 DEF DateArrives, SameFact, FactNode
  <1>5. ASSUME NEW m \in Message, Observe(m)
        PROVE  /\ \A f \in Fact : SameFact(f)
               /\ support' = support
    BY <1>5 DEF Observe, SameFact
  <1>6. ASSUME NEW m \in Message, DeleteMessage(m)
        PROVE  /\ \A f \in Fact : SameFact(f)
               /\ support' = support
    BY <1>2, <1>6 DEF DeleteMessage
  <1>7. ASSUME NEW s \in Session, DeleteSession(s)
        PROVE  /\ \A f \in Fact : SameFact(f)
               /\ support' = support
    BY <1>2, <1>7 DEF DeleteSession
  <1>8. ASSUME NEW p \in Participant, ForgetParticipant(p)
        PROVE  /\ \A f \in Fact : SameFact(f)
               /\ support' = support
    BY <1>2, <1>8 DEF ForgetParticipant
  <1> QED
    BY <1>3, <1>4, <1>5, <1>6, <1>7, <1>8 DEF Evidence

-----------------------------------------------------------------------------
(* The locks: while a cycle holds the stripes of its targets, what it read *)
(* of them is what they are.                                               *)

ReadIsCurrent(w) ==
  \A f \in cycle[w].targets :
    \/ at[w] = "update" /\ f \in cycle[w].created
    \/ /\ cycle[w].seen[f].count = fact[f].count
       /\ cycle[w].seen[f].exists = fact[f].exists

(* A stripe has one holder; an upsert takes its own upwards and keeps them *)
(* till its last write; nobody else keeps one across a wait but a drift    *)
(* record that has looked its Entity up.                                   *)
StripeInv ==
  /\ \A v, w \in Worker : v # w => cycle[v].held \cap cycle[w].held = {}
  /\ \A w \in Worker :
       /\ at[w] = "lock" => \A i \in cycle[w].held, j \in Missing(w) : i < j
       /\ at[w] \in {"create", "update"} => Missing(w) = {}
       /\ at[w] \notin {"lock", "create", "update", "merge", "count"} =>
            cycle[w].held = {}

LockInv ==
  /\ StripeInv
  /\ \A w \in Worker :
       /\ at[w] \in {"create", "update"} => ReadIsCurrent(w)
       /\ at[w] = "update" => \A f \in cycle[w].targets : fact[f].exists
       /\ at[w] = "support" => \A f \in cycle[w].targets : fact[f].exists
  /\ \A f \in Fact : ~fact[f].exists => fact[f].count = 0

(* The step of a cycle keeps what StripeInv says of that cycle: it holds   *)
(* no more than before, or one stripe that was free.                       *)
LEMMA OwnStripes ==
  ASSUME TypeOK, StripeInv, NEW w \in Worker, Advance(w) \/ Falter(w)
  PROVE  /\ \A v \in Worker \ {w} : cycle[v].held \cap cycle'[w].held = {}
         /\ at'[w] = "lock" => \A i \in cycle'[w].held, j \in Missing(w)' : i < j
         /\ at'[w] \in {"create", "update"} => Missing(w)' = {}
         /\ at'[w] \notin {"lock", "create", "update", "merge", "count"} =>
              cycle'[w].held = {}
PROOF
  <1>a. /\ cycle \in [Worker -> Cycle] /\ cycle[w] \in Cycle
        /\ at \in [Worker -> Await]
    BY DEF TypeOK
  <1>b. \A v \in Worker \ {w} : cycle[v].held \cap cycle[w].held = {}
    BY DEF StripeInv
  <1>c. ASSUME NEW step, Goto(w, step) PROVE at'[w] = step
    BY <1>a, <1>c DEF Goto
  <1>d. ASSUME cycle'[w].held = {}, at'[w] \notin {"create", "update"}
        PROVE  /\ \A v \in Worker \ {w} : cycle[v].held \cap cycle'[w].held = {}
               /\ at'[w] = "lock" =>
                    \A i \in cycle'[w].held, j \in Missing(w)' : i < j
               /\ at'[w] \in {"create", "update"} => Missing(w)' = {}
               /\ at'[w] \notin {"lock", "create", "update", "merge", "count"} =>
                    cycle'[w].held = {}
    BY <1>d
  <1>1. CASE TakeStripe(w)
    <2>1. PICK i \in Missing(w) :
            /\ \A j \in Missing(w) : i <= j
            /\ Free(i)
            /\ cycle' = [cycle EXCEPT ![w].held = @ \cup {i}]
      BY <1>1 DEF TakeStripe
    <2>2. /\ cycle'[w].held = cycle[w].held \cup {i}
          /\ cycle'[w].targets = cycle[w].targets
          /\ at[w] = "lock" /\ at'[w] = "lock"
      BY <1>1, <1>a, <2>1 DEF TakeStripe, Cycle
    <2>3. \A v \in Worker \ {w} : i \notin cycle[v].held
      BY <2>1 DEF Free
    <2>4. Missing(w) \subseteq Nat
      BY <1>a, CycleAssumption DEF Missing, Cycle
    <2>5. Missing(w)' = Missing(w) \ {i}
      BY <2>2 DEF Missing
    <2>6. \A h \in cycle[w].held, j \in Missing(w) : h < j
      BY <2>2 DEF StripeInv
    <2>7. \A h \in cycle'[w].held, j \in Missing(w)' : h < j
      BY <2>1, <2>2, <2>4, <2>5, <2>6
    <2> QED
      BY <1>b, <2>2, <2>3, <2>7
  <1>2. CASE ReadFacts(w) \/ CreateFacts(w)
    <2>1. /\ cycle'[w].held = cycle[w].held
          /\ cycle'[w].targets = cycle[w].targets
          /\ at'[w] \in {"create", "update"}
          /\ Missing(w) = {}
      BY <1>2, <1>a, <1>c DEF ReadFacts, CreateFacts, Cycle, StripeInv
    <2> QED
      BY <1>b, <2>1 DEF Missing
  <1>3. CASE FindEntity(w)
    <2>1. PICK r \in Closing(w) :
            /\ Free(NameStripe[r])
            /\ cycle' = [cycle EXCEPT ![w].held = {NameStripe[r]}]
            /\ Goto(w, IF entity[r].exists THEN "count" ELSE "merge")
      BY <1>3 DEF FindEntity
    <2>2. cycle'[w].held = {NameStripe[r]} /\ at'[w] \in {"count", "merge"}
      BY <1>a, <1>c, <2>1 DEF Cycle
    <2> QED
      BY <2>1, <2>2 DEF Free
  <1>4. CASE MergeEntity(w)
    <2>1. cycle' = cycle /\ at'[w] = "count"
      BY <1>4, <1>c DEF MergeEntity
    <2> QED
      BY <1>b, <2>1
  <1>5. CASE UpdateFacts(w)
    <2>1. cycle'[w].held = {} /\ at'[w] = "support"
      BY <1>5, <1>a, <1>c DEF UpdateFacts, Cycle
    <2> QED
      BY <1>d, <2>1
  <1>6. CASE RecordDrift(w) \/ SkipLinkOrDrift(w)
    <2>1. cycle'[w].held = {} /\ at'[w] \in {"processed", "invalidate"}
      BY <1>6, <1>a, <1>c
      DEF RecordDrift, SkipLinkOrDrift, NextStale, AfterStale, Cycle
    <2> QED
      BY <1>d, <2>1
  <1>7. CASE Fetch(w) \/ Plan(w) \/ PlanBlind(w) \/ WireSupport(w) \/ LinkStale(w)
    <2>1. at[w] \in {"idle", "plan", "support", "link"}
      BY <1>7 DEF Fetch, Plan, PlanBlind, WireSupport, LinkStale
    <2>2. cycle'[w].held = cycle[w].held
      <3>1. CASE Plan(w) \/ PlanBlind(w)
        <4>1. PICK T, S, D : cycle' = [cycle EXCEPT ![w].targets = T,
                                                    ![w].stale = S,
                                                    ![w].definite = D]
          BY <3>1, Zenon DEF Plan, PlanBlind, PlanWith
        <4> QED
          BY <1>a, <4>1 DEF Cycle
      <3> QED
        BY <1>7, <1>a, <3>1 DEF Fetch, WireSupport, LinkStale, Cycle
    <2>3. at'[w] \in {"plan", "lock", "processed", "invalidate", "drift"}
      BY <1>7, <1>c
      DEF Fetch, Plan, PlanBlind, PlanWith, WireSupport, AfterStale, LinkStale
    <2> QED
      BY <1>d, <2>1, <2>2, <2>3 DEF StripeInv
  <1>8. ASSUME NEW f \in Fact, CloseStale(w, f) \/ SkipClose(w, f)
        PROVE  cycle'[w].held = {} /\ at'[w] \in {"link", "processed", "invalidate"}
    <2>1. at[w] = "invalidate" /\ cycle'[w].held = cycle[w].held
      BY <1>8, <1>a DEF CloseStale, SkipClose, Cycle
    <2>2. at'[w] \in {"link", "processed", "invalidate"}
      BY <1>8, <1>c DEF CloseStale, SkipClose, AfterStale
    <2> QED
      BY <2>1, <2>2 DEF StripeInv
  <1>9. CASE \E f \in Fact : CloseStale(w, f) \/ SkipClose(w, f)
    BY <1>8, <1>9, <1>d
  <1>10. CASE Fail(w) \/ \E f \in Fact : PanicOnClose(w, f)
    <2>1. cycle' = [cycle EXCEPT ![w] = NoCycle] /\ at'[w] \in {"idle", "panicked"}
      BY <1>10, <1>c DEF Fail, PanicOnClose
    <2>2. cycle'[w].held = {}
      BY <1>a, <2>1 DEF NoCycle
    <2> QED
      BY <1>d, <2>1, <2>2
  <1>11. ASSUME NEW step, NextBatch(w, step), cycle[w].held = {}
         PROVE  cycle'[w].held = {} /\ at'[w] \in AuditEdge \cup {"idle"}
    BY <1>11, <1>a, <1>c DEF NextBatch, NoCycle
  <1>12. CASE MarkProcessed(w) \/ \E kind \in AuditEdge : WireAudit(w, kind)
    <2>1. cycle[w].held = {}
      BY <1>12 DEF MarkProcessed, WireAudit, StripeInv, AuditEdge
    <2>2. \E step : NextBatch(w, step)
      BY <1>12 DEF MarkProcessed, WireAudit
    <2> QED
      BY <1>11, <1>d, <2>1, <2>2 DEF AuditEdge
  <1> QED
    BY <1>1, <1>2, <1>3, <1>4, <1>5, <1>6, <1>7, <1>9, <1>10, <1>12
    DEF Advance, Proceed, Falter

(* StripeInv is inductive.                                                 *)
LEMMA StripeInvStep ==
  ASSUME TypeOK, StripeInv, [Next]_vars
  PROVE  StripeInv'
PROOF
  <1>1. CASE at' = at /\ cycle' = cycle
    BY <1>1 DEF StripeInv, Missing
  <1>2. ASSUME NEW w \in Worker, Advance(w) \/ Falter(w) PROVE StripeInv'
    <2>1. ASSUME NEW v \in Worker, v # w
          PROVE  at'[v] = at[v] /\ cycle'[v] = cycle[v] /\ Missing(v)' = Missing(v)
      BY <1>2, <2>1, OtherCycles DEF Missing
    <2>2. \A v \in Worker \ {w} : cycle'[v].held \cap cycle'[w].held = {}
      BY <1>2, <2>1, OwnStripes
    <2>3. \A v, u \in Worker : v # u => cycle'[v].held \cap cycle'[u].held = {}
      BY <2>1, <2>2 DEF StripeInv
    <2>4. ASSUME NEW v \in Worker
          PROVE  /\ at'[v] = "lock" =>
                      \A i \in cycle'[v].held, j \in Missing(v)' : i < j
                 /\ at'[v] \in {"create", "update"} => Missing(v)' = {}
                 /\ at'[v] \notin {"lock", "create", "update", "merge", "count"} =>
                      cycle'[v].held = {}
      <3>1. CASE v = w
        BY <1>2, <3>1, OwnStripes
      <3>2. CASE v # w
        BY <2>1, <3>2 DEF StripeInv
      <3> QED
        BY <3>1, <3>2
    <2> QED
      BY <2>3, <2>4 DEF StripeInv
  <1> QED
    BY <1>1, <1>2 DEF Next, Recognize, vars, cycleVars

(* Two upserts that are writing have no target in common.                  *)
LEMMA TargetsApart ==
  ASSUME TypeOK, StripeInv, NEW v \in Worker, NEW w \in Worker, v # w,
         at[v] \in {"create", "update"}, at[w] \in {"create", "update"},
         NEW f \in cycle[v].targets
  PROVE  f \notin cycle[w].targets
PROOF
  <1>1. Missing(v) = {} /\ Missing(w) = {}
    BY DEF StripeInv
  <1>2. FactStripe[f] \in cycle[v].held
    BY <1>1 DEF Missing
  <1>3. f \in cycle[w].targets => FactStripe[f] \in cycle[w].held
    BY <1>1 DEF Missing
  <1> QED
    BY <1>2, <1>3 DEF StripeInv

(* Facts are never deleted.                                                *)
LEMMA FactsStay ==
  ASSUME TypeOK, NEW w \in Worker, Advance(w) \/ Falter(w),
         NEW f \in Fact, fact[f].exists
  PROVE  fact'[f].exists
PROOF
  <1>0. fact \in [Fact -> FactNode] /\ fact[f] \in FactNode
    BY DEF TypeOK, GraphTypeOK
  <1>1. CASE CreateFacts(w)
    BY <1>0, <1>1 DEF CreateFacts
  <1>2. CASE UpdateFacts(w)
    BY <1>0, <1>2 DEF UpdateFacts, Reinforced, FactNode
  <1> QED
    BY <1>1, <1>2, WorkerFact DEF SameFact

(* The step of a cycle keeps what LockInv says of that cycle.              *)
LEMMA OwnLock ==
  ASSUME TypeOK, LockInv, NEW w \in Worker, Advance(w) \/ Falter(w)
  PROVE  /\ at'[w] \in {"create", "update"} => ReadIsCurrent(w)'
         /\ at'[w] \in {"update", "support"} =>
              \A f \in cycle'[w].targets : fact'[f].exists
PROOF
  <1>a. /\ cycle \in [Worker -> Cycle] /\ cycle[w] \in Cycle
        /\ at \in [Worker -> Await]
        /\ fact \in [Fact -> FactNode]
    BY DEF TypeOK, GraphTypeOK
  <1>b. cycle[w].targets \subseteq Fact
    BY <1>a DEF Cycle
  <1>1. CASE ReadFacts(w)
    <2>1. cycle'[w].targets = cycle[w].targets
      BY <1>1, <1>a DEF TakeStripe, ReadFacts, Cycle
    <2>2. at'[w] = "create" /\ fact' = fact
      BY <1>1, <1>a DEF TakeStripe, ReadFacts, Goto, graphVars
    <2>3. \A f \in cycle[w].targets : cycle'[w].seen[f] = fact[f]
      BY <1>1, <1>a, <1>b DEF TakeStripe, ReadFacts, Cycle
    <2>4. ReadIsCurrent(w)'
      BY <2>1, <2>2, <2>3 DEF ReadIsCurrent
    <2> QED
      BY <2>2, <2>4
  <1>2. CASE CreateFacts(w)
    <2> DEFINE new == {f \in cycle[w].targets : ~cycle[w].seen[f].exists}
    <2>1. /\ cycle'[w].targets = cycle[w].targets
          /\ cycle'[w].seen = cycle[w].seen
          /\ cycle'[w].created = new
      BY <1>2, <1>a DEF CreateFacts, Cycle
    <2>2. at[w] = "create" /\ at'[w] = "update"
      BY <1>2, <1>a DEF CreateFacts, Goto
    <2>3. ASSUME NEW f \in cycle[w].targets, f \notin new
          PROVE  /\ cycle[w].seen[f].count = fact'[f].count
                 /\ cycle[w].seen[f].exists = fact'[f].exists
      <3>1. fact'[f] = fact[f]
        BY <1>2, <1>b, <2>3 DEF CreateFacts
      <3> QED
        BY <2>2, <3>1 DEF LockInv, ReadIsCurrent
    <2>4. ASSUME NEW f \in new PROVE fact'[f].exists
      BY <1>2, <1>b DEF CreateFacts
    <2>5. ReadIsCurrent(w)'
      BY <2>1, <2>2, <2>3 DEF ReadIsCurrent
    <2>6. \A f \in cycle'[w].targets : fact'[f].exists
      BY <2>1, <2>3, <2>4
    <2> QED
      BY <2>2, <2>5, <2>6 DEF LockInv
  <1>3. CASE UpdateFacts(w)
    <2>1. cycle'[w].targets = cycle[w].targets
      BY <1>3, <1>a DEF UpdateFacts, Cycle
    <2>2. at[w] = "update" /\ at'[w] = "support"
      BY <1>3, <1>a DEF UpdateFacts, Goto
    <2>3. \A f \in cycle[w].targets : fact[f].exists
      BY <2>2 DEF LockInv
    <2>4. \A f \in cycle'[w].targets : fact'[f].exists
      BY <1>b, <2>1, <2>3, FactsStay
    <2> QED
      BY <2>2, <2>4
  <1>4. CASE at'[w] \notin {"create", "update", "support"}
    BY <1>4
  <1> QED
    BY <1>1, <1>2, <1>3, <1>4, Arrives

(* LockInv is inductive.                                                   *)
LEMMA LockInvStep ==
  ASSUME TypeOK, LockInv, [Next]_vars
  PROVE  LockInv'
PROOF
  <1>0. StripeInv'
    BY StripeInvStep DEF LockInv
  <1>a. \A v \in Worker : cycle[v].targets \subseteq Fact
    BY DEF TypeOK, Cycle
  <1>1. ASSUME at' = at, cycle' = cycle, \A f \in Fact : SameFact(f)
        PROVE  LockInv'
    <2>2. \A v \in Worker : ReadIsCurrent(v) => ReadIsCurrent(v)'
      BY <1>1, <1>a DEF ReadIsCurrent, SameFact
    <2>3. \A v \in Worker : \A f \in cycle[v].targets :
            fact'[f].exists = fact[f].exists
      BY <1>1, <1>a DEF SameFact
    <2> QED
      BY <1>0, <1>1, <2>2, <2>3 DEF LockInv, SameFact
  <1>2. CASE Evidence /\ UNCHANGED cycleVars
    BY <1>1, <1>2, EvidenceFact DEF cycleVars
  <1>3. CASE UNCHANGED vars \/ \E s \in Subject : Recognize(s)
    BY <1>1, <1>3 DEF Recognize, vars, graphVars, cycleVars, SameFact
  <1>4. ASSUME NEW w \in Worker, Advance(w) \/ Falter(w)
        PROVE  LockInv'
    <2>1. ASSUME NEW v \in Worker, v # w
          PROVE at'[v] = at[v] /\ cycle'[v] = cycle[v]
      BY <1>4, <2>1, OtherCycles
    <2>2. ASSUME NEW v \in Worker, v # w, at[v] \in {"create", "update"}
          PROVE  ReadIsCurrent(v)'
      <3>1. ASSUME NEW f \in cycle[v].targets PROVE SameFact(f)
        <4>1. CreateFacts(w) \/ UpdateFacts(w) => f \notin cycle[w].targets
          BY <2>2, <3>1, TargetsApart DEF LockInv, CreateFacts, UpdateFacts
        <4> QED
          BY <1>4, <1>a, <3>1, <4>1, WorkerFact
      <3>2. at'[v] = at[v] /\ cycle'[v] = cycle[v]
        BY <2>1, <2>2
      <3> QED
        BY <2>2, <3>1, <3>2 DEF LockInv, ReadIsCurrent, SameFact
    <2>3. ASSUME NEW v \in Worker, v # w, at[v] \in {"update", "support"}
          PROVE  \A f \in cycle'[v].targets : fact'[f].exists
      <3>1. at'[v] = at[v] /\ cycle'[v] = cycle[v]
        BY <2>1, <2>3
      <3> QED
        BY <1>4, <1>a, <2>3, <3>1, FactsStay DEF LockInv
    <2>5. ASSUME NEW f \in Fact, ~fact'[f].exists PROVE fact'[f].count = 0
      <3>1. ~fact[f].exists
        BY <1>4, <2>5, FactsStay
      <3>2. CASE SameFact(f)
        BY <3>1, <3>2 DEF LockInv, SameFact
      <3>3. CASE ~SameFact(f)
        <4>1. f \in cycle[w].targets /\ (CreateFacts(w) \/ UpdateFacts(w))
          BY <1>4, <3>3, WorkerFact
        <4>2. CASE CreateFacts(w)
          <5>1. at[w] = "create" /\ ~cycle[w].seen[f].exists
            BY <3>1, <4>1, <4>2 DEF CreateFacts, LockInv, ReadIsCurrent
          <5>2. fact'[f].exists
            BY <4>1, <4>2, <5>1 DEF CreateFacts
          <5> QED
            BY <2>5, <5>2
        <4>3. CASE UpdateFacts(w)
          BY <3>1, <4>1, <4>3 DEF UpdateFacts, LockInv
        <4> QED
          BY <4>1, <4>2, <4>3
      <3> QED
        BY <3>2, <3>3
    <2>6. ASSUME NEW v \in Worker
          PROVE  /\ at'[v] \in {"create", "update"} => ReadIsCurrent(v)'
                 /\ at'[v] \in {"update", "support"} =>
                      \A f \in cycle'[v].targets : fact'[f].exists
      <3>1. CASE v = w
        BY <1>4, <3>1, OwnLock
      <3>2. CASE v # w
        BY <2>1, <2>2, <2>3, <3>2
      <3> QED
        BY <3>1, <3>2
    <2> QED
      BY <1>0, <2>5, <2>6 DEF LockInv
  <1> QED
    BY <1>2, <1>3, <1>4 DEF Next

-----------------------------------------------------------------------------
(* observation_count: the edges of a Fact, and those that are counted      *)
(* already but not yet wired.                                              *)

CountedFor(w, f) ==
  /\ f \in cycle[w].targets
  /\ at[w] = "support" \/ (at[w] = "update" /\ f \in cycle[w].created)

VotesFor(w, f) == Votes(cycle[w].batch, f[1])

Due(f) ==
  {d \in Worker \X Observation :
     CountedFor(d[1], f) /\ d[2] \in VotesFor(d[1], f)}

Wires(f) == Edges(support[f], Observation)

CountInv ==
  \A f \in Fact :
    /\ IsFiniteSet(Wires(f)) /\ IsFiniteSet(Due(f))
    /\ Cardinality(Wires(f)) + Cardinality(Due(f)) <= fact[f].count

(* The votes of a batch are finitely many observations.                    *)
LEMMA VotesFinite ==
  ASSUME TypeOK, NEW w \in Worker, NEW f \in Fact
  PROVE  /\ VotesFor(w, f) \subseteq Observation
         /\ IsFiniteSet(VotesFor(w, f))
         /\ Contribution(w, f) = Cardinality(VotesFor(w, f))
PROOF
  <1>1. VotesFor(w, f) \subseteq Observation
    BY DEF TypeOK, Cycle, Votes, VotesFor
  <1>2. IsFiniteSet(VotesFor(w, f))
    BY <1>1, GraphAssumption, FS_Subset
  <1> QED
    BY <1>1, <1>2 DEF Contribution, VotesFor

(* Nothing new is due: the bound stays.                                    *)
LEMMA DueShrinks ==
  ASSUME TypeOK, CountInv, NEW f \in Fact, SameFact(f),
         support'[f] = support[f], Due(f)' \subseteq Due(f)
  PROVE  /\ IsFiniteSet(Wires(f)') /\ IsFiniteSet(Due(f)')
         /\ Cardinality(Wires(f)') + Cardinality(Due(f)') <= fact'[f].count
PROOF
  <1>1. Wires(f)' = Wires(f)
    BY DEF Wires, Edges
  <1>2. IsFiniteSet(Due(f)') /\ Cardinality(Due(f)') <= Cardinality(Due(f))
    BY FS_Subset DEF CountInv
  <1>3. /\ Cardinality(Due(f)') \in Nat /\ Cardinality(Due(f)) \in Nat
        /\ Cardinality(Wires(f)) \in Nat
    BY <1>2, FS_CardinalityType DEF CountInv
  <1>4. fact[f].count \in Nat
    BY DEF TypeOK, GraphTypeOK, FactNode
  <1>5. Cardinality(Wires(f)) + Cardinality(Due(f)) <= fact[f].count
    BY DEF CountInv
  <1>6. fact'[f].count = fact[f].count
    BY DEF SameFact
  <1> QED
    BY <1>1, <1>2, <1>3, <1>4, <1>5, <1>6 DEF CountInv

(* What is due after the step of a cycle differs by its own share.         *)
LEMMA DueOfOthers ==
  ASSUME TypeOK, NEW w \in Worker, Advance(w) \/ Falter(w), NEW f \in Fact
  PROVE  \A d \in Worker \X Observation :
           d[1] # w => (d \in Due(f)' <=> d \in Due(f))
PROOF
  <1>1. ASSUME NEW v \in Worker, v # w
        PROVE  /\ CountedFor(v, f)' <=> CountedFor(v, f)
               /\ VotesFor(v, f)' = VotesFor(v, f)
    <2>1. at'[v] = at[v] /\ cycle'[v] = cycle[v]
      BY <1>1, OtherCycles
    <2> QED
      BY <2>1 DEF CountedFor, VotesFor, Votes
  <1> QED
    BY <1>1 DEF Due

(* What a cycle counts it owes: creating a Fact.                           *)
LEMMA CountOnCreate ==
  ASSUME TypeOK, LockInv, CountInv, NEW w \in Worker, CreateFacts(w),
         NEW f \in cycle[w].targets, ~cycle[w].seen[f].exists
  PROVE  /\ IsFiniteSet(Wires(f)') /\ IsFiniteSet(Due(f)')
         /\ Cardinality(Wires(f)') + Cardinality(Due(f)') <= fact'[f].count
PROOF
  <1>a. /\ f \in Fact
        /\ cycle \in [Worker -> Cycle] /\ at \in [Worker -> Await]
        /\ Advance(w)
    BY DEF TypeOK, Cycle, Advance, Proceed
  <1>b. at[w] = "create" /\ at'[w] = "update" /\ support' = support
    BY <1>a DEF CreateFacts, Goto
  <1>c. /\ cycle'[w].targets = cycle[w].targets
        /\ cycle'[w].batch = cycle[w].batch
        /\ f \in cycle'[w].created
    BY <1>a DEF CreateFacts, Cycle
  <1>1. fact[f].count = 0
    BY <1>a, <1>b DEF LockInv, ReadIsCurrent
  <1>2. Cardinality(Wires(f)) = 0 /\ Due(f) = {}
    <2>1. Cardinality(Wires(f)) \in Nat /\ Cardinality(Due(f)) \in Nat
      BY <1>a, FS_CardinalityType DEF CountInv
    <2>2. Cardinality(Wires(f)) + Cardinality(Due(f)) <= 0
      BY <1>1, <1>a DEF CountInv
    <2>3. Cardinality(Wires(f)) = 0 /\ Cardinality(Due(f)) = 0
      BY <2>1, <2>2
    <2> QED
      BY <1>a, <2>3, FS_EmptySet DEF CountInv
  <1>3. Wires(f)' = Wires(f)
    BY <1>b DEF Wires, Edges
  <1>4. Due(f)' = {w} \X VotesFor(w, f)
    <2>1. CountedFor(w, f)' /\ VotesFor(w, f)' = VotesFor(w, f)
      BY <1>b, <1>c DEF CountedFor, VotesFor, Votes
    <2>2. \A o \in Observation :
            <<w, o>> \in Due(f)' <=> o \in VotesFor(w, f)
      BY <2>1 DEF Due
    <2>3. \A d \in Worker \X Observation : d[1] # w => d \notin Due(f)'
      BY <1>2, <1>a, DueOfOthers
    <2>4. VotesFor(w, f) \subseteq Observation
      BY <1>a, VotesFinite
    <2>5. Due(f)' \subseteq Worker \X Observation
      BY DEF Due
    <2> HIDE DEF Due
    <2> QED
      BY <2>2, <2>3, <2>4, <2>5
  <1>5. /\ IsFiniteSet(Due(f)')
        /\ Cardinality(Due(f)') = Contribution(w, f)
        /\ Contribution(w, f) \in Nat
    <2>1. /\ IsFiniteSet(VotesFor(w, f))
          /\ Contribution(w, f) = Cardinality(VotesFor(w, f))
      BY <1>a, VotesFinite
    <2>2. /\ IsFiniteSet({w} \X VotesFor(w, f))
          /\ Cardinality({w} \X VotesFor(w, f)) = Cardinality(VotesFor(w, f))
          /\ Cardinality(VotesFor(w, f)) \in Nat
      BY <2>1, MarkedSize
    <2> HIDE DEF Due
    <2> QED
      BY <1>4, <2>1, <2>2
  <1>6. fact'[f].count = Contribution(w, f)
    BY <1>a DEF CreateFacts
  <1> QED
    BY <1>2, <1>3, <1>5, <1>6, <1>a DEF CountInv

(* The same when it reinforces one.                                        *)
LEMMA CountOnUpdate ==
  ASSUME TypeOK, LockInv, CountInv, NEW w \in Worker, UpdateFacts(w),
         NEW f \in cycle[w].targets, f \notin cycle[w].created
  PROVE  /\ IsFiniteSet(Wires(f)') /\ IsFiniteSet(Due(f)')
         /\ Cardinality(Wires(f)') + Cardinality(Due(f)') <= fact'[f].count
PROOF
  <1>a. /\ f \in Fact
        /\ cycle \in [Worker -> Cycle] /\ at \in [Worker -> Await]
        /\ Advance(w)
    BY DEF TypeOK, Cycle, Advance, Proceed
  <1>b. at[w] = "update" /\ at'[w] = "support" /\ support' = support
    BY <1>a DEF UpdateFacts, Goto
  <1>c. /\ cycle'[w].targets = cycle[w].targets
        /\ cycle'[w].batch = cycle[w].batch
    BY <1>a DEF UpdateFacts, Cycle
  <1>1. Wires(f)' = Wires(f)
    BY <1>b DEF Wires, Edges
  <1>2. ~CountedFor(w, f)
    BY <1>b DEF CountedFor
  <1>3. CountedFor(w, f)' /\ VotesFor(w, f)' = VotesFor(w, f)
    BY <1>b, <1>c DEF CountedFor, VotesFor, Votes
  <1>4. Due(f)' = Due(f) \cup ({w} \X VotesFor(w, f))
    <2>1. \A o \in Observation :
            <<w, o>> \in Due(f)' <=> o \in VotesFor(w, f)
      BY <1>3 DEF Due
    <2>2. \A o \in Observation : <<w, o>> \notin Due(f)
      BY <1>2 DEF Due
    <2>3. VotesFor(w, f) \subseteq Observation
      BY <1>a, VotesFinite
    <2>4. Due(f) \subseteq Worker \X Observation
      BY DEF Due
    <2>5. Due(f)' \subseteq Worker \X Observation
      BY DEF Due
    <2>6. \A d \in Worker \X Observation :
            d[1] # w => (d \in Due(f)' <=> d \in Due(f))
      BY <1>a, DueOfOthers
    <2> HIDE DEF Due
    <2> QED
      BY <2>1, <2>2, <2>3, <2>4, <2>5, <2>6
  <1>5. Due(f) \cap ({w} \X VotesFor(w, f)) = {}
    BY <1>2 DEF Due
  <1>6. /\ IsFiniteSet({w} \X VotesFor(w, f))
        /\ Cardinality({w} \X VotesFor(w, f)) = Contribution(w, f)
        /\ Contribution(w, f) \in Nat
    BY <1>a, VotesFinite, MarkedSize
  <1>7. IsFiniteSet(Due(f)) /\ Cardinality(Due(f)) \in Nat
    BY <1>a, FS_CardinalityType DEF CountInv
  <1>8. /\ IsFiniteSet(Due(f)')
        /\ Cardinality(Due(f)') = Cardinality(Due(f)) + Contribution(w, f)
    BY <1>4, <1>5, <1>6, <1>7, FS_Union, FS_EmptySet
  <1>9. fact'[f].count = fact[f].count + Contribution(w, f)
    <2>1. cycle[w].seen[f].count = fact[f].count
      BY <1>b DEF LockInv, ReadIsCurrent
    <2>2. fact'[f] = Reinforced(w, f)
      BY <1>a DEF UpdateFacts
    <2>3. fact[f] \in FactNode
      BY <1>a DEF TypeOK, GraphTypeOK
    <2> QED
      BY <2>1, <2>2, <2>3 DEF Reinforced, FactNode
  <1>10. Cardinality(Wires(f)) \in Nat /\ IsFiniteSet(Wires(f))
    BY <1>a, FS_CardinalityType DEF CountInv
  <1>11. /\ Cardinality(Wires(f)) + Cardinality(Due(f)) <= fact[f].count
         /\ fact[f].count \in Nat
    BY <1>a DEF CountInv, TypeOK, GraphTypeOK, FactNode
  <1> QED
    BY <1>1, <1>6, <1>7, <1>8, <1>9, <1>10, <1>11

(* Wiring pays what is due.                                                *)
LEMMA CountOnWire ==
  ASSUME TypeOK, CountInv, NEW w \in Worker, WireSupport(w),
         NEW f \in cycle[w].targets
  PROVE  /\ IsFiniteSet(Wires(f)') /\ IsFiniteSet(Due(f)')
         /\ Cardinality(Wires(f)') + Cardinality(Due(f)') <= fact'[f].count
PROOF
  <1>a. /\ f \in Fact
        /\ cycle \in [Worker -> Cycle] /\ at \in [Worker -> Await]
        /\ Advance(w)
    BY DEF TypeOK, Cycle, Advance, Proceed
  <1>b. /\ at[w] = "support" /\ at'[w] \notin {"support", "update"}
        /\ fact' = fact
    BY <1>a DEF WireSupport, AfterStale, Goto
  <1>1. /\ IsFiniteSet(Wires(f)')
        /\ Cardinality(Wires(f)') = Cardinality(Wires(f)) + Contribution(w, f)
        /\ Contribution(w, f) \in Nat
    <2>1. \A o \in Observation :
            support'[f][o] = IF o \in VotesFor(w, f) THEN support[f][o] + 1
                                                     ELSE support[f][o]
      BY <1>a DEF WireSupport, RestsOn, VotesFor
    <2>2. \A o \in Observation : support[f][o] \in Nat
      BY <1>a DEF TypeOK, GraphTypeOK
    <2>3. IsFiniteSet(Edges(support[f], Observation))
      BY <1>a DEF CountInv, Wires
    <2>4. /\ VotesFor(w, f) \subseteq Observation
          /\ IsFiniteSet(VotesFor(w, f))
          /\ Contribution(w, f) = Cardinality(VotesFor(w, f))
      BY <1>a, VotesFinite
    <2>5. /\ IsFiniteSet(Edges(support'[f], Observation))
          /\ Cardinality(Edges(support'[f], Observation))
               = Cardinality(Edges(support[f], Observation))
                 + Cardinality(VotesFor(w, f))
      BY <2>1, <2>2, <2>3, <2>4, EdgesGrow
    <2>6. Contribution(w, f) \in Nat
      BY <2>4, FS_CardinalityType
    <2>7. Wires(f)' = Edges(support'[f], Observation)
      BY DEF Wires, Edges
    <2> QED
      BY <2>4, <2>5, <2>6, <2>7 DEF Wires
  <1>2. /\ CountedFor(w, f) /\ ~CountedFor(w, f)'
    BY <1>b DEF CountedFor
  <1>3. Due(f)' = Due(f) \ ({w} \X VotesFor(w, f))
    <2>1. \A o \in Observation : <<w, o>> \notin Due(f)'
      BY <1>2 DEF Due
    <2>2. \A o \in Observation :
            <<w, o>> \in Due(f) <=> o \in VotesFor(w, f)
      BY <1>2 DEF Due
    <2>3. Due(f) \subseteq Worker \X Observation
      BY DEF Due
    <2>4. Due(f)' \subseteq Worker \X Observation
      BY DEF Due
    <2>5. \A d \in Worker \X Observation :
            d[1] # w => (d \in Due(f)' <=> d \in Due(f))
      BY <1>a, DueOfOthers
    <2> HIDE DEF Due
    <2> QED
      BY <2>1, <2>2, <2>3, <2>4, <2>5
  <1>4. Due(f) \cap ({w} \X VotesFor(w, f)) = {w} \X VotesFor(w, f)
    <2>1. VotesFor(w, f) \subseteq Observation
      BY <1>a, VotesFinite
    <2> QED
      BY <1>2, <2>1 DEF Due
  <1>5. Cardinality({w} \X VotesFor(w, f)) = Contribution(w, f)
    BY <1>a, VotesFinite, MarkedSize
  <1>6. IsFiniteSet(Due(f)) /\ Cardinality(Due(f)) \in Nat
    BY <1>a, FS_CardinalityType DEF CountInv
  <1>7. /\ IsFiniteSet(Due(f)')
        /\ Cardinality(Due(f)') = Cardinality(Due(f)) - Contribution(w, f)
    <2> DEFINE D == Due(f)
               P == {w} \X VotesFor(w, f)
    <2>1. IsFiniteSet(D)
      BY <1>6
    <2>2. D \cap P = P /\ Cardinality(P) = Contribution(w, f) /\ Due(f)' = D \ P
      BY <1>3, <1>4, <1>5
    <2> HIDE DEF D, P
    <2>3. /\ IsFiniteSet(D \ P)
          /\ Cardinality(D \ P) = Cardinality(D) - Cardinality(D \cap P)
      BY <2>1, FS_Difference
    <2> QED
      BY <2>2, <2>3 DEF D
  <1>8. /\ Cardinality(Wires(f)) \in Nat
        /\ Cardinality(Wires(f)) + Cardinality(Due(f)) <= fact[f].count
        /\ fact[f].count \in Nat
    BY <1>a, FS_CardinalityType DEF CountInv, TypeOK, GraphTypeOK, FactNode
  <1> QED
    BY <1>1, <1>6, <1>7, <1>8, <1>b

(* Any other step makes nothing due.                                       *)
LEMMA NothingNewDue ==
  ASSUME TypeOK, NEW w \in Worker, Advance(w) \/ Falter(w), NEW f \in Fact,
         CreateFacts(w) =>
           f \notin cycle[w].targets \/ cycle[w].seen[f].exists,
         UpdateFacts(w) =>
           f \notin cycle[w].targets \/ f \in cycle[w].created
  PROVE  Due(f)' \subseteq Due(f)
PROOF
  <1>a. cycle \in [Worker -> Cycle] /\ at \in [Worker -> Await]
    BY DEF TypeOK
  <1>1. ~CountedFor(w, f)' \/ UpdateFacts(w)
    <2>1. CASE at'[w] = "update"
      <3>1. CreateFacts(w)
        BY <2>1, Arrives
      <3>2. /\ cycle'[w].created
                = {g \in cycle[w].targets : ~cycle[w].seen[g].exists}
        BY <3>1, <1>a DEF CreateFacts, Cycle
      <3> QED
        BY <2>1, <3>1, <3>2 DEF CountedFor
    <2>2. CASE at'[w] = "support"
      BY <2>2, Arrives
    <2>3. CASE at'[w] \notin {"update", "support"}
      BY <2>3 DEF CountedFor
    <2> QED
      BY <2>1, <2>2, <2>3
  <1>2. ASSUME UpdateFacts(w), CountedFor(w, f)'
        PROVE CountedFor(w, f) /\ VotesFor(w, f)' = VotesFor(w, f)
    <2>1. at[w] = "update" /\ cycle'[w].targets = cycle[w].targets
          /\ cycle'[w].batch = cycle[w].batch
      BY <1>2, <1>a DEF UpdateFacts, Cycle
    <2> QED
      BY <1>2, <2>1 DEF CountedFor, VotesFor, Votes
  <1>3. \A d \in Worker \X Observation :
          d[1] # w => (d \in Due(f)' <=> d \in Due(f))
    BY DueOfOthers
  <1>4. ASSUME NEW d \in Worker \X Observation, d[1] = w, d \in Due(f)'
        PROVE  d \in Due(f)
    BY <1>1, <1>2, <1>4 DEF Due
  <1> QED
    BY <1>3, <1>4 DEF Due

(* CountInv is inductive, given the locks.                                 *)
LEMMA CountInvStep ==
  ASSUME TypeOK, LockInv, CountInv, [Next]_vars
  PROVE  CountInv'
PROOF
  <1>a. ASSUME NEW f \in Fact, at' = at, cycle' = cycle
        PROVE Due(f)' = Due(f)
    BY <1>a DEF Due, CountedFor, VotesFor, Votes
  <1>1. CASE Evidence /\ UNCHANGED cycleVars
    BY <1>1, <1>a, EvidenceFact, DueShrinks DEF CountInv, cycleVars
  <1>2. CASE UNCHANGED vars \/ \E s \in Subject : Recognize(s)
    BY <1>2, <1>a, DueShrinks
    DEF CountInv, Recognize, vars, graphVars, cycleVars, SameFact
  <1>3. ASSUME NEW w \in Worker, Advance(w) \/ Falter(w), NEW f \in Fact
        PROVE  /\ IsFiniteSet(Wires(f)') /\ IsFiniteSet(Due(f)')
               /\ Cardinality(Wires(f)') + Cardinality(Due(f)')
                    <= fact'[f].count
    <2>1. CASE CreateFacts(w) /\ f \in cycle[w].targets
                              /\ ~cycle[w].seen[f].exists
      BY <2>1, CountOnCreate
    <2>2. CASE UpdateFacts(w) /\ f \in cycle[w].targets
                              /\ f \notin cycle[w].created
      BY <2>2, CountOnUpdate
    <2>3. CASE WireSupport(w) /\ f \in cycle[w].targets
      BY <2>3, CountOnWire
    <2>4. ASSUME ~(CreateFacts(w) /\ f \in cycle[w].targets
                                  /\ ~cycle[w].seen[f].exists),
                 ~(UpdateFacts(w) /\ f \in cycle[w].targets
                                  /\ f \notin cycle[w].created),
                 ~(WireSupport(w) /\ f \in cycle[w].targets)
          PROVE  /\ IsFiniteSet(Wires(f)') /\ IsFiniteSet(Due(f)')
                 /\ Cardinality(Wires(f)') + Cardinality(Due(f)')
                      <= fact'[f].count
      <3>1. Due(f)' \subseteq Due(f)
        BY <1>3, <2>4, NothingNewDue
      <3>2. SameFact(f)
        <4>1. CASE CreateFacts(w)
          BY <2>4, <4>1 DEF CreateFacts, SameFact
        <4>2. CASE UpdateFacts(w)
          BY <2>4, <4>2 DEF UpdateFacts, SameFact
        <4> QED
          BY <1>3, <4>1, <4>2, WorkerFact
      <3>3. support'[f] = support[f]
        <4>1. CASE WireSupport(w)
          <5>1. \A o \in Observation : support'[f][o] = support[f][o]
            BY <2>4, <4>1 DEF WireSupport, RestsOn
          <5>2. /\ support[f] \in [Observation -> Nat]
                /\ support'[f] \in [Observation -> Nat]
            BY <1>3, WorkerTypeOK DEF TypeOK, GraphTypeOK
          <5> QED
            BY <5>1, <5>2
        <4>2. CASE support' = support
          BY <4>2
        <4> QED
          BY <1>3, <4>1, <4>2
          DEF graphVars, Advance, Proceed, Falter, Fetch, Plan, PlanBlind, PlanWith,
              TakeStripe, ReadFacts, CreateFacts, UpdateFacts, CloseStale, PanicOnClose,
              LinkStale, FindEntity, MergeEntity, RecordDrift, SkipLinkOrDrift, SkipClose,
              MarkProcessed, WireAudit, Fail
      <3> QED
        BY <3>1, <3>2, <3>3, DueShrinks
    <2> QED
      BY <2>1, <2>2, <2>3, <2>4
  <1> QED
    BY <1>1, <1>2, <1>3 DEF Next, CountInv

-----------------------------------------------------------------------------
(* Replacements: what a cycle is about to invalidate has a rival among its *)
(* own targets, which by then exists and has been given evidence.          *)

Rivaled(f) ==
  \E g \in Fact \ {f} :
    /\ g[1] = f[1]
    /\ fact[g].exists
    /\ \E o \in Observation : support[g][o] > 0

Outnumbered(w) ==
  \A f \in cycle[w].stale :
    f \notin cycle[w].targets /\ Votes(cycle[w].batch, f[1]) # {}

RivalInv ==
  /\ ReplacementIsSupported
  /\ \A w \in Worker :
       /\ at[w] \in {"lock", "create", "update", "support"} => Outnumbered(w)
       /\ at[w] \in {"invalidate", "link", "drift", "merge", "count"} =>
            /\ cycle[w].closing \subseteq cycle[w].stale
            /\ \A f \in cycle[w].stale : Rivaled(f)
       /\ at[w] \in {"idle", "plan", "lock", "create", "update", "support",
                     "invalidate"} => cycle[w].closing = {}

(* A rival stays one.                                                      *)
LEMMA RivalsStay ==
  ASSUME TypeOK, [Next]_vars, NEW f \in Fact, Rivaled(f)
  PROVE  Rivaled(f)'
PROOF
  <1>1. PICK g \in Fact \ {f}, o \in Observation :
          g[1] = f[1] /\ fact[g].exists /\ support[g][o] > 0
    BY DEF Rivaled
  <1>2. fact'[g].exists
    <2>1. CASE Evidence /\ UNCHANGED cycleVars
      BY <1>1, <2>1, EvidenceFact DEF SameFact
    <2>2. ASSUME NEW w \in Worker, Advance(w) \/ Falter(w) PROVE fact'[g].exists
      BY <1>1, <2>2, FactsStay
    <2>3. CASE UNCHANGED vars \/ \E s \in Subject : Recognize(s)
      BY <1>1, <2>3 DEF Recognize, vars, graphVars
    <2> QED
      BY <2>1, <2>2, <2>3 DEF Next
  <1>3. support'[g][o] > 0
    <2>1. support'[g][o] >= support[g][o]
      BY <1>1, SupportGrows
    <2>2. support[g][o] \in Nat /\ support'[g][o] \in Nat
      BY EvidenceTypeOK, WorkerTypeOK
      DEF Next, Recognize, TypeOK, GraphTypeOK, vars, graphVars
    <2> QED
      BY <1>1, <2>1, <2>2
  <1> QED
    BY <1>1, <1>2, <1>3 DEF Rivaled

(* The step of a cycle keeps what RivalInv says of that cycle.             *)
LEMMA OwnRivals ==
  ASSUME TypeOK, LockInv, EvidenceInv, RivalInv,
         NEW w \in Worker, Advance(w) \/ Falter(w)
  PROVE  /\ at'[w] \in {"lock", "create", "update", "support"} => Outnumbered(w)'
         /\ at'[w] \in {"invalidate", "link", "drift", "merge", "count"} =>
              /\ cycle'[w].closing \subseteq cycle'[w].stale
              /\ \A f \in cycle'[w].stale : Rivaled(f)'
         /\ at'[w] \in {"idle", "plan", "lock", "create", "update", "support",
                       "invalidate"} => cycle'[w].closing = {}
PROOF
  <1> DEFINE Early == {"idle", "plan", "lock", "create", "update", "support",
                       "invalidate"}
  <1>a. /\ cycle \in [Worker -> Cycle] /\ cycle[w] \in Cycle
        /\ at \in [Worker -> Await]
    BY DEF TypeOK
  <1>b. \A f \in Fact : Rivaled(f) => Rivaled(f)'
    BY RivalsStay DEF Next
  <1>c. cycle[w].stale \subseteq Fact /\ cycle[w].batch \subseteq Observation
        /\ cycle[w].targets \subseteq Fact
    BY <1>a DEF Cycle
  <1>d. ASSUME NEW step, Goto(w, step) PROVE at'[w] = step
    BY <1>a, <1>d DEF Goto
  <1>1. CASE Fetch(w)
    <2>1. at'[w] = "plan" /\ cycle'[w].closing = cycle[w].closing
      BY <1>1, <1>a, <1>d DEF Fetch, Cycle
    <2>2. at[w] = "idle"
      BY <1>1 DEF Fetch
    <2> QED
      BY <2>1, <2>2 DEF RivalInv
  <1>2. CASE Plan(w) \/ PlanBlind(w)
    <2>1. PICK priors : PlanWith(w, priors)
      BY <1>2 DEF Plan, PlanBlind
    <2>2. PICK T \in Targets(cycle[w].batch) :
            /\ cycle'[w].targets = T
            /\ cycle'[w].stale = StaleFacts(cycle[w].batch, priors, T)
            /\ cycle'[w].batch = cycle[w].batch
            /\ cycle'[w].closing = cycle[w].closing
      BY <2>1, <1>a DEF PlanWith, Cycle
    <2>3. at'[w] = "lock" /\ at[w] = "plan"
      BY <1>2, <2>1, <1>d DEF Plan, PlanBlind, PlanWith
    <2>4. \A f \in cycle'[w].stale :
            f \notin T /\ Votes(cycle[w].batch, f[1]) # {}
      BY <2>2 DEF StaleFacts, Outvoted, Voiced
    <2> QED
      BY <2>2, <2>3, <2>4 DEF RivalInv, Outnumbered
  <1>3. CASE TakeStripe(w) \/ ReadFacts(w) \/ CreateFacts(w) \/ UpdateFacts(w)
    <2>1. /\ cycle'[w].targets = cycle[w].targets
          /\ cycle'[w].stale = cycle[w].stale
          /\ cycle'[w].batch = cycle[w].batch
          /\ cycle'[w].closing = cycle[w].closing
      BY <1>3, <1>a DEF TakeStripe, ReadFacts, CreateFacts, UpdateFacts, Cycle
    <2>2. /\ at[w] \in {"lock", "create", "update"}
          /\ at'[w] \in {"lock", "create", "update", "support"}
      BY <1>3, <1>d DEF TakeStripe, ReadFacts, CreateFacts, UpdateFacts
    <2> QED
      BY <2>1, <2>2 DEF RivalInv, Outnumbered
  <1>4. CASE WireSupport(w)
    <2>1. cycle' = cycle /\ fact' = fact /\ at[w] = "support"
      BY <1>4 DEF WireSupport
    <2>2. at'[w] \in {"processed", "invalidate"}
      BY <1>4, <1>d DEF WireSupport, AfterStale
    <2>3. ASSUME NEW f \in cycle[w].stale PROVE Rivaled(f)'
      <3>1. PICK o \in Votes(cycle[w].batch, f[1]) : TRUE
        BY <2>1 DEF RivalInv, Outnumbered
      <3>2. o \in cycle[w].batch /\ PairOf[o] = f[1] /\ o \in Observation
        BY <3>1, <1>c DEF Votes
      <3>3. PICK g \in cycle[w].targets : g[1] = PairOf[o]
        BY <2>1, <3>2 DEF EvidenceInv, Covered
      <3>4. g \in Fact \ {f} /\ g[1] = f[1]
        BY <1>c, <2>1, <3>2, <3>3 DEF RivalInv, Outnumbered
      <3>5. fact'[g].exists
        BY <2>1, <3>3 DEF LockInv
      <3>6. support'[g][o] = support[g][o] + 1
        BY <1>4, <3>2, <3>3, <3>4 DEF WireSupport, RestsOn, Votes
      <3>7. support[g][o] \in Nat
        BY <3>2, <3>4 DEF TypeOK, GraphTypeOK
      <3>8. support'[g][o] > 0
        BY <3>6, <3>7
      <3> QED
        BY <3>2, <3>4, <3>5, <3>8 DEF Rivaled
    <2> QED
      BY <2>1, <2>2, <2>3 DEF RivalInv
  <1>5. ASSUME NEW f \in Fact, CloseStale(w, f)
        PROVE  /\ at'[w] = "link" /\ at[w] = "invalidate"
               /\ cycle'[w].closing \subseteq cycle'[w].stale
               /\ cycle'[w].stale = cycle[w].stale
    BY <1>5, <1>a, <1>d DEF CloseStale, Cycle
  <1>6. CASE \E f \in Fact : CloseStale(w, f)
    BY <1>b, <1>c, <1>5, <1>6 DEF RivalInv
  <1>7. ASSUME NEW f \in Fact, SkipClose(w, f)
        PROVE  /\ at'[w] \in {"processed", "invalidate"} /\ at[w] = "invalidate"
               /\ cycle'[w].closing = cycle[w].closing
               /\ cycle'[w].stale \subseteq cycle[w].stale
    BY <1>7, <1>a, <1>d DEF SkipClose, AfterStale, Cycle
  <1>8. CASE \E f \in Fact : SkipClose(w, f)
    BY <1>b, <1>c, <1>7, <1>8 DEF RivalInv
  <1>9. CASE LinkStale(w)
    <2>1. /\ at'[w] = "drift" /\ at[w] = "link"
          /\ cycle'[w].closing = cycle[w].closing
          /\ cycle'[w].stale = cycle[w].stale
      BY <1>9, <1>a, <1>d DEF LinkStale, Cycle
    <2> QED
      BY <1>b, <1>c, <2>1 DEF RivalInv
  <1>18. CASE FindEntity(w) \/ MergeEntity(w)
    <2>1. /\ at[w] \in {"drift", "merge"} /\ at'[w] \in {"merge", "count"}
          /\ cycle'[w].closing = cycle[w].closing
          /\ cycle'[w].stale = cycle[w].stale
      BY <1>18, <1>a, <1>d DEF FindEntity, MergeEntity, Cycle
    <2> QED
      BY <1>b, <1>c, <2>1 DEF RivalInv
  <1>10. CASE RecordDrift(w) \/ SkipLinkOrDrift(w)
    <2>1. at[w] \in {"link", "drift", "merge", "count"} /\ NextStale(w)
      BY <1>10 DEF RecordDrift, SkipLinkOrDrift
    <2>2. /\ at'[w] \in {"processed", "invalidate"}
          /\ cycle'[w].closing = {}
          /\ cycle'[w].stale \subseteq cycle[w].stale
      BY <1>a, <1>d, <2>1 DEF NextStale, AfterStale, Cycle
    <2> QED
      BY <1>b, <1>c, <2>1, <2>2 DEF RivalInv
  <1>11. CASE Fail(w)
    BY <1>11, <1>a, <1>d DEF Fail, NoCycle
  <1>12. ASSUME NEW f \in Fact, PanicOnClose(w, f)
         PROVE  at'[w] = "panicked"
    BY <1>12, <1>d DEF PanicOnClose
  <1>13. CASE \E f \in Fact : PanicOnClose(w, f)
    BY <1>12, <1>13
  <1>14. ASSUME NEW step, NextBatch(w, step)
         PROVE  \/ at'[w] \in AuditEdge
                \/ at'[w] = "idle" /\ cycle'[w].closing = {}
    BY <1>14, <1>a, <1>d DEF NextBatch, NoCycle
  <1>15. CASE MarkProcessed(w)
    BY <1>14, <1>15 DEF MarkProcessed, AuditEdge
  <1>16. ASSUME NEW kind \in AuditEdge, WireAudit(w, kind)
         PROVE  \/ at'[w] \in AuditEdge
                \/ at'[w] = "idle" /\ cycle'[w].closing = {}
    BY <1>14, <1>16 DEF WireAudit
  <1>17. CASE \E kind \in AuditEdge : WireAudit(w, kind)
    BY <1>16, <1>17 DEF AuditEdge
  <1> QED
    BY <1>1, <1>2, <1>3, <1>4, <1>6, <1>8, <1>9, <1>10, <1>11, <1>13, <1>15,
       <1>17, <1>18 DEF Advance, Proceed, Falter

(* RivalInv is inductive.                                                  *)
LEMMA RivalInvStep ==
  ASSUME TypeOK, LockInv, EvidenceInv, RivalInv, [Next]_vars
  PROVE  RivalInv'
PROOF
  <1>a. \A f \in Fact : Rivaled(f) => Rivaled(f)'
    BY RivalsStay
  <1>b. \A v \in Worker : cycle[v].stale \subseteq Fact
    BY DEF TypeOK, Cycle
  <1>c. \A f \in Fact : invalidates[f] > 0 => Rivaled(f)
    BY DEF RivalInv, ReplacementIsSupported, Rivaled
  <1>d. (\A f \in Fact : invalidates'[f] > 0 => Rivaled(f)')
          => ReplacementIsSupported'
    BY DEF ReplacementIsSupported, Rivaled
  <1>1. ASSUME NEW v \in Worker, at'[v] = at[v], cycle'[v] = cycle[v]
        PROVE
          /\ at'[v] \in {"lock", "create", "update", "support"} => Outnumbered(v)'
          /\ at'[v] \in {"invalidate", "link", "drift", "merge", "count"} =>
               /\ cycle'[v].closing \subseteq cycle'[v].stale
               /\ \A f \in cycle'[v].stale : Rivaled(f)'
          /\ at'[v] \in {"idle", "plan", "lock", "create", "update", "support",
                        "invalidate"} => cycle'[v].closing = {}
    BY <1>a, <1>b, <1>1 DEF RivalInv, Outnumbered
  <1>2. ASSUME at' = at, cycle' = cycle, invalidates' = invalidates
        PROVE  RivalInv'
    BY <1>a, <1>c, <1>d, <1>1, <1>2 DEF RivalInv
  <1>3. CASE Evidence /\ UNCHANGED cycleVars
    BY <1>2, <1>3 DEF cycleVars
  <1>4. CASE UNCHANGED vars \/ \E s \in Subject : Recognize(s)
    BY <1>2, <1>4 DEF Recognize, vars, cycleVars
  <1>5. ASSUME NEW w \in Worker, Advance(w) \/ Falter(w) PROVE RivalInv'
    <2>1. ASSUME NEW f \in Fact, invalidates'[f] > 0 PROVE Rivaled(f)'
      <3>1. CASE invalidates' = invalidates
        BY <1>a, <1>c, <2>1, <3>1
      <3>2. CASE LinkStale(w)
        <4>1. CASE f \in cycle[w].closing
          BY <1>a, <3>2, <4>1 DEF LinkStale, RivalInv
        <4>2. CASE f \notin cycle[w].closing
          BY <1>a, <1>c, <2>1, <3>2, <4>2 DEF LinkStale
        <4> QED
          BY <4>1, <4>2
      <3> QED
        BY <1>5, <3>1, <3>2
        DEF Advance, Proceed, Falter, Fetch, Plan, PlanBlind, PlanWith, TakeStripe, ReadFacts,
            CreateFacts, UpdateFacts, WireSupport, CloseStale, PanicOnClose,
            FindEntity, MergeEntity, RecordDrift, SkipLinkOrDrift, SkipClose, MarkProcessed, WireAudit,
            Fail
    <2>2. ASSUME NEW v \in Worker
          PROVE
            /\ at'[v] \in {"lock", "create", "update", "support"} =>
                 Outnumbered(v)'
            /\ at'[v] \in {"invalidate", "link", "drift", "merge", "count"} =>
                 /\ cycle'[v].closing \subseteq cycle'[v].stale
                 /\ \A f \in cycle'[v].stale : Rivaled(f)'
            /\ at'[v] \in {"idle", "plan", "lock", "create", "update", "support",
                          "invalidate"} => cycle'[v].closing = {}
      <3>1. CASE v = w
        BY <1>5, <3>1, OwnRivals
      <3>2. CASE v # w
        BY <1>1, <1>5, <3>2, OtherCycles
      <3> QED
        BY <3>1, <3>2
    <2> QED
      BY <1>d, <2>1, <2>2 DEF RivalInv
  <1> QED
    BY <1>3, <1>4, <1>5 DEF Next

-----------------------------------------------------------------------------
(* Drift: the invalidations an Entity has counted, and those whose edge is *)
(* there while their drift record is yet to come.                          *)

FactsAbout(s) == {f \in Fact : SubjectOf[f[1]] = s}

Marks(s) == Edges(invalidates, FactsAbout(s))

Owed(s) == {w \in Worker : at[w] \in {"drift", "merge", "count"}
                            /\ cycle[w].closing \cap FactsAbout(s) # {}}

DriftInv ==
  /\ \A w \in Worker :
       at[w] \in {"link", "drift", "merge", "count"} => \E f \in Fact : cycle[w].closing = {f}
  /\ \A s \in Subject :
       /\ IsFiniteSet(Marks(s)) /\ IsFiniteSet(Owed(s))
       /\ entity[s].count + Cardinality(Owed(s)) <= Cardinality(Marks(s))
       /\ entity[s].unstable => Cardinality(Marks(s)) > DriftThreshold

(* Nothing more is owed: the bounds stay.                                  *)
LEMMA OwedShrinks ==
  ASSUME TypeOK, DriftInv, NEW s \in Subject,
         entity'[s].count = entity[s].count,
         entity'[s].unstable = entity[s].unstable,
         invalidates' = invalidates, Owed(s)' \subseteq Owed(s)
  PROVE  /\ IsFiniteSet(Marks(s)') /\ IsFiniteSet(Owed(s)')
         /\ entity'[s].count + Cardinality(Owed(s)') <= Cardinality(Marks(s)')
         /\ entity'[s].unstable => Cardinality(Marks(s)') > DriftThreshold
PROOF
  <1>1. Marks(s)' = Marks(s)
    BY DEF Marks, Edges, FactsAbout
  <1>2. IsFiniteSet(Owed(s)') /\ Cardinality(Owed(s)') <= Cardinality(Owed(s))
    BY FS_Subset DEF DriftInv
  <1>3. /\ Cardinality(Owed(s)') \in Nat /\ Cardinality(Owed(s)) \in Nat
        /\ Cardinality(Marks(s)) \in Nat
    BY <1>2, FS_CardinalityType DEF DriftInv
  <1>4. entity[s].count \in Nat
    BY DEF TypeOK
  <1>5. entity[s].count + Cardinality(Owed(s)) <= Cardinality(Marks(s))
    BY DEF DriftInv
  <1>6. entity'[s].count + Cardinality(Owed(s)') <= Cardinality(Marks(s))
    BY <1>2, <1>3, <1>4, <1>5
  <1> QED
    BY <1>1, <1>2, <1>6 DEF DriftInv

(* The step of a cycle leaves what other cycles owe alone.                 *)
LEMMA OwedByOthers ==
  ASSUME TypeOK, NEW w \in Worker, Advance(w) \/ Falter(w), NEW s \in Subject
  PROVE  \A v \in Worker \ {w} : v \in Owed(s)' <=> v \in Owed(s)
PROOF
  <1> SUFFICES ASSUME NEW v \in Worker \ {w}
               PROVE  v \in Owed(s)' <=> v \in Owed(s)
    OBVIOUS
  <1>1. at'[v] = at[v] /\ cycle'[v] = cycle[v]
    BY OtherCycles
  <1> QED
    BY <1>1 DEF Owed, FactsAbout

(* Linking adds an edge and owes its record.                               *)
LEMMA DriftOnLink ==
  ASSUME TypeOK, DriftInv, NEW w \in Worker, LinkStale(w), NEW s \in Subject
  PROVE  /\ IsFiniteSet(Marks(s)') /\ IsFiniteSet(Owed(s)')
         /\ entity'[s].count + Cardinality(Owed(s)') <= Cardinality(Marks(s)')
         /\ entity'[s].unstable => Cardinality(Marks(s)') > DriftThreshold
PROOF
  <1>a. /\ cycle \in [Worker -> Cycle] /\ at \in [Worker -> Await]
        /\ invalidates \in [Fact -> Nat]
        /\ entity[s].count \in Nat
        /\ Advance(w)
    BY DEF TypeOK, Advance, Proceed
  <1>b. /\ at[w] = "link" /\ at'[w] = "drift" /\ entity' = entity
        /\ cycle'[w].closing = cycle[w].closing
    BY <1>a DEF LinkStale, Goto, Cycle
  <1>1. PICK f \in Fact : cycle[w].closing = {f}
    BY <1>b DEF DriftInv
  <1> DEFINE V == {f} \cap FactsAbout(s)
             size == IF f \in FactsAbout(s) THEN 1 ELSE 0
  <1>2. IsFiniteSet(V) /\ Cardinality(V) = size
    <2>1. CASE f \in FactsAbout(s)
      <3>1. V = {f}
        BY <2>1
      <3> QED
        BY <2>1, <3>1, FS_Singleton
    <2>2. CASE f \notin FactsAbout(s)
      <3>1. V = {}
        BY <2>2
      <3> QED
        BY <2>2, <3>1, FS_EmptySet
    <2> QED
      BY <2>1, <2>2
  <1>3. /\ IsFiniteSet(Marks(s)')
        /\ Cardinality(Marks(s)') = Cardinality(Marks(s)) + size
    <2> DEFINE S == FactsAbout(s)
    <2>1. \A x \in S : invalidates[x] \in Nat
      BY <1>a DEF FactsAbout
    <2>2. \A x \in S : invalidates'[x] = IF x \in V THEN invalidates[x] + 1
                                                    ELSE invalidates[x]
      BY <1>1 DEF LinkStale, FactsAbout
    <2>3. V \subseteq S
      OBVIOUS
    <2>4. IsFiniteSet(Edges(invalidates, S))
      BY DEF DriftInv, Marks
    <2> HIDE DEF V, S, size
    <2>5. /\ IsFiniteSet(Edges(invalidates', S))
          /\ Cardinality(Edges(invalidates', S))
               = Cardinality(Edges(invalidates, S)) + Cardinality(V)
      BY <1>2, <2>1, <2>2, <2>3, <2>4, EdgesGrow
    <2>6. Marks(s)' = Edges(invalidates', S) /\ Marks(s) = Edges(invalidates, S)
      BY DEF Marks, Edges, FactsAbout, S
    <2> QED
      BY <1>2, <2>5, <2>6
  <1>4. /\ IsFiniteSet(Owed(s)')
        /\ Cardinality(Owed(s)') = Cardinality(Owed(s)) + size
    <2>1. IsFiniteSet(Owed(s)) /\ Cardinality(Owed(s)) \in Nat
      BY FS_CardinalityType DEF DriftInv
    <2>2. w \notin Owed(s) /\ (w \in Owed(s)' <=> f \in FactsAbout(s))
      BY <1>b, <1>1 DEF Owed, FactsAbout
    <2>3. Owed(s)' \subseteq Worker /\ Owed(s) \subseteq Worker
      BY DEF Owed
    <2>4. \A v \in Worker \ {w} : v \in Owed(s)' <=> v \in Owed(s)
      BY <1>a, OwedByOthers
    <2>5. CASE f \in FactsAbout(s)
      <3>1. Owed(s)' = Owed(s) \cup {w}
        BY <2>2, <2>3, <2>4, <2>5
      <3> QED
        BY <2>1, <2>2, <2>5, <3>1, FS_AddElement
    <2>6. CASE f \notin FactsAbout(s)
      <3>1. Owed(s)' = Owed(s)
        BY <2>2, <2>3, <2>4, <2>6
      <3> QED
        BY <2>1, <2>6, <3>1
    <2> QED
      BY <2>5, <2>6
  <1>5. /\ Cardinality(Owed(s)) \in Nat /\ Cardinality(Marks(s)) \in Nat
        /\ entity[s].count + Cardinality(Owed(s)) <= Cardinality(Marks(s))
        /\ entity[s].unstable => Cardinality(Marks(s)) > DriftThreshold
    BY FS_CardinalityType DEF DriftInv
  <1>6. size \in {0, 1} /\ DriftThreshold \in Nat
    BY CycleAssumption
  <1> HIDE DEF size
  <1> QED
    BY <1>a, <1>b, <1>3, <1>4, <1>5, <1>6

(* The record pays what is owed.                                           *)
LEMMA DriftOnRecord ==
  ASSUME TypeOK, DriftInv, NEW w \in Worker, RecordDrift(w), NEW s \in Subject
  PROVE  /\ IsFiniteSet(Marks(s)') /\ IsFiniteSet(Owed(s)')
         /\ entity'[s].count + Cardinality(Owed(s)') <= Cardinality(Marks(s)')
         /\ entity'[s].unstable => Cardinality(Marks(s)') > DriftThreshold
PROOF
  <1>a. /\ cycle \in [Worker -> Cycle] /\ at \in [Worker -> Await]
        /\ entity \in [Subject -> [exists : BOOLEAN, count : Nat, unstable : BOOLEAN]]
        /\ Advance(w)
    BY DEF TypeOK, Advance, Proceed
  <1>b. /\ at[w] = "count" /\ invalidates' = invalidates
        /\ at'[w] \in {"processed", "invalidate"}
    BY <1>a DEF RecordDrift, NextStale, AfterStale, Goto
  <1>1. PICK f \in Fact : cycle[w].closing = {f}
    BY <1>b DEF DriftInv
  <1> DEFINE r == SubjectOf[f[1]]
  <1>2. entity' = [entity EXCEPT ![r].count = @ + 1,
                                 ![r].unstable =
                                   Invalidations(r) > DriftThreshold]
    BY <1>1 DEF RecordDrift, Closing
  <1>3. r \in Subject
    BY CycleAssumption DEF Fact
  <1>4. Marks(s)' = Marks(s)
    BY <1>b DEF Marks, Edges, FactsAbout
  <1>5. \A v \in Worker \ {w} : v \in Owed(s)' <=> v \in Owed(s)
    BY <1>a, OwedByOthers
  <1>6. w \notin Owed(s)' /\ Owed(s)' \subseteq Worker /\ Owed(s) \subseteq Worker
    BY <1>b DEF Owed
  <1>7. Owed(s)' = Owed(s) \ {w}
    BY <1>5, <1>6
  <1>8. CASE s # r
    <2>1. entity'[s] = entity[s]
      BY <1>a, <1>2, <1>8
    <2> QED
      BY <1>7, <1>b, <2>1, OwedShrinks
  <1>9. CASE s = r
    <2>1. w \in Owed(s)
      BY <1>b, <1>1, <1>9 DEF Owed, FactsAbout
    <2>2. /\ IsFiniteSet(Owed(s)')
          /\ Cardinality(Owed(s)') = Cardinality(Owed(s)) - 1
      BY <1>7, <2>1, FS_RemoveElement DEF DriftInv
    <2>3. entity'[s].count = entity[s].count + 1
      BY <1>a, <1>2, <1>3, <1>9
    <2>4. entity'[s].unstable <=> Cardinality(Marks(s)) > DriftThreshold
      <3>1. entity'[s].unstable <=> Invalidations(s) > DriftThreshold
        BY <1>a, <1>2, <1>3, <1>9
      <3> QED
        BY <3>1 DEF Invalidations, Marks, FactsAbout
    <2>5. /\ Cardinality(Owed(s)) \in Nat /\ entity[s].count \in Nat
          /\ Cardinality(Marks(s)) \in Nat
          /\ entity[s].count + Cardinality(Owed(s)) <= Cardinality(Marks(s))
      BY <1>a, FS_CardinalityType DEF DriftInv
    <2>6. entity'[s].count + Cardinality(Owed(s)') <= Cardinality(Marks(s))
      BY <2>2, <2>3, <2>5
    <2> QED
      BY <1>4, <2>2, <2>4, <2>6 DEF DriftInv
  <1> QED
    BY <1>8, <1>9

(* A cycle that links or records has one Fact in hand.                     *)
LEMMA OneInHand ==
  ASSUME TypeOK, DriftInv, NEW w \in Worker, Advance(w) \/ Falter(w),
         at'[w] \in {"link", "drift", "merge", "count"}
  PROVE  \E f \in Fact : cycle'[w].closing = {f}
PROOF
  <1>a. cycle \in [Worker -> Cycle]
    BY DEF TypeOK
  <1>1. ASSUME NEW f \in Fact, CloseStale(w, f) PROVE cycle'[w].closing = {f}
    BY <1>1, <1>a DEF CloseStale, Cycle
  <1>2. CASE LinkStale(w)
    <2>1. at[w] = "link" /\ cycle'[w].closing = cycle[w].closing
      BY <1>2, <1>a DEF LinkStale, Cycle
    <2> QED
      BY <2>1 DEF DriftInv
  <1>3. CASE FindEntity(w) \/ MergeEntity(w)
    <2>1. at[w] \in {"drift", "merge"} /\ cycle'[w].closing = cycle[w].closing
      BY <1>3, <1>a DEF FindEntity, MergeEntity, Cycle
    <2> QED
      BY <2>1 DEF DriftInv
  <1> QED
    BY <1>1, <1>2, <1>3, Arrives

(* DriftInv is inductive.                                                  *)
LEMMA DriftInvStep ==
  ASSUME TypeOK, DriftInv, [Next]_vars
  PROVE  DriftInv'
PROOF
  <1>1. ASSUME at' = at, cycle' = cycle, invalidates' = invalidates,
               \A s \in Subject : /\ entity'[s].count = entity[s].count
                                  /\ entity'[s].unstable = entity[s].unstable
        PROVE  DriftInv'
    <2>1. \A s \in Subject : Owed(s)' \subseteq Owed(s)
      BY <1>1 DEF Owed, FactsAbout
    <2> QED
      BY <1>1, <2>1, OwedShrinks DEF DriftInv
  <1>2. CASE Evidence /\ UNCHANGED cycleVars
    BY <1>1, <1>2 DEF cycleVars
  <1>3. CASE UNCHANGED vars
    BY <1>1, <1>3 DEF vars, cycleVars
  <1>5. CASE \E r \in Subject : Recognize(r)
    <2>1. PICK r \in Subject : Recognize(r)
      BY <1>5
    <2>2. \A s \in Subject : /\ entity'[s].count = entity[s].count
                             /\ entity'[s].unstable = entity[s].unstable
      BY <2>1 DEF Recognize, TypeOK
    <2> QED
      BY <1>1, <2>1, <2>2 DEF Recognize
  <1>4. ASSUME NEW w \in Worker, Advance(w) \/ Falter(w) PROVE DriftInv'
    <2>1. ASSUME NEW v \in Worker, at'[v] \in {"link", "drift", "merge", "count"}
          PROVE  \E f \in Fact : cycle'[v].closing = {f}
      <3>1. CASE v = w
        BY <1>4, <2>1, <3>1, OneInHand
      <3>2. CASE v # w
        <4>1. at'[v] = at[v] /\ cycle'[v] = cycle[v]
          BY <1>4, <3>2, OtherCycles
        <4> QED
          BY <2>1, <4>1 DEF DriftInv
      <3> QED
        BY <3>1, <3>2
    <2>2. ASSUME NEW s \in Subject
          PROVE  /\ IsFiniteSet(Marks(s)') /\ IsFiniteSet(Owed(s)')
                 /\ entity'[s].count + Cardinality(Owed(s)')
                      <= Cardinality(Marks(s)')
                 /\ entity'[s].unstable =>
                      Cardinality(Marks(s)') > DriftThreshold
      <3>1. CASE LinkStale(w)
        BY <3>1, DriftOnLink
      <3>2. CASE RecordDrift(w)
        BY <3>2, DriftOnRecord
      <3>3. ASSUME ~LinkStale(w), ~RecordDrift(w)
            PROVE  /\ entity'[s].count = entity[s].count
                   /\ entity'[s].unstable = entity[s].unstable
                   /\ invalidates' = invalidates
        <4>1. CASE MergeEntity(w)
          <5>1. PICK r : entity' = [entity EXCEPT ![r].exists = TRUE]
            BY <4>1 DEF MergeEntity
          <5> QED
            BY <4>1, <5>1 DEF MergeEntity, TypeOK
        <4>2. CASE entity' = entity /\ invalidates' = invalidates
          BY <4>2
        <4> QED
          BY <1>4, <3>3, <4>1, <4>2
          DEF Advance, Proceed, Falter, Fetch, Plan, PlanBlind, PlanWith,
              TakeStripe, ReadFacts, CreateFacts, UpdateFacts, WireSupport,
              CloseStale, PanicOnClose, FindEntity, SkipLinkOrDrift, SkipClose,
              MarkProcessed, WireAudit, Fail
      <3>4. ASSUME ~LinkStale(w), ~RecordDrift(w) PROVE Owed(s)' \subseteq Owed(s)
        <4>1. w \in Owed(s)' => w \in Owed(s)
          <5>1. CASE FindEntity(w) \/ MergeEntity(w)
            <6>1. /\ at[w] \in {"drift", "merge"}
                  /\ cycle'[w].closing = cycle[w].closing
              BY <5>1 DEF FindEntity, MergeEntity, TypeOK, Cycle
            <6> QED
              BY <6>1 DEF Owed, FactsAbout
          <5>2. CASE at'[w] \notin {"drift", "merge", "count"}
            BY <5>2 DEF Owed
          <5> QED
            BY <1>4, <3>4, <5>1, <5>2, Arrives
        <4>2. Owed(s)' \subseteq Worker
          BY DEF Owed
        <4> QED
          BY <1>4, <4>1, <4>2, OwedByOthers
      <3> QED
        BY <3>1, <3>2, <3>3, <3>4, OwedShrinks
    <2> QED
      BY <2>1, <2>2 DEF DriftInv
  <1> QED
    BY <1>2, <1>3, <1>4, <1>5 DEF Next

-----------------------------------------------------------------------------
(* The theorems.                                                           *)

IInv == LockInv /\ EvidenceInv /\ CountInv /\ RivalInv /\ DriftInv

(* The invariants hold at the start, ...                                   *)
LEMMA InitInv ==
  ASSUME Init PROVE IInv
PROOF
  <1>1. \A S, n : (\A x \in S : n[x] = 0) => Edges(n, S) = {}
    BY DEF Edges
  <1>2. IsFiniteSet({}) /\ Cardinality({}) = 0
    BY FS_EmptySet
  <1>3. \A w \in Worker : /\ at[w] = "idle"
                          /\ cycle[w].closing = {} /\ cycle[w].held = {}
    BY DEF Init, NoCycle
  <1>4. LockInv
    BY <1>3 DEF Init, GraphInit, LockInv, StripeInv, NoFact
  <1>5. EvidenceInv
    BY DEF Init, EvidenceInv, EvidenceKept, Covered
  <1>6. CountInv
    <2> SUFFICES ASSUME NEW f \in Fact
                 PROVE  /\ IsFiniteSet(Wires(f)) /\ IsFiniteSet(Due(f))
                        /\ Cardinality(Wires(f)) + Cardinality(Due(f))
                             <= fact[f].count
      BY DEF CountInv
    <2>1. Wires(f) = {}
      BY <1>1 DEF Init, GraphInit, Wires
    <2>2. Due(f) = {}
      BY <1>3 DEF Due, CountedFor
    <2>3. fact[f].count = 0
      BY DEF Init, GraphInit, NoFact
    <2> QED
      BY <1>2, <2>1, <2>2, <2>3
  <1>7. RivalInv
    BY <1>3 DEF Init, RivalInv, ReplacementIsSupported
  <1>8. DriftInv
    <2>1. ASSUME NEW s \in Subject PROVE Marks(s) = {} /\ Owed(s) = {}
      <3>1. \A f \in FactsAbout(s) : invalidates[f] = 0
        BY DEF Init, FactsAbout
      <3> QED
        BY <1>1, <1>3, <3>1 DEF Marks, Owed
    <2>2. \A s \in Subject : entity[s].count = 0 /\ ~entity[s].unstable
      BY DEF Init
    <2> QED
      <3>1. \A w \in Worker : at[w] \notin {"link", "drift", "merge", "count"}
        BY <1>3
      <3>2. \A s \in Subject : /\ IsFiniteSet(Marks(s)) /\ IsFiniteSet(Owed(s))
                               /\ Cardinality(Marks(s)) = 0
                               /\ Cardinality(Owed(s)) = 0
        BY <1>2, <2>1
      <3> QED
        BY <2>2, <3>1, <3>2 DEF DriftInv
  <1> QED
    BY <1>4, <1>5, <1>6, <1>7, <1>8 DEF IInv

(* ... and every step keeps them.                                          *)
LEMMA Invariance == Spec => [](TypeOK /\ IInv)
PROOF
  <1>1. Init => IInv
    BY InitInv
  <1>2. TypeOK /\ IInv /\ [Next]_vars => IInv'
    <2> SUFFICES ASSUME TypeOK, IInv, [Next]_vars PROVE IInv'
      OBVIOUS
    <2>1. LockInv' /\ EvidenceInv' /\ DriftInv'
      BY LockInvStep, EvidenceInvStep, DriftInvStep DEF IInv
    <2>2. CountInv' /\ RivalInv'
      BY CountInvStep, RivalInvStep DEF IInv
    <2> QED
      BY <2>1, <2>2 DEF IInv
  <1> QED
    BY <1>1, <1>2, TypeCorrect, PTL DEF Spec

(* No lost update: the count of a Fact covers its SUPPORTED_BY edges, for  *)
(* any number of overlapping cycles that fail anywhere, because the upsert *)
(* keeps the fact stripes from its first read to its last write.           *)
THEOREM CountsCoverSupport == Spec => []CountCoversSupport
PROOF
  <1>1. ASSUME TypeOK, IInv PROVE CountCoversSupport
    <2> SUFFICES ASSUME NEW f \in Fact
                 PROVE  Cardinality(Wires(f)) <= fact[f].count
      BY DEF CountCoversSupport, Wires
    <2>1. /\ Cardinality(Wires(f)) \in Nat /\ Cardinality(Due(f)) \in Nat
          /\ Cardinality(Wires(f)) + Cardinality(Due(f)) <= fact[f].count
      BY <1>1, FS_CardinalityType DEF IInv, CountInv
    <2>2. fact[f].count \in Nat
      BY <1>1 DEF TypeOK, GraphTypeOK, FactNode
    <2> QED
      BY <2>1, <2>2
  <1> QED
    BY <1>1, Invariance, PTL

(* A Fact is only ever replaced by one that exists and has evidence.       *)
THEOREM ReplacementsAreSupported == Spec => []ReplacementIsSupported
PROOF
  <1>1. IInv => ReplacementIsSupported
    BY DEF IInv, RivalInv
  <1> QED
    BY <1>1, Invariance, PTL

(* An Entity counts no more invalidations than there are edges, and is     *)
(* unstable only above the threshold, whichever step is skipped or fails.  *)
THEOREM DriftIsAlwaysEarned == Spec => []DriftIsEarned
PROOF
  <1>1. ASSUME TypeOK, IInv PROVE DriftIsEarned
    <2> SUFFICES ASSUME NEW s \in Subject
                 PROVE  /\ entity[s].count <= Cardinality(Marks(s))
                        /\ entity[s].unstable =>
                             Cardinality(Marks(s)) > DriftThreshold
      BY DEF DriftIsEarned, Invalidations, Marks, FactsAbout
    <2>1. /\ Cardinality(Marks(s)) \in Nat /\ Cardinality(Owed(s)) \in Nat
          /\ entity[s].count + Cardinality(Owed(s)) <= Cardinality(Marks(s))
          /\ entity[s].unstable => Cardinality(Marks(s)) > DriftThreshold
      BY <1>1, FS_CardinalityType DEF IInv, DriftInv
    <2>2. entity[s].count \in Nat
      BY <1>1 DEF TypeOK
    <2> QED
      BY <2>1, <2>2
  <1> QED
    BY <1>1, Invariance, PTL

(* Of finitely many numbers one is the greatest.                           *)
LEMMA GreatestExists ==
  ASSUME NEW C, IsFiniteSet(C), C # {}, NEW f \in [C -> Nat]
  PROVE  \E c \in C : \A d \in C : f[d] <= f[c]
PROOF
  <1> DEFINE Above(c) == {d \in C : f[c] < f[d]}
             Sets == {Above(c) : c \in C}
  <1>1. Sets \subseteq FiniteSubsetsOf(C) /\ Sets # {}
    <2>1. FiniteSubsetsOf(C) = SUBSET C
      BY FS_FiniteSubsetsOfFinite
    <2>2. \A c \in C : Above(c) \in SUBSET C
      OBVIOUS
    <2> HIDE DEF Above
    <2> QED
      BY <2>1, <2>2
  <1>2. PICK T \in Sets : \A U \in Sets : ~(<<U, T>> \in StrictSubsetOrdering(C))
    BY <1>1, FS_StrictSubsetOrderingWellFounded, WFMin
  <1>3. PICK c \in C : T = Above(c)
    BY <1>2
  <1>4. ASSUME NEW d \in C, ~(f[d] <= f[c])
        PROVE  FALSE
    <2>1. f[c] \in Nat /\ f[d] \in Nat /\ f[c] < f[d]
      BY <1>4
    <2>2. Above(d) \subseteq T /\ d \in T /\ d \notin Above(d)
      BY <1>3, <2>1
    <2>3. Above(d) \in SUBSET C /\ T \in SUBSET C
      BY <1>3
    <2>4. <<Above(d), T>> \in StrictSubsetOrdering(C)
      BY <2>2, <2>3 DEF StrictSubsetOrdering
    <2> QED
      BY <1>2, <2>4
  <1> QED
    BY <1>4

(* Only a drift record that merges its Entity can close a circle of cycles *)
(* that wait for each other's stripes, or for their own: the upserts take  *)
(* theirs upwards and drop them before the cycle waits for anything else.  *)
THEOREM OnlyMergesCanEntangle == Spec => []OnlyMergesEntangle
PROOF
  <1>1. ASSUME TypeOK, StripeInv PROVE OnlyMergesEntangle
    <2> SUFFICES ASSUME NEW S \in SUBSET Worker, S # {}, IsFiniteSet(S),
                        \A w \in S : \E v \in S : WaitsFor(w, v),
                        \A w \in S : at[w] # "merge"
                 PROVE  FALSE
      BY DEF OnlyMergesEntangle
    <2>1. ASSUME NEW w \in S
          PROVE  /\ at[w] \in {"lock", "drift"}
                 /\ at[w] = "drift" => cycle[w].held = {}
      <3>1. Wanted(w) # {}
        BY DEF WaitsFor
      <3> QED
        BY <1>1, <3>1 DEF Wanted, StripeInv
    <2> DEFINE C == {w \in S : at[w] = "lock"}
               next == [w \in C |-> CHOOSE i \in Wanted(w) : TRUE]
    <2>2. ASSUME NEW w \in S PROVE \E v \in C : WaitsFor(w, v)
      <3>1. PICK v \in S : WaitsFor(w, v)
        OBVIOUS
      <3>2. cycle[v].held # {}
        BY <3>1 DEF WaitsFor
      <3> QED
        BY <2>1, <3>1, <3>2
    <2>3. C # {} /\ IsFiniteSet(C)
      BY <2>2, FS_Subset
    <2>4. ASSUME NEW w \in C
          PROVE  /\ next[w] \in Missing(w) /\ next[w] \in Nat
                 /\ Wanted(w) = {next[w]}
      <3>1. Wanted(w) = {i \in Missing(w) : \A j \in Missing(w) : i <= j}
        BY DEF Wanted
      <3>2. Missing(w) \subseteq Nat
        BY <1>1, CycleAssumption DEF Missing, TypeOK, Cycle
      <3>3. PICK v \in S : WaitsFor(w, v)
        OBVIOUS
      <3>4. Wanted(w) # {}
        BY <3>3 DEF WaitsFor
      <3>5. next[w] \in Wanted(w)
        BY <3>4
      <3>6. \A i, j \in Wanted(w) : i = j
        BY <3>1, <3>2
      <3> HIDE DEF next
      <3> QED
        BY <3>1, <3>2, <3>5, <3>6
    <2>5. next \in [C -> Nat]
      <3>1. next = [w \in C |-> next[w]]
        OBVIOUS
      <3> HIDE DEF next, C
      <3> QED
        BY <2>4, <3>1
    <2>6. ASSUME NEW w \in C, NEW v \in C, WaitsFor(w, v)
          PROVE  next[w] < next[v]
      <3>1. next[w] \in cycle[v].held
        BY <2>4, <2>6 DEF WaitsFor
      <3>2. next[v] \in Missing(v) /\ at[v] = "lock" /\ v \in Worker
        BY <2>4
      <3> HIDE DEF next
      <3> QED
        BY <1>1, <3>1, <3>2 DEF StripeInv
    <2> HIDE DEF next
    <2>7. PICK c \in C : \A d \in C : next[d] <= next[c]
      <3> HIDE DEF C
      <3> QED
        BY <2>3, <2>5, GreatestExists
    <2>8. PICK d \in C : WaitsFor(c, d)
      BY <2>2
    <2>9. next[c] < next[d] /\ next[d] <= next[c]
      BY <2>6, <2>7, <2>8
    <2>10. next[c] \in Nat /\ next[d] \in Nat
      BY <2>4
    <2> QED
      BY <2>9, <2>10
  <1> QED
    BY <1>1, Invariance, PTL DEF IInv, LockInv

(* A closed Fact opens again only in the upsert that lifts its count over  *)
(* the threshold: what the write-back decides by was read under the lock.  *)
THEOREM ReopeningIsAnUpgrade == Spec => ReopensOnlyByUpgrade
PROOF
  <1> DEFINE Reopens(f) == fact[f].exists /\ ~fact[f].open /\ fact'[f].open
             Upgrades(f) == fact[f].count < CertaintyThreshold
                            /\ fact'[f].count >= CertaintyThreshold
  <1>1. ASSUME TypeOK, LockInv, [Next]_vars, NEW f \in Fact, Reopens(f)
        PROVE  Upgrades(f)
    <2>a. fact \in [Fact -> FactNode] /\ fact[f] \in FactNode
      BY <1>1 DEF TypeOK, GraphTypeOK
    <2>1. ASSUME NEW w \in Worker, CreateFacts(w) PROVE FALSE
      <3>1. CASE f \in cycle[w].targets /\ ~cycle[w].seen[f].exists
        BY <1>1, <2>1, <3>1 DEF CreateFacts, LockInv, ReadIsCurrent
      <3>2. CASE ~(f \in cycle[w].targets /\ ~cycle[w].seen[f].exists)
        BY <1>1, <2>1, <3>2 DEF CreateFacts
      <3> QED
        BY <3>1, <3>2
    <2>2. ASSUME NEW w \in Worker, UpdateFacts(w) PROVE Upgrades(f)
      <3>1. f \in cycle[w].targets \ cycle[w].created
        BY <1>1, <2>2 DEF UpdateFacts
      <3>2. fact'[f] = Reinforced(w, f)
        BY <2>2, <3>1 DEF UpdateFacts
      <3>3. cycle[w].seen[f].count = fact[f].count
        BY <1>1, <2>2, <3>1 DEF UpdateFacts, LockInv, ReadIsCurrent
      <3> QED
        BY <1>1, <2>a, <3>2, <3>3 DEF Reinforced, FactNode
    <2>3. ASSUME NEW w \in Worker, NEW g \in Fact, CloseStale(w, g) PROVE FALSE
      <3>1. fact' = [fact EXCEPT ![g].open = FALSE,
                                 ![g].definite = g \in cycle[w].definite]
        BY <2>3 DEF CloseStale
      <3>2. CASE f = g
        BY <1>1, <2>a, <3>1, <3>2 DEF FactNode
      <3>3. CASE f # g
        BY <1>1, <2>a, <3>1, <3>3
      <3> QED
        BY <3>2, <3>3
    <2>4. ASSUME NEW w \in Worker, Advance(w) \/ Falter(w) PROVE Upgrades(f)
      BY <1>1, <2>1, <2>2, <2>3, <2>4
      DEF graphVars, Advance, Proceed, Falter, Fetch, Plan, PlanBlind, PlanWith,
          TakeStripe, ReadFacts, WireSupport, PanicOnClose, LinkStale, FindEntity, MergeEntity, RecordDrift,
          SkipLinkOrDrift, SkipClose, MarkProcessed, WireAudit, Fail
    <2>5. ASSUME NEW targets, CloseFacts(targets) PROVE ~Reopens(f)
      BY <2>5, <2>a DEF CloseFacts, FactNode
    <2>6. ASSUME NEW m \in Message, ForgetMessage(m) PROVE ~Reopens(f)
      BY <2>6, <2>a DEF ForgetMessage, FactNode
    <2>7. ASSUME NEW g \in Fact, DateArrives(g) PROVE ~Reopens(f)
      BY <2>7, <2>a DEF DateArrives, FactNode
    <2>8. ASSUME Evidence PROVE Upgrades(f)
      BY <1>1, <2>5, <2>6, <2>7, <2>8
      DEF Evidence, Observe, DeleteMessage, DeleteSession, ForgetParticipant,
          Erase
    <2>9. CASE UNCHANGED vars \/ \E s \in Subject : Recognize(s)
      BY <1>1, <2>9 DEF Recognize, vars, graphVars
    <2> QED
      BY <1>1, <2>4, <2>8, <2>9 DEF Next
  <1>2. TypeOK /\ IInv /\ [Next]_vars =>
          [\A f \in Fact :
             fact[f].exists /\ ~fact[f].open /\ fact'[f].open =>
               fact[f].count < CertaintyThreshold /\
               fact'[f].count >= CertaintyThreshold]_vars
    BY <1>1 DEF IInv
  <1> QED
    BY <1>2, Invariance, PTL DEF Spec, ReopensOnlyByUpgrade
=============================================================================
