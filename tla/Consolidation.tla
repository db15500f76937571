--------------------------- MODULE Consolidation ---------------------------
(***************************************************************************)
(* P4 consolidation: cycles that turn unprocessed Observations into Facts. *)
(*                                                                         *)
(* A cycle is run by a "worker": the consolidation worker task, or any     *)
(* task that called Agent::consolidate.  Nothing serializes two cycles.    *)
(* Each step below is one await of the cycle: a query, a transaction, or   *)
(* the acquisition of a stripe.  Between two steps another cycle or any    *)
(* operation of BeliefGraph may run, and at each of them the cycle may fail*)
(* (a storage error, a dropped task), leaving the graph as it is.          *)
(*                                                                         *)
(* The stripes are those of the table rmw_locks, and not reentrant.  The   *)
(* upsert takes those of its Facts in ascending order.  The drift record   *)
(* holds the stripe of an entity's name while merge_node takes another of  *)
(* the same table, so cycles may come to wait for each other, or one for   *)
(* itself: a step that waits has no transition.  The tasks that ingest and *)
(* take stripes of this table as well are those of SessionIngest; here only*)
(* what they leave behind is seen, in Recognize.                           *)
(*                                                                         *)
(* Abstracted: text, embeddings and weights; clusters are fixed classes of *)
(* objects; all INVALIDATES edges fall in the 30-day drift window; of the  *)
(* ConsolidationCycle node only the PROCESSED edges are kept: nothing      *)
(* reads the others, though writing them takes steps that may fail.        *)
(***************************************************************************)
EXTENDS BeliefGraph

CONSTANTS
  Worker,             \* tasks that run cycles
  Subject,            \* entity names
  SubjectOf,          \* the subject of a pair
  ClusterOf,          \* semantic cluster of an object text
  ObservedAt,         \* observed_at
  FactStripe,         \* the stripe of a fact_id
  NameStripe,         \* the stripe of "entity:" and a subject
  NodeStripe,         \* the stripe merge_node takes for that Entity
  BatchSize,          \* observations per cycle
  CertaintyThreshold, \* CERTAINTY_THRESHOLD
  DriftThreshold,     \* DRIFT_THRESHOLD
  MaxFailures         \* bound on the failures explored

ASSUME CycleAssumption ==
  /\ SubjectOf \in [Pair -> Subject]
  /\ DOMAIN ClusterOf = Object
  /\ ObservedAt \in [Observation -> Nat]
  /\ FactStripe \in [Fact -> Nat]
  /\ NameStripe \in [Subject -> Nat]
  /\ NodeStripe \in [Subject -> Nat]
  /\ BatchSize \in Nat \ {0}
  /\ CertaintyThreshold \in Nat
  /\ DriftThreshold \in Nat
  /\ MaxFailures \in Nat

VARIABLES
  processed,    \* observations with a PROCESSED edge from some cycle
  invalidates,  \* number of INVALIDATES edges into each fact
  entity,       \* the Entity nodes with a subject's name: their drift record
  at,           \* next await of each worker's cycle
  cycle,        \* local variables of each worker's cycle
  failures      \* failures so far

cycleVars == <<processed, invalidates, entity, at, cycle, failures>>
vars == <<graphVars, cycleVars>>

AuditEdge == {"CREATED", "REINFORCED", "INVALIDATED"}

Await ==
  {"idle", "plan", "lock", "create", "update", "support", "invalidate",
   "link", "drift", "merge", "count", "processed", "panicked"} \cup AuditEdge

Cycle ==
  [batch : SUBSET Observation,   \* what the cycle fetched
   targets : SUBSET Fact,        \* one Fact per group, to create or reinforce
   stale : SUBSET Fact,          \* outvoted prior Facts still to invalidate
   definite : SUBSET Fact,       \* those read with a definite lower bound
   held : SUBSET Nat,            \* stripes held
   seen : [Fact -> FactNode],    \* targets as read under their locks
   closing : SUBSET Fact,        \* the stale Fact being invalidated
   created : SUBSET Fact,
   invalidated : SUBSET Fact]

NoCycle ==
  [batch |-> {}, targets |-> {}, stale |-> {}, definite |-> {}, held |-> {},
   seen |-> [f \in Fact |-> NoFact], closing |-> {},
   created |-> {}, invalidated |-> {}]

(* Types of all the variables: node properties, edge counts, cycle state.  *)
TypeOK ==
  /\ GraphTypeOK
  /\ processed \subseteq Observation
  /\ invalidates \in [Fact -> Nat]
  /\ entity \in [Subject -> [exists : BOOLEAN, count : Nat, unstable : BOOLEAN]]
  /\ at \in [Worker -> Await]
  /\ cycle \in [Worker -> Cycle]
  /\ failures \in 0..MaxFailures

Init ==
  /\ GraphInit
  /\ processed = {}
  /\ invalidates = [f \in Fact |-> 0]
  /\ entity =
       [s \in Subject |-> [exists |-> FALSE, count |-> 0, unstable |-> FALSE]]
  /\ at = [w \in Worker |-> "idle"]
  /\ cycle = [w \in Worker |-> NoCycle]
  /\ failures = 0

-----------------------------------------------------------------------------
(* The pure part of a cycle: what a batch of observations decides.         *)

Pending == Live \ processed

(* Mutant: the limit is exclusive.                                         *)
BatchesBelowLimit ==
  {B \in SUBSET Pending :
     /\ Cardinality(B) < BatchSize
     /\ \A o \in B, q \in Pending \ B : ObservedAt[o] <= ObservedAt[q]}

(* The oldest BatchSize unprocessed observations, whatever their           *)
(* visibility; ties are broken either way.                                 *)
Batches ==
  {B \in SUBSET Pending :
     /\ Cardinality(B) <= BatchSize
     /\ Cardinality(B) < BatchSize => B = Pending
     /\ \A o \in B, q \in Pending \ B : ObservedAt[o] <= ObservedAt[q]}

Votes(B, p) == {o \in B : PairOf[o] = p}

Voiced(B, p) == {o \in Votes(B, p) : ObjectOf[o] # NoObject}

SameSurface(V, x) == {o \in V : ObjectOf[o] = x}

SameCluster(V, x) == {o \in V : ClusterOf[ObjectOf[o]] = ClusterOf[x]}

(* More votes win, then the most recent vote.                              *)
Leads(V, W) ==
  \/ Cardinality(V) > Cardinality(W)
  \/ /\ Cardinality(V) = Cardinality(W)
     /\ \A o \in W : \E q \in V : ObservedAt[q] >= ObservedAt[o]

(* Mode over clusters, then over the surface forms of the winning one.     *)
CanonicalObjects(B, p) ==
  LET V == Voiced(B, p)
      voiced == {ObjectOf[o] : o \in V}
  IN  IF V = {} THEN {NoObject}
      ELSE {x \in voiced : \A y \in voiced :
              /\ Leads(SameCluster(V, x), SameCluster(V, y))
              /\ ClusterOf[y] = ClusterOf[x] =>
                   Leads(SameSurface(V, x), SameSurface(V, y))}

(* One Fact for each group of the batch.                                   *)
Targets(B) ==
  {T \in SUBSET Fact :
     /\ \A f \in T : /\ Votes(B, f[1]) # {}
                     /\ f[2] \in CanonicalObjects(B, f[1])
     /\ \A o \in B : \E f \in T : f[1] = PairOf[o]
     /\ \A f, g \in T : f[1] = g[1] => f = g}

(* F38: over 40% of the votes of its group contradict the prior Fact.      *)
Outvoted(B, f) ==
  LET V == Voiced(B, f[1])
      agree == IF f[2] = NoObject THEN {} ELSE SameCluster(V, f[2])
  IN  /\ V # {}
      /\ 5 * Cardinality(V \ agree) > 2 * Cardinality(V)

(* Mutant: the promoted Fact may be among the Facts it invalidates.        *)
StaleFactsAndSelf(B, priors, T) == {f \in priors : Outvoted(B, f)}

StaleFacts(B, priors, T) == {f \in priors : Outvoted(B, f)} \ T

(* valid_at.lo is the group's earliest temporal anchor, else a past date.  *)
StartsAhead(B, p) ==
  /\ \E o \in Votes(B, p) : AnchorOf[o] = "ahead"
  /\ \A o \in Votes(B, p) : AnchorOf[o] # "past"

(* The edges counted by n at the nodes of S, parallel ones numbered.       *)
Edges(n, S) == UNION {{x} \X (1..n[x]) : x \in S}

-----------------------------------------------------------------------------
(* The steps of a cycle.                                                   *)

Goto(w, step) == at' = [at EXCEPT ![w] = step]

(* A cycle that finds nothing to do ends at once and changes no belief.    *)
Fetch(w) ==
  /\ at[w] = "idle"
  /\ \E B \in Batches :
       /\ B # {}
       /\ cycle' = [cycle EXCEPT ![w].batch = B]
  /\ Goto(w, "plan")
  /\ UNCHANGED <<graphVars, processed, invalidates, entity, failures>>

PlanWith(w, priors) ==
  LET B == cycle[w].batch IN
  \E T \in Targets(B) :
    LET stale == StaleFacts(B, priors, T) IN
    /\ cycle' = [cycle EXCEPT ![w].targets = T,
                              ![w].stale = stale,
                              ![w].definite = {f \in stale : fact[f].definite}]
    /\ Goto(w, "lock")
    /\ UNCHANGED <<graphVars, processed, invalidates, entity>>

(* find_stale_open_facts_batched, then the decisions that need no I/O.     *)
Plan(w) ==
  /\ at[w] = "plan"
  /\ PlanWith(w, OpenFacts)
  /\ UNCHANGED failures

(* The lookup of prior Facts failed: the cycle goes on without F38.        *)
PlanBlind(w) ==
  /\ at[w] = "plan"
  /\ failures < MaxFailures
  /\ PlanWith(w, {})
  /\ failures' = failures + 1

(* Mutant: a stripe that is taken is taken again.                          *)
FreeAnyway(i) == TRUE

(* Nobody holds the stripe, the task that asks for it included.            *)
Free(i) == \A v \in Worker : i \notin cycle[v].held

(* The stripes of the targets that are still to be taken.                  *)
Missing(w) == {FactStripe[f] : f \in cycle[w].targets} \ cycle[w].held

(* lock_many: the lowest first, each when it is free.                      *)
TakeStripe(w) ==
  /\ at[w] = "lock"
  /\ \E i \in Missing(w) :
       /\ \A j \in Missing(w) : i <= j
       /\ Free(i)
       /\ cycle' = [cycle EXCEPT ![w].held = @ \cup {i}]
  /\ UNCHANGED <<graphVars, processed, invalidates, entity, at, failures>>

(* Under the stripes of all of them, read the targets (phase 1).           *)
ReadFacts(w) ==
  /\ at[w] = "lock"
  /\ Missing(w) = {}
  /\ cycle' = [cycle EXCEPT ![w].seen =
                 [f \in Fact |-> IF f \in cycle[w].targets THEN fact[f]
                                                           ELSE NoFact]]
  /\ Goto(w, "create")
  /\ UNCHANGED <<graphVars, processed, invalidates, entity, failures>>

Contribution(w, f) == Cardinality(Votes(cycle[w].batch, f[1]))

(* Phase 2: create the Facts that phase 1 did not find.                    *)
CreateFacts(w) ==
  LET new == {f \in cycle[w].targets : ~cycle[w].seen[f].exists} IN
  /\ at[w] = "create"
  /\ fact' = [f \in Fact |->
       IF f \in new
       THEN [exists |-> TRUE, count |-> Contribution(w, f), open |-> TRUE,
             definite |-> FALSE, hidden |-> FALSE,
             ahead |-> StartsAhead(cycle[w].batch, f[1])]
       ELSE fact[f]]
  /\ cycle' = [cycle EXCEPT ![w].created = new]
  /\ Goto(w, "update")
  /\ UNCHANGED <<obs, redacted, support, erasures>>
  /\ UNCHANGED <<processed, invalidates, entity, failures>>

(* Mutants: valid_at is always written back; the count is lowered.         *)
ReinforcedFromSnapshot(w, f) ==
  [fact[f] EXCEPT !.count = cycle[w].seen[f].count + Contribution(w, f),
                  !.open = cycle[w].seen[f].open]

ReinforcedDown(w, f) ==
  [fact[f] EXCEPT !.count = cycle[w].seen[f].count - Contribution(w, f) - 1]

(***************************************************************************)
(* A reinforced Fact: the new count is computed from the snapshot.  Only a *)
(* Fact that crosses the threshold gets valid_at written back, with the    *)
(* bounds of the snapshot; COALESCE keeps the others' current value.       *)
(***************************************************************************)
Reinforced(w, f) ==
  LET was == cycle[w].seen[f]
      count == was.count + Contribution(w, f)
      crosses == was.count < CertaintyThreshold /\ count >= CertaintyThreshold
  IN  [fact[f] EXCEPT !.count = count,
                      !.open = IF crosses THEN was.open ELSE @,
                      !.definite = crosses \/ @]

(* Mutant: the stripes are kept until the cycle ends.                      *)
UpdateKeepingStripes(w) ==
  LET found == cycle[w].targets \ cycle[w].created IN
  /\ at[w] = "update"
  /\ fact' = [f \in Fact |-> IF f \in found THEN Reinforced(w, f) ELSE fact[f]]
  /\ cycle' = [cycle EXCEPT ![w].seen = NoCycle.seen]
  /\ Goto(w, "support")
  /\ UNCHANGED <<obs, redacted, support, erasures>>
  /\ UNCHANGED <<processed, invalidates, entity, failures>>

(* Phase 3: update the Facts that phase 1 found; the guards drop.          *)
UpdateFacts(w) ==
  LET found == cycle[w].targets \ cycle[w].created IN
  /\ at[w] = "update"
  /\ fact' = [f \in Fact |-> IF f \in found THEN Reinforced(w, f) ELSE fact[f]]
  /\ cycle' = [cycle EXCEPT ![w].seen = NoCycle.seen, ![w].held = {}]
  /\ Goto(w, "support")
  /\ UNCHANGED <<obs, redacted, support, erasures>>
  /\ UNCHANGED <<processed, invalidates, entity, failures>>

AfterStale(w, remaining) ==
  Goto(w, IF remaining = {} THEN "processed" ELSE "invalidate")

(* Mutant: only Facts that the cycle created get their evidence.           *)
RestsOnCreated(w, f, o) ==
  f \in cycle[w].created /\ o \in Votes(cycle[w].batch, f[1])

RestsOn(w, f, o) ==
  f \in cycle[w].targets /\ o \in Votes(cycle[w].batch, f[1])

(* One batch of SUPPORTED_BY edges, created whether or not they exist.     *)
WireSupport(w) ==
  /\ at[w] = "support"
  /\ support' = [f \in Fact |-> [o \in Observation |->
       IF RestsOn(w, f, o) THEN support[f][o] + 1 ELSE support[f][o]]]
  /\ AfterStale(w, cycle[w].stale)
  /\ UNCHANGED <<obs, redacted, fact, erasures, cycle>>
  /\ UNCHANGED <<processed, invalidates, entity, failures>>

(***************************************************************************)
(* invalidate_fact: valid_at is overwritten with the interval read by Plan,*)
(* closed now.  No lock is held.                                           *)
(***************************************************************************)
CloseStale(w, f) ==
  /\ at[w] = "invalidate"
  /\ f \in cycle[w].stale
  /\ ~fact[f].ahead
  /\ fact' = [fact EXCEPT ![f].open = FALSE,
                          ![f].definite = f \in cycle[w].definite]
  /\ cycle' = [cycle EXCEPT ![w].closing = {f}]
  /\ Goto(w, "link")
  /\ UNCHANGED <<obs, redacted, support, erasures>>
  /\ UNCHANGED <<processed, invalidates, entity, failures>>

(* btic_invalidate panics on an interval that has not begun.               *)
PanicOnClose(w, f) ==
  /\ at[w] = "invalidate"
  /\ f \in cycle[w].stale
  /\ fact[f].ahead
  /\ Goto(w, "panicked")
  /\ cycle' = [cycle EXCEPT ![w] = NoCycle]
  /\ UNCHANGED <<graphVars, processed, invalidates, entity, failures>>

LinkStale(w) ==
  /\ at[w] = "link"
  /\ invalidates' = [f \in Fact |-> IF f \in cycle[w].closing
                                    THEN invalidates[f] + 1
                                    ELSE invalidates[f]]
  /\ cycle' = [cycle EXCEPT ![w].invalidated = @ \cup cycle[w].closing]
  /\ Goto(w, "drift")
  /\ UNCHANGED <<graphVars, processed, entity, failures>>

(* INVALIDATES edges into the Facts about a subject.                       *)
Invalidations(s) ==
  Cardinality(Edges(invalidates, {f \in Fact : SubjectOf[f[1]] = s}))

NextStale(w) ==
  LET remaining == cycle[w].stale \ cycle[w].closing IN
  /\ cycle' = [cycle EXCEPT ![w].stale = remaining, ![w].closing = {},
                            ![w].held = {}]
  /\ AfterStale(w, remaining)

(* The subjects of the Fact just closed: one.                              *)
Closing(w) == {SubjectOf[f[1]] : f \in cycle[w].closing}

(***************************************************************************)
(* record_entity_invalidation: under the stripe of the name, look the      *)
(* Entity up; create it if it is missing, which takes merge_node's stripe  *)
(* for as long as that step lasts; then count.  No other cycle counts for  *)
(* this name in between, so the count read at the lookup is still the one  *)
(* that is raised.                                                         *)
(***************************************************************************)
FindEntity(w) ==
  /\ at[w] = "drift"
  /\ \E s \in Closing(w) :
       /\ Free(NameStripe[s])
       /\ cycle' = [cycle EXCEPT ![w].held = {NameStripe[s]}]
       /\ Goto(w, IF entity[s].exists THEN "count" ELSE "merge")
  /\ UNCHANGED <<graphVars, processed, invalidates, entity, failures>>

MergeEntity(w) ==
  /\ at[w] = "merge"
  /\ \E s \in Closing(w) :
       /\ Free(NodeStripe[s])
       /\ entity' = [entity EXCEPT ![s].exists = TRUE]
  /\ Goto(w, "count")
  /\ UNCHANGED <<graphVars, processed, invalidates, cycle, failures>>

RecordDrift(w) ==
  /\ at[w] = "count"
  /\ \E s \in Closing(w) :
       entity' = [entity EXCEPT
                    ![s].count = @ + 1,
                    ![s].unstable = Invalidations(s) > DriftThreshold]
  /\ NextStale(w)
  /\ UNCHANGED <<graphVars, processed, invalidates, failures>>

(* Ingest recognizes the subject and creates an Entity of that name.       *)
Recognize(s) ==
  /\ ~entity[s].exists
  /\ entity' = [entity EXCEPT ![s].exists = TRUE]
  /\ UNCHANGED <<graphVars, processed, invalidates, at, cycle, failures>>

(* Mutant: drift is recorded although the link failed.                     *)
SkipLinkOnly(w) ==
  /\ at[w] = "link"
  /\ failures < MaxFailures
  /\ failures' = failures + 1
  /\ Goto(w, "drift")
  /\ UNCHANGED <<graphVars, processed, invalidates, entity, cycle>>

(* A failure of the link or of the drift record, once it has the stripe it *)
(* waits for, is logged and skipped ...                                    *)
SkipLinkOrDrift(w) ==
  /\ at[w] \in {"link", "drift", "merge", "count"}
  /\ at[w] = "drift" => \E s \in Closing(w) : Free(NameStripe[s])
  /\ at[w] = "merge" => \E s \in Closing(w) : Free(NodeStripe[s])
  /\ failures < MaxFailures
  /\ failures' = failures + 1
  /\ NextStale(w)
  /\ UNCHANGED <<graphVars, processed, invalidates, entity>>

(* ... and so is a failure to close the stale Fact at all.                 *)
SkipClose(w, f) ==
  /\ at[w] = "invalidate"
  /\ f \in cycle[w].stale
  /\ failures < MaxFailures
  /\ failures' = failures + 1
  /\ cycle' = [cycle EXCEPT ![w].stale = @ \ {f}]
  /\ AfterStale(w, cycle[w].stale \ {f})
  /\ UNCHANGED <<graphVars, processed, invalidates, entity>>

(* The batches of edges that write_consolidation_cycle adds after          *)
(* PROCESSED, in this order; an empty one is skipped.                      *)
Rank == [processed |-> 0, CREATED |-> 1, REINFORCED |-> 2, INVALIDATED |-> 3,
         idle |-> 4]

AuditTargets(w) ==
  [CREATED     |-> cycle[w].created,
   REINFORCED  |-> cycle[w].targets \ cycle[w].created,
   INVALIDATED |-> cycle[w].invalidated]

NextBatch(w, step) ==
  \E next \in AuditEdge \cup {"idle"} :
    /\ Rank[step] < Rank[next]
    /\ next \in AuditEdge => AuditTargets(w)[next] # {}
    /\ \A k \in AuditEdge :
         Rank[step] < Rank[k] /\ Rank[k] < Rank[next] => AuditTargets(w)[k] = {}
    /\ Goto(w, next)
    /\ cycle' = IF next = "idle" THEN [cycle EXCEPT ![w] = NoCycle] ELSE cycle

MarkProcessed(w) ==
  /\ at[w] = "processed"
  /\ processed' = processed \cup cycle[w].batch
  /\ NextBatch(w, "processed")
  /\ UNCHANGED <<graphVars, invalidates, entity, failures>>

WireAudit(w, kind) ==
  /\ at[w] = kind
  /\ NextBatch(w, kind)
  /\ UNCHANGED <<graphVars, processed, invalidates, entity, failures>>

(* An error or a dropped task ends the cycle wherever it is.               *)
Fail(w) ==
  /\ at[w] \notin {"idle", "panicked"}
  /\ failures < MaxFailures
  /\ failures' = failures + 1
  /\ Goto(w, "idle")
  /\ cycle' = [cycle EXCEPT ![w] = NoCycle]
  /\ UNCHANGED <<graphVars, processed, invalidates, entity>>

(* The steps of a begun cycle that meets no failure.                       *)
Proceed(w) ==
  \/ Plan(w) \/ TakeStripe(w) \/ ReadFacts(w) \/ CreateFacts(w)
  \/ UpdateFacts(w) \/ WireSupport(w)
  \/ \E f \in Fact : CloseStale(w, f) \/ PanicOnClose(w, f)
  \/ LinkStale(w) \/ FindEntity(w) \/ MergeEntity(w) \/ RecordDrift(w)
  \/ MarkProcessed(w)
  \/ \E kind \in AuditEdge : WireAudit(w, kind)

Advance(w) == Fetch(w) \/ Proceed(w)

Falter(w) ==
  \/ PlanBlind(w) \/ SkipLinkOrDrift(w) \/ Fail(w)
  \/ \E f \in Fact : SkipClose(w, f)

Next ==
  \/ Evidence /\ UNCHANGED cycleVars
  \/ \E s \in Subject : Recognize(s)
  \/ \E w \in Worker : Advance(w) \/ Falter(w)

Spec == Init /\ [][Next]_vars

(* A cycle that has begun runs on whenever it can; nothing begins one.     *)
FairSpec == Spec /\ \A w \in Worker : WF_vars(Proceed(w))
-----------------------------------------------------------------------------
(* Properties.                                                             *)

(* No evidence is lost: an observation is marked PROCESSED only once some  *)
(* Fact of its own group rests on it, whichever step of a cycle fails      *)
(* (run_cycle_with writes SUPPORTED_BY before PROCESSED).                  *)
EvidenceKept ==
  \A o \in processed :
    \E f \in Fact : f[1] = PairOf[o] /\ support[f][o] > 0

(* No lost update: a Fact's observation_count accounts for every           *)
(* SUPPORTED_BY edge ever wired to it, however cycles overlap or fail      *)
(* (batch_upsert_facts serializes its phases by the fact locks).           *)
CountCoversSupport ==
  \A f \in Fact :
    Cardinality(Edges(support[f], Observation)) <= fact[f].count

(* A closed Fact may become open again only in the upsert that lifts its   *)
(* count over CERTAINTY_THRESHOLD, so at most once in its life (COALESCE   *)
(* in phase 3 of batch_upsert_facts).                                      *)
ReopensOnlyByUpgrade ==
  [][\A f \in Fact :
       fact[f].exists /\ ~fact[f].open /\ fact'[f].open =>
         fact[f].count < CertaintyThreshold /\
         fact'[f].count >= CertaintyThreshold]_vars

(* Drift is earned: an Entity counts no more invalidations than there are  *)
(* INVALIDATES edges into its Facts, and is unstable only when those       *)
(* exceed the threshold (record_entity_invalidation, after the edge).      *)
DriftIsEarned ==
  \A s \in Subject :
    /\ entity[s].count <= Invalidations(s)
    /\ entity[s].unstable => Invalidations(s) > DriftThreshold

(* A belief is only ever replaced by another: a Fact with an INVALIDATES   *)
(* edge has a rival on the same subject and predicate that was created and *)
(* given evidence (the order of upsert, SUPPORTED_BY and invalidate_fact). *)
ReplacementIsSupported ==
  \A f \in Fact : invalidates[f] > 0 =>
    \E g \in Fact \ {f} :
      /\ g[1] = f[1]
      /\ fact[g].exists
      /\ \E o \in Observation : support[g][o] > 0

(* The stripes a worker waits for, or would take next.                     *)
Wanted(w) ==
  CASE at[w] = "lock"  -> {i \in Missing(w) : \A j \in Missing(w) : i <= j}
    [] at[w] = "drift" -> {NameStripe[s] : s \in Closing(w)}
    [] at[w] = "merge" -> {NodeStripe[s] : s \in Closing(w)}
    [] OTHER           -> {}

WaitsFor(w, v) == Wanted(w) \cap cycle[v].held # {}

Waits(w) == \E v \in Worker : WaitsFor(w, v)

CyclesKeepBeingRequested == \A w \in Worker : WF_vars(Fetch(w))

(* As long as cycles keep being requested of every task, an observation is *)
(* in the end consolidated or erased, or no task can run a cycle any more: *)
(* each has panicked or waits for a stripe another such task holds.  The   *)
(* oldest go first, so a backlog larger than the batch does not starve, and*)
(* a failed cycle leaves its own to the next one (run_cycle_with).         *)
EventuallyProcessed ==
  CyclesKeepBeingRequested =>
    \A o \in Observation :
      o \in Live \ processed ~>
        \/ o \notin Live \ processed
        \/ \A w \in Worker : at[w] = "panicked" \/ Waits(w)

(* If cycles wait for each other's stripes in a circle, or one for its own,*)
(* then one of them is merging an Entity under the stripe of its name: the *)
(* upsert alone never closes a circle (lock_many, called once and released *)
(* before the cycle waits again).                                          *)
OnlyMergesEntangle ==
  \A S \in SUBSET Worker :
    /\ S # {} /\ IsFiniteSet(S)
    /\ \A w \in S : \E v \in S : WaitsFor(w, v)
    => \E w \in S : at[w] = "merge"

(* "any nested acquisition on one table is a latent self-deadlock ... A    *)
(* site that must hold a lock across a callee that locks again therefore   *)
(* uses a SEPARATE StripedLocks table" (uniko-store/src/locks.rs:32-37):   *)
(* no cycles wait for each other in a circle, nor one for itself.          *)
NoCircularWait ==
  ~\E S \in SUBSET Worker :
     S # {} /\ \A w \in S : \E v \in S : WaitsFor(w, v)

(* "each (fact, obs) pair is wired exactly once"                           *)
(* (uniko-memory/src/consolidation.rs:469): never two parallel edges.      *)
SupportWiredOnce ==
  \A f \in Fact, o \in Observation : support[f][o] <= 1

(* "its BTIC hi is closed so btic.contains(now) is false going forward"    *)
(* (uniko-store/src/operations/facts.rs:818): closed Facts stay closed.    *)
ClosedStaysClosed ==
  [][\A f \in Fact : fact[f].exists /\ ~fact[f].open => ~fact'[f].open]_vars

(* "one bad cycle never kills the worker"                                  *)
(* (website/docs/pipelines/consolidation.md:80).                           *)
CycleNeverPanics == \A w \in Worker : at[w] # "panicked"
=============================================================================
