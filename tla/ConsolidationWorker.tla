------------------------ MODULE ConsolidationWorker ------------------------
(***************************************************************************)
(* When consolidation runs: the ConsolidationWorker task of a streaming    *)
(* instance, the bounded channel that feeds it, and those who fill it.     *)
(*                                                                         *)
(* Each turn yields one observation.  A turn is ingested either by         *)
(* Session::observe on the caller's task or by the ingest worker, after    *)
(* Session::submit; both announce their observations to the worker with a  *)
(* try_send once they are committed.  A cycle is here a fetch and, later,  *)
(* its success or failure; its inside is Consolidation.tla.  The passes of *)
(* the cortex sweep are one step, the health counters are left out.        *)
(***************************************************************************)
EXTENDS Integers, Sequences, FiniteSets

CONSTANTS
  Agent,
  Turn,
  AgentOf,         \* the agent a turn is attributed to
  Streamed,        \* turns ingested through Session::submit
  QueueCapacity,   \* consolidation_queue_capacity
  Threshold,       \* consolidation_threshold
  BatchSize,       \* consolidation_batch_size
  CortexEvery,     \* cortex_cycle_every_n_consolidations, 0 for never
  MaxRequests,     \* bound on the ForceConsolidate and RunCycle tasks explored
  MaxFailures      \* bound on the failed cycles explored

ASSUME WorkerAssumption ==
  /\ IsFiniteSet(Turn)
  /\ AgentOf \in [Turn -> Agent]
  /\ Streamed \subseteq Turn
  /\ QueueCapacity \in Nat \ {0}
  /\ Threshold \in Nat
  /\ BatchSize \in Nat \ {0}
  /\ CortexEvery \in Nat
  /\ MaxRequests \in Nat
  /\ MaxFailures \in Nat

VARIABLES
  turn,        \* the ingest of each turn
  pending,     \* observations without a PROCESSED edge
  channel,     \* buffered tasks
  cancelled,   \* the consolidation token
  loop,        \* where the worker is
  serving,     \* the agent whose cycle runs
  todo,        \* agents the timer has still to serve
  counter,     \* agent_counters
  batch,       \* observations the running cycle fetched
  sinceCortex, \* agent_cycles_since_cortex
  requests, failures

storeVars == <<turn, pending>>
workerVars == <<loop, serving, todo, counter, batch, sinceCortex>>
vars == <<storeVars, workerVars, channel, cancelled, requests, failures>>

Task == [kind : {"ready", "force", "run"}, agent : Agent]

(* Types of all the variables.                                             *)
TypeOK ==
  /\ turn \in [Turn -> {"new", "committed", "told", "dropped", "silent"}]
  /\ pending \subseteq Turn
  /\ channel \in Seq(Task)
  /\ Len(channel) <= QueueCapacity
  /\ cancelled \in BOOLEAN
  /\ loop \in {"select", "sweep", "fetch", "cycle", "cortex", "stopped"}
  /\ serving \in Agent
  /\ todo \subseteq Agent
  /\ counter \in [Agent -> Nat]
  /\ batch \subseteq Turn
  /\ sinceCortex \in [Agent -> Nat]
  /\ requests \in 0..MaxRequests
  /\ failures \in 0..MaxFailures

Init ==
  /\ turn = [t \in Turn |-> "new"]
  /\ pending = {}
  /\ channel = <<>>
  /\ cancelled = FALSE
  /\ loop = "select"
  /\ serving \in Agent
  /\ todo = {}
  /\ counter = [a \in Agent |-> 0]
  /\ batch = {}
  /\ sinceCortex = [a \in Agent |-> 0]
  /\ requests = 0
  /\ failures = 0

-----------------------------------------------------------------------------
(* Ingest.                                                                 *)

Commit(t) ==
  /\ turn[t] = "new"
  /\ turn' = [turn EXCEPT ![t] = "committed"]
  /\ pending' = pending \cup {t}
  /\ UNCHANGED <<workerVars, channel, cancelled, requests, failures>>

(* The observations that the announcing code sees: ingest_message_atomic   *)
(* returns them to observe, but IngestStep::execute does not put them into *)
(* the context that the ingest worker looks at.                            *)
Extracted(t) == IF t \in Streamed THEN {} ELSE {t}

(* Mutant: the channel grows instead of turning a task away.               *)
TrySendUnbounded(task) ==
  /\ loop # "stopped"
  /\ channel' = Append(channel, task)

(* A stopped worker has dropped its end of the channel.                    *)
TrySend(task) ==
  /\ loop # "stopped"
  /\ Len(channel) < QueueCapacity
  /\ channel' = Append(channel, task)

(* notify_observations, and the tail of IngestWorker::process.             *)
Announce(t) ==
  /\ turn[t] = "committed"
  /\ Extracted(t) # {}
  /\ TrySend([kind |-> "ready", agent |-> AgentOf[t]])
  /\ turn' = [turn EXCEPT ![t] = "told"]
  /\ UNCHANGED <<workerVars, pending, cancelled, requests, failures>>

(* A channel that is full, or closed, does not fail a committed ingest.    *)
AnnounceSkipped(t) ==
  /\ turn[t] = "committed"
  /\ Extracted(t) # {}
  /\ Len(channel) = QueueCapacity \/ loop = "stopped"
  /\ turn' = [turn EXCEPT ![t] = "dropped"]
  /\ UNCHANGED <<workerVars, pending, channel, cancelled, requests, failures>>

NothingToAnnounce(t) ==
  /\ turn[t] = "committed"
  /\ Extracted(t) = {}
  /\ turn' = [turn EXCEPT ![t] = "silent"]
  /\ UNCHANGED <<workerVars, pending, channel, cancelled, requests, failures>>

(* submit_consolidation with an explicit request.                          *)
Request(kind, a) ==
  /\ ~cancelled
  /\ requests < MaxRequests
  /\ requests' = requests + 1
  /\ TrySend([kind |-> kind, agent |-> a])
  /\ UNCHANGED <<workerVars, storeVars, cancelled, failures>>

-----------------------------------------------------------------------------
(* The worker: a biased select over shutdown, tasks and timer.             *)

Selecting == loop = "select" /\ ~cancelled

(* Mutant: the worker drains the channel, which it no longer reads.        *)
StopDrained ==
  /\ loop = "select"
  /\ cancelled
  /\ channel = <<>>
  /\ loop' = "stopped"
  /\ UNCHANGED <<storeVars, serving, todo, counter, batch, sinceCortex>>
  /\ UNCHANGED <<channel, cancelled, requests, failures>>

Stop ==
  /\ loop = "select"
  /\ cancelled
  /\ loop' = "stopped"
  /\ channel' = <<>>
  /\ UNCHANGED <<storeVars, serving, todo, counter, batch, sinceCortex>>
  /\ UNCHANGED <<cancelled, requests, failures>>

Serve(a) == loop' = "fetch" /\ serving' = a

Receive(kind) ==
  /\ Selecting
  /\ channel # <<>>
  /\ Head(channel).kind = kind
  /\ channel' = Tail(channel)
  /\ UNCHANGED <<storeVars, todo, batch, sinceCortex>>
  /\ UNCHANGED <<cancelled, requests, failures>>

(* Mutant: the counter keeps the notices that have triggered a cycle.      *)
ObservationsReadyKept ==
  /\ Receive("ready")
  /\ LET a == Head(channel).agent IN
     /\ counter' = [counter EXCEPT ![a] = @ + 1]
     /\ IF counter[a] + 1 > Threshold THEN Serve(a)
                                      ELSE UNCHANGED <<loop, serving>>

(* The counter is reset before the cycle that it triggers.                 *)
ObservationsReady ==
  /\ Receive("ready")
  /\ LET a == Head(channel).agent
         count == counter[a] + 1
     IN  IF count >= Threshold
         THEN counter' = [counter EXCEPT ![a] = 0] /\ Serve(a)
         ELSE counter' = [counter EXCEPT ![a] = count]
              /\ UNCHANGED <<loop, serving>>

(* Mutant: the request counts as an observation.                           *)
ForceConsolidateCounted ==
  /\ Receive("force")
  /\ counter' = [counter EXCEPT ![Head(channel).agent] = @ + 1]
  /\ Serve(Head(channel).agent)

ForceConsolidate ==
  /\ Receive("force")
  /\ counter' = [counter EXCEPT ![Head(channel).agent] = 0]
  /\ Serve(Head(channel).agent)

RunCycle ==
  /\ Receive("run")
  /\ Serve(Head(channel).agent)
  /\ UNCHANGED counter

(* Mutant: the timer looks only for agents at the threshold.               *)
TickAtThreshold ==
  /\ Selecting
  /\ channel = <<>>
  /\ todo' = {a \in Agent : counter[a] >= Threshold}
  /\ todo' # {}
  /\ loop' = "sweep"
  /\ UNCHANGED <<storeVars, serving, counter, batch, sinceCortex>>
  /\ UNCHANGED <<channel, cancelled, requests, failures>>

(* The timer fires only when no task is ready; it picks the agents once.   *)
Tick ==
  /\ Selecting
  /\ channel = <<>>
  /\ todo' = {a \in Agent : counter[a] > 0}
  /\ todo' # {}
  /\ loop' = "sweep"
  /\ UNCHANGED <<storeVars, serving, counter, batch, sinceCortex>>
  /\ UNCHANGED <<channel, cancelled, requests, failures>>

Sweep(a) ==
  /\ loop = "sweep"
  /\ a \in todo
  /\ todo' = todo \ {a}
  /\ counter' = [counter EXCEPT ![a] = 0]
  /\ Serve(a)
  /\ UNCHANGED <<storeVars, batch, sinceCortex>>
  /\ UNCHANGED <<channel, cancelled, requests, failures>>

-----------------------------------------------------------------------------
(* run_consolidation_cycle, for whichever agent: a cycle takes the         *)
(* observations of all of them.                                            *)

Fetch ==
  /\ loop = "fetch"
  /\ \E B \in SUBSET pending :
       /\ Cardinality(B) <= BatchSize
       /\ Cardinality(B) < BatchSize => B = pending
       /\ batch' = B
  /\ loop' = "cycle"
  /\ UNCHANGED <<storeVars, serving, todo, counter, sinceCortex>>
  /\ UNCHANGED <<channel, cancelled, requests, failures>>

(* Back to the rest of the timer's agents, or to the select.               *)
Resume == loop' = IF todo = {} THEN "select" ELSE "sweep"

CycleSucceeds ==
  /\ loop = "cycle"
  /\ pending' = pending \ batch
  /\ batch' = {}
  /\ LET count == sinceCortex[serving] + 1 IN
     IF CortexEvery = 0
     THEN Resume /\ UNCHANGED sinceCortex
     ELSE IF count < CortexEvery
     THEN Resume /\ sinceCortex' = [sinceCortex EXCEPT ![serving] = count]
     ELSE loop' = "cortex" /\ sinceCortex' = [sinceCortex EXCEPT ![serving] = 0]
  /\ UNCHANGED <<turn, serving, todo, counter>>
  /\ UNCHANGED <<channel, cancelled, requests, failures>>

(* The error is logged; the counter that triggered the cycle stays reset.  *)
CycleFails ==
  /\ loop = "cycle"
  /\ failures < MaxFailures
  /\ failures' = failures + 1
  /\ batch' = {}
  /\ Resume
  /\ UNCHANGED <<storeVars, serving, todo, counter, sinceCortex>>
  /\ UNCHANGED <<channel, cancelled, requests>>

CortexSweep ==
  /\ loop = "cortex"
  /\ Resume
  /\ UNCHANGED <<storeVars, serving, todo, counter, batch, sinceCortex>>
  /\ UNCHANGED <<channel, cancelled, requests, failures>>

(* Agent::consolidate on the caller's task: a whole cycle of its own.      *)
Consolidate ==
  /\ requests < MaxRequests
  /\ requests' = requests + 1
  /\ \E B \in SUBSET pending :
       /\ Cardinality(B) <= BatchSize
       /\ Cardinality(B) < BatchSize => B = pending
       /\ pending' = pending \ B
  /\ UNCHANGED <<turn, workerVars, channel, cancelled, failures>>

(* ShutdownCoordinator::shutdown, phase 2.                                 *)
Cancel ==
  /\ ~cancelled
  /\ cancelled' = TRUE
  /\ UNCHANGED <<storeVars, workerVars, channel, requests, failures>>

-----------------------------------------------------------------------------

Ingest(t) ==
  Commit(t) \/ Announce(t) \/ AnnounceSkipped(t) \/ NothingToAnnounce(t)

Work ==
  \/ Stop \/ ObservationsReady \/ ForceConsolidate \/ RunCycle \/ Tick
  \/ \E a \in Agent : Sweep(a)
  \/ Fetch \/ CycleSucceeds \/ CycleFails \/ CortexSweep

Next ==
  \/ \E t \in Turn : Ingest(t)
  \/ \E a \in Agent, kind \in {"force", "run"} : Request(kind, a)
  \/ Work \/ Consolidate \/ Cancel

Spec == Init /\ [][Next]_vars

(* The worker task is scheduled, its timer fires and its cycles end.       *)
FairSpec == Spec /\ WF_vars(Work)

-----------------------------------------------------------------------------
(* Properties.                                                             *)

Notices(a) ==
  Cardinality({k \in 1..Len(channel) :
                 channel[k].kind = "ready" /\ channel[k].agent = a})

Told(a) == {t \in Turn : AgentOf[t] = a /\ turn[t] = "told"}

(* No observation is counted twice: what an agent's counter holds and what *)
(* its notices in the channel will add is never more than it announced     *)
(* (agent_counters).                                                       *)
CountersAreEarned == \A a \in Agent : counter[a] + Notices(a) <= Cardinality(Told(a))

(* Between two tasks no counter stands at the threshold: the cycle it      *)
(* calls for has begun, and cortex counts stay below their cadence.        *)
NoCycleIsOwed ==
  loop = "select" =>
    \A a \in Agent : /\ counter[a] < Threshold \/ counter[a] = 0
                     /\ sinceCortex[a] < CortexEvery \/ CortexEvery = 0

(* As long as no cycle fails, an observation that was announced is         *)
(* consolidated, however few others follow it: the timer picks up what the *)
(* threshold leaves.  It takes a batch that holds the backlog.             *)
AnnouncedIsConsolidated ==
  \A t \in Turn :
    turn[t] = "told" ~> (t \notin pending \/ cancelled \/ failures > 0)

(* Shutdown ends the worker, at the latest when its cycles have ended.     *)
ShutdownStopsWorker == cancelled ~> loop = "stopped"

(* "Caps work per cycle so a long-running ingest doesn't starve other      *)
(* agents. Spillover is picked up on the next sweep."                      *)
(* (uniko-pipes/src/config.rs:22): what a full batch leaves behind is      *)
(* consolidated later, without a new notice or request.                    *)
SpilloverIsPickedUp ==
  \A t \in Turn :
    turn[t] = "told" ~> (t \notin pending \/ cancelled \/ failures > 0)

(* "the ingest worker sends it for streamed `submit`s"                     *)
(* (website/docs/pipelines/index.md:150): a streamed turn that left an     *)
(* observation is announced, or the channel was full.                      *)
StreamedIsAnnounced == \A t \in Turn : turn[t] # "silent"
=============================================================================
