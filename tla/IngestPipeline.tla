-------------------------- MODULE IngestPipeline ---------------------------
(***************************************************************************)
(* The ingest side of PipelineSystem: submit_ingest, the bounded channel,  *)
(* the ingest worker, the task it spawns for each item, the in-flight      *)
(* counter that quiesce polls, and the shutdown of the ingest worker.      *)
(*                                                                         *)
(* Callers, the worker and the spawned tasks run on different threads, so  *)
(* every access to shared state (channel, counter, semaphore, health) is a *)
(* step of its own.  The counter is an AtomicUsize: a negative value below *)
(* stands for its wrapped one, which differs from 0 just the same.         *)
(*                                                                         *)
(* Abstracted: what a step does; the dead letters, which nothing reads     *)
(* back; and the notice a finished item sends to the consolidation worker  *)
(* (see ConsolidationWorker).                                              *)
(***************************************************************************)
EXTENDS Integers, Sequences, FiniteSets

CONSTANTS
  Item,            \* ingest tasks, each submitted at most once
  Flusher,         \* callers of quiesce
  QueueCapacity,   \* ingest_queue_capacity
  Concurrency,     \* ingest_concurrency
  Steps            \* length of the step chain

ASSUME PipelineAssumption ==
  /\ IsFiniteSet(Item)
  /\ QueueCapacity \in Nat \ {0}
  /\ Concurrency \in Nat \ {0}
  /\ Steps \in Nat

VARIABLES
  call,       \* the submit_ingest call of each item
  queue,      \* buffered tasks
  inflight,   \* ingest_inflight
  worker,     \* the worker loop
  cancelled,  \* the ingest token
  task,       \* the spawned task of each item
  step,       \* next step of its chain
  failed,     \* items with a failed step
  permits,    \* free permits of the semaphore
  health,     \* items_processed and items_failed
  flush       \* the quiesce call of each flusher

callerVars == <<call, queue, inflight>>
taskVars == <<task, step, failed, permits, health>>
vars == <<callerVars, worker, cancelled, taskVars, flush>>

(* "ended": the chain is over; "reported": health is recorded, or a panic  *)
(* unwinds; "released": the permit is dropped; "finished": so is the guard *)
TaskState ==
  {"none", "spawned", "running", "ended", "reported", "released", "finished"}

(* Types of all the variables.                                             *)
TypeOK ==
  /\ call \in [Item -> {"idle", "sent", "ok", "rejected"}]
  /\ queue \in Seq(Item)
  /\ inflight \in Int
  /\ worker \in {"recv", "stopped"}
  /\ cancelled \in BOOLEAN
  /\ task \in [Item -> TaskState]
  /\ step \in [Item -> 1..(Steps + 1)]
  /\ failed \subseteq Item
  /\ permits \in 0..Concurrency
  /\ health \in [processed : Nat, failed : Nat]
  /\ flush \in [Flusher -> {"idle", "polling", "returned"}]

Init ==
  /\ call = [i \in Item |-> "idle"]
  /\ queue = <<>>
  /\ inflight = 0
  /\ worker = "recv"
  /\ cancelled = FALSE
  /\ task = [i \in Item |-> "none"]
  /\ step = [i \in Item |-> 1]
  /\ failed = {}
  /\ permits = Concurrency
  /\ health = [processed |-> 0, failed |-> 0]
  /\ flush = [f \in Flusher |-> "idle"]

-----------------------------------------------------------------------------
(* submit_ingest: try_send, then fetch_add.                                *)

(* shutdown takes the PipelineSystem by value: no call is in progress when *)
(* it starts, and none can start afterwards.                               *)
Send(i) ==
  /\ ~cancelled
  /\ call[i] = "idle"
  /\ Len(queue) < QueueCapacity
  /\ queue' = Append(queue, i)
  /\ call' = [call EXCEPT ![i] = "sent"]
  /\ UNCHANGED <<inflight, worker, cancelled, taskVars, flush>>

(* Mutant: the item is counted before try_send, whatever it returns.       *)
RejectCounted(i) ==
  /\ ~cancelled
  /\ call[i] = "idle"
  /\ Len(queue) = QueueCapacity
  /\ call' = [call EXCEPT ![i] = "rejected"]
  /\ inflight' = inflight + 1
  /\ UNCHANGED <<queue, worker, cancelled, taskVars, flush>>

Reject(i) ==
  /\ ~cancelled
  /\ call[i] = "idle"
  /\ Len(queue) = QueueCapacity
  /\ call' = [call EXCEPT ![i] = "rejected"]
  /\ UNCHANGED <<queue, inflight, worker, cancelled, taskVars, flush>>

Count(i) ==
  /\ call[i] = "sent"
  /\ inflight' = inflight + 1
  /\ call' = [call EXCEPT ![i] = "ok"]
  /\ UNCHANGED <<queue, worker, cancelled, taskVars, flush>>

-----------------------------------------------------------------------------
(* The worker loop: a biased select, cancellation first.                   *)

Receive ==
  /\ worker = "recv"
  /\ ~cancelled
  /\ queue # <<>>
  /\ task' = [task EXCEPT ![Head(queue)] = "spawned"]
  /\ queue' = Tail(queue)
  /\ UNCHANGED <<call, inflight, worker, cancelled, flush>>
  /\ UNCHANGED <<step, failed, permits, health>>

(* The receiver is dropped, and the buffered tasks with it.                *)
Stop ==
  /\ worker = "recv"
  /\ cancelled
  /\ worker' = "stopped"
  /\ queue' = <<>>
  /\ UNCHANGED <<call, inflight, cancelled, taskVars, flush>>

-----------------------------------------------------------------------------
(* The spawned task of one item.                                           *)

Become(i, state) == task' = [task EXCEPT ![i] = state]

OutsideTask == UNCHANGED <<callerVars, worker, cancelled, flush>>

(* Mutant: the item does not wait for a permit.                            *)
AcquireUnbounded(i) ==
  /\ task[i] = "spawned"
  /\ Become(i, "running")
  /\ permits' = IF permits > 0 THEN permits - 1 ELSE 0
  /\ OutsideTask
  /\ UNCHANGED <<step, failed, health>>

Acquire(i) ==
  /\ task[i] = "spawned"
  /\ permits > 0
  /\ Become(i, "running")
  /\ permits' = permits - 1
  /\ OutsideTask
  /\ UNCHANGED <<step, failed, health>>

(* Mutant: the chain does not stop behind its last step.                   *)
AtStepUnbounded(i) == task[i] = "running" /\ ~cancelled

(* The chain looks at the token before each step, and only there.          *)
AtStep(i) == task[i] = "running" /\ step[i] <= Steps /\ ~cancelled

(* A step that completes, is skipped, or should not run.                   *)
StepPasses(i) ==
  /\ AtStep(i)
  /\ step' = [step EXCEPT ![i] = @ + 1]
  /\ OutsideTask
  /\ UNCHANGED <<task, failed, permits, health>>

(* A failure with policy Skip or DeadLetter: the chain goes on either way. *)
StepFails(i) ==
  /\ AtStep(i)
  /\ step' = [step EXCEPT ![i] = @ + 1]
  /\ failed' = failed \cup {i}
  /\ OutsideTask
  /\ UNCHANGED <<task, permits, health>>

StepAborts(i) ==
  /\ AtStep(i)
  /\ failed' = failed \cup {i}
  /\ Become(i, "ended")
  /\ OutsideTask
  /\ UNCHANGED <<step, permits, health>>

StepPanics(i) ==
  /\ AtStep(i)
  /\ Become(i, "reported")
  /\ OutsideTask
  /\ UNCHANGED <<step, failed, permits, health>>

(* Mutant: cancellation does not end the chain.                            *)
EndChainAtLast(i) ==
  /\ task[i] = "running"
  /\ step[i] > Steps
  /\ Become(i, "ended")
  /\ OutsideTask
  /\ UNCHANGED <<step, failed, permits, health>>

EndChain(i) ==
  /\ task[i] = "running"
  /\ step[i] > Steps \/ cancelled
  /\ Become(i, "ended")
  /\ OutsideTask
  /\ UNCHANGED <<step, failed, permits, health>>

Report(i) ==
  /\ task[i] = "ended"
  /\ health' = IF i \in failed THEN [health EXCEPT !.failed = @ + 1]
                               ELSE [health EXCEPT !.processed = @ + 1]
  /\ Become(i, "reported")
  /\ OutsideTask
  /\ UNCHANGED <<step, failed, permits>>

(* Mutant: the permit comes back only when the chain ran to its end.       *)
ReleaseAtEnd(i) ==
  /\ task[i] = "reported"
  /\ permits' = IF step[i] > Steps THEN permits + 1 ELSE permits
  /\ Become(i, "released")
  /\ OutsideTask
  /\ UNCHANGED <<step, failed, health>>

(* Locals drop in reverse order: the permit before the in-flight guard.    *)
Release(i) ==
  /\ task[i] = "reported"
  /\ permits' = permits + 1
  /\ Become(i, "released")
  /\ OutsideTask
  /\ UNCHANGED <<step, failed, health>>

(* Mutant: the count goes down only when the chain ran to its end.         *)
FinishAtEnd(i) ==
  /\ task[i] = "released"
  /\ inflight' = IF step[i] > Steps THEN inflight - 1 ELSE inflight
  /\ Become(i, "finished")
  /\ UNCHANGED <<call, queue, worker, cancelled, flush>>
  /\ UNCHANGED <<step, failed, permits, health>>

Finish(i) ==
  /\ task[i] = "released"
  /\ inflight' = inflight - 1
  /\ Become(i, "finished")
  /\ UNCHANGED <<call, queue, worker, cancelled, flush>>
  /\ UNCHANGED <<step, failed, permits, health>>

-----------------------------------------------------------------------------
(* quiesce polls the counter; a poll that reads another value changes      *)
(* nothing.                                                                *)

Quiesce(f) ==
  /\ ~cancelled
  /\ flush[f] = "idle"
  /\ flush' = [flush EXCEPT ![f] = "polling"]
  /\ UNCHANGED <<callerVars, worker, cancelled, taskVars>>

(* Mutant: quiesce waits for the channel to be empty.                      *)
QuiesceReturnsEmpty(f) ==
  /\ flush[f] = "polling"
  /\ queue = <<>>
  /\ flush' = [flush EXCEPT ![f] = "returned"]
  /\ UNCHANGED <<callerVars, worker, cancelled, taskVars>>

QuiesceReturns(f) ==
  /\ flush[f] = "polling"
  /\ inflight = 0
  /\ flush' = [flush EXCEPT ![f] = "returned"]
  /\ UNCHANGED <<callerVars, worker, cancelled, taskVars>>

(* ShutdownCoordinator::shutdown, phase 1.                                 *)
Cancel ==
  /\ ~cancelled
  /\ \A i \in Item : call[i] # "sent"
  /\ \A f \in Flusher : flush[f] # "polling"
  /\ cancelled' = TRUE
  /\ UNCHANGED <<callerVars, worker, taskVars, flush>>

-----------------------------------------------------------------------------

RunStep(i) == StepPasses(i) \/ StepFails(i) \/ StepAborts(i) \/ StepPanics(i)

Run(i) ==
  Acquire(i) \/ RunStep(i) \/ EndChain(i) \/ Report(i) \/ Release(i) \/ Finish(i)

Next ==
  \/ \E i \in Item : Send(i) \/ Reject(i) \/ Count(i) \/ Run(i)
  \/ Receive \/ Stop \/ Cancel
  \/ \E f \in Flusher : Quiesce(f) \/ QuiesceReturns(f)

Spec == Init /\ [][Next]_vars

(* Threads are scheduled, steps end, and the semaphore serves its waiters  *)
(* in turn; nobody is obliged to submit, to flush or to shut down.         *)
FairSpec ==
  /\ Spec
  /\ WF_vars(Receive \/ Stop)
  /\ \A i \in Item : WF_vars(Count(i)) /\ WF_vars(Run(i))
  /\ \A f \in Flusher : WF_vars(QuiesceReturns(f))

-----------------------------------------------------------------------------
(* Properties.                                                             *)

Counted == {i \in Item : call[i] = "ok"}

Finished == {i \in Item : task[i] = "finished"}

Holding == {i \in Item : task[i] \in {"running", "ended", "reported"}}

(* The counter never drifts: whichever way items end (completed, failed,   *)
(* aborted, panicked, cancelled), it is the number of counted items less   *)
(* the number of finished ones (InflightGuard).                            *)
InflightExact == inflight = Cardinality(Counted) - Cardinality(Finished)

(* No permit leaks or is handed out twice, panics included (_permit).      *)
PermitsExact == permits + Cardinality(Holding) = Concurrency

(* quiesce is a barrier as long as no submit_ingest call is between its    *)
(* try_send and its fetch_add: it then returns only when every accepted    *)
(* item has finished.                                                      *)
BarrierAtRest ==
  [][\A f \in Flusher :
       flush[f] = "polling" /\ flush'[f] = "returned"
         /\ (\A i \in Item : call[i] # "sent") =>
           \A i \in Item : call[i] = "ok" => task[i] = "finished"]_vars

(* An accepted item finishes, unless shutdown begins, whatever the other   *)
(* items do (panics and failures of one item never block another).         *)
AcceptedFinishes ==
  \A i \in Item : call[i] = "ok" ~> (task[i] = "finished" \/ cancelled)

(* quiesce returns once submissions stop: no way an item ends leaves the   *)
(* counter above zero.                                                     *)
QuiesceEnds ==
  \A f \in Flusher : flush[f] = "polling" ~> flush[f] = "returned"

(* Cancellation ends the worker loop and every spawned task.               *)
ShutdownEndsTasks ==
  cancelled ~> /\ worker = "stopped"
               /\ \A i \in Item : task[i] \in {"none", "finished"}

(* "A true barrier: returns only when no submitted-but-unfinished ingest   *)
(* item remains" (uniko-memory/src/pipeline/mod.rs:152): when quiesce      *)
(* returns, every item whose submission returned Ok has finished.          *)
QuiesceIsBarrier ==
  [][\A f \in Flusher :
       flush[f] = "polling" /\ flush'[f] = "returned" =>
         \A i \in Item : call[i] = "ok" => task[i] = "finished"]_vars

-----------------------------------------------------------------------------
(* The pipeline implements its contract.                                   *)

Queued == {queue[k] : k \in 1..Len(queue)}

StandingOf(i) ==
  CASE call[i] = "idle" -> "offered"
    [] call[i] = "rejected" -> "rejected"
    [] task[i] \in {"running", "ended", "reported"} -> "working"
    [] task[i] \in {"released", "finished"} -> "done"
    [] task[i] = "spawned" \/ i \in Queued -> "accepted"
    [] OTHER -> "dropped"

Standings == [i \in Item |-> StandingOf(i)]

Contract == INSTANCE IngestContract WITH item <- Standings, closed <- cancelled

(* Refinement: an accepted item is run once, under the concurrency bound,  *)
(* and dropped only after shutdown began (IngestWorker::run and process).  *)
KeepsContract == Contract!Spec
=============================================================================
