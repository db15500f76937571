----------------------- MODULE IngestPipelineProofs ------------------------
(***************************************************************************)
(* Proofs about IngestPipeline, for any items, capacities and step counts. *)
(***************************************************************************)
EXTENDS IngestPipeline, FiniteSetTheorems, TLAPS

(* The types, without the upper bound of permits, which PermitsExact       *)
(* gives.                                                                  *)
Typed ==
  /\ call \in [Item -> {"idle", "sent", "ok", "rejected"}]
  /\ queue \in Seq(Item)
  /\ inflight \in Int
  /\ worker \in {"recv", "stopped"}
  /\ cancelled \in BOOLEAN
  /\ task \in [Item -> TaskState]
  /\ step \in [Item -> 1..(Steps + 1)]
  /\ failed \subseteq Item
  /\ permits \in Nat
  /\ health \in [processed : Nat, failed : Nat]
  /\ flush \in [Flusher -> {"idle", "polling", "returned"}]

(* Items in the channel are waiting for their first task, and for no other *)
(* place in the channel; only accepted items have a task.                  *)
Orderly ==
  /\ \A k \in 1..Len(queue) : /\ task[queue[k]] = "none"
                              /\ call[queue[k]] \in {"sent", "ok"}
  /\ \A j, k \in 1..Len(queue) : queue[j] = queue[k] => j = k
  /\ \A i \in Item : task[i] # "none" => call[i] \in {"sent", "ok"}

(* The inductive invariant.                                                *)
IInv == Typed /\ Orderly /\ InflightExact /\ PermitsExact

-----------------------------------------------------------------------------

(* Sets of items have cardinalities to count with.                         *)
LEMMA ItemsFinite ==
  ASSUME NEW S \in SUBSET Item
  PROVE  IsFiniteSet(S) /\ Cardinality(S) \in Nat
PROOF
  <1>1. IsFiniteSet(S)
    BY PipelineAssumption, FS_Subset
  <1> QED
    BY <1>1, FS_CardinalityType

(* An item that joins a set of items adds one to its cardinality.          *)
LEMMA Joins ==
  ASSUME NEW S \in SUBSET Item, NEW i \in Item, i \notin S
  PROVE  Cardinality(S \cup {i}) = Cardinality(S) + 1
PROOF
  BY ItemsFinite, FS_AddElement

(* An item that leaves a set of items takes one from its cardinality.      *)
LEMMA Leaves ==
  ASSUME NEW S \in SUBSET Item, NEW i \in S
  PROVE  Cardinality(S \ {i}) = Cardinality(S) - 1
PROOF
  BY ItemsFinite, FS_RemoveElement

(* The bound of the permits.                                               *)
LEMMA IInvTypeOK ==
  ASSUME IInv PROVE TypeOK
PROOF
  <1>1. Cardinality(Holding) \in Nat
    BY ItemsFinite DEF Holding
  <1>2. permits \in 0..Concurrency
    BY <1>1, PipelineAssumption DEF IInv, Typed, PermitsExact
  <1> QED
    BY <1>2 DEF IInv, Typed, TypeOK

(* Nothing is submitted and every permit is free at the start.             *)
LEMMA InitIInv ==
  ASSUME Init PROVE IInv
PROOF
  <1>1. Typed
    <2>1. queue \in Seq(Item) /\ inflight \in Int /\ permits \in Nat
      BY PipelineAssumption DEF Init
    <2>2. step \in [Item -> 1..(Steps + 1)]
      BY PipelineAssumption DEF Init
    <2>3. /\ call \in [Item -> {"idle", "sent", "ok", "rejected"}]
          /\ worker \in {"recv", "stopped"} /\ cancelled \in BOOLEAN
          /\ failed \subseteq Item
      BY DEF Init
    <2>4. /\ task \in [Item -> TaskState]
          /\ flush \in [Flusher -> {"idle", "polling", "returned"}]
      BY DEF Init, TaskState
    <2>5. health \in [processed : Nat, failed : Nat]
      BY DEF Init
    <2> QED
      BY <2>1, <2>2, <2>3, <2>4, <2>5 DEF Typed
  <1>2. Orderly
    BY DEF Init, Orderly
  <1>3. Counted = {} /\ Finished = {} /\ Holding = {}
    BY DEF Init, Counted, Finished, Holding
  <1>4. InflightExact /\ PermitsExact
    BY <1>3, FS_EmptySet, PipelineAssumption DEF Init, InflightExact, PermitsExact
  <1> QED
    BY <1>1, <1>2, <1>4 DEF IInv

(* The two balances survive a step that moves nothing between their sets.  *)
LEMMA SameBalance ==
  ASSUME IInv, inflight' = inflight, permits' = permits,
         Counted' = Counted, Finished' = Finished, Holding' = Holding
  PROVE  InflightExact' /\ PermitsExact'
PROOF
  BY DEF IInv, InflightExact, PermitsExact

(* So does a step that changes neither calls nor tasks.                    *)
LEMMA SameItems ==
  ASSUME IInv, inflight' = inflight, permits' = permits, task' = task, call' = call
  PROVE  InflightExact' /\ PermitsExact'
PROOF
  <1>1. Counted' = Counted /\ Finished' = Finished /\ Holding' = Holding
    BY DEF Counted, Finished, Holding
  <1> QED
    BY <1>1, SameBalance

-----------------------------------------------------------------------------
(* The callers of submit_ingest.                                           *)

(* An item that enters the channel is new to it.                           *)
LEMMA SendIInv ==
  ASSUME IInv, NEW i \in Item, Send(i) PROVE IInv'
PROOF
  <1>1. Typed'
    BY DEF IInv, Typed, Send, taskVars
  <1>2. Orderly'
    <2>1. /\ Len(queue') = Len(queue) + 1
          /\ queue'[Len(queue) + 1] = i
          /\ \A k \in 1..Len(queue) : queue'[k] = queue[k]
      BY DEF IInv, Typed, Send
    <2>2. task[i] = "none" /\ task' = task /\ call'[i] = "sent"
      BY DEF IInv, Typed, Orderly, Send, taskVars
    <2>3. \A k \in 1..Len(queue) : queue[k] # i /\ call'[queue[k]] = call[queue[k]]
      BY DEF IInv, Typed, Orderly, Send
    <2>4. \A k \in 1..Len(queue') : k = Len(queue) + 1 \/ k \in 1..Len(queue)
      BY <2>1 DEF IInv, Typed
    <2>5. \A k \in 1..Len(queue') : /\ task'[queue'[k]] = "none"
                                    /\ call'[queue'[k]] \in {"sent", "ok"}
      BY <2>1, <2>2, <2>3, <2>4 DEF IInv, Orderly
    <2>6. \A j, k \in 1..Len(queue') : queue'[j] = queue'[k] => j = k
      BY <2>1, <2>3, <2>4 DEF IInv, Orderly
    <2>7. \A n \in Item : task'[n] # "none" => call'[n] \in {"sent", "ok"}
      BY <2>2 DEF IInv, Typed, Orderly, Send
    <2> QED
      BY <2>5, <2>6, <2>7 DEF Orderly
  <1>3. Counted' = Counted /\ Finished' = Finished /\ Holding' = Holding
    BY DEF IInv, Typed, Send, taskVars, Counted, Finished, Holding
  <1>4. InflightExact' /\ PermitsExact'
    BY <1>3, SameBalance DEF Send, taskVars
  <1> QED
    BY <1>1, <1>2, <1>4 DEF IInv

(* A rejected item is neither queued nor counted.                          *)
LEMMA RejectIInv ==
  ASSUME IInv, NEW i \in Item, Reject(i) PROVE IInv'
PROOF
  <1>1. Typed'
    BY DEF IInv, Typed, Reject, taskVars
  <1>2. Orderly'
    BY DEF IInv, Typed, Orderly, Reject, taskVars
  <1>3. Counted' = Counted /\ Finished' = Finished /\ Holding' = Holding
    BY DEF IInv, Typed, Reject, taskVars, Counted, Finished, Holding
  <1>4. InflightExact' /\ PermitsExact'
    BY <1>3, SameBalance DEF Reject, taskVars
  <1> QED
    BY <1>1, <1>2, <1>4 DEF IInv

(* The fetch_add counts an item that was not counted.                      *)
LEMMA CountIInv ==
  ASSUME IInv, NEW i \in Item, Count(i) PROVE IInv'
PROOF
  <1>1. Typed'
    BY DEF IInv, Typed, Count, taskVars
  <1>2. Orderly'
    BY DEF IInv, Typed, Orderly, Count, taskVars
  <1>3. Counted' = Counted \cup {i} /\ i \notin Counted
    BY DEF IInv, Typed, Count, Counted
  <1>4. Finished' = Finished /\ Holding' = Holding
    BY DEF Count, taskVars, Finished, Holding
  <1>5. Cardinality(Counted') = Cardinality(Counted) + 1
    BY <1>3, Joins DEF Counted
  <1>6. Cardinality(Counted) \in Nat /\ Cardinality(Finished) \in Nat
    BY ItemsFinite DEF Counted, Finished
  <1>7. InflightExact'
    BY <1>4, <1>5, <1>6 DEF IInv, InflightExact, Count
  <1>8. PermitsExact'
    BY <1>4 DEF IInv, PermitsExact, Count, taskVars
  <1> QED
    BY <1>1, <1>2, <1>7, <1>8 DEF IInv

-----------------------------------------------------------------------------
(* The worker loop.                                                        *)

(* The item that leaves the channel gets its first task.                   *)
LEMMA ReceiveIInv ==
  ASSUME IInv, Receive PROVE IInv'
PROOF
  <1> DEFINE h == Head(queue)
  <1>1. /\ Len(queue) \in Nat /\ Len(queue) > 0
        /\ h = queue[1] /\ h \in Item /\ task[h] = "none"
        /\ call[h] \in {"sent", "ok"}
    BY DEF IInv, Typed, Orderly, Receive
  <1>2. Typed'
    BY <1>1 DEF IInv, Typed, Receive, TaskState
  <1>3. /\ Len(queue') = Len(queue) - 1
        /\ \A k \in 1..Len(queue') : queue'[k] = queue[k + 1]
    BY <1>1 DEF IInv, Typed, Receive
  <1>4. Orderly'
    <2>1. \A k \in 1..Len(queue') : k + 1 \in 1..Len(queue) /\ k + 1 # 1
      BY <1>1, <1>3
    <2>2. ASSUME NEW k \in 1..Len(queue')
          PROVE  queue'[k] # h /\ queue'[k] \in Item
      <3>1. queue'[k] = queue[k + 1] /\ queue[k + 1] \in Item
        BY <1>3, <2>1 DEF IInv, Typed
      <3>2. queue[k + 1] # queue[1]
        BY <1>1, <2>1 DEF IInv, Orderly
      <3> QED
        BY <1>1, <3>1, <3>2
    <2>3. \A k \in 1..Len(queue') : /\ task'[queue'[k]] = "none"
                                    /\ call'[queue'[k]] \in {"sent", "ok"}
      BY <1>3, <2>1, <2>2 DEF IInv, Typed, Orderly, Receive
    <2>4. \A j, k \in 1..Len(queue') : queue'[j] = queue'[k] => j = k
      BY <1>1, <1>3, <2>1 DEF IInv, Orderly
    <2>5. \A n \in Item : task'[n] # "none" => call'[n] \in {"sent", "ok"}
      BY <1>1 DEF IInv, Typed, Orderly, Receive
    <2> QED
      BY <2>3, <2>4, <2>5 DEF Orderly
  <1>5. Counted' = Counted /\ Finished' = Finished /\ Holding' = Holding
    BY <1>1 DEF IInv, Typed, Receive, Counted, Finished, Holding
  <1>6. InflightExact' /\ PermitsExact'
    BY <1>5, SameBalance DEF Receive
  <1> QED
    BY <1>2, <1>4, <1>6 DEF IInv

(* The items that are dropped stay counted: nobody polls any more.         *)
LEMMA StopIInv ==
  ASSUME IInv, Stop PROVE IInv'
PROOF
  <1>1. Typed'
    BY DEF IInv, Typed, Stop, taskVars
  <1>2. Orderly'
    BY DEF IInv, Typed, Orderly, Stop, taskVars
  <1>3. InflightExact' /\ PermitsExact'
    BY SameItems DEF Stop, taskVars
  <1> QED
    BY <1>1, <1>2, <1>3 DEF IInv

-----------------------------------------------------------------------------
(* The spawned tasks.                                                      *)

(* A step of a task leaves the channel in order.                           *)
LEMMA TaskOrderly ==
  ASSUME IInv, NEW i \in Item, NEW s \in TaskState,
         task[i] # "none", task' = [task EXCEPT ![i] = s],
         UNCHANGED <<call, queue>>
  PROVE  Orderly'
PROOF
  BY DEF IInv, Typed, Orderly

(* A step of a task that passes no permit on and finishes nothing.         *)
LEMMA TaskBalance ==
  ASSUME IInv, NEW i \in Item, NEW s \in {"running", "ended", "reported"},
         i \in Holding, task' = [task EXCEPT ![i] = s],
         UNCHANGED <<call, inflight, permits>>
  PROVE  InflightExact' /\ PermitsExact'
PROOF
  <1>1. Counted' = Counted /\ Finished' = Finished /\ Holding' = Holding
    BY DEF IInv, Typed, Counted, Finished, Holding
  <1> QED
    BY <1>1, SameBalance

(* A permit passes from the semaphore to the item.                         *)
LEMMA AcquireIInv ==
  ASSUME IInv, NEW i \in Item, Acquire(i) PROVE IInv'
PROOF
  <1>1. Typed'
    BY PipelineAssumption
    DEF IInv, Typed, Acquire, Become, OutsideTask, callerVars, TaskState
  <1>2. Orderly'
    BY TaskOrderly DEF Acquire, Become, OutsideTask, callerVars, TaskState
  <1>3. Counted' = Counted /\ Finished' = Finished
    BY DEF IInv, Typed, Acquire, Become, OutsideTask, callerVars, Counted, Finished
  <1>4. Holding' = Holding \cup {i} /\ i \notin Holding
    BY DEF IInv, Typed, Acquire, Become, Holding
  <1>5. /\ Cardinality(Holding') = Cardinality(Holding) + 1
        /\ Cardinality(Holding) \in Nat
    BY <1>4, Joins, ItemsFinite DEF Holding
  <1>6. InflightExact'
    BY <1>3 DEF IInv, InflightExact, Acquire, OutsideTask, callerVars
  <1>7. PermitsExact'
    BY <1>5 DEF IInv, Typed, PermitsExact, Acquire
  <1> QED
    BY <1>1, <1>2, <1>6, <1>7 DEF IInv

(* Whatever a step of the chain does, the item keeps its permit.           *)
LEMMA RunStepIInv ==
  ASSUME IInv, NEW i \in Item, RunStep(i) PROVE IInv'
PROOF
  <1> USE DEF AtStep, Become, OutsideTask, callerVars
  <1>1. task[i] = "running" /\ i \in Holding
    BY DEF RunStep, StepPasses, StepFails, StepAborts, StepPanics, Holding
  <1>2. CASE StepPasses(i)
    <2>1. Typed'
      BY <1>2, PipelineAssumption DEF IInv, Typed, StepPasses
    <2>2. Orderly'
      BY <1>2 DEF IInv, Orderly, StepPasses
    <2>3. InflightExact' /\ PermitsExact'
      BY <1>2, SameItems DEF StepPasses
    <2> QED
      BY <2>1, <2>2, <2>3 DEF IInv
  <1>3. CASE StepFails(i)
    <2>1. Typed'
      BY <1>3, PipelineAssumption DEF IInv, Typed, StepFails
    <2>2. Orderly'
      BY <1>3 DEF IInv, Orderly, StepFails
    <2>3. InflightExact' /\ PermitsExact'
      BY <1>3, SameItems DEF StepFails
    <2> QED
      BY <2>1, <2>2, <2>3 DEF IInv
  <1>4. CASE StepAborts(i)
    <2>1. Typed'
      BY <1>4 DEF IInv, Typed, StepAborts, TaskState
    <2>2. Orderly'
      BY <1>1, <1>4, TaskOrderly DEF StepAborts, TaskState
    <2>3. InflightExact' /\ PermitsExact'
      BY <1>1, <1>4, TaskBalance DEF StepAborts
    <2> QED
      BY <2>1, <2>2, <2>3 DEF IInv
  <1>5. CASE StepPanics(i)
    <2>1. Typed'
      BY <1>5 DEF IInv, Typed, StepPanics, TaskState
    <2>2. Orderly'
      BY <1>1, <1>5, TaskOrderly DEF StepPanics, TaskState
    <2>3. InflightExact' /\ PermitsExact'
      BY <1>1, <1>5, TaskBalance DEF StepPanics
    <2> QED
      BY <2>1, <2>2, <2>3 DEF IInv
  <1> QED
    BY <1>2, <1>3, <1>4, <1>5 DEF RunStep

(* So does the end of the chain.                                           *)
LEMMA EndChainIInv ==
  ASSUME IInv, NEW i \in Item, EndChain(i) PROVE IInv'
PROOF
  <1>1. Typed'
    BY DEF IInv, Typed, EndChain, Become, OutsideTask, callerVars, TaskState
  <1>2. Orderly'
    BY TaskOrderly DEF EndChain, Become, OutsideTask, callerVars, TaskState
  <1>3. InflightExact' /\ PermitsExact'
    BY TaskBalance DEF EndChain, Become, OutsideTask, callerVars, Holding
  <1> QED
    BY <1>1, <1>2, <1>3 DEF IInv

(* And the report to the health tracker.                                   *)
LEMMA ReportIInv ==
  ASSUME IInv, NEW i \in Item, Report(i) PROVE IInv'
PROOF
  <1> DEFINE Health == [processed : Nat, failed : Nat]
  <1>1. health' \in Health
    <2>1. health \in Health
      BY DEF IInv, Typed
    <2>2. \A h \in Health : /\ [h EXCEPT !.failed = @ + 1] \in Health
                            /\ [h EXCEPT !.processed = @ + 1] \in Health
      OBVIOUS
    <2> QED
      BY <2>1, <2>2 DEF Report
  <1>2. Typed'
    BY <1>1 DEF IInv, Typed, Report, Become, OutsideTask, callerVars, TaskState
  <1>3. Orderly'
    BY TaskOrderly DEF Report, Become, OutsideTask, callerVars, TaskState
  <1>4. InflightExact' /\ PermitsExact'
    BY TaskBalance DEF Report, Become, OutsideTask, callerVars, Holding
  <1> QED
    BY <1>2, <1>3, <1>4 DEF IInv

(* A permit passes from the item to the semaphore.                         *)
LEMMA ReleaseIInv ==
  ASSUME IInv, NEW i \in Item, Release(i) PROVE IInv'
PROOF
  <1>1. Typed'
    BY DEF IInv, Typed, Release, Become, OutsideTask, callerVars, TaskState
  <1>2. Orderly'
    BY TaskOrderly DEF Release, Become, OutsideTask, callerVars, TaskState
  <1>3. Counted' = Counted /\ Finished' = Finished
    BY DEF IInv, Typed, Release, Become, OutsideTask, callerVars, Counted, Finished
  <1>4. Holding' = Holding \ {i} /\ i \in Holding
    BY DEF IInv, Typed, Release, Become, Holding
  <1>5. /\ Cardinality(Holding') = Cardinality(Holding) - 1
        /\ Cardinality(Holding) \in Nat
    BY <1>4, Leaves, ItemsFinite DEF Holding
  <1>6. InflightExact'
    BY <1>3 DEF IInv, InflightExact, Release, OutsideTask, callerVars
  <1>7. PermitsExact'
    BY <1>5 DEF IInv, Typed, PermitsExact, Release
  <1> QED
    BY <1>1, <1>2, <1>6, <1>7 DEF IInv

(* The guard's fetch_sub is taken once for each item.                      *)
LEMMA FinishIInv ==
  ASSUME IInv, NEW i \in Item, Finish(i) PROVE IInv'
PROOF
  <1>1. Typed'
    BY DEF IInv, Typed, Finish, Become, TaskState
  <1>2. Orderly'
    BY TaskOrderly DEF Finish, Become, TaskState
  <1>3. Counted' = Counted /\ Holding' = Holding
    BY DEF IInv, Typed, Finish, Become, Counted, Holding
  <1>4. Finished' = Finished \cup {i} /\ i \notin Finished
    BY DEF IInv, Typed, Finish, Become, Finished
  <1>5. /\ Cardinality(Finished') = Cardinality(Finished) + 1
        /\ Cardinality(Finished) \in Nat /\ Cardinality(Counted) \in Nat
    BY <1>4, Joins, ItemsFinite DEF Finished, Counted
  <1>6. InflightExact'
    BY <1>3, <1>5 DEF IInv, InflightExact, Finish
  <1>7. PermitsExact'
    BY <1>3 DEF IInv, PermitsExact, Finish
  <1> QED
    BY <1>1, <1>2, <1>6, <1>7 DEF IInv

-----------------------------------------------------------------------------
(* The whole pipeline.                                                     *)

(* quiesce and shutdown touch neither items nor tasks.                     *)
LEMMA OutsideIInv ==
  ASSUME IInv, Cancel \/ \E f \in Flusher : Quiesce(f) \/ QuiesceReturns(f)
  PROVE  IInv'
PROOF
  <1> USE DEF Cancel, Quiesce, QuiesceReturns, callerVars, taskVars
  <1>1. Typed'
    BY DEF IInv, Typed
  <1>2. Orderly'
    BY DEF IInv, Orderly
  <1>3. InflightExact' /\ PermitsExact'
    BY SameItems
  <1> QED
    BY <1>1, <1>2, <1>3 DEF IInv

(* Every step preserves the invariant.                                     *)
LEMMA NextIInv ==
  ASSUME IInv, [Next]_vars PROVE IInv'
PROOF
  <1>1. ASSUME NEW i \in Item, Run(i) PROVE IInv'
    BY <1>1, AcquireIInv, RunStepIInv, EndChainIInv, ReportIInv, ReleaseIInv,
       FinishIInv DEF Run
  <1>2. CASE UNCHANGED vars
    <2>1. Typed' /\ Orderly'
      BY <1>2 DEF IInv, Typed, Orderly, vars, callerVars, taskVars
    <2>2. InflightExact' /\ PermitsExact'
      BY <1>2, SameItems DEF vars, callerVars, taskVars
    <2> QED
      BY <2>1, <2>2 DEF IInv
  <1> QED
    BY <1>1, <1>2, SendIInv, RejectIInv, CountIInv, ReceiveIInv, StopIInv,
       OutsideIInv DEF Next

(* The strengthened invariant holds of every reachable state.              *)
THEOREM Invariance == Spec => []IInv
PROOF
  BY InitIInv, NextIInv, PTL DEF Spec

(* The variables keep their types, the permits their bounds                *)
(* (IngestWorker::run, process).                                           *)
THEOREM TypeCorrect == Spec => []TypeOK
PROOF
  BY Invariance, IInvTypeOK, PTL

(* ingest_inflight never drifts, whichever way items end (InflightGuard).  *)
THEOREM InflightNeverDrifts == Spec => []InflightExact
PROOF
  <1>1. IInv => InflightExact
    BY DEF IInv
  <1> QED
    BY <1>1, Invariance, PTL

(* No permit leaks, panics included (the _permit of process).              *)
THEOREM PermitsNeverLeak == Spec => []PermitsExact
PROOF
  <1>1. IInv => PermitsExact
    BY DEF IInv
  <1> QED
    BY <1>1, Invariance, PTL

(* A quiesce that no submit_ingest call races is a barrier                 *)
(* (PipelineSystem::quiesce).                                              *)
THEOREM QuiesceIsBarrierAtRest == Spec => BarrierAtRest
PROOF
  <1> DEFINE Barrier ==
        \A f \in Flusher :
          flush[f] = "polling" /\ flush'[f] = "returned"
            /\ (\A i \in Item : call[i] # "sent") =>
              \A i \in Item : call[i] = "ok" => task[i] = "finished"
  <1>1. ASSUME IInv, Next PROVE Barrier
    <2> SUFFICES ASSUME NEW f \in Flusher,
                        flush[f] = "polling", flush'[f] = "returned",
                        \A i \in Item : call[i] # "sent"
                 PROVE  \A i \in Item : call[i] = "ok" => task[i] = "finished"
      OBVIOUS
    <2>1. inflight = 0
      BY <1>1
      DEF IInv, Typed, Next, Run, RunStep, Send, Reject, Count, Receive, Stop, Cancel,
          Acquire, StepPasses, StepFails, StepAborts, StepPanics, EndChain, Report,
          Release, Finish, Quiesce, QuiesceReturns, OutsideTask
    <2>2. Finished \subseteq Counted
      BY <1>1 DEF IInv, Orderly, Finished, Counted
    <2>3. IsFiniteSet(Counted) /\ Cardinality(Counted) \in Nat
      BY ItemsFinite DEF Counted
    <2>4. Cardinality(Finished) \in Nat
      BY ItemsFinite DEF Finished
    <2>5. Cardinality(Finished) = Cardinality(Counted)
      BY <1>1, <2>1, <2>3, <2>4 DEF IInv, InflightExact
    <2>6. Finished = Counted
      BY <2>2, <2>3, <2>5, FS_Subset
    <2> QED
      BY <2>6 DEF Finished, Counted
  <1>2. IInv /\ [Next]_vars => [Barrier]_vars
    BY <1>1
  <1> QED
    BY <1>2, Invariance, PTL DEF Spec, BarrierAtRest

-----------------------------------------------------------------------------
(* The pipeline implements IngestContract.                                 *)

(* Where each item stands, one case after the other: no two of them        *)
(* overlap.                                                                *)
Placed ==
  \A i \in Item :
    /\ call[i] = "idle" => StandingOf(i) = "offered"
    /\ call[i] = "rejected" => StandingOf(i) = "rejected"
    /\ task[i] \in {"running", "ended", "reported"} => StandingOf(i) = "working"
    /\ task[i] \in {"released", "finished"} => StandingOf(i) = "done"
    /\ task[i] = "spawned" \/ i \in Queued => StandingOf(i) = "accepted"
    /\ call[i] \in {"sent", "ok"} /\ task[i] = "none" /\ i \notin Queued =>
         StandingOf(i) = "dropped"

(* In an orderly state every item has one place.                           *)
LEMMA IInvPlaced == IInv => Placed
PROOF
  <1> SUFFICES ASSUME IInv, NEW i \in Item
               PROVE  /\ call[i] = "idle" => StandingOf(i) = "offered"
                      /\ call[i] = "rejected" => StandingOf(i) = "rejected"
                      /\ task[i] \in {"running", "ended", "reported"} =>
                           StandingOf(i) = "working"
                      /\ task[i] \in {"released", "finished"} => StandingOf(i) = "done"
                      /\ task[i] = "spawned" \/ i \in Queued => StandingOf(i) = "accepted"
                      /\ call[i] \in {"sent", "ok"} /\ task[i] = "none" /\ i \notin Queued
                           => StandingOf(i) = "dropped"
    BY DEF Placed
  <1>1. /\ task[i] # "none" => call[i] \in {"sent", "ok"}
        /\ i \in Queued => task[i] = "none" /\ call[i] \in {"sent", "ok"}
    BY DEF IInv, Orderly, Queued
  <1>2. call[i] = "idle" => StandingOf(i) = "offered"
    BY <1>1 DEF StandingOf
  <1>3. call[i] = "rejected" => StandingOf(i) = "rejected"
    BY <1>1 DEF StandingOf
  <1>4. task[i] \in {"running", "ended", "reported"} => StandingOf(i) = "working"
    BY <1>1 DEF StandingOf
  <1>5. task[i] \in {"released", "finished"} => StandingOf(i) = "done"
    BY <1>1 DEF StandingOf
  <1>6. task[i] = "spawned" \/ i \in Queued => StandingOf(i) = "accepted"
    BY <1>1 DEF StandingOf
  <1>7. call[i] \in {"sent", "ok"} /\ task[i] = "none" /\ i \notin Queued =>
          StandingOf(i) = "dropped"
    BY <1>1 DEF StandingOf
  <1> QED
    BY <1>2, <1>3, <1>4, <1>5, <1>6, <1>7

(* The same of the state after a step.                                     *)
LEMMA IInvPlacedNext == IInv' => Placed'
PROOF
  BY IInvPlaced, PTL

(* Where an item stands depends on its own call and task and on the queue. *)
LEMMA SameStanding ==
  ASSUME NEW i \in Item, call'[i] = call[i], task'[i] = task[i],
         i \in Queued' <=> i \in Queued
  PROVE  StandingOf(i)' = StandingOf(i)
PROOF
  BY DEF StandingOf

(* Without a change to calls, tasks or the queue no item moves.            *)
LEMMA SameStandings ==
  ASSUME UNCHANGED <<call, task, queue>>
  PROVE  Standings' = Standings
PROOF
  BY DEF Standings, StandingOf, Queued

(* An item whose task takes a step is the only one to move.                *)
LEMMA TaskMoves ==
  ASSUME IInv, IInv', NEW i \in Item, NEW s \in TaskState,
         task' = [task EXCEPT ![i] = s], UNCHANGED <<call, queue>>
  PROVE  Standings' = [Standings EXCEPT ![i] = StandingOf(i)']
PROOF
  <1>1. Queued' = Queued
    BY DEF Queued
  <1>2. ASSUME NEW j \in Item, j # i
        PROVE  StandingOf(j)' = StandingOf(j)
    <2>1. task'[j] = task[j]
      BY <1>2 DEF IInv, Typed
    <2> QED
      BY <1>1, <2>1, SameStanding
  <1> QED
    BY <1>2 DEF Standings

(* submit_ingest accepts an item with its try_send.                        *)
LEMMA SendAccepts ==
  ASSUME IInv, IInv', NEW i \in Item, Send(i) PROVE Contract!Accept(i)
PROOF
  <1>1. Standings[i] = "offered"
    BY IInvPlaced DEF Placed, Standings, Send
  <1>2. /\ Len(queue') = Len(queue) + 1
        /\ queue'[Len(queue) + 1] = i
        /\ \A k \in 1..Len(queue) : queue'[k] = queue[k]
        /\ Len(queue) \in Nat
    BY DEF IInv, Typed, Send
  <1>3. i \in Queued' /\ \A j \in Item \ {i} : j \in Queued' <=> j \in Queued
    <2>1. \A k \in 1..Len(queue') : k \in 1..Len(queue) \/ k = Len(queue) + 1
      BY <1>2
    <2>2. Len(queue) + 1 \in 1..Len(queue')
      BY <1>2
    <2>3. \A k \in 1..Len(queue) : k \in 1..Len(queue')
      BY <1>2
    <2> QED
      BY <1>2, <2>1, <2>2, <2>3 DEF Queued
  <1>4. StandingOf(i)' = "accepted"
    BY <1>3, IInvPlacedNext DEF Placed
  <1>5. ASSUME NEW j \in Item, j # i
        PROVE  StandingOf(j)' = StandingOf(j)
    <2>1. call'[j] = call[j] /\ task'[j] = task[j]
      BY <1>5 DEF IInv, Typed, Send, taskVars
    <2> QED
      BY <1>3, <1>5, <2>1, SameStanding
  <1>6. Standings' = [Standings EXCEPT ![i] = "accepted"]
    BY <1>4, <1>5 DEF Standings
  <1> QED
    BY <1>1, <1>6 DEF Contract!Accept, Send

(* submit_ingest rejects an item when the channel is full.                 *)
LEMMA RejectRejects ==
  ASSUME IInv, IInv', NEW i \in Item, Reject(i) PROVE Contract!Reject(i)
PROOF
  <1>1. Standings[i] = "offered"
    BY IInvPlaced DEF Placed, Standings, Reject
  <1>2. StandingOf(i)' = "rejected"
    BY IInvPlacedNext DEF IInv, Typed, Placed, Reject
  <1>3. ASSUME NEW j \in Item, j # i
        PROVE  StandingOf(j)' = StandingOf(j)
    <2>1. call'[j] = call[j] /\ task'[j] = task[j] /\ (j \in Queued' <=> j \in Queued)
      BY <1>3 DEF IInv, Typed, Reject, taskVars, Queued
    <2> QED
      BY <2>1, SameStanding
  <1>4. Standings' = [Standings EXCEPT ![i] = "rejected"]
    BY <1>2, <1>3 DEF Standings
  <1> QED
    BY <1>1, <1>4 DEF Contract!Reject, Reject

(* The contract does not see the counter.                                  *)
LEMMA CountIsUnseen ==
  ASSUME IInv, IInv', NEW i \in Item, Count(i) PROVE Standings' = Standings
PROOF
  <1>1. /\ task' = task /\ Queued' = Queued
        /\ call[i] = "sent" /\ call'[i] = "ok"
    BY DEF IInv, Typed, Count, taskVars, Queued
  <1>2. StandingOf(i)' = StandingOf(i)
    <2>1. CASE task[i] \in {"running", "ended", "reported"}
      BY <1>1, <2>1, IInvPlaced, IInvPlacedNext DEF Placed
    <2>2. CASE task[i] \in {"released", "finished"}
      BY <1>1, <2>2, IInvPlaced, IInvPlacedNext DEF Placed
    <2>3. CASE task[i] = "spawned" \/ i \in Queued
      BY <1>1, <2>3, IInvPlaced, IInvPlacedNext DEF Placed
    <2>4. CASE task[i] = "none" /\ i \notin Queued
      BY <1>1, <2>4, IInvPlaced, IInvPlacedNext DEF Placed
    <2> QED
      BY <2>1, <2>2, <2>3, <2>4 DEF IInv, Typed, TaskState
  <1>3. ASSUME NEW j \in Item, j # i
        PROVE  StandingOf(j)' = StandingOf(j)
    <2>1. call'[j] = call[j]
      BY <1>3 DEF IInv, Typed, Count
    <2> QED
      BY <1>1, <2>1, SameStanding
  <1> QED
    BY <1>2, <1>3 DEF Standings

(* Nor does it see that an accepted item leaves the channel.               *)
LEMMA ReceiveIsUnseen ==
  ASSUME IInv, IInv', Receive PROVE Standings' = Standings
PROOF
  <1>1. /\ Len(queue) \in Nat /\ Len(queue) > 0
        /\ Head(queue) = queue[1] /\ queue[1] \in Item
    BY DEF IInv, Typed, Receive
  <1>2. PICK h \in Item : h = queue[1] /\ h = Head(queue)
    BY <1>1
  <1>3. /\ Len(queue') = Len(queue) - 1
        /\ \A k \in 1..Len(queue') : queue'[k] = queue[k + 1]
    BY <1>1 DEF IInv, Typed, Receive
  <1>4. ASSUME NEW j \in Item, j # h
        PROVE  j \in Queued' <=> j \in Queued
    <2>1. ASSUME NEW k \in 1..Len(queue'), queue'[k] = j PROVE j \in Queued
      <3>1. k + 1 \in 1..Len(queue) /\ queue[k + 1] = j
        BY <1>1, <1>3, <2>1
      <3> QED
        BY <3>1 DEF Queued
    <2>2. ASSUME NEW k \in 1..Len(queue), queue[k] = j PROVE j \in Queued'
      <3>1. k - 1 \in 1..Len(queue')
        BY <1>1, <1>2, <1>3, <1>4, <2>2
      <3>2. queue'[k - 1] = j
        BY <1>3, <2>2, <3>1
      <3> QED
        BY <3>1, <3>2 DEF Queued
    <2> QED
      BY <2>1, <2>2 DEF Queued
  <1>5. StandingOf(h)' = StandingOf(h)
    <2>1. 1 \in 1..Len(queue)
      BY <1>1
    <2>2. h \in Queued
      BY <1>2, <2>1 DEF Queued
    <2>3. task'[h] = "spawned"
      BY <1>2 DEF IInv, Typed, Receive
    <2>4. StandingOf(h) = "accepted"
      BY <2>2, IInvPlaced DEF Placed
    <2>5. StandingOf(h)' = "accepted"
      BY <2>3, IInvPlacedNext DEF Placed
    <2> QED
      BY <2>4, <2>5
  <1>6. ASSUME NEW j \in Item, j # h
        PROVE  StandingOf(j)' = StandingOf(j)
    <2>1. call'[j] = call[j] /\ task'[j] = task[j]
      BY <1>2, <1>6 DEF IInv, Typed, Receive
    <2> QED
      BY <1>4, <1>6, <2>1, SameStanding
  <1> QED
    BY <1>5, <1>6 DEF Standings

(* The worker that stops drops what is left in the channel.                *)
LEMMA StopDrops ==
  ASSUME IInv, IInv', Stop PROVE Contract!Drop(Queued)
PROOF
  <1>1. call' = call /\ task' = task /\ Queued' = {} /\ cancelled /\ cancelled' = cancelled
    BY DEF Stop, taskVars, Queued
  <1>2. Queued \subseteq Item /\ \A i \in Queued : /\ task[i] = "none"
                                                /\ call[i] \in {"sent", "ok"}
    <2>1. \A k \in 1..Len(queue) : queue[k] \in Item
      BY DEF IInv, Typed
    <2> QED
      BY <2>1 DEF IInv, Orderly, Queued
  <1>3. \A i \in Queued : Standings[i] = "accepted"
    BY <1>2, IInvPlaced DEF Placed, Standings
  <1>4. \A i \in Queued : StandingOf(i)' = "dropped"
    BY <1>1, <1>2, IInvPlacedNext DEF Placed
  <1>5. \A i \in Item \ Queued : StandingOf(i)' = StandingOf(i)
    BY <1>1, SameStanding
  <1>6. Standings' = [i \in Item |-> IF i \in Queued THEN "dropped" ELSE Standings[i]]
    BY <1>4, <1>5 DEF Standings
  <1>7. Queued \subseteq Contract!In("accepted")
    BY <1>2, <1>3 DEF Contract!In
  <1> QED
    BY <1>1, <1>6, <1>7 DEF Contract!Drop

(* A permit is free, so less than Concurrency items are worked on.         *)
LEMMA AcquireStarts ==
  ASSUME IInv, IInv', NEW i \in Item, Acquire(i) PROVE Contract!Start(i)
PROOF
  <1>1. Standings[i] = "accepted"
    BY IInvPlaced DEF Placed, Standings, Acquire
  <1>2. StandingOf(i)' = "working"
    <2>1. task'[i] = "running"
      BY DEF IInv, Typed, Acquire, Become
    <2> QED
      BY <2>1, IInvPlacedNext DEF Placed
  <1>3. Standings' = [Standings EXCEPT ![i] = "working"]
    BY <1>2, TaskMoves DEF Acquire, Become, OutsideTask, callerVars, TaskState
  <1>4. Contract!In("working") = Holding
    <2>1. \A j \in Holding : Standings[j] = "working"
      BY IInvPlaced DEF Holding, Placed, Standings
    <2>2. ASSUME NEW j \in Item \ Holding PROVE Standings[j] # "working"
      <3>1. CASE call[j] \in {"idle", "rejected"}
        BY <3>1, IInvPlaced DEF Placed, Standings
      <3>2. CASE task[j] \in {"released", "finished", "spawned"}
        BY <3>2, IInvPlaced DEF Placed, Standings
      <3>3. CASE call[j] \in {"sent", "ok"} /\ task[j] = "none"
        BY <3>3, IInvPlaced DEF Placed, Standings
      <3> QED
        BY <3>1, <3>2, <3>3 DEF IInv, Typed, TaskState, Holding
    <2> QED
      BY <2>1, <2>2 DEF Holding, Contract!In
  <1>5. Contract!Cardinality(Contract!In("working")) < Concurrency
    <2>1. Cardinality(Holding) \in Nat
      BY ItemsFinite DEF Holding
    <2>2. Contract!Cardinality(Holding) = Cardinality(Holding)
      BY DEF Contract!Cardinality, Cardinality
    <2> QED
      BY <1>4, <2>1, <2>2, PipelineAssumption DEF IInv, Typed, PermitsExact, Acquire
  <1>6. UNCHANGED cancelled
    BY DEF Acquire, OutsideTask
  <1> QED
    BY <1>1, <1>3, <1>5, <1>6 DEF Contract!Start

(* The contract's item is done once its permit is back.                    *)
LEMMA ReleaseCompletes ==
  ASSUME IInv, IInv', NEW i \in Item, Release(i) PROVE Contract!Complete(i)
PROOF
  <1>1. Standings[i] = "working"
    BY IInvPlaced DEF Placed, Standings, Release
  <1>2. StandingOf(i)' = "done"
    <2>1. task'[i] = "released"
      BY DEF IInv, Typed, Release, Become
    <2> QED
      BY <2>1, IInvPlacedNext DEF Placed
  <1>3. Standings' = [Standings EXCEPT ![i] = "done"]
    BY <1>2, TaskMoves DEF Release, Become, OutsideTask, callerVars, TaskState
  <1>4. UNCHANGED cancelled
    BY DEF Release, OutsideTask
  <1> QED
    BY <1>1, <1>3, <1>4 DEF Contract!Complete

(* The other steps of a task are its own affair.                           *)
LEMMA TaskIsUnseen ==
  ASSUME IInv, IInv', NEW i \in Item,
         RunStep(i) \/ EndChain(i) \/ Report(i) \/ Finish(i)
  PROVE  UNCHANGED <<Standings, cancelled>>
PROOF
  <1>1. UNCHANGED <<call, queue, cancelled>>
    BY DEF RunStep, StepPasses, StepFails, StepAborts, StepPanics, EndChain, Report,
           Finish, OutsideTask, callerVars
  <1>2. CASE StepPasses(i) \/ StepFails(i)
    <2>1. UNCHANGED <<call, task, queue>>
      BY <1>1, <1>2 DEF StepPasses, StepFails
    <2> QED
      BY <1>1, <2>1, SameStandings
  <1>3. CASE Finish(i)
    <2>1. task[i] = "released" /\ task'[i] = "finished"
      BY <1>3 DEF IInv, Typed, Finish, Become
    <2>2. StandingOf(i)' = Standings[i]
      BY <2>1, IInvPlaced, IInvPlacedNext DEF Placed, Standings
    <2>3. Standings' = [Standings EXCEPT ![i] = StandingOf(i)']
      BY <1>1, <1>3, TaskMoves DEF Finish, Become, TaskState
    <2> QED
      BY <1>1, <2>2, <2>3 DEF Standings
  <1>4. ASSUME NEW s \in {"ended", "reported"}, i \in Holding, Become(i, s)
        PROVE  UNCHANGED Standings
    <2>1. task'[i] = s
      BY <1>4 DEF IInv, Typed, Become
    <2>2. StandingOf(i)' = Standings[i]
      BY <1>4, <2>1, IInvPlaced, IInvPlacedNext DEF Placed, Standings, Holding
    <2>3. Standings' = [Standings EXCEPT ![i] = StandingOf(i)']
      BY <1>1, <1>4, TaskMoves DEF Become, TaskState
    <2> QED
      BY <2>2, <2>3 DEF Standings
  <1>5. CASE StepAborts(i) \/ StepPanics(i) \/ EndChain(i) \/ Report(i)
    <2>1. i \in Holding /\ (Become(i, "ended") \/ Become(i, "reported"))
      BY <1>5 DEF StepAborts, StepPanics, EndChain, Report, AtStep, Holding
    <2> QED
      BY <1>1, <1>4, <2>1
  <1> QED
    BY <1>2, <1>3, <1>5 DEF RunStep

(* All items are still on offer.                                           *)
LEMMA InitIsContractInit ==
  ASSUME Init PROVE Contract!Init
PROOF
  <1>1. \A i \in Item : StandingOf(i) = "offered"
    BY InitIInv, IInvPlaced DEF Init, Placed
  <1> QED
    BY <1>1 DEF Init, Standings, Contract!Init

(* A step of the pipeline is a step of the contract or leaves it alone.    *)
LEMMA StepIsContractStep ==
  ASSUME IInv, IInv', [Next]_vars
  PROVE  [Contract!Next]_<<Standings, cancelled>>
PROOF
  <1>1. ASSUME NEW i \in Item, Send(i) \/ Reject(i)
        PROVE  Contract!Next
    BY <1>1, SendAccepts, RejectRejects DEF Contract!Next
  <1>2. ASSUME NEW i \in Item, Count(i)
        PROVE  UNCHANGED <<Standings, cancelled>>
    BY <1>2, CountIsUnseen DEF Count
  <1>3. ASSUME NEW i \in Item, Acquire(i) \/ Release(i)
        PROVE  Contract!Next
    BY <1>3, AcquireStarts, ReleaseCompletes DEF Contract!Next
  <1>4. CASE Receive
    BY <1>4, ReceiveIsUnseen DEF Receive
  <1>5. CASE Stop
    <2>1. Queued \in SUBSET Item
      BY DEF IInv, Typed, Queued
    <2> QED
      BY <1>5, <2>1, StopDrops DEF Contract!Next
  <1>6. CASE Cancel
    <2>1. Standings' = Standings
      BY <1>6, SameStandings DEF Cancel, callerVars, taskVars
    <2> QED
      BY <1>6, <2>1 DEF Cancel, Contract!Close, Contract!Next
  <1>7. CASE UNCHANGED vars \/ \E f \in Flusher : Quiesce(f) \/ QuiesceReturns(f)
    <2>1. UNCHANGED <<call, task, queue, cancelled>>
      BY <1>7 DEF Quiesce, QuiesceReturns, vars, callerVars, taskVars
    <2> QED
      BY <2>1, SameStandings
  <1> QED
    BY <1>1, <1>2, <1>3, <1>4, <1>5, <1>6, <1>7, TaskIsUnseen DEF Next, Run

(* Streaming ingest implements its contract: an accepted item is worked on *)
(* once, never more than Concurrency items at a time, and dropped only     *)
(* once shutdown has begun (IngestWorker::run and process).                *)
THEOREM PipelineImplementsContract == Spec => KeepsContract
PROOF
  <1>1. Init => Contract!Init
    BY InitIsContractInit
  <1>2. IInv /\ IInv' /\ [Next]_vars => [Contract!Next]_<<Standings, cancelled>>
    BY StepIsContractStep
  <1> QED
    BY <1>1, <1>2, Invariance, PTL DEF Spec, Contract!Spec, KeepsContract
=============================================================================
