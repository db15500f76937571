----------------------------- MODULE WorkerProofs -----------------------------
(***************************************************************************)
(* Proofs about the consolidation worker and about what its session sweep, *)
(* and the finalize calls beside it, build of a session: first             *)
(* ConsolidationWorker, for any agents and turns, channel, threshold,      *)
(* batch size and cadence; then SessionSurface, for any callers, turns,    *)
(* observations and ids.  The two share no variable; one sweeps sessions   *)
(* after a cycle, the other says what a sweep does to one of them.         *)
(***************************************************************************)
EXTENDS ConsolidationWorker, SessionSurface, FiniteSetTheorems, SequenceTheorems, TLAPS

-----------------------------------------------------------------------------
(* The worker.                                                             *)

(* Where a channel holds notices of an agent.                              *)
Marks(c, a) == {k \in 1..Len(c) : c[k].kind = "ready" /\ c[k].agent = a}
Counts(t, a) == t.kind = "ready" /\ t.agent = a
-----------------------------------------------------------------------------
(* Notices are finitely many; sending a task adds one if it is a notice,   *)
(* and receiving the first task takes one away if it is one.               *)
LEMMA MarksAreFinite ==
  ASSUME NEW c \in Seq(Task), NEW a
  PROVE  IsFiniteSet(Marks(c, a)) /\ Cardinality(Marks(c, a)) \in Nat
PROOF
  <1>1. Len(c) \in Nat
    BY LenProperties
  <1>2. IsFiniteSet(1..Len(c))
    BY <1>1, FS_Interval
  <1>3. Marks(c, a) \in SUBSET (1..Len(c))
    BY DEF Marks
  <1>4. IsFiniteSet(Marks(c, a))
    BY <1>2, <1>3, FS_Subset
  <1> QED
    BY <1>4, FS_CardinalityType

LEMMA SendingAddsAMark ==
  ASSUME NEW c \in Seq(Task), NEW t \in Task, NEW a
  PROVE  Cardinality(Marks(Append(c, t), a)) =
           IF Counts(t, a) THEN Cardinality(Marks(c, a)) + 1 ELSE Cardinality(Marks(c, a))
PROOF
  <1> DEFINE n == Len(c) + 1
  <1>1. Len(c) \in Nat /\ n \in Nat
    BY LenProperties
  <1>2. /\ Len(Append(c, t)) = n
        /\ \A i \in 1..Len(c) : Append(c, t)[i] = c[i]
        /\ Append(c, t)[n] = t
    BY AppendProperties
  <1>3. 1..n = (1..Len(c)) \cup {n} /\ n \notin 1..Len(c)
    BY <1>1
  <1>4. Marks(Append(c, t), a) = Marks(c, a) \cup (IF Counts(t, a) THEN {n} ELSE {})
    <2> HIDE DEF n
    <2> QED
      BY <1>2, <1>3 DEF Marks, Counts
  <1>5. n \notin Marks(c, a)
    BY <1>3 DEF Marks
  <1>6. CASE Counts(t, a)
    <2>1. Marks(Append(c, t), a) = Marks(c, a) \cup {n}
      BY <1>4, <1>6
    <2> HIDE DEF n
    <2> QED
      BY <2>1, <1>5, <1>6, MarksAreFinite, FS_AddElement
  <1>7. CASE ~Counts(t, a)
    <2>1. Marks(Append(c, t), a) = Marks(c, a)
      BY <1>4, <1>7
    <2> QED
      BY <2>1, <1>7
  <1> QED
    BY <1>6, <1>7

LEMMA ReceivingTakesAMark ==
  ASSUME NEW c \in Seq(Task), c # <<>>, NEW a
  PROVE  Cardinality(Marks(Tail(c), a)) =
           IF Counts(Head(c), a) THEN Cardinality(Marks(c, a)) - 1 ELSE Cardinality(Marks(c, a))
PROOF
  <1> DEFINE S == Marks(Tail(c), a)
             T == Marks(c, a) \ {1}
             f == [k \in S |-> k + 1]
  <1>1. /\ Tail(c) \in Seq(Task) /\ Len(Tail(c)) = Len(c) - 1
        /\ \A i \in 1..Len(Tail(c)) : Tail(c)[i] = c[i + 1]
    BY HeadTailProperties
  <1>2. Len(c) \in Nat /\ Len(c) > 0 /\ Head(c) = c[1]
    <2>1. Len(c) \in Nat \ {0}
      BY EmptySeq
    <2>2. Head(c) = c[1]
      OBVIOUS
    <2> QED
      BY <2>1, <2>2
  <1>3. \A k \in S : k \in Nat /\ k + 1 \in T
    BY <1>1, <1>2 DEF Marks
  <1>4. \A m \in T : m - 1 \in S /\ (m - 1) + 1 = m
    <2> SUFFICES ASSUME NEW m \in T PROVE m - 1 \in S /\ (m - 1) + 1 = m
      OBVIOUS
    <2>1. m \in 1..Len(c) /\ m # 1 /\ c[m].kind = "ready" /\ c[m].agent = a
      BY DEF Marks
    <2>2. m - 1 \in 1..Len(Tail(c)) /\ (m - 1) + 1 = m
      BY <1>1, <1>2, <2>1
    <2>3. Tail(c)[m - 1] = c[m]
      BY <1>1, <2>2
    <2> QED
      BY <2>1, <2>2, <2>3 DEF Marks
  <1>5. f \in Bijection(S, T)
    <2>1. f \in [S -> T]
      BY <1>3
    <2>2. \A j, k \in S : f[j] = f[k] => j = k
      BY <1>3
    <2>3. \A m \in T : \E k \in S : f[k] = m
      BY <1>4
    <2> QED
      BY <2>1, <2>2, <2>3 DEF Bijection, Injection, Surjection, IsInjective
  <1>6. Cardinality(T) = Cardinality(S)
    <2>1. IsFiniteSet(S)
      BY <1>1, MarksAreFinite
    <2>2. ExistsBijection(S, T)
      BY <1>5 DEF ExistsBijection
    <2> HIDE DEF S, T
    <2> QED
      BY <2>1, <2>2, FS_Bijection
  <1>7. 1 \in Marks(c, a) <=> Counts(Head(c), a)
    BY <1>2 DEF Marks, Counts
  <1>8. Cardinality(T) = IF 1 \in Marks(c, a) THEN Cardinality(Marks(c, a)) - 1
                                            ELSE Cardinality(Marks(c, a))
    BY MarksAreFinite, FS_RemoveElement
  <1> QED
    BY <1>6, <1>7, <1>8
-----------------------------------------------------------------------------
(* Types.  The tasks of the channel are sent by TrySend and read by        *)
(* Receive.                                                                *)
LEMMA SendTypes ==
  ASSUME TypeOK, NEW t \in Task, TrySend(t)
  PROVE  channel' \in Seq(Task) /\ Len(channel') <= QueueCapacity
PROOF
  <1>1. QueueCapacity \in Nat /\ Len(channel) \in Nat
    BY WorkerAssumption, LenProperties DEF TypeOK
  <1>2. Append(channel, t) \in Seq(Task) /\ Len(Append(channel, t)) = Len(channel) + 1
    BY AppendProperties DEF TypeOK
  <1> QED
    BY <1>1, <1>2 DEF TrySend

LEMMA ReceiveTypes ==
  ASSUME TypeOK, NEW kind, Receive(kind)
  PROVE  /\ Head(channel) \in Task /\ Head(channel).agent \in Agent
         /\ channel' \in Seq(Task) /\ Len(channel') <= QueueCapacity
PROOF
  <1>1. QueueCapacity \in Nat /\ Len(channel) \in Nat /\ Len(channel) <= QueueCapacity
    BY WorkerAssumption, LenProperties DEF TypeOK
  <1>2. /\ Head(channel) \in Task
        /\ Tail(channel) \in Seq(Task) /\ Len(Tail(channel)) = Len(channel) - 1
    BY HeadTailProperties DEF TypeOK, Receive
  <1> QED
    BY <1>1, <1>2 DEF Receive, Task

LEMMA IngestTypes ==
  ASSUME TypeOK, NEW t \in Turn, Ingest(t) PROVE TypeOK'
PROOF
  <1>1. CASE Commit(t)
    BY <1>1 DEF Commit, TypeOK, workerVars
  <1>2. CASE Announce(t)
    <2>1. [kind |-> "ready", agent |-> AgentOf[t]] \in Task
      BY WorkerAssumption DEF Task
    <2>2. channel' \in Seq(Task) /\ Len(channel') <= QueueCapacity
      BY <1>2, <2>1, SendTypes DEF Announce
    <2> QED
      BY <1>2, <2>2 DEF Announce, TypeOK, workerVars
  <1>3. CASE AnnounceSkipped(t)
    BY <1>3 DEF AnnounceSkipped, TypeOK, workerVars
  <1>4. CASE NothingToAnnounce(t)
    BY <1>4 DEF NothingToAnnounce, TypeOK, workerVars
  <1> QED
    BY <1>1, <1>2, <1>3, <1>4 DEF Ingest

LEMMA WorkTypes ==
  ASSUME TypeOK, Work PROVE TypeOK'
PROOF
  <1> USE DEF storeVars
  <1>0. Threshold \in Nat /\ CortexEvery \in Nat /\ MaxFailures \in Nat
    BY WorkerAssumption
  <1>1. CASE Stop
    <2>1. <<>> \in Seq(Task) /\ Len(<<>>) = 0 /\ QueueCapacity \in Nat /\ 0 <= QueueCapacity
      BY EmptySeq, WorkerAssumption
    <2> QED
      BY <1>1, <2>1 DEF Stop, TypeOK
  <1>2. CASE ObservationsReady
    <2>1. /\ Head(channel).agent \in Agent
          /\ channel' \in Seq(Task) /\ Len(channel') <= QueueCapacity
      BY <1>2, ReceiveTypes DEF ObservationsReady
    <2>2. counter' \in [Agent -> Nat] /\ serving' \in Agent
          /\ loop' \in {"select", "sweep", "fetch", "cycle", "cortex", "stopped"}
      BY <1>2, <2>1 DEF ObservationsReady, TypeOK, Serve
    <2> QED
      BY <1>2, <2>1, <2>2 DEF ObservationsReady, Receive, TypeOK
  <1>3. CASE ForceConsolidate
    <2>1. /\ Head(channel).agent \in Agent
          /\ channel' \in Seq(Task) /\ Len(channel') <= QueueCapacity
      BY <1>3, ReceiveTypes DEF ForceConsolidate
    <2> QED
      BY <1>3, <2>1 DEF ForceConsolidate, Receive, Serve, TypeOK
  <1>4. CASE RunCycle
    <2>1. /\ Head(channel).agent \in Agent
          /\ channel' \in Seq(Task) /\ Len(channel') <= QueueCapacity
      BY <1>4, ReceiveTypes DEF RunCycle
    <2> QED
      BY <1>4, <2>1 DEF RunCycle, Receive, Serve, TypeOK
  <1>5. CASE Tick
    BY <1>5 DEF Tick, TypeOK
  <1>6. CASE \E a \in Agent : Sweep(a)
    BY <1>6 DEF Sweep, Serve, TypeOK
  <1>7. CASE Fetch
    BY <1>7 DEF Fetch, TypeOK
  <1>8. CASE CycleSucceeds
    <2>1. sinceCortex' \in [Agent -> Nat]
          /\ loop' \in {"select", "sweep", "fetch", "cycle", "cortex", "stopped"}
      <3>1. serving \in Agent /\ sinceCortex \in [Agent -> Nat] /\ sinceCortex[serving] + 1 \in Nat
        BY DEF TypeOK
      <3>2. sinceCortex' \in {sinceCortex, [sinceCortex EXCEPT ![serving] = 0],
                              [sinceCortex EXCEPT ![serving] = sinceCortex[serving] + 1]}
        BY <1>8 DEF CycleSucceeds
      <3>3. loop' \in {"select", "sweep", "cortex"}
        BY <1>8 DEF CycleSucceeds, Resume
      <3> QED
        BY <3>1, <3>2, <3>3
    <2> QED
      BY <1>8, <2>1 DEF CycleSucceeds, TypeOK
  <1>9. CASE CycleFails
    BY <1>0, <1>9 DEF CycleFails, Resume, TypeOK
  <1>10. CASE CortexSweep
    BY <1>10 DEF CortexSweep, Resume, TypeOK
  <1> QED
    BY <1>1, <1>2, <1>3, <1>4, <1>5, <1>6, <1>7, <1>8, <1>9, <1>10 DEF Work

LEMMA Types ==
  ASSUME TypeOK, [Next]_vars PROVE TypeOK'
PROOF
  <1>1. CASE UNCHANGED vars
    BY <1>1 DEF vars, storeVars, workerVars, TypeOK
  <1>2. CASE \E t \in Turn : Ingest(t)
    BY <1>2, IngestTypes
  <1>3. ASSUME NEW a \in Agent, NEW kind \in {"force", "run"}, Request(kind, a) PROVE TypeOK'
    <2>1. [kind |-> kind, agent |-> a] \in Task
      BY DEF Task
    <2>2. channel' \in Seq(Task) /\ Len(channel') <= QueueCapacity
      BY <1>3, <2>1, SendTypes DEF Request
    <2> QED
      BY <1>3, <2>2, WorkerAssumption DEF Request, TypeOK, workerVars, storeVars
  <1>4. CASE Work
    BY <1>4, WorkTypes
  <1>5. CASE Consolidate
    BY <1>5, WorkerAssumption DEF Consolidate, TypeOK, workerVars
  <1>6. CASE Cancel
    BY <1>6 DEF Cancel, TypeOK, workerVars, storeVars
  <1> QED
    BY <1>1, <1>2, <1>3, <1>4, <1>5, <1>6 DEF Next

LEMMA InitTypes == Init => TypeOK
PROOF
  <1>1. <<>> \in Seq(Task) /\ Len(<<>>) = 0 /\ QueueCapacity \in Nat /\ 0 <= QueueCapacity
    BY EmptySeq, WorkerAssumption
  <1>2. Init => channel \in Seq(Task) /\ Len(channel) <= QueueCapacity
    BY <1>1 DEF Init
  <1>3. MaxRequests \in Nat /\ MaxFailures \in Nat
    BY WorkerAssumption
  <1>4. Init => /\ turn \in [Turn -> {"new", "committed", "told", "dropped", "silent"}]
                /\ counter \in [Agent -> Nat] /\ sinceCortex \in [Agent -> Nat]
    BY DEF Init
  <1>5. Init => /\ pending \subseteq Turn /\ todo \subseteq Agent /\ batch \subseteq Turn
                /\ cancelled \in BOOLEAN /\ loop = "select" /\ serving \in Agent
                /\ requests = 0 /\ failures = 0
    BY DEF Init
  <1> QED
    BY <1>2, <1>3, <1>4, <1>5 DEF TypeOK

(* Every variable keeps its type; the channel never holds more than its    *)
(* capacity (consolidation_queue_capacity).                                *)
THEOREM TypeCorrect == Spec => []TypeOK
PROOF
  <1> QED
    BY InitTypes, Types, PTL DEF Spec
-----------------------------------------------------------------------------
(* The counters stay below what calls for a cycle wherever the worker is,  *)
(* since each is reset in the step in which it gets there.                 *)
BelowInv ==
  \A a \in Agent : /\ counter[a] < Threshold \/ counter[a] = 0
                   /\ sinceCortex[a] < CortexEvery \/ CortexEvery = 0

LEMMA BelowKept ==
  ASSUME TypeOK, BelowInv, [Next]_vars PROVE BelowInv'
PROOF
  <1> USE DEF BelowInv
  <1>0. Threshold \in Nat /\ CortexEvery \in Nat
        /\ counter \in [Agent -> Nat] /\ sinceCortex \in [Agent -> Nat] /\ serving \in Agent
    BY WorkerAssumption DEF TypeOK
  <1>1. CASE UNCHANGED <<counter, sinceCortex>>
    BY <1>1
  <1>2. CASE ObservationsReady
    <2>1. Head(channel).agent \in Agent
      BY <1>2, ReceiveTypes DEF ObservationsReady
    <2> DEFINE h == Head(channel).agent
    <2>2. CASE counter[h] + 1 >= Threshold
      <3>1. counter' = [counter EXCEPT ![h] = 0] /\ sinceCortex' = sinceCortex
        BY <1>2, <2>2 DEF ObservationsReady, Receive
      <3> HIDE DEF h
      <3> QED
        BY <1>0, <2>1, <3>1
    <2>3. CASE ~(counter[h] + 1 >= Threshold)
      <3>1. counter' = [counter EXCEPT ![h] = counter[h] + 1] /\ sinceCortex' = sinceCortex
        BY <1>2, <2>3 DEF ObservationsReady, Receive
      <3>2. h \in Agent /\ counter[h] \in Nat /\ counter[h] + 1 < Threshold
        BY <1>0, <2>1, <2>3
      <3> HIDE DEF h
      <3> QED
        BY <1>0, <3>1, <3>2
    <2> QED
      BY <2>2, <2>3
  <1>3. CASE ForceConsolidate
    <2>1. Head(channel).agent \in Agent
      BY <1>3, ReceiveTypes DEF ForceConsolidate
    <2> QED
      BY <1>0, <1>3, <2>1 DEF ForceConsolidate, Receive
  <1>4. CASE \E a \in Agent : Sweep(a)
    BY <1>0, <1>4 DEF Sweep
  <1>5. CASE CycleSucceeds
    BY <1>0, <1>5 DEF CycleSucceeds
  <1>6. ASSUME NEW t \in Turn, Ingest(t) PROVE UNCHANGED <<counter, sinceCortex>>
    BY <1>6 DEF Ingest, Commit, Announce, AnnounceSkipped, NothingToAnnounce, workerVars
  <1>7. ASSUME NEW a \in Agent, NEW kind \in {"force", "run"}, Request(kind, a)
        PROVE  UNCHANGED <<counter, sinceCortex>>
    BY <1>7 DEF Request, workerVars
  <1>8. CASE Stop \/ RunCycle \/ Tick \/ Fetch \/ CycleFails \/ CortexSweep \/ Consolidate \/ Cancel
    <2>1. UNCHANGED <<counter, sinceCortex>>
      BY <1>8 DEF Stop, RunCycle, Receive, Tick, Fetch, CycleFails, CortexSweep, Consolidate,
                  Cancel, workerVars
    <2> QED
      BY <1>1, <2>1
  <1>9. CASE UNCHANGED vars
    BY <1>1, <1>9 DEF vars, workerVars
  <1> QED
    BY <1>1, <1>2, <1>3, <1>4, <1>5, <1>6, <1>7, <1>8, <1>9 DEF Next, Work

(* Whenever the worker waits for a task, no agent is owed a cycle, nor a   *)
(* cortex sweep (agent_cycles_since_cortex).                               *)
THEOREM NothingIsOwed == Spec => []NoCycleIsOwed
PROOF
  <1>1. Init => BelowInv
    BY WorkerAssumption DEF Init, BelowInv
  <1>2. BelowInv => NoCycleIsOwed
    BY DEF BelowInv, NoCycleIsOwed
  <1> QED
    BY InitTypes, Types, BelowKept, <1>1, <1>2, PTL DEF Spec
-----------------------------------------------------------------------------
(* CountersAreEarned: what is sent is announced in the same step, and what *)
(* is received goes from the channel to the counter, or is spent.          *)
NoticeCount(c, a) == Cardinality(Marks(c, a))

LEMMA ToldIsFinite ==
  ASSUME NEW a PROVE IsFiniteSet(Told(a)) /\ Cardinality(Told(a)) \in Nat
PROOF
  <1>1. Told(a) \in SUBSET Turn
    BY DEF Told
  <1>2. IsFiniteSet(Told(a))
    BY <1>1, WorkerAssumption, FS_Subset
  <1> QED
    BY <1>2, FS_CardinalityType

LEMMA IngestEarns ==
  ASSUME TypeOK, CountersAreEarned, NEW t \in Turn, Ingest(t) PROVE CountersAreEarned'
PROOF
  <1>0. channel \in Seq(Task) /\ counter \in [Agent -> Nat]
    BY DEF TypeOK
  <1>1. ASSUME UNCHANGED <<channel, counter>>, \A a \in Agent : Told(a)' = Told(a)
        PROVE  CountersAreEarned'
    BY <1>1 DEF CountersAreEarned, Notices
  <1>2. CASE Commit(t)
    BY <1>1, <1>2 DEF Commit, TypeOK, Told, workerVars
  <1>3. CASE AnnounceSkipped(t) \/ NothingToAnnounce(t)
    BY <1>1, <1>3 DEF AnnounceSkipped, NothingToAnnounce, TypeOK, Told, workerVars
  <1>4. CASE Announce(t)
    <2> DEFINE n == [kind |-> "ready", agent |-> AgentOf[t]]
    <2>1. n \in Task /\ \A a : Counts(n, a) <=> AgentOf[t] = a
      BY WorkerAssumption DEF Task, Counts
    <2>2. channel' = Append(channel, n) /\ counter' = counter /\ turn[t] = "committed"
          /\ turn' = [turn EXCEPT ![t] = "told"]
      BY <1>4 DEF Announce, TrySend, workerVars
    <2> SUFFICES ASSUME NEW a \in Agent
                 PROVE  counter'[a] + Notices(a)' <= Cardinality(Told(a)')
      BY DEF CountersAreEarned
    <2>3. counter[a] \in Nat /\ NoticeCount(channel, a) \in Nat /\ Cardinality(Told(a)) \in Nat
          /\ counter[a] + NoticeCount(channel, a) <= Cardinality(Told(a))
      BY <1>0, MarksAreFinite, ToldIsFinite DEF CountersAreEarned, Notices, Marks, NoticeCount
    <2>4. Notices(a)' = NoticeCount(Append(channel, n), a)
      BY <2>2 DEF Notices, Marks, NoticeCount
    <2>5. CASE AgentOf[t] = a
      <3>1. t \notin Told(a) /\ Told(a)' = Told(a) \cup {t}
        BY <2>2, <2>5 DEF Told, TypeOK
      <3>2. Cardinality(Told(a)') = Cardinality(Told(a)) + 1
        BY <3>1, ToldIsFinite, FS_AddElement
      <3>3. NoticeCount(Append(channel, n), a) = NoticeCount(channel, a) + 1
        BY <1>0, <2>1, <2>5, SendingAddsAMark DEF NoticeCount
      <3> QED
        BY <2>2, <2>3, <2>4, <3>2, <3>3
    <2>6. CASE AgentOf[t] # a
      <3>1. Told(a)' = Told(a)
        BY <2>2, <2>6 DEF Told, TypeOK
      <3>2. NoticeCount(Append(channel, n), a) = NoticeCount(channel, a)
        BY <1>0, <2>1, <2>6, SendingAddsAMark DEF NoticeCount
      <3> QED
        BY <2>2, <2>3, <2>4, <3>1, <3>2
    <2> QED
      BY <2>5, <2>6
  <1> QED
    BY <1>2, <1>3, <1>4 DEF Ingest

(* A received task that leaves its agent's counter no higher than the      *)
(* notice it took, and the others' where they are.                         *)
LEMMA ReceiveEarns ==
  ASSUME TypeOK, CountersAreEarned, NEW kind, Receive(kind),
         counter' \in [Agent -> Nat],
         \A a \in Agent : counter'[a] <= counter[a] + (IF Counts(Head(channel), a) THEN 1 ELSE 0)
  PROVE  CountersAreEarned'
PROOF
  <1>0. channel \in Seq(Task) /\ counter \in [Agent -> Nat] /\ channel # <<>>
        /\ channel' = Tail(channel) /\ turn' = turn
    BY DEF TypeOK, Receive, storeVars
  <1> SUFFICES ASSUME NEW a \in Agent
               PROVE  counter'[a] + Notices(a)' <= Cardinality(Told(a)')
    BY DEF CountersAreEarned
  <1>1. counter[a] \in Nat /\ NoticeCount(channel, a) \in Nat /\ Cardinality(Told(a)) \in Nat
        /\ counter[a] + NoticeCount(channel, a) <= Cardinality(Told(a))
    BY <1>0, MarksAreFinite, ToldIsFinite DEF CountersAreEarned, Notices, Marks, NoticeCount
  <1>2. Notices(a)' = NoticeCount(Tail(channel), a) /\ Told(a)' = Told(a)
    BY <1>0 DEF Notices, Marks, NoticeCount, Told
  <1>3. NoticeCount(Tail(channel), a) =
          NoticeCount(channel, a) - (IF Counts(Head(channel), a) THEN 1 ELSE 0)
    <2>1. NoticeCount(Tail(channel), a) =
            IF Counts(Head(channel), a) THEN NoticeCount(channel, a) - 1 ELSE NoticeCount(channel, a)
      BY <1>0, ReceivingTakesAMark DEF NoticeCount
    <2> QED
      BY <1>1, <2>1
  <1>4. counter'[a] \in Nat
        /\ counter'[a] <= counter[a] + (IF Counts(Head(channel), a) THEN 1 ELSE 0)
    OBVIOUS
  <1> QED
    BY <1>1, <1>2, <1>3, <1>4

LEMMA WorkEarns ==
  ASSUME TypeOK, CountersAreEarned, Work PROVE CountersAreEarned'
PROOF
  <1>0. channel \in Seq(Task) /\ counter \in [Agent -> Nat] /\ Threshold \in Nat
    BY WorkerAssumption DEF TypeOK
  <1>1. ASSUME UNCHANGED <<channel, turn>>, counter' \in [Agent -> Nat],
               \A a \in Agent : counter'[a] <= counter[a]
        PROVE  CountersAreEarned'
    <2> SUFFICES ASSUME NEW a \in Agent
                 PROVE  counter'[a] + Notices(a)' <= Cardinality(Told(a)')
      BY DEF CountersAreEarned
    <2>1. Notices(a)' = Notices(a) /\ Told(a)' = Told(a)
      BY <1>1 DEF Notices, Told
    <2>2. Notices(a) \in Nat /\ Cardinality(Told(a)) \in Nat
      BY <1>0, MarksAreFinite, ToldIsFinite DEF Notices, Marks
    <2>3. counter[a] + Notices(a) <= Cardinality(Told(a)) /\ counter[a] \in Nat
          /\ counter'[a] \in Nat /\ counter'[a] <= counter[a]
      BY <1>0, <1>1 DEF CountersAreEarned
    <2> QED
      BY <2>1, <2>2, <2>3
  <1>2. CASE Stop
    <2> SUFFICES ASSUME NEW a \in Agent
                 PROVE  counter'[a] + Notices(a)' <= Cardinality(Told(a)')
      BY DEF CountersAreEarned
    <2>1. channel' = <<>> /\ counter' = counter /\ Told(a)' = Told(a)
      BY <1>2 DEF Stop, storeVars, Told
    <2>2. Notices(a)' = 0
      <3>1. Marks(<<>>, a) = {}
        BY DEF Marks
      <3>2. Notices(a)' = Cardinality(Marks(<<>>, a))
        BY <2>1 DEF Notices, Marks
      <3> QED
        BY <3>1, <3>2, FS_EmptySet
    <2>3. Notices(a) \in Nat /\ Cardinality(Told(a)) \in Nat /\ counter[a] \in Nat
      BY <1>0, MarksAreFinite, ToldIsFinite DEF Notices, Marks
    <2>4. counter[a] + Notices(a) <= Cardinality(Told(a))
      BY DEF CountersAreEarned
    <2> QED
      BY <2>1, <2>2, <2>3, <2>4
  <1>3. CASE ObservationsReady
    <2> DEFINE h == Head(channel).agent
    <2>1. h \in Agent /\ Head(channel).kind = "ready"
      BY <1>3, ReceiveTypes DEF ObservationsReady, Receive
    <2>2. counter' \in {[counter EXCEPT ![h] = 0], [counter EXCEPT ![h] = counter[h] + 1]}
      BY <1>3 DEF ObservationsReady
    <2>3. \A a \in Agent : Counts(Head(channel), a) <=> a = h
      BY <2>1 DEF Counts
    <2>4. /\ counter' \in [Agent -> Nat]
          /\ \A a \in Agent : counter'[a] <= counter[a] + (IF a = h THEN 1 ELSE 0)
      <3> HIDE DEF h
      <3> QED
        BY <1>0, <2>1, <2>2
    <2>5. Receive("ready")
      BY <1>3 DEF ObservationsReady
    <2> QED
      BY <2>3, <2>4, <2>5, ReceiveEarns
  <1>4. CASE ForceConsolidate \/ RunCycle
    <2>1. /\ Receive("force") \/ Receive("run")
          /\ Head(channel).agent \in Agent
      BY <1>4, ReceiveTypes DEF ForceConsolidate, RunCycle
    <2>2. counter' = counter \/ counter' = [counter EXCEPT ![Head(channel).agent] = 0]
      BY <1>4 DEF ForceConsolidate, RunCycle
    <2>3. counter' \in [Agent -> Nat] /\ \A a \in Agent : counter'[a] <= counter[a]
      BY <1>0, <2>1, <2>2
    <2>4. \A a \in Agent : counter'[a] <= counter[a] + (IF Counts(Head(channel), a) THEN 1 ELSE 0)
      BY <1>0, <2>3
    <2> QED
      BY <2>1, <2>3, <2>4, ReceiveEarns
  <1>5. CASE \E a \in Agent : Sweep(a)
    BY <1>0, <1>1, <1>5 DEF Sweep, storeVars
  <1>6. CASE Tick \/ Fetch \/ CycleSucceeds \/ CycleFails \/ CortexSweep
    <2>1. UNCHANGED <<channel, turn, counter>>
      BY <1>6 DEF Tick, Fetch, CycleSucceeds, CycleFails, CortexSweep, storeVars
    <2> QED
      BY <1>0, <1>1, <2>1
  <1> QED
    BY <1>2, <1>3, <1>4, <1>5, <1>6 DEF Work

LEMMA Earned ==
  ASSUME TypeOK, CountersAreEarned, [Next]_vars PROVE CountersAreEarned'
PROOF
  <1>1. ASSUME UNCHANGED <<channel, turn, counter>> PROVE CountersAreEarned'
    BY <1>1 DEF CountersAreEarned, Notices, Told
  <1>2. CASE UNCHANGED vars \/ Consolidate \/ Cancel
    BY <1>1, <1>2 DEF vars, storeVars, workerVars, Consolidate, Cancel
  <1>3. CASE \E t \in Turn : Ingest(t)
    BY <1>3, IngestEarns
  <1>4. CASE Work
    BY <1>4, WorkEarns
  <1>5. ASSUME NEW b \in Agent, NEW kind \in {"force", "run"}, Request(kind, b)
        PROVE  CountersAreEarned'
    <2> DEFINE r == [kind |-> kind, agent |-> b]
    <2>1. r \in Task /\ \A a : ~Counts(r, a)
      BY DEF Task, Counts
    <2>2. channel' = Append(channel, r) /\ counter' = counter /\ turn' = turn
      BY <1>5 DEF Request, TrySend, workerVars, storeVars
    <2>3. \A a \in Agent : NoticeCount(Append(channel, r), a) = NoticeCount(channel, a)
      BY <2>1, SendingAddsAMark DEF NoticeCount, TypeOK
    <2>4. \A a \in Agent : Notices(a)' = Notices(a) /\ Told(a)' = Told(a)
      BY <2>2, <2>3 DEF Notices, Marks, NoticeCount, Told
    <2> QED
      BY <2>2, <2>4 DEF CountersAreEarned
  <1> QED
    BY <1>2, <1>3, <1>4, <1>5 DEF Next

(* No observation is counted twice, by the notices under way and the       *)
(* counters together, whatever is turned away, reset, requested or fails.  *)
THEOREM CountersStayEarned == Spec => []CountersAreEarned
PROOF
  <1>1. Init => CountersAreEarned
    <2> SUFFICES ASSUME Init, NEW a \in Agent
                 PROVE  counter[a] + Notices(a) <= Cardinality(Told(a))
      BY DEF CountersAreEarned
    <2>1. Marks(<<>>, a) = {} /\ Notices(a) = Cardinality(Marks(<<>>, a))
      BY DEF Init, Marks, Notices
    <2>2. counter[a] = 0 /\ Cardinality(Told(a)) \in Nat
      BY ToldIsFinite DEF Init
    <2>3. Notices(a) = 0
      BY <2>1, FS_EmptySet
    <2> QED
      BY <2>2, <2>3
  <1> QED
    BY InitTypes, Types, Earned, <1>1, PTL DEF Spec
-----------------------------------------------------------------------------
(* The surfaces of a session.                                              *)

(* The call of each task.                                                  *)
Texts == Turns \cup {Says[t] : t \in Turns}
Places ==
  {"idle", "close", "existing", "rows", "drop", "begin", "commit", "plan", "stamp", "ended",
   "returned"} \cup Edges
Call == [at : Places, op : {"none", "finalize", "sweep"}, surface : Surfaces,
         existing : Seq(Row), fresh : Seq(Texts), ids : SUBSET (1..MaxRows),
         last : Turns \cup {None}, alone : BOOLEAN]

(* Rows of one surface, each once; texts, each once.                       *)
RowList(l, surface) ==
  /\ l \in Seq(Row) /\ Len(l) \in Nat /\ DOMAIN l = 1..Len(l)
  /\ \A k \in DOMAIN l : l[k] \in Row /\ l[k].surface = surface
  /\ \A j, k \in DOMAIN l : l[j].id = l[k].id => j = k
TextList(l) ==
  /\ l \in Seq(Texts) /\ Len(l) \in Nat /\ Len(l) <= LastTurn /\ DOMAIN l = 1..Len(l)
  /\ \A k \in DOMAIN l : l[k] \in Texts
  /\ \A j, k \in DOMAIN l : l[j] = l[k] => j = k

StoreTyped ==
  /\ present \subseteq past /\ past \subseteq Turns
  /\ rows \subseteq Row /\ IsFiniteSet(rows)
  /\ \A q, r \in rows : q.id = r.id => q = r
  /\ ended \in Turns \cup {None} /\ calls \in 0..MaxCalls

(* What a call has read is of its surface, and what its place asks for.    *)
InPlace(t) ==
  /\ RowList(t.existing, t.surface) /\ TextList(t.fresh)
  /\ t.at \in {"begin", "commit"} => t.surface = "session"
  /\ t.at \in {"plan"} \cup Edges => t.surface = "observation"
  /\ t.at \in {"begin", "commit", "plan"} => t.fresh # <<>>
  /\ t.ids # {} => t.at \in Edges

(* An id that a call remembers is not that of a row of the other surface.  *)
Owns(t) == \A r \in rows : r.id \in Remembered(t) => r.surface = t.surface

SurfaceInv ==
  /\ StoreTyped
  /\ task \in [Caller -> Call]
  /\ \A f \in Caller : InPlace(task[f]) /\ Owns(task[f])

AloneInv ==
  \A f \in Caller : task[f].alone =>
    /\ task[f].at # "idle"
    /\ \A g \in Caller \ {f} : task[g].at = "idle"

(* What a lone call has read is so still, and what it has done is done.    *)
ListsAll(t) == {t.existing[k] : k \in DOMAIN t.existing} = Of(t.surface)
UpToDate(t) ==
  /\ t.at # "close"
  /\ t.at \in {"rows", "drop", "commit", "plan"} => ListsAll(t)
  /\ t.at \in {"begin", "commit", "plan"} => t.fresh = Content(t.surface)
  /\ t.at = "drop" => Content(t.surface) = <<>>
  /\ t.surface = "observation" => Shows("session")
  /\ t.at \in Edges \cup {"stamp", "ended", "returned"} => Shows("session") /\ Shows("observation")
  /\ t.at = "ended" => t.last = LastMessage
  /\ t.at = "returned" => (present # {} => ended = LastMessage)
LoneInv ==
  \A f \in Caller : task[f].alone /\ task[f].op = "finalize" => UpToDate(task[f])
-----------------------------------------------------------------------------
(* Lists.                                                                  *)

(* L lists the elements of S, each once.                                   *)
ListOf(l, S) ==
  /\ l \in Seq(S) /\ Len(l) = Cardinality(S) /\ DOMAIN l = 1..Len(l)
  /\ \A k \in DOMAIN l : l[k] \in S
  /\ \A j, k \in DOMAIN l : l[j] = l[k] => j = k
  /\ \A x \in S : \E k \in DOMAIN l : l[k] = x

(* A set that an order makes a line of is listed by Sorted: the elements   *)
(* before each are fewer than those before the next, so every number below *)
(* the size of the set counts what is before one of them.                  *)
LEMMA SortedLists ==
  ASSUME NEW S, IsFiniteSet(S), NEW R,
         \A x \in S : <<x, x>> \notin R,
         \A x, y \in S : x # y => <<x, y>> \in R \/ <<y, x>> \in R,
         \A x, y, z \in S : <<x, y>> \in R /\ <<y, z>> \in R => <<x, z>> \in R
  PROVE  ListOf(Sorted(S, R), S)
PROOF
  <1> DEFINE Below(x) == {y \in S : <<y, x>> \in R}
             n == Cardinality(S)
             rank == [x \in S |-> Cardinality(Below(x))]
             l == Sorted(S, R)
  <1>1. n \in Nat
    BY FS_CardinalityType
  <1>2. \A x \in S : IsFiniteSet(Below(x)) /\ rank[x] \in 0..(n - 1)
    <2> SUFFICES ASSUME NEW x \in S PROVE IsFiniteSet(Below(x)) /\ rank[x] \in 0..(n - 1)
      OBVIOUS
    <2>1. IsFiniteSet(S \ {x}) /\ Cardinality(S \ {x}) = n - 1
      BY FS_RemoveElement
    <2>2. Below(x) \in SUBSET (S \ {x})
      OBVIOUS
    <2>3. rank[x] = Cardinality(Below(x))
      OBVIOUS
    <2> HIDE DEF Below, n, rank
    <2>4. IsFiniteSet(Below(x)) /\ Cardinality(Below(x)) <= n - 1
      BY <2>1, <2>2, FS_Subset
    <2>5. Cardinality(Below(x)) \in Nat
      BY <2>4, FS_CardinalityType
    <2> QED
      BY <1>1, <2>3, <2>4, <2>5
  <1>3. ASSUME NEW x \in S, NEW y \in S, <<x, y>> \in R PROVE rank[x] < rank[y]
    <2>1. Below(x) \cup {x} \in SUBSET Below(y) /\ x \notin Below(x)
      BY <1>3
    <2>2. rank[x] = Cardinality(Below(x)) /\ rank[y] = Cardinality(Below(y))
      OBVIOUS
    <2>3. PICK A : A = Below(x)
      OBVIOUS
    <2>4. PICK B : B = Below(y)
      OBVIOUS
    <2> HIDE DEF Below, n, rank
    <2>5. IsFiniteSet(A) /\ IsFiniteSet(B) /\ Cardinality(A) \in Nat /\ Cardinality(B) \in Nat
      BY <1>2, <2>3, <2>4, FS_CardinalityType
    <2>6. IsFiniteSet(A \cup {x}) /\ Cardinality(A \cup {x}) = Cardinality(A) + 1
      BY <2>1, <2>3, <2>5, FS_AddElement
    <2>7. Cardinality(A \cup {x}) <= Cardinality(B)
      BY <2>1, <2>3, <2>4, <2>5, FS_Subset
    <2> QED
      BY <2>2, <2>3, <2>4, <2>5, <2>6, <2>7
  <1>4. \A x, y \in S : rank[x] = rank[y] => x = y
    <2> SUFFICES ASSUME NEW x \in S, NEW y \in S, rank[x] = rank[y], x # y PROVE FALSE
      OBVIOUS
    <2>1. rank[x] \in Nat /\ rank[y] \in Nat
      <3>1. rank[x] \in 0..(n - 1) /\ rank[y] \in 0..(n - 1)
        BY <1>2
      <3> HIDE DEF n, rank
      <3> QED
        BY <1>1, <3>1
    <2>2. CASE <<x, y>> \in R
      <3>1. rank[x] < rank[y]
        BY <1>3, <2>2
      <3> HIDE DEF rank
      <3> QED
        BY <2>1, <3>1
    <2>3. CASE <<y, x>> \in R
      <3>1. rank[y] < rank[x]
        BY <1>3, <2>3
      <3> HIDE DEF rank
      <3> QED
        BY <2>1, <3>1
    <2> QED
      BY <2>2, <2>3
  <1>5. \A i \in 0..(n - 1) : \E x \in S : rank[x] = i
    <2>1. rank \in [S -> 0..(n - 1)]
      <3>1. rank = [x \in S |-> rank[x]]
        OBVIOUS
      <3> HIDE DEF rank, n
      <3> QED
        BY <1>2, <3>1
    <2> HIDE DEF rank
    <2>2. rank \in Injection(S, 0..(n - 1))
      BY <1>4, <2>1 DEF Injection, IsInjective
    <2>3. IsFiniteSet(0..(n - 1)) /\ Cardinality(0..(n - 1)) = n
      <3> HIDE DEF n
      <3>1. 0 \in Int /\ n - 1 \in Int
        BY <1>1
      <3> QED
        BY <1>1, <3>1, FS_Interval
    <2>4. PICK T : T = 0..(n - 1)
      OBVIOUS
    <2>5. rank \in Surjection(S, T)
      BY <2>2, <2>3, <2>4, FS_Injection
    <2> QED
      BY <2>4, <2>5 DEF Surjection
  <1>6. \A k \in 1..n : l[k] \in S /\ rank[l[k]] = k - 1
    <2> SUFFICES ASSUME NEW k \in 1..n PROVE l[k] \in S /\ rank[l[k]] = k - 1
      OBVIOUS
    <2>1. l[k] = CHOOSE x \in S : Cardinality(Below(x)) = k - 1
      BY DEF Sorted
    <2>2. \E x \in S : rank[x] = k - 1
      <3>1. k - 1 \in 0..(n - 1)
        <4> HIDE DEF n
        <4> QED
          BY <1>1
      <3> HIDE DEF rank, n
      <3> QED
        BY <1>5, <3>1
    <2>3. \E x \in S : Cardinality(Below(x)) = k - 1
      BY <2>2
    <2>4. l[k] \in S /\ Cardinality(Below(l[k])) = k - 1
      <3> HIDE DEF Below, l
      <3> QED
        BY <2>1, <2>3
    <2> QED
      BY <2>4
  <1>7. DOMAIN l = 1..n /\ l = [k \in 1..n |-> l[k]]
    <2> DEFINE e(k) == CHOOSE x \in S : Cardinality({y \in S : <<y, x>> \in R}) = k - 1
    <2>1. l = [k \in 1..n |-> e(k)]
      BY DEF Sorted
    <2> HIDE DEF n, l, e
    <2> QED
      BY <2>1
  <1> HIDE DEF rank, l, n
  <1>8. l \in [1..n -> S]
    BY <1>6, <1>7
  <1>9. l \in Seq(S) /\ Len(l) = n
    <2>1. l \in Seq(S)
      BY <1>1, <1>8, SeqDef
    <2>2. Len(l) \in Nat /\ DOMAIN l = 1..Len(l)
      BY <2>1, LenProperties
    <2> QED
      BY <1>1, <1>7, <2>1, <2>2
  <1>10. \A j, k \in 1..n : l[j] = l[k] => j = k
    <2> SUFFICES ASSUME NEW j \in 1..n, NEW k \in 1..n, l[j] = l[k] PROVE j = k
      OBVIOUS
    <2>1. j - 1 = k - 1
      BY <1>6
    <2> QED
      BY <1>1, <2>1
  <1>11. \A x \in S : \E k \in 1..n : l[k] = x
    <2> SUFFICES ASSUME NEW x \in S PROVE \E k \in 1..n : l[k] = x
      OBVIOUS
    <2>1. rank[x] \in 0..(n - 1)
      BY <1>2
    <2>2. rank[x] + 1 \in 1..n /\ (rank[x] + 1) - 1 = rank[x]
      BY <1>1, <2>1
    <2>3. l[rank[x] + 1] = x
      BY <1>4, <1>6, <2>2
    <2> QED
      BY <2>2, <2>3
  <1>12. Cardinality(S) = n
    BY DEF n
  <1>13. ListOf(l, S)
    BY <1>6, <1>7, <1>9, <1>10, <1>11, <1>12 DEF ListOf
  <1> QED
    BY <1>13 DEF l

(* Numbers are listed in their order. *)
LEMMA InOrderLists ==
  ASSUME NEW S \in SUBSET Int, IsFiniteSet(S)
  PROVE  ListOf(InOrder(S), S)
PROOF
  <1> DEFINE R == {p \in S \X S : p[1] < p[2]}
  <1>1. \A x, y \in S : <<x, y>> \in R <=> x < y
    OBVIOUS
  <1> HIDE DEF R
  <1>2. ListOf(Sorted(S, R), S)
    <2>1. \A x \in S : <<x, x>> \notin R
      BY <1>1
    <2>2. \A x, y \in S : x # y => <<x, y>> \in R \/ <<y, x>> \in R
      BY <1>1
    <2>3. \A x, y, z \in S : <<x, y>> \in R /\ <<y, z>> \in R => <<x, z>> \in R
      BY <1>1
    <2> QED
      BY <2>1, <2>2, <2>3, SortedLists
  <1> QED
    BY <1>2 DEF InOrder, R

(* Every order in which the rows of a surface may be read lists them.      *)
LEMMA ReadingsList ==
  ASSUME StoreTyped, NEW surface \in Surfaces, NEW s \in Readings(surface)
  PROVE  ListOf(s, Of(surface))
PROOF
  <1>1. PICK first \in SUBSET Tied(surface) : s = Sorted(Of(surface), ReadBefore(surface, first))
    BY DEF Readings, Reading
  <1>2. IsFiniteSet(Of(surface))
    <2>1. Of(surface) \in SUBSET rows
      BY DEF Of
    <2> QED
      BY <2>1, FS_Subset DEF StoreTyped
  <1> DEFINE S == Of(surface)
             R == ReadBefore(surface, first)
  <1>3. \A x \in S : x.id \in Int /\ x.idx \in Int
    BY SessionSurfaceAssumption DEF StoreTyped, Of, Row, Turns
  <1>4. \A x, y \in S : x.id = y.id => x = y
    BY DEF StoreTyped, Of
  <1>5. \A x, y \in S : <<x, y>> \in R <=>
          \/ x.idx < y.idx
          \/ /\ x.idx = y.idx
             /\ \/ x \in first /\ y \notin first
                \/ (x \in first <=> y \in first) /\ x.id < y.id
    BY DEF ReadBefore
  <1> HIDE DEF S, R
  <1>6. \A x \in S : <<x, x>> \notin R
    BY <1>3, <1>5
  <1>7. \A x, y \in S : x # y => <<x, y>> \in R \/ <<y, x>> \in R
    <2> SUFFICES ASSUME NEW x \in S, NEW y \in S, x # y
                 PROVE  <<x, y>> \in R \/ <<y, x>> \in R
      OBVIOUS
    <2>1. x.id # y.id
      BY <1>4
    <2> QED
      BY <1>3, <1>5, <2>1
  <1>8. \A x, y, z \in S : <<x, y>> \in R /\ <<y, z>> \in R => <<x, z>> \in R
    BY <1>3, <1>5
  <1>9. IsFiniteSet(S)
    BY <1>2 DEF S
  <1>10. ListOf(Sorted(S, R), S)
    BY <1>6, <1>7, <1>8, <1>9, SortedLists
  <1> QED
    BY <1>1, <1>10 DEF S, R

(* Lists over the same domain are of one length.                           *)
LEMMA SameLength ==
  ASSUME NEW m \in Nat, NEW n \in Nat, 1..m = 1..n PROVE m = n
PROOF
  <1>1. m # 0 => m \in 1..n
    OBVIOUS
  <1>2. n # 0 => n \in 1..m
    OBVIOUS
  <1> QED
    BY <1>1, <1>2

(* A set of turns is listed in the order of time.                          *)
LEMMA TurnsListed ==
  ASSUME NEW S \in SUBSET Turns
  PROVE  /\ IsFiniteSet(S) /\ ListOf(InOrder(S), S)
         /\ Cardinality(S) \in Nat /\ Cardinality(S) <= LastTurn
PROOF
  <1>1. LastTurn \in Nat \ {0}
    BY SessionSurfaceAssumption
  <1>2. IsFiniteSet(Turns) /\ Cardinality(Turns) = LastTurn
    BY <1>1, FS_Interval DEF Turns
  <1>3. IsFiniteSet(S) /\ Cardinality(S) <= LastTurn
    BY <1>2, FS_Subset
  <1>4. S \in SUBSET Int
    BY <1>1 DEF Turns
  <1> QED
    BY <1>3, <1>4, InOrderLists, FS_CardinalityType

(* The content of a surface: texts, none of them twice.                    *)
LEMMA ContentIsTextList ==
  ASSUME StoreTyped, NEW surface \in Surfaces
  PROVE  TextList(Content(surface))
PROOF
  <1>1. present \in SUBSET Turns /\ Stating \in SUBSET Turns
    BY DEF StoreTyped, Stating
  <1>2. CASE surface = "session"
    <2>1. Content(surface) = InOrder(present)
      BY <1>2 DEF Content
    <2>2. PICK c : c = InOrder(present)
      OBVIOUS
    <2>3. ListOf(c, present) /\ Cardinality(present) \in Nat /\ Cardinality(present) <= LastTurn
      BY <1>1, <2>2, TurnsListed
    <2>4. c \in Seq(Texts)
      <3>1. c \in Seq(present) /\ present \subseteq Texts
        BY <1>1, <2>3 DEF ListOf, Texts
      <3> QED
        BY <3>1, SeqMonotonic
    <2>5. TextList(c)
      BY <1>1, <2>3, <2>4 DEF ListOf, TextList, Texts
    <2> QED
      BY <2>1, <2>2, <2>5
  <1>3. CASE surface = "observation"
    <2> DEFINE n == Cardinality(Stating)
    <2>1. PICK l : l = InOrder(Stating)
      OBVIOUS
    <2>2. ListOf(l, Stating) /\ n \in Nat /\ n <= LastTurn
      BY <1>1, <2>1, TurnsListed
    <2>3. PICK c : c = [k \in 1..n |-> Says[l[k]]]
      OBVIOUS
    <2>4. Content(surface) = c
      BY <1>3, <2>1, <2>3 DEF Content
    <2>5. DOMAIN l = 1..n
      BY <2>2 DEF ListOf
    <2>6. \A k \in 1..n : l[k] \in Stating
      BY <2>2, <2>5 DEF ListOf
    <2>7. \A k \in 1..n : c[k] = Says[l[k]]
      BY <2>3
    <2> HIDE DEF n
    <2>8. \A k \in 1..n : c[k] \in Texts
      BY <1>1, <2>6, <2>7 DEF Texts
    <2>9. c \in [1..n -> Texts]
      BY <2>3, <2>7, <2>8
    <2>10. c \in Seq(Texts)
      BY <2>2, <2>9, SeqDef
    <2>11. Len(c) = n /\ DOMAIN c = 1..n
      <3>1. Len(c) \in Nat /\ DOMAIN c = 1..Len(c)
        BY <2>10, LenProperties
      <3>2. DOMAIN c = 1..n
        BY <2>9
      <3> QED
        BY <2>2, <3>1, <3>2, SameLength
    <2>12. \A j, k \in 1..n : c[j] = c[k] => j = k
      <3> SUFFICES ASSUME NEW j \in 1..n, NEW k \in 1..n, c[j] = c[k] PROVE j = k
        OBVIOUS
      <3>1. l[j] \in Stating /\ l[k] \in Stating /\ Says[l[j]] = Says[l[k]]
        BY <2>6, <2>7
      <3>2. ~(l[j] < l[k]) /\ ~(l[k] < l[j])
        BY <3>1 DEF Stating
      <3>3. l[j] \in Int /\ l[k] \in Int
        <4>1. l[j] \in Turns /\ l[k] \in Turns
          BY <1>1, <3>1
        <4> QED
          BY <4>1 DEF Turns
      <3>4. l[j] = l[k]
        BY <3>2, <3>3
      <3> QED
        BY <2>2, <2>5, <3>4 DEF ListOf
    <2> QED
      BY <2>2, <2>4, <2>8, <2>10, <2>11, <2>12 DEF TextList
  <1> QED
    BY <1>2, <1>3 DEF Surfaces

(* A set of numbers that is bounded and not empty has a greatest.          *)
LEMMA GreatestBelow ==
  ASSUME NEW n \in Nat, NEW S \in SUBSET (0..n), S # {}
  PROVE  Max(S) \in S /\ \A y \in S : Max(S) >= y
PROOF
  <1> DEFINE D == {d \in Nat : n - d \in S}
  <1>1. D \in SUBSET Nat /\ D # {}
    <2>1. PICK x \in S : TRUE
      OBVIOUS
    <2>2. n - x \in Nat /\ n - (n - x) = x
      OBVIOUS
    <2> QED
      BY <2>1, <2>2
  <1>2. PICK d \in D : \A e \in D : ~(<<e, d>> \in OpToRel(<, Nat))
    <2> HIDE DEF D
    <2> QED
      BY <1>1, WFMin, NatLessThanWellFounded
  <1>3. \A e \in D : d <= e
    <2> SUFFICES ASSUME NEW e \in D, e < d PROVE FALSE
      OBVIOUS
    <2>1. <<e, d>> \in OpToRel(<, Nat)
      BY DEF OpToRel
    <2> QED
      BY <1>2, <2>1
  <1>4. n - d \in S
    OBVIOUS
  <1>5. \A y \in S : n - d >= y
    <2> SUFFICES ASSUME NEW y \in S PROVE n - d >= y
      OBVIOUS
    <2>1. n - y \in D
      <3>1. n - y \in Nat /\ n - (n - y) = y
        OBVIOUS
      <3> QED
        BY <3>1
    <2>2. d <= n - y
      BY <1>3, <2>1
    <2> QED
      BY <2>2
  <1>6. \E x \in S : \A y \in S : x >= y
    BY <1>4, <1>5
  <1> QED
    BY <1>6 DEF Max

(* resolve_existing keeps rows whose texts begin the content.              *)
LEMMA CommonIs ==
  ASSUME NEW existing, NEW fresh, Len(existing) \in Nat
  PROVE  /\ Common(existing, fresh) \in 0..Len(existing)
         /\ Common(existing, fresh) > 0 => Common(existing, fresh) <= Len(fresh)
         /\ \A k \in 1..Common(existing, fresh) : existing[k].text = fresh[k]
PROOF
  <1> DEFINE S == {n \in 1..Len(existing) :
                     n <= Len(fresh) /\ \A k \in 1..n : existing[k].text = fresh[k]}
             T == {0} \cup S
  <1>1. T \in SUBSET (0..Len(existing)) /\ T # {}
    OBVIOUS
  <1>2. PICK c : c = Max(T)
    OBVIOUS
  <1>3. c \in T
    <2> HIDE DEF T
    <2> QED
      BY <1>1, <1>2, GreatestBelow
  <1>4. Common(existing, fresh) = c
    BY <1>2 DEF Common
  <1>5. c = 0 \/ (c \in 1..Len(existing) /\ c <= Len(fresh)
                  /\ \A k \in 1..c : existing[k].text = fresh[k])
    BY <1>3
  <1>6. \A k \in 1..c : existing[k].text = fresh[k]
    BY <1>5
  <1> QED
    BY <1>4, <1>5, <1>6

(* The rows of the suffix: new ids, the texts from where the lists part.   *)
LEMMA CreatedIs ==
  ASSUME NEW surface \in Surfaces, NEW existing, NEW fresh,
         RowList(existing, surface), TextList(fresh), Room(existing, fresh)
  PROVE  LET c == Common(existing, fresh)
             N == Created(surface, existing, fresh)
         IN  /\ IsFiniteSet(N)
             /\ \A r \in N : r \in Row /\ r.id \in Unused /\ r.surface = surface
             /\ \A q, r \in N : q.id = r.id => q = r
             /\ \A r \in N : \E k \in (c + 1)..Len(fresh) : r.text = fresh[k]
             /\ \A k \in (c + 1)..Len(fresh) : \E r \in N : r.text = fresh[k]
             /\ \A q, r \in N : q.text = r.text => q = r
PROOF
  <1> DEFINE c == Common(existing, fresh)
             N == Created(surface, existing, fresh)
             n == Len(fresh)
             ids == InOrder(Unused)
             row(k) == [id |-> ids[k - c], surface |-> surface, idx |-> k, text |-> fresh[k],
                        about |-> {}]
             I == (c + 1)..n
  <1>1. c \in Nat /\ n \in Nat /\ n <= LastTurn /\ LastTurn \in Nat /\ MaxRows \in Nat
    <2>1. Len(existing) \in Nat
      BY DEF RowList
    <2>2. c \in 0..Len(existing)
      BY <2>1, CommonIs
    <2> QED
      BY <2>1, <2>2, SessionSurfaceAssumption DEF TextList
  <1>2. N = {row(k) : k \in I}
    BY DEF Created
  <1>3. Unused \in SUBSET (1..MaxRows)
    BY DEF Unused
  <1>4. ListOf(ids, Unused) /\ Cardinality(Unused) \in Nat /\ n - c <= Cardinality(Unused)
    <2>1. IsFiniteSet(1..MaxRows) /\ Unused \in SUBSET Int
      BY <1>1, <1>3, FS_Interval
    <2>2. IsFiniteSet(Unused)
      BY <1>3, <2>1, FS_Subset
    <2> QED
      BY <1>1, <2>1, <2>2, InOrderLists, FS_CardinalityType DEF Room
  <1> HIDE DEF c, N, n, ids
  <1>5. \A k \in I : k - c \in 1..Cardinality(Unused)
    BY <1>1, <1>4
  <1>6. DOMAIN ids = 1..Cardinality(Unused)
    BY <1>4 DEF ListOf
  <1>7. \A k \in I : ids[k - c] \in Unused
    BY <1>4, <1>5, <1>6 DEF ListOf
  <1>8. \A j, k \in I : ids[j - c] = ids[k - c] => j = k
    <2> SUFFICES ASSUME NEW j \in I, NEW k \in I, ids[j - c] = ids[k - c] PROVE j = k
      OBVIOUS
    <2>1. j - c = k - c
      BY <1>4, <1>5, <1>6 DEF ListOf
    <2> QED
      BY <1>1, <2>1
  <1>9. \A k \in I : k \in 1..n /\ fresh[k] \in Texts
    <2>1. \A k \in I : k \in 1..n
      BY <1>1
    <2> QED
      BY <2>1 DEF TextList, n
  <1>10. \A j, k \in I : fresh[j] = fresh[k] => j = k
    BY <1>9 DEF TextList, n
  <1>11. \A k \in I : /\ row(k).id = ids[k - c] /\ row(k).text = fresh[k]
                      /\ row(k).surface = surface
    OBVIOUS
  <1>12. \A k \in I : row(k) \in Row
    <2> SUFFICES ASSUME NEW k \in I PROVE row(k) \in Row
      OBVIOUS
    <2>1. ids[k - c] \in 1..MaxRows /\ fresh[k] \in Turns \cup {Says[t] : t \in Turns}
      BY <1>3, <1>7, <1>9 DEF Texts
    <2>2. k \in Turns
      BY <1>1 DEF Turns
    <2>3. {} \in SUBSET Edges
      OBVIOUS
    <2> QED
      BY <2>1, <2>2, <2>3 DEF Row
  <1>13. IsFiniteSet(N)
    <2> HIDE DEF row
    <2>1. PICK g : g = [k \in I |-> row(k)]
      OBVIOUS
    <2>2. g \in Surjection(I, N)
      BY <1>2, <2>1 DEF Surjection
    <2>3. IsFiniteSet(I)
      <3>1. c + 1 \in Int /\ n \in Int
        BY <1>1
      <3> QED
        BY <3>1, FS_Interval
    <2> HIDE DEF I
    <2> QED
      BY <2>2, <2>3, FS_Surjection
  <1>14. \A r \in N : \E k \in I : r = row(k)
    BY <1>2
  <1>15. \A k \in I : row(k) \in N
    BY <1>2
  <1> HIDE DEF row, I
  <1>16. \A r \in N : r \in Row /\ r.id \in Unused /\ r.surface = surface
    BY <1>7, <1>11, <1>12, <1>14
  <1>17. \A q, r \in N : q.id = r.id => q = r
    BY <1>8, <1>11, <1>14
  <1>18. \A q, r \in N : q.text = r.text => q = r
    BY <1>10, <1>11, <1>14
  <1>19. \A r \in N : \E k \in I : r.text = fresh[k]
    BY <1>11, <1>14
  <1>20. \A k \in I : \E r \in N : r.text = fresh[k]
    BY <1>11, <1>15
  <1> QED
    BY <1>13, <1>16, <1>17, <1>18, <1>19, <1>20 DEF c, N, n, I
-----------------------------------------------------------------------------
(* How each action moves its call.                                         *)
Moves(f, u) == u \in Call /\ task' = [task EXCEPT ![f] = u]
Same(u, t) == u.op = t.op /\ u.alone = t.alone
Cleared(u) == u.existing = <<>> /\ u.fresh = <<>> /\ u.ids = {}

(* What a call has before it reads.                                        *)
LEMMA EmptyLists ==
  /\ <<>> \in Seq(Row) /\ <<>> \in Seq(Texts) /\ Len(<<>>) = 0 /\ DOMAIN <<>> = {}
  /\ \A surface : RowList(<<>>, surface)
  /\ TextList(<<>>)
PROOF
  <1>1. <<>> \in Seq(Row) /\ <<>> \in Seq(Texts) /\ Len(<<>>) = 0
    BY EmptySeq
  <1>2. DOMAIN <<>> = 1..0
    BY <1>1, LenProperties
  <1>3. 1..0 = {}
    OBVIOUS
  <1> QED
    BY <1>1, <1>2, <1>3, SessionSurfaceAssumption DEF RowList, TextList

(* A call that is done with a surface forgets it.                          *)
LEMMA NextSurfaceIs ==
  ASSUME NEW t \in Call
  PROVE  /\ NextSurface(t) \in Call /\ Same(NextSurface(t), t) /\ Cleared(NextSurface(t))
         /\ NextSurface(t).surface = "observation" /\ NextSurface(t).last = t.last
         /\ NextSurface(t).at = IF t.surface = "session" THEN "existing" ELSE "stamp"
PROOF
  <1>1. <<>> \in Seq(Row) /\ <<>> \in Seq(Texts)
    BY EmptyLists
  <1>2. "observation" \in Surfaces /\ {} \in SUBSET (1..MaxRows)
        /\ (IF t.surface = "session" THEN "existing" ELSE "stamp") \in Places
    BY DEF Surfaces, Places
  <1> QED
    BY <1>1, <1>2 DEF NextSurface, Call, Same, Cleared

(* A caller between calls.                                                 *)
LEMMA IdleIs == /\ Idle \in Call /\ Cleared(Idle) /\ Idle.at = "idle" /\ ~Idle.alone
                /\ Idle.op = "none" /\ Idle.surface = "session" /\ Idle.last = None
PROOF
  <1>1. <<>> \in Seq(Row) /\ <<>> \in Seq(Texts)
    BY EmptyLists
  <1> QED
    BY <1>1 DEF Idle, Call, Cleared, Places, Surfaces

(* A read returns the rows of its surface, each once.                      *)
LEMMA ReadingMoves ==
  ASSUME StoreTyped, NEW surface \in Surfaces, NEW s \in Readings(surface)
  PROVE  s \in Seq(Row) /\ RowList(s, surface) /\ {s[k] : k \in DOMAIN s} = Of(surface)
PROOF
  <1>1. ListOf(s, Of(surface)) /\ Of(surface) \subseteq Row
    BY ReadingsList DEF StoreTyped, Of
  <1>2. s \in Seq(Row)
    <2>1. s \in Seq(Of(surface))
      BY <1>1 DEF ListOf
    <2> QED
      BY <1>1, <2>1, SeqMonotonic
  <1>3. Len(s) \in Nat /\ DOMAIN s = 1..Len(s)
    BY <1>2, LenProperties
  <1>4. \A k \in DOMAIN s : s[k] \in Row /\ s[k].surface = surface
    BY <1>1 DEF ListOf, Of
  <1>5. \A j, k \in DOMAIN s : s[j].id = s[k].id => j = k
    <2>1. \A j, k \in DOMAIN s : s[j].id = s[k].id => s[j] = s[k]
      BY <1>1 DEF ListOf, Of, StoreTyped
    <2> QED
      BY <1>1, <2>1 DEF ListOf
  <1>6. {s[k] : k \in DOMAIN s} = Of(surface)
    BY <1>1 DEF ListOf
  <1> QED
    BY <1>2, <1>3, <1>4, <1>5, <1>6 DEF RowList

(* A read of the surface puts it, in some order, into the call.            *)
LEMMA ReadMoves ==
  ASSUME SurfaceInv, NEW f \in Caller, ReadExisting(f) \/ BeginTx(f)
  PROVE  \E u \in Call, s \in Readings(task[f].surface) :
           /\ Moves(f, u) /\ Same(u, task[f]) /\ u.existing = s
           /\ u.fresh = task[f].fresh /\ u.ids = task[f].ids /\ u.surface = task[f].surface
           /\ \/ u.at = "rows" /\ task[f].at = "existing"
              \/ u.at = "commit" /\ task[f].at = "begin"
PROOF
  <1>1. task \in [Caller -> Call] /\ task[f] \in Call /\ InPlace(task[f])
    BY DEF SurfaceInv
  <1>2. PICK t \in Call : t = task[f]
    BY <1>1
  <1>3. t.surface \in Surfaces
    BY DEF Call
  <1>4. PICK s \in Readings(t.surface), place \in {"rows", "commit"} :
          /\ task' = [task EXCEPT ![f].existing = s, ![f].at = place]
          /\ \/ place = "rows" /\ t.at = "existing"
             \/ place = "commit" /\ t.at = "begin"
    <2>1. CASE ReadExisting(f)
      <3>1. PICK s \in Readings(task[f].surface) :
              task' = [task EXCEPT ![f].existing = s, ![f].at = "rows"]
        BY <2>1 DEF ReadExisting
      <3>2. t.at = "existing" /\ s \in Readings(t.surface)
        BY <1>2, <2>1, <3>1 DEF ReadExisting
      <3> QED
        BY <3>1, <3>2
    <2>2. CASE BeginTx(f)
      <3>1. PICK s \in Readings("session") :
              task' = [task EXCEPT ![f].existing = s, ![f].at = "commit"]
        BY <2>2 DEF BeginTx
      <3>2. t.at = "begin" /\ t.surface = "session"
        BY <1>1, <1>2, <2>2 DEF BeginTx, InPlace
      <3> QED
        BY <3>1, <3>2
    <2> QED
      BY <2>1, <2>2
  <1>5. s \in Seq(Row) /\ place \in Places
    BY <1>3, ReadingMoves DEF SurfaceInv, Places
  <1>6. PICK u : u = [t EXCEPT !.existing = s, !.at = place]
    OBVIOUS
  <1>7. u \in Call /\ u.at = place /\ u.existing = s /\ u.fresh = t.fresh /\ u.ids = t.ids
        /\ u.surface = t.surface /\ Same(u, t)
    BY <1>5, <1>6 DEF Call, Same
  <1>8. task' = [task EXCEPT ![f] = u]
    BY <1>1, <1>2, <1>4, <1>6
  <1> QED
    BY <1>2, <1>4, <1>7, <1>8 DEF Moves

(* A step that ends a surface.                                             *)
LEMMA NextMoves ==
  ASSUME SurfaceInv, NEW f \in Caller, task' = [task EXCEPT ![f] = NextSurface(task[f])]
  PROVE  \E u \in Call :
           /\ Moves(f, u) /\ Same(u, task[f]) /\ Cleared(u)
           /\ u.surface = "observation"
           /\ u.at = IF task[f].surface = "session" THEN "existing" ELSE "stamp"
PROOF
  <1>1. task[f] \in Call
    BY DEF SurfaceInv
  <1> QED
    BY <1>1, NextSurfaceIs DEF Moves

(* A step that ends the call.                                              *)
LEMMA IdleMoves ==
  ASSUME SurfaceInv, NEW f \in Caller, task' = [task EXCEPT ![f] = Idle]
  PROVE  Moves(f, Idle)
PROOF
  <1> QED
    BY IdleIs DEF Moves

(* What ReadRows makes of the content it reads.                            *)
LEMMA ReadRowsMoves ==
  ASSUME SurfaceInv, NEW f \in Caller, ReadRows(f)
  PROVE  \E u \in Call :
           /\ Moves(f, u) /\ Same(u, task[f]) /\ u.ids = task[f].ids
           /\ \/ /\ Content(task[f].surface) = <<>> /\ task[f].existing = <<>> /\ Cleared(u)
                 /\ u.surface = "observation"
                 /\ u.at = IF task[f].surface = "session" THEN "existing" ELSE "stamp"
              \/ /\ Content(task[f].surface) = <<>> /\ u.at = "drop"
                 /\ u.surface = task[f].surface
                 /\ u.existing = task[f].existing /\ u.fresh = task[f].fresh
              \/ /\ Content(task[f].surface) # <<>> /\ task[f].surface = "session"
                 /\ u.at = "begin" /\ u.surface = "session"
                 /\ u.existing = <<>> /\ u.fresh = Content(task[f].surface)
              \/ /\ Content(task[f].surface) # <<>> /\ task[f].surface = "observation"
                 /\ Reusable(task[f].existing, Content(task[f].surface)) /\ Cleared(u)
                 /\ u.surface = "observation" /\ u.at = "stamp"
              \/ /\ Content(task[f].surface) # <<>> /\ task[f].surface = "observation"
                 /\ u.at = "plan" /\ u.surface = "observation"
                 /\ u.existing = task[f].existing /\ u.fresh = Content(task[f].surface)
PROOF
  <1>1. task \in [Caller -> Call] /\ task[f] \in Call /\ task[f].at = "rows"
    BY DEF SurfaceInv, ReadRows
  <1>2. PICK t \in Call : t = task[f]
    BY <1>1
  <1>3. PICK c : c = Content(t.surface)
    OBVIOUS
  <1>4. t.surface \in Surfaces /\ t.ids = {}
    BY <1>1, <1>2 DEF Call, SurfaceInv, InPlace, Edges
  <1>5. c \in Seq(Texts)
    BY <1>3, <1>4, ContentIsTextList DEF SurfaceInv, TextList
  <1>6. <<>> \in Seq(Row)
    BY EmptyLists
  <1> DEFINE u == IF c = <<>> /\ t.existing = <<>> THEN NextSurface(t)
                  ELSE IF c = <<>> THEN [t EXCEPT !.at = "drop"]
                  ELSE IF t.surface = "session"
                       THEN [t EXCEPT !.at = "begin", !.fresh = c, !.existing = <<>>]
                  ELSE IF Reusable(t.existing, c) THEN NextSurface(t)
                  ELSE [t EXCEPT !.at = "plan", !.fresh = c]
  <1>7. task' = [task EXCEPT ![f] = u]
    BY <1>2, <1>3 DEF ReadRows
  <1>8. {"drop", "begin", "plan"} \subseteq Places
    BY DEF Places
  <1> SUFFICES /\ u \in Call /\ Same(u, t) /\ u.ids = t.ids
               /\ \/ /\ c = <<>> /\ t.existing = <<>> /\ Cleared(u)
                     /\ u.surface = "observation"
                     /\ u.at = IF t.surface = "session" THEN "existing" ELSE "stamp"
                  \/ /\ c = <<>> /\ u.at = "drop" /\ u.surface = t.surface
                     /\ u.existing = t.existing /\ u.fresh = t.fresh
                  \/ /\ c # <<>> /\ t.surface = "session" /\ u.at = "begin"
                     /\ u.surface = "session" /\ u.existing = <<>> /\ u.fresh = c
                  \/ /\ c # <<>> /\ t.surface = "observation" /\ Reusable(t.existing, c)
                     /\ Cleared(u) /\ u.surface = "observation" /\ u.at = "stamp"
                  \/ /\ c # <<>> /\ t.surface = "observation" /\ u.at = "plan"
                     /\ u.surface = "observation" /\ u.existing = t.existing /\ u.fresh = c
    <2> HIDE DEF u
    <2> QED
      BY <1>2, <1>3, <1>7 DEF Moves
  <1>9. CASE c = <<>> /\ t.existing = <<>>
    <2>1. u = NextSurface(t)
      BY <1>9
    <2> HIDE DEF u
    <2> QED
      BY <1>4, <1>9, <2>1, NextSurfaceIs DEF Cleared
  <1>10. CASE c = <<>> /\ t.existing # <<>>
    <2>1. u = [t EXCEPT !.at = "drop"]
      BY <1>10
    <2> HIDE DEF u
    <2> QED
      BY <1>8, <1>10, <2>1 DEF Call, Same
  <1>11. CASE c # <<>> /\ t.surface = "session"
    <2>1. u = [t EXCEPT !.at = "begin", !.fresh = c, !.existing = <<>>]
      BY <1>11
    <2> HIDE DEF u
    <2> QED
      BY <1>5, <1>6, <1>8, <1>11, <2>1 DEF Call, Same
  <1>12. CASE c # <<>> /\ t.surface # "session" /\ Reusable(t.existing, c)
    <2>1. u = NextSurface(t)
      BY <1>12
    <2>2. t.surface = "observation"
      BY <1>4, <1>12 DEF Surfaces
    <2> HIDE DEF u
    <2> QED
      BY <1>4, <1>12, <2>1, <2>2, NextSurfaceIs DEF Cleared
  <1>13. CASE c # <<>> /\ t.surface # "session" /\ ~Reusable(t.existing, c)
    <2>1. u = [t EXCEPT !.at = "plan", !.fresh = c]
      BY <1>13
    <2>2. t.surface = "observation"
      BY <1>4, <1>13 DEF Surfaces
    <2> HIDE DEF u
    <2> QED
      BY <1>5, <1>8, <1>13, <2>1, <2>2 DEF Call, Same
  <1> QED
    BY <1>9, <1>10, <1>11, <1>12, <1>13

(* A conflict sends the call back to the start of its transaction.         *)
LEMMA ConflictMoves ==
  ASSUME SurfaceInv, NEW f \in Caller, Conflict(f)
  PROVE  \E u \in Call :
           /\ Moves(f, u) /\ Same(u, task[f]) /\ u.at = "begin" /\ u.existing = <<>>
           /\ u.fresh = task[f].fresh /\ u.ids = task[f].ids /\ u.surface = task[f].surface
PROOF
  <1>1. task \in [Caller -> Call] /\ task[f] \in Call
    BY DEF SurfaceInv
  <1>2. <<>> \in Seq(Row) /\ "begin" \in Places
    BY EmptyLists DEF Places
  <1>3. PICK t \in Call : t = task[f]
    BY <1>1
  <1>4. PICK u : u = [t EXCEPT !.at = "begin", !.existing = <<>>]
    OBVIOUS
  <1>5. u \in Call /\ u.at = "begin" /\ u.existing = <<>> /\ u.fresh = t.fresh /\ u.ids = t.ids
        /\ u.surface = t.surface /\ Same(u, t)
    BY <1>2, <1>4 DEF Call, Same
  <1>6. task' = [task EXCEPT ![f] = u]
    BY <1>1, <1>3, <1>4 DEF Conflict
  <1> QED
    BY <1>3, <1>5, <1>6 DEF Moves

(* The edges to entities come before those to participants.                *)
LEMMA WireMoves ==
  ASSUME SurfaceInv, NEW f \in Caller, Wire(f)
  PROVE  \E u \in Call :
           /\ Moves(f, u) /\ Same(u, task[f]) /\ u.surface = "observation"
           /\ \/ u.at = "participant" /\ u.ids = task[f].ids
                 /\ u.existing = task[f].existing /\ u.fresh = task[f].fresh
              \/ u.at = "stamp" /\ Cleared(u)
PROOF
  <1>1. task \in [Caller -> Call] /\ task[f] \in Call /\ task[f].at \in Edges
    BY DEF SurfaceInv, Wire
  <1>2. task[f].surface = "observation"
    BY <1>1 DEF SurfaceInv, InPlace
  <1>3. PICK t \in Call : t = task[f]
    BY <1>1
  <1>4. CASE t.at = "entity"
    <2>1. PICK u : u = [t EXCEPT !.at = "participant"]
      OBVIOUS
    <2>2. task' = [task EXCEPT ![f] = u]
      BY <1>1, <1>3, <1>4, <2>1 DEF Wire
    <2>3. "participant" \in Places
      BY DEF Places, Edges
    <2>4. u \in Call /\ u.at = "participant" /\ u.existing = t.existing /\ u.fresh = t.fresh
          /\ u.ids = t.ids /\ u.surface = t.surface /\ Same(u, t)
      BY <2>1, <2>3 DEF Call, Same
    <2> QED
      BY <1>2, <1>3, <2>2, <2>4 DEF Moves
  <1>5. CASE t.at # "entity"
    <2>1. task' = [task EXCEPT ![f] = NextSurface(task[f])]
      BY <1>1, <1>3, <1>5 DEF Wire
    <2>2. PICK u \in Call : /\ Moves(f, u) /\ Same(u, task[f]) /\ Cleared(u)
                            /\ u.surface = "observation"
                            /\ u.at = IF task[f].surface = "session" THEN "existing" ELSE "stamp"
      BY <2>1, NextMoves
    <2> QED
      BY <1>2, <2>2 DEF Cleared
  <1> QED
    BY <1>4, <1>5

(* There is a last message exactly when there are messages.                *)
LEMMA LastMessageIs ==
  ASSUME StoreTyped
  PROVE  LastMessage \in Turns \cup {None} /\ (LastMessage = None <=> present = {})
PROOF
  <1>1. present \in SUBSET (0..LastTurn) /\ LastTurn \in Nat /\ present \subseteq Turns
    BY SessionSurfaceAssumption DEF StoreTyped, Turns
  <1>2. present # {} => Max(present) \in present
    BY <1>1, GreatestBelow
  <1> QED
    BY <1>1, <1>2, SessionSurfaceAssumption DEF LastMessage

(* The steps that read the last message and write ended_at.                *)
LEMMA StampMoves ==
  ASSUME SurfaceInv, NEW f \in Caller, ReadLast(f) \/ Stamp(f)
  PROVE  \E u \in Call :
           /\ Moves(f, u) /\ Same(u, task[f]) /\ u.existing = task[f].existing
           /\ u.fresh = task[f].fresh /\ u.ids = task[f].ids /\ u.surface = task[f].surface
           /\ \/ u.at = "returned" /\ (Stamp(f) \/ LastMessage = None)
              \/ u.at = "ended" /\ u.last = LastMessage /\ LastMessage # None
PROOF
  <1>1. task \in [Caller -> Call] /\ task[f] \in Call
    BY DEF SurfaceInv
  <1>2. PICK t \in Call : t = task[f]
    BY <1>1
  <1>3. {"returned", "ended"} \subseteq Places
    BY DEF Places
  <1>4. CASE Stamp(f) \/ (ReadLast(f) /\ LastMessage = None)
    <2>1. PICK u : u = [t EXCEPT !.last = None, !.at = "returned"]
      OBVIOUS
    <2>2. task' = [task EXCEPT ![f] = u]
      BY <1>2, <1>4, <2>1 DEF Stamped, Stamp, ReadLast
    <2>3. u \in Call /\ u.at = "returned" /\ u.existing = t.existing /\ u.fresh = t.fresh
          /\ u.ids = t.ids /\ u.surface = t.surface /\ Same(u, t)
      BY <1>3, <2>1 DEF Call, Same
    <2> QED
      BY <1>2, <1>4, <2>2, <2>3 DEF Moves
  <1>5. CASE ReadLast(f) /\ LastMessage # None
    <2>1. PICK m : m = LastMessage
      OBVIOUS
    <2>2. PICK u : u = [t EXCEPT !.last = m, !.at = "ended"]
      OBVIOUS
    <2>3. task' = [task EXCEPT ![f] = u]
      BY <1>2, <1>5, <2>1, <2>2 DEF ReadLast
    <2>4. m \in Turns \cup {None}
      BY <2>1, LastMessageIs DEF SurfaceInv
    <2>5. u \in Call /\ u.at = "ended" /\ u.last = m /\ u.existing = t.existing
          /\ u.fresh = t.fresh /\ u.ids = t.ids /\ u.surface = t.surface /\ Same(u, t)
      BY <1>3, <2>2, <2>4 DEF Call, Same
    <2> QED
      BY <1>2, <1>5, <2>1, <2>3, <2>5 DEF Moves
  <1> QED
    BY <1>4, <1>5

(* The sweep takes up a session that is not closed.                        *)
LEMMA CloseMoves ==
  ASSUME SurfaceInv, NEW f \in Caller, Close(f), task' # [task EXCEPT ![f] = Idle]
  PROVE  \E u \in Call :
           /\ Moves(f, u) /\ Same(u, task[f]) /\ u.existing = task[f].existing
           /\ u.fresh = task[f].fresh /\ u.ids = task[f].ids /\ u.surface = task[f].surface
           /\ u.at = "ended"
PROOF
  <1>1. task \in [Caller -> Call] /\ task[f] \in Call
    BY DEF SurfaceInv
  <1>2. PICK t \in Call : t = task[f]
    BY <1>1
  <1>3. PICK m \in Turns \cup {None} : m = LastMessage
    BY LastMessageIs DEF SurfaceInv
  <1>4. PICK u : u = [t EXCEPT !.last = m, !.at = "ended"]
    OBVIOUS
  <1>5. u \in Call /\ u.at = "ended" /\ u.existing = t.existing
        /\ u.fresh = t.fresh /\ u.ids = t.ids /\ u.surface = t.surface /\ Same(u, t)
    BY <1>4 DEF Call, Same, Places
  <1>6. task' = [task EXCEPT ![f].last = LastMessage, ![f].at = "ended"]
    BY DEF Close
  <1>7. task' = [task EXCEPT ![f] = u]
    BY <1>1, <1>2, <1>3, <1>4, <1>6
  <1> QED
    BY <1>2, <1>5, <1>7 DEF Moves
-----------------------------------------------------------------------------
(* The rows each action leaves.                                            *)

(* A step may change and remove rows; a row that is new has a new id.      *)
RowsKeepIds ==
  \A r \in rows' : r.id \in Unused \/ \E q \in rows : q.id = r.id /\ q.surface = r.surface
RowsTyped ==
  /\ rows \subseteq Row /\ IsFiniteSet(rows)
  /\ \A q, r \in rows : q.id = r.id => q = r

(* A replacement leaves rows with ids of their own.                        *)
LEMMA ReplacedRows ==
  ASSUME SurfaceInv, NEW surface \in Surfaces, NEW existing, NEW fresh,
         RowList(existing, surface), TextList(fresh), Room(existing, fresh),
         rows' = Without(Doomed(existing, fresh)) \cup Created(surface, existing, fresh)
  PROVE  RowsTyped' /\ RowsKeepIds
PROOF
  <1> DEFINE N == Created(surface, existing, fresh)
             K == Without(Doomed(existing, fresh))
  <1>1. /\ IsFiniteSet(N)
        /\ \A r \in N : r \in Row /\ r.id \in Unused /\ r.surface = surface
        /\ \A q, r \in N : q.id = r.id => q = r
    BY CreatedIs
  <1>2. K \in SUBSET rows
    BY DEF Without
  <1>3. /\ rows \subseteq Row /\ IsFiniteSet(rows)
        /\ \A q, r \in rows : q.id = r.id => q = r
    BY DEF SurfaceInv, StoreTyped
  <1>4. \A r \in rows : r.id \notin Unused
    BY DEF Unused
  <1>5. rows' = K \cup N
    OBVIOUS
  <1> HIDE DEF K, N
  <1>6. IsFiniteSet(rows')
    BY <1>1, <1>2, <1>3, <1>5, FS_Subset, FS_Union
  <1>7. \A q, r \in rows' : q.id = r.id => q = r
    BY <1>1, <1>2, <1>3, <1>4, <1>5
  <1> QED
    BY <1>1, <1>2, <1>3, <1>5, <1>6, <1>7 DEF RowsTyped, RowsKeepIds

(* So does a removal.                                                      *)
LEMMA FewerRows ==
  ASSUME SurfaceInv, rows' \subseteq rows
  PROVE  RowsTyped' /\ RowsKeepIds
PROOF
  <1>1. IsFiniteSet(rows')
    BY FS_Subset DEF SurfaceInv, StoreTyped
  <1> QED
    BY <1>1 DEF SurfaceInv, StoreTyped, RowsTyped, RowsKeepIds

(* And so does wiring, which changes nothing but the edges.                *)
LEMMA WiredRows ==
  ASSUME SurfaceInv, NEW f \in Caller, Wire(f)
  PROVE  /\ RowsTyped' /\ RowsKeepIds
         /\ \A r \in rows' : \E q \in rows : q.surface = r.surface /\ q.text = r.text /\ q.id = r.id
         /\ \A q \in rows : \E r \in rows' : q.surface = r.surface /\ q.text = r.text /\ q.id = r.id
PROOF
  <1>1. /\ rows \subseteq Row /\ IsFiniteSet(rows)
        /\ \A q, r \in rows : q.id = r.id => q = r
    BY DEF SurfaceInv, StoreTyped
  <1>2. PICK e \in Edges : e = task[f].at
    BY DEF Wire
  <1> DEFINE g(r) == IF r.id \in task[f].ids /\ Stating # {}
                     THEN [r EXCEPT !.about = @ \cup {e}] ELSE r
  <1>3. rows' = {g(r) : r \in rows}
    BY <1>2 DEF Wire
  <1>4. \A r \in rows : /\ g(r) \in Row /\ g(r).id = r.id /\ g(r).surface = r.surface
                        /\ g(r).text = r.text
    <2> SUFFICES ASSUME NEW r \in Row
                 PROVE  /\ g(r) \in Row /\ g(r).id = r.id /\ g(r).surface = r.surface
                        /\ g(r).text = r.text
      BY <1>1
    <2>1. r.about \cup {e} \in SUBSET Edges
      BY DEF Row
    <2> QED
      BY <2>1 DEF Row
  <1> HIDE DEF g
  <1>5. IsFiniteSet(rows')
    <2>1. PICK h : h = [r \in rows |-> g(r)]
      OBVIOUS
    <2>2. PICK T : T = rows'
      OBVIOUS
    <2>3. h \in Surjection(rows, T)
      BY <1>3, <2>1, <2>2 DEF Surjection
    <2> QED
      BY <1>1, <2>2, <2>3, FS_Surjection
  <1>6. \A r \in rows' : r \in Row /\ \E q \in rows : /\ r = g(q) /\ q.id = r.id /\ q.text = r.text
                                                      /\ q.surface = r.surface
    BY <1>3, <1>4
  <1>7. \A q \in rows : \E r \in rows' : q.surface = r.surface /\ q.text = r.text /\ q.id = r.id
    BY <1>3, <1>4
  <1>8. \A q, r \in rows' : q.id = r.id => q = r
    BY <1>1, <1>6
  <1> QED
    BY <1>5, <1>6, <1>7, <1>8 DEF RowsTyped, RowsKeepIds

(* A step of one call, once its own part of the invariant is shown.        *)
LEMMA CallStep ==
  ASSUME SurfaceInv, NEW f \in Caller, NEW u \in Call, Moves(f, u), StoreTyped', RowsKeepIds,
         InPlace(u), \A r \in rows' : r.id \in Remembered(u) => r.surface = u.surface
  PROVE  SurfaceInv'
PROOF
  <1>1. task' = [task EXCEPT ![f] = u] /\ task \in [Caller -> Call]
    BY DEF Moves, SurfaceInv
  <1>2. task' \in [Caller -> Call] /\ task'[f] = u
    BY <1>1
  <1>3. \A g \in Caller \ {f} : task'[g] = task[g]
    BY <1>1
  <1>4. ASSUME NEW g \in Caller PROVE (InPlace(task[g]) /\ Owns(task[g]))'
    <2>1. CASE g = f
      BY <1>2, <2>1 DEF InPlace, Owns, RowList, TextList, Remembered
    <2>2. CASE g # f
      <3>1. InPlace(task[g])'
        BY <1>3, <2>2 DEF SurfaceInv, InPlace, RowList, TextList
      <3>2. ASSUME NEW r \in rows', r.id \in Remembered(task[g]) PROVE r.surface = task[g].surface
        <4>1. r.id \notin Unused
          BY <3>2 DEF Unused
        <4>2. PICK q \in rows : q.id = r.id /\ q.surface = r.surface
          BY <4>1 DEF RowsKeepIds
        <4> QED
          BY <3>2, <4>2 DEF SurfaceInv, Owns
      <3>3. \A r \in rows' : r.id \in Remembered(task'[g]) => r.surface = task'[g].surface
        BY <1>3, <2>2, <3>2
      <3> QED
        BY <3>1, <3>3 DEF Owns, Remembered
    <2> QED
      BY <2>1, <2>2
  <1> QED
    BY <1>2, <1>4 DEF SurfaceInv

(* A call that remembers no ids owns what it should.                       *)
LEMMA NothingRemembered ==
  ASSUME NEW u, u.existing = <<>>, u.ids = {} PROVE Remembered(u) = {}
PROOF
  <1> QED
    BY EmptyLists DEF Remembered
-----------------------------------------------------------------------------
(* Each action keeps the invariant.                                        *)

(* A step that leaves the rows alone and forgets what the call had read.   *)
LEMMA QuietStep ==
  ASSUME SurfaceInv, NEW f \in Caller, NEW u \in Call, Moves(f, u), StoreTyped', RowsKeepIds,
         Cleared(u), u.at \in {"idle", "close", "existing", "stamp", "ended", "returned"}
  PROVE  SurfaceInv'
PROOF
  <1>1. Remembered(u) = {}
    BY NothingRemembered DEF Cleared
  <1>2. InPlace(u)
    BY EmptyLists DEF InPlace, Cleared, Edges
  <1> QED
    BY <1>1, <1>2, CallStep

(* A step that writes nothing.                                             *)
LEMMA SameStore ==
  ASSUME SurfaceInv, UNCHANGED <<present, past, rows, ended, calls>>
  PROVE  StoreTyped' /\ RowsKeepIds
PROOF
  <1> QED
    BY DEF SurfaceInv, StoreTyped, RowsKeepIds

(* A read of the surface, in either place, brings rows of that surface.    *)
LEMMA ReadKeeps ==
  ASSUME SurfaceInv, NEW f \in Caller, ReadExisting(f) \/ BeginTx(f)
  PROVE  SurfaceInv'
PROOF
  <1> DEFINE t == task[f]
  <1>1. t \in Call /\ t.surface \in Surfaces /\ InPlace(t) /\ Owns(t)
    BY DEF SurfaceInv, Call
  <1>2. UNCHANGED <<present, past, rows, ended, calls>>
    BY DEF ReadExisting, BeginTx
  <1>3. StoreTyped' /\ RowsKeepIds
    BY <1>2, SameStore
  <1>5. PICK u \in Call, s \in Readings(t.surface) :
          /\ Moves(f, u) /\ Same(u, t) /\ u.existing = s
          /\ u.fresh = t.fresh /\ u.ids = t.ids /\ u.surface = t.surface
          /\ \/ u.at = "rows" /\ t.at = "existing"
             \/ u.at = "commit" /\ t.at = "begin"
    BY ReadMoves
  <1>6. RowList(s, t.surface) /\ {s[k] : k \in DOMAIN s} = Of(t.surface)
    BY <1>1, ReadingMoves DEF SurfaceInv
  <1>7. t.ids = {}
    BY <1>1, <1>5 DEF InPlace, Edges
  <1>8. InPlace(u)
    BY <1>1, <1>5, <1>6, <1>7 DEF InPlace, Edges
  <1>9. \A r \in rows' : r.id \in Remembered(u) => r.surface = u.surface
    <2> SUFFICES ASSUME NEW r \in rows, r.id \in Remembered(u) PROVE r.surface = u.surface
      BY <1>2
    <2>1. PICK k \in DOMAIN s : s[k].id = r.id
      BY <1>5, <1>7 DEF Remembered
    <2>2. s[k] \in Of(t.surface)
      BY <1>6
    <2>3. s[k] = r
      BY <2>1, <2>2 DEF Of, SurfaceInv, StoreTyped
    <2> QED
      BY <1>5, <2>2, <2>3 DEF Of
  <1> QED
    BY <1>3, <1>5, <1>8, <1>9, CallStep

(* The content is read into a plan, or into a transaction to come.         *)
LEMMA ReadRowsKeeps ==
  ASSUME SurfaceInv, NEW f \in Caller, ReadRows(f)
  PROVE  SurfaceInv'
PROOF
  <1>1. task[f] \in Call /\ task[f].surface \in Surfaces /\ InPlace(task[f]) /\ Owns(task[f])
    BY DEF SurfaceInv, Call
  <1>2. UNCHANGED <<present, past, rows, ended, calls>> /\ task[f].at = "rows"
    BY DEF ReadRows
  <1>3. StoreTyped' /\ RowsKeepIds
    BY <1>2, SameStore
  <1>4. PICK c : c = Content(task[f].surface)
    OBVIOUS
  <1>5. TextList(c)
    BY <1>1, <1>4, ContentIsTextList DEF SurfaceInv
  <1>6. PICK u \in Call :
           /\ Moves(f, u) /\ Same(u, task[f]) /\ u.ids = task[f].ids
           /\ \/ Cleared(u) /\ u.at \in {"existing", "stamp"}
              \/ /\ u.at = "drop" /\ u.surface = task[f].surface
                 /\ u.existing = task[f].existing /\ u.fresh = task[f].fresh
              \/ /\ c # <<>> /\ task[f].surface = "session"
                 /\ u.at = "begin" /\ u.surface = "session"
                 /\ u.existing = <<>> /\ u.fresh = c
              \/ /\ c # <<>> /\ task[f].surface = "observation"
                 /\ u.at = "plan" /\ u.surface = "observation"
                 /\ u.existing = task[f].existing /\ u.fresh = c
    <2> HIDE DEF Same
    <2> QED
      BY <1>4, ReadRowsMoves
  <1>7. u.ids = {}
    BY <1>1, <1>2, <1>6 DEF InPlace, Edges
  <1>8. CASE Cleared(u) /\ u.at \in {"existing", "stamp"}
    BY <1>3, <1>6, <1>8, QuietStep
  <1>9. CASE u.existing = <<>> /\ u.fresh = c /\ c # <<>> /\ u.at = "begin" /\ u.surface = "session"
    <2>1. Remembered(u) = {}
      BY <1>7, <1>9, NothingRemembered
    <2>2. InPlace(u)
      BY <1>5, <1>7, <1>9, EmptyLists DEF InPlace, Edges
    <2> QED
      BY <1>3, <1>6, <2>1, <2>2, CallStep
  <1>10. CASE /\ u.surface = task[f].surface /\ u.existing = task[f].existing
              /\ \/ u.at = "drop" /\ u.fresh = task[f].fresh
                 \/ u.at = "plan" /\ u.fresh = c /\ c # <<>> /\ u.surface = "observation"
    <2>1. InPlace(u)
      BY <1>1, <1>5, <1>7, <1>10 DEF InPlace, Edges
    <2>2. Remembered(u) = Remembered(task[f])
      BY <1>6, <1>10 DEF Remembered
    <2>3. \A r \in rows' : r.id \in Remembered(u) => r.surface = u.surface
      BY <1>1, <1>2, <1>10, <2>2 DEF Owns
    <2> QED
      BY <1>3, <1>6, <2>1, <2>3, CallStep
  <1> QED
    BY <1>6, <1>8, <1>9, <1>10

(* The writes that end a surface.                                          *)
LEMMA WritesKeep ==
  ASSUME SurfaceInv, NEW f \in Caller, Drop(f) \/ Replace(f)
  PROVE  SurfaceInv'
PROOF
  <1>1. task[f] \in Call /\ InPlace(task[f])
    BY DEF SurfaceInv
  <1>2. /\ UNCHANGED <<present, past, ended, calls>>
        /\ task' = [task EXCEPT ![f] = NextSurface(task[f])]
    BY DEF Drop, Replace
  <1>3. PICK u \in Call : Moves(f, u) /\ Cleared(u) /\ u.at \in {"existing", "stamp"}
    BY <1>2, NextMoves
  <1>4. RowsTyped' /\ RowsKeepIds
    <2>1. CASE rows' \subseteq rows
      BY <2>1, FewerRows
    <2>2. CASE Replace(f) /\ ~(rows' \subseteq rows)
      <3> DEFINE existing == task[f].existing
                 fresh == task[f].fresh
      <3>1. /\ Room(existing, fresh)
            /\ rows' = Without(Doomed(existing, fresh)) \cup Created("session", existing, fresh)
        BY <2>2 DEF Replace
      <3>2. RowList(existing, "session") /\ TextList(fresh)
        BY <1>1, <2>2 DEF Replace, InPlace
      <3> HIDE DEF existing, fresh
      <3> QED
        BY <3>1, <3>2, ReplacedRows DEF Surfaces
    <2>3. Drop(f) => rows' \subseteq rows
      BY DEF Drop, Without
    <2> QED
      BY <2>1, <2>2, <2>3
  <1>5. StoreTyped'
    BY <1>2, <1>4 DEF RowsTyped, StoreTyped, SurfaceInv
  <1> QED
    BY <1>3, <1>4, <1>5, QuietStep

(* The plan is applied: the call keeps the ids of the whole surface.       *)
LEMMA ApplyKeeps ==
  ASSUME SurfaceInv, NEW f \in Caller, Apply(f)
  PROVE  /\ SurfaceInv'
         /\ \E u \in Call : /\ Moves(f, u) /\ Same(u, task[f]) /\ u.at = "entity"
                            /\ u.surface = "observation"
         /\ RowList(task[f].existing, "observation") /\ TextList(task[f].fresh)
         /\ Room(task[f].existing, task[f].fresh)
PROOF
  <1> DEFINE N == Created("observation", task[f].existing, task[f].fresh)
             Kept == KeptIds(task[f].existing, task[f].fresh)
             K == Without(Doomed(task[f].existing, task[f].fresh))
  <1>1. task[f] \in Call /\ InPlace(task[f]) /\ Owns(task[f]) /\ task[f].at = "plan"
    BY DEF SurfaceInv, Apply
  <1>2. /\ RowList(task[f].existing, "observation") /\ TextList(task[f].fresh)
        /\ task[f].surface = "observation"
    BY <1>1 DEF InPlace
  <1>3. /\ Room(task[f].existing, task[f].fresh) /\ rows' = K \cup N
        /\ UNCHANGED <<present, past, ended, calls>>
    BY DEF Apply
  <1>4. \A r \in N : r \in Row /\ r.id \in Unused /\ r.surface = "observation"
    BY <1>2, <1>3, CreatedIs DEF Surfaces
  <1>5. RowsTyped' /\ RowsKeepIds
    BY <1>2, <1>3, ReplacedRows DEF Surfaces
  <1>6. StoreTyped'
    BY <1>3, <1>5 DEF RowsTyped, StoreTyped, SurfaceInv
  <1>7. Kept \subseteq Remembered(task[f]) /\ Kept \subseteq 1..MaxRows
    <2>1. Common(task[f].existing, task[f].fresh) \in 0..Len(task[f].existing)
      BY <1>2, CommonIs DEF RowList
    <2>2. \A k \in 1..Common(task[f].existing, task[f].fresh) : k \in DOMAIN task[f].existing
      BY <1>2, <2>1 DEF RowList
    <2>3. \A k \in DOMAIN task[f].existing : task[f].existing[k].id \in 1..MaxRows
      BY <1>2 DEF RowList, Row
    <2> QED
      BY <2>2, <2>3 DEF KeptIds, Remembered
  <1>8. K \subseteq rows
    BY DEF Without
  <1> HIDE DEF N, Kept, K
  <1>9. PICK ids : ids = Kept \cup {r.id : r \in N}
    OBVIOUS
  <1>10. ids \in SUBSET (1..MaxRows)
    BY <1>4, <1>7, <1>9 DEF Row
  <1>11. PICK u \in Call :
           /\ Moves(f, u) /\ Same(u, task[f]) /\ u.at = "entity" /\ u.existing = <<>>
           /\ u.fresh = <<>> /\ u.ids = ids /\ u.surface = "observation"
    <2>1. PICK t \in Call : t = task[f]
      BY <1>1
    <2>2. <<>> \in Seq(Row) /\ <<>> \in Seq(Texts) /\ "entity" \in Places
      BY EmptyLists DEF Places, Edges
    <2>3. PICK u : u = [t EXCEPT !.at = "entity", !.existing = <<>>, !.fresh = <<>>, !.ids = ids]
      OBVIOUS
    <2>4. u \in Call /\ u.at = "entity" /\ u.existing = <<>> /\ u.fresh = <<>> /\ u.ids = ids
          /\ u.surface = t.surface /\ Same(u, t)
      BY <1>10, <2>2, <2>3 DEF Call, Same
    <2>5. task' = [task EXCEPT ![f].at = "entity", ![f].existing = <<>>, ![f].fresh = <<>>,
                               ![f].ids = ids]
      BY <1>9 DEF Apply, N, Kept
    <2>6. task' = [task EXCEPT ![f] = u]
      <3>1. task \in [Caller -> Call]
        BY DEF SurfaceInv
      <3> QED
        BY <2>1, <2>3, <2>5, <3>1
    <2> QED
      BY <1>2, <2>1, <2>4, <2>6 DEF Moves
  <1>12. InPlace(u)
    BY <1>11, EmptyLists DEF InPlace, Edges
  <1>13. Remembered(u) = ids
    BY <1>11, EmptyLists DEF Remembered
  <1>14. ASSUME NEW r \in rows', r.id \in ids PROVE r.surface = "observation"
    <2>1. CASE r \in N
      BY <1>4, <2>1
    <2>2. CASE r \in K
      <3>1. r \in rows /\ r.id \notin Unused
        BY <1>8, <2>2 DEF Unused
      <3>2. r.id \in Kept
        BY <1>4, <1>9, <1>14, <3>1
      <3> QED
        BY <1>1, <1>2, <1>7, <3>1, <3>2 DEF Owns
    <2> QED
      BY <1>3, <2>1, <2>2
  <1>15. SurfaceInv'
    BY <1>5, <1>6, <1>11, <1>12, <1>13, <1>14, CallStep
  <1> QED
    BY <1>2, <1>3, <1>11, <1>15

(* Wiring keeps every id where it was.                                     *)
LEMMA WireKeeps ==
  ASSUME SurfaceInv, NEW f \in Caller, Wire(f)
  PROVE  SurfaceInv'
PROOF
  <1>1. task[f] \in Call /\ InPlace(task[f]) /\ Owns(task[f]) /\ task[f].at \in Edges
        /\ task[f].surface = "observation"
    BY DEF SurfaceInv, Wire, InPlace
  <1>2. RowsTyped' /\ RowsKeepIds
    BY WiredRows
  <1>3. \A r \in rows' : \E q \in rows : q.surface = r.surface /\ q.id = r.id
    BY WiredRows
  <1>4. StoreTyped'
    BY <1>2 DEF RowsTyped, StoreTyped, SurfaceInv, Wire
  <1>5. PICK u \in Call :
           /\ Moves(f, u) /\ u.surface = "observation"
           /\ \/ /\ u.at = "participant" /\ u.ids = task[f].ids
                 /\ u.existing = task[f].existing /\ u.fresh = task[f].fresh
              \/ u.at = "stamp" /\ Cleared(u)
    BY WireMoves
  <1>6. CASE u.at = "stamp" /\ Cleared(u)
    BY <1>2, <1>4, <1>5, <1>6, QuietStep
  <1>7. CASE /\ u.at = "participant" /\ u.ids = task[f].ids
             /\ u.existing = task[f].existing /\ u.fresh = task[f].fresh
    <2>1. InPlace(u)
      BY <1>1, <1>5, <1>7 DEF InPlace, Edges
    <2>2. Remembered(u) = Remembered(task[f])
      BY <1>7 DEF Remembered
    <2>3. \A r \in rows' : r.id \in Remembered(u) => r.surface = u.surface
      BY <1>1, <1>3, <1>5, <2>2 DEF Owns
    <2> QED
      BY <1>2, <1>4, <1>5, <2>1, <2>3, CallStep
  <1> QED
    BY <1>5, <1>6, <1>7

(* A conflict forgets the rows that were read.                             *)
LEMMA ConflictKeeps ==
  ASSUME SurfaceInv, NEW f \in Caller, Conflict(f)
  PROVE  SurfaceInv'
PROOF
  <1>1. task[f] \in Call /\ InPlace(task[f]) /\ task[f].at = "commit"
    BY DEF SurfaceInv, Conflict
  <1>2. StoreTyped' /\ RowsKeepIds
    BY SameStore DEF Conflict
  <1>3. PICK u \in Call :
           /\ Moves(f, u) /\ u.at = "begin" /\ u.existing = <<>>
           /\ u.fresh = task[f].fresh /\ u.ids = task[f].ids /\ u.surface = task[f].surface
    BY ConflictMoves
  <1>4. InPlace(u) /\ u.ids = {}
    BY <1>1, <1>3, EmptyLists DEF InPlace, Edges
  <1>5. Remembered(u) = {}
    BY <1>3, <1>4, NothingRemembered
  <1> QED
    BY <1>2, <1>3, <1>4, <1>5, CallStep

(* A call holds nothing that it has read from stamp on.                    *)
LEMMA EndKeeps ==
  ASSUME SurfaceInv, NEW f \in Caller,
         ReadLast(f) \/ Stamp(f) \/ Close(f) \/ Fails(f) \/ Return(f)
  PROVE  SurfaceInv'
PROOF
  <1>1. task \in [Caller -> Call] /\ task[f] \in Call /\ InPlace(task[f]) /\ Owns(task[f])
    BY DEF SurfaceInv
  <1>2. CASE task' = [task EXCEPT ![f] = Idle] /\ UNCHANGED <<present, past, rows, ended, calls>>
    BY <1>2, IdleIs, IdleMoves, SameStore, QuietStep
  <1>3. ASSUME NEW u \in Call, Moves(f, u), u.existing = task[f].existing,
               u.fresh = task[f].fresh, u.ids = task[f].ids, u.surface = task[f].surface,
               u.at \in {"ended", "returned"}, task[f].at \in {"stamp", "ended", "close"},
               UNCHANGED <<present, past, rows, calls>>, ended' \in Turns \cup {None}
        PROVE  SurfaceInv'
    <2>1. InPlace(u)
      BY <1>1, <1>3 DEF InPlace, Edges
    <2>2. Remembered(u) = Remembered(task[f])
      BY <1>3 DEF Remembered
    <2>3. \A r \in rows' : r.id \in Remembered(u) => r.surface = u.surface
      BY <1>1, <1>3, <2>2 DEF Owns
    <2>4. StoreTyped' /\ RowsKeepIds
      BY <1>3 DEF SurfaceInv, StoreTyped, RowsKeepIds
    <2> QED
      BY <1>3, <2>1, <2>3, <2>4, CallStep
  <1>4. CASE ReadLast(f) \/ Stamp(f)
    <2>1. UNCHANGED <<present, past, rows, calls>> /\ task[f].at \in {"stamp", "ended"}
      BY <1>4 DEF ReadLast, Stamp
    <2>2. ended' \in Turns \cup {None}
      BY <1>1, <1>4 DEF ReadLast, Stamp, SurfaceInv, StoreTyped, Call
    <2>3. PICK u \in Call :
           /\ Moves(f, u) /\ u.existing = task[f].existing
           /\ u.fresh = task[f].fresh /\ u.ids = task[f].ids /\ u.surface = task[f].surface
           /\ u.at \in {"ended", "returned"}
      BY <1>4, StampMoves
    <2> QED
      BY <1>3, <2>1, <2>2, <2>3
  <1>5. CASE Close(f)
    <2>1. UNCHANGED <<present, past, rows, ended, calls>> /\ task[f].at = "close"
      BY <1>5 DEF Close
    <2>2. CASE task' # [task EXCEPT ![f] = Idle]
      <3>1. PICK u \in Call :
              /\ Moves(f, u) /\ u.existing = task[f].existing
              /\ u.fresh = task[f].fresh /\ u.ids = task[f].ids /\ u.surface = task[f].surface
              /\ u.at = "ended"
        BY <1>5, <2>2, CloseMoves
      <3>2. ended' \in Turns \cup {None}
        BY <2>1 DEF SurfaceInv, StoreTyped
      <3> QED
        BY <1>3, <2>1, <3>1, <3>2
    <2> QED
      BY <1>2, <2>1, <2>2
  <1>6. CASE Fails(f) \/ Return(f)
    BY <1>2, <1>6 DEF Fails, Return
  <1> QED
    BY <1>4, <1>5, <1>6

(* When the session changes, or another call begins, no call is alone.     *)
LEMMA DisturbedIs ==
  ASSUME SurfaceInv, NEW g \in Caller
  PROVE  /\ Disturbed \in [Caller -> Call]
         /\ Disturbed[g].at = task[g].at /\ Disturbed[g].op = task[g].op
         /\ Disturbed[g].surface = task[g].surface
         /\ Disturbed[g].existing = task[g].existing /\ Disturbed[g].fresh = task[g].fresh
         /\ Disturbed[g].ids = task[g].ids /\ Disturbed[g].last = task[g].last
         /\ Disturbed[g].alone = FALSE
PROOF
  <1>1. \A h \in Caller : task[h] \in Call
    BY DEF SurfaceInv
  <1>2. \A h \in Caller : [task[h] EXCEPT !.alone = FALSE] \in Call
    BY <1>1 DEF Call
  <1>3. Disturbed \in [Caller -> Call] /\ Disturbed[g] = [task[g] EXCEPT !.alone = FALSE]
    BY <1>2 DEF Disturbed
  <1>4. PICK t \in Call : t = task[g]
    BY <1>1
  <1> QED
    BY <1>3, <1>4 DEF Call

(* Turns come and go beside the calls.                                     *)
LEMMA TurnsKeep ==
  ASSUME SurfaceInv, NEW t \in Turns, Observe(t) \/ Delete(t)
  PROVE  SurfaceInv'
PROOF
  <1>1. task' = Disturbed /\ UNCHANGED <<rows, ended, calls>>
    BY DEF Observe, Delete
  <1>2. StoreTyped'
    BY <1>1 DEF Observe, Delete, SurfaceInv, StoreTyped
  <1>3. task' \in [Caller -> Call]
    BY <1>1, DisturbedIs, Zenon DEF Disturbed
  <1>4. ASSUME NEW g \in Caller PROVE (InPlace(task[g]) /\ Owns(task[g]))'
    <2>1. /\ task'[g].at = task[g].at /\ task'[g].surface = task[g].surface
          /\ task'[g].existing = task[g].existing /\ task'[g].fresh = task[g].fresh
          /\ task'[g].ids = task[g].ids
      BY <1>1, DisturbedIs
    <2>2. InPlace(task[g]) /\ Owns(task[g])
      BY DEF SurfaceInv
    <2>3. InPlace(task[g])'
      BY <2>1, <2>2 DEF InPlace, RowList, TextList
    <2>4. Owns(task[g])'
      BY <1>1, <2>1, <2>2 DEF Owns, Remembered
    <2> QED
      BY <2>3, <2>4
  <1> QED
    BY <1>2, <1>3, <1>4 DEF SurfaceInv

(* The call that begins, and what becomes of the others.                   *)
LEMMA BeginIs ==
  ASSUME SurfaceInv, NEW f \in Caller, NEW op \in {"finalize", "sweep"}, Begin(f, op)
  PROVE  /\ task' \in [Caller -> Call]
         /\ \A g \in Caller \ {f} : task'[g] = Disturbed[g]
         /\ Cleared(task'[f]) /\ task'[f].surface = "session" /\ task'[f].op = op
         /\ task'[f].at = IF op = "sweep" THEN "close" ELSE "existing"
         /\ task'[f].alone = (\A g \in Caller \ {f} : task[g].at = "idle")
PROOF
  <1>1. PICK b \in BOOLEAN : b = (\A g \in Caller \ {f} : task[g].at = "idle")
    OBVIOUS
  <1>2. PICK place \in {"close", "existing"} : place = IF op = "sweep" THEN "close" ELSE "existing"
    OBVIOUS
  <1>3. PICK u : u = [Idle EXCEPT !.op = op, !.at = place, !.alone = b]
    OBVIOUS
  <1>4. PICK i \in Call : i = Idle /\ Cleared(i) /\ i.surface = "session"
    BY IdleIs
  <1>5. /\ u \in Call /\ Cleared(u)
        /\ u.surface = "session" /\ u.op = op /\ u.at = place /\ u.alone = b
    BY <1>3, <1>4 DEF Call, Cleared, Places
  <1>6. task' = [Disturbed EXCEPT ![f] = u]
    BY <1>1, <1>2, <1>3 DEF Begin
  <1>7. Disturbed \in [Caller -> Call]
    BY DisturbedIs
  <1>8. /\ task' \in [Caller -> Call] /\ task'[f] = u
        /\ \A g \in Caller \ {f} : task'[g] = Disturbed[g]
    BY <1>5, <1>6, <1>7
  <1> QED
    BY <1>1, <1>2, <1>5, <1>8

(* A call begins with nothing read.                                        *)
LEMMA BeginKeeps ==
  ASSUME SurfaceInv, NEW f \in Caller, NEW op \in {"finalize", "sweep"}, Begin(f, op)
  PROVE  SurfaceInv'
PROOF
  <1>1. UNCHANGED <<present, past, rows, ended>> /\ calls' = calls + 1 /\ calls < MaxCalls
    BY DEF Begin
  <1>2. StoreTyped'
    BY <1>1, SessionSurfaceAssumption DEF SurfaceInv, StoreTyped
  <1>3. task' \in [Caller -> Call]
    BY BeginIs
  <1>4. ASSUME NEW g \in Caller PROVE (InPlace(task[g]) /\ Owns(task[g]))'
    <2>1. CASE g = f
      <3>1. Cleared(task'[f]) /\ task'[f].at \in {"close", "existing"}
        BY BeginIs
      <3>2. Remembered(task'[f]) = {}
        BY <3>1, EmptyLists DEF Cleared, Remembered
      <3>3. InPlace(task'[f])
        BY <3>1, EmptyLists DEF InPlace, Cleared, Edges
      <3>4. InPlace(task[g])'
        BY <2>1, <3>3 DEF InPlace, RowList, TextList
      <3>5. Owns(task[g])'
        BY <2>1, <3>2 DEF Owns, Remembered
      <3> QED
        BY <3>4, <3>5
    <2>2. CASE g # f
      <3>1. /\ task'[g].at = task[g].at /\ task'[g].surface = task[g].surface
            /\ task'[g].existing = task[g].existing /\ task'[g].fresh = task[g].fresh
            /\ task'[g].ids = task[g].ids
        <4>1. task'[g] = Disturbed[g]
          BY <2>2, BeginIs
        <4> QED
          BY <4>1, DisturbedIs
      <3>2. InPlace(task[g]) /\ Owns(task[g])
        BY DEF SurfaceInv
      <3>3. InPlace(task[g])'
        BY <3>1, <3>2 DEF InPlace, RowList, TextList
      <3>4. Owns(task[g])'
        BY <1>1, <3>1, <3>2 DEF Owns, Remembered
      <3> QED
        BY <3>3, <3>4
    <2> QED
      BY <2>1, <2>2
  <1> QED
    BY <1>2, <1>3, <1>4 DEF SurfaceInv

(* At first there is nothing to read.                                      *)
LEMMA SurfaceInvInit == SurfaceInit => SurfaceInv
PROOF
  <1> SUFFICES ASSUME SurfaceInit PROVE SurfaceInv
    OBVIOUS
  <1>1. StoreTyped
    BY FS_EmptySet, SessionSurfaceAssumption DEF SurfaceInit, StoreTyped
  <1>2. task \in [Caller -> Call] /\ \A f \in Caller : task[f] = Idle
    BY IdleIs DEF SurfaceInit
  <1>3. Remembered(Idle) = {} /\ InPlace(Idle)
    <2>1. Remembered(Idle) = {}
      BY IdleIs, NothingRemembered DEF Cleared
    <2>2. InPlace(Idle)
      BY IdleIs, EmptyLists DEF InPlace, Cleared, Edges
    <2> QED
      BY <2>1, <2>2
  <1>4. \A f \in Caller : InPlace(task[f]) /\ Owns(task[f])
    BY <1>2, <1>3 DEF Owns
  <1> QED
    BY <1>1, <1>2, <1>4 DEF SurfaceInv

(* Every step keeps what the calls rely on.                                *)
LEMMA SurfaceInvStep ==
  ASSUME SurfaceInv, [SurfaceNext]_surfaceVars PROVE SurfaceInv'
PROOF
  <1>1. ASSUME NEW f \in Caller, Step(f) PROVE SurfaceInv'
    <2>1. CASE ReadExisting(f) \/ BeginTx(f)
      BY <2>1, ReadKeeps
    <2>2. CASE ReadRows(f)
      BY <2>2, ReadRowsKeeps
    <2>3. CASE Drop(f) \/ Replace(f)
      BY <2>3, WritesKeep
    <2>4. CASE Conflict(f)
      BY <2>4, ConflictKeeps
    <2>5. CASE Apply(f)
      BY <2>5, ApplyKeeps
    <2>6. CASE Wire(f)
      BY <2>6, WireKeeps
    <2>7. CASE ReadLast(f) \/ Stamp(f) \/ Close(f) \/ Fails(f) \/ Return(f)
      BY <2>7, EndKeeps
    <2> QED
      BY <1>1, <2>1, <2>2, <2>3, <2>4, <2>5, <2>6, <2>7 DEF Step
  <1>2. CASE UNCHANGED surfaceVars
    BY <1>2 DEF surfaceVars, SurfaceInv, StoreTyped, InPlace, RowList, TextList, Owns, Remembered
  <1> QED
    BY <1>1, <1>2, TurnsKeep, BeginKeeps DEF SurfaceNext

(* The types of the surfaces and of every call in progress, with what a    *)
(* call relies on: lists without repetition, and ids of its own surface.   *)
THEOREM SurfaceInvariance == SurfaceSpec => []SurfaceInv
PROOF
  <1> QED
    BY SurfaceInvInit, SurfaceInvStep, PTL DEF SurfaceSpec

(* Every variable of the surfaces keeps its type, and a chunk id is that   *)
(* of one chunk, whatever calls overlap, fail or conflict (apply_plan,     *)
(* session_chunk.rs:68).                                                   *)
THEOREM SurfaceTypeCorrect == SurfaceSpec => []SurfaceTypeOK
PROOF
  <1>1. SurfaceInv => SurfaceTypeOK
    <2> SUFFICES ASSUME SurfaceInv PROVE SurfaceTypeOK
      OBVIOUS
    <2>1. \A f \in Caller : task[f] \in Call
      BY DEF SurfaceInv
    <2>2. \A f \in Caller :
       /\ task[f].at \in {"idle", "close", "existing", "rows", "drop", "begin", "commit", "plan",
                          "stamp", "ended", "returned"} \cup Edges
       /\ task[f].op \in {"none", "finalize", "sweep"}
       /\ task[f].surface \in Surfaces /\ task[f].ids \subseteq 1..MaxRows
       /\ task[f].last \in Turns \cup {None}
       /\ task[f].alone \in BOOLEAN
      BY <2>1 DEF Call, Places
    <2>3. StoreTyped
      BY DEF SurfaceInv
    <2> QED
      BY <2>2, <2>3 DEF SurfaceTypeOK, StoreTyped
  <1> QED
    BY <1>1, SurfaceInvariance, PTL

(* One row of the transcript stays, or is made, in every replacement.      *)
LEMMA SessionRowsStay ==
  ASSUME SurfaceInv, [SurfaceNext]_surfaceVars, Of("session") # {}, Of("session")' = {}
  PROVE  \E f \in Caller : task[f].at = "drop"
PROOF
  <1>1. PICK r \in rows : r.surface = "session"
    BY DEF Of
  <1>2. \A q \in rows' : q.surface # "session"
    BY DEF Of
  <1>3. rows' # rows
    BY <1>1, <1>2
  <1>4. PICK f \in Caller : Drop(f) \/ Replace(f) \/ Apply(f) \/ Wire(f)
    BY <1>3 DEF SurfaceNext, surfaceVars, Step, Observe, Delete, Begin, ReadExisting, ReadRows,
                BeginTx, Conflict, ReadLast, Stamp, Close, Fails, Return
  <1>5. ~Wire(f)
    BY <1>1, <1>2, WiredRows
  <1>6. ~Apply(f)
    <2> SUFFICES ASSUME Apply(f) PROVE FALSE
      OBVIOUS
    <2>1. /\ RowList(task[f].existing, "observation") /\ task[f].surface = "observation"
          /\ Owns(task[f])
      BY ApplyKeeps DEF SurfaceInv, InPlace, Apply
    <2>2. r.id \notin Remembered(task[f])
      BY <1>1, <2>1 DEF Owns
    <2>3. Doomed(task[f].existing, task[f].fresh) \subseteq Remembered(task[f])
      <3>1. Common(task[f].existing, task[f].fresh) \in 0..Len(task[f].existing)
        BY <2>1, CommonIs DEF RowList
      <3>2. \A k \in (Common(task[f].existing, task[f].fresh) + 1)..Len(task[f].existing) :
              k \in DOMAIN task[f].existing
        BY <2>1, <3>1 DEF RowList
      <3> QED
        BY <3>2 DEF Doomed, Remembered
    <2>4. r \in rows'
      BY <2>2, <2>3 DEF Apply, Without
    <2> QED
      BY <1>1, <1>2, <2>4
  <1>7. ~Replace(f)
    <2> SUFFICES ASSUME Replace(f) PROVE FALSE
      OBVIOUS
    <2> DEFINE existing == task[f].existing
               fresh == task[f].fresh
               c == Common(existing, fresh)
    <2>1. RowList(existing, "session") /\ TextList(fresh) /\ fresh # <<>>
      BY DEF Replace, SurfaceInv, InPlace
    <2>2. /\ Unchanged(existing) /\ Room(existing, fresh)
          /\ rows' = Without(Doomed(existing, fresh)) \cup Created("session", existing, fresh)
      BY <1>3 DEF Replace
    <2>3. Len(fresh) \in Nat /\ Len(fresh) # 0
      <3>1. fresh \in Seq(Texts)
        BY <2>1 DEF TextList
      <3> QED
        BY <2>1, <3>1, EmptySeq
    <2> HIDE DEF existing, fresh
    <2>4. Len(existing) \in Nat /\ DOMAIN existing = 1..Len(existing)
      BY <2>1 DEF RowList
    <2>5. c \in 0..Len(existing)
      BY <2>4, CommonIs
    <2>6. c = 0
      <3> SUFFICES ASSUME c # 0 PROVE FALSE
        OBVIOUS
      <3> HIDE DEF c
      <3>1. 1 \in DOMAIN existing /\ 1 \in 1..c
        BY <2>4, <2>5
      <3>2. existing[1] \in rows /\ existing[1].surface = "session"
        BY <2>1, <2>2, <3>1 DEF RowList, Unchanged
      <3>3. existing[1].id \notin Doomed(existing, fresh)
        <4>1. \A k \in (c + 1)..Len(existing) : k \in DOMAIN existing /\ k # 1
          BY <2>4, <2>5, <3>1
        <4>2. \A k \in (c + 1)..Len(existing) : existing[k].id # existing[1].id
          BY <2>1, <3>1, <4>1 DEF RowList
        <4> QED
          BY <4>2 DEF Doomed, c
      <3>4. existing[1] \in rows'
        BY <2>2, <3>2, <3>3 DEF Without
      <3> QED
        BY <1>2, <3>2, <3>4
    <2>7. PICK N : N = Created("session", existing, fresh)
      OBVIOUS
    <2>8. /\ \A k \in (c + 1)..Len(fresh) : \E q \in N : q.text = fresh[k]
          /\ \A q \in N : q.surface = "session"
      BY <2>1, <2>2, <2>7, CreatedIs DEF Surfaces
    <2>9. 1 \in (c + 1)..Len(fresh)
      BY <2>3, <2>6
    <2>10. PICK q \in N : q.surface = "session"
      BY <2>8, <2>9
    <2> QED
      BY <1>2, <2>2, <2>7, <2>10
  <1> QED
    BY <1>4, <1>5, <1>6, <1>7 DEF Drop

(* The rebuild of a transcript never leaves it without chunks, whatever    *)
(* other calls and failures do: the transaction of chunk_session_with      *)
(* keeps a row that it has read and that is still there, or makes one      *)
(* (session_chunk.rs:67).  Only drop_stale_chunks empties it.              *)
THEOREM TranscriptStays == SurfaceSpec => TranscriptNeverVanishes
PROOF
  <1>1. SurfaceInv /\ [SurfaceNext]_surfaceVars =>
          [Of("session") # {} /\ Of("session")' = {} =>
             \E f \in Caller : task[f].at = "drop"]_surfaceVars
    BY SessionRowsStay
  <1> QED
    BY <1>1, SurfaceInvariance, PTL DEF SurfaceSpec, TranscriptNeverVanishes
-----------------------------------------------------------------------------
(* What a surface shows.                                                   *)

(* The content is a function of the messages, the surface of the rows.     *)
LEMMA SameContent ==
  ASSUME present' = present
  PROVE  /\ \A surface : Content(surface)' = Content(surface)
         /\ LastMessage' = LastMessage
PROOF
  <1>1. Stating' = Stating
    BY DEF Stating
  <1>2. \A surface : Content(surface)' = Content(surface)
    BY <1>1 DEF Content
  <1> QED
    BY <1>2 DEF LastMessage

(* What no message and no row has changed for.                             *)
LEMMA SameShown ==
  ASSUME present' = present, rows' = rows
  PROVE  /\ \A surface : Of(surface)' = Of(surface)
         /\ \A surface : Shows(surface)' = Shows(surface)
PROOF
  <1>1. \A surface : Of(surface)' = Of(surface)
    BY DEF Of
  <1>2. \A surface : Content(surface)' = Content(surface)
    BY SameContent
  <1>3. \A surface : Shows(surface)' = Shows(surface)
    BY <1>1, <1>2 DEF Shows
  <1> QED
    BY <1>1, <1>3

(* A surface whose rows keep their ids and texts shows what it did.        *)
LEMMA ShowsStill ==
  ASSUME present' = present, NEW surface, Shows(surface), RowsTyped',
         \A r \in rows' : r.surface = surface =>
           \E q \in rows : q.surface = surface /\ q.text = r.text /\ q.id = r.id,
         \A q \in rows : q.surface = surface =>
           \E r \in rows' : r.surface = surface /\ q.text = r.text /\ q.id = r.id
  PROVE  Shows(surface)'
PROOF
  <1>1. Content(surface)' = Content(surface)
    BY SameContent
  <1>2. /\ \A r \in Of(surface) : \E k \in DOMAIN Content(surface) : r.text = Content(surface)[k]
        /\ \A k \in DOMAIN Content(surface) : \E r \in Of(surface) : r.text = Content(surface)[k]
        /\ \A q, r \in Of(surface) : q.text = r.text => q = r
    <2>1. \A x : x \in {r.text : r \in Of(surface)} <=>
                 x \in {Content(surface)[k] : k \in DOMAIN Content(surface)}
      BY DEF Shows
    <2>2. \A q, r \in Of(surface) : q.text = r.text => q = r
      BY DEF Shows
    <2>3. ASSUME NEW r \in Of(surface)
          PROVE  \E k \in DOMAIN Content(surface) : r.text = Content(surface)[k]
      <3>1. r.text \in {Content(surface)[k] : k \in DOMAIN Content(surface)}
        BY <2>1
      <3> QED
        BY <3>1
    <2>4. ASSUME NEW k \in DOMAIN Content(surface)
          PROVE  \E r \in Of(surface) : r.text = Content(surface)[k]
      <3>1. Content(surface)[k] \in {r.text : r \in Of(surface)}
        BY <2>1
      <3> QED
        BY <3>1
    <2> QED
      BY <2>2, <2>3, <2>4
  <1>3. PICK c : c = Content(surface)
    OBVIOUS
  <1>4. \A r \in Of(surface)' : \E q \in Of(surface) : q.text = r.text /\ q.id = r.id
    BY DEF Of
  <1>5. \A q \in Of(surface) : \E r \in Of(surface)' : q.text = r.text /\ q.id = r.id
    BY DEF Of
  <1>6. /\ \A r \in Of(surface)' : \E k \in DOMAIN c : r.text = c[k]
        /\ \A k \in DOMAIN c : \E r \in Of(surface)' : r.text = c[k]
    BY <1>2, <1>3, <1>4, <1>5
  <1>7. ASSUME NEW q \in Of(surface)', NEW r \in Of(surface)', q.text = r.text PROVE q = r
    <2>1. q.id = r.id
      BY <1>2, <1>4, <1>7
    <2> QED
      BY <2>1 DEF Of, RowsTyped
  <1>8. Content(surface)' = c
    BY <1>1, <1>3
  <1> QED
    BY <1>6, <1>7, <1>8 DEF Shows

(* What a replacement dooms is among the rows that it read.                *)
LEMMA DoomedIs ==
  ASSUME NEW existing, NEW fresh, NEW surface, RowList(existing, surface)
  PROVE  /\ Doomed(existing, fresh) \subseteq {existing[k].id : k \in DOMAIN existing}
         /\ \A k \in DOMAIN existing :
              existing[k].id \in Doomed(existing, fresh) <=> ~(k <= Common(existing, fresh))
PROOF
  <1> DEFINE c == Common(existing, fresh)
  <1>1. Len(existing) \in Nat /\ DOMAIN existing = 1..Len(existing)
    BY DEF RowList
  <1>2. c \in 0..Len(existing)
    BY <1>1, CommonIs
  <1>3. \A j, k \in DOMAIN existing : existing[j].id = existing[k].id => j = k
    BY DEF RowList
  <1>4. Doomed(existing, fresh) = {existing[k].id : k \in (c + 1)..Len(existing)}
    BY DEF Doomed
  <1> HIDE DEF c
  <1>5. \A k : k \in (c + 1)..Len(existing) <=> k \in DOMAIN existing /\ ~(k <= c)
    BY <1>1, <1>2
  <1>6. \A k \in DOMAIN existing : existing[k].id \in Doomed(existing, fresh) <=> ~(k <= c)
    BY <1>3, <1>4, <1>5
  <1> QED
    BY <1>4, <1>5, <1>6 DEF c

(* A replacement leaves the rows of the other surface alone.               *)
LEMMA OtherSurface ==
  ASSUME SurfaceInv, NEW f \in Caller, NEW other \in Surfaces \ {task[f].surface},
         RowList(task[f].existing, task[f].surface), present' = present, RowsTyped',
         NEW N, \A r \in N : r.surface = task[f].surface,
         rows' = Without(Doomed(task[f].existing, task[f].fresh)) \cup N \/
         rows' = Without(Doomed(task[f].existing, <<>>)) \cup N,
         Shows(other)
  PROVE  Shows(other)'
PROOF
  <1>1. Owns(task[f])
    BY DEF SurfaceInv
  <1>2. \A r \in rows : r.surface = other => r.id \notin Remembered(task[f])
    BY <1>1 DEF Owns
  <1>3. /\ Doomed(task[f].existing, task[f].fresh) \subseteq Remembered(task[f])
        /\ Doomed(task[f].existing, <<>>) \subseteq Remembered(task[f])
    BY DoomedIs DEF Remembered
  <1>4. \A r \in rows : r.surface = other => r \in rows'
    BY <1>2, <1>3 DEF Without
  <1>5. \A r \in rows' : r.surface = other => r \in rows
    BY DEF Without
  <1> QED
    BY <1>4, <1>5, ShowsStill

(* A replacement that was planned on the rows and the content as they are  *)
(* leaves a surface that shows the content.                                *)
LEMMA ReplacementShows ==
  ASSUME SurfaceInv, NEW surface \in Surfaces, NEW existing, NEW fresh,
         RowList(existing, surface), TextList(fresh), Room(existing, fresh),
         {existing[k] : k \in DOMAIN existing} = Of(surface), fresh = Content(surface),
         present' = present,
         rows' = Without(Doomed(existing, fresh)) \cup Created(surface, existing, fresh)
  PROVE  Shows(surface)'
PROOF
  <1> DEFINE c == Common(existing, fresh)
             N == Created(surface, existing, fresh)
             n == Len(fresh)
  <1>1. /\ \A r \in N : r.surface = surface
        /\ \A r \in N : \E k \in (c + 1)..n : r.text = fresh[k]
        /\ \A k \in (c + 1)..n : \E r \in N : r.text = fresh[k]
        /\ \A q, r \in N : q.text = r.text => q = r
    BY CreatedIs
  <1>2. Len(existing) \in Nat /\ DOMAIN existing = 1..Len(existing)
    BY DEF RowList
  <1>3. /\ c \in 0..Len(existing)
        /\ c > 0 => c <= n
        /\ \A k \in 1..c : existing[k].text = fresh[k]
    BY <1>2, CommonIs
  <1>4. n \in Nat /\ DOMAIN fresh = 1..n /\ \A j, k \in 1..n : fresh[j] = fresh[k] => j = k
    BY DEF TextList
  <1>5. \A k \in DOMAIN existing : existing[k].id \in Doomed(existing, fresh) <=> ~(k <= c)
    BY DoomedIs
  <1>6. rows' = Without(Doomed(existing, fresh)) \cup N
    OBVIOUS
  <1> HIDE DEF c, N, n
  <1>7. \A r \in Of(surface)' : r \in N \/ \E k \in 1..c : r = existing[k]
    <2> SUFFICES ASSUME NEW r \in Of(surface)', r \notin N PROVE \E k \in 1..c : r = existing[k]
      OBVIOUS
    <2>1. r \in Of(surface) /\ r.id \notin Doomed(existing, fresh)
      BY <1>6 DEF Of, Without
    <2>2. PICK k \in DOMAIN existing : r = existing[k]
      BY <2>1
    <2>3. k <= c
      BY <1>5, <2>1, <2>2
    <2> QED
      BY <1>2, <1>3, <2>2, <2>3
  <1>8. \A k \in 1..c : existing[k] \in Of(surface)'
    <2> SUFFICES ASSUME NEW k \in 1..c PROVE existing[k] \in Of(surface)'
      OBVIOUS
    <2>1. k \in DOMAIN existing /\ k <= c
      BY <1>2, <1>3
    <2>2. existing[k] \in Of(surface) /\ existing[k].id \notin Doomed(existing, fresh)
      BY <1>5, <2>1
    <2> QED
      BY <1>6, <2>2 DEF Of, Without
  <1>9. N \subseteq Of(surface)'
    BY <1>1, <1>6 DEF Of
  <1>10. \A k \in 1..n : k \in 1..c \/ k \in (c + 1)..n
    BY <1>3, <1>4
  <1>11. \A k : /\ k \in 1..c => k \in 1..n /\ k \notin (c + 1)..n
                /\ k \in (c + 1)..n => k \in 1..n
    BY <1>2, <1>3, <1>4
  <1>12. \A r \in Of(surface)' : \E k \in 1..n : r.text = fresh[k]
    BY <1>1, <1>3, <1>7, <1>11
  <1>13. \A k \in 1..n : \E r \in Of(surface)' : r.text = fresh[k]
    BY <1>1, <1>3, <1>8, <1>9, <1>10
  <1>14. \A q, r \in Of(surface)' : q.text = r.text => q = r
    BY <1>1, <1>3, <1>4, <1>7, <1>11
  <1>15. Content(surface)' = fresh
    BY SameContent
  <1>16. {r.text : r \in Of(surface)'} = {fresh[k] : k \in DOMAIN fresh}
    BY <1>4, <1>12, <1>13
  <1> QED
    BY <1>14, <1>15, <1>16 DEF Shows

(* A surface that is found reusable shows the content already.             *)
LEMMA ReusableShows ==
  ASSUME NEW surface, NEW existing, NEW fresh,
         RowList(existing, surface), TextList(fresh), Reusable(existing, fresh),
         {existing[k] : k \in DOMAIN existing} = Of(surface), fresh = Content(surface)
  PROVE  Shows(surface)
PROOF
  <1> DEFINE n == Len(fresh)
  <1>1. Len(existing) = n /\ DOMAIN existing = 1..n /\ Common(existing, fresh) = n
    BY DEF RowList, Reusable
  <1>2. n \in Nat /\ DOMAIN fresh = 1..n /\ \A j, k \in 1..n : fresh[j] = fresh[k] => j = k
    BY DEF TextList
  <1> HIDE DEF n
  <1>3. \A k \in 1..n : existing[k].text = fresh[k]
    BY <1>1, <1>2, CommonIs
  <1>4. \A r \in Of(surface) : \E k \in 1..n : r = existing[k]
    BY <1>1
  <1>5. \A k \in 1..n : existing[k] \in Of(surface)
    BY <1>1
  <1>6. {r.text : r \in Of(surface)} = {fresh[k] : k \in DOMAIN fresh}
    BY <1>2, <1>3, <1>4, <1>5
  <1>7. \A q, r \in Of(surface) : q.text = r.text => q = r
    BY <1>2, <1>3, <1>4
  <1> QED
    BY <1>6, <1>7 DEF Shows

(* Nothing is to be done where there is nothing and nothing is to be.      *)
LEMMA EmptyIsReusable == Reusable(<<>>, <<>>)
PROOF
  <1>1. Len(<<>>) = 0
    BY EmptyLists
  <1>2. Common(<<>>, <<>>) \in 0..0
    BY <1>1, CommonIs
  <1> QED
    BY <1>1, <1>2 DEF Reusable
-----------------------------------------------------------------------------
(* A call that nothing overlaps.                                           *)

(* A step is of a call in progress; it moves it on or ends it.             *)
LEMMA StepMoves ==
  ASSUME SurfaceInv, NEW f \in Caller, Step(f)
  PROVE  /\ task[f].at # "idle"
         /\ \E u \in Call : Moves(f, u) /\ (~u.alone \/ (Same(u, task[f]) /\ u.at # "idle"))
PROOF
  <1>1. CASE ReadExisting(f) \/ BeginTx(f)
    <2>1. PICK u \in Call : /\ Moves(f, u) /\ Same(u, task[f])
                            /\ \/ u.at = "rows" /\ task[f].at = "existing"
                               \/ u.at = "commit" /\ task[f].at = "begin"
      <3> HIDE DEF Same
      <3> QED
        BY <1>1, ReadMoves
    <2> QED
      BY <2>1
  <1>2. CASE ReadRows(f)
    <2>1. PICK u \in Call : /\ Moves(f, u) /\ Same(u, task[f])
                            /\ u.at \in {"existing", "stamp", "drop", "begin", "plan"}
      <3> HIDE DEF Same
      <3> QED
        BY <1>2, ReadRowsMoves
    <2> QED
      BY <1>2, <2>1 DEF ReadRows
  <1>3. CASE Drop(f) \/ Replace(f)
    <2>1. task' = [task EXCEPT ![f] = NextSurface(task[f])] /\ task[f].at \in {"drop", "commit"}
      BY <1>3 DEF Drop, Replace
    <2>2. PICK u \in Call : Moves(f, u) /\ Same(u, task[f]) /\ u.at \in {"existing", "stamp"}
      BY <2>1, NextMoves
    <2> QED
      BY <2>1, <2>2
  <1>4. CASE Conflict(f)
    <2>1. PICK u \in Call : Moves(f, u) /\ Same(u, task[f]) /\ u.at = "begin"
      BY <1>4, ConflictMoves
    <2> QED
      BY <1>4, <2>1 DEF Conflict
  <1>5. CASE Apply(f)
    <2>1. PICK u \in Call : Moves(f, u) /\ Same(u, task[f]) /\ u.at = "entity"
      BY <1>5, ApplyKeeps
    <2> QED
      BY <1>5, <2>1 DEF Apply
  <1>6. CASE Wire(f)
    <2>1. PICK u \in Call : /\ Moves(f, u) /\ Same(u, task[f]) /\ u.at \in {"participant", "stamp"}
      BY <1>6, WireMoves
    <2> QED
      BY <1>6, <2>1 DEF Wire, Edges
  <1>7. CASE ReadLast(f) \/ Stamp(f)
    <2>1. PICK u \in Call : Moves(f, u) /\ Same(u, task[f]) /\ u.at \in {"returned", "ended"}
      BY <1>7, StampMoves
    <2> QED
      BY <1>7, <2>1 DEF ReadLast, Stamp
  <1>8. CASE Close(f) /\ task' # [task EXCEPT ![f] = Idle]
    <2>1. PICK u \in Call : Moves(f, u) /\ Same(u, task[f]) /\ u.at = "ended"
      BY <1>8, CloseMoves
    <2> QED
      BY <1>8, <2>1 DEF Close
  <1>9. CASE (Close(f) \/ Fails(f) \/ Return(f)) /\ task' = [task EXCEPT ![f] = Idle]
    BY <1>9, IdleMoves, IdleIs DEF Close, Fails, Return
  <1>10. Fails(f) \/ Return(f) => task' = [task EXCEPT ![f] = Idle]
    BY DEF Fails, Return
  <1> QED
    BY <1>1, <1>2, <1>3, <1>4, <1>5, <1>6, <1>7, <1>8, <1>9, <1>10 DEF Step

(* A call that moves moves alone.                                          *)
LEMMA MovesIs ==
  ASSUME SurfaceInv, NEW f \in Caller, NEW u \in Call, Moves(f, u)
  PROVE  task'[f] = u /\ \A g \in Caller \ {f} : task'[g] = task[g]
PROOF
  <1> QED
    BY DEF Moves, SurfaceInv

(* Of the calls in progress one at most is alone, and then it is the only. *)
LEMMA AloneStep ==
  ASSUME SurfaceInv, AloneInv, [SurfaceNext]_surfaceVars PROVE AloneInv'
PROOF
  <1>1. ASSUME NEW f \in Caller, Step(f) PROVE AloneInv'
    <2>1. PICK u \in Call : Moves(f, u) /\ (~u.alone \/ (Same(u, task[f]) /\ u.at # "idle"))
      BY <1>1, StepMoves
    <2>2. task'[f] = u /\ \A g \in Caller \ {f} : task'[g] = task[g]
      BY <2>1, MovesIs
    <2>3. task[f].at # "idle"
      BY <1>1, StepMoves
    <2>4. ASSUME NEW g \in Caller, task'[g].alone
          PROVE  task'[g].at # "idle" /\ \A h \in Caller \ {g} : task'[h].at = "idle"
      <3>1. g = f
        BY <2>2, <2>3, <2>4 DEF AloneInv
      <3>2. u.alone /\ Same(u, task[f]) /\ u.at # "idle"
        BY <2>1, <2>2, <2>4, <3>1
      <3>3. task[f].alone
        BY <3>2 DEF Same
      <3> QED
        BY <2>2, <3>1, <3>2, <3>3 DEF AloneInv
    <2> QED
      BY <2>4 DEF AloneInv
  <1>2. ASSUME NEW t \in Turns, Observe(t) \/ Delete(t) PROVE AloneInv'
    <2>1. task' = Disturbed
      BY <1>2 DEF Observe, Delete
    <2>2. \A g \in Caller : ~task'[g].alone
      BY <2>1, DisturbedIs
    <2> QED
      BY <2>2 DEF AloneInv
  <1>3. ASSUME NEW f \in Caller, NEW op \in {"finalize", "sweep"}, Begin(f, op) PROVE AloneInv'
    <2>1. /\ \A g \in Caller \ {f} : task'[g] = Disturbed[g]
          /\ task'[f].at \in {"close", "existing"}
          /\ task'[f].alone = (\A g \in Caller \ {f} : task[g].at = "idle")
      BY <1>3, BeginIs
    <2>2. \A g \in Caller \ {f} : ~task'[g].alone /\ task'[g].at = task[g].at
      BY <2>1, DisturbedIs
    <2> QED
      BY <2>1, <2>2 DEF AloneInv
  <1>4. CASE UNCHANGED surfaceVars
    BY <1>4 DEF surfaceVars, AloneInv
  <1> QED
    BY <1>1, <1>2, <1>3, <1>4 DEF SurfaceNext

(* What a lone finalize reads.                                             *)
LEMMA LoneReads ==
  ASSUME SurfaceInv, NEW f \in Caller, UpToDate(task[f]), ReadExisting(f) \/ BeginTx(f)
  PROVE  UpToDate(task[f])'
PROOF
  <1>1. UNCHANGED <<present, past, rows, ended, calls>>
    BY DEF ReadExisting, BeginTx
  <1>2. PICK u \in Call, s \in Readings(task[f].surface) :
           /\ Moves(f, u) /\ u.existing = s
           /\ u.fresh = task[f].fresh /\ u.surface = task[f].surface
           /\ \/ u.at = "rows" /\ task[f].at = "existing"
              \/ u.at = "commit" /\ task[f].at = "begin"
    BY ReadMoves
  <1>3. task[f].surface \in Surfaces
    BY DEF SurfaceInv, Call
  <1>4. {s[k] : k \in DOMAIN s} = Of(u.surface)
    BY <1>2, <1>3, ReadingMoves DEF SurfaceInv
  <1>5. task'[f] = u
    BY <1>2, MovesIs
  <1>6. ListsAll(u)' /\ Shows("session")' = Shows("session")
        /\ Content(u.surface)' = Content(u.surface)
    BY <1>1, <1>2, <1>4, SameShown, SameContent DEF ListsAll
  <1>7. UpToDate(u)'
    BY <1>2, <1>6 DEF UpToDate, Edges
  <1> QED
    BY <1>5, <1>7 DEF UpToDate, ListsAll

(* With the rows and the content read, a surface is done, or planned.      *)
LEMMA LoneReadRows ==
  ASSUME SurfaceInv, NEW f \in Caller, UpToDate(task[f]), ReadRows(f)
  PROVE  UpToDate(task[f])'
PROOF
  <1>1. UNCHANGED <<present, past, rows, ended, calls>> /\ task[f].at = "rows"
    BY DEF ReadRows
  <1>2. PICK t \in Call : t = task[f]
    BY DEF SurfaceInv
  <1>3. PICK c : c = Content(t.surface)
    OBVIOUS
  <1>4. PICK u \in Call :
           /\ Moves(f, u)
           /\ \/ /\ c = <<>> /\ t.existing = <<>> /\ u.surface = "observation"
                 /\ u.at = IF t.surface = "session" THEN "existing" ELSE "stamp"
              \/ /\ c = <<>> /\ u.at = "drop" /\ u.surface = t.surface /\ u.existing = t.existing
              \/ /\ u.at = "begin" /\ u.surface = "session" /\ u.fresh = c /\ t.surface = "session"
              \/ /\ t.surface = "observation" /\ Reusable(t.existing, c)
                 /\ u.surface = "observation" /\ u.at = "stamp"
              \/ /\ u.at = "plan" /\ u.surface = "observation" /\ t.surface = "observation"
                 /\ u.existing = t.existing /\ u.fresh = c
    <2> HIDE DEF Same, Cleared
    <2>1. PICK u \in Call :
           /\ Moves(f, u) /\ Same(u, task[f]) /\ u.ids = task[f].ids
           /\ \/ /\ Content(task[f].surface) = <<>> /\ task[f].existing = <<>> /\ Cleared(u)
                 /\ u.surface = "observation"
                 /\ u.at = IF task[f].surface = "session" THEN "existing" ELSE "stamp"
              \/ /\ Content(task[f].surface) = <<>> /\ u.at = "drop"
                 /\ u.surface = task[f].surface
                 /\ u.existing = task[f].existing /\ u.fresh = task[f].fresh
              \/ /\ Content(task[f].surface) # <<>> /\ task[f].surface = "session"
                 /\ u.at = "begin" /\ u.surface = "session"
                 /\ u.existing = <<>> /\ u.fresh = Content(task[f].surface)
              \/ /\ Content(task[f].surface) # <<>> /\ task[f].surface = "observation"
                 /\ Reusable(task[f].existing, Content(task[f].surface)) /\ Cleared(u)
                 /\ u.surface = "observation" /\ u.at = "stamp"
              \/ /\ Content(task[f].surface) # <<>> /\ task[f].surface = "observation"
                 /\ u.at = "plan" /\ u.surface = "observation"
                 /\ u.existing = task[f].existing /\ u.fresh = Content(task[f].surface)
      BY ReadRowsMoves
    <2> QED
      BY <1>2, <1>3, <2>1
  <1>5. /\ t.surface \in Surfaces /\ RowList(t.existing, t.surface)
        /\ {t.existing[k] : k \in DOMAIN t.existing} = Of(t.surface)
        /\ t.surface = "observation" => Shows("session")
    BY <1>1, <1>2 DEF SurfaceInv, Call, InPlace, UpToDate, ListsAll
  <1>6. TextList(c)
    BY <1>3, <1>5, ContentIsTextList DEF SurfaceInv
  <1>7. Reusable(t.existing, c) => Shows(t.surface)
    BY <1>3, <1>5, <1>6, ReusableShows
  <1>8. c = <<>> /\ t.existing = <<>> => Shows(t.surface)
    BY <1>7, EmptyIsReusable
  <1>9. /\ u.surface = "observation" => Shows("session")
        /\ u.at = "stamp" => Shows("observation")
        /\ u.at \in {"existing", "drop", "begin", "stamp", "plan"}
    BY <1>4, <1>5, <1>7, <1>8 DEF Surfaces
  <1>10. task'[f] = u
    BY <1>4, MovesIs
  <1>11. /\ \A surface : Of(surface)' = Of(surface)
         /\ \A surface : Shows(surface)' = Shows(surface)
         /\ \A surface : Content(surface)' = Content(surface)
    BY <1>1, SameShown, SameContent
  <1>12. u.at \in {"drop", "plan"} =>
           u.surface = t.surface /\ u.existing = t.existing
    BY <1>4
  <1>13. u.at \in {"drop", "plan"} =>
           {u.existing[k] : k \in DOMAIN u.existing} = Of(u.surface)'
    BY <1>5, <1>11, <1>12
  <1>14. /\ u.at \in {"begin", "plan"} => u.fresh = Content(u.surface)
         /\ u.at = "drop" => Content(u.surface) = <<>>
    BY <1>3, <1>4
  <1>15. UpToDate(u)'
    <2>1. u.at \in {"drop", "plan"} => ListsAll(u)'
      BY <1>13 DEF ListsAll
    <2>2. /\ u.at \in {"begin", "plan"} => u.fresh = Content(u.surface)'
          /\ u.at = "drop" => Content(u.surface)' = <<>>
      BY <1>11, <1>14
    <2>3. /\ u.surface = "observation" => Shows("session")'
          /\ u.at = "stamp" => Shows("session")' /\ Shows("observation")'
      BY <1>4, <1>9, <1>11
    <2> QED
      BY <1>9, <2>1, <2>2, <2>3 DEF UpToDate, Edges
  <1> QED
    BY <1>10, <1>15 DEF UpToDate, ListsAll

(* The writes that end a surface: what they leave shows the content.       *)
LEMMA LoneWrites ==
  ASSUME SurfaceInv, NEW f \in Caller, UpToDate(task[f]), Drop(f) \/ Replace(f)
  PROVE  UpToDate(task[f])'
PROOF
  <1>1. PICK t \in Call : t = task[f]
    BY DEF SurfaceInv
  <1>2. /\ UNCHANGED <<present, past, ended, calls>>
        /\ task' = [task EXCEPT ![f] = NextSurface(task[f])]
        /\ t.at \in {"drop", "commit"}
    BY <1>1 DEF Drop, Replace
  <1>3. PICK u \in Call : /\ Moves(f, u) /\ u.surface = "observation"
                          /\ u.at = IF t.surface = "session" THEN "existing" ELSE "stamp"
    BY <1>1, <1>2, NextMoves
  <1>4. /\ t.surface \in Surfaces /\ RowList(t.existing, t.surface) /\ TextList(t.fresh)
        /\ t.at = "commit" => t.surface = "session"
    BY <1>1 DEF SurfaceInv, Call, InPlace
  <1>5. /\ {t.existing[k] : k \in DOMAIN t.existing} = Of(t.surface)
        /\ t.at = "commit" => t.fresh = Content(t.surface)
        /\ t.at = "drop" => Content(t.surface) = <<>>
        /\ t.surface = "observation" => Shows("session")
    BY <1>1, <1>2 DEF UpToDate, ListsAll
  <1>6. RowsTyped'
    <2>1. StoreTyped'
      BY WritesKeep DEF SurfaceInv
    <2> QED
      BY <2>1 DEF StoreTyped, RowsTyped
  <1>7. CASE rows' = rows /\ Replace(f) /\ Reusable(t.existing, t.fresh)
    <2>1. t.at = "commit" /\ t.surface = "session"
      BY <1>1, <1>4, <1>7 DEF Replace
    <2>2. Shows("session")
      BY <1>4, <1>5, <1>7, <2>1, ReusableShows
    <2>3. Shows("session")'
      BY <1>2, <1>7, <2>2, SameShown
    <2>4. UpToDate(u)'
      BY <1>3, <2>1, <2>3 DEF UpToDate, Edges
    <2> QED
      BY <1>3, <2>4, MovesIs DEF UpToDate, ListsAll
  <1>8. CASE /\ Replace(f) /\ Room(t.existing, t.fresh)
             /\ rows' = Without(Doomed(t.existing, t.fresh))
                          \cup Created("session", t.existing, t.fresh)
    <2>1. t.at = "commit" /\ t.surface = "session" /\ "session" \in Surfaces
      BY <1>1, <1>4, <1>8 DEF Replace
    <2>2. Shows("session")'
      BY <1>2, <1>4, <1>5, <1>8, <2>1, ReplacementShows
    <2>3. UpToDate(u)'
      BY <1>3, <2>1, <2>2 DEF UpToDate, Edges
    <2> QED
      BY <1>3, <2>3, MovesIs DEF UpToDate, ListsAll
  <1>9. CASE Drop(f)
    <2>1. rows' = Without(Doomed(t.existing, <<>>)) /\ t.at = "drop"
      BY <1>1, <1>9 DEF Drop
    <2>2. Content(t.surface) = <<>>
      BY <1>5, <2>1
    <2>3. TextList(<<>>) /\ Len(<<>>) = 0
      BY EmptyLists
    <2>4. Common(t.existing, <<>>) = 0
      <3>1. Len(t.existing) \in Nat
        BY <1>4 DEF RowList
      <3> QED
        BY <2>3, <3>1, CommonIs
    <2>5. Created(t.surface, t.existing, <<>>) = {}
      BY <2>3, <2>4 DEF Created
    <2>6. Room(t.existing, <<>>)
      <3>1. Unused \in SUBSET (1..MaxRows) /\ IsFiniteSet(1..MaxRows)
        BY SessionSurfaceAssumption, FS_Interval DEF Unused
      <3>2. Cardinality(Unused) \in Nat
        BY <3>1, FS_Subset, FS_CardinalityType
      <3> QED
        BY <2>3, <2>4, <3>2 DEF Room
    <2>7. rows' = Without(Doomed(t.existing, <<>>)) \cup Created(t.surface, t.existing, <<>>)
      BY <2>1, <2>5
    <2>8. PICK e : e = <<>>
      OBVIOUS
    <2>9. Shows(t.surface)'
      BY <1>2, <1>4, <1>5, <2>2, <2>3, <2>6, <2>7, <2>8, ReplacementShows
    <2>10. t.surface = "observation" => Shows("session")'
      <3> SUFFICES ASSUME t.surface = "observation" PROVE Shows("session")'
        OBVIOUS
      <3>1. "session" \in Surfaces \ {task[f].surface} /\ Shows("session")
        BY <1>1, <1>5 DEF Surfaces
      <3>2. PICK N : N = {}
        OBVIOUS
      <3>4. rows' = Without(Doomed(task[f].existing, <<>>)) \cup N
        BY <1>1, <2>1, <3>2
      <3>5. \A r \in N : r.surface = task[f].surface
        BY <3>2
      <3>3. RowList(task[f].existing, task[f].surface)
        BY <1>1, <1>4
      <3> QED
        BY <1>2, <1>6, <3>1, <3>3, <3>4, <3>5, OtherSurface
    <2>11. /\ Shows("session")'
           /\ u.at = "stamp" => Shows("observation")'
           /\ u.at \in {"existing", "stamp"}
      BY <1>3, <1>4, <2>9, <2>10 DEF Surfaces
    <2>12. UpToDate(u)'
      BY <1>3, <2>11 DEF UpToDate, Edges
    <2> QED
      BY <1>3, <2>12, MovesIs DEF UpToDate, ListsAll
  <1> QED
    BY <1>1, <1>7, <1>8, <1>9 DEF Replace

(* The observations, planned on what is so, show the content.              *)
LEMMA LoneApply ==
  ASSUME SurfaceInv, NEW f \in Caller, UpToDate(task[f]), Apply(f)
  PROVE  UpToDate(task[f])'
PROOF
  <1>1. PICK u \in Call : Moves(f, u) /\ u.at = "entity" /\ u.surface = "observation"
    BY ApplyKeeps
  <1>2. /\ RowList(task[f].existing, "observation") /\ TextList(task[f].fresh)
        /\ Room(task[f].existing, task[f].fresh)
    BY ApplyKeeps
  <1>3. /\ task[f].at = "plan" /\ UNCHANGED <<present, past, ended, calls>>
        /\ rows' = Without(Doomed(task[f].existing, task[f].fresh))
                     \cup Created("observation", task[f].existing, task[f].fresh)
    BY DEF Apply
  <1>4. task[f].surface = "observation"
    BY <1>3 DEF SurfaceInv, InPlace
  <1>5. /\ {task[f].existing[k] : k \in DOMAIN task[f].existing} = Of("observation")
        /\ task[f].fresh = Content("observation") /\ Shows("session")
    BY <1>3, <1>4 DEF UpToDate, ListsAll
  <1>6. PICK existing, fresh : existing = task[f].existing /\ fresh = task[f].fresh
    OBVIOUS
  <1>7. Shows("observation")'
    BY <1>2, <1>3, <1>5, <1>6, ReplacementShows DEF Surfaces
  <1>8. RowsTyped'
    <2>1. StoreTyped'
      BY ApplyKeeps DEF SurfaceInv
    <2> QED
      BY <2>1 DEF StoreTyped, RowsTyped
  <1>9. PICK N : N = Created("observation", existing, fresh)
    OBVIOUS
  <1>10. \A r \in N : r.surface = task[f].surface
    BY <1>2, <1>4, <1>6, <1>9, CreatedIs DEF Surfaces
  <1>11. Shows("session")'
    <2>1. "session" \in Surfaces \ {task[f].surface}
      BY <1>4 DEF Surfaces
    <2>2. RowList(task[f].existing, task[f].surface)
      BY <1>2, <1>4
    <2>3. rows' = Without(Doomed(task[f].existing, task[f].fresh)) \cup N
      BY <1>3, <1>6, <1>9
    <2> QED
      BY <1>3, <1>5, <1>8, <1>10, <2>1, <2>2, <2>3, OtherSurface
  <1>12. UpToDate(u)'
    BY <1>1, <1>7, <1>11 DEF UpToDate, Edges
  <1> QED
    BY <1>1, <1>12, MovesIs DEF UpToDate, ListsAll

(* Wiring shows what was shown.                                            *)
LEMMA LoneWire ==
  ASSUME SurfaceInv, NEW f \in Caller, UpToDate(task[f]), Wire(f)
  PROVE  UpToDate(task[f])'
PROOF
  <1>1. PICK u \in Call : Moves(f, u) /\ u.at \in {"participant", "stamp"}
    BY WireMoves
  <1>2. Shows("session") /\ Shows("observation") /\ present' = present
    BY DEF Wire, UpToDate
  <1>3. /\ RowsTyped'
        /\ \A r \in rows' : \E q \in rows : q.surface = r.surface /\ q.text = r.text /\ q.id = r.id
        /\ \A q \in rows : \E r \in rows' : q.surface = r.surface /\ q.text = r.text /\ q.id = r.id
    BY WiredRows
  <1>4. \A surface \in Surfaces : Shows(surface) => Shows(surface)'
    <2> SUFFICES ASSUME NEW surface \in Surfaces, Shows(surface) PROVE Shows(surface)'
      OBVIOUS
    <2>1. \A r \in rows' : r.surface = surface =>
            \E q \in rows : q.surface = surface /\ q.text = r.text /\ q.id = r.id
      BY <1>3
    <2>2. \A q \in rows : q.surface = surface =>
            \E r \in rows' : r.surface = surface /\ q.text = r.text /\ q.id = r.id
      BY <1>3
    <2> QED
      BY <1>2, <1>3, <2>1, <2>2, ShowsStill
  <1>5. Shows("session")' /\ Shows("observation")'
    BY <1>2, <1>4 DEF Surfaces
  <1>6. UpToDate(u)'
    BY <1>1, <1>5 DEF UpToDate, Edges
  <1> QED
    BY <1>1, <1>6, MovesIs DEF UpToDate, ListsAll

(* The last message is still the last when ended_at is written.            *)
LEMMA LoneStamps ==
  ASSUME SurfaceInv, NEW f \in Caller, UpToDate(task[f]), ReadLast(f) \/ Stamp(f)
  PROVE  UpToDate(task[f])'
PROOF
  <1>1. PICK u \in Call :
           /\ Moves(f, u)
           /\ \/ u.at = "returned" /\ (Stamp(f) \/ LastMessage = None)
              \/ u.at = "ended" /\ u.last = LastMessage /\ LastMessage # None
    BY StampMoves
  <1>2. /\ UNCHANGED <<present, past, rows, calls>> /\ task[f].at \in {"stamp", "ended"}
        /\ Stamp(f) => task[f].at = "ended" /\ ended' = task[f].last
    BY DEF ReadLast, Stamp
  <1>3. /\ Shows("session") /\ Shows("observation")
        /\ task[f].at = "ended" => task[f].last = LastMessage
    BY <1>2 DEF UpToDate
  <1>4. Shows("session")' /\ Shows("observation")' /\ LastMessage' = LastMessage
    BY <1>2, <1>3, SameShown, SameContent
  <1>5. u.at = "returned" => (present' # {} => ended' = LastMessage')
    BY <1>1, <1>2, <1>3, <1>4, LastMessageIs DEF SurfaceInv
  <1>6. UpToDate(u)'
    BY <1>1, <1>4, <1>5 DEF UpToDate, Edges
  <1> QED
    BY <1>1, <1>6, MovesIs DEF UpToDate, ListsAll

(* A transaction that conflicts begins again, on the content it had.       *)
LEMMA LoneConflict ==
  ASSUME SurfaceInv, NEW f \in Caller, UpToDate(task[f]), Conflict(f)
  PROVE  UpToDate(task[f])'
PROOF
  <1>1. UNCHANGED <<present, past, rows, ended, calls>> /\ task[f].at = "commit"
    BY DEF Conflict
  <1>2. PICK u \in Call : /\ Moves(f, u) /\ u.at = "begin"
                          /\ u.fresh = task[f].fresh /\ u.surface = task[f].surface
    BY ConflictMoves
  <1>3. u.fresh = Content(u.surface) /\ (u.surface = "observation" => Shows("session"))
    BY <1>1, <1>2 DEF UpToDate
  <1>4. Content(u.surface)' = Content(u.surface) /\ Shows("session")' = Shows("session")
    BY <1>1, SameShown, SameContent
  <1>5. UpToDate(u)'
    BY <1>2, <1>3, <1>4 DEF UpToDate, Edges
  <1> QED
    BY <1>2, <1>5, MovesIs DEF UpToDate, ListsAll

(* A lone finalize goes on as it began: on what is so.                     *)
LEMMA LoneStep ==
  ASSUME SurfaceInv, AloneInv, LoneInv, [SurfaceNext]_surfaceVars PROVE LoneInv'
PROOF
  <1>1. ASSUME NEW f \in Caller, Step(f) PROVE LoneInv'
    <2>1. PICK u \in Call : Moves(f, u) /\ (~u.alone \/ (Same(u, task[f]) /\ u.at # "idle"))
      BY <1>1, StepMoves
    <2>2. task'[f] = u /\ \A g \in Caller \ {f} : task'[g] = task[g]
      BY <2>1, MovesIs
    <2>3. task[f].at # "idle"
      BY <1>1, StepMoves
    <2>4. ASSUME NEW g \in Caller, task'[g].alone, task'[g].op = "finalize"
          PROVE  UpToDate(task[g])'
      <3>1. g = f
        BY <2>2, <2>3, <2>4 DEF AloneInv
      <3>2. task[f].alone /\ task[f].op = "finalize"
        BY <2>1, <2>2, <2>4, <3>1 DEF Same
      <3>3. UpToDate(task[f])
        BY <3>2 DEF LoneInv
      <3>4. ~Close(f)
        BY <3>3 DEF UpToDate, Close
      <3>5. ~Fails(f) /\ ~Return(f)
        <4>1. Fails(f) \/ Return(f) => Moves(f, Idle)
          BY IdleMoves DEF Fails, Return
        <4>2. Moves(f, Idle) => ~task'[f].alone
          BY IdleIs, MovesIs
        <4> QED
          BY <2>4, <3>1, <4>1, <4>2
      <3>6. UpToDate(task[f])'
        BY <1>1, <3>3, <3>4, <3>5, LoneReads, LoneReadRows, LoneWrites, LoneApply, LoneWire,
           LoneStamps, LoneConflict DEF Step
      <3> QED
        BY <3>1, <3>6
    <2> QED
      BY <2>4 DEF LoneInv
  <1>2. ASSUME NEW t \in Turns, Observe(t) \/ Delete(t) PROVE LoneInv'
    <2>1. task' = Disturbed
      BY <1>2 DEF Observe, Delete
    <2>2. \A g \in Caller : ~task'[g].alone
      BY <2>1, DisturbedIs
    <2> QED
      BY <2>2 DEF LoneInv
  <1>3. ASSUME NEW f \in Caller, NEW op \in {"finalize", "sweep"}, Begin(f, op) PROVE LoneInv'
    <2>1. /\ \A g \in Caller \ {f} : task'[g] = Disturbed[g]
          /\ task'[f].at = IF op = "sweep" THEN "close" ELSE "existing"
          /\ task'[f].op = op /\ task'[f].surface = "session"
      BY <1>3, BeginIs
    <2>2. \A g \in Caller \ {f} : ~task'[g].alone
      BY <2>1, DisturbedIs
    <2>3. task'[f].op = "finalize" => UpToDate(task[f])'
      BY <2>1 DEF UpToDate, Edges
    <2> QED
      BY <2>2, <2>3 DEF LoneInv
  <1>4. CASE UNCHANGED surfaceVars
    <2>1. UNCHANGED <<present, rows, ended, task>>
      BY <1>4 DEF surfaceVars
    <2> QED
      BY <2>1, SameShown, SameContent DEF LoneInv, UpToDate, ListsAll
  <1> QED
    BY <1>1, <1>2, <1>3, <1>4 DEF SurfaceNext

(* A finalize that nothing overlapped leaves each text of the session on   *)
(* its surface once and no other, and ended_at at its last message: the    *)
(* rows it read are all there are, whichever order and indices earlier     *)
(* calls left them in, and what it keeps, removes and creates by their     *)
(* texts is what it says (session_chunk.rs:166).                           *)
THEOREM LoneFinalizeCompletes == SurfaceSpec => []LoneFinalizeIsComplete
PROOF
  <1>1. SurfaceInit => AloneInv /\ LoneInv
    <2> SUFFICES ASSUME SurfaceInit PROVE AloneInv /\ LoneInv
      OBVIOUS
    <2>1. \A f \in Caller : ~task[f].alone
      BY IdleIs DEF SurfaceInit
    <2> QED
      BY <2>1 DEF AloneInv, LoneInv
  <1>2. SurfaceInv /\ AloneInv /\ LoneInv /\ [SurfaceNext]_surfaceVars => AloneInv' /\ LoneInv'
    BY AloneStep, LoneStep
  <1>3. LoneInv => LoneFinalizeIsComplete
    BY DEF LoneInv, UpToDate, LoneFinalizeIsComplete, Surfaces
  <1> QED
    BY <1>1, <1>2, <1>3, SurfaceInvariance, PTL DEF SurfaceSpec
=============================================================================
