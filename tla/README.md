# Formal models of Uniko

Uniko is an agent memory library: it ingests conversation turns and documents
into an embedded graph database, extracts observations from them, consolidates
the observations into Facts (beliefs with a validity interval), and answers
recall queries. This directory holds TLA+ models of the parts of it that run
concurrently, keep state across transactions or must survive failures, TLC
configurations that check them on small instances, and TLAPS proofs of the
properties that matter most.

Paths below are relative to `src/crates/`. PROJECT.json maps every modelling
definition to the lines it stands for.

## Inventory of the system

| Component | State | Operations | What makes it correct | Module |
|---|---|---|---|---|
| Message and unit ingest (`uniko-extract/src/ingest/atomic.rs`, `unit.rs`, `message.rs`) | Message, Chunk, Entity, Observation nodes; the session context of a handle | one transaction per unit, retried on conflicts | a unit is stored once, all of it or nothing; counts exact; chains of turns closed | `SessionIngest` |
| Documents (`ingest/source.rs`, `artifact.rs`, `pdf/`; `uniko-store/src/storage/blob.rs`) | Artifact, content and Source rows, blobs, revision and retirement stamps | ingest with probes and a memo, supersede, retire, delete | bytes stored once and for as long as somebody refers to them; one current revision | `ArtifactStore` |
| Streaming pipeline (`uniko-memory/src/pipeline/mod.rs`, `ingest_worker.rs`) | bounded channel, in-flight counter, semaphore, health | submit, quiesce, shutdown | no accepted item is lost or run twice; permits and counter never drift; everything ends | `IngestPipeline`, `IngestContract` |
| Consolidation worker (`pipeline/consolidation_worker.rs`) | bounded channel, counter per agent, timer, cortex cadence | notices, requests, timer sweeps | announced observations are consolidated, no agent starves | `ConsolidationWorker` |
| Consolidation cycle (`uniko-memory/src/consolidation.rs`, `uniko-store/src/operations/facts.rs`) | Facts, SUPPORTED_BY, INVALIDATES, PROCESSED edges, drift records | fetch, upsert, wire, invalidate, record | no evidence lost, counts and drift earned, a belief only replaced by a supported one | `Consolidation` |
| Deletion (`uniko-store/src/storage/deletion.rs`) | the same graph | delete and forget messages, sessions, participants, artifacts | no open Fact on erased evidence alone; nothing forgotten is shown | `BeliefGraph`, `SessionIngest`, `ArtifactStore`, `Recall` |
| Session surfaces (`ingest/session_chunk.rs`, `facade/session.rs`) | the two chunk surfaces of a session, ABOUT edges, ended_at | finalize, the sweep that closes idle sessions | a surface shows each text of its session once and no other, and never vanishes on the way | `SessionSurface` |
| Recall (`uniko-memory/src/recall/`, `policy.rs`, `uniko-store/src/repository/recall.rs`) | read-only, over a graph that changes | allow-set, three phases, fallback and merge, redaction and viewer gates | what was hidden, private or out of scope when a recall began is not in its answer | `Recall`, `ArtifactStore` |
| Rules (`uniko-memory/src/rules/`, `uniko-store/src/repository/rules.rs`) | Rule nodes with their confidence, programs in the runtime, throttles | define, run, reward, decay, demote, prune | decay only of rules that had their chance; what is active can run | `RuleLifecycle` |
| Episodes and procedures (`uniko-memory/src/episode.rs`, `uniko-cortex/src/procedures.rs`) | Episodes with FOLLOWED_BY edges, Procedures with their counters | record, detect sequences, prune, report a use | chains lead forward; a procedure is active only after its sequence recurred | `Procedures` |
| Locks (`uniko-store/src/locks.rs`, `storage/mod.rs`) | two tables of striped locks | lock one key or many | no deadlock, one writer per row, as far as all its writers lock the same key | inside `SessionIngest`, `ArtifactStore`, `Consolidation` |
| Retries and merges (`storage/mod.rs`, `nodes.rs`) | none of their own | transact_with_retry, merge_node | a retried transaction is as if run once | inside `SessionIngest`, `ArtifactStore`, `SessionSurface` |
| Shutdown (`uniko-pipes/src/cancel.rs`) | tokens and join handles | cancel in phases, join | everything stops | inside `IngestPipeline`, `ConsolidationWorker` |
| Circuit breaker (`uniko-pipes/src/circuit_breaker.rs`) | state, failure count, time of the last failure | call, record_success, record_failure | opens on failures, probes, recovers | none: nothing calls it |
| Topics, dead letters, goals, tasks, policies (`uniko-cortex`, `uniko-memory/src/facade/`) | nodes of their own | single writes through the store | none that relates two steps | none |
| Query, extraction (`query.rs`, `ner/`, `nlp/`, `observations/`) | read-only | text to queries, text to triples | outside the scope of a model checker | none |
| Facades, bindings, benchmarks | handles | delegation, measurement | none of their own | none |

Interactions. A `Session` ingests a turn on its caller's task (`observe`) or
hands it to the streaming pipeline (`submit`), whose worker spawns one task per
item. Whoever committed observations announces them to the consolidation worker
by a best-effort message. That worker, or any task that calls
`Agent::consolidate`, runs cycles; nothing keeps two cycles apart. A cycle is a
sequence of short transactions with awaits in between, so deletions, ingest and
other cycles interleave with it, and it may die between any two of them.
Deletions re-evaluate the Facts whose evidence they erase. After every n-th
cycle the worker goes on with a cortex sweep: rules run and decay, sequences of
episodes become procedures, episodes are pruned, idle sessions are closed. A
recall is a series of reads, each on a snapshot of its own, so all of the writers
above run between any two of its steps; its gates are the last of them.

The hard behaviours, listed line by line under "hazards" in PROJECT.json, are
therefore overlapping cycles; failure between two transactions of a cycle; state
read before an await and used after it; counters that stand for something else
(in-flight items, pending observations) and may drift from it; best-effort
messages; bounded channels; cancellation at any point; locks that cover one
resource and not the one beside it (content but not source, fact but not
INVALIDATES, a procedure's write but not its read), under different keys for one
row, or nested in one table; two copies of one thing
(rule node and program, surface and session) that fail apart.

## Modules

`BeliefGraph` is the part of the graph that beliefs rest on: Observations with
their Message, Facts keyed by subject, predicate and object, SUPPORTED_BY edges
with their multiplicity. Its actions are one transaction each: `Observe` (the
commit of `ingest_message_atomic`), `DeleteMessage`, `DeleteSession`,
`ForgetParticipant`, `ForgetMessage` (with the re-evaluation of Facts,
`LosesLastSupport`), and `DateArrives` (time passes the future lower bound of a
Fact).

`Consolidation` EXTENDS it with the cycles of several tasks. `at[w]` is the
await at which the cycle of task w stands, `cycle[w]` its local variables; one
action per await, in the order of `run_cycle_with`:

| Action | Code |
|---|---|
| `Fetch` | `fetch_unprocessed_observations`: oldest first, with a limit |
| `Plan`, `PlanBlind` | grouping, clusters and votes, prior Facts; blind when that lookup fails and is logged |
| `TakeStripe` | `lock_many` over the fact keys: one stripe after the other, upwards |
| `ReadFacts`, `CreateFacts`, `UpdateFacts` | the three phases of `batch_upsert_facts`: snapshot under the fact stripes, creations, increments |
| `WireSupport` | the SUPPORTED_BY batch |
| `CloseStale`, `LinkStale` | `invalidate_fact` in its two transactions, for each outvoted Fact |
| `FindEntity`, `MergeEntity`, `RecordDrift` | `record_entity_invalidation`: the lookup under the stripe of the name, `merge_node` under another if there is no Entity, the count |
| `SkipClose`, `SkipLinkOrDrift` | their failures, logged and passed over |
| `PanicOnClose` | the `expect` in `btic_invalidate` |
| `MarkProcessed`, `WireAudit` | the PROCESSED batch, then the audit edges |
| `Fail` | an error at any other await: the cycle ends, what it committed stays |
| `Recognize` | ingest creates an Entity of that name |

The stripes are numbers that any key may share with any other. `MergeEntity` takes
and returns its stripe in one step while the cycle holds that of the name, in the
same table: when the two are one, or two cycles hold one each and ask for the
other's, no step is left to them. Tasks that ingest lock stripes of this table too
(`SessionIngest`); they are not composed with the cycles, so a circle through a
cycle's nested merge and a recording is not in the model, the one between two cycles
and the one of a cycle with itself are.

`ConsolidationWorker` is when cycles run: the ingest of each turn and the
notice it sends or not, the bounded channel, and the worker's loop. `loop` is
the position in `run` (select, in a timer sweep, about to fetch, in a cycle, in
the cortex sweep, stopped); `counter` is `agent_counters`, `sinceCortex` is
`agent_cycles_since_cortex`. A cycle is a fetch and, later, its success or
failure; its inside is `Consolidation`. A turn stands for one observation.

`IngestPipeline` is the streaming ingest. Callers, the worker loop and the
spawned tasks are separate processes, and each access to shared state is a step
of its own: `Send` and `Count` are the two halves of `submit_ingest`; `Acquire`,
`RunStep`, `EndChain`, `Report`, `Release`, `Finish` are the spawned task, whose
permit and in-flight guard are dropped in that order, on panics too. `IngestContract`
is what it promises, item by item; `StandingOf` is the refinement mapping.

`SessionIngest` is how turns become rows. Its processes are the tasks that
record turns (a session handle, whose context lives across calls, or a streamed
turn, whose context is fresh), documents that materialise a session, deletions,
and a crash. `ctx[w]` is the `SessionContext` (cached session row, cached
senders, head of the chain), `call[w]` the locals of the call in progress,
`setupLocks` and `rmwLocks` the two tables of stripes. The store has no unique
index, so a row is a key with a copy number, and duplicates can happen.

| Actions | Code |
|---|---|
| `Begin`, `Probe`, `IdConflict`, `Replay`, `PartialUnit`, `StartSetup` | P0 and P1 of `ingest_turns_atomic`, the lookup of `ingest_message_atomic` |
| `SkipWarm`, `LockSetup`, `FindSession`, `CreateSession` | P2: `ensure_session_and_sender`, `lock_session_setup`, `get_or_create_session` |
| `LockNode`, `FindNode`, `MergeNode` | `merge_node` under its RMW stripe, for a sender (inside the setup locks) or an addressee (P3) |
| `Link`, `LinkFails` | `link_participant_to_session`, whose edge needs both ends |
| `LockEntities`, `BeginTx`, `Commit`, `Conflict` | P6 on: `lock_ingest_unit`, the transaction and its retries, the update of the context after the commit |
| `Fails` | any other error, or a dropped future: every guard is released, nothing of the unit is written |
| `DocumentFinds`, `DocumentCreates` | the two halves of `get_or_create_session` in `ingest_source` |
| `LinkerFinds`, `LinkerCreates`, `LinkerFails` | `link_action_entities` (a build with the NLP pipeline): `merge_node` of an Entity under the stripe of its node key |
| `UnreadableEntity` | the read of the entities meets a row that a merge created: it has no frequency, and the call fails |
| `DeleteMessage`, `DeleteSession`, `ForgetParticipant` | the deletions, with `splice_next` |

`lock_many` takes one stripe per step, in ascending order; whether the store
aborts a transaction is nondeterministic, so nothing here relies on its conflict
detection, and a transaction reads entities from the snapshot of `BeginTx` and
writes them at `Commit`. A deletion is one step. The order in which
the senders of a unit are set up is fixed but arbitrary. `unguarded` holds the rows
that documents and linkers created: a document locks nothing, and a linker the key
`node:Entity`, where ingest locks `entity:`, so neither keeps out the other. The
Entity that a drift record creates (`Consolidation`) is merged in the same way. That
such a row cannot be read back into an i64 is the behaviour of the database's row
conversion, of which only the call is in the source. Documents and linkers together
act `MaxOutsiders` times. An edge that a commit
would start at a deleted head is dropped, since it never matches.

`ArtifactStore` is documents as evidence. A call ingests one unit of attachments
(`ingest_source`, `ingest_artifact`, `ingest_pdf` or the attachments of a turn):
`Prepare` puts the blobs, `Lock` takes the content stripes in ascending order,
and from `BeginTx` on each attachment goes one of the ways of `attach_in_tx`, on
the snapshot and the transaction's own writes. `graph` is the store; `call[c].tx`
what the transaction would make of it, `call[c].read` the rows it matched,
`call[c].seen` the memo of the unit.

| Actions | Code |
|---|---|
| `MemoHit`, `MemoConflict`, `MemoMismatch` | the memo of a unit: an attachment it has met before |
| `Dedup`, `NameConflict`, `SameRevision`, `RevisionConflict` | the probes: the same id, the same bytes, the same revision of a source |
| `Create` | the Artifact with its content row, its Source row and the supersession stamps on what it saw |
| `Commit`, `Conflict`, `Fails` | the end of the transaction: `Serializable` fails once a row of its snapshot that it matched has changed |
| `BeginDeleteArtifact`, `BeginDeleteSession`, `CommitDelete`, `AbortDelete` | `delete_artifact` and the session cascade, which collects on a snapshot and commits later, without the content locks |
| `SetRetired` | retire and restore a source |
| `BeginRecall`, `ReadSuperseded`, `Allow`, `Search` | the reads of `recall_unfiltered` that choose evidence |

`delete_artifact` deletes the content row with the last Artifact that refers to it,
as `docs/BLACKBOOK.md:611` says ("dropped only when its reference count reaches 1")
and `NothingStranded` requires. Its own doc (`deletion.rs:187`) and that of the facade
(`facade/session.rs:436`) say that it is left in place: the documents disagree, the
model follows the code, and `MCArtifactContent` shows it against the second reading.
The bytes in the blob store do stay (`objects`).

`Recall` is the cascade itself: `Start`, `Resolve` (the allow-set), `Compact`,
`Expand`, `Broaden` with `FallBack` and the merge of earlier results,
`RedactFlags`, `RedactByVisibility`, `View` and `Answer`, each of them a read of
its own; `LookupFails` is a failing gate. Beside it run `Ingest`, `Forget`,
`Delete`, `Upsert` and `Support` (the two commits of a consolidation that makes a
Fact of an observation) and `MakePrivate`. A channel returns any `TopK` of the
rows it may return, which stands for every ranking. The sparse channel
(`recall_sparse_enabled`, off by default, the constant `SparseEnabled`) is the one that
takes an empty allow-set for none; `call.unfiltered` says that it does.

`SessionSurface` is what is built of a whole session. `rows` are its chunks of
both surfaces, `task[f]` the call in progress: `ReadExisting`, `ReadRows`, then
for the transcript `BeginTx`, `Replace` or `Conflict` inside the closure of
`transact_with_retry`, for the observations `Apply` of a plan made outside it,
`Wire` (ABOUT edges, in two more commits), `ReadLast` and `Stamp` (ended_at);
`Close` is the sweep. `Fails` is an error at any await. Its specification is
`SurfaceSpec`, and it shares no name with `ConsolidationWorker`, so that one module
can hold the proofs about both.

`RuleLifecycle` is the confidence of authored rules, in a Rule node and a program
in the runtime of the database. `Register` and `Record` are the two halves of
`define_rule`; `Scan`, `Run`, `Credit` one `run_active_rules`; `Decide`,
`DecayScan`, `DecayRule`, `Unregister`, `Prune` one decay pass; `Tick` and `Day`
let the two throttles and the pruning age run on. `RunRulesInSweep` is the option
`run_rules_in_sweep` (`uniko-pipes/src/config.rs:41`, on by default): without it a
sweep goes straight to the decay pass. Confidence is an integer scale
with any monotone `Decay`.

`Procedures` is how an agent learns. `Look`, `Merge`, `Attach`, `Follow`, `Finish`
are the awaits of `record_episode`, with a timestamp the caller may choose;
`Detect`, `Snapshot`, `Write` are `promote_procedures_once` with the read and the
write of `upsert_procedure` apart; `Decay` and `Prune` delete decayed episodes;
`ReadUse` and `WriteUse` are the two halves of `record_procedure_use`.

Each component module `M` has a module `MCM` that gives the constants values for
TLC, and most have a module `MProofs` that holds its theorems; those of
`ConsolidationWorker` and `SessionSurface` are in `WorkerProofs`. Operators called
"...Counted", "...Kept" and the like that are introduced by "Mutant:" are plausible
mistakes in the code; substituting one makes the property it is written for fail.

What is abstracted: the text of turns, subjects, objects (elements of small
sets); embeddings and cosine clusters (a fixed map `ClusterOf`); the rolling
30-day window of drift (covers everything); transactions (atomic, which the
embedded database provides); in `BeliefGraph` and `Consolidation`, retries of a transaction (a
retried transaction takes effect once); what a pipeline step does; latencies.

## Runs

Every run ends within two and a half minutes on two cores.

| Run | Instance | States | Result |
|---|---|---|---|
| `consolidation` | two tasks, three observations of two rival objects, batches of two, one failure, one erasure, a certainty threshold of two, colliding stripes | 1,023,000 | evidence, counts, drift, replacement and reopening hold; cycles wait in a circle only through a drift record that creates its Entity |
| `consolidation_live` | two tasks, a batch of one, a backlog of two, one of them dated in the future, one failure; a drift record that creates its Entity blocks itself | 248,000 | every observation is eventually consolidated while cycles keep being requested and a task can run them |
| `cycle_never_panics` | the same graph, one observation dated in the future | | violated: `btic_invalidate` panics |
| `ingest_pipeline` | three items, one place in the channel, one permit, one step, one flush, shutdown at any time | 150,000 | counter exact, contract kept, all ends |
| `quiesce_is_barrier` | two items | | violated: the counter passes through 0 while an item is unfinished |
| `consolidation_worker` | four turns of two agents, two of them enough for the threshold and one streamed, a channel of one place, threshold 2, cadence 2, one request, one failure | 234,000 | announced observations consolidated, shutdown ends the worker |
| `session_ingest` | a handle and a stream of one session, four turns of two senders naming two entities, two of them with one message id, two calls of at most two turns, two attempts, one document or one action that links an entity, one deletion, one crash; stripes that collide within and across the tables | 127,000 | one row per key that recording creates, exact entity counts, no duplicates by calls that do not overlap, heads committed, gaps closed, no circular wait, every call ends |
| `artifact_store` | two calls with one unit out of four and out of five (a page in two revisions, in two units of their own and in one, twice in a unit, a named document twice, a PDF), two contents on two stripes, two attempts, one deletion, one recall, one retirement or restoration | 1,583,000 | bytes once, contents kept and never stranded, two current revisions of one source did not see each other, recalls never stale |
| `recall` | two turns in sessions of their own, one belief both support, phases of two rows, one item suffices, two writes during a recall, the sparse channel enabled | 2,892,000 | nothing forgotten, private or (the sparse channel under an empty list aside) out of scope is recalled; what was found is returned |
| `session_surface` | two tasks, two turns that state the same, three calls | 840,000 | a lone finalize completes both surfaces whatever it finds; the transcript never vanishes |
| `rule_lifecycle` | two rules, one of which makes queries fail once registered, two agents, an interval of two ticks, one failure; rules run in sweeps | 117,000 | active rules can run, matching protects, decay waits for a turn, only matching rules stay active |
| `procedures` | two tasks, three episodes of two timestamps, promotion after two, one use, one failing await | 642,000 | chains run forward, activity is earned, what recurs is learnt |

The two violated runs state what the repository's documentation says; each is a
finding in PROJECT.json with the quotation. Type invariants are not
checked by a run: each is a theorem (`TypeCorrect`, `SurfaceTypeCorrect`).

### Further counterexamples

These configurations are kept beside the runs. Each checks one sentence of a
document or comment (the last one a property of another run under another option) on
an instance of the same modules and ends in a counterexample:

| Configuration | Property | What it shows |
|---|---|---|
| `MCConsolidationOnce` | `SupportWiredOnce` (consolidation.rs:467) | overlapping or repeated cycles wire an observation twice |
| `MCConsolidationReopen` | `ClosedStaysClosed` (facts.rs:818) | an upsert that read a Fact open writes it open again after `invalidate_fact` |
| `MCConsolidationLocks` | `NoCircularWait` (locks.rs:32) | a drift record that creates its Entity waits for a stripe that its own task holds |
| `MCConsolidationSpillover` | `SpilloverIsPickedUp` (config.rs:22) | what a full batch leaves waits for a new notice, however many sweeps pass |
| `MCConsolidationStreamed` | `StreamedIsAnnounced` (website pipelines/index.md:149) | no streamed turn is announced: `IngestStep` never stores its observations in the context |
| `MCSessionIngestSession` | `OneSessionRow` (locks.rs:163) | a document and a turn each create the Session row |
| `MCSessionIngestEntity` | `OneEntityRow` (locks.rs:163) | an action and a turn that name one entity each create its row |
| `MCArtifactCurrent` | `CurrentGrounds` (repository/recall.rs:248) | one stamp anywhere, and an unscoped recall loses every chunk, the current revision's too |
| `MCArtifactReplay` | `ReplayIsIdempotent` (artifact.rs:501) | a unit with the same named document twice is refused with IdConflict |
| `MCArtifactContent` | `ContentIsLeftInPlace` (deletion.rs:187) | the content row goes with its last Artifact |
| `MCRecallScope` | `ScopeIsHard` (recall/mod.rs:273) | the graph channel of phase 2 answers from outside the session scope |
| `MCRecallEmpty` | `EmptyMatchesNothing` (recall/mod.rs:273) | an empty list of sessions, with the sparse channel enabled, is no restriction to it |
| `MCRecallForgotten` | `ForgottenIsHidden` (facade/session.rs:408) | an observation forgotten before it is consolidated comes back as a Fact |
| `MCSessionWired` | `LoneFinalizeIsWired` (session_chunk.rs:421) | ABOUT edges that a failure left out are never written later |
| `MCSessionIndex` | `KeptAtItsIndex` (session_chunk.rs:173) | two finalizes that overlap both create an index 1; a later one compares texts with positions in what it reads, not with the stored indices, finds them as they should be and keeps them, so a chunk goes on standing at the index of another |
| `MCProceduresRetry` | `ActiveHasRecurred` with ids chosen by the caller | an episode recorded again after a failure counts twice towards promotion |
| `MCProceduresDemoted` | `DemotionIsNotUndone` (procedures.rs:302) | a sweep writes back the status it read before a use demoted the procedure |
| `MCRuleLifecycleOff` | `NoDecayUnswept` with `RunRulesInSweep` off | rules that are never run decay pass after pass |

Bounds and why they are enough. Two tasks give every pairwise overlap of
cycles, and a third observation lets one object outvote the other across two
batches. Each of the two stripes of a drift record is also that of a Fact, so cycles
meet on them in either order; in `consolidation_live` the two are one, so that a drift
record which creates its Entity blocks itself. A certainty threshold of two, instead of ten, is crossed by two votes. One
failure at any await, with the cycle that follows it, covers every point at
which a cycle can die; the erasure falls between any two steps. One permit and
one channel place make every acquisition and submission contend; three items
give one that runs, one that waits and one that is turned away. `MaxFailures`,
`MaxErasures` and `MaxRequests` bound only environment actions. Two calls are
enough for each duplicate and each lost update between two writers, and for a
unit chained behind another; the longest wait of `SessionIngest` involves two
tasks, since every other pair of them waits alike. bob's node key has the stripe
number of the session's setup key and the very stripe of an entity's key, so a
call holds one while it asks for the other. In `ArtifactStore` two calls and a
deletion meet pairwise in every order, and a unit of two attachments is the
shortest that meets its own memo; `Recall` has a turn inside and one outside of
each scope and a belief that rests on both; a recall has at most four places at
which a write can matter, and two writes undo or complete each other at any two
of them. In `SessionSurface` two turns that state the same make one row that has
to survive the loss of the turn it came from, and the third call is the lone one
that repairs what two overlapping ones left. `RuleLifecycle` has a scale of eight
on which a match outweighs a decay as in the defaults (0.05 against 5 per cent at
0.4), and needs two agents for the two throttles to part. Three episodes are the
fewest with a pair that recurs (1-2, 2-3); two recorders overlap in every order.

Fairness. `Consolidation!FairSpec`: a cycle that has begun runs on while it can;
failures are never forced, and nothing makes a cycle begin. That cycles keep being
requested of every task is a premise of `EventuallyProcessed`
(`CyclesKeepBeingRequested`) and not a promise of the code: what a full batch leaves
waits for a new notice (`MCConsolidationSpillover`). The property allows for the tasks
that a panic or a drift record stops for good. `IngestPipeline!FairSpec`: the worker, each spawned task, each started
`submit_ingest` and a polling `quiesce` are scheduled by tokio, steps end, and
the semaphore, which is FIFO in tokio, serves each waiter (weak fairness of each
item's `Run` suffices here because a permit that is held comes back and the
number of items is finite). Nobody is obliged to submit, flush or shut down.
`ConsolidationWorker!FairSpec`: the worker is scheduled and its timer fires;
callers owe nothing. `SessionIngest!FairSpec`: strong fairness of each writer's
steps, because a tokio mutex queues its waiters: a writer that finds its stripe
free again and again is served. `Fails`, deletions and the crash are never
forced, so a call ends without their help. `RuleLifecycle!FairSpec`: some agent
goes on having cycles, the one worker does not stop within a sweep, and time goes
on (strong, since a tick only falls between sweeps); rules need not be defined or
match. `Procedures!FairSpec`: the agent goes on having cycles, started calls go on.
The other modules claim safety only.

`OneRowPerKey` is claimed of the rows that recording creates. The Session rows of
documents and the Entity rows of linkers (and of drift records) are not among them:
with these a key can have two rows (`MCSessionIngestSession`, `MCSessionIngestEntity`).
`NoCircularWait` and `CallsEnd` of `SessionIngest` are about its writers; a linker holds
one stripe and waits for nothing while it does, a drift record of `Consolidation` nests
two. `ScopeBinds` names its two exceptions (the graph walk, and the sparse channel of
phases 2 and 3 when nothing is in scope); `GapsAreClosed` is claimed as long as no two turns
were chained behind the same one, because `splice_next` keeps one of the pairs a
victim joins; `DuplicatesOverlap` is what is left of idempotency without a lock
on `message_id`: a duplicate can only come from calls that overlap.

`AnnouncedIsConsolidated` is claimed for batches that hold the backlog and as
long as no cycle fails, because the code promises no more: the counter is reset
whatever the cycle leaves behind (see `MCConsolidationSpillover`).

## Proofs

`ConsolidationProofs`, for any observations, facts, tasks and bounds:

* `TypeCorrect`: `Spec => []TypeOK`, one step per action; the lemmas
  `CycleUpdate`, `FactUpdate`, `EntityUpdate` treat updates of a field once.
* `EvidenceIsKept`: `Spec => []EvidenceKept`. It is not inductive: a cycle that
  is about to mark its batch must already have wired it. The strengthening says
  that from the await after `WireSupport` on, each observation of the batch
  rests on a Fact of its own group (`OwnEvidence`); `SupportGrows` says that no
  step removes an edge (Facts keep their edges; erased observations are marked
  deleted), `OtherCycles` that a step leaves other cycles alone.

A second inductive invariant over these two results is for the
four numbers and relations that overlapping cycles could spoil:

* `LockInv`: the stripes of two tasks are disjoint, a task that takes its fact stripes
  holds the lower ones and then all of them (`StripeInv`), and between `ReadFacts` and
  `UpdateFacts` what it read of the Facts it holds is still so (deletions and
  `invalidate_fact` take no lock, but do not touch counts). Without it a count
  computed from the snapshot could overwrite a larger one.
* `OnlyMergesCanEntangle`, from `StripeInv`: of finitely many tasks that wait for one
  another, none of which merges an Entity, one that holds stripes takes more of its
  fact stripes, and the one that asks for the greatest waits for none of the others.
  With a merge among them nothing excludes a circle.
* `CountInv`: for each Fact, the edges that are there and those a cycle has paid
  for and not wired yet (`Due`) together do not exceed its count. Each upsert
  raises both sides alike, each wiring moves edges from one term to the other:
  `CountsCoverSupport`.
* `RivalInv`: what a cycle is about to close has a replacement with evidence:
  `ReplacementsAreSupported`.
* `DriftInv`: an Entity's count and the records a cycle still owes it do not exceed
  the INVALIDATES edges: `DriftIsAlwaysEarned`.
* `ReopeningIsAnUpgrade` is an action property that follows from `LockInv`.

Edges are counted as a set of numbered edges (`Edges`), which turns multiplicity
into cardinality (`EdgesGrow`).

`WorkerProofs`, of the worker, for any agents, turns, queue and thresholds:
`TypeCorrect`; `CountersStayEarned`: counter plus the notices in the channel never
exceed what the agent announced (`Marks` counts the notices in a sequence);
`NothingIsOwed`: between two messages no counter stands at the threshold (`NoCycleIsOwed`,
which is proved and not checked by a run).

`WorkerProofs`, of the surfaces of a session, for any callers, turns, observations
and ids:

* The content and what is read of a surface are sorted lists. `SortedLists` says
  that `Sorted` lists the elements of a finite set, each once, for any order that
  makes a line of it. It needs no induction: the number of elements before each is
  an injection into as many numbers as there are elements, hence onto. Of rows with
  one index either may come first; `ReadingsList` covers every such order.
* `SurfaceInvariance`: `SurfaceInv` is inductive. What a call has read is a list of
  rows of its surface without repetition (`RowList`), its content one of different
  texts (`TextList`), and no id that it remembers is that of a row of the other
  surface (`Owns`), because new rows get ids that nobody remembers. So a call
  cannot remove rows of the surface it is not at work on. `SurfaceTypeCorrect`
  follows.
* `TranscriptStays`: `SurfaceSpec => TranscriptNeverVanishes`. A replacement either
  keeps a row, which is still there because the transaction has checked it, or
  keeps none and creates at least one, since the content is not empty.
* `LoneFinalizeCompletes`: `SurfaceSpec => []LoneFinalizeIsComplete`. Of the calls in
  progress one at most is alone (`AloneInv`); while it is, what it has read is still
  so and what it has done still holds (`LoneInv`, an account of `UpToDate` at each
  await). The rows may be in any order and under any indices: `ReplacementShows`
  needs only that they are all the rows of the surface and that the content has no
  text twice. The theorem is about texts and not about indices, because what the
  comment says of those is not so (`MCSessionIndex`).

`IngestPipelineProofs`, for any items, capacity, concurrency and number of steps:

* `Invariance`: `IInv` is inductive. `InflightExact` and `PermitsExact` relate a
  number to the cardinality of a set of items, so each step has to move exactly
  one item in or out of it. `Orderly` adds what that needs: items in the channel
  are pairwise different and have no task yet (or `Receive` could take back a
  finished item), and only accepted items have tasks.
* `TypeCorrect`, `InflightNeverDrifts`, `PermitsNeverLeak` follow. The upper
  bound of `permits` is a consequence of `PermitsExact`, not of any guard.
* `QuiesceIsBarrierAtRest`: a counter of 0 with no submission half done means
  that finished and counted items, one a subset of the other, are equally many,
  so they are the same.
* `PipelineImplementsContract`: `Spec => KeepsContract`, by mapping each action
  to an action of the contract or a stutter. `Acquire` maps to `Start` because a
  free permit and `PermitsExact` leave fewer than `Concurrency` items working.

`SessionIngestProofs`, for any writers, units, keys and hash functions:

* `HeadsAreRecorded`: `Spec => []HeadIsRecorded`. A replay takes the head from
  what the probe found, and a commit from the unit it wrote, so `IInv` adds that
  every Message row has a record of its commit
  (`MessagesAreRecorded`), that a probe found only such rows (`FoundIsRecorded`),
  that a call at work is about a unit of its writer and that the participants it
  has yet to see to are participants (`CallsInOrder`; otherwise the row that
  `MergeNode` creates could be a turn's).
* `RowsAreUnique`, `EntityCountsStayExact`, `DuplicatesComeFromOverlap`, from a
  second invariant `SInv` over `IInv`, of rows that are not `unguarded` and of their
  frequencies. `LockInv`: a call between the lookup and the
  insert of a key owns the key's stripe, so of all calls only one may create the row
  of a key (`OneCreator`), however keys collide. `Knows`: what such a call found
  absent is absent still, and what its transaction read of the entities is still so,
  because a step of another call adds no row of that key (`Grows`). `Numbered`: rows
  of a key are numbered without gaps, deleted ones included, so a new row is none
  that was there before (`FreshIsNew`). `CountInv` relates frequencies to the
  messages, of which a commit adds as many as its unit has turns (`RowsOfUnit`).
  `Looked`: a turn that a probe did not find has no message from before the call,
  and a new row cannot be one of those.
* `WaitsAreNeverCircular`, from a third invariant `OrderInv`: what a call holds of a
  table is the lower part of what it wants of it (`Lowest`), it holds setup stripes
  only in a setup, and wants RMW stripes either for one node or for its entities. So
  in any finite set of calls the one that asks for the greatest stripe, of the RMW
  table if any does, waits for none of the others. The two tables matter: in one, a
  setup could wait for its own stripe.
* `GapsStayClosed`, from a fourth invariant `ChainInv`. Messages were committed in an
  order in which each goes back to an earlier one (`Backwards`) and every NEXT edge
  goes forward (`Forwards`), so chains have no circle; the order need not be known,
  it is enough that there is one. While the chain is simple, `Chained` says that the
  edges lead to each message from the nearest of its predecessors that is still there
  and from nowhere else. A splice then finds at most one pair to join
  (`SpliceKeepsChain`), and what it joins is what the nearest predecessor becomes
  without the victim (`NearWithout`). The messages of a session go all at once and
  unspliced, which leaves no gap because a simple chain stays within its session.
  `NearestLive` and the chains left by a sequence of deletions (`SplicedAll`, in any
  order) are recursive functions, and that they satisfy their equations
  (`NearIsRecursive`, `AfterIsRecursive`) would be an induction. It is shown without
  one: a function that does is built from what is in every set closed under the
  equations (from the rows a walk cannot avoid, and from the edges every relation
  must allow), and so the recursive definition chooses one that does. That a chain
  survives all the deletions (`SpliceAllKeepsChain`) follows because the chains of
  which it is said form such a relation.
* `TypeCorrect`, from a fifth invariant `TInv` beside the others. `Ready` is its
  core: the senders of a unit are in the context or still to be seen to, and all of
  them are in it when the transaction begins, whichever were skipped as known; and
  no sender enters a context before the session does. So a message is committed
  with the rows of both. The edges get their types from `Forwards`, the frequencies
  from `CountInv`, the heads from `HeadIsRecorded`.

`RecallProofs`, for any turns, sessions, beliefs and bounds: `ForgottenStaysHidden`,
`PrivateStaysPrivate`, `ScopeBindsEveryPhase`. The invariant has a part about the
graph (what a `forget_message` undertook to hide is redacted as long as it is
stored, and ids are not reused), one about history (what was hidden when the recall
began is hidden still or erased) and one about how far the gates have come, each
with one lemma for the writers and one for the recall. `FoundIsNotLost` adds
that the lists of the phases are finite (a query returns so many rows), so that the
best of a list that holds something hold something. `ScopeBindsEveryPhase` carries the
two exceptions of `ScopeBinds`.

`ArtifactStoreProofs`, for any calls, units, contents, stripes and bounds:
`TypeCorrect`, `ContentIsStoredOnce`, `UnnamedAreUnique`, `ContentIsKept`,
`NothingIsStranded`, `OneRevisionIsCurrent`, `RecallStaysCurrent`, all from one
invariant `IInv`, because none of them is inductive and they need one another:

* `Settled`: the id of a row names the call that made it, and only rows of calls
  that are done are in the store. New rows are therefore nobody else's.
* `StripesHeld` and `Fresh`: from its snapshot to its end a transaction holds the
  content stripes of its unit, so the store has no row of these bytes that the
  snapshot lacks. This is what stands in for the unique index.
* `Snapshot`: a row that a snapshot shows is gone, or the same, or superseded.
* `ContentsInTx`, `ArtifactsInTx`: what a transaction would write is right on top of
  its snapshot, each new Artifact has the bytes it names, and whatever it refers to
  or supersedes without a lock is among the rows it has read, so that `Serializable`
  excludes a commit after they changed. With `Fresh` this makes it right on top of
  the store.
* `InDeletion`: a deletion locks nothing; since it read the store the contents it
  collected can have gained only referrers that are recorded as raced, and a content
  it means to keep still has another referrer.
* `InRecall`: after each of its reads, what was stale when a recall began is out of
  the store or out of what the next read admits.

`WaitsAreNeverCircular` needs one more invariant, `OrderInv`: a call holds the
lowest of the stripes it wants, through all of its attempts, and none before it has
a unit. Whoever waits for a call that waits too therefore asks for a lower stripe
than it does, and of finitely many calls one asks for the greatest. No run checks
`NoCircularWait` of this module (the calls of `MCArtifactStore` may stop anywhere, so
its deadlock check is off): the theorem is what shows it.

`Serializable` compares only rows of the snapshot: an attachment may match a row that
an earlier one of its unit has just made, which no other transaction can change.

`RuleLifecycleProofs`, for any rules of distinct names, thresholds and intervals:
`ActiveHasItsProgram` (a rule without its program is pruned or on the point of it,
and cannot match in between), `MatchProtects` (the reward outweighs one decay, by
the assumption on the thresholds), `DecayWaitsForATurn` (as long as an active rule
waits for its turn, no agent has run the rules since the last decay, so decay
cannot be due before some agent's run is: `sinceDecay <= since[a]`; under the
hypothesis `RunRulesInSweep`).

`ProceduresProofs`, for any episodes, tasks, timestamps and thresholds, provided
`record_episode` generates the ids (`Retries = FALSE`): `ChainsStayChains`: edges and the
edges that calls are about to create form chains that only grow at their ends, towards
what was not there yet; `PromotionIsEarned` by counting the distinct pairs that a
detected row, a snapshot or a stored counter can stand for.

Assumptions: the named ASSUMEs on the constants, which TLC evaluates in the runs
(a unit is not empty and repeats no message id, which P0 of `ingest_turns_atomic`
checks; keys of turns, sessions, participants and entities differ, as their labels
do; a reward outweighs one decay, as the default thresholds do; identifiers that
stand for "nothing" are not values). `DistinctNames`, `RunRulesInSweep` and
`Retries = FALSE` are hypotheses of the theorems that need them.

Only model-checked: all liveness (`EventuallyProcessed`, `AcceptedFinishes`,
`QuiesceEnds`, `ShutdownEndsTasks`, `AnnouncedIsConsolidated`, `ShutdownStopsWorker`, `CallsEnd`,
`OnlyMatchingStaysActive`, `RecurringIsLearnt`), which is out of the prover's
reach. Every invariant and every action property of a passing run is proved.

## Not modelled

The map covers the code that keeps state over several steps. Most of the rest of
the source is not of that kind, and a model of it would only repeat it: schema and
configuration declarations, query text, scores and rankings (floating point),
extraction and language processing (text), the bindings to other languages,
REST tools and benchmarks. In particular:

* Query translation, NER, NLP, observation and temporal rules, chunking and PDF
  layout: functions of text without shared state.
* The circuit breaker is built and shown by `health`, but nothing calls it. Were
  it used, `record_success` would swap the state and then zero the count in two
  steps, and every caller that finds it half-open would pass, where one probe is
  documented.
* The dead-letter queue is written and never read. Goals, tasks, policies and
  working memory are single writes, except for the read-modify-write of a task's
  metrics, which takes no lock. Topic detection clusters embeddings. The summary
  of a session is an LLM text and one edge.
* Shutdown: the joining of the handles within the deadline, and dropping the
  system without it. `purge_all` empties the store in one call.
* In `SessionIngest`: chunks, PARTICIPATED_IN and MENTIONS edges, and a commit
  that takes effect although its caller is told that it failed. In `ArtifactStore`:
  parsing and pooling after the commit, and the back ends of the blob store, each of
  them one idempotent PUT.
* In `Recall`: scores, reranking, and the query cache. In `RuleLifecycle`: the four
  rules of the standard library, whose confidence is fixed. In `Procedures`: matching
  (a read), and what else an episode is connected to.

Noted while reading and not the subject of a run: `ShutdownCoordinator` documents
an error on timeout and returns Ok always; a worker that misses the deadline is
detached, though the log says aborted; items still queued at shutdown are dropped;
a closed Fact that is voted for again is counted and stays closed; replaying an
older unit moves a handle's head back, so the next unit forks the chain; a handle
whose session was deleted goes on attaching turns to the row that is gone, and
fails at the first turn of each new sender; `reevaluate_facts` reads the remaining
evidence before the erasing transaction commits.

## Possible extensions

1. The worker's sweep as one composition of `ConsolidationWorker`, `RuleLifecycle`,
   `Procedures` and `SessionSurface`, which share its one task and its throttles.
2. Joining of the worker handles within the shutdown deadline.
