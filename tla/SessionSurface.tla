--------------------------- MODULE SessionSurface ---------------------------
(***************************************************************************)
(* What is built of a whole session: its two chunk surfaces (the           *)
(* transcript and the observations) and its ended_at, by finalize and by   *)
(* the sweep of the consolidation worker, while turns come and go.         *)
(*                                                                         *)
(* Every read and every commit is a step of its own, and every await may   *)
(* fail; a crash is the failure of all tasks, which keep nothing.  A turn  *)
(* fills one chunk and states at most one observation, so the text of a    *)
(* chunk is the turn, or what it says.  Transactions are those of          *)
(* ArtifactStore: one cannot commit once a row it read is gone, and does   *)
(* not notice rows that appeared.                                          *)
(***************************************************************************)
EXTENDS Integers, Sequences, FiniteSets, FiniteSetsExt

CONSTANTS
  Caller,     \* callers of finalize (or summarize), and the worker
  LastTurn,   \* turns are 1..LastTurn, in the order of their timestamps
  Says,       \* the observation a turn states, None if it states none
  MaxRows,    \* bound on chunk ids in use
  MaxCalls,   \* bound on calls begun
  None

Turns == 1..LastTurn

ASSUME SessionSurfaceAssumption ==
  /\ LastTurn \in Nat \ {0} /\ MaxRows \in Nat /\ MaxCalls \in Nat
  /\ DOMAIN Says = Turns /\ None \notin Turns

VARIABLES
  present,    \* the Messages of the session
  past,       \* turns that have been in the session
  rows,       \* its Chunks, with the ABOUT edges of each
  ended,      \* ended_at: the last turn it was stamped with
  task,       \* the call each task is in
  calls       \* calls begun

surfaceVars == <<present, past, rows, ended, task, calls>>

Surfaces == {"session", "observation"}
Edges == {"entity", "participant"}
Idle == [at |-> "idle", op |-> "none", surface |-> "session", existing |-> <<>>, fresh |-> <<>>,
         ids |-> {}, last |-> None, alone |-> FALSE]

SurfaceInit ==
  /\ present = {} /\ past = {} /\ rows = {} /\ ended = None
  /\ task = [f \in Caller |-> Idle] /\ calls = 0
-----------------------------------------------------------------------------
(* The content of the session.                                             *)

(* The elements of S, each after those that precede it.                    *)
Sorted(S, Precedes) ==
  [k \in 1..Cardinality(S) |->
     CHOOSE x \in S : Cardinality({y \in S : <<y, x>> \in Precedes}) = k - 1]
InOrder(S) == Sorted(S, {p \in S \X S : p[1] < p[2]})

(* session_transcript_rows, and session_observation_rows without the rows  *)
(* that repeat an earlier one.                                             *)
Stating == {t \in present : Says[t] # None /\ \A u \in present : u < t => Says[u] # Says[t]}
Content(surface) ==
  IF surface = "session" THEN InOrder(present)
  ELSE [k \in 1..Cardinality(Stating) |-> Says[InOrder(Stating)[k]]]

(* session_chunk_rows: ordered by index alone; of two rows with one index  *)
(* either may come first.                                                  *)
Of(surface) == {r \in rows : r.surface = surface}
ReadBefore(surface, first) ==
  {p \in Of(surface) \X Of(surface) :
     \/ p[1].idx < p[2].idx
     \/ /\ p[1].idx = p[2].idx
        /\ \/ p[1] \in first /\ p[2] \notin first
           \/ (p[1] \in first <=> p[2] \in first) /\ p[1].id < p[2].id}
Reading(surface, first) == Sorted(Of(surface), ReadBefore(surface, first))
Tied(surface) == {r \in Of(surface) : \E q \in Of(surface) \ {r} : q.idx = r.idx}
Readings(surface) == {Reading(surface, first) : first \in SUBSET Tied(surface)}

(* Mutant: a row stays for its index, whatever its text is.                *)
CommonByIndex(existing, fresh) ==
  IF Len(existing) < Len(fresh) THEN Len(existing) ELSE Len(fresh)

(* resolve_existing: the prefix that is as it should be stays.             *)
Common(existing, fresh) ==
  Max({0} \cup {n \in 1..Len(existing) :
                  n <= Len(fresh) /\ \A k \in 1..n : existing[k].text = fresh[k]})
Reusable(existing, fresh) ==
  Common(existing, fresh) = Len(existing) /\ Len(existing) = Len(fresh)
KeptIds(existing, fresh) == {existing[k].id : k \in 1..Common(existing, fresh)}
Doomed(existing, fresh) ==
  {existing[k].id : k \in (Common(existing, fresh) + 1)..Len(existing)}

(* Ids no Chunk has and no task remembers; an id is never given again.     *)
Remembered(t) == {t.existing[k].id : k \in DOMAIN t.existing} \cup t.ids
Unused ==
  (1..MaxRows) \ ({r.id : r \in rows} \cup UNION {Remembered(task[f]) : f \in Caller})

(* The rows of the suffix.                                                 *)
Created(surface, existing, fresh) ==
  LET from == Common(existing, fresh)
      ids == InOrder(Unused)
  IN  {[id |-> ids[k - from], surface |-> surface, idx |-> k, text |-> fresh[k], about |-> {}] :
         k \in (from + 1)..Len(fresh)}
Room(existing, fresh) == Cardinality(Unused) >= Len(fresh) - Common(existing, fresh)

Without(ids) == {r \in rows : r.id \notin ids}
-----------------------------------------------------------------------------
(* Turns; a turn cannot come twice.                                        *)
Disturbed == [f \in Caller |-> [task[f] EXCEPT !.alone = FALSE]]

Observe(t) ==
  /\ t \notin past
  /\ present' = present \cup {t} /\ past' = past \cup {t}
  /\ task' = Disturbed
  /\ UNCHANGED <<rows, ended, calls>>

Delete(t) ==
  /\ t \in present
  /\ present' = present \ {t}
  /\ task' = Disturbed
  /\ UNCHANGED <<past, rows, ended, calls>>
-----------------------------------------------------------------------------
(* A call begins.  There is one worker, and so one sweep at a time.        *)
Begin(f, op) ==
  /\ task[f].at = "idle" /\ calls < MaxCalls
  /\ calls' = calls + 1
  /\ op = "sweep" => \A g \in Caller : task[g].op # "sweep"
  /\ task' = [Disturbed EXCEPT
       ![f] = [Idle EXCEPT !.op = op, !.at = IF op = "sweep" THEN "close" ELSE "existing",
                           !.alone = \A g \in Caller \ {f} : task[g].at = "idle"]]
  /\ UNCHANGED <<present, past, rows, ended>>

(* The transcript comes first, then the observations, then ended_at.       *)
NextSurface(t) ==
  [t EXCEPT !.existing = <<>>, !.fresh = <<>>, !.ids = {},
            !.at = IF t.surface = "session" THEN "existing" ELSE "stamp",
            !.surface = "observation"]

ReadExisting(f) ==
  /\ task[f].at = "existing"
  /\ \E s \in Readings(task[f].surface) :
       task' = [task EXCEPT ![f].existing = s, ![f].at = "rows"]
  /\ UNCHANGED <<present, past, rows, ended, calls>>

(* With nothing to chunk, drop_stale_chunks; the transcript is planned in  *)
(* its transaction, the observations on the rows read before.              *)
ReadRows(f) ==
  /\ task[f].at = "rows"
  /\ LET surface == task[f].surface
         fresh == Content(surface)
     IN  task' = [task EXCEPT ![f] =
           IF fresh = <<>> /\ @.existing = <<>> THEN NextSurface(@)
           ELSE IF fresh = <<>> THEN [@ EXCEPT !.at = "drop"]
           ELSE IF surface = "session"
                THEN [@ EXCEPT !.at = "begin", !.fresh = fresh, !.existing = <<>>]
           ELSE IF Reusable(@.existing, fresh) THEN NextSurface(@)
           ELSE [@ EXCEPT !.at = "plan", !.fresh = fresh]]
  /\ UNCHANGED <<present, past, rows, ended, calls>>

Drop(f) ==
  /\ task[f].at = "drop"
  /\ rows' = Without(Doomed(task[f].existing, <<>>))
  /\ task' = [task EXCEPT ![f] = NextSurface(@)]
  /\ UNCHANGED <<present, past, ended, calls>>

(* chunk_session_with: the closure of transact_with_retry.                 *)
BeginTx(f) ==
  /\ task[f].at = "begin"
  /\ \E s \in Readings("session") :
       task' = [task EXCEPT ![f].existing = s, ![f].at = "commit"]
  /\ UNCHANGED <<present, past, rows, ended, calls>>

Unchanged(existing) == \A k \in DOMAIN existing : existing[k] \in rows

(* Mutant: the doomed rows go in a transaction of their own.               *)
ReplaceInTwo(f) ==
  LET existing == task[f].existing
      fresh == task[f].fresh
  IN  /\ task[f].at = "commit" /\ ~Reusable(existing, fresh)
      /\ Unchanged(existing) /\ Room(existing, fresh)
      /\ IF Doomed(existing, fresh) # {}
         THEN /\ rows' = Without(Doomed(existing, fresh))
              /\ task' = [task EXCEPT ![f].existing = SubSeq(@, 1, Common(existing, fresh))]
         ELSE /\ rows' = rows \cup Created("session", existing, fresh)
              /\ task' = [task EXCEPT ![f] = NextSurface(@)]
      /\ UNCHANGED <<present, past, ended, calls>>

Replace(f) ==
  LET existing == task[f].existing
      fresh == task[f].fresh
  IN  /\ task[f].at = "commit"
      /\ \/ Reusable(existing, fresh) /\ rows' = rows
         \/ /\ ~Reusable(existing, fresh) /\ Unchanged(existing) /\ Room(existing, fresh)
            /\ rows' = Without(Doomed(existing, fresh)) \cup Created("session", existing, fresh)
      /\ task' = [task EXCEPT ![f] = NextSurface(@)]
      /\ UNCHANGED <<present, past, ended, calls>>

Conflict(f) ==
  /\ task[f].at = "commit" /\ ~Unchanged(task[f].existing)
  /\ task' = [task EXCEPT ![f].at = "begin", ![f].existing = <<>>]
  /\ UNCHANGED <<present, past, rows, ended, calls>>

(* apply_plan: what is left of the doomed rows goes, the suffix is created *)
Apply(f) ==
  LET existing == task[f].existing
      fresh == task[f].fresh
      created == Created("observation", existing, fresh)
  IN  /\ task[f].at = "plan" /\ Room(existing, fresh)
      /\ rows' = Without(Doomed(existing, fresh)) \cup created
      /\ task' = [task EXCEPT ![f].at = "entity", ![f].existing = <<>>, ![f].fresh = <<>>,
                              ![f].ids = KeptIds(existing, fresh) \cup {r.id : r \in created}]
      /\ UNCHANGED <<present, past, ended, calls>>

(* The ABOUT edges: those to entities are one commit, those to             *)
(* participants the next.  Rows that are gone get none.                    *)
Wire(f) ==
  /\ task[f].at \in Edges
  /\ rows' = {IF r.id \in task[f].ids /\ Stating # {}
              THEN [r EXCEPT !.about = @ \cup {task[f].at}] ELSE r : r \in rows}
  /\ task' = [task EXCEPT ![f] =
       IF @.at = "entity" THEN [@ EXCEPT !.at = "participant"] ELSE NextSurface(@)]
  /\ UNCHANGED <<present, past, ended, calls>>

(* stamp_session_ended_at: the last message, then the update.              *)
LastMessage == IF present = {} THEN None ELSE Max(present)
Stamped(t) == [t EXCEPT !.last = None, !.at = "returned"]
ReadLast(f) ==
  /\ task[f].at = "stamp"
  /\ task' = [task EXCEPT ![f] =
       IF LastMessage = None THEN Stamped(@) ELSE [@ EXCEPT !.last = LastMessage, !.at = "ended"]]
  /\ UNCHANGED <<present, past, rows, ended, calls>>
Stamp(f) ==
  /\ task[f].at = "ended"
  /\ ended' = task[f].last
  /\ task' = [task EXCEPT ![f] = Stamped(@)]
  /\ UNCHANGED <<present, past, rows, calls>>

(* close_inactive_sessions: whether the last message is old enough is left *)
(* open.  A session without messages is not found.                         *)
Close(f) ==
  /\ task[f].at = "close"
  /\ \/ ended = None /\ present # {}
        /\ task' = [task EXCEPT ![f].last = LastMessage, ![f].at = "ended"]
     \/ task' = [task EXCEPT ![f] = Idle]
  /\ UNCHANGED <<present, past, rows, ended, calls>>

(* An error, or a crash, ends the call.                                    *)
Fails(f) ==
  /\ task[f].at \notin {"idle", "returned"}
  /\ task' = [task EXCEPT ![f] = Idle]
  /\ UNCHANGED <<present, past, rows, ended, calls>>

Return(f) ==
  /\ task[f].at = "returned"
  /\ task' = [task EXCEPT ![f] = Idle]
  /\ UNCHANGED <<present, past, rows, ended, calls>>

Step(f) ==
  \/ ReadExisting(f) \/ ReadRows(f) \/ Drop(f) \/ BeginTx(f) \/ Replace(f) \/ Conflict(f)
  \/ Apply(f) \/ Wire(f) \/ ReadLast(f) \/ Stamp(f) \/ Close(f) \/ Fails(f)
  \/ Return(f)
SurfaceNext ==
  \/ \E t \in Turns : Observe(t) \/ Delete(t)
  \/ \E f \in Caller : Step(f) \/ \E op \in {"finalize", "sweep"} : Begin(f, op)

SurfaceSpec == SurfaceInit /\ [][SurfaceNext]_surfaceVars
-----------------------------------------------------------------------------
(* Properties.                                                             *)

Row == [id : 1..MaxRows, surface : Surfaces, idx : Turns,
        text : Turns \cup {Says[t] : t \in Turns}, about : SUBSET Edges]

(* Every variable has its type; a Chunk id is that of one Chunk.           *)
SurfaceTypeOK ==
  /\ present \subseteq past /\ past \subseteq Turns
  /\ rows \subseteq Row /\ \A q, r \in rows : q.id = r.id => q = r
  /\ ended \in Turns \cup {None} /\ calls \in 0..MaxCalls
  /\ \A f \in Caller :
       /\ task[f].at \in {"idle", "close", "existing", "rows", "drop", "begin", "commit", "plan",
                          "stamp", "ended", "returned"} \cup Edges
       /\ task[f].op \in {"none", "finalize", "sweep"}
       /\ task[f].surface \in Surfaces /\ task[f].ids \subseteq 1..MaxRows
       /\ task[f].last \in Turns \cup {None}
       /\ task[f].alone \in BOOLEAN

(* Each text of the content is that of one chunk, and nothing else is.     *)
Shows(surface) ==
  /\ {r.text : r \in Of(surface)} = {Content(surface)[k] : k \in DOMAIN Content(surface)}
  /\ \A q, r \in Of(surface) : q.text = r.text => q = r

(* A finalize that nothing overlapped leaves each text of the session on   *)
(* its surface exactly once and no other, and ended_at at its last         *)
(* message, whatever earlier calls that failed or met each other left      *)
(* behind (the staleness test, session_chunk.rs:166).                      *)
LoneFinalizeIsComplete ==
  \A f \in Caller :
    task[f].at = "returned" /\ task[f].op = "finalize" /\ task[f].alone =>
      /\ \A surface \in Surfaces : Shows(surface)
      /\ present # {} => ended = LastMessage

(* "a chunk is kept only when its stored text exactly equals the freshly   *)
(* computed text at the same index" (session_chunk.rs:173): after a lone   *)
(* finalize each chunk holds the text of its own index.                    *)
KeptAtItsIndex ==
  \A f \in Caller :
    task[f].at = "returned" /\ task[f].op = "finalize" /\ task[f].alone =>
      \A r \in rows : /\ r.idx \in DOMAIN Content(r.surface)
                      /\ r.text = Content(r.surface)[r.idx]

(* Recall never observes a session that had transcript chunks without any  *)
(* (session_chunk.rs:67), unless a task found it without content.          *)
TranscriptNeverVanishes ==
  [][Of("session") # {} /\ Of("session")' = {} =>
       \E f \in Caller : task[f].at = "drop"]_surfaceVars

(* The same of the observations, which are planned outside the transaction *)
(* that replaces them.                                                     *)
ObservationsNeverVanish ==
  [][Of("observation") # {} /\ Of("observation")' = {} =>
       \E f \in Caller : task[f].at = "drop"]_surfaceVars

(* A stale plan is a conflict and does not commit (session_chunk.rs:345):  *)
(* the transcript surface does not lose a turn that is in the session.     *)
Covered == {r.text : r \in Of("session")}
CoveredStaysCovered == [][Covered \cap present \cap present' \subseteq Covered']_surfaceVars

(* The observation surface is wired ABOUT what the observations mention    *)
(* (session_chunk.rs:421 and :457) when a lone finalize returns.           *)
LoneFinalizeIsWired ==
  \A f \in Caller :
    task[f].at = "returned" /\ task[f].op = "finalize" /\ task[f].alone =>
      \A r \in Of("observation") : r.about = Edges
=============================================================================
