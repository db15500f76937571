----------------------------- MODULE Procedures -----------------------------
(***************************************************************************)
(* How an agent learns procedures: it records episodes, which are chained  *)
(* in time; the sweep of the consolidation worker counts which action      *)
(* follows which, makes procedures of the pairs that recur, and prunes     *)
(* the episodes that have decayed; the application reports its uses of a   *)
(* procedure, which demote and reinstate it.                               *)
(*                                                                         *)
(* One agent.  Every await is a step and may fail, which ends the call; a  *)
(* caller that chose the episode's id may then record it again.  What else *)
(* an episode is connected to, and its embedding, is the last step.  Which *)
(* episodes have decayed depends on importance and age and is left open.   *)
(***************************************************************************)
EXTENDS Integers, FiniteSets

CONSTANTS
  Episode,      \* episode ids: version 7 UUIDs, which are generated in order
  Recorder,     \* tasks that call record_episode
  User,         \* tasks that call record_procedure_use
  ActionOf,     \* action_type of each episode
  Succeeded,    \* the episodes whose outcome is "success"
  MaxStamp,     \* timestamps are 1..MaxStamp
  Window,       \* FOLLOWED_BY_WINDOW_MS
  Promote,      \* promote_threshold
  DemoteBelow,  \* demote_effectiveness, in percent
  ReinstateAt,  \* repromote_effectiveness, in percent
  Retries,      \* whether callers choose ids and record them again
  MaxUses, MaxFaults,  \* bounds on uses and on awaits that fail
  None

ASSUME ProceduresAssumption ==
  /\ {MaxStamp, Window, DemoteBelow, ReinstateAt, MaxUses, MaxFaults} \subseteq Nat
  /\ Promote \in Nat \ {0} /\ Retries \in BOOLEAN
  /\ Succeeded \subseteq Episode /\ Episode \subseteq Nat /\ None \notin Nat
  /\ None \notin [stamp : Nat, recorded : Nat]
  /\ DemoteBelow <= ReinstateAt /\ ReinstateAt <= 100

Action == {ActionOf[e] : e \in Episode}
Pair == Action \X Action
Status == {"candidate", "active", "deprecated"}

VARIABLES
  episode,    \* Episode nodes: timestamp and number of RECORDED_BY edges
  followed,   \* number of FOLLOWED_BY edges between two episodes
  procedure,  \* Procedure nodes
  recorder, worker, user,
  begun,      \* ids that record_episode was called with
  uses, faults,
  linked      \* history: distinct episodes one of which has followed the other

vars == <<episode, followed, procedure, recorder, worker, user, begun, uses, faults, linked>>

NoCall == [at |-> "idle", id |-> None, stamp |-> 0, prev |-> None]
NoUse == [at |-> "idle", pair |-> None, snap |-> None, ok |-> FALSE]
NoSweep == [at |-> "idle", rows |-> [p \in Pair |-> 0], todo |-> {}, pair |-> None,
            snap |-> None, doomed |-> {}]

Init ==
  /\ episode = [e \in Episode |-> None]
  /\ followed = [l \in Episode \X Episode |-> 0]
  /\ procedure = [p \in Pair |-> None]
  /\ recorder = [c \in Recorder |-> NoCall] /\ user = [u \in User |-> NoUse] /\ worker = NoSweep
  /\ begun = {} /\ uses = 0 /\ faults = 0 /\ linked = {}

Stored == {e \in Episode : episode[e] # None}
Recorded == {e \in Stored : episode[e].recorded > 0}
Fault == faults < MaxFaults /\ faults' = faults + 1
-----------------------------------------------------------------------------
(* record_episode                                                          *)

Fresh(e) == e \notin begun /\ \A d \in Episode \ begun : e <= d
Begin(c, e, t) ==
  /\ recorder[c].at = "idle"
  /\ Fresh(e) \/ (Retries /\ e \in Stored)
  /\ begun' = begun \cup {e}
  /\ recorder' = [recorder EXCEPT ![c] = [at |-> "look", id |-> e, stamp |-> t, prev |-> None]]
  /\ UNCHANGED <<episode, followed, procedure, worker, user, uses, faults, linked>>

(* previous_episode_in_window: the latest, and any of two as late.         *)
InWindow(t) == {e \in Recorded : t - Window <= episode[e].stamp /\ episode[e].stamp <= t}
Latest(S) == {e \in S : \A d \in S : episode[d].stamp <= episode[e].stamp}
Look(c) ==
  /\ recorder[c].at = "look"
  /\ LET S == Latest(InWindow(recorder[c].stamp))
     IN  \E p \in IF S = {} THEN {None} ELSE S :
           recorder' = [recorder EXCEPT ![c].at = "merge", ![c].prev = p]
  /\ UNCHANGED <<episode, followed, procedure, worker, user, begun, uses, faults, linked>>

Merge(c) ==
  LET e == recorder[c].id IN
  /\ recorder[c].at = "merge"
  /\ episode' = [episode EXCEPT ![e] =
       [stamp |-> recorder[c].stamp, recorded |-> IF e \in Stored THEN episode[e].recorded ELSE 0]]
  /\ recorder' = [recorder EXCEPT ![c].at = "attach"]
  /\ UNCHANGED <<followed, procedure, worker, user, begun, uses, faults, linked>>

(* An edge of a node that has been pruned meanwhile is an error.           *)
Attach(c) ==
  LET e == recorder[c].id IN
  /\ recorder[c].at = "attach"
  /\ \/ /\ e \in Stored
        /\ episode' = [episode EXCEPT ![e].recorded = @ + 1]
        /\ recorder' = [recorder EXCEPT ![c].at = IF recorder[c].prev = None THEN "finish" ELSE "follow"]
     \/ e \notin Stored /\ recorder' = [recorder EXCEPT ![c] = NoCall] /\ UNCHANGED episode
  /\ UNCHANGED <<followed, procedure, worker, user, begun, uses, faults, linked>>

(* Mutant: the predecessor is looked up once the episode is there.         *)
FollowLatest(c) ==
  LET e == recorder[c].id
      S == Latest(InWindow(recorder[c].stamp))
  IN
  /\ recorder[c].at = "follow" /\ e \in Stored
  /\ \E p \in S : followed' = [followed EXCEPT ![<<p, e>>] = @ + 1]
  /\ recorder' = [recorder EXCEPT ![c].at = "finish"]
  /\ UNCHANGED <<episode, procedure, worker, user, begun, uses, faults, linked>>

Follow(c) ==
  LET l == <<recorder[c].prev, recorder[c].id>> IN
  /\ recorder[c].at = "follow"
  /\ \/ /\ {l[1], l[2]} \subseteq Stored
        /\ followed' = [followed EXCEPT ![l] = @ + 1]
        /\ linked' = IF l[1] # l[2] THEN linked \cup {l} ELSE linked
        /\ recorder' = [recorder EXCEPT ![c].at = "finish"]
     \/ /\ ~({l[1], l[2]} \subseteq Stored)
        /\ recorder' = [recorder EXCEPT ![c] = NoCall] /\ UNCHANGED <<followed, linked>>
  /\ UNCHANGED <<episode, procedure, worker, user, begun, uses, faults>>

Finish(c) ==
  /\ recorder[c].at = "finish"
  /\ recorder' = [recorder EXCEPT ![c] = NoCall]
  /\ UNCHANGED <<episode, followed, procedure, worker, user, begun, uses, faults, linked>>

Fails(c) ==
  /\ recorder[c].at # "idle"
  /\ recorder' = [recorder EXCEPT ![c] = NoCall] /\ Fault
  /\ UNCHANGED <<episode, followed, procedure, worker, user, begun, uses, linked>>

Record(c) == Look(c) \/ Merge(c) \/ Attach(c) \/ Follow(c) \/ Finish(c) \/ Fails(c)
-----------------------------------------------------------------------------
(* The worker: promote_procedures_once, then consume_relevance_decay.      *)

(* sequence_detector: one row for every match of its pattern, which has an *)
(* edge of either type in it.                                              *)
Links(p) == {l \in DOMAIN followed :
               /\ followed[l] > 0 /\ {l[1], l[2]} \subseteq Succeeded
               /\ <<ActionOf[l[1]], ActionOf[l[2]]>> = p}
Rows(p) == UNION {{l} \X (1..followed[l]) \X (1..episode[l[1]].recorded) : l \in Links(p)}
Count(p) == Cardinality(Rows(p))

Detect ==
  /\ worker.at = "idle"
  /\ \/ /\ worker' = [worker EXCEPT !.at = "upsert", !.rows = [p \in Pair |-> Count(p)],
                                    !.todo = {p \in Pair : Count(p) > 0}]
        /\ UNCHANGED faults
     \/ worker' = [worker EXCEPT !.at = "decay"] /\ Fault
  /\ UNCHANGED <<episode, followed, procedure, recorder, user, begun, uses, linked>>

Snapshot(p) ==
  /\ worker.at = "upsert" /\ p \in worker.todo
  /\ \/ /\ worker' = [worker EXCEPT !.at = "write", !.todo = @ \ {p}, !.pair = p, !.snap = procedure[p]]
        /\ UNCHANGED faults
     \/ worker' = [NoSweep EXCEPT !.at = "decay"] /\ Fault
  /\ UNCHANGED <<episode, followed, procedure, recorder, user, begun, uses, linked>>

AtLeast(x, n) == IF x < n THEN n ELSE x
Merged(s, n, status) ==
  [status |-> status, uses |-> AtLeast(s.uses, n), success |-> AtLeast(s.success, n), failure |-> s.failure]
NoProcedure == [status |-> "candidate", uses |-> 0, success |-> 0, failure |-> 0]

(* Mutants: without a status at first; promoted when seen again; never     *)
(* promoted later.                                                         *)
UpsertedBlank(s, n) == IF s = None THEN Merged(NoProcedure, n, "") ELSE Merged(s, n, s.status)
UpsertedOnSight(s, n) ==
  IF s = None THEN Merged(NoProcedure, n, "candidate")
  ELSE Merged(s, n, IF s.status = "candidate" THEN "active" ELSE s.status)
UpsertedOnce(s, n) ==
  IF s = None THEN Merged(NoProcedure, n, IF n >= Promote THEN "active" ELSE "candidate")
  ELSE Merged(s, n, s.status)

Upserted(s, n) ==
  LET old == IF s = None THEN NoProcedure ELSE s
  IN  Merged(old, n, IF old.status = "candidate" /\ n >= Promote THEN "active" ELSE old.status)

Write ==
  /\ worker.at = "write"
  /\ \/ /\ procedure' = [procedure EXCEPT ![worker.pair] = Upserted(worker.snap, worker.rows[worker.pair])]
        /\ worker' = [worker EXCEPT !.at = "upsert", !.pair = None, !.snap = None]
        /\ UNCHANGED faults
     \/ worker' = [NoSweep EXCEPT !.at = "decay"] /\ Fault /\ UNCHANGED procedure
  /\ UNCHANGED <<episode, followed, recorder, user, begun, uses, linked>>

Detected ==
  /\ worker.at = "upsert" /\ worker.todo = {}
  /\ worker' = [NoSweep EXCEPT !.at = "decay"]
  /\ UNCHANGED <<episode, followed, procedure, recorder, user, begun, uses, faults, linked>>

(* relevance_decay yields episodes, which are deleted one by one.          *)
Decay ==
  /\ worker.at = "decay"
  /\ \/ /\ \E S \in SUBSET Recorded : worker' = [NoSweep EXCEPT !.at = "prune", !.doomed = S]
        /\ UNCHANGED faults
     \/ worker' = NoSweep /\ Fault
  /\ UNCHANGED <<episode, followed, procedure, recorder, user, begun, uses, linked>>

Prune(e) ==
  /\ worker.at = "prune" /\ e \in worker.doomed
  /\ \/ /\ episode' = [episode EXCEPT ![e] = None]
        /\ followed' = [l \in Episode \X Episode |-> IF e \in {l[1], l[2]} THEN 0 ELSE followed[l]]
        /\ worker' = [worker EXCEPT !.doomed = @ \ {e}]
        /\ UNCHANGED faults
     \/ worker' = NoSweep /\ Fault /\ UNCHANGED <<episode, followed>>
  /\ UNCHANGED <<procedure, recorder, user, begun, uses, linked>>

Pruned ==
  /\ worker.at = "prune" /\ worker.doomed = {}
  /\ worker' = NoSweep
  /\ UNCHANGED <<episode, followed, procedure, recorder, user, begun, uses, faults, linked>>

Sweep ==
  \/ Detect \/ Write \/ Detected \/ Decay \/ Pruned
  \/ \E p \in Pair : Snapshot(p)
  \/ \E e \in Episode : Prune(e)
-----------------------------------------------------------------------------
(* record_procedure_use                                                    *)

ReadUse(u, p, ok) ==
  /\ user[u].at = "idle" /\ procedure[p] # None /\ uses < MaxUses
  /\ uses' = uses + 1
  /\ user' = [user EXCEPT ![u] = [at |-> "write", pair |-> p, snap |-> procedure[p], ok |-> ok]]
  /\ UNCHANGED <<episode, followed, procedure, recorder, worker, begun, faults, linked>>

Below(s, percent) == 100 * s.success < percent * (s.success + s.failure)
Counted(s, ok) == [s EXCEPT !.uses = @ + 1, !.success = IF ok THEN @ + 1 ELSE @,
                            !.failure = IF ok THEN @ ELSE @ + 1]
Used(s, ok) ==
  LET c == Counted(s, ok) IN
  [c EXCEPT !.status =
     CASE @ = "active" /\ Below(c, DemoteBelow) -> "deprecated"
       [] @ = "deprecated" /\ ~Below(c, ReinstateAt) -> "active"
       [] OTHER -> @]

WriteUse(u) ==
  /\ user[u].at = "write"
  /\ \/ /\ procedure' = [procedure EXCEPT ![user[u].pair] = Used(user[u].snap, user[u].ok)]
        /\ UNCHANGED faults
     \/ Fault /\ UNCHANGED procedure
  /\ user' = [user EXCEPT ![u] = NoUse]
  /\ UNCHANGED <<episode, followed, recorder, worker, begun, uses, linked>>

Next ==
  \/ \E c \in Recorder, e \in Episode, t \in 1..MaxStamp : Begin(c, e, t)
  \/ \E c \in Recorder : Record(c)
  \/ Sweep
  \/ \E u \in User, p \in Pair, ok \in BOOLEAN : ReadUse(u, p, ok)
  \/ \E u \in User : WriteUse(u)

Spec == Init /\ [][Next]_vars

(* The agent goes on having cycles, and no call hangs.                     *)
FairSpec ==
  /\ Spec /\ WF_vars(Sweep)
  /\ \A c \in Recorder : WF_vars(Record(c))
  /\ \A u \in User : WF_vars(WriteUse(u))
-----------------------------------------------------------------------------
(* Properties.                                                             *)

Node == [stamp : 1..MaxStamp, recorded : Nat]
Procedure == [status : Status, uses : Nat, success : Nat, failure : Nat]
Call == [at : {"idle", "look", "merge", "attach", "follow", "finish"},
         id : Episode \cup {None}, stamp : 0..MaxStamp, prev : Episode \cup {None}]
Use == [at : {"idle", "write"}, pair : Pair \cup {None}, snap : Procedure \cup {None}, ok : BOOLEAN]
Worker == [at : {"idle", "upsert", "write", "decay", "prune"}, rows : [Pair -> Nat],
           todo : SUBSET Pair, doomed : SUBSET Episode, pair : Pair \cup {None},
           snap : Procedure \cup {None}]

(* Every variable has its type; counters grow only by what was counted.    *)
TypeOK ==
  /\ episode \in [Episode -> Node \cup {None}]
  /\ followed \in [Episode \X Episode -> Nat]
  /\ procedure \in [Pair -> Procedure \cup {None}]
  /\ recorder \in [Recorder -> Call] /\ worker \in Worker /\ user \in [User -> Use]
  /\ begun \subseteq Episode /\ uses \in 0..MaxUses /\ faults \in 0..MaxFaults
  /\ linked \subseteq Episode \X Episode

(* The predecessor is looked up before the episode is created              *)
(* (episode.rs:136), so that FOLLOWED_BY leads from what was there to what *)
(* comes: an episode has one predecessor, and chains do not close, however *)
(* the calls overlap.                                                      *)
Follows == {l \in DOMAIN followed : followed[l] > 0}
Closed(S) == S # {} /\ \A e \in S : \E d \in S : <<d, e>> \in Follows
ChainsRunForward ==
  /\ \A S \in SUBSET {l[1] : l \in Follows} : ~Closed(S)
  /\ \A l \in Follows : episode[l[1]].stamp <= episode[l[2]].stamp
  /\ \A e \in Episode : Cardinality({l \in Follows : l[2] = e}) <= 1

(* A procedure is active once its sequence has recurred (procedures.rs:36):*)
(* it has been seen between promote_threshold distinct pairs of episodes.  *)
Learnt(p) == procedure[p] # None /\ procedure[p].status # "candidate"
Recurrences(p) == {l \in linked : <<ActionOf[l[1]], ActionOf[l[2]]>> = p /\ {l[1], l[2]} \subseteq Succeeded}
ActiveHasRecurred ==
  \A p \in Pair : Learnt(p) => Cardinality(Recurrences(p)) >= Promote

(* A sequence that has recurred, and is not forgotten, is learnt, whatever *)
(* stale snapshots are written over the procedure meanwhile.               *)
RecurringIsLearnt ==
  \A p \in Pair : <>[](Count(p) >= Promote) => <>[]Learnt(p)

(* Demotion is owned by record_procedure_use (procedures.rs:302): no sweep *)
(* takes it back.                                                          *)
Reinstated(p) == procedure[p].status = "deprecated" /\ procedure'[p].status # "deprecated"
DemotionIsNotUndone == [][\A p \in Pair : procedure[p] # None /\ Reinstated(p) => ~Sweep]_vars
=============================================================================
