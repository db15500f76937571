------------------------------- MODULE Recall -------------------------------
(***************************************************************************)
(* recall(): the three phases of the cascade (Compact, Expand, Broaden),   *)
(* the redaction gate and the viewer gate, beside the operations that      *)
(* decide what it may show: ingest, forget_message, delete_message and     *)
(* consolidation.  A Chunk here is a turn's; those of a whole session are  *)
(* the subject of SessionSurface.                                          *)
(*                                                                         *)
(* Every query of the cascade is a read of its own, so a writer may run    *)
(* between any two of its steps.  A recall writes nothing: one at a time   *)
(* is modelled, and the next one starts from the state the writers left.   *)
(* What a search ranks first is not modelled: a channel returns any TopK   *)
(* of the rows it may return, or nothing when its query fails.  A coverage *)
(* score is not modelled either: with enough items it may pass the gate.   *)
(***************************************************************************)
EXTENDS Integers, FiniteSets

CONSTANTS
  Turns, Sessions, Beliefs,
  SessionOf,      \* the session of a turn
  Scopes,         \* the session lists a caller may name
  Says,           \* the belief a turn's observation supports
  TopK,           \* bound on the rows one phase keeps
  MinItems,       \* items a phase needs to be sufficient (3 in the code)
  MergeCap,       \* PHASE1_MERGE_CAP and PHASE1_FALLBACK_CAP (3 in the code)
  Limit,          \* min(limit, token_budget / TOKENS_PER_ITEM)
  SparseEnabled,  \* recall_sparse_enabled (FALSE by default)
  MaxPrivate,     \* bound on nodes private at a time
  MaxBeside,      \* bound on writes while one recall is in progress
  None

ASSUME RecallAssumption ==
  /\ SessionOf \in [Turns -> Sessions]
  /\ Scopes \in SUBSET SUBSET Sessions
  /\ Says \in [Turns -> Beliefs]
  /\ TopK \in Nat /\ MinItems \in Nat \ {0} /\ MergeCap \in Nat /\ Limit \in Nat
  /\ MaxPrivate \in Nat /\ MaxBeside \in Nat /\ SparseEnabled \in BOOLEAN
  /\ None \notin Turns

Kinds == {"Message", "Chunk", "Observation"}
Message(t) == <<"Message", t>>
Chunk(t) == <<"Chunk", t>>
Observation(t) == <<"Observation", t>>
Fact(b) == <<"Fact", b>>

Node == (Kinds \X Turns) \cup ({"Fact"} \X Beliefs)
ByPolicy == {n \in Node : n[1] \in {"Fact", "Observation"}}   \* these have a visibility
ByFlag == Node \ ByPolicy

VARIABLES
  stored,      \* nodes in the graph
  redacted,    \* a redacted flag, or a visibility of redacted:forgotten
  private,     \* nodes whose visibility names one participant
  supports,    \* SUPPORTED_BY: the turns whose observation a Fact rests on
  processed,   \* observations a consolidation cycle has marked
  cycle,       \* the observation a cycle has upserted and not yet wired
  call,        \* the recall in progress
  owed,        \* history: nodes a forget_message undertook to hide
  gone,        \* history: the turns deleted; their ids are not used again
  beside       \* writes since the recall in progress began

graph == <<stored, redacted, private, supports, processed, cycle, gone>>
vars == <<graph, call, owed, beside>>

Viewers == {"trusted", "owner", "outsider"}   \* Unrestricted, or As(viewer)
Anything == Node
NoCall == [at |-> "idle", scope |-> {}, scoped |-> FALSE, viewer |-> "trusted",
           allow |-> {}, unfiltered |-> FALSE, p1 |-> {}, p2 |-> {}, walked |-> {},
           found |-> FALSE, items |-> {}, owedThen |-> {}, privateThen |-> {}]

Init ==
  /\ stored = {} /\ redacted = {} /\ private = {} /\ processed = {}
  /\ supports = [b \in Beliefs |-> {}]
  /\ cycle = None /\ call = NoCall /\ owed = {} /\ gone = {} /\ beside = 0
-----------------------------------------------------------------------------
(* The writers.                                                            *)

(* A turn, its chunk and its observation, in one transaction; an id once.  *)
Ingest(t) ==
  /\ Message(t) \notin stored /\ t \notin gone
  /\ stored' = stored \cup {Message(t), Chunk(t), Observation(t)}
  /\ UNCHANGED <<redacted, private, supports, processed, cycle, call, owed, gone>>

(* Facts with an edge to t's observation and none to another's.            *)
RestsOnlyOn(t) == {Fact(b) : b \in {c \in Beliefs : supports[c] = {t}}} \cap stored

(* Mutant: the Facts that rest on the turn alone are left as they are.    *)
TombstonesOfTurn(t) == {Message(t), Chunk(t), Observation(t)} \cap stored

(* forget_message: one transaction of four tombstones.                     *)
Tombstones(t) ==
  ({Message(t), Chunk(t), Observation(t)} \cap stored) \cup RestsOnlyOn(t)
Forget(t) ==
  /\ Message(t) \in stored
  /\ redacted' = redacted \cup Tombstones(t)
  /\ private' = private \ Tombstones(t)
  /\ owed' = owed \cup {Message(t), Chunk(t), Observation(t)} \cup RestsOnlyOn(t)
  /\ UNCHANGED <<stored, supports, processed, cycle, call, gone>>

(* delete_message: the turn's own nodes go with their edges; a Fact that   *)
(* loses its last support is closed, which no search asks about.           *)
Delete(t) ==
  /\ Message(t) \in stored
  /\ stored' = stored \ {Message(t), Chunk(t), Observation(t)}
  /\ redacted' = redacted \cap stored' /\ private' = private \cap stored'
  /\ supports' = [b \in Beliefs |-> supports[b] \ {t}]
  /\ gone' = gone \cup {t}
  /\ UNCHANGED <<processed, cycle, call, owed>>

(* A consolidation cycle takes any unprocessed observation, whatever its   *)
(* visibility; a new Fact has none.                                        *)
Upsert(t) ==
  /\ cycle = None /\ Observation(t) \in stored /\ t \notin processed
  /\ stored' = stored \cup {Fact(Says[t])}
  /\ cycle' = t
  /\ UNCHANGED <<redacted, private, supports, processed, call, owed, gone>>

(* SUPPORTED_BY, if the observation is still there, and PROCESSED; they    *)
(* are two commits, which Consolidation tells apart.                       *)
Support ==
  /\ cycle # None
  /\ supports' = IF Observation(cycle) \in stored
                 THEN [supports EXCEPT ![Says[cycle]] = @ \cup {cycle}] ELSE supports
  /\ processed' = processed \cup {cycle}
  /\ cycle' = None
  /\ UNCHANGED <<stored, redacted, private, call, owed, gone>>

(* The host, with a query of its own, scopes a Fact or an Observation that *)
(* is not redacted to one participant.                                     *)
MakePrivate(n) ==
  /\ n \in (ByPolicy \cap stored) \ (redacted \cup private)
  /\ Cardinality(private) < MaxPrivate
  /\ private' = private \cup {n}
  /\ UNCHANGED <<stored, redacted, supports, processed, cycle, call, owed, gone>>
-----------------------------------------------------------------------------
(* The cascade.                                                            *)

(* A Fact belongs to no session.                                           *)
InScope(n, scope) == n[1] \in Kinds /\ SessionOf[n[2]] \in scope

(* The rows one phase keeps of S.                                          *)
Few(S) == {T \in SUBSET S : IsFiniteSet(T) /\ Cardinality(T) <= TopK}

(* The caller's scope: none, or a list of sessions, which may be empty.    *)
Start ==
  /\ call.at = "idle"
  /\ \E scoped \in BOOLEAN, scope \in Scopes \cup {{}} :
       /\ ~scoped => scope = {}
       /\ call' = [NoCall EXCEPT !.at = "resolve", !.scoped = scoped, !.scope = scope,
                                 !.owedThen = owed, !.privateThen = private]
  /\ UNCHANGED <<graph, owed>>

(* resolve_exclude_set and resolve_scope_allow_set.  Without a scope the   *)
(* allow-set is built only when some source is retired or some revision is *)
(* superseded (ArtifactStore says when), and then has Messages and         *)
(* Observations but no Chunk and no Fact.                                  *)
Anchored == {n \in stored : n[1] \in {"Message", "Observation"}}
AllowSets(scoped, scope) ==
  IF scoped THEN {{n \in stored : InScope(n, scope)}} ELSE {Anything, Anchored}
Resolve ==
  /\ call.at = "resolve"
  /\ \/ \E allow \in AllowSets(call.scoped, call.scope) :
          call' = [call EXCEPT !.at = "compact", !.allow = allow,
                               !.unfiltered = SparseEnabled /\ allow = {}]
     \/ call' = [call EXCEPT !.at = "failed"]
  /\ UNCHANGED <<graph, owed>>

(* Mutant: phase 1 searches every tier.                                    *)
CompiledOrNot == stored \cap call.allow

(* Phase 1: vector search over the consolidated tier.                      *)
Compiled == {n \in stored \cap call.allow : n[1] = "Fact"}

Sufficient(items) == Cardinality(items) >= MinItems

(* finalize_bundle: the best `limit` items of a list; a list may hold a    *)
(* node twice, once from each phase.                                       *)
Best(items, limit) ==
  {S \in SUBSET items : Cardinality(S) = (IF Cardinality(items) < limit THEN Cardinality(items)
                                                                         ELSE limit)}
Nodes(items) == {i[2] : i \in items}
Trimmed(items) == {Nodes(S) : S \in Best(items, Limit)}
From(phase, nodes) == {phase} \X nodes

(* The gates come next; what the phases hold is not asked for again.       *)
Gated(found, items) ==
  [call EXCEPT !.at = "flags", !.allow = {}, !.p1 = {}, !.p2 = {},
               !.found = found # {}, !.items = items]

(* Phase 1 answers when it is sufficient and, by the lookup of             *)
(* any_unstable_entities, no entity the query names is drifting.           *)
Compact ==
  /\ call.at = "compact"
  /\ \E p1 \in Few(Compiled) :
       \/ call' = [call EXCEPT !.at = "expand", !.p1 = p1]
       \/ /\ Sufficient(p1)
          /\ \E items \in Trimmed(From(1, p1)) :
               call' = Gated(p1, items)
  /\ UNCHANGED <<graph, owed>>

(* The sparse channel, one kind of node in each of phases 2 and 3, takes an*)
(* allow-set that is empty for none: it then searches all there is.        *)
Unfiltered(kind) == IF call.unfiltered THEN {n \in stored : n[1] = kind} ELSE {}

(* Phase 2: vector, full-text and temporal channels take the allow-set; the*)
(* graph channel walks from the entities the query names and reads whatever*)
(* it reaches that has content or is a belief.                             *)
Searched ==
  {n \in stored \cap call.allow : n[1] \in {"Message", "Observation", "Fact"}}
    \cup Unfiltered("Observation")
Reached == {n \in stored : n[1] \in {"Message", "Observation", "Fact"}}

(* Under Phase1Strategy::Merge the best of phase 1 is appended, not merged *)
(* by node; under Boost and Off it is not.                                 *)
Contribution == Best(From(1, call.p1), MergeCap) \cup {{}}

(* rrf_fuse, the score floor and mmr_dedup each keep some of the rest.     *)
(* When phase 2 is sufficient it may answer.                               *)
Expand ==
  /\ call.at = "expand"
  /\ \E p2 \in Few(Searched \cup Reached) :
       \/ call' = [call EXCEPT !.at = "broaden", !.p2 = p2, !.walked = p2 \ Searched]
       \/ /\ Sufficient(p2)
          /\ \E best \in Contribution : \E items \in Trimmed(From(2, p2) \cup best) :
               call' = [Gated(p2, items) EXCEPT !.walked = p2 \ Searched]
  /\ UNCHANGED <<graph, owed>>

(* Mutant: phase 3 does not apply the allow-set.                           *)
BroadenedAnywhere == {n \in stored : n[1] \in {"Chunk", "Observation"}}

(* Phase 3: hybrid and sparse search over Chunks, and the Chunks and       *)
(* Observations about the entities the query names.                        *)
Broadened ==
  {n \in stored \cap call.allow : n[1] \in {"Chunk", "Observation"}} \cup Unfiltered("Chunk")

(* Mutant: phase 3 found nothing, so the answer is empty.                  *)
FallBackNothing == call' = Gated(call.p2, {})

(* Phase 3 found nothing: phase 2's items, or the empty bundle.            *)
FallBack ==
  \E items \in Trimmed(From(2, call.p2)) : call' = Gated(call.p2, items)

(* Phase 3 found something: with the best of phase 1, each node once;      *)
(* phase 2's items are dropped.                                            *)
Merged(p3, best) == From(3, p3 \cup Nodes(best))
Broaden ==
  /\ call.at = "broaden"
  /\ \E p3 \in Few(Broadened) :
       IF p3 = {} THEN FallBack
       ELSE \E best \in Contribution : \E items \in Trimmed(Merged(p3, best)) :
              call' = Gated(p3, items)
  /\ UNCHANGED <<graph, owed>>

(* filter_redacted: two lookups, flags and then visibilities; a node that  *)
(* is gone by then has no row and is kept.  An error fails the recall.     *)
(* The viewer the caller named matters from here on.                       *)
RedactFlags ==
  /\ call.at = "flags"
  /\ call' = [call EXCEPT !.at = "visibility", !.found = FALSE,
                          !.items = @ \ (ByFlag \cap stored \cap redacted)]
  /\ UNCHANGED <<graph, owed>>

RedactByVisibility ==
  /\ call.at = "visibility"
  /\ \E viewer \in Viewers :
       call' = [call EXCEPT !.at = IF viewer = "trusted" THEN "done" ELSE "view",
                  !.viewer = viewer, !.items = @ \ (ByPolicy \cap stored \cap redacted)]
  /\ UNCHANGED <<graph, owed>>

(* Mutant: a visibility that names someone admits everyone.               *)
AdmitsUnredacted(viewer, n) == n \notin redacted

(* filter_bundle: visibility_admits, which fails closed on redacted:.      *)
Admits(viewer, n) == n \notin redacted /\ (n \in private => viewer = "owner")
View ==
  /\ call.at = "view"
  /\ call' = [call EXCEPT !.at = "done",
       !.items = {n \in @ : n \in ByPolicy \cap stored => Admits(call.viewer, n)}]
  /\ UNCHANGED <<graph, owed>>

LookupFails ==
  /\ \/ call.at \in {"flags", "visibility"} /\ call.items # {}
     \/ call.at = "view"                     \* the memberships of the viewer, too
  /\ call' = [call EXCEPT !.at = "failed"]
  /\ UNCHANGED <<graph, owed>>

Answer ==
  /\ call.at \in {"done", "failed"}
  /\ call' = NoCall
  /\ UNCHANGED <<graph, owed>>

Beside ==
  /\ beside < MaxBeside
  /\ beside' = IF call.at = "idle" THEN 0 ELSE beside + 1
Write ==
  \/ \E t \in Turns : Ingest(t) \/ Forget(t) \/ Delete(t) \/ Upsert(t)
  \/ Support
  \/ \E n \in ByPolicy : MakePrivate(n)
Step ==
  \/ Start \/ Resolve \/ Compact \/ Expand \/ Broaden
  \/ RedactFlags \/ RedactByVisibility \/ View \/ LookupFails \/ Answer
Next ==
  \/ Write /\ Beside
  \/ Step /\ beside' = (IF call'.at = "idle" THEN 0 ELSE beside)

Spec == Init /\ [][Next]_vars
-----------------------------------------------------------------------------
(* Properties.                                                             *)

(* Every variable has its type; phase 1 has only consolidated nodes.       *)
TypeOK ==
  /\ stored \in SUBSET Node /\ redacted \in SUBSET Node /\ private \in SUBSET ByPolicy
  /\ supports \in [Beliefs -> SUBSET Turns]
  /\ processed \in SUBSET Turns /\ cycle \in Turns \cup {None}
  /\ owed \in SUBSET Node /\ gone \in SUBSET Turns /\ beside \in Nat
  /\ call \in [at : {"idle", "resolve", "compact", "expand", "broaden", "flags",
                      "visibility", "view", "done", "failed"},
                scope : SUBSET Sessions, scoped : BOOLEAN, viewer : Viewers,
                allow : SUBSET Node, unfiltered : BOOLEAN,
                p1 : SUBSET ({"Fact"} \X Beliefs), p2 : SUBSET Node,
                walked : SUBSET Node, found : BOOLEAN, items : SUBSET Node, owedThen : SUBSET Node,
                privateThen : SUBSET Node]

(* What a forget_message hid before a recall began (the turn, its Chunk,   *)
(* its Observation, the Facts that then rested on it alone) and is still   *)
(* stored is not in the answer, whatever ran in between and whichever      *)
(* phase answered.                                                         *)
ForgottenIsNotRecalled ==
  call.at = "done" => call.items \cap call.owedThen \cap stored = {}

(* A viewer whom the visibility of a Fact or Observation did not admit     *)
(* when the recall began does not get it.                                  *)
OutsiderSeesNoPrivate ==
  call.at = "done" /\ call.viewer = "outsider" => call.items \cap call.privateThen \cap stored = {}

(* Under a session scope an answer holds only what belongs to the sessions *)
(* named, by every phase, merge and fallback, with two exceptions: what the*)
(* graph channel of phase 2 reached, and what the sparse channel found when*)
(* it is enabled and nothing is in scope.                                  *)
BySparse(n) == call.unfiltered /\ n[1] \in {"Observation", "Chunk"}
ScopeBinds ==
  call.scoped => \A n \in call.items : InScope(n, call.scope) \/ n \in call.walked \/ BySparse(n)

(* What phase 2 or 3 found is not discarded for an empty bundle by the     *)
(* phase after it.                                                         *)
FoundIsReturned ==
  call.at = "flags" /\ call.found /\ Limit > 0 => call.items # {}

(* A session filter is "only these sessions" (recall/mod.rs:281).          *)
ScopeIsHard ==
  call.at = "done" /\ call.scoped => \A n \in call.items : InScope(n, call.scope)

(* An empty list of sessions matches nothing and returns no results        *)
(* (recall/mod.rs:274): the answer has at most what the graph channel      *)
(* reached, the subject of ScopeIsHard.                                    *)
EmptyMatchesNothing ==
  call.at = "done" /\ call.scoped /\ call.scope = {} => call.items \subseteq call.walked

(* forget_turn hides a turn from recall; derived Facts and Observations    *)
(* are redacted (facade/session.rs:408): an answer holds nothing that      *)
(* comes from turns forgotten before the recall began and from no other.   *)
Origin(n) == IF n[1] = "Fact" THEN supports[n[2]] ELSE {n[2]}
ForgottenIsHidden ==
  call.at = "done" =>
    \A n \in call.items \cap stored :
      (\A t \in Origin(n) : Message(t) \in call.owedThen) => Origin(n) = {}
=============================================================================
