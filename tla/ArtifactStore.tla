--------------------------- MODULE ArtifactStore ---------------------------
(***************************************************************************)
(* Documents as evidence: ingest_source / ingest_artifact / ingest_pdf and *)
(* the attachments of a unit, the deletions beside them, retirement of a   *)
(* logical source, and the choice of evidence by a recall.                 *)
(*                                                                         *)
(* A call ingests one unit of attachments in one transaction.  A row is    *)
(* the pair of the call and the attachment that created it.  uni-db's SSI  *)
(* is modelled from how the code uses it: a transaction reads its snapshot *)
(* and its own writes, and cannot commit once a row it matched has changed *)
(* (a row that appeared is not noticed).  A Page, Block or Chunk is created*)
(* and deleted with its Artifact, so an Artifact stands for its subtree.   *)
(***************************************************************************)
EXTENDS Integers, Sequences, FiniteSets, FiniteSetsExt, TLC

CONSTANTS
  Call, Deletion, Recaller,        \* tasks; each runs one operation
  Units,                           \* the units a call may ingest
  Name, Hash, Source, Revision, Session,
  Stripe,                          \* stripe of a content lock key
  Scopes,                          \* the scopes a recall may be given
  None,
  MaxAttempts,                     \* RetryOptions::max_attempts
  MaxRetirements                   \* bound on retire and restore calls

Attachment ==
  [pdf : BOOLEAN, name : Name \cup {None}, hash : Hash, source : Source \cup {None},
   revision : Revision \cup {None}, session : Session \cup {None}]

ASSUME ArtifactStoreAssumption ==
  /\ Units \in [Call -> SUBSET Seq(Attachment)]
  /\ Name \cap Hash = {}
  /\ None \notin Name \cup Hash \cup Source \cup Revision \cup Session \cup Call
  /\ Stripe \in [Hash -> Nat]
  /\ MaxAttempts \in Nat \ {0}
  /\ MaxRetirements \in Nat

VARIABLES
  graph,       \* the rows of each label and the ATTACHED_TO edges
  sessions,    \* live sessions
  objects,     \* the blob store
  before,      \* the Artifacts in the snapshot an Artifact was created on
  call,        \* the ingest each call is in
  locks,       \* the holder of each stripe
  deletion, recall,
  retirements,
  raced, stranded  \* Artifacts and contents that met a deletion

vars == <<graph, sessions, objects, before, call, locks, deletion, recall, retirements,
          raced, stranded>>

Labels == {"artifact", "content", "source"}
Row == Call \X (Nat \ {0})

EmptyGraph == [artifact |-> <<>>, content |-> <<>>, source |-> <<>>, attached |-> {}]
Idle == [at |-> "idle", unit |-> <<>>, next |-> 1, attempts |-> 0,
         snap |-> EmptyGraph, tx |-> EmptyGraph, read |-> {}, seen |-> <<>>]
IdleDeletion == [at |-> "idle", snap |-> EmptyGraph, read |-> {}, artifacts |-> {},
                 contents |-> {}, session |-> None]
IdleRecall == [at |-> "idle", scope |-> None, stale |-> {}, current |-> {}, retired |-> {},
               superseded |-> {}, allow |-> {}, result |-> {}]

Stripes == {Stripe[h] : h \in Hash}

Init ==
  /\ graph = EmptyGraph /\ sessions = {} /\ objects = {} /\ before = <<>>
  /\ call = [c \in Call |-> Idle]
  /\ locks = [s \in Stripes |-> None]
  /\ deletion = [d \in Deletion |-> IdleDeletion]
  /\ recall = [q \in Recaller |-> IdleRecall]
  /\ retirements = 0 /\ raced = {} /\ stranded = {}
-----------------------------------------------------------------------------
(* f with x at r.                                                          *)
With(f, r, x) == [s \in DOMAIN f \cup {r} |-> IF s = r THEN x ELSE f[s]]

(* A row that was matched and has changed or gone since; what the          *)
(* transaction created itself is not in its snapshot and cannot conflict.  *)
Changed(snap, e) ==
  \/ e[2] \notin DOMAIN graph[e[1]]
  \/ graph[e[1]][e[2]] # snap[e[1]][e[2]]

Serializable(t) == \A e \in t.read : e[2] \in DOMAIN t.snap[e[1]] => ~Changed(t.snap, e)

At(c, place) == call[c].at = place
HeldBy(c) == {s \in Stripes : locks[s] = c}
Released(c) == [s \in Stripes |-> IF locks[s] = c THEN None ELSE locks[s]]

Ends(c, how) ==
  /\ call' = [call EXCEPT ![c] = [Idle EXCEPT !.at = how, !.unit = call[c].unit]]
  /\ locks' = Released(c)

others == <<deletion, recall, retirements>>

(* ingest_source materialises the session before it prepares the document. *)
Begin(c) ==
  /\ At(c, "idle")
  /\ \E u \in Units[c] :
       /\ call' = [call EXCEPT ![c].at = "prepare", ![c].unit = u]
       /\ sessions' = sessions \cup ({u[i].session : i \in DOMAIN u} \ {None})
  /\ UNCHANGED <<graph, objects, before, locks, others, raced, stranded>>

Prepared(c) == call[c].next > Len(call[c].unit)
Attached(c) == call[c].unit[call[c].next]

(* Hashing, the blob PUT and chunking, before any lock or transaction.     *)
Prepare(c) ==
  /\ At(c, "prepare")
  /\ ~Prepared(c)
  /\ objects' = objects \cup {Attached(c).hash}
  /\ call' = [call EXCEPT ![c].next = @ + 1]
  /\ UNCHANGED <<graph, sessions, before, locks, others, raced, stranded>>

(* Mutant: only the first attachment is locked.                            *)
FirstWanted(c) == {Stripe[call[c].unit[1].hash]}

(* lock_content_ids, or lock_ingest_unit for a unit: ascending stripes.    *)
Wanted(c) == {Stripe[call[c].unit[i].hash] : i \in DOMAIN call[c].unit}

Lock(c) ==
  /\ At(c, "prepare") /\ Prepared(c)
  /\ HeldBy(c) # Wanted(c)
  /\ LET s == Min(Wanted(c) \ HeldBy(c))
     IN /\ locks[s] = None
        /\ locks' = [locks EXCEPT ![s] = c]
  /\ UNCHANGED <<graph, sessions, objects, before, call, others, raced, stranded>>

(* Mutant: the snapshot is taken before the locks are held.                *)
BeginTxUnlocked(c) ==
  /\ At(c, "prepare") /\ Prepared(c)
  /\ call' = [call EXCEPT ![c].at = "tx", ![c].next = 1, ![c].attempts = @ + 1,
                          ![c].snap = graph, ![c].tx = graph, ![c].read = {}, ![c].seen = <<>>]
  /\ UNCHANGED <<graph, sessions, objects, before, locks, others, raced, stranded>>

(* A transaction opens on a snapshot, with a fresh memo.                   *)
BeginTx(c) ==
  /\ At(c, "prepare") /\ Prepared(c)
  /\ HeldBy(c) = Wanted(c)
  /\ call' = [call EXCEPT ![c].at = "tx", ![c].next = 1, ![c].attempts = @ + 1,
                          ![c].snap = graph, ![c].tx = graph, ![c].read = {}, ![c].seen = <<>>]
  /\ UNCHANGED <<graph, sessions, objects, before, locks, others, raced, stranded>>
-----------------------------------------------------------------------------
(* One attachment of the unit.  A caller's id is its identity, otherwise   *)
(* the bytes are; the memo answers before the store.                       *)
Identity(a) == IF a.name # None THEN a.name ELSE a.hash
InTx(c) == At(c, "tx") /\ ~Prepared(c)
Memo(c) == Identity(Attached(c)) \in DOMAIN call[c].seen

Matching(c) ==
  LET a == Attached(c)
      rows == call[c].tx.artifact
  IN {r \in DOMAIN rows :
        IF a.name # None THEN rows[r].name = a.name ELSE rows[r].hash = a.hash}

Links(c, r) ==
  LET a == Attached(c)
  IN call[c].tx.attached \cup (IF a.session \in sessions THEN {<<r, a.session>>} ELSE {})

(* An attachment that is already there only gets its provenance edges.     *)
Linked(c, r, under, matched) ==
  call' = [call EXCEPT
    ![c].next = @ + 1,
    ![c].tx.attached = Links(c, r),
    ![c].read = @ \cup matched,
    ![c].seen = With(@, Identity(Attached(c)), [row |-> r, under |-> under])]

(* The memo holds the id an artifact lives under; ingest_artifact compares *)
(* it to the hash when the caller chose the id, ingest_pdf does not.       *)
MemoMismatch(c) ==
  LET a == Attached(c)
  IN a.name # None /\ ~a.pdf /\ call[c].seen[Identity(a)].under # a.hash

MemoHit(c) ==
  /\ InTx(c) /\ Memo(c) /\ ~MemoMismatch(c)
  /\ LET s == call[c].seen[Identity(Attached(c))]
     IN Linked(c, s.row, s.under, {})
  /\ UNCHANGED <<graph, sessions, objects, before, locks, others, raced, stranded>>

MemoConflict(c) ==
  /\ InTx(c) /\ Memo(c) /\ MemoMismatch(c)
  /\ Ends(c, "conflict")
  /\ UNCHANGED <<graph, sessions, objects, before, others, raced, stranded>>

Under(c, r) ==
  IF call[c].tx.artifact[r].name # None THEN call[c].tx.artifact[r].name ELSE r

Dedup(c) ==
  /\ InTx(c) /\ ~Memo(c)
  /\ \E r \in Matching(c) :
       /\ call[c].tx.artifact[r].hash = Attached(c).hash
       /\ Linked(c, r, Under(c, r), {<<"artifact", r>>})
  /\ UNCHANGED <<graph, sessions, objects, before, locks, others, raced, stranded>>

NameConflict(c) ==
  /\ InTx(c) /\ ~Memo(c)
  /\ \E r \in Matching(c) : call[c].tx.artifact[r].hash # Attached(c).hash
  /\ Ends(c, "conflict")
  /\ UNCHANGED <<graph, sessions, objects, before, others, raced, stranded>>

(* A revision id is a promise about the bytes; a PDF is not asked.         *)
SameRevision(c) ==
  LET a == Attached(c)
  IN {r \in DOMAIN call[c].tx.artifact :
        ~a.pdf /\ a.revision # None /\ call[c].tx.artifact[r].revision = a.revision}

RevisionConflict(c) ==
  /\ InTx(c) /\ ~Memo(c) /\ Matching(c) = {}
  /\ \E r \in SameRevision(c) : call[c].tx.artifact[r].hash # Attached(c).hash
  /\ Ends(c, "conflict")
  /\ UNCHANGED <<graph, sessions, objects, before, others, raced, stranded>>

(* merge_artifact_content_in_tx: match or create.                          *)
ContentRows(c) ==
  {r \in DOMAIN call[c].tx.content : call[c].tx.content[r] = Attached(c).hash}

(* merge_source_in_tx; only ingest_artifact records the source on the      *)
(* Artifact, while the chunks of both carry source and revision.           *)
SourceOf(a) == IF a.pdf THEN None ELSE a.source
RevisionOf(a) == IF a.pdf THEN None ELSE a.revision
SourceRows(c) ==
  {r \in DOMAIN call[c].tx.source : call[c].tx.source[r].name = SourceOf(Attached(c))}

(* The Source row: new, or with its last_seen refreshed.                   *)
Seen(c, s, new) ==
  IF s = new THEN [name |-> SourceOf(Attached(c)), retired |-> FALSE, seen |-> new]
  ELSE [call[c].tx.source[s] EXCEPT !.seen = new]

(* Mutant: the revisions before it keep their place.                       *)
SupersededNever(c) == {}

(* supersede_prior_revisions_in_tx.                                        *)
Superseded(c) ==
  LET a == Attached(c)
  IN {r \in DOMAIN call[c].tx.artifact :
        /\ SourceOf(a) # None /\ RevisionOf(a) # None
        /\ call[c].tx.artifact[r].source = a.source
        /\ call[c].tx.artifact[r].revision \notin {None, a.revision}
        /\ call[c].tx.artifact[r].current}

Created(a, content) ==
  [name |-> a.name, hash |-> a.hash, content |-> content, current |-> TRUE,
   source |-> SourceOf(a), revision |-> RevisionOf(a),
   chunk |-> [source |-> a.source, revision |-> a.revision]]

Create(c) ==
  /\ InTx(c) /\ ~Memo(c) /\ Matching(c) = {}
  /\ \A r \in SameRevision(c) : call[c].tx.artifact[r].hash = Attached(c).hash
  /\ LET a == Attached(c)
         new == <<c, call[c].next>>
         old == Superseded(c)
         kept == [r \in DOMAIN call[c].tx.artifact |->
                    [call[c].tx.artifact[r] EXCEPT !.current = @ /\ r \notin old]]
         named == SourceOf(a) # None
     IN \E k \in IF ContentRows(c) = {} THEN {new} ELSE ContentRows(c),
           s \in IF SourceRows(c) = {} THEN {new} ELSE SourceRows(c) :
          LET contents == IF ContentRows(c) = {}
                          THEN With(call[c].tx.content, new, a.hash) ELSE call[c].tx.content
              sources == IF named
                         THEN With(call[c].tx.source, s, Seen(c, s, new))
                         ELSE call[c].tx.source
          IN call' = [call EXCEPT
               ![c].next = @ + 1,
               ![c].tx = [artifact |-> With(kept, new, Created(a, k)),
                          content |-> contents, source |-> sources,
                          attached |-> Links(c, new)],
               ![c].read = @ \cup ({"artifact"} \X (old \cup SameRevision(c)))
                             \cup ({"content"} \X ({k} \ {new}))
                             \cup ({"source"} \X (IF named THEN {s} \ {new} ELSE {})),
               ![c].seen = With(@, Identity(a),
                                [row |-> new, under |-> IF a.name # None THEN a.name ELSE new])]
  /\ UNCHANGED <<graph, sessions, objects, before, locks, others, raced, stranded>>
-----------------------------------------------------------------------------
(* The commit writes what the transaction changed.                         *)
Written(t, label) ==
  {r \in DOMAIN t.tx[label] :
     r \notin DOMAIN t.snap[label] \/ t.tx[label][r] # t.snap[label][r]}

Merged(t, label) ==
  [r \in DOMAIN graph[label] \cup Written(t, label) |->
     IF r \in Written(t, label) THEN t.tx[label][r] ELSE graph[label][r]]

New(t) == DOMAIN t.tx.artifact \ DOMAIN t.snap.artifact
Deleting == {d \in Deletion : deletion[d].at = "begun"}

(* Only the reads of an attempt of this transaction matter.                *)
Commit(c) ==
  /\ At(c, "tx") /\ Prepared(c)
  /\ Serializable(call[c])
  /\ LET t == call[c]
         artifacts == Merged(t, "artifact")
     IN /\ graph' = [artifact |-> artifacts, content |-> Merged(t, "content"),
                     source |-> Merged(t, "source"),
                     attached |-> {e \in graph.attached \cup (t.tx.attached \ t.snap.attached) :
                                     e[1] \in DOMAIN artifacts /\ e[2] \in sessions}]
        /\ before' = [r \in DOMAIN before \cup New(t) |->
                        IF r \in New(t) THEN DOMAIN t.snap.artifact ELSE before[r]]
        /\ raced' = IF Deleting = {} THEN raced ELSE raced \cup New(t)
  /\ Ends(c, "done")
  /\ UNCHANGED <<sessions, objects, others, stranded>>

(* Mutant: one attempt too many.                                           *)
ConflictOnceMore(c) ==
  /\ At(c, "tx")
  /\ call[c].attempts <= MaxAttempts
  /\ call' = [call EXCEPT ![c] = [Idle EXCEPT !.at = "prepare", !.unit = call[c].unit,
                                              !.next = Len(call[c].unit) + 1,
                                              !.attempts = call[c].attempts]]
  /\ UNCHANGED <<graph, sessions, objects, before, locks, others, raced, stranded>>

(* A conflict, at the commit or before: everything but the preparation is  *)
(* done again, or the call gives up.                                       *)
Conflict(c) ==
  /\ At(c, "tx")
  /\ call[c].attempts < MaxAttempts
  /\ call' = [call EXCEPT ![c] = [Idle EXCEPT !.at = "prepare", !.unit = call[c].unit,
                                              !.next = Len(call[c].unit) + 1,
                                              !.attempts = call[c].attempts]]
  /\ UNCHANGED <<graph, sessions, objects, before, locks, others, raced, stranded>>

(* A call fails, or its process dies, wherever it awaits.                  *)
Fails(c) ==
  /\ call[c].at \in {"prepare", "tx"}
  /\ Ends(c, "failed")
  /\ UNCHANGED <<graph, sessions, objects, before, others, raced, stranded>>
-----------------------------------------------------------------------------
Referrers(k) == {r \in DOMAIN graph.artifact : graph.artifact[r].content = k}

(* Mutant: the content goes with its first Artifact.                       *)
AllContent(r) == {graph.artifact[r].content} \cap DOMAIN graph.content

(* Mutant: the content is always left behind.                              *)
NoContent(r) == {}

(* delete_artifact: the subtree, and the content no other Artifact shares. *)
(* No content lock is taken.                                               *)
UnsharedContent(r) ==
  {k \in {graph.artifact[r].content} \cap DOMAIN graph.content : Referrers(k) = {r}}

BeginDeleteArtifact(d) ==
  /\ deletion[d].at = "idle"
  /\ \E r \in DOMAIN graph.artifact :
       LET k == {graph.artifact[r].content} \cap DOMAIN graph.content
       IN deletion' = [deletion EXCEPT ![d] =
            [at |-> "begun", snap |-> graph, artifacts |-> {r}, contents |-> UnsharedContent(r),
             read |-> {<<"artifact", r>>} \cup ({"content"} \X k), session |-> None]]
  /\ UNCHANGED <<graph, sessions, objects, before, call, locks, recall, retirements, raced, stranded>>

(* delete_session_cascade: the Artifacts attached to no other session, but *)
(* not their content.                                                      *)
Solo(s) ==
  {r \in DOMAIN graph.artifact :
     <<r, s>> \in graph.attached /\ \A e \in graph.attached : e[1] = r => e[2] = s}

BeginDeleteSession(d) ==
  /\ deletion[d].at = "idle"
  /\ \E s \in sessions :
       deletion' = [deletion EXCEPT ![d] =
         [at |-> "begun", snap |-> graph, artifacts |-> Solo(s), contents |-> {},
          read |-> {"artifact"} \X Solo(s), session |-> s]]
  /\ UNCHANGED <<graph, sessions, objects, before, call, locks, recall, retirements, raced, stranded>>

Minus(f, gone) == [r \in DOMAIN f \ gone |-> f[r]]

CommitDelete(d) ==
  /\ deletion[d].at = "begun"
  /\ Serializable(deletion[d])
  /\ LET t == deletion[d]
     IN /\ graph' = [graph EXCEPT !.artifact = Minus(@, t.artifacts),
                                  !.content = Minus(@, t.contents),
                                  !.attached = {e \in @ : e[1] \notin t.artifacts /\ e[2] # t.session}]
        /\ sessions' = sessions \ {t.session}
        /\ stranded' = IF t.session = None /\ Deleting = {d}
                       THEN stranded
                       ELSE stranded \cup {graph.artifact[r].content : r \in t.artifacts}
  /\ deletion' = [deletion EXCEPT ![d] = [IdleDeletion EXCEPT !.at = "done"]]
  /\ UNCHANGED <<objects, before, call, locks, recall, retirements, raced>>

(* A conflict runs the traversal again; a failure ends here.               *)
AbortDelete(d) ==
  /\ deletion[d].at = "begun"
  /\ deletion' = [deletion EXCEPT ![d] = IdleDeletion]
  /\ UNCHANGED <<graph, sessions, objects, before, call, locks, recall, retirements, raced, stranded>>
-----------------------------------------------------------------------------
(* retire_source and restore_source stamp every Source row of that id.     *)
SetRetired(s, value) ==
  /\ retirements < MaxRetirements
  /\ \E r \in DOMAIN graph.source : graph.source[r].name = s
  /\ graph' = [graph EXCEPT !.source =
       [r \in DOMAIN graph.source |->
          [graph.source[r] EXCEPT !.retired = IF graph.source[r].name = s THEN value ELSE @]]]
  /\ retirements' = retirements + 1
  /\ UNCHANGED <<sessions, objects, before, call, locks, deletion, recall, raced, stranded>>

(* resolve_exclude_set: two reads, one after the other.                    *)
RetiredSources == {graph.source[r].name : r \in {x \in DOMAIN graph.source : graph.source[x].retired}}
SupersededRevisions ==
  {graph.artifact[r].revision : r \in {x \in DOMAIN graph.artifact : ~graph.artifact[x].current}}

(* The Artifacts whose chunks must not ground an answer now, those that    *)
(* are the current word of a source, and those that may.                   *)
Stale(r) ==
  \/ ~graph.artifact[r].current
  \/ graph.artifact[r].chunk.source \in RetiredSources

StaleNow == {r \in DOMAIN graph.artifact : Stale(r)}

BeginRecall(q) ==
  /\ recall[q].at = "idle"
  /\ \E scope \in Scopes :
       recall' = [recall EXCEPT ![q] =
         [IdleRecall EXCEPT !.at = "retired", !.scope = scope, !.stale = StaleNow,
                            !.current = DOMAIN graph.artifact \ StaleNow,
                            !.retired = RetiredSources]]
  /\ UNCHANGED <<graph, sessions, objects, before, call, locks, deletion, retirements, raced, stranded>>

ReadSuperseded(q) ==
  /\ recall[q].at = "retired"
  /\ recall' = [recall EXCEPT ![q].at = "excluded", ![q].superseded = SupersededRevisions]
  /\ UNCHANGED <<graph, sessions, objects, before, call, locks, deletion, retirements, raced, stranded>>

(* resolve_scope_allow_set, as far as chunks of Artifacts go: there is an  *)
(* arm for them under a session scope and under a provenance scope, none   *)
(* when only the exclusions are active.                                    *)
InScope(q, r) ==
  \/ /\ recall[q].scope \in Session
     /\ <<r, recall[q].scope>> \in graph.attached
  \/ /\ recall[q].scope \in Source
     /\ graph.artifact[r].chunk.source = recall[q].scope

(* Mutant: the exclusions are joined by OR.                                *)
NotExcludedTwice(q, r) ==
  \/ graph.artifact[r].chunk.source \notin recall[q].retired
  \/ graph.artifact[r].chunk.revision \notin recall[q].superseded

NotExcluded(q, r) ==
  /\ graph.artifact[r].chunk.source \notin recall[q].retired
  /\ graph.artifact[r].chunk.revision \notin recall[q].superseded

Restricted(q) == recall[q].scope # None \/ recall[q].retired \cup recall[q].superseded # {}

Allow(q) ==
  /\ recall[q].at = "excluded"
  /\ recall' = [recall EXCEPT ![q].at = "search",
                              ![q].allow = {r \in DOMAIN graph.artifact : InScope(q, r) /\ NotExcluded(q, r)}]
  /\ UNCHANGED <<graph, sessions, objects, before, call, locks, deletion, retirements, raced, stranded>>

(* The searches see the store as it is by then, within the allow-set.      *)
Search(q) ==
  /\ recall[q].at = "search"
  /\ recall' = [recall EXCEPT ![q].at = "done",
       ![q].result = IF Restricted(q) THEN recall[q].allow \cap DOMAIN graph.artifact
                     ELSE DOMAIN graph.artifact,
       ![q].current = @ \cap (DOMAIN graph.artifact \ StaleNow)]
  /\ UNCHANGED <<graph, sessions, objects, before, call, locks, deletion, retirements, raced, stranded>>
-----------------------------------------------------------------------------
Applies(c) ==
  \/ MemoHit(c) \/ MemoConflict(c) \/ Dedup(c) \/ NameConflict(c) \/ RevisionConflict(c)
  \/ Create(c)

Ingests(c) ==
  \/ Begin(c) \/ Prepare(c) \/ Lock(c) \/ BeginTx(c) \/ Applies(c) \/ Commit(c)
  \/ Conflict(c) \/ Fails(c)

Deletes(d) == BeginDeleteArtifact(d) \/ BeginDeleteSession(d) \/ CommitDelete(d) \/ AbortDelete(d)
Recalls(q) == BeginRecall(q) \/ ReadSuperseded(q) \/ Allow(q) \/ Search(q)

Next ==
  \/ \E c \in Call : Ingests(c)
  \/ \E d \in Deletion : Deletes(d)
  \/ \E q \in Recaller : Recalls(q)
  \/ \E s \in Source : SetRetired(s, TRUE) \/ SetRetired(s, FALSE)

Spec == Init /\ [][Next]_vars
-----------------------------------------------------------------------------
(* Types of the store and of the tasks.                                    *)
TypeOK ==
  /\ \A r \in DOMAIN graph.artifact :
       /\ r \in Row
       /\ graph.artifact[r].hash \in Hash
       /\ graph.artifact[r].content \in Row
       /\ graph.artifact[r].current \in BOOLEAN
  /\ \A r \in DOMAIN graph.content : r \in Row /\ graph.content[r] \in Hash
  /\ \A r \in DOMAIN graph.source : r \in Row /\ graph.source[r].retired \in BOOLEAN
  /\ graph.attached \subseteq (DOMAIN graph.artifact) \X sessions
  /\ sessions \subseteq Session
  /\ objects \subseteq Hash
  /\ \A c \in Call :
       /\ call[c].at \in {"idle", "prepare", "tx", "done", "conflict", "failed"}
       /\ call[c].attempts \in 0..MaxAttempts
  /\ locks \in [Stripes -> Call \cup {None}]
  /\ retirements \in 0..MaxRetirements

(* Bytes are stored once: content_id has no unique index, the striped lock *)
(* held over the transaction is all that keeps one row per hash.           *)
OneContentPerHash ==
  \A k, l \in DOMAIN graph.content : graph.content[k] = graph.content[l] => k = l

(* An artifact without a caller's id is its bytes: two such never share    *)
(* them, whoever ingests them at the same time.                            *)
OneUnnamedPerHash ==
  \A r, s \in DOMAIN graph.artifact :
    /\ graph.artifact[r].name = None /\ graph.artifact[s].name = None
    /\ graph.artifact[r].hash = graph.artifact[s].hash
    => r = s

(* An Artifact can be read back: its content row and its blob are there,   *)
(* unless a deletion was under way when it was committed.                  *)
ContentKept ==
  \A r \in DOMAIN graph.artifact \ raced :
    /\ graph.artifact[r].content \in DOMAIN graph.content
    /\ graph.content[graph.artifact[r].content] = graph.artifact[r].hash
    /\ graph.artifact[r].hash \in objects

(* No content row is kept for nobody: it has an Artifact, unless its last  *)
(* one went with a session or with one of two overlapping deletions.  This *)
(* is "dropped only when its reference count reaches 1" (docs/BLACKBOOK.md:*)
(* 611) and what delete_artifact does; its doc says otherwise, see         *)
(* ContentIsLeftInPlace.  The blob stays in any case.                      *)
NothingStranded == \A k \in DOMAIN graph.content \ stranded : Referrers(k) # {}

(* A source has one current revision: if two are, neither saw the other.   *)
OneCurrentRevision ==
  \A r, s \in DOMAIN graph.artifact :
    /\ graph.artifact[r].current /\ graph.artifact[s].current
    /\ graph.artifact[r].source = graph.artifact[s].source /\ graph.artifact[r].source # None
    /\ graph.artifact[r].revision # graph.artifact[s].revision
    /\ None \notin {graph.artifact[r].revision, graph.artifact[s].revision}
    => r \notin before[s]

(* What was superseded or retired when a recall began never grounds it.    *)
RecallIsCurrent == \A q \in Recaller : recall[q].result \cap recall[q].stale = {}

(* Identical bytes under one id are a replay, not a conflict: a call is    *)
(* refused only if an id or a revision was used for other bytes.           *)
Clashes(a, x) ==
  /\ a.hash # x.hash
  /\ \/ a.name = x.name /\ a.name # None
     \/ a.revision = x.revision /\ a.revision # None

ReplayIsIdempotent ==
  \A c \in Call : At(c, "conflict") =>
    \E i \in DOMAIN call[c].unit, b \in Call : \E j \in DOMAIN call[b].unit :
      Clashes(call[c].unit[i], call[b].unit[j])

(* What is the current word of its source throughout an unscoped recall is *)
(* among the evidence of that recall.                                      *)
CurrentGrounds ==
  \A q \in Recaller :
    recall[q].at = "done" /\ recall[q].scope = None => recall[q].current \subseteq recall[q].result

(* "The deduped, possibly-shared :ArtifactContent blob is left in place    *)
(* (content-addressed storage, garbage-collected separately)"              *)
(* (uniko-store/src/storage/deletion.rs:187-189): content rows stay.       *)
ContentIsLeftInPlace == [][DOMAIN graph.content \subseteq DOMAIN graph'.content]_vars
=============================================================================
