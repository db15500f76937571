--------------------------- MODULE SessionIngest ---------------------------
(***************************************************************************)
(* How turns become rows: Session::commit_unit on the handles of a session,*)
(* the ingest tasks of streamed turns, the documents that materialise a    *)
(* session, the actions that link the entities they name, and the          *)
(* deletions that run beside them, over one store.                         *)
(*                                                                         *)
(* A row is a pair of the key it was created for and its copy number; the  *)
(* store has no unique index, so a key may have several.  A turn stands    *)
(* for its content.  A transaction takes effect when it commits; whether   *)
(* the store aborts it is nondeterministic.  An edge with a deleted end is *)
(* never matched, so next keeps only edges between live rows.  Chunks,     *)
(* observations, attachments and PARTICIPATED_IN edges are left out.  The  *)
(* Entity that a drift record creates is as a linker's; the stripe it is   *)
(* created under, and the circles that may close, are in Consolidation.    *)
(***************************************************************************)
EXTENDS Integers, Sequences, FiniteSets, FiniteSetsExt, TLC

CONSTANTS
  Writer,           \* tasks that record turns: session handles and streams
  Stream,           \* the writers that start every call with a fresh context
  Document,         \* standalone documents ingested into a session
  Linker,           \* recorded actions, one for each entity they name
  SessionOf,        \* the session of a writer or document
  EntityOf,         \* the entity that a linker merges
  Session, Participant, Entity, Turn,
  MessageId, Sender, AddressedTo, Mentions,
  Units,            \* the units a writer may commit
  SetupStripe,      \* stripe of a session's or participant's setup key
  RmwStripe,        \* stripe of a participant's node or an entity's own key
  NodeStripe,       \* stripe of an entity's node key, in the same table
  None,
  MaxAttempts,      \* RetryOptions::max_attempts, where 0 is as 1
  MaxCalls, MaxOutsiders, MaxDeletions, MaxCrashes  \* bounds on what is explored

ASSUME SessionIngestAssumption ==
  /\ Stream \subseteq Writer
  /\ SessionOf \in [Writer \cup Document -> Session]
  /\ EntityOf \in [Linker -> Entity]
  /\ Sender \in [Turn -> Participant]
  /\ AddressedTo \in [Turn -> SUBSET Participant]
  /\ Mentions \in [Turn -> SUBSET Entity]
  /\ MessageId \in [Turn -> STRING]
  /\ Turn \cap (Session \cup Participant \cup Entity) = {}
  /\ Session \cap (Participant \cup Entity) = {} /\ Participant \cap Entity = {}
  /\ Writer \cap Linker = {} /\ None \notin Writer \cup Linker
  /\ None \notin (Session \cup Participant \cup Entity \cup Turn) \X Nat
  /\ Units \in [Writer -> SUBSET Seq(Turn)]
  /\ \A w \in Writer : \A u \in Units[w] :  \* others are refused at once
       /\ u # <<>>
       /\ \A i, j \in DOMAIN u : MessageId[u[i]] = MessageId[u[j]] => i = j
  /\ SetupStripe \in [Session \cup Participant -> Nat]
  /\ RmwStripe \in [Participant \cup Entity -> Nat]
  /\ NodeStripe \in [Entity -> Nat]
  /\ MaxAttempts \in Nat \ {0} /\ {MaxCalls, MaxOutsiders, MaxDeletions, MaxCrashes} \subseteq Nat

VARIABLES
  rows,        \* live rows
  gone,        \* deleted rows
  message,     \* what each Message row was committed with
  next,        \* NEXT edges between live messages
  frequency,   \* Entity.frequency
  unguarded,   \* Session and Entity rows created without ingest's locks
  ctx,         \* the SessionContext of each writer
  call,        \* the call each writer is in
  setupLocks, rmwLocks,  \* the holder of each stripe
  document,    \* the ingest of each document
  link,        \* the merge of each linker's entity
  calls, deletions, crashes

store == <<rows, gone, message, next, frequency, unguarded>>
locks == <<setupLocks, rmwLocks>>
bounds == <<calls, deletions, crashes>>
vars == <<store, ctx, call, locks, document, link, bounds>>

RowsOf(key) == {r \in rows : r[1] = key}
Fresh(key) == <<key, 1 + Cardinality({r \in rows \cup gone : r[1] = key})>>
Messages == {r \in rows : r[1] \in Turn}
Recorded(id) == {r \in Messages : MessageId[r[1]] = id}

FreshContext == [session |-> None, known |-> <<>>, head |-> None]
Idle == [at |-> "idle", unit |-> <<>>, found |-> <<>>, todo |-> {}, row |-> None,
         attempts |-> 0, read |-> <<>>, before |-> {}]

Setups == {SetupStripe[k] : k \in Session \cup Participant}
Rmws == {RmwStripe[k] : k \in Participant \cup Entity} \cup {NodeStripe[e] : e \in Entity}
Free(table, s) == table[s] = None
HeldBy(table, w) == {s \in DOMAIN table : table[s] = w}
Released(table, w) == [s \in DOMAIN table |-> IF table[s] = w THEN None ELSE table[s]]

Init ==
  /\ rows = {} /\ gone = {} /\ message = <<>> /\ next = {}
  /\ frequency = <<>> /\ unguarded = {}
  /\ ctx = [w \in Writer |-> FreshContext]
  /\ call = [w \in Writer |-> Idle]
  /\ setupLocks = [s \in Setups |-> None]
  /\ rmwLocks = [s \in Rmws |-> None]
  /\ document = [d \in Document |-> "new"]
  /\ link = [l \in Linker |-> "new"]
  /\ calls = 0 /\ deletions = 0 /\ crashes = 0
-----------------------------------------------------------------------------
(* Where a call is, and its end: every guard it holds is dropped.          *)
At(w, place) == call[w].at = place

Ends(w) ==
  /\ call' = [call EXCEPT ![w] = Idle]
  /\ setupLocks' = Released(setupLocks, w)
  /\ rmwLocks' = Released(rmwLocks, w)

(* A caller hands over a unit; a streamed turn gets a context of its own.  *)
Begin(w) ==
  /\ At(w, "idle")
  /\ calls < MaxCalls
  /\ \E u \in Units[w] :
       call' = [call EXCEPT ![w] = [Idle EXCEPT !.at = "probe", !.unit = u, !.before = Messages]]
  /\ ctx' = IF w \in Stream THEN [ctx EXCEPT ![w] = FreshContext] ELSE ctx
  /\ calls' = calls + 1
  /\ UNCHANGED <<store, locks, document, link, deletions, crashes>>

(* P1: one lookup by message_id for each turn.                             *)
Probed(w) == Len(call[w].found) = Len(call[w].unit)
Probing(w) == call[w].unit[Len(call[w].found) + 1]

Probe(w) ==
  /\ At(w, "probe")
  /\ ~Probed(w)
  /\ LET t == Probing(w)
         same == Recorded(MessageId[t])
     IN \E r \in IF same = {} THEN {None} ELSE {s \in same : s[1] = t} :
          call' = [call EXCEPT ![w].found = Append(@, r)]
  /\ UNCHANGED <<store, ctx, locks, document, link, bounds>>

IdConflict(w) ==
  /\ At(w, "probe")
  /\ ~Probed(w)
  /\ \E r \in Recorded(MessageId[Probing(w)]) : r[1] # Probing(w)
  /\ Ends(w)
  /\ UNCHANGED <<store, ctx, document, link, bounds>>

Present(w) == {i \in DOMAIN call[w].found : call[w].found[i] # None}

(* A wholly recorded unit: its rows are returned, and a handle's chain     *)
(* goes on from its last turn.                                             *)
Replay(w) ==
  /\ At(w, "probe")
  /\ Probed(w)
  /\ Present(w) = DOMAIN call[w].unit
  /\ ctx' = IF w \in Stream
            THEN ctx
            ELSE [ctx EXCEPT ![w].head = call[w].found[Len(call[w].unit)]]
  /\ Ends(w)
  /\ UNCHANGED <<store, document, link, bounds>>

PartialUnit(w) ==
  /\ At(w, "probe")
  /\ Probed(w)
  /\ Present(w) \notin {{}, DOMAIN call[w].unit}
  /\ Ends(w)
  /\ UNCHANGED <<store, ctx, document, link, bounds>>

(* Mutant: a partly recorded unit goes on as a new one.                    *)
NewUnitIfAnyAbsent(w) == Present(w) # DOMAIN call[w].unit

NewUnit(w) == Present(w) = {}

StartSetup(w) ==
  /\ At(w, "probe")
  /\ Probed(w)
  /\ NewUnit(w)
  /\ call' = [call EXCEPT ![w].at = "setup",
                          ![w].todo = {Sender[call[w].unit[i]] : i \in DOMAIN call[w].unit}]
  /\ UNCHANGED <<store, ctx, locks, document, link, bounds>>
(* P2: the session and the senders not yet in the context are set up under *)
(* the setup locks of the session and of the sender.  A sender enters the  *)
(* context after the session did, so one in it needs no setup.             *)
Person(w) == CHOOSE p \in call[w].todo : TRUE
Known(w, p) == p \in DOMAIN ctx[w].known
Cold(w) == ctx[w].session = None \/ ~Known(w, Person(w))

(* Mutant: only the sender's key is locked.                                *)
SetupStripesOfSender(w) == {SetupStripe[Person(w)]}

SetupStripes(w) == {SetupStripe[SessionOf[w]], SetupStripe[Person(w)]}
SetupHeld(w) == HeldBy(setupLocks, w) = SetupStripes(w)
NextPerson(w) == [call EXCEPT ![w].at = "setup", ![w].todo = @ \ {Person(w)}]

SkipWarm(w) ==
  /\ At(w, "setup")
  /\ call[w].todo # {}
  /\ ~Cold(w)
  /\ call' = NextPerson(w)
  /\ UNCHANGED <<store, ctx, locks, document, link, bounds>>

(* Mutant: the stripes are taken in any order.                             *)
LockSetupUnsorted(w) ==
  /\ At(w, "setup")
  /\ call[w].todo # {}
  /\ Cold(w)
  /\ \E s \in SetupStripes(w) \ HeldBy(setupLocks, w) :
       /\ Free(setupLocks, s)
       /\ setupLocks' = [setupLocks EXCEPT ![s] = w]
  /\ UNCHANGED <<store, ctx, call, rmwLocks, document, link, bounds>>

LockSetup(w) ==
  /\ At(w, "setup")
  /\ call[w].todo # {}
  /\ Cold(w)
  /\ ~SetupHeld(w)
  /\ LET s == Min(SetupStripes(w) \ HeldBy(setupLocks, w))
     IN /\ Free(setupLocks, s)
        /\ setupLocks' = [setupLocks EXCEPT ![s] = w]
  /\ UNCHANGED <<store, ctx, call, rmwLocks, document, link, bounds>>

FindSession(w) ==
  /\ At(w, "setup")
  /\ call[w].todo # {}
  /\ Cold(w)
  /\ SetupHeld(w)
  /\ LET found == IF ctx[w].session # None THEN {ctx[w].session} ELSE RowsOf(SessionOf[w])
     IN IF found = {}
        THEN /\ call' = [call EXCEPT ![w].at = "session"]
             /\ UNCHANGED ctx
        ELSE /\ call' = [call EXCEPT ![w].at = "sender"]
             /\ \E r \in found : ctx' = [ctx EXCEPT ![w].session = r]
  /\ UNCHANGED <<store, locks, document, link, bounds>>

CreateSession(w) ==
  /\ At(w, "session")
  /\ LET r == Fresh(SessionOf[w])
     IN /\ rows' = rows \cup {r}
        /\ ctx' = [ctx EXCEPT ![w].session = r]
  /\ call' = [call EXCEPT ![w].at = "sender"]
  /\ UNCHANGED <<gone, message, next, frequency, unguarded, locks, document, link, bounds>>

(* merge_node: look up and update or create one Participant row under its  *)
(* RMW lock, for a sender inside the setup locks, for a recipient outside. *)
Merging(w) ==
  \/ At(w, "sender")
  \/ At(w, "recipients") /\ call[w].todo # {}

(* Mutant: the setup locks and the RMW locks share one table.              *)
LockNodeInOneTable(w) ==
  /\ Merging(w)
  /\ LET s == RmwStripe[Person(w)]
     IN /\ Free(rmwLocks, s)
        /\ s \in DOMAIN setupLocks => Free(setupLocks, s)
        /\ rmwLocks' = [rmwLocks EXCEPT ![s] = w]
  /\ call' = [call EXCEPT ![w].at = IF @ = "sender" THEN "find sender" ELSE "find recipient"]
  /\ UNCHANGED <<store, ctx, setupLocks, document, link, bounds>>

LockNode(w) ==
  /\ Merging(w)
  /\ LET s == RmwStripe[Person(w)]
     IN /\ Free(rmwLocks, s)
        /\ rmwLocks' = [rmwLocks EXCEPT ![s] = w]
  /\ call' = [call EXCEPT ![w].at = IF @ = "sender" THEN "find sender" ELSE "find recipient"]
  /\ UNCHANGED <<store, ctx, setupLocks, document, link, bounds>>

FindNode(w) ==
  /\ call[w].at \in {"find sender", "find recipient"}
  /\ LET found == RowsOf(Person(w))
     IN \E r \in IF found = {} THEN {None} ELSE found :
          call' = [call EXCEPT ![w].at = IF @ = "find sender" THEN "merge sender"
                                                              ELSE "merge recipient",
                               ![w].row = r]
  /\ UNCHANGED <<store, ctx, locks, document, link, bounds>>

(* Updating a row deleted meanwhile matches nothing and is no error.       *)
MergeNode(w) ==
  /\ call[w].at \in {"merge sender", "merge recipient"}
  /\ LET p == Person(w)
         r == IF call[w].row = None THEN Fresh(p) ELSE call[w].row
     IN /\ rows' = IF call[w].row = None THEN rows \cup {r} ELSE rows
        /\ call' = IF At(w, "merge sender")
                   THEN [call EXCEPT ![w].at = "link", ![w].row = r]
                   ELSE [call EXCEPT ![w].at = "recipients", ![w].row = None,
                                     ![w].todo = @ \ {p}]
  /\ rmwLocks' = Released(rmwLocks, w)
  /\ UNCHANGED <<gone, message, next, frequency, unguarded, ctx, setupLocks, document, link, bounds>>

(* The PARTICIPATED_IN edge needs both its ends; creating it returns no row*)
(* otherwise, which fails the call.                                        *)
Linkable(w) == {call[w].row, ctx[w].session} \subseteq rows
Learnt(w) ==
  [p \in DOMAIN ctx[w].known \cup {Person(w)} |->
     IF p = Person(w) THEN call[w].row ELSE ctx[w].known[p]]

Link(w) ==
  /\ At(w, "link")
  /\ Linkable(w)
  /\ ctx' = [ctx EXCEPT ![w].known = Learnt(w)]
  /\ call' = [NextPerson(w) EXCEPT ![w].row = None]
  /\ setupLocks' = Released(setupLocks, w)
  /\ UNCHANGED <<store, rmwLocks, document, link, bounds>>

LinkFails(w) ==
  /\ At(w, "link")
  /\ ~Linkable(w)
  /\ Ends(w)
  /\ UNCHANGED <<store, ctx, document, link, bounds>>

(* P3: addressees who sent no turn of the unit up to the one they are in.  *)
Strangers(u) ==
  UNION {AddressedTo[u[i]] \ {Sender[u[j]] : j \in 1..i} : i \in DOMAIN u}

StartRecipients(w) ==
  /\ At(w, "setup")
  /\ call[w].todo = {}
  /\ call' = [call EXCEPT ![w].at = "recipients", ![w].todo = Strangers(call[w].unit)]
  /\ UNCHANGED <<store, ctx, locks, document, link, bounds>>

StartWrite(w) ==
  /\ At(w, "recipients")
  /\ call[w].todo = {}
  /\ call' = [call EXCEPT ![w].at = "lock"]
  /\ UNCHANGED <<store, ctx, locks, document, link, bounds>>

(* P6, P7: the locks of the unit's entities, held over every attempt.      *)
Named(u) == UNION {Mentions[u[i]] : i \in DOMAIN u}

(* Mutant: the entities are read and written without their locks.          *)
EntityStripesNone(u) == {}

EntityStripes(u) == {RmwStripe[e] : e \in Named(u)}
EntitiesHeld(w) == HeldBy(rmwLocks, w) = EntityStripes(call[w].unit)

LockEntities(w) ==
  /\ At(w, "lock")
  /\ ~EntitiesHeld(w)
  /\ LET s == Min(EntityStripes(call[w].unit) \ HeldBy(rmwLocks, w))
     IN /\ Free(rmwLocks, s)
        /\ rmwLocks' = [rmwLocks EXCEPT ![s] = w]
  /\ UNCHANGED <<store, ctx, call, setupLocks, document, link, bounds>>

(* The transaction reads the entities from the snapshot it opens on.  A row*)
(* that a merge created has no frequency, and reading one is an error.     *)
Readable(w) == \A r \in rows \cap unguarded : r[1] \notin Named(call[w].unit)

UnreadableEntity(w) ==
  /\ At(w, "lock")
  /\ EntitiesHeld(w)
  /\ ~Readable(w)
  /\ Ends(w)
  /\ UNCHANGED <<store, ctx, document, link, bounds>>

BeginTx(w) ==
  /\ At(w, "lock")
  /\ EntitiesHeld(w)
  /\ Readable(w)
  /\ LET named == {r \in rows : r[1] \in Named(call[w].unit)}
     IN call' = [call EXCEPT ![w].at = "write",
                             ![w].attempts = @ + 1,
                             ![w].read = [r \in named |-> frequency[r]]]
  /\ UNCHANGED <<store, ctx, locks, document, link, bounds>>

(* What the transaction of unit u writes: a Message row for each turn,     *)
(* chained in order behind the head, and one row for each entity.          *)
LiveHead(w) == IF ctx[w].head \in rows THEN ctx[w].head ELSE None

Written(w) ==
  LET u == call[w].unit
      row(i) == Fresh(u[i])
  IN {[row |-> row(i),
       data |-> [session |-> ctx[w].session,
                 sender |-> ctx[w].known[Sender[u[i]]],
                 prev |-> IF i = 1 THEN LiveHead(w) ELSE row(i - 1),
                 before |-> call[w].before]] : i \in DOMAIN u}

Counted(w) ==
  LET u == call[w].unit
      old(e) == {r \in DOMAIN call[w].read : r[1] = e}
      uses(e) == Cardinality({i \in DOMAIN u : e \in Mentions[u[i]]})
  IN [r \in UNION {IF old(e) = {} THEN {Fresh(e)} ELSE old(e) : e \in Named(u)} |->
        uses(r[1]) + (IF r \in DOMAIN call[w].read THEN call[w].read[r] ELSE 0)]

Commit(w) ==
  /\ At(w, "write")
  /\ LET msgs == Written(w)
         ids == {m.row : m \in msgs}
     IN /\ rows' = rows \cup ids \cup DOMAIN Counted(w)
        /\ message' = [r \in ids \cup DOMAIN message |->
                          IF r \in ids THEN (CHOOSE m \in msgs : m.row = r).data ELSE message[r]]
        /\ next' = next \cup {<<m.data.prev, m.row>> : m \in {n \in msgs : n.data.prev # None}}
        /\ ctx' = [ctx EXCEPT ![w].head = Fresh(call[w].unit[Len(call[w].unit)])]
  /\ frequency' = [r \in DOMAIN Counted(w) \cup DOMAIN frequency |->
                     IF r \in DOMAIN Counted(w) THEN Counted(w)[r] ELSE frequency[r]]
  /\ Ends(w)
  /\ UNCHANGED <<gone, unguarded, document, link, bounds>>

(* Mutant: one attempt too many.                                           *)
ConflictOnceMore(w) ==
  /\ At(w, "write")
  /\ call[w].attempts <= MaxAttempts
  /\ call' = [call EXCEPT ![w].at = "lock", ![w].read = <<>>]
  /\ UNCHANGED <<store, ctx, locks, document, link, bounds>>

(* Mutant: the chain of the failed attempt stays in the context.           *)
ConflictAdvancesHead(w) ==
  /\ At(w, "write")
  /\ call[w].attempts < MaxAttempts
  /\ call' = [call EXCEPT ![w].at = "lock", ![w].read = <<>>]
  /\ ctx' = [ctx EXCEPT ![w].head = Fresh(call[w].unit[Len(call[w].unit)])]
  /\ UNCHANGED <<store, locks, document, link, bounds>>

(* A retriable conflict, in the body or at the commit: nothing is written. *)
Conflict(w) ==
  /\ At(w, "write")
  /\ call[w].attempts < MaxAttempts
  /\ call' = [call EXCEPT ![w].at = "lock", ![w].read = <<>>]
  /\ UNCHANGED <<store, ctx, locks, document, link, bounds>>

(* A call may fail, or its future be dropped, wherever it awaits.          *)
Fails(w) ==
  /\ ~At(w, "idle")
  /\ Ends(w)
  /\ UNCHANGED <<store, ctx, document, link, bounds>>
-----------------------------------------------------------------------------
(* Documents and linkers work beside the writers.                          *)
Outsiders ==
  Cardinality({d \in Document : document[d] # "new"}) + Cardinality({l \in Linker : link[l] # "new"})

(* ingest_source: the session of a document is looked up and created       *)
(* without a lock.                                                         *)
DocumentFinds(d) ==
  /\ document[d] = "new"
  /\ Outsiders < MaxOutsiders
  /\ document' = [document EXCEPT ![d] = IF RowsOf(SessionOf[d]) = {} THEN "absent" ELSE "done"]
  /\ UNCHANGED <<store, ctx, call, locks, link, bounds>>

DocumentCreates(d) ==
  /\ document[d] = "absent"
  /\ rows' = rows \cup {Fresh(SessionOf[d])}
  /\ unguarded' = unguarded \cup {Fresh(SessionOf[d])}
  /\ document' = [document EXCEPT ![d] = "done"]
  /\ UNCHANGED <<gone, message, next, frequency, ctx, call, locks, link, bounds>>
-----------------------------------------------------------------------------
(* link_action_entities: merge_node looks an entity up and creates it under*)
(* the stripe of its node key, which is not the one that ingest holds.     *)
LinkerFinds(l) ==
  /\ link[l] = "new"
  /\ Outsiders < MaxOutsiders
  /\ Free(rmwLocks, NodeStripe[EntityOf[l]])
  /\ IF RowsOf(EntityOf[l]) = {}
     THEN /\ rmwLocks' = [rmwLocks EXCEPT ![NodeStripe[EntityOf[l]]] = l]
          /\ link' = [link EXCEPT ![l] = "absent"]
     ELSE /\ link' = [link EXCEPT ![l] = "done"]
          /\ UNCHANGED rmwLocks
  /\ UNCHANGED <<store, ctx, call, setupLocks, document, bounds>>

LinkerCreates(l) ==
  /\ link[l] = "absent"
  /\ rows' = rows \cup {Fresh(EntityOf[l])}
  /\ unguarded' = unguarded \cup {Fresh(EntityOf[l])}
  /\ rmwLocks' = Released(rmwLocks, l)
  /\ link' = [link EXCEPT ![l] = "done"]
  /\ UNCHANGED <<gone, message, next, frequency, ctx, call, setupLocks, document, bounds>>

(* A merge that fails is logged and its entity left out.                   *)
LinkerFails(l) ==
  /\ link[l] = "absent"
  /\ rmwLocks' = Released(rmwLocks, l)
  /\ link' = [link EXCEPT ![l] = "done"]
  /\ UNCHANGED <<store, ctx, call, setupLocks, document, bounds>>
-----------------------------------------------------------------------------
(* splice_next: of the pairs the victim joins, the first one found is kept.*)
Touching(edges, r) == {e \in edges : r \in {e[1], e[2]}}

(* Mutant: the neighbours of the victim are not joined.                    *)
SplicedApart(edges, r) == {edges \ Touching(edges, r)}

Spliced(edges, r) ==
  LET rest == edges \ Touching(edges, r)
      joins == {<<e[1], f[2]>> : e \in {x \in edges : x[2] = r}, f \in {x \in edges : x[1] = r}}
  IN IF joins = {} THEN {rest} ELSE {rest \cup {j} : j \in joins}

(* The chains that deleting some messages one after the other may leave.   *)
SplicedAll(edges, doomed) ==
  LET after[S \in SUBSET doomed] ==
        IF S = {} THEN {edges}
        ELSE UNION {UNION {Spliced(c, r) : c \in after[S \ {r}]} : r \in S}
  IN after[doomed]

Deletes(doomed) ==
  /\ deletions < MaxDeletions
  /\ rows' = rows \ doomed
  /\ gone' = gone \cup doomed
  /\ deletions' = deletions + 1
  /\ UNCHANGED <<message, frequency, unguarded, ctx, call, locks, document, link, calls, crashes>>

DeleteMessage(r) ==
  /\ Deletes({r})
  /\ next' \in Spliced(next, r)

(* A session takes its messages with it; no chain is spliced.              *)
DeleteSession(r) ==
  LET doomed == {r} \cup {m \in Messages : message[m].session = r}
  IN /\ Deletes(doomed)
     /\ next' = next \ UNION {Touching(next, m) : m \in doomed}

ForgetParticipant(r) ==
  LET sent == {m \in Messages : message[m].sender = r}
  IN /\ Deletes({r} \cup sent)
     /\ next' \in SplicedAll(next, sent)

Delete ==
  \/ \E r \in Messages : DeleteMessage(r)
  \/ \E s \in Session : \E r \in RowsOf(s) : DeleteSession(r)
  \/ \E p \in Participant : \E r \in RowsOf(p) : ForgetParticipant(r)

(* The process dies and is restarted on the store; every handle is new.    *)
Crash ==
  /\ crashes < MaxCrashes
  /\ \E w \in Writer : ~At(w, "idle")
  /\ ctx' = [w \in Writer |-> FreshContext]
  /\ call' = [w \in Writer |-> Idle]
  /\ setupLocks' = [s \in Setups |-> None]
  /\ rmwLocks' = [s \in Rmws |-> None]
  /\ document' = [d \in Document |-> "done"]
  /\ link' = [l \in Linker |-> "done"]
  /\ crashes' = crashes + 1
  /\ UNCHANGED <<store, calls, deletions>>

Probes(w) == Probe(w) \/ IdConflict(w) \/ Replay(w) \/ PartialUnit(w) \/ StartSetup(w)

SetsUp(w) ==
  \/ SkipWarm(w) \/ LockSetup(w) \/ FindSession(w) \/ CreateSession(w)
  \/ LockNode(w) \/ FindNode(w) \/ MergeNode(w) \/ Link(w) \/ LinkFails(w)
  \/ StartRecipients(w) \/ StartWrite(w)

Writes(w) ==
  LockEntities(w) \/ UnreadableEntity(w) \/ BeginTx(w) \/ Commit(w) \/ Conflict(w)

Advances(w) == Probes(w) \/ SetsUp(w) \/ Writes(w)

Next ==
  \/ \E w \in Writer : Begin(w) \/ Advances(w) \/ Fails(w)
  \/ \E d \in Document : DocumentFinds(d) \/ DocumentCreates(d)
  \/ \E l \in Linker : LinkerFinds(l) \/ LinkerCreates(l) \/ LinkerFails(l)
  \/ Delete
  \/ Crash

Spec == Init /\ [][Next]_vars

(* tokio runs every ready task and hands a mutex to its waiters in turn.   *)
FairSpec ==
  /\ Spec
  /\ \A w \in Writer : SF_vars(Advances(w))
  /\ \A l \in Linker : WF_vars(LinkerCreates(l))
-----------------------------------------------------------------------------
(* Types of all the variables.                                             *)
Row == (Session \cup Participant \cup Entity \cup Turn) \X (Nat \ {0})

TypeOK ==
  /\ rows \subseteq Row
  /\ gone \subseteq Row
  /\ rows \cap gone = {}
  /\ \A r \in DOMAIN message :
       message[r] \in [session : Row, sender : Row, prev : Row \cup {None}, before : SUBSET Row]
  /\ next \subseteq Messages \X Messages
  /\ \A r \in DOMAIN frequency : r[1] \in Entity /\ frequency[r] \in Nat
  /\ unguarded \subseteq Row
  /\ \A w \in Writer :
       /\ ctx[w].session \in Row \cup {None}
       /\ \A p \in DOMAIN ctx[w].known : ctx[w].known[p] \in Row
       /\ ctx[w].head \in Row \cup {None}
       /\ call[w].at \in {"idle", "probe", "setup", "session", "sender", "find sender",
                          "merge sender", "link", "recipients", "find recipient",
                          "merge recipient", "lock", "write"}
       /\ call[w].attempts \in 0..MaxAttempts
  /\ setupLocks \in [Setups -> Writer \cup {None}]
  /\ rmwLocks \in [Rmws -> Writer \cup Linker \cup {None}]
  /\ document \in [Document -> {"new", "absent", "done"}]
  /\ link \in [Linker -> {"new", "absent", "done"}]
  /\ <<calls, deletions, crashes>> \in (0..MaxCalls) \X (0..MaxDeletions) \X (0..MaxCrashes)

(* The locks make up for the missing unique indexes among the writers that *)
(* take them: the recording of turns gives a participant, an entity or a   *)
(* session at most one row.  A document takes no lock and a linker another *)
(* one; the rows they create beside are not counted here.                  *)
OneRowPerKey ==
  \A key \in Session \cup Participant \cup Entity : Cardinality(RowsOf(key) \ unguarded) <= 1

(* An entity's frequency, which only the row that ingest created has,      *)
(* counts every committed turn that names it: no update is lost, none is   *)
(* applied twice by a retry.                                               *)
EntityCountsExact ==
  \A r \in DOMAIN frequency :
    frequency[r] = Cardinality({m \in DOMAIN message : r[1] \in Mentions[m[1]]})

(* Re-recording is idempotent for calls that do not overlap: no message    *)
(* duplicates one that was there when the call that wrote it began.        *)
DuplicatesOverlap ==
  \A r, s \in Messages :
    r # s /\ MessageId[r[1]] = MessageId[s[1]] => r \notin message[s].before

(* A failed or retried attempt leaves no trace in a context: the next turn *)
(* is chained behind a message that was committed.                         *)
HeadIsRecorded == \A w \in Writer : ctx[w].head \in {None} \cup DOMAIN message

(* Deleting turns closes the gap they leave: as long as no two messages    *)
(* were chained behind the same one and chains stay within a session, a    *)
(* message follows the nearest of its predecessors that is still there.    *)
NearestLive ==
  LET prev(r) == message[r].prev
      near[r \in DOMAIN message] ==
        IF prev(r) = None \/ prev(r) \in rows THEN prev(r) ELSE near[prev(r)]
  IN near

ChainIsSimple ==
  \A r, s \in DOMAIN message :
    message[r].prev # None =>
      /\ message[r].prev = message[s].prev => r = s
      /\ message[message[r].prev].session = message[r].session

GapsAreClosed ==
  ChainIsSimple =>
    \A r \in Messages : NearestLive[r] # None => <<NearestLive[r], r>> \in next

(* Writer w cannot go on before v gives a stripe back.                     *)
WaitsFor(w, v) ==
  \/ /\ At(w, "setup") /\ call[w].todo # {} /\ Cold(w) /\ ~SetupHeld(w)
     /\ setupLocks[Min(SetupStripes(w) \ HeldBy(setupLocks, w))] = v
  \/ /\ Merging(w)
     /\ rmwLocks[RmwStripe[Person(w)]] = v
  \/ /\ At(w, "lock") /\ ~EntitiesHeld(w)
     /\ rmwLocks[Min(EntityStripes(call[w].unit) \ HeldBy(rmwLocks, w))] = v

(* No writers wait for each other's stripes in a circle, and none for a    *)
(* stripe of its own: lock_many sorts them, and a node is merged under     *)
(* setup locks only because its stripe is in another table.                *)
NoCircularWait ==
  \A W \in SUBSET Writer :
    W # {} /\ IsFiniteSet(W) => \E w \in W : \A v \in W : ~WaitsFor(w, v)

(* Every call comes to an end: the order in which stripes are taken, and   *)
(* the two tables, keep writers from waiting on one another or themselves. *)
CallsEnd == \A w \in Writer : ~At(w, "idle") ~> At(w, "idle")

(* An entity has one row, whether a turn or an action named it first: all  *)
(* that write one are to serialize on it.                                  *)
OneEntityRow == \A e \in Entity : Cardinality(RowsOf(e)) <= 1

(* A session has one row, whoever materialises it.                         *)
OneSessionRow == \A s \in Session : Cardinality(RowsOf(s)) <= 1
=============================================================================
