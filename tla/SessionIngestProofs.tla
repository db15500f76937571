------------------------ MODULE SessionIngestProofs ------------------------
(***************************************************************************)
(* Proofs that the chain of turns only ever goes on from a committed turn  *)
(* and that deletions leave no gap in it; that the store stays in order    *)
(* although it has no unique index: one row for each key among those that  *)
(* recording creates, exact counts, no message recorded a second time; that*)
(* no writers wait for each other in a circle; and of the types.           *)
(***************************************************************************)
EXTENDS SessionIngest, SequenceTheorems, FiniteSetTheorems, WellFoundedInduction, TLAPS

Fields == {"at", "unit", "found", "todo", "row", "attempts", "read", "before"}

(* Where a call is about one of the participants it has yet to see to.     *)
Picked == {"session", "sender", "find sender", "merge sender", "link",
           "find recipient", "merge recipient"}

Recordable == {None} \cup DOMAIN message

CallsInOrder ==
  /\ DOMAIN call = Writer
  /\ \A w \in Writer :
       /\ DOMAIN call[w] = Fields
       /\ call[w].at # "idle" => call[w].unit \in Units[w]
       /\ call[w].todo \subseteq Participant
       /\ call[w].at \in Picked => call[w].todo # {}

FoundIsRecorded == \A w \in Writer : call[w].found \in Seq(Recordable)

ContextsInOrder ==
  /\ DOMAIN ctx = Writer
  /\ \A w \in Writer : DOMAIN ctx[w] = {"session", "known", "head"}

MessagesAreRecorded == Messages \subseteq DOMAIN message

IInv ==
  /\ CallsInOrder
  /\ ContextsInOrder
  /\ MessagesAreRecorded
  /\ FoundIsRecorded
  /\ HeadIsRecorded
-----------------------------------------------------------------------------
LEMMA IdleInOrder ==
  /\ DOMAIN Idle = Fields
  /\ Idle.at = "idle"
  /\ Idle.todo = {}
  /\ Idle.at \notin Picked
  /\ \A S : Idle.found \in Seq(S)
  <1>1. \A S : <<>> \in Seq(S)
    OBVIOUS
  <1>2. Idle.found = <<>>
    BY DEF Idle
  <1> QED
    BY <1>1, <1>2 DEF Idle, Fields, Picked

LEMMA InitInvariant == Init => IInv
  <1> SUFFICES ASSUME Init PROVE IInv
    OBVIOUS
  <1>1. CallsInOrder /\ FoundIsRecorded
    BY IdleInOrder DEF Init, CallsInOrder, FoundIsRecorded
  <1>2. ContextsInOrder /\ HeadIsRecorded
    BY DEF Init, ContextsInOrder, HeadIsRecorded, FreshContext
  <1>3. MessagesAreRecorded
    BY DEF Init, MessagesAreRecorded, Messages
  <1> QED
    BY <1>1, <1>2, <1>3 DEF IInv

(* Steps that leave store and contexts alone keep what is said of them.    *)
LEMMA StoreUntouched ==
  ASSUME IInv, UNCHANGED <<store, ctx>>
  PROVE  ContextsInOrder' /\ MessagesAreRecorded' /\ HeadIsRecorded' /\ Recordable' = Recordable
  BY DEF IInv, ContextsInOrder, MessagesAreRecorded, HeadIsRecorded, Recordable, Messages, store

LEMMA EndsInOrder ==
  ASSUME IInv, NEW w \in Writer, Ends(w), Recordable \subseteq Recordable'
  PROVE  CallsInOrder' /\ FoundIsRecorded'
  <1>1. call' = [call EXCEPT ![w] = Idle]
    BY DEF Ends
  <1>2. CallsInOrder'
    BY <1>1, IdleInOrder DEF IInv, CallsInOrder
  <1>3. \A x \in Writer : call[x].found \in Seq(Recordable')
    BY DEF IInv, FoundIsRecorded
  <1>4. FoundIsRecorded'
    BY <1>1, <1>3, IdleInOrder DEF IInv, CallsInOrder, FoundIsRecorded
  <1> QED
    BY <1>2, <1>4

(* A call is about a unit of turns, and the unit is not empty.             *)
LEMMA UnitOfTurns ==
  ASSUME IInv, NEW w \in Writer, ~At(w, "idle")
  PROVE  /\ call[w].unit \in Seq(Turn)
         /\ Len(call[w].unit) \in DOMAIN call[w].unit
         /\ \A i \in DOMAIN call[w].unit : call[w].unit[i] \in Turn
  <1>1. call[w].unit \in Units[w]
    BY DEF IInv, CallsInOrder, At
  <1>2. call[w].unit \in Seq(Turn) /\ call[w].unit # <<>>
    BY <1>1, SessionIngestAssumption
  <1> QED
    BY <1>2

LEMMA BeginKeeps ==
  ASSUME IInv, NEW w \in Writer, Begin(w)
  PROVE  IInv'
  <1>1. /\ MessagesAreRecorded'
        /\ Recordable' = Recordable
    BY DEF IInv, Begin, MessagesAreRecorded, Messages, Recordable, store
  <1>2. PICK u \in Units[w] :
          call' = [call EXCEPT ![w] = [Idle EXCEPT !.at = "probe", !.unit = u, !.before = Messages]]
    BY DEF Begin
  <1>3. CallsInOrder'
    BY <1>2, IdleInOrder DEF IInv, CallsInOrder, Fields, Picked
  <1>4. FoundIsRecorded'
    BY <1>1, <1>2, IdleInOrder DEF IInv, CallsInOrder, FoundIsRecorded, Fields
  <1>5. ContextsInOrder' /\ HeadIsRecorded'
    BY <1>1 DEF IInv, Begin, ContextsInOrder, HeadIsRecorded, FreshContext, Recordable, store
  <1> QED
    BY <1>1, <1>3, <1>4, <1>5 DEF IInv

LEMMA ProbeKeeps ==
  ASSUME IInv, NEW w \in Writer, Probe(w)
  PROVE  IInv'
  <1>1. /\ ContextsInOrder' /\ MessagesAreRecorded' /\ HeadIsRecorded'
        /\ Recordable' = Recordable
    BY StoreUntouched DEF Probe, store
  <1>2. PICK r \in Recordable : call' = [call EXCEPT ![w].found = Append(@, r)]
    BY DEF IInv, Probe, Recordable, Recorded, MessagesAreRecorded
  <1>3. Append(call[w].found, r) \in Seq(Recordable)
    BY DEF IInv, FoundIsRecorded
  <1>4. CallsInOrder' /\ FoundIsRecorded'
    BY <1>1, <1>2, <1>3 DEF IInv, CallsInOrder, FoundIsRecorded, Fields
  <1> QED
    BY <1>1, <1>4 DEF IInv

LEMMA ReplayKeeps ==
  ASSUME IInv, NEW w \in Writer, Replay(w)
  PROVE  IInv'
  <1>1. /\ MessagesAreRecorded'
        /\ Recordable' = Recordable
    BY DEF IInv, Replay, MessagesAreRecorded, Messages, Recordable, store
  <1>2. CallsInOrder' /\ FoundIsRecorded'
    BY <1>1, EndsInOrder DEF Replay
  <1>3. call[w].found[Len(call[w].unit)] \in Recordable
    <2>1. Len(call[w].unit) \in DOMAIN call[w].unit
      BY UnitOfTurns DEF Replay, At
    <2>2. Len(call[w].unit) \in DOMAIN call[w].found
      BY <2>1 DEF Replay, Present
    <2> QED
      BY <2>2 DEF IInv, FoundIsRecorded
  <1>4. ContextsInOrder' /\ HeadIsRecorded'
    BY <1>1, <1>3 DEF IInv, Replay, ContextsInOrder, HeadIsRecorded, Recordable
  <1> QED
    BY <1>1, <1>2, <1>4 DEF IInv

(* The ends of a call that write nothing.                                  *)
LEMMA EndKeeps ==
  ASSUME IInv, NEW w \in Writer, Ends(w), UNCHANGED <<store, ctx>>
  PROVE  IInv'
  BY EndsInOrder, StoreUntouched DEF IInv

(* The steps that move a call on and write nothing.                        *)
LEMMA MoveKeeps ==
  ASSUME IInv, NEW w \in Writer, UNCHANGED <<store, ctx>>,
         StartSetup(w) \/ SkipWarm(w) \/ LockSetup(w) \/ LockNode(w) \/ FindNode(w)
           \/ StartRecipients(w) \/ StartWrite(w) \/ LockEntities(w) \/ BeginTx(w) \/ Conflict(w)
  PROVE  IInv'
  <1>1. /\ ContextsInOrder' /\ MessagesAreRecorded' /\ HeadIsRecorded'
        /\ Recordable' = Recordable
    BY StoreUntouched
  <1>2. CASE StartSetup(w)
    <2>1. {Sender[call[w].unit[i]] : i \in DOMAIN call[w].unit} \subseteq Participant
      <3>1. \A i \in DOMAIN call[w].unit : call[w].unit[i] \in Turn
        BY <1>2, UnitOfTurns DEF StartSetup, At
      <3>2. \A t \in Turn : Sender[t] \in Participant
        BY SessionIngestAssumption
      <3> QED
        BY <3>1, <3>2
    <2>2. CallsInOrder' /\ FoundIsRecorded'
      BY <1>1, <1>2, <2>1
      DEF IInv, CallsInOrder, FoundIsRecorded, StartSetup, At, Fields, Picked
    <2> QED
      BY <1>1, <2>2 DEF IInv
  <1>3. CASE SkipWarm(w)
    BY <1>1, <1>3
    DEF IInv, CallsInOrder, FoundIsRecorded, SkipWarm, NextPerson, At, Fields, Picked
  <1>4. CASE LockSetup(w)
    BY <1>1, <1>4 DEF IInv, CallsInOrder, FoundIsRecorded, LockSetup
  <1>5. CASE LockNode(w)
    BY <1>1, <1>5
    DEF IInv, CallsInOrder, FoundIsRecorded, LockNode, Merging, At, Fields, Picked
  <1>6. CASE FindNode(w)
    <2>1. PICK r : \E place \in {"merge sender", "merge recipient"} :
                     call' = [call EXCEPT ![w].at = place, ![w].row = r]
      BY <1>6 DEF FindNode
    <2>2. PICK place \in {"merge sender", "merge recipient"} :
            call' = [call EXCEPT ![w].at = place, ![w].row = r]
      BY <2>1
    <2>3. call[w].todo # {}
      BY <1>6 DEF IInv, CallsInOrder, FindNode, Picked
    <2>4. DOMAIN call = Writer /\ \A v \in Writer : DOMAIN call[v] = Fields
      BY DEF IInv, CallsInOrder
    <2>5. DOMAIN call' = Writer /\ \A v \in Writer \ {w} : call'[v] = call[v]
      BY <2>2, <2>4
    <2>6. /\ DOMAIN call'[w] = Fields /\ call'[w].unit = call[w].unit
          /\ call'[w].todo = call[w].todo /\ call'[w].found = call[w].found
      BY <2>2, <2>4 DEF Fields
    <2>7. call[w].at # "idle"
      BY <1>6 DEF FindNode
    <2>8. CallsInOrder'
      BY <2>3, <2>4, <2>5, <2>6, <2>7 DEF IInv, CallsInOrder
    <2>9. FoundIsRecorded'
      BY <1>1, <2>5, <2>6 DEF IInv, FoundIsRecorded
    <2> QED
      BY <1>1, <2>8, <2>9 DEF IInv
  <1>7. CASE StartRecipients(w)
    <2>1. Strangers(call[w].unit) \subseteq Participant
      <3>1. \A i \in DOMAIN call[w].unit : call[w].unit[i] \in Turn
        BY <1>7, UnitOfTurns DEF StartRecipients, At
      <3>2. \A t \in Turn : AddressedTo[t] \subseteq Participant
        BY SessionIngestAssumption
      <3> QED
        BY <3>1, <3>2 DEF Strangers
    <2>2. CallsInOrder' /\ FoundIsRecorded'
      BY <1>1, <1>7, <2>1
      DEF IInv, CallsInOrder, FoundIsRecorded, StartRecipients, At, Fields, Picked
    <2> QED
      BY <1>1, <2>2 DEF IInv
  <1>8. CASE StartWrite(w)
    BY <1>1, <1>8
    DEF IInv, CallsInOrder, FoundIsRecorded, StartWrite, At, Fields, Picked
  <1>9. CASE LockEntities(w)
    BY <1>1, <1>9 DEF IInv, CallsInOrder, FoundIsRecorded, LockEntities
  <1>10. CASE BeginTx(w)
    BY <1>1, <1>10
    DEF IInv, CallsInOrder, FoundIsRecorded, BeginTx, At, Fields, Picked
  <1>11. CASE Conflict(w)
    BY <1>1, <1>11
    DEF IInv, CallsInOrder, FoundIsRecorded, Conflict, At, Fields, Picked
  <1> QED
    BY <1>2, <1>3, <1>4, <1>5, <1>6, <1>7, <1>8, <1>9, <1>10, <1>11

(* A row for anything but a turn needs no record.                          *)
LEMMA OtherRowKeeps ==
  ASSUME IInv, NEW key, key \notin Turn,
         rows' = rows \cup {Fresh(key)}, UNCHANGED message
  PROVE  MessagesAreRecorded' /\ Recordable' = Recordable
  BY DEF IInv, MessagesAreRecorded, Messages, Recordable, Fresh

LEMMA FindSessionKeeps ==
  ASSUME IInv, NEW w \in Writer, FindSession(w)
  PROVE  IInv'
  <1>1. MessagesAreRecorded' /\ Recordable' = Recordable
    BY DEF IInv, FindSession, MessagesAreRecorded, Messages, Recordable, store
  <1>2. PICK place \in {"session", "sender"} : call' = [call EXCEPT ![w].at = place]
    BY DEF FindSession
  <1>3. CallsInOrder' /\ FoundIsRecorded'
    BY <1>1, <1>2
    DEF IInv, CallsInOrder, FoundIsRecorded, FindSession, At, Fields, Picked
  <1>4. ctx' = ctx \/ \E r : ctx' = [ctx EXCEPT ![w].session = r]
    BY DEF FindSession
  <1>5. ContextsInOrder' /\ HeadIsRecorded'
    BY <1>1, <1>4 DEF IInv, ContextsInOrder, HeadIsRecorded, Recordable
  <1> QED
    BY <1>1, <1>3, <1>5 DEF IInv

LEMMA CreateSessionKeeps ==
  ASSUME IInv, NEW w \in Writer, CreateSession(w)
  PROVE  IInv'
  <1>1. MessagesAreRecorded' /\ Recordable' = Recordable
    BY OtherRowKeeps, SessionIngestAssumption DEF CreateSession
  <1>2. CallsInOrder' /\ FoundIsRecorded'
    BY <1>1 DEF IInv, CallsInOrder, FoundIsRecorded, CreateSession, At, Fields, Picked
  <1>3. ContextsInOrder' /\ HeadIsRecorded'
    BY <1>1 DEF IInv, ContextsInOrder, HeadIsRecorded, Recordable, CreateSession
  <1> QED
    BY <1>1, <1>2, <1>3 DEF IInv

LEMMA MergeNodeKeeps ==
  ASSUME IInv, NEW w \in Writer, MergeNode(w)
  PROVE  IInv'
  <1>1. Person(w) \in Participant
    BY DEF IInv, CallsInOrder, MergeNode, Person, Picked
  <1>2. UNCHANGED rows \/ rows' = rows \cup {Fresh(Person(w))}
    BY DEF MergeNode
  <1>3. MessagesAreRecorded' /\ Recordable' = Recordable
    <2>1. CASE UNCHANGED rows
      BY <2>1 DEF IInv, MergeNode, MessagesAreRecorded, Messages, Recordable
    <2>2. CASE rows' = rows \cup {Fresh(Person(w))}
      BY <1>1, <2>2, OtherRowKeeps, SessionIngestAssumption DEF MergeNode
    <2> QED
      BY <1>2, <2>1, <2>2
  <1>4. CallsInOrder' /\ FoundIsRecorded'
    <2>1. DOMAIN call = Writer /\ \A v \in Writer : DOMAIN call[v] = Fields
      BY DEF IInv, CallsInOrder
    <2>2. PICK r : call' = IF At(w, "merge sender")
                           THEN [call EXCEPT ![w].at = "link", ![w].row = r]
                           ELSE [call EXCEPT ![w].at = "recipients", ![w].row = None,
                                             ![w].todo = @ \ {Person(w)}]
      BY DEF MergeNode
    <2>3. DOMAIN call' = Writer /\ \A v \in Writer \ {w} : call'[v] = call[v]
      BY <2>1, <2>2
    <2>4. /\ DOMAIN call'[w] = Fields /\ call'[w].unit = call[w].unit
          /\ call'[w].found = call[w].found /\ call'[w].todo \subseteq call[w].todo
          /\ call'[w].at \in Picked => call'[w].todo = call[w].todo
      BY <2>1, <2>2 DEF Fields, Picked
    <2>5. call[w].at # "idle" /\ call[w].at \in Picked
      BY DEF MergeNode, Picked
    <2>6. CallsInOrder'
      BY <2>1, <2>3, <2>4, <2>5 DEF IInv, CallsInOrder
    <2>7. FoundIsRecorded'
      BY <1>3, <2>3, <2>4 DEF IInv, FoundIsRecorded
    <2> QED
      BY <2>6, <2>7
  <1>5. ContextsInOrder' /\ HeadIsRecorded'
    BY <1>3 DEF IInv, ContextsInOrder, HeadIsRecorded, Recordable, MergeNode
  <1> QED
    BY <1>3, <1>4, <1>5 DEF IInv

LEMMA LinkKeeps ==
  ASSUME IInv, NEW w \in Writer, Link(w)
  PROVE  IInv'
  <1>1. MessagesAreRecorded' /\ Recordable' = Recordable
    BY DEF IInv, Link, MessagesAreRecorded, Messages, Recordable, store
  <1>2. CallsInOrder' /\ FoundIsRecorded'
    BY <1>1 DEF IInv, CallsInOrder, FoundIsRecorded, Link, NextPerson, At, Fields, Picked
  <1>3. PICK k : ctx' = [ctx EXCEPT ![w].known = k]
    BY DEF Link
  <1>4. ContextsInOrder' /\ HeadIsRecorded'
    BY <1>1, <1>3 DEF IInv, ContextsInOrder, HeadIsRecorded, Recordable
  <1> QED
    BY <1>1, <1>2, <1>4 DEF IInv

(* The row of an entity is not that of a turn.                             *)
LEMMA CountedAreEntities ==
  ASSUME IInv, NEW w \in Writer, ~At(w, "idle"), NEW r \in DOMAIN Counted(w)
  PROVE  r[1] \notin Turn
  <1>1. PICK e \in Named(call[w].unit) :
          r \in IF {x \in DOMAIN call[w].read : x[1] = e} = {} THEN {Fresh(e)}
               ELSE {x \in DOMAIN call[w].read : x[1] = e}
    BY DEF Counted
  <1>2. r[1] = e
    BY <1>1 DEF Fresh
  <1>3. e \in Entity
    <2>1. \A i \in DOMAIN call[w].unit : call[w].unit[i] \in Turn
      BY UnitOfTurns
    <2>2. \A t \in Turn : Mentions[t] \subseteq Entity
      BY SessionIngestAssumption
    <2> QED
      BY <1>1, <2>1, <2>2 DEF Named
  <1> QED
    BY <1>2, <1>3, SessionIngestAssumption

(* The transaction records every turn of its unit, the last one included,  *)
(* and the head moves to that one.                                         *)
LEMMA CommitKeeps ==
  ASSUME IInv, NEW w \in Writer, Commit(w)
  PROVE  IInv'
  <1> DEFINE ids == {m.row : m \in Written(w)}
             last == Fresh(call[w].unit[Len(call[w].unit)])
  <1>1. ~At(w, "idle")
    BY DEF Commit, At
  <1>2. /\ rows' = rows \cup ids \cup DOMAIN Counted(w)
        /\ DOMAIN message' = ids \cup DOMAIN message
        /\ ctx' = [ctx EXCEPT ![w].head = last]
        /\ Ends(w)
    <2>1. rows' = rows \cup ids \cup DOMAIN Counted(w)
      BY DEF Commit
    <2>2. DOMAIN message' = ids \cup DOMAIN message
      BY DEF Commit
    <2>3. ctx' = [ctx EXCEPT ![w].head = last] /\ Ends(w)
      BY DEF Commit
    <2> QED
      BY <2>1, <2>2, <2>3
  <1>3. MessagesAreRecorded'
    <2>1. \A r \in DOMAIN Counted(w) : r[1] \notin Turn
      BY <1>1, CountedAreEntities
    <2>2. \A r \in rows : r[1] \in Turn => r \in DOMAIN message
      BY DEF IInv, MessagesAreRecorded, Messages
    <2>3. \A r \in rows' : r[1] \in Turn => r \in DOMAIN message'
      <3> HIDE DEF ids
      <3> QED
        BY <1>2, <2>1, <2>2
    <2> QED
      BY <2>3 DEF MessagesAreRecorded, Messages
  <1>4. last \in ids
    <2>1. PICK i \in DOMAIN call[w].unit : i = Len(call[w].unit)
      BY <1>1, UnitOfTurns
    <2>2. \A j \in DOMAIN call[w].unit : \E m \in Written(w) : m.row = Fresh(call[w].unit[j])
      <3> TAKE j \in DOMAIN call[w].unit
      <3> DEFINE data == [session |-> ctx[w].session,
                          sender |-> ctx[w].known[Sender[call[w].unit[j]]],
                          prev |-> IF j = 1 THEN LiveHead(w) ELSE Fresh(call[w].unit[j - 1]),
                          before |-> call[w].before]
      <3>1. [row |-> Fresh(call[w].unit[j]), data |-> data] \in Written(w)
        BY Zenon DEF Written
      <3> QED
        BY <3>1
    <2> QED
      BY <2>1, <2>2
  <1>5. CallsInOrder' /\ FoundIsRecorded'
    BY <1>2, EndsInOrder DEF Recordable
  <1>6. ContextsInOrder' /\ HeadIsRecorded'
    BY <1>2, <1>4 DEF IInv, ContextsInOrder, HeadIsRecorded
  <1> QED
    BY <1>3, <1>5, <1>6 DEF IInv

(* Documents, linkers, deletions and the crash add no message.             *)
LEMMA DocumentKeeps ==
  ASSUME IInv, NEW d \in Document, DocumentFinds(d) \/ DocumentCreates(d)
  PROVE  IInv'
  <1>1. CASE DocumentFinds(d)
    BY <1>1
    DEF DocumentFinds, IInv, CallsInOrder, ContextsInOrder, MessagesAreRecorded,
        FoundIsRecorded, HeadIsRecorded, Messages, Recordable, store
  <1>2. CASE DocumentCreates(d)
    <2>1. MessagesAreRecorded' /\ Recordable' = Recordable
      BY <1>2, OtherRowKeeps, SessionIngestAssumption DEF DocumentCreates
    <2> QED
      BY <1>2, <2>1
      DEF DocumentCreates, IInv, CallsInOrder, ContextsInOrder, FoundIsRecorded,
          HeadIsRecorded, Recordable
  <1> QED
    BY <1>1, <1>2

LEMMA LinkerKeeps ==
  ASSUME IInv, NEW l \in Linker, LinkerFinds(l) \/ LinkerCreates(l) \/ LinkerFails(l)
  PROVE  IInv'
  <1>1. CASE LinkerFinds(l) \/ LinkerFails(l)
    BY <1>1
    DEF LinkerFinds, LinkerFails, IInv, CallsInOrder, ContextsInOrder, MessagesAreRecorded,
        FoundIsRecorded, HeadIsRecorded, Messages, Recordable, store
  <1>2. CASE LinkerCreates(l)
    <2>1. MessagesAreRecorded' /\ Recordable' = Recordable
      BY <1>2, OtherRowKeeps, SessionIngestAssumption DEF LinkerCreates
    <2> QED
      BY <1>2, <2>1
      DEF LinkerCreates, IInv, CallsInOrder, ContextsInOrder, FoundIsRecorded,
          HeadIsRecorded, Recordable
  <1> QED
    BY <1>1, <1>2

LEMMA DeleteKeeps ==
  ASSUME IInv, Delete
  PROVE  IInv'
  <1>1. rows' \subseteq rows /\ UNCHANGED <<message, ctx, call>>
    <2>1. \A doomed : Deletes(doomed) => rows' \subseteq rows /\ UNCHANGED <<message, ctx, call>>
      BY DEF Deletes
    <2> QED
      BY <2>1 DEF Delete, DeleteMessage, DeleteSession, ForgetParticipant
  <1> QED
    BY <1>1
    DEF IInv, CallsInOrder, ContextsInOrder, MessagesAreRecorded, FoundIsRecorded,
        HeadIsRecorded, Messages, Recordable

LEMMA CrashKeeps ==
  ASSUME IInv, Crash
  PROVE  IInv'
  <1>1. MessagesAreRecorded'
    BY DEF IInv, Crash, MessagesAreRecorded, Messages, store
  <1>2. CallsInOrder' /\ FoundIsRecorded'
    BY IdleInOrder DEF Crash, CallsInOrder, FoundIsRecorded
  <1>3. ContextsInOrder' /\ HeadIsRecorded'
    BY DEF Crash, ContextsInOrder, HeadIsRecorded, FreshContext
  <1> QED
    BY <1>1, <1>2, <1>3 DEF IInv

LEMMA StepInvariant == IInv /\ [Next]_vars => IInv'
  <1> SUFFICES ASSUME IInv, [Next]_vars PROVE IInv'
    OBVIOUS
  <1>1. ASSUME NEW w \in Writer, Probes(w) PROVE IInv'
    <2>1. CASE IdConflict(w) \/ PartialUnit(w)
      BY <2>1, EndKeeps DEF IdConflict, PartialUnit
    <2>2. CASE StartSetup(w)
      BY <2>2, MoveKeeps DEF StartSetup
    <2> QED
      BY <1>1, <2>1, <2>2, ProbeKeeps, ReplayKeeps DEF Probes
  <1>2. ASSUME NEW w \in Writer, SetsUp(w) PROVE IInv'
    <2>1. CASE SkipWarm(w) \/ LockSetup(w) \/ LockNode(w) \/ FindNode(w)
                 \/ StartRecipients(w) \/ StartWrite(w)
      <3>1. UNCHANGED <<store, ctx>>
        BY <2>1
        DEF SkipWarm, LockSetup, LockNode, FindNode, StartRecipients, StartWrite
      <3> QED
        BY <2>1, <3>1, MoveKeeps
    <2>2. CASE LinkFails(w)
      BY <2>2, EndKeeps DEF LinkFails
    <2> QED
      BY <1>2, <2>1, <2>2, FindSessionKeeps, CreateSessionKeeps, MergeNodeKeeps, LinkKeeps
      DEF SetsUp
  <1>3. ASSUME NEW w \in Writer, Writes(w) PROVE IInv'
    <2>1. CASE LockEntities(w) \/ BeginTx(w) \/ Conflict(w)
      <3>1. UNCHANGED <<store, ctx>>
        BY <2>1 DEF LockEntities, BeginTx, Conflict
      <3> QED
        BY <2>1, <3>1, MoveKeeps
    <2>2. CASE UnreadableEntity(w)
      BY <2>2, EndKeeps DEF UnreadableEntity
    <2> QED
      BY <1>3, <2>1, <2>2, CommitKeeps DEF Writes
  <1>4. ASSUME NEW w \in Writer, Fails(w) PROVE IInv'
    BY <1>4, EndKeeps DEF Fails
  <1>5. CASE UNCHANGED vars
    BY <1>5
    DEF vars, store, IInv, CallsInOrder, ContextsInOrder, MessagesAreRecorded,
        FoundIsRecorded, HeadIsRecorded, Messages, Recordable
  <1> QED
    BY <1>1, <1>2, <1>3, <1>4, <1>5, BeginKeeps, DocumentKeeps, LinkerKeeps, DeleteKeeps, CrashKeeps
    DEF Next, Advances

(* The next turn of a handle is chained behind a message that a            *)
(* transaction committed: no failed or retried attempt of                  *)
(* ingest_turns_atomic, and no replay, leaves anything else in its context.*)
THEOREM HeadsAreRecorded == Spec => []HeadIsRecorded
  <1>1. IInv => HeadIsRecorded
    BY DEF IInv
  <1> QED
    BY InitInvariant, StepInvariant, <1>1, PTL DEF Spec
-----------------------------------------------------------------------------
Keys == Session \cup Participant \cup Entity \cup Turn

(* Rows are numbered without gaps in the order of their creation.          *)
Used(key) == {r \in rows \cup gone : r[1] = key}
Numbered ==
  /\ rows \cup gone \subseteq Keys \X Nat
  /\ \A key \in Keys : IsFiniteSet(Used(key)) /\ \A r \in Used(key) : r[2] <= Cardinality(Used(key))

Guarded(key) == RowsOf(key) \ unguarded
Unique == \A key \in Keys \ Turn : \A r, s \in Guarded(key) : r = s

(* The rows a call may create, and whose stripes it owns meanwhile.        *)
MergingNode == {"find sender", "merge sender", "find recipient", "merge recipient"}
CreatesSession(w, key) == At(w, "session") /\ key = SessionOf[w]
CreatesNode(w, key) == call[w].at \in MergingNode /\ key = Person(w)
CreatesEntity(w, key) == At(w, "write") /\ key \in Named(call[w].unit)
Creates(w, key) == CreatesSession(w, key) \/ CreatesNode(w, key) \/ CreatesEntity(w, key)
Owns(w) ==
  /\ \A key \in Keys : CreatesSession(w, key) => setupLocks[SetupStripe[key]] = w
  /\ \A key \in Keys : CreatesNode(w, key) \/ CreatesEntity(w, key) => rmwLocks[RmwStripe[key]] = w
LockInv ==
  /\ DOMAIN setupLocks = Setups /\ DOMAIN rmwLocks = Rmws
  /\ \A w \in Writer : Owns(w)

(* What a call has found absent is absent, and what it has read is so.     *)
Knows(w) ==
  /\ At(w, "session") => Guarded(SessionOf[w]) = {}
  /\ call[w].at \in {"merge sender", "merge recipient"} /\ call[w].row = None => RowsOf(Person(w)) = {}
  /\ At(w, "write") =>
       /\ DOMAIN call[w].read = {r \in rows \ unguarded : r[1] \in Named(call[w].unit)}
       /\ \A r \in DOMAIN call[w].read : call[w].read[r] = frequency[r]

(* A turn found absent has no Message from before the call began.          *)
Missed(w, i) ==
  \A r \in call[w].before \cap rows : MessageId[r[1]] # MessageId[call[w].unit[i]]
Looked(w) ==
  ~At(w, "idle") =>
    /\ call[w].before \subseteq rows \cup gone
    /\ \A r \in call[w].before : r[1] \in Turn
    /\ Len(call[w].found) <= Len(call[w].unit)
    /\ \A i \in DOMAIN call[w].found : call[w].found[i] = None => Missed(w, i)
    /\ ~At(w, "probe") => \A i \in DOMAIN call[w].unit : Missed(w, i)

Naming(e) == {m \in DOMAIN message : e \in Mentions[m[1]]}
CountInv ==
  /\ IsFiniteSet(DOMAIN message)
  /\ DOMAIN message \subseteq rows \cup gone
  /\ \A m \in DOMAIN message : m[1] \in Turn /\ message[m].before \subseteq rows \cup gone
  /\ DOMAIN frequency = {r \in rows \ unguarded : r[1] \in Entity}
  /\ \A r \in DOMAIN frequency : frequency[r] = Cardinality(Naming(r[1]))
  /\ \A e \in Entity : Guarded(e) = {} => Naming(e) = {}

OnlyKnownUnguarded == unguarded \subseteq rows \cup gone

SInv ==
  /\ OnlyKnownUnguarded
  /\ Numbered /\ Unique /\ LockInv /\ CountInv /\ DuplicatesOverlap
  /\ \A w \in Writer : Knows(w) /\ Looked(w)

-----------------------------------------------------------------------------
LEMMA FreshIsNew ==
  ASSUME Numbered, NEW key \in Keys
  PROVE  /\ Cardinality(Used(key)) \in Nat
         /\ Fresh(key) = <<key, 1 + Cardinality(Used(key))>>
         /\ Fresh(key) \in Keys \X Nat
         /\ Fresh(key) \notin rows \cup gone
  <1>1. Cardinality(Used(key)) \in Nat
    BY FS_CardinalityType DEF Numbered
  <1>2. Fresh(key) = <<key, 1 + Cardinality(Used(key))>>
    BY DEF Fresh, Used
  <1>3. ASSUME Fresh(key) \in rows \cup gone PROVE FALSE
    <2>1. Fresh(key) \in Used(key)
      BY <1>2, <1>3 DEF Used
    <2>2. Fresh(key)[2] <= Cardinality(Used(key))
      BY <2>1 DEF Numbered
    <2> QED
      BY <1>1, <1>2, <2>2
  <1> QED
    BY <1>1, <1>2, <1>3

(* New rows continue the numbers of their keys.                            *)
LEMMA NumberedGrows ==
  ASSUME Numbered, NEW N, \A r \in N : r[1] \in Keys /\ r = Fresh(r[1]),
         rows' \cup gone' = rows \cup gone \cup N
  PROVE  Numbered'
  <1>1. rows' \cup gone' \subseteq Keys \X Nat
    <2>1. N \subseteq Keys \X Nat
      BY FreshIsNew
    <2> QED
      BY <2>1 DEF Numbered
  <1>2. ASSUME NEW key \in Keys
        PROVE  /\ IsFiniteSet(Used(key)')
               /\ \A r \in Used(key)' : r[2] <= Cardinality(Used(key)')
    <2>1. /\ Cardinality(Used(key)) \in Nat
          /\ Fresh(key) = <<key, 1 + Cardinality(Used(key))>>
          /\ Fresh(key) \notin Used(key)
      BY FreshIsNew DEF Used
    <2>2. IsFiniteSet(Used(key)) /\ \A r \in Used(key) : r[2] <= Cardinality(Used(key))
      BY DEF Numbered
    <2>3. CASE Fresh(key) \in N
      <3>1. Used(key)' = Used(key) \cup {Fresh(key)}
        <4>1. ASSUME NEW r \in N, r[1] = key PROVE r = Fresh(key)
          BY <4>1
        <4>2. Fresh(key)[1] = key
          BY <2>1
        <4> QED
          BY <2>3, <4>1, <4>2 DEF Used
      <3>2. /\ IsFiniteSet(Used(key)')
            /\ Cardinality(Used(key)') = Cardinality(Used(key)) + 1
        BY <2>1, <2>2, <3>1, FS_AddElement
      <3>3. \A r \in Used(key) : r[2] \in Nat
        BY DEF Numbered, Used
      <3>4. ASSUME NEW r \in Used(key)' PROVE r[2] <= Cardinality(Used(key)) + 1
        <4>1. CASE r = Fresh(key)
          BY <2>1, <4>1
        <4>2. CASE r \in Used(key)
          BY <2>1, <2>2, <3>3, <4>2
        <4> QED
          BY <3>1, <4>1, <4>2
      <3> QED
        BY <3>2, <3>4
    <2>4. CASE Fresh(key) \notin N
      <3>1. Used(key)' = Used(key)
        BY <2>1, <2>4 DEF Used
      <3> QED
        BY <2>2, <3>1
    <2> QED
      BY <2>3, <2>4
  <1> QED
    BY <1>1, <1>2 DEF Numbered

(* A step of w that adds the rows N, for keys it may create rows of.       *)
Grows(w, N) ==
  /\ rows' = rows \cup N /\ gone' = gone /\ unguarded' = unguarded
  /\ \A r \in N : /\ r[1] \in Keys /\ r = Fresh(r[1])
                  /\ r[1] \notin Turn => Creates(w, r[1]) /\ Guarded(r[1]) = {}
  /\ \A r \in DOMAIN frequency : CreatesEntity(w, r[1]) \/ frequency'[r] = frequency[r]

LEMMA QuietGrows ==
  ASSUME NEW w \in Writer, UNCHANGED store
  PROVE  Grows(w, {})
  BY DEF Grows, store

LEMMA KindOfKey ==
  ASSUME IInv, NEW w \in Writer, NEW key
  PROVE  /\ CreatesSession(w, key) => key \in Session
         /\ CreatesNode(w, key) => key \in Participant
         /\ CreatesEntity(w, key) => key \in Entity
  <1>1. CreatesSession(w, key) => key \in Session
    BY SessionIngestAssumption DEF CreatesSession
  <1>2. CreatesNode(w, key) => key \in Participant
    BY DEF CreatesNode, MergingNode, IInv, CallsInOrder, Picked, Person
  <1>3. ASSUME CreatesEntity(w, key) PROVE key \in Entity
    <2>1. \A i \in DOMAIN call[w].unit : call[w].unit[i] \in Turn
      BY <1>3, UnitOfTurns DEF CreatesEntity, At
    <2>2. \A t \in Turn : Mentions[t] \subseteq Entity
      BY SessionIngestAssumption
    <2> QED
      BY <1>3, <2>1, <2>2 DEF CreatesEntity, Named
  <1> QED
    BY <1>1, <1>2, <1>3

(* Only one call at a time may create the row of a key.                    *)
LEMMA OneCreator ==
  ASSUME IInv, LockInv, NEW w \in Writer, NEW x \in Writer, NEW key,
         Creates(w, key), Creates(x, key)
  PROVE  w = x
  <1>1. key \in Keys
    BY KindOfKey DEF Creates, Keys
  <1>2. CASE key \in Session
    <2>1. CreatesSession(w, key) /\ CreatesSession(x, key)
      BY <1>2, KindOfKey, SessionIngestAssumption DEF Creates
    <2> QED
      BY <1>1, <2>1 DEF LockInv, Owns
  <1>3. CASE key \notin Session
    <2>1. /\ CreatesNode(w, key) \/ CreatesEntity(w, key)
          /\ CreatesNode(x, key) \/ CreatesEntity(x, key)
      BY <1>3, KindOfKey DEF Creates
    <2> QED
      BY <1>1, <2>1 DEF LockInv, Owns
  <1> QED
    BY <1>2, <1>3

LEMMA UniqueGrows ==
  ASSUME Unique, NEW w \in Writer, NEW N, Grows(w, N)
  PROVE  Unique'
  <1> SUFFICES ASSUME NEW key \in Keys \ Turn, NEW r \in Guarded(key)', NEW s \in Guarded(key)'
               PROVE  r = s
    BY DEF Unique
  <1>1. /\ r[1] = key /\ (r \in Guarded(key) \/ r \in N)
        /\ s[1] = key /\ (s \in Guarded(key) \/ s \in N)
    BY DEF Guarded, RowsOf, Grows
  <1>2. CASE r \in Guarded(key) /\ s \in Guarded(key)
    BY <1>2 DEF Unique
  <1>3. CASE r \in N \/ s \in N
    <2>1. Guarded(key) = {}
      BY <1>1, <1>3 DEF Grows
    <2>2. r \in N /\ s \in N
      BY <1>1, <2>1
    <2>3. r = Fresh(r[1]) /\ s = Fresh(s[1])
      BY <2>2 DEF Grows
    <2> QED
      BY <1>1, <2>3
  <1> QED
    BY <1>1, <1>2, <1>3

(* What the other calls know stays so.                                     *)
LEMMA OthersKnow ==
  ASSUME IInv, LockInv, CountInv, NEW w \in Writer, NEW N, Grows(w, N),
         NEW x \in Writer, x # w, Knows(x), call'[x] = call[x]
  PROVE  Knows(x)'
  <1>1. ASSUME NEW key \in Keys \ Turn, Creates(x, key)
        PROVE  RowsOf(key)' = RowsOf(key)
    <2>1. \A r \in N : r[1] # key
      BY <1>1, OneCreator DEF Grows
    <2> QED
      BY <2>1 DEF Grows, RowsOf
  <1>2. At(x, "session") => Guarded(SessionOf[x])' = {}
    <2>1. ASSUME At(x, "session") PROVE SessionOf[x] \in Keys \ Turn /\ Creates(x, SessionOf[x])
      BY <2>1, SessionIngestAssumption DEF Creates, CreatesSession, Keys
    <2>2. Guarded(SessionOf[x]) = RowsOf(SessionOf[x]) \ unguarded
      BY DEF Guarded
    <2>3. Guarded(SessionOf[x])' = RowsOf(SessionOf[x])' \ unguarded
      BY DEF Guarded, Grows
    <2> QED
      BY <1>1, <2>1, <2>2, <2>3 DEF Knows
  <1>3. ASSUME call[x].at \in {"merge sender", "merge recipient"}, call[x].row = None
        PROVE  RowsOf(Person(x))' = {}
    <2>1. Person(x)' = Person(x)
      BY DEF Person
    <2>2. CreatesNode(x, Person(x))
      BY <1>3 DEF CreatesNode, MergingNode
    <2>3. Person(x) \in Keys \ Turn /\ Creates(x, Person(x))
      BY <2>2, KindOfKey, SessionIngestAssumption DEF Creates, Keys
    <2>4. RowsOf(Person(x)) = {}
      BY <1>3 DEF Knows
    <2>5. \A key : RowsOf(key)' = {r \in rows' : r[1] = key}
      BY DEF RowsOf
    <2>6. \A key : RowsOf(key) = {r \in rows : r[1] = key}
      BY DEF RowsOf
    <2> QED
      BY <1>1, <2>1, <2>3, <2>4, <2>5, <2>6 DEF RowsOf
  <1>4. ASSUME At(x, "write")
        PROVE  /\ DOMAIN call[x].read = {r \in rows' \ unguarded' : r[1] \in Named(call[x].unit)}
               /\ \A r \in DOMAIN call[x].read : call[x].read[r] = frequency'[r]
    <2>1. ASSUME NEW key \in Named(call[x].unit) PROVE CreatesEntity(x, key) /\ key \in Keys \ Turn
      <3>1. CreatesEntity(x, key)
        BY <1>4, <2>1 DEF CreatesEntity
      <3>2. key \in Entity
        BY <3>1, KindOfKey
      <3> QED
        BY <3>1, <3>2, SessionIngestAssumption DEF Keys
    <2>2. \A r \in N : r[1] \notin Named(call[x].unit)
      <3> SUFFICES ASSUME NEW r \in N, r[1] \in Named(call[x].unit) PROVE FALSE
        OBVIOUS
      <3>1. Creates(w, r[1]) /\ Creates(x, r[1])
        BY <2>1 DEF Grows, Creates
      <3> QED
        BY <3>1, OneCreator
    <2>3. DOMAIN call[x].read = {r \in rows \ unguarded : r[1] \in Named(call[x].unit)}
      BY <1>4 DEF Knows
    <2>4. ASSUME NEW r \in DOMAIN call[x].read PROVE call[x].read[r] = frequency'[r]
      <3>1. call[x].read[r] = frequency[r]
        BY <1>4, <2>4 DEF Knows
      <3>2. r \in rows \ unguarded /\ r[1] \in Named(call[x].unit)
        BY <2>3, <2>4
      <3>3. r[1] \in Entity
        BY <2>1, <3>2, KindOfKey
      <3>4. r \in DOMAIN frequency
        BY <3>2, <3>3 DEF CountInv
      <3>5. ~CreatesEntity(w, r[1])
        BY <2>1, <3>2, OneCreator DEF Creates
      <3> QED
        BY <3>1, <3>4, <3>5 DEF Grows
    <2> QED
      BY <2>2, <2>3, <2>4 DEF Grows
  <1> QED
    BY <1>2, <1>3, <1>4 DEF Knows, At

(* New rows are none of those a call began with.                           *)
LEMMA MissedKept ==
  ASSUME NEW x \in Writer, NEW i, Missed(x, i),
         \A r \in rows' : r \in rows \/ r \notin rows \cup gone,
         call[x].before \subseteq rows \cup gone,
         call'[x].before = call[x].before, call'[x].unit = call[x].unit
  PROVE  Missed(x, i)'
  BY DEF Missed

LEMMA LookedKept ==
  ASSUME NEW x \in Writer, Looked(x), ~At(x, "idle"),
         \A r \in rows' : r \in rows \/ r \notin rows \cup gone,
         rows \cup gone \subseteq rows' \cup gone',
         call'[x].before = call[x].before, call'[x].unit = call[x].unit,
         call'[x].found = call[x].found,
         call'[x].at # "probe" => ~At(x, "probe")
  PROVE  Looked(x)'
  <1>1. \A i : Missed(x, i) => Missed(x, i)'
    BY MissedKept DEF Looked
  <1> QED
    BY <1>1 DEF Looked, At

(* The rows that a step adds were not there before.                        *)
LEMMA GrowthIsNew ==
  ASSUME Numbered, NEW w \in Writer, NEW N, Grows(w, N)
  PROVE  /\ \A r \in rows' : r \in rows \/ r \notin rows \cup gone
         /\ rows \cup gone \subseteq rows' \cup gone'
         /\ Numbered'
  <1>1. \A r \in N : r \notin rows \cup gone
    BY FreshIsNew DEF Grows
  <1>2. rows' \cup gone' = rows \cup gone \cup N
    BY DEF Grows
  <1>3. \A r \in N : r[1] \in Keys /\ r = Fresh(r[1])
    BY DEF Grows
  <1>4. Numbered'
    BY <1>2, <1>3, NumberedGrows
  <1> QED
    BY <1>1, <1>4 DEF Grows
-----------------------------------------------------------------------------
(* A step of w takes free stripes and gives back its own.                  *)
Passes(old, new, w) ==
  /\ DOMAIN new = DOMAIN old
  /\ \A s \in DOMAIN old : new[s] = old[s] \/ {old[s], new[s]} \subseteq {w, None}

LEMMA ReleasePasses ==
  ASSUME NEW table, NEW w
  PROVE  Passes(table, Released(table, w), w)
  BY DEF Passes, Released

LEMMA TakingPasses ==
  ASSUME NEW table, NEW w, NEW s, Free(table, s)
  PROVE  Passes(table, [table EXCEPT ![s] = w], w)
  BY DEF Passes, Free

LEMMA KeepingPasses ==
  ASSUME NEW table, NEW w
  PROVE  Passes(table, table, w)
  BY DEF Passes

(* Where the calls of the other writers are is not changed by a step of w. *)
LEMMA StepIsLocal ==
  ASSUME IInv, NEW w \in Writer, Begin(w) \/ Advances(w) \/ Fails(w)
  PROVE  /\ Passes(setupLocks, setupLocks', w)
         /\ Passes(rmwLocks, rmwLocks', w)
         /\ \A x \in Writer \ {w} : call'[x] = call[x]
         /\ DOMAIN call' = DOMAIN call
  <1> DEFINE Local == /\ Passes(setupLocks, setupLocks', w)
                      /\ Passes(rmwLocks, rmwLocks', w)
                      /\ \A x \in Writer \ {w} : call'[x] = call[x]
                      /\ DOMAIN call' = DOMAIN call
  <1>1. Writer = DOMAIN call
    BY DEF IInv, CallsInOrder
  <1>2. ASSUME Ends(w) PROVE Local
    BY <1>1, <1>2, ReleasePasses DEF Ends
  <1>3. ASSUME UNCHANGED locks, \A x \in Writer \ {w} : call'[x] = call[x], DOMAIN call' = DOMAIN call
        PROVE  Local
    BY <1>3, KeepingPasses DEF locks
  <1>4. CASE Begin(w)
    BY <1>1, <1>3, <1>4 DEF Begin
  <1>5. CASE Probes(w)
    <2>1. CASE Probe(w)
      BY <1>1, <1>3, <2>1 DEF Probe
    <2>2. CASE StartSetup(w)
      BY <1>1, <1>3, <2>2 DEF StartSetup
    <2> QED
      BY <1>2, <1>5, <2>1, <2>2 DEF Probes, IdConflict, Replay, PartialUnit
  <1>6. CASE SetsUp(w)
    <2>1. CASE SkipWarm(w) \/ StartRecipients(w) \/ StartWrite(w) \/ FindSession(w)
                 \/ CreateSession(w) \/ FindNode(w)
      BY <1>1, <1>3, <2>1
      DEF SkipWarm, StartRecipients, StartWrite, FindSession, CreateSession, FindNode, NextPerson
    <2>2. CASE LockSetup(w)
      BY <2>2, TakingPasses, KeepingPasses DEF LockSetup
    <2>3. CASE LockNode(w)
      BY <1>1, <2>3, TakingPasses, KeepingPasses DEF LockNode
    <2>4. CASE MergeNode(w)
      BY <1>1, <2>4, ReleasePasses, KeepingPasses DEF MergeNode
    <2>5. CASE Link(w)
      BY <1>1, <2>5, ReleasePasses, KeepingPasses DEF Link, NextPerson
    <2>6. CASE LinkFails(w)
      BY <1>2, <2>6 DEF LinkFails
    <2> QED
      BY <1>6, <2>1, <2>2, <2>3, <2>4, <2>5, <2>6 DEF SetsUp
  <1>7. CASE Writes(w)
    <2>1. CASE LockEntities(w)
      BY <2>1, TakingPasses, KeepingPasses DEF LockEntities
    <2>2. CASE BeginTx(w) \/ Conflict(w)
      BY <1>1, <1>3, <2>2 DEF BeginTx, Conflict
    <2>3. CASE Commit(w) \/ UnreadableEntity(w)
      BY <1>2, <2>3 DEF Commit, UnreadableEntity
    <2> QED
      BY <1>7, <2>1, <2>2, <2>3 DEF Writes
  <1>8. CASE Fails(w)
    BY <1>2, <1>8 DEF Fails
  <1> QED
    BY <1>4, <1>5, <1>6, <1>7, <1>8 DEF Advances

LEMMA OthersOwn ==
  ASSUME IInv, LockInv, NEW w \in Writer, NEW x \in Writer \ {w}, call'[x] = call[x],
         Passes(setupLocks, setupLocks', w), Passes(rmwLocks, rmwLocks', w)
  PROVE  Owns(x)'
  <1>1. x # None /\ x # w
    BY SessionIngestAssumption
  <1>2. ASSUME NEW key \in Keys, CreatesSession(x, key)' PROVE setupLocks'[SetupStripe[key]] = x
    <2>1. CreatesSession(x, key)
      BY <1>2 DEF CreatesSession, At
    <2>2. setupLocks[SetupStripe[key]] = x
      BY <2>1 DEF LockInv, Owns
    <2>3. SetupStripe[key] \in DOMAIN setupLocks
      BY <2>1, KindOfKey DEF LockInv, Setups
    <2> QED
      BY <1>1, <2>2, <2>3 DEF Passes
  <1>3. ASSUME NEW key \in Keys, CreatesNode(x, key)' \/ CreatesEntity(x, key)'
        PROVE  rmwLocks'[RmwStripe[key]] = x
    <2>1. CreatesNode(x, key) \/ CreatesEntity(x, key)
      BY <1>3 DEF CreatesNode, CreatesEntity, At, Person
    <2>2. rmwLocks[RmwStripe[key]] = x
      BY <2>1 DEF LockInv, Owns
    <2>3. RmwStripe[key] \in DOMAIN rmwLocks
      BY <2>1, KindOfKey DEF LockInv, Rmws
    <2> QED
      BY <1>1, <2>2, <2>3 DEF Passes
  <1> QED
    BY <1>2, <1>3 DEF Owns

(* Outside the places where it creates rows a call owes nothing.           *)
LEMMA ElsewhereOwesNothing ==
  ASSUME NEW w \in Writer, call'[w].at \notin {"session", "write"} \cup MergingNode
  PROVE  Owns(w)' /\ Knows(w)'
  <1>1. Owns(w)'
    BY DEF Owns, CreatesSession, CreatesNode, CreatesEntity, At
  <1>2. Knows(w)'
    BY DEF Knows, MergingNode, At
  <1> QED
    BY <1>1, <1>2
-----------------------------------------------------------------------------
(* What a call finds under its stripes it knows when it goes on.           *)
LEMMA FindSessionOwes ==
  ASSUME IInv, SInv, NEW w \in Writer, FindSession(w)
  PROVE  Owns(w)' /\ Knows(w)'
  <1>1. call' = [call EXCEPT ![w].at = "session"] \/ call' = [call EXCEPT ![w].at = "sender"]
    BY DEF FindSession
  <1>2. DOMAIN call = Writer /\ DOMAIN call[w] = Fields
    BY DEF IInv, CallsInOrder
  <1>3. CASE call' = [call EXCEPT ![w].at = "sender"]
    <2>1. call'[w].at = "sender"
      BY <1>2, <1>3 DEF Fields
    <2> QED
      BY <2>1, ElsewhereOwesNothing DEF MergingNode
  <1>4. CASE call' = [call EXCEPT ![w].at = "session"]
    <2>1. call'[w].at = "session"
      BY <1>2, <1>4 DEF Fields
    <2>2. RowsOf(SessionOf[w]) = {}
      <3>1. call' # [call EXCEPT ![w].at = "sender"]
        BY <1>2, <2>1 DEF Fields
      <3>2. (IF ctx[w].session # None THEN {ctx[w].session} ELSE RowsOf(SessionOf[w])) = {}
        BY <3>1 DEF FindSession
      <3> QED
        BY <3>2
    <2>3. Guarded(SessionOf[w])' = {}
      BY <2>2 DEF Guarded, RowsOf, FindSession, store
    <2>4. setupLocks'[SetupStripe[SessionOf[w]]] = w
      BY DEF FindSession, SetupHeld, SetupStripes, HeldBy, locks
    <2>5. Owns(w)'
      BY <2>1, <2>4 DEF Owns, CreatesSession, CreatesNode, CreatesEntity, At, MergingNode
    <2>6. Knows(w)'
      BY <2>1, <2>3 DEF Knows, At
    <2> QED
      BY <2>5, <2>6
  <1> QED
    BY <1>1, <1>3, <1>4

LEMMA LockNodeOwes ==
  ASSUME IInv, SInv, NEW w \in Writer, LockNode(w)
  PROVE  Owns(w)' /\ Knows(w)'
  <1>1. DOMAIN call = Writer /\ DOMAIN call[w] = Fields
    BY DEF IInv, CallsInOrder
  <1>2. call'[w].at \in {"find sender", "find recipient"} /\ call'[w].todo = call[w].todo
    BY <1>1 DEF LockNode, Fields
  <1>3. Person(w)' = Person(w)
    BY <1>2 DEF Person
  <1>4. Person(w) \in Participant
    BY DEF IInv, CallsInOrder, LockNode, Merging, At, Person, Picked
  <1>5. rmwLocks'[RmwStripe[Person(w)]] = w
    BY <1>4 DEF LockNode, SInv, LockInv, Rmws
  <1>6. Owns(w)'
    BY <1>2, <1>3, <1>5 DEF Owns, CreatesSession, CreatesNode, CreatesEntity, At, MergingNode
  <1>7. Knows(w)'
    BY <1>2 DEF Knows, At
  <1> QED
    BY <1>6, <1>7

LEMMA FindNodeOwes ==
  ASSUME IInv, SInv, NEW w \in Writer, FindNode(w)
  PROVE  Owns(w)' /\ Knows(w)'
  <1>1. DOMAIN call = Writer /\ DOMAIN call[w] = Fields
    BY DEF IInv, CallsInOrder
  <1>2. PICK r \in IF RowsOf(Person(w)) = {} THEN {None} ELSE RowsOf(Person(w)) :
          call' = [call EXCEPT ![w].at = IF @ = "find sender" THEN "merge sender"
                                                              ELSE "merge recipient",
                               ![w].row = r]
    BY DEF FindNode
  <1>3. /\ call'[w].at \in {"merge sender", "merge recipient"}
        /\ call'[w].todo = call[w].todo /\ call'[w].row = r
    BY <1>1, <1>2 DEF Fields
  <1>4. Person(w)' = Person(w)
    BY <1>3 DEF Person
  <1>5. CreatesNode(w, Person(w)) /\ Person(w) \in Keys
    <2>1. CreatesNode(w, Person(w))
      BY DEF FindNode, CreatesNode, MergingNode
    <2> QED
      BY <2>1, KindOfKey DEF Keys
  <1>6. rmwLocks'[RmwStripe[Person(w)]] = w
    BY <1>5 DEF FindNode, SInv, LockInv, Owns, locks
  <1>7. Owns(w)'
    BY <1>3, <1>4, <1>6 DEF Owns, CreatesSession, CreatesNode, CreatesEntity, At, MergingNode
  <1>8. r = None => RowsOf(Person(w)) = {}
    <2>1. None \notin rows
      BY SessionIngestAssumption DEF SInv, Numbered, Keys
    <2> QED
      BY <2>1 DEF RowsOf
  <1>9. RowsOf(Person(w))' = RowsOf(Person(w))
    BY <1>4 DEF FindNode, RowsOf, store
  <1>10. Knows(w)'
    BY <1>3, <1>4, <1>8, <1>9 DEF Knows, At
  <1> QED
    BY <1>7, <1>10

LEMMA BeginTxOwes ==
  ASSUME IInv, SInv, NEW w \in Writer, BeginTx(w)
  PROVE  Owns(w)' /\ Knows(w)'
  <1> DEFINE named == {r \in rows : r[1] \in Named(call[w].unit)}
  <1>1. DOMAIN call = Writer /\ DOMAIN call[w] = Fields
    BY DEF IInv, CallsInOrder
  <1>2. call' = [call EXCEPT ![w].at = "write",
                             ![w].attempts = @ + 1,
                             ![w].read = [r \in named |-> frequency[r]]]
    BY DEF BeginTx
  <1>3. /\ call'[w].at = "write"
        /\ call'[w].unit = call[w].unit
        /\ call'[w].read = [r \in named |-> frequency[r]]
    BY <1>1, <1>2 DEF Fields
  <1>4. Named(call'[w].unit) = Named(call[w].unit)
    BY <1>3
  <1>5. UNCHANGED <<rows, frequency, rmwLocks>>
    BY DEF BeginTx, store, locks
  <1>6. \A key \in Named(call[w].unit) : rmwLocks[RmwStripe[key]] = w
    BY DEF BeginTx, EntitiesHeld, EntityStripes, HeldBy
  <1>7. Owns(w)'
    BY <1>3, <1>4, <1>5, <1>6 DEF Owns, CreatesSession, CreatesNode, CreatesEntity, At, MergingNode
  <1>8. UNCHANGED unguarded /\ named = {r \in rows \ unguarded : r[1] \in Named(call[w].unit)}
    BY DEF BeginTx, Readable, store
  <1>9. Knows(w)'
    <2> HIDE DEF named
    <2> QED
      BY <1>3, <1>4, <1>5, <1>8 DEF Knows, At
  <1> QED
    BY <1>7, <1>9

(* After its own step a call still owns and knows what it should.          *)
LEMMA OwnStep ==
  ASSUME IInv, SInv, NEW w \in Writer, Begin(w) \/ Advances(w) \/ Fails(w)
  PROVE  Owns(w)' /\ Knows(w)'
  <1> DEFINE Elsewhere == call'[w].at \notin {"session", "write"} \cup MergingNode
  <1>1. DOMAIN call = Writer /\ DOMAIN call[w] = Fields
    BY DEF IInv, CallsInOrder
  <1>2. Ends(w) => Elsewhere
    BY <1>1, IdleInOrder DEF Ends, MergingNode
  <1>3. CASE Begin(w)
    <2>1. PICK u \in Units[w] :
            call' = [call EXCEPT ![w] = [Idle EXCEPT !.at = "probe", !.unit = u, !.before = Messages]]
      BY <1>3 DEF Begin
    <2>2. call'[w].at = "probe"
      BY <1>1, <2>1, IdleInOrder DEF Fields
    <2>3. Elsewhere
      BY <2>2 DEF MergingNode
    <2> QED
      BY <2>3, ElsewhereOwesNothing
  <1>4. CASE Probes(w)
    <2>1. Probe(w) => Elsewhere
      BY <1>1 DEF Probe, At, Fields, MergingNode
    <2>2. StartSetup(w) => Elsewhere
      BY <1>1 DEF StartSetup, Fields, MergingNode
    <2> QED
      BY <1>2, <1>4, <2>1, <2>2, ElsewhereOwesNothing
      DEF Probes, IdConflict, Replay, PartialUnit
  <1>5. CASE SetsUp(w)
    <2>1. SkipWarm(w) \/ LockSetup(w) \/ CreateSession(w) \/ Link(w) => Elsewhere
      <3>1. SkipWarm(w) \/ Link(w) => Elsewhere
        <4>1. SkipWarm(w) => Elsewhere
          BY <1>1 DEF SkipWarm, NextPerson, Fields, MergingNode
        <4>2. Link(w) => Elsewhere
          BY <1>1 DEF Link, NextPerson, Fields, MergingNode
        <4> QED
          BY <4>1, <4>2
      <3>2. LockSetup(w) \/ CreateSession(w) => Elsewhere
        BY <1>1 DEF LockSetup, CreateSession, At, Fields, MergingNode
      <3> QED
        BY <3>1, <3>2
    <2>2. ASSUME MergeNode(w) PROVE Elsewhere
      <3>1. PICK r : \/ call' = [call EXCEPT ![w].at = "link", ![w].row = r]
                     \/ call' = [call EXCEPT ![w].at = "recipients", ![w].row = None,
                                             ![w].todo = @ \ {Person(w)}]
        BY <2>2 DEF MergeNode
      <3>2. call'[w].at \in {"link", "recipients"}
        BY <1>1, <3>1 DEF Fields
      <3> QED
        BY <3>2 DEF MergingNode
    <2>3. LinkFails(w) => Elsewhere
      BY <1>2 DEF LinkFails
    <2>4. StartRecipients(w) \/ StartWrite(w) => Elsewhere
      BY <1>1 DEF StartRecipients, StartWrite, Fields, MergingNode
    <2> QED
      BY <1>5, <2>1, <2>2, <2>3, <2>4, ElsewhereOwesNothing,
         FindSessionOwes, LockNodeOwes, FindNodeOwes
      DEF SetsUp
  <1>6. CASE Writes(w)
    <2>1. LockEntities(w) \/ Conflict(w) => Elsewhere
      BY <1>1 DEF LockEntities, Conflict, At, Fields, MergingNode
    <2>2. Commit(w) \/ UnreadableEntity(w) => Elsewhere
      BY <1>2 DEF Commit, UnreadableEntity
    <2> QED
      BY <1>6, <2>1, <2>2, ElsewhereOwesNothing, BeginTxOwes DEF Writes
  <1>7. CASE Fails(w)
    BY <1>2, <1>7, ElsewhereOwesNothing DEF Fails
  <1> QED
    BY <1>3, <1>4, <1>5, <1>6, <1>7 DEF Advances
-----------------------------------------------------------------------------
(* The rows of a transaction: one for each turn of the unit, and for each  *)
(* entity the one that is counted, or a first one.                         *)
Uses(u, e) == {i \in DOMAIN u : e \in Mentions[u[i]]}
Ids(w) == {m.row : m \in Written(w)}

LEMMA RowsOfTurns ==
  ASSUME NEW w \in Writer
  PROVE  Ids(w) = {Fresh(call[w].unit[i]) : i \in DOMAIN call[w].unit}
  <1> DEFINE made(j) == [row |-> Fresh(call[w].unit[j]),
                         data |-> [session |-> ctx[w].session,
                                   sender |-> ctx[w].known[Sender[call[w].unit[j]]],
                                   prev |-> IF j = 1 THEN LiveHead(w)
                                            ELSE Fresh(call[w].unit[j - 1]),
                                   before |-> call[w].before]]
  <1>1. Written(w) = {made(j) : j \in DOMAIN call[w].unit}
    BY Zenon DEF Written
  <1>2. \A j \in DOMAIN call[w].unit : made(j).row = Fresh(call[w].unit[j])
    OBVIOUS
  <1> HIDE DEF made
  <1> QED
    BY <1>1, <1>2 DEF Ids

LEMMA RowsOfEntities ==
  ASSUME IInv, SInv, NEW w \in Writer, At(w, "write")
  PROVE  /\ \A r \in DOMAIN Counted(w) :
              /\ r[1] \in Named(call[w].unit)
              /\ \/ r \in rows \ unguarded
                 \/ r = Fresh(r[1]) /\ r \notin rows \cup gone /\ Guarded(r[1]) = {}
              /\ Counted(w)[r] = Cardinality(Uses(call[w].unit, r[1]))
                                   + IF r \in rows THEN frequency[r] ELSE 0
         /\ \A r \in rows \ unguarded : r[1] \in Named(call[w].unit) => r \in DOMAIN Counted(w)
         /\ \A e \in Named(call[w].unit) : Guarded(e) = {} => Fresh(e) \in DOMAIN Counted(w)
  <1> DEFINE u == call[w].unit
             read == call[w].read
             old(e) == {r \in DOMAIN read : r[1] = e}
             some(e) == IF old(e) = {} THEN {Fresh(e)} ELSE old(e)
  <1>1. /\ DOMAIN Counted(w) = UNION {some(e) : e \in Named(u)}
        /\ \A r \in DOMAIN Counted(w) :
             Counted(w)[r] = Cardinality({i \in DOMAIN u : r[1] \in Mentions[u[i]]})
                               + (IF r \in DOMAIN read THEN read[r] ELSE 0)
    BY Zenon DEF Counted
  <1>2. /\ DOMAIN read = {r \in rows \ unguarded : r[1] \in Named(u)}
        /\ \A r \in DOMAIN read : read[r] = frequency[r]
    BY DEF SInv, Knows
  <1>3. \A e \in Named(u) : old(e) = Guarded(e)
    BY <1>2 DEF Guarded, RowsOf
  <1>4. ASSUME NEW e \in Named(u), NEW r \in some(e)
        PROVE  /\ r[1] = e
               /\ \/ r \in rows \ unguarded
                  \/ r = Fresh(e) /\ r \notin rows \cup gone /\ Guarded(e) = {}
    <2>1. CASE Guarded(e) = {}
      <3>1. r = Fresh(e)
        BY <1>3, <2>1
      <3>2. e \in Keys
        BY KindOfKey DEF CreatesEntity, Keys
      <3>3. Fresh(e) \notin rows \cup gone
        BY <3>2, FreshIsNew DEF SInv
      <3> QED
        BY <2>1, <3>1, <3>3 DEF Fresh
    <2>2. CASE Guarded(e) # {}
      <3>1. r \in Guarded(e)
        BY <1>3, <2>2
      <3>2. r[1] = e /\ r \in rows \ unguarded
        BY <3>1 DEF Guarded, RowsOf
      <3> QED
        BY <3>2
    <2> QED
      BY <2>1, <2>2
  <1>5. ASSUME NEW r \in DOMAIN Counted(w)
        PROVE  /\ r[1] \in Named(u)
               /\ \/ r \in rows \ unguarded
                  \/ r = Fresh(r[1]) /\ r \notin rows \cup gone /\ Guarded(r[1]) = {}
    <2>1. PICK e \in Named(u) : r \in some(e)
      BY <1>1, <1>5, Zenon
    <2> HIDE DEF some
    <2> QED
      BY <1>4, <2>1
  <1>6. ASSUME NEW r \in DOMAIN Counted(w)
        PROVE  Counted(w)[r] = Cardinality(Uses(u, r[1])) + IF r \in rows THEN frequency[r] ELSE 0
    <2>1. r \in DOMAIN read <=> r \in rows
      BY <1>2, <1>5, <1>6
    <2>2. Counted(w)[r] = Cardinality(Uses(u, r[1])) + (IF r \in DOMAIN read THEN read[r] ELSE 0)
      BY <1>1 DEF Uses
    <2> HIDE DEF read
    <2> QED
      BY <1>2, <2>1, <2>2
  <1>7. ASSUME NEW r \in rows \ unguarded, r[1] \in Named(u) PROVE r \in DOMAIN Counted(w)
    <2>1. r \in old(r[1])
      BY <1>2, <1>7
    <2>2. r \in some(r[1])
      BY <2>1
    <2> HIDE DEF some
    <2> QED
      BY <1>1, <1>7, <2>2
  <1>8. ASSUME NEW e \in Named(u), Guarded(e) = {} PROVE Fresh(e) \in DOMAIN Counted(w)
    <2>1. Fresh(e) \in some(e)
      BY <1>3, <1>8
    <2> HIDE DEF some
    <2> QED
      BY <1>1, <2>1
  <1> QED
    BY <1>5, <1>6, <1>7, <1>8

LEMMA CommitGrows ==
  ASSUME IInv, SInv, NEW w \in Writer, Commit(w)
  PROVE  Grows(w, Ids(w) \cup (DOMAIN Counted(w) \ rows))
  <1> DEFINE u == call[w].unit
             N == Ids(w) \cup (DOMAIN Counted(w) \ rows)
  <1>1. At(w, "write")
    BY DEF Commit
  <1>2. rows' = rows \cup N /\ gone' = gone /\ unguarded' = unguarded
    BY DEF Commit, Ids
  <1>3. ASSUME NEW r \in Ids(w) PROVE r[1] \in Turn /\ r = Fresh(r[1])
    <2>1. PICK i \in DOMAIN u : r = Fresh(u[i])
      BY <1>3, RowsOfTurns
    <2>2. u[i] \in Turn
      BY <1>1, UnitOfTurns DEF At
    <2>3. r[1] = u[i]
      BY <2>1 DEF Fresh
    <2> QED
      BY <2>1, <2>2, <2>3
  <1>4. ASSUME NEW r \in DOMAIN Counted(w) \ rows
        PROVE  /\ r[1] \in Keys /\ r = Fresh(r[1])
               /\ Creates(w, r[1]) /\ Guarded(r[1]) = {}
    <2>1. r[1] \in Named(u) /\ r = Fresh(r[1]) /\ Guarded(r[1]) = {}
      BY <1>1, <1>4, RowsOfEntities
    <2>2. CreatesEntity(w, r[1])
      BY <1>1, <2>1 DEF CreatesEntity
    <2>3. r[1] \in Keys
      BY <2>2, KindOfKey DEF Keys
    <2> QED
      BY <2>1, <2>2, <2>3 DEF Creates
  <1>5. ASSUME NEW r \in DOMAIN frequency, ~CreatesEntity(w, r[1])
        PROVE  frequency'[r] = frequency[r]
    <2>1. r \notin DOMAIN Counted(w)
      BY <1>1, <1>5, RowsOfEntities DEF CreatesEntity
    <2>2. frequency' = [x \in DOMAIN Counted(w) \cup DOMAIN frequency |->
                          IF x \in DOMAIN Counted(w) THEN Counted(w)[x] ELSE frequency[x]]
      BY DEF Commit
    <2> QED
      BY <2>1, <2>2
  <1>6. \A r \in N : /\ r[1] \in Keys /\ r = Fresh(r[1])
                     /\ r[1] \notin Turn => Creates(w, r[1]) /\ Guarded(r[1]) = {}
    BY <1>3, <1>4 DEF Keys
  <1> HIDE DEF N
  <1> QED
    BY <1>2, <1>5, <1>6 DEF Grows, N

LEMMA CreateSessionGrows ==
  ASSUME IInv, SInv, NEW w \in Writer, CreateSession(w)
  PROVE  Grows(w, {Fresh(SessionOf[w])})
  <1>1. Fresh(SessionOf[w])[1] = SessionOf[w]
    BY DEF Fresh
  <1>2. CreatesSession(w, SessionOf[w]) /\ SessionOf[w] \in Keys
    BY SessionIngestAssumption DEF CreateSession, CreatesSession, Keys
  <1>3. Guarded(SessionOf[w]) = {}
    BY DEF CreateSession, SInv, Knows
  <1> QED
    BY <1>1, <1>2, <1>3 DEF CreateSession, Grows, Creates

LEMMA MergeNodeGrows ==
  ASSUME IInv, SInv, NEW w \in Writer, MergeNode(w)
  PROVE  \E N \in {{}, {Fresh(Person(w))}} : Grows(w, N)
  <1>1. CASE call[w].row # None
    <2>1. UNCHANGED <<rows, gone, unguarded, frequency>>
      BY <1>1 DEF MergeNode
    <2>2. Grows(w, {})
      BY <2>1 DEF Grows
    <2> QED
      BY <2>2
  <1>2. CASE call[w].row = None
    <2>1. rows' = rows \cup {Fresh(Person(w))} /\ UNCHANGED <<gone, unguarded, frequency>>
      BY <1>2 DEF MergeNode
    <2>2. Fresh(Person(w))[1] = Person(w)
      BY DEF Fresh
    <2>3. CreatesNode(w, Person(w))
      BY DEF MergeNode, CreatesNode, MergingNode
    <2>4. Person(w) \in Keys
      BY <2>3, KindOfKey DEF Keys
    <2>5. Guarded(Person(w)) = {}
      BY <1>2 DEF MergeNode, SInv, Knows, Guarded
    <2>6. Grows(w, {Fresh(Person(w))})
      BY <2>1, <2>2, <2>3, <2>4, <2>5 DEF Grows, Creates
    <2> QED
      BY <2>6
  <1> QED
    BY <1>1, <1>2

(* Every other step of a call leaves the store alone.                      *)
LEMMA QuietSteps ==
  ASSUME NEW w \in Writer, Begin(w) \/ Advances(w) \/ Fails(w)
  PROVE  CreateSession(w) \/ MergeNode(w) \/ Commit(w) \/ UNCHANGED store
  BY DEF Begin, Advances, Fails, Probes, Probe, IdConflict, Replay, PartialUnit, StartSetup,
         SetsUp, SkipWarm, LockSetup, FindSession, LockNode, FindNode, Link, LinkFails,
         StartRecipients, StartWrite, Writes, LockEntities, UnreadableEntity, BeginTx, Conflict

LEMMA StepGrows ==
  ASSUME IInv, SInv, NEW w \in Writer, Begin(w) \/ Advances(w) \/ Fails(w)
  PROVE  \E N : Grows(w, N)
  BY QuietSteps, CreateSessionGrows, MergeNodeGrows, CommitGrows, QuietGrows

LEMMA BeginLooks ==
  ASSUME IInv, NEW w \in Writer, Begin(w)
  PROVE  Looked(w)'
  <1>1. DOMAIN call = Writer /\ DOMAIN Idle = Fields
    BY IdleInOrder DEF IInv, CallsInOrder
  <1>2. PICK u \in Units[w] :
          call' = [call EXCEPT ![w] = [Idle EXCEPT !.at = "probe", !.unit = u, !.before = Messages]]
    BY DEF Begin
  <1>3. /\ call'[w].at = "probe" /\ call'[w].unit = u
        /\ call'[w].before = Messages /\ call'[w].found = <<>>
    <2>1. Idle.found = <<>>
      BY DEF Idle
    <2> QED
      BY <1>1, <1>2, <2>1 DEF Fields
  <1>4. u \in Seq(Turn)
    BY SessionIngestAssumption
  <1>5. Messages \subseteq rows' \cup gone' /\ \A r \in Messages : r[1] \in Turn
    BY DEF Messages, Begin, store
  <1>6. Len(<<>>) <= Len(u) /\ DOMAIN <<>> = {}
    BY <1>4
  <1> QED
    BY <1>3, <1>5, <1>6 DEF Looked, At

(* A probe that finds nothing sees all the messages there are.             *)
LEMMA ProbeLooks ==
  ASSUME IInv, SInv, NEW w \in Writer, Probe(w)
  PROVE  Looked(w)'
  <1> DEFINE same == Recorded(MessageId[Probing(w)])
             found == call[w].found
  <1>1. DOMAIN call = Writer /\ DOMAIN call[w] = Fields
    BY DEF IInv, CallsInOrder
  <1>2. PICK r \in IF same = {} THEN {None} ELSE {s \in same : s[1] = Probing(w)} :
          call' = [call EXCEPT ![w].found = Append(@, r)]
    BY DEF Probe
  <1>3. /\ call'[w].at = "probe" /\ call'[w].unit = call[w].unit
        /\ call'[w].before = call[w].before /\ call'[w].found = Append(found, r)
    BY <1>1, <1>2 DEF Probe, At, Fields
  <1>4. /\ found \in Seq(Recordable) /\ Len(found) \in Nat
        /\ call[w].unit \in Seq(Turn) /\ Len(call[w].unit) \in Nat
    BY UnitOfTurns DEF IInv, FoundIsRecorded, Probe, At
  <1>5. /\ call[w].before \subseteq rows \cup gone
        /\ \A m \in call[w].before : m[1] \in Turn
        /\ Len(found) <= Len(call[w].unit)
        /\ \A i \in DOMAIN found : found[i] = None => Missed(w, i)
    BY DEF SInv, Looked, Probe, At
  <1>6. UNCHANGED <<rows, gone>>
    BY DEF Probe, store
  <1>7. r = None => Missed(w, Len(found) + 1)
    <2>1. None \notin rows
      BY SessionIngestAssumption DEF SInv, Numbered, Keys
    <2>2. \A m \in same : m \in rows
      BY DEF Recorded, Messages
    <2>3. r = None => same = {}
      BY <2>1, <2>2
    <2>4. same = {} => \A m \in rows : m[1] \in Turn => MessageId[m[1]] # MessageId[Probing(w)]
      BY DEF Recorded, Messages
    <2> QED
      BY <1>5, <2>3, <2>4 DEF Missed, Probing
  <1>8. \A i : Missed(w, i) => Missed(w, i)'
    BY <1>3, <1>6 DEF Missed
  <1>9. /\ Len(Append(found, r)) = Len(found) + 1
        /\ DOMAIN Append(found, r) = DOMAIN found \cup {Len(found) + 1}
        /\ Append(found, r)[Len(found) + 1] = r
        /\ \A i \in DOMAIN found : Append(found, r)[i] = found[i]
    BY <1>4, AppendProperties
  <1>10. Len(found) + 1 <= Len(call[w].unit)
    BY <1>4, <1>5 DEF Probe, Probed
  <1>11. \A i \in DOMAIN Append(found, r) : Append(found, r)[i] = None => Missed(w, i)'
    BY <1>5, <1>7, <1>8, <1>9
  <1> HIDE DEF found
  <1> QED
    BY <1>3, <1>5, <1>6, <1>9, <1>10, <1>11 DEF Looked, At

LEMMA SetupLooks ==
  ASSUME IInv, SInv, NEW w \in Writer, StartSetup(w)
  PROVE  Looked(w)'
  <1>1. DOMAIN call = Writer /\ DOMAIN call[w] = Fields
    BY DEF IInv, CallsInOrder
  <1>2. /\ call'[w].unit = call[w].unit /\ call'[w].found = call[w].found
        /\ call'[w].before = call[w].before
    BY <1>1 DEF StartSetup, Fields
  <1>3. UNCHANGED <<rows, gone>>
    BY DEF StartSetup, store
  <1>4. \A i : Missed(w, i) <=> Missed(w, i)'
    BY <1>2, <1>3 DEF Missed
  <1>5. DOMAIN call[w].found = DOMAIN call[w].unit
    <2>1. call[w].unit \in Seq(Turn) /\ call[w].found \in Seq(Recordable)
      BY UnitOfTurns DEF StartSetup, At, IInv, FoundIsRecorded
    <2> QED
      BY <2>1 DEF StartSetup, Probed
  <1>6. \A i \in DOMAIN call[w].unit : call[w].found[i] = None
    BY <1>5 DEF StartSetup, NewUnit, Present
  <1>7. /\ call[w].before \subseteq rows \cup gone
        /\ \A r \in call[w].before : r[1] \in Turn
        /\ Len(call[w].found) <= Len(call[w].unit)
        /\ \A i \in DOMAIN call[w].found : Missed(w, i)
    BY <1>5, <1>6 DEF SInv, Looked, StartSetup, At
  <1> QED
    BY <1>2, <1>3, <1>4, <1>5, <1>7 DEF Looked

(* The steps after the probes keep the unit and what was found of it.      *)
LEMMA LaterSteps ==
  ASSUME IInv, NEW w \in Writer, SetsUp(w) \/ Writes(w)
  PROVE  \/ call'[w].at = "idle"
         \/ /\ ~At(w, "idle") /\ ~At(w, "probe")
            /\ call'[w].before = call[w].before /\ call'[w].unit = call[w].unit
            /\ call'[w].found = call[w].found
  <1> DEFINE Kept == /\ ~At(w, "idle") /\ ~At(w, "probe")
                     /\ call'[w].before = call[w].before /\ call'[w].unit = call[w].unit
                     /\ call'[w].found = call[w].found
  <1>1. DOMAIN call = Writer /\ DOMAIN call[w] = Fields
    BY DEF IInv, CallsInOrder
  <1>2. Ends(w) => call'[w].at = "idle"
    BY <1>1, IdleInOrder DEF Ends
  <1>3. SkipWarm(w) \/ LockSetup(w) \/ CreateSession(w) \/ Link(w) => Kept
    BY <1>1 DEF SkipWarm, LockSetup, CreateSession, Link, NextPerson, At, Fields
  <1>4. ASSUME FindSession(w) PROVE Kept
    <2>1. PICK place : call' = [call EXCEPT ![w].at = place]
      BY <1>4 DEF FindSession
    <2> QED
      BY <1>1, <1>4, <2>1 DEF FindSession, At, Fields
  <1>5. LockNode(w) => Kept
    BY <1>1 DEF LockNode, Merging, At, Fields
  <1>6. ASSUME FindNode(w) PROVE Kept
    <2>1. PICK r : call' = [call EXCEPT ![w].at = IF @ = "find sender" THEN "merge sender"
                                                                  ELSE "merge recipient",
                                        ![w].row = r]
      BY <1>6 DEF FindNode
    <2> QED
      BY <1>1, <1>6, <2>1 DEF FindNode, At, Fields
  <1>7. ASSUME MergeNode(w) PROVE Kept
    <2>1. PICK r : \/ call' = [call EXCEPT ![w].at = "link", ![w].row = r]
                   \/ call' = [call EXCEPT ![w].at = "recipients", ![w].row = None,
                                           ![w].todo = @ \ {Person(w)}]
      BY <1>7 DEF MergeNode
    <2> QED
      BY <1>1, <1>7, <2>1 DEF MergeNode, At, Fields
  <1>8. StartRecipients(w) \/ StartWrite(w) => Kept
    BY <1>1 DEF StartRecipients, StartWrite, At, Fields
  <1>9. LockEntities(w) \/ Conflict(w) => Kept
    BY <1>1 DEF LockEntities, Conflict, At, Fields
  <1>10. BeginTx(w) => Kept
    BY <1>1 DEF BeginTx, At, Fields
  <1> QED
    BY <1>2, <1>3, <1>4, <1>5, <1>6, <1>7, <1>8, <1>9, <1>10
    DEF SetsUp, Writes, LinkFails, UnreadableEntity, Commit

LEMMA OwnLooks ==
  ASSUME IInv, SInv, NEW w \in Writer, Begin(w) \/ Advances(w) \/ Fails(w)
  PROVE  Looked(w)'
  <1>1. DOMAIN call = Writer /\ DOMAIN call[w] = Fields
    BY DEF IInv, CallsInOrder
  <1>2. Ends(w) => Looked(w)'
    BY <1>1, IdleInOrder DEF Ends, Looked, At
  <1>3. CASE SetsUp(w) \/ Writes(w)
    <2>1. CASE call'[w].at = "idle"
      BY <2>1 DEF Looked, At
    <2>2. CASE call'[w].at # "idle"
      <3>1. PICK N : Grows(w, N)
        BY <1>3, StepGrows DEF Advances
      <3>2. /\ \A r \in rows' : r \in rows \/ r \notin rows \cup gone
            /\ rows \cup gone \subseteq rows' \cup gone'
        BY <3>1, GrowthIsNew DEF SInv
      <3>3. Looked(w)
        BY DEF SInv
      <3> QED
        BY <1>3, <2>2, <3>2, <3>3, LaterSteps, LookedKept
    <2> QED
      BY <2>1, <2>2
  <1> QED
    BY <1>2, <1>3, BeginLooks, ProbeLooks, SetupLooks
    DEF Advances, Probes, IdConflict, Replay, PartialUnit, Fails

(* A row of a session or participant is neither counted nor a message.     *)
LEMMA OtherRowCounts ==
  ASSUME CountInv, DuplicatesOverlap, NEW key \in Session \cup Participant \cup Entity,
         NEW N \in SUBSET {Fresh(key)}, rows' = rows \cup N,
         key \in Entity => unguarded' = unguarded \cup N /\ N \cap rows = {},
         key \notin Entity => unguarded' \in {unguarded, unguarded \cup N},
         UNCHANGED <<gone, message, frequency>>
  PROVE  CountInv' /\ DuplicatesOverlap'
  <1>1. key \notin Turn /\ \A r \in N : r[1] = key
    <2>1. key \notin Turn
      BY SessionIngestAssumption
    <2>2. Fresh(key)[1] = key
      BY DEF Fresh
    <2>3. \A r \in N : r = Fresh(key)
      OBVIOUS
    <2> QED
      BY <2>1, <2>2, <2>3
  <1>2. Messages' = Messages
    BY <1>1 DEF Messages
  <1>3. {r \in rows' \ unguarded' : r[1] \in Entity} = {r \in rows \ unguarded : r[1] \in Entity}
    BY <1>1
  <1>4. \A e \in Entity : Guarded(e)' = Guarded(e)
    BY <1>3 DEF Guarded, RowsOf
  <1>5. \A e : Naming(e)' = Naming(e)
    BY DEF Naming
  <1>6. rows \cup gone \subseteq rows' \cup gone'
    OBVIOUS
  <1>7. CountInv'
    BY <1>3, <1>4, <1>5, <1>6 DEF CountInv
  <1>8. DuplicatesOverlap'
    BY <1>2 DEF DuplicatesOverlap
  <1> QED
    BY <1>7, <1>8

LEMMA QuietCounts ==
  ASSUME CountInv, DuplicatesOverlap, UNCHANGED store
  PROVE  CountInv' /\ DuplicatesOverlap'
  <1>1. CountInv'
    BY DEF CountInv, Naming, Guarded, RowsOf, store
  <1>2. DuplicatesOverlap'
    BY DEF DuplicatesOverlap, Messages, store
  <1> QED
    BY <1>1, <1>2

(* A transaction adds as many messages that name an entity as the unit has *)
(* turns that do: the turns of a unit are distinct and so are their rows.  *)
LEMMA RowsOfUnit ==
  ASSUME IInv, NEW w \in Writer, ~At(w, "idle"), NEW S \in SUBSET DOMAIN call[w].unit
  PROVE  LET T == {Fresh(call[w].unit[i]) : i \in S}
         IN /\ IsFiniteSet(S) /\ IsFiniteSet(T)
            /\ Cardinality(T) = Cardinality(S)
  <1> DEFINE u == call[w].unit
             T == {Fresh(u[i]) : i \in S}
             f == [i \in S |-> Fresh(u[i])]
  <1>1. u \in Units[w] /\ u \in Seq(Turn)
    BY UnitOfTurns DEF IInv, CallsInOrder, At
  <1>2. \A i, j \in DOMAIN u : u[i] = u[j] => i = j
    BY <1>1, SessionIngestAssumption
  <1>3. \A i : Fresh(u[i])[1] = u[i]
    BY DEF Fresh
  <1>4. IsFiniteSet(DOMAIN u)
    BY <1>1, FS_Interval
  <1>5. IsFiniteSet(S)
    BY <1>4, FS_Subset
  <1>6. f \in Bijection(S, T)
    <2>1. f \in [S -> T]
      OBVIOUS
    <2>2. \A i, j \in S : f[i] = f[j] => i = j
      BY <1>2, <1>3
    <2>3. \A t \in T : \E i \in S : f[i] = t
      OBVIOUS
    <2> QED
      BY <2>1, <2>2, <2>3 DEF Bijection, Injection, Surjection, IsInjective
  <1>7. ExistsBijection(S, T)
    BY <1>6 DEF ExistsBijection
  <1> HIDE DEF T
  <1>8. IsFiniteSet(T) /\ Cardinality(T) = Cardinality(S)
    BY <1>5, <1>7, FS_Bijection
  <1> QED
    BY <1>5, <1>8 DEF T

LEMMA NewMessages ==
  ASSUME IInv, SInv, NEW w \in Writer, Commit(w)
  PROVE  /\ DOMAIN message' = DOMAIN message \cup Ids(w)
         /\ Ids(w) \cap (rows \cup gone) = {}
         /\ IsFiniteSet(Ids(w))
         /\ \A s \in Ids(w) : message'[s].before = call[w].before
         /\ \A s \in DOMAIN message : message'[s] = message[s]
  <1> DEFINE u == call[w].unit
             data(i) == [session |-> ctx[w].session,
                         sender |-> ctx[w].known[Sender[u[i]]],
                         prev |-> IF i = 1 THEN LiveHead(w) ELSE Fresh(u[i - 1]),
                         before |-> call[w].before]
             made(i) == [row |-> Fresh(u[i]), data |-> data(i)]
  <1>1. ~At(w, "idle")
    BY DEF Commit, At
  <1>2. u \in Seq(Turn) /\ \A i \in DOMAIN u : u[i] \in Turn
    BY <1>1, UnitOfTurns
  <1>3. message' = [r \in Ids(w) \cup DOMAIN message |->
                      IF r \in Ids(w) THEN (CHOOSE m \in Written(w) : m.row = r).data
                                      ELSE message[r]]
    BY DEF Commit, Ids
  <1>4. ASSUME NEW s \in Ids(w) PROVE s \notin rows \cup gone
    <2>1. PICK i \in DOMAIN u : s = Fresh(u[i])
      BY <1>4, RowsOfTurns
    <2>2. u[i] \in Keys
      BY <1>2 DEF Keys
    <2> QED
      BY <2>1, <2>2, FreshIsNew DEF SInv
  <1>5. IsFiniteSet(Ids(w))
    BY <1>1, RowsOfUnit, RowsOfTurns
  <1>6. ASSUME NEW s \in Ids(w) PROVE message'[s].before = call[w].before
    <2>1. Written(w) = {made(i) : i \in DOMAIN u}
      BY Zenon DEF Written
    <2>2. \A m \in Written(w) : m.data.before = call[w].before
      <3>1. \A i \in DOMAIN u : made(i).data.before = call[w].before
        OBVIOUS
      <3> HIDE DEF made
      <3> QED
        BY <2>1, <3>1
    <2>3. \E m \in Written(w) : m.row = s
      BY <1>6 DEF Ids
    <2>4. message'[s] = (CHOOSE m \in Written(w) : m.row = s).data
      BY <1>3, <1>6
    <2> QED
      BY <2>2, <2>3, <2>4
  <1>7. \A s \in DOMAIN message : message'[s] = message[s]
    <2>1. \A s \in DOMAIN message : s \notin Ids(w)
      BY <1>4 DEF SInv, CountInv
    <2> QED
      BY <1>3, <2>1
  <1> QED
    BY <1>3, <1>4, <1>5, <1>6, <1>7

LEMMA NewNaming ==
  ASSUME IInv, SInv, NEW w \in Writer, Commit(w), NEW e
  PROVE  LET uses == Uses(call[w].unit, e)
         IN /\ Naming(e) \subseteq Naming(e)'
            /\ uses = {} => Naming(e)' = Naming(e)
            /\ Cardinality(Naming(e)) \in Nat /\ Cardinality(uses) \in Nat
            /\ Cardinality(Naming(e)') = Cardinality(Naming(e)) + Cardinality(uses)
  <1> DEFINE u == call[w].unit
             uses == Uses(u, e)
             more == {Fresh(u[i]) : i \in uses}
  <1>1. ~At(w, "idle")
    BY DEF Commit, At
  <1>2. uses \in SUBSET DOMAIN u
    BY DEF Uses
  <1>3. IsFiniteSet(uses) /\ IsFiniteSet(more) /\ Cardinality(more) = Cardinality(uses)
    BY <1>1, <1>2, RowsOfUnit
  <1>4. IsFiniteSet(Naming(e))
    BY FS_Subset DEF SInv, CountInv, Naming
  <1>5. Naming(e)' = Naming(e) \cup more
    <2>1. \A i \in DOMAIN u : Fresh(u[i])[1] = u[i]
      BY DEF Fresh
    <2>2. {m \in Ids(w) : e \in Mentions[m[1]]} = more
      BY <2>1, RowsOfTurns DEF Uses
    <2>3. DOMAIN message' = DOMAIN message \cup Ids(w)
      BY NewMessages
    <2> HIDE DEF more
    <2> QED
      BY <2>2, <2>3 DEF Naming
  <1>6. Naming(e) \cap more = {}
    <2>1. more \subseteq Ids(w)
      BY <1>2, RowsOfTurns
    <2>2. Naming(e) \subseteq rows \cup gone
      BY DEF Naming, SInv, CountInv
    <2> HIDE DEF more
    <2> QED
      BY <2>1, <2>2, NewMessages
  <1>7. uses = {} => more = {}
    OBVIOUS
  <1>8. /\ Cardinality(Naming(e)) \in Nat /\ Cardinality(more) \in Nat
        /\ Cardinality(Naming(e) \cup more)
             = Cardinality(Naming(e)) + Cardinality(more) - Cardinality(Naming(e) \cap more)
    <2> HIDE DEF more
    <2> QED
      BY <1>3, <1>4, FS_Union, FS_CardinalityType
  <1>9. Cardinality(Naming(e) \cap more) = 0
    BY <1>6, FS_EmptySet
  <1>10. Cardinality(Naming(e)') = Cardinality(Naming(e)) + Cardinality(uses)
    <2> HIDE DEF more, uses
    <2> QED
      BY <1>3, <1>5, <1>8, <1>9
  <1> HIDE DEF more, uses
  <1> QED
    BY <1>3, <1>5, <1>7, <1>8, <1>10 DEF uses

LEMMA CommitCounts ==
  ASSUME IInv, SInv, NEW w \in Writer, Commit(w)
  PROVE  CountInv'
  <1> DEFINE u == call[w].unit
  <1>1. At(w, "write") /\ ~At(w, "idle")
    BY DEF Commit, At
  <1>2. /\ rows' = rows \cup Ids(w) \cup DOMAIN Counted(w) /\ gone' = gone /\ unguarded' = unguarded
        /\ DOMAIN frequency' = DOMAIN Counted(w) \cup DOMAIN frequency
        /\ \A r \in DOMAIN Counted(w) : frequency'[r] = Counted(w)[r]
        /\ \A r \in DOMAIN frequency \ DOMAIN Counted(w) : frequency'[r] = frequency[r]
    BY DEF Commit, Ids
  <1>3. \A r \in Ids(w) : r[1] \in Turn /\ r[1] \notin Entity
    <2>1. \A i \in DOMAIN u : u[i] \in Turn /\ Fresh(u[i])[1] = u[i]
      BY <1>1, UnitOfTurns DEF Fresh
    <2>2. \A t \in Turn : t \notin Entity
      BY SessionIngestAssumption
    <2> QED
      BY <2>1, <2>2, RowsOfTurns
  <1>4. \A e \in Named(u) : e \in Entity
    BY <1>1, KindOfKey DEF CreatesEntity
  <1>5. IsFiniteSet(DOMAIN message') /\ DOMAIN message' \subseteq rows' \cup gone'
    <2>1. IsFiniteSet(DOMAIN message) /\ DOMAIN message \subseteq rows \cup gone
      BY DEF SInv, CountInv
    <2>2. DOMAIN message' = DOMAIN message \cup Ids(w) /\ IsFiniteSet(Ids(w))
      BY NewMessages
    <2>3. IsFiniteSet(DOMAIN message \cup Ids(w))
      BY <2>1, <2>2, FS_Union
    <2> QED
      BY <1>2, <2>1, <2>2, <2>3
  <1>6. ASSUME NEW m \in DOMAIN message'
        PROVE  m[1] \in Turn /\ message'[m].before \subseteq rows' \cup gone'
    <2>1. CASE m \in Ids(w)
      <3>1. message'[m].before = call[w].before
        BY <2>1, NewMessages
      <3>2. call[w].before \subseteq rows \cup gone
        BY <1>1 DEF SInv, Looked
      <3> QED
        BY <1>2, <1>3, <2>1, <3>1, <3>2
    <2>2. CASE m \in DOMAIN message
      <3>1. message'[m] = message[m]
        BY <2>2, NewMessages
      <3>2. m[1] \in Turn /\ message[m].before \subseteq rows \cup gone
        BY <2>2 DEF SInv, CountInv
      <3> QED
        BY <1>2, <3>1, <3>2
    <2> QED
      BY <1>6, <2>1, <2>2, NewMessages
  <1>7. DOMAIN frequency' = {r \in rows' \ unguarded' : r[1] \in Entity}
    <2>1. DOMAIN frequency = {r \in rows \ unguarded : r[1] \in Entity}
      BY DEF SInv, CountInv
    <2>2. \A r \in DOMAIN Counted(w) : r[1] \in Entity /\ r \notin unguarded
      BY <1>1, <1>4, RowsOfEntities DEF SInv, OnlyKnownUnguarded
    <2> QED
      BY <1>2, <1>3, <2>1, <2>2
  <1>8. ASSUME NEW r \in DOMAIN frequency'
        PROVE  frequency'[r] = Cardinality(Naming(r[1])')
    <2>1. CASE r \in DOMAIN Counted(w)
      <3>1. Counted(w)[r] = Cardinality(Uses(u, r[1])) + IF r \in rows THEN frequency[r] ELSE 0
        BY <1>1, <2>1, RowsOfEntities
      <3>2. (IF r \in rows THEN frequency[r] ELSE 0) = Cardinality(Naming(r[1]))
        <4>1. r[1] \in Entity
          BY <1>1, <1>4, <2>1, RowsOfEntities
        <4>2. CASE r \in rows
          <5>1. r \notin unguarded
            BY <1>1, <2>1, <4>2, RowsOfEntities
          <5> QED
            BY <4>1, <4>2, <5>1 DEF SInv, CountInv
        <4>3. CASE r \notin rows
          <5>1. Guarded(r[1]) = {}
            BY <1>1, <2>1, <4>3, RowsOfEntities
          <5>2. Naming(r[1]) = {}
            BY <4>1, <5>1 DEF SInv, CountInv
          <5> QED
            BY <4>3, <5>2, FS_EmptySet
        <4> QED
          BY <4>2, <4>3
      <3>3. frequency'[r] = Counted(w)[r]
        BY <1>2, <2>1
      <3>4. /\ Cardinality(Naming(r[1])) \in Nat /\ Cardinality(Uses(u, r[1])) \in Nat
            /\ Cardinality(Naming(r[1])') = Cardinality(Naming(r[1])) + Cardinality(Uses(u, r[1]))
        BY NewNaming
      <3> QED
        BY <3>1, <3>2, <3>3, <3>4
    <2>2. CASE r \notin DOMAIN Counted(w)
      <3>1. r \in DOMAIN frequency /\ r \in rows \ unguarded
        BY <1>2, <2>2 DEF SInv, CountInv
      <3>2. r[1] \notin Named(u)
        BY <1>1, <2>2, <3>1, RowsOfEntities
      <3>3. Uses(u, r[1]) = {}
        BY <3>2 DEF Uses, Named
      <3>4. Naming(r[1])' = Naming(r[1])
        BY <3>3, NewNaming
      <3>5. frequency'[r] = frequency[r]
        BY <1>2, <2>2, <3>1
      <3> QED
        BY <3>1, <3>4, <3>5 DEF SInv, CountInv
    <2> QED
      BY <2>1, <2>2
  <1>9. ASSUME NEW e \in Entity, Guarded(e)' = {} PROVE Naming(e)' = {}
    <2>0. \A r \in DOMAIN Counted(w) : r \notin unguarded
      BY <1>1, RowsOfEntities DEF SInv, OnlyKnownUnguarded
    <2>1. Guarded(e) = {} /\ \A r \in DOMAIN Counted(w) : r[1] # e
      BY <1>2, <1>9, <2>0 DEF Guarded, RowsOf
    <2>2. e \notin Named(u)
      <3>1. Fresh(e)[1] = e
        BY DEF Fresh
      <3> QED
        BY <1>1, <2>1, <3>1, RowsOfEntities
    <2>3. Uses(u, e) = {}
      BY <2>2 DEF Uses, Named
    <2>4. Naming(e)' = Naming(e)
      BY <2>3, NewNaming
    <2> QED
      BY <2>1, <2>4 DEF SInv, CountInv
  <1> QED
    BY <1>5, <1>6, <1>7, <1>8, <1>9 DEF CountInv

LEMMA CommitOverlaps ==
  ASSUME IInv, SInv, NEW w \in Writer, Commit(w)
  PROVE  DuplicatesOverlap'
  <1> DEFINE u == call[w].unit
  <1>1. ~At(w, "idle") /\ ~At(w, "probe")
    BY DEF Commit, At
  <1>2. \A r \in rows' : r \in rows \/ r \notin rows \cup gone
    BY CommitGrows, GrowthIsNew DEF SInv
  <1> SUFFICES ASSUME NEW r \in Messages', NEW s \in Messages', r # s,
                      MessageId[r[1]] = MessageId[s[1]], r \in message'[s].before
               PROVE  FALSE
    BY DEF DuplicatesOverlap
  <1>3. s \in DOMAIN message' /\ s \in rows' /\ r \in rows' /\ r[1] \in Turn /\ s[1] \in Turn
    BY CommitKeeps DEF IInv, MessagesAreRecorded, Messages
  <1>4. CASE s \in Ids(w)
    <2>1. message'[s].before = call[w].before
      BY <1>4, NewMessages
    <2>2. PICK i \in DOMAIN u : s = Fresh(u[i])
      BY <1>4, RowsOfTurns
    <2>3. s[1] = u[i]
      BY <2>2 DEF Fresh
    <2>4. Missed(w, i) /\ call[w].before \subseteq rows \cup gone
      BY <1>1 DEF SInv, Looked
    <2>5. r \in rows
      BY <1>2, <1>3, <2>1, <2>4
    <2> QED
      BY <2>1, <2>3, <2>4, <2>5 DEF Missed
  <1>5. CASE s \in DOMAIN message
    <2>1. message'[s] = message[s] /\ message[s].before \subseteq rows \cup gone
      BY <1>5, NewMessages DEF SInv, CountInv
    <2>2. r \in rows
      BY <1>2, <1>3, <2>1
    <2>3. s \in rows
      BY <1>2, <1>3, <1>5 DEF SInv, CountInv
    <2>4. r \in Messages /\ s \in Messages
      BY <1>3, <2>2, <2>3 DEF Messages
    <2> QED
      BY <2>1, <2>4 DEF SInv, DuplicatesOverlap
  <1> QED
    BY <1>3, <1>4, <1>5, NewMessages

LEMMA WriterKeeps ==
  ASSUME IInv, SInv, NEW w \in Writer, Begin(w) \/ Advances(w) \/ Fails(w)
  PROVE  SInv'
  <1>1. PICK N : Grows(w, N)
    BY StepGrows
  <1>2. /\ \A r \in rows' : r \in rows \/ r \notin rows \cup gone
        /\ rows \cup gone \subseteq rows' \cup gone'
        /\ Numbered'
    BY <1>1, GrowthIsNew DEF SInv
  <1>3. Unique'
    BY <1>1, UniqueGrows DEF SInv
  <1>4. /\ Passes(setupLocks, setupLocks', w) /\ Passes(rmwLocks, rmwLocks', w)
        /\ \A x \in Writer \ {w} : call'[x] = call[x]
    BY StepIsLocal
  <1>5. LockInv'
    <2>1. DOMAIN setupLocks' = Setups /\ DOMAIN rmwLocks' = Rmws
      BY <1>4 DEF SInv, LockInv, Passes
    <2>2. Owns(w)'
      BY OwnStep
    <2>3. \A x \in Writer \ {w} : Owns(x)'
      BY <1>4, OthersOwn DEF SInv
    <2>4. Setups' = Setups /\ Rmws' = Rmws
      BY DEF Setups, Rmws
    <2> QED
      BY <2>1, <2>2, <2>3, <2>4 DEF LockInv
  <1>6. CountInv' /\ DuplicatesOverlap'
    <2>1. CASE UNCHANGED store
      BY <2>1, QuietCounts DEF SInv
    <2>2. CASE CreateSession(w)
      <3>1. SessionOf[w] \in Session /\ SessionOf[w] \notin Entity
        BY SessionIngestAssumption
      <3>2. rows' = rows \cup {Fresh(SessionOf[w])} /\ UNCHANGED <<gone, message, frequency, unguarded>>
        BY <2>2 DEF CreateSession
      <3> QED
        BY <3>1, <3>2, OtherRowCounts DEF SInv
    <2>3. CASE MergeNode(w)
      <3>1. Person(w) \in Participant /\ Person(w) \notin Entity
        BY <2>3, KindOfKey, SessionIngestAssumption DEF MergeNode, CreatesNode, MergingNode
      <3>2. PICK M \in SUBSET {Fresh(Person(w))} : rows' = rows \cup M
        <4>1. rows' = rows \cup {Fresh(Person(w))} \/ rows' = rows \cup {}
          BY <2>3 DEF MergeNode
        <4>2. {} \in SUBSET {Fresh(Person(w))} /\ {Fresh(Person(w))} \in SUBSET {Fresh(Person(w))}
          OBVIOUS
        <4> QED
          BY ONLY <4>1, <4>2, Zenon
      <3>3. UNCHANGED <<gone, message, frequency, unguarded>>
        BY <2>3 DEF MergeNode
      <3> QED
        BY <3>1, <3>2, <3>3, OtherRowCounts DEF SInv
    <2>4. CASE Commit(w)
      BY <2>4, CommitCounts, CommitOverlaps
    <2> QED
      BY <2>1, <2>2, <2>3, <2>4, QuietSteps
  <1>7. ASSUME NEW x \in Writer PROVE Knows(x)' /\ Looked(x)'
    <2>1. CASE x = w
      BY <2>1, OwnStep, OwnLooks
    <2>2. CASE x # w
      <3>1. call'[x] = call[x]
        BY <1>4, <2>2
      <3>2. Knows(x)'
        BY <1>1, <2>2, <3>1, OthersKnow DEF SInv
      <3>3. Looked(x)'
        <4>1. CASE At(x, "idle")
          BY <3>1, <4>1 DEF Looked, At
        <4>2. CASE ~At(x, "idle")
          BY <1>2, <3>1, <4>2, LookedKept DEF SInv, At
        <4> QED
          BY <4>1, <4>2
      <3> QED
        BY <3>2, <3>3
    <2> QED
      BY <2>1, <2>2
  <1>8. OnlyKnownUnguarded'
    BY <1>1, <1>2 DEF SInv, OnlyKnownUnguarded, Grows
  <1> QED
    BY <1>2, <1>3, <1>5, <1>6, <1>7, <1>8 DEF SInv

(* Documents and linkers add unguarded rows, which no call relies on, and  *)
(* take no stripe of a call.                                               *)
LEMMA OutsiderKeepsStore ==
  ASSUME IInv, SInv, NEW key \in Session \cup Entity,
         NEW N \in SUBSET {Fresh(key)}, rows' = rows \cup N, unguarded' = unguarded \cup N,
         UNCHANGED <<gone, message, frequency, call, setupLocks>>,
         DOMAIN rmwLocks' = DOMAIN rmwLocks,
         \A s \in DOMAIN rmwLocks : rmwLocks[s] \in Writer => rmwLocks'[s] = rmwLocks[s]
  PROVE  SInv'
  <1>1. /\ key \in Keys /\ key \notin Turn /\ key \notin Participant
        /\ \A r \in N : r[1] = key /\ r = Fresh(r[1])
    <2>1. key \in Keys /\ key \notin Turn /\ key \notin Participant
      BY SessionIngestAssumption DEF Keys
    <2>2. Fresh(key)[1] = key
      BY DEF Fresh
    <2>3. \A r \in N : r = Fresh(key)
      OBVIOUS
    <2> QED
      BY <2>1, <2>2, <2>3
  <1>2. N \cap (rows \cup gone) = {}
    BY <1>1, FreshIsNew DEF SInv
  <1>3. Numbered'
    <2>1. rows' \cup gone' = rows \cup gone \cup N
      OBVIOUS
    <2> QED
      BY <1>1, <2>1, NumberedGrows DEF SInv
  <1>4. OnlyKnownUnguarded'
    BY DEF SInv, OnlyKnownUnguarded
  <1>5. \A k : Guarded(k)' = Guarded(k)
    BY <1>2 DEF Guarded, RowsOf
  <1>6. Unique'
    BY <1>5 DEF SInv, Unique
  <1>7. LockInv'
    <2>1. ASSUME NEW x \in Writer, NEW k \in Keys, CreatesNode(x, k) \/ CreatesEntity(x, k)
          PROVE  rmwLocks'[RmwStripe[k]] = x
      <3>1. rmwLocks[RmwStripe[k]] = x
        BY <2>1 DEF SInv, LockInv, Owns
      <3>2. RmwStripe[k] \in DOMAIN rmwLocks
        BY <2>1, KindOfKey DEF SInv, LockInv, Rmws
      <3> QED
        BY <3>1, <3>2
    <2>2. Setups' = Setups /\ Rmws' = Rmws
      BY DEF Setups, Rmws
    <2> QED
      BY <2>1, <2>2
      DEF SInv, LockInv, Owns, CreatesSession, CreatesNode, CreatesEntity, At, Person
  <1>8. CountInv' /\ DuplicatesOverlap'
    BY <1>2, OtherRowCounts DEF SInv
  <1>9. ASSUME NEW x \in Writer PROVE Knows(x)'
    <2>1. At(x, "session")' => Guarded(SessionOf[x])' = {}
      BY <1>5 DEF SInv, Knows, At
    <2>2. ASSUME call[x].at \in {"merge sender", "merge recipient"}, call[x].row = None
          PROVE  RowsOf(Person(x))' = {}
      <3>1. Person(x) \in Participant
        BY <2>2, KindOfKey DEF CreatesNode, MergingNode
      <3>2. RowsOf(Person(x)) = {} /\ Person(x)' = Person(x)
        BY <2>2 DEF SInv, Knows, Person
      <3> QED
        BY <1>1, <3>1, <3>2 DEF RowsOf
    <2>3. rows' \ unguarded' = rows \ unguarded
      BY <1>2
    <2> QED
      BY <2>1, <2>2, <2>3 DEF SInv, Knows, At
  <1>10. ASSUME NEW x \in Writer PROVE Looked(x)'
    <2>1. /\ \A y \in rows' : y \in rows \/ y \notin rows \cup gone
          /\ rows \cup gone \subseteq rows' \cup gone'
      BY <1>2
    <2>2. CASE At(x, "idle")
      BY <2>2 DEF Looked, At
    <2>3. CASE ~At(x, "idle")
      BY <2>1, <2>3, LookedKept DEF SInv, At
    <2> QED
      BY <2>2, <2>3
  <1> QED
    BY <1>3, <1>4, <1>6, <1>7, <1>8, <1>9, <1>10 DEF SInv

LEMMA DocumentKeepsStore ==
  ASSUME IInv, SInv, NEW d \in Document, DocumentFinds(d) \/ DocumentCreates(d)
  PROVE  SInv'
  <1>1. SessionOf[d] \in Session
    BY SessionIngestAssumption
  <1>2. PICK N \in SUBSET {Fresh(SessionOf[d])} :
          /\ rows' = rows \cup N /\ unguarded' = unguarded \cup N
          /\ UNCHANGED <<gone, message, frequency, call, locks>>
    <2>1. CASE DocumentFinds(d)
      <3>1. /\ rows' = rows \cup {} /\ unguarded' = unguarded \cup {}
            /\ UNCHANGED <<gone, message, frequency, call, locks>>
        BY <2>1 DEF DocumentFinds, store
      <3> QED
        BY <3>1
    <2>2. CASE DocumentCreates(d)
      <3>1. /\ rows' = rows \cup {Fresh(SessionOf[d])} /\ unguarded' = unguarded \cup {Fresh(SessionOf[d])}
            /\ UNCHANGED <<gone, message, frequency, call, locks>>
        BY <2>2 DEF DocumentCreates
      <3> QED
        BY <3>1
    <2> QED
      BY <2>1, <2>2
  <1> QED
    BY <1>1, <1>2, OutsiderKeepsStore DEF locks

LEMMA LinkerTakesFree ==
  ASSUME NEW l \in Linker, LinkerFinds(l) \/ LinkerCreates(l) \/ LinkerFails(l)
  PROVE  /\ DOMAIN rmwLocks' = DOMAIN rmwLocks
         /\ \A s \in DOMAIN rmwLocks :
              rmwLocks'[s] = rmwLocks[s] \/ {rmwLocks[s], rmwLocks'[s]} \subseteq {l, None}
  <1>1. CASE LinkerFinds(l)
    BY <1>1 DEF LinkerFinds, Free
  <1>2. CASE LinkerCreates(l) \/ LinkerFails(l)
    BY <1>2 DEF LinkerCreates, LinkerFails, Released
  <1> QED
    BY <1>1, <1>2

LEMMA LinkerKeepsStore ==
  ASSUME IInv, SInv, NEW l \in Linker, LinkerFinds(l) \/ LinkerCreates(l) \/ LinkerFails(l)
  PROVE  SInv'
  <1>1. EntityOf[l] \in Entity /\ l \notin Writer /\ None \notin Writer
    BY SessionIngestAssumption
  <1>2. PICK N \in SUBSET {Fresh(EntityOf[l])} :
          /\ rows' = rows \cup N /\ unguarded' = unguarded \cup N
          /\ UNCHANGED <<gone, message, frequency, call, setupLocks>>
    <2>1. CASE LinkerFinds(l) \/ LinkerFails(l)
      <3>1. /\ rows' = rows \cup {} /\ unguarded' = unguarded \cup {}
            /\ UNCHANGED <<gone, message, frequency, call, setupLocks>>
        BY <2>1 DEF LinkerFinds, LinkerFails, store
      <3> QED
        BY <3>1
    <2>2. CASE LinkerCreates(l)
      <3>1. /\ rows' = rows \cup {Fresh(EntityOf[l])} /\ unguarded' = unguarded \cup {Fresh(EntityOf[l])}
            /\ UNCHANGED <<gone, message, frequency, call, setupLocks>>
        BY <2>2 DEF LinkerCreates
      <3> QED
        BY <3>1
    <2> QED
      BY <2>1, <2>2
  <1>3. \A s \in DOMAIN rmwLocks : rmwLocks[s] \in Writer => rmwLocks'[s] = rmwLocks[s]
    BY <1>1, LinkerTakesFree
  <1> QED
    BY <1>1, <1>2, <1>3, LinkerTakesFree, OutsiderKeepsStore

(* Deletions take no row of an entity.                                     *)
LEMMA DeleteTakes ==
  ASSUME Delete
  PROVE  \E doomed \in SUBSET rows : Deletes(doomed) /\ \A r \in doomed : r[1] \notin Entity
  <1>1. \A r \in Messages : r \in rows /\ r[1] \notin Entity
    BY SessionIngestAssumption DEF Messages
  <1>2. \A key \in Session \cup Participant : \A r \in RowsOf(key) : r \in rows /\ r[1] \notin Entity
    BY SessionIngestAssumption DEF RowsOf
  <1>3. ASSUME NEW r \in rows, r[1] \notin Entity, NEW M \in SUBSET Messages, Deletes({r} \cup M)
        PROVE  \E doomed \in SUBSET rows : Deletes(doomed) /\ \A x \in doomed : x[1] \notin Entity
    <2>1. {r} \cup M \in SUBSET rows /\ \A x \in {r} \cup M : x[1] \notin Entity
      BY <1>1, <1>3
    <2> QED
      BY <1>3, <2>1
  <1>4. CASE \E r \in Messages : DeleteMessage(r)
    <2>1. PICK r \in Messages : Deletes({r})
      BY <1>4 DEF DeleteMessage
    <2>2. {r} \cup {} = {r}
      OBVIOUS
    <2>3. Deletes({r} \cup {})
      BY <2>1, <2>2
    <2> QED
      BY <1>1, <1>3, <2>3
  <1>5. CASE \E s \in Session : \E r \in RowsOf(s) : DeleteSession(r)
    <2>1. PICK s \in Session : \E r \in RowsOf(s) : DeleteSession(r)
      BY <1>5
    <2>2. PICK r \in RowsOf(s) : DeleteSession(r)
      BY <2>1
    <2>3. {m \in Messages : message[m].session = r} \in SUBSET Messages
      OBVIOUS
    <2> QED
      BY <1>2, <1>3, <2>2, <2>3 DEF DeleteSession
  <1>6. CASE \E p \in Participant : \E r \in RowsOf(p) : ForgetParticipant(r)
    <2>1. PICK p \in Participant : \E r \in RowsOf(p) : ForgetParticipant(r)
      BY <1>6
    <2>2. PICK r \in RowsOf(p) : ForgetParticipant(r)
      BY <2>1
    <2>3. {m \in Messages : message[m].sender = r} \in SUBSET Messages
      OBVIOUS
    <2> QED
      BY <1>2, <1>3, <2>2, <2>3 DEF ForgetParticipant
  <1> QED
    BY <1>4, <1>5, <1>6 DEF Delete

LEMMA DeleteKeepsStore ==
  ASSUME IInv, SInv, Delete
  PROVE  SInv'
  <1>1. PICK doomed \in SUBSET rows : Deletes(doomed) /\ \A r \in doomed : r[1] \notin Entity
    BY DeleteTakes
  <1>2. /\ rows' \subseteq rows /\ rows' \cup gone' = rows \cup gone
        /\ UNCHANGED <<message, frequency, unguarded, call, setupLocks, rmwLocks>>
        /\ \A r \in rows : r[1] \in Entity => r \in rows'
    BY <1>1 DEF Deletes, locks
  <1>3. Numbered'
    <2>1. \A key : Used(key)' = Used(key)
      BY <1>2 DEF Used
    <2> QED
      BY <1>2, <2>1 DEF SInv, Numbered
  <1>4. \A key : RowsOf(key)' \subseteq RowsOf(key) /\ Guarded(key)' \subseteq Guarded(key)
    BY <1>2 DEF Guarded, RowsOf
  <1>5. Unique'
    BY <1>4 DEF SInv, Unique
  <1>6. LockInv'
    BY <1>2 DEF SInv, LockInv, Owns, CreatesSession, CreatesNode, CreatesEntity, At, Person
  <1>7. CountInv'
    <2>1. {r \in rows' \ unguarded' : r[1] \in Entity} = {r \in rows \ unguarded : r[1] \in Entity}
      BY <1>2
    <2>2. \A e \in Entity : Guarded(e)' = Guarded(e)
      BY <1>2 DEF Guarded, RowsOf
    <2>3. \A e : Naming(e)' = Naming(e)
      BY <1>2 DEF Naming
    <2> QED
      BY <1>2, <2>1, <2>2, <2>3 DEF SInv, CountInv
  <1>8. DuplicatesOverlap'
    BY <1>2 DEF SInv, DuplicatesOverlap, Messages
  <1>9. ASSUME NEW x \in Writer PROVE Knows(x)'
    <2>1. At(x, "session")' => Guarded(SessionOf[x])' = {}
      BY <1>2, <1>4 DEF SInv, Knows, At
    <2>2. call[x].at \in {"merge sender", "merge recipient"} /\ call[x].row = None
            => RowsOf(Person(x))' = {}
      <3>1. Person(x)' = Person(x)
        BY <1>2 DEF Person
      <3>2. RowsOf(Person(x))' \subseteq RowsOf(Person(x))
        BY <1>2, <3>1 DEF RowsOf
      <3> QED
        BY <3>2 DEF SInv, Knows
    <2>3. ASSUME At(x, "write")
          PROVE  {y \in rows' \ unguarded' : y[1] \in Named(call[x].unit)}
                   = {y \in rows \ unguarded : y[1] \in Named(call[x].unit)}
      <3>1. \A key \in Named(call[x].unit) : key \in Entity
        BY <2>3, KindOfKey DEF CreatesEntity
      <3> QED
        BY <1>2, <3>1
    <2> QED
      BY <1>2, <2>1, <2>2, <2>3 DEF SInv, Knows, At
  <1>10. ASSUME NEW x \in Writer PROVE Looked(x)'
    <2>1. call'[x] = call[x]
      BY <1>2
    <2>2. CASE At(x, "idle")
      BY <2>1, <2>2 DEF Looked, At
    <2>3. CASE ~At(x, "idle")
      BY <1>2, <2>1, <2>3, LookedKept DEF SInv, At
    <2> QED
      BY <2>2, <2>3
  <1>11. OnlyKnownUnguarded'
    BY <1>2 DEF SInv, OnlyKnownUnguarded
  <1> QED
    BY <1>3, <1>5, <1>6, <1>7, <1>8, <1>9, <1>10, <1>11 DEF SInv

(* Nothing is owed by calls that are idle.                                 *)
LEMMA IdleOwesNothing ==
  ASSUME NEW w \in Writer, call'[w] = Idle
  PROVE  Owns(w)' /\ Knows(w)' /\ Looked(w)'
  <1>1. call'[w].at = "idle"
    BY IdleInOrder
  <1>2. call'[w].at \notin {"session", "write"} \cup MergingNode
    BY <1>1 DEF MergingNode
  <1> QED
    BY <1>1, <1>2, ElsewhereOwesNothing DEF Looked, At

LEMMA CrashKeepsStore ==
  ASSUME IInv, SInv, Crash
  PROVE  SInv'
  <1>1. /\ UNCHANGED store /\ \A w \in Writer : call'[w] = Idle
        /\ DOMAIN setupLocks' = Setups /\ DOMAIN rmwLocks' = Rmws
    BY DEF Crash
  <1>2. Numbered'
    BY <1>1 DEF SInv, Numbered, Used, store
  <1>3. Unique'
    BY <1>1 DEF SInv, Unique, Guarded, RowsOf, store
  <1>4. CountInv' /\ DuplicatesOverlap'
    BY <1>1, QuietCounts DEF SInv
  <1>5. \A w \in Writer : Owns(w)' /\ Knows(w)' /\ Looked(w)'
    BY <1>1, IdleOwesNothing
  <1>6. LockInv'
    BY <1>1, <1>5 DEF LockInv, Setups, Rmws
  <1>7. OnlyKnownUnguarded'
    BY <1>1 DEF SInv, OnlyKnownUnguarded, store
  <1> QED
    BY <1>2, <1>3, <1>4, <1>5, <1>6, <1>7 DEF SInv

LEMMA StoreInit == Init => SInv
  <1> SUFFICES ASSUME Init PROVE SInv
    OBVIOUS
  <1>1. rows = {} /\ gone = {} /\ message = <<>> /\ frequency = <<>>
    BY DEF Init
  <1>2. DOMAIN message = {} /\ DOMAIN frequency = {}
    BY <1>1
  <1>3. Numbered
    <2>1. \A key : Used(key) = {}
      BY <1>1 DEF Used
    <2> QED
      BY <1>1, <2>1, FS_EmptySet DEF Numbered
  <1>4. Unique
    BY <1>1 DEF Unique, Guarded, RowsOf
  <1>5. CountInv
    BY <1>1, <1>2, FS_EmptySet DEF CountInv, Naming
  <1>6. DuplicatesOverlap
    BY <1>1 DEF DuplicatesOverlap, Messages
  <1>7. \A w \in Writer : call[w].at = "idle"
    BY IdleInOrder DEF Init
  <1>8. LockInv
    BY <1>7 DEF Init, LockInv, Owns, CreatesSession, CreatesNode, CreatesEntity, At, MergingNode
  <1>9. \A w \in Writer : Knows(w) /\ Looked(w)
    BY <1>7 DEF Knows, Looked, At
  <1>10. OnlyKnownUnguarded
    BY DEF Init, OnlyKnownUnguarded
  <1> QED
    BY <1>3, <1>4, <1>5, <1>6, <1>8, <1>9, <1>10 DEF SInv

LEMMA StoreStep == IInv /\ SInv /\ [Next]_vars => SInv'
  <1> SUFFICES ASSUME IInv, SInv, [Next]_vars PROVE SInv'
    OBVIOUS
  <1>1. CASE UNCHANGED vars
    <2>1. UNCHANGED <<rows, gone, unguarded, store, call, setupLocks, rmwLocks>>
      BY <1>1 DEF vars, store, locks
    <2>2. CountInv' /\ DuplicatesOverlap'
      BY <2>1, QuietCounts DEF SInv
    <2>3. Numbered' /\ Unique' /\ OnlyKnownUnguarded'
      BY <2>1 DEF SInv, Numbered, Used, Unique, Guarded, RowsOf, OnlyKnownUnguarded
    <2>4. LockInv'
      BY <2>1 DEF SInv, LockInv, Owns, CreatesSession, CreatesNode, CreatesEntity, At, Person
    <2>5. \A w \in Writer : Looked(w)'
      BY <2>1 DEF SInv, Looked, Missed, At
    <2>6. \A w \in Writer : Knows(w)'
      BY <2>1 DEF SInv, Knows, Guarded, RowsOf, Person, At, store
    <2> QED
      BY <2>2, <2>3, <2>4, <2>5, <2>6 DEF SInv
  <1> QED
    BY <1>1, WriterKeeps, DocumentKeepsStore, LinkerKeepsStore, DeleteKeepsStore, CrashKeepsStore
    DEF Next

(* The recording of turns gives no participant, entity or session a second *)
(* row, although the store has no unique index: the stripes that a call    *)
(* holds from its lookup to its insert keep the others from inserting      *)
(* meanwhile.  Rows of documents and linkers, which do not take these      *)
(* stripes, may come beside.                                               *)
THEOREM RowsAreUnique == Spec => []OneRowPerKey
  <1>1. SInv => OneRowPerKey
    <2> SUFFICES ASSUME SInv, NEW key \in Session \cup Participant \cup Entity
                 PROVE  Cardinality(RowsOf(key) \ unguarded) <= 1
      BY DEF OneRowPerKey
    <2>1. \A r, s \in Guarded(key) : r = s
      BY SessionIngestAssumption DEF SInv, Unique, Keys
    <2>2. Cardinality(Guarded(key)) \in {0, 1}
      <3>1. CASE Guarded(key) = {}
        BY <3>1, FS_EmptySet
      <3>2. CASE Guarded(key) # {}
        <4>1. PICK r : Guarded(key) = {r}
          BY <2>1, <3>2
        <4> QED
          BY <4>1, FS_Singleton
      <3> QED
        BY <3>1, <3>2
    <2> QED
      BY <2>2 DEF Guarded
  <1> QED
    BY InitInvariant, StepInvariant, StoreInit, StoreStep, <1>1, PTL DEF Spec

(* Entity.frequency counts the committed turns that name the entity: the   *)
(* retries of ingest_turns_atomic apply no update twice, and its entity    *)
(* locks, held over every attempt, lose none.                              *)
THEOREM EntityCountsStayExact == Spec => []EntityCountsExact
  <1>1. SInv => EntityCountsExact
    BY DEF SInv, CountInv, EntityCountsExact, Naming
  <1> QED
    BY InitInvariant, StepInvariant, StoreInit, StoreStep, <1>1, PTL DEF Spec

(* A message recorded before a call began is never recorded again by that  *)
(* call: the probe of every turn of its unit comes after its beginning.    *)
THEOREM DuplicatesComeFromOverlap == Spec => []DuplicatesOverlap
  <1>1. SInv => DuplicatesOverlap
    BY DEF SInv
  <1> QED
    BY InitInvariant, StepInvariant, StoreInit, StoreStep, <1>1, PTL DEF Spec
-----------------------------------------------------------------------------
(* A set of numbers that is not empty has a least.                         *)
LEMMA LeastExists ==
  ASSUME NEW S \in SUBSET Nat, S # {}
  PROVE  Min(S) \in S /\ \A y \in S : Min(S) <= y
  <1>1. PICK x \in S : \A y \in S : ~ (<<y, x>> \in OpToRel(<, Nat))
    BY WFMin, NatLessThanWellFounded
  <1>2. \A y \in S : ~ (y < x)
    <2> SUFFICES ASSUME NEW y \in S, y < x PROVE FALSE
      OBVIOUS
    <2>1. <<y, x>> \in OpToRel(<, Nat)
      BY DEF OpToRel
    <2> QED
      BY <1>1, <2>1
  <1>3. \A y \in S : x <= y
    BY <1>2
  <1> QED
    BY <1>3 DEF Min

(* Of finitely many one has the greatest number.                           *)
LEMMA GreatestExists ==
  ASSUME NEW W, IsFiniteSet(W), W # {}, NEW f \in [W -> Nat]
  PROVE  \E w \in W : \A v \in W : f[v] <= f[w]
  <1>1. Cardinality(W) \in Nat /\ Cardinality(W) # 0 /\ ExistsBijection(1..Cardinality(W), W)
    BY FS_CardinalityType, FS_EmptySet
  <1>2. PICK n \in Nat : n = Cardinality(W)
    BY <1>1
  <1>3. PICK g \in Bijection(1..n, W) : TRUE
    BY <1>1, <1>2 DEF ExistsBijection
  <1>4. g \in [1..n -> W] /\ \A v \in W : \E i \in 1..n : g[i] = v
    BY <1>3 DEF Bijection, Injection, Surjection
  <1>5. PICK h \in [1..n -> Nat] : \A i \in 1..n : h[i] = f[g[i]]
    <2>1. [i \in 1..n |-> f[g[i]]] \in [1..n -> Nat]
      BY <1>4
    <2> QED
      BY <2>1
  <1> DEFINE Bad == {k \in Nat : k \in 1..n /\ \A j \in 1..k : \E i \in 1..k : ~(h[i] <= h[j])}
  <1>6. Bad = {}
    <2>1. SUFFICES ASSUME Bad # {} PROVE FALSE
      OBVIOUS
    <2>2. PICK k \in Bad : \A y \in Bad : k <= y
      <3>1. Bad \in SUBSET Nat
        OBVIOUS
      <3> HIDE DEF Bad
      <3>2. Min(Bad) \in Bad /\ \A y \in Bad : Min(Bad) <= y
        BY <2>1, <3>1, LeastExists
      <3> QED
        BY <3>2
    <2>3. /\ k \in Nat /\ k \in 1..n /\ \A j \in 1..k : \E i \in 1..k : ~(h[i] <= h[j])
      BY <2>2
    <2>4. \A i \in 1..k : h[i] \in Nat
      BY <1>5, <2>3
    <2>5. k # 1
      <3>1. SUFFICES ASSUME k = 1 PROVE FALSE
        OBVIOUS
      <3>2. PICK i \in 1..1 : ~(h[i] <= h[1])
        BY <2>3, <3>1
      <3>3. i = 1
        BY <3>2
      <3> QED
        BY <2>4, <3>1, <3>2, <3>3
    <2>6. k - 1 \notin Bad
      <3>1. ~(k <= k - 1)
        BY <2>3
      <3> HIDE DEF Bad
      <3> QED
        BY <2>2, <3>1
    <2>7. k - 1 \in Nat /\ k - 1 \in 1..n
      BY <2>3, <2>5
    <2>8. PICK j \in 1..(k - 1) : \A i \in 1..(k - 1) : h[i] <= h[j]
      BY <2>6, <2>7
    <2>9. \A i \in 1..k : i = k \/ i \in 1..(k - 1)
      BY <2>3
    <2>10. j \in 1..k /\ k \in 1..k
      BY <2>3, <2>8
    <2>11. CASE h[k] <= h[j]
      BY <2>3, <2>8, <2>9, <2>10, <2>11
    <2>12. CASE ~(h[k] <= h[j])
      <3>1. \A i \in 1..(k - 1) : h[i] <= h[k]
        BY <2>4, <2>8, <2>9, <2>10, <2>12
      <3>2. h[k] <= h[k]
        BY <2>4, <2>10
      <3> QED
        BY <2>3, <2>9, <2>10, <3>1, <3>2
    <2> QED
      BY <2>11, <2>12
  <1>7. n \in 1..n /\ n \in Nat
    BY <1>1, <1>2
  <1>8. PICK j \in 1..n : \A i \in 1..n : h[i] <= h[j]
    BY <1>6, <1>7
  <1> QED
    BY <1>4, <1>5, <1>8
-----------------------------------------------------------------------------
(* The stripes a call holds of those it wants are the lowest.              *)
Lowest(held, wanted) == held \subseteq wanted /\ \A s \in held, u \in wanted \ held : s < u

(* Stripes are taken in order: setup stripes before RMW stripes, and of    *)
(* each table the lowest first; a node's stripe is the only one of its     *)
(* table, and none is kept between two rounds.                             *)
InSetup == {"setup", "session", "sender", "find sender", "merge sender", "link"}
WithoutNode == {"idle", "probe", "setup", "session", "sender", "link", "recipients"}
InOrder(w) ==
  /\ call[w].at \notin InSetup => HeldBy(setupLocks, w) = {}
  /\ At(w, "setup") /\ HeldBy(setupLocks, w) # {} =>
       call[w].todo # {} /\ Cold(w) /\ Lowest(HeldBy(setupLocks, w), SetupStripes(w))
  /\ call[w].at \in WithoutNode => HeldBy(rmwLocks, w) = {}
  /\ At(w, "lock") => Lowest(HeldBy(rmwLocks, w), EntityStripes(call[w].unit))
  /\ At(w, "write") => HeldBy(rmwLocks, w) = EntityStripes(call[w].unit)
OrderInv ==
  /\ DOMAIN setupLocks = Setups /\ DOMAIN rmwLocks = Rmws
  /\ \A w \in Writer : InOrder(w)

(* Taking the lowest of the stripes that are missing keeps them so.        *)
LEMMA LowestTaken ==
  ASSUME NEW held, NEW wanted \in SUBSET Nat, Lowest(held, wanted), held # wanted
  PROVE  /\ Min(wanted \ held) \in wanted \ held
         /\ \A u \in wanted \ held : Min(wanted \ held) <= u
         /\ Lowest(held \cup {Min(wanted \ held)}, wanted)
  <1>1. wanted \ held \in SUBSET Nat /\ wanted \ held # {}
    BY DEF Lowest
  <1>2. PICK m : m = Min(wanted \ held)
    OBVIOUS
  <1>3. m \in wanted \ held /\ \A u \in wanted \ held : m <= u
    BY <1>1, <1>2, LeastExists
  <1>4. \A u \in wanted \ (held \cup {m}) : m < u
    BY <1>3
  <1>5. Lowest(held \cup {m}, wanted)
    BY <1>3, <1>4 DEF Lowest
  <1> QED
    BY <1>2, <1>3, <1>5

(* What a table says of a call after a stripe was taken or given back.     *)
LEMMA HeldAfter ==
  ASSUME NEW table, NEW w \in Writer
  PROVE  /\ HeldBy(Released(table, w), w) = {}
         /\ \A s \in DOMAIN table : HeldBy([table EXCEPT ![s] = w], w) = HeldBy(table, w) \cup {s}
  BY SessionIngestAssumption DEF HeldBy, Released

LEMMA HeldByOthers ==
  ASSUME NEW old, NEW new, NEW w \in Writer, NEW x \in Writer \ {w}, Passes(old, new, w)
  PROVE  HeldBy(new, x) = HeldBy(old, x)
  BY SessionIngestAssumption DEF HeldBy, Passes

(* The stripes a call wants.                                               *)
LEMMA WantedStripes ==
  ASSUME IInv, NEW w \in Writer
  PROVE  /\ call[w].todo # {} => SetupStripes(w) \subseteq Setups /\ SetupStripes(w) \in SUBSET Nat
         /\ ~At(w, "idle") => EntityStripes(call[w].unit) \subseteq Rmws
                              /\ EntityStripes(call[w].unit) \in SUBSET Nat
  <1>1. ASSUME call[w].todo # {}
        PROVE  SetupStripes(w) \subseteq Setups /\ SetupStripes(w) \in SUBSET Nat
    <2>1. Person(w) \in Participant
      BY <1>1 DEF IInv, CallsInOrder, Person
    <2>2. SessionOf[w] \in Session
      BY SessionIngestAssumption
    <2> QED
      BY <2>1, <2>2, SessionIngestAssumption DEF SetupStripes, Setups
  <1>2. ASSUME ~At(w, "idle")
        PROVE  EntityStripes(call[w].unit) \subseteq Rmws /\ EntityStripes(call[w].unit) \in SUBSET Nat
    <2>1. \A i \in DOMAIN call[w].unit : call[w].unit[i] \in Turn
      BY <1>2, UnitOfTurns DEF At
    <2>2. Named(call[w].unit) \subseteq Entity
      BY <2>1, SessionIngestAssumption DEF Named
    <2> QED
      BY <2>2, SessionIngestAssumption DEF EntityStripes, Rmws
  <1> QED
    BY <1>1, <1>2

(* A step of w leaves the other contexts as they are.                      *)
LEMMA ContextIsLocal ==
  ASSUME IInv, NEW w \in Writer, Begin(w) \/ Advances(w) \/ Fails(w), NEW x \in Writer \ {w}
  PROVE  ctx'[x] = ctx[x]
  <1>1. DOMAIN ctx = Writer
    BY DEF IInv, ContextsInOrder
  <1>2. CASE Begin(w)
    BY <1>1, <1>2 DEF Begin
  <1>3. CASE Probes(w)
    BY <1>1, <1>3 DEF Probes, Probe, IdConflict, Replay, PartialUnit, StartSetup
  <1>4. CASE SetsUp(w)
    <2>1. CASE FindSession(w)
      <3>1. ctx' = ctx \/ \E r : ctx' = [ctx EXCEPT ![w].session = r]
        BY <2>1 DEF FindSession
      <3> QED
        BY <1>1, <3>1
    <2>2. CASE CreateSession(w)
      BY <1>1, <2>2 DEF CreateSession
    <2>3. CASE Link(w)
      BY <1>1, <2>3 DEF Link
    <2> QED
      BY <1>1, <1>4, <2>1, <2>2, <2>3
      DEF SetsUp, SkipWarm, LockSetup, LockNode, FindNode, MergeNode, LinkFails, StartRecipients, StartWrite
  <1>5. CASE Writes(w)
    <2>1. CASE Commit(w)
      BY <1>1, <2>1 DEF Commit
    <2> QED
      BY <1>5, <2>1 DEF Writes, LockEntities, UnreadableEntity, BeginTx, Conflict
  <1>6. CASE Fails(w)
    BY <1>6 DEF Fails
  <1> QED
    BY <1>2, <1>3, <1>4, <1>5, <1>6 DEF Advances
-----------------------------------------------------------------------------
(* A call that ended holds nothing.                                        *)
LEMMA EndedInOrder ==
  ASSUME IInv, NEW w \in Writer, Ends(w)
  PROVE  InOrder(w)'
  <1>1. call'[w] = Idle /\ Idle.at = "idle"
    BY IdleInOrder DEF IInv, CallsInOrder, Ends
  <1>2. HeldBy(setupLocks', w) = {} /\ HeldBy(rmwLocks', w) = {}
    BY HeldAfter DEF Ends
  <1> QED
    BY <1>1, <1>2 DEF InOrder, At, InSetup

(* What a step leaves of a call when it takes and gives back no stripe.    *)
LEMMA LookupsInOrder ==
  ASSUME IInv, OrderInv, NEW w \in Writer,
         Begin(w) \/ Probe(w) \/ StartSetup(w) \/ SkipWarm(w) \/ StartRecipients(w) \/ StartWrite(w)
         \/ FindNode(w) \/ BeginTx(w) \/ Conflict(w)
  PROVE  InOrder(w)'
  <1>1. DOMAIN call = Writer /\ DOMAIN call[w] = Fields
    BY DEF IInv, CallsInOrder
  <1>2. InOrder(w)
    BY DEF OrderInv
  <1>3. HeldBy(setupLocks', w) = HeldBy(setupLocks, w) /\ HeldBy(rmwLocks', w) = HeldBy(rmwLocks, w)
    BY DEF Begin, Probe, StartSetup, SkipWarm, StartRecipients, StartWrite, FindNode, BeginTx,
           Conflict, locks
  <1>4. CASE Begin(w)
    <2>1. PICK u \in Units[w] :
            call' = [call EXCEPT ![w] = [Idle EXCEPT !.at = "probe", !.unit = u, !.before = Messages]]
      BY <1>4 DEF Begin
    <2>2. call'[w].at = "probe"
      BY <1>1, <2>1, IdleInOrder DEF Fields
    <2> QED
      BY <1>2, <1>3, <1>4, <2>2 DEF InOrder, Begin, At, InSetup, WithoutNode
  <1>5. CASE Probe(w)
    <2>1. call'[w].at = "probe"
      BY <1>1, <1>5 DEF Probe, At, Fields
    <2> QED
      BY <1>2, <1>3, <1>5, <2>1 DEF InOrder, Probe, At, InSetup, WithoutNode
  <1>6. CASE StartSetup(w)
    <2>1. call'[w].at = "setup"
      BY <1>1, <1>6 DEF StartSetup, Fields
    <2> QED
      BY <1>2, <1>3, <1>6, <2>1 DEF InOrder, StartSetup, At, InSetup, WithoutNode
  <1>7. CASE SkipWarm(w)
    <2>1. call'[w].at = "setup"
      BY <1>1, <1>7 DEF SkipWarm, NextPerson, Fields
    <2> QED
      BY <1>2, <1>3, <1>7, <2>1 DEF InOrder, SkipWarm, At, InSetup, WithoutNode
  <1>8. CASE StartRecipients(w)
    <2>1. call'[w].at = "recipients"
      BY <1>1, <1>8 DEF StartRecipients, Fields
    <2> QED
      BY <1>2, <1>3, <1>8, <2>1 DEF InOrder, StartRecipients, At, InSetup, WithoutNode
  <1>9. CASE StartWrite(w)
    <2>1. call'[w].at = "lock"
      BY <1>1, <1>9 DEF StartWrite, Fields
    <2> QED
      BY <1>2, <1>3, <1>9, <2>1 DEF InOrder, StartWrite, At, InSetup, WithoutNode, Lowest
  <1>10. CASE FindNode(w)
    <2>1. PICK r :
            call' = [call EXCEPT ![w].at = IF @ = "find sender" THEN "merge sender" ELSE "merge recipient",
                                 ![w].row = r]
      BY <1>10 DEF FindNode
    <2>2. call'[w].at = (IF call[w].at = "find sender" THEN "merge sender" ELSE "merge recipient")
      BY <1>1, <2>1 DEF Fields
    <2> QED
      BY <1>2, <1>3, <1>10, <2>2 DEF InOrder, FindNode, At, InSetup, WithoutNode
  <1>11. CASE BeginTx(w)
    <2>1. call'[w].at = "write" /\ call'[w].unit = call[w].unit
      BY <1>1, <1>11 DEF BeginTx, Fields
    <2> QED
      BY <1>2, <1>3, <1>11, <2>1 DEF InOrder, BeginTx, EntitiesHeld, EntityStripes, At, InSetup, WithoutNode
  <1>12. CASE Conflict(w)
    <2>1. call'[w].at = "lock" /\ call'[w].unit = call[w].unit
      BY <1>1, <1>12 DEF Conflict, Fields
    <2> QED
      BY <1>2, <1>3, <1>12, <2>1 DEF InOrder, Conflict, EntityStripes, At, InSetup, WithoutNode, Lowest
  <1> QED
    BY <1>4, <1>5, <1>6, <1>7, <1>8, <1>9, <1>10, <1>11, <1>12

(* Setting up the session.                                                 *)
LEMMA SetupInOrder ==
  ASSUME IInv, OrderInv, NEW w \in Writer, LockSetup(w) \/ FindSession(w) \/ CreateSession(w)
  PROVE  InOrder(w)'
  <1>1. DOMAIN call = Writer /\ DOMAIN call[w] = Fields /\ DOMAIN setupLocks = Setups
    BY DEF IInv, CallsInOrder, OrderInv
  <1>2. InOrder(w)
    BY DEF OrderInv
  <1>3. CASE LockSetup(w)
    <2>1. call' = call /\ ctx' = ctx /\ rmwLocks' = rmwLocks /\ call[w].todo # {} /\ Cold(w) /\ At(w, "setup")
      BY <1>3 DEF LockSetup
    <2> DEFINE held == HeldBy(setupLocks, w)
    <2>2. SetupStripes(w) \in SUBSET Nat /\ SetupStripes(w) \subseteq Setups
      BY <2>1, WantedStripes
    <2>3. Lowest(held, SetupStripes(w)) /\ held # SetupStripes(w)
      BY <1>2, <1>3, <2>1 DEF InOrder, Lowest, LockSetup, SetupHeld
    <2>4. setupLocks' = [setupLocks EXCEPT ![Min(SetupStripes(w) \ held)] = w]
      BY <1>3 DEF LockSetup
    <2>5. PICK s : s = Min(SetupStripes(w) \ held)
      OBVIOUS
    <2>6. s \in DOMAIN setupLocks /\ Lowest(held \cup {s}, SetupStripes(w))
      BY <1>1, <2>2, <2>3, <2>5, LowestTaken
    <2>7. HeldBy(setupLocks', w) = held \cup {s}
      <3>1. setupLocks' = [setupLocks EXCEPT ![s] = w]
        BY <2>4, <2>5
      <3>2. HeldBy([setupLocks EXCEPT ![s] = w], w) = HeldBy(setupLocks, w) \cup {s}
        BY <2>6, HeldAfter
      <3> QED
        BY <3>1, <3>2
    <2>8. SetupStripes(w)' = SetupStripes(w) /\ Cold(w)' = Cold(w)
      BY <2>1 DEF SetupStripes, Person, Cold, Known
    <2> QED
      BY <1>2, <2>1, <2>6, <2>7, <2>8 DEF InOrder, At, InSetup
  <1>4. CASE FindSession(w)
    <2>1. call' = [call EXCEPT ![w].at = "session"] \/ call' = [call EXCEPT ![w].at = "sender"]
      BY <1>4 DEF FindSession
    <2>2. call'[w].at \in {"session", "sender"}
      BY <1>1, <2>1 DEF Fields
    <2>3. rmwLocks' = rmwLocks /\ At(w, "setup")
      BY <1>4 DEF FindSession, locks
    <2> QED
      BY <1>2, <2>2, <2>3 DEF InOrder, At, InSetup, WithoutNode
  <1>5. CASE CreateSession(w)
    <2>1. call'[w].at = "sender" /\ rmwLocks' = rmwLocks /\ At(w, "session")
      BY <1>1, <1>5 DEF CreateSession, locks, Fields
    <2> QED
      BY <1>2, <2>1 DEF InOrder, At, InSetup, WithoutNode
  <1> QED
    BY <1>3, <1>4, <1>5

(* Merging a node, and the locks of the entities.                          *)
LEMMA NodesInOrder ==
  ASSUME IInv, OrderInv, NEW w \in Writer, LockNode(w) \/ MergeNode(w) \/ Link(w) \/ LockEntities(w)
  PROVE  InOrder(w)'
  <1>1. DOMAIN call = Writer /\ DOMAIN call[w] = Fields /\ DOMAIN rmwLocks = Rmws
    BY DEF IInv, CallsInOrder, OrderInv
  <1>2. InOrder(w)
    BY DEF OrderInv
  <1>3. CASE LockNode(w)
    <2>1. call'[w].at = (IF call[w].at = "sender" THEN "find sender" ELSE "find recipient")
      BY <1>1, <1>3 DEF LockNode, Fields
    <2>2. setupLocks' = setupLocks /\ call[w].at \in {"sender", "recipients"}
      BY <1>3 DEF LockNode, Merging, At
    <2> QED
      BY <1>2, <2>1, <2>2 DEF InOrder, At, InSetup, WithoutNode
  <1>4. CASE MergeNode(w)
    <2>1. PICK r : call' = IF At(w, "merge sender")
                           THEN [call EXCEPT ![w].at = "link", ![w].row = r]
                           ELSE [call EXCEPT ![w].at = "recipients", ![w].row = None,
                                             ![w].todo = @ \ {Person(w)}]
      BY <1>4 DEF MergeNode
    <2>2. call'[w].at = (IF At(w, "merge sender") THEN "link" ELSE "recipients")
      BY <1>1, <2>1 DEF Fields
    <2>3. setupLocks' = setupLocks /\ HeldBy(rmwLocks', w) = {}
          /\ call[w].at \in {"merge sender", "merge recipient"}
      BY <1>4, HeldAfter DEF MergeNode
    <2> QED
      BY <1>2, <2>2, <2>3 DEF InOrder, At, InSetup, WithoutNode
  <1>5. CASE Link(w)
    <2>1. call'[w].at = "setup"
      BY <1>1, <1>5 DEF Link, NextPerson, Fields
    <2>2. HeldBy(setupLocks', w) = {} /\ rmwLocks' = rmwLocks /\ At(w, "link")
      BY <1>5, HeldAfter DEF Link
    <2> QED
      BY <1>2, <2>1, <2>2 DEF InOrder, At, InSetup, WithoutNode
  <1>6. CASE LockEntities(w)
    <2>1. call' = call /\ setupLocks' = setupLocks /\ At(w, "lock")
      BY <1>6 DEF LockEntities
    <2> DEFINE held == HeldBy(rmwLocks, w)
               wanted == EntityStripes(call[w].unit)
    <2>2. wanted \in SUBSET Nat /\ wanted \subseteq Rmws
      BY <2>1, WantedStripes DEF At
    <2>3. Lowest(held, wanted) /\ held # wanted
      BY <1>2, <1>6, <2>1 DEF InOrder, LockEntities, EntitiesHeld
    <2>4. rmwLocks' = [rmwLocks EXCEPT ![Min(wanted \ held)] = w]
      BY <1>6 DEF LockEntities
    <2>5. PICK s : s = Min(wanted \ held)
      OBVIOUS
    <2>6. s \in DOMAIN rmwLocks /\ Lowest(held \cup {s}, wanted)
      BY <1>1, <2>2, <2>3, <2>5, LowestTaken
    <2>7. HeldBy(rmwLocks', w) = held \cup {s}
      <3>1. rmwLocks' = [rmwLocks EXCEPT ![s] = w]
        BY <2>4, <2>5
      <3>2. HeldBy([rmwLocks EXCEPT ![s] = w], w) = HeldBy(rmwLocks, w) \cup {s}
        BY <2>6, HeldAfter
      <3> QED
        BY <3>1, <3>2
    <2>8. call'[w].at = "lock" /\ EntityStripes(call'[w].unit) = wanted
      BY <2>1 DEF At
    <2> QED
      BY <1>2, <2>1, <2>6, <2>7, <2>8 DEF InOrder, At, InSetup, WithoutNode
  <1> QED
    BY <1>3, <1>4, <1>5, <1>6

(* Every step keeps the order.                                             *)
LEMMA OrderStep ==
  ASSUME IInv, OrderInv, [Next]_vars
  PROVE  OrderInv'
  <1>1. ASSUME NEW w \in Writer, Begin(w) \/ Advances(w) \/ Fails(w)
        PROVE  OrderInv'
    <2>1. /\ Passes(setupLocks, setupLocks', w) /\ Passes(rmwLocks, rmwLocks', w)
          /\ \A x \in Writer \ {w} : call'[x] = call[x]
      BY <1>1, StepIsLocal
    <2>2. DOMAIN setupLocks' = Setups /\ DOMAIN rmwLocks' = Rmws
      BY <2>1 DEF OrderInv, Passes
    <2>3. InOrder(w)'
      BY <1>1, EndedInOrder, LookupsInOrder, SetupInOrder, NodesInOrder
      DEF Advances, Probes, SetsUp, Writes, IdConflict, Replay, PartialUnit, LinkFails,
          UnreadableEntity, Commit, Fails
    <2>4. ASSUME NEW x \in Writer \ {w}
          PROVE  InOrder(x)'
      <3>1. HeldBy(setupLocks', x) = HeldBy(setupLocks, x) /\ HeldBy(rmwLocks', x) = HeldBy(rmwLocks, x)
        BY <2>1, HeldByOthers
      <3>2. call'[x] = call[x] /\ ctx'[x] = ctx[x]
        BY <1>1, <2>1, ContextIsLocal
      <3>3. Cold(x)' = Cold(x) /\ SetupStripes(x)' = SetupStripes(x)
        BY <3>2 DEF Cold, Known, Person, SetupStripes
      <3>4. InOrder(x)
        BY DEF OrderInv
      <3> QED
        BY <3>1, <3>2, <3>3, <3>4 DEF InOrder, At
    <2> QED
      BY <2>2, <2>3, <2>4 DEF OrderInv
  <1>2. ASSUME UNCHANGED <<call, ctx, locks>>
        PROVE  OrderInv'
    <2>1. call' = call /\ ctx' = ctx /\ setupLocks' = setupLocks /\ rmwLocks' = rmwLocks
      BY <1>2 DEF locks
    <2> QED
      BY <2>1 DEF OrderInv, InOrder, At, Cold, Known, Person, SetupStripes
  <1>3. ASSUME NEW d \in Document, DocumentFinds(d) \/ DocumentCreates(d)
        PROVE  OrderInv'
    BY <1>2, <1>3 DEF DocumentFinds, DocumentCreates
  <1>7. ASSUME NEW l \in Linker, LinkerFinds(l) \/ LinkerCreates(l) \/ LinkerFails(l)
        PROVE  OrderInv'
    <2>1. UNCHANGED <<call, ctx, setupLocks>>
      BY <1>7 DEF LinkerFinds, LinkerCreates, LinkerFails, store
    <2>2. DOMAIN rmwLocks' = DOMAIN rmwLocks
      BY <1>7, LinkerTakesFree
    <2>3. ASSUME NEW w \in Writer PROVE HeldBy(rmwLocks', w) = HeldBy(rmwLocks, w)
      <3>1. w \notin {l, None}
        BY SessionIngestAssumption
      <3>2. \A s \in DOMAIN rmwLocks : rmwLocks'[s] = w <=> rmwLocks[s] = w
        BY <1>7, <3>1, LinkerTakesFree
      <3> QED
        BY <2>2, <3>2 DEF HeldBy
    <2>4. ASSUME NEW w \in Writer PROVE InOrder(w)'
      <3>1. Cold(w)' = Cold(w) /\ SetupStripes(w)' = SetupStripes(w)
        BY <2>1 DEF Cold, Known, Person, SetupStripes
      <3> QED
        BY <2>1, <2>3, <3>1 DEF OrderInv, InOrder, At
    <2> QED
      BY <2>1, <2>2, <2>4 DEF OrderInv, Setups, Rmws
  <1>4. CASE Delete
    <2>1. UNCHANGED <<call, ctx, locks>>
      BY <1>4 DEF Delete, DeleteMessage, DeleteSession, ForgetParticipant, Deletes
    <2> QED
      BY <1>2, <2>1
  <1>5. CASE Crash
    <2>1. /\ \A w \in Writer : call'[w].at = "idle"
          /\ setupLocks' = [s \in Setups |-> None] /\ rmwLocks' = [s \in Rmws |-> None]
      BY <1>5, IdleInOrder DEF Crash
    <2>2. \A w \in Writer : HeldBy(setupLocks', w) = {} /\ HeldBy(rmwLocks', w) = {}
      BY <2>1, SessionIngestAssumption DEF HeldBy
    <2>3. \A w \in Writer : InOrder(w)'
      BY <2>1, <2>2 DEF InOrder, At, InSetup
    <2> QED
      BY <2>1, <2>3 DEF OrderInv
  <1>6. CASE UNCHANGED vars
    BY <1>2, <1>6 DEF vars
  <1> QED
    BY <1>1, <1>3, <1>4, <1>5, <1>6, <1>7 DEF Next

LEMMA OrderInit == Init => OrderInv
  <1> SUFFICES ASSUME Init PROVE OrderInv
    OBVIOUS
  <1>1. /\ \A w \in Writer : call[w].at = "idle"
        /\ setupLocks = [s \in Setups |-> None] /\ rmwLocks = [s \in Rmws |-> None]
    BY IdleInOrder DEF Init
  <1>2. \A w \in Writer : HeldBy(setupLocks, w) = {} /\ HeldBy(rmwLocks, w) = {}
    BY <1>1, SessionIngestAssumption DEF HeldBy
  <1> QED
    BY <1>1, <1>2 DEF OrderInv, InOrder, At, InSetup
-----------------------------------------------------------------------------
(* The stripe a call asks for next.                                        *)
Asked(w) ==
  IF At(w, "setup") THEN Min(SetupStripes(w) \ HeldBy(setupLocks, w))
  ELSE IF Merging(w) THEN RmwStripe[Person(w)]
  ELSE Min(EntityStripes(call[w].unit) \ HeldBy(rmwLocks, w))

(* A call that waits in setup asks for a setup stripe above those it has,  *)
(* and has no others.                                                      *)
LEMMA SetupWaits ==
  ASSUME IInv, OrderInv, NEW w \in Writer, NEW v \in Writer, WaitsFor(w, v), At(w, "setup")
  PROVE  /\ Asked(w) \in Nat /\ Asked(w) \in HeldBy(setupLocks, v)
         /\ \A s \in HeldBy(setupLocks, w) : s < Asked(w)
         /\ HeldBy(rmwLocks, w) = {}
  <1>1. /\ call[w].todo # {} /\ Cold(w) /\ ~SetupHeld(w)
        /\ setupLocks[Min(SetupStripes(w) \ HeldBy(setupLocks, w))] = v
    BY DEF WaitsFor, Merging, At
  <1>2. SetupStripes(w) \in SUBSET Nat /\ SetupStripes(w) \subseteq Setups
    BY <1>1, WantedStripes
  <1>3. InOrder(w) /\ DOMAIN setupLocks = Setups
    BY DEF OrderInv
  <1> DEFINE held == HeldBy(setupLocks, w)
  <1>4. Lowest(held, SetupStripes(w)) /\ held # SetupStripes(w)
    BY <1>1, <1>3 DEF InOrder, Lowest, SetupHeld
  <1>5. PICK s : s = Min(SetupStripes(w) \ held)
    OBVIOUS
  <1>6. s \in SetupStripes(w) \ held
    BY <1>2, <1>4, <1>5, LowestTaken
  <1>7. Asked(w) = s
    BY <1>5 DEF Asked
  <1>8. \A t \in held : t < s
    BY <1>4, <1>6 DEF Lowest
  <1>9. s \in HeldBy(setupLocks, v)
    BY <1>1, <1>2, <1>3, <1>5, <1>6 DEF HeldBy
  <1> QED
    BY <1>2, <1>3, <1>6, <1>7, <1>8, <1>9 DEF InOrder, At, WithoutNode

(* A call that waits elsewhere asks for an RMW stripe above those it has.  *)
LEMMA RmwWaits ==
  ASSUME IInv, OrderInv, NEW w \in Writer, NEW v \in Writer, WaitsFor(w, v), ~At(w, "setup")
  PROVE  /\ Asked(w) \in Nat /\ Asked(w) \in HeldBy(rmwLocks, v)
         /\ \A s \in HeldBy(rmwLocks, w) : s < Asked(w)
  <1>1. InOrder(w) /\ DOMAIN rmwLocks = Rmws
    BY DEF OrderInv
  <1>2. CASE Merging(w)
    <2>1. rmwLocks[RmwStripe[Person(w)]] = v
      BY <1>2 DEF WaitsFor, Merging, At
    <2>2. Person(w) \in Participant
      BY <1>2 DEF IInv, CallsInOrder, Merging, At, Person, Picked
    <2>3. RmwStripe[Person(w)] \in Nat /\ RmwStripe[Person(w)] \in Rmws
      BY <2>2, SessionIngestAssumption DEF Rmws
    <2>4. HeldBy(rmwLocks, w) = {}
      BY <1>1, <1>2 DEF InOrder, Merging, At, WithoutNode
    <2>5. Asked(w) = RmwStripe[Person(w)]
      BY <1>2 DEF Asked
    <2> QED
      BY <1>1, <2>1, <2>3, <2>4, <2>5 DEF HeldBy
  <1>3. CASE ~Merging(w)
    <2>1. /\ At(w, "lock") /\ ~EntitiesHeld(w)
          /\ rmwLocks[Min(EntityStripes(call[w].unit) \ HeldBy(rmwLocks, w))] = v
      BY <1>3 DEF WaitsFor
    <2> DEFINE held == HeldBy(rmwLocks, w)
               wanted == EntityStripes(call[w].unit)
    <2>2. wanted \in SUBSET Nat /\ wanted \subseteq Rmws
      BY <2>1, WantedStripes DEF At
    <2>3. Lowest(held, wanted) /\ held # wanted
      BY <1>1, <2>1 DEF InOrder, EntitiesHeld
    <2>4. PICK s : s = Min(wanted \ held)
      OBVIOUS
    <2>5. s \in wanted \ held
      BY <2>2, <2>3, <2>4, LowestTaken
    <2>6. Asked(w) = s
      BY <1>3, <2>4 DEF Asked
    <2>7. \A t \in held : t < s
      BY <2>3, <2>5 DEF Lowest
    <2>8. s \in HeldBy(rmwLocks, v)
      BY <1>1, <2>1, <2>2, <2>4, <2>5 DEF HeldBy
    <2> QED
      BY <2>2, <2>5, <2>6, <2>7, <2>8
  <1> QED
    BY <1>2, <1>3

(* Of the calls in a circle one asks for the highest stripe, and the call  *)
(* that has it asks for a higher one still.                                *)
LEMMA NoCircle ==
  ASSUME IInv, OrderInv
  PROVE  NoCircularWait
  <1> SUFFICES ASSUME NEW W \in SUBSET Writer, W # {}, IsFiniteSet(W),
                      \A w \in W : \E v \in W : WaitsFor(w, v)
               PROVE  FALSE
    BY DEF NoCircularWait
  <1> DEFINE Rmw == {w \in W : ~At(w, "setup")}
  <1>1. \A w \in W : Asked(w) \in Nat
    BY SetupWaits, RmwWaits
  <1>2. CASE Rmw # {}
    <2>1. IsFiniteSet(Rmw)
      <3>1. Rmw \in SUBSET W
        OBVIOUS
      <3> HIDE DEF Rmw
      <3> QED
        BY <3>1, FS_Subset
    <2>2. [w \in Rmw |-> Asked(w)] \in [Rmw -> Nat]
      BY <1>1
    <2>3. PICK f \in [Rmw -> Nat] : \A w \in Rmw : f[w] = Asked(w)
      BY <2>2
    <2>4. PICK w \in Rmw : \A v \in Rmw : f[v] <= f[w]
      <3> HIDE DEF Rmw
      <3> QED
        BY <1>2, <2>1, GreatestExists
    <2>5. PICK v \in W : WaitsFor(w, v)
      OBVIOUS
    <2>6. Asked(w) \in HeldBy(rmwLocks, v)
      BY <2>5, RmwWaits
    <2>7. PICK u \in W : WaitsFor(v, u)
      OBVIOUS
    <2>8. ~At(v, "setup")
      BY <2>6, <2>7, SetupWaits
    <2>9. Asked(w) < Asked(v)
      BY <2>6, <2>7, <2>8, RmwWaits
    <2>10. v \in Rmw
      BY <2>8
    <2> QED
      BY <1>1, <2>3, <2>4, <2>9, <2>10
  <1>3. CASE Rmw = {}
    <2>1. \A w \in W : At(w, "setup")
      BY <1>3
    <2>2. [w \in W |-> Asked(w)] \in [W -> Nat]
      BY <1>1
    <2>3. PICK f \in [W -> Nat] : \A w \in W : f[w] = Asked(w)
      BY <2>2
    <2>4. PICK w \in W : \A v \in W : f[v] <= f[w]
      BY GreatestExists
    <2>5. PICK v \in W : WaitsFor(w, v)
      OBVIOUS
    <2>6. PICK u \in W : WaitsFor(v, u)
      OBVIOUS
    <2>7. Asked(w) < Asked(v)
      <3>1. Asked(w) \in HeldBy(setupLocks, v)
        BY <2>1, <2>5, SetupWaits
      <3> QED
        BY <2>1, <2>6, <3>1, SetupWaits
    <2> QED
      BY <1>1, <2>3, <2>4, <2>7
  <1> QED
    BY <1>2, <1>3

(* Writers never wait for each other's stripes in a circle, however their  *)
(* keys collide: stripes are taken in ascending order within a table, and  *)
(* no call asks for a setup stripe while it has an RMW stripe.             *)
THEOREM WaitsAreNeverCircular == Spec => []NoCircularWait
  <1>1. OrderInv /\ IInv => NoCircularWait
    BY NoCircle
  <1>2. IInv /\ OrderInv /\ [Next]_vars => OrderInv'
    BY OrderStep
  <1> QED
    BY InitInvariant, StepInvariant, OrderInit, <1>1, <1>2, PTL DEF Spec
-----------------------------------------------------------------------------
(* The chain of messages: from each one back to the nearest of those that  *)
(* are alive.  The messages msg and the rows live that are alive are       *)
(* parameters, so that what is said here can be said before and after a    *)
(* step.                                                                   *)
Before(msg, r) == msg[r].prev

Near(msg, live) ==
  LET near[r \in DOMAIN msg] ==
        IF Before(msg, r) = None \/ Before(msg, r) \in live THEN Before(msg, r)
        ELSE near[Before(msg, r)]
  IN near

Backwards(msg, rank) ==
  /\ rank \in [DOMAIN msg -> Nat]
  /\ None \notin DOMAIN msg
  /\ \A r \in DOMAIN msg :
       Before(msg, r) # None =>
         Before(msg, r) \in DOMAIN msg /\ rank[Before(msg, r)] < rank[r]

(* The nearest is what is recursive in it, with no induction: of the rows  *)
(* that stop a walk, exactly one is in every set that a walk cannot leave. *)
LEMMA NearIsRecursive ==
  ASSUME NEW msg, NEW rank, Backwards(msg, rank), NEW live, NEW r \in DOMAIN msg
  PROVE  Near(msg, live)[r] = IF Before(msg, r) = None \/ Before(msg, r) \in live
                              THEN Before(msg, r) ELSE Near(msg, live)[Before(msg, r)]
  <1> DEFINE M == DOMAIN msg
             Places == M \cup {None}
             Stops(x) == x = None \/ x \in live
             Closed(S) == \A y \in S : ~Stops(y) => Before(msg, y) \in S
             Reached(p, x) == \A S \in SUBSET Places : p \in S /\ Closed(S) => x \in S
             From(p) == {x \in Places : Stops(x) /\ Reached(p, x)}
             near == [q \in M |-> CHOOSE x : x \in From(Before(msg, q))]
             F(f) == [q \in M |-> IF Stops(Before(msg, q)) THEN Before(msg, q)
                                  ELSE f[Before(msg, q)]]
  <1>1. \A q \in M : Before(msg, q) \in Places
    BY DEF Backwards
  <1>2. ASSUME NEW p \in Places, Stops(p) PROVE From(p) = {p}
    <2>1. p \in From(p)
      BY <1>2
    <2>2. ASSUME NEW x \in From(p) PROVE x = p
      <3>1. {p} \in SUBSET Places /\ p \in {p} /\ Closed({p})
        BY <1>2
      <3>2. x \in {p}
        BY <2>2, <3>1
      <3> QED
        BY <3>2
    <2> QED
      BY <2>1, <2>2
  <1>3. ASSUME NEW p \in Places, ~Stops(p) PROVE From(p) = From(Before(msg, p))
    <2>1. p \in M /\ Before(msg, p) \in Places
      BY <1>1, <1>3
    <2>2. ASSUME NEW x \in From(Before(msg, p)) PROVE x \in From(p)
      <3>1. ASSUME NEW S \in SUBSET Places, p \in S, Closed(S) PROVE x \in S
        <4>1. Before(msg, p) \in S
          BY <1>3, <3>1
        <4> QED
          BY <2>2, <3>1, <4>1
      <3> QED
        BY <2>2, <3>1
    <2>3. ASSUME NEW x \in From(p) PROVE x \in From(Before(msg, p))
      <3>1. ASSUME NEW S \in SUBSET Places, Before(msg, p) \in S, Closed(S) PROVE x \in S
        <4>1. S \cup {p} \in SUBSET Places /\ p \in S \cup {p} /\ Closed(S \cup {p})
          BY <3>1
        <4>2. x \in S \cup {p}
          BY <2>3, <4>1
        <4>3. x # p
          BY <1>3, <2>3
        <4> QED
          BY <4>2, <4>3
      <3> QED
        BY <2>3, <3>1
    <2> QED
      BY <2>2, <2>3
  <1> HIDE DEF From
  <1>4. \A q \in M : near[q] = IF Stops(Before(msg, q)) THEN Before(msg, q)
                               ELSE near[Before(msg, q)]
    <2> TAKE q \in M
    <2>1. near[q] = CHOOSE x : x \in From(Before(msg, q))
      OBVIOUS
    <2>2. CASE Stops(Before(msg, q))
      <3>1. From(Before(msg, q)) = {Before(msg, q)}
        BY <1>1, <1>2, <2>2
      <3> QED
        BY <2>1, <2>2, <3>1
    <2>3. CASE ~Stops(Before(msg, q))
      <3>1. Before(msg, q) \in M
        BY <1>1, <2>3
      <3>2. near[Before(msg, q)] = CHOOSE x : x \in From(Before(msg, Before(msg, q)))
        BY <3>1
      <3>3. From(Before(msg, q)) = From(Before(msg, Before(msg, q)))
        BY <1>1, <1>3, <2>3
      <3> QED
        BY <2>1, <2>3, <3>2, <3>3
    <2> QED
      BY <2>2, <2>3
  <1>5. near = F(near)
    BY <1>4
  <1> HIDE DEF near
  <1>6. \E f : f = F(f)
    BY <1>5
  <1>7. Near(msg, live) = CHOOSE f : f = F(f)
    BY DEF Near
  <1>8. Near(msg, live) = F(Near(msg, live))
    BY <1>6, <1>7
  <1> HIDE DEF Near
  <1> QED
    BY <1>8

(* Of the messages in a set that holds any, one was written first.         *)
LEMMA FirstOf ==
  ASSUME NEW msg, NEW rank, Backwards(msg, rank), NEW B \in SUBSET DOMAIN msg, B # {}
  PROVE  \E b \in B : Before(msg, b) \notin B
  <1> DEFINE R == {rank[c] : c \in B}
  <1>1. R \in SUBSET Nat /\ R # {}
    BY DEF Backwards
  <1>2. Min(R) \in R /\ \A y \in R : Min(R) <= y
    BY <1>1, LeastExists
  <1>3. PICK m : m = Min(R)
    OBVIOUS
  <1>4. m \in R /\ \A y \in R : m <= y
    BY <1>2, <1>3
  <1>5. PICK b \in B : rank[b] = m
    BY <1>4
  <1>6. ASSUME Before(msg, b) \in B PROVE FALSE
    <2>1. rank[Before(msg, b)] \in R /\ rank[Before(msg, b)] \in Nat /\ rank[b] \in Nat
      BY <1>6 DEF Backwards
    <2>2. Before(msg, b) # None /\ rank[Before(msg, b)] < rank[b]
      BY <1>6 DEF Backwards
    <2>3. m <= rank[Before(msg, b)]
      BY <1>4, <2>1
    <2> HIDE DEF R
    <2> QED
      BY <1>5, <2>1, <2>2, <2>3
  <1> QED
    BY <1>6
-----------------------------------------------------------------------------
Simple(msg) ==
  \A r, s \in DOMAIN msg :
    Before(msg, r) # None =>
      /\ Before(msg, r) = Before(msg, s) => r = s
      /\ msg[Before(msg, r)].session = msg[r].session

(* The nearest, if any, is an earlier message that is alive, and there is  *)
(* a message right behind it.                                              *)
LEMMA NearIsEarlier ==
  ASSUME NEW msg, NEW rank, Backwards(msg, rank), NEW live, NEW r \in DOMAIN msg,
         Near(msg, live)[r] # None
  PROVE  LET n == Near(msg, live)[r]
         IN /\ n \in DOMAIN msg /\ n \in live /\ rank[n] < rank[r]
            /\ \E t \in DOMAIN msg : Before(msg, t) = n
            /\ Simple(msg) => msg[n].session = msg[r].session
  <1> DEFINE M == DOMAIN msg
             n(q) == Near(msg, live)[q]
             Good(q) == n(q) # None =>
                          /\ n(q) \in M /\ n(q) \in live /\ rank[n(q)] < rank[q]
                          /\ \E t \in M : Before(msg, t) = n(q)
                          /\ Simple(msg) => msg[n(q)].session = msg[q].session
             Bad == {q \in M : ~Good(q)}
  <1>1. ASSUME NEW q \in M, Before(msg, q) \notin Bad PROVE Good(q)
    <2>1. n(q) = IF Before(msg, q) = None \/ Before(msg, q) \in live
                 THEN Before(msg, q) ELSE n(Before(msg, q))
      BY NearIsRecursive
    <2> HIDE DEF n
    <2>2. CASE Before(msg, q) = None
      BY <2>1, <2>2
    <2>3. CASE Before(msg, q) # None /\ Before(msg, q) \in live
      <3>1. n(q) = Before(msg, q)
        BY <2>1, <2>3
      <3>2. Before(msg, q) \in M /\ rank[Before(msg, q)] < rank[q]
        BY <2>3 DEF Backwards
      <3>3. Simple(msg) => msg[Before(msg, q)].session = msg[q].session
        BY <2>3 DEF Simple
      <3> QED
        BY <2>3, <3>1, <3>2, <3>3
    <2>4. CASE Before(msg, q) # None /\ Before(msg, q) \notin live
      <3>1. n(q) = n(Before(msg, q))
        BY <2>1, <2>4
      <3>2. Before(msg, q) \in M /\ rank[Before(msg, q)] < rank[q]
        BY <2>4 DEF Backwards
      <3>3. Good(Before(msg, q))
        BY <1>1, <3>2
      <3>4. Simple(msg) => msg[Before(msg, q)].session = msg[q].session
        BY <2>4 DEF Simple
      <3>5. \A x \in M : rank[x] \in Nat
        BY DEF Backwards
      <3>6. n(q) # None => rank[n(q)] < rank[q]
        BY <3>1, <3>2, <3>3, <3>5
      <3> QED
        BY <3>1, <3>2, <3>3, <3>4, <3>6
    <2> QED
      BY <2>2, <2>3, <2>4
  <1> HIDE DEF Good
  <1>2. Bad = {}
    <2> SUFFICES ASSUME Bad # {} PROVE FALSE
      OBVIOUS
    <2>1. PICK b \in Bad : Before(msg, b) \notin Bad
      BY FirstOf
    <2> QED
      BY <1>1, <2>1
  <1>3. Good(r)
    BY <1>2
  <1> QED
    BY <1>3 DEF Good

(* Without the rows in gones, a walk that ended at one of them goes on.    *)
LEMMA NearWithout ==
  ASSUME NEW msg, NEW rank, Backwards(msg, rank), NEW live, NEW dead, NEW r \in DOMAIN msg
  PROVE  Near(msg, live \ dead)[r] =
           IF Near(msg, live)[r] # None /\ Near(msg, live)[r] \in dead
           THEN Near(msg, live \ dead)[Near(msg, live)[r]] ELSE Near(msg, live)[r]
  <1> DEFINE M == DOMAIN msg
             n(q) == Near(msg, live)[q]
             m(q) == Near(msg, live \ dead)[q]
             Good(q) == m(q) = IF n(q) # None /\ n(q) \in dead THEN m(n(q)) ELSE n(q)
             Bad == {q \in M : ~Good(q)}
  <1>1. ASSUME NEW q \in M, Before(msg, q) \notin Bad PROVE Good(q)
    <2>1. n(q) = IF Before(msg, q) = None \/ Before(msg, q) \in live
                 THEN Before(msg, q) ELSE n(Before(msg, q))
      BY NearIsRecursive
    <2>2. m(q) = IF Before(msg, q) = None \/ Before(msg, q) \in live \ dead
                 THEN Before(msg, q) ELSE m(Before(msg, q))
      BY NearIsRecursive
    <2> HIDE DEF n, m
    <2>3. CASE Before(msg, q) = None \/ Before(msg, q) \in live
      BY <2>1, <2>2, <2>3
    <2>4. CASE Before(msg, q) # None /\ Before(msg, q) \notin live
      <3>1. Before(msg, q) \in M
        BY <2>4 DEF Backwards
      <3>2. Good(Before(msg, q))
        BY <1>1, <3>1
      <3> QED
        BY <2>1, <2>2, <2>4, <3>2
    <2> QED
      BY <2>3, <2>4
  <1> HIDE DEF Good
  <1>2. Bad = {}
    <2> SUFFICES ASSUME Bad # {} PROVE FALSE
      OBVIOUS
    <2>1. PICK b \in Bad : Before(msg, b) \notin Bad
      BY FirstOf
    <2> QED
      BY <1>1, <2>1
  <1>3. Good(r)
    BY <1>2
  <1> QED
    BY <1>3 DEF Good

(* Two walks over the same messages and the same of them alive.            *)
LEMMA NearAgrees ==
  ASSUME NEW msg, NEW rank, Backwards(msg, rank), NEW live,
         NEW msg2, NEW rank2, Backwards(msg2, rank2), NEW live2,
         \A q \in DOMAIN msg : /\ q \in DOMAIN msg2 /\ Before(msg2, q) = Before(msg, q)
                               /\ q \in live <=> q \in live2,
         NEW r \in DOMAIN msg
  PROVE  Near(msg2, live2)[r] = Near(msg, live)[r]
  <1> DEFINE M == DOMAIN msg
             n(q) == Near(msg, live)[q]
             m(q) == Near(msg2, live2)[q]
             Bad == {q \in M : m(q) # n(q)}
  <1>1. ASSUME NEW q \in M, Before(msg, q) \notin Bad PROVE m(q) = n(q)
    <2>1. n(q) = IF Before(msg, q) = None \/ Before(msg, q) \in live
                 THEN Before(msg, q) ELSE n(Before(msg, q))
      BY NearIsRecursive
    <2>2. m(q) = IF Before(msg2, q) = None \/ Before(msg2, q) \in live2
                 THEN Before(msg2, q) ELSE m(Before(msg2, q))
      BY NearIsRecursive
    <2>3. Before(msg2, q) = Before(msg, q)
      OBVIOUS
    <2>4. Before(msg, q) # None => /\ Before(msg, q) \in M
                                   /\ Before(msg, q) \in live <=> Before(msg, q) \in live2
      BY DEF Backwards
    <2> HIDE DEF n, m
    <2> QED
      BY <1>1, <2>1, <2>2, <2>3, <2>4
  <1> HIDE DEF n, m
  <1>2. Bad = {}
    <2> SUFFICES ASSUME Bad # {} PROVE FALSE
      OBVIOUS
    <2>1. PICK b \in Bad : Before(msg, b) \notin Bad
      BY FirstOf
    <2> QED
      BY <1>1, <2>1
  <1>3. m(r) = n(r)
    BY <1>2
  <1> QED
    BY <1>3 DEF n, m
-----------------------------------------------------------------------------
(* The NEXT edges are exactly from the nearest live predecessors, and no   *)
(* message has two successors.                                             *)
Alive(live) == {r \in live : r[1] \in Turn}

Chained(msg, edges, live) ==
  /\ edges \subseteq Alive(live) \X Alive(live)
  /\ \A r \in Alive(live) : Near(msg, live)[r] # None => <<Near(msg, live)[r], r>> \in edges
  /\ \A p, r : <<p, r>> \in edges => Near(msg, live)[r] = p
  /\ \A p, r, s : <<p, r>> \in edges /\ <<p, s>> \in edges => r = s

(* What splice_next leaves of the edges: the others, and of the pairs that *)
(* the victim joins one, if any.                                           *)
IsSpliced(edges, v, c) ==
  /\ \A p, r : <<p, r>> \in edges /\ p # v /\ r # v => <<p, r>> \in c
  /\ \A p, r : <<p, r>> \in c =>
       \/ <<p, r>> \in edges /\ p # v /\ r # v
       \/ <<p, v>> \in edges /\ <<v, r>> \in edges
  /\ \A p, r : <<p, v>> \in edges /\ <<v, r>> \in edges =>
       \E q, s : <<q, v>> \in edges /\ <<v, s>> \in edges /\ <<q, s>> \in c

LEMMA SplicedIs ==
  ASSUME NEW Z, NEW edges \in SUBSET (Z \X Z), NEW v, NEW c \in Spliced(edges, v)
  PROVE  IsSpliced(edges, v, c) /\ c \in SUBSET (Z \X Z)
  <1> DEFINE rest == edges \ Touching(edges, v)
             joins == {<<e[1], f[2]>> : e \in {x \in edges : x[2] = v}, f \in {x \in edges : x[1] = v}}
  <1>1. Spliced(edges, v) = IF joins = {} THEN {rest} ELSE {rest \cup {j} : j \in joins}
    BY DEF Spliced
  <1>2. \A e \in edges : e = <<e[1], e[2]>> /\ e[1] \in Z /\ e[2] \in Z
    OBVIOUS
  <1>3. \A p, r : <<p, r>> \in rest <=> <<p, r>> \in edges /\ p # v /\ r # v
    BY <1>2 DEF Touching
  <1>4. \A j \in joins : \E p, r : j = <<p, r>> /\ <<p, v>> \in edges /\ <<v, r>> \in edges
    <2> TAKE j \in joins
    <2>1. PICK e \in {x \in edges : x[2] = v}, f \in {x \in edges : x[1] = v} : j = <<e[1], f[2]>>
      OBVIOUS
    <2>2. e = <<e[1], v>> /\ f = <<v, f[2]>> /\ e \in edges /\ f \in edges
      BY <1>2
    <2> QED
      BY <2>1, <2>2
  <1>5. ASSUME NEW p, NEW r, <<p, v>> \in edges, <<v, r>> \in edges PROVE <<p, r>> \in joins
    <2>1. <<p, v>> \in {x \in edges : x[2] = v} /\ <<v, r>> \in {x \in edges : x[1] = v}
      BY <1>5
    <2>2. <<p, r>> = <<<<p, v>>[1], <<v, r>>[2]>>
      OBVIOUS
    <2> QED
      BY <2>1, <2>2
  <1>6. rest \in SUBSET (Z \X Z)
    OBVIOUS
  <1>7. \A p, r : <<p, r>> \in edges => p \in Z /\ r \in Z
    OBVIOUS
  <1> HIDE DEF rest, joins
  <1>8. CASE joins = {}
    <2>1. c = rest
      BY <1>1, <1>8
    <2>2. \A p, r : ~(<<p, v>> \in edges /\ <<v, r>> \in edges)
      BY <1>5, <1>8
    <2> QED
      BY <1>3, <1>6, <2>1, <2>2 DEF IsSpliced
  <1>9. CASE joins # {}
    <2>1. PICK j \in joins : c = rest \cup {j}
      BY <1>1, <1>9
    <2>2. PICK q, s : j = <<q, s>> /\ <<q, v>> \in edges /\ <<v, s>> \in edges
      BY <1>4
    <2>3. \A x : x \in c <=> x \in rest \/ x = <<q, s>>
      BY <2>1, <2>2
    <2>4. c \in SUBSET (Z \X Z)
      BY <1>6, <1>7, <2>2, <2>3
    <2>5. \A p, r : <<p, r>> \in c => <<p, r>> \in rest \/ (p = q /\ r = s)
      BY <2>3
    <2> QED
      BY <1>3, <2>2, <2>3, <2>4, <2>5 DEF IsSpliced
  <1> QED
    BY <1>8, <1>9

(* Splicing one message out of a chain leaves a chain.                     *)
LEMMA SpliceKeepsChain ==
  ASSUME NEW msg, NEW rank, Backwards(msg, rank), NEW live, Alive(live) \subseteq DOMAIN msg,
         NEW edges, Chained(msg, edges, live), NEW v \in Alive(live), NEW c \in Spliced(edges, v)
  PROVE  Chained(msg, c, live \ {v})
  <1> DEFINE near(r) == Near(msg, live)[r]
             after(r) == Near(msg, live \ {v})[r]
             A == Alive(live)
  <1>1. /\ edges \in SUBSET (A \X A)
        /\ \A r \in A : near(r) # None => <<near(r), r>> \in edges
        /\ \A p, r : <<p, r>> \in edges => near(r) = p
        /\ \A p, r, s : <<p, r>> \in edges /\ <<p, s>> \in edges => r = s
    BY DEF Chained
  <1>2. /\ \A p, r : <<p, r>> \in edges /\ p # v /\ r # v => <<p, r>> \in c
        /\ c \in SUBSET (A \X A)
        /\ \A p, r : <<p, r>> \in c =>
             \/ <<p, r>> \in edges /\ p # v /\ r # v
             \/ <<p, v>> \in edges /\ <<v, r>> \in edges
        /\ \A p, r : <<p, v>> \in edges /\ <<v, r>> \in edges =>
             \E q, s : <<q, v>> \in edges /\ <<v, s>> \in edges /\ <<q, s>> \in c
    <2>1. IsSpliced(edges, v, c) /\ c \in SUBSET (A \X A)
      BY <1>1, SplicedIs
    <2> HIDE DEF near, after, A
    <2> QED
      BY <2>1 DEF IsSpliced
  <1>3. Alive(live \ {v}) = A \ {v}
    BY DEF Alive
  <1>4. A \subseteq DOMAIN msg /\ v \in A /\ v # None
    BY DEF Backwards
  <1>5. near(v) # v
    <2>1. near(v) # None => rank[near(v)] < rank[v]
      BY <1>4, NearIsEarlier
    <2>2. rank[v] \in Nat
      BY <1>4 DEF Backwards
    <2> QED
      BY <1>4, <2>1, <2>2
  <1>6. \A r \in A : after(r) = IF near(r) = v THEN after(v) ELSE near(r)
    <2> TAKE r \in A
    <2>1. r \in DOMAIN msg
      BY <1>4
    <2>2. PICK dead : dead = {v}
      OBVIOUS
    <2>3. Near(msg, live \ dead)[r]
            = IF Near(msg, live)[r] # None /\ Near(msg, live)[r] \in dead
              THEN Near(msg, live \ dead)[Near(msg, live)[r]] ELSE Near(msg, live)[r]
      BY <2>1, NearWithout
    <2>4. after(r) = IF near(r) # None /\ near(r) \in dead THEN after(near(r)) ELSE near(r)
      BY <2>2, <2>3
    <2> HIDE DEF near, after
    <2> QED
      BY <1>4, <2>2, <2>4
  <1>7. after(v) = near(v)
    BY <1>4, <1>5, <1>6
  <1>8. \A p, r : <<p, r>> \in edges => p \in A /\ r \in A
    BY <1>1
  <1> HIDE DEF near, after, A
  <1>9. c \subseteq (A \ {v}) \X (A \ {v})
    <2>1. \A p, r : <<p, r>> \in c => p # v /\ r # v
      BY <1>1, <1>2, <1>5
    <2>2. \A e \in c : e = <<e[1], e[2]>> /\ e[1] \in A /\ e[2] \in A
      BY <1>2
    <2> QED
      BY <2>1, <2>2
  <1>10. ASSUME NEW r \in A \ {v}, after(r) # None PROVE <<after(r), r>> \in c
    <2>1. CASE near(r) # v
      BY <1>1, <1>2, <1>6, <1>10, <2>1
    <2>2. CASE near(r) = v
      <3>1. after(r) = near(v) /\ near(v) # None
        BY <1>6, <1>7, <1>10, <2>2
      <3>2. <<v, r>> \in edges /\ <<near(v), v>> \in edges
        BY <1>1, <1>4, <2>2, <3>1
      <3>3. PICK q, s : <<q, v>> \in edges /\ <<v, s>> \in edges /\ <<q, s>> \in c
        BY <1>2, <3>2
      <3>4. q = near(v) /\ s = r
        BY <1>1, <3>2, <3>3
      <3> QED
        BY <3>1, <3>3, <3>4
    <2> QED
      BY <2>1, <2>2
  <1>11. ASSUME NEW p, NEW r, <<p, r>> \in c PROVE after(r) = p
    <2>1. CASE <<p, r>> \in edges /\ p # v /\ r # v
      BY <1>1, <1>6, <1>8, <2>1
    <2>2. CASE <<p, v>> \in edges /\ <<v, r>> \in edges
      BY <1>1, <1>6, <1>7, <1>8, <2>2
    <2> QED
      BY <1>2, <1>11, <2>1, <2>2
  <1>12. ASSUME NEW p, NEW r, NEW s, <<p, r>> \in c, <<p, s>> \in c PROVE r = s
    <2>1. CASE <<p, v>> \in edges
      <3>1. \A x : <<p, x>> \in edges => x = v
        BY <1>1, <2>1
      <3>2. <<v, r>> \in edges /\ <<v, s>> \in edges
        BY <1>2, <1>12, <3>1
      <3> QED
        BY <1>1, <3>2
    <2>2. CASE <<p, v>> \notin edges
      <3>1. <<p, r>> \in edges /\ <<p, s>> \in edges
        BY <1>2, <1>12, <2>2
      <3> QED
        BY <1>1, <3>1
    <2> QED
      BY <2>1, <2>2
  <1> QED
    BY <1>3, <1>9, <1>10, <1>11, <1>12 DEF Chained, near, after, A
-----------------------------------------------------------------------------
(* Deleting several messages, one after the other: after[S] is what can be *)
(* left once those of S are gone.                                          *)
After(edges, doomed) ==
  LET after[S \in SUBSET doomed] ==
        IF S = {} THEN {edges}
        ELSE UNION {UNION {Spliced(c, r) : c \in after[S \ {r}]} : r \in S}
  IN after

OneMore(after, S) == UNION {UNION {Spliced(c, r) : c \in after[S \ {r}]} : r \in S}

LEMMA OneMoreIs ==
  ASSUME NEW after, NEW S, NEW d
  PROVE  d \in OneMore(after, S) <=> \E r \in S : \E c \in after[S \ {r}] : d \in Spliced(c, r)
  <1> DEFINE U(r) == UNION {Spliced(c, r) : c \in after[S \ {r}]}
  <1>1. \A r : d \in U(r) <=> \E c \in after[S \ {r}] : d \in Spliced(c, r)
    OBVIOUS
  <1>2. OneMore(after, S) = UNION {U(r) : r \in S}
    BY DEF OneMore
  <1> HIDE DEF U
  <1>3. d \in OneMore(after, S) <=> \E r \in S : d \in U(r)
    BY <1>2
  <1> QED
    BY <1>1, <1>3

(* It is what is recursive in it: of all relations that hold of what may   *)
(* be left, take the least.                                                *)
EdgesOf(Z) == SUBSET (Z \X Z)

LEMMA AfterIsRecursive ==
  ASSUME NEW Z, NEW edges \in EdgesOf(Z), NEW doomed, NEW S \in SUBSET doomed
  PROVE  After(edges, doomed)[S] =
           IF S = {} THEN {edges} ELSE OneMore(After(edges, doomed), S)
  <1> USE DEF EdgesOf
  <1> DEFINE Chains == EdgesOf(Z)
             D == SUBSET doomed
             Closed(G) == /\ <<{}, edges>> \in G
                          /\ \A T \in D : \A r \in T : \A c \in Chains : <<T \ {r}, c>> \in G =>
                               \A d \in Spliced(c, r) : <<T, d>> \in G
             Left(T) == {c \in Chains : \A G \in SUBSET (D \X Chains) : Closed(G) => <<T, c>> \in G}
             after == [T \in D |-> Left(T)]
             F(f) == [T \in D |-> IF T = {} THEN {edges} ELSE OneMore(f, T)]
  <1>1. \A c \in Chains : \A r : \A d \in Spliced(c, r) : d \in Chains
    BY SplicedIs
  <1>2. {} \in D /\ edges \in Chains /\ \A T \in D : \A r : T \ {r} \in D
    OBVIOUS
  <1>3. ASSUME NEW T \in D, NEW r \in T, NEW c \in Left(T \ {r}), NEW d \in Spliced(c, r)
        PROVE  d \in Left(T)
    <2>1. c \in Chains /\ d \in Chains
      BY <1>1, <1>3
    <2>2. ASSUME NEW G \in SUBSET (D \X Chains), Closed(G) PROVE <<T, d>> \in G
      <3>1. <<T \ {r}, c>> \in G
        BY <1>3, <2>2
      <3> QED
        BY <1>3, <2>1, <2>2, <3>1
    <2> QED
      BY <2>1, <2>2
  <1>4. Left({}) = {edges}
    <2>1. edges \in Left({})
      BY <1>2
    <2>2. ASSUME NEW d \in Left({}), d # edges PROVE FALSE
      <3> DEFINE G == (D \X Chains) \ {<<{}, d>>}
      <3>1. <<{}, edges>> \in G
        BY <1>2, <2>2
      <3>2. ASSUME NEW T \in D, NEW r \in T, NEW c \in Chains, NEW e \in Spliced(c, r)
            PROVE  <<T, e>> \in G
        <4>1. e \in Chains /\ T # {}
          BY <1>1, <3>2
        <4> QED
          BY <4>1
      <3>3. Closed(G)
        BY <3>1, <3>2
      <3>4. G \in SUBSET (D \X Chains)
        OBVIOUS
      <3>5. <<{}, d>> \in G
        BY <2>2, <3>3, <3>4
      <3> QED
        BY <3>5
    <2> HIDE DEF Left
    <2> QED
      BY <2>1, <2>2
  <1>5. ASSUME NEW T \in D, T # {} PROVE Left(T) = OneMore(after, T)
    <2> HIDE DEF Left
    <2>1. ASSUME NEW d \in OneMore(after, T) PROVE d \in Left(T)
      <3>1. PICK r \in T : \E c \in after[T \ {r}] : d \in Spliced(c, r)
        BY <2>1, OneMoreIs
      <3>2. PICK c \in after[T \ {r}] : d \in Spliced(c, r)
        BY <3>1
      <3>3. c \in Left(T \ {r})
        BY <1>2, <3>2
      <3> QED
        BY <1>3, <3>2, <3>3
    <2>2. ASSUME NEW d \in Left(T), d \notin OneMore(after, T) PROVE FALSE
      <3> DEFINE G == {x \in D \X Chains : x[2] \in Left(x[1])} \ {<<T, d>>}
      <3>0. \A U \in D, c \in Chains : <<U, c>> \in G <=> c \in Left(U) /\ <<U, c>> # <<T, d>>
        OBVIOUS
      <3>00. G \in SUBSET (D \X Chains)
        OBVIOUS
      <3> HIDE DEF G, Left
      <3>1. <<{}, edges>> \in G
        BY <1>2, <1>4, <1>5, <3>0
      <3>2. ASSUME NEW U \in D, NEW r \in U, NEW c \in Chains, <<U \ {r}, c>> \in G,
                   NEW e \in Spliced(c, r)
            PROVE  <<U, e>> \in G
        <4>1. c \in Left(U \ {r})
          BY <1>2, <3>0, <3>2
        <4>2. e \in Left(U) /\ e \in Chains
          BY <1>1, <1>3, <3>2, <4>1
        <4>3. ASSUME U = T, e = d PROVE FALSE
          <5>1. c \in after[T \ {r}]
            BY <1>2, <4>1, <4>3
          <5>2. d \in OneMore(after, T)
            BY <3>2, <4>3, <5>1, OneMoreIs
          <5> QED
            BY <2>2, <5>2
        <4> QED
          BY <3>0, <4>2, <4>3
      <3>3. Closed(G)
        BY <3>1, <3>2
      <3>4. <<T, d>> \in G
        BY <2>2, <3>00, <3>3 DEF Left
      <3> QED
        BY <3>4 DEF G
    <2> HIDE DEF after
    <2> QED
      BY <2>1, <2>2
  <1> HIDE DEF Left
  <1>6. \A T \in D : after[T] = IF T = {} THEN {edges} ELSE OneMore(after, T)
    BY <1>4, <1>5
  <1>7. after = F(after)
    BY <1>6
  <1> HIDE DEF after
  <1>8. \E f : f = F(f)
    BY <1>7
  <1>9. After(edges, doomed) = CHOOSE f : f = F(f)
    BY DEF After, OneMore
  <1>10. After(edges, doomed) = F(After(edges, doomed))
    BY <1>8, <1>9
  <1> HIDE DEF After
  <1>11. After(edges, doomed)[S] = IF S = {} THEN {edges} ELSE OneMore(After(edges, doomed), S)
    BY <1>10
  <1> QED
    BY <1>11

(* So what holds of the edges as they are, and stays when one more message *)
(* is spliced out, holds once all the doomed ones are: G is a set of pairs *)
(* of the messages that are gone and the edges that are left.              *)
LEMMA AfterAll ==
  ASSUME NEW Z, NEW edges \in EdgesOf(Z), NEW doomed, IsFiniteSet(doomed),
         NEW G, <<{}, edges>> \in G,
         \A S \in SUBSET doomed : \A r \in S : \A c : <<S \ {r}, c>> \in G =>
           \A d \in Spliced(c, r) : <<S, d>> \in G,
         NEW c \in SplicedAll(edges, doomed)
  PROVE  <<doomed, c>> \in G
  <1> DEFINE after == After(edges, doomed)
             D == SUBSET doomed
             Bad == {S \in D : \E d \in after[S] : <<S, d>> \notin G}
             Sizes == {Cardinality(S) : S \in Bad}
  <1>1. \A S \in D : after[S] = IF S = {} THEN {edges} ELSE OneMore(after, S)
    <2> TAKE S \in D
    <2> QED
      BY AfterIsRecursive
  <1>2. SplicedAll(edges, doomed) = after[doomed]
    BY DEF SplicedAll, After
  <1> HIDE DEF after
  <1>3. \A S \in D : IsFiniteSet(S) /\ Cardinality(S) \in Nat
    BY FS_Subset, FS_CardinalityType
  <1>4. ASSUME Bad # {} PROVE FALSE
    <2>1. Sizes \in SUBSET Nat /\ Sizes # {}
      BY <1>3, <1>4
    <2>2. Min(Sizes) \in Sizes /\ \A y \in Sizes : Min(Sizes) <= y
      BY <2>1, LeastExists
    <2>3. PICK n : n = Min(Sizes)
      OBVIOUS
    <2>4. n \in Sizes /\ \A y \in Sizes : n <= y
      BY <2>2, <2>3
    <2>5. PICK S \in Bad : Cardinality(S) = n
      BY <2>4
    <2>6. PICK d \in after[S] : <<S, d>> \notin G
      BY <2>5
    <2>7. S # {}
      BY <1>1, <2>5, <2>6
    <2>8. PICK r \in S : \E e \in after[S \ {r}] : d \in Spliced(e, r)
      BY <1>1, <2>5, <2>6, <2>7, OneMoreIs
    <2>9. PICK e \in after[S \ {r}] : d \in Spliced(e, r)
      BY <2>8
    <2>10. <<S \ {r}, e>> \notin G
      BY <2>5, <2>6, <2>8, <2>9
    <2>11. S \ {r} \in Bad
      BY <2>5, <2>9, <2>10
    <2>12. IsFiniteSet(S) /\ Cardinality(S) \in Nat
      BY <1>3, <2>5
    <2>13. Cardinality(S \ {r}) = Cardinality(S) - 1
      BY <2>8, <2>12, FS_RemoveElement
    <2>14. Cardinality(S \ {r}) \in Sizes
      BY <2>11
    <2> HIDE DEF Sizes
    <2> QED
      BY <2>4, <2>5, <2>12, <2>13, <2>14
  <1>5. doomed \in D
    OBVIOUS
  <1> QED
    BY <1>2, <1>4, <1>5
-----------------------------------------------------------------------------
(* NEXT edges join messages that are alive, an earlier to a later one.     *)
Forwards(rank, edges, live) ==
  /\ edges \subseteq Alive(live) \X Alive(live)
  /\ \A p, r : <<p, r>> \in edges => rank[p] < rank[r]

LEMMA SpliceGoesForwards ==
  ASSUME NEW msg, NEW rank, Backwards(msg, rank), NEW live, Alive(live) \subseteq DOMAIN msg,
         NEW edges, Forwards(rank, edges, live), NEW v \in Alive(live), NEW c \in Spliced(edges, v)
  PROVE  Forwards(rank, c, live \ {v})
  <1> DEFINE A == Alive(live)
  <1>1. edges \in SUBSET (A \X A) /\ \A p, r : <<p, r>> \in edges => rank[p] < rank[r]
    BY DEF Forwards
  <1>2. IsSpliced(edges, v, c) /\ c \in SUBSET (A \X A)
    BY <1>1, SplicedIs
  <1>3. Alive(live \ {v}) = A \ {v}
    BY DEF Alive
  <1>4. \A x \in A : rank[x] \in Nat
    BY DEF Backwards
  <1>5. \A p, r : <<p, r>> \in edges => p \in A /\ r \in A
    BY <1>1
  <1> HIDE DEF A
  <1>6. \A p, r : <<p, r>> \in c => rank[p] < rank[r] /\ p # v /\ r # v
    <2> TAKE p, r
    <2> HAVE <<p, r>> \in c
    <2>1. CASE <<p, r>> \in edges /\ p # v /\ r # v
      BY <1>1, <2>1
    <2>2. CASE <<p, v>> \in edges /\ <<v, r>> \in edges
      <3>1. rank[p] < rank[v] /\ rank[v] < rank[r]
        BY <1>1, <2>2
      <3>2. rank[p] \in Nat /\ rank[v] \in Nat /\ rank[r] \in Nat
        BY <1>4, <1>5, <2>2
      <3> QED
        BY <3>1, <3>2
    <2> QED
      BY <1>2, <2>1, <2>2 DEF IsSpliced
  <1>7. c \subseteq (A \ {v}) \X (A \ {v})
    <2>1. \A e \in c : e = <<e[1], e[2]>> /\ e[1] \in A /\ e[2] \in A
      BY <1>2
    <2> QED
      BY <1>6, <2>1
  <1> QED
    BY <1>3, <1>6, <1>7 DEF Forwards

(* The same for all the messages that are deleted together.                *)
LEMMA SpliceAllKeepsChain ==
  ASSUME NEW msg, NEW rank, Backwards(msg, rank), NEW live, Alive(live) \subseteq DOMAIN msg,
         NEW edges, Forwards(rank, edges, live),
         NEW doomed \in SUBSET Alive(live), IsFiniteSet(doomed),
         NEW c \in SplicedAll(edges, doomed)
  PROVE  /\ Forwards(rank, c, live \ doomed)
         /\ Chained(msg, edges, live) => Chained(msg, c, live \ doomed)
  <1> DEFINE A == Alive(live)
             Fine(S, d) == /\ Forwards(rank, d, live \ S)
                           /\ Chained(msg, edges, live) => Chained(msg, d, live \ S)
             G == {x \in (SUBSET doomed) \X EdgesOf(A) : Fine(x[1], x[2])}
  <1>1. edges \in EdgesOf(A)
    BY DEF EdgesOf, Forwards
  <1>2. \A S \in SUBSET doomed, d \in EdgesOf(A) : <<S, d>> \in G <=> Fine(S, d)
    <2> HIDE DEF Fine
    <2> QED
      OBVIOUS
  <1>3. \A S, d : <<S, d>> \in G => S \in SUBSET doomed /\ d \in EdgesOf(A) /\ Fine(S, d)
    <2> HIDE DEF Fine
    <2> QED
      OBVIOUS
  <1>4. live \ {} = live
    OBVIOUS
  <1>5. <<{}, edges>> \in G
    BY <1>1, <1>2, <1>4
  <1>6. ASSUME NEW S \in SUBSET doomed, NEW r \in S, NEW b, <<S \ {r}, b>> \in G,
               NEW d \in Spliced(b, r)
        PROVE  <<S, d>> \in G
    <2> HIDE DEF G, Fine
    <2>1. PICK L : L = live \ (S \ {r})
      OBVIOUS
    <2>2. L \ {r} = live \ S /\ r \in Alive(L) /\ Alive(L) \subseteq DOMAIN msg
      BY <2>1 DEF Alive
    <2>3. Forwards(rank, b, L) /\ (Chained(msg, edges, live) => Chained(msg, b, L))
      BY <1>3, <1>6, <2>1 DEF Fine
    <2>4. Forwards(rank, d, L \ {r})
      BY <1>6, <2>2, <2>3, SpliceGoesForwards
    <2>5. Chained(msg, edges, live) => Chained(msg, d, L \ {r})
      BY <1>6, <2>2, <2>3, SpliceKeepsChain
    <2>6. d \in EdgesOf(A)
      <3>1. b \in SUBSET (A \X A)
        BY <1>3, <1>6 DEF EdgesOf
      <3> QED
        BY <1>6, <3>1, SplicedIs DEF EdgesOf
    <2>7. Fine(S, d)
      BY <2>2, <2>4, <2>5 DEF Fine
    <2> QED
      BY <1>2, <2>6, <2>7
  <1> HIDE DEF G, Fine
  <1>7. <<doomed, c>> \in G
    BY <1>1, <1>5, <1>6, AfterAll
  <1>8. Fine(doomed, c)
    BY <1>3, <1>7
  <1> QED
    BY <1>8 DEF Fine

(* Only which messages are alive matters for a chain.                      *)
LEMMA ChainOfMessages ==
  ASSUME NEW msg, NEW rank, Backwards(msg, rank), NEW live, Alive(live) \subseteq DOMAIN msg,
         NEW live2, \A q \in DOMAIN msg : q \in live <=> q \in live2, Alive(live2) = Alive(live),
         NEW edges
  PROVE  /\ Forwards(rank, edges, live) => Forwards(rank, edges, live2)
         /\ Chained(msg, edges, live) => Chained(msg, edges, live2)
  <1>1. \A r \in DOMAIN msg : Near(msg, live2)[r] = Near(msg, live)[r]
    BY NearAgrees
  <1>2. Forwards(rank, edges, live) => Forwards(rank, edges, live2)
    BY DEF Forwards
  <1>3. ASSUME Chained(msg, edges, live) PROVE Chained(msg, edges, live2)
    <2> DEFINE A == Alive(live)
    <2>1. /\ edges \subseteq A \X A
          /\ \A r \in A : Near(msg, live)[r] # None => <<Near(msg, live)[r], r>> \in edges
          /\ \A p, r : <<p, r>> \in edges => Near(msg, live)[r] = p
          /\ \A p, r, s : <<p, r>> \in edges /\ <<p, s>> \in edges => r = s
      BY <1>3 DEF Chained
    <2>2. \A p, r : <<p, r>> \in edges => r \in DOMAIN msg
      BY <2>1
    <2> QED
      BY <1>1, <2>1, <2>2 DEF Chained
  <1> QED
    BY <1>2, <1>3
-----------------------------------------------------------------------------
ChainInv ==
  /\ \E rank : Backwards(message, rank) /\ Forwards(rank, next, rows)
  /\ ChainIsSimple => Chained(message, next, rows)

LEMMA MessagesAreAlive ==
  ASSUME IInv
  PROVE  Alive(rows) = Messages /\ Alive(rows) \subseteq DOMAIN message
  BY DEF IInv, MessagesAreRecorded, Messages, Alive

LEMMA ChainIsSimpleIs == ChainIsSimple <=> Simple(message)
  BY DEF ChainIsSimple, Simple, Before

LEMMA NearestIsNear == NearestLive = Near(message, rows)
  BY DEF NearestLive, Near, Before

(* The gaps are closed where the edges form a chain.                       *)
LEMMA ChainClosesGaps ==
  ASSUME IInv, ChainInv
  PROVE  GapsAreClosed
  BY MessagesAreAlive, NearestIsNear DEF ChainInv, Chained, GapsAreClosed

(* What a transaction adds to the chain.                                   *)
LEMMA NewLinks ==
  ASSUME IInv, SInv, NEW w \in Writer, Commit(w)
  PROVE  LET u == call[w].unit
         IN /\ \A i \in DOMAIN u :
                 message'[Fresh(u[i])].prev = IF i = 1 THEN LiveHead(w) ELSE Fresh(u[i - 1])
            /\ \A p, r : <<p, r>> \in next' <=>
                 <<p, r>> \in next \/ (r \in Ids(w) /\ p = message'[r].prev /\ p # None)
            /\ \A e \in next' : e \in next \/ \E p, r : e = <<p, r>>
  <1> DEFINE u == call[w].unit
             data(i) == [session |-> ctx[w].session,
                         sender |-> ctx[w].known[Sender[u[i]]],
                         prev |-> IF i = 1 THEN LiveHead(w) ELSE Fresh(u[i - 1]),
                         before |-> call[w].before]
             made(i) == [row |-> Fresh(u[i]), data |-> data(i)]
  <1>1. /\ Written(w) = {made(i) : i \in DOMAIN u}
        /\ Ids(w) = {m.row : m \in Written(w)}
    BY Zenon DEF Written, Ids
  <1>2. \A i, j \in DOMAIN u : Fresh(u[i]) = Fresh(u[j]) => i = j
    <2>1. u \in Units[w]
      BY DEF IInv, CallsInOrder, Commit, At
    <2>2. \A i, j \in DOMAIN u : u[i] = u[j] => i = j
      BY <2>1, SessionIngestAssumption
    <2>3. \A i : Fresh(u[i])[1] = u[i]
      BY DEF Fresh
    <2> QED
      BY <2>2, <2>3
  <1>3. message' = [r \in Ids(w) \cup DOMAIN message |->
                      IF r \in Ids(w) THEN (CHOOSE m \in Written(w) : m.row = r).data
                                      ELSE message[r]]
    BY DEF Commit, Ids
  <1>4. \A i \in DOMAIN u : made(i).row = Fresh(u[i]) /\ made(i).data = data(i)
    OBVIOUS
  <1>5. \A i : data(i).prev = IF i = 1 THEN LiveHead(w) ELSE Fresh(u[i - 1])
    OBVIOUS
  <1> HIDE DEF made, data
  <1>6. \A m \in Written(w) : m.row \in Ids(w) /\ message'[m.row].prev = m.data.prev
    <2> TAKE m \in Written(w)
    <2>1. m.row \in Ids(w)
      BY <1>1
    <2>2. message'[m.row] = (CHOOSE n \in Written(w) : n.row = m.row).data
      BY <1>3, <2>1
    <2>3. \A n \in Written(w) : n.row = m.row => n = m
      BY <1>1, <1>2, <1>4
    <2> QED
      BY <2>1, <2>2, <2>3
  <1>7. ASSUME NEW i \in DOMAIN u
        PROVE  message'[Fresh(u[i])].prev = IF i = 1 THEN LiveHead(w) ELSE Fresh(u[i - 1])
    <2>1. made(i) \in Written(w)
      BY <1>1
    <2>2. message'[made(i).row].prev = made(i).data.prev
      BY <1>6, <2>1
    <2> QED
      BY <1>4, <1>5, <2>2
  <1>8. next' = next \cup {<<m.data.prev, m.row>> : m \in {n \in Written(w) : n.data.prev # None}}
    BY DEF Commit
  <1>9. \A r \in Ids(w) : \E m \in Written(w) : m.row = r
    BY <1>1
  <1>10. ASSUME NEW p, NEW r
         PROVE  <<p, r>> \in next' <=>
                  <<p, r>> \in next \/ (r \in Ids(w) /\ p = message'[r].prev /\ p # None)
    BY <1>6, <1>8, <1>9
  <1>11. \A e \in next' : e \in next \/ \E p, r : e = <<p, r>>
    BY <1>8
  <1> QED
    BY <1>7, <1>10, <1>11

(* A committed unit goes on from the head, one turn behind the other.      *)
LEMMA CommitKeepsChain ==
  ASSUME IInv, SInv, ChainInv, NEW w \in Writer, Commit(w)
  PROVE  ChainInv'
  <1> DEFINE u == call[w].unit
             N == Ids(w)
             M == DOMAIN message
             head == LiveHead(w)
             prev(r) == message'[r].prev
  <1>1. PICK rank : Backwards(message, rank) /\ Forwards(rank, next, rows)
    BY DEF ChainInv
  <1>2. /\ \A i \in DOMAIN u : prev(Fresh(u[i])) = IF i = 1 THEN head ELSE Fresh(u[i - 1])
        /\ \A p, r : <<p, r>> \in next' <=>
             <<p, r>> \in next \/ (r \in N /\ p = prev(r) /\ p # None)
        /\ \A e \in next' : e \in next \/ \E p, r : e = <<p, r>>
    BY NewLinks
  <1>3. /\ DOMAIN message' = M \cup N
        /\ N \cap (rows \cup gone) = {}
        /\ \A s \in M : message'[s] = message[s]
    BY NewMessages
  <1>4. N = {Fresh(u[i]) : i \in DOMAIN u}
    BY RowsOfTurns
  <1>5. u \in Units[w] /\ u \in Seq(Turn) /\ \A i \in DOMAIN u : u[i] \in Turn
    <2>1. ~At(w, "idle")
      BY DEF Commit, At
    <2> QED
      BY <2>1, UnitOfTurns DEF IInv, CallsInOrder, At
  <1>6. \A i : Fresh(u[i])[1] = u[i]
    BY DEF Fresh
  <1>7. \A i, j \in DOMAIN u : Fresh(u[i]) = Fresh(u[j]) => i = j
    <2>1. \A i, j \in DOMAIN u : u[i] = u[j] => i = j
      BY <1>5, SessionIngestAssumption
    <2> QED
      BY <1>6, <2>1
  <1>8. /\ M \subseteq rows \cup gone /\ \A m \in M : m[1] \in Turn
        /\ rows \cup gone \subseteq Keys \X Nat
        /\ None \notin Keys \X Nat
    BY SessionIngestAssumption DEF SInv, CountInv, Numbered, Keys
  <1>9. \A r \in N : r \in Keys \X Nat /\ r[1] \in Turn
    <2>1. \A i \in DOMAIN u : u[i] \in Keys
      BY <1>5 DEF Keys
    <2>2. \A i \in DOMAIN u : Fresh(u[i]) \in Keys \X Nat
      BY <2>1, FreshIsNew DEF SInv
    <2> QED
      BY <1>4, <1>5, <1>6, <2>2
  <1>10. PICK C : rows' = rows \cup N \cup C /\ \A r \in C : r[1] \in Entity
    <2>1. rows' = rows \cup N \cup DOMAIN Counted(w)
      BY DEF Commit, Ids
    <2>2. \A r \in DOMAIN Counted(w) : r[1] \in Named(call[w].unit)
      BY RowsOfEntities DEF Commit
    <2>3. Named(u) \subseteq Entity
      <3>1. \A i \in DOMAIN u : Mentions[u[i]] \subseteq Entity
        BY <1>5, SessionIngestAssumption
      <3> QED
        BY <3>1 DEF Named
    <2> QED
      BY <2>1, <2>2, <2>3
  <1>11. Turn \cap Entity = {}
    BY SessionIngestAssumption
  <1>12. Alive(rows)' = Alive(rows) \cup N
    BY <1>9, <1>10, <1>11 DEF Alive
  <1>13. Alive(rows) \subseteq M /\ Alive(rows) = Messages
    BY MessagesAreAlive
  <1>14. head = None \/ (head \in M /\ head \in Alive(rows))
    BY <1>8 DEF IInv, HeadIsRecorded, LiveHead, Alive
  <1>15. \A i \in DOMAIN u : i = 1 \/ (i - 1 \in DOMAIN u /\ i \in Nat)
    BY <1>5
  <1>16. DOMAIN u \subseteq Nat
    BY <1>5
  <1>17. M \cap N = {}
    BY <1>3, <1>8
  <1> HIDE DEF u, N, M, head, prev
  <1>18. PICK base \in Nat : head # None => base = rank[head]
    BY <1>1, <1>14 DEF Backwards, M
  <1>19. PICK index : \A i \in DOMAIN u : index[Fresh(u[i])] = i
    <2> DEFINE f == [r \in N |-> CHOOSE i \in DOMAIN u : Fresh(u[i]) = r]
    <2>1. \A i \in DOMAIN u : f[Fresh(u[i])] = i
      BY <1>4, <1>7
    <2> HIDE DEF f
    <2> QED
      BY <2>1
  <1>20. PICK rank2 : /\ DOMAIN rank2 = M \cup N
                      /\ rank2 = [r \in M \cup N |-> IF r \in M THEN rank[r] ELSE base + index[r]]
                      /\ \A r \in M : rank2[r] = rank[r]
                      /\ \A r \in N : rank2[r] = base + index[r]
    <2> DEFINE f == [r \in M \cup N |-> IF r \in M THEN rank[r] ELSE base + index[r]]
    <2>1. \A r \in N : r \notin M
      BY <1>17
    <2>2. DOMAIN f = M \cup N
      OBVIOUS
    <2>3. \A r \in M : f[r] = rank[r]
      OBVIOUS
    <2>4. \A r \in N : f[r] = base + index[r]
      BY <2>1
    <2>5. f = [r \in M \cup N |-> IF r \in M THEN rank[r] ELSE base + index[r]]
      OBVIOUS
    <2> HIDE DEF f
    <2> QED
      BY <2>2, <2>3, <2>4, <2>5
  <1>21. ASSUME NEW r \in N
         PROVE  /\ rank2[r] \in Nat
                /\ prev(r) # None => /\ prev(r) \in M \cup N
                                     /\ rank2[prev(r)] < rank2[r]
                                     /\ prev(r) \in Alive(rows) \cup N
    <2>1. PICK i \in DOMAIN u : r = Fresh(u[i])
      BY <1>4
    <2>2. i \in Nat /\ rank2[r] = base + i /\ i > 0
      BY <1>5, <1>19, <1>20, <2>1 DEF u
    <2>3. CASE i = 1
      <3>1. prev(r) = head
        BY <1>2, <2>1, <2>3
      <3>2. head # None => rank2[head] = base /\ head \in M \cup N /\ head \in Alive(rows) \cup N
        BY <1>14, <1>18, <1>20
      <3> QED
        BY <2>2, <2>3, <3>1, <3>2
    <2>4. CASE i # 1
      <3>1. prev(r) = Fresh(u[i - 1]) /\ i - 1 \in DOMAIN u
        BY <1>2, <1>15, <2>1, <2>4
      <3>2. prev(r) \in N /\ rank2[prev(r)] = base + (i - 1)
        BY <1>4, <1>19, <1>20, <3>1
      <3> QED
        BY <2>2, <3>2
    <2> QED
      BY <2>3, <2>4
  <1>22. \A r \in M : Before(message', r) = Before(message, r)
    BY <1>3 DEF Before, M
  <1>23. \A r \in N : Before(message', r) = prev(r)
    BY DEF Before, prev
  <1>24. Backwards(message', rank2)
    <2>1. DOMAIN message' = M \cup N /\ DOMAIN message = M
      BY <1>3 DEF M
    <2>2. None \notin M \cup N
      BY <1>8, <1>9
    <2>3. \A r \in M : rank2[r] \in Nat
      BY <1>1, <1>20, <2>1 DEF Backwards
    <2>4. rank2 \in [M \cup N -> Nat]
      BY <1>20, <1>21, <2>3
    <2>5. ASSUME NEW r \in M, Before(message, r) # None
          PROVE  Before(message, r) \in M /\ rank2[Before(message, r)] < rank2[r]
      BY <1>1, <1>20, <2>1, <2>5 DEF Backwards
    <2> QED
      BY <1>21, <1>22, <1>23, <2>1, <2>2, <2>4, <2>5 DEF Backwards
  <1>25. /\ next \subseteq Alive(rows) \X Alive(rows)
         /\ \A p, r : <<p, r>> \in next => rank[p] < rank[r] /\ p \in Alive(rows) /\ r \in Alive(rows)
    BY <1>1 DEF Forwards
  <1>26. next' \subseteq Alive(rows)' \X Alive(rows)'
    <2>1. \A p, r : <<p, r>> \in next' => p \in Alive(rows)' /\ r \in Alive(rows)'
      BY <1>2, <1>12, <1>21, <1>25
    <2>2. \A e \in next' : \E p, r : e = <<p, r>>
      BY <1>2, <1>25
    <2> QED
      BY <2>1, <2>2
  <1>27. Forwards(rank2, next, rows)'
    <2>1. ASSUME NEW p, NEW r, <<p, r>> \in next' PROVE rank2[p] < rank2[r]
      BY <1>2, <1>13, <1>20, <1>21, <1>25, <2>1 DEF M
    <2> QED
      BY <1>26, <2>1 DEF Forwards
  <1>28. ASSUME ChainIsSimple' PROVE Chained(message, next, rows)'
    <2>1. Simple(message')
      BY <1>28 DEF ChainIsSimple, Simple, Before
    <2>2. Simple(message)
      <3>1. \A r \in M : Before(message, r) # None => Before(message, r) \in M
        BY <1>1 DEF Backwards, M
      <3>2. DOMAIN message = M /\ DOMAIN message' = M \cup N
        BY <1>3 DEF M
      <3> QED
        BY <1>3, <1>22, <2>1, <3>1, <3>2 DEF Simple
    <2>3. Chained(message, next, rows)
      BY <2>2, ChainIsSimpleIs DEF ChainInv
    <2> DEFINE near(r) == Near(message, rows)[r]
               after(r) == Near(message', rows')[r]
               A == Alive(rows)
    <2>4. /\ \A r \in A : near(r) # None => <<near(r), r>> \in next
          /\ \A p, r : <<p, r>> \in next => near(r) = p
          /\ \A p, r, s : <<p, r>> \in next /\ <<p, s>> \in next => r = s
      BY <2>3 DEF Chained
    <2>5. ASSUME NEW r \in M PROVE after(r) = near(r)
      <3>1. DOMAIN message = M /\ DOMAIN message' = M \cup N
        BY <1>3 DEF M
      <3>2. \A q \in M : q \in rows <=> q \in rows'
        BY <1>3, <1>8, <1>10, <1>11
      <3>3. \A q \in DOMAIN message : /\ q \in DOMAIN message'
                                      /\ Before(message', q) = Before(message, q)
                                      /\ q \in rows <=> q \in rows'
        BY <1>22, <3>1, <3>2
      <3> QED
        BY <1>1, <1>24, <3>1, <3>3, NearAgrees
    <2>6. ASSUME NEW r \in N PROVE after(r) = prev(r)
      <3>1. r \in DOMAIN message'
        BY <1>3 DEF M
      <3>2. prev(r) = None \/ prev(r) \in rows'
        <4>1. prev(r) # None => prev(r) \in Alive(rows')
          BY <1>12, <1>21
        <4> QED
          BY <4>1 DEF Alive
      <3>3. after(r) = IF Before(message', r) = None \/ Before(message', r) \in rows'
                       THEN Before(message', r) ELSE after(Before(message', r))
        BY <1>24, <3>1, NearIsRecursive
      <3> QED
        BY <1>23, <3>2, <3>3
    <2>7. ASSUME NEW p, NEW r, <<p, r>> \in next PROVE \E t \in M : prev(t) = p /\ p # None
      <3>1. p \in A /\ r \in M /\ p = near(r) /\ p # None
        BY <1>1, <1>13, <1>25, <2>4, <2>7 DEF Backwards, M
      <3>2. \E t \in DOMAIN message : Before(message, t) = near(r)
        BY <1>1, <3>1, NearIsEarlier DEF M
      <3> QED
        BY <1>22, <3>1, <3>2 DEF M, prev, Before
    <2>8. \A r, s \in M \cup N : prev(r) # None /\ prev(r) = prev(s) => r = s
      BY <1>3, <2>1 DEF Simple, Before, prev, M
    <2> HIDE DEF near, after, A
    <2>9. \A r \in A : r \in M
      BY <1>13 DEF A
    <2>10. \A p, r : <<p, r>> \in next => p \in A /\ r \in A
      BY <1>25 DEF A
    <2>11. Alive(rows') = A \cup N
      BY <1>12 DEF A
    <2>12. \A r \in A \cup N : after(r) # None => <<after(r), r>> \in next'
      BY <1>2, <2>4, <2>5, <2>6, <2>9
    <2>13. \A p, r : <<p, r>> \in next' => after(r) = p
      BY <1>2, <2>4, <2>5, <2>6, <2>9, <2>10
    <2>14. ASSUME NEW p, NEW r, NEW s, <<p, r>> \in next', <<p, s>> \in next' PROVE r = s
      <3>1. CASE <<p, r>> \in next /\ <<p, s>> \in next
        BY <2>4, <3>1
      <3>2. ASSUME NEW x, NEW y, <<p, x>> \in next, <<p, y>> \notin next, <<p, y>> \in next'
            PROVE  FALSE
        <4>1. y \in N /\ p = prev(y) /\ p # None
          BY <1>2, <3>2
        <4>2. PICK t \in M : prev(t) = p
          BY <2>7, <3>2
        <4> QED
          BY <1>17, <2>8, <4>1, <4>2
      <3>3. CASE <<p, r>> \notin next /\ <<p, s>> \notin next
        BY <1>2, <2>8, <2>14, <3>3
      <3> QED
        BY <2>14, <3>1, <3>2, <3>3
    <2> QED
      BY <1>26, <2>11, <2>12, <2>13, <2>14 DEF Chained, after
  <1> QED
    BY <1>24, <1>27, <1>28 DEF ChainInv
-----------------------------------------------------------------------------
(* Steps that write no message and no edge.                                *)
LEMMA OtherRowsKeepChain ==
  ASSUME IInv, CountInv, ChainInv, NEW N, \A r \in N : r[1] \notin Turn,
         rows' = rows \cup N, UNCHANGED <<message, next>>
  PROVE  ChainInv'
  <1>1. PICK rank : Backwards(message, rank) /\ Forwards(rank, next, rows)
    BY DEF ChainInv
  <1>2. Alive(rows) \subseteq DOMAIN message
    BY MessagesAreAlive
  <1>3. \A q \in DOMAIN message : q \in rows <=> q \in rows'
    BY DEF CountInv
  <1>4. Alive(rows') = Alive(rows)
    BY DEF Alive
  <1>5. /\ Forwards(rank, next, rows')
        /\ Chained(message, next, rows) => Chained(message, next, rows')
    BY <1>1, <1>2, <1>3, <1>4, ChainOfMessages
  <1>6. ChainIsSimple' <=> ChainIsSimple
    BY DEF ChainIsSimple
  <1> QED
    BY <1>1, <1>5, <1>6 DEF ChainInv

LEMMA QuietKeepsChain ==
  ASSUME ChainInv, UNCHANGED <<rows, message, next>>
  PROVE  ChainInv'
  BY DEF ChainInv, ChainIsSimple

(* The deletions.  A message that is deleted alone is spliced out.         *)
LEMMA DeleteMessageKeepsChain ==
  ASSUME IInv, ChainInv, NEW r \in Messages, DeleteMessage(r)
  PROVE  ChainInv'
  <1>1. PICK rank : Backwards(message, rank) /\ Forwards(rank, next, rows)
    BY DEF ChainInv
  <1>2. Alive(rows) \subseteq DOMAIN message /\ r \in Alive(rows)
    BY MessagesAreAlive
  <1>3. next' \in Spliced(next, r) /\ rows' = rows \ {r} /\ message' = message
    BY DEF DeleteMessage, Deletes
  <1>4. PICK c : c = next' /\ c \in Spliced(next, r)
    BY <1>3
  <1>5. Forwards(rank, c, rows \ {r})
    BY <1>1, <1>2, <1>4, SpliceGoesForwards
  <1>6. Chained(message, next, rows) => Chained(message, c, rows \ {r})
    BY <1>1, <1>2, <1>4, SpliceKeepsChain
  <1>7. ChainIsSimple' <=> ChainIsSimple
    BY <1>3 DEF ChainIsSimple
  <1> QED
    BY <1>1, <1>3, <1>4, <1>5, <1>6, <1>7 DEF ChainInv

(* A participant's messages are spliced out one after the other.           *)
LEMMA ForgetParticipantKeepsChain ==
  ASSUME IInv, CountInv, ChainInv, NEW p \in Participant, NEW r \in RowsOf(p), ForgetParticipant(r)
  PROVE  ChainInv'
  <1> DEFINE sent == {m \in Messages : message[m].sender = r}
  <1>1. PICK rank : Backwards(message, rank) /\ Forwards(rank, next, rows)
    BY DEF ChainInv
  <1>2. Alive(rows) = Messages /\ Alive(rows) \subseteq DOMAIN message
    BY MessagesAreAlive
  <1>3. /\ next' \in SplicedAll(next, sent) /\ rows' = rows \ ({r} \cup sent)
        /\ message' = message
    BY DEF ForgetParticipant, Deletes
  <1>4. r[1] \notin Turn
    BY SessionIngestAssumption DEF RowsOf
  <1>5. sent \in SUBSET Alive(rows) /\ IsFiniteSet(sent)
    <2>1. sent \subseteq DOMAIN message
      BY <1>2
    <2> QED
      BY <1>2, <2>1, FS_Subset DEF CountInv
  <1> HIDE DEF sent
  <1>6. PICK c : c = next' /\ c \in SplicedAll(next, sent)
    BY <1>3
  <1>7. /\ Forwards(rank, c, rows \ sent)
        /\ Chained(message, next, rows) => Chained(message, c, rows \ sent)
    BY <1>1, <1>2, <1>5, <1>6, SpliceAllKeepsChain
  <1>8. PICK left : left = rows \ sent
    OBVIOUS
  <1>9. Alive(left) \subseteq DOMAIN message /\ Alive(rows') = Alive(left)
    BY <1>2, <1>3, <1>4, <1>8 DEF Alive
  <1>10. \A q \in DOMAIN message : q \in left <=> q \in rows'
    BY <1>3, <1>4, <1>8 DEF CountInv
  <1>11. /\ Forwards(rank, c, left) => Forwards(rank, c, rows')
         /\ Chained(message, c, left) => Chained(message, c, rows')
    BY <1>1, <1>9, <1>10, ChainOfMessages
  <1>12. ChainIsSimple' <=> ChainIsSimple
    BY <1>3 DEF ChainIsSimple
  <1> QED
    BY <1>1, <1>3, <1>6, <1>7, <1>8, <1>11, <1>12 DEF ChainInv

(* A session's messages go without a splice: nobody else follows them.     *)
LEMMA DeleteSessionKeepsChain ==
  ASSUME IInv, SInv, ChainInv, NEW s \in Session, NEW r \in RowsOf(s), DeleteSession(r)
  PROVE  ChainInv'
  <1> DEFINE msgs == {m \in Messages : message[m].session = r}
             doomed == {r} \cup msgs
             A == Alive(rows)
             near(q) == Near(message, rows)[q]
             after(q) == Near(message, rows')[q]
  <1>1. PICK rank : Backwards(message, rank) /\ Forwards(rank, next, rows)
    BY DEF ChainInv
  <1>2. A = Messages /\ A \subseteq DOMAIN message
    BY MessagesAreAlive
  <1>3. /\ next' = next \ UNION {Touching(next, m) : m \in doomed}
        /\ rows' = rows \ doomed /\ message' = message
    BY DEF DeleteSession, Deletes
  <1>4. r[1] \notin Turn
    BY SessionIngestAssumption DEF RowsOf
  <1>5. \A q \in A : q \in doomed <=> message[q].session = r
    BY <1>2, <1>4 DEF Alive
  <1>6. Alive(rows') = A \ doomed
    BY <1>3 DEF Alive
  <1>7. next \subseteq A \X A /\ \A p, q : <<p, q>> \in next => rank[p] < rank[q] /\ p \in A /\ q \in A
    BY <1>1 DEF Forwards
  <1>8. \A p, q : <<p, q>> \in next' <=> <<p, q>> \in next /\ p \notin doomed /\ q \notin doomed
    <2>1. \A e : e \in next' <=> e \in next /\ \A m \in doomed : e \notin Touching(next, m)
      BY <1>3
    <2>2. \A p, q, m : <<p, q>> \in Touching(next, m) <=> <<p, q>> \in next /\ m \in {p, q}
      BY DEF Touching
    <2> HIDE DEF doomed
    <2> QED
      BY <2>1, <2>2
  <1>9. next' \subseteq (A \ doomed) \X (A \ doomed)
    <2>1. \A e \in next' : e = <<e[1], e[2]>> /\ e \in next
      BY <1>3, <1>7
    <2> HIDE DEF doomed, A
    <2> QED
      BY <1>7, <1>8, <2>1
  <1>10. Forwards(rank, next', rows')
    BY <1>6, <1>7, <1>8, <1>9 DEF Forwards
  <1>11. ASSUME ChainIsSimple' PROVE Chained(message, next', rows')
    <2>1. ChainIsSimple
      BY <1>3, <1>11 DEF ChainIsSimple
    <2>2. Simple(message) /\ Chained(message, next, rows)
      BY <2>1, ChainIsSimpleIs DEF ChainInv
    <2>3. /\ \A q \in A : near(q) # None => <<near(q), q>> \in next
          /\ \A p, q : <<p, q>> \in next => near(q) = p
          /\ \A p, q, t : <<p, q>> \in next /\ <<p, t>> \in next => q = t
      BY <2>2 DEF Chained
    <2>4. ASSUME NEW q \in A \ doomed PROVE near(q) \notin doomed
      <3>1. q \in DOMAIN message /\ message[q].session # r
        BY <1>2, <1>5, <2>4
      <3>2. CASE near(q) = None
        <4>1. None \notin A /\ None # r
          <5>1. None \notin Keys \X Nat
            BY SessionIngestAssumption DEF Keys
          <5>2. None \notin DOMAIN message
            BY <1>1 DEF Backwards
          <5>3. r \in rows /\ r[1] = s
            BY DEF RowsOf
          <5> QED
            BY <1>2, <5>1, <5>2, <5>3 DEF SInv, Numbered
        <4> QED
          BY <1>2, <3>2, <4>1
      <3>3. CASE near(q) # None
        <4>1. near(q) \in DOMAIN message /\ near(q) \in rows /\ message[near(q)].session = message[q].session
          BY <1>1, <2>2, <3>1, <3>3, NearIsEarlier
        <4>2. near(q) \in A
          BY <4>1 DEF Alive, SInv, CountInv
        <4> HIDE DEF doomed, A, near
        <4> QED
          BY <1>5, <3>1, <4>1, <4>2
      <3> QED
        BY <3>2, <3>3
    <2>5. ASSUME NEW q \in A \ doomed PROVE after(q) = near(q)
      <3>1. q \in DOMAIN message
        BY <1>2, <2>5
      <3>2. PICK dead : dead = doomed
        OBVIOUS
      <3>3. Near(message, rows \ dead)[q]
              = IF Near(message, rows)[q] # None /\ Near(message, rows)[q] \in dead
                THEN Near(message, rows \ dead)[Near(message, rows)[q]]
                ELSE Near(message, rows)[q]
        BY <1>1, <3>1, NearWithout
      <3>4. near(q) \notin dead
        BY <2>4, <2>5, <3>2
      <3>5. rows' = rows \ dead
        BY <1>3, <3>2
      <3> QED
        BY <3>3, <3>4, <3>5
    <2> HIDE DEF doomed, A, near, after
    <2>6. \A q \in A \ doomed : after(q) # None => <<after(q), q>> \in next'
      BY <1>8, <2>3, <2>4, <2>5
    <2>7. \A p, q : <<p, q>> \in next' => after(q) = p
      BY <1>7, <1>8, <2>3, <2>5
    <2>8. \A p, q, t : <<p, q>> \in next' /\ <<p, t>> \in next' => q = t
      BY <1>8, <2>3
    <2> QED
      BY <1>6, <1>9, <2>6, <2>7, <2>8 DEF Chained, after
  <1> QED
    BY <1>1, <1>3, <1>10, <1>11 DEF ChainInv

LEMMA ChainInit == Init => ChainInv
  <1> SUFFICES ASSUME Init PROVE ChainInv
    OBVIOUS
  <1>1. rows = {} /\ next = {} /\ message = <<>> /\ DOMAIN message = {}
    BY DEF Init
  <1>2. Alive(rows) = {}
    BY <1>1 DEF Alive
  <1>3. PICK rank : rank \in [{} -> Nat]
    <2>1. [x \in {} |-> 0] \in [{} -> Nat]
      OBVIOUS
    <2> QED
      BY <2>1
  <1>4. Backwards(message, rank) /\ Forwards(rank, next, rows)
    BY <1>1, <1>2, <1>3 DEF Backwards, Forwards
  <1>5. Chained(message, next, rows)
    BY <1>1, <1>2 DEF Chained
  <1> QED
    BY <1>4, <1>5 DEF ChainInv

LEMMA ChainStep == IInv /\ SInv /\ ChainInv /\ [Next]_vars => ChainInv'
  <1> SUFFICES ASSUME IInv, SInv, ChainInv, [Next]_vars PROVE ChainInv'
    OBVIOUS
  <1>1. \A key \in Session \cup Participant \cup Entity : key \notin Turn /\ Fresh(key)[1] = key
    BY SessionIngestAssumption DEF Fresh
  <1>2. CountInv
    BY DEF SInv
  <1>3. ASSUME NEW key \in Session \cup Participant \cup Entity, rows' = rows \cup {Fresh(key)},
               UNCHANGED <<message, next>>
        PROVE  ChainInv'
    <2>1. PICK N : N = {Fresh(key)}
      OBVIOUS
    <2>2. rows' = rows \cup N /\ \A r \in N : r[1] \notin Turn
      BY <1>1, <1>3, <2>1
    <2> QED
      BY <1>2, <1>3, <2>2, OtherRowsKeepChain
  <1>4. ASSUME NEW w \in Writer, Begin(w) \/ Advances(w) \/ Fails(w) PROVE ChainInv'
    <2>1. CASE CreateSession(w)
      <3>1. SessionOf[w] \in Session \cup Participant
        BY SessionIngestAssumption
      <3> QED
        BY <1>3, <2>1, <3>1 DEF CreateSession
    <2>2. CASE MergeNode(w)
      <3>1. Person(w) \in Session \cup Participant
        BY <2>2, KindOfKey DEF MergeNode, CreatesNode, MergingNode
      <3>2. rows' = rows \/ rows' = rows \cup {Fresh(Person(w))}
        BY <2>2 DEF MergeNode
      <3> QED
        BY <1>3, <2>2, <3>1, <3>2, QuietKeepsChain DEF MergeNode
    <2>3. CASE Commit(w)
      BY <2>3, CommitKeepsChain
    <2>4. CASE UNCHANGED store
      BY <2>4, QuietKeepsChain DEF store
    <2> QED
      BY <1>4, <2>1, <2>2, <2>3, <2>4, QuietSteps
  <1>5. ASSUME NEW d \in Document, DocumentFinds(d) \/ DocumentCreates(d) PROVE ChainInv'
    <2>1. SessionOf[d] \in Session \cup Participant
      BY SessionIngestAssumption
    <2> QED
      BY <1>3, <1>5, <2>1, QuietKeepsChain DEF DocumentFinds, DocumentCreates, store
  <1>8. ASSUME NEW l \in Linker, LinkerFinds(l) \/ LinkerCreates(l) \/ LinkerFails(l)
        PROVE  ChainInv'
    <2>1. EntityOf[l] \in Session \cup Participant \cup Entity
      BY SessionIngestAssumption
    <2> QED
      BY <1>3, <1>8, <2>1, QuietKeepsChain DEF LinkerFinds, LinkerCreates, LinkerFails, store
  <1>6. CASE Delete
    BY <1>2, <1>6, DeleteMessageKeepsChain, DeleteSessionKeepsChain, ForgetParticipantKeepsChain
    DEF Delete
  <1>7. CASE Crash \/ UNCHANGED vars
    BY <1>7, QuietKeepsChain DEF Crash, vars, store
  <1> QED
    BY <1>4, <1>5, <1>6, <1>7, <1>8 DEF Next

(* Deleting messages, participants and sessions beside the recording of    *)
(* turns leaves no gap in the chain of a session: a message follows the    *)
(* nearest of its predecessors that is still there.                        *)
THEOREM GapsStayClosed == Spec => []GapsAreClosed
  <1> QED
    BY InitInvariant, StepInvariant, StoreInit, StoreStep, ChainInit, ChainStep,
       ChainClosesGaps, PTL DEF Spec
-----------------------------------------------------------------------------
(* What the types rest on: a call goes on to write when the context has    *)
(* the session and every sender of its unit.                               *)
Settling == {"setup", "session", "sender", "find sender", "merge sender", "link"}
Settled == {"recipients", "find recipient", "merge recipient", "lock", "write"}
SendersOf(u) == {Sender[u[i]] : i \in DOMAIN u}

Ready(w) ==
  /\ ctx[w].session \in Row \cup {None}
  /\ \A p \in DOMAIN ctx[w].known : ctx[w].known[p] \in Row
  /\ DOMAIN ctx[w].known # {} => ctx[w].session # None
  /\ call[w].at \in {"idle", "probe"} \cup Settling \cup Settled
  /\ call[w].attempts \in 0..MaxAttempts
  /\ call[w].at \notin {"lock", "write"} => call[w].attempts = 0
  /\ call[w].at = "lock" => call[w].attempts < MaxAttempts
  /\ call[w].at \in Settling => SendersOf(call[w].unit) \subseteq call[w].todo \cup DOMAIN ctx[w].known
  /\ call[w].at \in Settled => SendersOf(call[w].unit) \subseteq DOMAIN ctx[w].known

RowsTyped ==
  /\ rows \subseteq Row /\ gone \subseteq Row /\ unguarded \subseteq Row
  /\ rows \cap gone = {}

Messaged == [session : Row, sender : Row, prev : Row \cup {None}, before : SUBSET Row]
MessagesTyped == \A r \in DOMAIN message : message[r] \in Messaged

LocksTyped ==
  /\ setupLocks \in [Setups -> Writer \cup {None}]
  /\ rmwLocks \in [Rmws -> Writer \cup Linker \cup {None}]

OthersTyped ==
  /\ document \in [Document -> {"new", "absent", "done"}]
  /\ link \in [Linker -> {"new", "absent", "done"}]
  /\ calls \in 0..MaxCalls /\ deletions \in 0..MaxDeletions /\ crashes \in 0..MaxCrashes

TInv ==
  /\ RowsTyped /\ MessagesTyped /\ LocksTyped /\ OthersTyped
  /\ \A w \in Writer : Ready(w)

(* A call that ended, and one that moved on with its context as it was.    *)
LEMMA EndIsReady ==
  ASSUME NEW w \in Writer, Ready(w), call'[w] = Idle,
         ctx'[w].session = ctx[w].session, ctx'[w].known = ctx[w].known
  PROVE  Ready(w)'
  <1>1. call'[w].at = "idle" /\ call'[w].attempts = 0
    BY DEF Idle
  <1>2. 0 \in 0..MaxAttempts
    BY SessionIngestAssumption
  <1>3. /\ ctx'[w].session \in Row \cup {None}
        /\ \A p \in DOMAIN ctx'[w].known : ctx'[w].known[p] \in Row
        /\ DOMAIN ctx'[w].known # {} => ctx'[w].session # None
    BY DEF Ready
  <1>4. "idle" \notin Settling \cup Settled
    BY DEF Settling, Settled
  <1> QED
    BY <1>1, <1>2, <1>3, <1>4 DEF Ready

LEMMA MoveIsReady ==
  ASSUME NEW w \in Writer, Ready(w),
         ctx'[w].session = ctx[w].session, ctx'[w].known = ctx[w].known,
         call'[w].attempts = call[w].attempts, call[w].at \notin {"lock", "write"},
         call'[w].at \in {"probe"} \cup Settling \cup (Settled \ {"lock", "write"}),
         call'[w].at \in Settling =>
           SendersOf(call'[w].unit) \subseteq call'[w].todo \cup DOMAIN ctx[w].known,
         call'[w].at \in Settled => SendersOf(call'[w].unit) \subseteq DOMAIN ctx[w].known
  PROVE  Ready(w)'
  <1>1. call'[w].attempts = 0 /\ 0 \in 0..MaxAttempts /\ call'[w].at \notin {"lock", "write"}
    BY SessionIngestAssumption DEF Ready, Settling
  <1>2. DOMAIN ctx'[w].known = DOMAIN ctx[w].known
    OBVIOUS
  <1> QED
    BY <1>1, <1>2 DEF Ready

LEMMA BeginIsReady ==
  ASSUME IInv, NEW w \in Writer, Ready(w), Begin(w)
  PROVE  Ready(w)'
  <1>1. DOMAIN call = Writer /\ DOMAIN ctx = Writer
    BY DEF IInv, CallsInOrder, ContextsInOrder
  <1>2. PICK u : call' = [call EXCEPT ![w] = [Idle EXCEPT !.at = "probe", !.unit = u, !.before = Messages]]
    BY DEF Begin
  <1>3. call'[w].at = "probe" /\ call'[w].attempts = 0
    BY <1>1, <1>2 DEF Idle
  <1>4. ctx'[w] = ctx[w] \/ ctx'[w] = FreshContext
    BY <1>1 DEF Begin
  <1>5. FreshContext.session = None /\ FreshContext.known = <<>> /\ DOMAIN FreshContext.known = {}
    BY DEF FreshContext
  <1>6. 0 \in 0..MaxAttempts
    BY SessionIngestAssumption
  <1> QED
    BY <1>3, <1>4, <1>5, <1>6 DEF Ready, Settling, Settled

LEMMA ProbeIsReady ==
  ASSUME IInv, NEW w \in Writer, Ready(w), Probes(w)
  PROVE  Ready(w)'
  <1>1. DOMAIN call = Writer /\ DOMAIN ctx = Writer /\ DOMAIN call[w] = Fields
    BY DEF IInv, CallsInOrder, ContextsInOrder
  <1>2. CASE Probe(w)
    <2>1. PICK f : call' = [call EXCEPT ![w].found = f]
      BY <1>2 DEF Probe
    <2>2. call'[w].at = "probe" /\ call'[w].attempts = call[w].attempts
      BY <1>1, <1>2, <2>1 DEF Probe, At, Fields
    <2> QED
      BY <1>2, <2>2, MoveIsReady DEF Probe, At, Settling, Settled
  <1>3. CASE IdConflict(w) \/ PartialUnit(w)
    <2>1. call'[w] = Idle /\ ctx' = ctx
      BY <1>1, <1>3 DEF IdConflict, PartialUnit, Ends
    <2> QED
      BY <2>1, EndIsReady
  <1>4. CASE Replay(w)
    <2>1. PICK r : ctx' = ctx \/ ctx' = [ctx EXCEPT ![w].head = r]
      BY <1>4 DEF Replay
    <2>2. DOMAIN ctx[w] = {"session", "known", "head"}
      BY DEF IInv, ContextsInOrder
    <2>3. ctx'[w].session = ctx[w].session /\ ctx'[w].known = ctx[w].known
      BY <1>1, <2>1, <2>2
    <2>4. call'[w] = Idle
      BY <1>1, <1>4 DEF Replay, Ends
    <2> QED
      BY <2>3, <2>4, EndIsReady
  <1>5. CASE StartSetup(w)
    <2>1. /\ call'[w].at = "setup" /\ call'[w].attempts = call[w].attempts
          /\ call'[w].unit = call[w].unit /\ call'[w].todo = SendersOf(call[w].unit)
      BY <1>1, <1>5 DEF StartSetup, Fields, SendersOf
    <2>2. ctx' = ctx /\ call[w].at = "probe"
      BY <1>5 DEF StartSetup, At
    <2> QED
      BY <2>1, <2>2, MoveIsReady DEF Settling, Settled
  <1> QED
    BY <1>2, <1>3, <1>4, <1>5 DEF Probes

LEMMA SetupIsReady ==
  ASSUME IInv, RowsTyped, Numbered, NEW w \in Writer, Ready(w), SetsUp(w)
  PROVE  Ready(w)'
  <1>1. DOMAIN call = Writer /\ DOMAIN ctx = Writer /\ DOMAIN call[w] = Fields
    BY DEF IInv, CallsInOrder, ContextsInOrder
  <1>2. DOMAIN ctx[w] = {"session", "known", "head"}
    BY DEF IInv, ContextsInOrder
  <1>3. /\ call[w].at \in Settling => SendersOf(call[w].unit) \subseteq call[w].todo \cup DOMAIN ctx[w].known
        /\ call[w].at \in Settled => SendersOf(call[w].unit) \subseteq DOMAIN ctx[w].known
    BY DEF Ready
  <1>4. CASE SkipWarm(w)
    <2>1. /\ call'[w].at = "setup" /\ call'[w].attempts = call[w].attempts
          /\ call'[w].unit = call[w].unit /\ call'[w].todo = call[w].todo \ {Person(w)}
      BY <1>1, <1>4 DEF SkipWarm, NextPerson, Fields
    <2>2. ctx' = ctx /\ call[w].at = "setup" /\ Person(w) \in DOMAIN ctx[w].known
      BY <1>4 DEF SkipWarm, At, Cold, Known
    <2>3. SendersOf(call'[w].unit) \subseteq call'[w].todo \cup DOMAIN ctx[w].known
      BY <1>3, <2>1, <2>2 DEF Settling
    <2> QED
      BY <2>1, <2>2, <2>3, MoveIsReady DEF Settling, Settled
  <1>5. CASE LockSetup(w)
    BY <1>5 DEF LockSetup, Ready, SendersOf
  <1>6. CASE FindSession(w)
    <2>1. /\ call'[w].at \in {"session", "sender"} /\ call'[w].attempts = call[w].attempts
          /\ call'[w].unit = call[w].unit /\ call'[w].todo = call[w].todo
      BY <1>1, <1>6 DEF FindSession, Fields
    <2>2. call[w].at = "setup"
      BY <1>6 DEF FindSession, At
    <2>3. CASE ctx' = ctx
      BY <1>3, <2>1, <2>2, <2>3, MoveIsReady DEF Settling, Settled
    <2>4. CASE \E r \in IF ctx[w].session # None THEN {ctx[w].session} ELSE RowsOf(SessionOf[w]) :
                 ctx' = [ctx EXCEPT ![w].session = r]
      <3>1. PICK r : /\ r \in IF ctx[w].session # None THEN {ctx[w].session} ELSE RowsOf(SessionOf[w])
                     /\ ctx' = [ctx EXCEPT ![w].session = r]
        BY <2>4
      <3>2. r \in Row
        BY <3>1 DEF Ready, RowsOf, RowsTyped
      <3>3. ctx'[w].session = r /\ ctx'[w].known = ctx[w].known
        BY <1>1, <1>2, <3>1
      <3>4. r # None
        BY <3>2, SessionIngestAssumption DEF Row
      <3> QED
        BY <2>1, <2>2, <3>2, <3>3, <3>4 DEF Ready, Settling, Settled, SendersOf
    <2> QED
      BY <1>6, <2>3, <2>4 DEF FindSession
  <1>7. CASE CreateSession(w)
    <2>1. /\ call'[w].at = "sender" /\ call'[w].attempts = call[w].attempts
          /\ call'[w].unit = call[w].unit /\ call'[w].todo = call[w].todo
          /\ call[w].at = "session"
      BY <1>1, <1>7 DEF CreateSession, Fields, At
    <2>2. ctx'[w].session = Fresh(SessionOf[w]) /\ ctx'[w].known = ctx[w].known
      BY <1>1, <1>2, <1>7 DEF CreateSession
    <2>3. Fresh(SessionOf[w]) \in Row /\ Fresh(SessionOf[w]) # None
      <3>1. SessionOf[w] \in Keys
        BY SessionIngestAssumption DEF Keys
      <3>2. Fresh(SessionOf[w]) \in Row
        BY <3>1, FreshIsNew DEF Row, Keys
      <3> QED
        BY <3>2, SessionIngestAssumption DEF Row
    <2> QED
      BY <2>1, <2>2, <2>3 DEF Ready, Settling, Settled, SendersOf
  <1>8. CASE LockNode(w)
    <2>1. /\ call'[w].attempts = call[w].attempts
          /\ call'[w].unit = call[w].unit /\ call'[w].todo = call[w].todo /\ ctx' = ctx
      BY <1>1, <1>8 DEF LockNode, Fields
    <2>2. \/ call[w].at = "sender" /\ call'[w].at = "find sender"
          \/ call[w].at = "recipients" /\ call'[w].at = "find recipient"
      BY <1>1, <1>8 DEF LockNode, Merging, At, Fields
    <2> QED
      BY <1>3, <2>1, <2>2, MoveIsReady DEF Settling, Settled
  <1>9. CASE FindNode(w)
    <2>1. PICK r : call' = [call EXCEPT ![w].at = IF @ = "find sender" THEN "merge sender"
                                                  ELSE "merge recipient",
                                        ![w].row = r]
      BY <1>9 DEF FindNode
    <2>2. /\ call'[w].attempts = call[w].attempts
          /\ call'[w].unit = call[w].unit /\ call'[w].todo = call[w].todo
          /\ call'[w].at = IF call[w].at = "find sender" THEN "merge sender" ELSE "merge recipient"
      BY <1>1, <2>1 DEF Fields
    <2>3. ctx' = ctx /\ call[w].at \in {"find sender", "find recipient"}
      BY <1>9 DEF FindNode
    <2> QED
      BY <1>3, <2>2, <2>3, MoveIsReady DEF Settling, Settled
  <1>10. CASE MergeNode(w)
    <2>1. PICK r : call' = IF At(w, "merge sender")
                           THEN [call EXCEPT ![w].at = "link", ![w].row = r]
                           ELSE [call EXCEPT ![w].at = "recipients", ![w].row = None,
                                             ![w].todo = @ \ {Person(w)}]
      BY <1>10 DEF MergeNode
    <2>2. ctx' = ctx /\ call[w].at \in {"merge sender", "merge recipient"}
      BY <1>10 DEF MergeNode
    <2>3. CASE At(w, "merge sender")
      <3>1. /\ call'[w].attempts = call[w].attempts /\ call'[w].at = "link"
            /\ call'[w].unit = call[w].unit /\ call'[w].todo = call[w].todo
        BY <1>1, <2>1, <2>3 DEF Fields
      <3> QED
        BY <1>3, <2>2, <2>3, <3>1, MoveIsReady DEF At, Settling, Settled
    <2>4. CASE ~At(w, "merge sender")
      <3>1. /\ call'[w].attempts = call[w].attempts /\ call'[w].at = "recipients"
            /\ call'[w].unit = call[w].unit
        BY <1>1, <2>1, <2>4 DEF Fields
      <3> QED
        BY <1>3, <2>2, <2>4, <3>1, MoveIsReady DEF At, Settling, Settled
    <2> QED
      BY <2>3, <2>4
  <1>11. CASE Link(w)
    <2>1. /\ call'[w].at = "setup" /\ call'[w].attempts = call[w].attempts
          /\ call'[w].unit = call[w].unit /\ call'[w].todo = call[w].todo \ {Person(w)}
          /\ call[w].at = "link"
      BY <1>1, <1>11 DEF Link, NextPerson, Fields, At
    <2>2. ctx'[w].session = ctx[w].session /\ ctx'[w].known = Learnt(w)
      BY <1>1, <1>2, <1>11 DEF Link
    <2>3. /\ DOMAIN Learnt(w) = DOMAIN ctx[w].known \cup {Person(w)}
          /\ \A p \in DOMAIN Learnt(w) : Learnt(w)[p] \in {call[w].row, ctx[w].known[p]}
          /\ \A p \in DOMAIN Learnt(w) : p \notin DOMAIN ctx[w].known => Learnt(w)[p] = call[w].row
      BY DEF Learnt
    <2>4. call[w].row \in Row /\ ctx[w].session \in Row
      BY <1>11 DEF Link, Linkable, RowsTyped
    <2>5. ctx[w].session # None
      BY <2>4, SessionIngestAssumption DEF Row
    <2>6. SendersOf(call'[w].unit) \subseteq call'[w].todo \cup DOMAIN ctx'[w].known
      BY <1>3, <2>1, <2>2, <2>3 DEF Settling
    <2>7. \A p \in DOMAIN ctx'[w].known : ctx'[w].known[p] \in Row
      BY <2>2, <2>3, <2>4 DEF Ready
    <2>8. call'[w].attempts = 0 /\ 0 \in 0..MaxAttempts
      BY <2>1, SessionIngestAssumption DEF Ready
    <2> QED
      BY <2>1, <2>2, <2>4, <2>5, <2>6, <2>7, <2>8 DEF Ready, Settling, Settled, SendersOf
  <1>12. CASE LinkFails(w)
    <2>1. call'[w] = Idle /\ ctx' = ctx
      BY <1>1, <1>12 DEF LinkFails, Ends
    <2> QED
      BY <2>1, EndIsReady
  <1>13. CASE StartRecipients(w)
    <2>1. /\ call'[w].attempts = call[w].attempts /\ call'[w].at = "recipients"
          /\ call'[w].unit = call[w].unit /\ ctx' = ctx /\ call[w].at = "setup" /\ call[w].todo = {}
      BY <1>1, <1>13 DEF StartRecipients, Fields, At
    <2> QED
      BY <1>3, <2>1, MoveIsReady DEF Settling, Settled
  <1>14. CASE StartWrite(w)
    <2>1. /\ call'[w].attempts = call[w].attempts /\ call'[w].at = "lock"
          /\ call'[w].unit = call[w].unit /\ ctx' = ctx /\ call[w].at = "recipients"
      BY <1>1, <1>14 DEF StartWrite, Fields, At
    <2>2. 0 < MaxAttempts /\ MaxAttempts \in Nat
      BY SessionIngestAssumption
    <2> QED
      BY <1>3, <2>1, <2>2 DEF Ready, Settling, Settled
  <1> QED
    BY <1>4, <1>5, <1>6, <1>7, <1>8, <1>9, <1>10, <1>11, <1>12, <1>13, <1>14 DEF SetsUp

LEMMA WriteIsReady ==
  ASSUME IInv, NEW w \in Writer, Ready(w), Writes(w)
  PROVE  Ready(w)'
  <1>1. DOMAIN call = Writer /\ DOMAIN ctx = Writer /\ DOMAIN call[w] = Fields
    BY DEF IInv, CallsInOrder, ContextsInOrder
  <1>2. MaxAttempts \in Nat
    BY SessionIngestAssumption
  <1>3. CASE LockEntities(w)
    BY <1>3 DEF LockEntities, Ready, SendersOf
  <1>4. CASE BeginTx(w)
    <2>1. PICK r : call' = [call EXCEPT ![w].at = "write", ![w].attempts = @ + 1, ![w].read = r]
      BY <1>4 DEF BeginTx
    <2>2. /\ call'[w].at = "write" /\ call'[w].attempts = call[w].attempts + 1
          /\ call'[w].unit = call[w].unit
      BY <1>1, <2>1 DEF Fields
    <2>3. ctx' = ctx /\ call[w].at = "lock"
      BY <1>4 DEF BeginTx, At
    <2>4. call'[w].attempts \in 0..MaxAttempts
      BY <1>2, <2>2, <2>3 DEF Ready
    <2> QED
      BY <2>2, <2>3, <2>4 DEF Ready, Settling, Settled
  <1>5. CASE Commit(w)
    <2>1. PICK r : ctx' = [ctx EXCEPT ![w].head = r]
      BY <1>5 DEF Commit
    <2>2. DOMAIN ctx[w] = {"session", "known", "head"}
      BY DEF IInv, ContextsInOrder
    <2>3. ctx'[w].session = ctx[w].session /\ ctx'[w].known = ctx[w].known
      BY <1>1, <2>1, <2>2
    <2>4. call'[w] = Idle
      BY <1>1, <1>5 DEF Commit, Ends
    <2> QED
      BY <2>3, <2>4, EndIsReady
  <1>6. CASE Conflict(w)
    <2>1. /\ call'[w].at = "lock" /\ call'[w].attempts = call[w].attempts
          /\ call'[w].unit = call[w].unit
      BY <1>1, <1>6 DEF Conflict, Fields
    <2>2. ctx' = ctx /\ call[w].at = "write" /\ call[w].attempts < MaxAttempts
      BY <1>6 DEF Conflict, At
    <2> QED
      BY <2>1, <2>2 DEF Ready, Settling, Settled
  <1>7. CASE UnreadableEntity(w)
    <2>1. call'[w] = Idle /\ ctx' = ctx
      BY <1>1, <1>7 DEF UnreadableEntity, Ends
    <2> QED
      BY <2>1, EndIsReady
  <1> QED
    BY <1>3, <1>4, <1>5, <1>6, <1>7 DEF Writes
-----------------------------------------------------------------------------
(* A fresh row is a row.                                                   *)
LEMMA FreshIsRow ==
  ASSUME Numbered, NEW key \in Keys
  PROVE  Fresh(key) \in Row /\ Fresh(key) \notin rows \cup gone
  <1>1. /\ Cardinality(Used(key)) \in Nat
        /\ Fresh(key) = <<key, 1 + Cardinality(Used(key))>>
        /\ Fresh(key) \notin rows \cup gone
    BY FreshIsNew
  <1>2. 1 + Cardinality(Used(key)) \in Nat \ {0}
    BY <1>1
  <1> QED
    BY <1>1, <1>2 DEF Row, Keys

(* Every step of a writer leaves its call ready, and those of the others.  *)
LEMMA WriterIsReady ==
  ASSUME IInv, SInv, TInv, NEW w \in Writer, Begin(w) \/ Advances(w) \/ Fails(w), NEW x \in Writer
  PROVE  Ready(x)'
  <1>1. Ready(x) /\ RowsTyped /\ Numbered
    BY DEF TInv, SInv
  <1>2. CASE x = w
    <2>1. CASE Begin(w)
      BY <1>1, <1>2, <2>1, BeginIsReady
    <2>2. CASE Probes(w)
      BY <1>1, <1>2, <2>2, ProbeIsReady
    <2>3. CASE SetsUp(w)
      BY <1>1, <1>2, <2>3, SetupIsReady
    <2>4. CASE Writes(w)
      BY <1>1, <1>2, <2>4, WriteIsReady
    <2>5. CASE Fails(w)
      <3>1. call'[w] = Idle /\ ctx' = ctx
        BY <2>5 DEF Fails, Ends, IInv, CallsInOrder
      <3> QED
        BY <1>1, <1>2, <3>1, EndIsReady
    <2> QED
      BY <2>1, <2>2, <2>3, <2>4, <2>5 DEF Advances
  <1>3. CASE x # w
    <2>1. call'[x] = call[x] /\ ctx'[x] = ctx[x]
      BY <1>3, StepIsLocal, ContextIsLocal
    <2> QED
      BY <1>1, <2>1 DEF Ready
  <1> QED
    BY <1>2, <1>3

(* Rows that a step adds are fresh.                                        *)
LEMMA GrowthIsTyped ==
  ASSUME Numbered, RowsTyped, NEW w \in Writer, NEW N, Grows(w, N)
  PROVE  RowsTyped'
  <1>1. \A r \in N : r \in Row /\ r \notin rows \cup gone
    <2> TAKE r \in N
    <2>1. r[1] \in Keys /\ r = Fresh(r[1])
      BY DEF Grows
    <2>2. Fresh(r[1]) \in Row /\ Fresh(r[1]) \notin rows \cup gone
      BY <2>1, FreshIsRow
    <2> QED
      BY <2>1, <2>2
  <1>2. rows' = rows \cup N /\ gone' = gone /\ unguarded' = unguarded
    BY DEF Grows
  <1> QED
    BY <1>1, <1>2 DEF RowsTyped

(* What is committed of a message names its session, its sender and the    *)
(* message before it.                                                      *)
LEMMA CommitIsTyped ==
  ASSUME IInv, SInv, TInv, NEW w \in Writer, Commit(w)
  PROVE  MessagesTyped'
  <1> DEFINE u == call[w].unit
             data(i) == [session |-> ctx[w].session,
                         sender |-> ctx[w].known[Sender[u[i]]],
                         prev |-> IF i = 1 THEN LiveHead(w) ELSE Fresh(u[i - 1]),
                         before |-> call[w].before]
             made(i) == [row |-> Fresh(u[i]), data |-> data(i)]
  <1>1. ~At(w, "idle") /\ call[w].at = "write"
    BY DEF Commit, At
  <1>2. u \in Seq(Turn) /\ Len(u) \in DOMAIN u /\ \A i \in DOMAIN u : u[i] \in Turn
    BY <1>1, UnitOfTurns
  <1>3. Ready(w) /\ RowsTyped
    BY DEF TInv
  <1>4. \A i \in DOMAIN u : Sender[u[i]] \in DOMAIN ctx[w].known
    BY <1>1, <1>3 DEF Ready, Settled, SendersOf
  <1>5. ctx[w].session \in Row
    BY <1>2, <1>3, <1>4 DEF Ready
  <1>6. \A i \in DOMAIN u : ctx[w].known[Sender[u[i]]] \in Row
    BY <1>3, <1>4 DEF Ready
  <1>7. LiveHead(w) \in Row \cup {None}
    BY <1>3 DEF LiveHead, RowsTyped
  <1>8. \A i \in DOMAIN u : i = 1 \/ i - 1 \in DOMAIN u
    BY <1>2
  <1>9. \A i \in DOMAIN u : Fresh(u[i]) \in Row
    <2>1. \A i \in DOMAIN u : u[i] \in Keys
      BY <1>2 DEF Keys
    <2> QED
      BY <2>1, FreshIsRow DEF SInv
  <1>10. call[w].before \in SUBSET Row
    <2>1. call[w].before \subseteq rows \cup gone
      BY <1>1 DEF SInv, Looked
    <2> QED
      BY <1>3, <2>1 DEF RowsTyped
  <1>11. \A i \in DOMAIN u : data(i) \in Messaged
    <2> TAKE i \in DOMAIN u
    <2>1. (IF i = 1 THEN LiveHead(w) ELSE Fresh(u[i - 1])) \in Row \cup {None}
      BY <1>7, <1>8, <1>9
    <2> QED
      BY <1>5, <1>6, <1>10, <2>1 DEF Messaged
  <1>12. Written(w) = {made(i) : i \in DOMAIN u}
    BY Zenon DEF Written
  <1>13. \A m \in Written(w) : m.data \in Messaged
    <2>1. \A i \in DOMAIN u : made(i).data = data(i)
      OBVIOUS
    <2> HIDE DEF made, data
    <2> QED
      BY <1>11, <1>12, <2>1
  <1>14. message' = [r \in Ids(w) \cup DOMAIN message |->
                      IF r \in Ids(w) THEN (CHOOSE m \in Written(w) : m.row = r).data
                                      ELSE message[r]]
    BY DEF Commit, Ids
  <1>15. \A r \in Ids(w) : message'[r] \in Messaged
    <2> TAKE r \in Ids(w)
    <2>1. \E m \in Written(w) : m.row = r
      BY DEF Ids
    <2>2. message'[r] = (CHOOSE m \in Written(w) : m.row = r).data
      BY <1>14
    <2> QED
      BY <1>13, <2>1, <2>2
  <1>16. /\ DOMAIN message' = DOMAIN message \cup Ids(w)
         /\ \A r \in DOMAIN message : message'[r] = message[r]
    BY NewMessages
  <1>17. \A r \in DOMAIN message : message[r] \in Messaged
    BY DEF TInv, MessagesTyped
  <1> QED
    BY <1>15, <1>16, <1>17 DEF MessagesTyped, Messaged

(* The bounds that a step of a writer counts.                              *)
LEMMA QuietBounds ==
  ASSUME NEW w \in Writer, Begin(w) \/ Advances(w) \/ Fails(w)
  PROVE  /\ UNCHANGED <<document, link, deletions, crashes>>
         /\ calls' = calls \/ (calls < MaxCalls /\ calls' = calls + 1)
  <1>1. CASE Begin(w)
    BY <1>1 DEF Begin
  <1>2. CASE Probes(w)
    BY <1>2 DEF Probes, Probe, IdConflict, Replay, PartialUnit, StartSetup, bounds
  <1>3. CASE SetsUp(w)
    BY <1>3 DEF SetsUp, SkipWarm, LockSetup, FindSession, CreateSession, LockNode, FindNode, MergeNode,
                Link, LinkFails, StartRecipients, StartWrite, bounds
  <1>4. CASE Writes(w)
    BY <1>4 DEF Writes, LockEntities, UnreadableEntity, BeginTx, Commit, Conflict, bounds
  <1>5. CASE Fails(w)
    BY <1>5 DEF Fails, bounds
  <1> QED
    BY <1>1, <1>2, <1>3, <1>4, <1>5 DEF Advances

IsTable(table) == table = [s \in DOMAIN table |-> table[s]]

LEMMA TablesStay ==
  ASSUME LocksTyped, NEW w \in Writer, Begin(w) \/ Advances(w) \/ Fails(w)
  PROVE  IsTable(setupLocks') /\ IsTable(rmwLocks')
  <1>1. /\ \A table, s : IsTable([table EXCEPT ![s] = w])
        /\ \A table : IsTable(Released(table, w))
    BY DEF IsTable, Released
  <1>2. IsTable(setupLocks) /\ IsTable(rmwLocks)
    BY DEF LocksTyped, IsTable
  <1>3. CASE Ends(w)
    BY <1>1, <1>3 DEF Ends
  <1>4. CASE UNCHANGED locks
    BY <1>2, <1>4 DEF locks
  <1>5. CASE SetsUp(w)
    <2>1. CASE LockSetup(w)
      BY <1>1, <1>2, <2>1 DEF LockSetup
    <2>2. CASE LockNode(w)
      BY <1>1, <1>2, <2>2 DEF LockNode
    <2>3. CASE MergeNode(w)
      BY <1>1, <1>2, <2>3 DEF MergeNode
    <2>4. CASE Link(w)
      BY <1>1, <1>2, <2>4 DEF Link
    <2> QED
      BY <1>3, <1>4, <1>5, <2>1, <2>2, <2>3, <2>4
      DEF SetsUp, SkipWarm, FindSession, CreateSession, FindNode, LinkFails, StartRecipients, StartWrite
  <1>6. CASE LockEntities(w)
    BY <1>1, <1>2, <1>6 DEF LockEntities
  <1> QED
    BY <1>3, <1>4, <1>5, <1>6
    DEF Begin, Advances, Fails, Probes, Probe, IdConflict, Replay, PartialUnit, StartSetup,
        Writes, UnreadableEntity, BeginTx, Commit, Conflict

LEMMA WriterIsTyped ==
  ASSUME IInv, SInv, TInv, NEW w \in Writer, Begin(w) \/ Advances(w) \/ Fails(w)
  PROVE  TInv'
  <1>1. RowsTyped'
    BY StepGrows, GrowthIsTyped DEF TInv, SInv
  <1>2. MessagesTyped'
    <2>1. CASE Commit(w)
      BY <2>1, CommitIsTyped
    <2>2. CASE ~Commit(w)
      <3>1. message' = message
        BY <2>2, QuietSteps DEF CreateSession, MergeNode, store
      <3> QED
        BY <3>1 DEF TInv, MessagesTyped, Messaged
    <2> QED
      BY <2>1, <2>2
  <1>3. LocksTyped'
    <2>1. Passes(setupLocks, setupLocks', w) /\ Passes(rmwLocks, rmwLocks', w)
      BY StepIsLocal
    <2>2. IsTable(setupLocks') /\ IsTable(rmwLocks')
      BY TablesStay DEF TInv, LocksTyped
    <2>3. setupLocks' \in [Setups -> Writer \cup {None}]
      BY <2>1, <2>2 DEF TInv, LocksTyped, Passes, IsTable
    <2>4. rmwLocks' \in [Rmws -> Writer \cup Linker \cup {None}]
      BY <2>1, <2>2 DEF TInv, LocksTyped, Passes, IsTable
    <2>5. Setups' = Setups /\ Rmws' = Rmws
      BY DEF Setups, Rmws
    <2> QED
      BY <2>3, <2>4, <2>5 DEF LocksTyped
  <1>4. OthersTyped'
    <2>1. /\ UNCHANGED <<document, link, deletions, crashes>>
          /\ calls' = calls \/ (calls < MaxCalls /\ calls' = calls + 1)
      BY QuietBounds
    <2> QED
      BY <2>1, SessionIngestAssumption DEF TInv, OthersTyped
  <1>5. \A x \in Writer : Ready(x)'
    BY WriterIsReady
  <1> QED
    BY <1>1, <1>2, <1>3, <1>4, <1>5 DEF TInv
-----------------------------------------------------------------------------
(* The steps of documents, of linkers, the deletions and the crash.        *)
LEMMA DocumentIsTyped ==
  ASSUME SInv, TInv, NEW d \in Document, DocumentFinds(d) \/ DocumentCreates(d)
  PROVE  TInv'
  <1>1. /\ UNCHANGED <<message, ctx, call, setupLocks, rmwLocks, link, calls, deletions, crashes>>
        /\ \E s \in {"absent", "done"} : document' = [document EXCEPT ![d] = s]
    BY DEF DocumentFinds, DocumentCreates, store, locks, bounds
  <1>2. RowsTyped'
    <2>1. SessionOf[d] \in Keys
      BY SessionIngestAssumption DEF Keys
    <2>2. Fresh(SessionOf[d]) \in Row /\ Fresh(SessionOf[d]) \notin rows \cup gone
      BY <2>1, FreshIsRow DEF SInv
    <2> QED
      BY <2>2 DEF TInv, RowsTyped, DocumentFinds, DocumentCreates, store
  <1>3. MessagesTyped' /\ LocksTyped'
    BY <1>1 DEF TInv, MessagesTyped, Messaged, LocksTyped, Setups, Rmws
  <1>4. OthersTyped'
    BY <1>1 DEF TInv, OthersTyped
  <1>5. \A w \in Writer : Ready(w)'
    BY <1>1 DEF TInv, Ready
  <1> QED
    BY <1>2, <1>3, <1>4, <1>5 DEF TInv

LEMMA LinkerIsTyped ==
  ASSUME SInv, TInv, NEW l \in Linker, LinkerFinds(l) \/ LinkerCreates(l) \/ LinkerFails(l)
  PROVE  TInv'
  <1>1. /\ UNCHANGED <<message, ctx, call, setupLocks, document, calls, deletions, crashes>>
        /\ \E s \in {"absent", "done"} : link' = [link EXCEPT ![l] = s]
    BY DEF LinkerFinds, LinkerCreates, LinkerFails, store, bounds
  <1>2. RowsTyped'
    <2>1. EntityOf[l] \in Keys
      BY SessionIngestAssumption DEF Keys
    <2>2. Fresh(EntityOf[l]) \in Row /\ Fresh(EntityOf[l]) \notin rows \cup gone
      BY <2>1, FreshIsRow DEF SInv
    <2> QED
      BY <2>2 DEF TInv, RowsTyped, LinkerFinds, LinkerCreates, LinkerFails, store
  <1>3. LocksTyped'
    <2>1. rmwLocks \in [Rmws -> Writer \cup Linker \cup {None}]
      BY DEF TInv, LocksTyped
    <2>2. ASSUME LinkerFinds(l) PROVE rmwLocks' \in [Rmws -> Writer \cup Linker \cup {None}]
      BY <2>1, <2>2 DEF LinkerFinds
    <2>3. ASSUME LinkerCreates(l) \/ LinkerFails(l)
          PROVE  rmwLocks' \in [Rmws -> Writer \cup Linker \cup {None}]
      BY <2>1, <2>3 DEF LinkerCreates, LinkerFails, Released
    <2>4. rmwLocks' \in [Rmws -> Writer \cup Linker \cup {None}]
      BY <2>2, <2>3
    <2> QED
      BY <1>1, <2>4 DEF TInv, LocksTyped, Setups, Rmws
  <1>4. MessagesTyped'
    BY <1>1 DEF TInv, MessagesTyped, Messaged
  <1>5. OthersTyped'
    BY <1>1 DEF TInv, OthersTyped
  <1>6. \A w \in Writer : Ready(w)'
    BY <1>1 DEF TInv, Ready
  <1> QED
    BY <1>2, <1>3, <1>4, <1>5, <1>6 DEF TInv

LEMMA DeleteIsTyped ==
  ASSUME TInv, Delete
  PROVE  TInv'
  <1>1. PICK doomed \in SUBSET rows : Deletes(doomed)
    BY DeleteTakes
  <1>2. /\ UNCHANGED <<message, unguarded, ctx, call, setupLocks, rmwLocks, document, link, calls,
                     crashes>>
        /\ rows' = rows \ doomed /\ gone' = gone \cup doomed
        /\ deletions < MaxDeletions /\ deletions' = deletions + 1
    BY <1>1 DEF Deletes, locks
  <1>3. RowsTyped'
    BY <1>2 DEF TInv, RowsTyped
  <1>4. MessagesTyped' /\ LocksTyped'
    BY <1>2 DEF TInv, MessagesTyped, Messaged, LocksTyped, Setups, Rmws
  <1>5. OthersTyped'
    BY <1>2, SessionIngestAssumption DEF TInv, OthersTyped
  <1>6. \A w \in Writer : Ready(w)'
    BY <1>2 DEF TInv, Ready
  <1> QED
    BY <1>3, <1>4, <1>5, <1>6 DEF TInv

(* A call that is idle is ready with a context that is fresh.              *)
LEMMA FreshIsReady ==
  ASSUME NEW w \in Writer, call[w] = Idle, ctx[w] = FreshContext
  PROVE  Ready(w)
  <1>1. call[w].at = "idle" /\ call[w].attempts = 0
    BY DEF Idle
  <1>2. ctx[w].session = None /\ ctx[w].known = <<>> /\ DOMAIN ctx[w].known = {}
    BY DEF FreshContext
  <1>3. 0 \in 0..MaxAttempts
    BY SessionIngestAssumption
  <1>4. "idle" \notin Settling \cup Settled
    BY DEF Settling, Settled
  <1> QED
    BY <1>1, <1>2, <1>3, <1>4 DEF Ready

LEMMA CrashIsTyped ==
  ASSUME TInv, Crash
  PROVE  TInv'
  <1>1. RowsTyped' /\ MessagesTyped'
    BY DEF Crash, store, TInv, RowsTyped, MessagesTyped, Messaged
  <1>2. LocksTyped'
    BY DEF Crash, LocksTyped, Setups, Rmws
  <1>3. OthersTyped'
    BY SessionIngestAssumption DEF Crash, TInv, OthersTyped
  <1>4. ASSUME NEW w \in Writer PROVE Ready(w)'
    <2>1. call'[w] = Idle /\ ctx'[w] = FreshContext
      BY DEF Crash
    <2>2. call'[w].at = "idle" /\ call'[w].attempts = 0
      BY <2>1 DEF Idle
    <2>3. ctx'[w].session = None /\ ctx'[w].known = <<>> /\ DOMAIN ctx'[w].known = {}
      BY <2>1 DEF FreshContext
    <2>4. 0 \in 0..MaxAttempts
      BY SessionIngestAssumption
    <2>5. "idle" \notin Settling \cup Settled
      BY DEF Settling, Settled
    <2> QED
      BY <2>2, <2>3, <2>4, <2>5 DEF Ready
  <1> QED
    BY <1>1, <1>2, <1>3, <1>4 DEF TInv

LEMMA TypesInit == Init => TInv
  <1> SUFFICES ASSUME Init PROVE TInv
    OBVIOUS
  <1>1. RowsTyped
    BY DEF Init, RowsTyped
  <1>2. MessagesTyped
    <2>1. DOMAIN message = {}
      BY DEF Init
    <2> QED
      BY <2>1 DEF MessagesTyped
  <1>3. LocksTyped
    BY DEF Init, LocksTyped
  <1>4. OthersTyped
    BY SessionIngestAssumption DEF Init, OthersTyped
  <1>5. \A w \in Writer : Ready(w)
    BY FreshIsReady DEF Init
  <1> QED
    BY <1>1, <1>2, <1>3, <1>4, <1>5 DEF TInv

LEMMA TypesStep == IInv /\ SInv /\ TInv /\ [Next]_vars => TInv'
  <1> SUFFICES ASSUME IInv, SInv, TInv, [Next]_vars PROVE TInv'
    OBVIOUS
  <1>1. CASE UNCHANGED vars
    <2>1. UNCHANGED <<rows, gone, unguarded, message, ctx, call, setupLocks, rmwLocks, document,
                      link, calls, deletions, crashes>>
      BY <1>1 DEF vars, store, locks, bounds
    <2>2. RowsTyped' /\ MessagesTyped' /\ LocksTyped' /\ OthersTyped'
      BY <2>1 DEF TInv, RowsTyped, MessagesTyped, Messaged, LocksTyped, OthersTyped, Setups, Rmws
    <2>3. \A w \in Writer : Ready(w)'
      BY <2>1 DEF TInv, Ready
    <2> QED
      BY <2>2, <2>3 DEF TInv
  <1> QED
    BY <1>1, WriterIsTyped, DocumentIsTyped, LinkerIsTyped, DeleteIsTyped, CrashIsTyped DEF Next

(* What remains of the types follows from the other invariants.            *)
LEMMA TypesFollow ==
  ASSUME IInv, SInv, ChainInv, TInv
  PROVE  TypeOK
  <1>1. RowsTyped /\ MessagesTyped /\ LocksTyped /\ OthersTyped /\ \A w \in Writer : Ready(w)
    BY DEF TInv
  <1>2. next \subseteq Messages \X Messages
    BY MessagesAreAlive DEF ChainInv, Forwards
  <1>3. ASSUME NEW r \in DOMAIN frequency PROVE r[1] \in Entity /\ frequency[r] \in Nat
    <2>1. IsFiniteSet(Naming(r[1]))
      <3>1. Naming(r[1]) \subseteq DOMAIN message /\ IsFiniteSet(DOMAIN message)
        BY DEF SInv, CountInv, Naming
      <3> QED
        BY <3>1, FS_Subset
    <2>2. Cardinality(Naming(r[1])) \in Nat
      BY <2>1, FS_CardinalityType
    <2> QED
      BY <2>2 DEF SInv, CountInv
  <1>4. ASSUME NEW w \in Writer PROVE ctx[w].head \in Row \cup {None}
    BY <1>1 DEF IInv, HeadIsRecorded, SInv, CountInv, RowsTyped
  <1>5. ASSUME NEW w \in Writer
        PROVE  /\ ctx[w].session \in Row \cup {None}
               /\ \A p \in DOMAIN ctx[w].known : ctx[w].known[p] \in Row
               /\ call[w].at \in {"idle", "probe", "setup", "session", "sender", "find sender",
                                  "merge sender", "link", "recipients", "find recipient",
                                  "merge recipient", "lock", "write"}
               /\ call[w].attempts \in 0..MaxAttempts
    BY <1>1 DEF Ready, Settling, Settled
  <1>6. <<calls, deletions, crashes>> \in (0..MaxCalls) \X (0..MaxDeletions) \X (0..MaxCrashes)
    BY <1>1 DEF OthersTyped
  <1>7. \A r \in DOMAIN message :
          message[r] \in [session : Row, sender : Row, prev : Row \cup {None}, before : SUBSET Row]
    BY <1>1 DEF MessagesTyped, Messaged
  <1>8. rows \subseteq Row /\ gone \subseteq Row /\ unguarded \subseteq Row /\ rows \cap gone = {}
    BY <1>1 DEF RowsTyped
  <1>9. /\ setupLocks \in [Setups -> Writer \cup {None}]
        /\ rmwLocks \in [Rmws -> Writer \cup Linker \cup {None}]
        /\ document \in [Document -> {"new", "absent", "done"}]
        /\ link \in [Linker -> {"new", "absent", "done"}]
    BY <1>1 DEF LocksTyped, OthersTyped
  <1> QED
    BY <1>2, <1>3, <1>4, <1>5, <1>6, <1>7, <1>8, <1>9 DEF TypeOK

(* Every variable keeps its type.  That a turn is committed in a session   *)
(* and by a sender is the point of P2: both are in the context before the  *)
(* transaction begins, whatever was skipped as known from earlier turns.   *)
THEOREM TypeCorrect == Spec => []TypeOK
  <1> QED
    BY InitInvariant, StepInvariant, StoreInit, StoreStep, ChainInit, ChainStep,
       TypesInit, TypesStep, TypesFollow, PTL DEF Spec
=============================================================================
