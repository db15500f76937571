------------------------ MODULE ArtifactStoreProofs ------------------------
(***************************************************************************)
(* Theorems of ArtifactStore, for any calls, units, hashes, stripes and    *)
(* numbers of attempts: the invariants of the store, under interleaved     *)
(* ingests, deletions, retirements and recalls.                            *)
(*                                                                         *)
(* IInv says what a transaction may rely on.  Rows name the call that made *)
(* them, so a row is not in the store before its call is done (Settled).   *)
(* A transaction holds the stripes of its unit from its snapshot to its end*)
(* (StripesHeld), so nobody else creates a row of its bytes (Fresh); what  *)
(* it did not lock it has read, and a commit finds it unchanged            *)
(* (ArtifactsInTx).  A row that a snapshot shows is gone, or the same row, *)
(* superseded at most (Snapshot).  A deletion takes no lock, so InDeletion *)
(* says what can have happened since it read the store, and InRecall what  *)
(* a recall may still find after each of its reads.                        *)
(*                                                                         *)
(* OrderInv says that a call holds the lowest of the stripes it wants, so  *)
(* that no calls wait for each other in a circle.                          *)
(***************************************************************************)
EXTENDS ArtifactStore, FiniteSetTheorems, WellFoundedInduction, TLAPS

-----------------------------------------------------------------------------
(* Types.  A row's chunks carry its revision, and only a row of a revision *)
(* can be superseded.                                                      *)
Coherent(x) ==
  /\ x.revision # None => x.chunk.revision = x.revision
  /\ ~x.current => x.revision # None

ArtifactRow ==
  [name : Name \cup {None}, hash : Hash, content : Row, current : BOOLEAN,
   source : Source \cup {None}, revision : Revision \cup {None},
   chunk : [source : Source \cup {None}, revision : Revision \cup {None}]]
SourceRow == [name : Source, retired : BOOLEAN, seen : Row]

IsTable(f, T) == DOMAIN f \subseteq Row /\ f \in [DOMAIN f -> T]

IsStore(g) ==
  /\ DOMAIN g = {"artifact", "content", "source", "attached"}
  /\ IsTable(g.artifact, ArtifactRow)
  /\ \A r \in DOMAIN g.artifact : Coherent(g.artifact[r])
  /\ IsTable(g.content, Hash)
  /\ IsTable(g.source, SourceRow)
  /\ g.attached \subseteq Row \X Session

(* A call: its bytes are in the blob store once they are prepared.         *)
CallOK(t) ==
  /\ DOMAIN t = {"at", "unit", "next", "attempts", "snap", "tx", "read", "seen"}
  /\ t.at \in {"idle", "prepare", "tx", "done", "conflict", "failed"}
  /\ t.unit \in Seq(Attachment)
  /\ t.next \in Nat \ {0}
  /\ t.attempts \in 0..MaxAttempts
  /\ t.at = "idle" => t.attempts = 0 /\ t.next = 1
  /\ t.at = "prepare" => t.attempts < MaxAttempts
  /\ IsStore(t.snap) /\ IsStore(t.tx)
  /\ \A k \in DOMAIN t.seen : t.seen[k].row \in Row
  /\ \A i \in DOMAIN t.unit :
       t.at = "tx" \/ (t.at = "prepare" /\ i < t.next) => t.unit[i].hash \in objects

Types ==
  /\ IsStore(graph)
  /\ graph.attached \subseteq (DOMAIN graph.artifact) \X sessions
  /\ sessions \subseteq Session
  /\ objects \subseteq Hash
  /\ DOMAIN call = Call
  /\ \A c \in Call : CallOK(call[c])
  /\ locks \in [Stripes -> Call \cup {None}]
  /\ retirements \in 0..MaxRetirements
  /\ DOMAIN deletion = Deletion
  /\ DOMAIN recall = Recaller
-----------------------------------------------------------------------------
(* A row of the store was made by a call that is done.                     *)
Settled(r) == r \in Row /\ call[r[1]].at = "done"

(* A row of the attempt a call is in.                                      *)
Own(c, r) == r \in Row /\ r[1] = c /\ r[2] < call[c].next

Guarded(c, h) == Stripe[h] \in Wanted(c)
StripesHeld == \A c \in Call : At(c, "tx") => Wanted(c) \subseteq HeldBy(c)

OnePer(f) == \A k, l \in DOMAIN f : f[k] = f[l] => k = l
UnnamedOnce(f) ==
  \A r, s \in DOMAIN f :
    f[r].name = None /\ f[s].name = None /\ f[r].hash = f[s].hash => r = s

(* Two revisions of one source.                                            *)
Rivals(x, y) ==
  /\ x.source = y.source /\ x.source # None
  /\ x.revision # y.revision /\ None \notin {x.revision, y.revision}

(* What becomes of a row as long as it is there.                           *)
Older(x, y) == y = x \/ (y = [x EXCEPT !.current = FALSE] /\ x.revision # None)

Snapshot(g) ==
  /\ \A r \in DOMAIN g.artifact : Settled(r) /\ Settled(g.artifact[r].content)
  /\ \A k \in DOMAIN g.content : Settled(k)
  /\ \A r \in DOMAIN g.artifact \cap DOMAIN graph.artifact :
       Older(g.artifact[r], graph.artifact[r])

(* The hashes a call guards have no row that its snapshot does not have.   *)
Fresh(c) ==
  /\ \A k \in DOMAIN graph.content :
       Guarded(c, graph.content[k]) =>
         k \in DOMAIN call[c].snap.content /\ call[c].snap.content[k] = graph.content[k]
  /\ \A r \in DOMAIN graph.artifact :
       Guarded(c, graph.artifact[r].hash) => r \in DOMAIN call[c].snap.artifact

ContentsInTx(c, t) ==
  /\ DOMAIN t.snap.content \subseteq DOMAIN t.tx.content
  /\ \A k \in DOMAIN t.snap.content : t.tx.content[k] = t.snap.content[k]
  /\ \A k \in DOMAIN t.tx.content \ DOMAIN t.snap.content :
       /\ Own(c, k) /\ Guarded(c, t.tx.content[k])
       /\ \E r \in New(t) : t.tx.artifact[r].content = k
  /\ OnePer(t.tx.content)

NewArtifact(c, t, r) ==
  LET x == t.tx.artifact[r]
  IN /\ Own(c, r) /\ Guarded(c, x.hash) /\ x.hash \in objects
     /\ x.content \in DOMAIN t.tx.content /\ t.tx.content[x.content] = x.hash
     /\ x.content \in DOMAIN t.snap.content => <<"content", x.content>> \in t.read

ArtifactsInTx(c, t) ==
  /\ DOMAIN t.snap.artifact \subseteq DOMAIN t.tx.artifact
  /\ \A r \in DOMAIN t.snap.artifact :
       \/ t.tx.artifact[r] = t.snap.artifact[r]
       \/ <<"artifact", r>> \in t.read /\ Older(t.snap.artifact[r], t.tx.artifact[r])
  /\ \A r \in New(t) : NewArtifact(c, t, r)
  /\ UnnamedOnce(t.tx.artifact)
  /\ \A s \in New(t), r \in DOMAIN t.tx.artifact :
       Rivals(t.tx.artifact[r], t.tx.artifact[s]) =>
         ~t.tx.artifact[r].current \/ ~t.tx.artifact[s].current

InTransaction(c) ==
  At(c, "tx") => /\ Snapshot(call[c].snap) /\ Fresh(c)
                 /\ ContentsInTx(c, call[c]) /\ ArtifactsInTx(c, call[c])
Transactions == \A c \in Call : InTransaction(c)

StoreInv ==
  /\ \A r \in DOMAIN graph.artifact :
       /\ Settled(r) /\ Settled(graph.artifact[r].content)
       /\ r \in DOMAIN before /\ graph.artifact[r].hash \in objects
  /\ \A k \in DOMAIN graph.content : Settled(k)
  /\ \A s \in DOMAIN before : \A r \in before[s] : Settled(r)
  /\ OneContentPerHash /\ OneUnnamedPerHash
  /\ ContentKept /\ NothingStranded /\ OneCurrentRevision

LoneDeletion(t) ==
  \E r \in DOMAIN t.snap.artifact :
    /\ t.artifacts = {r}
    /\ LET k == t.snap.artifact[r].content
       IN k \in DOMAIN graph.content \ (t.contents \cup stranded) => Referrers(k) \ {r} # {}

InDeletion(t) ==
  t.at = "begun" =>
    /\ IsStore(t.snap) /\ Snapshot(t.snap)
    /\ t.artifacts \subseteq DOMAIN t.snap.artifact
    /\ \A r \in t.artifacts : <<"artifact", r>> \in t.read
    /\ \A k \in t.contents : Referrers(k) \subseteq t.artifacts \cup raced
    /\ t.session = None => LoneDeletion(t)
Deletions == \A d \in Deletion : InDeletion(deletion[d])

InRecall(q) ==
  LET stale == recall[q].stale
  IN /\ DOMAIN recall[q] = DOMAIN IdleRecall
     /\ \A r \in stale : Settled(r)
     /\ recall[q].at = "retired" =>
          \A r \in stale \cap DOMAIN graph.artifact :
            ~graph.artifact[r].current \/ graph.artifact[r].chunk.source \in recall[q].retired
     /\ recall[q].at = "excluded" =>
          \A r \in stale \cap DOMAIN graph.artifact : ~NotExcluded(q, r)
     /\ recall[q].at = "search" =>
          /\ recall[q].allow \cap stale = {}
          /\ ~Restricted(q) => stale \cap DOMAIN graph.artifact = {}
     /\ recall[q].result \cap stale = {}
RecallsInv == \A q \in Recaller : InRecall(q)

IInv == Types /\ StripesHeld /\ StoreInv /\ Transactions /\ Deletions /\ RecallsInv
-----------------------------------------------------------------------------
(* A table with one more row.                                              *)
LEMMA WithTable ==
  ASSUME NEW T, NEW f, IsTable(f, T), NEW r \in Row, NEW x \in T
  PROVE  /\ IsTable(With(f, r, x), T)
         /\ DOMAIN With(f, r, x) = DOMAIN f \cup {r}
         /\ With(f, r, x)[r] = x
         /\ \A s \in DOMAIN f : s # r => With(f, r, x)[s] = f[s]
PROOF
  BY DEF With, IsTable

(* A table with fewer rows.                                                *)
LEMMA MinusTable ==
  ASSUME NEW T, NEW f, IsTable(f, T), NEW gone
  PROVE  /\ IsTable(Minus(f, gone), T)
         /\ DOMAIN Minus(f, gone) = DOMAIN f \ gone
         /\ \A s \in DOMAIN f \ gone : Minus(f, gone)[s] = f[s]
PROOF
  BY DEF Minus, IsTable

(* The empty store is a store.                                             *)
LEMMA EmptyStore == IsStore(EmptyGraph)
PROOF
  <1>1. DOMAIN <<>> = {}
    OBVIOUS
  <1>2. \A T : IsTable(<<>>, T)
    BY <1>1 DEF IsTable
  <1> QED
    BY <1>1, <1>2 DEF IsStore, EmptyGraph

(* A task that does nothing is well typed.                                 *)
LEMMA IdleOK ==
  /\ CallOK(Idle)
  /\ \A how \in {"done", "conflict", "failed"}, u \in Seq(Attachment) :
       CallOK([Idle EXCEPT !.at = how, !.unit = u])
PROOF
  <1>1. DOMAIN <<>> = {} /\ <<>> \in Seq(Attachment)
    OBVIOUS
  <1>2. MaxAttempts \in Nat \ {0}
    BY ArtifactStoreAssumption
  <1>3. DOMAIN Idle = {"at", "unit", "next", "attempts", "snap", "tx", "read", "seen"}
    BY DEF Idle
  <1>4. CallOK(Idle)
    BY <1>1, <1>2, <1>3, EmptyStore DEF CallOK, Idle
  <1>5. ASSUME NEW how \in {"done", "conflict", "failed"}, NEW u \in Seq(Attachment)
        PROVE  CallOK([Idle EXCEPT !.at = how, !.unit = u])
    <2> DEFINE t == [Idle EXCEPT !.at = how, !.unit = u]
    <2>1. DOMAIN t = DOMAIN Idle /\ t.at = how /\ t.unit = u
      BY <1>3
    <2>2. /\ t.next = 1 /\ t.attempts = 0 /\ t.snap = EmptyGraph /\ t.tx = EmptyGraph
          /\ t.seen = <<>>
      BY <1>3 DEF Idle
    <2> HIDE DEF t
    <2>3. IsStore(t.snap) /\ IsStore(t.tx) /\ DOMAIN t.seen = {}
      BY <1>1, <2>2, EmptyStore
    <2>4. t.attempts \in 0..MaxAttempts /\ t.next \in Nat \ {0}
      BY <1>2, <2>2
    <2>5. t.at \in {"done", "conflict", "failed"} /\ t.at \notin {"idle", "prepare", "tx"}
      BY <2>1
    <2>6. \A k \in DOMAIN t.seen : t.seen[k].row \in Row
      BY <2>3
    <2>7. CallOK(t)
      BY <1>3, <2>1, <2>3, <2>4, <2>5, <2>6 DEF CallOK
    <2> QED
      BY <2>7 DEF t
  <1> QED
    BY <1>4, <1>5

(* Nothing is stored, and no task has begun.                               *)
LEMMA InitIInv ==
  ASSUME Init
  PROVE  IInv
PROOF
  <1> USE DEF Init
  <1>1. DOMAIN <<>> = {}
    OBVIOUS
  <1>2. /\ DOMAIN graph.artifact = {} /\ DOMAIN graph.content = {} /\ DOMAIN before = {}
        /\ graph.attached = {}
    BY <1>1 DEF EmptyGraph
  <1>3. \A c \in Call : call[c] = Idle /\ ~At(c, "tx")
    BY DEF Idle, At
  <1>4. Types
    <2>1. locks \in [Stripes -> Call \cup {None}]
      OBVIOUS
    <2>2. retirements \in 0..MaxRetirements
      BY ArtifactStoreAssumption
    <2> QED
      BY <1>2, <1>3, <2>1, <2>2, EmptyStore, IdleOK DEF Types
  <1>5. StoreInv
    BY <1>2 DEF StoreInv, OneContentPerHash, OneUnnamedPerHash, ContentKept, NothingStranded,
      OneCurrentRevision
  <1>6. StripesHeld /\ Transactions
    BY <1>3 DEF StripesHeld, Transactions, InTransaction
  <1>7. Deletions
    BY DEF Deletions, InDeletion, IdleDeletion
  <1>8. RecallsInv
    BY DEF RecallsInv, InRecall, IdleRecall
  <1> QED
    BY <1>4, <1>5, <1>6, <1>7, <1>8 DEF IInv

(* A step inside a call: the store stays as it is, and so do other calls.  *)
LEMMA CallSteps ==
  ASSUME IInv, NEW c \in Call,
         UNCHANGED <<graph, before, others, raced, stranded>>,
         DOMAIN call' = Call,
         \A b \in Call \ {c} : call'[b] = call[b],
         call[c].at # "done", call'[c].at # "done",
         CallOK(call[c])',
         objects \subseteq objects', objects' \subseteq Hash,
         sessions \subseteq sessions', sessions' \subseteq Session,
         locks' \in [Stripes -> Call \cup {None}],
         \A b \in Call \ {c} : HeldBy(b) \subseteq HeldBy(b)',
         At(c, "tx")' => Wanted(c)' \subseteq HeldBy(c)',
         InTransaction(c)'
  PROVE  IInv'
PROOF
  <1> USE DEF others
  <1>1. \A r : Settled(r)' <=> Settled(r)
    BY DEF Settled, Row
  <1>2. Types'
    <2>1. \A b \in Call \ {c} : CallOK(call[b])'
      BY DEF IInv, Types, CallOK
    <2> QED
      BY <2>1 DEF IInv, Types
  <1>3. StripesHeld'
    BY DEF IInv, StripesHeld, At, Wanted
  <1>4. StoreInv'
    BY <1>1 DEF IInv, StoreInv, OneContentPerHash, OneUnnamedPerHash, ContentKept,
      NothingStranded, OneCurrentRevision, Referrers
  <1>5. ASSUME NEW g, Snapshot(g)
        PROVE  Snapshot(g)'
    BY <1>1, <1>5 DEF Snapshot
  <1>6. Transactions'
    <2>1. SUFFICES ASSUME NEW b \in Call \ {c}
                   PROVE  InTransaction(b)'
      BY DEF Transactions
    <2>2. SUFFICES ASSUME At(b, "tx")
                   PROVE  Snapshot(call[b].snap)' /\ Fresh(b)' /\ ContentsInTx(b, call[b])'
                          /\ ArtifactsInTx(b, call[b])'
      BY DEF InTransaction, At
    <2>3. Snapshot(call[b].snap) /\ Fresh(b) /\ ContentsInTx(b, call[b]) /\ ArtifactsInTx(b, call[b])
      BY <2>2 DEF IInv, Transactions, InTransaction
    <2>4. \A h : Guarded(b, h)' <=> Guarded(b, h)
      BY DEF Guarded, Wanted
    <2>5. \A r : Own(b, r)' <=> Own(b, r)
      BY DEF Own
    <2>6. Snapshot(call[b].snap)'
      BY <1>5, <2>3
    <2>7. Fresh(b)'
      BY <2>3, <2>4 DEF Fresh
    <2>8. ContentsInTx(b, call[b])'
      BY <2>3, <2>4, <2>5 DEF ContentsInTx, New
    <2>9. ArtifactsInTx(b, call[b])'
      BY <2>3, <2>4, <2>5 DEF ArtifactsInTx, NewArtifact, New
    <2> QED
      BY <2>6, <2>7, <2>8, <2>9
  <1>7. Deletions'
    BY <1>5 DEF IInv, Deletions, InDeletion, LoneDeletion, Referrers
  <1>8. RecallsInv'
    BY <1>1 DEF IInv, RecallsInv, InRecall, NotExcluded, Restricted
  <1> QED
    BY <1>2, <1>3, <1>4, <1>6, <1>7, <1>8 DEF IInv

(* What an attachment of a unit is.                                        *)
LEMMA Attachments ==
  ASSUME IInv, NEW c \in Call, NEW i \in DOMAIN call[c].unit
  PROVE  /\ call[c].unit[i] \in Attachment
         /\ call[c].unit[i].hash \in Hash
         /\ Stripe[call[c].unit[i].hash] \in Wanted(c)
PROOF
  <1>1. call[c].unit \in Seq(Attachment)
    BY DEF IInv, Types, CallOK
  <1>2. call[c].unit[i] \in Attachment
    BY <1>1
  <1> QED
    BY <1>2 DEF Attachment, Wanted

(* What the transaction is at is prepared, and its stripe is held.         *)
LEMMA AttachedIs ==
  ASSUME IInv, NEW c \in Call, InTx(c)
  PROVE  /\ call[c].next \in DOMAIN call[c].unit
         /\ Attached(c) \in Attachment
         /\ Attached(c).hash \in Hash \cap objects
         /\ Guarded(c, Attached(c).hash)
PROOF
  <1>1. call[c].next \in DOMAIN call[c].unit
    BY DEF IInv, Types, CallOK, InTx, Prepared
  <1>2. call[c].unit[call[c].next].hash \in objects
    BY <1>1 DEF IInv, Types, CallOK, InTx, At
  <1> QED
    BY <1>1, <1>2, Attachments DEF Attached, Guarded

(* A call that ends without a commit leaves no trace but its session.      *)
LEMMA EndsStep ==
  ASSUME IInv, NEW c \in Call, NEW how \in {"conflict", "failed"}, Ends(c, how),
         call[c].at # "done",
         UNCHANGED <<graph, sessions, objects, before, others, raced, stranded>>
  PROVE  IInv'
PROOF
  <1>1. DOMAIN call' = Call /\ \A b \in Call \ {c} : call'[b] = call[b]
    BY DEF Ends, IInv, Types
  <1>2. call[c].unit \in Seq(Attachment)
    BY DEF IInv, Types, CallOK
  <1>3. PICK t : t = [Idle EXCEPT !.at = how, !.unit = call[c].unit]
    OBVIOUS
  <1>4. call'[c] = t
    BY <1>3 DEF Ends, IInv, Types
  <1>5. CallOK(t) /\ t.at = how
    BY <1>2, <1>3, IdleOK DEF Idle
  <1>6. CallOK(call[c])'
    BY <1>4, <1>5 DEF CallOK
  <1>7. locks' \in [Stripes -> Call \cup {None}] /\ \A b \in Call \ {c} : HeldBy(b)' = HeldBy(b)
    BY ArtifactStoreAssumption DEF IInv, Types, Ends, Released, HeldBy
  <1>8. ~At(c, "tx")' /\ InTransaction(c)' /\ call'[c].at # "done"
    BY <1>4, <1>5 DEF At, InTransaction
  <1>9. objects \subseteq Hash /\ sessions \subseteq Session
    BY DEF IInv, Types
  <1> QED
    BY <1>1, <1>6, <1>7, <1>8, <1>9, CallSteps

(* A call takes up a unit.                                                 *)
LEMMA BeginStep ==
  ASSUME IInv, NEW c \in Call, Begin(c)
  PROVE  IInv'
PROOF
  <1>1. PICK u \in Units[c] :
          /\ call' = [call EXCEPT ![c].at = "prepare", ![c].unit = u]
          /\ sessions' = sessions \cup ({u[i].session : i \in DOMAIN u} \ {None})
    BY DEF Begin
  <1>2. UNCHANGED <<graph, objects, before, locks, others, raced, stranded>> /\ call[c].at = "idle"
    BY DEF Begin, At
  <1>3. DOMAIN call' = Call /\ \A b \in Call \ {c} : call'[b] = call[b]
    BY <1>1 DEF IInv, Types
  <1>4. u \in Seq(Attachment)
    BY ArtifactStoreAssumption
  <1>5. CallOK(call[c])
    BY DEF IInv, Types
  <1>6. PICK t : t = [call[c] EXCEPT !.at = "prepare", !.unit = u]
    OBVIOUS
  <1>7. /\ t.at = "prepare" /\ t.unit = u /\ t.next = call[c].next /\ t.attempts = call[c].attempts
        /\ t.snap = call[c].snap /\ t.tx = call[c].tx /\ t.seen = call[c].seen
        /\ DOMAIN t = DOMAIN call[c]
    BY <1>5, <1>6 DEF CallOK
  <1>8. call'[c] = t
    BY <1>1, <1>6 DEF IInv, Types
  <1>9. sessions' \subseteq Session
    <2>1. \A i \in DOMAIN u : u[i] \in Attachment
      BY <1>4
    <2>2. \A i \in DOMAIN u : u[i].session \in Session \cup {None}
      BY <2>1 DEF Attachment
    <2> QED
      BY <1>1, <2>2 DEF IInv, Types
  <1>10. CallOK(call[c])'
    <2>1. t.attempts = 0 /\ t.next = 1 /\ 0 < MaxAttempts /\ MaxAttempts \in Nat
      BY <1>2, <1>5, <1>7, ArtifactStoreAssumption DEF CallOK
    <2>2. \A i \in DOMAIN t.unit : ~(i < t.next)
      BY <1>4, <1>7, <2>1
    <2> QED
      BY <1>2, <1>4, <1>5, <1>7, <1>8, <2>1, <2>2 DEF CallOK
  <1>11. objects \subseteq Hash /\ locks \in [Stripes -> Call \cup {None}]
    BY DEF IInv, Types
  <1>12. ~At(c, "tx")' /\ InTransaction(c)' /\ call'[c].at # "done"
    BY <1>7, <1>8 DEF At, InTransaction
  <1>13. sessions \subseteq sessions'
    BY <1>1
  <1>14. \A b \in Call : HeldBy(b) \subseteq HeldBy(b)'
    BY <1>2 DEF HeldBy
  <1> QED
    BY <1>2, <1>3, <1>9, <1>10, <1>11, <1>12, <1>13, <1>14, CallSteps

(* The bytes of one attachment go to the blob store.                       *)
LEMMA PrepareStep ==
  ASSUME IInv, NEW c \in Call, Prepare(c)
  PROVE  IInv'
PROOF
  <1>1. /\ objects' = objects \cup {Attached(c).hash}
        /\ call' = [call EXCEPT ![c].next = @ + 1]
        /\ UNCHANGED <<graph, sessions, before, locks, others, raced, stranded>>
        /\ call[c].at = "prepare" /\ ~Prepared(c)
    BY DEF Prepare, At
  <1>2. CallOK(call[c])
    BY DEF IInv, Types
  <1>3. DOMAIN call' = Call /\ \A b \in Call \ {c} : call'[b] = call[b]
    BY <1>1 DEF IInv, Types
  <1>4. PICK t : t = [call[c] EXCEPT !.next = @ + 1]
    OBVIOUS
  <1>5. /\ t.at = "prepare" /\ t.unit = call[c].unit /\ t.next = call[c].next + 1
        /\ t.attempts = call[c].attempts /\ t.snap = call[c].snap /\ t.tx = call[c].tx
        /\ t.seen = call[c].seen /\ DOMAIN t = DOMAIN call[c]
    BY <1>1, <1>2, <1>4 DEF CallOK
  <1>6. call'[c] = t
    BY <1>1, <1>4 DEF IInv, Types
  <1>7. call[c].next \in DOMAIN call[c].unit
    BY <1>1, <1>2 DEF CallOK, Prepared
  <1>8. Attached(c).hash \in Hash
    BY <1>7, Attachments DEF Attached
  <1>9. CallOK(call[c])'
    <2>1. \A i \in DOMAIN t.unit : i < t.next => t.unit[i].hash \in objects'
      <3> SUFFICES ASSUME NEW i \in DOMAIN call[c].unit, i < call[c].next + 1
                   PROVE  call[c].unit[i].hash \in objects'
        BY <1>5
      <3>1. i \in Nat /\ call[c].next \in Nat
        BY <1>2 DEF CallOK
      <3>2. CASE i = call[c].next
        BY <1>1, <3>2 DEF Attached
      <3>3. CASE i < call[c].next
        BY <1>1, <1>2, <3>3 DEF CallOK
      <3> QED
        BY <3>1, <3>2, <3>3
    <2> QED
      BY <1>1, <1>2, <1>5, <1>6, <2>1 DEF CallOK
  <1>10. objects' \subseteq Hash /\ objects \subseteq objects' /\ sessions \subseteq Session
         /\ locks \in [Stripes -> Call \cup {None}]
    BY <1>1, <1>8 DEF IInv, Types
  <1>11. ~At(c, "tx")' /\ InTransaction(c)' /\ call'[c].at # "done"
    BY <1>5, <1>6 DEF At, InTransaction
  <1>12. \A b \in Call : HeldBy(b) \subseteq HeldBy(b)'
    BY <1>1 DEF HeldBy
  <1> QED
    BY <1>1, <1>3, <1>9, <1>10, <1>11, <1>12, CallSteps

(* One more stripe, which was free.                                        *)
LEMMA LockStep ==
  ASSUME IInv, NEW c \in Call, Lock(c)
  PROVE  IInv'
PROOF
  <1>1. PICK s : locks[s] = None /\ locks' = [locks EXCEPT ![s] = c]
    BY DEF Lock
  <1>2. UNCHANGED <<graph, sessions, objects, before, call, others, raced, stranded>>
        /\ call[c].at = "prepare"
    BY DEF Lock, At
  <1>3. locks' \in [Stripes -> Call \cup {None}]
    BY <1>1 DEF IInv, Types
  <1>4. \A b \in Call \ {c} : HeldBy(b) \subseteq HeldBy(b)'
    BY <1>1, ArtifactStoreAssumption DEF IInv, Types, HeldBy
  <1>5. CallOK(call[c])' /\ DOMAIN call = Call
    BY <1>2 DEF IInv, Types, CallOK
  <1>6. objects \subseteq Hash /\ sessions \subseteq Session
    BY DEF IInv, Types
  <1>7. ~At(c, "tx")' /\ InTransaction(c)' /\ call'[c].at # "done" /\ call[c].at # "done"
    BY <1>2 DEF At, InTransaction
  <1> QED
    BY <1>2, <1>3, <1>4, <1>5, <1>6, <1>7, CallSteps

(* A transaction opens on the store as it is, with every lock it wants.    *)
LEMMA BeginTxStep ==
  ASSUME IInv, NEW c \in Call, BeginTx(c)
  PROVE  IInv'
PROOF
  <1>1. /\ HeldBy(c) = Wanted(c)
        /\ UNCHANGED <<graph, sessions, objects, before, locks, others, raced, stranded>>
        /\ call[c].at = "prepare" /\ Prepared(c)
    BY DEF BeginTx, At
  <1>2. CallOK(call[c])
    BY DEF IInv, Types
  <1>3. PICK t : t = call'[c]
    OBVIOUS
  <1>4. /\ t.at = "tx" /\ t.unit = call[c].unit /\ t.next = 1
        /\ t.attempts = call[c].attempts + 1 /\ t.snap = graph /\ t.tx = graph
        /\ t.read = {} /\ t.seen = <<>> /\ DOMAIN t = DOMAIN call[c]
    BY <1>2, <1>3 DEF CallOK, BeginTx, IInv, Types
  <1>6. call'[c] = t /\ DOMAIN call' = Call /\ \A b \in Call \ {c} : call'[b] = call[b]
    BY <1>3 DEF IInv, Types, BeginTx
  <1>7. CallOK(call[c])'
    <2>1. t.attempts \in 0..MaxAttempts
      BY <1>1, <1>2, <1>4, ArtifactStoreAssumption DEF CallOK
    <2>2. \A i \in DOMAIN t.unit : t.unit[i].hash \in objects'
      <3> SUFFICES ASSUME NEW i \in DOMAIN call[c].unit
                   PROVE  call[c].unit[i].hash \in objects
        BY <1>1, <1>4
      <3>1. i < call[c].next
        BY <1>1, <1>2 DEF CallOK, Prepared
      <3> QED
        BY <1>1, <1>2, <3>1 DEF CallOK
    <2>3. DOMAIN t.seen = {} /\ IsStore(graph)
      BY <1>4 DEF IInv, Types
    <2> QED
      BY <1>2, <1>4, <1>6, <2>1, <2>2, <2>3 DEF CallOK
  <1>8. InTransaction(c)'
    <2>1. \A r : Settled(r)' <=> Settled(r)
      BY <1>1, <1>4, <1>6 DEF Settled, Row
    <2>2. Snapshot(graph)'
      BY <1>1, <2>1 DEF IInv, StoreInv, Snapshot, Older
    <2>3. Fresh(c)'
      BY <1>1, <1>4, <1>6 DEF Fresh
    <2>4. New(t) = {}
      BY <1>4 DEF New
    <2>5. ContentsInTx(c, t)'
      BY <1>1, <1>4, <2>4 DEF ContentsInTx, IInv, StoreInv, OneContentPerHash, OnePer
    <2>6. UnnamedOnce(graph.artifact)
      BY DEF IInv, StoreInv, OneUnnamedPerHash, UnnamedOnce
    <2>7. ArtifactsInTx(c, t)'
      BY <1>1, <1>4, <2>4, <2>6 DEF ArtifactsInTx
    <2> QED
      BY <1>1, <1>4, <1>6, <2>2, <2>3, <2>5, <2>7 DEF InTransaction
  <1>9. Wanted(c)' \subseteq HeldBy(c)' /\ \A b \in Call : HeldBy(b) \subseteq HeldBy(b)'
    BY <1>1, <1>4, <1>6 DEF Wanted, HeldBy
  <1>10. objects \subseteq Hash /\ sessions \subseteq Session
         /\ locks \in [Stripes -> Call \cup {None}]
    BY DEF IInv, Types
  <1>11. call'[c].at # "done" /\ call[c].at # "done"
    BY <1>1, <1>4, <1>6
  <1> QED
    BY <1>1, <1>6, <1>7, <1>8, <1>9, <1>10, <1>11, CallSteps

(* A conflict: the call starts again, with its locks.                      *)
LEMMA ConflictStep ==
  ASSUME IInv, NEW c \in Call, Conflict(c)
  PROVE  IInv'
PROOF
  <1>1. /\ UNCHANGED <<graph, sessions, objects, before, locks, others, raced, stranded>>
        /\ call[c].at = "tx" /\ call[c].attempts < MaxAttempts
    BY DEF Conflict, At
  <1>2. CallOK(call[c])
    BY DEF IInv, Types
  <1>3. PICK t : t = [Idle EXCEPT !.at = "prepare", !.unit = call[c].unit,
                                  !.next = Len(call[c].unit) + 1,
                                  !.attempts = call[c].attempts]
    OBVIOUS
  <1>4. /\ t.at = "prepare" /\ t.unit = call[c].unit /\ t.next = Len(call[c].unit) + 1
        /\ t.attempts = call[c].attempts /\ t.snap = EmptyGraph /\ t.tx = EmptyGraph
        /\ t.seen = <<>> /\ DOMAIN t = DOMAIN Idle
    BY <1>3 DEF Idle
  <1>5. call' = [call EXCEPT ![c] = t]
    BY <1>3 DEF Conflict
  <1>6. call'[c] = t /\ DOMAIN call' = Call /\ \A b \in Call \ {c} : call'[b] = call[b]
    BY <1>5 DEF IInv, Types
  <1>7. CallOK(call[c])'
    <2>1. t.next \in Nat \ {0}
      BY <1>2, <1>4 DEF CallOK
    <2>2. DOMAIN t = DOMAIN call[c] /\ DOMAIN t.seen = {}
      BY <1>2, <1>4 DEF CallOK, Idle
    <2> QED
      BY <1>1, <1>2, <1>4, <1>6, <2>1, <2>2, EmptyStore DEF CallOK
  <1>8. InTransaction(c)' /\ ~At(c, "tx")' /\ call'[c].at # "done" /\ call[c].at # "done"
    BY <1>1, <1>4, <1>6 DEF InTransaction, At
  <1>9. \A b \in Call : HeldBy(b) \subseteq HeldBy(b)'
    BY <1>1 DEF HeldBy
  <1>10. objects \subseteq Hash /\ sessions \subseteq Session
         /\ locks \in [Stripes -> Call \cup {None}]
    BY DEF IInv, Types
  <1> QED
    BY <1>1, <1>6, <1>7, <1>8, <1>9, <1>10, CallSteps

(* A step of a transaction: one attachment further, in its own copy.       *)
LEMMA TxStep ==
  ASSUME IInv, NEW c \in Call, InTx(c), NEW t,
         call'[c] = t, DOMAIN call' = Call, \A b \in Call \ {c} : call'[b] = call[b],
         DOMAIN t = DOMAIN call[c], t.at = "tx", t.unit = call[c].unit, t.snap = call[c].snap,
         t.attempts = call[c].attempts, t.next = call[c].next + 1,
         IsStore(t.tx), \A k \in DOMAIN t.seen : t.seen[k].row \in Row,
         UNCHANGED <<graph, sessions, objects, before, locks, others, raced, stranded>>,
         ContentsInTx(c, t)', ArtifactsInTx(c, t)'
  PROVE  IInv'
PROOF
  <1>1. CallOK(call[c]) /\ call[c].at = "tx"
    BY DEF IInv, Types, InTx, At
  <1>2. CallOK(call[c])'
    <2>1. t.next \in Nat \ {0}
      BY <1>1 DEF CallOK
    <2>2. \A i \in DOMAIN t.unit : t.unit[i].hash \in objects'
      BY <1>1 DEF CallOK
    <2> QED
      BY <1>1, <2>1, <2>2 DEF CallOK
  <1>3. \A r : Settled(r)' <=> Settled(r)
    BY <1>1 DEF Settled, Row
  <1>4. Snapshot(call[c].snap) /\ Fresh(c)
    BY <1>1 DEF IInv, Transactions, InTransaction, At
  <1>5. Snapshot(t.snap)'
    BY <1>3, <1>4 DEF Snapshot
  <1>6. Fresh(c)'
    <2>1. graph' = graph /\ call'[c].snap = call[c].snap
      OBVIOUS
    <2>2. \A h : Guarded(c, h)' <=> Guarded(c, h)
      BY DEF Guarded, Wanted
    <2> QED
      BY <1>4, <2>1, <2>2 DEF Fresh
  <1>7. InTransaction(c)'
    BY <1>5, <1>6 DEF InTransaction
  <1>8. Wanted(c)' \subseteq HeldBy(c)' /\ \A b \in Call : HeldBy(b) \subseteq HeldBy(b)'
    BY <1>1 DEF IInv, StripesHeld, At, Wanted, HeldBy
  <1>9. objects \subseteq Hash /\ sessions \subseteq Session
        /\ locks \in [Stripes -> Call \cup {None}]
    BY DEF IInv, Types
  <1> QED
    BY <1>1, <1>2, <1>7, <1>8, <1>9, CallSteps

(* The edges of an attachment are edges of rows and sessions.              *)
LEMMA LinksAreEdges ==
  ASSUME IInv, NEW c \in Call, InTx(c), NEW r \in Row
  PROVE  Links(c, r) \subseteq Row \X Session
PROOF
  <1>1. call[c].tx.attached \subseteq Row \X Session
    BY DEF IInv, Types, CallOK, IsStore
  <1>2. sessions \subseteq Session
    BY DEF IInv, Types
  <1> QED
    BY <1>1, <1>2 DEF Links

(* An attachment that is there already changes no row.                     *)
LEMMA LinkedStep ==
  ASSUME IInv, NEW c \in Call, InTx(c), NEW r \in Row, NEW under, NEW matched,
         Linked(c, r, under, matched),
         UNCHANGED <<graph, sessions, objects, before, locks, others, raced, stranded>>
  PROVE  IInv'
PROOF
  <1>1. CallOK(call[c]) /\ call[c].at = "tx"
    BY DEF IInv, Types, InTx, At
  <1>2. PICK t : t = call'[c]
    OBVIOUS
  <1>3. PICK k : k = Identity(Attached(c))
    OBVIOUS
  <1>4. call' = [call EXCEPT ![c].next = @ + 1, ![c].tx.attached = Links(c, r),
                             ![c].read = @ \cup matched,
                             ![c].seen = With(@, k, [row |-> r, under |-> under])]
    BY <1>3 DEF Linked
  <1>5. DOMAIN call' = Call /\ \A b \in Call \ {c} : call'[b] = call[b]
    BY <1>4 DEF IInv, Types
  <1>6. /\ DOMAIN t = DOMAIN call[c] /\ t.at = "tx" /\ t.unit = call[c].unit
        /\ t.snap = call[c].snap /\ t.attempts = call[c].attempts /\ t.next = call[c].next + 1
        /\ t.read = call[c].read \cup matched
        /\ t.seen = With(call[c].seen, k, [row |-> r, under |-> under])
        /\ t.tx = [call[c].tx EXCEPT !.attached = Links(c, r)]
    BY <1>1, <1>2, <1>4 DEF CallOK, IInv, Types
  <1>7. /\ t.tx.artifact = call[c].tx.artifact /\ t.tx.content = call[c].tx.content
        /\ t.tx.source = call[c].tx.source /\ t.tx.attached = Links(c, r)
        /\ DOMAIN t.tx = DOMAIN call[c].tx
    BY <1>1, <1>6 DEF CallOK, IsStore
  <1>8. IsStore(t.tx)
    BY <1>1, <1>7, LinksAreEdges DEF CallOK, IsStore
  <1>9. \A i \in DOMAIN t.seen : t.seen[i].row \in Row
    BY <1>1, <1>6 DEF CallOK, With
  <1>10. ContentsInTx(c, call[c]) /\ ArtifactsInTx(c, call[c])
    BY <1>1 DEF IInv, Transactions, InTransaction, At
  <1>11. (\A h : Guarded(c, h)' <=> Guarded(c, h)) /\ New(t) = New(call[c])
    BY <1>2, <1>6, <1>7 DEF Guarded, Wanted, New
  <1>12. \A x : Own(c, x) => Own(c, x)'
    BY <1>1, <1>2, <1>6 DEF Own, Row, CallOK
  <1>13. ContentsInTx(c, t)'
    BY <1>6, <1>7, <1>10, <1>11, <1>12 DEF ContentsInTx
  <1>14. ArtifactsInTx(c, t)'
    <2>1. \A x \in New(t) : NewArtifact(c, t, x)'
      BY <1>6, <1>7, <1>10, <1>11, <1>12 DEF ArtifactsInTx, NewArtifact
    <2> QED
      BY <1>6, <1>7, <1>10, <1>11, <2>1 DEF ArtifactsInTx, New
  <1> QED
    BY <1>2, <1>5, <1>6, <1>8, <1>9, <1>13, <1>14, TxStep

(* The memo has the row of an attachment seen before in the transaction.   *)
LEMMA MemoHitStep ==
  ASSUME IInv, NEW c \in Call, MemoHit(c)
  PROVE  IInv'
PROOF
  <1>1. InTx(c) /\ Identity(Attached(c)) \in DOMAIN call[c].seen
    BY DEF MemoHit, Memo
  <1>2. call[c].seen[Identity(Attached(c))].row \in Row
    BY <1>1 DEF IInv, Types, CallOK
  <1> QED
    BY <1>1, <1>2, LinkedStep DEF MemoHit

(* The store has the row.                                                  *)
LEMMA DedupStep ==
  ASSUME IInv, NEW c \in Call, Dedup(c)
  PROVE  IInv'
PROOF
  <1>1. PICK r \in Matching(c) : Linked(c, r, Under(c, r), {<<"artifact", r>>})
    BY DEF Dedup
  <1>2. r \in DOMAIN call[c].tx.artifact
    BY DEF Matching
  <1>3. r \in Row
    BY <1>2 DEF IInv, Types, CallOK, IsStore, IsTable
  <1> QED
    BY <1>1, <1>3, LinkedStep DEF Dedup

NewRow(c) == <<c, call[c].next>>

(* The Artifacts of a transaction, those that one more revision supersedes *)
(* put back.                                                               *)
Kept(c) ==
  [r \in DOMAIN call[c].tx.artifact |->
     [call[c].tx.artifact[r] EXCEPT !.current = @ /\ r \notin Superseded(c)]]

(* Two ways to write that a row keeps its place or loses it.               *)
LEMMA Lowered ==
  ASSUME NEW x \in ArtifactRow, NEW b \in BOOLEAN
  PROVE  /\ [x EXCEPT !.current = @ /\ b] = IF b THEN x ELSE [x EXCEPT !.current = FALSE]
PROOF
  <1>1. x.current \in BOOLEAN
    BY DEF ArtifactRow
  <1>2. CASE b
    <2>1. (x.current /\ b) = x.current
      BY <1>1, <1>2
    <2> QED
      BY <1>2, <2>1 DEF ArtifactRow
  <1>3. CASE ~b
    BY <1>3
  <1> QED
    BY <1>2, <1>3

(* Superseding a row changes nothing else of it.                           *)
LEMMA LoweredIs ==
  ASSUME NEW x \in ArtifactRow
  PROVE  LET y == [x EXCEPT !.current = FALSE]
         IN /\ y \in ArtifactRow /\ y.current = FALSE
            /\ y.name = x.name /\ y.hash = x.hash /\ y.content = x.content
            /\ y.source = x.source /\ y.revision = x.revision /\ y.chunk = x.chunk
PROOF
  BY DEF ArtifactRow

(* What Kept does to a row.                                                *)
LEMMA KeptRows ==
  ASSUME IInv, NEW c \in Call, InTx(c)
  PROVE  /\ IsTable(Kept(c), ArtifactRow)
         /\ DOMAIN Kept(c) = DOMAIN call[c].tx.artifact
         /\ \A r \in DOMAIN Kept(c) :
              LET x == call[c].tx.artifact[r]
                  y == Kept(c)[r]
              IN /\ y = IF r \in Superseded(c) THEN [x EXCEPT !.current = FALSE] ELSE x
                 /\ y.name = x.name /\ y.hash = x.hash /\ y.content = x.content
                 /\ y.source = x.source /\ y.revision = x.revision /\ y.chunk = x.chunk
                 /\ y.current => x.current
                 /\ y.current => r \notin Superseded(c)
                 /\ Coherent(y)
PROOF
  <1>1. IsTable(call[c].tx.artifact, ArtifactRow)
        /\ \A r \in DOMAIN call[c].tx.artifact : Coherent(call[c].tx.artifact[r])
    BY DEF IInv, Types, CallOK, IsStore
  <1>2. DOMAIN Kept(c) = DOMAIN call[c].tx.artifact
    BY DEF Kept
  <1>3. ASSUME NEW r \in DOMAIN call[c].tx.artifact, NEW x, x = call[c].tx.artifact[r],
               NEW y, y = Kept(c)[r]
        PROVE  /\ y \in ArtifactRow
               /\ y = IF r \in Superseded(c) THEN [x EXCEPT !.current = FALSE] ELSE x
               /\ y.name = x.name /\ y.hash = x.hash /\ y.content = x.content
               /\ y.source = x.source /\ y.revision = x.revision /\ y.chunk = x.chunk
               /\ y.current => x.current
               /\ y.current => r \notin Superseded(c)
               /\ Coherent(y)
    <2>1. x \in ArtifactRow /\ Coherent(x)
      BY <1>1, <1>3 DEF IsTable
    <2>2. PICK b \in BOOLEAN : b <=> r \notin Superseded(c)
      OBVIOUS
    <2>3. y = [x EXCEPT !.current = @ /\ r \notin Superseded(c)]
      BY <1>3 DEF Kept
    <2>4. b = (r \notin Superseded(c))
      BY <2>2
    <2>5. y = [x EXCEPT !.current = @ /\ b]
      BY <2>3, <2>4
    <2>6. y = IF b THEN x ELSE [x EXCEPT !.current = FALSE]
      BY <2>1, <2>5, Lowered
    <2>7. CASE b
      BY <2>1, <2>2, <2>6, <2>7
    <2>8. CASE ~b
      <3>1. y = [x EXCEPT !.current = FALSE] /\ r \in Superseded(c)
        BY <2>2, <2>6, <2>8
      <3>2. x.revision # None
        BY <1>3, <3>1 DEF Superseded
      <3> QED
        BY <2>1, <3>1, <3>2, LoweredIs DEF Coherent
    <2> QED
      BY <2>7, <2>8
  <1>4. IsTable(Kept(c), ArtifactRow)
    <2>1. \A r \in DOMAIN call[c].tx.artifact : Kept(c)[r] \in ArtifactRow
      BY <1>3
    <2> QED
      BY <1>1, <2>1 DEF IsTable, Kept
  <1>5. ASSUME NEW r \in DOMAIN Kept(c)
        PROVE  LET x == call[c].tx.artifact[r]
                   y == Kept(c)[r]
               IN /\ y = IF r \in Superseded(c) THEN [x EXCEPT !.current = FALSE] ELSE x
                  /\ y.name = x.name /\ y.hash = x.hash /\ y.content = x.content
                  /\ y.source = x.source /\ y.revision = x.revision /\ y.chunk = x.chunk
                  /\ y.current => x.current
                  /\ y.current => r \notin Superseded(c)
                  /\ Coherent(y)
    <2>1. r \in DOMAIN call[c].tx.artifact
      BY <1>2
    <2> QED
      BY <1>3, <2>1
  <1> QED
    BY <1>2, <1>4, <1>5

(* The row of this attachment is none that the transaction has.            *)
LEMMA NewRowIsNew ==
  ASSUME IInv, NEW c \in Call, InTx(c)
  PROVE  /\ NewRow(c) \in Row
         /\ NewRow(c) \notin DOMAIN call[c].tx.artifact
         /\ NewRow(c) \notin DOMAIN call[c].tx.content
         /\ NewRow(c) \notin DOMAIN call[c].snap.artifact
         /\ NewRow(c) \notin DOMAIN call[c].snap.content
         /\ ~Settled(NewRow(c))
PROOF
  <1>1. CallOK(call[c]) /\ call[c].at = "tx"
    BY DEF IInv, Types, InTx, At
  <1>2. NewRow(c) \in Row /\ ~Settled(NewRow(c)) /\ ~Own(c, NewRow(c))
    BY <1>1 DEF NewRow, Row, CallOK, Settled, Own
  <1>3. Snapshot(call[c].snap) /\ ContentsInTx(c, call[c]) /\ ArtifactsInTx(c, call[c])
    BY <1>1 DEF IInv, Transactions, InTransaction, At
  <1> QED
    BY <1>2, <1>3 DEF Snapshot, ContentsInTx, ArtifactsInTx, NewArtifact, New

(* What Create does, field by field.                                       *)
LEMMA CreateParts ==
  ASSUME IInv, NEW c \in Call, Create(c)
  PROVE  \E k, s :
    LET a == Attached(c)
        t == call'[c]
    IN /\ k \in IF ContentRows(c) = {} THEN {NewRow(c)} ELSE ContentRows(c)
       /\ s \in IF SourceRows(c) = {} THEN {NewRow(c)} ELSE SourceRows(c)
       /\ DOMAIN t = DOMAIN call[c] /\ t.at = "tx" /\ t.unit = call[c].unit
       /\ t.snap = call[c].snap /\ t.attempts = call[c].attempts /\ t.next = call[c].next + 1
       /\ DOMAIN t.tx = DOMAIN call[c].tx
       /\ t.tx.artifact = With(Kept(c), NewRow(c), Created(a, k))
       /\ t.tx.content = IF ContentRows(c) = {} THEN With(call[c].tx.content, NewRow(c), a.hash)
                         ELSE call[c].tx.content
       /\ t.tx.source = IF SourceOf(a) # None
                        THEN With(call[c].tx.source, s, Seen(c, s, NewRow(c)))
                        ELSE call[c].tx.source
       /\ t.tx.attached = Links(c, NewRow(c))
       /\ call[c].read \subseteq t.read
       /\ {"artifact"} \X Superseded(c) \subseteq t.read
       /\ k # NewRow(c) => <<"content", k>> \in t.read
       /\ \E under : t.seen = With(call[c].seen, Identity(a), [row |-> NewRow(c), under |-> under])
       /\ DOMAIN call' = Call /\ \A b \in Call \ {c} : call'[b] = call[b]
PROOF
  <1>1. CallOK(call[c]) /\ call[c].at = "tx"
    BY DEF IInv, Types, Create, InTx, At
  <1>2. PICK k \in IF ContentRows(c) = {} THEN {NewRow(c)} ELSE ContentRows(c),
             s \in IF SourceRows(c) = {} THEN {NewRow(c)} ELSE SourceRows(c) :
          call' = [call EXCEPT
            ![c].next = @ + 1,
            ![c].tx = [artifact |-> With(Kept(c), NewRow(c), Created(Attached(c), k)),
                       content |-> IF ContentRows(c) = {}
                                   THEN With(call[c].tx.content, NewRow(c), Attached(c).hash)
                                   ELSE call[c].tx.content,
                       source |-> IF SourceOf(Attached(c)) # None
                                  THEN With(call[c].tx.source, s, Seen(c, s, NewRow(c)))
                                  ELSE call[c].tx.source,
                       attached |-> Links(c, NewRow(c))],
            ![c].read = @ \cup ({"artifact"} \X (Superseded(c) \cup SameRevision(c)))
                          \cup ({"content"} \X ({k} \ {NewRow(c)}))
                          \cup ({"source"} \X (IF SourceOf(Attached(c)) # None
                                               THEN {s} \ {NewRow(c)} ELSE {})),
            ![c].seen = With(@, Identity(Attached(c)),
                             [row |-> NewRow(c),
                              under |-> IF Attached(c).name # None THEN Attached(c).name
                                        ELSE NewRow(c)])]
    BY Zenon DEF Create, Kept, NewRow
  <1> DEFINE a == Attached(c)
  <1>3. PICK tx : tx = [artifact |-> With(Kept(c), NewRow(c), Created(a, k)),
                        content |-> IF ContentRows(c) = {}
                                    THEN With(call[c].tx.content, NewRow(c), a.hash)
                                    ELSE call[c].tx.content,
                        source |-> IF SourceOf(a) # None
                                   THEN With(call[c].tx.source, s, Seen(c, s, NewRow(c)))
                                   ELSE call[c].tx.source,
                        attached |-> Links(c, NewRow(c))]
    OBVIOUS
  <1>4. PICK read : read = call[c].read \cup ({"artifact"} \X (Superseded(c) \cup SameRevision(c)))
                             \cup ({"content"} \X ({k} \ {NewRow(c)}))
                             \cup ({"source"} \X (IF SourceOf(a) # None
                                                  THEN {s} \ {NewRow(c)} ELSE {}))
    OBVIOUS
  <1>5. PICK under : under = IF a.name # None THEN a.name ELSE NewRow(c)
    OBVIOUS
  <1>6. PICK seen : seen = With(call[c].seen, Identity(a), [row |-> NewRow(c), under |-> under])
    OBVIOUS
  <1>7. call' = [call EXCEPT ![c].next = @ + 1, ![c].tx = tx, ![c].read = read, ![c].seen = seen]
    BY <1>2, <1>3, <1>4, <1>5, <1>6, Zenon
  <1> HIDE DEF a
  <1>8. LET t == call'[c]
        IN /\ DOMAIN t = DOMAIN call[c] /\ t.at = "tx" /\ t.unit = call[c].unit
           /\ t.snap = call[c].snap /\ t.attempts = call[c].attempts /\ t.next = call[c].next + 1
           /\ t.tx = tx /\ t.read = read /\ t.seen = seen
    BY <1>1, <1>7 DEF CallOK, IInv, Types
  <1>9. DOMAIN tx = DOMAIN call[c].tx
    BY <1>1, <1>3 DEF CallOK, IsStore
  <1>10. /\ call[c].read \subseteq read
         /\ {"artifact"} \X Superseded(c) \subseteq read
         /\ k # NewRow(c) => <<"content", k>> \in read
    BY <1>4
  <1>11. /\ tx.artifact = With(Kept(c), NewRow(c), Created(a, k))
         /\ tx.content = IF ContentRows(c) = {} THEN With(call[c].tx.content, NewRow(c), a.hash)
                         ELSE call[c].tx.content
         /\ tx.source = IF SourceOf(a) # None
                        THEN With(call[c].tx.source, s, Seen(c, s, NewRow(c)))
                        ELSE call[c].tx.source
         /\ tx.attached = Links(c, NewRow(c))
    BY <1>3
  <1>12. DOMAIN call' = Call /\ \A b \in Call \ {c} : call'[b] = call[b]
    BY <1>7 DEF IInv, Types
  <1> USE DEF a
  <1> WITNESS k, s
  <1> QED
    BY <1>2, <1>6, <1>8, <1>9, <1>10, <1>11, <1>12
-----------------------------------------------------------------------------
(* A new Artifact, its content row if the bytes are new, its source, and   *)
(* the revisions it supersedes.                                            *)
LEMMA CreateStep ==
  ASSUME IInv, NEW c \in Call, Create(c)
  PROVE  IInv'
PROOF
  <1>1. /\ CallOK(call[c]) /\ call[c].at = "tx" /\ InTx(c)
        /\ UNCHANGED <<graph, sessions, objects, before, locks, others, raced, stranded>>
        /\ Matching(c) = {}
    BY DEF IInv, Types, Create, InTx, At
  <1>a. PICK a : a = Attached(c)
    OBVIOUS
  <1>n. PICK new : new = NewRow(c)
    OBVIOUS
  <1> DEFINE old == call[c].tx.artifact
  <1>t. PICK t : t = call'[c]
    OBVIOUS
  <1>2. PICK k, s :
          /\ k \in IF ContentRows(c) = {} THEN {new} ELSE ContentRows(c)
          /\ s \in IF SourceRows(c) = {} THEN {new} ELSE SourceRows(c)
          /\ DOMAIN t = DOMAIN call[c] /\ t.at = "tx" /\ t.unit = call[c].unit
          /\ t.snap = call[c].snap /\ t.attempts = call[c].attempts /\ t.next = call[c].next + 1
          /\ DOMAIN t.tx = DOMAIN call[c].tx
          /\ t.tx.artifact = With(Kept(c), new, Created(a, k))
          /\ t.tx.content = IF ContentRows(c) = {} THEN With(call[c].tx.content, new, a.hash)
                            ELSE call[c].tx.content
          /\ t.tx.source = IF SourceOf(a) # None
                           THEN With(call[c].tx.source, s, Seen(c, s, new))
                           ELSE call[c].tx.source
          /\ t.tx.attached = Links(c, new)
          /\ call[c].read \subseteq t.read
          /\ {"artifact"} \X Superseded(c) \subseteq t.read
          /\ k # new => <<"content", k>> \in t.read
          /\ \E under : t.seen = With(call[c].seen, Identity(a), [row |-> new, under |-> under])
          /\ DOMAIN call' = Call /\ \A b \in Call \ {c} : call'[b] = call[b]
    BY <1>a, <1>n, <1>t, CreateParts, Zenon
  <1>3. a \in Attachment /\ a.hash \in Hash \cap objects /\ Guarded(c, a.hash)
    BY <1>1, <1>a, AttachedIs
  <1>4. /\ new \in Row /\ new \notin DOMAIN call[c].tx.artifact
        /\ new \notin DOMAIN call[c].tx.content /\ new \notin DOMAIN call[c].snap.artifact
        /\ new \notin DOMAIN call[c].snap.content
    BY <1>1, <1>n, NewRowIsNew
  <1>5. ContentsInTx(c, call[c]) /\ ArtifactsInTx(c, call[c])
    BY <1>1 DEF IInv, Transactions, InTransaction, At
  <1>6. IsStore(call[c].tx)
    BY <1>1 DEF CallOK
  <1>7. /\ IsTable(t.tx.content, Hash) /\ k \in DOMAIN t.tx.content /\ k \in Row
        /\ t.tx.content[k] = a.hash
        /\ DOMAIN call[c].tx.content \subseteq DOMAIN t.tx.content
        /\ \A l \in DOMAIN call[c].tx.content : t.tx.content[l] = call[c].tx.content[l]
        /\ \A l \in DOMAIN t.tx.content \ DOMAIN call[c].tx.content : l = new /\ k = new
    <2>1. IsTable(call[c].tx.content, Hash)
      BY <1>6 DEF IsStore
    <2>2. CASE ContentRows(c) = {}
      <3>1. t.tx.content = With(call[c].tx.content, new, a.hash) /\ k = new /\ a.hash \in Hash
        BY <1>2, <1>3, <2>2
      <3>2. PICK f : f = call[c].tx.content
        OBVIOUS
      <3>3. PICK h \in Hash : h = a.hash
        BY <3>1
      <3>4. /\ IsTable(With(f, new, h), Hash) /\ With(f, new, h)[new] = h
            /\ DOMAIN With(f, new, h) = DOMAIN f \cup {new}
            /\ \A l \in DOMAIN f : l # new => With(f, new, h)[l] = f[l]
        <4>1. IsTable(f, Hash) /\ new \in Row
          BY <1>4, <2>1, <3>2
        <4>2. IsTable(With(f, new, h), Hash)
          BY <4>1, WithTable
        <4>3. With(f, new, h)[new] = h
          BY DEF With
        <4>4. DOMAIN With(f, new, h) = DOMAIN f \cup {new}
          BY DEF With
        <4>5. ASSUME NEW l \in DOMAIN f, l # new PROVE With(f, new, h)[l] = f[l]
          BY <4>5 DEF With
        <4> QED
          BY <4>2, <4>3, <4>4, <4>5
      <3> QED
        BY <1>4, <3>1, <3>2, <3>3, <3>4
    <2>3. CASE ContentRows(c) # {}
      BY <1>2, <2>1, <2>3, <1>a DEF ContentRows, IsTable
    <2> QED
      BY <2>2, <2>3
  <1>8. OnePer(t.tx.content)
    <2>1. OnePer(call[c].tx.content)
      BY <1>5 DEF ContentsInTx
    <2>2. CASE ContentRows(c) = {}
      <3>1. \A l \in DOMAIN call[c].tx.content : call[c].tx.content[l] # a.hash
        BY <2>2, <1>a DEF ContentRows
      <3> QED
        BY <1>7, <2>1, <3>1 DEF OnePer
    <2>3. CASE ContentRows(c) # {}
      BY <1>2, <2>1, <2>3
    <2> QED
      BY <2>2, <2>3
  <1>9. PICK x : x = Created(a, k)
    OBVIOUS
  <1>10. /\ x \in ArtifactRow /\ Coherent(x) /\ x.hash = a.hash /\ x.content = k /\ x.name = a.name
         /\ x.source = SourceOf(a) /\ x.revision = RevisionOf(a) /\ x.current = TRUE
    BY <1>3, <1>7, <1>9 DEF Created, ArtifactRow, Attachment, Coherent, SourceOf, RevisionOf
  <1>11. /\ IsTable(Kept(c), ArtifactRow) /\ DOMAIN Kept(c) = DOMAIN old
         /\ \A r \in DOMAIN old :
              /\ Kept(c)[r] = IF r \in Superseded(c) THEN [old[r] EXCEPT !.current = FALSE]
                              ELSE old[r]
              /\ Kept(c)[r].name = old[r].name /\ Kept(c)[r].hash = old[r].hash
              /\ Kept(c)[r].content = old[r].content /\ Kept(c)[r].source = old[r].source
              /\ Kept(c)[r].revision = old[r].revision
              /\ Kept(c)[r].current => old[r].current /\ r \notin Superseded(c)
              /\ Coherent(Kept(c)[r])
    BY <1>1, KeptRows
  <1>12. /\ IsTable(t.tx.artifact, ArtifactRow) /\ DOMAIN t.tx.artifact = DOMAIN old \cup {new}
         /\ t.tx.artifact[new] = x /\ \A r \in DOMAIN old : t.tx.artifact[r] = Kept(c)[r]
    <2>1. t.tx.artifact = With(Kept(c), new, x) /\ IsTable(Kept(c), ArtifactRow)
      BY <1>2, <1>9, <1>11
    <2>2. /\ IsTable(t.tx.artifact, ArtifactRow) /\ DOMAIN t.tx.artifact = DOMAIN Kept(c) \cup {new}
          /\ t.tx.artifact[new] = x
          /\ \A r \in DOMAIN Kept(c) : r # new => t.tx.artifact[r] = Kept(c)[r]
      BY <1>4, <1>10, <2>1, WithTable
    <2> QED
      BY <1>4, <1>11, <2>2
  <1>13. IsTable(t.tx.source, SourceRow)
    <2>1. IsTable(call[c].tx.source, SourceRow)
      BY <1>6 DEF IsStore
    <2>2. CASE SourceOf(a) = None
      BY <1>2, <2>1, <2>2
    <2>3. CASE SourceOf(a) # None
      <3>1. s = new \/ s \in DOMAIN call[c].tx.source
        BY <1>2 DEF SourceRows
      <3>2. s \in Row
        BY <1>4, <2>1, <3>1 DEF IsTable
      <3>3. Seen(c, s, new) \in SourceRow
        <4>1. CASE s = new
          <5>1. SourceOf(a) \in Source
            BY <1>3, <2>3 DEF SourceOf, Attachment
          <5> QED
            BY <1>4, <4>1, <5>1, <1>a DEF Seen, SourceRow
        <4>2. CASE s # new
          <5>1. call[c].tx.source[s] \in SourceRow
            BY <2>1, <3>1, <4>2 DEF IsTable
          <5> QED
            BY <1>4, <4>2, <5>1 DEF Seen, SourceRow
        <4> QED
          BY <4>1, <4>2
      <3> QED
        <4>1. PICK f : f = call[c].tx.source
          OBVIOUS
        <4>2. PICK y \in SourceRow : y = Seen(c, s, new)
          BY <3>3
        <4>3. IsTable(With(f, s, y), SourceRow)
          BY <2>1, <3>2, <4>1, WithTable, Zenon
        <4> QED
          BY <1>2, <2>3, <4>1, <4>2, <4>3
    <2> QED
      BY <2>2, <2>3
  <1>14. IsStore(t.tx)
    <2>1. t.tx.attached \subseteq Row \X Session
      BY <1>1, <1>2, <1>4, LinksAreEdges
    <2>2. \A r \in DOMAIN t.tx.artifact : Coherent(t.tx.artifact[r])
      BY <1>10, <1>11, <1>12
    <2> QED
      BY <1>2, <1>6, <1>7, <1>12, <1>13, <2>1, <2>2 DEF IsStore
  <1>15. \A i \in DOMAIN t.seen : t.seen[i].row \in Row
    BY <1>1, <1>2, <1>4 DEF CallOK, With
  <1>16. (\A h : Guarded(c, h)' <=> Guarded(c, h)) /\ \A r : Own(c, r) => Own(c, r)'
    BY <1>1, <1>2, <1>t DEF Guarded, Wanted, Own, Row, CallOK
  <1>17. Own(c, new)'
    BY <1>1, <1>2, <1>4, <1>n, <1>t DEF Own, NewRow, CallOK
  <1>18. New(t) = New(call[c]) \cup {new}
    BY <1>2, <1>4, <1>12 DEF New
  <1>19. ContentsInTx(c, t)'
    <2>1. ASSUME NEW l \in DOMAIN t.tx.content \ DOMAIN t.snap.content
          PROVE  /\ Own(c, l)' /\ Guarded(c, t.tx.content[l])'
                 /\ \E r \in New(t) : t.tx.artifact[r].content = l
      <3>1. CASE l \in DOMAIN call[c].tx.content
        <4>1. PICK r \in New(call[c]) : old[r].content = l
          BY <1>2, <1>5, <3>1 DEF ContentsInTx
        <4>2. r \in DOMAIN old
          BY DEF New
        <4>3. t.tx.artifact[r].content = l
          BY <1>11, <1>12, <4>1, <4>2
        <4> QED
          BY <1>2, <1>5, <1>7, <1>16, <1>18, <3>1, <4>3 DEF ContentsInTx
      <3>2. CASE l \notin DOMAIN call[c].tx.content
        BY <1>3, <1>7, <1>10, <1>12, <1>16, <1>17, <1>18, <3>2
      <3> QED
        BY <3>1, <3>2
    <2> QED
      <3>1. /\ DOMAIN t.snap.content \subseteq DOMAIN t.tx.content
            /\ \A l \in DOMAIN t.snap.content : t.tx.content[l] = t.snap.content[l]
        BY <1>2, <1>5, <1>7 DEF ContentsInTx
      <3> QED
        BY <1>8, <2>1, <3>1 DEF ContentsInTx
  <1>20. ArtifactsInTx(c, t)'
    <2>1. DOMAIN t.snap.artifact \subseteq DOMAIN t.tx.artifact
      BY <1>2, <1>5, <1>12 DEF ArtifactsInTx
    <2>2. ASSUME NEW r \in DOMAIN t.snap.artifact
          PROVE  \/ t.tx.artifact[r] = t.snap.artifact[r]
                 \/ <<"artifact", r>> \in t.read /\ Older(t.snap.artifact[r], t.tx.artifact[r])
      <3>1. r \in DOMAIN old /\ t.snap = call[c].snap
        BY <1>2, <1>5 DEF ArtifactsInTx
      <3>2. \/ old[r] = t.snap.artifact[r]
            \/ <<"artifact", r>> \in call[c].read /\ Older(t.snap.artifact[r], old[r])
        BY <1>5, <3>1 DEF ArtifactsInTx
      <3>3. CASE r \notin Superseded(c)
        <4>1. t.tx.artifact[r] = old[r]
          BY <1>11, <1>12, <3>1, <3>3
        <4> QED
          BY <1>2, <3>2, <4>1
      <3>4. CASE r \in Superseded(c)
        <4>1. old[r].current /\ old[r].revision # None
          BY <3>4 DEF Superseded
        <4>2. t.snap.artifact[r] \in ArtifactRow
          BY <1>1, <3>1 DEF CallOK, IsStore, IsTable
        <4>3. old[r] = t.snap.artifact[r]
          BY <3>2, <4>1, <4>2, LoweredIs DEF Older
        <4>4. t.tx.artifact[r] = [old[r] EXCEPT !.current = FALSE]
          BY <1>11, <1>12, <3>1, <3>4
        <4>5. <<"artifact", r>> \in t.read
          BY <1>2, <3>4
        <4> QED
          BY <4>1, <4>3, <4>4, <4>5 DEF Older
      <3> QED
        BY <3>3, <3>4
    <2>3. ASSUME NEW r \in New(t)
          PROVE  NewArtifact(c, t, r)'
      <3>1. CASE r \in New(call[c])
        <4>1. NewArtifact(c, call[c], r) /\ r \in DOMAIN old
          BY <1>5, <3>1 DEF ArtifactsInTx, New
        <4> QED
          <5>1. PICK y, z : y = old[r] /\ z = t.tx.artifact[r]
            OBVIOUS
          <5>2. z.hash = y.hash /\ z.content = y.content
            BY <1>11, <1>12, <4>1, <5>1
          <5>3. /\ Own(c, r) /\ Guarded(c, y.hash) /\ y.hash \in objects
                /\ y.content \in DOMAIN call[c].tx.content
                /\ call[c].tx.content[y.content] = y.hash
                /\ y.content \in DOMAIN t.snap.content => <<"content", y.content>> \in call[c].read
            BY <1>2, <4>1, <5>1 DEF NewArtifact
          <5>4. /\ Own(c, r)' /\ Guarded(c, z.hash)' /\ z.hash \in objects'
            BY <1>1, <1>16, <5>2, <5>3
          <5>5. /\ z.content \in DOMAIN t.tx.content /\ t.tx.content[z.content] = z.hash
            BY <1>7, <5>2, <5>3
          <5>6. z.content \in DOMAIN t.snap.content => <<"content", z.content>> \in t.read
            BY <1>2, <5>2, <5>3
          <5> QED
            BY <5>1, <5>4, <5>5, <5>6 DEF NewArtifact
      <3>2. CASE r = new
        BY <1>1, <1>2, <1>3, <1>4, <1>7, <1>10, <1>12, <1>16, <1>17, <3>2, <1>t DEF NewArtifact
      <3> QED
        BY <1>18, <3>1, <3>2
    <2>4. UnnamedOnce(t.tx.artifact)
      <3>1. a.name = None => \A r \in DOMAIN old : old[r].hash # a.hash
        BY <1>1, <1>a DEF Matching
      <3>2. UnnamedOnce(old)
        BY <1>5 DEF ArtifactsInTx
      <3> QED
        <4> SUFFICES ASSUME NEW p \in DOMAIN old \cup {new}, NEW q \in DOMAIN old \cup {new},
                            t.tx.artifact[p].name = None, t.tx.artifact[q].name = None,
                            t.tx.artifact[p].hash = t.tx.artifact[q].hash
                     PROVE  p = q
          BY <1>12 DEF UnnamedOnce
        <4>1. \A r \in DOMAIN old : /\ t.tx.artifact[r].name = old[r].name
                                    /\ t.tx.artifact[r].hash = old[r].hash
          BY <1>11, <1>12
        <4>2. t.tx.artifact[new].name = a.name /\ t.tx.artifact[new].hash = a.hash
          BY <1>10, <1>12
        <4>3. CASE p \in DOMAIN old /\ q \in DOMAIN old
          BY <3>2, <4>1, <4>3 DEF UnnamedOnce
        <4>4. CASE p = new \/ q = new
          BY <3>1, <4>1, <4>2, <4>4
        <4> QED
          BY <4>3, <4>4
    <2>5. ASSUME NEW q \in New(t), NEW r \in DOMAIN t.tx.artifact,
                 Rivals(t.tx.artifact[r], t.tx.artifact[q])
          PROVE  ~t.tx.artifact[r].current \/ ~t.tx.artifact[q].current
      <3>1. CASE q # new /\ r # new
        <4>1. q \in New(call[c]) /\ r \in DOMAIN old /\ q \in DOMAIN old
          BY <1>12, <1>18, <3>1 DEF New
        <4>2. Rivals(old[r], old[q])
          <5>1. \A p \in DOMAIN old : /\ t.tx.artifact[p].source = old[p].source
                                      /\ t.tx.artifact[p].revision = old[p].revision
            BY <1>11, <1>12
          <5> QED
            BY <2>5, <4>1, <5>1 DEF Rivals
        <4>3. ~old[r].current \/ ~old[q].current
          BY <1>5, <4>1, <4>2 DEF ArtifactsInTx
        <4> QED
          BY <1>11, <1>12, <4>1, <4>3
      <3>2. ASSUME NEW p \in DOMAIN old, Rivals(t.tx.artifact[p], x) \/ Rivals(x, t.tx.artifact[p])
            PROVE  ~t.tx.artifact[p].current
        <4>1. /\ old[p].source = SourceOf(a) /\ SourceOf(a) # None
              /\ old[p].revision \notin {None, RevisionOf(a)} /\ RevisionOf(a) # None
          BY <1>10, <1>11, <1>12, <3>2 DEF Rivals
        <4>2. SourceOf(a) = a.source /\ RevisionOf(a) = a.revision
          BY <4>1 DEF SourceOf, RevisionOf
        <4>3. old[p].current => p \in Superseded(c)
          BY <4>1, <4>2, <1>a DEF Superseded
        <4> QED
          BY <1>11, <1>12, <4>3
      <3>3. CASE q = new \/ r = new
        <4>1. ~Rivals(x, x)
          BY DEF Rivals
        <4> QED
          <5>1. q \in DOMAIN old \cup {new} /\ r \in DOMAIN old \cup {new}
            BY <1>12 DEF New
          <5>2. CASE q = new /\ r # new
            BY <1>12, <2>5, <3>2, <5>1, <5>2
          <5>3. CASE r = new /\ q # new
            BY <1>12, <2>5, <3>2, <5>1, <5>3
          <5>4. CASE q = new /\ r = new
            BY <1>12, <2>5, <4>1, <5>4
          <5> QED
            BY <3>3, <5>2, <5>3, <5>4
      <3> QED
        BY <3>1, <3>3
    <2> QED
      BY <2>1, <2>2, <2>3, <2>4, <2>5 DEF ArtifactsInTx
  <1> QED
    BY <1>1, <1>2, <1>14, <1>15, <1>19, <1>20, TxStep, <1>t
-----------------------------------------------------------------------------
(* A row that was superseded meanwhile is the same row otherwise.          *)
LEMMA OlderRow ==
  ASSUME NEW x \in ArtifactRow, NEW y, Older(x, y)
  PROVE  /\ y \in ArtifactRow /\ Coherent(x) => Coherent(y)
         /\ y.name = x.name /\ y.hash = x.hash /\ y.content = x.content
         /\ y.source = x.source /\ y.revision = x.revision /\ y.chunk = x.chunk
         /\ y.current => x.current
PROOF
  <1>1. CASE y = x
    BY <1>1 DEF ArtifactRow
  <1>2. CASE y = [x EXCEPT !.current = FALSE] /\ x.revision # None
    <2>1. Coherent(x) => Coherent(y)
      BY <1>2, LoweredIs DEF Coherent
    <2> QED
      BY <1>2, <2>1, LoweredIs
  <1> QED
    BY <1>1, <1>2 DEF Older

(* A row that becomes older twice has become older.                        *)
LEMMA OlderTransitive ==
  ASSUME NEW x \in ArtifactRow, NEW y, NEW z, Older(x, y), Older(y, z)
  PROVE  Older(x, z)
PROOF
  <1>1. CASE y = x \/ z = y
    BY <1>1
  <1>2. CASE y = [x EXCEPT !.current = FALSE] /\ z = [y EXCEPT !.current = FALSE]
    <2>1. z = y
      BY <1>2 DEF ArtifactRow
    <2> QED
      BY <2>1
  <1> QED
    BY <1>1, <1>2 DEF Older

(* What a step does to the Artifacts that were there: they go, or they stay*)
(* the same row.                                                           *)
LEMMA SnapshotKept ==
  ASSUME IInv, NEW g, IsStore(g), Snapshot(g),
         \A r : Settled(r) => Settled(r)',
         \A r \in DOMAIN graph'.artifact :
           Settled(r) => /\ r \in DOMAIN graph.artifact
                         /\ Older(graph.artifact[r], graph'.artifact[r])
  PROVE  Snapshot(g)'
PROOF
  <1>1. ASSUME NEW r \in DOMAIN g.artifact \cap DOMAIN graph'.artifact
        PROVE  Older(g.artifact[r], graph'.artifact[r])
    <2>1. g.artifact[r] \in ArtifactRow
      BY DEF IsStore, IsTable
    <2>2. r \in DOMAIN graph.artifact /\ Older(graph.artifact[r], graph'.artifact[r])
          /\ Older(g.artifact[r], graph.artifact[r])
      BY DEF Snapshot
    <2> QED
      BY <2>1, <2>2, OlderTransitive
  <1> QED
    BY <1>1 DEF Snapshot

(* Such a step does not disturb a recall.                                  *)
LEMMA RecallsKept ==
  ASSUME IInv, UNCHANGED recall,
         \A r : Settled(r) => Settled(r)',
         \A r \in DOMAIN graph'.artifact :
           Settled(r) => /\ r \in DOMAIN graph.artifact
                         /\ Older(graph.artifact[r], graph'.artifact[r])
  PROVE  RecallsInv'
PROOF
  <1> SUFFICES ASSUME NEW q \in Recaller
               PROVE  InRecall(q)'
    BY DEF RecallsInv
  <1>1. InRecall(q)
    BY DEF IInv, RecallsInv
  <1>2. ASSUME NEW r \in recall[q].stale \cap DOMAIN graph'.artifact
        PROVE  /\ r \in DOMAIN graph.artifact
               /\ graph'.artifact[r].current => graph.artifact[r].current
               /\ graph'.artifact[r].chunk = graph.artifact[r].chunk
    <2>1. r \in DOMAIN graph.artifact /\ Older(graph.artifact[r], graph'.artifact[r])
      BY <1>1 DEF InRecall
    <2>2. graph.artifact[r] \in ArtifactRow
      BY <2>1 DEF IInv, Types, IsStore, IsTable
    <2> QED
      BY <2>1, <2>2, OlderRow
  <1> QED
    BY <1>1, <1>2 DEF InRecall, NotExcluded, Restricted

(* A step that leaves Artifacts, contents and calls alone.                 *)
LEMMA StoreKept ==
  ASSUME IInv, UNCHANGED <<objects, before, call, locks, raced, stranded>>,
         graph'.artifact = graph.artifact, graph'.content = graph.content
  PROVE  StripesHeld' /\ StoreInv' /\ Transactions' /\ \A g : Snapshot(g) => Snapshot(g)'
PROOF
  <1>1. StripesHeld'
    BY DEF IInv, StripesHeld, At, Wanted, HeldBy
  <1>2. \A r : Settled(r)' <=> Settled(r)
    BY DEF Settled
  <1>3. StoreInv'
    BY <1>2 DEF IInv, StoreInv, OneContentPerHash, OneUnnamedPerHash, ContentKept,
      NothingStranded, OneCurrentRevision, Referrers
  <1>4. \A g : Snapshot(g) => Snapshot(g)'
    BY <1>2 DEF Snapshot
  <1>5. Transactions'
    <2> SUFFICES ASSUME NEW b \in Call
                 PROVE  InTransaction(b)'
      BY DEF Transactions
    <2>1. InTransaction(b)
      BY DEF IInv, Transactions
    <2>2. (\A h : Guarded(b, h)' <=> Guarded(b, h)) /\ \A r : Own(b, r)' <=> Own(b, r)
      BY DEF Guarded, Wanted, Own
    <2>3. Fresh(b) => Fresh(b)'
      BY <2>2 DEF Fresh
    <2>4. ContentsInTx(b, call[b]) => ContentsInTx(b, call[b])'
      BY <2>2 DEF ContentsInTx, New
    <2>5. ArtifactsInTx(b, call[b]) => ArtifactsInTx(b, call[b])'
      BY <2>2 DEF ArtifactsInTx, NewArtifact, New
    <2> QED
      BY <1>4, <2>1, <2>3, <2>4, <2>5 DEF InTransaction, At
  <1> QED
    BY <1>1, <1>3, <1>4, <1>5

(* Nor does it disturb a deletion.                                         *)
LEMMA DeletionsKept ==
  ASSUME IInv, UNCHANGED <<call, raced, stranded>>,
         graph'.artifact = graph.artifact, graph'.content = graph.content,
         NEW t, InDeletion(t)
  PROVE  InDeletion(t)'
PROOF
  <1>1. \A g : Snapshot(g) => Snapshot(g)'
    BY DEF Snapshot, Settled
  <1> QED
    BY <1>1 DEF InDeletion, LoneDeletion, Referrers

(* A step of a deletion before its commit.                                 *)
LEMMA DeletionSteps ==
  ASSUME IInv, NEW d \in Deletion,
         UNCHANGED <<graph, sessions, objects, before, call, locks, recall, retirements, raced,
                     stranded>>,
         DOMAIN deletion' = Deletion, \A e \in Deletion \ {d} : deletion'[e] = deletion[e],
         InDeletion(deletion[d])'
  PROVE  IInv'
PROOF
  <1>1. Types'
    BY DEF IInv, Types, CallOK
  <1>2. StripesHeld' /\ StoreInv' /\ Transactions'
    BY StoreKept
  <1>3. Deletions'
    <2>1. ASSUME NEW e \in Deletion \ {d}
          PROVE  InDeletion(deletion[e])'
      <3>1. PICK t : t = deletion[e]
        OBVIOUS
      <3>2. InDeletion(t)'
        BY <3>1, DeletionsKept DEF IInv, Deletions
      <3> QED
        BY <3>1, <3>2
    <2> QED
      BY <2>1 DEF Deletions
  <1>4. RecallsInv'
    BY DEF IInv, RecallsInv, InRecall, Settled, NotExcluded, Restricted
  <1> QED
    BY <1>1, <1>2, <1>3, <1>4 DEF IInv

(* A deletion reads the Artifact, its content and who else refers to it.   *)
LEMMA BeginDeleteArtifactStep ==
  ASSUME IInv, NEW d \in Deletion, BeginDeleteArtifact(d)
  PROVE  IInv'
PROOF
  <1>1. PICK r \in DOMAIN graph.artifact :
          deletion' = [deletion EXCEPT ![d] =
            [at |-> "begun", snap |-> graph, artifacts |-> {r}, contents |-> UnsharedContent(r),
             read |-> {<<"artifact", r>>} \cup
                      ({"content"} \X ({graph.artifact[r].content} \cap DOMAIN graph.content)),
             session |-> None]]
    BY DEF BeginDeleteArtifact
  <1>2. UNCHANGED <<graph, sessions, objects, before, call, locks, recall, retirements, raced,
                    stranded>>
    BY DEF BeginDeleteArtifact
  <1>3. DOMAIN deletion' = Deletion /\ \A e \in Deletion \ {d} : deletion'[e] = deletion[e]
    BY <1>1 DEF IInv, Types
  <1>4. PICK t : t = deletion'[d]
    OBVIOUS
  <1>5. /\ t.snap = graph /\ t.artifacts = {r} /\ t.contents = UnsharedContent(r)
        /\ <<"artifact", r>> \in t.read
    BY <1>1, <1>4 DEF IInv, Types
  <1>6. Snapshot(graph)
    BY DEF IInv, StoreInv, Snapshot, Older
  <1>7. Snapshot(graph)' /\ IsStore(graph)
    BY <1>2, <1>6 DEF Snapshot, Settled, IInv, Types
  <1>8. \A k \in t.contents : Referrers(k) = {r}
    BY <1>5 DEF UnsharedContent
  <1>9. LoneDeletion(t)
    <2>1. PICK k : k = graph.artifact[r].content
      OBVIOUS
    <2>2. r \in Referrers(k)
      BY <2>1 DEF Referrers
    <2>3. k \in DOMAIN graph.content \ t.contents => Referrers(k) \ {r} # {}
      BY <1>5, <2>1, <2>2 DEF UnsharedContent
    <2> QED
      BY <1>5, <2>1, <2>3 DEF LoneDeletion
  <1>10. InDeletion(t)'
    BY <1>2, <1>5, <1>7, <1>8, <1>9 DEF InDeletion, Referrers, LoneDeletion
  <1> QED
    BY <1>2, <1>3, <1>4, <1>10, DeletionSteps

(* A cascade reads the Artifacts that are attached to no other session.    *)
LEMMA BeginDeleteSessionStep ==
  ASSUME IInv, NEW d \in Deletion, BeginDeleteSession(d)
  PROVE  IInv'
PROOF
  <1>1. PICK s \in sessions :
          deletion' = [deletion EXCEPT ![d] =
            [at |-> "begun", snap |-> graph, artifacts |-> Solo(s), contents |-> {},
             read |-> {"artifact"} \X Solo(s), session |-> s]]
    BY DEF BeginDeleteSession
  <1>2. UNCHANGED <<graph, sessions, objects, before, call, locks, recall, retirements, raced,
                    stranded>>
    BY DEF BeginDeleteSession
  <1>3. DOMAIN deletion' = Deletion /\ \A e \in Deletion \ {d} : deletion'[e] = deletion[e]
    BY <1>1 DEF IInv, Types
  <1>4. PICK t : t = deletion'[d]
    OBVIOUS
  <1>5. /\ t.snap = graph /\ t.artifacts = Solo(s) /\ t.contents = {} /\ t.session = s
        /\ t.read = {"artifact"} \X Solo(s)
    BY <1>1, <1>4 DEF IInv, Types
  <1>6. Snapshot(graph)' /\ IsStore(graph)
    BY <1>2 DEF IInv, StoreInv, Types, Snapshot, Older, Settled
  <1>7. s # None
    BY ArtifactStoreAssumption DEF IInv, Types
  <1>8. Solo(s) \subseteq DOMAIN graph.artifact
    BY DEF Solo
  <1>9. InDeletion(t)'
    BY <1>2, <1>5, <1>6, <1>7, <1>8 DEF InDeletion
  <1> QED
    BY <1>2, <1>3, <1>4, <1>9, DeletionSteps

(* A deletion that gives up has changed nothing.                           *)
LEMMA AbortDeleteStep ==
  ASSUME IInv, NEW d \in Deletion, AbortDelete(d)
  PROVE  IInv'
PROOF
  <1>1. deletion'[d].at = "idle" /\ DOMAIN deletion' = Deletion
        /\ \A e \in Deletion \ {d} : deletion'[e] = deletion[e]
    BY DEF AbortDelete, IInv, Types, IdleDeletion
  <1>2. InDeletion(deletion[d])'
    BY <1>1 DEF InDeletion
  <1> QED
    BY <1>1, <1>2, DeletionSteps DEF AbortDelete
-----------------------------------------------------------------------------
(* A step of a recall.                                                     *)
LEMMA RecallSteps ==
  ASSUME IInv, NEW q \in Recaller,
         UNCHANGED <<graph, sessions, objects, before, call, locks, deletion, retirements, raced,
                     stranded>>,
         DOMAIN recall' = Recaller, \A p \in Recaller \ {q} : recall'[p] = recall[p],
         InRecall(q)'
  PROVE  IInv'
PROOF
  <1>1. Types'
    BY DEF IInv, Types, CallOK
  <1>2. StripesHeld' /\ StoreInv' /\ Transactions'
    BY StoreKept
  <1>3. Deletions'
    <2> SUFFICES ASSUME NEW d \in Deletion
                 PROVE  InDeletion(deletion[d])'
      BY DEF Deletions
    <2>1. PICK t : t = deletion[d]
      OBVIOUS
    <2>2. InDeletion(t)'
      BY <2>1, DeletionsKept DEF IInv, Deletions
    <2> QED
      BY <2>1, <2>2
  <1>4. RecallsInv'
    <2>1. ASSUME NEW p \in Recaller \ {q}
          PROVE  InRecall(p)'
      BY DEF IInv, RecallsInv, InRecall, Settled, NotExcluded, Restricted
    <2> QED
      BY <2>1 DEF RecallsInv
  <1> QED
    BY <1>1, <1>2, <1>3, <1>4 DEF IInv

(* A recall begins by reading which sources are retired.                   *)
LEMMA BeginRecallStep ==
  ASSUME IInv, NEW q \in Recaller, BeginRecall(q)
  PROVE  IInv'
PROOF
  <1>1. PICK scope : recall' = [recall EXCEPT ![q] =
          [IdleRecall EXCEPT !.at = "retired", !.scope = scope, !.stale = StaleNow,
                             !.current = DOMAIN graph.artifact \ StaleNow,
                             !.retired = RetiredSources]]
    BY DEF BeginRecall
  <1>2. UNCHANGED <<graph, sessions, objects, before, call, locks, deletion, retirements, raced,
                    stranded>>
    BY DEF BeginRecall
  <1>3. PICK t : t = [IdleRecall EXCEPT !.at = "retired", !.scope = scope, !.stale = StaleNow,
                             !.current = DOMAIN graph.artifact \ StaleNow,
                             !.retired = RetiredSources]
    OBVIOUS
  <1>4. /\ DOMAIN t = DOMAIN IdleRecall /\ t.at = "retired" /\ t.stale = StaleNow
        /\ t.retired = RetiredSources /\ t.result = {}
    BY <1>3 DEF IdleRecall
  <1>5. recall'[q] = t /\ DOMAIN recall' = Recaller
        /\ \A p \in Recaller \ {q} : recall'[p] = recall[p]
    BY <1>1, <1>3 DEF IInv, Types
  <1>6. StaleNow \subseteq DOMAIN graph.artifact /\ \A r \in StaleNow : Settled(r)'
    BY <1>2 DEF StaleNow, IInv, StoreInv, Settled
  <1>7. \A r \in StaleNow : ~graph.artifact[r].current
                            \/ graph.artifact[r].chunk.source \in RetiredSources
    BY DEF StaleNow, Stale
  <1>8. InRecall(q)'
    BY <1>2, <1>4, <1>5, <1>6, <1>7 DEF InRecall
  <1> QED
    BY <1>2, <1>5, <1>8, RecallSteps

(* A superseded row has a revision, which its chunks carry.                *)
LEMMA ReadSupersededStep ==
  ASSUME IInv, NEW q \in Recaller, ReadSuperseded(q)
  PROVE  IInv'
PROOF
  <1>1. /\ recall' = [recall EXCEPT ![q].at = "excluded", ![q].superseded = SupersededRevisions]
        /\ recall[q].at = "retired"
        /\ UNCHANGED <<graph, sessions, objects, before, call, locks, deletion, retirements, raced,
                       stranded>>
    BY DEF ReadSuperseded
  <1>2. InRecall(q)
    BY DEF IInv, RecallsInv
  <1>3. PICK t : t = recall'[q]
    OBVIOUS
  <1>4. /\ DOMAIN t = DOMAIN IdleRecall /\ t.at = "excluded" /\ t.stale = recall[q].stale
        /\ t.retired = recall[q].retired /\ t.result = recall[q].result
        /\ t.superseded = SupersededRevisions
    BY <1>1, <1>2, <1>3 DEF IdleRecall, InRecall, IInv, Types
  <1>5. DOMAIN recall' = Recaller /\ \A p \in Recaller \ {q} : recall'[p] = recall[p]
    BY <1>1 DEF IInv, Types
  <1>6. ASSUME NEW r \in t.stale \cap DOMAIN graph.artifact
        PROVE  ~NotExcluded(q, r)'
    <2>1. CASE graph.artifact[r].chunk.source \in recall[q].retired
      BY <1>1, <1>3, <1>4, <2>1 DEF NotExcluded
    <2>2. CASE ~graph.artifact[r].current
      <3>1. Coherent(graph.artifact[r])
        BY DEF IInv, Types, IsStore
      <3>2. graph.artifact[r].chunk.revision = graph.artifact[r].revision
        BY <2>2, <3>1 DEF Coherent
      <3>3. graph.artifact[r].revision \in SupersededRevisions
        BY <2>2 DEF SupersededRevisions
      <3> QED
        BY <1>1, <1>3, <1>4, <3>2, <3>3 DEF NotExcluded
    <2> QED
      BY <1>1, <1>2, <1>4, <2>1, <2>2 DEF InRecall
  <1>7. InRecall(q)'
    BY <1>1, <1>2, <1>3, <1>4, <1>6 DEF InRecall, Settled
  <1> QED
    BY <1>1, <1>5, <1>7, RecallSteps

(* The allow-set has none of what was stale.                               *)
LEMMA AllowStep ==
  ASSUME IInv, NEW q \in Recaller, Allow(q)
  PROVE  IInv'
PROOF
  <1>1. PICK allow : allow = {r \in DOMAIN graph.artifact : InScope(q, r) /\ NotExcluded(q, r)}
    OBVIOUS
  <1>2. /\ recall' = [recall EXCEPT ![q].at = "search", ![q].allow = allow]
        /\ recall[q].at = "excluded"
        /\ UNCHANGED <<graph, sessions, objects, before, call, locks, deletion, retirements, raced,
                       stranded>>
    BY <1>1 DEF Allow
  <1>3. InRecall(q)
    BY DEF IInv, RecallsInv
  <1>4. PICK t : t = recall'[q]
    OBVIOUS
  <1>5. /\ DOMAIN t = DOMAIN IdleRecall /\ t.at = "search" /\ t.stale = recall[q].stale
        /\ t.retired = recall[q].retired /\ t.result = recall[q].result /\ t.allow = allow
        /\ t.superseded = recall[q].superseded /\ t.scope = recall[q].scope
    BY <1>2, <1>3, <1>4 DEF IdleRecall, InRecall, IInv, Types
  <1>6. DOMAIN recall' = Recaller /\ \A p \in Recaller \ {q} : recall'[p] = recall[p]
    BY <1>2 DEF IInv, Types
  <1>7. allow \cap t.stale = {}
    BY <1>1, <1>2, <1>3, <1>5 DEF InRecall
  <1>8. ~Restricted(q) => t.stale \cap DOMAIN graph.artifact = {}
    <2> SUFFICES ASSUME ~Restricted(q), NEW r \in t.stale \cap DOMAIN graph.artifact
                 PROVE  FALSE
      OBVIOUS
    <2>1. recall[q].retired = {} /\ recall[q].superseded = {}
      BY DEF Restricted
    <2>2. NotExcluded(q, r)
      BY <2>1 DEF NotExcluded
    <2> QED
      BY <1>2, <1>3, <1>5, <2>2 DEF InRecall
  <1>9. Restricted(q)' <=> Restricted(q)
    BY <1>4, <1>5 DEF Restricted
  <1>10. InRecall(q)'
    BY <1>2, <1>3, <1>4, <1>5, <1>7, <1>8, <1>9 DEF InRecall, Settled
  <1> QED
    BY <1>2, <1>6, <1>10, RecallSteps

(* The searches find nothing outside it, unless nothing was stale.         *)
LEMMA SearchStep ==
  ASSUME IInv, NEW q \in Recaller, Search(q)
  PROVE  IInv'
PROOF
  <1>1. PICK result : result = IF Restricted(q) THEN recall[q].allow \cap DOMAIN graph.artifact
                               ELSE DOMAIN graph.artifact
    OBVIOUS
  <1>2. /\ recall' = [recall EXCEPT ![q].at = "done", ![q].result = result,
                        ![q].current = @ \cap (DOMAIN graph.artifact \ StaleNow)]
        /\ recall[q].at = "search"
        /\ UNCHANGED <<graph, sessions, objects, before, call, locks, deletion, retirements, raced,
                       stranded>>
    BY <1>1 DEF Search
  <1>3. InRecall(q)
    BY DEF IInv, RecallsInv
  <1>4. PICK t : t = recall'[q]
    OBVIOUS
  <1>5. /\ DOMAIN t = DOMAIN IdleRecall /\ t.at = "done" /\ t.stale = recall[q].stale
        /\ t.result = result
    BY <1>2, <1>3, <1>4 DEF IdleRecall, InRecall, IInv, Types
  <1>6. DOMAIN recall' = Recaller /\ \A p \in Recaller \ {q} : recall'[p] = recall[p]
    BY <1>2 DEF IInv, Types
  <1>7. result \cap t.stale = {}
    BY <1>1, <1>2, <1>3, <1>5 DEF InRecall
  <1>8. InRecall(q)'
    BY <1>2, <1>3, <1>4, <1>5, <1>7 DEF InRecall, Settled
  <1> QED
    BY <1>2, <1>6, <1>8, RecallSteps

(* Retiring a source changes the rows of sources alone.                    *)
LEMMA SetRetiredStep ==
  ASSUME IInv, NEW p \in Source, NEW value \in BOOLEAN, SetRetired(p, value)
  PROVE  IInv'
PROOF
  <1>1. PICK sources : sources = [r \in DOMAIN graph.source |->
          [graph.source[r] EXCEPT !.retired = IF graph.source[r].name = p THEN value ELSE @]]
    OBVIOUS
  <1>2. /\ graph' = [graph EXCEPT !.source = sources]
        /\ retirements < MaxRetirements /\ retirements' = retirements + 1
        /\ UNCHANGED <<sessions, objects, before, call, locks, deletion, recall, raced, stranded>>
    BY <1>1 DEF SetRetired
  <1>3. IsStore(graph) /\ retirements \in 0..MaxRetirements /\ MaxRetirements \in Nat
    BY ArtifactStoreAssumption DEF IInv, Types
  <1>4. /\ graph'.artifact = graph.artifact /\ graph'.content = graph.content
        /\ graph'.attached = graph.attached /\ graph'.source = sources
        /\ DOMAIN graph' = DOMAIN graph
    BY <1>2, <1>3 DEF IsStore
  <1>5. IsTable(sources, SourceRow)
    <2>1. ASSUME NEW r \in DOMAIN graph.source
          PROVE  sources[r] \in SourceRow
      <3>1. graph.source[r] \in SourceRow
        BY <1>3 DEF IsStore, IsTable
      <3>2. PICK v \in BOOLEAN :
              v = IF graph.source[r].name = p THEN value ELSE graph.source[r].retired
        BY <3>1 DEF SourceRow
      <3>3. sources[r] = [graph.source[r] EXCEPT !.retired = v]
        BY <1>1, <3>2
      <3> QED
        BY <3>1, <3>3 DEF SourceRow
    <2> QED
      BY <1>1, <1>3, <2>1 DEF IsStore, IsTable
  <1>6. Types'
    <2>1. IsStore(graph)'
      BY <1>3, <1>4, <1>5 DEF IsStore
    <2>2. retirements' \in 0..MaxRetirements
      BY <1>2, <1>3
    <2> QED
      BY <1>2, <1>4, <2>1, <2>2 DEF IInv, Types, CallOK
  <1>7. StripesHeld' /\ StoreInv' /\ Transactions'
    BY <1>2, <1>4, StoreKept
  <1>8. Deletions'
    <2> SUFFICES ASSUME NEW d \in Deletion
                 PROVE  InDeletion(deletion[d])'
      BY DEF Deletions
    <2>1. PICK t : t = deletion[d]
      OBVIOUS
    <2>2. InDeletion(t)'
      BY <1>2, <1>4, <2>1, DeletionsKept DEF IInv, Deletions
    <2> QED
      BY <1>2, <2>1, <2>2
  <1>9. RecallsInv'
    BY <1>2, <1>4, RecallsKept DEF Settled, Older
  <1> QED
    BY <1>6, <1>7, <1>8, <1>9 DEF IInv
-----------------------------------------------------------------------------
(* What the transaction wrote of the Artifacts and contents.               *)
NewContents(t) == DOMAIN t.tx.content \ DOMAIN t.snap.content

(* A commit adds its rows and supersedes rows that have not changed since  *)
(* its snapshot.                                                           *)
LEMMA CommitRows ==
  ASSUME IInv, NEW c \in Call, Commit(c), NEW t, t = call[c]
  PROVE  /\ DOMAIN graph'.artifact = DOMAIN graph.artifact \cup New(t)
         /\ \A r \in New(t) : /\ r \notin DOMAIN graph.artifact /\ ~Settled(r)
                              /\ graph'.artifact[r] = t.tx.artifact[r]
         /\ \A r \in DOMAIN graph.artifact :
              /\ Older(graph.artifact[r], graph'.artifact[r])
              /\ r \in DOMAIN t.snap.artifact =>
                   /\ graph'.artifact[r].current => t.tx.artifact[r].current
                   /\ graph'.artifact[r].source = t.tx.artifact[r].source
                   /\ graph'.artifact[r].revision = t.tx.artifact[r].revision
         /\ DOMAIN graph'.content = DOMAIN graph.content \cup NewContents(t)
         /\ \A k \in NewContents(t) : /\ k \notin DOMAIN graph.content /\ ~Settled(k)
                                      /\ graph'.content[k] = t.tx.content[k]
         /\ \A k \in DOMAIN graph.content : graph'.content[k] = graph.content[k]
PROOF
  <1>1. /\ CallOK(t) /\ t.at = "tx" /\ Serializable(t)
        /\ graph'.artifact = Merged(t, "artifact") /\ graph'.content = Merged(t, "content")
    BY DEF IInv, Types, Commit, At
  <1>2. Snapshot(t.snap) /\ ContentsInTx(c, t) /\ ArtifactsInTx(c, t)
    BY <1>1 DEF IInv, Transactions, InTransaction, At
  <1>3. \A r : Own(c, r) => ~Settled(r)
    BY <1>1 DEF Own, Settled
  <1>4. /\ \A r \in DOMAIN graph.artifact : Settled(r)
        /\ \A k \in DOMAIN graph.content : Settled(k)
    BY DEF IInv, StoreInv
  <1>5. \A r \in New(t) : ~Settled(r) /\ r \notin DOMAIN graph.artifact
    BY <1>2, <1>3, <1>4 DEF ArtifactsInTx, NewArtifact
  <1>6. \A k \in NewContents(t) : ~Settled(k) /\ k \notin DOMAIN graph.content
    BY <1>2, <1>3, <1>4 DEF ContentsInTx, NewContents
  <1>7. Written(t, "content") = NewContents(t)
    BY <1>2 DEF ContentsInTx, NewContents, Written
  <1>8. ASSUME NEW r \in Written(t, "artifact") \ New(t)
        PROVE  /\ r \in DOMAIN t.snap.artifact /\ r \in DOMAIN graph.artifact
               /\ graph.artifact[r] = t.snap.artifact[r]
               /\ Older(t.snap.artifact[r], t.tx.artifact[r])
    <2>1. r \in DOMAIN t.snap.artifact /\ t.tx.artifact[r] # t.snap.artifact[r]
      BY DEF Written, New
    <2>2. <<"artifact", r>> \in t.read /\ Older(t.snap.artifact[r], t.tx.artifact[r])
      BY <1>2, <2>1 DEF ArtifactsInTx
    <2>3. PICK e : e = <<"artifact", r>>
      OBVIOUS
    <2>4. e \in t.read /\ e[1] = "artifact" /\ e[2] = r
      BY <2>2, <2>3
    <2>5. ~Changed(t.snap, e)
      BY <1>1, <2>1, <2>4 DEF Serializable
    <2> QED
      BY <2>1, <2>2, <2>4, <2>5 DEF Changed
  <1>9. New(t) \subseteq Written(t, "artifact")
    BY DEF New, Written
  <1>10. DOMAIN graph'.artifact = DOMAIN graph.artifact \cup New(t)
    BY <1>1, <1>8, <1>9 DEF Merged
  <1>11. \A r \in New(t) : graph'.artifact[r] = t.tx.artifact[r]
    BY <1>1, <1>9 DEF Merged
  <1>12. ASSUME NEW r \in DOMAIN graph.artifact
         PROVE  /\ Older(graph.artifact[r], graph'.artifact[r])
                /\ r \in DOMAIN t.snap.artifact =>
                     /\ graph'.artifact[r].current => t.tx.artifact[r].current
                     /\ graph'.artifact[r].source = t.tx.artifact[r].source
                     /\ graph'.artifact[r].revision = t.tx.artifact[r].revision
    <2>1. CASE r \in Written(t, "artifact")
      <3>1. graph'.artifact[r] = t.tx.artifact[r]
        BY <1>1, <2>1 DEF Merged
      <3>2. r \notin New(t)
        BY <1>5
      <3> QED
        BY <1>8, <2>1, <3>1, <3>2
    <2>2. CASE r \notin Written(t, "artifact")
      <3>1. graph'.artifact[r] = graph.artifact[r]
        BY <1>1, <2>2 DEF Merged
      <3>2. ASSUME r \in DOMAIN t.snap.artifact
            PROVE  /\ graph'.artifact[r].current => t.tx.artifact[r].current
                   /\ graph'.artifact[r].source = t.tx.artifact[r].source
                   /\ graph'.artifact[r].revision = t.tx.artifact[r].revision
        <4>1. t.tx.artifact[r] = t.snap.artifact[r]
          BY <1>2, <2>2, <3>2 DEF ArtifactsInTx, Written
        <4>2. t.snap.artifact[r] \in ArtifactRow
          BY <1>1, <3>2 DEF CallOK, IsStore, IsTable
        <4>3. Older(t.snap.artifact[r], graph.artifact[r])
          BY <1>2, <3>2 DEF Snapshot
        <4> QED
          BY <3>1, <4>1, <4>2, <4>3, OlderRow
      <3> QED
        BY <3>1, <3>2 DEF Older
    <2> QED
      BY <2>1, <2>2
  <1>13. /\ DOMAIN graph'.content = DOMAIN graph.content \cup NewContents(t)
         /\ \A k \in NewContents(t) : graph'.content[k] = t.tx.content[k]
         /\ \A k \in DOMAIN graph.content : graph'.content[k] = graph.content[k]
    BY <1>1, <1>6, <1>7 DEF Merged
  <1> QED
    BY <1>5, <1>6, <1>10, <1>11, <1>12, <1>13

(* Merged tables are tables.                                               *)
LEMMA MergedTable ==
  ASSUME NEW T, NEW t, NEW label, IsTable(graph[label], T), IsTable(t.tx[label], T)
  PROVE  IsTable(Merged(t, label), T)
PROOF
  BY DEF IsTable, Merged, Written

(* A commit writes rows of the right types.                                *)
LEMMA CommitTypes ==
  ASSUME IInv, NEW c \in Call, Commit(c)
  PROVE  Types'
PROOF
  <1>1. PICK t : t = call[c]
    OBVIOUS
  <1>2. /\ CallOK(t) /\ t.at = "tx" /\ Ends(c, "done")
        /\ graph' = [artifact |-> Merged(t, "artifact"), content |-> Merged(t, "content"),
                     source |-> Merged(t, "source"),
                     attached |-> {e \in graph.attached \cup (t.tx.attached \ t.snap.attached) :
                                     e[1] \in DOMAIN Merged(t, "artifact") /\ e[2] \in sessions}]
        /\ UNCHANGED <<sessions, objects, others>>
    BY <1>1 DEF IInv, Types, Commit, At
  <1>3. IsStore(graph) /\ IsStore(t.tx)
    BY <1>2 DEF IInv, Types, CallOK
  <1>4. graph'.attached \subseteq (DOMAIN graph'.artifact) \X sessions
    <2>1. graph.attached \subseteq Row \X Session /\ t.tx.attached \subseteq Row \X Session
      BY <1>3 DEF IsStore
    <2> QED
      BY <1>2, <2>1
  <1>5. IsStore(graph)'
    <2>1. IsTable(Merged(t, "artifact"), ArtifactRow)
      BY <1>3, MergedTable DEF IsStore
    <2>2. IsTable(Merged(t, "content"), Hash)
      BY <1>3, MergedTable DEF IsStore
    <2>3. IsTable(Merged(t, "source"), SourceRow)
      BY <1>3, MergedTable DEF IsStore
    <2>4. \A r \in DOMAIN Merged(t, "artifact") : Coherent(Merged(t, "artifact")[r])
      <3>1. /\ \A r \in DOMAIN graph.artifact : Coherent(graph.artifact[r])
            /\ \A r \in DOMAIN t.tx.artifact : Coherent(t.tx.artifact[r])
        BY <1>3 DEF IsStore
      <3> QED
        BY <3>1 DEF Merged, Written
    <2>5. graph'.attached \subseteq Row \X Session
      BY <1>2, <1>3 DEF IsStore
    <2>6. /\ DOMAIN graph' = {"artifact", "content", "source", "attached"}
          /\ graph'.artifact = Merged(t, "artifact") /\ graph'.content = Merged(t, "content")
          /\ graph'.source = Merged(t, "source")
      BY <1>2
    <2> QED
      BY <2>1, <2>2, <2>3, <2>4, <2>5, <2>6 DEF IsStore
  <1>6. PICK u : u = [Idle EXCEPT !.at = "done", !.unit = call[c].unit]
    OBVIOUS
  <1>7. CallOK(u) /\ call' = [call EXCEPT ![c] = u] /\ u.at = "done"
    BY <1>1, <1>2, <1>6, IdleOK DEF CallOK, Ends, Idle
  <1>8. DOMAIN call' = Call /\ \A b \in Call : CallOK(call[b])'
    BY <1>2, <1>7 DEF IInv, Types, CallOK
  <1>9. locks' \in [Stripes -> Call \cup {None}]
    BY <1>2 DEF Ends, Released, IInv, Types
  <1> QED
    BY <1>2, <1>4, <1>5, <1>8, <1>9 DEF IInv, Types, others

(* After the commit the rows are settled; the locks go.                    *)
LEMMA CommitCalls ==
  ASSUME IInv, NEW c \in Call, Commit(c)
  PROVE  /\ \A r : Settled(r)' <=> Settled(r) \/ (r \in Row /\ r[1] = c)
         /\ \A b \in Call \ {c} : call'[b] = call[b] /\ HeldBy(b)' = HeldBy(b)
         /\ ~At(c, "tx")'
PROOF
  <1>1. call[c].at = "tx" /\ Ends(c, "done")
    BY DEF Commit, At
  <1>2. call'[c].at = "done" /\ \A b \in Call \ {c} : call'[b] = call[b]
    BY <1>1 DEF Ends, IInv, Types, Idle
  <1>3. \A b \in Call \ {c} : HeldBy(b)' = HeldBy(b)
    BY <1>1, ArtifactStoreAssumption DEF IInv, Types, Ends, Released, HeldBy
  <1>4. \A r : Settled(r)' <=> Settled(r) \/ (r \in Row /\ r[1] = c)
    BY <1>1, <1>2 DEF Settled, Row
  <1> QED
    BY <1>2, <1>3, <1>4 DEF At

(* What CommitRows and the transaction say, together.                      *)
LEMMA CommitNew ==
  ASSUME IInv, NEW c \in Call, Commit(c), NEW t, t = call[c]
  PROVE  /\ \A r \in New(t) : NewArtifact(c, t, r) /\ r \in Row /\ r[1] = c
         /\ \A k \in NewContents(t) :
              /\ k \in Row /\ k[1] = c /\ Guarded(c, t.tx.content[k])
              /\ \E r \in New(t) : t.tx.artifact[r].content = k
         /\ ContentsInTx(c, t) /\ ArtifactsInTx(c, t) /\ Fresh(c) /\ Snapshot(t.snap)
         /\ \A r \in DOMAIN graph.artifact :
              /\ graph'.artifact[r].name = graph.artifact[r].name
              /\ graph'.artifact[r].hash = graph.artifact[r].hash
              /\ graph'.artifact[r].content = graph.artifact[r].content
              /\ graph'.artifact[r].source = graph.artifact[r].source
              /\ graph'.artifact[r].revision = graph.artifact[r].revision
              /\ graph'.artifact[r].current => graph.artifact[r].current
PROOF
  <1>1. ContentsInTx(c, t) /\ ArtifactsInTx(c, t) /\ Fresh(c) /\ Snapshot(t.snap)
    BY DEF IInv, Transactions, InTransaction, Commit
  <1>2. \A r \in New(t) : NewArtifact(c, t, r) /\ r \in Row /\ r[1] = c
    BY <1>1 DEF ArtifactsInTx, NewArtifact, Own
  <1>3. \A k \in NewContents(t) :
          /\ k \in Row /\ k[1] = c /\ Guarded(c, t.tx.content[k])
          /\ \E r \in New(t) : t.tx.artifact[r].content = k
    BY <1>1 DEF ContentsInTx, NewContents, Own
  <1>4. \A r \in DOMAIN graph.artifact : Older(graph.artifact[r], graph'.artifact[r])
    BY CommitRows
  <1>5. \A r \in DOMAIN graph.artifact : graph.artifact[r] \in ArtifactRow
    BY DEF IInv, Types, IsStore, IsTable
  <1> QED
    BY <1>1, <1>2, <1>3, <1>4, <1>5, OlderRow

(* The commit keeps the store correct.                                     *)
LEMMA CommitStore ==
  ASSUME IInv, NEW c \in Call, Commit(c)
  PROVE  StoreInv'
PROOF
  <1>1. PICK t : t = call[c]
    OBVIOUS
  <1> DEFINE g == graph.artifact
             h == graph'.artifact
             x == t.tx.artifact
  <1>2. /\ DOMAIN h = DOMAIN g \cup New(t)
        /\ \A r \in New(t) : r \notin DOMAIN g /\ ~Settled(r) /\ h[r] = x[r]
        /\ \A r \in DOMAIN g : r \in DOMAIN t.snap.artifact =>
             /\ h[r].current => x[r].current
             /\ h[r].source = x[r].source /\ h[r].revision = x[r].revision
    BY <1>1, CommitRows
  <1>3. /\ DOMAIN graph'.content = DOMAIN graph.content \cup NewContents(t)
        /\ \A k \in NewContents(t) : /\ k \notin DOMAIN graph.content /\ ~Settled(k)
                                     /\ graph'.content[k] = t.tx.content[k]
        /\ \A k \in DOMAIN graph.content : graph'.content[k] = graph.content[k]
    BY <1>1, CommitRows
  <1>4. /\ \A r \in New(t) : NewArtifact(c, t, r) /\ r \in Row /\ r[1] = c
        /\ \A k \in NewContents(t) :
             /\ k \in Row /\ k[1] = c /\ Guarded(c, t.tx.content[k])
             /\ \E r \in New(t) : x[r].content = k
        /\ ContentsInTx(c, t) /\ ArtifactsInTx(c, t) /\ Fresh(c) /\ Snapshot(t.snap)
        /\ \A r \in DOMAIN g :
             /\ h[r].name = g[r].name /\ h[r].hash = g[r].hash /\ h[r].content = g[r].content
             /\ h[r].source = g[r].source /\ h[r].revision = g[r].revision
             /\ h[r].current => g[r].current
    BY <1>1, CommitNew
  <1>5. /\ \A r : Settled(r)' <=> Settled(r) \/ (r \in Row /\ r[1] = c)
    BY CommitCalls
  <1>6. /\ UNCHANGED <<objects, stranded>>
        /\ before' = [r \in DOMAIN before \cup New(t) |->
                        IF r \in New(t) THEN DOMAIN t.snap.artifact ELSE before[r]]
        /\ raced \subseteq raced'
        /\ Serializable(t)
    BY <1>1 DEF Commit
  <1>7. StoreInv
    BY DEF IInv
  <1>8. \A r \in New(t) : Settled(x[r].content)'
    <2> SUFFICES ASSUME NEW r \in New(t)
                 PROVE  Settled(x[r].content)'
      OBVIOUS
    <2>1. x[r].content \in DOMAIN t.tx.content
      BY <1>4 DEF NewArtifact
    <2>2. CASE x[r].content \in DOMAIN t.snap.content
      BY <1>4, <1>5, <2>2 DEF Snapshot
    <2>3. CASE x[r].content \in NewContents(t)
      BY <1>4, <1>5, <2>3
    <2> QED
      BY <2>1, <2>2, <2>3 DEF NewContents
  <1>9. /\ \A r \in DOMAIN h : /\ Settled(r)' /\ Settled(g[r].content)'
                               /\ r \in DOMAIN before' /\ h[r].hash \in objects'
        /\ \A k \in DOMAIN graph'.content : Settled(k)'
    <2>1. ASSUME NEW r \in DOMAIN g
          PROVE  Settled(r)' /\ Settled(g[r].content)' /\ r \in DOMAIN before' /\ h[r].hash \in objects'
      <3>1. /\ Settled(r) /\ Settled(g[r].content) /\ r \in DOMAIN before /\ g[r].hash \in objects
        BY <1>7 DEF StoreInv
      <3>2. h[r].content = g[r].content /\ h[r].hash = g[r].hash
        BY <1>4
      <3>3. PICK k : k = g[r].content
        OBVIOUS
      <3>5. Settled(r)' /\ Settled(k)'
        BY <1>5, <3>1, <3>3
      <3>6. Settled(g[r].content)'
        BY <3>2, <3>3, <3>5
      <3>4. r \in DOMAIN before'
        BY <1>6, <3>1
      <3> QED
        BY <1>6, <3>1, <3>2, <3>4, <3>5, <3>6
    <2>2. ASSUME NEW r \in New(t)
          PROVE  Settled(r)' /\ Settled(g[r].content)' /\ r \in DOMAIN before' /\ h[r].hash \in objects'
      <3>1. Settled(r)' /\ h[r] = x[r] /\ Settled(x[r].content)'
        BY <1>2, <1>4, <1>5, <1>8
      <3>4. Settled(g[r].content)'
        BY <3>1
      <3>2. r \in DOMAIN before'
        BY <1>6
      <3>3. x[r].hash \in objects
        BY <1>4 DEF NewArtifact
      <3> QED
        BY <1>6, <3>1, <3>2, <3>3, <3>4
    <2>3. \A k \in DOMAIN graph'.content : Settled(k)'
      BY <1>3, <1>4, <1>5, <1>7 DEF StoreInv
    <2> QED
      BY <1>2, <2>1, <2>2, <2>3
  <1>10. \A s \in DOMAIN before' : \A r \in before'[s] : Settled(r)'
    BY <1>4, <1>5, <1>6, <1>7 DEF StoreInv, Snapshot
  <1>11. OneContentPerHash'
    <2> SUFFICES ASSUME NEW k \in DOMAIN graph'.content, NEW l \in DOMAIN graph'.content,
                        graph'.content[k] = graph'.content[l]
                 PROVE  k = l
      BY DEF OneContentPerHash
    <2>1. ASSUME NEW m \in DOMAIN graph.content, NEW n \in NewContents(t),
                 graph.content[m] = t.tx.content[n]
          PROVE  FALSE
      <3>1. m \in DOMAIN t.snap.content /\ t.snap.content[m] = graph.content[m]
        BY <1>1, <1>4, <2>1 DEF Fresh
      <3>2. m \in DOMAIN t.tx.content /\ t.tx.content[m] = t.tx.content[n]
        BY <1>4, <2>1, <3>1 DEF ContentsInTx
      <3>3. m = n
        BY <1>4, <3>2 DEF ContentsInTx, OnePer, NewContents
      <3> QED
        BY <3>1, <3>3 DEF NewContents
    <2>2. CASE k \in DOMAIN graph.content /\ l \in DOMAIN graph.content
      BY <1>3, <1>7, <2>2 DEF StoreInv, OneContentPerHash
    <2>3. CASE k \in NewContents(t) /\ l \in NewContents(t)
      BY <1>3, <1>4, <2>3 DEF ContentsInTx, OnePer, NewContents
    <2> QED
      BY <1>3, <2>1, <2>2, <2>3
  <1>12. OneUnnamedPerHash'
    <2> SUFFICES ASSUME NEW r \in DOMAIN h, NEW s \in DOMAIN h,
                        h[r].name = None, h[s].name = None, h[r].hash = h[s].hash
                 PROVE  r = s
      BY DEF OneUnnamedPerHash
    <2>1. ASSUME NEW p \in DOMAIN g, NEW q \in New(t), g[p].name = None, x[q].name = None,
                 g[p].hash = x[q].hash
          PROVE  FALSE
      <3>1. Guarded(c, g[p].hash)
        BY <1>4, <2>1 DEF NewArtifact
      <3>2. p \in DOMAIN t.snap.artifact
        BY <1>1, <1>4, <3>1 DEF Fresh
      <3>3. p \in DOMAIN x /\ x[p].name = g[p].name /\ x[p].hash = g[p].hash
        <4>1. t.snap.artifact[p] \in ArtifactRow
          BY <1>1, <3>2 DEF IInv, Types, CallOK, IsStore, IsTable
        <4>2. Older(t.snap.artifact[p], g[p])
          BY <1>4, <3>2 DEF Snapshot
        <4>3. Older(t.snap.artifact[p], x[p])
          BY <1>4, <3>2 DEF ArtifactsInTx, Older
        <4>4. p \in DOMAIN x
          BY <1>4, <3>2 DEF ArtifactsInTx
        <4>5. g[p].name = t.snap.artifact[p].name /\ g[p].hash = t.snap.artifact[p].hash
          BY <4>1, <4>2, OlderRow
        <4>6. x[p].name = t.snap.artifact[p].name /\ x[p].hash = t.snap.artifact[p].hash
          BY <4>1, <4>3, OlderRow
        <4> QED
          BY <4>4, <4>5, <4>6
      <3>4. p = q
        BY <1>4, <2>1, <3>3 DEF ArtifactsInTx, UnnamedOnce, New
      <3> QED
        BY <3>2, <3>4 DEF New
    <2>2. CASE r \in DOMAIN g /\ s \in DOMAIN g
      BY <1>4, <1>7, <2>2 DEF StoreInv, OneUnnamedPerHash
    <2>3. CASE r \in New(t) /\ s \in New(t)
      BY <1>2, <1>4, <2>3 DEF ArtifactsInTx, UnnamedOnce, New
    <2>4. CASE r \in DOMAIN g /\ s \in New(t)
      BY <1>2, <1>4, <2>1, <2>4
    <2>5. CASE s \in DOMAIN g /\ r \in New(t)
      BY <1>2, <1>4, <2>1, <2>5
    <2> QED
      BY <1>2, <2>2, <2>3, <2>4, <2>5
  <1>13. ContentKept'
    <2> SUFFICES ASSUME NEW r \in DOMAIN h, r \notin raced'
                 PROVE  /\ h[r].content \in DOMAIN graph'.content
                        /\ graph'.content[h[r].content] = h[r].hash
                        /\ h[r].hash \in objects'
      BY DEF ContentKept
    <2>1. CASE r \in DOMAIN g
      <3>1. /\ g[r].content \in DOMAIN graph.content
            /\ graph.content[g[r].content] = g[r].hash /\ g[r].hash \in objects
        BY <1>6, <1>7, <2>1 DEF StoreInv, ContentKept
      <3>2. h[r].content = g[r].content /\ h[r].hash = g[r].hash
        BY <1>4, <2>1
      <3>3. g[r].content \in DOMAIN graph'.content /\ graph'.content[g[r].content] = g[r].hash
        BY <1>3, <3>1
      <3> QED
        BY <1>6, <3>1, <3>2, <3>3
    <2>2. CASE r \in New(t)
      <3>1. PICK k : k = x[r].content
        OBVIOUS
      <3>2. /\ x[r].hash \in objects /\ k \in DOMAIN t.tx.content /\ t.tx.content[k] = x[r].hash
            /\ k \in DOMAIN t.snap.content => <<"content", k>> \in t.read
        BY <1>4, <2>2, <3>1 DEF NewArtifact
      <3>3. CASE k \in NewContents(t)
        BY <1>2, <1>3, <1>6, <2>2, <3>1, <3>2, <3>3
      <3>4. CASE k \in DOMAIN t.snap.content
        <4>1. PICK e : e = <<"content", k>>
          OBVIOUS
        <4>2. e \in t.read /\ e[1] = "content" /\ e[2] = k
          BY <3>2, <3>4, <4>1
        <4>3. ~Changed(t.snap, e)
          BY <1>6, <3>4, <4>2 DEF Serializable
        <4>4. k \in DOMAIN graph.content /\ graph.content[k] = t.snap.content[k]
          BY <4>2, <4>3 DEF Changed
        <4>5. t.snap.content[k] = x[r].hash
          BY <1>4, <3>2, <3>4 DEF ContentsInTx
        <4> QED
          BY <1>2, <1>3, <1>6, <2>2, <3>1, <3>2, <4>4, <4>5
      <3> QED
        BY <3>2, <3>3, <3>4 DEF NewContents
    <2> QED
      BY <1>2, <2>1, <2>2
  <1>14. NothingStranded'
    <2> SUFFICES ASSUME NEW k \in DOMAIN graph'.content, k \notin stranded
                 PROVE  \E r \in DOMAIN h : h[r].content = k
      BY <1>6 DEF NothingStranded, Referrers
    <2>1. CASE k \in DOMAIN graph.content
      <3>1. PICK r \in DOMAIN g : g[r].content = k
        BY <1>7, <2>1 DEF StoreInv, NothingStranded, Referrers
      <3> QED
        BY <1>2, <1>4, <3>1
    <2>2. CASE k \in NewContents(t)
      <3>1. PICK r \in New(t) : x[r].content = k
        BY <1>4, <2>2
      <3> QED
        BY <1>2, <3>1
    <2> QED
      BY <1>3, <2>1, <2>2
  <1>15. OneCurrentRevision'
    <2> SUFFICES ASSUME NEW r \in DOMAIN h, NEW s \in DOMAIN h,
                        h[r].current, h[s].current, Rivals(h[r], h[s]), r \in before'[s]
                 PROVE  FALSE
      BY DEF OneCurrentRevision, Rivals
    <2>1. CASE s \in New(t)
      <3>1. r \in DOMAIN t.snap.artifact /\ r \in DOMAIN g /\ r \in DOMAIN x
        BY <1>2, <1>4, <1>6, <2>1 DEF New, ArtifactsInTx
      <3>2. x[r].current /\ h[r].source = x[r].source /\ h[r].revision = x[r].revision
        BY <1>2, <3>1
      <3>3. h[s] = x[s]
        BY <1>2, <2>1
      <3>4. Rivals(x[r], x[s])
        BY <3>2, <3>3 DEF Rivals
      <3> QED
        BY <1>4, <2>1, <3>1, <3>2, <3>3, <3>4 DEF ArtifactsInTx
    <2>2. CASE s \in DOMAIN g
      <3>1. before'[s] = before[s] /\ s \in DOMAIN before
        BY <1>2, <1>6, <1>7, <2>2 DEF StoreInv
      <3>2. r \in DOMAIN g
        BY <1>2, <1>7, <3>1 DEF StoreInv
      <3>3. g[r].current /\ g[s].current /\ Rivals(g[r], g[s])
        BY <1>4, <2>2, <3>2 DEF Rivals
      <3> QED
        BY <1>7, <2>2, <3>1, <3>2, <3>3 DEF StoreInv, OneCurrentRevision, Rivals
    <2> QED
      BY <1>2, <2>1, <2>2
  <1>16. \A r \in DOMAIN graph'.artifact :
           /\ Settled(r)' /\ Settled(graph.artifact[r].content)'
           /\ r \in DOMAIN before' /\ graph'.artifact[r].hash \in objects'
    BY <1>9
  <1>17. \A k \in DOMAIN graph'.content : Settled(k)'
    BY <1>9
  <1> HIDE DEF g, h, x
  <1> QED
    BY <1>10, <1>11, <1>12, <1>13, <1>14, <1>15, <1>16, <1>17 DEF StoreInv

(* What carries over for whoever looks at the store later.                 *)
LEMMA CommitCarries ==
  ASSUME IInv, NEW c \in Call, Commit(c)
  PROVE  /\ \A r : Settled(r) => Settled(r)'
         /\ \A r \in DOMAIN graph'.artifact :
              Settled(r) => /\ r \in DOMAIN graph.artifact
                            /\ Older(graph.artifact[r], graph'.artifact[r])
PROOF
  <1>1. PICK t : t = call[c]
    OBVIOUS
  <1>2. /\ DOMAIN graph'.artifact = DOMAIN graph.artifact \cup New(t)
        /\ \A r \in New(t) : ~Settled(r)
        /\ \A r \in DOMAIN graph.artifact : Older(graph.artifact[r], graph'.artifact[r])
    BY <1>1, CommitRows
  <1> QED
    BY <1>2, CommitCalls

(* The other transactions do not notice what is added beside them.         *)
LEMMA CommitTransactions ==
  ASSUME IInv, NEW c \in Call, Commit(c)
  PROVE  StripesHeld' /\ Transactions'
PROOF
  <1>1. PICK t : t = call[c]
    OBVIOUS
  <1>2. /\ \A b \in Call \ {c} : call'[b] = call[b] /\ HeldBy(b)' = HeldBy(b)
        /\ ~At(c, "tx")' /\ At(c, "tx")
    BY CommitCalls DEF Commit
  <1>3. StripesHeld'
    BY <1>2 DEF IInv, StripesHeld, At, Wanted
  <1>4. Transactions'
    <2> SUFFICES ASSUME NEW b \in Call \ {c}, At(b, "tx")
                 PROVE  Snapshot(call[b].snap)' /\ Fresh(b)' /\ ContentsInTx(b, call[b])'
                        /\ ArtifactsInTx(b, call[b])'
      BY <1>2 DEF Transactions, InTransaction, At
    <2>1. Snapshot(call[b].snap) /\ Fresh(b) /\ ContentsInTx(b, call[b]) /\ ArtifactsInTx(b, call[b])
      BY DEF IInv, Transactions, InTransaction
    <2>2. (\A z : Guarded(b, z)' <=> Guarded(b, z)) /\ \A r : Own(b, r)' <=> Own(b, r)
      BY <1>2 DEF Guarded, Wanted, Own
    <2>3. Snapshot(call[b].snap)'
      <3>1. PICK g : g = call[b].snap
        OBVIOUS
      <3>2. IsStore(g) /\ Snapshot(g)
        BY <2>1, <3>1 DEF IInv, Types, CallOK
      <3>3. Snapshot(g)'
        BY <3>2, CommitCarries, SnapshotKept
      <3> QED
        BY <1>2, <3>1, <3>3
    <2>4. \A z : ~(Guarded(b, z) /\ Guarded(c, z))
      BY <1>2 DEF IInv, StripesHeld, Guarded, HeldBy
    <2>5. Fresh(b)'
      <3>1. ASSUME NEW k \in DOMAIN graph'.content, Guarded(b, graph'.content[k])
            PROVE  k \in DOMAIN call[b].snap.content /\ call[b].snap.content[k] = graph'.content[k]
        <4>1. k \notin NewContents(t)
          BY <1>1, <2>4, <3>1, CommitRows, CommitNew
        <4>2. k \in DOMAIN graph.content /\ graph'.content[k] = graph.content[k]
          BY <1>1, <4>1, CommitRows
        <4> QED
          BY <2>1, <3>1, <4>2 DEF Fresh
      <3>2. ASSUME NEW r \in DOMAIN graph'.artifact, Guarded(b, graph'.artifact[r].hash)
            PROVE  r \in DOMAIN call[b].snap.artifact
        <4>1. ASSUME r \in New(t)
              PROVE  FALSE
          <5>1. graph'.artifact[r] = t.tx.artifact[r]
            BY <1>1, <4>1, CommitRows
          <5>2. Guarded(c, t.tx.artifact[r].hash)
            BY <1>1, <4>1, CommitNew DEF NewArtifact
          <5> QED
            BY <2>4, <3>2, <5>1, <5>2
        <4>2. r \in DOMAIN graph.artifact
          BY <1>1, <4>1, CommitRows
        <4>3. graph'.artifact[r].hash = graph.artifact[r].hash
          BY <1>1, <4>2, CommitNew
        <4> QED
          BY <2>1, <3>2, <4>2, <4>3 DEF Fresh
      <3> QED
        BY <1>2, <2>2, <3>1, <3>2 DEF Fresh
    <2>6. ContentsInTx(b, call[b])'
      BY <1>2, <2>1, <2>2 DEF ContentsInTx, New
    <2>7. ArtifactsInTx(b, call[b])'
      <3>1. objects' = objects
        BY DEF Commit
      <3> QED
        BY <1>2, <2>1, <2>2, <3>1 DEF ArtifactsInTx, NewArtifact, New
    <2> QED
      BY <2>3, <2>5, <2>6, <2>7
  <1> QED
    BY <1>3, <1>4

(* A deletion under way knows what is added as raced.                      *)
LEMMA CommitDeletions ==
  ASSUME IInv, NEW c \in Call, Commit(c)
  PROVE  Deletions'
PROOF
  <1> SUFFICES ASSUME NEW d \in Deletion, deletion[d].at = "begun"
               PROVE  InDeletion(deletion[d])'
    BY DEF Deletions, InDeletion, Commit, others
  <1>1. PICK t : t = call[c]
    OBVIOUS
  <1>2. PICK u : u = deletion[d]
    OBVIOUS
  <1>3. InDeletion(u) /\ u.at = "begun" /\ deletion'[d] = u
    BY <1>2 DEF IInv, Deletions, Commit, others
  <1>4. stranded' = stranded /\ raced' = raced \cup New(t)
    BY <1>1 DEF Commit, Deleting
  <1>5. /\ DOMAIN graph'.artifact = DOMAIN graph.artifact \cup New(t)
        /\ DOMAIN graph'.content = DOMAIN graph.content \cup NewContents(t)
        /\ \A k \in NewContents(t) : ~Settled(k)
    BY <1>1, CommitRows
  <1>6. \A r \in DOMAIN graph.artifact : graph'.artifact[r].content = graph.artifact[r].content
    BY <1>1, CommitNew
  <1>7. \A k : /\ Referrers(k)' \subseteq Referrers(k) \cup New(t)
               /\ Referrers(k) \subseteq Referrers(k)'
    BY <1>5, <1>6 DEF Referrers
  <1>8. Snapshot(u.snap)'
    BY <1>3, CommitCarries, SnapshotKept DEF InDeletion
  <1>9. LoneDeletion(u) => LoneDeletion(u)'
    <2> SUFFICES ASSUME NEW r \in DOMAIN u.snap.artifact, u.artifacts = {r},
                        LET k == u.snap.artifact[r].content
                        IN k \in DOMAIN graph.content \ (u.contents \cup stranded) =>
                             Referrers(k) \ {r} # {}
                 PROVE  LET k == u.snap.artifact[r].content
                        IN k \in DOMAIN graph'.content \ (u.contents \cup stranded') =>
                             Referrers(k)' \ {r} # {}
      BY DEF LoneDeletion
    <2>1. Settled(u.snap.artifact[r].content)
      BY <1>3 DEF InDeletion, Snapshot
    <2> QED
      BY <1>4, <1>5, <1>7, <2>1
  <1>10. InDeletion(u)'
    BY <1>3, <1>4, <1>7, <1>8, <1>9 DEF InDeletion
  <1> QED
    BY <1>3, <1>10

(* The commit of a call.                                                   *)
LEMMA CommitStep ==
  ASSUME IInv, NEW c \in Call, Commit(c)
  PROVE  IInv'
PROOF
  <1>1. UNCHANGED recall
    BY DEF Commit, others
  <1>2. RecallsInv'
    BY <1>1, CommitCarries, RecallsKept
  <1> QED
    BY <1>2, CommitTypes, CommitStore, CommitTransactions, CommitDeletions DEF IInv
-----------------------------------------------------------------------------
(* A deletion commits: what it read has not changed, its rows go, and what *)
(* else refers to a content keeps it.                                      *)
LEMMA CommitDeleteStep ==
  ASSUME IInv, NEW d \in Deletion, CommitDelete(d)
  PROVE  IInv'
PROOF
  <1>1. PICK t : t = deletion[d]
    OBVIOUS
  <1> DEFINE g == graph.artifact
  <1>2. /\ t.at = "begun" /\ Serializable(t)
        /\ graph' = [graph EXCEPT !.artifact = Minus(@, t.artifacts),
                                  !.content = Minus(@, t.contents),
                                  !.attached = {e \in @ : e[1] \notin t.artifacts /\ e[2] # t.session}]
        /\ sessions' = sessions \ {t.session}
        /\ stranded' = IF t.session = None /\ Deleting = {d}
                       THEN stranded
                       ELSE stranded \cup {g[r].content : r \in t.artifacts}
        /\ deletion' = [deletion EXCEPT ![d] = [IdleDeletion EXCEPT !.at = "done"]]
        /\ UNCHANGED <<objects, before, call, locks, recall, retirements, raced>>
    BY <1>1 DEF CommitDelete
  <1>3. IsStore(graph)
    BY DEF IInv, Types
  <1>4. /\ graph'.artifact = Minus(g, t.artifacts) /\ graph'.content = Minus(graph.content, t.contents)
        /\ graph'.source = graph.source
        /\ graph'.attached = {e \in graph.attached : e[1] \notin t.artifacts /\ e[2] # t.session}
        /\ DOMAIN graph' = DOMAIN graph
    BY <1>2, <1>3 DEF IsStore
  <1>5. /\ IsTable(graph'.artifact, ArtifactRow) /\ DOMAIN graph'.artifact = DOMAIN g \ t.artifacts
        /\ \A r \in DOMAIN g \ t.artifacts : graph'.artifact[r] = g[r]
    <2>1. IsTable(g, ArtifactRow)
      BY <1>3 DEF IsStore
    <2>2. IsTable(Minus(g, t.artifacts), ArtifactRow)
      BY <2>1, MinusTable
    <2> QED
      BY <1>4, <2>2 DEF Minus
  <1>6. /\ IsTable(graph'.content, Hash) /\ DOMAIN graph'.content = DOMAIN graph.content \ t.contents
        /\ \A k \in DOMAIN graph.content \ t.contents : graph'.content[k] = graph.content[k]
    <2>1. IsTable(graph.content, Hash)
      BY <1>3 DEF IsStore
    <2>2. IsTable(Minus(graph.content, t.contents), Hash)
      BY <2>1, MinusTable
    <2> QED
      BY <1>4, <2>2 DEF Minus
  <1>7. \A k : Referrers(k)' = Referrers(k) \ t.artifacts
    BY <1>5 DEF Referrers
  <1>8. InDeletion(t)
    BY <1>1 DEF IInv, Deletions
  <1>9. \A r \in t.artifacts : r \in DOMAIN g /\ g[r] = t.snap.artifact[r]
    <2> SUFFICES ASSUME NEW r \in t.artifacts
                 PROVE  r \in DOMAIN g /\ g[r] = t.snap.artifact[r]
      OBVIOUS
    <2>1. PICK e : e = <<"artifact", r>>
      OBVIOUS
    <2>2. e \in t.read /\ e[1] = "artifact" /\ e[2] = r /\ r \in DOMAIN t.snap.artifact
      BY <1>2, <1>8, <2>1 DEF InDeletion
    <2>3. ~Changed(t.snap, e)
      BY <1>2, <2>2 DEF Serializable
    <2> QED
      BY <2>2, <2>3 DEF Changed
  <1>10. \A r : Settled(r)' <=> Settled(r)
    BY <1>2 DEF Settled
  <1>11. \A r \in DOMAIN graph'.artifact :
           Settled(r) => r \in DOMAIN g /\ Older(g[r], graph'.artifact[r])
    BY <1>5 DEF Older
  <1>12. \A q : IsStore(q) /\ Snapshot(q) => Snapshot(q)'
    BY <1>10, <1>11, SnapshotKept
  <1>13. Types'
    <2>1. IsStore(graph)'
      BY <1>3, <1>4, <1>5, <1>6 DEF IsStore
    <2>2. graph'.attached \subseteq (DOMAIN graph'.artifact) \X sessions'
      BY <1>2, <1>4, <1>5 DEF IInv, Types
    <2>3. DOMAIN deletion' = Deletion
      BY <1>2 DEF IInv, Types
    <2> QED
      BY <1>2, <2>1, <2>2, <2>3 DEF IInv, Types, CallOK
  <1>14. StripesHeld'
    BY <1>2 DEF IInv, StripesHeld, At, Wanted, HeldBy
  <1>15. StoreInv'
    <2>1. StoreInv
      BY DEF IInv
    <2>2. \A r \in DOMAIN graph'.artifact :
            /\ Settled(r)' /\ Settled(graph.artifact[r].content)'
            /\ r \in DOMAIN before' /\ graph'.artifact[r].hash \in objects'
      BY <1>2, <1>5, <1>10, <2>1 DEF StoreInv, Settled
    <2>3. \A k \in DOMAIN graph'.content : Settled(k)'
      BY <1>6, <1>10, <2>1 DEF StoreInv
    <2>4. \A s \in DOMAIN before' : \A r \in before'[s] : Settled(r)'
      BY <1>2, <1>10, <2>1 DEF StoreInv
    <2>5. OneContentPerHash' /\ OneUnnamedPerHash' /\ OneCurrentRevision'
      BY <1>2, <1>5, <1>6, <2>1 DEF StoreInv, OneContentPerHash, OneUnnamedPerHash,
        OneCurrentRevision
    <2>6. ContentKept'
      <3> SUFFICES ASSUME NEW r \in DOMAIN graph'.artifact, r \notin raced
                   PROVE  /\ g[r].content \in DOMAIN graph'.content
                          /\ graph'.content[g[r].content] = g[r].hash
                          /\ g[r].hash \in objects
        BY <1>2, <1>5 DEF ContentKept
      <3>1. /\ g[r].content \in DOMAIN graph.content /\ graph.content[g[r].content] = g[r].hash
            /\ g[r].hash \in objects
        BY <1>5, <2>1 DEF StoreInv, ContentKept
      <3>2. r \in Referrers(g[r].content)
        BY <1>5 DEF Referrers
      <3>3. g[r].content \notin t.contents
        BY <1>2, <1>5, <1>8, <3>2 DEF InDeletion
      <3> QED
        BY <1>6, <3>1, <3>3
    <2>7. NothingStranded'
      <3> SUFFICES ASSUME NEW k \in DOMAIN graph'.content, k \notin stranded',
                          Referrers(k) \subseteq t.artifacts
                   PROVE  FALSE
        BY <1>7 DEF NothingStranded
      <3>1. k \in DOMAIN graph.content /\ k \notin t.contents /\ k \notin stranded
        BY <1>2, <1>6
      <3>2. PICK r \in t.artifacts : g[r].content = k
        BY <2>1, <3>1 DEF StoreInv, NothingStranded, Referrers
      <3>3. t.session = None /\ stranded' = stranded
        BY <1>2, <3>2
      <3>4. t.artifacts = {r} /\ t.snap.artifact[r].content = k
        BY <1>2, <1>8, <1>9, <3>2, <3>3 DEF InDeletion, LoneDeletion
      <3>5. Referrers(k) \ {r} # {}
        BY <1>2, <1>8, <3>1, <3>3, <3>4 DEF InDeletion, LoneDeletion
      <3> QED
        BY <3>4, <3>5
    <2> QED
      BY <2>2, <2>3, <2>4, <2>5, <2>6, <2>7 DEF StoreInv
  <1>16. Transactions'
    <2> SUFFICES ASSUME NEW b \in Call, At(b, "tx")
                 PROVE  Snapshot(call[b].snap)' /\ Fresh(b)' /\ ContentsInTx(b, call[b])'
                        /\ ArtifactsInTx(b, call[b])'
      BY <1>2 DEF Transactions, InTransaction, At
    <2>1. Snapshot(call[b].snap) /\ Fresh(b) /\ ContentsInTx(b, call[b]) /\ ArtifactsInTx(b, call[b])
      BY DEF IInv, Transactions, InTransaction
    <2>2. (\A z : Guarded(b, z)' <=> Guarded(b, z)) /\ \A r : Own(b, r)' <=> Own(b, r)
      BY <1>2 DEF Guarded, Wanted, Own
    <2>3. Snapshot(call[b].snap)'
      <3>1. PICK q : q = call[b].snap
        OBVIOUS
      <3>2. IsStore(q) /\ Snapshot(q)
        BY <2>1, <3>1 DEF IInv, Types, CallOK
      <3> QED
        BY <1>2, <1>12, <3>1, <3>2
    <2>4. Fresh(b)'
      BY <1>2, <1>5, <1>6, <2>1, <2>2 DEF Fresh
    <2>5. ContentsInTx(b, call[b])'
      BY <1>2, <2>1, <2>2 DEF ContentsInTx, New
    <2>6. ArtifactsInTx(b, call[b])'
      BY <1>2, <2>1, <2>2 DEF ArtifactsInTx, NewArtifact, New
    <2> QED
      BY <2>3, <2>4, <2>5, <2>6
  <1>17. Deletions'
    <2> SUFFICES ASSUME NEW e \in Deletion
                 PROVE  InDeletion(deletion[e])'
      BY DEF Deletions
    <2>1. CASE e = d
      <3>1. deletion'[d].at = "done"
        BY <1>2 DEF IInv, Types, IdleDeletion
      <3> QED
        BY <2>1, <3>1 DEF InDeletion
    <2>2. CASE e # d
      <3>1. PICK u : u = deletion[e]
        OBVIOUS
      <3>2. InDeletion(u) /\ deletion'[e] = u
        BY <1>2, <2>2, <3>1 DEF IInv, Deletions, Types
      <3>3. SUFFICES ASSUME u.at = "begun"
                     PROVE  InDeletion(u)'
        BY <3>2 DEF InDeletion
      <3>4. Deleting # {d}
        BY <2>2, <3>1, <3>3 DEF Deleting
      <3>5. stranded' = stranded \cup {g[r].content : r \in t.artifacts}
        BY <1>2, <3>4
      <3>6. Snapshot(u.snap)' /\ IsStore(u.snap)
        BY <1>12, <3>2, <3>3 DEF InDeletion
      <3>7. \A k \in u.contents : Referrers(k)' \subseteq u.artifacts \cup raced'
        BY <1>2, <1>7, <3>2, <3>3 DEF InDeletion
      <3>8. LoneDeletion(u) => LoneDeletion(u)'
        <4> SUFFICES ASSUME NEW r \in DOMAIN u.snap.artifact, u.artifacts = {r}, NEW k,
                            k = u.snap.artifact[r].content,
                            k \in DOMAIN graph.content \ (u.contents \cup stranded) =>
                              Referrers(k) \ {r} # {},
                            k \in DOMAIN graph'.content \ (u.contents \cup stranded')
                     PROVE  Referrers(k)' \ {r} # {}
          BY DEF LoneDeletion
        <4>1. k \in DOMAIN graph.content \ (u.contents \cup stranded)
          BY <1>6, <3>5
        <4>2. PICK s \in Referrers(k) : s # r
          BY <4>1
        <4>3. s \notin t.artifacts
          BY <3>5, <4>2 DEF Referrers
        <4> QED
          BY <1>7, <4>2, <4>3
      <3> QED
        BY <3>2, <3>3, <3>6, <3>7, <3>8 DEF InDeletion
    <2> QED
      BY <2>1, <2>2
  <1>18. RecallsInv'
    BY <1>2, <1>10, <1>11, RecallsKept
  <1> QED
    BY <1>13, <1>14, <1>15, <1>16, <1>17, <1>18 DEF IInv

(* No step leaves the invariant.                                           *)
LEMMA StepIInv ==
  ASSUME IInv, [Next]_vars
  PROVE  IInv'
PROOF
  <1>1. CASE UNCHANGED vars
    <2>1. Types' /\ StripesHeld' /\ StoreInv' /\ Transactions'
      BY <1>1, StoreKept DEF vars, IInv, Types, CallOK
    <2>2. Deletions'
      <3> SUFFICES ASSUME NEW d \in Deletion
                   PROVE  InDeletion(deletion[d])'
        BY DEF Deletions
      <3>1. PICK t : t = deletion[d]
        OBVIOUS
      <3>2. InDeletion(t)'
        BY <1>1, <3>1, DeletionsKept DEF vars, IInv, Deletions
      <3> QED
        BY <1>1, <3>1, <3>2 DEF vars
    <2>3. RecallsInv'
      BY <1>1 DEF vars, IInv, RecallsInv, InRecall, Settled, NotExcluded, Restricted
    <2> QED
      BY <2>1, <2>2, <2>3 DEF IInv
  <1>2. ASSUME NEW c \in Call, Ingests(c)
        PROVE  IInv'
    <2>1. CASE Begin(c) \/ Prepare(c) \/ Lock(c) \/ BeginTx(c) \/ Commit(c) \/ Conflict(c)
      BY <2>1, BeginStep, PrepareStep, LockStep, BeginTxStep, CommitStep, ConflictStep
    <2>2. CASE MemoHit(c) \/ Dedup(c) \/ Create(c)
      BY <2>2, MemoHitStep, DedupStep, CreateStep
    <2>3. CASE MemoConflict(c) \/ NameConflict(c) \/ RevisionConflict(c)
      <3>1. call[c].at # "done" /\ Ends(c, "conflict")
            /\ UNCHANGED <<graph, sessions, objects, before, others, raced, stranded>>
        BY <2>3 DEF MemoConflict, NameConflict, RevisionConflict, InTx, At
      <3> QED
        BY <3>1, EndsStep
    <2>4. CASE Fails(c)
      <3>1. call[c].at # "done" /\ Ends(c, "failed")
            /\ UNCHANGED <<graph, sessions, objects, before, others, raced, stranded>>
        BY <2>4 DEF Fails
      <3> QED
        BY <3>1, EndsStep
    <2> QED
      BY <1>2, <2>1, <2>2, <2>3, <2>4 DEF Ingests, Applies
  <1>3. ASSUME NEW d \in Deletion, Deletes(d)
        PROVE  IInv'
    BY <1>3, BeginDeleteArtifactStep, BeginDeleteSessionStep, CommitDeleteStep, AbortDeleteStep
      DEF Deletes
  <1>4. ASSUME NEW q \in Recaller, Recalls(q)
        PROVE  IInv'
    BY <1>4, BeginRecallStep, ReadSupersededStep, AllowStep, SearchStep DEF Recalls
  <1>5. ASSUME NEW p \in Source, SetRetired(p, TRUE) \/ SetRetired(p, FALSE)
        PROVE  IInv'
    BY <1>5, SetRetiredStep
  <1> QED
    BY <1>1, <1>2, <1>3, <1>4, <1>5 DEF Next

(* Always, whatever calls, deletions and recalls overlap.                  *)
THEOREM Invariance == Spec => []IInv
PROOF
  <1>1. Init => IInv
    BY InitIInv
  <1>2. IInv /\ [Next]_vars => IInv'
    BY StepIInv
  <1> QED
    BY <1>1, <1>2, PTL DEF Spec

(* The store and the tasks keep their types.                               *)
THEOREM TypeCorrect == Spec => []TypeOK
PROOF
  <1>1. IInv => TypeOK
    <2> SUFFICES ASSUME IInv
                 PROVE  TypeOK
      OBVIOUS
    <2>1. Types
      BY DEF IInv
    <2>2. \A r \in DOMAIN graph.artifact :
            /\ r \in Row /\ graph.artifact[r].hash \in Hash
            /\ graph.artifact[r].content \in Row /\ graph.artifact[r].current \in BOOLEAN
      BY <2>1 DEF Types, IsStore, IsTable, ArtifactRow
    <2>3. \A r \in DOMAIN graph.content : r \in Row /\ graph.content[r] \in Hash
      BY <2>1 DEF Types, IsStore, IsTable
    <2>4. \A r \in DOMAIN graph.source : r \in Row /\ graph.source[r].retired \in BOOLEAN
      BY <2>1 DEF Types, IsStore, IsTable, SourceRow
    <2>5. \A c \in Call :
            /\ call[c].at \in {"idle", "prepare", "tx", "done", "conflict", "failed"}
            /\ call[c].attempts \in 0..MaxAttempts
      BY <2>1 DEF Types, CallOK
    <2> QED
      BY <2>1, <2>2, <2>3, <2>4, <2>5 DEF TypeOK, Types
  <1> QED
    BY <1>1, Invariance, PTL

(* Bytes are stored once.                                                  *)
THEOREM ContentIsStoredOnce == Spec => []OneContentPerHash
PROOF
  <1>1. IInv => OneContentPerHash
    BY DEF IInv, StoreInv
  <1> QED
    BY <1>1, Invariance, PTL

(* Two Artifacts without a caller's id never share their bytes.            *)
THEOREM UnnamedAreUnique == Spec => []OneUnnamedPerHash
PROOF
  <1>1. IInv => OneUnnamedPerHash
    BY DEF IInv, StoreInv
  <1> QED
    BY <1>1, Invariance, PTL

(* An Artifact can be read back, unless a deletion was under way when it   *)
(* was committed.                                                          *)
THEOREM ContentIsKept == Spec => []ContentKept
PROOF
  <1>1. IInv => ContentKept
    BY DEF IInv, StoreInv
  <1> QED
    BY <1>1, Invariance, PTL

(* No bytes are kept for nobody, unless deletions overlapped.              *)
THEOREM NothingIsStranded == Spec => []NothingStranded
PROOF
  <1>1. IInv => NothingStranded
    BY DEF IInv, StoreInv
  <1> QED
    BY <1>1, Invariance, PTL

(* Two current revisions of a source never saw each other.                 *)
THEOREM OneRevisionIsCurrent == Spec => []OneCurrentRevision
PROOF
  <1>1. IInv => OneCurrentRevision
    BY DEF IInv, StoreInv
  <1> QED
    BY <1>1, Invariance, PTL

(* What was superseded or retired when a recall began never grounds it.    *)
THEOREM RecallStaysCurrent == Spec => []RecallIsCurrent
PROOF
  <1>1. IInv => RecallIsCurrent
    BY DEF IInv, RecallsInv, InRecall, RecallIsCurrent
  <1> QED
    BY <1>1, Invariance, PTL
-----------------------------------------------------------------------------
(* Call c cannot go on before d gives a stripe back.                       *)
Waiting(c) == At(c, "prepare") /\ Prepared(c) /\ HeldBy(c) # Wanted(c)
NextStripe(c) == Min(Wanted(c) \ HeldBy(c))
WaitsFor(c, d) == Waiting(c) /\ locks[NextStripe(c)] = d

(* No calls wait for each other's content stripes in a circle: lock_many   *)
(* takes the stripes of a unit in ascending order, whatever the order of   *)
(* its attachments and however their hashes collide.                       *)
NoCircularWait ==
  \A C \in SUBSET Call :
    C # {} /\ IsFiniteSet(C) => \E c \in C : \A d \in C : ~WaitsFor(c, d)

(* The stripes a call holds are the lowest of those it wants, through all  *)
(* of its attempts, and it holds none before it has a unit.                *)
Lowest(held, wanted) == held \subseteq wanted /\ \A s \in held, u \in wanted \ held : s < u
InOrder(c) ==
  /\ Lowest(HeldBy(c), Wanted(c))
  /\ At(c, "idle") => HeldBy(c) = {}
OrderInv == \A c \in Call : InOrder(c)

(* A set of numbers that is not empty has a least.                         *)
LEMMA LeastExists ==
  ASSUME NEW S \in SUBSET Nat, S # {}
  PROVE  Min(S) \in S /\ \A y \in S : Min(S) <= y
PROOF
  <1>1. PICK m \in S : \A y \in S : ~(<<y, m>> \in OpToRel(<, Nat))
    BY WFMin, NatLessThanWellFounded
  <1>2. ASSUME NEW y \in S, y < m
        PROVE  FALSE
    <2>1. <<y, m>> \in OpToRel(<, Nat)
      BY <1>2 DEF OpToRel
    <2> QED
      BY <1>1, <2>1
  <1>3. \A y \in S : m <= y
    BY <1>2
  <1> QED
    BY <1>3 DEF Min

(* Of finitely many one has the greatest number: the one above which there *)
(* are the fewest.                                                         *)
LEMMA GreatestExists ==
  ASSUME NEW C, IsFiniteSet(C), C # {}, NEW f \in [C -> Nat]
  PROVE  \E c \in C : \A d \in C : f[d] <= f[c]
PROOF
  <1> DEFINE Above(c) == {d \in C : f[c] < f[d]}
             Sets == {Above(c) : c \in C}
  <1>1. Sets \subseteq FiniteSubsetsOf(C) /\ Sets # {}
    <2>1. FiniteSubsetsOf(C) = SUBSET C
      BY FS_FiniteSubsetsOfFinite
    <2>2. \A c \in C : Above(c) \in SUBSET C
      OBVIOUS
    <2> HIDE DEF Above
    <2> QED
      BY <2>1, <2>2
  <1>2. PICK T \in Sets : \A U \in Sets : ~(<<U, T>> \in StrictSubsetOrdering(C))
    BY <1>1, FS_StrictSubsetOrderingWellFounded, WFMin
  <1>3. PICK c \in C : T = Above(c)
    BY <1>2
  <1>4. ASSUME NEW d \in C, ~(f[d] <= f[c])
        PROVE  FALSE
    <2>1. f[c] \in Nat /\ f[d] \in Nat /\ f[c] < f[d]
      BY <1>4
    <2>2. Above(d) \subseteq T /\ d \in T /\ d \notin Above(d)
      BY <1>3, <2>1
    <2>3. Above(d) \in SUBSET C /\ T \in SUBSET C
      BY <1>3
    <2>4. <<Above(d), T>> \in StrictSubsetOrdering(C)
      BY <2>2, <2>3 DEF StrictSubsetOrdering
    <2> QED
      BY <1>2, <2>4
  <1> QED
    BY <1>4

(* What a call wants are stripes.                                          *)
LEMMA WantedStripes ==
  ASSUME IInv, NEW c \in Call
  PROVE  Wanted(c) \subseteq Stripes /\ Wanted(c) \in SUBSET Nat
PROOF
  <1>1. \A i \in DOMAIN call[c].unit : call[c].unit[i].hash \in Hash
    BY Attachments
  <1> QED
    BY <1>1, ArtifactStoreAssumption DEF Wanted, Stripes

(* The next stripe of a call that waits is the lowest it does not hold.    *)
LEMMA NextIsLowest ==
  ASSUME IInv, OrderInv, NEW c \in Call, HeldBy(c) # Wanted(c)
  PROVE  /\ NextStripe(c) \in Wanted(c) \ HeldBy(c)
         /\ \A u \in Wanted(c) \ HeldBy(c) : NextStripe(c) <= u
PROOF
  <1>1. Wanted(c) \ HeldBy(c) \in SUBSET Nat /\ Wanted(c) \ HeldBy(c) # {}
    BY WantedStripes DEF OrderInv, InOrder, Lowest
  <1>2. PICK rest : rest = Wanted(c) \ HeldBy(c)
    OBVIOUS
  <1>3. Min(rest) \in rest /\ \A u \in rest : Min(rest) <= u
    BY <1>1, <1>2, LeastExists
  <1> QED
    BY <1>2, <1>3 DEF NextStripe

(* A step that takes and gives back no stripe, and leaves every unit.      *)
LEMMA NoStripeMoves ==
  ASSUME OrderInv, UNCHANGED locks,
         \A c \in Call : call'[c].unit = call[c].unit /\ (At(c, "idle")' => At(c, "idle"))
  PROVE  OrderInv'
PROOF
  <1> SUFFICES ASSUME NEW c \in Call
               PROVE  InOrder(c)'
    BY DEF OrderInv
  <1>1. InOrder(c)
    BY DEF OrderInv
  <1>2. HeldBy(c)' = HeldBy(c) /\ Wanted(c)' = Wanted(c)
    BY DEF HeldBy, Wanted
  <1> QED
    BY <1>1, <1>2 DEF InOrder

(* A call takes the lowest stripe it is missing.                           *)
LEMMA LockInOrder ==
  ASSUME IInv, OrderInv, NEW c \in Call, Lock(c)
  PROVE  OrderInv'
PROOF
  <1>1. PICK s : s = NextStripe(c)
    OBVIOUS
  <1>2. /\ HeldBy(c) # Wanted(c) /\ At(c, "prepare")
        /\ locks[s] = None /\ locks' = [locks EXCEPT ![s] = c] /\ call' = call
    BY <1>1 DEF Lock, NextStripe
  <1>3. s \in Wanted(c) \ HeldBy(c) /\ \A u \in Wanted(c) \ HeldBy(c) : s <= u
    BY <1>1, <1>2, NextIsLowest
  <1>4. Wanted(c) \in SUBSET Nat /\ s \in Stripes /\ DOMAIN locks = Stripes
    BY <1>3, WantedStripes DEF IInv, Types
  <1>5. HeldBy(c)' = HeldBy(c) \cup {s}
    BY <1>2, <1>4 DEF HeldBy
  <1>6. \A b \in Call \ {c} : HeldBy(b)' = HeldBy(b)
    BY <1>2, <1>4, ArtifactStoreAssumption DEF HeldBy
  <1>7. \A b \in Call : Wanted(b)' = Wanted(b) /\ (At(b, "idle")' <=> At(b, "idle"))
    BY <1>2 DEF Wanted, At
  <1>8. InOrder(c)'
    <2>1. Lowest(HeldBy(c), Wanted(c))
      BY DEF OrderInv, InOrder
    <2>2. \A u \in Wanted(c) \ (HeldBy(c) \cup {s}) : s < u
      BY <1>3, <1>4
    <2>3. Lowest(HeldBy(c) \cup {s}, Wanted(c))
      BY <1>3, <2>1, <2>2 DEF Lowest
    <2>4. ~At(c, "idle")
      BY <1>2 DEF At
    <2> QED
      BY <1>5, <1>7, <2>3, <2>4 DEF InOrder
  <1>9. \A b \in Call \ {c} : InOrder(b)'
    BY <1>6, <1>7 DEF OrderInv, InOrder
  <1> QED
    BY <1>8, <1>9 DEF OrderInv

(* A call that ends gives back all it holds, and nothing else.             *)
LEMMA EndsInOrder ==
  ASSUME IInv, OrderInv, NEW c \in Call, NEW how, Ends(c, how)
  PROVE  OrderInv'
PROOF
  <1>1. locks' = Released(c) /\ DOMAIN call = Call /\ \A b \in Call \ {c} : call'[b] = call[b]
    BY DEF Ends, IInv, Types
  <1>2. HeldBy(c)' = {} /\ \A b \in Call \ {c} : HeldBy(b)' = HeldBy(b)
    BY <1>1, ArtifactStoreAssumption DEF HeldBy, Released
  <1>3. InOrder(c)'
    BY <1>2 DEF InOrder, Lowest
  <1>4. \A b \in Call \ {c} : Wanted(b)' = Wanted(b) /\ (At(b, "idle")' <=> At(b, "idle"))
    BY <1>1 DEF Wanted, At
  <1>5. \A b \in Call \ {c} : InOrder(b)'
    BY <1>2, <1>4 DEF OrderInv, InOrder
  <1> QED
    BY <1>3, <1>5 DEF OrderInv

(* A call takes up a unit; it holds nothing yet.                           *)
LEMMA BeginInOrder ==
  ASSUME IInv, OrderInv, NEW c \in Call, Begin(c)
  PROVE  OrderInv'
PROOF
  <1>1. At(c, "idle") /\ locks' = locks /\ \A b \in Call \ {c} : call'[b] = call[b]
    BY DEF Begin, IInv, Types
  <1>2. \A b \in Call : HeldBy(b)' = HeldBy(b)
    BY <1>1 DEF HeldBy
  <1>3. HeldBy(c) = {}
    BY <1>1 DEF OrderInv, InOrder
  <1>4. InOrder(c)'
    BY <1>2, <1>3 DEF InOrder, Lowest
  <1>5. \A b \in Call \ {c} : Wanted(b)' = Wanted(b) /\ (At(b, "idle")' <=> At(b, "idle"))
    BY <1>1 DEF Wanted, At
  <1>6. \A b \in Call \ {c} : InOrder(b)'
    BY <1>2, <1>5 DEF OrderInv, InOrder
  <1> QED
    BY <1>4, <1>6 DEF OrderInv

(* The steps between the locks and the end of a call leave its unit.       *)
LEMMA UnitKept ==
  ASSUME IInv, NEW c \in Call,
         Prepare(c) \/ BeginTx(c) \/ Conflict(c) \/ MemoHit(c) \/ Dedup(c) \/ Create(c)
  PROVE  /\ call'[c].unit = call[c].unit /\ call'[c].at # "idle"
         /\ \A b \in Call \ {c} : call'[b] = call[b]
PROOF
  <1>1. /\ DOMAIN call = Call
        /\ DOMAIN call[c] = {"at", "unit", "next", "attempts", "snap", "tx", "read", "seen"}
    BY DEF IInv, Types, CallOK
  <1>2. CASE Prepare(c)
    BY <1>1, <1>2 DEF Prepare, At
  <1>3. CASE BeginTx(c)
    BY <1>1, <1>3 DEF BeginTx
  <1>4. CASE Conflict(c)
    BY <1>1, <1>4 DEF Conflict, Idle
  <1>5. CASE MemoHit(c) \/ Dedup(c)
    <2>1. At(c, "tx") /\ \E r, under, matched : Linked(c, r, under, matched)
      BY <1>5 DEF MemoHit, Dedup, InTx
    <2>2. PICK attached, read, seen :
            call' = [call EXCEPT ![c].next = @ + 1, ![c].tx.attached = attached,
                                 ![c].read = read, ![c].seen = seen]
      BY <2>1, Zenon DEF Linked
    <2> QED
      BY <1>1, <2>1, <2>2 DEF At
  <1>6. CASE Create(c)
    <2>1. call'[c].at = "tx" /\ call'[c].unit = call[c].unit
          /\ \A b \in Call \ {c} : call'[b] = call[b]
      BY <1>6, CreateParts, Zenon
    <2> QED
      BY <2>1
  <1> QED
    BY <1>2, <1>3, <1>4, <1>5, <1>6

(* No step takes a stripe out of order.                                    *)
LEMMA StepInOrder ==
  ASSUME IInv, OrderInv, [Next]_vars
  PROVE  OrderInv'
PROOF
  <1>1. CASE UNCHANGED <<call, locks>>
    BY <1>1, NoStripeMoves DEF At
  <1>2. ASSUME NEW c \in Call, Ingests(c)
        PROVE  OrderInv'
    <2>1. CASE Begin(c) \/ Lock(c)
      BY <2>1, BeginInOrder, LockInOrder
    <2>2. CASE Commit(c) \/ MemoConflict(c) \/ NameConflict(c) \/ RevisionConflict(c) \/ Fails(c)
      <3>1. Ends(c, "done") \/ Ends(c, "conflict") \/ Ends(c, "failed")
        BY <2>2 DEF Commit, MemoConflict, NameConflict, RevisionConflict, Fails
      <3> QED
        BY <3>1, EndsInOrder
    <2>3. CASE Prepare(c) \/ BeginTx(c) \/ Conflict(c) \/ MemoHit(c) \/ Dedup(c) \/ Create(c)
      <3>1. locks' = locks
        BY <2>3 DEF Prepare, BeginTx, Conflict, MemoHit, Dedup, Create
      <3>2. /\ call'[c].unit = call[c].unit /\ call'[c].at # "idle"
            /\ \A b \in Call \ {c} : call'[b] = call[b]
        BY <2>3, UnitKept
      <3> QED
        BY <3>1, <3>2, NoStripeMoves DEF At
    <2> QED
      BY <1>2, <2>1, <2>2, <2>3 DEF Ingests, Applies
  <1>3. ASSUME NEW d \in Deletion, Deletes(d)
        PROVE  UNCHANGED <<call, locks>>
    BY <1>3 DEF Deletes, BeginDeleteArtifact, BeginDeleteSession, CommitDelete, AbortDelete
  <1>4. ASSUME NEW q \in Recaller, Recalls(q)
        PROVE  UNCHANGED <<call, locks>>
    BY <1>4 DEF Recalls, BeginRecall, ReadSuperseded, Allow, Search
  <1>5. ASSUME NEW p \in Source, SetRetired(p, TRUE) \/ SetRetired(p, FALSE)
        PROVE  UNCHANGED <<call, locks>>
    BY <1>5 DEF SetRetired
  <1> QED
    BY <1>1, <1>2, <1>3, <1>4, <1>5 DEF Next, vars

(* Whoever waits for a call that waits too asks for a lower stripe.        *)
LEMMA WaitingAscends ==
  ASSUME IInv, OrderInv, NEW c \in Call, NEW d \in Call, WaitsFor(c, d), Waiting(d)
  PROVE  NextStripe(c) < NextStripe(d)
PROOF
  <1>1. NextStripe(c) \in Wanted(c) /\ locks[NextStripe(c)] = d
    BY NextIsLowest DEF WaitsFor, Waiting
  <1>2. NextStripe(c) \in HeldBy(d)
    BY <1>1, WantedStripes DEF HeldBy
  <1>3. NextStripe(d) \in Wanted(d) \ HeldBy(d)
    BY NextIsLowest DEF Waiting
  <1> QED
    BY <1>2, <1>3 DEF OrderInv, InOrder, Lowest

(* So in a circle nobody would ask for the greatest stripe.                *)
LEMMA NoCircle ==
  ASSUME IInv, OrderInv
  PROVE  NoCircularWait
PROOF
  <1> SUFFICES ASSUME NEW C \in SUBSET Call, C # {}, IsFiniteSet(C),
                      \A c \in C : \E d \in C : WaitsFor(c, d)
               PROVE  FALSE
    BY DEF NoCircularWait
  <1>1. \A c \in C : Waiting(c)
    BY DEF WaitsFor
  <1>2. \A c \in C : NextStripe(c) \in Nat
    BY <1>1, NextIsLowest, WantedStripes DEF Waiting
  <1>3. PICK f \in [C -> Nat] : \A c \in C : f[c] = NextStripe(c)
    <2>1. [c \in C |-> NextStripe(c)] \in [C -> Nat]
      BY <1>2
    <2> QED
      BY <2>1
  <1>4. PICK c \in C : \A d \in C : f[d] <= f[c]
    BY GreatestExists
  <1>5. PICK d \in C : WaitsFor(c, d)
    OBVIOUS
  <1>6. f[c] < f[d]
    BY <1>1, <1>3, <1>5, WaitingAscends
  <1> QED
    BY <1>3, <1>4, <1>6

(* The content stripes never close a circle of waiting calls, however many *)
(* calls there are and however many stripes their units want.              *)
THEOREM WaitsAreNeverCircular == Spec => []NoCircularWait
PROOF
  <1>1. Init => OrderInv
    BY ArtifactStoreAssumption DEF Init, OrderInv, InOrder, Lowest, HeldBy
  <1>2. IInv /\ OrderInv /\ [Next]_vars => OrderInv'
    BY StepInOrder
  <1>3. IInv /\ OrderInv => NoCircularWait
    BY NoCircle
  <1> QED
    BY <1>1, <1>2, <1>3, Invariance, PTL DEF Spec
=============================================================================
