-------------------------- MODULE ProceduresProofs --------------------------
(***************************************************************************)
(* Proofs about Procedures, for any episodes, tasks, actions, timestamps   *)
(* and thresholds, as long as record_episode generates the ids (with ids   *)
(* of its own a caller may record an episode twice).                       *)
(***************************************************************************)
EXTENDS Procedures, FiniteSetTheorems, TLAPS

(* The edges that are there and those that calls are going to create.      *)
Linking(c) == recorder[c].at \in {"merge", "attach", "follow"} /\ recorder[c].prev # None
Link(c) == <<recorder[c].prev, recorder[c].id>>
Pending == {Link(c) : c \in {d \in Recorder : Linking(d)}}
Graph == Follows \cup Pending

(* An id is used by one call, which finds no node and leaves one.          *)
CallInv ==
  /\ Stored \subseteq begun
  /\ \A e \in Stored : episode[e].recorded <= 1
  /\ \A c \in Recorder : recorder[c].at # "idle" =>
       /\ recorder[c].id \in begun /\ recorder[c].stamp \in 1..MaxStamp
       /\ recorder[c].prev \in begun \cup {None}
       /\ recorder[c].at = "look" => recorder[c].prev = None
       /\ recorder[c].at = "follow" => recorder[c].prev # None
       /\ recorder[c].at \in {"look", "merge"} => recorder[c].id \notin Stored
       /\ recorder[c].at = "attach" /\ recorder[c].id \in Stored => episode[recorder[c].id].recorded = 0
       /\ \A d \in Recorder : recorder[d].at # "idle" /\ recorder[d].id = recorder[c].id => d = c

(* What calls and updates remember is of its type, and edges have ends.    *)
TypeInv ==
  /\ \A c \in Recorder : recorder[c].at # "idle" =>
       /\ recorder[c].id \in Episode /\ recorder[c].stamp \in 1..MaxStamp
       /\ recorder[c].at = "follow" => recorder[c].prev \in Episode
  /\ worker.at = "write" => worker.pair \in Pair
  /\ \A u \in User : user[u].at = "write" => user[u].pair \in Pair /\ user[u].snap \in Procedure
  /\ \A l \in Follows : {l[1], l[2]} \subseteq Stored
  /\ IsFiniteSet(Follows) /\ IsFiniteSet(linked)

(* An edge leads from an episode that was recorded when its successor was  *)
(* not there yet, which makes the graph one of chains that only grow at    *)
(* their ends.                                                             *)
EdgeInv == \A l \in Follows : {l[1], l[2]} \subseteq Stored /\ l \in linked /\ followed[l] = 1

FrontInv ==
  \A c \in Recorder :
    /\ recorder[c].at = "look" => \A l \in Graph : l[2] # recorder[c].id
    /\ recorder[c].at \in {"look", "merge", "attach"} => \A l \in Graph : l[1] # recorder[c].id
    /\ recorder[c].at \in {"merge", "attach", "follow"} => \A l \in Follows : l[2] # recorder[c].id

ChainInv ==
  /\ \A l \in Graph : l[1] # l[2]
  /\ \A l, m \in Graph : l[2] = m[2] => l = m
  /\ \A S \in SUBSET Episode : S # {} => \E e \in S : \A d \in S : <<d, e>> \notin Graph

(* Timestamps along the edges.                                             *)
StampInv ==
  /\ \A l \in Follows : episode[l[1]].stamp <= episode[l[2]].stamp
  /\ \A c \in Recorder :
       /\ Linking(c) /\ recorder[c].prev \in Stored =>
            episode[recorder[c].prev].stamp <= recorder[c].stamp
       /\ recorder[c].at \in {"attach", "follow"} /\ recorder[c].id \in Stored =>
            episode[recorder[c].id].stamp = recorder[c].stamp
-----------------------------------------------------------------------------
(* The parts that a step of a call leaves alone.                           *)
LEMMA PairsAreActions ==
  ASSUME NEW l \in Episode \X Episode
  PROVE  <<ActionOf[l[1]], ActionOf[l[2]]>> \in Pair
PROOF
  <1> QED
    BY DEF Pair, Action

(* A node is there.                                                        *)
LEMMA NodesAreNodes == \A n \in Node : n # None
PROOF
  <1>1. \A n \in Node : n \in [stamp : Nat, recorded : Nat]
    BY ProceduresAssumption DEF Node
  <1> QED
    BY <1>1, ProceduresAssumption

LEMMA FiniteTriples ==
  ASSUME NEW A, NEW B, NEW C, IsFiniteSet(A), IsFiniteSet(B), IsFiniteSet(C)
  PROVE  IsFiniteSet(A \X B \X C)
PROOF
  <1> DEFINE P == A \X B
             Q == P \X C
             T == A \X B \X C
             f == [x \in Q |-> <<x[1][1], x[1][2], x[2]>>]
  <1>1. IsFiniteSet(P)
    BY FS_Product
  <1>2. IsFiniteSet(Q)
    <2> HIDE DEF P
    <2> QED
      BY <1>1, FS_Product
  <1>3. f \in Surjection(Q, T)
    <2>1. \A x \in Q : <<x[1][1], x[1][2], x[2]>> \in T
      OBVIOUS
    <2>2. \A t \in T : \E x \in Q : <<x[1][1], x[1][2], x[2]>> = t
      <3> SUFFICES ASSUME NEW a \in A, NEW b \in B, NEW c \in C
                   PROVE  \E x \in Q : <<x[1][1], x[1][2], x[2]>> = <<a, b, c>>
        OBVIOUS
      <3> WITNESS <<<<a, b>>, c>> \in Q
      <3> QED
        OBVIOUS
    <2>3. f \in [Q -> T] /\ \A t \in T : \E x \in Q : f[x] = t
      BY <2>1, <2>2
    <2> HIDE DEF f, Q, T
    <2> QED
      BY <2>3 DEF Surjection
  <1> HIDE DEF f, Q, T
  <1>4. IsFiniteSet(T)
    BY <1>2, <1>3, FS_Surjection
  <1> QED
    BY <1>4 DEF T

LEMMA InitTypes == Init => TypeOK
PROOF
  <1>0. MaxStamp \in Nat /\ MaxUses \in Nat /\ MaxFaults \in Nat
    BY ProceduresAssumption
  <1>1. NoCall \in Call
    BY <1>0 DEF NoCall, Call
  <1>2. NoUse \in Use
    BY DEF NoUse, Use
  <1>3. NoSweep \in Worker
    BY DEF NoSweep, Worker
  <1> QED
    BY <1>0, <1>1, <1>2, <1>3 DEF Init, TypeOK

(* What sequence_detector yields is finite, and counted by a number.       *)
LEMMA RowsAreFinite ==
  ASSUME TypeOK, IsFiniteSet(Follows), NEW p,
         \A l \in Follows : l[1] \in Stored
  PROVE  IsFiniteSet(Rows(p)) /\ Count(p) \in Nat
PROOF
  <1> DEFINE B == [l \in Links(p) |-> {l} \X (1..followed[l]) \X (1..episode[l[1]].recorded)]
             R == {B[l] : l \in Links(p)}
  <1>1. Links(p) \in SUBSET Follows
    BY DEF Links, Follows
  <1>2. IsFiniteSet(Links(p))
    BY <1>1, FS_Subset
  <1>3. B \in Surjection(Links(p), R)
    BY DEF Surjection
  <1>4. IsFiniteSet(R)
    <2> HIDE DEF B, R
    <2> QED
      BY <1>2, <1>3, FS_Surjection
  <1>5. \A l \in Links(p) : IsFiniteSet(B[l])
    <2> SUFFICES ASSUME NEW l \in Links(p) PROVE IsFiniteSet(B[l])
      OBVIOUS
    <2>1. l \in Episode \X Episode /\ l[1] \in Stored
      BY <1>1 DEF Links, TypeOK
    <2>2. followed[l] \in Nat /\ episode[l[1]].recorded \in Nat
      BY <2>1 DEF TypeOK, Stored, Node
    <2>3. IsFiniteSet(1..followed[l]) /\ IsFiniteSet(1..episode[l[1]].recorded)
      <3>1. \A n \in Nat : IsFiniteSet(1..n)
        BY FS_Interval
      <3> QED
        BY <2>2, <3>1
    <2>4. IsFiniteSet({l} \X (1..followed[l]) \X (1..episode[l[1]].recorded))
      BY <2>3, FS_Singleton, FiniteTriples
    <2> QED
      BY <2>4
  <1>6. IsFiniteSet(UNION R)
    <2>1. \A T \in R : IsFiniteSet(T)
      BY <1>5
    <2> HIDE DEF B, R
    <2> QED
      BY <1>4, <2>1, FS_UNION
  <1>7. Rows(p) = UNION R
    BY DEF Rows
  <1> QED
    BY <1>6, <1>7, FS_CardinalityType DEF Count
-----------------------------------------------------------------------------
(* Types, for callers that record again as well.                           *)
LEMMA MergedTypes ==
  ASSUME NEW q \in Procedure \cup {None}, NEW n \in Nat
  PROVE  /\ Upserted(q, n) \in Procedure
         /\ Upserted(q, n).status # "candidate" =>
              n >= Promote \/ (q # None /\ q.status # "candidate")
PROOF
  <1>0. Promote \in Nat
    BY ProceduresAssumption
  <1> DEFINE old == IF q = None THEN NoProcedure ELSE q
             status == IF old.status = "candidate" /\ n >= Promote THEN "active" ELSE old.status
  <1>1. old \in Procedure
    BY DEF NoProcedure, Procedure, Status
  <1>2. status \in Status /\ (status # "candidate" => n >= Promote \/ old.status # "candidate")
    <2> HIDE DEF old
    <2> QED
      BY <1>1 DEF Procedure, Status
  <1>3. Upserted(q, n) = Merged(old, n, status)
    BY DEF Upserted
  <1>4. Merged(old, n, status) \in Procedure /\ Merged(old, n, status).status = status
    <2> HIDE DEF old, status
    <2> QED
      BY <1>1, <1>2 DEF Merged, AtLeast, Procedure
  <1>5. old.status # "candidate" => q # None /\ q.status # "candidate"
    BY DEF NoProcedure
  <1> HIDE DEF old, status
  <1> QED
    BY <1>2, <1>3, <1>4, <1>5

LEMMA UsedTypes ==
  ASSUME NEW q \in Procedure, NEW ok \in BOOLEAN
  PROVE  Used(q, ok) \in Procedure
         /\ (Used(q, ok).status = "candidate" <=> q.status = "candidate")
PROOF
  <1> DEFINE c == Counted(q, ok)
  <1>1. c \in Procedure /\ c.status = q.status
    <2> DEFINE success == IF ok THEN q.success + 1 ELSE q.success
               failure == IF ok THEN q.failure ELSE q.failure + 1
    <2>1. q.uses + 1 \in Nat /\ success \in Nat /\ failure \in Nat
      BY DEF Procedure
    <2>2. c = [q EXCEPT !.uses = q.uses + 1, !.success = success, !.failure = failure]
      BY DEF Counted
    <2> HIDE DEF c, success, failure
    <2>3. c \in Procedure
      BY <2>1, <2>2 DEF Procedure
    <2>4. c.status = q.status
      BY <2>2 DEF Procedure
    <2> QED
      BY <2>3, <2>4
  <1> HIDE DEF c
  <1>2. Used(q, ok) =
          [c EXCEPT !.status = CASE @ = "active" /\ Below(c, DemoteBelow) -> "deprecated"
                                 [] @ = "deprecated" /\ ~Below(c, ReinstateAt) -> "active"
                                 [] OTHER -> @]
    BY DEF Used, c
  <1> DEFINE status == CASE c.status = "active" /\ Below(c, DemoteBelow) -> "deprecated"
                         [] c.status = "deprecated" /\ ~Below(c, ReinstateAt) -> "active"
                         [] OTHER -> c.status
  <1>3. status \in Status /\ (status = "candidate" <=> c.status = "candidate")
    BY <1>1 DEF Procedure, Status
  <1>4. Used(q, ok) = [c EXCEPT !.status = status]
    BY <1>2
  <1> HIDE DEF status
  <1> QED
    BY <1>1, <1>3, <1>4 DEF Procedure

(* A step of a call, as far as types are concerned.                        *)
LEMMA CallTypes ==
  ASSUME TypeOK, TypeInv, NEW c \in Recorder, Record(c)
  PROVE  TypeOK' /\ TypeInv'
PROOF
  <1>0. /\ MaxStamp \in Nat /\ MaxFaults \in Nat /\ NoCall \in Call
        /\ recorder[c] \in Call
    BY ProceduresAssumption DEF NoCall, Call, TypeOK
  <1>1. ASSUME NEW r \in Call, recorder' = [recorder EXCEPT ![c] = r],
               r.at # "idle" => r.id \in Episode /\ r.stamp \in 1..MaxStamp
                                /\ (r.at = "follow" => r.prev \in Episode)
        PROVE  /\ recorder' \in [Recorder -> Call]
               /\ \A d \in Recorder : recorder'[d].at # "idle" =>
                    /\ recorder'[d].id \in Episode /\ recorder'[d].stamp \in 1..MaxStamp
                    /\ recorder'[d].at = "follow" => recorder'[d].prev \in Episode
    BY <1>1 DEF TypeOK, TypeInv
  <1>2. ASSUME UNCHANGED <<episode, followed, procedure, worker, user, begun, uses, linked>>,
               faults' \in 0..MaxFaults, recorder' \in [Recorder -> Call],
               \A d \in Recorder : recorder'[d].at # "idle" =>
                 /\ recorder'[d].id \in Episode /\ recorder'[d].stamp \in 1..MaxStamp
                 /\ recorder'[d].at = "follow" => recorder'[d].prev \in Episode
        PROVE  TypeOK' /\ TypeInv'
    BY <1>2 DEF TypeOK, TypeInv, Follows, Stored
  <1>3. CASE Look(c)
    <2>1. PICK p \in Episode \cup {None} :
            recorder' = [recorder EXCEPT ![c].at = "merge", ![c].prev = p]
      BY <1>3 DEF Look, Latest, InWindow, Recorded, Stored
    <2>2. recorder' = [recorder EXCEPT ![c] = [recorder[c] EXCEPT !.at = "merge", !.prev = p]]
      BY <1>0, <2>1 DEF TypeOK, Call
    <2>3. [recorder[c] EXCEPT !.at = "merge", !.prev = p] \in Call
      BY <1>0 DEF Call
    <2> QED
      BY <1>0, <1>1, <1>2, <1>3, <2>2, <2>3 DEF Look, TypeInv, TypeOK, Call
  <1>4. CASE Finish(c) \/ Fails(c)
    <2>1. recorder' = [recorder EXCEPT ![c] = NoCall] /\ faults' \in 0..MaxFaults
      BY <1>0, <1>4 DEF Finish, Fails, Fault, TypeOK
    <2> QED
      BY <1>0, <1>1, <1>2, <1>4, <2>1 DEF Finish, Fails, NoCall
  <1>5. CASE Merge(c)
    <2> DEFINE e == recorder[c].id
    <2>1. e \in Episode /\ recorder[c].stamp \in 1..MaxStamp
      BY <1>5 DEF Merge, TypeInv
    <2>2. [recorder[c] EXCEPT !.at = "attach"] \in Call
          /\ recorder' = [recorder EXCEPT ![c] = [recorder[c] EXCEPT !.at = "attach"]]
      BY <1>0, <1>5 DEF Merge, Call, TypeOK
    <2>3. (IF e \in Stored THEN episode[e].recorded ELSE 0) \in Nat
      BY <2>1 DEF Stored, TypeOK, Node
    <2>4. PICK n \in Node : episode' = [episode EXCEPT ![e] = n]
      BY <1>5, <2>1, <2>3 DEF Merge, Node
    <2>5. UNCHANGED <<followed, procedure, worker, user, begun, uses, faults, linked>>
      BY <1>5 DEF Merge
    <2>6. episode' \in [Episode -> Node \cup {None}] /\ Stored \subseteq Stored'
      BY <2>4, NodesAreNodes DEF TypeOK, Stored
    <2>7. /\ recorder' \in [Recorder -> Call]
          /\ \A d \in Recorder : recorder'[d].at # "idle" =>
               /\ recorder'[d].id \in Episode /\ recorder'[d].stamp \in 1..MaxStamp
               /\ recorder'[d].at = "follow" => recorder'[d].prev \in Episode
      BY <1>0, <1>1, <2>1, <2>2 DEF Call
    <2> QED
      BY <2>5, <2>6, <2>7 DEF TypeOK, TypeInv, Follows
  <1>6. CASE Attach(c)
    <2> DEFINE e == recorder[c].id
    <2>1. e \in Episode /\ recorder[c].stamp \in 1..MaxStamp
      BY <1>6 DEF Attach, TypeInv
    <2>2. CASE e \in Stored
      <3>1. PICK at \in {"finish", "follow"} :
              /\ recorder' = [recorder EXCEPT ![c].at = at]
              /\ at = "follow" => recorder[c].prev # None
        BY <1>6, <2>2 DEF Attach
      <3>2. [recorder[c] EXCEPT !.at = at] \in Call
            /\ recorder' = [recorder EXCEPT ![c] = [recorder[c] EXCEPT !.at = at]]
        BY <1>0, <3>1 DEF Call, TypeOK
      <3>3. episode[e] \in Node
        BY <2>1, <2>2 DEF Stored, TypeOK
      <3>4. [episode[e] EXCEPT !.recorded = @ + 1] \in Node
        BY <3>3 DEF Node
      <3>5. PICK n \in Node : episode' = [episode EXCEPT ![e] = n]
        BY <1>6, <2>1, <2>2, <3>3, <3>4 DEF Attach
      <3>6. episode' \in [Episode -> Node \cup {None}] /\ Stored \subseteq Stored'
        BY <3>5, NodesAreNodes DEF TypeOK, Stored
      <3>7. /\ recorder' \in [Recorder -> Call]
            /\ \A d \in Recorder : recorder'[d].at # "idle" =>
                 /\ recorder'[d].id \in Episode /\ recorder'[d].stamp \in 1..MaxStamp
                 /\ recorder'[d].at = "follow" => recorder'[d].prev \in Episode
        BY <1>0, <1>1, <2>1, <3>1, <3>2 DEF Call
      <3>8. UNCHANGED <<followed, procedure, worker, user, begun, uses, faults, linked>>
        BY <1>6 DEF Attach
      <3> QED
        BY <3>6, <3>7, <3>8 DEF TypeOK, TypeInv, Follows
    <2>3. CASE e \notin Stored
      <3>1. recorder' = [recorder EXCEPT ![c] = NoCall]
            /\ UNCHANGED <<episode, followed, procedure, worker, user, begun, uses, faults, linked>>
        BY <1>6, <2>3 DEF Attach
      <3> QED
        BY <1>0, <1>1, <1>2, <3>1 DEF NoCall, TypeOK
    <2> QED
      BY <2>2, <2>3
  <1>7. CASE Follow(c)
    <2> DEFINE l == <<recorder[c].prev, recorder[c].id>>
    <2>1. l \in Episode \X Episode /\ l[1] = recorder[c].prev /\ l[2] = recorder[c].id
      BY <1>7 DEF Follow, TypeInv
    <2>2. CASE {l[1], l[2]} \subseteq Stored
      <3>1. /\ followed' = [followed EXCEPT ![l] = @ + 1]
            /\ linked' = IF l[1] # l[2] THEN linked \cup {l} ELSE linked
            /\ recorder' = [recorder EXCEPT ![c].at = "finish"]
            /\ UNCHANGED <<episode, procedure, worker, user, begun, uses, faults>>
        BY <1>7, <2>2 DEF Follow
      <3>2. [recorder[c] EXCEPT !.at = "finish"] \in Call
            /\ recorder' = [recorder EXCEPT ![c] = [recorder[c] EXCEPT !.at = "finish"]]
        BY <1>0, <3>1 DEF Call, TypeOK
      <3>3. /\ recorder' \in [Recorder -> Call]
            /\ \A d \in Recorder : recorder'[d].at # "idle" =>
                 /\ recorder'[d].id \in Episode /\ recorder'[d].stamp \in 1..MaxStamp
                 /\ recorder'[d].at = "follow" => recorder'[d].prev \in Episode
        BY <1>0, <1>1, <1>7, <3>2 DEF Call, Follow, TypeInv
      <3>4. followed' \in [Episode \X Episode -> Nat] /\ Follows' = Follows \cup {l}
        <4> HIDE DEF l
        <4> QED
          BY <2>1, <3>1 DEF TypeOK, Follows
      <3>5. IsFiniteSet(Follows') /\ IsFiniteSet(linked')
        <4> HIDE DEF l
        <4> QED
          BY <3>1, <3>4, FS_AddElement DEF TypeInv
      <3>6. linked' \subseteq Episode \X Episode
        <4> HIDE DEF l
        <4> QED
          BY <2>1, <3>1 DEF TypeOK
      <3>7. \A m \in Follows' : {m[1], m[2]} \subseteq Stored'
        <4>1. Stored' = Stored
          BY <3>1 DEF Stored
        <4> HIDE DEF l
        <4> QED
          BY <2>2, <3>4, <4>1 DEF TypeInv
      <3> QED
        BY <3>1, <3>3, <3>4, <3>5, <3>6, <3>7 DEF TypeOK, TypeInv
    <2>3. CASE ~({l[1], l[2]} \subseteq Stored)
      <3>1. recorder' = [recorder EXCEPT ![c] = NoCall]
            /\ UNCHANGED <<episode, followed, procedure, worker, user, begun, uses, faults, linked>>
        BY <1>7, <2>3 DEF Follow
      <3> QED
        BY <1>0, <1>1, <1>2, <3>1 DEF NoCall, TypeOK
    <2> QED
      BY <2>2, <2>3
  <1> QED
    BY <1>3, <1>4, <1>5, <1>6, <1>7 DEF Record

(* A step of the worker.                                                   *)
LEMMA SweepTypes ==
  ASSUME TypeOK, TypeInv, Sweep PROVE TypeOK' /\ TypeInv'
PROOF
  <1>0. /\ MaxFaults \in Nat /\ NoSweep \in Worker /\ worker \in Worker
        /\ [NoSweep EXCEPT !.at = "decay"] \in Worker
    BY ProceduresAssumption DEF NoSweep, Worker, TypeOK
  <1>1. ASSUME UNCHANGED <<episode, followed, procedure, recorder, user, begun, uses, linked>>,
               faults' \in 0..MaxFaults, worker' \in Worker,
               worker'.at = "write" => worker'.pair \in Pair
        PROVE  TypeOK' /\ TypeInv'
    BY <1>1 DEF TypeOK, TypeInv, Follows, Stored
  <1>2. Fault => faults' \in 0..MaxFaults
    BY <1>0 DEF Fault, TypeOK
  <1>3. CASE Detect
    <2>1. CASE worker' = [worker EXCEPT !.at = "decay"] /\ Fault
      <3>1. worker' \in Worker /\ worker'.at = "decay"
        BY <1>0, <2>1 DEF Worker
      <3> QED
        BY <1>1, <1>2, <1>3, <2>1, <3>1 DEF Detect
    <2>2. CASE UNCHANGED faults
               /\ worker' = [worker EXCEPT !.at = "upsert", !.rows = [p \in Pair |-> Count(p)],
                                           !.todo = {p \in Pair : Count(p) > 0}]
      <3>1. [p \in Pair |-> Count(p)] \in [Pair -> Nat]
        BY RowsAreFinite DEF TypeInv
      <3>2. PICK R \in [Pair -> Nat], T \in SUBSET Pair :
              worker' = [worker EXCEPT !.at = "upsert", !.rows = R, !.todo = T]
        BY <2>2, <3>1
      <3>3. worker' \in Worker /\ worker'.at = "upsert"
        BY <1>0, <3>2 DEF Worker
      <3> QED
        BY <1>1, <1>3, <2>2, <3>3 DEF Detect, TypeOK
    <2> QED
      BY <1>3, <2>1, <2>2 DEF Detect
  <1>4. ASSUME NEW p \in Pair, Snapshot(p) PROVE TypeOK' /\ TypeInv'
    <2>1. CASE worker' = [NoSweep EXCEPT !.at = "decay"] /\ Fault
      BY <1>0, <1>1, <1>2, <1>4, <2>1 DEF Snapshot, NoSweep
    <2>2. CASE UNCHANGED faults /\ worker' = [worker EXCEPT !.at = "write", !.todo = @ \ {p},
                                                !.pair = p, !.snap = procedure[p]]
      <3>1. worker' \in Worker /\ worker'.pair = p
        BY <1>0, <2>2 DEF Worker, TypeOK
      <3> QED
        BY <1>1, <1>4, <2>2, <3>1 DEF Snapshot, TypeOK
    <2> QED
      BY <1>4, <2>1, <2>2 DEF Snapshot
  <1>5. CASE Write
    <2>1. CASE worker' = [NoSweep EXCEPT !.at = "decay"] /\ Fault /\ UNCHANGED procedure
      BY <1>0, <1>1, <1>2, <1>5, <2>1 DEF Write, NoSweep
    <2>2. CASE /\ procedure' = [procedure EXCEPT ![worker.pair] =
                                  Upserted(worker.snap, worker.rows[worker.pair])]
               /\ worker' = [worker EXCEPT !.at = "upsert", !.pair = None, !.snap = None]
               /\ UNCHANGED faults
      <3>1. worker.pair \in Pair /\ worker.snap \in Procedure \cup {None}
            /\ worker.rows[worker.pair] \in Nat
        BY <1>0, <1>5 DEF Write, TypeInv, Worker
      <3>2. procedure' \in [Pair -> Procedure \cup {None}]
        BY <2>2, <3>1, MergedTypes DEF TypeOK
      <3>3. worker' \in Worker /\ worker'.at = "upsert"
        BY <1>0, <2>2 DEF Worker
      <3> QED
        BY <1>5, <2>2, <3>2, <3>3 DEF Write, TypeOK, TypeInv, Follows, Stored
    <2> QED
      BY <1>5, <2>1, <2>2 DEF Write
  <1>6. CASE Detected \/ Pruned
    <2>1. worker' \in Worker /\ worker'.at # "write"
      <3>1. CASE Detected
        <4>1. worker' = [NoSweep EXCEPT !.at = "decay"]
          BY <3>1 DEF Detected
        <4>2. worker'.at = "decay"
          BY <4>1 DEF NoSweep
        <4> QED
          BY <1>0, <4>1, <4>2
      <3>2. CASE Pruned
        <4>1. worker' = NoSweep
          BY <3>2 DEF Pruned
        <4>2. worker'.at = "idle"
          BY <4>1 DEF NoSweep
        <4> QED
          BY <1>0, <4>1, <4>2
      <3> QED
        BY <1>6, <3>1, <3>2
    <2>2. UNCHANGED <<episode, followed, procedure, recorder, user, begun, uses, linked>>
          /\ faults' \in 0..MaxFaults
      BY <1>6 DEF Detected, Pruned, TypeOK
    <2> QED
      BY <1>1, <2>1, <2>2
  <1>7. CASE Decay
    <2>1. CASE worker' = NoSweep /\ Fault
      <3>1. worker'.at = "idle"
        BY <2>1 DEF NoSweep
      <3> QED
        BY <1>0, <1>1, <1>2, <1>7, <2>1, <3>1 DEF Decay
    <2>2. ASSUME NEW S \in SUBSET Recorded, UNCHANGED faults,
                 worker' = [NoSweep EXCEPT !.at = "prune", !.doomed = S]
          PROVE  TypeOK' /\ TypeInv'
      <3>1. S \in SUBSET Episode
        BY DEF Recorded, Stored
      <3>2. worker' \in Worker /\ worker'.at = "prune"
        BY <2>2, <3>1 DEF NoSweep, Worker
      <3> QED
        BY <1>1, <1>7, <2>2, <3>2 DEF Decay, TypeOK
    <2> QED
      BY <1>7, <2>1, <2>2 DEF Decay
  <1>8. ASSUME NEW e \in Episode, Prune(e) PROVE TypeOK' /\ TypeInv'
    <2>1. CASE worker' = NoSweep /\ Fault /\ UNCHANGED <<episode, followed>>
      BY <1>0, <1>1, <1>2, <1>8, <2>1 DEF Prune, NoSweep
    <2>2. CASE /\ episode' = [episode EXCEPT ![e] = None]
               /\ followed' = [l \in Episode \X Episode |-> IF e \in {l[1], l[2]} THEN 0 ELSE followed[l]]
               /\ worker' = [worker EXCEPT !.doomed = @ \ {e}]
               /\ UNCHANGED faults
      <3>1. worker' \in Worker /\ worker'.at = worker.at /\ worker'.pair = worker.pair
        BY <1>0, <2>2 DEF Worker
      <3>2. episode' \in [Episode -> Node \cup {None}] /\ Stored' = Stored \ {e}
        BY <2>2 DEF TypeOK, Stored
      <3>3. followed' \in [Episode \X Episode -> Nat]
            /\ \A l \in Follows' : l \in Follows /\ e \notin {l[1], l[2]}
        BY <2>2 DEF TypeOK, Follows
      <3>4. IsFiniteSet(Follows')
        BY <3>3, FS_Subset DEF TypeInv
      <3>5. \A l \in Follows' : {l[1], l[2]} \subseteq Stored'
        BY <3>2, <3>3 DEF TypeInv
      <3> QED
        BY <1>8, <2>2, <3>1, <3>2, <3>3, <3>4, <3>5 DEF Prune, TypeOK, TypeInv
    <2> QED
      BY <1>8, <2>1, <2>2 DEF Prune
  <1> QED
    BY <1>3, <1>4, <1>5, <1>6, <1>7, <1>8 DEF Sweep

LEMMA Types ==
  ASSUME TypeOK, TypeInv, [Next]_vars PROVE TypeOK' /\ TypeInv'
PROOF
  <1>0. MaxStamp \in Nat /\ MaxUses \in Nat /\ MaxFaults \in Nat
    BY ProceduresAssumption
  <1>1. CASE UNCHANGED vars
    BY <1>1 DEF vars, TypeOK, TypeInv, Follows, Stored
  <1>2. ASSUME NEW c \in Recorder, NEW e \in Episode, NEW t \in 1..MaxStamp, Begin(c, e, t)
        PROVE  TypeOK' /\ TypeInv'
    <2>1. [at |-> "look", id |-> e, stamp |-> t, prev |-> None] \in Call
      BY <1>0 DEF Call
    <2>2. recorder' = [recorder EXCEPT ![c] = [at |-> "look", id |-> e, stamp |-> t, prev |-> None]]
          /\ begun' = begun \cup {e}
          /\ UNCHANGED <<episode, followed, procedure, worker, user, uses, faults, linked>>
      BY <1>2 DEF Begin
    <2> QED
      BY <2>1, <2>2 DEF TypeOK, TypeInv, Follows, Stored
  <1>3. CASE \E c \in Recorder : Record(c)
    BY <1>3, CallTypes
  <1>4. CASE Sweep
    BY <1>4, SweepTypes
  <1>5. ASSUME NEW u \in User, NEW p \in Pair, NEW ok \in BOOLEAN, ReadUse(u, p, ok)
        PROVE  TypeOK' /\ TypeInv'
    <2>1. procedure[p] \in Procedure
      BY <1>5 DEF ReadUse, TypeOK
    <2>2. [at |-> "write", pair |-> p, snap |-> procedure[p], ok |-> ok] \in Use
      BY <2>1 DEF Use
    <2>3. user' = [user EXCEPT ![u] = [at |-> "write", pair |-> p, snap |-> procedure[p], ok |-> ok]]
          /\ uses' \in 0..MaxUses
          /\ UNCHANGED <<episode, followed, procedure, recorder, worker, begun, faults, linked>>
      BY <1>0, <1>5 DEF ReadUse, TypeOK
    <2> QED
      BY <2>1, <2>2, <2>3 DEF TypeOK, TypeInv, Follows, Stored
  <1>6. ASSUME NEW u \in User, WriteUse(u) PROVE TypeOK' /\ TypeInv'
    <2>1. user[u].pair \in Pair /\ user[u].snap \in Procedure /\ user[u].ok \in BOOLEAN
      BY <1>6 DEF WriteUse, TypeInv, TypeOK, Use
    <2>2. Used(user[u].snap, user[u].ok) \in Procedure
      BY <2>1, UsedTypes
    <2>3. procedure' \in [Pair -> Procedure \cup {None}] /\ faults' \in 0..MaxFaults
      BY <1>0, <1>6, <2>1, <2>2 DEF WriteUse, Fault, TypeOK
    <2>4. NoUse \in Use /\ user' = [user EXCEPT ![u] = NoUse]
          /\ UNCHANGED <<episode, followed, recorder, worker, begun, uses, linked>>
      BY <1>6 DEF WriteUse, NoUse, Use
    <2> QED
      BY <2>3, <2>4 DEF TypeOK, TypeInv, Follows, Stored, NoUse
  <1> QED
    BY <1>1, <1>2, <1>3, <1>4, <1>5, <1>6 DEF Next

LEMMA InitTypeInv == Init => TypeInv
PROOF
  <1>1. Init => Follows = {} /\ linked = {}
    BY DEF Init, Follows
  <1>2. Init => \A c \in Recorder : recorder[c].at = "idle"
    BY DEF Init, NoCall
  <1>3. Init => worker.at = "idle" /\ \A u \in User : user[u].at = "idle"
    BY DEF Init, NoSweep, NoUse
  <1> QED
    BY <1>1, <1>2, <1>3, FS_EmptySet DEF TypeInv

(* Every variable keeps its type, also when callers record again.          *)
THEOREM TypeCorrect == Spec => []TypeOK
PROOF
  <1> QED
    BY InitTypes, InitTypeInv, Types, PTL DEF Spec
-----------------------------------------------------------------------------
(* The chains, when ids are generated.                                     *)
ChainsInv == CallInv /\ EdgeInv /\ FrontInv /\ ChainInv /\ StampInv

LEMMA InitChains == Init => ChainsInv
PROOF
  <1>1. Init => Stored = {} /\ Follows = {} /\ \A c \in Recorder : recorder[c].at = "idle"
    BY DEF Init, Stored, Follows, NoCall
  <1>2. Init => Graph = {}
    BY <1>1 DEF Graph, Pending, Linking
  <1> QED
    BY <1>1, <1>2 DEF ChainsInv, CallInv, EdgeInv, FrontInv, ChainInv, StampInv, Linking

(* No edge is added without being expected.                                *)
LEMMA ChainsShrink ==
  ASSUME ChainInv, Graph' \subseteq Graph PROVE ChainInv'
PROOF
  <1> QED
    BY DEF ChainInv

(* Forgetting episodes and their edges breaks no chain.                    *)
LEMMA Forgetting ==
  ASSUME ChainsInv, UNCHANGED <<recorder, begun, linked>>, Stored' \subseteq Stored,
         \A e \in Stored' : episode'[e] = episode[e], Follows' \subseteq Follows,
         \A l \in Follows' : {l[1], l[2]} \subseteq Stored' /\ followed'[l] = followed[l]
  PROVE  ChainsInv'
PROOF
  <1>1. Pending' = Pending
    BY DEF Pending, Linking, Link
  <1>2. Graph' \subseteq Graph
    BY <1>1 DEF Graph
  <1>3. CallInv'
    BY DEF ChainsInv, CallInv
  <1>4. EdgeInv'
    BY DEF ChainsInv, EdgeInv
  <1>5. FrontInv'
    BY <1>2 DEF ChainsInv, FrontInv
  <1>6. ChainInv'
    BY <1>2, ChainsShrink DEF ChainsInv
  <1>7. StampInv'
    BY DEF ChainsInv, StampInv, Linking
  <1> QED
    BY <1>3, <1>4, <1>5, <1>6, <1>7 DEF ChainsInv

LEMMA SweepForgets ==
  ASSUME TypeOK, TypeInv, Sweep
  PROVE  /\ UNCHANGED <<recorder, begun, linked>> /\ Stored' \subseteq Stored
         /\ \A e \in Stored' : episode'[e] = episode[e]
         /\ Follows' \subseteq Follows
         /\ \A l \in Follows' : {l[1], l[2]} \subseteq Stored' /\ followed'[l] = followed[l]
PROOF
  <1>1. ASSUME UNCHANGED <<episode, followed, recorder, begun, linked>>
        PROVE  /\ UNCHANGED <<recorder, begun, linked>> /\ Stored' \subseteq Stored
               /\ \A e \in Stored' : episode'[e] = episode[e]
               /\ Follows' \subseteq Follows
               /\ \A l \in Follows' : {l[1], l[2]} \subseteq Stored' /\ followed'[l] = followed[l]
    BY <1>1 DEF Stored, Follows, TypeInv
  <1>2. ASSUME NEW e \in Episode, Prune(e), ~UNCHANGED <<episode, followed>>
        PROVE  /\ UNCHANGED <<recorder, begun, linked>> /\ Stored' \subseteq Stored
               /\ \A d \in Stored' : episode'[d] = episode[d]
               /\ Follows' \subseteq Follows
               /\ \A l \in Follows' : {l[1], l[2]} \subseteq Stored' /\ followed'[l] = followed[l]
    <2>1. /\ episode' = [episode EXCEPT ![e] = None]
          /\ followed' = [l \in Episode \X Episode |-> IF e \in {l[1], l[2]} THEN 0 ELSE followed[l]]
          /\ UNCHANGED <<recorder, begun, linked>>
      BY <1>2 DEF Prune
    <2>2. Stored' = Stored \ {e} /\ \A d \in Stored' : episode'[d] = episode[d]
      BY <2>1 DEF TypeOK, Stored
    <2>3. \A l \in Follows' : l \in Follows /\ e \notin {l[1], l[2]} /\ followed'[l] = followed[l]
      BY <2>1 DEF TypeOK, Follows
    <2> QED
      BY <2>1, <2>2, <2>3 DEF TypeInv
  <1>3. CASE Detect \/ Write \/ Detected \/ Decay \/ Pruned \/ \E p \in Pair : Snapshot(p)
    BY <1>1, <1>3 DEF Detect, Write, Detected, Decay, Pruned, Snapshot
  <1>4. ASSUME NEW e \in Episode, Prune(e), UNCHANGED <<episode, followed>>
        PROVE  UNCHANGED <<episode, followed, recorder, begun, linked>>
    BY <1>4 DEF Prune
  <1> QED
    BY <1>1, <1>2, <1>3, <1>4 DEF Sweep

(* What a step of a call does to the edges that are expected.              *)
LEMMA PendingStep ==
  ASSUME TypeOK, NEW c \in Recorder, NEW r, recorder' = [recorder EXCEPT ![c] = r]
  PROVE  /\ Pending' \subseteq Pending \cup {<<r.prev, r.id>>}
         /\ \/ r.at \notin {"merge", "attach", "follow"} \/ r.prev = None
            \/ Linking(c) /\ r.prev = recorder[c].prev /\ r.id = recorder[c].id
            => Pending' \subseteq Pending
PROOF
  <1>1. recorder'[c] = r /\ \A d \in Recorder \ {c} : recorder'[d] = recorder[d]
    BY DEF TypeOK
  <1>2. \A d \in Recorder \ {c} : (Linking(d)' <=> Linking(d)) /\ Link(d)' = Link(d)
    BY <1>1 DEF Linking, Link
  <1>3. Link(c)' = <<r.prev, r.id>>
        /\ (Linking(c)' <=> r.at \in {"merge", "attach", "follow"} /\ r.prev # None)
    BY <1>1 DEF Linking, Link
  <1>4. Link(c) = <<recorder[c].prev, recorder[c].id>>
    BY DEF Link
  <1> QED
    BY <1>2, <1>3, <1>4 DEF Pending

LEMMA BeginChains ==
  ASSUME Retries = FALSE, TypeOK, TypeInv, ChainsInv,
         NEW c \in Recorder, NEW e \in Episode, NEW t \in 1..MaxStamp, Begin(c, e, t)
  PROVE  ChainsInv'
PROOF
  <1> DEFINE r == [at |-> "look", id |-> e, stamp |-> t, prev |-> None]
  <1>1. /\ recorder' = [recorder EXCEPT ![c] = r] /\ begun' = begun \cup {e} /\ e \notin begun
        /\ recorder[c].at = "idle"
        /\ UNCHANGED <<episode, followed, linked>>
    BY DEF Begin, Fresh
  <1>2. r.at = "look" /\ r.id = e /\ r.stamp = t /\ r.prev = None
    OBVIOUS
  <1> HIDE DEF r
  <1>3. recorder'[c] = r /\ \A d \in Recorder \ {c} : recorder'[d] = recorder[d]
    BY <1>1 DEF TypeOK
  <1>4. Pending' \subseteq Pending
    BY <1>1, <1>2, PendingStep
  <1>5. Stored' = Stored /\ Follows' = Follows /\ Graph' \subseteq Graph
    BY <1>1, <1>4 DEF Stored, Follows, Graph
  <1>6. \A l \in Graph : l[1] \in begun /\ l[2] \in begun
    BY DEF ChainsInv, CallInv, EdgeInv, Graph, Pending, Linking, Link
  <1>7. CallInv'
    <2>1. Stored' \subseteq begun' /\ \A d \in Stored' : episode'[d].recorded <= 1
      BY <1>1, <1>5 DEF ChainsInv, CallInv
    <2>2. e \notin Stored
      BY <1>1 DEF ChainsInv, CallInv
    <2> QED
      BY <1>1, <1>2, <1>3, <1>5, <2>1, <2>2 DEF ChainsInv, CallInv
  <1>8. EdgeInv'
    BY <1>1, <1>5 DEF ChainsInv, EdgeInv
  <1>9. FrontInv'
    <2>1. \A l \in Graph' : l[1] # e /\ l[2] # e
      BY <1>1, <1>5, <1>6
    <2> QED
      BY <1>2, <1>3, <1>5, <2>1 DEF ChainsInv, FrontInv
  <1>10. ChainInv'
    BY <1>5, ChainsShrink DEF ChainsInv
  <1>11. StampInv'
    BY <1>1, <1>2, <1>3, <1>5 DEF ChainsInv, StampInv, Linking
  <1> QED
    BY <1>7, <1>8, <1>9, <1>10, <1>11 DEF ChainsInv

LEMMA LookChains ==
  ASSUME TypeOK, TypeInv, ChainsInv, NEW c \in Recorder, Look(c)
  PROVE  ChainsInv'
PROOF
  <1> DEFINE i == recorder[c].id
  <1>1. recorder[c].at = "look" /\ UNCHANGED <<episode, followed, begun, linked>>
    BY DEF Look
  <1>2. PICK p \in Recorded \cup {None} :
          /\ recorder' = [recorder EXCEPT ![c].at = "merge", ![c].prev = p]
          /\ p # None => p \in Recorded /\ episode[p].stamp <= recorder[c].stamp
    <2>1. \A q \in Latest(InWindow(recorder[c].stamp)) :
            q \in Recorded /\ episode[q].stamp <= recorder[c].stamp
      BY DEF Latest, InWindow
    <2> QED
      BY <2>1 DEF Look
  <1> DEFINE r == [recorder[c] EXCEPT !.at = "merge", !.prev = p]
  <1>3. recorder' = [recorder EXCEPT ![c] = r]
    BY <1>2 DEF TypeOK
  <1>4. r.at = "merge" /\ r.id = i /\ r.stamp = recorder[c].stamp /\ r.prev = p
    BY DEF TypeOK, Call
  <1> HIDE DEF r
  <1>5. recorder'[c] = r /\ \A d \in Recorder \ {c} : recorder'[d] = recorder[d]
    BY <1>3 DEF TypeOK
  <1>6. Pending' \subseteq Pending \cup {<<p, i>>} /\ (p = None => Pending' \subseteq Pending)
    BY <1>3, <1>4, PendingStep
  <1>7. Stored' = Stored /\ Follows' = Follows
    BY <1>1 DEF Stored, Follows
  <1>8. i \notin Stored /\ i \in begun /\ i \in Episode
    BY <1>1 DEF ChainsInv, CallInv, TypeInv
  <1>9. p # None => p \in Stored /\ p # i /\ p \in begun /\ episode[p].recorded > 0
    BY <1>2, <1>8 DEF Recorded, ChainsInv, CallInv
  <1>10. \A l \in Graph : l[1] # i /\ l[2] # i
    BY <1>1 DEF ChainsInv, FrontInv
  <1>11. CallInv'
    BY <1>1, <1>4, <1>5, <1>7, <1>8, <1>9 DEF ChainsInv, CallInv
  <1>12. EdgeInv'
    BY <1>1, <1>7 DEF ChainsInv, EdgeInv
  <1>13. Graph' \subseteq Graph \cup {<<p, i>>} /\ (p = None => Graph' \subseteq Graph)
    BY <1>6, <1>7 DEF Graph
  <1>14. FrontInv'
    <2>1. \A d \in Recorder : recorder'[d].at \in {"merge", "attach", "follow"} =>
            \A l \in Follows' : l[2] # recorder'[d].id
      BY <1>4, <1>5, <1>7, <1>10 DEF ChainsInv, FrontInv, Graph
    <2>2. \A d \in Recorder : recorder'[d].at = "look" =>
            \A l \in Graph' : l[2] # recorder'[d].id
      <3>1. \A d \in Recorder \ {c} : recorder[d].at # "idle" => recorder[d].id # i
        BY <1>1 DEF ChainsInv, CallInv
      <3> QED
        BY <1>4, <1>5, <1>13, <3>1 DEF ChainsInv, FrontInv
    <2>3. \A d \in Recorder : recorder'[d].at \in {"look", "merge", "attach"} =>
            \A l \in Graph' : l[1] # recorder'[d].id
      <3>1. \A d \in Recorder \ {c} : recorder[d].at \in {"look", "merge", "attach"} /\ p # None =>
              recorder[d].id # p
        <4>1. \A d \in Recorder \ {c} : recorder[d].at \in {"look", "merge"} => recorder[d].id \notin Stored
          BY DEF ChainsInv, CallInv
        <4>2. \A d \in Recorder \ {c} : recorder[d].at = "attach" /\ recorder[d].id \in Stored =>
                episode[recorder[d].id].recorded = 0
          BY DEF ChainsInv, CallInv
        <4> QED
          BY <1>9, <4>1, <4>2
      <3> QED
        BY <1>4, <1>5, <1>9, <1>10, <1>13, <3>1 DEF ChainsInv, FrontInv
    <2> QED
      BY <2>1, <2>2, <2>3 DEF FrontInv
  <1>15. ChainInv'
    <2>1. CASE p = None
      BY <1>13, <2>1, ChainsShrink DEF ChainsInv
    <2>2. CASE p # None
      <3>1. \A l \in Graph' : l[1] # l[2]
        BY <1>9, <1>13, <2>2 DEF ChainsInv, ChainInv
      <3>2. \A l, m \in Graph' : l[2] = m[2] => l = m
        BY <1>10, <1>13 DEF ChainsInv, ChainInv
      <3>3. ASSUME NEW S \in SUBSET Episode, S # {}
            PROVE  \E e \in S : \A d \in S : <<d, e>> \notin Graph'
        <4>1. CASE S \subseteq {i}
          BY <3>1, <3>3, <4>1
        <4>2. CASE ~(S \subseteq {i})
          <5>1. S \ {i} \in SUBSET Episode /\ S \ {i} # {}
            BY <4>2
          <5>2. PICK e \in S \ {i} : \A d \in S \ {i} : <<d, e>> \notin Graph
            BY <5>1 DEF ChainsInv, ChainInv
          <5>3. <<i, e>> \notin Graph
            BY <1>10
          <5>4. \A d \in S : <<d, e>> # <<p, i>>
            BY <5>2
          <5> QED
            BY <1>13, <5>2, <5>3, <5>4
        <4> QED
          BY <4>1, <4>2
      <3> QED
        BY <3>1, <3>2, <3>3 DEF ChainInv
    <2> QED
      BY <2>1, <2>2
  <1>16. StampInv'
    <2>1. \A l \in Follows' : episode'[l[1]].stamp <= episode'[l[2]].stamp
      BY <1>1, <1>7 DEF ChainsInv, StampInv
    <2>2. \A d \in Recorder \ {c} : (Linking(d)' <=> Linking(d))
      BY <1>5 DEF Linking
    <2>3. Linking(c)' => p # None
      BY <1>4, <1>5 DEF Linking
    <2>4. ASSUME NEW d \in Recorder
          PROVE  /\ Linking(d)' /\ recorder'[d].prev \in Stored' =>
                      episode'[recorder'[d].prev].stamp <= recorder'[d].stamp
                 /\ recorder'[d].at \in {"attach", "follow"} /\ recorder'[d].id \in Stored' =>
                      episode'[recorder'[d].id].stamp = recorder'[d].stamp
      <3>1. CASE d = c
        BY <1>1, <1>2, <1>4, <1>5, <2>3, <3>1
      <3>2. CASE d # c
        BY <1>1, <1>5, <1>7, <2>2, <3>2 DEF ChainsInv, StampInv
      <3> QED
        BY <3>1, <3>2
    <2> QED
      BY <2>1, <2>4 DEF StampInv
  <1> QED
    BY <1>11, <1>12, <1>14, <1>15, <1>16 DEF ChainsInv

LEMMA MergeChains ==
  ASSUME TypeOK, TypeInv, ChainsInv, NEW c \in Recorder, Merge(c)
  PROVE  ChainsInv'
PROOF
  <1> DEFINE i == recorder[c].id
             r == [recorder[c] EXCEPT !.at = "attach"]
  <1>1. recorder[c].at = "merge" /\ UNCHANGED <<followed, begun, linked>>
    BY DEF Merge
  <1>2. i \in Episode /\ i \in begun /\ i \notin Stored /\ recorder[c].stamp \in 1..MaxStamp
    BY <1>1 DEF ChainsInv, CallInv, TypeInv
  <1>3. recorder' = [recorder EXCEPT ![c] = r]
    BY DEF Merge, TypeOK
  <1>4. r.at = "attach" /\ r.id = i /\ r.stamp = recorder[c].stamp /\ r.prev = recorder[c].prev
    BY DEF TypeOK, Call
  <1> DEFINE n == [stamp |-> recorder[c].stamp, recorded |-> 0]
  <1>5. episode' = [episode EXCEPT ![i] = n]
    BY <1>2 DEF Merge
  <1>6. n \in Node /\ n # None /\ n.stamp = recorder[c].stamp /\ n.recorded = 0
    BY <1>2, NodesAreNodes DEF Node
  <1> HIDE DEF r, n, i
  <1>7. recorder'[c] = r /\ \A d \in Recorder \ {c} : recorder'[d] = recorder[d]
    BY <1>3 DEF TypeOK
  <1>8. /\ Stored' = Stored \cup {i} /\ episode'[i] = n
        /\ \A e \in Stored : e # i /\ episode'[e] = episode[e]
    BY <1>2, <1>5, <1>6 DEF TypeOK, Stored
  <1>9. Pending' \subseteq Pending
    BY <1>1, <1>3, <1>4, PendingStep DEF Linking, i
  <1>10. Follows' = Follows /\ Graph' \subseteq Graph
    BY <1>1, <1>9 DEF Follows, Graph
  <1>11. \A d \in Recorder \ {c} : recorder[d].at # "idle" => recorder[d].id # i
    BY <1>1 DEF ChainsInv, CallInv, i
  <1>12. CallInv'
    <2>1. Stored' \subseteq begun' /\ \A e \in Stored' : episode'[e].recorded <= 1
      BY <1>1, <1>2, <1>6, <1>8 DEF ChainsInv, CallInv
    <2>2. ASSUME NEW d \in Recorder, d # c, recorder'[d].at # "idle"
          PROVE  /\ recorder'[d].id \in begun' /\ recorder'[d].stamp \in 1..MaxStamp
                 /\ recorder'[d].prev \in begun' \cup {None}
                 /\ recorder'[d].at = "look" => recorder'[d].prev = None
                 /\ recorder'[d].at = "follow" => recorder'[d].prev # None
                 /\ recorder'[d].at \in {"look", "merge"} => recorder'[d].id \notin Stored'
                 /\ recorder'[d].at = "attach" /\ recorder'[d].id \in Stored' =>
                      episode'[recorder'[d].id].recorded = 0
      BY <1>1, <1>7, <1>8, <1>11, <2>2 DEF ChainsInv, CallInv
    <2>3. /\ recorder'[c].id \in begun' /\ recorder'[c].stamp \in 1..MaxStamp
          /\ recorder'[c].prev \in begun' \cup {None} /\ recorder'[c].at = "attach"
          /\ episode'[recorder'[c].id].recorded = 0
      BY <1>1, <1>2, <1>4, <1>6, <1>7, <1>8 DEF ChainsInv, CallInv, i
    <2>4. \A d, e \in Recorder : recorder'[d].at # "idle" /\ recorder'[e].at # "idle"
                                 /\ recorder'[d].id = recorder'[e].id => d = e
      BY <1>4, <1>7, <1>11 DEF ChainsInv, CallInv
    <2> QED
      BY <2>1, <2>2, <2>3, <2>4 DEF CallInv
  <1>13. EdgeInv'
    BY <1>1, <1>8, <1>10 DEF ChainsInv, EdgeInv
  <1>14. FrontInv'
    BY <1>1, <1>4, <1>7, <1>10 DEF ChainsInv, FrontInv, i
  <1>15. ChainInv'
    BY <1>10, ChainsShrink DEF ChainsInv
  <1>16. StampInv'
    <2>1. \A l \in Follows' : episode'[l[1]].stamp <= episode'[l[2]].stamp
      BY <1>8, <1>10 DEF ChainsInv, StampInv, EdgeInv
    <2>2. \A d \in Recorder \ {c} : (Linking(d)' <=> Linking(d))
      BY <1>7 DEF Linking
    <2>3. \A d \in Recorder : Linking(d) => recorder[d].prev # i
      <3>1. \A l \in Graph : l[1] # i
        BY <1>1 DEF ChainsInv, FrontInv, i
      <3>2. \A d \in Recorder : Linking(d) => Link(d) \in Graph /\ Link(d)[1] = recorder[d].prev
        BY DEF Graph, Pending, Link
      <3> QED
        BY <3>1, <3>2
    <2>4. Linking(c)' => Linking(c)
      BY <1>1, <1>4, <1>7 DEF Linking
    <2>5. ASSUME NEW d \in Recorder
          PROVE  /\ Linking(d)' /\ recorder'[d].prev \in Stored' =>
                      episode'[recorder'[d].prev].stamp <= recorder'[d].stamp
                 /\ recorder'[d].at \in {"attach", "follow"} /\ recorder'[d].id \in Stored' =>
                      episode'[recorder'[d].id].stamp = recorder'[d].stamp
      <3>1. CASE d = c
        BY <1>4, <1>6, <1>7, <1>8, <2>3, <2>4, <3>1 DEF ChainsInv, StampInv
      <3>2. CASE d # c
        BY <1>7, <1>8, <1>11, <2>2, <2>3, <3>2 DEF ChainsInv, StampInv
      <3> QED
        BY <3>1, <3>2
    <2> QED
      BY <2>1, <2>5 DEF StampInv
  <1> QED
    BY <1>12, <1>13, <1>14, <1>15, <1>16 DEF ChainsInv

(* A call that ends.                                                       *)
LEMMA EndChains ==
  ASSUME TypeOK, ChainsInv, NEW c \in Recorder, recorder' = [recorder EXCEPT ![c] = NoCall],
         UNCHANGED <<episode, followed, begun, linked>>
  PROVE  ChainsInv'
PROOF
  <1>1. NoCall.at = "idle" /\ NoCall.prev = None
    BY DEF NoCall
  <1>2. recorder'[c].at = "idle" /\ \A d \in Recorder \ {c} : recorder'[d] = recorder[d]
    BY <1>1 DEF TypeOK
  <1>3. Pending' \subseteq Pending
    BY <1>1, PendingStep
  <1>4. Follows' = Follows /\ Graph' \subseteq Graph /\ Stored' = Stored
    BY <1>3 DEF Follows, Graph, Stored
  <1>5. CallInv'
    BY <1>2, <1>4 DEF ChainsInv, CallInv
  <1>6. EdgeInv'
    BY <1>4 DEF ChainsInv, EdgeInv
  <1>7. FrontInv'
    BY <1>2, <1>4 DEF ChainsInv, FrontInv
  <1>8. ChainInv'
    BY <1>4, ChainsShrink DEF ChainsInv
  <1>9. StampInv'
    <2>1. \A d \in Recorder : (Linking(d)' => d # c /\ Linking(d))
      BY <1>2 DEF Linking
    <2> QED
      BY <1>2, <1>4, <2>1 DEF ChainsInv, StampInv
  <1> QED
    BY <1>5, <1>6, <1>7, <1>8, <1>9 DEF ChainsInv

LEMMA AttachChains ==
  ASSUME TypeOK, TypeInv, ChainsInv, NEW c \in Recorder, Attach(c)
  PROVE  ChainsInv'
PROOF
  <1> DEFINE i == recorder[c].id
  <1>1. CASE i \notin Stored
    BY <1>1, EndChains DEF Attach
  <1>2. CASE i \in Stored
    <2>1. recorder[c].at = "attach" /\ UNCHANGED <<followed, begun, linked>>
      BY DEF Attach
    <2>2. i \in Episode /\ i \in begun /\ recorder[c].stamp \in 1..MaxStamp /\ episode[i] \in Node
          /\ episode[i].recorded = 0 /\ episode[i].stamp = recorder[c].stamp
      BY <1>2, <2>1 DEF ChainsInv, CallInv, StampInv, TypeInv, TypeOK, Stored
    <2>3. PICK at \in {"finish", "follow"} :
            /\ recorder' = [recorder EXCEPT ![c].at = at]
            /\ at = "follow" <=> recorder[c].prev # None
      BY <1>2 DEF Attach
    <2> DEFINE r == [recorder[c] EXCEPT !.at = at]
               n == [episode[i] EXCEPT !.recorded = 1]
    <2>4. recorder' = [recorder EXCEPT ![c] = r]
      BY <2>3 DEF TypeOK
    <2>5. r.at = at /\ r.id = i /\ r.stamp = recorder[c].stamp /\ r.prev = recorder[c].prev
      BY DEF TypeOK, Call
    <2>6. episode' = [episode EXCEPT ![i] = n]
      BY <1>2, <2>2 DEF Attach, TypeOK
    <2>7. n \in Node /\ n # None /\ n.stamp = recorder[c].stamp /\ n.recorded = 1
      <3>1. n \in Node /\ n.stamp = recorder[c].stamp /\ n.recorded = 1
        BY <2>2 DEF Node
      <3> QED
        BY <3>1, NodesAreNodes
    <2> HIDE DEF r, n, i
    <2>8. recorder'[c] = r /\ \A d \in Recorder \ {c} : recorder'[d] = recorder[d]
      BY <2>4 DEF TypeOK
    <2>9. /\ Stored' = Stored /\ episode'[i] = n
          /\ \A e \in Stored : e # i => episode'[e] = episode[e]
      BY <1>2, <2>2, <2>6, <2>7 DEF TypeOK, Stored
    <2>10. Pending' \subseteq Pending
      BY <2>1, <2>3, <2>4, <2>5, PendingStep DEF Linking, i
    <2>11. Follows' = Follows /\ Graph' \subseteq Graph
      BY <2>1, <2>10 DEF Follows, Graph
    <2>12. \A d \in Recorder \ {c} : recorder[d].at # "idle" => recorder[d].id # i
      BY <2>1 DEF ChainsInv, CallInv, i
    <2>13. CallInv'
      <3>1. Stored' \subseteq begun' /\ \A e \in Stored' : episode'[e].recorded <= 1
        BY <2>1, <2>7, <2>9 DEF ChainsInv, CallInv
      <3>2. ASSUME NEW d \in Recorder, d # c, recorder'[d].at # "idle"
            PROVE  /\ recorder'[d].id \in begun' /\ recorder'[d].stamp \in 1..MaxStamp
                   /\ recorder'[d].prev \in begun' \cup {None}
                   /\ recorder'[d].at = "look" => recorder'[d].prev = None
                   /\ recorder'[d].at = "follow" => recorder'[d].prev # None
                   /\ recorder'[d].at \in {"look", "merge"} => recorder'[d].id \notin Stored'
                   /\ recorder'[d].at = "attach" /\ recorder'[d].id \in Stored' =>
                        episode'[recorder'[d].id].recorded = 0
        BY <2>1, <2>8, <2>9, <2>12, <3>2 DEF ChainsInv, CallInv
      <3>3. /\ recorder'[c].id \in begun' /\ recorder'[c].stamp \in 1..MaxStamp
            /\ recorder'[c].prev \in begun' \cup {None} /\ recorder'[c].at = at
            /\ at = "follow" => recorder'[c].prev # None
        BY <2>1, <2>2, <2>3, <2>5, <2>8 DEF ChainsInv, CallInv, i
      <3>4. \A d, e \in Recorder : recorder'[d].at # "idle" /\ recorder'[e].at # "idle"
                                   /\ recorder'[d].id = recorder'[e].id => d = e
        BY <2>5, <2>8, <2>12 DEF ChainsInv, CallInv
      <3> QED
        BY <3>1, <3>2, <3>3, <3>4 DEF CallInv
    <2>14. EdgeInv'
      BY <2>1, <2>9, <2>11 DEF ChainsInv, EdgeInv
    <2>15. FrontInv'
      BY <2>1, <2>5, <2>8, <2>11 DEF ChainsInv, FrontInv, i
    <2>16. ChainInv'
      BY <2>11, ChainsShrink DEF ChainsInv
    <2>17. StampInv'
      <3>1. \A e \in Stored : episode'[e].stamp = episode[e].stamp
        BY <2>2, <2>7, <2>9
      <3>2. \A d \in Recorder : (Linking(d)' => Linking(d)) /\ recorder'[d].prev = recorder[d].prev
                                /\ recorder'[d].id = recorder[d].id /\ recorder'[d].stamp = recorder[d].stamp
        BY <2>1, <2>5, <2>8 DEF Linking, i
      <3>3. \A d \in Recorder : recorder'[d].at \in {"attach", "follow"} => recorder[d].at \in {"attach", "follow"}
        BY <2>1, <2>8
      <3> QED
        BY <2>9, <2>11, <3>1, <3>2, <3>3 DEF ChainsInv, StampInv, EdgeInv
    <2> QED
      BY <2>13, <2>14, <2>15, <2>16, <2>17 DEF ChainsInv
  <1> QED
    BY <1>1, <1>2

LEMMA FollowChains ==
  ASSUME TypeOK, TypeInv, ChainsInv, NEW c \in Recorder, Follow(c)
  PROVE  ChainsInv'
PROOF
  <1> DEFINE p == recorder[c].prev
             i == recorder[c].id
             l == <<p, i>>
  <1>1. CASE ~({p, i} \subseteq Stored)
    BY <1>1, EndChains DEF Follow
  <1>2. CASE {p, i} \subseteq Stored
    <2>1. /\ recorder[c].at = "follow" /\ UNCHANGED <<episode, begun>>
          /\ followed' = [followed EXCEPT ![l] = @ + 1]
          /\ linked' = IF p # i THEN linked \cup {l} ELSE linked
      BY <1>2 DEF Follow
    <2>2. l \in Episode \X Episode /\ p # None
      BY <2>1 DEF TypeInv, ChainsInv, CallInv
    <2>3. l \in Pending
      BY <2>1, <2>2 DEF Pending, Link, Linking
    <2>4. p # i
      BY <2>3 DEF ChainsInv, ChainInv, Graph
    <2> DEFINE r == [recorder[c] EXCEPT !.at = "finish"]
    <2>5. recorder' = [recorder EXCEPT ![c] = r]
      BY <1>2 DEF Follow, TypeOK
    <2>6. r.at = "finish" /\ r.id = i /\ r.stamp = recorder[c].stamp /\ r.prev = p
      BY DEF TypeOK, Call
    <2>7. \A m \in Follows : m[2] # i
      BY <2>1 DEF ChainsInv, FrontInv
    <2>8. followed[l] = 0
      BY <2>2, <2>7 DEF Follows, TypeOK
    <2>9. l[1] = p /\ l[2] = i
      OBVIOUS
    <2>10. \A d \in Recorder \ {c} : recorder[d].at # "idle" => recorder[d].id # i
      BY <2>1 DEF ChainsInv, CallInv
    <2>11. episode[p].stamp <= episode[i].stamp
      BY <1>2, <2>1, <2>2 DEF ChainsInv, StampInv, Linking
    <2> HIDE DEF r, l
    <2>12. recorder'[c] = r /\ \A d \in Recorder \ {c} : recorder'[d] = recorder[d]
      BY <2>5 DEF TypeOK
    <2>13. followed'[l] = 1 /\ Follows' = Follows \cup {l} /\ \A m \in Follows : m # l /\ followed'[m] = followed[m]
      BY <2>1, <2>2, <2>8 DEF TypeOK, Follows
    <2>14. Pending' \subseteq Pending
      BY <2>5, <2>6, PendingStep
    <2>15. Graph' \subseteq Graph /\ Stored' = Stored
      BY <2>1, <2>3, <2>13, <2>14 DEF Graph, Stored
    <2>16. CallInv'
      BY <2>1, <2>6, <2>12, <2>15 DEF ChainsInv, CallInv
    <2>17. EdgeInv'
      BY <1>2, <2>1, <2>4, <2>9, <2>13, <2>15 DEF ChainsInv, EdgeInv
    <2>18. FrontInv'
      <3>1. \A d \in Recorder : recorder'[d].at \in {"merge", "attach", "follow"} =>
              \A m \in Follows' : m[2] # recorder'[d].id
        BY <2>6, <2>9, <2>10, <2>12, <2>13 DEF ChainsInv, FrontInv
      <3> QED
        BY <2>6, <2>12, <2>15, <3>1 DEF ChainsInv, FrontInv
    <2>19. ChainInv'
      BY <2>15, ChainsShrink DEF ChainsInv
    <2>20. StampInv'
      <3>1. \A m \in Follows' : episode'[m[1]].stamp <= episode'[m[2]].stamp
        BY <2>1, <2>9, <2>11, <2>13 DEF ChainsInv, StampInv
      <3>2. \A d \in Recorder : Linking(d)' => d # c /\ Linking(d)
        BY <2>6, <2>12 DEF Linking
      <3> QED
        BY <2>1, <2>6, <2>12, <2>15, <3>1, <3>2 DEF ChainsInv, StampInv
    <2> QED
      BY <2>16, <2>17, <2>18, <2>19, <2>20 DEF ChainsInv
  <1> QED
    BY <1>1, <1>2

LEMMA ChainsStay ==
  ASSUME Retries = FALSE, TypeOK, TypeInv, ChainsInv, [Next]_vars
  PROVE  ChainsInv'
PROOF
  <1>1. ASSUME UNCHANGED <<episode, followed, recorder, begun, linked>>
        PROVE  ChainsInv'
    <2>1. Stored' = Stored /\ Follows' = Follows
      BY <1>1 DEF Stored, Follows
    <2> QED
      BY <1>1, <2>1, Forgetting DEF ChainsInv, EdgeInv
  <1>2. CASE UNCHANGED vars
    BY <1>1, <1>2 DEF vars
  <1>3. ASSUME NEW c \in Recorder, NEW e \in Episode, NEW t \in 1..MaxStamp, Begin(c, e, t)
        PROVE  ChainsInv'
    BY <1>3, BeginChains
  <1>4. ASSUME NEW c \in Recorder, Record(c) PROVE ChainsInv'
    <2>1. CASE Finish(c) \/ Fails(c)
      BY <2>1, EndChains DEF Finish, Fails
    <2> QED
      BY <1>4, <2>1, LookChains, MergeChains, AttachChains, FollowChains DEF Record
  <1>5. CASE Sweep
    BY <1>5, SweepForgets, Forgetting
  <1>6. CASE \/ \E u \in User, p \in Pair, ok \in BOOLEAN : ReadUse(u, p, ok)
             \/ \E u \in User : WriteUse(u)
    BY <1>1, <1>6 DEF ReadUse, WriteUse
  <1> QED
    BY <1>2, <1>3, <1>4, <1>5, <1>6 DEF Next

(* The promise of ChainsRunForward follows.                                *)
LEMMA ChainsPromise ==
  ASSUME TypeOK, ChainsInv PROVE ChainsRunForward
PROOF
  <1>1. Follows \subseteq Graph /\ Follows \subseteq Episode \X Episode
    BY DEF Graph, Follows, TypeOK
  <1>2. ASSUME NEW S \in SUBSET {l[1] : l \in Follows} PROVE ~Closed(S)
    <2>1. S \in SUBSET Episode
      BY <1>1
    <2> QED
      BY <1>1, <2>1 DEF ChainsInv, ChainInv, Closed
  <1>3. \A l \in Follows : episode[l[1]].stamp <= episode[l[2]].stamp
    BY DEF ChainsInv, StampInv
  <1>4. ASSUME NEW e \in Episode PROVE Cardinality({l \in Follows : l[2] = e}) <= 1
    <2>1. CASE {l \in Follows : l[2] = e} = {}
      BY <2>1, FS_EmptySet
    <2>2. CASE {l \in Follows : l[2] = e} # {}
      <3>1. PICK m \in {l \in Follows : l[2] = e} : TRUE
        BY <2>2
      <3>2. {l \in Follows : l[2] = e} = {m}
        BY <1>1, <3>1 DEF ChainsInv, ChainInv
      <3>3. Cardinality({m}) = 1
        BY FS_Singleton
      <3> QED
        BY <3>2, <3>3
    <2> QED
      BY <2>1, <2>2
  <1> QED
    BY <1>2, <1>3, <1>4 DEF ChainsRunForward

(* Unless a caller records an episode again, edges lead forward in time,   *)
(* never in a circle, and to every episode from one predecessor, however   *)
(* many calls overlap, fail, and race with pruning.                        *)
THEOREM ChainsStayChains == Retries = FALSE => (Spec => []ChainsRunForward)
PROOF
  <1>1. Init => TypeOK /\ TypeInv /\ ChainsInv
    BY InitTypes, InitTypeInv, InitChains
  <1>2. Retries = FALSE /\ TypeOK /\ TypeInv /\ ChainsInv /\ [Next]_vars
          => TypeOK' /\ TypeInv' /\ ChainsInv'
    BY Types, ChainsStay
  <1>3. TypeOK /\ ChainsInv => ChainsRunForward
    BY ChainsPromise
  <1>4. SUFFICES ASSUME Retries = FALSE PROVE Spec => []ChainsRunForward
    OBVIOUS
  <1>5. TypeOK /\ TypeInv /\ ChainsInv /\ [Next]_vars => TypeOK' /\ TypeInv' /\ ChainsInv'
    BY <1>2, <1>4
  <1> QED
    BY <1>1, <1>3, <1>5, PTL DEF Spec
-----------------------------------------------------------------------------
(* What has been seen, when ids are generated.                             *)
Seen(p) == Cardinality(Recurrences(p))
Advanced(q) == q # None /\ q.status # "candidate"

(* The rows and the copies of procedures that are carried about rest on    *)
(* recurrences as much as the procedures do.                               *)
SeenInv ==
  /\ ActiveHasRecurred
  /\ worker.at \in {"upsert", "write"} => \A p \in Pair : worker.rows[p] <= Seen(p)
  /\ worker.at = "write" /\ Advanced(worker.snap) => Seen(worker.pair) >= Promote
  /\ \A u \in User : user[u].at = "write" /\ user[u].snap.status # "candidate" => Seen(user[u].pair) >= Promote

LEMMA SeenIsCounted ==
  ASSUME TypeInv, NEW p PROVE IsFiniteSet(Recurrences(p)) /\ Seen(p) \in Nat
PROOF
  <1>1. Recurrences(p) \in SUBSET linked
    BY DEF Recurrences
  <1>2. IsFiniteSet(Recurrences(p))
    BY <1>1, FS_Subset DEF TypeInv
  <1> QED
    BY <1>2, FS_CardinalityType DEF Seen

(* A row of sequence_detector is a recurrence, as edges are single.        *)
LEMMA RowsAreSeen ==
  ASSUME TypeOK, TypeInv, ChainsInv, NEW p PROVE Count(p) <= Seen(p)
PROOF
  <1>1. \A l \in Links(p) : /\ l \in Follows /\ l \in Recurrences(p) /\ followed[l] = 1
                            /\ l[1] \in Stored
    BY DEF Links, Follows, Recurrences, ChainsInv, EdgeInv
  <1>2. \A l \in Links(p) : episode[l[1]].recorded \in Nat /\ episode[l[1]].recorded <= 1
    BY <1>1 DEF ChainsInv, CallInv, TypeOK, Stored, Node
  <1>3. \A x \in Rows(p) : x[1] \in Recurrences(p) /\ x = <<x[1], 1, 1>>
    <2> SUFFICES ASSUME NEW l \in Links(p),
                        NEW x \in {l} \X (1..followed[l]) \X (1..episode[l[1]].recorded)
                 PROVE  x[1] \in Recurrences(p) /\ x = <<x[1], 1, 1>>
      BY DEF Rows
    <2>1. x = <<x[1], x[2], x[3]>> /\ x[1] = l /\ x[2] \in 1..followed[l]
          /\ x[3] \in 1..episode[l[1]].recorded
      OBVIOUS
    <2>2. x[2] = 1 /\ x[3] = 1
      BY <1>1, <1>2, <2>1
    <2> QED
      BY <1>1, <2>1, <2>2
  <1> DEFINE f == [x \in Rows(p) |-> x[1]]
  <1>4. f \in Injection(Rows(p), Recurrences(p))
    <2>1. f \in [Rows(p) -> Recurrences(p)]
      BY <1>3
    <2>2. \A x, y \in Rows(p) : f[x] = f[y] => x = y
      BY <1>3
    <2> HIDE DEF f
    <2> QED
      BY <2>1, <2>2 DEF Injection, IsInjective
  <1> HIDE DEF f
  <1>5. Cardinality(Rows(p)) <= Cardinality(Recurrences(p))
    BY <1>4, SeenIsCounted, FS_Injection
  <1> QED
    BY <1>5 DEF Count, Seen

LEMMA InitSeen == Init => SeenInv
PROOF
  <1>1. Init => \A p \in Pair : procedure[p] = None
    BY DEF Init
  <1>2. Init => worker.at = "idle" /\ \A u \in User : user[u].at = "idle"
    BY DEF Init, NoSweep, NoUse
  <1> QED
    BY <1>1, <1>2 DEF SeenInv, ActiveHasRecurred, Learnt

(* More recurrences do no harm.                                            *)
LEMMA SeenGrows ==
  ASSUME TypeOK, TypeInv, TypeInv', SeenInv, linked \subseteq linked',
         UNCHANGED <<procedure, worker, user>>
  PROVE  SeenInv'
PROOF
  <1>0. Promote \in Nat
    BY ProceduresAssumption
  <1>1. \A p : Seen(p) \in Nat /\ Seen(p)' \in Nat /\ Seen(p) <= Seen(p)'
    <2> SUFFICES ASSUME NEW p PROVE Seen(p) \in Nat /\ Seen(p)' \in Nat /\ Seen(p) <= Seen(p)'
      OBVIOUS
    <2>1. IsFiniteSet(Recurrences(p)) /\ Seen(p) \in Nat
      BY SeenIsCounted
    <2>2. IsFiniteSet(Recurrences(p)') /\ Seen(p)' \in Nat
      <3>1. Recurrences(p)' \in SUBSET linked'
        BY DEF Recurrences
      <3>2. IsFiniteSet(Recurrences(p)')
        BY <3>1, FS_Subset DEF TypeInv
      <3> QED
        BY <3>2, FS_CardinalityType DEF Seen
    <2>3. Recurrences(p) \in SUBSET Recurrences(p)'
      BY DEF Recurrences
    <2>4. Cardinality(Recurrences(p)) <= Cardinality(Recurrences(p)')
      BY <2>2, <2>3, FS_Subset
    <2> QED
      BY <2>1, <2>2, <2>4 DEF Seen
  <1>2. ActiveHasRecurred'
    <2>1. \A p \in Pair : Learnt(p)' <=> Learnt(p)
      BY DEF Learnt
    <2>2. \A p \in Pair : Learnt(p) => Seen(p) >= Promote
      BY DEF SeenInv, ActiveHasRecurred, Seen
    <2>3. \A p \in Pair : Learnt(p)' => Seen(p)' >= Promote
      BY <1>0, <1>1, <2>1, <2>2
    <2> QED
      BY <2>3 DEF ActiveHasRecurred, Seen
  <1>3. worker.at \in {"upsert", "write"} => \A p \in Pair : worker.rows[p] <= Seen(p)'
    BY <1>1 DEF SeenInv, TypeOK, Worker
  <1>4. worker.at = "write" /\ Advanced(worker.snap) => Seen(worker.pair)' >= Promote
    <2>1. Seen(worker.pair) <= Seen(worker.pair)' /\ Seen(worker.pair) \in Nat /\ Seen(worker.pair)' \in Nat
      BY <1>1
    <2> QED
      BY <1>0, <2>1 DEF SeenInv
  <1>5. ASSUME NEW u \in User, user[u].at = "write", user[u].snap.status # "candidate"
        PROVE  Seen(user[u].pair)' >= Promote
    <2>1. Seen(user[u].pair) >= Promote
      BY <1>5 DEF SeenInv
    <2>2. Seen(user[u].pair) <= Seen(user[u].pair)' /\ Seen(user[u].pair) \in Nat /\ Seen(user[u].pair)' \in Nat
      BY <1>1
    <2> QED
      BY <1>0, <2>1, <2>2
  <1>6. \A p : Seen(p)' = Cardinality(Recurrences(p)')
    BY DEF Seen
  <1>7. worker' = worker /\ user' = user
    OBVIOUS
  <1>8. worker'.at \in {"upsert", "write"} => \A p \in Pair : worker'.rows[p] <= Seen(p)'
    BY <1>3, <1>7
  <1>9. worker'.at = "write" /\ Advanced(worker.snap)' => Seen(worker.pair)' >= Promote
    BY <1>4, <1>7 DEF Advanced
  <1>10. \A u \in User : user'[u].at = "write" /\ user'[u].snap.status # "candidate" => Seen(user[u].pair)' >= Promote
    BY <1>5, <1>7
  <1> QED
    BY <1>2, <1>8, <1>9, <1>10 DEF SeenInv

(* A step that changes one procedure, or none.                             *)
LEMMA SeenByPair ==
  ASSUME TypeOK, SeenInv, UNCHANGED linked, NEW p \in Pair, NEW q,
         procedure' = [procedure EXCEPT ![p] = q], Advanced(q) => Seen(p) >= Promote
  PROVE  ActiveHasRecurred'
PROOF
  <1>1. \A r : Recurrences(r)' = Recurrences(r)
    BY DEF Recurrences
  <1>2. \A r \in Pair : Learnt(r)' => Seen(r) >= Promote
    <2>1. procedure'[p] = q /\ \A r \in Pair \ {p} : procedure'[r] = procedure[r]
      BY DEF TypeOK
    <2>2. \A r \in Pair : Learnt(r) => Seen(r) >= Promote
      BY DEF SeenInv, ActiveHasRecurred, Seen
    <2>3. \A r \in Pair \ {p} : Learnt(r)' => Learnt(r)
      BY <2>1 DEF Learnt
    <2>4. Learnt(p)' => Advanced(q)
      BY <2>1 DEF Learnt, Advanced
    <2> QED
      BY <2>2, <2>3, <2>4
  <1> QED
    BY <1>1, <1>2 DEF ActiveHasRecurred, Seen

LEMMA SweepSees ==
  ASSUME TypeOK, TypeInv, ChainsInv, SeenInv, Sweep PROVE SeenInv'
PROOF
  <1>0. linked' = linked /\ user' = user /\ worker \in Worker
    BY DEF Sweep, Detect, Snapshot, Write, Detected, Decay, Prune, Pruned, TypeOK
  <1>1. \A p : Recurrences(p)' = Recurrences(p)
    BY <1>0 DEF Recurrences
  <1>2. \A p : Seen(p)' = Cardinality(Recurrences(p))
    BY <1>1 DEF Seen
  <1>3. \A p : Seen(p)' = Seen(p)
    BY <1>2 DEF Seen
  <1>4. \A u \in User : user'[u].at = "write" /\ user'[u].snap.status # "candidate" => Seen(user[u].pair)' >= Promote
    <2>1. \A u \in User : user[u].at = "write" /\ user[u].snap.status # "candidate" => Seen(user[u].pair) >= Promote
      BY DEF SeenInv
    <2>2. \A u \in User : Seen(user[u].pair)' = Seen(user[u].pair)
      <3>1. \A u \in User : Seen(user[u].pair)' = Cardinality(Recurrences(user[u].pair))
        BY <1>0, <1>1 DEF Seen, Recurrences
      <3> QED
        BY <3>1 DEF Seen
    <2> QED
      BY <1>0, <2>1, <2>2
  <1>5. UNCHANGED procedure => ActiveHasRecurred'
    BY <1>1 DEF SeenInv, ActiveHasRecurred, Learnt
  <1>6. ASSUME worker'.at \notin {"upsert", "write"}, ActiveHasRecurred' PROVE SeenInv'
    BY <1>4, <1>6 DEF SeenInv
  <1>7. NoSweep.at = "idle" /\ [NoSweep EXCEPT !.at = "decay"].at = "decay"
    BY DEF NoSweep
  <1>8. CASE Detect
    <2>1. CASE worker' = [worker EXCEPT !.at = "decay"]
      <3>1. worker'.at = "decay"
        BY <1>0, <2>1 DEF Worker
      <3> QED
        BY <1>5, <1>6, <1>8, <3>1 DEF Detect
    <2>2. CASE worker' = [worker EXCEPT !.at = "upsert", !.rows = [p \in Pair |-> Count(p)],
                                        !.todo = {p \in Pair : Count(p) > 0}]
      <3>1. worker'.at = "upsert" /\ worker'.rows = [p \in Pair |-> Count(p)]
        BY <1>0, <2>2 DEF Worker
      <3>2. \A p \in Pair : worker'.rows[p] <= Seen(p)'
        BY <1>3, <3>1, RowsAreSeen
      <3> QED
        BY <1>4, <1>5, <1>8, <3>1, <3>2 DEF Detect, SeenInv
    <2> QED
      BY <1>8, <2>1, <2>2 DEF Detect
  <1>9. ASSUME NEW p \in Pair, Snapshot(p) PROVE SeenInv'
    <2>1. CASE worker' = [NoSweep EXCEPT !.at = "decay"]
      BY <1>5, <1>6, <1>7, <1>9, <2>1 DEF Snapshot
    <2>2. CASE worker' = [worker EXCEPT !.at = "write", !.todo = @ \ {p}, !.pair = p, !.snap = procedure[p]]
      <3>1. worker'.at = "write" /\ worker'.rows = worker.rows /\ worker'.pair = p /\ worker'.snap = procedure[p]
        BY <1>0, <2>2 DEF Worker
      <3>2. \A r \in Pair : worker'.rows[r] <= Seen(r)'
        BY <1>3, <1>9, <3>1 DEF Snapshot, SeenInv
      <3>3. Advanced(procedure[p]) => Seen(p) >= Promote
        BY DEF SeenInv, ActiveHasRecurred, Learnt, Advanced, Seen
      <3>4. Advanced(worker.snap)' => Seen(worker.pair)' >= Promote
        <4>1. Advanced(worker.snap)' <=> Advanced(procedure[p])
          BY <3>1 DEF Advanced
        <4>2. Seen(worker.pair)' = Seen(p)
          BY <1>0, <3>1 DEF Seen, Recurrences
        <4> QED
          BY <3>3, <4>1, <4>2
      <3> QED
        BY <1>4, <1>5, <1>9, <3>1, <3>2, <3>4 DEF Snapshot, SeenInv
    <2> QED
      BY <1>9, <2>1, <2>2 DEF Snapshot
  <1>10. CASE Write
    <2>1. CASE worker' = [NoSweep EXCEPT !.at = "decay"] /\ UNCHANGED procedure
      BY <1>5, <1>6, <1>7, <2>1
    <2>2. CASE /\ procedure' = [procedure EXCEPT ![worker.pair] =
                                   Upserted(worker.snap, worker.rows[worker.pair])]
               /\ worker' = [worker EXCEPT !.at = "upsert", !.pair = None, !.snap = None]
      <3> DEFINE p == worker.pair
                 q == Upserted(worker.snap, worker.rows[p])
      <3>1. p \in Pair /\ worker.snap \in Procedure \cup {None} /\ worker.rows[p] \in Nat
        BY <1>0, <1>10 DEF Write, TypeInv, Worker
      <3>2. Advanced(q) => worker.rows[p] >= Promote \/ Advanced(worker.snap)
        BY <3>1, MergedTypes DEF Advanced
      <3>3. Seen(p) \in Nat /\ Promote \in Nat /\ worker.rows[p] <= Seen(p)
            /\ (Advanced(worker.snap) => Seen(p) >= Promote)
        BY <1>10, <3>1, SeenIsCounted, ProceduresAssumption DEF Write, SeenInv
      <3> HIDE DEF q
      <3>4. Advanced(q) => Seen(p) >= Promote
        BY <3>1, <3>2, <3>3
      <3>5. ActiveHasRecurred'
        BY <1>0, <2>2, <3>1, <3>4, SeenByPair DEF q
      <3>6. worker'.at = "upsert" /\ worker'.rows = worker.rows
        BY <1>0, <2>2 DEF Worker
      <3>7. \A r \in Pair : worker'.rows[r] <= Seen(r)'
        BY <1>3, <1>10, <3>6 DEF Write, SeenInv
      <3> QED
        BY <1>4, <3>5, <3>6, <3>7 DEF SeenInv
    <2> QED
      BY <1>10, <2>1, <2>2 DEF Write
  <1>11. CASE Detected \/ Pruned
    BY <1>5, <1>6, <1>7, <1>11 DEF Detected, Pruned
  <1>12. CASE Decay
    <2>1. UNCHANGED procedure
      BY <1>12 DEF Decay
    <2>2. CASE worker' = NoSweep
      BY <1>5, <1>6, <1>7, <2>1, <2>2
    <2>3. ASSUME NEW S, worker' = [NoSweep EXCEPT !.at = "prune", !.doomed = S] PROVE SeenInv'
      <3>1. worker'.at = "prune"
        BY <2>3 DEF NoSweep
      <3> QED
        BY <1>5, <1>6, <2>1, <3>1
    <2> QED
      BY <1>12, <2>2, <2>3 DEF Decay
  <1>13. ASSUME NEW e \in Episode, Prune(e) PROVE SeenInv'
    <2>1. UNCHANGED procedure /\ worker.at = "prune"
      BY <1>13 DEF Prune
    <2>2. worker'.at \in {"idle", "prune"}
      BY <1>0, <1>7, <1>13, <2>1 DEF Prune, Worker
    <2> QED
      BY <1>5, <1>6, <2>1, <2>2
  <1> QED
    BY <1>8, <1>9, <1>10, <1>11, <1>12, <1>13 DEF Sweep

(* Uses copy and write procedures, but none that is a candidate advances.  *)
LEMMA UseSees ==
  ASSUME TypeOK, TypeInv, SeenInv, NEW u \in User,
         WriteUse(u) \/ \E p \in Pair, ok \in BOOLEAN : ReadUse(u, p, ok)
  PROVE  SeenInv'
PROOF
  <1>0. linked' = linked /\ worker' = worker
    BY DEF WriteUse, ReadUse
  <1>1. \A p : Recurrences(p)' = Recurrences(p)
    BY <1>0 DEF Recurrences
  <1>2. \A p : Seen(p)' = Cardinality(Recurrences(p))
    BY <1>1 DEF Seen
  <1>3. \A p : Seen(p)' = Seen(p)
    BY <1>2 DEF Seen
  <1>4. (worker.at \in {"upsert", "write"})' => \A p \in Pair : worker'.rows[p] <= Seen(p)'
    BY <1>0, <1>3 DEF SeenInv
  <1>5. worker'.at = "write" /\ Advanced(worker.snap)' => Seen(worker.pair)' >= Promote
    <2>1. Seen(worker.pair)' = Seen(worker.pair)
      BY <1>0 DEF Seen, Recurrences
    <2>2. Advanced(worker.snap)' <=> Advanced(worker.snap)
      BY <1>0 DEF Advanced
    <2> QED
      BY <1>0, <2>1, <2>2 DEF SeenInv
  <1>6. ASSUME NEW v \in User, user'[v] = user[v], user[v].at = "write", user[v].snap.status # "candidate"
        PROVE  Seen(user[v].pair)' >= Promote
    <2>1. Seen(user[v].pair)' = Seen(user[v].pair)
      BY <1>0, <1>6 DEF Seen, Recurrences
    <2> QED
      BY <1>6, <2>1 DEF SeenInv
  <1>7. CASE WriteUse(u)
    <2>1. user'[u].at = "idle" /\ \A v \in User \ {u} : user'[v] = user[v]
      BY <1>7 DEF WriteUse, NoUse, TypeOK
    <2>2. ActiveHasRecurred'
      <3>1. CASE UNCHANGED procedure
        BY <1>1, <3>1 DEF SeenInv, ActiveHasRecurred, Learnt
      <3>2. CASE procedure' = [procedure EXCEPT ![user[u].pair] = Used(user[u].snap, user[u].ok)]
        <4> DEFINE p == user[u].pair
                   q == Used(user[u].snap, user[u].ok)
        <4>1. p \in Pair /\ user[u].snap \in Procedure /\ user[u].ok \in BOOLEAN
          BY <1>7 DEF WriteUse, TypeInv, TypeOK, Use
        <4>2. Advanced(q) => user[u].snap.status # "candidate"
          BY <4>1, UsedTypes DEF Advanced
        <4>3. Advanced(q) => Seen(p) >= Promote
          BY <1>7, <4>2 DEF WriteUse, SeenInv
        <4> HIDE DEF q
        <4> QED
          BY <1>0, <3>2, <4>1, <4>3, SeenByPair DEF q
      <3> QED
        BY <1>7, <3>1, <3>2 DEF WriteUse
    <2>3. \A v \in User : user'[v].at = "write" /\ user'[v].snap.status # "candidate" => Seen(user[v].pair)' >= Promote
      BY <1>6, <2>1
    <2> QED
      BY <1>0, <1>4, <1>5, <2>2, <2>3 DEF SeenInv
  <1>8. ASSUME NEW p \in Pair, NEW ok \in BOOLEAN, ReadUse(u, p, ok) PROVE SeenInv'
    <2>1. /\ user'[u] = [at |-> "write", pair |-> p, snap |-> procedure[p], ok |-> ok]
          /\ \A v \in User \ {u} : user'[v] = user[v]
          /\ UNCHANGED procedure
      BY <1>8 DEF ReadUse, TypeOK
    <2>2. ActiveHasRecurred'
      BY <1>1, <2>1 DEF SeenInv, ActiveHasRecurred, Learnt
    <2>3. user'[u].snap.status # "candidate" => Seen(user[u].pair)' >= Promote
      <3>1. user'[u].pair = p /\ user'[u].snap = procedure[p]
        BY <2>1
      <3>2. Seen(user[u].pair)' = Seen(p)
        BY <1>0, <3>1 DEF Seen, Recurrences
      <3>3. procedure[p].status # "candidate" => Seen(p) >= Promote
        BY <1>8 DEF ReadUse, SeenInv, ActiveHasRecurred, Learnt, Seen
      <3> QED
        BY <3>1, <3>2, <3>3
    <2>4. \A v \in User : user'[v].at = "write" /\ user'[v].snap.status # "candidate" => Seen(user[v].pair)' >= Promote
      BY <1>6, <2>1, <2>3
    <2> QED
      BY <1>0, <1>4, <1>5, <2>2, <2>4 DEF SeenInv
  <1> QED
    BY <1>7, <1>8

LEMMA SeenStays ==
  ASSUME TypeOK, TypeInv, ChainsInv, TypeInv', SeenInv, [Next]_vars PROVE SeenInv'
PROOF
  <1>1. CASE UNCHANGED vars
    BY <1>1, SeenGrows DEF vars
  <1>2. ASSUME NEW c \in Recorder, NEW e \in Episode, NEW t \in 1..MaxStamp, Begin(c, e, t)
        PROVE  SeenInv'
    BY <1>2, SeenGrows DEF Begin
  <1>3. ASSUME NEW c \in Recorder, Record(c) PROVE SeenInv'
    <2>1. linked \subseteq linked' /\ UNCHANGED <<procedure, worker, user>>
      BY <1>3 DEF Record, Look, Merge, Attach, Follow, Finish, Fails
    <2> QED
      BY <2>1, SeenGrows
  <1>4. CASE Sweep
    BY <1>4, SweepSees
  <1>5. CASE \/ \E u \in User, p \in Pair, ok \in BOOLEAN : ReadUse(u, p, ok)
             \/ \E u \in User : WriteUse(u)
    BY <1>5, UseSees
  <1> QED
    BY <1>1, <1>2, <1>3, <1>4, <1>5 DEF Next

(* Unless a caller records an episode again, a procedure is only promoted  *)
(* on promote_threshold distinct recurrences, whatever copy of it a sweep  *)
(* or a use writes back, and although the detector counts paths.           *)
THEOREM PromotionIsEarned == Retries = FALSE => (Spec => []ActiveHasRecurred)
PROOF
  <1>1. SUFFICES ASSUME Retries = FALSE PROVE Spec => []ActiveHasRecurred
    OBVIOUS
  <1>2. Init => TypeOK /\ TypeInv /\ ChainsInv /\ SeenInv
    BY InitTypes, InitTypeInv, InitChains, InitSeen
  <1>3. TypeOK /\ TypeInv /\ ChainsInv /\ SeenInv /\ [Next]_vars
          => TypeOK' /\ TypeInv' /\ ChainsInv' /\ SeenInv'
    BY <1>1, Types, ChainsStay, SeenStays
  <1>4. SeenInv => ActiveHasRecurred
    BY DEF SeenInv
  <1> QED
    BY <1>2, <1>3, <1>4, PTL DEF Spec
=============================================================================
