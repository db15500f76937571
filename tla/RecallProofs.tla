---------------------------- MODULE RecallProofs ----------------------------
(***************************************************************************)
(* Proofs about Recall, for any turns, sessions, beliefs and bounds.  The  *)
(* writers leave the recall in progress alone and a recall writes nothing, *)
(* so each part of the invariant has a lemma for either side.              *)
(***************************************************************************)
EXTENDS Recall, FiniteSetTheorems, TLAPS

(* What has been a node once: its id is not given to another node.         *)
Kept(S) ==
  \A n \in S : \/ n[1] = "Fact" /\ n \in stored
               \/ n[1] \in Kinds /\ (Message(n[2]) \in stored \/ n[2] \in gone)

(* What a forget_message undertook to hide is hidden where it is stored.   *)
GraphInv ==
  /\ Kept(stored) /\ Kept(owed) /\ private \subseteq stored
  /\ owed \cap stored \subseteq redacted

(* A node private when the recall began has been redacted since, if it is  *)
(* not private any more.                                                   *)
HistoryInv ==
  /\ call.owedThen \subseteq owed /\ Kept(call.privateThen)
  /\ call.privateThen \subseteq ByPolicy
  /\ call.privateThen \cap stored \subseteq private \cup redacted

(* How far the gates have come.                                            *)
Hidden(S) == call.items \cap S \cap stored = {}
GateInv ==
  /\ call.at \in {"visibility", "view", "done"} => Hidden(call.owedThen \cap ByFlag)
  /\ call.at \in {"view", "done"} => Hidden(call.owedThen)
  /\ call.at = "done" /\ call.viewer = "outsider" => Hidden(call.privateThen)

(* Every list of the cascade is bound by the scope.                        *)
Within(S) == \A n \in S : InScope(n, call.scope)
ScopeInv ==
  /\ call.at = "resolve" => call.p2 = {}
  /\ call.items # {} => call.at \in {"flags", "visibility", "view", "done", "failed"}
  /\ call.scoped =>
    /\ Within(call.allow) /\ Within(call.p1)
    /\ \A n \in call.p2 \cup call.items : InScope(n, call.scope) \/ n \in call.walked \/ BySparse(n)

(* The lists a later phase trims are finite, which is what makes the best  *)
(* of a list that is not empty not empty.                                  *)
FoundInv == IsFiniteSet(call.p1) /\ IsFiniteSet(call.p2) /\ FoundIsReturned

IInv == TypeOK /\ GraphInv /\ HistoryInv /\ GateInv /\ ScopeInv /\ FoundInv
-----------------------------------------------------------------------------
(* The nodes of a turn are nodes, and no Fact.                             *)
LEMMA TurnNodes ==
  ASSUME NEW t \in Turns
  PROVE  /\ {Message(t), Chunk(t), Observation(t)} \subseteq Node
         /\ Observation(t) \in ByPolicy
         /\ \A n \in {Message(t), Chunk(t), Observation(t)} : n[1] \in Kinds /\ n[2] = t
PROOF
  BY DEF Message, Chunk, Observation, Node, ByPolicy, Kinds

(* A Fact is a node that belongs to no turn.                               *)
LEMMA FactNode ==
  ASSUME NEW b \in Beliefs
  PROVE  Fact(b) \in Node /\ Fact(b) \in ByPolicy /\ Fact(b)[1] = "Fact" /\ Fact(b)[1] \notin Kinds
PROOF
  BY DEF Fact, Node, ByPolicy, Kinds

(* forget_message redacts stored nodes, Facts among them.                  *)
LEMMA TombstonesAreNodes ==
  ASSUME TypeOK, NEW t \in Turns
  PROVE  Tombstones(t) \subseteq stored /\ Tombstones(t) \subseteq Node
         /\ \A n \in RestsOnlyOn(t) : n \in stored /\ n \in Node /\ n[1] = "Fact"
PROOF
  BY FactNode DEF TypeOK, Tombstones, RestsOnlyOn

-----------------------------------------------------------------------------
(* The writers.                                                            *)

(* A writer leaves the recall alone.                                       *)
LEMMA WritersLeaveTheCall ==
  ASSUME Write PROVE call' = call
PROOF
  BY DEF Write, Ingest, Forget, Delete, Upsert, Support, MakePrivate

(* Types through a write.                                                  *)
LEMMA WriteTypes ==
  ASSUME TypeOK, Write, Beside PROVE TypeOK'
PROOF
  <1>0. beside' \in Nat
    BY DEF Beside, TypeOK
  <1>1. ASSUME NEW t \in Turns, Ingest(t) PROVE TypeOK'
    BY <1>0, <1>1, TurnNodes DEF Ingest, TypeOK
  <1>2. ASSUME NEW t \in Turns, Forget(t) PROVE TypeOK'
    BY <1>0, <1>2, TurnNodes, TombstonesAreNodes DEF Forget, TypeOK
  <1>3. ASSUME NEW t \in Turns, Delete(t) PROVE TypeOK'
    BY <1>0, <1>3 DEF Delete, TypeOK
  <1>4. ASSUME NEW t \in Turns, Upsert(t) PROVE TypeOK'
    <2>1. Fact(Says[t]) \in Node
      BY RecallAssumption, FactNode
    <2> QED
      BY <1>0, <1>4, <2>1 DEF Upsert, TypeOK
  <1>5. ASSUME Support PROVE TypeOK'
    BY <1>0, <1>5 DEF Support, TypeOK
  <1>6. ASSUME NEW n \in ByPolicy, MakePrivate(n) PROVE TypeOK'
    BY <1>0, <1>6 DEF MakePrivate, TypeOK
  <1> QED
    BY <1>1, <1>2, <1>3, <1>4, <1>5, <1>6 DEF Write

(* What a write adds to the graph is a Fact, or belongs to a turn that was *)
(* not there before; what it takes away belongs to a turn it marks gone.   *)
LEMMA WriteChanges ==
  ASSUME TypeOK, Write
  PROVE  /\ \A n \in stored' \ stored : \/ n[1] = "Fact"
                                        \/ n[1] \in Kinds /\ Message(n[2]) \notin stored /\ n[2] \notin gone
         /\ \A n \in stored \ stored' : n[1] \in Kinds /\ n[2] \in gone'
         /\ gone \subseteq gone'
PROOF
  <1>1. ASSUME NEW t \in Turns, Ingest(t)
        PROVE  /\ \A n \in stored' \ stored : n[1] \in Kinds /\ Message(n[2]) \notin stored /\ n[2] \notin gone
               /\ stored \subseteq stored' /\ gone' = gone
    BY <1>1, TurnNodes DEF Ingest
  <1>2. ASSUME NEW t \in Turns, Forget(t) PROVE stored' = stored /\ gone' = gone
    BY <1>2 DEF Forget
  <1>3. ASSUME NEW t \in Turns, Delete(t)
        PROVE  /\ stored' \subseteq stored /\ gone \subseteq gone'
               /\ \A n \in stored \ stored' : n[1] \in Kinds /\ n[2] \in gone'
    BY <1>3, TurnNodes DEF Delete
  <1>4. ASSUME NEW t \in Turns, Upsert(t)
        PROVE  /\ \A n \in stored' \ stored : n[1] = "Fact"
               /\ stored \subseteq stored' /\ gone' = gone
    BY <1>4, RecallAssumption, FactNode DEF Upsert
  <1>5. ASSUME Support PROVE stored' = stored /\ gone' = gone
    BY <1>5 DEF Support
  <1>6. ASSUME NEW n \in ByPolicy, MakePrivate(n) PROVE stored' = stored /\ gone' = gone
    BY <1>6 DEF MakePrivate
  <1> QED
    BY <1>1, <1>2, <1>3, <1>4, <1>5, <1>6 DEF Write

(* Kept is stable: whatever has been a node stays known.                   *)
LEMMA KeptIsStable ==
  ASSUME TypeOK, Write, Kept(stored), NEW S, Kept(S)
  PROVE  /\ \A n \in S : \/ n[1] = "Fact" /\ n \in stored'
                         \/ n[1] \in Kinds /\ (Message(n[2]) \in stored' \/ n[2] \in gone')
         /\ S \cap stored' \subseteq stored
PROOF
  <1>1. ASSUME NEW t \in Turns PROVE Message(t)[1] = "Message" /\ Message(t)[2] = t
    BY DEF Message
  <1>2. \A x : Message(x)[2] = x
    BY DEF Message
  <1>3. "Fact" \notin Kinds
    BY DEF Kinds
  <1> QED
    BY <1>2, <1>3, WriteChanges DEF Kept

(* The parts about the graph, through a write.                             *)
LEMMA WriteGraph ==
  ASSUME TypeOK, Write, GraphInv PROVE GraphInv'
PROOF
  <1>1. Kept(stored) /\ Kept(owed)
    BY DEF GraphInv
  <1>2. /\ \A n \in stored : \/ n[1] = "Fact" /\ n \in stored'
                             \/ n[1] \in Kinds /\ (Message(n[2]) \in stored' \/ n[2] \in gone')
        /\ \A n \in owed : \/ n[1] = "Fact" /\ n \in stored'
                           \/ n[1] \in Kinds /\ (Message(n[2]) \in stored' \/ n[2] \in gone')
        /\ owed \cap stored' \subseteq stored
    BY <1>1, KeptIsStable
  <1>3. ASSUME NEW t \in Turns, Ingest(t) PROVE GraphInv'
    <2>1. Message(t) \in stored' /\ stored \subseteq stored' /\ owed' = owed /\ redacted' = redacted
          /\ private' = private
      BY <1>3 DEF Ingest
    <2>2. \A n \in stored' \ stored : n[1] \in Kinds /\ n[2] = t
      BY <1>3, TurnNodes DEF Ingest
    <2> QED
      BY <1>2, <2>1, <2>2 DEF GraphInv, Kept
  <1>4. ASSUME NEW t \in Turns, Forget(t) PROVE GraphInv'
    <2>1. /\ stored' = stored /\ gone' = gone /\ redacted' = redacted \cup Tombstones(t)
          /\ private' \subseteq private /\ Message(t) \in stored
          /\ owed' = owed \cup {Message(t), Chunk(t), Observation(t)} \cup RestsOnlyOn(t)
      BY <1>4 DEF Forget
    <2>2. Kept(stored)'
      BY <1>1, <2>1 DEF Kept
    <2>3. Kept(owed)'
      BY <1>1, <2>1, TurnNodes, TombstonesAreNodes DEF Kept
    <2>4. (owed \cap stored)' \subseteq redacted'
      BY <2>1 DEF Tombstones, GraphInv
    <2> QED
      BY <2>1, <2>2, <2>3, <2>4 DEF GraphInv
  <1>5. ASSUME NEW t \in Turns, Delete(t) PROVE GraphInv'
    <2>1. /\ stored' \subseteq stored /\ owed' = owed /\ redacted' = redacted \cap stored'
          /\ private' = private \cap stored'
      BY <1>5 DEF Delete
    <2> QED
      BY <1>2, <2>1 DEF GraphInv, Kept
  <1>6. ASSUME NEW t \in Turns, Upsert(t) PROVE GraphInv'
    <2>1. /\ stored' = stored \cup {Fact(Says[t])} /\ owed' = owed /\ redacted' = redacted
          /\ private' = private
      BY <1>6 DEF Upsert
    <2>2. Fact(Says[t])[1] = "Fact"
      BY DEF Fact
    <2> QED
      BY <1>2, <2>1, <2>2 DEF GraphInv, Kept
  <1>7. ASSUME Support PROVE GraphInv'
    BY <1>7 DEF Support, GraphInv, Kept
  <1>8. ASSUME NEW n \in ByPolicy, MakePrivate(n) PROVE GraphInv'
    BY <1>8 DEF MakePrivate, GraphInv, Kept
  <1> QED
    BY <1>3, <1>4, <1>5, <1>6, <1>7, <1>8 DEF Write

(* The parts about the recall, through a write: the graph gains nothing a  *)
(* gate has to catch.                                                      *)
LEMMA WriteHistory ==
  ASSUME TypeOK, Write, GraphInv, HistoryInv PROVE HistoryInv'
PROOF
  <1>1. call' = call
    BY WritersLeaveTheCall
  <1>2. owed \subseteq owed'
    BY DEF Write, Ingest, Forget, Delete, Upsert, Support, MakePrivate
  <1>3. Kept(stored) /\ Kept(call.privateThen)
    BY DEF GraphInv, HistoryInv
  <1>4. /\ \A n \in call.privateThen :
             \/ n[1] = "Fact" /\ n \in stored'
             \/ n[1] \in Kinds /\ (Message(n[2]) \in stored' \/ n[2] \in gone')
        /\ call.privateThen \cap stored' \subseteq stored
    BY <1>3, KeptIsStable
  <1>5. (private \cup redacted) \cap stored' \subseteq private' \cup redacted'
    BY DEF Write, Ingest, Forget, Delete, Upsert, Support, MakePrivate
  <1> QED
    BY <1>1, <1>2, <1>4, <1>5 DEF HistoryInv, Kept

LEMMA WriteGates ==
  ASSUME TypeOK, Write, GraphInv, HistoryInv, GateInv PROVE GateInv'
PROOF
  <1>1. call' = call
    BY WritersLeaveTheCall
  <1>2. Kept(stored) /\ Kept(call.privateThen) /\ Kept(owed)
    BY DEF GraphInv, HistoryInv
  <1>3. owed \cap stored' \subseteq stored /\ call.privateThen \cap stored' \subseteq stored
    BY <1>2, KeptIsStable
  <1>4. call.owedThen \cap stored' \subseteq stored
    BY <1>3 DEF HistoryInv
  <1> QED
    BY <1>1, <1>3, <1>4 DEF GateInv, Hidden
-----------------------------------------------------------------------------
(* The recall.                                                             *)

(* A step of the recall leaves the graph alone.                            *)
LEMMA StepsWriteNothing ==
  ASSUME Step
  PROVE  stored' = stored /\ redacted' = redacted /\ private' = private /\ supports' = supports
         /\ processed' = processed /\ cycle' = cycle /\ gone' = gone /\ owed' = owed
PROOF
  BY DEF Step, Start, Resolve, Compact, Expand, Broaden, RedactFlags, RedactByVisibility,
         View, LookupFails, Answer, graph, FallBack

(* What finalize_bundle keeps of a tagged list are nodes of that list.     *)
LEMMA TrimmedAreNodes ==
  ASSUME NEW S, NEW items \in Trimmed(S), NEW n \in items
  PROVE  \E i \in S : n = i[2]
PROOF
  BY DEF Trimmed, Nodes, Best

(* What phase 1 contributes are nodes of phase 1.                          *)
LEMMA BestAreCompiled ==
  ASSUME NEW best \in Contribution
  PROVE  \A i \in best : i[2] \in call.p1
PROOF
  BY DEF Contribution, Best, From

(* The recall at the gates, with what the phases found.                    *)
Delivered(items, walked, found) ==
  call' = [call EXCEPT !.at = "flags", !.allow = {}, !.p1 = {}, !.p2 = {},
                       !.walked = walked, !.found = found, !.items = items]

(* What a recall in phase 1, 2 or 3 can do: go on, or stop with items that *)
(* some phase found.                                                       *)
LEMMA CompactDelivers ==
  ASSUME TypeOK, Compact
  PROVE  \/ \E p1 \in SUBSET Compiled : call' = [call EXCEPT !.at = "expand", !.p1 = p1]
         \/ \E p1 \in SUBSET Compiled, items \in SUBSET Compiled, found \in BOOLEAN :
              items \subseteq p1 /\ Delivered(items, call.walked, found)
PROOF
  <1>1. PICK p1 \in Few(Compiled) :
          \/ call' = [call EXCEPT !.at = "expand", !.p1 = p1]
          \/ \E items \in Trimmed(From(1, p1)) : call' = Gated(p1, items)
    BY DEF Compact
  <1>2. p1 \in SUBSET Compiled
    BY DEF Few
  <1>3. ASSUME NEW items \in Trimmed(From(1, p1)), call' = Gated(p1, items)
        PROVE  items \subseteq p1 /\ Delivered(items, call.walked, p1 # {})
    <2>1. items \subseteq p1
      BY TrimmedAreNodes DEF From
    <2>2. Delivered(items, call.walked, p1 # {})
      BY <1>3 DEF Gated, Delivered, TypeOK
    <2> QED
      BY <2>1, <2>2
  <1> QED
    BY <1>1, <1>2, <1>3

LEMMA ExpandDelivers ==
  ASSUME TypeOK, Expand
  PROVE  \/ \E p2 \in SUBSET (Searched \cup Reached) :
              call' = [call EXCEPT !.at = "broaden", !.p2 = p2, !.walked = p2 \ Searched]
         \/ \E p2 \in SUBSET (Searched \cup Reached), items \in SUBSET Node, found \in BOOLEAN :
              items \subseteq p2 \cup call.p1 /\ Delivered(items, p2 \ Searched, found)
PROOF
  <1>1. PICK p2 \in Few(Searched \cup Reached) :
          \/ call' = [call EXCEPT !.at = "broaden", !.p2 = p2, !.walked = p2 \ Searched]
          \/ \E best \in Contribution : \E items \in Trimmed(From(2, p2) \cup best) :
               call' = [Gated(p2, items) EXCEPT !.walked = p2 \ Searched]
    BY DEF Expand
  <1>2. p2 \in SUBSET (Searched \cup Reached) /\ p2 \in SUBSET Node
    BY DEF Few, Searched, Unfiltered, Reached, TypeOK
  <1>3. ASSUME NEW best \in Contribution, NEW items \in Trimmed(From(2, p2) \cup best),
               call' = [Gated(p2, items) EXCEPT !.walked = p2 \ Searched]
        PROVE  /\ items \subseteq p2 \cup call.p1 /\ items \in SUBSET Node
               /\ Delivered(items, p2 \ Searched, p2 # {})
    <2>1. items \subseteq p2 \cup call.p1
      BY TrimmedAreNodes, BestAreCompiled DEF From
    <2>2. call.p1 \subseteq Node
      BY DEF TypeOK, Node
    <2>3. Delivered(items, p2 \ Searched, p2 # {})
      BY <1>3 DEF Gated, Delivered, TypeOK
    <2> QED
      BY <1>2, <2>1, <2>2, <2>3
  <1> QED
    BY <1>1, <1>2, <1>3

LEMMA BroadenDelivers ==
  ASSUME TypeOK, Broaden
  PROVE  \E items \in SUBSET Node, found \in BOOLEAN :
           /\ items \subseteq Broadened \cup call.p1 \cup call.p2
           /\ Delivered(items, call.walked, found)
PROOF
  <1>0. call.p1 \subseteq Node /\ call.p2 \subseteq Node /\ Broadened \subseteq Node
    BY DEF TypeOK, Node, Broadened, Unfiltered
  <1>1. PICK p3 \in Few(Broadened) :
          IF p3 = {} THEN FallBack
          ELSE \E best \in Contribution : \E items \in Trimmed(Merged(p3, best)) :
                 call' = Gated(p3, items)
    BY DEF Broaden
  <1>2. CASE p3 = {}
    <2>1. PICK items \in Trimmed(From(2, call.p2)) : call' = Gated(call.p2, items)
      BY <1>1, <1>2 DEF FallBack
    <2>2. items \subseteq call.p2
      BY TrimmedAreNodes DEF From
    <2>3. Delivered(items, call.walked, call.p2 # {})
      BY <2>1 DEF Gated, Delivered, TypeOK
    <2> QED
      BY <1>0, <2>2, <2>3
  <1>3. CASE p3 # {}
    <2>1. PICK best \in Contribution : \E items \in Trimmed(Merged(p3, best)) : call' = Gated(p3, items)
      BY <1>1, <1>3
    <2>2. PICK items \in Trimmed(Merged(p3, best)) : call' = Gated(p3, items)
      BY <2>1
    <2>3. items \subseteq Broadened \cup call.p1
      <3>1. Nodes(best) \subseteq call.p1
        BY BestAreCompiled DEF Nodes
      <3>2. p3 \subseteq Broadened
        BY DEF Few
      <3> QED
        BY <3>1, <3>2, TrimmedAreNodes DEF Merged, From
    <2>4. Delivered(items, call.walked, p3 # {})
      BY <2>2 DEF Gated, Delivered, TypeOK
    <2> QED
      BY <1>0, <2>3, <2>4
  <1> QED
    BY <1>2, <1>3

(* Where a recall stands after a step, apart from its lists.               *)
LEMMA StepTypes ==
  ASSUME TypeOK, Step, beside' = (IF call'.at = "idle" THEN 0 ELSE beside) PROVE TypeOK'
PROOF
  <1>0. /\ stored' = stored /\ redacted' = redacted /\ private' = private /\ supports' = supports
        /\ processed' = processed /\ cycle' = cycle /\ gone' = gone /\ owed' = owed
    BY StepsWriteNothing
  <1> DEFINE Calls == [at : {"idle", "resolve", "compact", "expand", "broaden", "flags",
                             "visibility", "view", "done", "failed"},
                scope : SUBSET Sessions, scoped : BOOLEAN, viewer : Viewers,
                allow : SUBSET Node, unfiltered : BOOLEAN, p1 : SUBSET ({"Fact"} \X Beliefs), p2 : SUBSET Node,
                walked : SUBSET Node, found : BOOLEAN, items : SUBSET Node, owedThen : SUBSET Node,
                privateThen : SUBSET Node]
  <1>1. call \in Calls
    BY DEF TypeOK
  <1>2. NoCall \in Calls
    BY DEF NoCall, Viewers
  <1>3. beside' \in Nat
    BY DEF TypeOK
  <1>4. SUFFICES call' \in Calls
    BY <1>0, <1>3 DEF TypeOK
  <1>5. ASSUME NEW items \in SUBSET Node, NEW walked \in SUBSET Node, NEW found \in BOOLEAN,
               Delivered(items, walked, found)
        PROVE  call' \in Calls
    BY <1>1, <1>5 DEF Delivered
  <1>6. Compiled \subseteq Node /\ Compiled \subseteq {"Fact"} \X Beliefs
    BY DEF Compiled, TypeOK, Node, Kinds
  <1>7. Searched \subseteq Node /\ Reached \subseteq Node
    BY DEF Searched, Unfiltered, Reached, TypeOK
  <1>8. CASE Start
    <2>1. PICK scoped \in BOOLEAN, scope \in Scopes \cup {{}} :
            call' = [NoCall EXCEPT !.at = "resolve", !.scoped = scoped, !.scope = scope,
                                   !.owedThen = owed, !.privateThen = private]
      BY <1>8 DEF Start
    <2>2. scope \in SUBSET Sessions /\ private \in SUBSET Node
      BY RecallAssumption DEF TypeOK, ByPolicy
    <2> QED
      BY <1>2, <2>1, <2>2 DEF TypeOK
  <1>9. CASE Resolve
    <2>1. ASSUME NEW allow \in AllowSets(call.scoped, call.scope) PROVE allow \in SUBSET Node
      BY DEF AllowSets, Anything, Anchored, TypeOK
    <2>2. CASE \E allow \in AllowSets(call.scoped, call.scope) :
                 call' = [call EXCEPT !.at = "compact", !.allow = allow,
                                      !.unfiltered = SparseEnabled /\ allow = {}]
      <3>1. PICK allow \in AllowSets(call.scoped, call.scope) :
                 call' = [call EXCEPT !.at = "compact", !.allow = allow,
                                      !.unfiltered = SparseEnabled /\ allow = {}]
        BY <2>2
      <3>2. allow \in SUBSET Node /\ (SparseEnabled /\ allow = {}) \in BOOLEAN
        BY <2>1, RecallAssumption
      <3> QED
        BY <1>1, <3>1, <3>2
    <2>3. CASE call' = [call EXCEPT !.at = "failed"]
      BY <1>1, <2>3
    <2> QED
      BY <1>9, <2>2, <2>3 DEF Resolve
  <1>10. CASE Compact
    <2>1. ASSUME NEW p1 \in SUBSET Compiled, call' = [call EXCEPT !.at = "expand", !.p1 = p1]
          PROVE  call' \in Calls
      <3>1. p1 \in SUBSET ({"Fact"} \X Beliefs)
        BY <1>6
      <3> QED
        BY <1>1, <2>1, <3>1
    <2>2. call.walked \in SUBSET Node /\ SUBSET Compiled \subseteq SUBSET Node
      BY <1>6 DEF TypeOK
    <2> HIDE DEF Calls
    <2> QED
      BY <1>5, <1>10, <2>1, <2>2, CompactDelivers
  <1>11. CASE Expand
    <2>1. CASE \E p2 \in SUBSET (Searched \cup Reached) :
                 call' = [call EXCEPT !.at = "broaden", !.p2 = p2, !.walked = p2 \ Searched]
      <3>1. PICK p2 \in SUBSET (Searched \cup Reached) :
                 call' = [call EXCEPT !.at = "broaden", !.p2 = p2, !.walked = p2 \ Searched]
        BY <2>1
      <3>2. p2 \in SUBSET Node /\ p2 \ Searched \in SUBSET Node
        BY <1>7
      <3> QED
        BY <1>1, <3>1, <3>2
    <2>2. CASE \E p2 \in SUBSET (Searched \cup Reached), items \in SUBSET Node, found \in BOOLEAN :
                 items \subseteq p2 \cup call.p1 /\ Delivered(items, p2 \ Searched, found)
      BY <1>5, <1>7, <2>2
    <2> QED
      BY <1>11, <2>1, <2>2, ExpandDelivers
  <1>12. CASE Broaden
    <2>1. call.walked \in SUBSET Node
      BY DEF TypeOK
    <2> QED
      BY <1>5, <1>12, <2>1, BroadenDelivers
  <1>13. CASE RedactFlags
    BY <1>1, <1>13 DEF RedactFlags
  <1>14. CASE RedactByVisibility
    <2>1. PICK viewer \in Viewers :
            call' = [call EXCEPT !.at = IF viewer = "trusted" THEN "done" ELSE "view",
                       !.viewer = viewer, !.items = @ \ (ByPolicy \cap stored \cap redacted)]
      BY <1>14 DEF RedactByVisibility
    <2>2. (IF viewer = "trusted" THEN "done" ELSE "view") \in {"done", "view"}
      OBVIOUS
    <2> QED
      BY <1>1, <2>1, <2>2
  <1>15. CASE View
    BY <1>1, <1>15 DEF View
  <1>16. CASE LookupFails
    BY <1>1, <1>16 DEF LookupFails
  <1>17. CASE Answer
    BY <1>2, <1>17 DEF Answer
  <1> HIDE DEF Calls
  <1> QED
    BY <1>8, <1>9, <1>10, <1>11, <1>12, <1>13, <1>14, <1>15, <1>16, <1>17 DEF Step

(* What a step of the recall leaves as it is: the histories, from Start to *)
(* Answer.                                                                 *)
LEMMA StepKeepsHistory ==
  ASSUME TypeOK, Step
  PROVE  \/ call'.owedThen = owed /\ call'.privateThen = private
         \/ call' = NoCall
         \/ call'.owedThen = call.owedThen /\ call'.privateThen = call.privateThen
PROOF
  <1>1. CASE Start
    BY <1>1 DEF Start, NoCall
  <1>2. CASE Resolve
    BY <1>2 DEF Resolve, TypeOK
  <1>3. CASE Compact
    BY <1>3, CompactDelivers DEF Delivered, TypeOK
  <1>4. CASE Expand
    BY <1>4, ExpandDelivers DEF Delivered, TypeOK
  <1>5. CASE Broaden
    BY <1>5, BroadenDelivers DEF Delivered, TypeOK
  <1>6. CASE RedactFlags \/ RedactByVisibility \/ View \/ LookupFails
    BY <1>6 DEF RedactFlags, RedactByVisibility, View, LookupFails, TypeOK
  <1>7. CASE Answer
    BY <1>7 DEF Answer
  <1> QED
    BY <1>1, <1>2, <1>3, <1>4, <1>5, <1>6, <1>7 DEF Step

LEMMA StepHistory ==
  ASSUME TypeOK, Step, GraphInv, HistoryInv PROVE GraphInv' /\ HistoryInv'
PROOF
  <1>1. /\ stored' = stored /\ redacted' = redacted /\ private' = private
        /\ gone' = gone /\ owed' = owed
    BY StepsWriteNothing
  <1>2. GraphInv'
    BY <1>1 DEF GraphInv, Kept
  <1>3. CASE call'.owedThen = owed /\ call'.privateThen = private
    <2>1. Kept(private)
      BY DEF GraphInv, Kept
    <2> QED
      BY <1>1, <1>2, <1>3, <2>1 DEF HistoryInv, Kept, TypeOK
  <1>4. CASE call' = NoCall
    BY <1>2, <1>4 DEF HistoryInv, Kept, NoCall
  <1>5. CASE call'.owedThen = call.owedThen /\ call'.privateThen = call.privateThen
    BY <1>1, <1>2, <1>5 DEF HistoryInv, Kept
  <1> QED
    BY <1>2, <1>3, <1>4, <1>5, StepKeepsHistory

(* Each gate removes what the one before it left.                          *)
LEMMA StepGates ==
  ASSUME TypeOK, Step, GraphInv, HistoryInv, GateInv PROVE GateInv'
PROOF
  <1>0. stored' = stored
    BY StepsWriteNothing
  <1>1. CASE call'.at \notin {"visibility", "view", "done"}
    BY <1>1 DEF GateInv
  <1>2. CASE RedactFlags
    <2>1. call' = [call EXCEPT !.at = "visibility", !.found = FALSE,
                               !.items = @ \ (ByFlag \cap stored \cap redacted)]
      BY <1>2 DEF RedactFlags
    <2>2. /\ call'.at = "visibility" /\ call'.owedThen = call.owedThen
          /\ call'.items = call.items \ (ByFlag \cap stored \cap redacted)
      BY <2>1 DEF TypeOK
    <2>3. call.owedThen \cap stored \subseteq redacted
      BY DEF HistoryInv, GraphInv
    <2> QED
      BY <1>0, <2>2, <2>3 DEF GateInv, Hidden
  <1>3. CASE RedactByVisibility
    <2>1. PICK viewer \in Viewers :
            call' = [call EXCEPT !.at = IF viewer = "trusted" THEN "done" ELSE "view",
                       !.viewer = viewer, !.items = @ \ (ByPolicy \cap stored \cap redacted)]
      BY <1>3 DEF RedactByVisibility
    <2>2. /\ call'.at \in {"done", "view"} /\ (call'.at = "done" => call'.viewer = "trusted")
          /\ call'.owedThen = call.owedThen
          /\ call'.items = call.items \ (ByPolicy \cap stored \cap redacted)
      BY <2>1 DEF TypeOK
    <2>3. call.owedThen \cap stored \subseteq redacted /\ stored \subseteq ByPolicy \cup ByFlag
      BY DEF HistoryInv, GraphInv, TypeOK, ByFlag
    <2>4. Hidden(call.owedThen \cap ByFlag)
      BY <1>3 DEF RedactByVisibility, GateInv
    <2> QED
      BY <1>0, <2>2, <2>3, <2>4 DEF GateInv, Hidden
  <1>4. CASE View
    <2>1. /\ call'.at = "done" /\ call'.owedThen = call.owedThen
          /\ call'.privateThen = call.privateThen /\ call'.viewer = call.viewer
          /\ call'.items = {n \in call.items : n \in ByPolicy \cap stored => Admits(call.viewer, n)}
      BY <1>4 DEF View, TypeOK
    <2>2. Hidden(call.owedThen)
      BY <1>4 DEF View, GateInv
    <2>3. call.viewer = "outsider" => \A n \in call'.items \cap call.privateThen : n \notin stored
      BY <2>1 DEF Admits, HistoryInv
    <2> QED
      BY <1>0, <2>1, <2>2, <2>3 DEF GateInv, Hidden
  <1>5. CASE Start \/ Resolve \/ LookupFails \/ Answer
    <2>1. CASE Start \/ Answer
      <3>1. call'.at \in {"idle", "resolve"}
        <4>1. CASE Start
          BY <4>1 DEF Start, NoCall
        <4>2. CASE Answer
          BY <4>2 DEF Answer, NoCall
        <4> QED
          BY <2>1, <4>1, <4>2
      <3> QED
        BY <1>1, <3>1
    <2>2. CASE Resolve \/ LookupFails
      <3>1. call'.at \in {"compact", "failed"}
        BY <2>2 DEF Resolve, LookupFails, TypeOK
      <3> QED
        BY <1>1, <3>1
    <2> QED
      BY <1>5, <2>1, <2>2
  <1>6. CASE Compact \/ Expand \/ Broaden
    <2>1. call'.at \in {"expand", "broaden", "flags"}
      BY <1>6, CompactDelivers, ExpandDelivers, BroadenDelivers DEF Delivered, TypeOK
    <2> QED
      BY <1>1, <2>1
  <1> QED
    BY <1>2, <1>3, <1>4, <1>5, <1>6 DEF Step

(* No list of the cascade leaves the scope, but for what the graph channel *)
(* reached and what the sparse one found without a filter.                 *)
LEMMA StepScope ==
  ASSUME TypeOK, Step, ScopeInv PROVE ScopeInv'
PROOF
  <1>1. CASE Start
    BY <1>1 DEF Start, NoCall, ScopeInv, Within, BySparse
  <1>2. CASE Resolve
    <2>1. CASE call'.at = "failed"
      BY <1>2, <2>1 DEF Resolve, ScopeInv, Within, InScope, BySparse, TypeOK
    <2>2. CASE \E allow \in AllowSets(call.scoped, call.scope) :
                 call' = [call EXCEPT !.at = "compact", !.allow = allow,
                                      !.unfiltered = SparseEnabled /\ allow = {}]
      <3>1. PICK allow \in AllowSets(call.scoped, call.scope) :
                 call' = [call EXCEPT !.at = "compact", !.allow = allow,
                                      !.unfiltered = SparseEnabled /\ allow = {}]
        BY <2>2
      <3>2. call.scoped => \A n \in allow : InScope(n, call.scope)
        BY DEF AllowSets
      <3>3. call.items = {}
        BY <1>2 DEF Resolve, ScopeInv
      <3>4. /\ call'.allow = allow /\ call'.items = {} /\ call'.p1 = call.p1 /\ call'.p2 = {}
            /\ call'.scope = call.scope /\ call'.scoped = call.scoped /\ call'.walked = call.walked
        BY <1>2, <3>1, <3>3 DEF Resolve, ScopeInv, TypeOK
      <3> QED
        BY <3>2, <3>4 DEF ScopeInv, Within, InScope
    <2> QED
      BY <1>2, <2>1, <2>2 DEF Resolve, TypeOK
  <1>3. ASSUME NEW items, NEW walked, NEW found, Delivered(items, walked, found),
               call.scoped => \A n \in items : InScope(n, call.scope) \/ n \in walked \/ BySparse(n)
        PROVE  ScopeInv'
    BY <1>3 DEF Delivered, ScopeInv, Within, InScope, BySparse, TypeOK
  <1>4. call.scoped => /\ Within(Compiled) /\ Within(call.p1)
                       /\ \A n \in Searched \cup Broadened : InScope(n, call.scope) \/ BySparse(n)
    BY DEF ScopeInv, Within, Compiled, Searched, Broadened, Unfiltered, BySparse
  <1>5. CASE Compact
    <2>1. CASE \E p1 \in SUBSET Compiled : call' = [call EXCEPT !.at = "expand", !.p1 = p1]
      <3>1. PICK p1 \in SUBSET Compiled : call' = [call EXCEPT !.at = "expand", !.p1 = p1]
        BY <2>1
      <3>2. call.items = {}
        BY <1>5 DEF Compact, ScopeInv
      <3>3. /\ call'.p1 = p1 /\ call'.items = {} /\ call'.allow = call.allow /\ call'.p2 = call.p2
            /\ call'.scope = call.scope /\ call'.scoped = call.scoped /\ call'.walked = call.walked
            /\ call'.unfiltered = call.unfiltered /\ call'.at = "expand"
        BY <3>1, <3>2 DEF TypeOK
      <3> QED
        BY <1>4, <3>3 DEF ScopeInv, Within, InScope, BySparse
    <2>2. CASE \E p1 \in SUBSET Compiled, items \in SUBSET Compiled, found \in BOOLEAN :
                 items \subseteq p1 /\ Delivered(items, call.walked, found)
      BY <1>3, <1>4, <2>2 DEF Within
    <2> QED
      BY <1>5, <2>1, <2>2, CompactDelivers
  <1>6. CASE Expand
    <2>1. ASSUME NEW p2 \in SUBSET (Searched \cup Reached), call.scoped
          PROVE  \A n \in p2 : InScope(n, call.scope) \/ n \in p2 \ Searched \/ BySparse(n)
      BY <1>4, <2>1
    <2>2. CASE \E p2 \in SUBSET (Searched \cup Reached) :
                 call' = [call EXCEPT !.at = "broaden", !.p2 = p2, !.walked = p2 \ Searched]
      <3>1. PICK p2 \in SUBSET (Searched \cup Reached) :
                 call' = [call EXCEPT !.at = "broaden", !.p2 = p2, !.walked = p2 \ Searched]
        BY <2>2
      <3>2. call.items = {}
        BY <1>6 DEF Expand, ScopeInv
      <3> QED
        BY <2>1, <3>1, <3>2 DEF ScopeInv, Within, InScope, BySparse, TypeOK
    <2>3. CASE \E p2 \in SUBSET (Searched \cup Reached), items \in SUBSET Node, found \in BOOLEAN :
                 items \subseteq p2 \cup call.p1 /\ Delivered(items, p2 \ Searched, found)
      BY <1>3, <1>4, <2>1, <2>3 DEF Within
    <2> QED
      BY <1>6, <2>2, <2>3, ExpandDelivers
  <1>7. CASE Broaden
    <2>1. PICK items \in SUBSET Node, found \in BOOLEAN :
             /\ items \subseteq Broadened \cup call.p1 \cup call.p2
             /\ Delivered(items, call.walked, found)
      BY <1>7, BroadenDelivers
    <2>2. call.scoped =>
            \A n \in items : InScope(n, call.scope) \/ n \in call.walked \/ BySparse(n)
      BY <1>4, <2>1 DEF ScopeInv, Within
    <2> QED
      BY <1>3, <2>1, <2>2
  <1>8. CASE RedactFlags \/ RedactByVisibility \/ View \/ LookupFails
    <2>1. /\ call'.scoped = call.scoped /\ call'.scope = call.scope /\ call'.allow = call.allow
          /\ call'.p1 = call.p1 /\ call'.p2 = call.p2 /\ call'.walked = call.walked
          /\ call'.items \subseteq call.items /\ call'.unfiltered = call.unfiltered
      <3>1. CASE RedactFlags
        BY <3>1 DEF RedactFlags, TypeOK
      <3>2. CASE RedactByVisibility
        BY <3>2 DEF RedactByVisibility, TypeOK
      <3>3. CASE View
        <4>1. {n \in call.items : n \in ByPolicy \cap stored => Admits(call.viewer, n)} \subseteq call.items
          OBVIOUS
        <4> QED
          BY <3>3, <4>1 DEF View, TypeOK
      <3>4. CASE LookupFails
        BY <3>4 DEF LookupFails, TypeOK
      <3> QED
        BY <1>8, <3>1, <3>2, <3>3, <3>4
    <2>2. call'.at \in {"visibility", "view", "done", "failed"}
      <3>1. CASE RedactFlags \/ View \/ LookupFails
        BY <3>1 DEF RedactFlags, View, LookupFails, TypeOK
      <3>2. CASE RedactByVisibility
        BY <3>2 DEF RedactByVisibility, TypeOK
      <3> QED
        BY <1>8, <3>1, <3>2
    <2> QED
      BY <2>1, <2>2 DEF ScopeInv, Within, InScope, BySparse
  <1>9. CASE Answer
    BY <1>9 DEF Answer, NoCall, ScopeInv, Within
  <1> QED
    BY <1>1, <1>2, <1>5, <1>6, <1>7, <1>8, <1>9 DEF Step
-----------------------------------------------------------------------------
(* Nothing found is lost on the way to the gates.                          *)

(* The best of a finite list that holds something hold something.          *)
LEMMA TrimmedHoldsSomething ==
  ASSUME NEW X, IsFiniteSet(X), X # {}, Limit > 0, NEW items \in Trimmed(X)
  PROVE  items # {}
PROOF
  <1>1. PICK S \in Best(X, Limit) : items = Nodes(S)
    BY DEF Trimmed
  <1>2. Cardinality(X) \in Nat /\ Cardinality(X) # 0
    BY FS_CardinalityType, FS_EmptySet
  <1>3. Cardinality(S) # 0
    BY <1>2, RecallAssumption DEF Best
  <1>4. S # {}
    BY <1>3, FS_EmptySet
  <1> QED
    BY <1>1, <1>4 DEF Nodes

(* A phase's list is finite when the phase is.                             *)
LEMMA FromIsFinite ==
  ASSUME NEW phase, NEW nodes, IsFiniteSet(nodes)
  PROVE  IsFiniteSet(From(phase, nodes)) /\ (nodes # {} => From(phase, nodes) # {})
PROOF
  <1>1. IsFiniteSet({phase})
    BY FS_Singleton
  <1>2. IsFiniteSet({phase} \X nodes)
    BY <1>1, FS_Product
  <1>3. \A n \in nodes : <<phase, n>> \in {phase} \X nodes
    OBVIOUS
  <1> QED
    BY <1>2, <1>3 DEF From

(* What phase 1 contributes is finite, as a list and as nodes.             *)
LEMMA ContributionIsFinite ==
  ASSUME IsFiniteSet(call.p1), NEW best \in Contribution
  PROVE  IsFiniteSet(best) /\ IsFiniteSet(Nodes(best))
PROOF
  <1>1. best \in SUBSET From(1, call.p1)
    BY DEF Contribution, Best
  <1>2. IsFiniteSet(best)
    BY <1>1, FromIsFinite, FS_Subset
  <1>3. Nodes(best) \in SUBSET call.p1
    BY <1>1 DEF Nodes, From
  <1> QED
    BY <1>2, <1>3, FS_Subset

(* Phase 1 answers with some of what it found.                             *)
LEMMA CompactFound ==
  ASSUME TypeOK, Compact, FoundInv PROVE FoundInv'
PROOF
  <1>1. PICK p1 \in Few(Compiled) :
          \/ call' = [call EXCEPT !.at = "expand", !.p1 = p1]
          \/ \E items \in Trimmed(From(1, p1)) : call' = Gated(p1, items)
    BY DEF Compact
  <1>2. IsFiniteSet(p1)
    BY DEF Few
  <1>3. CASE call' = [call EXCEPT !.at = "expand", !.p1 = p1]
    <2>1. call'.at = "expand" /\ call'.p1 = p1 /\ call'.p2 = call.p2
      BY <1>3 DEF TypeOK
    <2> QED
      BY <1>2, <2>1 DEF FoundInv, FoundIsReturned
  <1>4. ASSUME NEW items \in Trimmed(From(1, p1)), call' = Gated(p1, items)
        PROVE  FoundInv'
    <2>1. call'.p1 = {} /\ call'.p2 = {} /\ call'.items = items /\ call'.found = (p1 # {})
      BY <1>4 DEF Gated, TypeOK
    <2>2. p1 # {} /\ Limit > 0 => items # {}
      BY <1>2, FromIsFinite, TrimmedHoldsSomething
    <2> QED
      BY <2>1, <2>2, FS_EmptySet DEF FoundInv, FoundIsReturned
  <1> QED
    BY <1>1, <1>3, <1>4

(* Phase 2 answers with some of what it or phase 1 found.                  *)
LEMMA ExpandFound ==
  ASSUME TypeOK, Expand, FoundInv PROVE FoundInv'
PROOF
  <1>1. PICK p2 \in Few(Searched \cup Reached) :
          \/ call' = [call EXCEPT !.at = "broaden", !.p2 = p2, !.walked = p2 \ Searched]
          \/ \E best \in Contribution : \E items \in Trimmed(From(2, p2) \cup best) :
               call' = [Gated(p2, items) EXCEPT !.walked = p2 \ Searched]
    BY DEF Expand
  <1>2. IsFiniteSet(p2)
    BY DEF Few
  <1>3. CASE call' = [call EXCEPT !.at = "broaden", !.p2 = p2, !.walked = p2 \ Searched]
    <2>1. call'.at = "broaden" /\ call'.p1 = call.p1 /\ call'.p2 = p2
      BY <1>3 DEF TypeOK
    <2> QED
      BY <1>2, <2>1 DEF FoundInv, FoundIsReturned
  <1>4. ASSUME NEW best \in Contribution, NEW items \in Trimmed(From(2, p2) \cup best),
               call' = [Gated(p2, items) EXCEPT !.walked = p2 \ Searched]
        PROVE  FoundInv'
    <2>1. call'.p1 = {} /\ call'.p2 = {} /\ call'.items = items /\ call'.found = (p2 # {})
      BY <1>4 DEF Gated, TypeOK
    <2>2. IsFiniteSet(From(2, p2) \cup best)
      BY <1>2, FromIsFinite, ContributionIsFinite, FS_Union DEF FoundInv
    <2>3. p2 # {} => From(2, p2) \cup best # {}
      BY <1>2, FromIsFinite
    <2>4. p2 # {} /\ Limit > 0 => items # {}
      BY <2>2, <2>3, TrimmedHoldsSomething
    <2> QED
      BY <2>1, <2>4, FS_EmptySet DEF FoundInv, FoundIsReturned
  <1> QED
    BY <1>1, <1>3, <1>4

(* Phase 3 answers with some of what it found, or else of what phase 2     *)
(* found.                                                                  *)
LEMMA BroadenFound ==
  ASSUME TypeOK, Broaden, FoundInv PROVE FoundInv'
PROOF
  <1>1. ASSUME NEW found, NEW items, call' = Gated(found, items),
               found # {} /\ Limit > 0 => items # {}
        PROVE  FoundInv'
    <2>1. call'.p1 = {} /\ call'.p2 = {} /\ call'.items = items /\ call'.found = (found # {})
      BY <1>1 DEF Gated, TypeOK
    <2> QED
      BY <1>1, <2>1, FS_EmptySet DEF FoundInv, FoundIsReturned
  <1>2. PICK p3 \in Few(Broadened) :
          IF p3 = {} THEN FallBack
          ELSE \E best \in Contribution : \E items \in Trimmed(Merged(p3, best)) :
                 call' = Gated(p3, items)
    BY DEF Broaden
  <1>3. CASE p3 = {}
    <2>1. PICK items \in Trimmed(From(2, call.p2)) : call' = Gated(call.p2, items)
      BY <1>2, <1>3 DEF FallBack
    <2>2. call.p2 # {} /\ Limit > 0 => items # {}
      BY FromIsFinite, TrimmedHoldsSomething DEF FoundInv
    <2> QED
      BY <1>1, <2>1, <2>2
  <1>4. CASE p3 # {}
    <2>1. PICK best \in Contribution : \E items \in Trimmed(Merged(p3, best)) : call' = Gated(p3, items)
      BY <1>2, <1>4
    <2>2. PICK items \in Trimmed(Merged(p3, best)) : call' = Gated(p3, items)
      BY <2>1
    <2>3. IsFiniteSet(p3 \cup Nodes(best))
      BY ContributionIsFinite, FS_Union DEF Few, FoundInv
    <2>4. IsFiniteSet(Merged(p3, best)) /\ Merged(p3, best) # {}
      BY <1>4, <2>3, FromIsFinite DEF Merged
    <2>5. Limit > 0 => items # {}
      BY <2>4, TrimmedHoldsSomething
    <2> QED
      BY <1>1, <2>2, <2>5
  <1> QED
    BY <1>2, <1>3, <1>4

(* Every other step leaves the phases' lists and what was found alone, or  *)
(* is past the point where they are compared, or forgets them.             *)
LEMMA StepFound ==
  ASSUME TypeOK, Step, FoundInv PROVE FoundInv'
PROOF
  <1>1. CASE Start
    <2>1. call'.at = "resolve" /\ call'.p1 = {} /\ call'.p2 = {}
      BY <1>1 DEF Start, NoCall
    <2> QED
      BY <2>1, FS_EmptySet DEF FoundInv, FoundIsReturned
  <1>2. CASE Answer
    <2>1. call'.at = "idle" /\ call'.p1 = {} /\ call'.p2 = {}
      BY <1>2 DEF Answer, NoCall
    <2> QED
      BY <2>1, FS_EmptySet DEF FoundInv, FoundIsReturned
  <1>3. CASE Resolve \/ RedactFlags \/ RedactByVisibility \/ View \/ LookupFails
    <2>1. call'.at # "flags" /\ call'.p1 = call.p1 /\ call'.p2 = call.p2
      <3>1. CASE Resolve
        BY <3>1 DEF Resolve, TypeOK
      <3>2. CASE RedactFlags
        BY <3>2 DEF RedactFlags, TypeOK
      <3>3. CASE RedactByVisibility
        BY <3>3 DEF RedactByVisibility, TypeOK
      <3>4. CASE View
        BY <3>4 DEF View, TypeOK
      <3>5. CASE LookupFails
        BY <3>5 DEF LookupFails, TypeOK
      <3> QED
        BY <1>3, <3>1, <3>2, <3>3, <3>4, <3>5
    <2> QED
      BY <2>1 DEF FoundInv, FoundIsReturned
  <1> QED
    BY <1>1, <1>2, <1>3, CompactFound, ExpandFound, BroadenFound DEF Step
-----------------------------------------------------------------------------
(* The inductive invariant.                                                *)
LEMMA InitIInv ==
  ASSUME Init PROVE IInv
PROOF
  <1>1. TypeOK
    BY DEF Init, TypeOK, NoCall, Viewers
  <1> QED
    BY <1>1, FS_EmptySet DEF Init, NoCall, IInv, GraphInv, Kept, HistoryInv, GateInv, Hidden, ScopeInv,
                             Within, FoundInv, FoundIsReturned

LEMMA NextIInv ==
  ASSUME IInv, [Next]_vars PROVE IInv'
PROOF
  <1>1. CASE Write /\ Beside
    <2>1. TypeOK' /\ GraphInv' /\ HistoryInv' /\ GateInv'
      BY <1>1, WriteTypes, WriteGraph, WriteHistory, WriteGates DEF IInv
    <2>2. ScopeInv'
      BY <1>1, WritersLeaveTheCall DEF IInv, ScopeInv, Within, InScope, BySparse
    <2>3. FoundInv'
      BY <1>1, WritersLeaveTheCall DEF IInv, FoundInv, FoundIsReturned
    <2> QED
      BY <2>1, <2>2, <2>3 DEF IInv
  <1>2. CASE Step /\ beside' = (IF call'.at = "idle" THEN 0 ELSE beside)
    BY <1>2, StepTypes, StepHistory, StepGates, StepScope, StepFound DEF IInv
  <1>3. CASE UNCHANGED vars
    BY <1>3 DEF vars, graph, IInv, TypeOK, GraphInv, Kept, HistoryInv, GateInv, Hidden, ScopeInv,
                Within, InScope, BySparse, FoundInv, FoundIsReturned
  <1> QED
    BY <1>1, <1>2, <1>3 DEF Next

LEMMA Invariant == Spec => []IInv
PROOF
  BY InitIInv, NextIInv, PTL DEF Spec

(* Every variable keeps its type, and phase 1 holds only consolidated      *)
(* nodes, for any turns, sessions, beliefs and bounds.                     *)
THEOREM TypeCorrect == Spec => []TypeOK
PROOF
  <1>1. IInv => TypeOK
    BY DEF IInv
  <1> QED
    BY <1>1, Invariant, PTL

(* What forget_message hid before a recall began is not in its answer,     *)
(* whatever is ingested, deleted, consolidated or forgotten meanwhile.     *)
THEOREM ForgottenStaysHidden == Spec => []ForgottenIsNotRecalled
PROOF
  <1>1. IInv => ForgottenIsNotRecalled
    BY DEF IInv, GateInv, Hidden, ForgottenIsNotRecalled
  <1> QED
    BY <1>1, Invariant, PTL

(* What no visibility admitted a viewer to when the recall began is not in *)
(* the answer to that viewer.                                              *)
THEOREM PrivateStaysPrivate == Spec => []OutsiderSeesNoPrivate
PROOF
  <1>1. IInv => OutsiderSeesNoPrivate
    BY DEF IInv, GateInv, Hidden, OutsiderSeesNoPrivate
  <1> QED
    BY <1>1, Invariant, PTL

(* A session scope binds every phase, merge and fallback, but for what the *)
(* graph channel of phase 2 reached and, when nothing is in scope, for the *)
(* Observations and Chunks of the sparse channel.                          *)
THEOREM ScopeBindsEveryPhase == Spec => []ScopeBinds
PROOF
  <1>1. IInv => ScopeBinds
    BY DEF IInv, ScopeInv, ScopeBinds
  <1> QED
    BY <1>1, Invariant, PTL

(* What phase 2 or 3 found is not lost in the phase after it: with room    *)
(* for an item, an answer that some phase found something for is not empty *)
(* when the gates get it.                                                  *)
THEOREM FoundIsNotLost == Spec => []FoundIsReturned
PROOF
  <1>1. IInv => FoundIsReturned
    BY DEF IInv, FoundInv
  <1> QED
    BY <1>1, Invariant, PTL
=============================================================================
