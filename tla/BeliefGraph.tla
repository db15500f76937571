---------------------------- MODULE BeliefGraph ----------------------------
(***************************************************************************)
(* The part of the knowledge graph that carries belief: Observations that  *)
(* hang off Messages, the Facts derived from them, the SUPPORTED_BY edges  *)
(* between the two, and the operations that add and erase evidence.        *)
(*                                                                         *)
(* Each operation below runs in one serializable transaction of the        *)
(* database (transact_with_retry) and so is one step.  An Observation that *)
(* carries no (subject, predicate) never reaches consolidation and is left *)
(* out: Observation is the set of those that do.  A deleted node keeps its *)
(* edges in "support", but no query matches an edge to a deleted node.     *)
(***************************************************************************)
EXTENDS Integers, FiniteSets

CONSTANTS
  Message,        \* conversation turns
  Observation,    \* triple-bearing observations that may be extracted
  Participant,    \* senders, and the persons observations are about
  Session,
  Pair,           \* normalized (subject, predicate) keys
  Object,         \* normalized object texts
  NoObject,       \* the object of a triple without one
  MessageOf,      \* OBSERVED_IN: the one message an observation came from
  AboutOf,        \* ABOUT: the participants an observation is about
  SenderOf,       \* SENT_BY
  SessionOf,      \* IN_SESSION
  PairOf,         \* the (subject, predicate) of an observation
  ObjectOf,       \* its object, or NoObject
  AnchorOf,       \* temporal anchor: "none", "past", or still "ahead"
  MaxErasures     \* bound on the erasing operations explored

Slot == Object \cup {NoObject}

(* fact_id: one Fact node per (subject, predicate, object) triple.         *)
Fact == Pair \X Slot

ASSUME GraphAssumption ==
  /\ NoObject \notin Object
  /\ IsFiniteSet(Observation)
  /\ MessageOf \in [Observation -> Message]
  /\ AboutOf \in [Observation -> SUBSET Participant]
  /\ SenderOf \in [Message -> Participant]
  /\ SessionOf \in [Message -> Session]
  /\ PairOf \in [Observation -> Pair]
  /\ ObjectOf \in [Observation -> Slot]
  /\ AnchorOf \in [Observation -> {"none", "past", "ahead"}]
  /\ MaxErasures \in Nat

VARIABLES
  obs,        \* life of each observation: "none", "live" or "deleted"
  redacted,   \* observations with visibility redacted:forgotten
  fact,       \* the Fact nodes, by fact_id
  support,    \* number of parallel SUPPORTED_BY edges from fact to observation
  erasures    \* erasing operations so far

graphVars == <<obs, redacted, fact, support, erasures>>

(* A Fact node.  "open" is valid_at.hi = POS_INF, "definite" the certainty *)
(* of valid_at.lo, "ahead" a valid_at.lo that lies in the future.          *)
FactNode ==
  [exists : BOOLEAN, count : Nat, open : BOOLEAN, definite : BOOLEAN,
   ahead : BOOLEAN, hidden : BOOLEAN]

NoFact ==
  [exists |-> FALSE, count |-> 0, open |-> FALSE, definite |-> FALSE,
   ahead |-> FALSE, hidden |-> FALSE]

GraphTypeOK ==
  /\ obs \in [Observation -> {"none", "live", "deleted"}]
  /\ redacted \subseteq Observation
  /\ fact \in [Fact -> FactNode]
  /\ support \in [Fact -> [Observation -> Nat]]
  /\ erasures \in 0..MaxErasures

GraphInit ==
  /\ obs = [o \in Observation |-> "none"]
  /\ redacted = {}
  /\ fact = [f \in Fact |-> NoFact]
  /\ support = [f \in Fact |-> [o \in Observation |-> 0]]
  /\ erasures = 0

Live == {o \in Observation : obs[o] = "live"}

LiveOf(m) == {o \in Live : MessageOf[o] = m}

(* What a MATCH (f)-[:SUPPORTED_BY]->(:Observation) returns.               *)
Supporters(f) == {o \in Live : support[f][o] > 0}

OpenFacts == {f \in Fact : fact[f].exists /\ fact[f].open}

(* Facts all of whose remaining evidence is doomed.                        *)
LosesLastSupport(doomed) ==
  {f \in Fact : Supporters(f) # {} /\ Supporters(f) \subseteq doomed}

(***************************************************************************)
(* btic_invalidate builds [lo, now) and panics unless lo < now, which      *)
(* rolls the transaction back: no Fact to close may have its lo ahead.     *)
(***************************************************************************)
CloseFacts(targets) ==
  /\ \A f \in targets : ~fact[f].ahead
  /\ fact' = [f \in Fact |-> IF f \in targets
                             THEN [fact[f] EXCEPT !.open = FALSE]
                             ELSE fact[f]]

Counted == erasures < MaxErasures /\ erasures' = erasures + 1

(* Close what must be closed, then detach-delete the doomed observations.  *)
Erase(doomed, forced) ==
  /\ CloseFacts((LosesLastSupport(doomed) \cup forced) \cap OpenFacts)
  /\ obs' = [o \in Observation |-> IF o \in doomed THEN "deleted" ELSE obs[o]]
  /\ Counted
  /\ UNCHANGED <<redacted, support>>

-----------------------------------------------------------------------------

(* Ingest of one message commits all of its observations at once.          *)
Observe(m) ==
  /\ \A o \in Observation : MessageOf[o] = m => obs[o] = "none"
  /\ obs' = [o \in Observation |-> IF MessageOf[o] = m THEN "live" ELSE obs[o]]
  /\ obs' # obs
  /\ UNCHANGED <<redacted, fact, support, erasures>>

DeleteMessage(m) ==
  /\ LiveOf(m) # {}
  /\ Erase(LiveOf(m), {})

DeleteSession(s) ==
  LET doomed == {o \in Live : SessionOf[MessageOf[o]] = s}
  IN  /\ doomed # {}
      /\ Erase(doomed, {})

(***************************************************************************)
(* GDPR erasure: Facts with evidence about the participant close whatever  *)
(* else supports them; the messages the participant sent and the           *)
(* observations about the participant go.                                  *)
(***************************************************************************)
ForgetParticipant(p) ==
  LET about  == {o \in Live : p \in AboutOf[o]}
      sent   == {o \in Live : SenderOf[MessageOf[o]] = p}
      forced == {f \in Fact : Supporters(f) \cap about # {}}
  IN  /\ about \cup sent # {}
      /\ Erase(about \cup sent, forced)

(* Soft forget: hide the turn, and the Facts that rest on it alone.        *)
ForgetMessage(m) ==
  /\ LiveOf(m) # {}
  /\ redacted' = redacted \cup LiveOf(m)
  /\ fact' = [f \in Fact |-> IF f \in LosesLastSupport(LiveOf(m))
                             THEN [fact[f] EXCEPT !.hidden = TRUE]
                             ELSE fact[f]]
  /\ Counted
  /\ UNCHANGED <<obs, support>>

(* The clock passes the lower bound of a Fact dated in the future.         *)
DateArrives(f) ==
  /\ fact[f].ahead
  /\ fact' = [fact EXCEPT ![f].ahead = FALSE]
  /\ UNCHANGED <<obs, redacted, support, erasures>>

Evidence ==
  \/ \E m \in Message : Observe(m)
  \/ \E m \in Message : DeleteMessage(m)
  \/ \E m \in Message : ForgetMessage(m)
  \/ \E s \in Session : DeleteSession(s)
  \/ \E p \in Participant : ForgetParticipant(p)
  \/ \E f \in Fact : DateArrives(f)
=============================================================================
