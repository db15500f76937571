-------------------------- MODULE IngestContract ---------------------------
(***************************************************************************)
(* What streaming ingest promises about each submitted item, seen from     *)
(* outside: an item is accepted or rejected, an accepted item is worked on *)
(* once, at most Concurrency items are worked on at a time, and an         *)
(* accepted item is dropped only once the pipeline is closed.              *)
(***************************************************************************)
EXTENDS Naturals, FiniteSets

CONSTANTS Item, Concurrency

VARIABLES
  item,     \* where each item stands
  closed    \* shutdown has begun

Standing == {"offered", "rejected", "accepted", "working", "done", "dropped"}

In(standing) == {i \in Item : item[i] = standing}

Init ==
  /\ item = [i \in Item |-> "offered"]
  /\ closed = FALSE

Accept(i) ==
  /\ ~closed
  /\ item[i] = "offered"
  /\ item' = [item EXCEPT ![i] = "accepted"]
  /\ UNCHANGED closed

Reject(i) ==
  /\ ~closed
  /\ item[i] = "offered"
  /\ item' = [item EXCEPT ![i] = "rejected"]
  /\ UNCHANGED closed

Start(i) ==
  /\ item[i] = "accepted"
  /\ Cardinality(In("working")) < Concurrency
  /\ item' = [item EXCEPT ![i] = "working"]
  /\ UNCHANGED closed

Complete(i) ==
  /\ item[i] = "working"
  /\ item' = [item EXCEPT ![i] = "done"]
  /\ UNCHANGED closed

Close == ~closed /\ closed' = TRUE /\ UNCHANGED item

Drop(S) ==
  /\ closed
  /\ S \subseteq In("accepted")
  /\ item' = [i \in Item |-> IF i \in S THEN "dropped" ELSE item[i]]
  /\ UNCHANGED closed

Next ==
  \/ \E i \in Item : Accept(i) \/ Reject(i) \/ Start(i) \/ Complete(i)
  \/ Close
  \/ \E S \in SUBSET Item : Drop(S)

Spec == Init /\ [][Next]_<<item, closed>>
=============================================================================
