----------------------- MODULE MCConsolidationWorker -----------------------
(***************************************************************************)
(* Instances of ConsolidationWorker for TLC: two turns by one agent, which *)
(* together reach its threshold, and two by another, of which one may be   *)
(* streamed.                                                               *)
(***************************************************************************)
EXTENDS ConsolidationWorker

CONSTANTS p, q, t1, t2, t3, t4

MCAgentOf == [t \in Turn |-> IF t \in {t1, t2} THEN p ELSE q]
=============================================================================
