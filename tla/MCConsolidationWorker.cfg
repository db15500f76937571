\* Four turns of two agents, one of them streamed, one request and one failed
\* cycle; the channel holds one task, a batch the whole backlog.
SPECIFICATION FairSpec
CONSTANTS
  p = p
  q = q
  t1 = t1
  t2 = t2
  t3 = t3
  t4 = t4
  Agent = {p, q}
  Turn = {t1, t2, t3, t4}
  AgentOf <- MCAgentOf
  Streamed = {t4}
  QueueCapacity = 1
  Threshold = 2
  BatchSize = 4
  CortexEvery = 2
  MaxRequests = 1
  MaxFailures = 1
PROPERTIES
  AnnouncedIsConsolidated
  ShutdownStopsWorker
\* The worker may be idle for good.
CHECK_DEADLOCK FALSE
