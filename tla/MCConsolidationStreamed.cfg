\* One turn ingested by the streaming pipeline.
SPECIFICATION Spec
CONSTANTS
  p = p
  q = q
  t1 = t1
  t2 = t2
  t3 = t3
  t4 = t4
  Agent = {p, q}
  Turn = {t1, t2, t3, t4}
  AgentOf <- MCAgentOf
  Streamed = {t4}
  QueueCapacity = 2
  Threshold = 2
  BatchSize = 4
  CortexEvery = 0
  MaxRequests = 0
  MaxFailures = 0
INVARIANT
  StreamedIsAnnounced
CHECK_DEADLOCK FALSE
