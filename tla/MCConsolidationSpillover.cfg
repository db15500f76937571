\* A batch smaller than the backlog, no failures and no requests.
SPECIFICATION FairSpec
CONSTANTS
  p = p
  q = q
  t1 = t1
  t2 = t2
  t3 = t3
  t4 = t4
  Agent = {p, q}
  Turn = {t1, t2, t3}
  AgentOf <- MCAgentOf
  Streamed = {}
  QueueCapacity = 2
  Threshold = 2
  BatchSize = 1
  CortexEvery = 0
  MaxRequests = 0
  MaxFailures = 0
PROPERTY
  SpilloverIsPickedUp
CHECK_DEADLOCK FALSE
