\* Three items race for one slot of the channel and one permit, with a
\* flush and a shutdown; steps fail, abort or panic.
SPECIFICATION FairSpec
CONSTANTS
  i1 = i1
  i2 = i2
  i3 = i3
  f1 = f1
  Item = {i1, i2, i3}
  Flusher = {f1}
  QueueCapacity = 1
  Concurrency = 1
  Steps = 1
INVARIANTS
  InflightExact
PROPERTIES
  BarrierAtRest
  KeepsContract
  AcceptedFinishes
  QuiesceEnds
  ShutdownEndsTasks
\* Everything submitted is done: the system may stop.
CHECK_DEADLOCK FALSE
