\* One submission is overtaken by the worker between its two steps.
SPECIFICATION Spec
CONSTANTS
  i1 = i1
  i2 = i2
  i3 = i3
  f1 = f1
  Item = {i1, i2}
  Flusher = {f1}
  QueueCapacity = 1
  Concurrency = 1
  Steps = 1
PROPERTIES
  QuiesceIsBarrier
\* Everything submitted is done: the system may stop.
CHECK_DEADLOCK FALSE
