\* A Fact dated in the future is contradicted.
SPECIFICATION Spec
CONSTANTS
  m1 = m1
  m2 = m2
  o1 = o1
  o2 = o2
  o3 = o3
  o4 = o4
  alice = alice
  bob = bob
  s1 = s1
  p1 = p1
  a = a
  b = b
  e1 = e1
  w1 = w1
  w2 = w2
  Message = {m1, m2}
  Observation = {o1, o2, o3}
  Participant = {alice, bob}
  Session = {s1}
  Pair = {p1}
  Object = {a, b}
  NoObject = NoObject
  Subject = {e1}
  Worker = {w1, w2}
  MessageOf <- MCMessageOf
  AboutOf <- MCAboutOf
  SenderOf <- MCSenderOf
  SessionOf <- MCSessionOf
  PairOf <- MCPairOf
  ObjectOf <- MCObjectOf
  AnchorOf <- MCAnchorOf
  SubjectOf <- MCSubjectOf
  ClusterOf <- MCClusterOf
  ObservedAt <- MCObservedAt
  FactStripe <- MCFactStripe
  NameStripe <- MCNameStripe
  NodeStripe <- MCNodeStripe
  BatchSize = 2
  CertaintyThreshold = 2
  DriftThreshold = 0
  MaxFailures = 1
  MaxErasures = 1
INVARIANT
  CycleNeverPanics
CHECK_DEADLOCK FALSE
