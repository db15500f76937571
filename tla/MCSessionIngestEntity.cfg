\* An action and a turn that name the same entity create it both.
SPECIFICATION Spec
CONSTANTS
  h = h
  k = k
  s1 = s1
  d1 = d1
  a1 = a1
  alice = alice
  bob = bob
  e1 = e1
  e2 = e2
  t1 = t1
  t2 = t2
  t3 = t3
  t4 = t4
  None = None
  Writer = {h, k}
  Stream = {k}
  Document = {d1}
  Linker = {a1}
  SessionOf <- MCSessionOf
  EntityOf <- MCEntityOf
  Session = {s1}
  Participant = {alice, bob}
  Entity = {e1, e2}
  Turn = {t1, t2, t3, t4}
  MessageId <- MCMessageId
  Sender <- MCSender
  AddressedTo <- MCAddressedTo
  Mentions <- MCMentions
  Units <- MCUnits
  SetupStripe <- MCSetupStripe
  RmwStripe <- MCRmwStripe
  NodeStripe <- MCNodeStripe
  MaxAttempts = 2
  MaxCalls = 2
  MaxOutsiders = 1
  MaxDeletions = 0
  MaxCrashes = 0
INVARIANT
  OneEntityRow
CHECK_DEADLOCK FALSE
