\* Two ingests that share bytes, source, revision or id, one deletion, one
\* recall and one retirement.  Every task stops after its operation.
SPECIFICATION Spec
CONSTANTS
  c1 = c1
  c2 = c2
  x = x
  y = y
  n = n
  p = p
  v1 = v1
  v2 = v2
  s1 = s1
  None = None
  Call = {c1, c2}
  Deletion = {1}
  Recaller = {1}
  Units <- MCUnits
  Name = {n}
  Hash = {x, y}
  Source = {p}
  Revision = {v1, v2}
  Session = {s1}
  Stripe <- MCStripe
  Scopes = {None, s1, p}
  MaxAttempts = 2
  MaxRetirements = 1
INVARIANTS
  OneContentPerHash
  ContentKept
  NothingStranded
  OneCurrentRevision
  RecallIsCurrent
CHECK_DEADLOCK FALSE
