\* As MCArtifactStore, for the one question whether a deletion leaves the content row.
SPECIFICATION Spec
CONSTANTS
  c1 = c1
  c2 = c2
  x = x
  y = y
  n = n
  p = p
  v1 = v1
  v2 = v2
  s1 = s1
  None = None
  Call = {c1, c2}
  Deletion = {1}
  Recaller = {1}
  Units <- MCUnits
  Name = {n}
  Hash = {x, y}
  Source = {p}
  Revision = {v1, v2}
  Session = {s1}
  Stripe <- MCStripe
  Scopes = {None, s1, p}
  MaxAttempts = 2
  MaxRetirements = 1
PROPERTY
  ContentIsLeftInPlace
CHECK_DEADLOCK FALSE
