\* The same instance; the property is what the documentation of Dimensions
\* says of an empty list, with the sparse channel enabled.
SPECIFICATION Spec
CONSTANTS
  t1 = t1
  t2 = t2
  s1 = s1
  s2 = s2
  b1 = b1
  None = None
  Turns = {t1, t2}
  Sessions = {s1, s2}
  Beliefs = {b1}
  Scopes <- MCScopes
  SessionOf <- MCSessionOf
  Says <- MCSays
  TopK = 2
  MinItems = 1
  MergeCap = 1
  Limit = 1
  SparseEnabled = TRUE
  MaxPrivate = 1
  MaxBeside = 2
INVARIANT EmptyMatchesNothing
SYMMETRY MCSwap
