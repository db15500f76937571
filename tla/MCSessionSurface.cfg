\* Two tasks over a session of two turns.
SPECIFICATION SurfaceSpec
CONSTANTS
  f1 = f1
  f2 = f2
  a = a
  None = None
  Caller = {f1, f2}
  LastTurn = 2
  Says <- MCSays
  MaxRows = 8
  MaxCalls = 3
INVARIANT LoneFinalizeIsComplete
PROPERTY TranscriptNeverVanishes
CHECK_DEADLOCK FALSE
SYMMETRY MCSymmetry
