CONSTANTS
  Contexts = {k1, k2}
  Coroutines = {c1, c2}
  None = None
  Entries = 1
  SwitchMax = 1
  BatchMax = 1
  InflightConflict = FALSE
SPECIFICATION Spec
INVARIANT
  DrainedMeansComplete
