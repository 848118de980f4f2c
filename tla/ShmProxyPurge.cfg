\* The purge before a Start against its comment.
CONSTANTS
  d1 = d1
  d2 = d2
  DIFs = {d1}
  MaxGTC = 1
  MaxRun = 2
  NbDifs = {1}
  Validity = {TRUE}
  SleepCovers = TRUE
  Save = TRUE
SPECIFICATION Spec
INVARIANTS StartsClean
CHECK_DEADLOCK FALSE
