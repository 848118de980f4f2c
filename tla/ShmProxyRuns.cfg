\* Two Starts of one proxy: the loop of the first run may live on in the second.
CONSTANTS
  d1 = d1
  d2 = d2
  DIFs = {d1, d2}
  MaxGTC = 1
  MaxRun = 2
  NbDifs = {2}
  Validity = {TRUE}
  SleepCovers = FALSE
  Save = TRUE
SPECIFICATION Spec
SYMMETRY Symmetry
INVARIANTS HandOver NoFragmentTwice Accounted
CHECK_DEADLOCK FALSE
