CONSTANTS
  t1 = t1
  t2 = t2
  Difs = {1, 2}
  Threads = {t1, t2}
  Targets = {0, 1}
  WebStates = {}
  WaitExpires = TRUE
SYMMETRY Symmetry
SPECIFICATION Spec
INVARIANTS OneReader
CHECK_DEADLOCK FALSE
