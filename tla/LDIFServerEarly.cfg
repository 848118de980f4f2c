CONSTANTS
  t1 = t1
  t2 = t2
  Difs = {1, 2}
  Threads = {t1, t2}
  Targets = {0}
  WebStates = {}
  WaitExpires = FALSE
SYMMETRY Symmetry
SPECIFICATION Spec
INVARIANTS ReadAfterStart
