\* Every failure and interleaving of two cards; web commands only between
\* INITIALISE and DESTROY, as an operator sends them.
CONSTANTS
  t1 = t1
  t2 = t2
  Difs = {1, 2}
  Threads = {t1, t2}
  Targets = {0}
  WebStates = {"CONFIGURED", "STOPPED", "RUNNING"}
  WaitExpires = TRUE
SPECIFICATION FairSpec
INVARIANTS NoCrash StartedIsRead DestroyClean LateOnce
PROPERTIES KeepsContract DestroyEnds StopQuiets StartedIsPolled
