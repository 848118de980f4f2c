\* One run: two sources, two triggers, every order of transfers and a Stop at any time;
\* fair: what is complete is written.
CONSTANTS
  d1 = d1
  d2 = d2
  DIFs = {d1, d2}
  MaxGTC = 2
  MaxRun = 1
  NbDifs = {1, 2}
  Validity = {TRUE, FALSE}
  SleepCovers = TRUE
  Save = TRUE
SPECIFICATION FairSpec
INVARIANTS TypeOK FileComplete ListedIsPresent
PROPERTIES KeepsPromise CompleteIsWritten
CHECK_DEADLOCK FALSE
