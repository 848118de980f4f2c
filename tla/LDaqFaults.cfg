CONSTANTS
    h1 = h1
    h2 = h2
    DifServers = {h1, h2}
    Db = "db"
    Ccc = "ccc"
    Mdcc = "mdcc"
    Builder = "builder"
    MaxStarts = 2
    MaxFaults = 1
SYMMETRY Symmetry
SPECIFICATION Spec
INVARIANTS QuietWhenStopped ReadyToScan TriggersIntoReaders CycleRecovers
PROPERTY KeepsPromise
