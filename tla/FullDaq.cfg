CONSTANTS
    h1 = h1
    DifServers = {h1}
    TdcServers = {"tdc"}
    Db = "db"
    Ccc = "ccc"
    Mdcc = "mdcc"
    Builder = "builder"
    MaxStarts = 2
    MaxFaults = 1
    MaxForces = 1
    MaxDiscovers = 2
    MaxInAll = 5
SPECIFICATION Spec
INVARIANTS QuietUnlessStarted RunsTogether
PROPERTY KeepsPromise
