CONSTANTS
    h1 = h1
    h2 = h2
    DifServers = {h1, h2}
    Db = "db"
    Ccc = "ccc"
    Mdcc = "mdcc"
    Builder = "builder"
    MaxStarts = 1
    MaxFaults = 0
SYMMETRY Symmetry
SPECIFICATION Spec
INVARIANTS BuilderHasSources
