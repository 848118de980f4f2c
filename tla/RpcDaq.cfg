CONSTANTS
    h1 = h1
    h2 = h2
    c1 = c1
    c2 = c2
    c3 = c3
    Hosts = {h1, h2}
    Cards = {c1, c2, c3}
    HostOf <- Buses
    Db = "db"
    Ccc = "ccc"
    Shm = "shm"
SYMMETRY Symmetry
SPECIFICATION Spec
INVARIANTS TypeOK DiesOnlyMisled TriggersAreBuilt
CHECK_DEADLOCK FALSE
