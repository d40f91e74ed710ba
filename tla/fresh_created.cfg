SPECIFICATION FreshSpec
CONSTANTS
    Gen = {g1, g2}
    Seeded = {}
    NoGen = NoGen
    Proc = {p1}
    Sequential = TRUE
    Migrated = {}
    Fault = {"crash"}
    MaxFaults = 1
    NoIndex = NoIndex
INVARIANTS
    RestoreOldAvailable
CHECK_DEADLOCK FALSE
