SPECIFICATION CleanupSpec
CONSTANTS
    Gen = {g1, g2, g3}
    Seeded = {g1}
    NoGen = NoGen
    Proc = {p1, p2}
    Sequential = FALSE
    Migrated = {}
    Fault = {"crash", "backend"}
    MaxFaults = 2
    NoIndex = NoIndex
    CleanupDomain = "own"
INVARIANTS
    CleanupTypeOK
    CleanupRecordsAreTrue
PROPERTIES
    DeletesAreRecorded
CHECK_DEADLOCK FALSE
