SPECIFICATION FairDeleteSpec
CONSTANTS
    Gen = {g1, g2}
    Seeded = {g1}
    NoGen = NoGen
    Proc = {p1, p2}
    Sequential = TRUE
    Migrated = {}
    Fault = {"crash", "power"}
    MaxFaults = 3
    NoIndex = NoIndex
INVARIANTS
    AloneAndCurrent
PROPERTIES
    CheckpointsOnlyAdvance
    DeletionCompletes
    RemovalSpec
CHECK_DEADLOCK FALSE
