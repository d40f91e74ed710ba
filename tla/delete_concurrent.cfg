SPECIFICATION DeleteSpec
CONSTANTS
    Gen = {g1, g2}
    Seeded = {g1}
    NoGen = NoGen
    Proc = {p1, p2}
    Sequential = FALSE
    Migrated = {}
    Fault = {"crash", "power"}
    MaxFaults = 2
    NoIndex = NoIndex
INVARIANTS
    DeleteTypeOK
    IntentBeforeDestruction
    CheckpointsAreTrue
    NoDomainOnMissingVolumes
    DeleteInv
CHECK_DEADLOCK FALSE
