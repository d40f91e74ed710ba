SPECIFICATION LifecycleSpec
CONSTANTS
    Gen = {g1, g2, g3}
    Seeded = {g1}
    NoGen = NoGen
    Proc = {p1}
    Sequential = TRUE
    Migrated = {g2}
    Fault = {"crash", "backend", "power"}
    MaxFaults = 3
    NoIndex = NoIndex
    CleanupDomain = "own"
INVARIANTS
    OneBoundaryAtATime
    BoundUntilDeleted
    TombstoneLeavesOnlyOrphans
PROPERTIES
    DestructionHasReason
    StartsAreSettled
CHECK_DEADLOCK FALSE
