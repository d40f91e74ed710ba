SPECIFICATION LifecycleSpec
CONSTANTS
    Gen = {g1, g2}
    Seeded = {}
    NoGen = NoGen
    Proc = {p1, p2}
    Sequential = FALSE
    Migrated = {}
    Fault = {}
    MaxFaults = 3
    NoIndex = NoIndex
    CleanupDomain = "own"
INVARIANTS
    IntentBeforeDestruction
CHECK_DEADLOCK FALSE
