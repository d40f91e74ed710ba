SPECIFICATION FreshSpec
CONSTANTS
    Gen = {g1, g2}
    Seeded = {}
    NoGen = NoGen
    Proc = {p1}
    Sequential = TRUE
    Migrated = {g1}
    Fault = {"crash"}
    MaxFaults = 1
    NoIndex = NoIndex
INVARIANTS
    InterruptedFreshRecoverable
CHECK_DEADLOCK FALSE
