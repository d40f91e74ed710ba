SPECIFICATION FreshSpec
CONSTANTS
    Gen = {g1, g2}
    Seeded = {}
    NoGen = NoGen
    Proc = {p1}
    Sequential = TRUE
    Migrated = {g1}
    Fault = {"late"}
    MaxFaults = 1
    NoIndex = NoIndex
PROPERTIES
    RollbackOnlyBeforePublication
CHECK_DEADLOCK FALSE
