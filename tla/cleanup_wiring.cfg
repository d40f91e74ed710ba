SPECIFICATION CleanupSpec
CONSTANTS
    Gen = {g1, g2}
    Seeded = {g1}
    NoGen = NoGen
    Proc = {p1}
    Sequential = TRUE
    Migrated = {}
    Fault = {}
    MaxFaults = 2
    NoIndex = NoIndex
    CleanupDomain = "fedora-lab"
PROPERTIES
    RevalidationAcceptsUnchanged
CHECK_DEADLOCK FALSE
