SPECIFICATION FreshSpec
CONSTANTS
    Gen = {g1, g2, g3, g4}
    Seeded = {}
    NoGen = NoGen
    Proc = {p1}
    Sequential = TRUE
    Migrated = {g1, g4}
    Fault = {"crash", "backend", "late", "power"}
    MaxFaults = 3
    NoIndex = NoIndex
INVARIANTS
    FreshTypeOK
    SettledBinding
    BoundaryBinding
    ListedManifestsExist
    OwnedVolumesExist
    FailedLeavesNothing
PROPERTIES
    SwitchMatchesDomain
CHECK_DEADLOCK FALSE
