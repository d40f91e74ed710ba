SPECIFICATION CreateSpec
CONSTANTS
    Gen = {g1, g2, g3, g4}
    Seeded = {}
    NoGen = NoGen
    Inst = {a, b, c}
    Flat = {g4}
    Proc = {p1, p2}
    Fault = {"crash", "backend", "late"}
    MaxFaults = 2
    NoInst = NoInst
    NoIndex = NoIndex
SYMMETRY Symmetry
INVARIANTS
    ActiveIsBacked
    DomainsAreOwned
PROPERTIES
    RollbackSparesOthers
CHECK_DEADLOCK FALSE
