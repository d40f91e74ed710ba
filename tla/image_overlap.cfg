SPECIFICATION Spec
CONSTANTS
    p1 = p1
    p2 = p2
    r1 = r1
    r2 = r2
    Proc = {p1, p2}
    Root = {r1, r2}
    Operator = Operator
    NoRoot = NoRoot
    NoFile = NoFile
INVARIANT
    PublishedIsAuthentic
CHECK_DEADLOCK FALSE
