SPECIFICATION PrepSpec
CONSTANTS
    Prep = {w1, w2}
    Mac = {m1, m2}
    Proc = {p1}
    MaxWrites = 2
    NoRecord = NoRecord
    Torn = Torn
    NoMac = NoMac
    NoDomain = NoDomain
    NoVolume = NoVolume
SYMMETRY Symmetry
INVARIANTS
    PromotionIsExact
CHECK_DEADLOCK FALSE
