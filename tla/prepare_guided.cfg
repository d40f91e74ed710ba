SPECIFICATION PrepSpec
CONSTANTS
    Prep = {w1, w2}
    Mac = {m1, m2}
    Proc = {p1, p2}
    MaxWrites = 1
    NoRecord = NoRecord
    Torn = Torn
    NoMac = NoMac
    NoDomain = NoDomain
    NoVolume = NoVolume
SYMMETRY Symmetry
INVARIANTS
    ResourcesAreRecorded
    InstalledDiskStartsOnce
PROPERTIES
    StatusNeverGoesBack
    InstalledDiskOutlivesPromotion
CHECK_DEADLOCK FALSE
