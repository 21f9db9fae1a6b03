SPECIFICATION FairSpec
CONSTANTS
    p = p
    q = q
    One = One
    Two = Two
    c1 = c1
    Zones = {p, q}
    Writers = {One, Two}
    Conns = {c1}
    SubCap = 1
    MaxSets = 4
INVARIANTS
    TypeOK
    ViewFollowsFacts
PROPERTIES
    IngestNeverBlocks
    SlotsAreFreed
CHECK_DEADLOCK FALSE
