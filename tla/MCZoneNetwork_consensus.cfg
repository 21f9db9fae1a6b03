SPECIFICATION Spec
CONSTANTS
    a = a
    b = b
    c = c
    d = d
    x = x
    One = One
    Two = Two
    NoZone = NoZone
    Ring <- FourZones
    Strangers = {x}
    Handlers = {One}
    Batches <- SafetyBatches
    InboxCap = 1
    NegCap = 1
    MaxPosts = 1
INVARIANTS
    Consensus
CHECK_DEADLOCK FALSE
