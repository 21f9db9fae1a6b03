SPECIFICATION Spec
CONSTANTS
    a = a
    b = b
    c = c
    d = d
    x = x
    One = One
    Two = Two
    NoZone = NoZone
    Ring <- FourZones
    Strangers = {x}
    Handlers = {One, Two}
    Batches <- SafetyBatches
    InboxCap = 1
    NegCap = 1
    MaxPosts = 2
INVARIANTS
    TypeOK
    OffersAccountedFor
    SignedBeforeRerouted
    AuditMatchesTalks
    NoStaffDispatched
    AgentFollowsFacts
CHECK_DEADLOCK FALSE
