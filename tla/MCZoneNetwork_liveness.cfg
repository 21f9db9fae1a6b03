SPECIFICATION FairSpec
CONSTANTS
    a = a
    b = b
    c = c
    d = d
    x = x
    One = One
    Two = Two
    NoZone = NoZone
    Ring <- TwoZones
    Strangers = {}
    Handlers = {One}
    Batches <- StandoffBatches
    InboxCap = 1
    NegCap = 1
    MaxPosts = 1
PROPERTIES
    EveryTalkEnds
    AgentsKeepUp
    EveryAgentStops
    ImplementsLoadShedding
CHECK_DEADLOCK FALSE
