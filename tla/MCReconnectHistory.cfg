SPECIFICATION SpecBefore
CONSTANTS
    c1 = c1
    page = page
    Calls = {c1}
    Streams = {page}
    Operators = {}
    AgentAlarms = {1}
    SubCap = 1
    MaxApplied = 1
    MaxGets = 2
    Polishable = {}
    MaxLogLines = 1
INVARIANTS ReconnectMissesNothing
CHECK_DEADLOCK FALSE
