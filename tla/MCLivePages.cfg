SPECIFICATION FairSpec
CONSTANTS
    c1 = c1
    c2 = c2
    page = page
    Calls = {c1, c2}
    Streams = {page}
    Operators = {page}
    AgentAlarms = {1}
    SubCap = 1
    MaxApplied = 2
    MaxGets = 2
    Polishable = {1}
    MaxLogLines = 1
INVARIANTS TypeOK OnlyUndoneIsMissing ShownOnce NothingInvented
PROPERTIES AuditTrail ApplyReturns
CHECK_DEADLOCK FALSE
