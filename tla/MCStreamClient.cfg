SPECIFICATION FairSpec
CONSTANTS
    Answers = TRUE
    MaxSockets = 6
INVARIANTS
    TypeOK
    OneConnection
    NeverStranded
    OutageShows
PROPERTIES
    BacksOff
    DeadPeerReplaced
CHECK_DEADLOCK FALSE
