SPECIFICATION Spec
CONSTANTS
    Answers = FALSE
    MaxSockets = 2
PROPERTIES
    HealthyLinkIsKept
CHECK_DEADLOCK FALSE
