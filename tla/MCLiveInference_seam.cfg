SPECIFICATION FairSpec
CONSTANTS
    Mode = "live"
    MaxRuns = 1
    MaxFrames = 1
PROPERTIES LabelIsTruthful
CHECK_DEADLOCK FALSE
