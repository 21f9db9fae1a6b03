SPECIFICATION FairSpec
CONSTANTS
    Mode = "live"
    MaxRuns = 2
    MaxFrames = 2
INVARIANTS TypeOK UncontestedStaysLive
PROPERTIES NoFramesAfterLeaving FeedResumes LabelCatchesUp
CHECK_DEADLOCK FALSE
