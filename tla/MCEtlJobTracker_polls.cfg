SPECIFICATION FairSpec
CONSTANTS
    Lanes <- OnlyMain
    FirstLane = "main"
    MaxJobs = 1
    MaxLines = 2
    MaxResets = 1
    Polled <- TheFirst
    MaxFailures = 2
INVARIANT StoppedRight
PROPERTY CancelEnds
CHECK_DEADLOCK FALSE
