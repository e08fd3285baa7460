SPECIFICATION Spec
CONSTANTS
    Lanes <- OnlyMain
    FirstLane = "main"
    MaxJobs = 1
    MaxLines = 2
    MaxResets = 0
    Polled <- TheFirst
    MaxFailures = 1
INVARIANT EveryLineIsPersisted
CHECK_DEADLOCK FALSE
