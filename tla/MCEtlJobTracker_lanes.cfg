SPECIFICATION Spec
CONSTANTS
    Lanes <- MainAndLong
    FirstLane = "main"
    MaxJobs = 2
    MaxLines = 1
    MaxResets = 1
    Polled <- Nobody
    MaxFailures = 1
INVARIANTS
    TypeOK
    OneLivePerLane
    CancelReaches
    FinishedIsDrained
PROPERTY KeepsContract
CHECK_DEADLOCK FALSE
