\* The lock: two enqueuers, a Redis or MySQL outage, a killed command, retries,
\* and rejected bookkeeping statements of one of the runs.
SPECIFICATION Spec
CONSTANTS
    MaxRuns = 2
    MaxAttempts = 2
    MaxStalls = 1
    ApiClients = {a1}
    CliClients = {c1}
    NoClient = NoClient
    FaultyRuns = {1}
    SweepMaySkip = TRUE
    Asked <- TickRefreshBuild
    LaneEnds <- JustError
    WorkerCrashes = 0
    WorkerStarts = 0
    ApiRestarts = 0
    Outages = 1
    Resets = 0
    Budget <- SmallBudget
INVARIANTS
    TypeOK
    Exclusive
\* bounded: all ids handed out, all work done
CHECK_DEADLOCK FALSE
