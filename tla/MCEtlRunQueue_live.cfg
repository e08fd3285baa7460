\* Every run gives the lock back; a dead worker does not leave a run queued.
SPECIFICATION FairSpec
CONSTANTS
    MaxRuns = 2
    MaxAttempts = 2
    MaxStalls = 1
    ApiClients = {a1}
    CliClients = {}
    NoClient = NoClient
    FaultyRuns = {}
    SweepMaySkip = FALSE
    Asked <- OneMain
    LaneEnds <- OkOrError
    WorkerCrashes = 1
    WorkerStarts = 0
    ApiRestarts = 1
    Outages = 0
    Resets = 0
    Budget <- SmallBudget
PROPERTIES
    LockIsFreed
    QueuedEnds
\* bounded: all ids handed out, all work done
CHECK_DEADLOCK FALSE
