\* Has every row the startup sweep leaves alone a job that can still run?
SPECIFICATION Spec
CONSTANTS
    MaxRuns = 1
    MaxAttempts = 2
    MaxStalls = 1
    ApiClients = {a1}
    CliClients = {}
    NoClient = NoClient
    FaultyRuns = {}
    SweepMaySkip = FALSE
    Asked <- OneMain
    LaneEnds <- OkOrError
    WorkerCrashes = 2
    WorkerStarts = 2
    ApiRestarts = 1
    Outages = 0
    Resets = 0
    Budget <- SmallBudget
PROPERTIES
    LeftForTheWorker
\* bounded: all ids handed out, all work done
CHECK_DEADLOCK FALSE
