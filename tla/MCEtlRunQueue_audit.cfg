\* Is the force-reset record of a run permanent?
SPECIFICATION Spec
CONSTANTS
    MaxRuns = 1
    MaxAttempts = 1
    MaxStalls = 1
    ApiClients = {a1}
    CliClients = {}
    NoClient = NoClient
    FaultyRuns = {}
    SweepMaySkip = FALSE
    Asked <- OneMain
    LaneEnds <- OkOrError
    WorkerCrashes = 0
    WorkerStarts = 0
    ApiRestarts = 0
    Outages = 0
    Resets = 1
    Budget <- SmallBudget
PROPERTIES
    AuditTrailPermanent
\* bounded: all ids handed out, all work done
CHECK_DEADLOCK FALSE
