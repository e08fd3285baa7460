\* One run with two attempts under every fault: two worker crashes, an API
\* restart, an outage, a force reset, and every way its job may end.
SPECIFICATION Spec
CONSTANTS
    MaxRuns = 1
    MaxAttempts = 2
    MaxStalls = 1
    ApiClients = {a1}
    CliClients = {}
    NoClient = NoClient
    FaultyRuns = {}
    SweepMaySkip = FALSE
    Asked <- OneMain
    LaneEnds <- Outcomes
    WorkerCrashes = 2
    WorkerStarts = 2
    ApiRestarts = 1
    Outages = 1
    Resets = 1
    Budget <- SmallBudget
INVARIANTS
    RetryHoldsLock
    AttemptIsShown
    LockHasAReleaser
PROPERTIES
    OutcomeIsFinal
    UsesContract
\* bounded: all ids handed out, all work done
CHECK_DEADLOCK FALSE
