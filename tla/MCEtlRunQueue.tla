--------------------------- MODULE MCEtlRunQueue ---------------------------
(* Bounds of the TLC runs of EtlRunQueue. *)
EXTENDS EtlRunQueue

CONSTANTS WorkerCrashes, WorkerStarts, ApiRestarts, Outages, Resets

SmallBudget == [f \in Faults |->
    CASE f = "workerCrash" -> WorkerCrashes
      [] f = "workerStart" -> WorkerStarts
      [] f = "apiRestart"  -> ApiRestarts
      [] f = "outage"      -> Outages
      [] f = "reset"       -> Resets]

OneMain == {[kind |-> "main", behind |-> FALSE, attempts |-> MaxAttempts]}
\* A scheduled tick that may queue behind a 30-minute refresh, the refresh,
\* and a build of the long queue, which neither of them waits for.
TickRefreshBuild ==
    {[kind |-> "main", behind |-> TRUE, attempts |-> MaxAttempts],
     [kind |-> "refresh_30m", behind |-> FALSE, attempts |-> 1],
     [kind |-> "sales_build", behind |-> FALSE, attempts |-> 1]}
OkOrError == {"ok", "error"}
\* For the lock a run that ends well is one that failed on its last attempt.
JustError == {"error"}

=============================================================================
