---------------------------- MODULE EtlRunQueue ----------------------------
(***************************************************************************)
(* The Node side of an ETL run: the tracking row in etl_job_runs, the      *)
(* BullMQ job of the queues `etl` and `etl-long`, the enqueue guard, the   *)
(* etl:worker process, the retry and cancel paths, and the three janitors  *)
(* that finish rows on their own (startup reconciliation, stale-queued     *)
(* sweep, Force Reset ETL Lock).  One step is one awaited statement.       *)
(*                                                                         *)
(* A row that is queued or running IS the lock: hasActiveEtlRun and        *)
(* mayEnqueue look at nothing else.                                        *)
(***************************************************************************)
EXTENDS Integers, FiniteSets

CONSTANTS
    MaxRuns,        \* bound: AUTO_INCREMENT ids that may be handed out
    MaxAttempts,    \* BullMQ attempts of a run that does not ask for one (3)
    MaxStalls,      \* BullMQ maxStalledCount (1)
    ApiClients,     \* enqueuers inside the API process: routes, cron ticks
    CliClients,     \* enqueuers with a process of their own: etl:* commands
    NoClient,       \* nobody holds the enqueue guard
    FaultyRuns,     \* runs whose bookkeeping statements may be rejected
    SweepMaySkip,   \* may a janitor's own statements fail?
    Asked,          \* bound: what the callers ask enqueuePipelineRun for
    LaneEnds,       \* bound: how the jobs of the ETL API may end by themselves
    Budget          \* bound: how often each fault may happen

Clients == ApiClients \cup CliClients
Runs    == 1..MaxRuns
Kinds   == {"refresh_30m", "main", "sales_build"}
Queues  == {"etl", "etl-long"}
Faults  == {"workerCrash", "workerStart", "apiRestart", "outage", "reset"}

\* What the callers of enqueuePipelineRun ask for.  "main" stands for every
\* main-queue job but the 30-minute refresh: main, full_all,
\* finance_receivables, process_nps.
Inputs ==
    [kind : {"refresh_30m", "sales_build"}, behind : {FALSE}, attempts : {1, MaxAttempts}]
    \cup [kind : {"main"}, behind : BOOLEAN, attempts : {MaxAttempts}]

\* How a pipeline run ends by itself: exit 0, 3, 4 or any other.
Outcomes == {"ok", "partial", "locked", "error"}

AnInput == CHOOSE i \in Inputs : TRUE     \* where a variable holds none

ASSUME RunQueueAssumption ==
    /\ MaxRuns \in Nat
    /\ MaxAttempts \in Nat \ {0}
    /\ MaxStalls \in Nat
    /\ NoClient \notin Clients
    /\ ApiClients \cap CliClients = {}
    /\ FaultyRuns \subseteq Runs
    /\ SweepMaySkip \in BOOLEAN
    /\ Asked \subseteq Inputs
    /\ LaneEnds \subseteq Outcomes
    /\ Budget \in [Faults -> Nat]

ActiveStatuses   == {"queued", "running"}
FinishedStatuses == {"success", "partial", "failed", "cancelled", "skipped"}
Janitors         == {"orphan", "stale", "reset"}
\* Who wrote error_message last: nobody, a retried attempt, the final
\* attempt, the enqueue timeout, or one of the janitors.
Messages         == {"none", "retry", "outcome", "enqueue"} \cup Janitors
BullStates       == {"absent", "waiting", "active", "delayed", "completed", "failed"}
LaneStates       == {"free", "busy", "cancelling", "cancelled"} \cup Outcomes

VARIABLES
    \* the table etl_job_runs
    status,         \* status; "none" = the id is not handed out yet
    finishedAt,     \* rows with a finished_at
    linked,         \* rows with a job_id
    message,        \* error_message, by its writer
    input,          \* job_type and the options of the run's BullMQ job
    \* Redis
    bull, made, stalls,
    \* enqueuePipelineRun in progress
    guard, pc, req, mine, late,
    \* the etl:worker process and the ETL API lane each queue feeds
    workerUp, step, cur, lane,
    \* janitors
    jpc, todo, doomed, removal,
    budget

rowVars     == <<status, finishedAt, linked, message, input>>
bullVars    == <<bull, made, stalls>>
clientVars  == <<guard, pc, req, mine, late>>
workerVars  == <<workerUp, step, cur, lane>>
janitorVars == <<jpc, todo, doomed, removal>>
vars == <<rowVars, bullVars, clientVars, workerVars, janitorVars, budget>>

Active(r)   == status[r] \in ActiveStatuses
Finished(r) == status[r] \in FinishedStatuses
QueueOf(k)  == IF k = "sales_build" THEN "etl-long" ELSE "etl"
HasHandler(r)  == \E q \in Queues : cur[q] = r
MidEnqueue(r)  == \E c \in Clients : mine[c] = r
ActiveRuns     == {r \in Runs : Active(r)}
Spend(f)       == budget[f] > 0 /\ budget' = [budget EXCEPT ![f] = @ - 1]

\* finishRun: an UPDATE by id alone, whatever the row's status is.
FinishRow(r, st, msg) ==
    /\ status'     = [status EXCEPT ![r] = st]
    /\ finishedAt' = finishedAt \cup {r}
    /\ message'    = [message EXCEPT ![r] = msg]
    /\ UNCHANGED <<linked, input>>

\* Slip: a status the column does not have.
RequeueRowUnknown(r) ==
    /\ status'  = [status EXCEPT ![r] = "retrying"]
    /\ message' = [message EXCEPT ![r] = "retry"]
    /\ UNCHANGED <<finishedAt, linked, input>>

\* markRunRetrying: back to 'queued'; queued_at and finished_at stay.
RequeueRow(r) ==
    /\ status'  = [status EXCEPT ![r] = "queued"]
    /\ message' = [message EXCEPT ![r] = "retry"]
    /\ UNCHANGED <<finishedAt, linked, input>>

-----------------------------------------------------------------------------
(* enqueuePipelineRun *)

FreshId(r) == status[r] = "none" /\ \A s \in Runs : s < r => status[s] # "none"

MayEnqueue(i) ==
    IF i.kind = "sales_build"
    THEN \A s \in ActiveRuns : input[s].kind # "sales_build"
    ELSE \A s \in ActiveRuns :
            \/ input[s].kind = "sales_build"
            \/ i.behind /\ input[s].kind = "refresh_30m"

\* Slip: the check is not made under the enqueue guard.
EnqueueCheckUnguarded(c, i) ==
    /\ pc[c] = "idle"
    /\ \E r \in Runs : status[r] = "none"
    /\ MayEnqueue(i)
    /\ guard' = c
    /\ pc'  = [pc EXCEPT ![c] = "checked"]
    /\ req' = [req EXCEPT ![c] = i]
    /\ UNCHANGED <<rowVars, bullVars, mine, late, workerVars, janitorVars, budget>>

\* GET_LOCK answered and the SELECT of mayEnqueue says yes.  A refusal
\* releases the lock and changes nothing.
EnqueueCheck(c, i) ==
    /\ pc[c] = "idle" /\ guard = NoClient
    /\ \E r \in Runs : status[r] = "none"          \* bound MaxRuns
    /\ MayEnqueue(i)
    /\ guard' = c
    /\ pc'  = [pc EXCEPT ![c] = "checked"]
    /\ req' = [req EXCEPT ![c] = i]
    /\ UNCHANGED <<rowVars, bullVars, mine, late, workerVars, janitorVars, budget>>

\* createQueuedRun, then RELEASE_LOCK.
EnqueueInsert(c) ==
    /\ pc[c] = "checked"
    /\ \E r \in Runs :
        /\ FreshId(r)
        /\ status' = [status EXCEPT ![r] = "queued"]
        /\ input'  = [input EXCEPT ![r] = req[c]]
        /\ mine'   = [mine EXCEPT ![c] = r]
    /\ guard' = NoClient
    /\ pc'  = [pc EXCEPT ![c] = "created"]
    /\ req' = [req EXCEPT ![c] = AnInput]
    /\ UNCHANGED <<finishedAt, linked, message, bullVars, late, workerVars, janitorVars, budget>>

EnqueueLink(c) ==
    /\ pc[c] = "created"
    /\ linked' = linked \cup {mine[c]}
    /\ pc' = [pc EXCEPT ![c] = "linked"]
    /\ UNCHANGED <<status, finishedAt, message, input, bullVars, guard, req, mine, late,
                   workerVars, janitorVars, budget>>

EnqueueAdd(c) ==
    /\ pc[c] = "linked"
    /\ bull' = [bull EXCEPT ![mine[c]] = "waiting"]
    /\ pc'   = [pc EXCEPT ![c] = "idle"]
    /\ mine' = [mine EXCEPT ![c] = 0]
    /\ UNCHANGED <<rowVars, made, stalls, guard, req, late, workerVars, janitorVars, budget>>

\* queue.add() was rejected, or ENQUEUE_TIMEOUT_MS passed with the command
\* still buffered on the reconnecting connection.
EnqueueTimeout(c) ==
    /\ pc[c] = "linked"
    /\ Spend("outage")
    /\ late' \in {late, late \cup {<<c, mine[c]>>}}
    /\ pc'   = [pc EXCEPT ![c] = "timedOut"]
    /\ UNCHANGED <<rowVars, bullVars, guard, req, mine, workerVars, janitorVars>>

\* The catch of enqueuePipelineRun: the row is finished 'failed'.
EnqueueGiveUp(c) ==
    /\ pc[c] = "timedOut"
    /\ FinishRow(mine[c], "failed", "enqueue")
    /\ pc'   = [pc EXCEPT ![c] = "idle"]
    /\ mine' = [mine EXCEPT ![c] = 0]
    /\ UNCHANGED <<bullVars, guard, req, late, workerVars, janitorVars, budget>>

\* MySQL rejects a statement: without its INSERT there is no row and the
\* guard is free again; without setRunJobId or the last finishRun the row
\* stays queued and the enqueuer is gone.
EnqueueThrows(c) ==
    /\ \/ pc[c] = "checked" /\ guard' = NoClient
       \/ pc[c] \in {"created", "timedOut"} /\ mine[c] \in FaultyRuns /\ guard' = guard
    /\ pc'   = [pc EXCEPT ![c] = "idle"]
    /\ req'  = [req EXCEPT ![c] = AnInput]
    /\ mine' = [mine EXCEPT ![c] = 0]
    /\ UNCHANGED <<rowVars, bullVars, late, workerVars, janitorVars, budget>>

\* Redis is back: a command withTimeout gave up on is sent after all.
LateAdd(c, r) ==
    /\ <<c, r>> \in late
    /\ late' = late \ {<<c, r>>}
    /\ bull' = [bull EXCEPT ![r] = "waiting"]
    /\ UNCHANGED <<rowVars, made, stalls, guard, pc, req, mine, workerVars, janitorVars, budget>>

\* The processes in S die: MySQL ends their session (and their GET_LOCK),
\* their buffered Redis commands are gone.
ClientsDie(S) ==
    /\ guard' = IF guard \in S THEN NoClient ELSE guard
    /\ pc'    = [c \in Clients |-> IF c \in S THEN "idle" ELSE pc[c]]
    /\ mine'  = [c \in Clients |-> IF c \in S THEN 0 ELSE mine[c]]
    /\ late'  = {p \in late : p[1] \notin S}
    /\ req'   = [c \in Clients |-> IF c \in S THEN AnInput ELSE req[c]]

CliCrash(c) ==
    /\ c \in CliClients /\ pc[c] # "idle"
    /\ ClientsDie({c})
    /\ UNCHANGED <<rowVars, bullVars, workerVars, janitorVars, budget>>

-----------------------------------------------------------------------------
(* BullMQ and processEtlJob.  concurrency 1: one handler per queue. *)

Pick(q, r) ==
    /\ workerUp /\ step[q] = "idle"
    /\ bull[r] = "waiting" /\ QueueOf(input[r].kind) = q
    /\ bull' = [bull EXCEPT ![r] = "active"]
    /\ step' = [step EXCEPT ![q] = "picked"]
    /\ cur'  = [cur EXCEPT ![q] = r]
    /\ UNCHANGED <<rowVars, made, stalls, clientVars, workerUp, lane, janitorVars, budget>>

\* Slip: a retried attempt is not marked running again.
MarkStartedOnce(q) ==
    /\ step[q] = "picked"
    /\ status' = [status EXCEPT ![cur[q]] = IF made[cur[q]] = 0 THEN "running" ELSE @]
    /\ step'   = [step EXCEPT ![q] = "started"]
    /\ UNCHANGED <<finishedAt, linked, message, input, bullVars, clientVars, workerUp, cur, lane,
                   janitorVars, budget>>

\* markRunStarted: an UPDATE by id alone, so a finished row comes back.
MarkStarted(q) ==
    /\ step[q] = "picked"
    /\ status' = [status EXCEPT ![cur[q]] = "running"]
    /\ step'   = [step EXCEPT ![q] = "started"]
    /\ UNCHANGED <<finishedAt, linked, message, input, bullVars, clientVars, workerUp, cur, lane,
                   janitorVars, budget>>

LaneAlive(q) == lane[q] \in {"busy", "cancelling"}

\* Slip: the lane is taken for free, because this queue's last handler ended.
PostAnyway(q) ==
    /\ step[q] = "started"
    /\ lane' = [lane EXCEPT ![q] = "busy"]
    /\ step' = [step EXCEPT ![q] = "polling"]
    /\ UNCHANGED <<rowVars, bullVars, clientVars, workerUp, cur, janitorVars, budget>>

\* runPipeline: POST /etl/run accepted (409 while the lane's job is alive).
Post(q) ==
    /\ step[q] = "started" /\ ~LaneAlive(q)
    /\ lane' = [lane EXCEPT ![q] = "busy"]
    /\ step' = [step EXCEPT ![q] = "polling"]
    /\ UNCHANGED <<rowVars, bullVars, clientVars, workerUp, cur, janitorVars, budget>>

\* BullMQ's attemptsMade counts the attempts before this one.
WillRetry(r) == made[r] + 1 < input[r].attempts

\* Slip: 'failed' between two attempts (markRunRetrying's header: what
\* happened before).
RecordFailureFinal(q) ==
    /\ FinishRow(cur[q], "failed", "outcome")
    /\ step' = [step EXCEPT ![q] = "threw"]

\* How a failed attempt is written down, by the exitCode branch and by catch.
RecordFailure(q) ==
    /\ IF WillRetry(cur[q]) THEN RequeueRow(cur[q]) ELSE FinishRow(cur[q], "failed", "outcome")
    /\ step' = [step EXCEPT ![q] = "threw"]

\* Slip: no catch, so the row stays 'running' (runs 59 and 60).
PipelineThrowsUnrecorded(q) ==
    /\ step[q] \in {"started", "polling"}
    /\ step' = [step EXCEPT ![q] = "threw"]
    /\ UNCHANGED <<rowVars, bullVars, clientVars, workerUp, cur, lane, janitorVars, budget>>

\* runPipeline throws: a 409, no answer to the POST (which may have started
\* the job all the same), or MAX_CONSECUTIVE_POLL_FAILURES polls lost.
PipelineThrows(q) ==
    /\ \/ step[q] = "polling" /\ lane' = lane
       \/ step[q] = "started" /\ lane' \in {lane, [lane EXCEPT ![q] = IF LaneAlive(q) THEN @ ELSE "busy"]}
    /\ RecordFailure(q)
    /\ UNCHANGED <<bullVars, clientVars, workerUp, cur, janitorVars, budget>>

\* What the row of a run that did not fail ends with.
Verdict ==
    [ok        |-> [status |-> "success",   message |-> "none"],
     cancelled |-> [status |-> "cancelled", message |-> "none"],
     partial   |-> [status |-> "partial",   message |-> "outcome"],
     locked    |-> [status |-> "skipped",   message |-> "outcome"]]

\* A poll finds the lane's job finished; the slot is free from then on.
RecordOutcome(q) ==
    /\ step[q] = "polling" /\ lane[q] \in Outcomes \cup {"cancelled"}
    /\ lane' = [lane EXCEPT ![q] = "free"]
    /\ \/ lane[q] = "error" /\ RecordFailure(q)
       \/ /\ lane[q] # "error"
          /\ FinishRow(cur[q], Verdict[lane[q]].status, Verdict[lane[q]].message)
          /\ step' = [step EXCEPT ![q] = "returned"]
    /\ UNCHANGED <<bullVars, clientVars, workerUp, cur, janitorVars, budget>>

\* MySQL or Redis rejects a statement outside the try (markRunStarted,
\* updateProgress, getMaxEtlRunId), the finishRun of an outcome, after
\* recordedTerminalStatus was set, or the catch's own UPDATE: the job throws and
\* the row stays as it is.
BookkeepingThrows(q) ==
    /\ cur[q] \in FaultyRuns
    /\ \/ step[q] \in {"picked", "started", "polling"} /\ lane' = lane
       \/ step[q] = "started" /\ ~LaneAlive(q) /\ lane' = [lane EXCEPT ![q] = "busy"]
       \/ /\ step[q] = "polling" /\ lane[q] \in Outcomes \cup {"cancelled"}
          /\ lane' = [lane EXCEPT ![q] = "free"]
    /\ step' = [step EXCEPT ![q] = "threw"]
    /\ UNCHANGED <<rowVars, bullVars, clientVars, workerUp, cur, janitorVars, budget>>

\* Slip: the handler's promise resolves before runPipeline does.
SettleEarly(q) ==
    /\ step[q] \in {"polling", "returned", "threw"}
    /\ bull' = [bull EXCEPT ![cur[q]] = "completed"]
    /\ made' = [made EXCEPT ![cur[q]] = @ + 1]
    /\ step' = [step EXCEPT ![q] = IF @ = "polling" THEN @ ELSE "idle"]
    /\ cur'  = [cur EXCEPT ![q] = IF step[q] = "polling" THEN @ ELSE 0]
    /\ UNCHANGED <<rowVars, stalls, clientVars, workerUp, lane, janitorVars, budget>>

\* BullMQ takes the handler's promise: moveToCompleted, or moveToFailed with
\* a retry while attempts are left.
Settle(q) ==
    /\ step[q] \in {"returned", "threw"}
    /\ LET r == cur[q] IN
        /\ bull' = [bull EXCEPT ![r] =
                       IF step[q] = "returned" THEN "completed"
                       ELSE IF made[r] + 1 < input[r].attempts THEN "delayed" ELSE "failed"]
        /\ made' = [made EXCEPT ![r] = @ + 1]
    /\ step' = [step EXCEPT ![q] = "idle"]
    /\ cur'  = [cur EXCEPT ![q] = 0]
    /\ UNCHANGED <<rowVars, stalls, clientVars, workerUp, lane, janitorVars, budget>>

\* The backoff is over.
Promote(r) ==
    /\ workerUp /\ bull[r] = "delayed"
    /\ bull' = [bull EXCEPT ![r] = "waiting"]
    /\ UNCHANGED <<rowVars, made, stalls, clientVars, workerVars, janitorVars, budget>>

\* An active job whose worker died: queued again, or failed when it has
\* stalled too often.  No code of the backend runs in either case.
Stalled(r) ==
    /\ workerUp /\ bull[r] = "active" /\ ~HasHandler(r)
    /\ stalls' = [stalls EXCEPT ![r] = @ + 1]
    /\ bull'   = [bull EXCEPT ![r] = IF stalls[r] < MaxStalls THEN "waiting" ELSE "failed"]
    /\ UNCHANGED <<rowVars, made, clientVars, workerVars, janitorVars, budget>>

WorkerCrash ==
    /\ workerUp /\ Spend("workerCrash")
    /\ workerUp' = FALSE
    /\ step' = [q \in Queues |-> "idle"]
    /\ cur'  = [q \in Queues |-> 0]
    /\ UNCHANGED <<rowVars, bullVars, clientVars, lane, janitorVars>>

WorkerStart ==
    /\ ~workerUp /\ Spend("workerStart")
    /\ workerUp' = TRUE
    /\ UNCHANGED <<rowVars, bullVars, clientVars, step, cur, lane, janitorVars>>

\* The job of an ETL API lane ends (data/etl/api/job_tracker.py).  One that
\* was asked to cancel may have ended by itself just before.
LaneJobEnds(q) ==
    /\ LaneAlive(q)
    /\ \E o \in LaneEnds \cup {"cancelled"} :
        /\ o = "cancelled" => lane[q] = "cancelling"
        /\ lane' = [lane EXCEPT ![q] = o]
    /\ UNCHANGED <<rowVars, bullVars, clientVars, workerUp, step, cur, janitorVars, budget>>

\* getActiveRun: a main-queue run when there is one, else the sales build;
\* the newest row first.
ShownActive(r) ==
    /\ Active(r)
    /\ \A s \in ActiveRuns :
        LET after(x) == input[x].kind = "sales_build"
        IN  \/ after(s) /\ ~after(r)
            \/ after(s) = after(r) /\ s <= r

\* POST /cancel reaches a polling handler of this worker, which asks the ETL
\* API to cancel.  In any other step of the run the request changes nothing.
Cancel(q) ==
    /\ step[q] = "polling" /\ cur[q] \in linked /\ ShownActive(cur[q])
    /\ lane[q] = "busy"
    /\ lane' = [lane EXCEPT ![q] = "cancelling"]
    /\ UNCHANGED <<rowVars, bullVars, clientVars, workerUp, step, cur, janitorVars, budget>>

-----------------------------------------------------------------------------
(* Rows finished by somebody else: reconcileOrphanedEtlRuns ("orphan"),    *)
(* reconcileStaleQueuedRuns ("stale"), POST /force-reset ("reset").        *)

\* The API process restarts; its janitors start over, and routes and cron
\* are live before the startup sweep has read a row.
ApiRestart ==
    /\ Spend("apiRestart")
    /\ ClientsDie(ApiClients)
    /\ jpc'     = [j \in Janitors |-> IF j = "orphan" THEN "pending" ELSE "idle"]
    /\ todo'    = [j \in Janitors |-> {}]
    /\ doomed'  = [j \in Janitors |-> {}]
    /\ removal' = [j \in Janitors |-> {}]
    /\ UNCHANGED <<rowVars, bullVars, workerVars>>

OrphanSelect ==
    /\ jpc["orphan"] = "pending"
    /\ jpc'    = [jpc EXCEPT !["orphan"] = "idle"]
    /\ todo'   = [todo EXCEPT !["orphan"] = ActiveRuns \cap linked]
    /\ doomed' = [doomed EXCEPT !["orphan"] = ActiveRuns \ linked]
    /\ UNCHANGED <<rowVars, bullVars, clientVars, workerVars, removal, budget>>

\* Slip: a missing job is left to the periodic sweep.
OrphanCheckLenient(r) ==
    /\ r \in todo["orphan"]
    /\ todo' = [todo EXCEPT !["orphan"] = @ \ {r}]
    /\ UNCHANGED <<rowVars, bullVars, clientVars, workerVars, jpc, doomed, removal, budget>>

\* getEtlJob: only whether the job exists is looked at, not its state.
OrphanCheck(r) ==
    /\ r \in todo["orphan"]
    /\ todo'   = [todo EXCEPT !["orphan"] = @ \ {r}]
    /\ doomed' = [doomed EXCEPT !["orphan"] = IF bull[r] = "absent" THEN @ \cup {r} ELSE @]
    /\ UNCHANGED <<rowVars, bullVars, clientVars, workerVars, jpc, removal, budget>>

OrphanCheckTimesOut(r) ==
    /\ SweepMaySkip /\ r \in todo["orphan"] /\ Spend("outage")
    /\ todo' = [todo EXCEPT !["orphan"] = @ \ {r}]
    /\ UNCHANGED <<rowVars, bullVars, clientVars, workerVars, jpc, doomed, removal>>

\* The rows that have been queued for STALE_QUEUED_THRESHOLD_MS: any of the
\* queued ones (time is not modelled), but an enqueue is over long before.
StaleRead(S) ==
    /\ todo["stale"] = {} /\ doomed["stale"] = {} /\ removal["stale"] = {}
    /\ S # {} /\ \A r \in S : status[r] = "queued" /\ ~MidEnqueue(r)
    /\ todo' = [todo EXCEPT !["stale"] = S]
    /\ UNCHANGED <<rowVars, bullVars, clientVars, workerVars, jpc, doomed, removal, budget>>

\* Slip: the probe read the wrong way round.
StaleProbeInverted ==
    /\ todo["stale"] # {}
    /\ todo'   = [todo EXCEPT !["stale"] = {}]
    /\ doomed' = [doomed EXCEPT !["stale"] = IF workerUp THEN todo["stale"] ELSE @]
    /\ UNCHANGED <<rowVars, bullVars, clientVars, workerVars, jpc, removal, budget>>

\* hasActiveWorker(): is a worker on the main queue (both queues' workers live
\* in one process)?  A getWorkers() that times out counts as none.
StaleProbe ==
    /\ todo["stale"] # {}
    /\ todo' = [todo EXCEPT !["stale"] = {}]
    /\ \/ workerUp /\ UNCHANGED <<doomed, budget>>
       \/ /\ doomed' = [doomed EXCEPT !["stale"] = todo["stale"]]
          /\ IF workerUp THEN Spend("outage") ELSE budget' = budget
    /\ UNCHANGED <<rowVars, bullVars, clientVars, workerVars, jpc, removal>>

ResetSelect ==
    /\ jpc["reset"] = "idle" /\ removal["reset"] = {} /\ Spend("reset")
    /\ jpc'    = [jpc EXCEPT !["reset"] = "resetting"]
    /\ doomed' = [doomed EXCEPT !["reset"] = ActiveRuns]
    /\ UNCHANGED <<rowVars, bullVars, clientVars, workerVars, todo, removal>>

\* finishRun(row.id, 'failed') on a row read before, whatever it is by now.
JanitorFail(j, r) ==
    /\ r \in doomed[j]
    /\ FinishRow(r, "failed", j)
    /\ doomed'  = [doomed EXCEPT ![j] = @ \ {r}]
    /\ removal' = [removal EXCEPT ![j] = IF j # "orphan" /\ r \in linked THEN @ \cup {r} ELSE @]
    /\ UNCHANGED <<bullVars, clientVars, workerVars, jpc, todo, budget>>

\* job.remove(): refused while a worker holds the job's lock, which outlives
\* a dead worker for a while.  Force reset removes after its last finishRun.
JanitorRemove(j, r) ==
    /\ r \in removal[j] /\ (j = "reset" => doomed[j] = {})
    /\ removal' = [removal EXCEPT ![j] = @ \ {r}]
    /\ \/ bull[r] = "active" /\ bull' = bull
       \/ ~HasHandler(r) /\ bull' = [bull EXCEPT ![r] = "absent"]
    /\ UNCHANGED <<rowVars, made, stalls, clientVars, workerVars, jpc, todo, doomed, budget>>

\* job.remove() is rejected: logged and forgotten.
JanitorRemoveFails(j, r) ==
    /\ r \in removal[j] /\ (j = "reset" => doomed[j] = {}) /\ Spend("outage")
    /\ removal' = [removal EXCEPT ![j] = @ \ {r}]
    /\ UNCHANGED <<rowVars, bullVars, clientVars, workerVars, jpc, todo, doomed>>

\* The queue is unreachable at startup, or MySQL rejects a statement of the
\* janitor: the rest of its rows, and of a force reset, are left undone.
JanitorAborts(j) ==
    /\ SweepMaySkip /\ Spend("outage")
    /\ jpc[j] = "pending" \/ todo[j] \cup doomed[j] # {}
    /\ jpc'     = [jpc EXCEPT ![j] = "idle"]
    /\ todo'    = [todo EXCEPT ![j] = {}]
    /\ doomed'  = [doomed EXCEPT ![j] = {}]
    /\ removal' = [removal EXCEPT ![j] = IF j = "reset" THEN {} ELSE @]
    /\ UNCHANGED <<rowVars, bullVars, clientVars, workerVars>>

\* resetEtlApi: POST /etl/reset ends the job of every lane, or is lost.
ResetLanes ==
    /\ jpc["reset"] = "resetting" /\ doomed["reset"] = {}
    /\ jpc'  = [jpc EXCEPT !["reset"] = "idle"]
    /\ lane' \in {lane, [q \in Queues |-> IF LaneAlive(q) THEN "cancelled" ELSE lane[q]]}
    /\ UNCHANGED <<rowVars, bullVars, clientVars, workerUp, step, cur, todo, doomed, removal, budget>>

-----------------------------------------------------------------------------
Init ==
    /\ status = [r \in Runs |-> "none"]
    /\ finishedAt = {} /\ linked = {}
    /\ message = [r \in Runs |-> "none"]
    /\ input = [r \in Runs |-> AnInput]
    /\ bull = [r \in Runs |-> "absent"]
    /\ made = [r \in Runs |-> 0]
    /\ stalls = [r \in Runs |-> 0]
    /\ guard = NoClient
    /\ pc = [c \in Clients |-> "idle"]
    /\ req = [c \in Clients |-> AnInput]
    /\ mine = [c \in Clients |-> 0]
    /\ late = {}
    /\ workerUp = TRUE
    /\ step = [q \in Queues |-> "idle"]
    /\ cur = [q \in Queues |-> 0]
    /\ lane = [q \in Queues |-> "free"]
    /\ jpc = [j \in Janitors |-> IF j = "orphan" THEN "pending" ELSE "idle"]
    /\ todo = [j \in Janitors |-> {}]
    /\ doomed = [j \in Janitors |-> {}]
    /\ removal = [j \in Janitors |-> {}]
    /\ budget = Budget

ClientStep(c) ==
    \/ \E i \in Asked : EnqueueCheck(c, i)
    \/ EnqueueInsert(c)
    \/ EnqueueLink(c)
    \/ EnqueueAdd(c)
    \/ EnqueueTimeout(c)
    \/ EnqueueGiveUp(c)
    \/ EnqueueThrows(c)
    \/ \E r \in Runs : LateAdd(c, r)
    \/ CliCrash(c)

WorkerStep(q) ==
    \/ \E r \in Runs : Pick(q, r)
    \/ MarkStarted(q)
    \/ Post(q)
    \/ PipelineThrows(q)
    \/ RecordOutcome(q)
    \/ BookkeepingThrows(q)
    \/ Settle(q)
    \/ LaneJobEnds(q)
    \/ Cancel(q)

BullStep(r) == Promote(r) \/ Stalled(r)

JanitorStep ==
    \/ OrphanSelect
    \/ \E r \in Runs : OrphanCheck(r) \/ OrphanCheckTimesOut(r)
    \/ \E S \in SUBSET Runs : StaleRead(S)
    \/ StaleProbe
    \/ ResetSelect
    \/ \E j \in Janitors, r \in Runs : JanitorFail(j, r) \/ JanitorRemove(j, r) \/ JanitorRemoveFails(j, r)
    \/ \E j \in Janitors : JanitorAborts(j)
    \/ ResetLanes

Next ==
    \/ \E c \in Clients : ClientStep(c)
    \/ \E q \in Queues : WorkerStep(q)
    \/ \E r \in Runs : BullStep(r)
    \/ JanitorStep
    \/ WorkerCrash
    \/ WorkerStart
    \/ ApiRestart

Spec == Init /\ [][Next]_vars

\* The processes that keep running.  An ETL API job ends (its subprocess
\* exits), an awaited statement is answered, BullMQ serves its queues, the
\* sweep timer fires, the container runtime restarts a dead worker (as often
\* as Budget lets it).  Nobody has to start, cancel or reset anything.
Fairness ==
    /\ \A q \in Queues :
        /\ WF_vars(\E r \in Runs : Pick(q, r))
        /\ WF_vars(MarkStarted(q))
        /\ WF_vars(Post(q) \/ (step[q] = "started" /\ PipelineThrows(q)))
        /\ WF_vars(RecordOutcome(q))
        /\ WF_vars(Settle(q))
        /\ WF_vars(LaneJobEnds(q))
    /\ \A c \in Clients :
        /\ WF_vars(EnqueueInsert(c))
        /\ WF_vars(EnqueueLink(c))
        /\ WF_vars(EnqueueAdd(c))
        /\ WF_vars(EnqueueGiveUp(c))
    /\ \A r \in Runs :
        /\ WF_vars(Promote(r))
        /\ WF_vars(Stalled(r))
        /\ WF_vars(OrphanCheck(r))
        /\ \A j \in Janitors : WF_vars(JanitorFail(j, r)) /\ WF_vars(JanitorRemove(j, r))
    /\ WF_vars(OrphanSelect)
    /\ WF_vars(\E S \in SUBSET Runs : StaleRead(S))
    /\ WF_vars(StaleProbe)
    /\ WF_vars(ResetLanes)
    /\ WF_vars(WorkerStart)

FairSpec == Spec /\ Fairness

-----------------------------------------------------------------------------
(* Properties *)

\* Every variable has its type.
TypeOK ==
    /\ status \in [Runs -> {"none"} \cup ActiveStatuses \cup FinishedStatuses]
    /\ finishedAt \subseteq Runs /\ linked \subseteq Runs
    /\ message \in [Runs -> Messages]
    /\ input \in [Runs -> Inputs]
    /\ bull \in [Runs -> BullStates]
    /\ made \in [Runs -> Nat] /\ stalls \in [Runs -> Nat]
    /\ guard \in Clients \cup {NoClient}
    /\ pc \in [Clients -> {"idle", "checked", "created", "linked", "timedOut"}]
    /\ req \in [Clients -> Inputs]
    /\ mine \in [Clients -> Runs \cup {0}]
    /\ late \subseteq (Clients \X Runs)
    /\ workerUp \in BOOLEAN
    /\ step \in [Queues -> {"idle", "picked", "started", "polling", "returned", "threw"}]
    /\ cur \in [Queues -> Runs \cup {0}]
    /\ lane \in [Queues -> LaneStates]
    /\ jpc \in [Janitors -> {"idle", "pending", "resetting"}]
    /\ todo \in [Janitors -> SUBSET Runs]
    /\ doomed \in [Janitors -> SUBSET Runs]
    /\ removal \in [Janitors -> SUBSET Runs]
    /\ budget \in [Faults -> Nat]

\* The lock.  Of two never-finished rows of one queue that are queued or
\* running together, the older is a 30-minute refresh and the newer a
\* scheduled tick that asked to queue behind it -- whatever crashes, times
\* out or is reset.  (mayEnqueue under the enqueue guard; a finished row that
\* a late BullMQ job brings back is not covered: nothing checks the lock then.)
Holds(r) == Active(r) /\ r \notin finishedAt
BehindRefresh(i, r) == i.behind /\ input[r].kind = "refresh_30m"
Exclusive ==
    \A r, s \in Runs :
        r < s /\ Holds(r) /\ Holds(s) /\ QueueOf(input[r].kind) = QueueOf(input[s].kind)
            => BehindRefresh(input[s], r)

\* A failed attempt that BullMQ will retry still holds the lock through the
\* backoff, unless somebody else gave the run up (markRunRetrying's header).
Overrides == Janitors \cup {"enqueue"}
RetryHoldsLock ==
    \A r \in Runs :
        bull[r] = "delayed" => Active(r) \/ message[r] \in Overrides \/ r \in FaultyRuns

\* A run the ETL API is executing for a handler is shown as running, unless
\* somebody else gave it up while the handler was working.
AttemptIsShown ==
    \A q \in Queues :
        step[q] \in {"started", "polling"} =>
            status[cur[q]] = "running" \/ message[cur[q]] \in Overrides

\* A never-finished row that holds the lock has somebody left to release it:
\* a live BullMQ job, its enqueuer, or the startup sweep.  The two ways to
\* wedge it are named: a job that stalled once too often, and a bookkeeping
\* statement rejected on the last attempt.
LiveJob(r) == bull[r] \in {"waiting", "active", "delayed"}
SweepPending(r) == jpc["orphan"] = "pending" \/ r \in todo["orphan"] \cup doomed["orphan"]
LockHasAReleaser ==
    CliClients = {} /\ ~SweepMaySkip =>
        \A r \in Runs :
            Holds(r) => \/ LiveJob(r) \/ MidEnqueue(r) \/ SweepPending(r)
                        \/ stalls[r] > MaxStalls \/ r \in FaultyRuns

\* What a run ended with is final: once BullMQ is done with the job, only a
\* janitor (or the enqueuer) that had decided before still touches the row.
OutcomeIsFinal ==
    [][\A r \in Runs :
        /\ bull[r] \in {"completed", "failed"}
        /\ ~MidEnqueue(r)
        /\ \A j \in Janitors : r \notin doomed[j]
        => status'[r] = status[r]]_vars

\* Whatever takes the lock gives it back, as long as the worker comes back.
LockIsFreed == \A r \in Runs : Active(r) ~> ~Active(r) \/ ~workerUp

\* No run stays queued for ever, even when no worker ever comes back: the
\* stale-queued sweep gives it up.
QueuedEnds == \A r \in Runs : status[r] = "queued" ~> status[r] # "queued"

\* The backend uses the lanes as EtlLane lets it: whatever worker, API or
\* janitor dies, a lane is posted to only when its last job is over.
Slot(q) == IF ~LaneAlive(q) THEN "free" ELSE IF lane[q] = "busy" THEN "run" ELSE "stop"
Contract == INSTANCE EtlLane WITH Lanes <- Queues, slot <- [q \in Queues |-> Slot(q)]
UsesContract == Contract!Spec

-----------------------------------------------------------------------------
(* What comments of the code say, and the code does not do *)

\* etlRunTracker.ts:166: Run History carries a permanent audit trail of a
\* force reset.  (Another janitor may say more; the run itself may not take
\* it back.)
AuditTrailPermanent ==
    [][\A r \in Runs : message[r] = "reset" => message'[r] \in Janitors]_vars

\* etlReconciliation.ts:78: a row the startup sweep leaves alone has a job
\* that a worker will pick up or fail.
LeftForTheWorker ==
    [][\A r \in todo["orphan"] :
        Active(r) /\ r \notin todo'["orphan"] \cup doomed'["orphan"] /\ jpc'["orphan"] # "pending"
            => LiveJob(r)]_vars

=============================================================================
