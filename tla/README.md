# Verification of the 7PS dashboard's ETL control plane and data loads

TLA+ specifications, TLC runs and TLAPS proofs for the repository's main
application, `src/07ps-sales-dashboard-app`: a Node/Express backend, a React
frontend, and a Python ETL (a Flask API in front of a pipeline platform) that
fills the reporting schema. Paths below are relative to that directory.

What can go wrong here in a way that a test hardly reaches is mostly in the
*control* of work that runs for a long time and may die at any point. A run of
the ETL exists in four places at once (a MySQL row, a BullMQ job in Redis, a
handler in the worker process, a subprocess of the Flask API), takes locks that
belong to a database session, reads from a source that changes meanwhile, and
writes tables with statements that commit one by one. The MARCOM uploads are the
second such place: batches that replace each other's rows and may be taken back
in any order.

## 1. The parts of the system

### The ETL run on the Node side

| Part | State | Operations | Interacts with |
|---|---|---|---|
| `etlQueue.ts` | MySQL named lock (`GET_LOCK`), BullMQ queues `etl`, `etl-long` | `enqueuePipelineRun`: guard, `mayEnqueue`, `createQueuedRun`, `setRunJobId`, `queue.add` with a timeout | called by routes, cron (`registerSchedules.ts`), CLI commands (`etl/commands`) |
| `etlRunTracker.ts` | the rows of `etl_job_runs` | `markRunStarted`, `markRunRetrying`, `finishRun`, `setRunJobId`, the reads of the active runs | everybody |
| `runPipelineJob.ts` | one handler per queue (concurrency 1) | `processEtlJob`: started, pipeline, verdict, retry or final failure; the cancel subscription | BullMQ, `pythonRunner.ts` |
| `pythonRunner.ts` | the polling loop of one run | `POST /etl/run`, `GET /etl/jobs/<id>` until a final status, `POST …/cancel`; gives up after too many lost polls | Flask API |
| `etlReconciliation.ts`, `server.ts` | – | startup sweep of orphaned rows, periodic sweep of stale queued rows | rows, queues |
| `routes/admin/etlControl.ts` | – | enqueue, cancel, force reset | all of the above |

Properties that make it correct: a row that is `queued` or `running` **is** the
lock of its queue, so there is at most one; it is not given up while a retry is
pending; whoever holds it has somebody left to release it; it is released in the
end; what a run ended with stays what it ended with.

Hard here: several processes enqueue; `queue.add()` may time out and arrive
later; BullMQ repeats a job whose worker died, with no code of the backend
running; the janitors decide on rows they read earlier; every statement is an
UPDATE by id alone.

### The Flask API (`data/etl/api`)

| Part | State | Operations | Interacts with |
|---|---|---|---|
| `job_tracker.py` | a slot per lane, `Job` objects, a thread per run, two pump threads per subprocess | `start`, `cancel`, `force_reset`, `_run_job`, `_pump`, `to_status_dict` | request handler threads, subprocess |
| `app.py` | – | routes over the tracker, preflight | Node |
| `input_files.py` | the input workbooks and their backups | list, replace (refused while a run is active) | tracker, file system |

Properties: a lane runs one subprocess; a cancel is never lost, wherever it
falls between the creation of the job and `Popen`; a final status means that the
subprocess ended and its output was read; what the poller reads in several steps
fits together.

Hard here: the tracker's lock protects `start`, `force_reset` and lookups, but a
`Job`'s attributes are written by its thread, by `cancel` and by `force_reset`
without it, and read one at a time by the polls.

### The platform (`data/etl/src/etl_platform`) and the departments

| Part | State | Operations |
|---|---|---|
| `runner.py`, `registry.py`, `run.py`, `meta.py` | `etl_run_log` rows, `_done` (a status per job of this run) | dependency jobs nested in order, isolated runs, reuse of fresh results, exit codes |
| `db.py` (named locks) | MySQL named locks, the connection that holds each | take with a wait, release; the server may drop an idle session |
| `load.py`, `quality.py` | live, `__new` and `__old` tables | `upsert`, `insert_rows`, `replace_all` in the task's own transactions; `atomic_swap`, `atomic_swap_many` |
| `watermark.py`, `sources/odoo.py`, `core/odoo_raw.py` | a watermark per source table, the raw tables | read pages with an overlap, load and advance, reconcile ids |
| `departments/*`, `core` | – | the transformations, SQL and pandas over data |

Properties: no two processes write a module together; they never wait for each
other; a job does not run on inputs that failed, and runs once; status and exit
code tell what happened; a reader never sees a table half swapped; a change in
Odoo is not skipped for good, whenever it commits.

Hard here: jobs share dependencies, and what a run must lock is known only from
the graph; the refresh locks one module at a time and goes on after failures; a
lock ends with its session, not with the run; Odoo stamps `write_date` at the
start of a transaction and pages by offset.

### MARCOM uploads (`backend/src/marcom`)

| Part | State | Operations |
|---|---|---|
| `service.ts`, `staging.ts`, `diff.ts` | staged uploads and their files, the write lock, batches, data rows with `is_current` and `superseded_by_batch` | validate (dry run), commit, rollback of the latest batch, cleanup |
| `removal.ts` | the same | removal of any batch: hand rows over to later batches that stated them, redirect the links, keep or drop brands |

Properties: an upload is imported once; the links between rows stay sound after
any order of commits, rollbacks and removals; nothing that a later batch stated
is lost; a brand is owned by a batch that uses it.

Hard here: the plan of a removal depends on what later batches left unchanged,
and each removal changes what the next one finds; the answer to COMMIT may be
lost.

### The rest of the backend

Authentication and sessions (`authService.ts`), roles and data scope, NPS
follow-up cases (`npsFollowupService.ts`: versioned edits in one transaction),
the kaizen board (last write wins). The measures, filters and KPIs, the
master-data routes and the frontend keep no state that a step leaves to a later
one.

`PROJECT.json` lists every component with what is modelled of it, and every
hazard at the line where it bites, with the properties that cover it or the
reason why none does.

## 2. Modules

| Module | What it is |
|---|---|
| `EtlRunQueue` | the Node side: rows, enqueue guard, BullMQ, worker, janitors |
| `EtlJobTracker` | the Flask API's job tracker and the poll loop |
| `EtlLane` | abstract: what both sides agree on about a lane of the ETL API |
| `PlatformRunner` | processes of the platform: nested jobs, module locks, run log, table swaps |
| `RawExtract` | incremental extraction from a changing Odoo: pages, watermark, reconciliation |
| `MarcomUploads` | staged files, commits, rollbacks and removals over append-only rows |
| `MarcomLedger` | abstract: what an upload and its removal promise about the data |
| `EtlRunQueue_proofs`, `EtlJobTracker_proofs`, `RawExtract_proofs`, `MarcomUploads_proofs` | the theorems about each |
| `PlatformRunner_proofs` | the theorems about the platform's locks and tables |
| `PlatformJobs_proofs` | those about the jobs of a run; extends `PlatformRunner_proofs` |
| `MC*`, `MC*_*.cfg` | the bounds for TLC |

How they compose. `EtlRunQueue` knows of the Flask API only its variable `lane`,
`EtlJobTracker` knows of its callers only that they may start, cancel and reset at
any time. `EtlLane` is the meeting point: both are shown to implement it, each
under its own refinement mapping (`Slot`), so what the one relies on is what the
other provides. The subprocess of a job is a process of `PlatformRunner`, for which
the tracker only sees an exit code; and the jobs of `PlatformRunner` that fill raw
tables are extractions of `RawExtract`, which relies on `ModuleExclusive`: nobody
else writes the table and its watermark.

Operators whose comment starts with *Slip* are the plausible mistakes that show
that a property speaks about the code; no action uses them.

### EtlRunQueue

One step is one awaited statement. That is the grain at which Node's event
loop, a second process, a crash or a rejected statement can interfere.

* A row is `status`, `finishedAt`, `linked` (has a `job_id`), `message` (who
  wrote `error_message` last) and `input` (job type and options). Counts, labels
  and times are left out.
* `bull`, `made`, `stalls` are the BullMQ job: its state, attempts made, times it
  stalled. BullMQ is not under `src/`; it is modelled from the options the code
  passes and the way the code relies on them, and marked external.
* `guard`, `pc`, `req`, `mine`, `late` are the enqueuers: `EnqueueCheck` (lock
  taken, `mayEnqueue` true), `EnqueueInsert`, `EnqueueLink`, `EnqueueAdd`, and the
  ways out: `EnqueueTimeout` (the `add` may still be sent: `LateAdd`),
  `EnqueueGiveUp`, `EnqueueThrows`, `CliCrash`.
* `step`, `cur`, `lane` are the handler of each queue and the lane of the ETL API
  it feeds: `Pick`, `MarkStarted`, `Post`, `RecordOutcome`, `PipelineThrows`,
  `BookkeepingThrows`, `Settle`. `RecordFailure` is the choice between
  `markRunRetrying` and `finishRun`, which the code makes in two places.
* `jpc`, `todo`, `doomed`, `removal` are the janitors `orphan` (startup sweep),
  `stale` (periodic sweep) and `reset` (Force Reset ETL Lock): rows selected, rows
  decided on, jobs still to remove.
* Time is not modelled. A queued row may be stale as soon as its enqueue is over,
  and a backoff may end at any moment. This allows more behaviours than the code.

### EtlJobTracker

One step is one read or write of an attribute that another thread may touch, in
the order of the source. Steps that no other thread can tell apart are one.

* `active` is `_active_job_ids`; `lane`, `status`, `exitCode`, `cancelRequested`,
  `process`, `logs` are a `Job`'s attributes; `thread` is where its `_run_job` is.
* `proc`, `code`, `signalled`, `pipe`, `written` are the subprocess. A subprocess
  may end at any moment, with any code, whether it was signalled or not.
* `cancel` is `CancelFlag` then `CancelTerminate`; `force_reset` is `ForceReset`
  and, lane by lane, `ResetLane`, `ResetTerminate`, `ResetTest`, `ResetStore`. Test
  and store of `status` are two steps, as in the code.
* The poll reads lines, status, exit code and line count in that order
  (`PollLines` … `PollAnswer`); `PollFails` is a poll without an answer.
* stdout and stderr are one stream, `log_lines` is its length.

### PlatformRunner

One step is one statement that another process can see, or one decision between
two such statements.

* A process is `top`, `cur`, `caller`, `at`: the job it was started for, the job at
  hand, who called it, and the next dependency of each job, that is, the Python
  stack of the nested `_run_job`. `done`, `depFail`, `optFail` are `_done` and the
  two failure lists; `result` is the exit code.
* The loop over the dependencies is one action per way through it: `DepDone`
  (done earlier in this run), `DepDisabled`, `DepBlocked` (something it requires
  failed), `DepReused` (a fresh success), `DepRaises`, `DepRuns`. `Leave` is what the
  caller does with the outcome, `Fails` the list it goes to, `Release` the end of the
  `with` block. A lock that stays busy is `LockBusy`: the run is refused, or the module
  is skipped; when the row that says so is rejected, the isolated job itself fails
  (`SkipRaises`).
* `LockNames` is the graph search of `_lock_names`, given by what it computes: the
  own locks of the least set of jobs that is closed under dependencies (without
  looking past jobs done, for a module of the refresh). `want`, `held` and `owner` are
  what a run still has to lock, believes it holds, and what MySQL says. They differ
  after `SessionLost` and `Crash`.
* `table` and `staging` hold *whose* rows are in the live and in the `__new` tables of
  a module. Which job uses `atomic_swap_many` is a constant (`Swapped`). The tasks of
  every other job commit one by one and mostly upsert: `Commit` adds rows of this run
  to those of earlier ones, in any module of the job and as often as it likes;
  `TasksDone` is the return of the last task, when each module was loaded. What was
  committed stays when a later task raises (`TaskRaises`, also at `finish`: a check
  after the load, the task's row, the DROP of `<t>__old`) or the process dies
  (`Crash`). So only the tables that nothing but a swap writes (`SwapOnly`) can be
  expected to hold one load's rows.
* A run is at a job's tasks (`Working`) until its success is written down; what
  `ModuleExclusive` and the lock cover lasts until then.
* The registry is a constant, with what `_check_job_cycles` refuses as assumption.
  `UmbrellaAssumption` says one thing more, which holds of the registry
  (`jobs.py:284-298`) though nothing checks it: no job depends on an isolated job or on
  one with optional jobs.
  The tasks' computation is left out: they write, or raise. `Own` is `own_locks`.

### RawExtract

* `live`, `wd` are Odoo: the records that match the domain and their `write_date`.
  `Commit` uses a date of up to `MaxTxn` ago, `Leave` deletes a record or edits it out
  of the domain. Time is counted in half seconds because Odoo truncates the
  seconds it returns (`Shown`).
* `BeginRun`, `ReadPage`, `Load`, `NotDue`, `ReadIds`, `Mark` are `extract_odoo_raw`
  and `reconcile_ids`; `Fail` is a failure or a crash anywhere. `full` is `--full`, a
  first extraction, or a spec that is not incremental.
* `synced`, `current`, `skipped`, `changed` and `slow` are not in the code: which rows of
  the raw table are right, which records slid over a page boundary, which changed since
  the extraction's first page and were not read since, and whose last change took longer than the overlap, from
  the start of its transaction to its commit or to the load that could not see it.
  `MaxTxn` and `MaxExtract` bound the model and are not related to the overlap.

### MarcomUploads

* A data row is named by the batch that inserted it and its natural key; `owner`,
  `current`, `superseded` are `batch_id`, `is_current`, `superseded_by_batch`.
  `creator` is `marcom_brand.created_batch_id`. The adapters (tables) are treated
  alike, so one stands for all. `agreed` are the rows that a batch's file left
  unchanged: the table has only their number, which is all that `LaterFiles` looks at.
* A commit is `PreCheck`, `TakeLock`, `Diff`, `Write`, with `Refused`, `CommitFails` and
  `ApiDies`; the answer to COMMIT may be lost, then the file stays and the catch runs.
* A rollback or removal is one step (`Remove`): one transaction under the same lock.
  `HandedTo`, `Heir` and `Creator` are the rules that `planTable` and `applyRemoval`
  give for rows, links and brands.

## 3. Runs

| Run | Instance | Shows | Distinct states |
|---|---|---|---|
| `lock` | 2 runs of any of 3 kinds, the API and a CLI enqueuer, 1 outage, retries (every job fails), rejected bookkeeping of run 1 | `TypeOK`, `Exclusive` | 5.2 M |
| `faults` | 1 run, 2 attempts, 2 worker crashes and restarts, 1 API restart, 1 outage, 1 force reset, every exit code | `RetryHoldsLock`, `AttemptIsShown`, `LockHasAReleaser`, `OutcomeIsFinal`, `UsesContract` | 1.4 M |
| `live` | 2 runs, 2 attempts, 1 worker crash without restart, 1 API restart, fair | `LockIsFreed`, `QueuedEnds` | 0.2 M |
| `audit` | 1 run, 1 force reset | violates `AuditTrailPermanent` | |
| `left` | 1 run, 2 worker crashes and restarts, 1 API restart | violates `LeftForTheWorker` | |
| `lanes` | 2 runs, 2 lanes, 1 line each, 1 force reset, cancels at will | `TypeOK`, `OneLivePerLane`, `CancelReaches`, `FinishedIsDrained`, `KeepsContract` | 1.1 M |
| `polls` | 1 run polled, 2 lines, 1 force reset, 1 failed poll in a row tolerated, fair | `StoppedRight`, `CancelEnds` | 0.1 M |
| `lines` | the instance of `polls` | violates `EveryLineIsPersisted` | |
| `platform` | 2 processes that run the refresh or the full job, 6 jobs over 3 modules (shared and optional dependencies, an isolated refresh, a disabled and a reusable job), at most 1 fault of each of 4 kinds, and of 3 kinds in one behaviour | `TypeOK`, `ModuleExclusive`, `SwapsAreWhole`, `DependenciesFirst`, `NothingRetried`, `StatusIsHonest`, `NoMutualWait` | 1.6 M |
| `raw` | 2 records, pages of 1, transactions and extractions of up to 1 tick, an overlap of 1, 5 ticks, 1 failure, fair | `TypeOK`, `NothingMissed`, `EventuallyMirrors` | 1.2 M |
| `marcom` | 3 batches, 3 uploads, 2 keys, 2 values and brands, 2 requests at a time | `TypeOK`, `LinksSound`, `LiveIsStated`, `LatestIsLive`, `BrandsOwned`, `ImportedOnce`, `LaterKeepsItsData`, `ImplementsLedger` | 0.4 M |
| `rearm` | the instance of `marcom` with 1 request at a time | violates `RightRowIsLive` | |

Why the bounds are enough to be interesting. Each hazard needs at most two actors
(one that holds a resource and one that wants it) and one fault of each kind
between any two steps. `faults` has one run so that it can afford all faults
together: the properties it checks speak of one row and its own job, handler and
sweeps, and what a second run can do to it is the lock, the question of `lock`. Two
crashes are needed, because a job may stall once and is failed by BullMQ at the
second time. In `platform` the six jobs are the smallest registry with a diamond
(two ways to one dependency), a nested dependency, an optional one and two jobs
that write one module. Three batches are the least that make a removal in the
middle, with a later batch that restates and one that replaces. In `lock` every job
fails: for the lock, a run that ends well is one on its last attempt. In `raw` two
records and pages of one give every way a page boundary and a change can meet;
five ticks are enough for an extraction, a late commit after it, a second
extraction, and one that fails between them. Transaction and extraction together
may exceed the overlap there, so the exception `slow` is not idle: without it TLC
finds `NothingMissed` violated.

Symmetry is used where actors have no role: the two processes of `platform`,
uploads and requests in `marcom` and `rearm`. Neither has a liveness property.
Deadlock is checked in `platform` (whose end state is the action `AllOver`: two
processes that wait for each other would be found) and in `raw`. It is off in the
others because a bounded system stops: when all ids are handed out and all work is
done nothing is left to do.

Mutants: for each property of a passing run `PROJECT.json` names a definition and
its slip, under which TLC finds the property violated.

### Fairness

`EtlRunQueue!Fairness`: a statement that was sent is answered, BullMQ promotes and
hands out jobs and finds stalled ones, the sweep timer fires, an ETL API job
ends, the container runtime restarts a dead worker (as often as `Budget` lets it:
in `live` never, so that the sweeps have to do it). Nobody has to enqueue, cancel
or reset anything, and no fault has to happen. `LockIsFreed` allows for a worker
that is gone: a `running` row then waits for it, as the code intends.

`EtlJobTracker!Fairness`: threads run, a request handler that started finishes,
the poller goes on. A subprocess ends only when it was signalled; a wedged one is
never assumed to end by itself. `CancelEnds` therefore really depends on
`terminate()` being called.

`RawExtract!FairSpec`: the clock runs and the refresh is started again and again
and goes on (weak fairness of `RunStep`, its cron schedule). Reconciliation has
strong fairness, because an extraction may find it not due; but its age only
grows, and after 20 hours the next extraction does it. Failures are bounded. Odoo
has no fairness at all: it becomes quiet at the end of the clock, which is the
premise of `EventuallyMirrors`.

### Refinements

* `KeepsContract` (`lanes`) and `UsesContract` (`faults`): tracker and run queue
  implement `EtlLane`. A lane is asked to stop once, and taken again only when its
  job ended or a force reset ended it. Both are also proved.
* `ImplementsLedger` (`marcom`): rows, links and hand-overs implement
  `MarcomLedger`. There, the standing imports form a ledger of changed values, the
  reports see the newest entry of each key, and taking an import back strikes its
  entries, except that a newest one passes to the first later import that stated
  the same. The ledger knows no `superseded_by_batch`, no transaction and no file:
  that the links can be rewritten by the rules c1 to c3 without the rows ever
  disagreeing with it is the point. "Stated the same" is, in the ledger as in the
  code, having the key: that the value agrees, too, is `LiveIsStated`, with its
  exception. Also proved.

## 4. Proofs

All proofs are for every value of the constants, under the assumptions that the
modules name. `RunQueueAssumption` and `TrackerAssumption` say that bounds are
naturals, client sets are disjoint and there are one or two lanes, as the code
has. `PlatformAssumption` and `JobsAssumption` say that the registry is what
`registry.py` accepts: finitely many jobs, no dependency cycle, isolated jobs write
nothing themselves. `UmbrellaAssumption` (above) is used by `ExitCodesAreHonest` and by
nothing else. `UploadsAssumption` says that batch ids are naturals and that a file
gives values to keys. The assumptions of `RawExtract` say that the records are finitely
many and the bounds naturals; no relation between the overlap and any duration is
assumed. TLC evaluates them all on the runs.

`EtlRunQueue_proofs`
* `TypeCorrect`: `TypeOK`. It is inductive only with `Refs`: a handler past `Pick`
  has a run, an enqueuer past its INSERT has one.
* `LockIsExclusive`: `Exclusive`. The invariant `LockInv` adds: the guard's owner is
  exactly the client between check and INSERT (`GuardOwner`); what its check found
  still stands (`CheckStands`) – the heart of it, since nobody else can create a row
  and no step lets an existing row start to hold; rows named anywhere exist
  (`NamedRunsExist`); finished rows carry `finished_at` (`Stamped`), so that one which
  comes back does not hold; ids are handed out in order (`IdsInOrder`). Every step
  but the check and the INSERT is shown to be `Quiet` (no new holder, no new check),
  and `QuietKeepsLock` does the rest once.
* `RetriesHoldLock`, `AttemptsAreShown`: `RetryHoldsLock` and `AttemptIsShown`, both
  from `AttemptInv`. It adds that a run has at most one handler (`OneHandler`), that
  its job is added once (`AddedOnce`: otherwise a second `add` could put a working
  run back to waiting), and that a handler which threw with attempts left has
  recorded it (`ThrewIsKept`) before BullMQ delays the job.
* `LockIsReleasable`: `LockHasAReleaser`. `DoneIsFinished` says that a handler that
  returned, or threw on its last attempt, has finished its row, and that janitors
  remove jobs only of rows they finished; so whatever ends a job leaves no holder.
* `OutcomesAreFinal`: `OutcomeIsFinal`, an action property, from `AttemptInv` again. A
  run that BullMQ is done with has no handler, because a handler's job is active; it
  has a row, so no INSERT creates it; what is left to write its status is its own
  enqueuer and a janitor that holds it in `doomed`, which the property names.
* `BackendUsesContract`: `UsesContract`. Step by step, what happens to `lane` is an
  action of `EtlLane` under the mapping, or changes nothing.

`EtlJobTracker_proofs`
* `TrackerTypes`: `TypeOK`, with: a poller does not ask beyond the last line, a
  force reset is at a lane and at a run it ended, a slot holds a run of its lane.
* `NoCancelIsLost`: `CancelReaches`. `OneProcessPerLane`: `OneLivePerLane`.
  `OverIsDrained`: `FinishedIsDrained`. All three from `TrackerInv`, which ties each
  run's thread to its subprocess and status (`RunInv`) and orders the runs of a
  lane (`OlderIsOver`). The chain for the lane: `start` finds the slot free; a run
  that is not over has the slot (`HasSlot`), so all earlier runs of the lane are over
  or were ended by a force reset; a run that is over by itself is drained; one that
  was ended carries the flag, and a flagged live subprocess is being signalled.
* `PollerStopsRight`: `StoppedRight`. A status once read as `completed` or `failed`
  was stored after the exit code and fits it, and the code does not change: so it
  does not matter when the second of the two is read.
* `TrackerKeepsContract`: `KeepsContract`, from `TrackerInv` and one lemma for all
  steps (`LaneStep`): the slot that a step frees, takes or flags is the lane's.

`PlatformRunner_proofs`
* `PlatformTypes`: `TypeOK`, inductive with `Stack`: a started run is at a job that is
  the top-level one or has a caller, and so on up.
* `ModulesAreExclusive`: `ModuleExclusive`. The invariant `Covers`: the locks a run
  asked for belong to a set of jobs that contains the job at hand and is closed
  under what it may still run; for the refresh, the set of the module in turn. It
  holds because `LockNames` is that closure and because a job that `LockNames` left
  out (it is done) is never run again.
* `RunsNeverDeadlock`: `NoMutualWait`. A run that waits has only locks below all it
  wants (`InLockOrder`), and one that is between modules has none. That no nested
  job takes further locks while some are held needs the rank of a job in the
  acyclic graph (`Rank`): no chain of dependencies comes back to the top-level job.
* `SwappedTablesAreWhole`: `SwapsAreWhole`, about the modules that only jobs which swap
  write; no registry or order of failures is excluded. As long as no session was lost,
  what a run counts on is its own (`Kept`), and between CREATE and RENAME the `__new`
  tables of its job hold its rows and nothing else. A job at hand is never a disabled
  one (`EnabledHolds`), so one that loads in place is not at work on such a module. That nobody else writes them meanwhile is
  `ModulesAreExclusive` again (`Covers`: whoever is at a job holds its locks). The case
  with a lost session needs no invariant but that no fault is given back
  (`BudgetFalls`).

`PlatformJobs_proofs`
* The invariant `JobInv` follows the Python stack. The jobs a run is inside of are a
  chain from the job at hand to the top-level one (`Inside`, `Chain`): none of them is
  in `_done`, each is at the dependency that the next one is, and their ranks grow.
  TypeOK cannot see this: the variable `at` alone does not tell that a job which is
  called again would start over. On it rest: a dependency that a job looked past was
  done, or is one of the failures the code lets pass, or the job is to fail (`Settled`);
  tasks begin once (`BegunOnce`); a job at its tasks is not to fail (`PastDeps`); a
  failed job of an isolated run is in its report, or in that of a job which is about to
  fail for it (`FailNoted`).
* `RequiredComeFirst`: `DependenciesFirst`, from `Settled` and `PastDeps`.
  `TasksBeginOnce`: `NothingRetried`, from `BegunOnce`. `ExitCodesAreHonest`:
  `StatusIsHonest`, with an invariant on the result and the row of a run that is over,
  and on what `DepsOver` and `Finish` decide.

`RawExtract_proofs`
* `RawTypeCorrect`, `NothingIsMissed`: `TypeOK` and `NothingMissed` from `IInv`.
  Every record on a page already read was read as it is, is right in the raw table,
  slid, or changed since the first page (`PagesCovered`); so did every record that was
  read and is no longer as it was read (`StaleHasChanged`). One that changed and is not
  `slow` has a date no older than the overlap at the load, and the new watermark is not
  ahead of the clock (`Times`). Between `search_ids` and the marking, what Odoo shows and the
  ids lack is in the next extraction's reach (`LateIsRead`), so that marking it too
  early is repaired.

`MarcomUploads_proofs`
* Two kinds of step touch the rows. `Writes` is a commit: what the diff was computed
  from is still what the tables hold (`CommitInv`), because the write lock is held
  since. `TakesBack` is a rollback or a removal, row by row: a rollback is a removal with
  no later files (`RemoveTakesBack`), and what is handed over goes to the least later
  batch whose file has the key (`TakersAreNaming`). `StepKinds` says that
  every other step leaves the tables alone; the proofs below use these three facts and
  none of the operators that the source gave.
* The invariant `TablesInv`: the rows of a key are a chain in the order of the batches
  that own them (`NextInLine`), whose last row is the current one (`NewestIsCurrent`); a
  row belongs to its batch or a later one (`RowsMade`); and what a batch left unchanged
  is not newer than it (`AgreedInv`). `LinksSound` is not inductive without the order:
  rule c3 takes the pointer of the removed batch's row, and that this is not the
  pointer of another row follows from the chain.
* `LinksStaySound`, `LiveStaysStated`, `BrandsStayOwned` and, with `CommitInv`,
  `NothingImportedTwice` are parts of it. `LatestStaysLive` (`LatestIsLive`: each key shows
  what the latest standing batch that names it says) follows from the order: nobody
  after that batch owns a row, and the row it inserted or left unchanged is the newest.
  It is `RightRowIsLive`, which the run `rearm` refutes, with the one exception `Bereft`: so
  that finding is the only way in which the reports can show anything else. `LaterBatchesKeepTheirData` is about one step:
  a current row that a later file names has a batch to go to.
* `LedgerImplemented`: `ImplementsLedger`. `Writes` maps to `Import` and `TakesBack` to
  `TakeBack` of `MarcomLedger`, all else to a stutter. What the ledger sees of a key is
  its newest entry, what the tables show is the row marked current; `CurrentIsSeen`
  says these are the same, by `NewestIsCurrent`.

Only model-checked: the liveness properties `LockIsFreed`, `QueuedEnds`, `CancelEnds`
and `EventuallyMirrors`, because TLAPS does not handle fairness and ENABLED. Every
other property of a passing run is proved; the properties of the four runs that expect
a violation are false.

## 5. Findings

* **A force reset's record does not last** (`audit`). The handler of a run that was
  force-reset while it worked finishes the row once more when it ends, and
  overwrites `status` and `error_message` (`runPipelineJob.ts:129`), although
  `etlRunTracker.ts:166` promises a permanent audit trail.
* **A job that stalled too often keeps its row** (`left`). BullMQ fails it without
  running a line of the backend. The startup sweep sees that the job exists and
  leaves the row to "a worker" (`etlReconciliation.ts:79`); no worker will take it,
  and no periodic sweep reads `running` rows. The lock is held until someone force
  resets it.
* **A line can be lost between two reads of one poll** (`lines`). `to_status_dict`
  reads the lines and then the line count (`job_tracker.py:87`); a line appended in
  between is counted and never sent, although every line is said to be persisted
  (`runPipelineJob.ts:62`).
* **A restated value can vanish** (`rearm`). Batch 1 states a value, batch 2 restates
  it (so it has no row of its own), batch 3 replaces it. Batch 1 is removed while
  its row is superseded: the row is deleted (`removal.ts:110` hands over current rows
  only). Then batch 3 is taken back: the key has no current row although batch 2
  stands, and `removal.ts:23` says such a rollback "re-arms the right row". With a
  fourth batch the same gap attributes a value to a batch that never uploaded it:
  batch 1 states *b*, batch 2 *a*, batch 3 restates *a*, batch 4 states *b*; remove 2,
  then 4, then 1. The row with *b* is now handed to batch 3, whose file says *a*,
  because `planTable` asks only whether a later file has the key (`laterBatchKeys`
  returns keys, `service.ts:503`); rule c2 speaks of the rows a batch "re-stated
  unchanged" (`removal.ts:19`). The proof of `LiveIsStated` found this: the property
  names the case (`Bereft`), and three batches are too few to reach it.

Limits that the properties name instead of hiding:

* `Exclusive` speaks of rows that were never finished. A `queue.add()` that arrives
  after its row was finished, a job repeated after its worker died between
  `finishRun` and the end of the job, or a retry after a force reset revives a
  finished row, and `markRunStarted` looks at no lock.
* `LockHasAReleaser` excepts a job that stalled too often, a bookkeeping statement
  rejected on the last attempt (`FaultyRuns`), and holds where startup sweeps are
  not skipped and the enqueuers live in the API (a CLI command killed between its
  INSERT and `add` waits for the next restart of the API). When `finishRun` is the
  rejected statement, nothing is recorded and BullMQ repeats a pipeline that had
  succeeded.
* `LockIsFreed` is checked without force resets: a reset that finishes a row, whose
  handler requeues it, and then removes the delayed job leaves a queued row that no
  sweep touches while a worker is connected.
* A retried row keeps its old `queued_at`, so it is stale at once; `getWorkers()`
  timing out is then enough for the sweep to fail a run in its backoff. The model
  has this step, and `RetryHoldsLock` excepts rows that a janitor overrode.
* A cancel for a run without a `job_id` yet is answered with "nothing is running"
  (`etlControl.ts:620`); one that finds no controller in the worker is dropped.
* The newest top-level row of `etl_run_log` is credited to a run
  (`etlRunTracker.ts:437`); with two queues it may be the other queue's. Counts are
  not modelled.
* `FinishedIsDrained` says nothing of runs a force reset ended, and `StoppedRight`
  nothing of `cancelled`: a force reset stores that status while the subprocess may
  still run.
* `NothingRetried` excepts a job whose row could not be written (`unset`): the
  exception leaves `_run_job` before `_done` is set, so a second dependent runs it
  again.
* `ModuleExclusive` excepts a run whose lock session was dropped: MySQL ends an idle
  one after `LOCK_SESSION_MAX_SECONDS` (two hours), the run goes on without its lock,
  and fails at `RELEASE_LOCK` when it is through – with exit code `failed` although its
  row says `success`.
* `StatusIsHonest` counts a module that was skipped for a busy lock as no failure: a
  refresh in which every module was skipped ends `success`, as the code says.
* `StatusIsHonest` depends on `UmbrellaAssumption`. If a module of the refresh depended on
  a job with optional jobs, and one of those were a later module of the refresh, too: it
  fails inside that job, which ends `partial`, and when its turn comes as a module it was
  "done earlier in this run". The refresh ends `success`, although "a failed module is
  reported" (`runner.py:20`). No job of the registry is like that, and nothing refuses
  one.
* `NothingMissed` and `EventuallyMirrors` except `skipped`: a record that is deleted, or
  edited out of the domain, behind the current offset moves the first unread one
  onto a page already read. It is lost until it changes or `--full` is run.
  `odoo.py:297` argues for paging by id, but only about changes and new records.
* They also except `slow`: records whose last change took longer than the overlap, from
  the start of its transaction to the load that read too early to see it. The overlap is
  a constant 300 seconds (`config.py:71`), and the code bounds neither Odoo's
  transactions nor the extraction: one page alone may be retried for five minutes
  (`client.py:136-157`), and an extraction of 8.56 minutes was measured in the older
  pipeline (`data/etl/docs/AUTOMATION.md:35`). Such a record, too, is lost until it changes or
  `--full` is run.
* `SwapsAreWhole` speaks of tables that only swaps write. Core and finance load task by
  task with upserts (`core/jobs.py:7`, `395-400`, `finance/jobs.py:279-335`): after a
  failure or a crash their tables hold a part of the new load beside the old one, and
  rows whose key disappeared stay. With `ETL_SALES_MODE=incremental` the sales marts are
  written in place, too, and the property does not speak of them; the instance has the
  other mode.
* "Any failure leaves every live table untouched" (`load.py:462-463`) is not so when the
  DROP of `<t>__old` fails after the RENAME: the job fails with the new rows live
  (`TaskRaises` at `finish`).

## 6. Not modelled

* Of the run queue: a BullMQ lock that expires under a handler which still works
  (`Stalled` takes only jobs without one), and a CLI `--sync` run, which posts to the lane
  without a row or a job (`commands/shared.ts:49-58`). Of the tracker: a decode error
  that ends a pump (`job_tracker.py:92-95`). Of both: run history and log reading, progress and counts,
  labels, time, the queue-health probes, MySQL session kills by
  `releaseOrphanedPipelineLock`, a restart of the Flask process, its preflight checks.
* Of the platform: the dataset registry, task and quality rows and totals (they
  steer nothing), a `skipped: locked` row that cannot be written, the row-by-row
  diffs of `upsert_changed` and `replace_changed`, the order in which the refresh's
  modules may be configured. `Own` is the module a job locks for; finance and sales also
  upsert shared dimensions of core under their own lock only (`finance/jobs.py:290`,
  `sales/jobs.py:169`), which `ModuleExclusive` does not see.
* Of the extraction: the columns; specs that are not incremental are read by
  `search_read_all` (`odoo_raw.py:105`), which does not drop an id it reads twice, so
  such a load may fail (`Fail`).
* Of MARCOM: rows with `brand_id` NULL and brands with `created_batch_id` NULL, which
  migration 0062 may leave and no upload creates; that a later file is parsed again with
  the categories active now (`service.ts:524`), so that a category switched off makes its
  rows unrecognised; the xlsx parser and its messages, templates, paging of the history, the
  dry run of a removal (it writes nothing).
* `input_files.py` (its race with a starting run is listed as a hazard; the tracker
  does not take its lock), `authService.ts`, roles, NPS cases: see the plan.
* Everything without a protocol: measures, filters and KPIs (read-only SQL), master
  data (single-row writes), the kaizen board (last write wins by design), the
  transformations of the departments (SQL and pandas over data), migrations, the
  frontend. This is by far the larger part of the code by lines: pages that draw
  what they are sent, and queries whose meaning is the database's. A TLA+ module
  about them would either restate the SQL or say nothing. So the mapped lines are
  a small share of the whole, and nearly all of the code in which steps of several
  actors meet.

## 7. Plan

Done: the run queue, the tracker and the contract between them; the platform's
runner, locks and swaps; extraction; MARCOM; a proof of every property but the
liveness ones. What is left, in this order:

1. **`AuthSessions`** (`authService.ts`): the failed-login counter and the status are
   read, a password is checked, and both are written back (line 98), so two parallel
   failures may count once and undo an administrator's lock; reset tokens.
2. **`InputFiles`** composed with `EtlJobTracker`: replacing a workbook while a run
   starts.
3. The last administrator under concurrent role changes (`roleService.ts`), the status
   rules of NPS cases (`applyEdit`).
4. The row diffs of `upsert_changed` against a reference definition.
