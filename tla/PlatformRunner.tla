--------------------------- MODULE PlatformRunner ---------------------------
(***************************************************************************)
(* The ETL platform (data/etl/src/etl_platform): processes that each run a *)
(* registered job -- its dependency jobs first, nested, then its tasks --  *)
(* under a MySQL named lock per module they write.  An `isolated` job (the *)
(* 30-minute refresh) locks one module at a time and goes on when one of   *)
(* them is busy or fails.                                                  *)
(*                                                                         *)
(* What the tasks of a job compute is left out: they write the job's       *)
(* modules, by atomic_swap_many or in a transaction per load, or raise.    *)
(***************************************************************************)
EXTENDS Integers, Sequences, FiniteSets

CONSTANTS
    Runs,           \* bound: processes python -m etl_platform.run
    Jobs, NoJob,
    Deps,           \* depends_on_jobs, as _dependencies leaves them
    Optional,       \* optional_jobs
    Own,            \* own_locks: the modules a job locks, and loads
    NumModules,     \* modules in the order of their lock names
    Swapped,        \* jobs whose tasks use atomic_swap_many
    Isolated, Disabled, Reusable,
    Starts,         \* the jobs that are triggered
    Nobody,
    Budget,         \* bound: how often each fault may happen
    MaxKinds        \* bound: of so many kinds of faults in one behaviour

Modules == 1..NumModules
Faults  == {"task", "log", "session", "crash"}
Dep(j)  == {Deps[j][i] : i \in 1..Len(Deps[j])}
HasTasks(j) == Own[j] # {}

ASSUME PlatformAssumption ==
    /\ NumModules \in Nat
    /\ NoJob \notin Jobs /\ Nobody \notin Runs
    /\ Deps \in [Jobs -> Seq(Jobs)]
    /\ Optional \in [Jobs -> SUBSET Jobs]
    /\ Own \in [Jobs -> SUBSET Modules]
    /\ Isolated \subseteq Jobs /\ Disabled \subseteq Jobs /\ Reusable \subseteq Jobs
    /\ Swapped \subseteq Jobs /\ Starts \subseteq Jobs \ Disabled
    /\ Budget \in [Faults -> Nat] /\ MaxKinds \in Nat

\* What _check_job_cycles refuses; an isolated job is an umbrella: it writes
\* nothing itself.
ASSUME JobsAssumption ==
    /\ IsFiniteSet(Jobs)
    /\ \E rank \in [Jobs -> 0..Cardinality(Jobs)] :
           \A j \in Jobs : \A d \in Dep(j) : rank[d] < rank[j]
    /\ \A j \in Isolated : Own[j] = {}

\* No job depends on an umbrella, isolated or with optional jobs: so the registry
\* is, though nothing checks it.
ASSUME UmbrellaAssumption ==
    \A j, d \in Jobs : d \in Dep(j) => d \notin Isolated /\ Optional[d] = {}

Good    == {"success", "partial", "reused"}
NotRun  == {"failed", "skipped"}
Results == {"none", "success", "partial", "failed", "locked"}

VARIABLES
    \* a Runner: the top-level job, the job at hand, its caller and the next
    \* dependency of each, _done, and the jobs with dep_failures and
    \* optional_failures
    top, cur, caller, at, done, depFail, optFail,
    phase, result,      \* what the run does next; its exit code
    want, held,         \* locks that _hold has to get, and has
    owner,              \* GET_LOCK, by module
    row,                \* etl_run_log: the latest row of a run for a job
    \* by module: the runs whose rows the live table and <t>__new hold (a
    \* <t>__new that does not exist: Nobody)
    table, staging,
    budget,
    \* history: how often a job's tasks began, the jobs that raised before _done
    \* was set
    begun, unset

runVars  == <<top, cur, caller, at, done, depFail, optFail>>
lockVars == <<want, held, owner>>
dataVars == <<table, staging>>
vars == <<runVars, phase, result, lockVars, row, dataVars, budget, begun, unset>>

IsIsolated(r) == top[r] \in Isolated
AtTop(r)      == cur[r] = top[r]
Spend(S)      == /\ \A f \in S : budget[f] > 0
                 /\ budget' = [f \in Faults |-> IF f \in S THEN budget[f] - 1 ELSE budget[f]]
                 /\ Cardinality({f \in Faults : budget'[f] < Budget[f]}) <= MaxKinds
Put(f, r, j, v) == [f EXCEPT ![r] = [@ EXCEPT ![j] = v]]

-----------------------------------------------------------------------------
(* Locks *)

\* Slip: only the modules of the job itself.
OwnLocks(r, j, skipDone) == Own[j]

\* _lock_names: of j and of what it may run, not looking past the jobs in
\* `over` when those are skipped: the least set that is closed.
LockNames(r, j, skipDone) ==
    LET over   == IF skipDone THEN {d \in Jobs \ {j} : done[r][d] # "none"} ELSE {}
        Closed == {S \in SUBSET Jobs : j \in S /\ \A d \in S : Dep(d) \ over \subseteq S}
        Reach  == {d \in Jobs : \A S \in Closed : d \in S}
    IN  UNION {Own[d] : d \in Reach}

\* Slip: the locks in no particular order.
AnyLock(r) == want[r]
\* sorted(...): every run takes its locks in the same order.
NextLock(r) == {m \in want[r] : \A n \in want[r] : m <= n}

TakeLock(r) ==
    /\ phase[r] = "lock" /\ want[r] # {}
    /\ \E m \in NextLock(r) :
        /\ owner[m] = Nobody
        /\ owner' = [owner EXCEPT ![m] = r]
        /\ want'  = [want EXCEPT ![r] = @ \ {m}]
        /\ held'  = [held EXCEPT ![r] = @ \cup {m}]
    /\ UNCHANGED <<runVars, phase, result, row, dataVars, budget, begun, unset>>

AllLocked(r) ==
    /\ phase[r] = "lock" /\ want[r] = {}
    /\ phase' = [phase EXCEPT ![r] = "start"]
    /\ UNCHANGED <<runVars, result, lockVars, row, dataVars, budget, begun, unset>>

\* The locks r has to give back; one whose session is gone makes it raise.
Release(r) ==
    /\ owner' = [m \in Modules |-> IF owner[m] = r THEN Nobody ELSE owner[m]]
    /\ want'  = [want EXCEPT ![r] = {}]
    /\ held'  = [held EXCEPT ![r] = {}]
ReleaseRaises(r) == \E m \in held[r] : owner[m] # r

\* wait_timeout (two hours: longer than a run waits for its locks) closes the
\* idle connection that holds a lock.
SessionLost(r, m) ==
    /\ owner[m] = r /\ phase[r] \notin {"lock", "dead"} /\ Spend({"session"})
    /\ owner' = [owner EXCEPT ![m] = Nobody]
    /\ UNCHANGED <<runVars, phase, result, want, held, row, dataVars, begun, unset>>

-----------------------------------------------------------------------------
(* etl_run_log *)

\* _start_run_row: it may be six hours since every running row was started.
NewRow(r, j, st) ==
    \E swept \in BOOLEAN :
        row' = Put([x \in Runs |-> [k \in Jobs |->
                       IF swept /\ row[x][k] = "running" THEN "failed" ELSE row[x][k]]], r, j, st)

-----------------------------------------------------------------------------
(* Runner.run and the end of a job *)

StartRun(r, j) ==
    /\ phase[r] = "none"
    /\ top'   = [top EXCEPT ![r] = j]
    /\ cur'   = [cur EXCEPT ![r] = j]
    /\ want'  = [want EXCEPT ![r] = IF j \in Isolated THEN {} ELSE LockNames(r, j, FALSE)]
    /\ phase' = [phase EXCEPT ![r] = "lock"]
    /\ UNCHANGED <<caller, at, done, depFail, optFail, result, held, owner, row, dataVars, budget,
                   begun, unset>>

\* Slip: a failed job is reported, whichever it is.
OnlyReported(r, p, d) == optFail' = [optFail EXCEPT ![r] = @ \cup {p}] /\ depFail' = depFail
\* The list a failure of d is noted in.
Fails(r, p, d) ==
    IF d \in Optional[p] \/ p \in Isolated
    THEN optFail' = [optFail EXCEPT ![r] = @ \cup {p}] /\ depFail' = depFail
    ELSE depFail' = [depFail EXCEPT ![r] = @ \cup {p}] /\ optFail' = optFail
NothingFails == UNCHANGED <<depFail, optFail>>

\* _run_job of the job at hand is over, with _done[job] = st ("none": it does
\* not get that far), and raised or returned.
Leave(r, st, raised) ==
    LET j == cur[r]
        p == caller[r][j]
        isModule == p = top[r] /\ p \in Isolated
    IN
    /\ done' = Put(done, r, j, st)
    /\ IF AtTop(r)
       THEN /\ phase'  = [phase EXCEPT ![r] = "over"]
            /\ result' = [result EXCEPT ![r] = IF raised \/ ReleaseRaises(r) THEN "failed" ELSE st]
            /\ Release(r) /\ NothingFails
            /\ UNCHANGED <<cur, at>>
       ELSE /\ phase' = [phase EXCEPT ![r] = "deps"]
            /\ cur'   = [cur EXCEPT ![r] = p]
            /\ at'    = Put(at, r, p, at[r][p] + 1)
            /\ IF raised \/ (isModule /\ ReleaseRaises(r)) THEN Fails(r, p, j) ELSE NothingFails
            /\ IF isModule THEN Release(r) ELSE UNCHANGED lockVars
            /\ UNCHANGED result
    /\ UNCHANGED <<top, caller>>

\* A lock is busy for too long: the whole run is refused, or the module is
\* skipped, which is no failure.
Busy(r) == phase[r] = "lock" /\ want[r] # {} /\ \E m \in NextLock(r) : owner[m] # Nobody
LockBusy(r) ==
    /\ Busy(r)
    /\ IF AtTop(r)
       THEN /\ phase'  = [phase EXCEPT ![r] = "over"]
            /\ result' = [result EXCEPT ![r] = "locked"]
            /\ Release(r)
            /\ UNCHANGED <<runVars, row>>
       ELSE /\ NewRow(r, cur[r], "skipped")
            /\ Leave(r, "skipped", FALSE)
    /\ UNCHANGED <<dataVars, budget, begun, unset>>

\* The row of that module is rejected: the isolated job itself fails.
SkipRaises(r) ==
    /\ Busy(r) /\ ~AtTop(r)
    /\ cur'    = [cur EXCEPT ![r] = top[r]]
    /\ done'   = Put(done, r, top[r], "failed")
    /\ phase'  = [phase EXCEPT ![r] = "over"]
    /\ result' = [result EXCEPT ![r] = "failed"]
    /\ Release(r) /\ Spend({"log"})
    /\ row' \in {row, Put(row, r, top[r], "failed")}
    /\ UNCHANGED <<top, caller, at, depFail, optFail, dataVars, begun, unset>>

Start(r) ==
    /\ phase[r] = "start"
    /\ NewRow(r, cur[r], "running")
    /\ at' = Put(at, r, cur[r], 1)
    /\ depFail' = [depFail EXCEPT ![r] = @ \ {cur[r]}]
    /\ optFail' = [optFail EXCEPT ![r] = @ \ {cur[r]}]
    /\ phase' = [phase EXCEPT ![r] = "deps"]
    /\ UNCHANGED <<top, cur, caller, done, result, lockVars, dataVars, budget, begun, unset>>

\* The INSERT of the row, or the UPDATE that says the job succeeded, is
\* rejected: _run_job raises before _done is set.
LogFails(r) ==
    /\ phase[r] \in {"start", "finish"} /\ Spend({"log"})
    /\ Leave(r, done[r][cur[r]], TRUE)
    /\ unset' = unset \cup {<<r, cur[r]>>}
    /\ UNCHANGED <<row, dataVars, begun>>

\* Slip: a job that failed is not remembered in _done.
Forgets(r, S) ==
    /\ Leave(r, done[r][cur[r]], TRUE)
    /\ row' = Put(row, r, cur[r], "failed") /\ Spend(S)
    /\ UNCHANGED unset
\* _run_job's except, after the faults S: the row says failed, unless that
\* UPDATE is rejected too, which is swallowed.
JobFails(r, S) ==
    /\ Leave(r, "failed", TRUE)
    /\ \/ row' = Put(row, r, cur[r], "failed") /\ Spend(S)
       \/ row' = row /\ Spend(S \cup {"log"})
    /\ UNCHANGED unset

Finish(r) ==
    /\ phase[r] = "finish"
    /\ LET st == IF cur[r] \in optFail[r] THEN "partial" ELSE "success" IN
        /\ row' = Put(row, r, cur[r], st)
        /\ Leave(r, st, FALSE)
    /\ UNCHANGED <<dataVars, budget, begun, unset>>

-----------------------------------------------------------------------------
(* The dependency jobs, in their order *)

AtDep(r, d) ==
    /\ phase[r] = "deps"
    /\ at[r][cur[r]] <= Len(Deps[cur[r]]) /\ d = Deps[cur[r]][at[r][cur[r]]]
\* On to the next one, with what _done and the failures now say.
NextDep(r) ==
    /\ at' = Put(at, r, cur[r], at[r][cur[r]] + 1)
    /\ UNCHANGED <<top, cur, caller, phase, result, lockVars, dataVars, budget, begun, unset>>

\* Done earlier in this run; if it failed, an isolated run goes on without it.
DepDone(r, d) ==
    /\ AtDep(r, d) /\ done[r][d] # "none"
    /\ IF done[r][d] \in NotRun /\ ~IsIsolated(r) THEN Fails(r, cur[r], d) ELSE NothingFails
    /\ NextDep(r)
    /\ UNCHANGED <<done, row>>

\* Slip: the row has the status of _done.
DisabledRow(r, d) ==
    /\ AtDep(r, d) /\ done[r][d] = "none" /\ d \in Disabled
    /\ NewRow(r, d, "disabled")
    /\ done' = Put(done, r, d, "disabled")
    /\ NextDep(r) /\ NothingFails
DepDisabled(r, d) ==
    /\ AtDep(r, d) /\ done[r][d] = "none" /\ d \in Disabled
    /\ NewRow(r, d, "skipped")
    /\ done' = Put(done, r, d, "disabled")
    /\ NextDep(r) /\ NothingFails

\* _failed_requirement
Blocked(r, d) ==
    ~IsIsolated(r) /\ \E b \in Dep(d) \ Optional[d] : done[r][b] \in NotRun

DepBlocked(r, d) ==
    /\ AtDep(r, d) /\ done[r][d] = "none" /\ d \notin Disabled /\ Blocked(r, d)
    /\ NewRow(r, d, "skipped")
    /\ done' = Put(done, r, d, "skipped")
    /\ Fails(r, cur[r], d)
    /\ NextDep(r)

\* _fresh_success: some run succeeded with it, within the window.
DepReused(r, d) ==
    /\ AtDep(r, d) /\ done[r][d] = "none" /\ d \in Reusable \ Disabled /\ ~Blocked(r, d)
    /\ \E x \in Runs : row[x][d] = "success"
    /\ done' = Put(done, r, d, "reused")
    /\ NextDep(r) /\ NothingFails
    /\ UNCHANGED row

\* The row of a job that is skipped, or the look at its last success, fails.
DepRaises(r, d) ==
    /\ AtDep(r, d) /\ done[r][d] = "none"
    /\ d \in Disabled \cup Reusable \/ Blocked(r, d)
    /\ JobFails(r, {"log"})
    /\ UNCHANGED <<dataVars, begun>>

DepRuns(r, d) ==
    /\ AtDep(r, d) /\ done[r][d] = "none" /\ d \notin Disabled /\ ~Blocked(r, d)
    /\ cur'    = [cur EXCEPT ![r] = d]
    /\ caller' = Put(caller, r, d, cur[r])
    /\ IF AtTop(r) /\ IsIsolated(r)
       THEN want' = [want EXCEPT ![r] = LockNames(r, d, TRUE)] /\ phase' = [phase EXCEPT ![r] = "lock"]
       ELSE want' = want /\ phase' = [phase EXCEPT ![r] = "start"]
    /\ UNCHANGED <<top, at, done, depFail, optFail, result, held, owner, row, dataVars, budget,
                   begun, unset>>

\* Slip: the job runs although a required dependency failed.
IgnoresRequired(r) == FALSE

\* DependencyFailed: a required one failed, or every module of an isolated job.
RequirementFailed(r) ==
    LET j == cur[r] IN
    \/ j \in depFail[r]
    \/ /\ j \in Isolated /\ j \in optFail[r] /\ ~HasTasks(j)
       /\ \A d \in Dep(j) : done[r][d] \notin Good

DepsOver(r) ==
    /\ phase[r] = "deps" /\ at[r][cur[r]] > Len(Deps[cur[r]])
    /\ IF RequirementFailed(r)
       THEN JobFails(r, {}) /\ UNCHANGED begun
       ELSE /\ phase' = [phase EXCEPT ![r] = IF HasTasks(cur[r]) THEN "work" ELSE "finish"]
            /\ begun' = IF HasTasks(cur[r]) THEN Put(begun, r, cur[r], begun[r][cur[r]] + 1) ELSE begun
            /\ UNCHANGED <<runVars, result, lockVars, row, budget, unset>>
    /\ UNCHANGED dataVars

-----------------------------------------------------------------------------
(* The tasks: what they write *)

\* A run is at the tasks of the job at hand; "finish": the last has written.
Working(r) ==
    \/ phase[r] \in {"work", "created", "loaded"}
    \/ phase[r] = "finish" /\ HasTasks(cur[r])

Fill(S, f, v) == [m \in Modules |-> IF m \in S THEN v ELSE f[m]]
Step(r, from, to) ==
    /\ phase[r] = from
    /\ phase' = [phase EXCEPT ![r] = to]
    /\ UNCHANGED <<runVars, result, lockVars, row, budget, begun, unset>>

\* A task of the job at hand commits a load into module m.  Most loads upsert, so
\* rows of earlier loads stay in the module's tables; each task has transactions
\* of its own: what one commits stays, whatever becomes of the job.
Commit(r, m) ==
    /\ Step(r, "work", "work")
    /\ cur[r] \notin Swapped /\ m \in Own[cur[r]]
    /\ table' = [table EXCEPT ![m] = @ \cup {r}]
    /\ UNCHANGED staging

\* The last task has returned, so each module was loaded (a load that finds
\* nothing new counts).
TasksDone(r) ==
    /\ Step(r, "work", "finish")
    /\ cur[r] \notin Swapped /\ \A m \in Own[cur[r]] : r \in table[m]
    /\ UNCHANGED dataVars

\* DROP <t>__new and <t>__old, CREATE <t>__new: left-overs are cleared.
SwapCreate(r) ==
    /\ Step(r, "work", "created")
    /\ cur[r] \in Swapped
    /\ staging' = Fill(Own[cur[r]], staging, {})
    /\ UNCHANGED table

\* Into <t>__new, with what another run has put there, if it is there.
SwapLoad(r) ==
    /\ Step(r, "created", "loaded")
    /\ \A m \in Own[cur[r]] : staging[m] # Nobody
    /\ staging' = [m \in Modules |-> IF m \in Own[cur[r]] THEN staging[m] \cup {r} ELSE staging[m]]
    /\ UNCHANGED table

Staged(r) == [m \in Modules |-> IF m \in Own[cur[r]] THEN staging[m] ELSE table[m]]
\* Slip: the tables are renamed one after the other.
RenameEach(r) ==
    /\ phase[r] = "loaded" /\ \A m \in Own[cur[r]] : staging[m] # Nobody
    /\ \/ /\ Step(r, "loaded", "loaded")
          /\ table' = [m \in Modules |-> table[m] \cup Staged(r)[m]]
          /\ UNCHANGED staging
       \/ /\ Step(r, "loaded", "finish")
          /\ table' = Staged(r)
          /\ staging' = Fill(Own[cur[r]], staging, Nobody)
\* One RENAME TABLE for all of them; <t>__old is dropped next (when that fails,
\* TaskRaises with the new rows live).
SwapRename(r) ==
    /\ Step(r, "loaded", "finish")
    /\ \A m \in Own[cur[r]] : staging[m] # Nobody
    /\ table'   = Staged(r)
    /\ staging' = Fill(Own[cur[r]], staging, Nobody)

\* A task raises: the source, a <t>__new that another run took, a check after
\* the load, the DROP of <t>__old, the task's own row.  Only the transaction at
\* hand is rolled back: what was committed or renamed before stays.  A failed
\* swap drops <t>__new.
TaskRaises(r) ==
    /\ Working(r)
    /\ IF phase[r] \in {"created", "loaded"}
          /\ \E m \in Own[cur[r]] : staging[m] = Nobody \/ (staging[m] # {} /\ r \notin staging[m])
       THEN JobFails(r, {}) ELSE JobFails(r, {"task"})
    /\ \/ cur[r] \in Swapped /\ staging' = Fill(Own[cur[r]], staging, Nobody)
       \/ phase[r] \in {"work", "finish"} /\ staging' = staging
    /\ UNCHANGED <<table, begun>>

\* The process is killed. MySQL frees its locks when it sees the connection
\* closed, or after LOCK_SESSION_MAX_SECONDS.
Crash(r) ==
    /\ phase[r] \notin {"none", "over", "dead"} /\ Spend({"crash"})
    /\ phase' = [phase EXCEPT ![r] = "dead"]
    /\ UNCHANGED <<runVars, result, lockVars, row, dataVars, begun, unset>>
Reaped(r) ==
    /\ phase[r] = "dead" /\ held[r] # {}
    /\ Release(r)
    /\ UNCHANGED <<runVars, phase, result, row, dataVars, budget, begun, unset>>

-----------------------------------------------------------------------------
None == [r \in Runs |-> {}]
ByJob(v) == [r \in Runs |-> [j \in Jobs |-> v]]

Init ==
    /\ top = [r \in Runs |-> NoJob] /\ cur = top
    /\ caller = ByJob(NoJob) /\ at = ByJob(0) /\ done = ByJob("none")
    /\ depFail = None /\ optFail = None
    /\ phase = [r \in Runs |-> "none"] /\ result = phase
    /\ want = None /\ held = None /\ owner = [m \in Modules |-> Nobody]
    /\ row = ByJob("none")
    /\ table = [m \in Modules |-> {Nobody}] /\ staging = [m \in Modules |-> Nobody]
    /\ budget = Budget /\ begun = ByJob(0) /\ unset = {}

RunStep(r) ==
    \/ \E j \in Starts : StartRun(r, j)
    \/ TakeLock(r) \/ AllLocked(r) \/ LockBusy(r) \/ SkipRaises(r)
    \/ Start(r) \/ DepsOver(r) \/ Finish(r) \/ LogFails(r)
    \/ \E d \in Jobs : \/ DepDone(r, d) \/ DepDisabled(r, d) \/ DepBlocked(r, d)
                       \/ DepReused(r, d) \/ DepRaises(r, d) \/ DepRuns(r, d)
    \/ \E m \in Modules : Commit(r, m)
    \/ TasksDone(r) \/ SwapCreate(r) \/ SwapLoad(r) \/ SwapRename(r) \/ TaskRaises(r)

\* Nothing is left to do.
AllOver ==
    /\ \A r \in Runs : phase[r] \in {"over", "dead"} /\ held[r] = {}
    /\ UNCHANGED vars

Next ==
    \/ \E r \in Runs : RunStep(r) \/ Crash(r) \/ Reaped(r)
    \/ \E r \in Runs, m \in Modules : SessionLost(r, m)
    \/ AllOver

Spec == Init /\ [][Next]_vars

-----------------------------------------------------------------------------
(* Properties *)

\* Type invariant of a Runner, its locks, etl_run_log and the tables.
TypeOK ==
    /\ top \in [Runs -> Jobs \cup {NoJob}] /\ cur \in [Runs -> Jobs \cup {NoJob}]
    /\ caller \in [Runs -> [Jobs -> Jobs \cup {NoJob}]]
    /\ at \in [Runs -> [Jobs -> Nat]]
    /\ done \in [Runs -> [Jobs -> Good \cup NotRun \cup {"none", "disabled"}]]
    /\ depFail \in [Runs -> SUBSET Jobs] /\ optFail \in [Runs -> SUBSET Jobs]
    /\ phase \in [Runs -> {"none", "lock", "start", "deps", "work", "created", "loaded",
                           "finish", "over", "dead"}]
    /\ result \in [Runs -> Results]
    /\ want \in [Runs -> SUBSET Modules] /\ held \in [Runs -> SUBSET Modules]
    /\ owner \in [Modules -> Runs \cup {Nobody}]
    /\ row \in [Runs -> [Jobs -> {"none", "running", "success", "partial", "failed", "skipped"}]]
    /\ table \in [Modules -> SUBSET (Runs \cup {Nobody})]
    /\ \A m \in Modules : staging[m] = Nobody \/ staging[m] \subseteq Runs
    /\ budget \in [Faults -> Nat] /\ begun \in [Runs -> [Jobs -> Nat]]
    /\ unset \subseteq Runs \X Jobs

Never(f) == budget[f] = Budget[f]

\* Two processes never write the same module at a time, unless MySQL dropped
\* the session of a lock that one of them still counts on (db.py:15-17, 62):
\* what a run locks up front, or per module, covers the jobs it comes to.
ModuleExclusive ==
    \A r, s \in Runs : \A m \in Modules :
        (r # s /\ Working(r) /\ Working(s) /\ m \in Own[cur[r]] \cap Own[cur[s]])
            => \E x \in {r, s} : m \in held[x] /\ owner[m] # x

\* A module that no job writes but by a swap: the sales marts, unless
\* sales_build writes them in place (ETL_SALES_MODE=incremental).
SwapOnly(m) == \A j \in Jobs \ Disabled : m \in Own[j] => j \in Swapped

\* A reader finds in a live table that is only swapped the rows of exactly one
\* load (load.py:459-505, departments/sales/jobs.py:12-13): a crash, a failure or
\* a second run never leaves a part, nor two loads in one table, as long as no
\* lock session is lost.  It says nothing of the tables that core_dims and
\* finance write: they hold the rows of many loads (core/jobs.py:7), and a part
\* of the last job when it failed.
SwapsAreWhole ==
    Never("session") => \A m \in Modules : SwapOnly(m) => Cardinality(table[m]) = 1

\* The tasks of a job begin only after each job it requires has succeeded, was
\* reused or is switched off; only an isolated run goes on after a failure,
\* and then not before it was tried (runner.py:13-22).
DependenciesFirst ==
    \A r \in Runs : Working(r) =>
        \A d \in Dep(cur[r]) \ Optional[cur[r]] :
            \/ done[r][d] \in Good \cup {"disabled"}
            \/ IsIsolated(r) /\ done[r][d] \in NotRun

\* "Nothing is retried inside the run" (runner.py:17-18): however jobs share
\* dependencies, the tasks of each begin once; except for a job that raised
\* when its row could not be written, of which _done knows nothing.
NothingRetried ==
    \A r \in Runs, j \in Jobs : begun[r][j] <= 1 \/ <<r, j>> \in unset

\* The exit code against what the run did: 'success' only when every job of it
\* succeeded, was reused, is switched off or -- isolated -- was skipped for a
\* busy lock, 'partial' only when every required one did, and its row says the
\* same; an isolated run is 'failed' only when no module succeeded
\* (registry.py:106-107), unless its row could not be written.
StatusIsHonest ==
    \A r \in Runs :
        /\ result[r] = "success" =>
            \A d \in Dep(top[r]) : \/ done[r][d] \in Good \cup {"disabled"}
                                   \/ IsIsolated(r) /\ done[r][d] = "skipped"
        /\ (result[r] = "partial" /\ ~IsIsolated(r)) =>
            \A d \in Dep(top[r]) \ Optional[top[r]] : done[r][d] \in Good \cup {"disabled"}
        /\ result[r] \in {"success", "partial"} => row[r][top[r]] = result[r]
        /\ (result[r] = "failed" /\ IsIsolated(r) /\ Never("log")) =>
            \A d \in Dep(top[r]) : done[r][d] \notin Good

\* "Every run takes them in the same order, so two runs never deadlock"
\* (runner.py:366-367): no two runs wait for a lock the other one holds.
NoMutualWait ==
    ~\E r, s \in Runs :
        /\ phase[r] = "lock" /\ phase[s] = "lock"
        /\ \E m \in NextLock(r), n \in NextLock(s) : owner[m] = s /\ owner[n] = r /\ r # s
=============================================================================
