--------------------------- MODULE EtlJobTracker ---------------------------
(***************************************************************************)
(* The ETL API (data/etl/api): JobTracker starts one subprocess per run,   *)
(* one run at a time per lane, and answers the polls of runPipeline (Node).*)
(* Its threads -- a request handler each, a job thread per run, the pumps  *)
(* that read a subprocess's output -- share the Job objects; the tracker's *)
(* lock covers start and force_reset (and a lookup), not the Job objects.  *)
(* One step is one read or write of a shared attribute, or several that no *)
(* other thread can tell apart.                                            *)
(***************************************************************************)
EXTENDS Integers, FiniteSets

CONSTANTS
    Lanes,       \* keys of _active_job_ids; force_reset visits them in order
    FirstLane,
    MaxJobs,     \* bound: runs that may be started
    MaxLines,    \* bound: lines a subprocess writes
    MaxResets,   \* bound: force resets
    Polled,      \* the runs a runPipeline polls
    MaxFailures  \* MAX_CONSECUTIVE_POLL_FAILURES

Jobs     == 1..MaxJobs
Terminal == {"completed", "failed", "cancelled"}
Statuses == {"pending", "running"} \cup Terminal
\* Where _run_job is; in Terminal: it is about to store that status.
ThreadPcs == {"none", "new", "running", "opened", "published", "waiting", "exited", "done"} \cup Terminal
NoJob    == 0
NoLane   == "none"
\* exit_code: None, 0, and 1 for every other code.
NoCode   == -1
Codes    == {0, 1}

ASSUME TrackerAssumption ==
    /\ MaxJobs \in Nat /\ MaxLines \in Nat /\ MaxResets \in Nat /\ MaxFailures \in Nat \ {0}
    /\ FirstLane \in Lanes /\ NoLane \notin Lanes
    /\ Cardinality(Lanes) \in {1, 2}
    /\ Polled \subseteq Jobs

VARIABLES
    active,      \* _active_job_ids
    \* the Job objects; process and cancelRequested: the runs that have it set
    lane, status, exitCode, cancelRequested, process, logs,
    thread,      \* _run_job of a run; in Terminal: the status it is about to store
    \* the subprocess; pipe: the lines written and not read yet
    proc, code, signalled, pipe, written,
    canceller,   \* runs with a POST /cancel between its flag and its terminate()
    \* the force_reset that holds the tracker's lock; resets left, runs it ended
    resetPc, resetLane, resetJob, resets, ended,
    \* per polled run: the GET in progress, and what the poller holds
    poll, after, got, lines, seen, seenCode, failures

jobVars   == <<lane, status, exitCode, cancelRequested, process, logs>>
procVars  == <<proc, code, signalled, pipe, written>>
resetVars == <<resetPc, resetLane, resetJob, resets, ended>>
pollVars  == <<poll, after, got, lines, seen, seenCode, failures>>
vars == <<active, jobVars, thread, procVars, canceller, resetVars, pollVars>>

Live(j)   == proc[j] = "alive"
NewJob(j) == lane[j] = NoLane
\* _active_job_locked: the run in the slot, unless it is over.
ActiveJob(l) == IF active[l] # NoJob /\ status[active[l]] \notin Terminal THEN active[l] ELSE NoJob
Unlocked == resetPc = "idle"
Terminate(j) == signalled' = IF Live(j) THEN signalled \cup {j} ELSE signalled

-----------------------------------------------------------------------------
(* start *)

\* Slip: the status that the Node side gives a new run.
StartAsQueued(j, l) ==
    /\ Unlocked /\ ActiveJob(l) = NoJob
    /\ NewJob(j) /\ \A k \in Jobs : k < j => ~NewJob(k)
    /\ active' = [active EXCEPT ![l] = j]
    /\ lane'   = [lane EXCEPT ![j] = l]
    /\ status' = [status EXCEPT ![j] = "queued"]
    /\ thread' = [thread EXCEPT ![j] = "new"]
    /\ UNCHANGED <<exitCode, cancelRequested, process, logs, procVars, canceller, resetVars, pollVars>>

\* Slip: the lane is not looked at.
StartAnyway(j, l) ==
    /\ Unlocked
    /\ NewJob(j) /\ \A k \in Jobs : k < j => ~NewJob(k)
    /\ active' = [active EXCEPT ![l] = j]
    /\ lane'   = [lane EXCEPT ![j] = l]
    /\ status' = [status EXCEPT ![j] = "pending"]
    /\ thread' = [thread EXCEPT ![j] = "new"]
    /\ UNCHANGED <<exitCode, cancelRequested, process, logs, procVars, canceller, resetVars, pollVars>>

\* A lane that is taken answers 409 and changes nothing.
Start(j, l) ==
    /\ Unlocked /\ ActiveJob(l) = NoJob
    /\ NewJob(j) /\ \A k \in Jobs : k < j => ~NewJob(k)    \* bound MaxJobs
    /\ active' = [active EXCEPT ![l] = j]
    /\ lane'   = [lane EXCEPT ![j] = l]
    /\ status' = [status EXCEPT ![j] = "pending"]
    /\ thread' = [thread EXCEPT ![j] = "new"]
    /\ UNCHANGED <<exitCode, cancelRequested, process, logs, procVars, canceller, resetVars, pollVars>>

-----------------------------------------------------------------------------
(* _run_job *)

ThreadStarts(j) ==
    /\ thread[j] = "new"
    /\ status' = [status EXCEPT ![j] = "running"]
    /\ thread' = [thread EXCEPT ![j] = "running"]
    /\ UNCHANGED <<active, lane, exitCode, cancelRequested, process, logs, procVars, canceller,
                   resetVars, pollVars>>

Popen(j) ==
    /\ thread[j] = "running"
    /\ proc'   = [proc EXCEPT ![j] = "alive"]
    /\ thread' = [thread EXCEPT ![j] = "opened"]
    /\ UNCHANGED <<active, jobVars, code, signalled, pipe, written, canceller, resetVars, pollVars>>

\* The except branch: one line of its own, exit code -1, never 'cancelled'.
PopenFails(j) ==
    /\ thread[j] = "running"
    /\ logs'     = [logs EXCEPT ![j] = @ + 1]
    /\ exitCode' = [exitCode EXCEPT ![j] = 1]
    /\ thread'   = [thread EXCEPT ![j] = "failed"]
    /\ UNCHANGED <<active, lane, status, cancelRequested, process, procVars, canceller,
                   resetVars, pollVars>>

PublishProcess(j) ==
    /\ thread[j] = "opened"
    /\ process' = process \cup {j}
    /\ thread'  = [thread EXCEPT ![j] = "published"]
    /\ UNCHANGED <<active, lane, status, exitCode, cancelRequested, logs, procVars, canceller,
                   resetVars, pollVars>>

\* Slip: no look back at a cancel that came before Popen.
NoEarlyCancel(j) ==
    /\ thread[j] = "published"
    /\ thread' = [thread EXCEPT ![j] = "waiting"]
    /\ UNCHANGED <<active, jobVars, procVars, canceller, resetVars, pollVars>>

CheckEarlyCancel(j) ==
    /\ thread[j] = "published"
    /\ IF j \in cancelRequested THEN Terminate(j) ELSE signalled' = signalled
    /\ thread' = [thread EXCEPT ![j] = "waiting"]
    /\ UNCHANGED <<active, jobVars, proc, code, pipe, written, canceller, resetVars, pollVars>>

\* _pump; both streams are one.
Pump(j) ==
    /\ thread[j] = "waiting" /\ pipe[j] > 0
    /\ pipe' = [pipe EXCEPT ![j] = @ - 1]
    /\ logs' = [logs EXCEPT ![j] = @ + 1]
    /\ UNCHANGED <<active, lane, status, exitCode, cancelRequested, process, thread, proc, code,
                   signalled, written, canceller, resetVars, pollVars>>

\* Slip: the pumps are not joined.
WaitOnly(j) ==
    /\ thread[j] = "waiting" /\ proc[j] = "exited"
    /\ exitCode' = [exitCode EXCEPT ![j] = code[j]]
    /\ thread'   = [thread EXCEPT ![j] = "exited"]
    /\ UNCHANGED <<active, lane, status, cancelRequested, process, logs, procVars, canceller,
                   resetVars, pollVars>>

\* wait(), both join()s, and exit_code.
WaitAndJoin(j) ==
    /\ thread[j] = "waiting" /\ proc[j] = "exited" /\ pipe[j] = 0
    /\ exitCode' = [exitCode EXCEPT ![j] = code[j]]
    /\ thread'   = [thread EXCEPT ![j] = "exited"]
    /\ UNCHANGED <<active, lane, status, cancelRequested, process, logs, procVars, canceller,
                   resetVars, pollVars>>

\* The right-hand side of job.status = ..., cancel_requested read once.
DecideStatus(j) ==
    /\ thread[j] = "exited"
    /\ thread' = [thread EXCEPT ![j] = IF j \in cancelRequested THEN "cancelled"
                                       ELSE IF exitCode[j] = 0 THEN "completed" ELSE "failed"]
    /\ UNCHANGED <<active, jobVars, procVars, canceller, resetVars, pollVars>>

StoreStatus(j) ==
    /\ thread[j] \in Terminal
    /\ status' = [status EXCEPT ![j] = thread[j]]
    /\ thread' = [thread EXCEPT ![j] = "done"]
    /\ UNCHANGED <<active, lane, exitCode, cancelRequested, process, logs, procVars, canceller,
                   resetVars, pollVars>>

-----------------------------------------------------------------------------
(* The subprocess (python -m etl_platform.run) *)

WriteLine(j) ==
    /\ Live(j) /\ written[j] < MaxLines                     \* bound MaxLines
    /\ written' = [written EXCEPT ![j] = @ + 1]
    /\ pipe'    = [pipe EXCEPT ![j] = @ + 1]
    /\ UNCHANGED <<active, jobVars, thread, proc, code, signalled, canceller, resetVars, pollVars>>

\* By itself or by SIGTERM, which may come too late to matter.
Exit(j) ==
    /\ Live(j)
    /\ proc' = [proc EXCEPT ![j] = "exited"]
    /\ \E c \in Codes : code' = [code EXCEPT ![j] = c]
    /\ UNCHANGED <<active, jobVars, thread, signalled, pipe, written, canceller, resetVars, pollVars>>

-----------------------------------------------------------------------------
(* cancel, which takes no lock *)

CancelFlag(j) ==
    /\ ~NewJob(j) /\ j \notin canceller /\ status[j] \notin Terminal
    /\ cancelRequested' = cancelRequested \cup {j}
    /\ canceller' = canceller \cup {j}
    /\ UNCHANGED <<active, lane, status, exitCode, process, logs, thread, procVars, resetVars, pollVars>>

\* Slip: the flag alone, which _run_job looks at once.
CancelOnlyFlags(j) ==
    /\ j \in canceller
    /\ canceller' = canceller \ {j}
    /\ UNCHANGED <<active, jobVars, thread, procVars, resetVars, pollVars>>

CancelTerminate(j) ==
    /\ j \in canceller
    /\ canceller' = canceller \ {j}
    /\ IF j \in process THEN Terminate(j) ELSE signalled' = signalled
    /\ UNCHANGED <<active, jobVars, thread, proc, code, pipe, written, resetVars, pollVars>>

-----------------------------------------------------------------------------
(* force_reset: lane by lane, the lock held throughout *)

NextLane(l) == IF l = FirstLane /\ Lanes # {l} THEN CHOOSE m \in Lanes : m # l ELSE NoLane
GoToLane(l) ==
    /\ resetPc'   = IF l = NoLane THEN "idle" ELSE "lane"
    /\ resetLane' = l
    /\ resetJob'  = NoJob

ForceReset ==
    /\ Unlocked /\ resets > 0                              \* bound MaxResets
    /\ resets' = resets - 1
    /\ GoToLane(FirstLane)
    /\ UNCHANGED <<active, jobVars, thread, procVars, canceller, ended, pollVars>>

\* Slip: no cancel_requested, so a run without a process yet is not stopped.
ResetWithoutFlag ==
    /\ resetPc = "lane"
    /\ LET j == ActiveJob(resetLane) IN
        \/ j = NoJob /\ GoToLane(NextLane(resetLane)) /\ UNCHANGED ended
        \/ /\ j # NoJob
           /\ resetPc' = "terminate" /\ resetJob' = j /\ ended' = ended \cup {j}
           /\ UNCHANGED resetLane
    /\ active' = [active EXCEPT ![resetLane] = NoJob]
    /\ UNCHANGED <<jobVars, thread, procVars, canceller, resets, pollVars>>

ResetLane ==
    /\ resetPc = "lane"
    /\ LET j == ActiveJob(resetLane) IN
        \/ j = NoJob /\ GoToLane(NextLane(resetLane)) /\ UNCHANGED <<cancelRequested, ended>>
        \/ /\ j # NoJob
           /\ resetPc' = "terminate" /\ resetJob' = j /\ ended' = ended \cup {j}
           /\ cancelRequested' = cancelRequested \cup {j}
           /\ UNCHANGED resetLane
    /\ active' = [active EXCEPT ![resetLane] = NoJob]
    /\ UNCHANGED <<lane, status, exitCode, process, logs, thread, procVars, canceller, resets, pollVars>>

ResetTerminate ==
    /\ resetPc = "terminate"
    /\ IF resetJob \in process THEN Terminate(resetJob) ELSE signalled' = signalled
    /\ resetPc' = "status"
    /\ UNCHANGED <<active, jobVars, thread, proc, code, pipe, written, canceller, resetLane, resetJob,
                   resets, ended, pollVars>>

\* if job.status not in TERMINAL_STATUSES: the test ...
ResetTest ==
    /\ resetPc = "status"
    /\ \/ status[resetJob] \in Terminal /\ GoToLane(NextLane(resetLane))
       \/ status[resetJob] \notin Terminal /\ resetPc' = "store" /\ UNCHANGED <<resetLane, resetJob>>
    /\ UNCHANGED <<active, jobVars, thread, procVars, canceller, resets, ended, pollVars>>

\* Slip: 'failed', as the Node side's force reset finishes its rows.
ResetStoresFailed ==
    /\ resetPc = "store"
    /\ status' = [status EXCEPT ![resetJob] = "failed"]
    /\ GoToLane(NextLane(resetLane))
    /\ UNCHANGED <<active, lane, exitCode, cancelRequested, process, logs, thread, procVars, canceller,
                   resets, ended, pollVars>>

\* ... and the assignment, which the job thread may have overtaken.
ResetStore ==
    /\ resetPc = "store"
    /\ status' = [status EXCEPT ![resetJob] = "cancelled"]
    /\ GoToLane(NextLane(resetLane))
    /\ UNCHANGED <<active, lane, exitCode, cancelRequested, process, logs, thread, procVars, canceller,
                   resets, ended, pollVars>>

-----------------------------------------------------------------------------
(* GET /etl/jobs/<id>?after=..., attribute by attribute (to_status_dict),  *)
(* and the loop of runPipeline that asks.                                  *)

PollLines(j) ==
    /\ poll[j] = "ask" /\ ~NewJob(j)
    /\ poll'  = [poll EXCEPT ![j] = "status"]
    /\ lines' = [lines EXCEPT ![j] = logs[j] - after[j]]
    /\ UNCHANGED <<active, jobVars, thread, procVars, canceller, resetVars, after, got, seen, seenCode, failures>>

PollStatus(j) ==
    /\ poll[j] = "status"
    /\ poll' = [poll EXCEPT ![j] = "exit"]
    /\ seen' = [seen EXCEPT ![j] = status[j]]
    /\ UNCHANGED <<active, jobVars, thread, procVars, canceller, resetVars, after, got, lines, seenCode, failures>>

PollExit(j) ==
    /\ poll[j] = "exit"
    /\ poll' = [poll EXCEPT ![j] = "count"]
    /\ seenCode' = [seenCode EXCEPT ![j] = exitCode[j]]
    /\ UNCHANGED <<active, jobVars, thread, procVars, canceller, resetVars, after, got, lines, seen, failures>>

\* logLineCount is read last, and the answer is taken: its lines go to
\* onLine, the next GET asks for those after logLineCount.
PollAnswer(j) ==
    /\ poll[j] = "count"
    /\ poll'  = [poll EXCEPT ![j] = IF seen[j] \in Terminal THEN "stopped" ELSE "ask"]
    /\ got'   = [got EXCEPT ![j] = @ + lines[j]]
    /\ lines' = [lines EXCEPT ![j] = 0]
    /\ after' = [after EXCEPT ![j] = logs[j]]
    /\ failures' = [failures EXCEPT ![j] = 0]
    /\ UNCHANGED <<active, jobVars, thread, procVars, canceller, resetVars, seen, seenCode>>

\* No answer (one that was lost on its way changed nothing either).
PollFails(j) ==
    /\ poll[j] = "ask" /\ ~NewJob(j)
    /\ failures' = [failures EXCEPT ![j] = @ + 1]
    /\ poll' = [poll EXCEPT ![j] = IF failures[j] + 1 >= MaxFailures THEN "lost" ELSE @]
    /\ UNCHANGED <<active, jobVars, thread, procVars, canceller, resetVars, after, got, lines, seen, seenCode>>

-----------------------------------------------------------------------------
Init ==
    /\ active = [l \in Lanes |-> NoJob]
    /\ lane = [j \in Jobs |-> NoLane]
    /\ status = [j \in Jobs |-> "pending"]
    /\ exitCode = [j \in Jobs |-> NoCode]
    /\ cancelRequested = {} /\ process = {}
    /\ logs = [j \in Jobs |-> 0]
    /\ thread = [j \in Jobs |-> "none"]
    /\ proc = [j \in Jobs |-> "none"]
    /\ code = [j \in Jobs |-> NoCode]
    /\ signalled = {}
    /\ pipe = [j \in Jobs |-> 0] /\ written = [j \in Jobs |-> 0]
    /\ canceller = {}
    /\ resetPc = "idle" /\ resetLane = NoLane /\ resetJob = NoJob
    /\ resets = MaxResets /\ ended = {}
    /\ poll = [j \in Polled |-> "ask"]
    /\ after = [j \in Polled |-> 0] /\ got = [j \in Polled |-> 0] /\ lines = [j \in Polled |-> 0]
    /\ seen = [j \in Polled |-> "pending"] /\ seenCode = [j \in Polled |-> NoCode]
    /\ failures = [j \in Polled |-> 0]

ThreadStep(j) ==
    \/ ThreadStarts(j) \/ Popen(j) \/ PopenFails(j) \/ PublishProcess(j)
    \/ CheckEarlyCancel(j) \/ WaitAndJoin(j) \/ DecideStatus(j) \/ StoreStatus(j)
JobStep(j) ==
    \/ \E l \in Lanes : Start(j, l)
    \/ ThreadStep(j) \/ Pump(j) \/ WriteLine(j) \/ Exit(j)
    \/ CancelFlag(j) \/ CancelTerminate(j)
ResetStep == ResetLane \/ ResetTerminate \/ ResetTest \/ ResetStore
PollStep(j) == PollLines(j) \/ PollStatus(j) \/ PollExit(j) \/ PollAnswer(j)

Next ==
    \/ \E j \in Jobs : JobStep(j)
    \/ ForceReset \/ ResetStep
    \/ \E j \in Polled : PollStep(j) \/ PollFails(j)

Spec == Init /\ [][Next]_vars

\* Threads run, and a request handler finishes.  A subprocess ends when it
\* was told to; nothing makes a wedged one end by itself.
Fairness ==
    /\ \A j \in Jobs :
        /\ WF_vars(ThreadStep(j)) /\ WF_vars(Pump(j)) /\ WF_vars(CancelTerminate(j))
        /\ WF_vars(j \in signalled /\ Exit(j))
    /\ WF_vars(ResetStep)
    /\ \A j \in Polled : WF_vars(PollStep(j))

FairSpec == Spec /\ Fairness

-----------------------------------------------------------------------------
(* Properties *)

\* Every variable has its type.
TypeOK ==
    /\ active \in [Lanes -> Jobs \cup {NoJob}]
    /\ lane \in [Jobs -> Lanes \cup {NoLane}]
    /\ status \in [Jobs -> Statuses]
    /\ exitCode \in [Jobs -> Codes \cup {NoCode}]
    /\ cancelRequested \subseteq Jobs /\ process \subseteq Jobs
    /\ logs \in [Jobs -> Nat]
    /\ thread \in [Jobs -> ThreadPcs]
    /\ proc \in [Jobs -> {"none", "alive", "exited"}]
    /\ code \in [Jobs -> Codes \cup {NoCode}]
    /\ signalled \subseteq Jobs /\ canceller \subseteq Jobs
    /\ pipe \in [Jobs -> Nat] /\ written \in [Jobs -> Nat]
    /\ resetPc \in {"idle", "lane", "terminate", "status", "store"}
    /\ resetLane \in Lanes \cup {NoLane}
    /\ resetJob \in Jobs \cup {NoJob}
    /\ resets \in Nat /\ ended \subseteq Jobs
    /\ poll \in [Polled -> {"ask", "status", "exit", "count", "stopped", "lost"}]
    /\ after \in [Polled -> Nat] /\ got \in [Polled -> Nat] /\ lines \in [Polled -> Nat]
    /\ seen \in [Polled -> Statuses]
    /\ seenCode \in [Polled -> Codes \cup {NoCode}]
    /\ failures \in [Polled -> Nat]

\* A cancel that somebody promised is on its way to the subprocess: it was
\* signalled, or a step that will signal it is still to come.
WillBeSignalled(j) ==
    \/ j \in signalled
    \/ thread[j] \in {"opened", "published"}
    \/ j \in canceller
    \/ resetPc = "terminate" /\ resetJob = j

\* Two subprocesses of one lane never run side by side, unless a force reset
\* ended the first: then that one is being terminated -- also when it had no
\* process yet that the reset could have terminated.
OneLivePerLane ==
    \A j, k \in Jobs :
        j < k /\ Live(j) /\ Live(k) /\ lane[j] = lane[k]
            => j \in ended /\ WillBeSignalled(j)

\* A cancel is never lost between the request and Popen (the race the check
\* after Popen is there for): a live subprocess that somebody asked to stop
\* was signalled or is about to be.
CancelReaches == \A j \in cancelRequested : Live(j) => WillBeSignalled(j)

\* A run that is over, and that no force reset ended, has no live subprocess
\* and no unread output: the poller that sees the status can have every line.
FinishedIsDrained ==
    \A j \in Jobs \ ended :
        status[j] \in Terminal => ~Live(j) /\ pipe[j] = 0 /\ exitCode[j] # NoCode

\* What runPipeline stops with fits together, though status and exitCode are
\* read at different moments of a run that is ending: completed goes with 0,
\* failed with another code -- never with exitCode null, which it would
\* report as -1, a failure.
StoppedRight ==
    \A j \in Polled :
        poll[j] = "stopped" =>
            /\ seen[j] = "completed" => seenCode[j] = 0
            /\ seen[j] = "failed"    => seenCode[j] = 1

\* A cancelled run ends and its poller is told so, even if the subprocess
\* would never end by itself, the cancel came before the process, or the
\* admin force-reset the lane meanwhile.
CancelEnds ==
    \A j \in Jobs :
        j \in cancelRequested ~>
            thread[j] = "done" /\ (j \in Polled => poll[j] \in {"stopped", "lost"})

\* The lanes keep what the backend was promised: one run at a time, whose
\* slot is given away again only when it is over or was force-reset.
Slot(l) ==
    IF ActiveJob(l) = NoJob THEN "free"
    ELSE IF ActiveJob(l) \in cancelRequested THEN "stop" ELSE "run"
Contract == INSTANCE EtlLane WITH slot <- [l \in Lanes |-> Slot(l)]
KeepsContract == Contract!Spec

-----------------------------------------------------------------------------
(* What a comment of the code says, and the code does not do *)

\* runPipelineJob.ts:62: every line is persisted.  The lines of a run that
\* completed, polled to its end, all reached onLine.
EveryLineIsPersisted ==
    \A j \in Polled :
        poll[j] = "stopped" /\ seen[j] = "completed" => got[j] = logs[j]

=============================================================================
