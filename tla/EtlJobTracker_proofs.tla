------------------------ MODULE EtlJobTracker_proofs ------------------------
(***************************************************************************)
(* What is proved of EtlJobTracker for any number of runs, lines, force    *)
(* resets and polls: its types, that a run that is over is drained, that   *)
(* no cancel is lost, that a lane runs one subprocess, that the poller     *)
(* stops with a status and a code that fit, and that it refines EtlLane.   *)
(***************************************************************************)
EXTENDS EtlJobTracker, TLAPS

\* A poller never asks for lines beyond the last one.
AfterIsBehind == \A j \in Polled : after[j] <= logs[j]

\* A force_reset that is under way is at some lane, and a run it is busy with
\* is one it ended.
ResetIsAt ==
    /\ resetPc # "idle" => resetLane \in Lanes
    /\ resetPc \in {"terminate", "status", "store"} => resetJob \in ended

\* A slot holds a run of its own lane.
SlotIsOfLane == \A l \in Lanes : active[l] # NoJob => lane[active[l]] = l

TypeInv == TypeOK /\ AfterIsBehind /\ ResetIsAt /\ SlotIsOfLane

-----------------------------------------------------------------------------
(* Types *)

\* start, _run_job, the pumps, the subprocess and cancel.
LEMMA TypeJobStep ==
    ASSUME TypeInv, NEW j \in Jobs, JobStep(j)
    PROVE  TypeInv'
<1> USE TrackerAssumption DEF TypeInv, TypeOK, AfterIsBehind, ResetIsAt, SlotIsOfLane,
           jobVars, procVars, resetVars, pollVars
<1>1. ASSUME NEW l \in Lanes, Start(j, l) PROVE TypeInv'
  <2>1. TypeOK' /\ AfterIsBehind' /\ ResetIsAt'
    BY <1>1 DEF Start, Statuses, ThreadPcs
  <2>2. SlotIsOfLane'
    BY <1>1 DEF Start, NewJob
  <2> QED
    BY <2>1, <2>2
<1>2. CASE ThreadStarts(j)
  BY <1>2 DEF ThreadStarts, Statuses, ThreadPcs
<1>3. CASE Popen(j)
  BY <1>3 DEF Popen, ThreadPcs
<1>4. CASE PopenFails(j)
  BY <1>4 DEF PopenFails, Codes, Terminal, ThreadPcs
<1>5. CASE PublishProcess(j)
  BY <1>5 DEF PublishProcess, ThreadPcs
<1>6. CASE CheckEarlyCancel(j)
  BY <1>6 DEF CheckEarlyCancel, Terminate, ThreadPcs
<1>7. CASE WaitAndJoin(j)
  BY <1>7 DEF WaitAndJoin, ThreadPcs
<1>8. CASE DecideStatus(j)
  BY <1>8 DEF DecideStatus, ThreadPcs, Terminal
<1>9. CASE StoreStatus(j)
  BY <1>9 DEF StoreStatus, Statuses, ThreadPcs
<1>10. CASE Pump(j)
  BY <1>10 DEF Pump
<1>11. CASE WriteLine(j)
  BY <1>11 DEF WriteLine
<1>12. CASE Exit(j)
  BY <1>12 DEF Exit
<1>13. CASE CancelFlag(j)
  BY <1>13 DEF CancelFlag
<1>14. CASE CancelTerminate(j)
  BY <1>14 DEF CancelTerminate, Terminate
<1> QED
  BY <1>1, <1>2, <1>3, <1>4, <1>5, <1>6, <1>7, <1>8, <1>9, <1>10, <1>11, <1>12, <1>13, <1>14
  DEF JobStep, ThreadStep

\* force_reset.
LEMMA TypeResetStep ==
    ASSUME TypeInv, ForceReset \/ ResetStep
    PROVE  TypeInv'
<1> USE TrackerAssumption DEF TypeInv, TypeOK, AfterIsBehind, ResetIsAt, SlotIsOfLane,
           jobVars, procVars, resetVars, pollVars
<1>1. CASE ForceReset
  BY <1>1 DEF ForceReset, GoToLane
<1>2. CASE ResetLane
  BY <1>2, TrackerAssumption DEF NextLane, ResetLane, GoToLane, ActiveJob
<1>3. CASE ResetTerminate
  BY <1>3 DEF ResetTerminate, Terminate
<1>4. CASE ResetTest
  BY <1>4, TrackerAssumption DEF NextLane, ResetTest, GoToLane
<1>5. CASE ResetStore
  BY <1>5, TrackerAssumption DEF NextLane, ResetStore, GoToLane, Statuses, Terminal
<1> QED
  BY <1>1, <1>2, <1>3, <1>4, <1>5 DEF ResetStep

\* The polls.
LEMMA TypePollStep ==
    ASSUME TypeInv, NEW j \in Polled, PollStep(j) \/ PollFails(j)
    PROVE  TypeInv'
<1> USE TrackerAssumption DEF TypeInv, TypeOK, AfterIsBehind, ResetIsAt, SlotIsOfLane,
           jobVars, procVars, resetVars, pollVars
<1>1. CASE PollLines(j)
  BY <1>1 DEF PollLines
<1>2. CASE PollStatus(j)
  BY <1>2 DEF PollStatus
<1>3. CASE PollExit(j)
  BY <1>3 DEF PollExit
<1>4. CASE PollAnswer(j)
  BY <1>4 DEF PollAnswer
<1>5. CASE PollFails(j)
  BY <1>5 DEF PollFails
<1> QED
  BY <1>1, <1>2, <1>3, <1>4, <1>5 DEF PollStep

-----------------------------------------------------------------------------
(* The inductive invariant *)

\* What holds of one run.
NewIsIdle(j) ==
    NewJob(j) => thread[j] = "none" /\ status[j] = "pending" /\ j \notin ended
BeforePopen(j) == thread[j] \in {"none", "new", "running"} => proc[j] = "none" /\ pipe[j] = 0
LiveIsWatched(j) == Live(j) => thread[j] \in {"opened", "published", "waiting"}
IsPublished(j) == thread[j] \in {"published", "waiting"} => j \in process
ExitHasCode(j) == proc[j] = "exited" => code[j] \in Codes
ThreadDrains(j) ==
    thread[j] \in {"exited", "done"} \cup Terminal => ~Live(j) /\ pipe[j] = 0 /\ exitCode[j] # NoCode
\* Only force_reset ends a run behind its thread's back, with the flag set.
OverIsDone(j) == status[j] \in Terminal /\ j \notin ended => thread[j] = "done"
EndedIsFlagged(j) == j \in ended => j \in cancelRequested
\* A run that is not over has its lane's slot, until force_reset takes it.
HasSlot(j) ==
    ~NewJob(j) /\ status[j] \notin Terminal /\ j \notin ended => active[lane[j]] = j
CancelArrives(j) == j \in cancelRequested /\ Live(j) => WillBeSignalled(j)

RunInv(j) ==
    /\ NewIsIdle(j) /\ BeforePopen(j) /\ LiveIsWatched(j) /\ IsPublished(j)
    /\ ExitHasCode(j) /\ ThreadDrains(j) /\ OverIsDone(j) /\ EndedIsFlagged(j)
    /\ HasSlot(j) /\ CancelArrives(j)

\* Runs are numbered in the order they start, and one starts when those of
\* its lane before it are over, or ended by a force reset.
InOrder == \A j, k \in Jobs : j < k /\ NewJob(j) => NewJob(k)
OlderIsOver ==
    \A j, k \in Jobs :
        j < k /\ lane[j] = lane[k] /\ ~NewJob(j) => j \in ended \/ status[j] \in Terminal

TrackerInv == TypeInv /\ (\A j \in Jobs : RunInv(j)) /\ InOrder /\ OlderIsOver

-----------------------------------------------------------------------------
(* A step of one run keeps what holds of every run *)

\* start: the new run takes a slot that no run needs any more.
LEMMA StartKeepsRuns ==
    ASSUME TrackerInv, NEW j \in Jobs, NEW l \in Lanes, Start(j, l), NEW k \in Jobs
    PROVE  RunInv(k)'
<1> USE DEF TrackerInv, TypeInv, TypeOK, jobVars, procVars, resetVars, pollVars, Live, NewJob, Terminal,
      RunInv, NewIsIdle, BeforePopen, LiveIsWatched, IsPublished, ExitHasCode,
      ThreadDrains, OverIsDone, EndedIsFlagged, HasSlot, CancelArrives, WillBeSignalled
<1> USE TrackerAssumption DEF Start, ActiveJob, NoJob, Jobs, ThreadPcs, Statuses
<1>1. CASE k = j
  BY <1>1
<1>2. CASE k # j
  BY <1>2
<1> QED
  BY <1>1, <1>2

\* A step of _run_job, of a pump, of the subprocess or of cancel keeps what
\* holds of each run, its own or another.
LEMMA JobStepKeepsRuns ==
    ASSUME TrackerInv, NEW j \in Jobs, JobStep(j), NEW k \in Jobs
    PROVE  RunInv(k)'
<1> USE DEF TrackerInv, TypeInv, TypeOK, jobVars, procVars, resetVars, pollVars, Live, NewJob, Terminal,
      RunInv, NewIsIdle, BeforePopen, LiveIsWatched, IsPublished, ExitHasCode,
      ThreadDrains, OverIsDone, EndedIsFlagged, HasSlot, CancelArrives, WillBeSignalled
<1>1. CASE \E l \in Lanes : Start(j, l)
  BY <1>1, StartKeepsRuns
<1>2. CASE ThreadStarts(j)
  BY <1>2 DEF ThreadStarts
<1>3. CASE Popen(j)
  BY <1>3 DEF Popen
<1>4. CASE PopenFails(j)
  BY <1>4 DEF PopenFails, Codes, NoCode
<1>5. CASE PublishProcess(j)
  BY <1>5 DEF PublishProcess
<1>6. CASE CheckEarlyCancel(j)
  BY <1>6 DEF CheckEarlyCancel, Terminate
<1>7. CASE WaitAndJoin(j)
  BY <1>7 DEF WaitAndJoin, Codes, NoCode
<1>8. CASE DecideStatus(j)
  BY <1>8 DEF DecideStatus
<1>9. CASE StoreStatus(j)
  BY <1>9 DEF StoreStatus
<1>10. CASE Pump(j)
  BY <1>10 DEF Pump
<1>11. CASE WriteLine(j)
  BY <1>11 DEF WriteLine
<1>12. CASE Exit(j)
  BY <1>12 DEF Exit
<1>13. CASE CancelFlag(j)
  BY <1>13 DEF CancelFlag
<1>14. CASE CancelTerminate(j)
  BY <1>14 DEF CancelTerminate, Terminate
<1> QED
  BY <1>1, <1>2, <1>3, <1>4, <1>5, <1>6, <1>7, <1>8, <1>9, <1>10, <1>11, <1>12, <1>13, <1>14
  DEF JobStep, ThreadStep

\* force_reset takes the slot of a run only together with its flag, and then
\* signals it.
LEMMA ResetStepKeepsRuns ==
    ASSUME TrackerInv, ForceReset \/ ResetStep, NEW k \in Jobs
    PROVE  RunInv(k)'
<1> USE DEF TrackerInv, TypeInv, TypeOK, jobVars, procVars, resetVars, pollVars, Live, NewJob, Terminal,
      RunInv, NewIsIdle, BeforePopen, LiveIsWatched, IsPublished, ExitHasCode,
      ThreadDrains, OverIsDone, EndedIsFlagged, HasSlot, CancelArrives, WillBeSignalled
<1> USE DEF ResetIsAt
<1>1. CASE ForceReset
  BY <1>1 DEF ForceReset, GoToLane, Unlocked
<1>2. CASE ResetLane
  <2>1. CASE ActiveJob(resetLane) = NoJob
    \* The slot is empty, or holds a run that is over.
    <3>1. /\ active' = [active EXCEPT ![resetLane] = NoJob]
          /\ resetPc' # "terminate"
          /\ UNCHANGED <<cancelRequested, ended>>
          /\ UNCHANGED <<lane, status, exitCode, process, thread, procVars, canceller>>
      BY <1>2, <2>1 DEF ResetLane, GoToLane
    <3>2. resetPc = "lane" /\ resetLane \in Lanes
      BY <1>2 DEF ResetLane
    <3>3. HasSlot(k)'
      BY <2>1, <3>1, <3>2 DEF ActiveJob, NoJob, Jobs
    <3> QED
      BY <3>1, <3>2, <3>3
  <2>2. CASE ActiveJob(resetLane) # NoJob
    <3> DEFINE j == ActiveJob(resetLane)
    <3>1. /\ active' = [active EXCEPT ![resetLane] = NoJob]
          /\ resetPc' = "terminate" /\ resetJob' = j
          /\ ended' = ended \cup {j} /\ cancelRequested' = cancelRequested \cup {j}
          /\ UNCHANGED <<lane, status, exitCode, process, thread, procVars, canceller>>
      BY <1>2, <2>2 DEF ResetLane
    <3>2. resetPc = "lane" /\ resetLane \in Lanes
      BY <1>2 DEF ResetLane
    <3>3. j = active[resetLane] /\ j \in Jobs /\ status[j] \notin Terminal
      BY <2>2, <3>2 DEF ActiveJob, NoJob
    <3>4. ~NewJob(j)
      BY <2>2, <3>2, <3>3, TrackerAssumption DEF SlotIsOfLane
    <3>5. HasSlot(k)'
      BY <3>1, <3>2, <3>3 DEF NoJob, Jobs
    <3>6. CancelArrives(k)'
      BY <3>1, <3>2, <3>3
    <3> QED
      BY <3>1, <3>2, <3>3, <3>4, <3>5, <3>6
  <2> QED
    BY <2>1, <2>2
<1>3. CASE ResetTerminate
  BY <1>3 DEF ResetTerminate, Terminate
<1>4. CASE ResetTest
  BY <1>4 DEF ResetTest, GoToLane
<1>5. CASE ResetStore
  BY <1>5 DEF ResetStore, GoToLane
<1> QED
  BY <1>1, <1>2, <1>3, <1>4, <1>5 DEF ResetStep

-----------------------------------------------------------------------------
(* The order of the runs of a lane *)

\* Only start gives a run a lane, and only to the first one without.
LEMMA StartKeepsOrder ==
    ASSUME TrackerInv, NEW j \in Jobs, NEW l \in Lanes, Start(j, l)
    PROVE  InOrder' /\ OlderIsOver'
<1> USE TrackerAssumption DEF TrackerInv, TypeInv, TypeOK, NewJob, Start
<1>1. InOrder'
  BY DEF InOrder, Jobs
<1>2. ASSUME NEW i \in Jobs, NEW k \in Jobs, i < k, lane'[i] = lane'[k], lane'[i] # NoLane
      PROVE  i \in ended' \/ status'[i] \in Terminal
  <2>1. i # j
    \* After j there is no run yet.
    BY <1>2 DEF InOrder
  <2>2. CASE k = j
    \* i is of the lane l, whose slot has no run that is not over.
    <3>1. lane[i] = l /\ status'[i] = status[i]
      BY <1>2, <2>1, <2>2
    <3>2. i \notin ended /\ status[i] \notin Terminal => active[l] = i
      BY <3>1 DEF RunInv, HasSlot
    <3> QED
      BY <3>1, <3>2 DEF ActiveJob, NoJob, Jobs, resetVars
  <2>3. CASE k # j
    BY <1>2, <2>1, <2>3 DEF OlderIsOver, resetVars
  <2> QED
    BY <2>2, <2>3
<1>3. OlderIsOver'
  BY <1>2 DEF OlderIsOver
<1> QED
  BY <1>1, <1>3

\* A run that is over stays over, or was ended: a job thread starts a run
\* that is over only if a force reset ended it before the thread ran.
LEMMA NextKeepsOver ==
    ASSUME TrackerInv, Next, NEW k \in Jobs, k \in ended \/ status[k] \in Terminal
    PROVE  k \in ended' \/ status'[k] \in Terminal
<1> USE DEF TrackerInv, TypeInv, TypeOK, RunInv, OverIsDone, NewIsIdle, jobVars, resetVars, Terminal
<1>1. ASSUME NEW j \in Jobs, JobStep(j) PROVE k \in ended' \/ status'[k] \in Terminal
  <2>1. CASE \E l \in Lanes : Start(j, l)
    BY <2>1 DEF Start
  <2>2. CASE ThreadStarts(j) \/ StoreStatus(j)
    BY <2>2 DEF ThreadStarts, StoreStatus
  <2>3. CASE UNCHANGED <<status, ended>>
    BY <2>3
  <2> QED
    BY <1>1, <2>1, <2>2, <2>3
    DEF JobStep, ThreadStep, Popen, PopenFails, PublishProcess, CheckEarlyCancel, WaitAndJoin,
        DecideStatus, Pump, WriteLine, Exit, CancelFlag, CancelTerminate
<1>2. CASE ForceReset \/ ResetStep
  BY <1>2 DEF ForceReset, ResetStep, ResetLane, ResetTerminate, ResetTest, ResetStore, ResetIsAt
<1>3. ASSUME NEW j \in Polled, PollStep(j) \/ PollFails(j)
      PROVE  UNCHANGED <<status, ended>>
  BY <1>3 DEF PollStep, PollLines, PollStatus, PollExit, PollAnswer, PollFails
<1> QED
  BY <1>1, <1>2, <1>3 DEF Next

\* The runs of a lane follow each other: only start adds one, and what is
\* over does not come back unless a force reset ended it.
LEMMA NextKeepsOrder ==
    ASSUME TrackerInv, Next
    PROVE  InOrder' /\ OlderIsOver'
<1>1. CASE \E j \in Jobs, l \in Lanes : Start(j, l)
  BY <1>1, StartKeepsOrder
<1>2. CASE UNCHANGED lane
  BY <1>2, NextKeepsOver DEF TrackerInv, InOrder, OlderIsOver, NewJob
<1>3. (\E j \in Jobs, l \in Lanes : Start(j, l)) \/ UNCHANGED lane
  BY DEF Next, JobStep, ThreadStep, ResetStep, PollStep, jobVars, ThreadStarts, Popen, PopenFails,
         PublishProcess, CheckEarlyCancel, WaitAndJoin, DecideStatus, StoreStatus, Pump, WriteLine,
         Exit, CancelFlag, CancelTerminate, ForceReset, ResetLane, ResetTerminate, ResetTest,
         ResetStore, PollLines, PollStatus, PollExit, PollAnswer, PollFails
<1> QED
  BY <1>1, <1>2, <1>3

-----------------------------------------------------------------------------
(* The inductive invariant holds *)

\* The invariant holds when the ETL API has just started.
LEMMA TrackerInit == Init => TrackerInv
<1> SUFFICES ASSUME Init PROVE TrackerInv
  OBVIOUS
<1>1. InOrder /\ OlderIsOver
  BY DEF Init, InOrder, OlderIsOver, NewJob
<1>2. \A k \in Jobs : RunInv(k)
  BY DEF Init, RunInv, NewIsIdle, BeforePopen, LiveIsWatched, IsPublished, ExitHasCode, ThreadDrains,
         OverIsDone, EndedIsFlagged, HasSlot, CancelArrives, Live, NewJob, Terminal
<1>3. TypeInv
  BY TrackerAssumption
  DEF Init, TypeInv, TypeOK, AfterIsBehind, ResetIsAt, SlotIsOfLane, NoJob, NoCode, Statuses, ThreadPcs, Jobs
<1> QED
  BY <1>1, <1>2, <1>3 DEF TrackerInv

\* Every step of the tracker keeps the invariant.
LEMMA TrackerStep == TrackerInv /\ [Next]_vars => TrackerInv'
<1> SUFFICES ASSUME TrackerInv, [Next]_vars PROVE TrackerInv'
  OBVIOUS
<1>1. CASE Next
  <2>1. TypeInv'
    BY <1>1, TypeJobStep, TypeResetStep, TypePollStep DEF Next, TrackerInv
  <2>2. \A k \in Jobs : RunInv(k)'
    <3>1. ASSUME NEW j \in Polled, PollStep(j) \/ PollFails(j), NEW k \in Jobs PROVE RunInv(k)'
      BY <3>1
      DEF TrackerInv, PollStep, PollLines, PollStatus, PollExit, PollAnswer, PollFails,
          jobVars, procVars, resetVars, RunInv, NewIsIdle, BeforePopen, LiveIsWatched, IsPublished,
          ExitHasCode, ThreadDrains, OverIsDone, EndedIsFlagged, HasSlot, CancelArrives,
          WillBeSignalled, Live, NewJob
    <3> QED
      BY <1>1, <3>1, JobStepKeepsRuns, ResetStepKeepsRuns DEF Next
  <2> QED
    BY <1>1, <2>1, <2>2, NextKeepsOrder DEF TrackerInv
<1>2. CASE UNCHANGED vars
  BY <1>2
  DEF TrackerInv, TypeInv, TypeOK, AfterIsBehind, ResetIsAt, SlotIsOfLane, vars, jobVars, procVars,
      resetVars, pollVars, RunInv, NewIsIdle, BeforePopen, LiveIsWatched, IsPublished, ExitHasCode,
      ThreadDrains, OverIsDone, EndedIsFlagged, HasSlot, CancelArrives, WillBeSignalled, Live,
      NewJob, InOrder, OlderIsOver
<1> QED
  BY <1>1, <1>2

\* The invariant holds throughout, for any number of runs, lines, force
\* resets and polls.
THEOREM TrackerInvariant == Spec => []TrackerInv
BY TrackerInit, TrackerStep, PTL DEF Spec

\* JobTracker's attributes, the job threads, the subprocesses, force_reset
\* and the polls keep their types, however many runs there are.
THEOREM TrackerTypes == Spec => []TypeOK
<1>1. TrackerInv => TypeOK
  BY DEF TrackerInv, TypeInv
<1> QED
  BY <1>1, TrackerInvariant, PTL

\* cancel and force_reset take effect whenever they come: a live subprocess
\* of a run that is to stop was signalled, or a step that signals it is due.
THEOREM NoCancelIsLost == Spec => []CancelReaches
<1>1. TrackerInv => CancelReaches
  BY DEF TrackerInv, TypeInv, TypeOK, RunInv, CancelArrives, CancelReaches
<1> QED
  BY <1>1, TrackerInvariant, PTL

\* start's lane check keeps the subprocesses of a lane apart, but for one a
\* force reset ended, and that one is being terminated.
THEOREM OneProcessPerLane == Spec => []OneLivePerLane
<1>1. TrackerInv => OneLivePerLane
  <2> SUFFICES ASSUME TrackerInv, NEW j \in Jobs, NEW k \in Jobs,
                      j < k, Live(j), Live(k), lane[j] = lane[k]
               PROVE  j \in ended /\ WillBeSignalled(j)
    BY DEF OneLivePerLane
  <2>1. ~NewJob(j)
    BY DEF TrackerInv, RunInv, NewIsIdle, LiveIsWatched
  <2>2. j \in ended \/ status[j] \in Terminal
    BY <2>1 DEF TrackerInv, OlderIsOver
  <2>3. j \in ended
    BY <2>2 DEF TrackerInv, RunInv, OverIsDone, LiveIsWatched
  <2> QED
    BY <2>3 DEF TrackerInv, RunInv, EndedIsFlagged, CancelArrives
<1> QED
  BY <1>1, TrackerInvariant, PTL

\* _run_job stores a final status only when the subprocess has ended, its
\* output is read and its exit code is stored.
THEOREM OverIsDrained == Spec => []FinishedIsDrained
<1>1. TrackerInv => FinishedIsDrained
  BY DEF TrackerInv, RunInv, OverIsDone, ThreadDrains, FinishedIsDrained
<1> QED
  BY <1>1, TrackerInvariant, PTL

-----------------------------------------------------------------------------
(* What the poller stops with *)

\* A final status and the exit code it was decided by.
Fit(s, c) == (s = "completed" => c = 0) /\ (s = "failed" => c = 1)

\* The exit code is final before the status is, so a poller that read the
\* status first reads the code that goes with it.
StatusFits(j) ==
    /\ Fit(thread[j], exitCode[j])
    /\ status[j] \in {"completed", "failed"} => thread[j] = "done" /\ Fit(status[j], exitCode[j])
AnswerFits(j) ==
    /\ poll[j] = "exit" /\ seen[j] \in {"completed", "failed"} =>
          thread[j] = "done" /\ Fit(seen[j], exitCode[j])
    /\ poll[j] \in {"count", "stopped"} => Fit(seen[j], seenCode[j])
PollInv == (\A j \in Jobs : StatusFits(j)) /\ (\A j \in Polled : AnswerFits(j))

\* runPipeline ends a run with a status and an exit code that go together.
THEOREM PollerStopsRight == Spec => []StoppedRight
<1>1. Init => PollInv
  BY TrackerAssumption DEF Init, PollInv, StatusFits, AnswerFits, Fit
<1>2. TrackerInv /\ PollInv /\ [Next]_vars => PollInv'
  <2> SUFFICES ASSUME TrackerInv, PollInv, [Next]_vars PROVE PollInv'
    OBVIOUS
  <2> USE TrackerAssumption
      DEF PollInv, StatusFits, AnswerFits, Fit, TrackerInv, TypeInv, TypeOK, jobVars, pollVars
  <2>1. ASSUME NEW j \in Jobs, JobStep(j) PROVE PollInv'
    <3>1. CASE \E l \in Lanes : Start(j, l)
      BY <2>1, <3>1 DEF Start, RunInv, NewIsIdle
    <3>2. CASE ThreadStarts(j)
      BY <3>2 DEF ThreadStarts
    <3>3. CASE PopenFails(j)
      BY <3>3 DEF PopenFails
    <3>4. CASE WaitAndJoin(j)
      BY <3>4 DEF WaitAndJoin
    <3>5. CASE DecideStatus(j)
      <4>1. exitCode[j] \in {0, 1}
        BY <3>5 DEF DecideStatus, RunInv, ThreadDrains, Codes
      <4> QED
        BY <3>5, <4>1 DEF DecideStatus
    <3>6. CASE StoreStatus(j)
      BY <3>6 DEF StoreStatus, Terminal
    <3>7. CASE Popen(j) \/ PublishProcess(j) \/ CheckEarlyCancel(j)
      BY <3>7 DEF Popen, PublishProcess, CheckEarlyCancel
    <3>8. CASE UNCHANGED <<status, exitCode, thread, poll, seen, seenCode>>
      BY <3>8
    <3> QED
      BY <2>1, <3>1, <3>2, <3>3, <3>4, <3>5, <3>6, <3>7, <3>8
      DEF JobStep, ThreadStep, Pump, WriteLine, Exit, CancelFlag, CancelTerminate
  <2>2. CASE ForceReset \/ ResetStep
    BY <2>2 DEF ForceReset, ResetStep, ResetLane, ResetTerminate, ResetTest, ResetStore
  <2>3. ASSUME NEW j \in Polled, PollStep(j) \/ PollFails(j) PROVE PollInv'
    <3>1. CASE PollLines(j)
      BY <3>1 DEF PollLines
    <3>2. CASE PollStatus(j)
      BY <3>2 DEF PollStatus
    <3>3. CASE PollExit(j)
      BY <3>3 DEF PollExit
    <3>4. CASE PollAnswer(j)
      BY <3>4 DEF PollAnswer
    <3>5. CASE PollFails(j)
      BY <3>5 DEF PollFails
    <3> QED
      BY <2>3, <3>1, <3>2, <3>3, <3>4, <3>5 DEF PollStep
  <2>4. CASE UNCHANGED vars
    BY <2>4 DEF vars
  <2> QED
    BY <2>1, <2>2, <2>3, <2>4 DEF Next
<1>3. PollInv => StoppedRight
  BY DEF PollInv, AnswerFits, Fit, StoppedRight
<1> QED
  BY <1>1, <1>2, <1>3, TrackerInvariant, PTL DEF Spec

-----------------------------------------------------------------------------
(* EtlJobTracker implements EtlLane *)

\* A slot never holds a run that a force reset ended; nobody cancels a run
\* that has not started.
LaneInv ==
    /\ \A l \in Lanes : active[l] # NoJob => active[l] \notin ended
    /\ \A j \in Jobs : NewJob(j) => j \notin cancelRequested

\* start, _run_job, cancel and force_reset, at the slots: a lane begins a run
\* when it is free, its run is asked to stop once, and it is free again when
\* the run is over or a force reset took the slot.
LEMMA LaneStep ==
    ASSUME TrackerInv, LaneInv, Next
    PROVE  LaneInv' /\ [Contract!Next]_(Contract!vars)
<1> DEFINE slot == [l \in Lanes |-> Slot(l)]
<1> USE DEF TrackerInv, TypeInv, TypeOK, jobVars, resetVars
<1>0. \A l \in Lanes : active[l] # NoJob => active[l] \in Jobs /\ lane[active[l]] = l
  BY DEF SlotIsOfLane, Jobs, NoJob
<1>1. ASSUME NEW j \in Jobs, NEW l \in Lanes, Start(j, l)
      PROVE  LaneInv' /\ Contract!Begin(l)
  <2>0. \A m \in Lanes : active[m] # j
    <3>1. lane[j] = NoLane /\ NoLane \notin Lanes /\ j # NoJob
      BY <1>1, TrackerAssumption DEF Start, NewJob, NoJob, Jobs
    <3> QED
      BY <1>0, <3>1
  <2>1. /\ \A m \in Lanes \ {l} : active'[m] = active[m] /\ active[m] # j
        /\ active'[l] = j /\ status'[j] = "pending" /\ \A k \in Jobs \ {j} : status'[k] = status[k]
        /\ cancelRequested' = cancelRequested /\ ended' = ended /\ ActiveJob(l) = NoJob
        /\ lane'[j] = l /\ \A k \in Jobs \ {j} : lane'[k] = lane[k]
    BY <2>0, <1>1 DEF Start
  <2>2. j \notin cancelRequested /\ j \notin ended /\ j # NoJob
    BY <1>1 DEF Start, LaneInv, RunInv, NewIsIdle, Jobs, NoJob
  <2>3. Slot(l) = "free" /\ Slot(l)' = "run" /\ \A m \in Lanes \ {l} : Slot(m)' = Slot(m)
    BY <1>0, <2>1, <2>2 DEF Slot, ActiveJob, Terminal
  <2>4. slot' = [slot EXCEPT ![l] = "run"]
    BY <2>3
  <2> QED
    BY <1>0, <2>1, <2>2, <2>3, <2>4 DEF Contract!Begin, LaneInv, NewJob
<1>2. ASSUME NEW j \in Jobs, CancelFlag(j)
      PROVE  LaneInv' /\ [Contract!Next]_(Contract!vars)
  <2>1. LaneInv'
    BY <1>2 DEF CancelFlag, LaneInv, NewJob
  <2>2. \A m \in Lanes : ActiveJob(m)' = ActiveJob(m)
    BY <1>2 DEF CancelFlag, ActiveJob
  <2>3. \A m \in Lanes : ActiveJob(m) # j => Slot(m)' = Slot(m)
    BY <1>2, <2>2 DEF CancelFlag, Slot
  <2>4. CASE \E l \in Lanes : ActiveJob(l) = j /\ j \notin cancelRequested
    <3> PICK l \in Lanes : ActiveJob(l) = j /\ j \notin cancelRequested
      BY <2>4
    <3>1. \A m \in Lanes \ {l} : ActiveJob(m) # j
      BY <1>0 DEF ActiveJob, Jobs, NoJob
    <3>2. Slot(l) = "run" /\ Slot(l)' = "stop"
      BY <1>2, <2>2 DEF CancelFlag, Slot, Jobs, NoJob
    <3>3. slot' = [slot EXCEPT ![l] = "stop"]
      <4>1. \A m \in Lanes \ {l} : Slot(m)' = Slot(m)
        BY <2>3, <3>1
      <4> QED
        BY <3>2, <4>1
    <3> QED
      BY <2>1, <3>2, <3>3 DEF Contract!AskToStop, Contract!Next
  <2>5. CASE ~ \E l \in Lanes : ActiveJob(l) = j /\ j \notin cancelRequested
    <3>1. \A m \in Lanes : Slot(m)' = Slot(m)
      BY <1>2, <2>2, <2>3, <2>5 DEF CancelFlag, Slot
    <3> QED
      BY <2>1, <3>1 DEF Contract!vars
  <2> QED
    BY <2>4, <2>5
<1>3. ASSUME LaneInv', \A m \in Lanes : Slot(m)' \in {Slot(m), "free"}
      PROVE  [Contract!Next]_(Contract!vars)
  <2> DEFINE S == {m \in Lanes : Slot(m) # "free" /\ Slot(m)' = "free"}
  <2>1. slot' = [m \in Lanes |-> IF m \in S THEN "free" ELSE slot[m]]
    BY <1>3
  <2>2. S \in SUBSET Lanes /\ \A m \in S : slot[m] # "free"
    OBVIOUS
  <2> QED
    BY <2>1, <2>2 DEF Contract!End, Contract!Next
<1>4. ASSUME NEW j \in Jobs, ThreadStarts(j) \/ StoreStatus(j)
      PROVE  LaneInv' /\ \A m \in Lanes : Slot(m)' \in {Slot(m), "free"}
  <2>1. UNCHANGED <<active, lane, cancelRequested, ended>>
    BY <1>4 DEF ThreadStarts, StoreStatus
  <2>2. \A m \in Lanes : active[m] # NoJob /\ status[active[m]] \in Terminal
                            => status'[active[m]] \in Terminal
    BY <1>0, <1>4 DEF ThreadStarts, StoreStatus, LaneInv, RunInv, OverIsDone, Terminal
  <2> QED
    BY <2>1, <2>2 DEF LaneInv, NewJob, Slot, ActiveJob
<1>5. ASSUME ResetStore
      PROVE  LaneInv' /\ \A m \in Lanes : Slot(m)' \in {Slot(m), "free"}
  <2>1. UNCHANGED <<active, lane, cancelRequested, ended>>
    BY <1>5 DEF ResetStore
  <2>2. \A k \in Jobs : status[k] \in Terminal => status'[k] \in Terminal
    BY <1>5 DEF ResetStore, Terminal
  <2> QED
    BY <1>0, <2>1, <2>2 DEF LaneInv, NewJob, Slot, ActiveJob
<1>6. ASSUME ResetLane
      PROVE  LaneInv' /\ \A m \in Lanes : Slot(m)' \in {Slot(m), "free"}
  <2> PICK l \in Lanes : l = resetLane
    BY <1>6 DEF ResetLane, ResetIsAt
  <2>1. active' = [active EXCEPT ![l] = NoJob] /\ UNCHANGED <<lane, status>>
    BY <1>6 DEF ResetLane
  <2>2. /\ ended \subseteq ended' /\ cancelRequested \subseteq cancelRequested'
        /\ ended' \subseteq ended \cup ({ActiveJob(l)} \ {NoJob})
        /\ cancelRequested' \subseteq cancelRequested \cup ({ActiveJob(l)} \ {NoJob})
    BY <1>6 DEF ResetLane
  <2>3. ActiveJob(l) # NoJob =>
           /\ lane[ActiveJob(l)] = l
           /\ \A m \in Lanes \ {l} : active[m] # ActiveJob(l)
    BY <1>0 DEF ActiveJob
  <2>4. LaneInv'
    BY <2>1, <2>2, <2>3, TrackerAssumption DEF LaneInv, NewJob
  <2>5. Slot(l)' = "free"
    BY <2>1 DEF Slot, ActiveJob
  <2>6. \A m \in Lanes \ {l} : Slot(m)' = Slot(m)
    <3> SUFFICES ASSUME NEW m \in Lanes \ {l} PROVE Slot(m)' = Slot(m)
      OBVIOUS
    <3>1. ActiveJob(m)' = ActiveJob(m)
      BY <2>1 DEF ActiveJob
    <3>2. ActiveJob(m) # NoJob => ActiveJob(m) # ActiveJob(l)
      BY <2>3 DEF ActiveJob
    <3> QED
      BY <2>2, <3>1, <3>2 DEF Slot
  <2> QED
    BY <2>4, <2>5, <2>6
<1>7. CASE UNCHANGED <<active, lane, status, cancelRequested, ended>>
  BY <1>7 DEF LaneInv, NewJob, Contract!vars, Slot, ActiveJob
<1>8. \/ UNCHANGED <<active, lane, status, cancelRequested, ended>>
      \/ \E j \in Jobs : \/ \E l \in Lanes : Start(j, l)
                         \/ CancelFlag(j) \/ ThreadStarts(j) \/ StoreStatus(j)
      \/ ResetStore \/ ResetLane
  BY DEF Next, JobStep, ThreadStep, ResetStep, PollStep, Popen, PopenFails, PublishProcess,
         CheckEarlyCancel, WaitAndJoin, DecideStatus, Pump, WriteLine, Exit, CancelTerminate,
         ForceReset, ResetTerminate, ResetTest, PollLines, PollStatus, PollExit, PollAnswer, PollFails
<1> QED
  BY <1>1, <1>2, <1>3, <1>4, <1>5, <1>6, <1>7, <1>8 DEF Contract!Next

\* The ETL API keeps what EtlLane promises the backend, for any number of
\* runs, cancels and force resets.
THEOREM TrackerKeepsContract == Spec => KeepsContract
<1>1. Init => LaneInv /\ Contract!Init
  BY DEF Init, LaneInv, Contract!Init, Slot, ActiveJob, NoJob
<1>2. TrackerInv /\ LaneInv /\ [Next]_vars => LaneInv' /\ [Contract!Next]_(Contract!vars)
  <2> SUFFICES ASSUME TrackerInv, LaneInv, [Next]_vars
               PROVE  LaneInv' /\ [Contract!Next]_(Contract!vars)
    OBVIOUS
  <2>1. CASE Next
    BY <2>1, LaneStep
  <2>2. CASE UNCHANGED vars
    BY <2>2 DEF vars, jobVars, resetVars, LaneInv, NewJob, Contract!vars, Slot, ActiveJob
  <2> QED
    BY <2>1, <2>2
<1> QED
  BY <1>1, <1>2, TrackerInvariant, PTL DEF Spec, KeepsContract, Contract!Spec

=============================================================================
