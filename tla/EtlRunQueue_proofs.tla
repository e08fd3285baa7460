------------------------- MODULE EtlRunQueue_proofs -------------------------
(***************************************************************************)
(* What is proved of EtlRunQueue for any number of runs, attempts,         *)
(* enqueuers and faults: its types; that the rows of etl_job_runs are an   *)
(* exclusive lock (Exclusive); that a retry keeps it, that an attempt at   *)
(* work is shown, that somebody is left to release it; and that the        *)
(* backend uses the lanes of the ETL API as EtlLane says (UsesContract).   *)
(***************************************************************************)
EXTENDS EtlRunQueue, TLAPS

\* A handler at work has a run, and so has an enqueuer past its INSERT.
Refs ==
    /\ \A q \in Queues : step[q] # "idle" => cur[q] \in Runs
    /\ \A c \in Clients : pc[c] \in {"created", "linked", "timedOut"} => mine[c] \in Runs

TypeInv == TypeOK /\ Refs

-----------------------------------------------------------------------------
(* Types *)

\* What enqueuePipelineRun is asked for is one of its inputs.
LEMMA InputTypes ==
    /\ AnInput \in Inputs
    /\ Asked \subseteq Inputs
<1>1. [kind |-> "main", behind |-> FALSE, attempts |-> MaxAttempts] \in Inputs
  BY DEF Inputs
<1> QED
  BY <1>1, RunQueueAssumption DEF AnInput

\* The backend starts with every variable of its type.
LEMMA TypeInit == Init => TypeInv
<1> SUFFICES ASSUME Init PROVE TypeInv
  OBVIOUS
<1> QED
  BY InputTypes, RunQueueAssumption
  DEF Init, TypeInv, TypeOK, Refs, Messages, BullStates, LaneStates, Janitors

\* The enqueuers.
LEMMA TypeClient ==
    ASSUME TypeInv, NEW c \in Clients, ClientStep(c)
    PROVE  TypeInv'
<1> USE InputTypes, RunQueueAssumption
    DEF TypeInv, TypeOK, Refs, rowVars, bullVars, clientVars, workerVars, janitorVars
<1>1. ASSUME NEW i \in Asked, EnqueueCheck(c, i) PROVE TypeInv'
  BY <1>1 DEF EnqueueCheck
<1>2. CASE EnqueueInsert(c)
  BY <1>2 DEF EnqueueInsert, FreshId, ActiveStatuses
<1>3. CASE EnqueueLink(c)
  BY <1>3 DEF EnqueueLink
<1>4. CASE EnqueueAdd(c)
  BY <1>4 DEF EnqueueAdd, BullStates
<1>5. CASE EnqueueTimeout(c)
  BY <1>5 DEF EnqueueTimeout, Spend, Faults
<1>6. CASE EnqueueGiveUp(c)
  BY <1>6 DEF EnqueueGiveUp, FinishRow, FinishedStatuses, Messages
<1>7. CASE EnqueueThrows(c)
  BY <1>7 DEF EnqueueThrows
<1>8. ASSUME NEW r \in Runs, LateAdd(c, r) PROVE TypeInv'
  BY <1>8 DEF LateAdd, BullStates
<1>9. CASE CliCrash(c)
  BY <1>9 DEF CliCrash, ClientsDie
<1> QED
  BY <1>1, <1>2, <1>3, <1>4, <1>5, <1>6, <1>7, <1>8, <1>9 DEF ClientStep

\* The worker, BullMQ and the ETL API.
LEMMA TypeWorker ==
    ASSUME TypeInv, NEW q \in Queues, WorkerStep(q)
    PROVE  TypeInv'
<1> USE InputTypes, RunQueueAssumption
    DEF TypeInv, TypeOK, Refs, rowVars, bullVars, clientVars, workerVars, janitorVars
<1>1. ASSUME NEW r \in Runs, Pick(q, r) PROVE TypeInv'
  BY <1>1 DEF Pick, BullStates
<1>2. CASE MarkStarted(q)
  BY <1>2 DEF MarkStarted, ActiveStatuses
<1>3. CASE Post(q)
  BY <1>3 DEF Post, LaneStates
<1>4. CASE PipelineThrows(q)
  <2>1. cur[q] \in Runs /\ step' = [step EXCEPT ![q] = "threw"] /\ lane' \in [Queues -> LaneStates]
    BY <1>4 DEF PipelineThrows, RecordFailure, LaneStates
  <2>2. CASE RequeueRow(cur[q])
    BY <1>4, <2>1, <2>2 DEF PipelineThrows, RequeueRow, ActiveStatuses, Messages
  <2>3. CASE FinishRow(cur[q], "failed", "outcome")
    BY <1>4, <2>1, <2>3 DEF PipelineThrows, FinishRow, FinishedStatuses, Messages
  <2> QED
    BY <1>4, <2>2, <2>3 DEF PipelineThrows, RecordFailure
<1>5. CASE RecordOutcome(q)
  <2>1. /\ cur[q] \in Runs /\ lane' \in [Queues -> LaneStates]
        /\ step' = [step EXCEPT ![q] = "threw"] \/ step' = [step EXCEPT ![q] = "returned"]
    BY <1>5 DEF RecordOutcome, RecordFailure, LaneStates
  <2>2. CASE RequeueRow(cur[q])
    BY <1>5, <2>1, <2>2 DEF RecordOutcome, RequeueRow, ActiveStatuses, Messages
  <2>3. ASSUME NEW st \in FinishedStatuses, NEW msg \in {"none", "outcome"},
               FinishRow(cur[q], st, msg)
        PROVE  TypeInv'
    <3>1. /\ status' \in [Runs -> {"none"} \cup ActiveStatuses \cup FinishedStatuses]
          /\ finishedAt' \subseteq Runs /\ message' \in [Runs -> Messages]
      BY <2>1, <2>3 DEF FinishRow, Messages
    <3>2. UNCHANGED <<linked, input, bullVars, clientVars, workerUp, cur, janitorVars, budget>>
      BY <1>5, <2>3 DEF RecordOutcome, FinishRow
    <3> QED
      BY <2>1, <3>1, <3>2
  <2>4. \/ RequeueRow(cur[q])
        \/ \E st \in FinishedStatuses, msg \in {"none", "outcome"} : FinishRow(cur[q], st, msg)
    <3>1. CASE lane[q] = "error"
      BY <1>5, <3>1 DEF RecordOutcome, RecordFailure, FinishedStatuses
    <3>2. CASE lane[q] # "error"
      <4>1. Verdict[lane[q]].status \in FinishedStatuses /\ Verdict[lane[q]].message \in {"none", "outcome"}
        BY <1>5, <3>2 DEF RecordOutcome, Verdict, Outcomes, FinishedStatuses
      <4> QED
        BY <1>5, <3>2, <4>1 DEF RecordOutcome
    <3> QED
      BY <3>1, <3>2
  <2> QED
    BY <2>2, <2>3, <2>4
<1>6. CASE BookkeepingThrows(q)
  BY <1>6 DEF BookkeepingThrows, LaneStates
<1>7. CASE Settle(q)
  BY <1>7 DEF Settle, BullStates
<1>8. CASE LaneJobEnds(q)
  BY <1>8 DEF LaneJobEnds, LaneStates
<1>9. CASE Cancel(q)
  BY <1>9 DEF Cancel, LaneStates
<1> QED
  BY <1>1, <1>2, <1>3, <1>4, <1>5, <1>6, <1>7, <1>8, <1>9 DEF WorkerStep

\* The janitors.
LEMMA TypeJanitor ==
    ASSUME TypeInv, JanitorStep
    PROVE  TypeInv'
<1> USE DEF TypeInv, TypeOK, Refs, rowVars, bullVars, clientVars, workerVars, janitorVars, Janitors
<1>1. CASE OrphanSelect
  BY <1>1 DEF OrphanSelect, ActiveRuns
<1>2. ASSUME NEW r \in Runs, OrphanCheck(r) PROVE TypeInv'
  BY <1>2 DEF OrphanCheck
<1>3. ASSUME NEW r \in Runs, OrphanCheckTimesOut(r) PROVE TypeInv'
  BY <1>3 DEF OrphanCheckTimesOut, Spend, Faults
<1>4. ASSUME NEW S \in SUBSET Runs, StaleRead(S) PROVE TypeInv'
  BY <1>4 DEF StaleRead
<1>5. CASE StaleProbe
  BY <1>5 DEF StaleProbe, Spend, Faults
<1>6. CASE ResetSelect
  BY <1>6 DEF ResetSelect, ActiveRuns, Spend, Faults
<1>7. ASSUME NEW j \in Janitors, NEW r \in Runs, JanitorFail(j, r) PROVE TypeInv'
  BY <1>7 DEF JanitorFail, FinishRow, FinishedStatuses, Messages
<1>8. ASSUME NEW j \in Janitors, NEW r \in Runs, JanitorRemove(j, r) PROVE TypeInv'
  BY <1>8 DEF JanitorRemove, BullStates
<1>9. ASSUME NEW j \in Janitors, NEW r \in Runs, JanitorRemoveFails(j, r) PROVE TypeInv'
  BY <1>9 DEF JanitorRemoveFails, Spend, Faults
<1>10. ASSUME NEW j \in Janitors, JanitorAborts(j) PROVE TypeInv'
  BY <1>10 DEF JanitorAborts, Spend, Faults
<1>11. CASE ResetLanes
  BY <1>11 DEF ResetLanes, LaneStates
<1> QED
  BY <1>1, <1>2, <1>3, <1>4, <1>5, <1>6, <1>7, <1>8, <1>9, <1>10, <1>11 DEF JanitorStep

\* Every step keeps the types.
LEMMA TypeStep == TypeInv /\ [Next]_vars => TypeInv'
<1> SUFFICES ASSUME TypeInv, [Next]_vars PROVE TypeInv'
  OBVIOUS
<1> USE DEF TypeInv, TypeOK, Refs, rowVars, bullVars, clientVars, workerVars, janitorVars
<1>1. CASE WorkerCrash
  <2>1. workerUp' \in BOOLEAN
    BY <1>1, Zenon DEF WorkerCrash
  <2>3. budget' \in [Faults -> Nat]
    <3>1. Spend("workerCrash")
      BY <1>1, Zenon DEF WorkerCrash
    <3> QED
      BY <3>1 DEF Spend, Faults
  <2>2. /\ step' = [p \in Queues |-> "idle"] /\ cur' = [p \in Queues |-> 0]
    BY <1>1 DEF WorkerCrash
  <2> QED
    BY <1>1, <2>1, <2>2, <2>3 DEF WorkerCrash
<1>2. CASE WorkerStart
  BY <1>2 DEF WorkerStart, Spend, Faults
<1>3. CASE ApiRestart
  <2>1. /\ guard' \in Clients \cup {NoClient} /\ req' \in [Clients -> Inputs]
        /\ pc' \in [Clients -> {"idle", "checked", "created", "linked", "timedOut"}]
        /\ mine' \in [Clients -> Runs \cup {0}] /\ late' \subseteq (Clients \X Runs)
        /\ \A c \in Clients : pc'[c] \in {"created", "linked", "timedOut"} => mine'[c] \in Runs
    BY <1>3, InputTypes DEF ApiRestart, ClientsDie
  <2>2. /\ jpc' \in [Janitors -> {"idle", "pending", "resetting"}]
        /\ todo' \in [Janitors -> SUBSET Runs] /\ doomed' \in [Janitors -> SUBSET Runs]
        /\ removal' \in [Janitors -> SUBSET Runs] /\ budget' \in [Faults -> Nat]
    BY <1>3 DEF ApiRestart, Spend, Faults
  <2> QED
    BY <1>3, <2>1, <2>2 DEF ApiRestart
<1>4. ASSUME NEW r \in Runs, BullStep(r) PROVE TypeInv'
  BY <1>4 DEF BullStep, Promote, Stalled, BullStates
<1>5. CASE UNCHANGED vars
  BY <1>5 DEF vars
<1> QED
  BY <1>1, <1>2, <1>3, <1>4, <1>5, TypeClient, TypeWorker, TypeJanitor DEF Next

\* Every variable keeps its type, for any number of runs, attempts and
\* enqueuers and any number of faults.
THEOREM TypeCorrect == Spec => []TypeOK
<1>1. Spec => []TypeInv
  BY TypeInit, TypeStep, PTL DEF Spec
<1> QED
  BY <1>1, PTL DEF TypeInv

-----------------------------------------------------------------------------
(* The lock *)

Created(r) == status[r] # "none"

\* The client between its check and its INSERT, and only it, has the guard.
GuardOwner == \A c \in Clients : guard = c <=> pc[c] = "checked"

\* What its check found still stands: nobody else can create a row.
CheckStands ==
    \A c \in Clients, s \in Runs :
        pc[c] = "checked" /\ Holds(s) /\ QueueOf(input[s].kind) = QueueOf(req[c].kind)
            => BehindRefresh(req[c], s)

\* Whoever names a run names one whose row exists.
NamedRunsExist ==
    /\ \A r \in Runs : bull[r] # "absent" => Created(r)
    /\ \A q \in Queues : step[q] # "idle" => Created(cur[q])
    /\ \A c \in Clients : pc[c] \in {"created", "linked", "timedOut"} => Created(mine[c])
    /\ \A c \in Clients, r \in Runs : <<c, r>> \in late => Created(r)
    /\ \A j \in Janitors, r \in Runs : r \in todo[j] \cup doomed[j] => Created(r)

\* A finished row has its finished_at, so it can come back but never hold again.
Stamped == \A r \in Runs : Finished(r) => r \in finishedAt

\* Ids are handed out in order.
IdsInOrder == \A r, s \in Runs : ~Created(r) /\ r < s => ~Created(s)

LockInv == GuardOwner /\ CheckStands /\ NamedRunsExist /\ Stamped /\ IdsInOrder /\ Exclusive

\* The rows are those there were, and none has taken the lock.
NoNewHolder ==
    /\ input' = input
    /\ \A r \in Runs : Created(r)' <=> Created(r)
    /\ \A r \in Runs : Holds(r)' => Holds(r)

\* No client has passed its check.
NoNewCheck == \A c \in Clients : pc'[c] = "checked" => pc[c] = "checked" /\ req'[c] = req[c]

Quiet == NoNewHolder /\ NoNewCheck /\ GuardOwner' /\ NamedRunsExist' /\ Stamped'

\* All but the two steps under the enqueue guard are quiet.
LEMMA QuietKeepsLock ==
    ASSUME TypeInv, LockInv, Quiet
    PROVE  LockInv'
<1>1. CheckStands'
  BY DEF LockInv, Quiet, NoNewHolder, NoNewCheck, CheckStands, BehindRefresh
<1>2. IdsInOrder'
  BY DEF LockInv, Quiet, NoNewHolder, IdsInOrder
<1>3. Exclusive'
  BY DEF LockInv, Quiet, NoNewHolder, Exclusive, BehindRefresh
<1> QED
  BY <1>1, <1>2, <1>3 DEF LockInv, Quiet

\* finishRun takes the lock from nobody and gives it to nobody.
LEMMA FinishIsQuiet ==
    ASSUME TypeInv, LockInv, NEW r \in Runs, Created(r),
           NEW st \in FinishedStatuses, NEW msg \in Messages, FinishRow(r, st, msg)
    PROVE  NoNewHolder /\ Stamped'
<1> USE DEF TypeInv, TypeOK, FinishRow, FinishedStatuses, ActiveStatuses
<1>1. NoNewHolder
  BY DEF NoNewHolder, Created, Holds, Active
<1>2. Stamped'
  BY DEF LockInv, Stamped, Finished
<1> QED
  BY <1>1, <1>2

\* A row that goes back to queued or running held the lock already, or has
\* been finished before.
LEMMA ReviveIsQuiet ==
    ASSUME TypeInv, LockInv, NEW r \in Runs, Created(r),
           NEW st \in ActiveStatuses, status' = [status EXCEPT ![r] = st],
           UNCHANGED <<finishedAt, input>>
    PROVE  NoNewHolder /\ Stamped'
<1> USE DEF TypeInv, TypeOK, FinishedStatuses, ActiveStatuses, LockInv, Stamped, Finished
<1>1. NoNewHolder
  BY DEF NoNewHolder, Created, Holds, Active
<1>2. Stamped'
  OBVIOUS
<1> QED
  BY <1>1, <1>2

\* A step that leaves the rows alone.
LEMMA SameRowsQuiet ==
    ASSUME LockInv, UNCHANGED <<status, finishedAt, input>>
    PROVE  NoNewHolder /\ Stamped' /\ \A r \in Runs : Created(r)' <=> Created(r)
BY DEF NoNewHolder, Created, Holds, Active, LockInv, Stamped, Finished

\* The check under the guard: nothing that it lets pass is held against.
LEMMA CheckKeepsLock ==
    ASSUME TypeInv, LockInv, NEW c \in Clients, NEW i \in Asked, EnqueueCheck(c, i)
    PROVE  LockInv'
<1> USE InputTypes, RunQueueAssumption
    DEF TypeInv, TypeOK, rowVars, bullVars, clientVars, workerVars, janitorVars
<1>1. /\ UNCHANGED <<status, finishedAt, input, bull, step, cur, mine, late, todo, doomed>>
      /\ guard = NoClient /\ guard' = c /\ MayEnqueue(i)
      /\ pc' = [pc EXCEPT ![c] = "checked"] /\ req' = [req EXCEPT ![c] = i]
  BY DEF EnqueueCheck
<1>2. GuardOwner'
  BY <1>1 DEF LockInv, GuardOwner
<1>3. CheckStands'
  <2> SUFFICES ASSUME NEW d \in Clients, NEW s \in Runs, pc'[d] = "checked", Holds(s)',
                      QueueOf(input[s].kind) = QueueOf(req'[d].kind)
               PROVE  BehindRefresh(req'[d], s)
    BY <1>1 DEF CheckStands, BehindRefresh
  <2>1. d = c /\ req'[d] = i
    BY <1>1 DEF LockInv, GuardOwner
  <2>2. s \in ActiveRuns
    BY <1>1 DEF Holds, Active, ActiveRuns
  <2> QED
    BY <1>1, <2>1, <2>2 DEF MayEnqueue, QueueOf, BehindRefresh
<1>4. NamedRunsExist'
  BY <1>1 DEF LockInv, NamedRunsExist, Created
<1>5. Stamped' /\ IdsInOrder' /\ Exclusive'
  BY <1>1 DEF LockInv, Stamped, Finished, IdsInOrder, Created, Exclusive, Holds, Active, BehindRefresh
<1> QED
  BY <1>2, <1>3, <1>4, <1>5 DEF LockInv

\* The INSERT under the guard: the new row is the newest, and what held the
\* lock at the check is all that holds it now.
LEMMA InsertKeepsLock ==
    ASSUME TypeInv, LockInv, NEW c \in Clients, EnqueueInsert(c)
    PROVE  LockInv'
<1> USE DEF TypeInv, TypeOK, rowVars, bullVars, clientVars, workerVars, janitorVars
<1>1. PICK r \in Runs : /\ FreshId(r)
                        /\ status' = [status EXCEPT ![r] = "queued"]
                        /\ input'  = [input EXCEPT ![r] = req[c]]
                        /\ mine'   = [mine EXCEPT ![c] = r]
  BY DEF EnqueueInsert
<1>2. /\ pc[c] = "checked" /\ guard' = NoClient
      /\ pc' = [pc EXCEPT ![c] = "created"]
      /\ UNCHANGED <<finishedAt, bull, late, step, cur, todo, doomed>>
  BY DEF EnqueueInsert
<1>3. \A d \in Clients : pc'[d] # "checked"
  BY <1>2 DEF LockInv, GuardOwner
<1>4. GuardOwner' /\ CheckStands'
  BY <1>2, <1>3, RunQueueAssumption DEF GuardOwner, CheckStands
<1>5. \A s \in Runs : Created(s)' <=> Created(s) \/ s = r
  BY <1>1 DEF Created
<1>6. NamedRunsExist'
  <2>1. \A s \in Runs : Created(s) => Created(s)'
    BY <1>5
  <2>2. \A d \in Clients : pc'[d] \in {"created", "linked", "timedOut"} => Created(mine[d])' \/ d = c
    BY <1>1, <1>2, <2>1 DEF LockInv, NamedRunsExist, Refs, Created
  <2>3. Created(mine[c])'
    BY <1>1, <1>5 DEF Created
  <2> QED
    BY <1>1, <1>2, <1>5, <2>1, <2>2, <2>3 DEF LockInv, NamedRunsExist, Refs, Created
<1>7. Stamped'
  BY <1>1, <1>2 DEF LockInv, Stamped, Finished, FinishedStatuses
<1>8. IdsInOrder'
  BY <1>1, <1>5, RunQueueAssumption DEF LockInv, IdsInOrder, FreshId, Created, Runs
<1>9. Exclusive'
  <2> SUFFICES ASSUME NEW a \in Runs, NEW b \in Runs, a < b, Holds(a)', Holds(b)',
                      QueueOf(input'[a].kind) = QueueOf(input'[b].kind)
               PROVE  input'[b].behind /\ input'[a].kind = "refresh_30m"
    BY DEF Exclusive, BehindRefresh
  <2>1. a # r
    BY <1>1, RunQueueAssumption
    DEF Holds, Active, ActiveStatuses, LockInv, IdsInOrder, FreshId, Created, Runs
  <2>2. Holds(a) /\ input'[a] = input[a]
    BY <1>1, <1>2, <2>1 DEF Holds, Active
  <2>3. CASE b = r
    BY <1>1, <1>2, <2>2, <2>3 DEF LockInv, CheckStands, BehindRefresh
  <2>4. CASE b # r
    BY <1>1, <1>2, <2>2, <2>4 DEF LockInv, Exclusive, BehindRefresh, Holds, Active
  <2> QED
    BY <2>3, <2>4
<1> QED
  BY <1>4, <1>6, <1>7, <1>8, <1>9 DEF LockInv

\* The steps of enqueuePipelineRun, the two under the guard included.
LEMMA LockClient ==
    ASSUME TypeInv, LockInv, NEW c \in Clients, ClientStep(c)
    PROVE  LockInv'
<1> USE RunQueueAssumption
    DEF TypeInv, TypeOK, Refs, rowVars, bullVars, clientVars, workerVars, janitorVars
<1>1. CASE EnqueueLink(c) \/ EnqueueAdd(c) \/ EnqueueTimeout(c)
  <2>1. UNCHANGED <<status, finishedAt, input, guard, req, step, cur, todo, doomed>>
    BY <1>1 DEF EnqueueLink, EnqueueAdd, EnqueueTimeout
  <2>2. NoNewCheck /\ GuardOwner'
    BY <1>1, <2>1 DEF EnqueueLink, EnqueueAdd, EnqueueTimeout, NoNewCheck, LockInv, GuardOwner
  <2>3. NamedRunsExist'
    BY <1>1, <2>1 DEF EnqueueLink, EnqueueAdd, EnqueueTimeout, LockInv, NamedRunsExist, Created
  <2> QED
    BY <2>1, <2>2, <2>3, SameRowsQuiet, QuietKeepsLock DEF Quiet
<1>2. CASE EnqueueGiveUp(c)
  <2>1. /\ FinishRow(mine[c], "failed", "enqueue") /\ mine[c] \in Runs /\ Created(mine[c])
        /\ pc' = [pc EXCEPT ![c] = "idle"] /\ mine' = [mine EXCEPT ![c] = 0] /\ pc[c] = "timedOut"
        /\ UNCHANGED <<bull, guard, req, late, step, cur, todo, doomed>>
    BY <1>2 DEF EnqueueGiveUp, LockInv, NamedRunsExist
  <2>2. NoNewHolder /\ Stamped'
    BY <2>1, FinishIsQuiet DEF FinishedStatuses, Messages
  <2>3. NoNewCheck /\ GuardOwner'
    BY <2>1 DEF NoNewCheck, LockInv, GuardOwner
  <2>4. NamedRunsExist'
    BY <2>1, <2>2 DEF LockInv, NamedRunsExist, NoNewHolder, Created
  <2> QED
    BY <2>2, <2>3, <2>4, QuietKeepsLock DEF Quiet
<1>3. CASE EnqueueThrows(c)
  <2>1. /\ UNCHANGED <<status, finishedAt, input, bull, late, step, cur, todo, doomed>>
        /\ pc' = [pc EXCEPT ![c] = "idle"] /\ mine' = [mine EXCEPT ![c] = 0]
        /\ req' = [req EXCEPT ![c] = AnInput]
        /\ \/ pc[c] = "checked" /\ guard' = NoClient
           \/ pc[c] # "checked" /\ guard' = guard
    BY <1>3 DEF EnqueueThrows
  <2>2. NoNewCheck /\ GuardOwner'
    BY <2>1 DEF NoNewCheck, LockInv, GuardOwner
  <2>3. NamedRunsExist'
    BY <2>1 DEF LockInv, NamedRunsExist, Created
  <2> QED
    BY <2>1, <2>2, <2>3, SameRowsQuiet, QuietKeepsLock DEF Quiet
<1>4. ASSUME NEW r \in Runs, LateAdd(c, r) PROVE LockInv'
  <2>1. UNCHANGED <<status, finishedAt, input, guard, pc, req, mine, step, cur, todo, doomed>>
    BY <1>4 DEF LateAdd
  <2>2. NoNewCheck /\ GuardOwner'
    BY <2>1 DEF NoNewCheck, LockInv, GuardOwner
  <2>3. NamedRunsExist'
    BY <1>4, <2>1 DEF LateAdd, LockInv, NamedRunsExist, Created
  <2> QED
    BY <2>1, <2>2, <2>3, SameRowsQuiet, QuietKeepsLock DEF Quiet
<1>5. CASE CliCrash(c)
  <2>1. UNCHANGED <<status, finishedAt, input, bull, step, cur, todo, doomed>>
    BY <1>5 DEF CliCrash
  <2>2. NoNewCheck /\ GuardOwner'
    BY <1>5 DEF CliCrash, ClientsDie, NoNewCheck, LockInv, GuardOwner
  <2>3. NamedRunsExist'
    BY <1>5, <2>1 DEF CliCrash, ClientsDie, LockInv, NamedRunsExist, Created
  <2> QED
    BY <2>1, <2>2, <2>3, SameRowsQuiet, QuietKeepsLock DEF Quiet
<1> QED
  BY <1>1, <1>2, <1>3, <1>4, <1>5, CheckKeepsLock, InsertKeepsLock DEF ClientStep

\* The worker moves only rows that exist: it ends them, or it revives one
\* that held the lock or was finished before.
LEMMA LockWorker ==
    ASSUME TypeInv, LockInv, NEW q \in Queues, WorkerStep(q)
    PROVE  LockInv'
<1> USE DEF TypeInv, TypeOK, Refs, rowVars, bullVars, clientVars, workerVars, janitorVars
<1>1. NoNewCheck /\ GuardOwner' /\ UNCHANGED <<mine, pc, late, todo, doomed>>
  <2>1. UNCHANGED <<guard, pc, req, mine, late, todo, doomed>>
    BY DEF WorkerStep, Pick, MarkStarted, Post, PipelineThrows, RecordOutcome,
           BookkeepingThrows, Settle, LaneJobEnds, Cancel
  <2> QED
    BY <2>1 DEF NoNewCheck, LockInv, GuardOwner
<1>2. ASSUME NEW r \in Runs, Pick(q, r) PROVE LockInv'
  <2>1. /\ UNCHANGED <<status, finishedAt, input>>
        /\ Created(r) /\ bull' = [bull EXCEPT ![r] = "active"]
        /\ step' = [step EXCEPT ![q] = "picked"] /\ cur' = [cur EXCEPT ![q] = r]
    BY <1>2 DEF Pick, LockInv, NamedRunsExist
  <2>2. NamedRunsExist'
    BY <1>1, <2>1 DEF LockInv, NamedRunsExist, Created
  <2> QED
    BY <1>1, <2>1, <2>2, SameRowsQuiet, QuietKeepsLock DEF Quiet
<1>3. CASE MarkStarted(q)
  <2>1. /\ status' = [status EXCEPT ![cur[q]] = "running"] /\ UNCHANGED <<finishedAt, input, bull, cur>>
        /\ step[q] = "picked" /\ step' = [step EXCEPT ![q] = "started"]
        /\ cur[q] \in Runs /\ Created(cur[q])
    BY <1>3 DEF MarkStarted, LockInv, NamedRunsExist
  <2>2. NoNewHolder /\ Stamped'
    BY <2>1, ReviveIsQuiet DEF ActiveStatuses
  <2>3. NamedRunsExist'
    BY <1>1, <2>1, <2>2 DEF LockInv, NamedRunsExist, NoNewHolder, Created
  <2> QED
    BY <1>1, <2>2, <2>3, QuietKeepsLock DEF Quiet
<1>4. CASE PipelineThrows(q) \/ RecordOutcome(q)
  <2>1. /\ step[q] # "idle" /\ cur[q] \in Runs /\ Created(cur[q])
        /\ step' = [step EXCEPT ![q] = "threw"] \/ step' = [step EXCEPT ![q] = "returned"]
        /\ UNCHANGED <<bull, cur>>
    BY <1>4 DEF PipelineThrows, RecordOutcome, RecordFailure, LockInv, NamedRunsExist
  <2>2. \/ RequeueRow(cur[q])
        \/ \E st \in FinishedStatuses, msg \in Messages : FinishRow(cur[q], st, msg)
    <3>1. CASE RecordFailure(q)
      BY <3>1 DEF RecordFailure, FinishedStatuses, Messages
    <3>2. CASE RecordOutcome(q) /\ lane[q] # "error"
      <4>1. Verdict[lane[q]].status \in FinishedStatuses /\ Verdict[lane[q]].message \in Messages
        BY <3>2 DEF RecordOutcome, Verdict, Outcomes, FinishedStatuses, Messages
      <4> QED
        BY <3>2, <4>1 DEF RecordOutcome
    <3> QED
      BY <1>4, <3>1, <3>2 DEF PipelineThrows, RecordOutcome
  <2>3. NoNewHolder /\ Stamped'
    <3>1. CASE RequeueRow(cur[q])
      BY <2>1, <3>1, ReviveIsQuiet DEF RequeueRow, ActiveStatuses
    <3>2. ASSUME NEW st \in FinishedStatuses, NEW msg \in Messages, FinishRow(cur[q], st, msg)
          PROVE  NoNewHolder /\ Stamped'
      BY <2>1, <3>2, FinishIsQuiet
    <3> QED
      BY <2>2, <3>1, <3>2
  <2>4. NamedRunsExist'
    BY <1>1, <2>1, <2>3 DEF LockInv, NamedRunsExist, NoNewHolder, Created
  <2> QED
    BY <1>1, <2>3, <2>4, QuietKeepsLock DEF Quiet
<1>5. CASE Post(q) \/ BookkeepingThrows(q) \/ Settle(q) \/ LaneJobEnds(q) \/ Cancel(q)
  <2>1. UNCHANGED <<status, finishedAt, input>>
    BY <1>5 DEF Post, BookkeepingThrows, Settle, LaneJobEnds, Cancel
  <2>2. \A p \in Queues : step'[p] # "idle" => step[p] # "idle" /\ cur'[p] = cur[p]
    BY <1>5 DEF Post, BookkeepingThrows, Settle, LaneJobEnds, Cancel
  <2>3. \A r \in Runs : bull'[r] # "absent" => bull[r] # "absent" \/ (step[q] # "idle" /\ r = cur[q])
    BY <1>5 DEF Post, BookkeepingThrows, Settle, LaneJobEnds, Cancel
  <2>4. NamedRunsExist'
    BY <1>1, <2>1, <2>2, <2>3 DEF LockInv, NamedRunsExist, Created
  <2> QED
    BY <1>1, <2>1, <2>4, SameRowsQuiet, QuietKeepsLock DEF Quiet
<1> QED
  BY <1>2, <1>3, <1>4, <1>5 DEF WorkerStep

\* Only rows that exist are swept.
LEMMA LockJanitor ==
    ASSUME TypeInv, LockInv, JanitorStep
    PROVE  LockInv'
<1> USE DEF TypeInv, TypeOK, rowVars, bullVars, clientVars, workerVars, janitorVars, Janitors
<1>1. UNCHANGED <<guard, pc, req, mine, late, step, cur>>
  BY DEF JanitorStep, OrphanSelect, OrphanCheck, OrphanCheckTimesOut, StaleRead, StaleProbe,
         ResetSelect, JanitorFail, JanitorRemove, JanitorRemoveFails, JanitorAborts, ResetLanes
<1>2. NoNewCheck /\ GuardOwner'
  BY <1>1 DEF NoNewCheck, LockInv, GuardOwner
<1>3. ASSUME NEW j \in Janitors, NEW r \in Runs, JanitorFail(j, r) PROVE LockInv'
  <2>1. /\ FinishRow(r, "failed", j) /\ Created(r)
        /\ bull' = bull /\ todo' = todo /\ doomed' = [doomed EXCEPT ![j] = @ \ {r}]
    BY <1>3 DEF JanitorFail, LockInv, NamedRunsExist
  <2>2. NoNewHolder /\ Stamped'
    BY <2>1, FinishIsQuiet DEF FinishedStatuses, Messages
  <2>3. \A k \in Janitors : todo'[k] = todo[k] /\ doomed'[k] \subseteq doomed[k]
    BY <2>1
  <2>4. \A s \in Runs : Created(s) => Created(s)'
    BY <2>2 DEF NoNewHolder
  <2>5. /\ \A s \in Runs : bull'[s] # "absent" => Created(s)'
        /\ \A q \in Queues : step'[q] # "idle" => Created(cur[q])'
    BY <1>1, <2>1, <2>4 DEF LockInv, NamedRunsExist, Refs
  <2>6. /\ \A c \in Clients : pc'[c] \in {"created", "linked", "timedOut"} => Created(mine[c])'
        /\ \A c \in Clients, s \in Runs : <<c, s>> \in late' => Created(s)'
    BY <1>1, <2>4 DEF LockInv, NamedRunsExist, Refs
  <2>7. \A k \in Janitors, s \in Runs : s \in todo'[k] \cup doomed'[k] => Created(s)'
    BY <2>3, <2>4 DEF LockInv, NamedRunsExist
  <2> QED
    BY <1>2, <2>2, <2>5, <2>6, <2>7, QuietKeepsLock DEF Quiet, NamedRunsExist
<1>4. CASE ~\E j \in Janitors, r \in Runs : JanitorFail(j, r)
  <2>1. UNCHANGED <<status, finishedAt, input>>
    BY <1>4 DEF JanitorStep, OrphanSelect, OrphanCheck, OrphanCheckTimesOut, StaleRead, StaleProbe,
                ResetSelect, JanitorRemove, JanitorRemoveFails, JanitorAborts, ResetLanes
  <2>2. \A r \in Runs : bull'[r] # "absent" => bull[r] # "absent"
    BY <1>4 DEF JanitorStep, OrphanSelect, OrphanCheck, OrphanCheckTimesOut, StaleRead, StaleProbe,
                ResetSelect, JanitorRemove, JanitorRemoveFails, JanitorAborts, ResetLanes
  <2>3. \A j \in Janitors, r \in Runs :
            r \in todo'[j] \cup doomed'[j] => r \in todo[j] \cup doomed[j] \/ Created(r)
    BY <1>4 DEF JanitorStep, OrphanSelect, OrphanCheck, OrphanCheckTimesOut, StaleRead, StaleProbe,
                ResetSelect, JanitorRemove, JanitorRemoveFails, JanitorAborts, ResetLanes,
                ActiveRuns, Active, ActiveStatuses, Created
  <2>4. NamedRunsExist'
    BY <1>1, <2>1, <2>2, <2>3 DEF LockInv, NamedRunsExist, Created
  <2> QED
    BY <1>2, <2>1, <2>4, SameRowsQuiet, QuietKeepsLock DEF Quiet
<1> QED
  BY <1>3, <1>4

\* No row exists.
LEMMA LockInit == Init => LockInv
BY RunQueueAssumption
   DEF Init, LockInv, GuardOwner, CheckStands, NamedRunsExist, Stamped, Finished, FinishedStatuses,
       IdsInOrder, Created, Exclusive, Holds, Active, ActiveStatuses, Clients

\* Every step keeps the lock.
LEMMA LockStep == TypeInv /\ LockInv /\ [Next]_vars => LockInv'
<1> SUFFICES ASSUME TypeInv, LockInv, [Next]_vars PROVE LockInv'
  OBVIOUS
<1> USE RunQueueAssumption DEF rowVars, bullVars, clientVars, workerVars, janitorVars
<1>1. CASE WorkerCrash \/ WorkerStart
  <2>1. /\ UNCHANGED <<status, finishedAt, input, bull, guard, pc, req, mine, late, todo, doomed>>
        /\ \A q \in Queues : step'[q] # "idle" => step[q] # "idle" /\ cur'[q] = cur[q]
    BY <1>1 DEF WorkerCrash, WorkerStart
  <2>2. NoNewCheck /\ GuardOwner' /\ NamedRunsExist'
    BY <2>1 DEF NoNewCheck, LockInv, GuardOwner, NamedRunsExist, Created
  <2> QED
    BY <2>1, <2>2, SameRowsQuiet, QuietKeepsLock DEF Quiet
<1>2. CASE ApiRestart
  <2>1. UNCHANGED <<status, finishedAt, input, bull, step, cur>>
    BY <1>2 DEF ApiRestart
  <2>2. NoNewCheck /\ GuardOwner'
    BY <1>2 DEF ApiRestart, ClientsDie, NoNewCheck, LockInv, GuardOwner
  <2>3. /\ \A j \in Janitors : todo'[j] = {} /\ doomed'[j] = {}
        /\ late' \subseteq late
        /\ \A c \in Clients : pc'[c] # "idle" => pc'[c] = pc[c] /\ mine'[c] = mine[c]
    BY <1>2 DEF ApiRestart, ClientsDie
  <2>4. NamedRunsExist'
    BY <2>1, <2>3 DEF LockInv, NamedRunsExist, Created
  <2> QED
    BY <2>1, <2>2, <2>4, SameRowsQuiet, QuietKeepsLock DEF Quiet
<1>3. CASE UNCHANGED vars
  BY <1>3 DEF vars, LockInv, GuardOwner, CheckStands, NamedRunsExist, Stamped, Finished, IdsInOrder,
              Created, Exclusive, Holds, Active, BehindRefresh
<1>4. ASSUME NEW r \in Runs, BullStep(r) PROVE LockInv'
  <2> USE DEF TypeInv, TypeOK
  <2>1. /\ UNCHANGED <<status, finishedAt, input, guard, pc, req, mine, late, step, cur, todo, doomed>>
        /\ \A s \in Runs : bull'[s] # "absent" => bull[s] # "absent"
    BY <1>4 DEF BullStep, Promote, Stalled
  <2>2. NoNewCheck /\ GuardOwner' /\ NamedRunsExist'
    BY <2>1 DEF NoNewCheck, LockInv, GuardOwner, NamedRunsExist, Created
  <2> QED
    BY <2>1, <2>2, SameRowsQuiet, QuietKeepsLock DEF Quiet
<1> QED
  BY <1>1, <1>2, <1>3, <1>4, LockClient, LockWorker, LockJanitor DEF Next

\* The rows of etl_job_runs are a lock: of two never-finished rows of one
\* queue that are queued or running together, the older is a 30-minute
\* refresh and the newer asked to queue behind it.  For any number of
\* enqueuers, runs, attempts, crashes, outages and resets.
THEOREM LockIsExclusive == Spec => []Exclusive
<1>1. TypeInv /\ LockInv /\ [Next]_vars => (TypeInv /\ LockInv)'
  BY TypeStep, LockStep
<1>2. Spec => [](TypeInv /\ LockInv)
  BY TypeInit, LockInit, <1>1, PTL DEF Spec
<1> QED
  BY <1>2, PTL DEF LockInv

-----------------------------------------------------------------------------
(* Attempts and retries *)

\* A handler's job is active, and no other handler has it.
OneHandler ==
    /\ \A q \in Queues : step[q] # "idle" => bull[cur[q]] = "active"
    /\ \A q, p \in Queues : step[q] # "idle" /\ step[p] # "idle" /\ cur[q] = cur[p] => q = p

\* A run is added to its queue once: by its enqueuer or, when that gave up,
\* by the command that was left on the connection.
AddedOnce ==
    /\ \A c \in Clients : pc[c] \in {"created", "linked"} => bull[mine[c]] = "absent"
    /\ \A c, d \in Clients :
          pc[c] \in {"created", "linked", "timedOut"} /\ pc[d] \in {"created", "linked", "timedOut"}
              /\ mine[c] = mine[d] => c = d
    /\ \A c \in Clients, r \in Runs : <<c, r>> \in late =>
          /\ bull[r] = "absent"
          /\ \A d \in Clients : pc[d] \in {"created", "linked"} => mine[d] # r
          /\ \A d \in Clients : <<d, r>> \in late => c = d

\* What a failed attempt that will be retried leaves in the row.
Kept(r) == Active(r) \/ message[r] \in Overrides \/ r \in FaultyRuns
ThrewIsKept == \A q \in Queues : step[q] = "threw" /\ WillRetry(cur[q]) => Kept(cur[q])

AttemptInv ==
    /\ TypeInv /\ LockInv /\ OneHandler /\ AddedOnce
    /\ ThrewIsKept /\ RetryHoldsLock /\ AttemptIsShown

\* A run's row and attempts are touched by its one handler, by those that
\* give it up, or not at all.
LEMMA AttemptStep == AttemptInv /\ [Next]_vars => AttemptInv'
<1> SUFFICES ASSUME AttemptInv, [Next]_vars PROVE AttemptInv'
  OBVIOUS
<1> USE DEF AttemptInv
<1>0. TypeInv' /\ LockInv'
  BY TypeStep, LockStep
<1>1. ASSUME NEW c \in Clients, ClientStep(c) PROVE AttemptInv'
  <2> USE DEF TypeInv, TypeOK, Refs, rowVars, bullVars, clientVars, workerVars, janitorVars,
              OneHandler, AddedOnce, ThrewIsKept, Kept, Active, WillRetry, RetryHoldsLock, AttemptIsShown
  <2>1. ASSUME NEW i \in Asked, EnqueueCheck(c, i) PROVE AttemptInv'
    BY <1>0, <2>1 DEF EnqueueCheck
  <2>2. CASE EnqueueInsert(c)
    <3>0. PICK r \in Runs : /\ FreshId(r) /\ status' = [status EXCEPT ![r] = "queued"]
                            /\ input' = [input EXCEPT ![r] = req[c]]
                            /\ mine' = [mine EXCEPT ![c] = r]
      BY <2>2 DEF EnqueueInsert
    <3>1. bull[r] = "absent" /\ \A q \in Queues : step[q] # "idle" => cur[q] # r
      BY <3>0 DEF LockInv, NamedRunsExist, Created, FreshId
    <3>2. /\ \A d \in Clients : pc[d] \in {"created", "linked", "timedOut"} => mine[d] # r
          /\ \A d \in Clients : <<d, r>> \notin late
      BY <3>0 DEF LockInv, NamedRunsExist, Created, FreshId
    <3>3. OneHandler' /\ AddedOnce'
      BY <2>2, <3>0, <3>1, <3>2 DEF EnqueueInsert
    <3>4. ThrewIsKept' /\ RetryHoldsLock' /\ AttemptIsShown'
      BY <2>2, <3>0, <3>1 DEF EnqueueInsert
    <3> QED
      BY <1>0, <3>3, <3>4
  <2>3. CASE EnqueueLink(c)
    BY <1>0, <2>3 DEF EnqueueLink
  <2>4. CASE EnqueueAdd(c)
    BY <1>0, <2>4 DEF EnqueueAdd
  <2>5. CASE EnqueueTimeout(c)
    BY <1>0, <2>5 DEF EnqueueTimeout
  <2>6. CASE EnqueueGiveUp(c)
    BY <1>0, <2>6 DEF EnqueueGiveUp, FinishRow, Overrides
  <2>7. CASE EnqueueThrows(c)
    BY <1>0, <2>7 DEF EnqueueThrows
  <2>8. ASSUME NEW r \in Runs, LateAdd(c, r) PROVE AttemptInv'
    BY <1>0, <2>8 DEF LateAdd
  <2>9. CASE CliCrash(c)
    BY <1>0, <2>9 DEF CliCrash, ClientsDie
  <2> QED
    BY <1>1, <2>1, <2>2, <2>3, <2>4, <2>5, <2>6, <2>7, <2>8, <2>9 DEF ClientStep
<1>2. ASSUME NEW q \in Queues, WorkerStep(q) PROVE AttemptInv'
  <2> USE DEF TypeInv, TypeOK, Refs, rowVars, bullVars, clientVars, workerVars, janitorVars,
              OneHandler, AddedOnce, ThrewIsKept, Kept, Active, WillRetry, RetryHoldsLock, AttemptIsShown
  <2>1. ASSUME NEW r \in Runs, Pick(q, r) PROVE AttemptInv'
    BY <1>0, <2>1 DEF Pick
  <2>2. CASE MarkStarted(q)
    BY <1>0, <2>2 DEF MarkStarted, ActiveStatuses
  <2>3. CASE Post(q) \/ LaneJobEnds(q) \/ Cancel(q)
    <3>1. /\ UNCHANGED <<status, message, input, bull, made, pc, mine, late, cur>>
          /\ \A p \in Queues : step'[p] = step[p] \/ (step[p] = "started" /\ step'[p] = "polling")
      BY <2>3 DEF Post, LaneJobEnds, Cancel
    <3>2. OneHandler' /\ AddedOnce'
      BY <3>1
    <3>3. ThrewIsKept' /\ RetryHoldsLock'
      BY <3>1
    <3>4. AttemptIsShown'
      BY <3>1
    <3> QED
      BY <1>0, <3>2, <3>3, <3>4
  <2>4. CASE PipelineThrows(q) \/ RecordOutcome(q)
    <3> DEFINE r == cur[q]
    <3>1. \A s \in Runs \ {r} : status'[s] = status[s] /\ message'[s] = message[s]
      BY <2>4 DEF PipelineThrows, RecordFailure, RecordOutcome, RequeueRow, FinishRow
    <3>2. step' = [step EXCEPT ![q] = "threw"] \/ step' = [step EXCEPT ![q] = "returned"]
      BY <2>4 DEF PipelineThrows, RecordFailure, RecordOutcome
    <3>3. step'[q] = "threw" /\ WillRetry(r) => status'[r] \in ActiveStatuses
      BY <2>4 DEF PipelineThrows, RecordFailure, RecordOutcome, RequeueRow, ActiveStatuses
    <3>4. step[q] # "idle" /\ UNCHANGED <<input, bull, made, pc, mine, late, cur>>
      BY <2>4 DEF PipelineThrows, RecordFailure, RecordOutcome, RequeueRow, FinishRow
    <3> HIDE DEF r
    <3>5. OneHandler' /\ AddedOnce'
      BY <3>2, <3>4
    <3>6. RetryHoldsLock'
      BY <3>1, <3>4 DEF r
    <3>7. ThrewIsKept' /\ AttemptIsShown'
      BY <3>1, <3>2, <3>3, <3>4 DEF r
    <3> QED
      BY <1>0, <3>5, <3>6, <3>7
  <2>6. CASE BookkeepingThrows(q)
    BY <1>0, <2>6 DEF BookkeepingThrows
  <2>7. CASE Settle(q)
    BY <1>0, <2>7 DEF Settle
  <2> QED
    BY <1>2, <2>1, <2>2, <2>3, <2>4, <2>6, <2>7 DEF WorkerStep
<1>3. ASSUME NEW r \in Runs, BullStep(r) PROVE AttemptInv'
  <2> USE DEF TypeInv, TypeOK, Refs, rowVars, bullVars, clientVars, workerVars, janitorVars,
              OneHandler, AddedOnce, ThrewIsKept, Kept, Active, WillRetry, RetryHoldsLock, AttemptIsShown
  <2>1. CASE Promote(r)
    BY <1>0, <2>1 DEF Promote
  <2>2. CASE Stalled(r)
    BY <1>0, <2>2 DEF Stalled, HasHandler
  <2> QED
    BY <1>3, <2>1, <2>2 DEF BullStep
<1>4. CASE JanitorStep
  <2> USE DEF TypeInv, TypeOK, Refs, rowVars, bullVars, clientVars, workerVars, janitorVars,
              OneHandler, AddedOnce, ThrewIsKept, Kept, Active, WillRetry, RetryHoldsLock, AttemptIsShown
  <2>1. ASSUME NEW j \in Janitors, NEW r \in Runs, JanitorFail(j, r) PROVE AttemptInv'
    BY <1>0, <2>1 DEF JanitorFail, FinishRow, Overrides
  <2>2. ASSUME NEW j \in Janitors, NEW r \in Runs, JanitorRemove(j, r) PROVE AttemptInv'
    BY <1>0, <2>2 DEF JanitorRemove, HasHandler
  <2>3. CASE UNCHANGED <<status, message, input, bull, made, pc, mine, late, step, cur>>
    BY <1>0, <2>3
  <2> QED
    BY <1>4, <2>1, <2>2, <2>3
    DEF JanitorStep, OrphanSelect, OrphanCheck, OrphanCheckTimesOut, StaleRead, StaleProbe, ResetSelect,
        JanitorRemoveFails, JanitorAborts, ResetLanes
<1>5. CASE WorkerCrash \/ WorkerStart \/ ApiRestart \/ UNCHANGED vars
  <2> USE DEF TypeInv, TypeOK, Refs, rowVars, bullVars, clientVars, workerVars, janitorVars,
              OneHandler, AddedOnce, ThrewIsKept, Kept, Active, WillRetry, RetryHoldsLock, AttemptIsShown
  <2>1. /\ UNCHANGED <<status, message, input, bull, made>>
        /\ \A p \in Queues : step'[p] # "idle" => step'[p] = step[p] /\ cur'[p] = cur[p]
        /\ late' \subseteq late
        /\ \A d \in Clients : pc'[d] # "idle" => pc'[d] = pc[d] /\ mine'[d] = mine[d]
    BY <1>5 DEF WorkerCrash, WorkerStart, ApiRestart, ClientsDie, vars
  <2>2. OneHandler' /\ ThrewIsKept' /\ RetryHoldsLock' /\ AttemptIsShown'
    BY <2>1
  <2>3. AddedOnce'
    BY <2>1
  <2> QED
    BY <1>0, <2>2, <2>3
<1> QED
  BY <1>1, <1>2, <1>3, <1>4, <1>5 DEF Next

\* A failed attempt that BullMQ will repeat keeps the lock through its
\* backoff, whatever crashes, is swept, reset or added late.
THEOREM RetriesHoldLock == Spec => []RetryHoldsLock
<1>1. Init => AttemptInv
  BY TypeInit, LockInit
  DEF Init, AttemptInv, OneHandler, AddedOnce, ThrewIsKept, RetryHoldsLock, AttemptIsShown
<1> QED
  BY <1>1, AttemptStep, PTL DEF Spec, AttemptInv

\* The attempt a handler is at is shown as running, unless somebody gave the
\* run up meanwhile.
THEOREM AttemptsAreShown == Spec => []AttemptIsShown
<1>1. Init => AttemptInv
  BY TypeInit, LockInit
  DEF Init, AttemptInv, OneHandler, AddedOnce, ThrewIsKept, RetryHoldsLock, AttemptIsShown
<1> QED
  BY <1>1, AttemptStep, PTL DEF Spec, AttemptInv

\* What a run ended with is final: only its handler, whose job is active, its
\* enqueuer and a janitor that had decided before write the status of a row.
\* For any number of runs and enqueuers, whatever crashes, stalls, is added
\* late or is reset.
THEOREM OutcomesAreFinal == Spec => OutcomeIsFinal
<1> DEFINE Over(r) == /\ bull[r] \in {"completed", "failed"}
                      /\ ~MidEnqueue(r)
                      /\ \A j \in Janitors : r \notin doomed[j]
           Final == \A r \in Runs : Over(r) => status'[r] = status[r]
<1>1. AttemptInv /\ [Next]_vars => [Final]_vars
  <2> SUFFICES ASSUME AttemptInv, [Next]_vars, NEW r \in Runs, Over(r)
               PROVE  status'[r] = status[r]
    OBVIOUS
  <2> USE DEF rowVars, bullVars, clientVars, workerVars, janitorVars
  <2>0. /\ status \in [Runs -> {"none"} \cup ActiveStatuses \cup FinishedStatuses]
        /\ Created(r) /\ \A c \in Clients : mine[c] # r
        /\ \A q \in Queues : step[q] # "idle" => cur[q] # r
    BY DEF AttemptInv, TypeInv, TypeOK, LockInv, NamedRunsExist, OneHandler, MidEnqueue
  <2> HIDE DEF Over
  <2>1. ASSUME NEW c \in Clients, ClientStep(c) PROVE status'[r] = status[r]
    <3>1. CASE EnqueueInsert(c)
      BY <2>0, <3>1 DEF EnqueueInsert, FreshId, Created
    <3>2. CASE EnqueueGiveUp(c)
      BY <2>0, <3>2 DEF EnqueueGiveUp, FinishRow
    <3>3. CASE UNCHANGED status
      BY <3>3
    <3> QED
      BY <2>1, <3>1, <3>2, <3>3
      DEF ClientStep, EnqueueCheck, EnqueueLink, EnqueueAdd, EnqueueTimeout, EnqueueThrows, LateAdd, CliCrash
  <2>2. ASSUME NEW q \in Queues, WorkerStep(q) PROVE status'[r] = status[r]
    <3>1. CASE MarkStarted(q)
      BY <2>0, <3>1 DEF MarkStarted
    <3>2. CASE PipelineThrows(q) \/ RecordOutcome(q)
      BY <2>0, <3>2 DEF PipelineThrows, RecordOutcome, RecordFailure, RequeueRow, FinishRow
    <3>3. CASE UNCHANGED status
      BY <3>3
    <3> QED
      BY <2>2, <3>1, <3>2, <3>3
      DEF WorkerStep, Pick, Post, BookkeepingThrows, Settle, LaneJobEnds, Cancel
  <2>3. CASE JanitorStep
    <3>1. ASSUME NEW j \in Janitors, NEW s \in Runs, JanitorFail(j, s) PROVE status'[r] = status[r]
      <4>1. r # s
        BY <3>1 DEF JanitorFail, Over
      <4> QED
        BY <2>0, <3>1, <4>1 DEF JanitorFail, FinishRow
    <3>2. CASE UNCHANGED status
      BY <3>2
    <3> QED
      BY <2>3, <3>1, <3>2
      DEF JanitorStep, OrphanSelect, OrphanCheck, OrphanCheckTimesOut, StaleRead, StaleProbe, ResetSelect,
          JanitorRemove, JanitorRemoveFails, JanitorAborts, ResetLanes
  <2>4. CASE (\E s \in Runs : BullStep(s)) \/ WorkerCrash \/ WorkerStart \/ ApiRestart \/ UNCHANGED vars
    BY <2>4 DEF BullStep, Promote, Stalled, WorkerCrash, WorkerStart, ApiRestart, vars
  <2> QED
    BY <2>1, <2>2, <2>3, <2>4 DEF Next
<1>2. Init => AttemptInv
  BY TypeInit, LockInit
  DEF Init, AttemptInv, OneHandler, AddedOnce, ThrewIsKept, RetryHoldsLock, AttemptIsShown
<1> QED
  BY <1>1, <1>2, AttemptStep, PTL DEF Spec, OutcomeIsFinal

-----------------------------------------------------------------------------
(* Who releases the lock *)

\* A handler that is done has finished the row, or left it to a retry; only
\* the jobs of finished rows are removed; a job that BullMQ is done with
\* leaves a lock behind only in the two ways that LockHasAReleaser names.
DoneIsFinished ==
    /\ \A q \in Queues : step[q] = "returned" => cur[q] \in finishedAt
    /\ \A q \in Queues : step[q] = "threw" /\ ~WillRetry(cur[q]) => cur[q] \in finishedAt \cup FaultyRuns
    /\ \A j \in Janitors : removal[j] \subseteq finishedAt
    /\ \A r \in Runs : bull[r] \in {"completed", "failed"} /\ Holds(r) =>
          stalls[r] > MaxStalls \/ r \in FaultyRuns
    /\ \A c \in Clients : pc[c] \in {"idle", "checked"} => mine[c] = 0

\* A row that holds the lock has a live job, an enqueuer or the startup sweep
\* to release it, for any number of runs, crashes, restarts and resets.
THEOREM LockIsReleasable == Spec => []LockHasAReleaser
<1> DEFINE RInv == DoneIsFinished /\ LockHasAReleaser
<1> USE DEF DoneIsFinished, LockHasAReleaser, WillRetry
<1>1. Init => AttemptInv /\ RInv
  <2>1. Init => AttemptInv
    BY TypeInit, LockInit
    DEF Init, AttemptInv, OneHandler, AddedOnce, ThrewIsKept, RetryHoldsLock, AttemptIsShown
  <2> QED
    BY <2>1 DEF Init, Holds, Active, ActiveStatuses
<1>2. AttemptInv /\ RInv /\ [Next]_vars => RInv'
  <2> SUFFICES ASSUME AttemptInv, RInv, [Next]_vars PROVE RInv'
    OBVIOUS
  <2> USE DEF AttemptInv, TypeInv, TypeOK, Refs, rowVars, bullVars, clientVars, workerVars, janitorVars,
              LiveJob, SweepPending, MidEnqueue
  <2>1. ASSUME NEW c \in Clients, ClientStep(c) PROVE RInv'
    <3>2. ASSUME NEW i \in Asked, EnqueueCheck(c, i) PROVE RInv'
      BY <3>2 DEF EnqueueCheck, Holds, Active
    <3>3. CASE EnqueueInsert(c)
      <4>0. PICK r \in Runs : /\ FreshId(r) /\ status' = [status EXCEPT ![r] = "queued"]
                              /\ input' = [input EXCEPT ![r] = req[c]]
                              /\ mine' = [mine EXCEPT ![c] = r]
        BY <3>3 DEF EnqueueInsert
      <4>1. bull[r] = "absent" /\ \A q \in Queues : step[q] # "idle" => cur[q] # r
        BY <4>0 DEF LockInv, NamedRunsExist, Created, FreshId
      <4>2. pc[c] = "checked" /\ UNCHANGED <<finishedAt, bull, made, stalls, step, cur, removal, jpc, todo, doomed>>
        BY <3>3 DEF EnqueueInsert
      <4>3. \A s \in Runs : s # r => (Holds(s)' <=> Holds(s))
        BY <4>0, <4>2 DEF Holds, Active
      <4>4. pc' = [pc EXCEPT ![c] = "created"]
        BY <3>3 DEF EnqueueInsert
      <4>5. DoneIsFinished'
        BY <4>0, <4>1, <4>2, <4>3, <4>4
      <4>6. \A s \in Runs : MidEnqueue(s) => MidEnqueue(s)'
        BY <4>0, <4>2 DEF Runs
      <4>7. MidEnqueue(r)'
        BY <4>0
      <4> QED
        BY <4>2, <4>3, <4>5, <4>6, <4>7
    <3>4. CASE EnqueueLink(c) \/ EnqueueTimeout(c)
      BY <3>4 DEF EnqueueLink, EnqueueTimeout, Holds, Active
    <3>5. CASE EnqueueAdd(c)
      BY <3>5 DEF EnqueueAdd, Holds, Active
    <3>6. CASE EnqueueGiveUp(c)
      BY <3>6 DEF EnqueueGiveUp, FinishRow, Holds, Active, ActiveStatuses
    <3>7. CASE EnqueueThrows(c)
      BY <3>7 DEF EnqueueThrows, Holds, Active
    <3>8. ASSUME NEW r \in Runs, LateAdd(c, r) PROVE RInv'
      BY <3>8 DEF LateAdd, Holds, Active
    <3>9. CASE CliCrash(c)
      BY <3>9 DEF CliCrash, ClientsDie, Holds, Active
    <3> QED
      BY <2>1, <3>2, <3>3, <3>4, <3>5, <3>6, <3>7, <3>8, <3>9 DEF ClientStep
  <2>2. ASSUME NEW q \in Queues, WorkerStep(q) PROVE RInv'
    <3> USE DEF OneHandler
    <3>0. UNCHANGED <<pc, mine, jpc, todo, doomed, removal>>
      BY <2>2 DEF WorkerStep, Pick, MarkStarted, Post, PipelineThrows, RecordOutcome, BookkeepingThrows,
                  Settle, LaneJobEnds, Cancel
    <3>1. ASSUME NEW r \in Runs, Pick(q, r) PROVE RInv'
      BY <3>0, <3>1 DEF Pick, Holds, Active
    <3>2. CASE MarkStarted(q)
      <4>1. \A r \in Runs : Holds(r)' => Holds(r)
        BY <3>2 DEF MarkStarted, Holds, Active, ActiveStatuses, FinishedStatuses, LockInv, Stamped, Finished,
                    NamedRunsExist, Created
      <4> QED
        BY <3>0, <3>2, <4>1 DEF MarkStarted
    <3>3. CASE Post(q) \/ LaneJobEnds(q) \/ Cancel(q)
      <4>1. /\ UNCHANGED <<status, finishedAt, input, bull, made, stalls, cur>>
            /\ \A p \in Queues : step'[p] = step[p] \/ step'[p] = "polling"
        BY <3>3 DEF Post, LaneJobEnds, Cancel
      <4> QED
        BY <3>0, <4>1 DEF Holds, Active
    <3>4. CASE PipelineThrows(q) \/ RecordOutcome(q)
      <4> DEFINE r == cur[q]
      <4>1. /\ step[q] # "idle" /\ UNCHANGED <<input, bull, made, stalls, cur>>
            /\ step' = [step EXCEPT ![q] = "threw"] \/ step' = [step EXCEPT ![q] = "returned"]
            /\ finishedAt \subseteq finishedAt'
        BY <3>4 DEF PipelineThrows, RecordFailure, RecordOutcome, RequeueRow, FinishRow
      <4>2. r \in finishedAt' \/ (step'[q] = "threw" /\ WillRetry(r))
        BY <3>4 DEF PipelineThrows, RecordFailure, RecordOutcome, RequeueRow, FinishRow
      <4>3. bull[r] = "active" /\ r \in Runs
        BY <4>1
      <4>4. \A s \in Runs \ {r} : status'[s] = status[s]
        BY <3>4 DEF PipelineThrows, RecordFailure, RecordOutcome, RequeueRow, FinishRow
      <4>5. \A s \in Runs \ {r} : Holds(s)' => Holds(s)
        BY <4>1, <4>4 DEF Holds, Active
      <4> HIDE DEF r
      <4>6. DoneIsFinished'
        BY <3>0, <4>1, <4>2, <4>3, <4>5 DEF r
      <4>7. LockHasAReleaser'
        BY <3>0, <4>1, <4>3, <4>5
      <4> QED
        BY <4>6, <4>7
    <3>5. CASE BookkeepingThrows(q)
      <4>1. /\ UNCHANGED <<status, finishedAt, input, pc, bull, made, stalls, cur>>
            /\ step' = [step EXCEPT ![q] = "threw"] /\ cur[q] \in FaultyRuns
        BY <3>5 DEF BookkeepingThrows
      <4>2. \A r \in Runs : Holds(r)' <=> Holds(r)
        BY <4>1 DEF Holds, Active
      <4> QED
        BY <3>0, <4>1, <4>2
    <3>6. CASE Settle(q)
      <4>1. cur[q] \in Runs /\ (Holds(cur[q]) => bull'[cur[q]] = "delayed" \/ cur[q] \in FaultyRuns)
        BY <3>6 DEF Settle, Holds
      <4>2. /\ UNCHANGED <<status, finishedAt, input, stalls>>
            /\ \A r \in Runs \ {cur[q]} : bull'[r] = bull[r] /\ made'[r] = made[r]
            /\ \A p \in Queues \ {q} : step'[p] = step[p] /\ cur'[p] = cur[p]
            /\ step'[q] = "idle" /\ step[q] # "idle"
        BY <3>6 DEF Settle
      <4>3. \A r \in Runs : Holds(r)' <=> Holds(r)
        BY <4>2 DEF Holds, Active
      <4>4. \A p \in Queues \ {q} : step[p] # "idle" => cur[p] \in Runs \ {cur[q]}
        BY <4>2
      <4>5. DoneIsFinished'
        BY <3>0, <4>1, <4>2, <4>3, <4>4
      <4>6. LockHasAReleaser'
        BY <3>0, <4>1, <4>2, <4>3
      <4> QED
        BY <4>5, <4>6
    <3> QED
      BY <2>2, <3>1, <3>2, <3>3, <3>4, <3>5, <3>6 DEF WorkerStep
  <2>3. ASSUME NEW r \in Runs, BullStep(r) PROVE RInv'
    <3>1. CASE Promote(r)
      BY <3>1 DEF Promote, Holds, Active
    <3>2. CASE Stalled(r)
      BY <3>2, RunQueueAssumption DEF Stalled, Holds, Active
    <3> QED
      BY <2>3, <3>1, <3>2 DEF BullStep
  <2>4. CASE JanitorStep
    <3> USE DEF Janitors
    <3>1. CASE OrphanSelect
      BY <3>1 DEF OrphanSelect, ActiveRuns, Holds, Active
    <3>2. ASSUME NEW r \in Runs, OrphanCheck(r) PROVE RInv'
      <4>1. /\ UNCHANGED <<status, finishedAt, input, bull, made, stalls, pc, mine, step, cur, jpc, removal>>
            /\ \A s \in Runs : SweepPending(s) => SweepPending(s)' \/ s = r
            /\ bull[r] = "absent" => SweepPending(r)'
        BY <3>2 DEF OrphanCheck
      <4>2. \A s \in Runs : Holds(s)' <=> Holds(s)
        BY <4>1 DEF Holds, Active
      <4>3. bull[r] # "absent" => LiveJob(r) \/ bull[r] \in {"completed", "failed"}
        BY DEF BullStates
      <4> QED
        BY <4>1, <4>2, <4>3
    <3>3. ASSUME NEW r \in Runs, OrphanCheckTimesOut(r) PROVE RInv'
      BY <3>3 DEF OrphanCheckTimesOut, Holds, Active
    <3>4. CASE StaleProbe \/ ResetSelect \/ ResetLanes \/ \E S \in SUBSET Runs : StaleRead(S)
      <4>1. /\ UNCHANGED <<status, finishedAt, input, bull, made, stalls, pc, mine, step, cur, removal>>
            /\ todo'["orphan"] = todo["orphan"] /\ doomed'["orphan"] = doomed["orphan"]
            /\ jpc'["orphan"] = jpc["orphan"]
        BY <3>4 DEF StaleProbe, ResetSelect, ResetLanes, StaleRead
      <4> QED
        BY <4>1 DEF Holds, Active
    <3>5. ASSUME NEW j \in Janitors, NEW r \in Runs, JanitorFail(j, r) PROVE RInv'
      <4>1. /\ UNCHANGED <<input, bull, made, stalls, pc, mine, step, cur, jpc, todo>>
            /\ finishedAt' = finishedAt \cup {r}
            /\ \A s \in Runs \ {r} : Holds(s)' <=> Holds(s)
            /\ ~Holds(r)'
        BY <3>5 DEF JanitorFail, FinishRow, Holds, Active
      <4>2. \A k \in Janitors : removal'[k] \subseteq removal[k] \cup {r}
        BY <3>5 DEF JanitorFail
      <4>3. doomed["orphan"] \subseteq doomed'["orphan"] \cup {r}
        BY <3>5 DEF JanitorFail
      <4> QED
        BY <4>1, <4>2, <4>3
    <3>6. ASSUME NEW j \in Janitors, NEW r \in Runs, JanitorRemove(j, r) PROVE RInv'
      BY <3>6 DEF JanitorRemove, Holds, Active
    <3>7. ASSUME NEW j \in Janitors, NEW r \in Runs, JanitorRemoveFails(j, r) PROVE RInv'
      BY <3>7 DEF JanitorRemoveFails, Holds, Active
    <3>8. ASSUME NEW j \in Janitors, JanitorAborts(j) PROVE RInv'
      BY <3>8 DEF JanitorAborts, Holds, Active
    <3> QED
      BY <2>4, <3>1, <3>2, <3>3, <3>4, <3>5, <3>6, <3>7, <3>8 DEF JanitorStep
  <2>5. CASE WorkerCrash \/ WorkerStart
    <3>1. /\ UNCHANGED <<status, finishedAt, input, bull, made, stalls, pc, mine, jpc, todo, doomed, removal>>
          /\ \A p \in Queues : step'[p] # "idle" => step'[p] = step[p] /\ cur'[p] = cur[p]
      BY <2>5 DEF WorkerCrash, WorkerStart
    <3> QED
      BY <3>1 DEF Holds, Active
  <2>6. CASE ApiRestart
    <3>1. /\ UNCHANGED <<status, finishedAt, input, bull, made, stalls, step, cur>>
          /\ \A d \in Clients : \/ pc'[d] = "idle" /\ mine'[d] = 0
                                \/ pc'[d] = pc[d] /\ mine'[d] = mine[d]
          /\ \A j \in Janitors : removal'[j] = {} \/ removal'[j] = removal[j]
      BY <2>6 DEF ApiRestart, ClientsDie
    <3>2. \A r \in Runs : Holds(r)' <=> Holds(r)
      BY <3>1 DEF Holds, Active
    <3>3. DoneIsFinished'
      BY <3>1, <3>2
    <3>4. ~SweepMaySkip => \A r \in Runs : SweepPending(r)'
      BY <2>6 DEF ApiRestart, Janitors
    <3> QED
      BY <3>1, <3>2, <3>3, <3>4
  <2>7. CASE UNCHANGED vars
    BY <2>7 DEF vars, Holds, Active
  <2> QED
    BY <2>1, <2>2, <2>3, <2>4, <2>5, <2>6, <2>7 DEF Next
<1> QED
  BY <1>1, <1>2, AttemptStep, PTL DEF Spec

-----------------------------------------------------------------------------
(* EtlRunQueue implements EtlLane *)

\* The backend posts to a lane that is free, asks a job to stop that it
\* polls, and a lane is free again when its job ended or was reset.
THEOREM BackendUsesContract == Spec => UsesContract
<1> DEFINE slot == [q \in Queues |-> Slot(q)]
<1>1. Init => Contract!Init
  BY DEF Init, Contract!Init, Slot, LaneAlive
<1>2. TypeInv /\ [Next]_vars => [Contract!Next]_(Contract!vars)
  <2> SUFFICES ASSUME TypeInv, [Next]_vars PROVE [Contract!Next]_(Contract!vars)
    OBVIOUS
  <2> USE DEF TypeInv, TypeOK, workerVars, Slot, LaneAlive
  <2>1. CASE UNCHANGED lane
    BY <2>1 DEF Contract!vars
  <2>2. ASSUME NEW q \in Queues, ~LaneAlive(q), lane' = [lane EXCEPT ![q] = "busy"]
        PROVE  Contract!Next
    <3>1. slot[q] = "free" /\ slot' = [slot EXCEPT ![q] = "run"]
      BY <2>2
    <3> QED
      BY <3>1 DEF Contract!Next, Contract!Begin
  <2>3. ASSUME NEW q \in Queues, Cancel(q) PROVE Contract!Next
    <3>1. slot[q] = "run" /\ slot' = [slot EXCEPT ![q] = "stop"]
      BY <2>3 DEF Cancel
    <3> QED
      BY <3>1 DEF Contract!Next, Contract!AskToStop
  <2>4. ASSUME \A q \in Queues : Slot(q)' \in {Slot(q), "free"}
        PROVE  Contract!Next
    <3> DEFINE S == {q \in Queues : Slot(q) # "free" /\ Slot(q)' = "free"}
    <3>1. slot' = [q \in Queues |-> IF q \in S THEN "free" ELSE slot[q]]
      BY <2>4
    <3>2. S \in SUBSET Queues /\ \A q \in S : slot[q] # "free"
      OBVIOUS
    <3> QED
      BY <3>1, <3>2 DEF Contract!Next, Contract!End
  <2>5. ASSUME NEW q \in Queues,
               lane[q] \in Outcomes \cup {"cancelled"}, lane' = [lane EXCEPT ![q] = "free"]
        PROVE  Contract!Next
    BY <2>4, <2>5 DEF Outcomes
  <2>6. ASSUME NEW q \in Queues, LaneJobEnds(q) PROVE Contract!Next
    <3>1. PICK o \in LaneEnds \cup {"cancelled"} : lane' = [lane EXCEPT ![q] = o]
      BY <2>6 DEF LaneJobEnds
    <3>2. o \notin {"busy", "cancelling"}
      BY RunQueueAssumption DEF Outcomes
    <3> QED
      BY <2>4, <3>1, <3>2
  <2>7. CASE ResetLanes
    BY <2>1, <2>4, <2>7 DEF ResetLanes
  <2> QED
    BY <2>1, <2>2, <2>3, <2>5, <2>6, <2>7
    DEF Next, ClientStep, EnqueueCheck, EnqueueInsert, EnqueueLink, EnqueueAdd, EnqueueTimeout,
        EnqueueGiveUp, EnqueueThrows, LateAdd, CliCrash, WorkerStep, Pick, MarkStarted, Post,
        PipelineThrows, RecordOutcome, BookkeepingThrows, Settle, BullStep, Promote, Stalled,
        JanitorStep, OrphanSelect, OrphanCheck, OrphanCheckTimesOut, StaleRead, StaleProbe,
        ResetSelect, JanitorFail, JanitorRemove, JanitorRemoveFails, JanitorAborts, WorkerCrash,
        WorkerStart, ApiRestart, vars
<1>3. Spec => []TypeInv
  BY TypeInit, TypeStep, PTL DEF Spec
<1> QED
  BY <1>1, <1>2, <1>3, PTL DEF Spec, UsesContract, Contract!Spec

=============================================================================
