------------------------ MODULE PlatformRunner_proofs ------------------------
(***************************************************************************)
(* What is proved of PlatformRunner for any registry without a dependency  *)
(* cycle, any number of processes and faults: its types, that no two runs  *)
(* write a module at a time, that no two wait for each other, and that a   *)
(* reader finds one load in a live table that is only swapped.             *)
(***************************************************************************)
EXTENDS PlatformRunner, FiniteSetTheorems, TLAPS

\* A run that was started is at a job, which is the top-level one or has a
\* caller, and so has every caller; it looks at a dependency from the first.
Stack ==
    \A r \in Runs :
        /\ phase[r] = "none" => \A j \in Jobs : caller[r][j] = NoJob
        /\ phase[r] # "none" => /\ top[r] \in Jobs /\ cur[r] \in Jobs
                                /\ cur[r] # top[r] => caller[r][cur[r]] \in Jobs
        /\ \A j \in Jobs : caller[r][j] # NoJob /\ caller[r][j] # top[r]
                               => caller[r][caller[r][j]] \in Jobs
        /\ phase[r] = "deps" => at[r][cur[r]] > 0

TypeInv == TypeOK /\ Stack

\* What the tasks of a job that is not swapped do.
Loads(r) == (\E m \in Modules : Commit(r, m)) \/ TasksDone(r)

-----------------------------------------------------------------------------
(* Types *)

Statuses == Good \cup NotRun \cup {"none", "disabled"}
RowSet   == {"none", "running", "success", "partial", "failed", "skipped"}
PhaseSet == {"none", "lock", "start", "deps", "work", "created", "loaded", "finish", "over", "dead"}

\* The part of TypeOK that the end of a job touches.
RunnerOK ==
    /\ cur \in [Runs -> Jobs \cup {NoJob}] /\ at \in [Runs -> [Jobs -> Nat]]
    /\ done \in [Runs -> [Jobs -> Statuses]]
    /\ depFail \in [Runs -> SUBSET Jobs] /\ optFail \in [Runs -> SUBSET Jobs]
    /\ phase \in [Runs -> PhaseSet] /\ result \in [Runs -> Results]
    /\ want \in [Runs -> SUBSET Modules] /\ held \in [Runs -> SUBSET Modules]
    /\ owner \in [Modules -> Runs \cup {Nobody}]

OthersOK ==
    /\ top \in [Runs -> Jobs \cup {NoJob}] /\ caller \in [Runs -> [Jobs -> Jobs \cup {NoJob}]]
    /\ table \in [Modules -> SUBSET (Runs \cup {Nobody})]
    /\ \A m \in Modules : staging[m] = Nobody \/ staging[m] \subseteq Runs
    /\ begun \in [Runs -> [Jobs -> Nat]] /\ unset \subseteq Runs \X Jobs

\* Every variable of the Runner, the locks, etl_run_log and the tables keeps
\* its type, and the chain of callers ends at the top-level job.
THEOREM PlatformTypes == Spec => [](TypeOK /\ Stack)
<1>1. Init => TypeInv
  BY PlatformAssumption
  DEF Init, TypeInv, TypeOK, Stack, None, ByJob, Results, Good, NotRun
<1>2. TypeInv /\ [Next]_vars => TypeInv'
  <2> SUFFICES ASSUME TypeInv, [Next]_vars PROVE TypeInv'
    OBVIOUS
  <2>0. TypeInv' <=>
            /\ RunnerOK' /\ OthersOK' /\ Stack'
            /\ budget' \in [Faults -> Nat] /\ row' \in [Runs -> [Jobs -> RowSet]]
    BY DEF TypeInv, TypeOK, RunnerOK, OthersOK, RowSet, Statuses, PhaseSet
  <2>T. /\ RunnerOK /\ OthersOK /\ Stack
        /\ budget \in [Faults -> Nat] /\ row \in [Runs -> [Jobs -> RowSet]]
    BY DEF TypeInv, TypeOK, RunnerOK, OthersOK, RowSet, Statuses, PhaseSet
  <2>1. ASSUME NEW f, NEW T, f \in [Runs -> [Jobs -> T]], NEW r \in Runs, NEW j \in Jobs, NEW v \in T
        PROVE  /\ Put(f, r, j, v) \in [Runs -> [Jobs -> T]]
               /\ \A s \in Runs, k \in Jobs : Put(f, r, j, v)[s][k] = IF s = r /\ k = j THEN v ELSE f[s][k]
    BY <2>1 DEF Put
  <2>N. ASSUME NEW f \in [Runs -> [Jobs -> Nat]], NEW r \in Runs, NEW j \in Jobs, NEW n \in Nat
        PROVE  /\ Put(f, r, j, n) \in [Runs -> [Jobs -> Nat]] /\ Put(f, r, j, n)[r][j] = n
               /\ \A s \in Runs \ {r}, k \in Jobs : Put(f, r, j, n)[s][k] = f[s][k]
    BY DEF Put
  <2>2. ASSUME NEW S \in SUBSET Faults, Spend(S) PROVE budget' \in [Faults -> Nat]
    BY <2>2, <2>T DEF Spend
  <2>3. ASSUME NEW r \in Runs, NEW j \in Jobs,
               NEW st \in {"running", "failed", "skipped"}, NewRow(r, j, st)
        PROVE  row' \in [Runs -> [Jobs -> RowSet]]
    <3>1. PICK swept \in BOOLEAN :
             row' = Put([x \in Runs |-> [k \in Jobs |->
                       IF swept /\ row[x][k] = "running" THEN "failed" ELSE row[x][k]]], r, j, st)
      BY <2>3 DEF NewRow
    <3> DEFINE g == [x \in Runs |-> [k \in Jobs |->
                       IF swept /\ row[x][k] = "running" THEN "failed" ELSE row[x][k]]]
    <3>2. g \in [Runs -> [Jobs -> RowSet]] /\ st \in RowSet
      BY <2>T DEF RowSet
    <3>3. row' = Put(g, r, j, st)
      BY <3>1
    <3> HIDE DEF g
    <3> QED
      BY <3>2, <3>3, <2>1
  <2>4. ASSUME NEW r \in Runs, NEW j \in Jobs, NEW v \in RowSet, row' = Put(row, r, j, v)
        PROVE  row' \in [Runs -> [Jobs -> RowSet]]
    BY <2>1, <2>4, <2>T
  <2>5. ASSUME NEW r \in Runs, Release(r)
        PROVE  /\ want' \in [Runs -> SUBSET Modules] /\ held' \in [Runs -> SUBSET Modules]
               /\ owner' \in [Modules -> Runs \cup {Nobody}]
    BY <2>5, <2>T DEF Release, RunnerOK
  <2>6. ASSUME NEW r \in Runs, NEW p \in Jobs, NEW d, Fails(r, p, d) \/ NothingFails
        PROVE  depFail' \in [Runs -> SUBSET Jobs] /\ optFail' \in [Runs -> SUBSET Jobs]
    <3>1. optFail[r] \cup {p} \in SUBSET Jobs /\ depFail[r] \cup {p} \in SUBSET Jobs
      BY <2>T DEF RunnerOK
    <3>2. /\ depFail' = depFail \/ depFail' = [depFail EXCEPT ![r] = depFail[r] \cup {p}]
          /\ optFail' = optFail \/ optFail' = [optFail EXCEPT ![r] = optFail[r] \cup {p}]
      BY <2>6 DEF Fails, NothingFails
    <3>3. depFail \in [Runs -> SUBSET Jobs] /\ optFail \in [Runs -> SUBSET Jobs]
      BY <2>T DEF RunnerOK
    <3> QED
      BY <3>1, <3>2, <3>3
  <2>7. ASSUME NEW r \in Runs, NEW j \in Jobs, NEW n \in Nat, at' = Put(at, r, j, n)
        PROVE  /\ at' \in [Runs -> [Jobs -> Nat]] /\ at'[r][j] = n
               /\ \A s \in Runs \ {r}, k \in Jobs : at'[s][k] = at[s][k]
    <3>1. at \in [Runs -> [Jobs -> Nat]]
      BY <2>T DEF RunnerOK
    <3>2. /\ Put(at, r, j, n) \in [Runs -> [Jobs -> Nat]] /\ Put(at, r, j, n)[r][j] = n
          /\ \A s \in Runs \ {r}, k \in Jobs : Put(at, r, j, n)[s][k] = at[s][k]
      BY <3>1 DEF Put
    <3> QED
      BY <2>7, <3>2
  \* a step of r that stays at its job
  <2>8. ASSUME NEW r \in Runs, phase[r] # "none", UNCHANGED <<top, cur, caller>>,
               NEW ph \in PhaseSet \ {"none"}, phase' = [phase EXCEPT ![r] = ph],
               ph = "deps" => at'[r][cur[r]] > 0,
               at' = at \/ \A s \in Runs \ {r}, k \in Jobs : at'[s][k] = at[s][k]
        PROVE  Stack' /\ phase' \in [Runs -> PhaseSet]
    <3>1. phase' \in [Runs -> PhaseSet] /\ phase'[r] = ph /\ \A s \in Runs \ {r} : phase'[s] = phase[s]
      BY <2>8, <2>T DEF RunnerOK
    <3>2. \A s \in Runs \ {r} : phase[s] = "deps" => at'[s][cur[s]] > 0
      BY <2>8, <2>T DEF Stack
    <3> QED
      BY <2>8, <2>T, <3>1, <3>2 DEF Stack
  <2>9. ASSUME NEW r \in Runs, phase[r] \notin {"none", "dead"}, NEW st \in Statuses, NEW raised,
               AtTop(r) => raised \/ st \in Results, Leave(r, st, raised)
        PROVE  RunnerOK' /\ Stack' /\ UNCHANGED <<top, caller>>
    <3> DEFINE p == caller[r][cur[r]]
    <3>1. done' \in [Runs -> [Jobs -> Statuses]] /\ UNCHANGED <<top, caller>>
      BY <2>1, <2>9, <2>T DEF Leave, RunnerOK, Stack
    <3>2. CASE AtTop(r)
      <4>1. /\ phase' = [phase EXCEPT ![r] = "over"]
            /\ Release(r) /\ UNCHANGED <<depFail, optFail, cur, at>>
        BY <3>2, <2>9 DEF Leave, NothingFails
      <4>2. result' \in [Runs -> Results]
        BY <3>2, <2>9, <2>T DEF Leave, Results, RunnerOK
      <4>3. Stack' /\ phase' \in [Runs -> PhaseSet]
        BY <2>8, <2>9, <3>1, <4>1 DEF PhaseSet
      <4> QED
        BY <3>1, <4>1, <4>2, <4>3, <2>5, <2>T DEF RunnerOK
    <3>3. CASE ~AtTop(r)
      <4>1. p \in Jobs /\ (p # top[r] => caller[r][p] \in Jobs) /\ cur[r] \in Jobs /\ top[r] \in Jobs
        <5>1. p \in Jobs /\ cur[r] \in Jobs /\ top[r] \in Jobs
          BY <3>3, <2>9, <2>T DEF Stack, AtTop
        <5>2. p # NoJob
          BY <5>1, PlatformAssumption
        <5> QED
          BY <5>1, <5>2, <2>T DEF Stack
      <4>2. /\ phase' = [phase EXCEPT ![r] = "deps"] /\ cur' = [cur EXCEPT ![r] = p]
            /\ at' = Put(at, r, p, at[r][p] + 1) /\ result' = result
            /\ Release(r) \/ UNCHANGED lockVars
            /\ Fails(r, p, cur[r]) \/ NothingFails
        BY <3>3, <2>9 DEF Leave
      <4> HIDE DEF p
      <4>3. depFail' \in [Runs -> SUBSET Jobs] /\ optFail' \in [Runs -> SUBSET Jobs]
        BY <4>1, <4>2, <2>6
      <4>4. at[r][p] + 1 \in Nat /\ at[r][p] + 1 > 0
        BY <4>1, <2>T DEF RunnerOK
      <4>5. /\ at' \in [Runs -> [Jobs -> Nat]] /\ at'[r][p] > 0
            /\ \A s \in Runs \ {r}, k \in Jobs : at'[s][k] = at[s][k]
        BY <4>1, <4>2, <4>4, <2>7
      <4>6. phase' \in [Runs -> PhaseSet] /\ cur' \in [Runs -> Jobs \cup {NoJob}]
        BY <4>1, <4>2, <2>T DEF RunnerOK, PhaseSet
      <4>7. \A s \in Runs \ {r} : phase'[s] = phase[s] /\ cur'[s] = cur[s]
        BY <4>2, <2>T DEF RunnerOK
      <4>8. phase'[r] = "deps" /\ cur'[r] = p
        BY <4>2, <2>T DEF RunnerOK
      <4>9. \A s \in Runs \ {r} : phase[s] = "deps" => at'[s][cur[s]] > 0
        BY <4>5, <2>T DEF Stack
      <4>10. Stack'
        BY <3>1, <4>1, <4>5, <4>7, <4>8, <4>9, <2>9, <2>T DEF Stack
      <4>11. /\ want' \in [Runs -> SUBSET Modules] /\ held' \in [Runs -> SUBSET Modules]
             /\ owner' \in [Modules -> Runs \cup {Nobody}] /\ result' \in [Runs -> Results]
        BY <4>2, <2>5, <2>T DEF RunnerOK, lockVars
      <4> QED
        BY <3>1, <4>3, <4>5, <4>6, <4>10, <4>11 DEF RunnerOK
    <3> QED
      BY <3>1, <3>2, <3>3
  <2>10. ASSUME NEW r \in Runs, phase[r] \notin {"none", "dead"}, NEW S \in SUBSET Faults, JobFails(r, S),
                begun' = begun, table' = table,
                \A m \in Modules : staging'[m] = Nobody \/ staging'[m] \subseteq Runs
         PROVE  TypeInv'
    <3>1. RunnerOK' /\ Stack' /\ UNCHANGED <<top, caller, unset>>
      BY <2>9, <2>10 DEF JobFails, Statuses, NotRun
    <3>2. row' \in [Runs -> [Jobs -> RowSet]]
      BY <2>4, <2>10, <2>T DEF JobFails, Stack, RowSet
    <3>3. budget' \in [Faults -> Nat]
      BY <2>2, <2>10 DEF JobFails, Faults
    <3> QED
      BY <2>0, <2>T, <2>10, <3>1, <3>2, <3>3 DEF OthersOK
  <2>11. ASSUME NEW r \in Runs, NEW j \in Starts, StartRun(r, j) PROVE TypeInv'
    <3>1. LockNames(r, j, FALSE) \in SUBSET Modules /\ j \in Jobs
      BY PlatformAssumption DEF LockNames
    <3>2. PICK W \in SUBSET Modules : want' = [want EXCEPT ![r] = W]
      BY <2>11, <3>1 DEF StartRun
    <3>3. /\ top' = [top EXCEPT ![r] = j] /\ cur' = [cur EXCEPT ![r] = j]
          /\ phase[r] = "none" /\ phase' = [phase EXCEPT ![r] = "lock"]
          /\ UNCHANGED <<caller, at, done, depFail, optFail, result, held, owner, row, dataVars, budget,
                         begun, unset>>
      BY <2>11 DEF StartRun
    <3>4. RunnerOK'
      BY <3>1, <3>2, <3>3, <2>T DEF RunnerOK, PhaseSet
    <3>5. /\ top'[r] = j /\ cur'[r] = j /\ phase'[r] = "lock"
          /\ \A s \in Runs \ {r} : top'[s] = top[s] /\ cur'[s] = cur[s] /\ phase'[s] = phase[s]
      BY <3>3, <2>T DEF RunnerOK, OthersOK
    <3>6. Stack'
      BY <3>1, <3>3, <3>5, <2>T DEF Stack
    <3> QED
      BY <2>0, <2>T, <3>1, <3>3, <3>4, <3>6 DEF OthersOK, dataVars
  <2>12. ASSUME NEW r \in Runs, TakeLock(r) \/ AllLocked(r) PROVE TypeInv'
    <3>1. /\ phase[r] = "lock" /\ \E ph \in {"lock", "start"} : phase' = [phase EXCEPT ![r] = ph]
          /\ UNCHANGED <<runVars, result, row, dataVars, budget, begun, unset>>
      BY <2>12, <2>T DEF TakeLock, AllLocked, RunnerOK
    <3>2. /\ want' \in [Runs -> SUBSET Modules] /\ held' \in [Runs -> SUBSET Modules]
          /\ owner' \in [Modules -> Runs \cup {Nobody}]
      <4>1. CASE TakeLock(r)
        <5>1. PICK m \in NextLock(r) :
                /\ owner' = [owner EXCEPT ![m] = r] /\ want'  = [want EXCEPT ![r] = want[r] \ {m}]
                /\ held'  = [held EXCEPT ![r] = held[r] \cup {m}]
          BY <4>1 DEF TakeLock
        <5>2. m \in Modules /\ want[r] \ {m} \in SUBSET Modules /\ held[r] \cup {m} \in SUBSET Modules
          BY <2>T DEF NextLock, RunnerOK
        <5> QED
          BY <5>1, <5>2, <2>T DEF RunnerOK
      <4> QED
        BY <2>12, <4>1, <2>T DEF AllLocked, lockVars, RunnerOK
    <3>3. Stack' /\ phase' \in [Runs -> PhaseSet]
      BY <2>8, <3>1 DEF runVars, PhaseSet
    <3>4. RunnerOK'
      BY <3>1, <3>2, <3>3, <2>T DEF RunnerOK, runVars
    <3> QED
      BY <2>0, <2>T, <3>1, <3>3, <3>4 DEF OthersOK, runVars, dataVars
  <2>13. ASSUME NEW r \in Runs, LockBusy(r) PROVE TypeInv'
    <3>1. CASE AtTop(r)
      <4>1. /\ phase[r] = "lock" /\ phase' = [phase EXCEPT ![r] = "over"] /\ Release(r)
            /\ result' = [result EXCEPT ![r] = "locked"]
            /\ UNCHANGED <<runVars, row, dataVars, budget, begun, unset>>
        BY <2>13, <3>1 DEF LockBusy, Busy
      <4>2. Stack' /\ phase' \in [Runs -> PhaseSet]
        BY <2>8, <4>1 DEF runVars, PhaseSet
      <4>3. RunnerOK'
        BY <2>5, <4>1, <4>2, <2>T DEF RunnerOK, Results, runVars
      <4> QED
        BY <2>0, <2>T, <4>1, <4>2, <4>3 DEF OthersOK, runVars, dataVars
    <3>2. CASE ~AtTop(r)
      <4>1. cur[r] \in Jobs
        BY <2>13, <2>T DEF LockBusy, Busy, Stack
      <4>2. RunnerOK' /\ Stack' /\ UNCHANGED <<top, caller>>
        BY <2>9, <2>13, <3>2 DEF LockBusy, Busy, Statuses, NotRun
      <4>3. row' \in [Runs -> [Jobs -> RowSet]] /\ UNCHANGED <<dataVars, budget, begun, unset>>
        BY <2>3, <2>13, <3>2, <4>1 DEF LockBusy, Busy
      <4> QED
        BY <2>0, <2>T, <4>2, <4>3 DEF OthersOK, dataVars
    <3> QED
      BY <3>1, <3>2
  <2>27. ASSUME NEW r \in Runs, SkipRaises(r) PROVE TypeInv'
    <3>1. /\ phase[r] = "lock" /\ phase' = [phase EXCEPT ![r] = "over"] /\ Release(r)
          /\ cur' = [cur EXCEPT ![r] = top[r]] /\ result' = [result EXCEPT ![r] = "failed"]
          /\ done' = Put(done, r, top[r], "failed") /\ row' \in {row, Put(row, r, top[r], "failed")}
          /\ Spend({"log"}) /\ UNCHANGED <<top, caller, at, depFail, optFail, dataVars, begun, unset>>
      BY <2>27 DEF SkipRaises, Busy
    <3>2. top[r] \in Jobs
      BY <3>1, <2>T DEF Stack
    <3>3. done' \in [Runs -> [Jobs -> Statuses]] /\ row' \in [Runs -> [Jobs -> RowSet]]
      BY <3>1, <3>2, <2>1, <2>4, <2>T DEF RunnerOK, Statuses, NotRun, RowSet
    <3>4. RunnerOK' /\ budget' \in [Faults -> Nat]
      BY <3>1, <3>2, <3>3, <2>2, <2>5, <2>T DEF RunnerOK, PhaseSet, Results, Faults
    <3>5. /\ phase'[r] = "over" /\ cur'[r] = top[r]
          /\ \A s \in Runs \ {r} : phase'[s] = phase[s] /\ cur'[s] = cur[s]
      BY <3>1, <2>T DEF RunnerOK
    <3>6. Stack'
      BY <3>1, <3>2, <3>5, <2>T DEF Stack
    <3> QED
      BY <2>0, <2>T, <3>1, <3>3, <3>4, <3>6 DEF OthersOK, dataVars
  <2>14. ASSUME NEW r \in Runs, Start(r) PROVE TypeInv'
    <3>1. /\ phase[r] = "start" /\ phase' = [phase EXCEPT ![r] = "deps"] /\ at' = Put(at, r, cur[r], 1)
          /\ depFail' = [depFail EXCEPT ![r] = depFail[r] \ {cur[r]}]
          /\ optFail' = [optFail EXCEPT ![r] = optFail[r] \ {cur[r]}]
          /\ UNCHANGED <<top, cur, caller, done, result, lockVars, dataVars, budget, begun, unset>>
      BY <2>14 DEF Start
    <3>2. row' \in [Runs -> [Jobs -> RowSet]] /\ cur[r] \in Jobs
      BY <2>14, <2>3, <2>T DEF Start, Stack
    <3>3. /\ at' \in [Runs -> [Jobs -> Nat]] /\ at'[r][cur[r]] = 1
          /\ \A s \in Runs \ {r}, k \in Jobs : at'[s][k] = at[s][k]
      BY <2>7, <3>1, <3>2
    <3>4. Stack' /\ phase' \in [Runs -> PhaseSet]
      <4>1. at'[r][cur[r]] > 0 /\ "deps" \in PhaseSet \ {"none"} /\ phase[r] # "none"
        BY <3>1, <3>3 DEF PhaseSet
      <4> QED
        BY <2>8, <3>1, <3>3, <4>1
    <3>5. depFail[r] \ {cur[r]} \in SUBSET Jobs /\ optFail[r] \ {cur[r]} \in SUBSET Jobs
      BY <2>T DEF RunnerOK
    <3>6. RunnerOK'
      BY <3>1, <3>3, <3>4, <3>5, <2>T DEF RunnerOK, lockVars
    <3> QED
      BY <2>0, <2>T, <3>1, <3>2, <3>4, <3>6 DEF OthersOK, dataVars
  <2>15. ASSUME NEW r \in Runs, LogFails(r) PROVE TypeInv'
    <3>1. cur[r] \in Jobs /\ done[r][cur[r]] \in Statuses
      BY <2>15, <2>T DEF LogFails, Stack, RunnerOK
    <3>2. RunnerOK' /\ Stack' /\ UNCHANGED <<top, caller>>
      BY <2>9, <2>15, <3>1 DEF LogFails
    <3>3. budget' \in [Faults -> Nat]
      BY <2>2, <2>15 DEF LogFails, Faults
    <3>4. unset' = unset \cup {<<r, cur[r]>>} /\ UNCHANGED <<row, dataVars, begun>>
      BY <2>15 DEF LogFails
    <3> QED
      BY <2>0, <2>T, <3>1, <3>2, <3>3, <3>4 DEF OthersOK, dataVars
  <2>16. ASSUME NEW r \in Runs, Finish(r) PROVE TypeInv'
    <3>1. PICK st \in {"partial", "success"} : row' = Put(row, r, cur[r], st) /\ Leave(r, st, FALSE)
      BY <2>16 DEF Finish
    <3>2. RunnerOK' /\ Stack' /\ UNCHANGED <<top, caller>>
      BY <2>9, <2>16, <3>1 DEF Finish, Statuses, Good, Results
    <3>3. row' \in [Runs -> [Jobs -> RowSet]]
      BY <2>4, <2>16, <2>T, <3>1 DEF Finish, Stack, RowSet
    <3>4. UNCHANGED <<dataVars, budget, begun, unset>>
      BY <2>16 DEF Finish
    <3> QED
      BY <2>0, <2>T, <3>2, <3>3, <3>4 DEF OthersOK, dataVars
  <2>17. ASSUME NEW r \in Runs, NEW d \in Jobs,
                DepDone(r, d) \/ DepDisabled(r, d) \/ DepBlocked(r, d) \/ DepReused(r, d)
         PROVE  TypeInv'
    <3>1. /\ phase[r] = "deps" /\ cur[r] \in Jobs /\ at' = Put(at, r, cur[r], at[r][cur[r]] + 1)
          /\ UNCHANGED <<top, cur, caller, phase, result, lockVars, dataVars, budget, begun, unset>>
      BY <2>17, <2>T DEF DepDone, DepDisabled, DepBlocked, DepReused, AtDep, Stack, NextDep
    <3>2. depFail' \in [Runs -> SUBSET Jobs] /\ optFail' \in [Runs -> SUBSET Jobs]
      <4>1. Fails(r, cur[r], d) \/ NothingFails
        BY <2>17 DEF DepDone, DepDisabled, DepBlocked, DepReused
      <4> QED
        BY <2>6, <3>1, <4>1
    <3>3. done' \in [Runs -> [Jobs -> Statuses]]
      <4>1. done' = done \/ \E st \in {"disabled", "skipped", "reused"} : done' = Put(done, r, d, st)
        BY <2>17 DEF DepDone, DepDisabled, DepBlocked, DepReused
      <4>2. {"disabled", "skipped", "reused"} \subseteq Statuses
        BY DEF Statuses, Good, NotRun
      <4>3. done \in [Runs -> [Jobs -> Statuses]]
        BY <2>T DEF RunnerOK
      <4>4. ASSUME NEW st \in Statuses, done' = Put(done, r, d, st) PROVE done' \in [Runs -> [Jobs -> Statuses]]
        BY <2>1, <4>3, <4>4
      <4> QED
        BY <4>1, <4>2, <4>3, <4>4
    <3>4. row' \in [Runs -> [Jobs -> RowSet]]
      BY <2>3, <2>17, <2>T DEF DepDone, DepDisabled, DepBlocked, DepReused
    <3>5. at[r][cur[r]] + 1 \in Nat /\ at[r][cur[r]] + 1 > 0
      BY <3>1, <2>T DEF RunnerOK
    <3>6. /\ at' \in [Runs -> [Jobs -> Nat]] /\ at'[r][cur[r]] > 0
          /\ \A s \in Runs \ {r}, k \in Jobs : at'[s][k] = at[s][k]
      BY <2>7, <3>1, <3>5
    <3>7. Stack'
      BY <3>1, <3>6, <2>T DEF Stack
    <3>8. RunnerOK'
      BY <3>1, <3>2, <3>3, <3>6, <2>T DEF RunnerOK, lockVars
    <3> QED
      BY <2>0, <2>T, <3>1, <3>4, <3>7, <3>8 DEF OthersOK, dataVars
  <2>18. ASSUME NEW r \in Runs, NEW d \in Jobs, DepRaises(r, d) PROVE TypeInv'
    BY <2>10, <2>18, <2>T DEF DepRaises, AtDep, Faults, dataVars, OthersOK
  <2>19. ASSUME NEW r \in Runs, NEW d \in Jobs, DepRuns(r, d) PROVE TypeInv'
    <3>1. /\ phase[r] = "deps" /\ cur[r] \in Jobs /\ cur' = [cur EXCEPT ![r] = d]
          /\ caller' = Put(caller, r, d, cur[r])
          /\ \E ph \in {"lock", "start"} : phase' = [phase EXCEPT ![r] = ph]
          /\ UNCHANGED <<top, at, done, depFail, optFail, result, held, owner, row, dataVars, budget, begun, unset>>
      BY <2>19, <2>T DEF DepRuns, AtDep, Stack
    <3>2. want' \in [Runs -> SUBSET Modules]
      <4>1. LockNames(r, d, TRUE) \in SUBSET Modules
        BY PlatformAssumption DEF LockNames
      <4> QED
        BY <2>19, <4>1, <2>T DEF DepRuns, RunnerOK
    <3>3. /\ caller' \in [Runs -> [Jobs -> Jobs \cup {NoJob}]]
          /\ \A s \in Runs, k \in Jobs : caller'[s][k] = IF s = r /\ k = d THEN cur[r] ELSE caller[s][k]
      <4>1. caller \in [Runs -> [Jobs -> Jobs \cup {NoJob}]] /\ cur[r] \in Jobs \cup {NoJob}
        BY <3>1, <2>T DEF OthersOK
      <4>2. caller'= [caller EXCEPT ![r] = [caller[r] EXCEPT ![d] = cur[r]]]
        BY <3>1 DEF Put
      <4> QED
        BY <4>1, <4>2
    <3>4. phase' \in [Runs -> PhaseSet] /\ cur' \in [Runs -> Jobs \cup {NoJob}]
      BY <3>1, <2>T DEF RunnerOK, PhaseSet
    <3>5. \A s \in Runs \ {r} : /\ phase'[s] = phase[s] /\ cur'[s] = cur[s]
                                /\ \A k \in Jobs : caller'[s][k] = caller[s][k]
      BY <3>1, <3>3, <2>T DEF RunnerOK
    <3>6. phase'[r] \in {"lock", "start"} /\ cur'[r] = d
      BY <3>1, <2>T DEF RunnerOK
    <3>7. \A k \in Jobs : caller'[r][k] = IF k = d THEN cur[r] ELSE caller[r][k]
      BY <3>3
    <3>8. Stack'
      <4>1. \A k \in Jobs : caller[r][k] \in Jobs \cup {NoJob}
        BY <2>T DEF OthersOK
      <4>2. \A k \in Jobs : caller'[r][k] # NoJob /\ caller'[r][k] # top[r] => caller'[r][caller'[r][k]] \in Jobs
        BY <3>1, <3>7, <4>1, <2>T DEF Stack
      <4>3. top[r] \in Jobs /\ (cur'[r] # top[r] => caller'[r][cur'[r]] \in Jobs)
        BY <3>1, <3>6, <3>7, <2>T DEF Stack
      <4>4. ASSUME NEW s \in Runs \ {r}
            PROVE  /\ phase[s] = "none" => \A k \in Jobs : caller'[s][k] = NoJob
                   /\ phase[s] # "none" /\ cur[s] # top[s] => caller'[s][cur[s]] \in Jobs
                   /\ \A k \in Jobs : caller'[s][k] # NoJob /\ caller'[s][k] # top[s]
                                           => caller'[s][caller'[s][k]] \in Jobs
        <5>1. \A k \in Jobs : caller'[s][k] = caller[s][k] /\ caller[s][k] \in Jobs \cup {NoJob}
          BY <3>5, <2>T DEF OthersOK
        <5> QED
          BY <5>1, <2>T DEF Stack
      <4> QED
        BY <3>1, <3>5, <3>6, <4>2, <4>3, <4>4, <2>T DEF Stack
    <3>9. RunnerOK'
      BY <3>1, <3>2, <3>4, <2>T DEF RunnerOK
    <3> QED
      BY <2>0, <2>T, <3>1, <3>3, <3>8, <3>9 DEF OthersOK, dataVars
  <2>20. ASSUME NEW r \in Runs, DepsOver(r) PROVE TypeInv'
    <3>1. CASE RequirementFailed(r)
      BY <2>10, <2>20, <3>1, <2>T DEF DepsOver, dataVars, Faults, OthersOK
    <3>2. CASE ~RequirementFailed(r)
      <4>1. /\ cur[r] \in Jobs /\ phase[r] = "deps"
            /\ \E ph \in {"work", "finish"} : phase' = [phase EXCEPT ![r] = ph]
            /\ begun' = begun \/ begun' = Put(begun, r, cur[r], begun[r][cur[r]] + 1)
            /\ UNCHANGED <<runVars, result, lockVars, row, budget, unset, dataVars>>
        BY <2>20, <3>2, <2>T DEF DepsOver, Stack
      <4>2. begun' \in [Runs -> [Jobs -> Nat]]
        <5>1. begun \in [Runs -> [Jobs -> Nat]] /\ begun[r][cur[r]] + 1 \in Nat
          BY <4>1, <2>T DEF OthersOK
        <5> QED
          BY <2>N, <4>1, <5>1
      <4>3. Stack' /\ phase' \in [Runs -> PhaseSet]
        BY <2>8, <4>1 DEF runVars, PhaseSet
      <4>4. RunnerOK'
        BY <4>1, <4>3, <2>T DEF RunnerOK, runVars, lockVars
      <4> QED
        BY <2>0, <2>T, <4>1, <4>2, <4>3, <4>4 DEF OthersOK, runVars, dataVars
    <3> QED
      BY <3>1, <3>2
  <2>21. ASSUME NEW r \in Runs, Loads(r) \/ SwapCreate(r) \/ SwapLoad(r) \/ SwapRename(r) PROVE TypeInv'
    <3>1. /\ phase[r] \in {"work", "created", "loaded"}
          /\ \E ph \in {"work", "created", "loaded", "finish"} : phase' = [phase EXCEPT ![r] = ph]
          /\ UNCHANGED <<runVars, result, lockVars, row, budget, begun, unset>>
      BY <2>21 DEF Loads, Commit, TasksDone, SwapCreate, SwapLoad, SwapRename, Step
    <3>2. Stack' /\ phase' \in [Runs -> PhaseSet]
      BY <2>8, <3>1 DEF runVars, PhaseSet
    <3>3. RunnerOK'
      BY <3>1, <3>2, <2>T DEF RunnerOK, runVars, lockVars
    <3>4. \A m \in Modules : staging'[m] = Nobody \/ staging'[m] \subseteq Runs
      BY <2>21, <2>T DEF Loads, Commit, TasksDone, SwapCreate, SwapLoad, SwapRename, Fill, OthersOK, dataVars
    <3>5. table' \in [Modules -> SUBSET (Runs \cup {Nobody})]
      <4>1. \/ table' = table \/ \E m \in Modules : table' = [table EXCEPT ![m] = table[m] \cup {r}]
            \/ table' = Staged(r) /\ \A m \in Own[cur[r]] : staging[m] # Nobody
        BY <2>21 DEF Loads, Commit, TasksDone, SwapCreate, SwapLoad, SwapRename, dataVars
      <4> QED
        BY <4>1, <2>T DEF Fill, Staged, OthersOK
    <3> QED
      BY <2>0, <2>T, <3>1, <3>2, <3>3, <3>4, <3>5 DEF OthersOK, runVars
  <2>22. ASSUME NEW r \in Runs, TaskRaises(r) PROVE TypeInv'
    <3>1. \A m \in Modules : staging'[m] = Nobody \/ staging'[m] \subseteq Runs
      BY <2>22, <2>T DEF TaskRaises, Fill, OthersOK
    <3> QED
      BY <2>10, <2>22, <3>1 DEF TaskRaises, Working, Faults
  <2>23. ASSUME NEW r \in Runs, Crash(r) PROVE TypeInv'
    <3>1. budget' \in [Faults -> Nat]
      BY <2>2, <2>23 DEF Crash, Faults
    <3>2. /\ phase[r] # "none" /\ phase' = [phase EXCEPT ![r] = "dead"]
          /\ UNCHANGED <<runVars, result, lockVars, row, dataVars, begun, unset>>
      BY <2>23 DEF Crash
    <3>3. Stack' /\ phase' \in [Runs -> PhaseSet]
      BY <2>8, <3>2 DEF runVars, PhaseSet
    <3>4. RunnerOK'
      BY <3>2, <3>3, <2>T DEF RunnerOK, runVars, lockVars
    <3> QED
      BY <2>0, <2>T, <3>1, <3>2, <3>3, <3>4 DEF OthersOK, runVars, dataVars
  <2>24. ASSUME NEW r \in Runs, Reaped(r) PROVE TypeInv'
    <3>1. UNCHANGED <<runVars, phase, result, row, dataVars, budget, begun, unset>> /\ Release(r)
      BY <2>24 DEF Reaped
    <3>2. RunnerOK' /\ Stack'
      BY <2>5, <3>1, <2>T DEF RunnerOK, Stack, runVars
    <3> QED
      BY <2>0, <2>T, <3>1, <3>2 DEF OthersOK, runVars, dataVars
  <2>25. ASSUME NEW r \in Runs, NEW m \in Modules, SessionLost(r, m) PROVE TypeInv'
    <3>1. budget' \in [Faults -> Nat]
      BY <2>2, <2>25 DEF SessionLost, Faults
    <3>2. /\ UNCHANGED <<runVars, phase, result, want, held, row, dataVars, begun, unset>>
          /\ owner' = [owner EXCEPT ![m] = Nobody]
      BY <2>25 DEF SessionLost
    <3>3. RunnerOK' /\ Stack'
      BY <3>2, <2>T DEF RunnerOK, Stack, runVars
    <3> QED
      BY <2>0, <2>T, <3>1, <3>2, <3>3 DEF OthersOK, runVars, dataVars
  <2>26. CASE UNCHANGED vars
    BY <2>0, <2>T, <2>26 DEF vars, Stack, RunnerOK, OthersOK, runVars, lockVars, dataVars
  <2> QED
    BY <2>11, <2>12, <2>13, <2>14, <2>15, <2>16, <2>17, <2>18, <2>19, <2>20, <2>21, <2>22, <2>23, <2>24,
       <2>25, <2>26, <2>27 DEF Next, RunStep, AllOver, Loads
<1> QED
  BY <1>1, <1>2, PTL DEF Spec, TypeInv

-----------------------------------------------------------------------------
(* A step of one run leaves the others alone *)

LEMMA OthersStay ==
    ASSUME TypeInv, NEW r \in Runs, RunStep(r) \/ Crash(r) \/ Reaped(r), NEW s \in Runs \ {r}
    PROVE  /\ top'[s] = top[s] /\ cur'[s] = cur[s] /\ caller'[s] = caller[s]
           /\ done'[s] = done[s] /\ phase'[s] = phase[s] /\ want'[s] = want[s] /\ held'[s] = held[s]
<1>1. /\ top \in [Runs -> Jobs \cup {NoJob}] /\ cur \in [Runs -> Jobs \cup {NoJob}]
      /\ DOMAIN caller = Runs /\ DOMAIN done = Runs /\ DOMAIN phase = Runs
      /\ DOMAIN want = Runs /\ DOMAIN held = Runs
  BY DEF TypeInv, TypeOK
<1>2. ASSUME NEW st, NEW raised, Leave(r, st, raised)
      PROVE  /\ cur'[s] = cur[s] /\ done'[s] = done[s] /\ phase'[s] = phase[s]
             /\ want'[s] = want[s] /\ held'[s] = held[s] /\ UNCHANGED <<top, caller>>
  <2>1. UNCHANGED <<top, caller>> /\ done'[s] = done[s]
    BY <1>1, <1>2 DEF Leave, Put
  <2>2. cur'[s] = cur[s] /\ phase'[s] = phase[s]
    BY <1>1, <1>2 DEF Leave
  <2>3. Release(r) \/ UNCHANGED lockVars
    BY <1>2 DEF Leave
  <2> QED
    BY <1>1, <2>1, <2>2, <2>3 DEF Release, lockVars
<1>3. ASSUME NEW S, JobFails(r, S) PROVE
             /\ cur'[s] = cur[s] /\ done'[s] = done[s] /\ phase'[s] = phase[s]
             /\ want'[s] = want[s] /\ held'[s] = held[s] /\ UNCHANGED <<top, caller>>
  BY <1>2, <1>3 DEF JobFails
<1>4. ASSUME NEW j, StartRun(r, j) PROVE
             /\ top'[s] = top[s] /\ cur'[s] = cur[s] /\ done'[s] = done[s] /\ phase'[s] = phase[s]
             /\ want'[s] = want[s] /\ held'[s] = held[s] /\ UNCHANGED caller
  BY <1>1, <1>4 DEF StartRun
<1>5. ASSUME TakeLock(r) \/ AllLocked(r) \/ Start(r) \/ Crash(r) \/ Reaped(r) PROVE
             /\ cur'[s] = cur[s] /\ done'[s] = done[s] /\ phase'[s] = phase[s]
             /\ want'[s] = want[s] /\ held'[s] = held[s] /\ UNCHANGED <<top, caller>>
  BY <1>1, <1>5 DEF TakeLock, AllLocked, Start, Crash, Reaped, Release, runVars, lockVars
<1>6. ASSUME LockBusy(r) PROVE
             /\ cur'[s] = cur[s] /\ done'[s] = done[s] /\ phase'[s] = phase[s]
             /\ want'[s] = want[s] /\ held'[s] = held[s] /\ UNCHANGED <<top, caller>>
  <2>1. CASE AtTop(r)
    BY <1>1, <1>6, <2>1 DEF LockBusy, Busy, Release, runVars
  <2> QED
    BY <1>2, <1>6, <2>1 DEF LockBusy, Busy
<1>10. ASSUME SkipRaises(r) PROVE
             /\ cur'[s] = cur[s] /\ done'[s] = done[s] /\ phase'[s] = phase[s]
             /\ want'[s] = want[s] /\ held'[s] = held[s] /\ UNCHANGED <<top, caller>>
  BY <1>1, <1>10 DEF SkipRaises, Put, Release
<1>7. ASSUME LogFails(r) \/ Finish(r) \/ TaskRaises(r) PROVE
             /\ cur'[s] = cur[s] /\ done'[s] = done[s] /\ phase'[s] = phase[s]
             /\ want'[s] = want[s] /\ held'[s] = held[s] /\ UNCHANGED <<top, caller>>
  BY <1>2, <1>3, <1>7 DEF LogFails, Finish, TaskRaises
<1>8. ASSUME DepsOver(r) \/ Loads(r) \/ SwapCreate(r) \/ SwapLoad(r) \/ SwapRename(r) PROVE
             /\ cur'[s] = cur[s] /\ done'[s] = done[s] /\ phase'[s] = phase[s]
             /\ want'[s] = want[s] /\ held'[s] = held[s] /\ UNCHANGED <<top, caller>>
  <2>1. CASE DepsOver(r) /\ RequirementFailed(r)
    BY <1>3, <2>1 DEF DepsOver
  <2>2. CASE ~(DepsOver(r) /\ RequirementFailed(r))
    <3>1. UNCHANGED <<runVars, lockVars>> /\ \E ph : phase' = [phase EXCEPT ![r] = ph]
      BY <1>8, <2>2 DEF DepsOver, Loads, Commit, TasksDone, SwapCreate, SwapLoad, SwapRename, Step
    <3> QED
      BY <1>1, <3>1 DEF runVars, lockVars
  <2> QED
    BY <2>1, <2>2
<1>9. ASSUME NEW d \in Jobs,
             \/ DepDone(r, d) \/ DepDisabled(r, d) \/ DepBlocked(r, d)
             \/ DepReused(r, d) \/ DepRaises(r, d) \/ DepRuns(r, d)
      PROVE  /\ top'[s] = top[s] /\ cur'[s] = cur[s] /\ caller'[s] = caller[s]
             /\ done'[s] = done[s] /\ phase'[s] = phase[s] /\ want'[s] = want[s] /\ held'[s] = held[s]
  <2>1. CASE DepRaises(r, d)
    BY <1>3, <2>1 DEF DepRaises
  <2>2. CASE DepRuns(r, d)
    BY <1>1, <2>2 DEF DepRuns, Put
  <2>3. CASE DepDone(r, d) \/ DepDisabled(r, d) \/ DepBlocked(r, d) \/ DepReused(r, d)
    BY <1>1, <2>3 DEF DepDone, DepDisabled, DepBlocked, DepReused, NextDep, Put, lockVars
  <2> QED
    BY <1>9, <2>1, <2>2, <2>3
<1> QED
  BY <1>4, <1>5, <1>6, <1>7, <1>8, <1>9, <1>10 DEF RunStep, Loads

-----------------------------------------------------------------------------
(* Two runs never write a module at a time *)

Live(r) == phase[r] \notin {"none", "over", "dead"}

\* The jobs C a run is inside of are among the jobs S that the locks it has,
\* or waits for, were taken for; what S may still come to is in S.
Covered(r) ==
    \E S \in SUBSET Jobs, C \in SUBSET Jobs :
        /\ C \subseteq S /\ cur[r] \in C
        /\ \A j \in C : j = top[r] \/ caller[r][j] \in C \/ (IsIsolated(r) /\ caller[r][j] = top[r])
        /\ \A j \in S, d \in Jobs : d \in Dep(j) => d \in S \/ done[r][d] # "none"
        /\ \A j \in S : Own[j] \subseteq held[r] \cup want[r]

\* An isolated run between its modules needs no lock.
Covers(r) ==
    /\ phase[r] \notin {"lock", "dead"} => want[r] = {}
    /\ phase[r] = "lock" /\ ~AtTop(r) => IsIsolated(r) /\ caller[r][cur[r]] = top[r]
    /\ Live(r) => (IsIsolated(r) /\ AtTop(r)) \/ Covered(r)

CoverInv == \A r \in Runs : Covers(r)

LEMMA CoverHolds == Spec => []CoverInv
<1>1. Init => CoverInv
  BY DEF Init, Covers, Live, None, CoverInv
<1>2. TypeInv /\ CoverInv /\ [Next]_vars => CoverInv'
  <2> SUFFICES ASSUME TypeInv, CoverInv, [Next]_vars PROVE CoverInv'
    OBVIOUS
  <2> USE DEF CoverInv
  <2>0. \A j \in Jobs : Dep(j) \subseteq Jobs
    BY PlatformAssumption DEF Dep
  <2>T. /\ top \in [Runs -> Jobs \cup {NoJob}] /\ cur \in [Runs -> Jobs \cup {NoJob}]
        /\ caller \in [Runs -> [Jobs -> Jobs \cup {NoJob}]]
        /\ done \in [Runs -> [Jobs -> Statuses]] /\ phase \in [Runs -> PhaseSet]
        /\ want \in [Runs -> SUBSET Modules] /\ held \in [Runs -> SUBSET Modules] /\ Stack
    BY DEF TypeInv, TypeOK, Statuses, PhaseSet
  <2>1. ASSUME NEW s \in Runs, top'[s] = top[s], cur'[s] = cur[s], caller'[s] = caller[s],
               \A d \in Jobs : done[s][d] # "none" => done'[s][d] # "none",
               Live(s)' => Live(s), phase'[s] = "lock" => phase[s] = "lock",
               held'[s] \cup want'[s] = held[s] \cup want[s],
               phase'[s] \notin {"lock", "dead"} => want'[s] = {}
        PROVE  Covers(s)'
    <3>1. Covers(s)
      OBVIOUS
    <3>2. Covered(s) => Covered(s)'
      BY <2>1 DEF Covered, IsIsolated
    <3> QED
      BY <2>1, <3>1, <3>2 DEF Covers, IsIsolated, AtTop
  <2>2. ASSUME NEW r \in Runs, Live(r), NEW st, st # "none" \/ st = done[r][cur[r]], NEW raised, Leave(r, st, raised)
        PROVE  Covers(r)'
    <3> DEFINE p == caller[r][cur[r]]
    <3>0. cur[r] \in Jobs /\ Covers(r)
      BY <2>2, <2>T DEF Stack, Live
    <3>1. UNCHANGED <<top, caller>> /\ \A d \in Jobs : done[r][d] # "none" => done'[r][d] # "none"
      BY <2>2, <2>T, <3>0 DEF Leave, Put
    <3>2. CASE AtTop(r)
      <4>1. phase'[r] = "over" /\ want'[r] = {}
        BY <2>2, <2>T, <3>2 DEF Leave, Release
      <4> QED
        BY <4>1 DEF Covers, Live
    <3>3. CASE ~AtTop(r) /\ p = top[r] /\ IsIsolated(r)
      <4>1. phase'[r] = "deps" /\ want'[r] = {} /\ cur'[r] = top[r]
        BY <2>2, <2>T, <3>3 DEF Leave, Release, IsIsolated
      <4> QED
        BY <3>1, <3>3, <4>1 DEF Covers, IsIsolated, AtTop
    <3>4. CASE ~AtTop(r) /\ ~(p = top[r] /\ IsIsolated(r))
      <4>1. phase'[r] = "deps" /\ cur'[r] = p /\ UNCHANGED lockVars
        BY <2>2, <2>T, <3>4 DEF Leave, IsIsolated
      <4>2. want[r] = {}
        BY <2>2, <3>0, <3>4 DEF Covers, Live
      <4>3. Covered(r)
        BY <2>2, <3>0, <3>4 DEF Covers
      <4>4. Covered(r)'
        <5>1. PICK S \in SUBSET Jobs, C \in SUBSET Jobs :
                /\ C \subseteq S /\ cur[r] \in C
                /\ \A j \in C : j = top[r] \/ caller[r][j] \in C \/ (IsIsolated(r) /\ caller[r][j] = top[r])
                /\ \A j \in S, d \in Jobs : d \in Dep(j) => d \in S \/ done[r][d] # "none"
                /\ \A j \in S : Own[j] \subseteq held[r] \cup want[r]
          BY <4>3 DEF Covered
        <5>2. p \in C
          BY <3>4, <5>1 DEF AtTop
        <5> QED
          BY <3>1, <4>1, <5>1, <5>2 DEF Covered, IsIsolated, lockVars
      <4> QED
        BY <4>1, <4>2, <4>4 DEF Covers, lockVars
    <3> QED
      BY <3>2, <3>3, <3>4
  <2>3. ASSUME NEW r \in Runs, NEW j \in Starts, StartRun(r, j) PROVE Covers(r)'
    <3>1. /\ top'[r] = j /\ cur'[r] = j /\ phase'[r] = "lock" /\ j \in Jobs
          /\ j \notin Isolated => want'[r] = LockNames(r, j, FALSE)
      BY <2>3, <2>T, PlatformAssumption DEF StartRun
    <3>2. CASE j \in Isolated
      BY <3>1, <3>2 DEF Covers, IsIsolated, AtTop
    <3>3. CASE j \notin Isolated
      <4> DEFINE Closed == {S \in SUBSET Jobs : j \in S /\ \A d \in S : Dep(d) \subseteq S}
                 Reach  == {d \in Jobs : \A S \in Closed : d \in S}
      <4>1. LockNames(r, j, FALSE) = UNION {Own[d] : d \in Reach}
        BY DEF LockNames
      <4>2. j \in Reach /\ \A k \in Reach, d \in Jobs : d \in Dep(k) => d \in Reach
        BY <3>1
      <4>4. Reach \in SUBSET Jobs /\ {j} \in SUBSET Jobs /\ {j} \subseteq Reach
        BY <4>2
      <4> HIDE DEF Reach
      <4>3. \A k \in Reach : Own[k] \subseteq want'[r]
        BY <3>1, <3>3, <4>1
      <4>5. Covered(r)'
        BY <3>1, <4>2, <4>3, <4>4 DEF Covered
      <4> QED
        BY <3>1, <4>5 DEF Covers, AtTop
    <3> QED
      BY <3>2, <3>3
  <2>4. ASSUME NEW r \in Runs, NEW d \in Jobs, DepRuns(r, d) PROVE Covers(r)'
    <3>1. /\ phase[r] = "deps" /\ cur[r] \in Jobs /\ d \in Dep(cur[r]) /\ done[r][d] = "none" /\ Covers(r)
      <4>1. phase[r] = "deps" /\ at[r][cur[r]] <= Len(Deps[cur[r]]) /\ d = Deps[cur[r]][at[r][cur[r]]]
            /\ done[r][d] = "none"
        BY <2>4 DEF DepRuns, AtDep
      <4>2. cur[r] \in Jobs /\ at[r][cur[r]] > 0
        BY <4>1, <2>T DEF Stack
      <4>3. at[r][cur[r]] \in 1..Len(Deps[cur[r]])
        BY <4>1, <4>2, PlatformAssumption DEF TypeInv, TypeOK
      <4> QED
        BY <4>1, <4>2, <4>3 DEF Dep
    <3>2. /\ cur'[r] = d /\ UNCHANGED <<top, done, held>>
          /\ \A k \in Jobs : caller'[r][k] = IF k = d THEN cur[r] ELSE caller[r][k]
      BY <2>4, <2>T, <3>1 DEF DepRuns, Put
    <3>3. CASE AtTop(r) /\ IsIsolated(r)
      <4>1. want'[r] = LockNames(r, d, TRUE) /\ phase'[r] = "lock"
        BY <2>4, <2>T, <3>3 DEF DepRuns
      <4> DEFINE over   == {e \in Jobs \ {d} : done[r][e] # "none"}
                 Closed == {S \in SUBSET Jobs : d \in S /\ \A e \in S : Dep(e) \ over \subseteq S}
                 Reach  == {e \in Jobs : \A S \in Closed : e \in S}
      <4>2. LockNames(r, d, TRUE) = UNION {Own[e] : e \in Reach}
        BY DEF LockNames
      <4>3. d \in Reach /\ \A k \in Reach, e \in Jobs : e \in Dep(k) => e \in Reach \/ e \in over
        OBVIOUS
      <4>5. Reach \in SUBSET Jobs /\ {d} \in SUBSET Jobs /\ {d} \subseteq Reach /\ \A e \in over : done[r][e] # "none"
        BY <4>3
      <4> HIDE DEF Reach, over
      <4>4. \A k \in Reach : Own[k] \subseteq want'[r]
        BY <4>1, <4>2
      <4>6. Covered(r)'
        <5> DEFINE D == {d}
        <5>1. /\ D \in SUBSET Jobs /\ D \subseteq Reach /\ cur'[r] \in D
              /\ \A j \in D : IsIsolated(r)' /\ caller'[r][j] = top'[r]
          BY <3>2, <3>3, <4>5 DEF IsIsolated, AtTop
        <5>2. \A j \in Reach, e \in Jobs : e \in Dep(j) => e \in Reach \/ done'[r][e] # "none"
          BY <3>2, <4>3, <4>5
        <5>3. \A j \in Reach : Own[j] \subseteq held'[r] \cup want'[r]
          BY <4>4
        <5> HIDE DEF D
        <5> QED
          BY <4>5, <5>1, <5>2, <5>3 DEF Covered
      <4> QED
        BY <3>2, <3>3, <4>1, <4>6 DEF Covers, AtTop, IsIsolated
    <3>4. CASE ~(AtTop(r) /\ IsIsolated(r))
      <4>1. want' = want /\ phase'[r] = "start" /\ want[r] = {}
        BY <2>4, <2>T, <3>1, <3>4 DEF DepRuns, Covers
      <4>2. PICK S \in SUBSET Jobs, C \in SUBSET Jobs :
                /\ C \subseteq S /\ cur[r] \in C
                /\ \A j \in C : j = top[r] \/ caller[r][j] \in C \/ (IsIsolated(r) /\ caller[r][j] = top[r])
                /\ \A j \in S, e \in Jobs : e \in Dep(j) => e \in S \/ done[r][e] # "none"
                /\ \A j \in S : Own[j] \subseteq held[r] \cup want[r]
        BY <3>1, <3>4 DEF Covers, Live, Covered
      <4>3. d \in S
        BY <3>1, <4>2
      <4>4. Covered(r)'
        <5>1. C \cup {d} \in SUBSET Jobs /\ C \cup {d} \subseteq S
          BY <4>2, <4>3
        <5>2. \A j \in C \cup {d} : \/ j = top[r] \/ caller'[r][j] \in C \cup {d}
                                    \/ IsIsolated(r) /\ caller'[r][j] = top[r]
          BY <3>2, <4>2
        <5> DEFINE D == C \cup {d}
        <5>3. /\ D \in SUBSET Jobs /\ D \subseteq S /\ cur'[r] \in D
              /\ \A j \in D : j = top'[r] \/ caller'[r][j] \in D \/ (IsIsolated(r)' /\ caller'[r][j] = top'[r])
          BY <3>2, <5>1, <5>2 DEF IsIsolated
        <5>4. \A j \in S, e \in Jobs : e \in Dep(j) => e \in S \/ done'[r][e] # "none"
          BY <3>2, <4>2
        <5>5. \A j \in S : Own[j] \subseteq held'[r] \cup want'[r]
          BY <3>2, <4>1, <4>2
        <5> HIDE DEF D
        <5> QED
          BY <5>3, <5>4, <5>5 DEF Covered
      <4> QED
        BY <4>1, <4>4 DEF Covers
    <3> QED
      BY <3>3, <3>4
  <2>5. ASSUME NEW r \in Runs, RunStep(r) \/ Crash(r) \/ Reaped(r) PROVE Covers(r)'
    <3>1. ASSUME TakeLock(r) PROVE Covers(r)'
      <4>1. /\ phase[r] = "lock" /\ UNCHANGED <<top, cur, caller, done, phase>>
            /\ \E m \in want[r] : want'[r] = want[r] \ {m} /\ held'[r] = held[r] \cup {m}
        BY <3>1, <2>T DEF TakeLock, NextLock, runVars
      <4> QED
        BY <2>1, <4>1 DEF Live
    <3>2. ASSUME AllLocked(r) \/ Start(r) PROVE Covers(r)'
      <4>1. /\ phase[r] \in {"lock", "start"} /\ want[r] = {} /\ phase'[r] \in {"start", "deps"}
            /\ UNCHANGED <<top, cur, caller, done, want, held>>
        BY <3>2, <2>T DEF AllLocked, Start, runVars, lockVars, Covers
      <4> QED
        BY <2>1, <4>1 DEF Live
    <3>3. ASSUME LockBusy(r) PROVE Covers(r)'
      <4>1. CASE AtTop(r)
        <5>1. phase'[r] = "over" /\ want'[r] = {}
          BY <3>3, <4>1, <2>T DEF LockBusy, Busy, Release
        <5> QED
          BY <5>1 DEF Covers, Live
      <4> QED
        BY <2>2, <3>3, <4>1 DEF LockBusy, Busy, Live
    <3>9. ASSUME SkipRaises(r) PROVE Covers(r)'
      <4>1. phase'[r] = "over" /\ want'[r] = {}
        BY <3>9, <2>T DEF SkipRaises, Release
      <4> QED
        BY <4>1 DEF Covers, Live
    <3>4. ASSUME LogFails(r) \/ Finish(r) \/ TaskRaises(r) PROVE Covers(r)'
      BY <2>2, <3>4 DEF LogFails, Finish, TaskRaises, Working, JobFails, Live
    <3>5. ASSUME DepsOver(r) \/ Loads(r) \/ SwapCreate(r) \/ SwapLoad(r) \/ SwapRename(r) PROVE Covers(r)'
      <4>1. CASE DepsOver(r) /\ RequirementFailed(r)
        BY <2>2, <4>1 DEF DepsOver, JobFails, Live
      <4>2. CASE ~(DepsOver(r) /\ RequirementFailed(r))
        <5>1. /\ phase[r] \in {"deps", "work", "created", "loaded"}
              /\ phase'[r] \in {"work", "created", "loaded", "finish"}
              /\ UNCHANGED <<top, cur, caller, done, want, held>>
          BY <3>5, <4>2, <2>T DEF DepsOver, Loads, Commit, TasksDone, SwapCreate, SwapLoad, SwapRename, Step, runVars, lockVars
        <5>2. want[r] = {}
          BY <5>1 DEF Covers
        <5> QED
          BY <2>1, <5>1, <5>2 DEF Live
      <4> QED
        BY <4>1, <4>2
    <3>6. ASSUME NEW d \in Jobs, DepDone(r, d) \/ DepDisabled(r, d) \/ DepBlocked(r, d) \/ DepReused(r, d)
          PROVE  Covers(r)'
      <4>1. /\ phase[r] = "deps" /\ UNCHANGED <<top, cur, caller, phase, want, held>>
            /\ done' = done \/ \E st \in {"disabled", "skipped", "reused"} : done' = Put(done, r, d, st)
        BY <3>6 DEF DepDone, DepDisabled, DepBlocked, DepReused, AtDep, NextDep, lockVars
      <4>2. \A e \in Jobs : done[r][e] # "none" => done'[r][e] # "none"
        BY <2>T, <4>1 DEF Put
      <4>3. want[r] = {}
        BY <4>1 DEF Covers
      <4> QED
        BY <2>1, <4>1, <4>2, <4>3 DEF Live
    <3>7. ASSUME NEW d \in Jobs, DepRaises(r, d) PROVE Covers(r)'
      BY <2>2, <3>7 DEF DepRaises, AtDep, JobFails, Live
    <3>8. ASSUME Crash(r) \/ Reaped(r) PROVE Covers(r)'
      <4>1. phase'[r] = "dead"
        BY <3>8, <2>T DEF Crash, Reaped
      <4> QED
        BY <4>1 DEF Covers, Live
    <3> QED
      BY <2>3, <2>4, <2>5, <3>1, <3>2, <3>3, <3>4, <3>5, <3>6, <3>7, <3>8, <3>9 DEF RunStep, Loads
  <2>6. CASE \E r \in Runs, m \in Modules : SessionLost(r, m)
    <3>1. UNCHANGED <<top, cur, caller, done, phase, want, held>>
      BY <2>6 DEF SessionLost, runVars
    <3> QED
      BY <2>1, <3>1 DEF Covers, Live
  <2>7. CASE UNCHANGED vars
    BY <2>1, <2>7 DEF vars, runVars, lockVars, Covers, Live
  <2>8. ASSUME NEW r \in Runs, RunStep(r) \/ Crash(r) \/ Reaped(r), NEW s \in Runs \ {r} PROVE Covers(s)'
    <3>1. /\ top'[s] = top[s] /\ cur'[s] = cur[s] /\ caller'[s] = caller[s]
          /\ done'[s] = done[s] /\ phase'[s] = phase[s] /\ want'[s] = want[s] /\ held'[s] = held[s]
      BY <2>8, OthersStay
    <3> QED
      BY <2>1, <3>1 DEF Covers, Live
  <2> QED
    BY <2>5, <2>6, <2>7, <2>8 DEF Next, AllOver
<1> QED
  BY <1>1, <1>2, PlatformTypes, PTL DEF Spec, TypeInv

LEMMA WorksUnderLocks ==
    ASSUME TypeInv, CoverInv, NEW r \in Runs, Working(r)
    PROVE  cur[r] \in Jobs /\ Own[cur[r]] \subseteq held[r]
<1>1. Live(r) /\ want[r] = {} /\ cur[r] \in Jobs
  BY DEF Working, Live, Covers, CoverInv, TypeInv, Stack
<1>2. CASE IsIsolated(r) /\ AtTop(r)
  BY <1>1, <1>2, JobsAssumption DEF IsIsolated, AtTop
<1>3. CASE ~(IsIsolated(r) /\ AtTop(r))
  BY <1>1, <1>3 DEF Covers, Covered, CoverInv
<1> QED
  BY <1>2, <1>3

\* What a run locks up front, or a module of the refresh before it begins,
\* covers every job it comes to, for any registry and whatever fails: two
\* processes are at the tasks of the same module only after MySQL dropped the
\* session of a lock.  (runner.py:205-226, 284-288, 365-377)
THEOREM ModulesAreExclusive == Spec => []ModuleExclusive
<1>1. TypeInv /\ CoverInv => ModuleExclusive
  BY WorksUnderLocks DEF ModuleExclusive
<1> QED
  BY <1>1, CoverHolds, PlatformTypes, PTL DEF TypeInv

-----------------------------------------------------------------------------
(* No two runs wait for each other *)

\* How far above its dependencies a job is: there are no cycles.
Rank == CHOOSE rank \in [Jobs -> Nat] : \A j \in Jobs : \A d \in Dep(j) : rank[d] < rank[j]

BelowTop(r, j) == j = top[r] \/ (j \in Jobs /\ Rank[j] < Rank[top[r]])

\* A run that takes locks has none that comes after one it wants; an isolated
\* run between its modules has none.  No dependency leads back to the top.
InLockOrder(r) ==
    /\ phase[r] = "none" => held[r] = {}
    /\ phase[r] = "lock" => \A m \in held[r], n \in want[r] : m < n
    /\ \A m \in Modules : owner[m] = r => m \in held[r]
    /\ phase[r] # "none" /\ IsIsolated(r) /\ AtTop(r) => held[r] = {} /\ want[r] = {}
    /\ phase[r] # "none" => BelowTop(r, cur[r])
    /\ \A j \in Jobs : caller[r][j] \in Jobs => BelowTop(r, caller[r][j])

OrderInv == \A r \in Runs : InLockOrder(r)

LEMMA RankDrops == Rank \in [Jobs -> Nat] /\ \A j \in Jobs : \A d \in Dep(j) : Rank[d] < Rank[j]
<1>1. PICK rank \in [Jobs -> 0..Cardinality(Jobs)] : \A j \in Jobs : \A d \in Dep(j) : rank[d] < rank[j]
  BY JobsAssumption
<1>2. Cardinality(Jobs) \in Nat
  BY JobsAssumption, FS_CardinalityType
<1>3. rank \in [Jobs -> Nat]
  BY <1>1, <1>2
<1> QED
  BY <1>1, <1>3 DEF Rank

LEMMA OrderHolds == Spec => []OrderInv
<1>1. Init => OrderInv
  <2>1. \A r \in Runs : r # Nobody
    BY PlatformAssumption
  <2>2. NoJob \notin Jobs
    BY PlatformAssumption
  <2> QED
    BY <2>1, <2>2 DEF Init, InLockOrder, None, ByJob, OrderInv
<1>2. TypeInv /\ OrderInv /\ [Next]_vars => OrderInv'
  <2> SUFFICES ASSUME TypeInv, OrderInv, [Next]_vars PROVE OrderInv'
    OBVIOUS
  <2> USE DEF OrderInv
  <2>T. /\ top \in [Runs -> Jobs \cup {NoJob}] /\ cur \in [Runs -> Jobs \cup {NoJob}]
        /\ caller \in [Runs -> [Jobs -> Jobs \cup {NoJob}]]
        /\ phase \in [Runs -> PhaseSet]
        /\ want \in [Runs -> SUBSET Modules] /\ held \in [Runs -> SUBSET Modules]
        /\ owner \in [Modules -> Runs \cup {Nobody}] /\ Stack
    BY DEF TypeInv, TypeOK, PhaseSet
  <2>M. Modules \subseteq Int /\ Nobody \notin Runs /\ NoJob \notin Jobs
    BY PlatformAssumption DEF Modules
  \* a step that leaves s at its job and does not begin to take locks
  <2>1. ASSUME NEW s \in Runs, top'[s] = top[s], cur'[s] = cur[s], caller'[s] = caller[s],
               phase'[s] = "none" => phase[s] = "none",
               phase[s] = "none" => phase'[s] = "none",
               phase'[s] = "lock" => phase[s] = "lock",
               \/ want'[s] = want[s] /\ held'[s] = held[s] /\ \A m \in Modules : owner'[m] = s => owner[m] = s
               \/ want'[s] = {} /\ held'[s] = {} /\ \A m \in Modules : owner'[m] # s
        PROVE  InLockOrder(s)'
    <3>1. InLockOrder(s)
      OBVIOUS
    <3> QED
      BY <2>1, <3>1 DEF InLockOrder, BelowTop, IsIsolated, AtTop
  <2>2. ASSUME NEW r \in Runs, phase[r] \notin {"none", "dead"}, NEW st, NEW raised, Leave(r, st, raised)
        PROVE  InLockOrder(r)'
    <3> DEFINE p == caller[r][cur[r]]
    <3>0. cur[r] \in Jobs /\ top[r] \in Jobs /\ InLockOrder(r) /\ UNCHANGED <<top, caller>>
      BY <2>2, <2>T DEF Stack, Leave
    <3>R. Release(r) => want'[r] = {} /\ held'[r] = {} /\ \A m \in Modules : owner'[m] # r
      BY <2>T, <2>M DEF Release
    <3>2. CASE AtTop(r)
      <4>1. phase'[r] = "over" /\ Release(r) /\ cur' = cur
        BY <2>2, <2>T, <3>2 DEF Leave
      <4> QED
        BY <2>1, <2>2, <3>0, <3>R, <4>1
    <3>3. CASE ~AtTop(r)
      <4>1. phase'[r] = "deps" /\ cur'[r] = p /\ p \in Jobs
        BY <2>2, <2>T, <3>3 DEF Leave, AtTop, Stack
      <4>2. BelowTop(r, p) /\ \A j \in Jobs : caller[r][j] \in Jobs => BelowTop(r, caller[r][j])
        BY <3>0, <4>1 DEF InLockOrder
      <4>3. (p = top[r] /\ IsIsolated(r) /\ Release(r)) \/ (~(p = top[r] /\ IsIsolated(r)) /\ UNCHANGED lockVars)
        BY <2>2, <3>3 DEF Leave, IsIsolated
      <4>4. \A m \in Modules : owner'[m] = r => m \in held'[r]
        BY <3>0, <3>R, <4>3 DEF InLockOrder, lockVars
      <4>5. IsIsolated(r) /\ p = top[r] => held'[r] = {} /\ want'[r] = {}
        BY <3>R, <4>3
      <4> HIDE DEF p
      <4> QED
        BY <3>0, <4>1, <4>2, <4>4, <4>5 DEF InLockOrder, BelowTop, IsIsolated, AtTop
    <3> QED
      BY <3>2, <3>3
  <2>3. ASSUME NEW r \in Runs, NEW j \in Starts, StartRun(r, j) PROVE InLockOrder(r)'
    <3>1. /\ top'[r] = j /\ cur'[r] = j /\ phase'[r] = "lock" /\ phase[r] = "none" /\ j \in Jobs
          /\ UNCHANGED <<caller, held, owner>> /\ (j \in Isolated => want'[r] = {})
      BY <2>3, <2>T, PlatformAssumption DEF StartRun
    <3>2. held[r] = {} /\ \A m \in Modules : owner[m] = r => m \in held[r]
      BY <3>1 DEF InLockOrder
    <3>3. \A k \in Jobs : caller'[r][k] \notin Jobs
      BY <3>1, <2>T, <2>M DEF Stack
    <3> QED
      BY <3>1, <3>2, <3>3 DEF InLockOrder, BelowTop, IsIsolated, AtTop
  <2>4. ASSUME NEW r \in Runs, NEW d \in Jobs, DepRuns(r, d) PROVE InLockOrder(r)'
    <3>1. phase[r] = "deps" /\ cur[r] \in Jobs /\ top[r] \in Jobs /\ d \in Dep(cur[r]) /\ InLockOrder(r)
      <4>1. phase[r] = "deps" /\ at[r][cur[r]] <= Len(Deps[cur[r]]) /\ d = Deps[cur[r]][at[r][cur[r]]]
        BY <2>4 DEF DepRuns, AtDep
      <4>2. cur[r] \in Jobs /\ at[r][cur[r]] > 0 /\ top[r] \in Jobs
        BY <4>1, <2>T DEF Stack
      <4>3. at[r][cur[r]] \in 1..Len(Deps[cur[r]])
        BY <4>1, <4>2, PlatformAssumption DEF TypeInv, TypeOK
      <4> QED
        BY <4>1, <4>2, <4>3 DEF Dep
    <3>2. /\ cur'[r] = d /\ UNCHANGED <<top, held, owner>>
          /\ \A k \in Jobs : caller'[r][k] = IF k = d THEN cur[r] ELSE caller[r][k]
      BY <2>4, <2>T, <3>1 DEF DepRuns, Put
    <3>3. BelowTop(r, d) /\ d # top[r]
      <4>1. Rank[d] < Rank[cur[r]] /\ Rank[d] \in Int /\ Rank[cur[r]] \in Int /\ Rank[top[r]] \in Int
        BY RankDrops, <3>1
      <4>2. cur[r] = top[r] \/ Rank[cur[r]] < Rank[top[r]]
        BY <3>1 DEF InLockOrder, BelowTop
      <4> QED
        BY <4>1, <4>2 DEF BelowTop
    <3>4. \A k \in Jobs : caller'[r][k] \in Jobs => BelowTop(r, caller'[r][k])
      BY <3>1, <3>2 DEF InLockOrder
    <3>5. phase'[r] = "start" \/ (phase'[r] = "lock" /\ held[r] = {})
      <4>1. CASE AtTop(r) /\ IsIsolated(r)
        BY <2>4, <2>T, <3>1, <4>1 DEF DepRuns, InLockOrder
      <4> QED
        BY <2>4, <2>T, <4>1 DEF DepRuns
    <3> QED
      BY <3>1, <3>2, <3>3, <3>4, <3>5 DEF InLockOrder, BelowTop, IsIsolated, AtTop
  <2>5. ASSUME NEW r \in Runs, TakeLock(r) PROVE InLockOrder(r)'
    <3>1. PICK m \in NextLock(r) :
            /\ owner' = [owner EXCEPT ![m] = r]
            /\ want'  = [want EXCEPT ![r] = want[r] \ {m}] /\ held'  = [held EXCEPT ![r] = held[r] \cup {m}]
            /\ UNCHANGED <<top, cur, caller, phase>> /\ phase[r] = "lock"
      BY <2>5 DEF TakeLock, runVars
    <3>2. m \in want[r] /\ m \in Modules /\ \A n \in want[r] : m <= n
      BY <2>T DEF NextLock
    <3>3. want'[r] = want[r] \ {m} /\ held'[r] = held[r] \cup {m}
      BY <3>1, <2>T
    <3>4. \A k \in held[r], n \in want[r] : k < n
      BY <3>1 DEF InLockOrder
    <3>5. \A k \in held'[r], n \in want'[r] : k < n
      <4>1. want[r] \subseteq Int
        BY <2>T, <2>M
      <4> QED
        BY <3>2, <3>3, <3>4, <4>1
    <3>6. \A n \in Modules : owner'[n] = r => n \in held'[r]
      BY <3>1, <3>2, <3>3, <2>T DEF InLockOrder
    <3>7. ~(IsIsolated(r) /\ AtTop(r))
      BY <3>1, <3>2 DEF InLockOrder
    <3> QED
      BY <3>1, <3>5, <3>6, <3>7 DEF InLockOrder, BelowTop, IsIsolated, AtTop
  <2>6. ASSUME NEW r \in Runs, RunStep(r) \/ Crash(r) \/ Reaped(r) PROVE InLockOrder(r)'
    <3>2. ASSUME AllLocked(r) \/ Start(r) PROVE InLockOrder(r)'
      <4>1. /\ phase[r] \in {"lock", "start"} /\ phase'[r] \in {"start", "deps"}
            /\ UNCHANGED <<top, cur, caller, want, held, owner>>
        BY <3>2, <2>T DEF AllLocked, Start, runVars, lockVars
      <4> QED
        BY <2>1, <4>1
    <3>3. ASSUME LockBusy(r) PROVE InLockOrder(r)'
      <4>1. CASE AtTop(r)
        <5>1. /\ phase[r] = "lock" /\ phase'[r] = "over" /\ UNCHANGED <<top, cur, caller>>
              /\ want'[r] = {} /\ held'[r] = {} /\ \A m \in Modules : owner'[m] # r
          BY <3>3, <4>1, <2>T, <2>M DEF LockBusy, Busy, Release, runVars
        <5> QED
          BY <2>1, <5>1
      <4> QED
        BY <2>2, <3>3, <4>1 DEF LockBusy, Busy
    <3>10. ASSUME SkipRaises(r) PROVE InLockOrder(r)'
      <4>1. /\ phase[r] = "lock" /\ phase'[r] = "over" /\ cur'[r] = top[r] /\ UNCHANGED <<top, caller>>
            /\ want'[r] = {} /\ held'[r] = {} /\ \A m \in Modules : owner'[m] # r
        BY <3>10, <2>T, <2>M DEF SkipRaises, Busy, Release
      <4> QED
        BY <4>1 DEF InLockOrder, BelowTop
    <3>4. ASSUME LogFails(r) \/ Finish(r) \/ TaskRaises(r) PROVE InLockOrder(r)'
      BY <2>2, <3>4 DEF LogFails, Finish, TaskRaises, Working, JobFails
    <3>5. ASSUME DepsOver(r) \/ Loads(r) \/ SwapCreate(r) \/ SwapLoad(r) \/ SwapRename(r) PROVE InLockOrder(r)'
      <4>1. CASE DepsOver(r) /\ RequirementFailed(r)
        BY <2>2, <4>1 DEF DepsOver, JobFails
      <4>2. CASE ~(DepsOver(r) /\ RequirementFailed(r))
        <5>1. /\ phase[r] \in {"deps", "work", "created", "loaded"}
              /\ phase'[r] \in {"work", "created", "loaded", "finish"}
              /\ UNCHANGED <<top, cur, caller, want, held, owner>>
          BY <3>5, <4>2, <2>T DEF DepsOver, Loads, Commit, TasksDone, SwapCreate, SwapLoad, SwapRename, Step, runVars, lockVars
        <5> QED
          BY <2>1, <5>1
      <4> QED
        BY <4>1, <4>2
    <3>6. ASSUME NEW d \in Jobs, DepDone(r, d) \/ DepDisabled(r, d) \/ DepBlocked(r, d) \/ DepReused(r, d)
          PROVE  InLockOrder(r)'
      <4>1. UNCHANGED <<top, cur, caller, phase, want, held, owner>>
        BY <3>6 DEF DepDone, DepDisabled, DepBlocked, DepReused, NextDep, lockVars
      <4> QED
        BY <2>1, <4>1
    <3>7. ASSUME NEW d \in Jobs, DepRaises(r, d) PROVE InLockOrder(r)'
      BY <2>2, <3>7 DEF DepRaises, AtDep, JobFails
    <3>8. ASSUME Crash(r) PROVE InLockOrder(r)'
      <4>1. phase[r] # "none" /\ phase'[r] = "dead" /\ UNCHANGED <<top, cur, caller, want, held, owner>>
        BY <3>8, <2>T DEF Crash, runVars, lockVars
      <4> QED
        BY <2>1, <4>1
    <3>9. ASSUME Reaped(r) PROVE InLockOrder(r)'
      <4>1. /\ UNCHANGED <<top, cur, caller, phase>>
            /\ want'[r] = {} /\ held'[r] = {} /\ \A m \in Modules : owner'[m] # r
        BY <3>9, <2>T, <2>M DEF Reaped, Release, runVars
      <4> QED
        BY <2>1, <4>1
    <3> QED
      BY <2>3, <2>4, <2>5, <2>6, <3>2, <3>3, <3>4, <3>5, <3>6, <3>7, <3>8, <3>9, <3>10 DEF RunStep, Loads
  <2>7. ASSUME NEW r \in Runs, NEW l \in Modules, SessionLost(r, l) PROVE OrderInv'
    <3>1. UNCHANGED <<top, cur, caller, phase, want, held>> /\ owner' = [owner EXCEPT ![l] = Nobody]
      BY <2>7 DEF SessionLost, runVars
    <3>2. \A s \in Runs, m \in Modules : owner'[m] = s => owner[m] = s
      BY <3>1, <2>T, <2>M
    <3> QED
      BY <2>1, <3>1, <3>2
  <2>8. CASE UNCHANGED vars
    BY <2>1, <2>8 DEF vars, runVars, lockVars
  <2>9. ASSUME NEW r \in Runs, RunStep(r) \/ Crash(r) \/ Reaped(r), NEW s \in Runs \ {r} PROVE InLockOrder(s)'
    <3>1. /\ top'[s] = top[s] /\ cur'[s] = cur[s] /\ caller'[s] = caller[s]
          /\ phase'[s] = phase[s] /\ want'[s] = want[s] /\ held'[s] = held[s]
      BY <2>9, OthersStay
    <3>2. \/ owner' = owner \/ Release(r)
          \/ \E m \in Modules : owner' = [owner EXCEPT ![m] = r]
      BY <2>9, <2>T
      DEF RunStep, Crash, Reaped, StartRun, TakeLock, NextLock, AllLocked, LockBusy, Busy, SkipRaises, Start, DepsOver, Finish,
          LogFails, DepDone, DepDisabled, DepBlocked, DepReused, DepRaises, DepRuns, NextDep, Loads, Commit, TasksDone, SwapCreate,
          SwapLoad, SwapRename, Step, TaskRaises, JobFails, Leave, lockVars
    <3>3. \A m \in Modules : owner'[m] = s => owner[m] = s
      BY <3>2, <2>T, <2>M DEF Release
    <3> QED
      BY <2>1, <3>1, <3>3
  <2> QED
    BY <2>6, <2>7, <2>8, <2>9 DEF Next, AllOver
<1> QED
  BY <1>1, <1>2, PlatformTypes, PTL DEF Spec, TypeInv

\* "Every run takes them in the same order, so two runs never deadlock", for
\* any registry without a cycle: also the refresh, which takes the locks of
\* one module after those of another, never waits while it holds a later one.
\* (runner.py:282-288, 365-387; registry.py:203-215)
THEOREM RunsNeverDeadlock == Spec => []NoMutualWait
<1>1. TypeInv /\ OrderInv => NoMutualWait
  <2> SUFFICES ASSUME TypeInv, OrderInv, NEW r \in Runs, NEW s \in Runs, phase[r] = "lock", phase[s] = "lock",
                      NEW m \in NextLock(r), NEW n \in NextLock(s), owner[m] = s, owner[n] = r
               PROVE  FALSE
    BY DEF NoMutualWait
  <2>1. m \in want[r] /\ n \in want[s] /\ m \in Modules /\ n \in Modules
    BY DEF NextLock, TypeInv, TypeOK
  <2>2. m \in held[s] /\ n \in held[r]
    BY <2>1 DEF InLockOrder, OrderInv
  <2>3. m < n /\ n < m
    BY <2>1, <2>2 DEF InLockOrder, OrderInv
  <2> QED
    BY <2>1, <2>3, PlatformAssumption DEF Modules
<1> QED
  BY <1>1, OrderHolds, PlatformTypes, PTL DEF TypeInv

-----------------------------------------------------------------------------
(* A live table that is only swapped holds exactly one load *)

\* As long as no session was lost, a run owns the locks it counts on, and
\* <t>__new of the modules that it swaps holds nothing but its own rows.
Kept(r) ==
    /\ \A m \in held[r] : owner[m] = r
    /\ phase[r] = "created" => \A m \in Own[cur[r]] : staging[m] = {}
    /\ phase[r] = "loaded"  => \A m \in Own[cur[r]] : staging[m] = {r}

BudgetInv == \A f \in Faults : budget[f] <= Budget[f]
Whole     == \A m \in Modules : SwapOnly(m) => \E x : table[m] = {x}
KeptInv   == Never("session") => Whole /\ \A r \in Runs : Kept(r)

\* A run is never at a job that is switched off, nor called from one.
Enabled(r) ==
    /\ phase[r] # "none" => cur[r] \notin Disabled /\ top[r] \notin Disabled
    /\ \A j \in Jobs : caller[r][j] \notin Disabled
EnabledInv == \A r \in Runs : Enabled(r)

LEMMA EnabledHolds == Spec => []EnabledInv
<1>1. Init => EnabledInv
  BY PlatformAssumption DEF Init, EnabledInv, Enabled, ByJob
<1>2. TypeInv /\ EnabledInv /\ [Next]_vars => EnabledInv'
  <2> SUFFICES ASSUME TypeInv, EnabledInv, [Next]_vars PROVE EnabledInv'
    OBVIOUS
  <2>T. /\ top \in [Runs -> Jobs \cup {NoJob}] /\ cur \in [Runs -> Jobs \cup {NoJob}]
        /\ caller \in [Runs -> [Jobs -> Jobs \cup {NoJob}]] /\ phase \in [Runs -> PhaseSet]
        /\ \A r \in Runs : phase[r] # "none" => cur[r] \in Jobs
    BY DEF TypeInv, TypeOK, Stack, PhaseSet
  <2>1. ASSUME NEW s \in Runs, top'[s] = top[s], cur'[s] = cur[s], caller'[s] = caller[s],
               phase'[s] = "none" \/ phase[s] # "none"
        PROVE  Enabled(s)'
    BY <2>1 DEF Enabled, EnabledInv
  <2>2. ASSUME NEW r \in Runs, phase[r] # "none", NEW st, NEW raised, Leave(r, st, raised) PROVE Enabled(r)'
    <3>1. UNCHANGED <<top, caller>> /\ (cur' = cur \/ cur' = [cur EXCEPT ![r] = caller[r][cur[r]]])
      BY <2>2 DEF Leave
    <3> QED
      BY <2>2, <2>T, <3>1 DEF Enabled, EnabledInv
  <2>3. ASSUME NEW r \in Runs, RunStep(r) \/ Crash(r) \/ Reaped(r) PROVE Enabled(r)'
    <3>1. ASSUME NEW j \in Starts, StartRun(r, j) PROVE Enabled(r)'
      BY <2>T, <3>1, PlatformAssumption DEF StartRun, Enabled, EnabledInv
    <3>2. ASSUME NEW d \in Jobs, DepRuns(r, d) PROVE Enabled(r)'
      <4>1. /\ d \notin Disabled /\ top' = top /\ cur' = [cur EXCEPT ![r] = d]
            /\ caller' = Put(caller, r, d, cur[r]) /\ phase[r] # "none"
        BY <3>2 DEF DepRuns, AtDep
      <4> QED
        BY <2>T, <4>1 DEF Put, Enabled, EnabledInv
    <3>3. CASE SkipRaises(r)
      BY <2>T, <3>3 DEF SkipRaises, Busy, Enabled, EnabledInv
    <3>4. CASE \/ LogFails(r) \/ Finish(r) \/ TaskRaises(r) \/ (DepsOver(r) /\ RequirementFailed(r))
               \/ (LockBusy(r) /\ ~AtTop(r)) \/ \E d \in Jobs : DepRaises(r, d)
      BY <2>2, <3>4 DEF LogFails, Finish, TaskRaises, Working, DepsOver, LockBusy, Busy, DepRaises, AtDep, JobFails
    <3>5. CASE \/ TakeLock(r) \/ AllLocked(r) \/ Start(r) \/ (DepsOver(r) /\ ~RequirementFailed(r))
               \/ (LockBusy(r) /\ AtTop(r)) \/ Loads(r) \/ SwapCreate(r) \/ SwapLoad(r) \/ SwapRename(r)
               \/ Crash(r) \/ Reaped(r)
               \/ \E d \in Jobs : DepDone(r, d) \/ DepDisabled(r, d) \/ DepBlocked(r, d) \/ DepReused(r, d)
      <4>1. UNCHANGED <<top, cur, caller>> /\ phase[r] # "none"
        BY <3>5 DEF TakeLock, AllLocked, Start, DepsOver, LockBusy, Busy, Loads, Commit, TasksDone, SwapCreate,
           SwapLoad, SwapRename, Step, Crash, Reaped, DepDone, DepDisabled, DepBlocked, DepReused, AtDep, NextDep,
           runVars
      <4> QED
        BY <2>1, <4>1
    <3> QED
      BY <2>3, <3>1, <3>2, <3>3, <3>4, <3>5 DEF RunStep, Loads
  <2>4. ASSUME NEW r \in Runs, RunStep(r) \/ Crash(r) \/ Reaped(r), NEW s \in Runs \ {r} PROVE Enabled(s)'
    <3>1. top'[s] = top[s] /\ cur'[s] = cur[s] /\ caller'[s] = caller[s] /\ phase'[s] = phase[s]
      BY <2>4, OthersStay
    <3> QED
      BY <2>1, <3>1
  <2>5. CASE UNCHANGED <<top, cur, caller, phase>>
    BY <2>1, <2>5 DEF EnabledInv
  <2> QED
    BY <2>3, <2>4, <2>5 DEF EnabledInv, Next, AllOver, SessionLost, vars, runVars
<1> QED
  BY <1>1, <1>2, PlatformTypes, PTL DEF Spec, TypeInv

LEMMA SpendLess ==
    ASSUME budget \in [Faults -> Nat], BudgetInv, NEW S, Spend(S)
    PROVE  /\ BudgetInv' /\ \A f \in Faults : Never(f)' => Never(f)
           /\ \A f \in S \cap Faults : ~Never(f)'
BY PlatformAssumption DEF BudgetInv, Spend, Never

\* No step gives a fault back.
LEMMA BudgetFalls ==
    ASSUME TypeInv, BudgetInv, [Next]_vars
    PROVE  /\ BudgetInv' /\ \A f \in Faults : Never(f)' => Never(f)
           /\ \A r \in Runs, m \in Modules : SessionLost(r, m) => ~Never("session")'
<1>1. budget' = budget \/ \E S : Spend(S)
  <2>1. ASSUME NEW r \in Runs, NEW S, JobFails(r, S) PROVE \E T : Spend(T)
    BY <2>1 DEF JobFails
  <2>2. ASSUME NEW r \in Runs, RunStep(r) PROVE budget' = budget \/ \E S : Spend(S)
    <3>1. CASE TaskRaises(r) \/ (DepsOver(r) /\ RequirementFailed(r)) \/ \E d \in Jobs : DepRaises(r, d)
      BY <2>1, <3>1 DEF TaskRaises, DepsOver, DepRaises
    <3>2. CASE LogFails(r) \/ SkipRaises(r)
      BY <3>2 DEF LogFails, SkipRaises
    <3>3. CASE ~(TaskRaises(r) \/ (DepsOver(r) /\ RequirementFailed(r)) \/ (\E d \in Jobs : DepRaises(r, d)))
               /\ ~(LogFails(r) \/ SkipRaises(r))
      BY <2>2, <3>3 DEF RunStep, StartRun, TakeLock, AllLocked, LockBusy, Start, DepsOver, Finish, DepDone,
         DepDisabled, DepBlocked, DepReused, DepRuns, NextDep, Loads, Commit, TasksDone, SwapCreate, SwapLoad, SwapRename, Step
    <3> QED
      BY <3>1, <3>2, <3>3
  <2> QED
    BY <2>2 DEF Next, Crash, Reaped, SessionLost, AllOver, vars
<1>2. budget \in [Faults -> Nat]
  BY DEF TypeInv, TypeOK
<1>3. ASSUME NEW r \in Runs, NEW m \in Modules, SessionLost(r, m) PROVE ~Never("session")'
  <2>1. Spend({"session"}) /\ "session" \in {"session"} \cap Faults
    BY <1>3 DEF SessionLost, Faults
  <2> QED
    BY <1>2, <2>1, SpendLess
<1>4. CASE budget' = budget
  BY <1>3, <1>4 DEF BudgetInv, Never
<1>5. CASE \E S : Spend(S)
  BY <1>2, <1>3, <1>5, SpendLess
<1> QED
  BY <1>1, <1>4, <1>5

\* A run writes the tables of the job at hand only, and takes free locks only.
LEMMA WritesOwn ==
    ASSUME TypeInv, NEW r \in Runs, RunStep(r) \/ Crash(r) \/ Reaped(r), NEW m \in Modules
    PROVE  /\ (table'[m] = table[m] /\ staging'[m] = staging[m]) \/ (Working(r) /\ m \in Own[cur[r]])
           /\ owner'[m] = owner[m] \/ owner[m] \in {Nobody, r}
<1>1. (table'[m] = table[m] /\ staging'[m] = staging[m]) \/ (Working(r) /\ m \in Own[cur[r]])
  <2>1. CASE Loads(r) \/ SwapCreate(r) \/ SwapLoad(r) \/ SwapRename(r) \/ TaskRaises(r)
    <3>1. DOMAIN table = Modules
      BY DEF TypeInv, TypeOK
    <3> QED
      BY <2>1, <3>1 DEF Loads, Commit, TasksDone, SwapCreate, SwapLoad, SwapRename, TaskRaises, Step, Working, Fill,
         Staged, dataVars
  <2>2. CASE ~(Loads(r) \/ SwapCreate(r) \/ SwapLoad(r) \/ SwapRename(r) \/ TaskRaises(r))
    BY <2>2 DEF RunStep, Loads, Crash, Reaped, StartRun, TakeLock, AllLocked, LockBusy, SkipRaises, Start, DepsOver,
       Finish, LogFails, DepDone, DepDisabled, DepBlocked, DepReused, DepRaises, DepRuns, NextDep, dataVars
  <2> QED
    BY <2>1, <2>2
<1>2. owner'[m] = owner[m] \/ owner[m] \in {Nobody, r}
  <2>1. owner \in [Modules -> Runs \cup {Nobody}]
    BY DEF TypeInv, TypeOK
  <2>2. \/ owner' = owner \/ Release(r)
        \/ \E n \in Modules : owner[n] = Nobody /\ owner' = [owner EXCEPT ![n] = r]
    <3>1. CASE TakeLock(r)
      <4>1. want[r] \subseteq Modules
        BY DEF TypeInv, TypeOK
      <4> QED
        BY <3>1, <4>1 DEF TakeLock, NextLock
    <3>2. CASE ~TakeLock(r)
      BY <3>2 DEF RunStep, Crash, Reaped, StartRun, AllLocked, LockBusy, SkipRaises, Start, DepsOver, Finish,
          LogFails, DepDone, DepDisabled, DepBlocked, DepReused, DepRaises, DepRuns, NextDep, Loads, Commit, TasksDone, SwapCreate,
          SwapLoad, SwapRename, Step, TaskRaises, JobFails, Leave, lockVars
    <3> QED
      BY <3>1, <3>2
  <2> QED
    BY <2>1, <2>2 DEF Release
<1> QED
  BY <1>1, <1>2

\* A reader finds exactly one load in a live table that is only swapped,
\* however many processes, crashes and failures there are, as long as no lock
\* session is lost: the DROP and CREATE of <t>__new and its load happen under the
\* module's lock, so nothing but this load's rows is renamed into place; and a
\* job that could write the table otherwise is switched off, so no run comes to it.
\* (load.py:459-505; runner.py:205-226, 365-387)
THEOREM SwappedTablesAreWhole == Spec => []SwapsAreWhole
<1>1. Init => BudgetInv /\ KeptInv
  <2> SUFFICES ASSUME Init PROVE BudgetInv /\ KeptInv
    OBVIOUS
  <2>1. \A f \in Faults : budget[f] = Budget[f] /\ Budget[f] \in Nat
    BY PlatformAssumption DEF Init
  <2>2. \A m \in Modules : table[m] = {Nobody}
    BY DEF Init
  <2>3. \A r \in Runs : held[r] = {} /\ phase[r] = "none"
    BY DEF Init, None
  <2> QED
    BY <2>1, <2>2, <2>3 DEF BudgetInv, KeptInv, Whole, Kept
<1>2. TypeInv /\ CoverInv /\ EnabledInv /\ BudgetInv /\ KeptInv /\ [Next]_vars => BudgetInv' /\ KeptInv'
  <2> SUFFICES ASSUME TypeInv, CoverInv, EnabledInv, BudgetInv, KeptInv, [Next]_vars, Never("session")'
               PROVE  Whole' /\ \A s \in Runs : Kept(s)'
    BY BudgetFalls DEF KeptInv
  <2>1. Whole /\ (\A s \in Runs : Kept(s)) /\ \A r \in Runs, m \in Modules : ~SessionLost(r, m)
    BY BudgetFalls DEF KeptInv, Faults
  <2>2. CASE UNCHANGED vars
    BY <2>1, <2>2 DEF vars, runVars, lockVars, dataVars, Whole, Kept
  <2>3. ASSUME NEW r \in Runs, RunStep(r) \/ Crash(r) \/ Reaped(r) PROVE Whole' /\ \A s \in Runs : Kept(s)'
    <3>0. /\ Nobody \notin Runs /\ Kept(r) /\ \A s \in Runs : held[s] \subseteq Modules
          /\ cur \in [Runs -> Jobs \cup {NoJob}] /\ phase \in [Runs -> PhaseSet]
          /\ held \in [Runs -> SUBSET Modules] /\ owner \in [Modules -> Runs \cup {Nobody}]
          /\ want \in [Runs -> SUBSET Modules]
      BY <2>1, PlatformAssumption DEF TypeInv, TypeOK, PhaseSet
    <3>1. ASSUME NEW s \in Runs \ {r} PROVE Kept(s)'
      <4>1. Kept(s) /\ cur'[s] = cur[s] /\ phase'[s] = phase[s] /\ held'[s] = held[s] /\ held[s] \subseteq Modules
        BY <2>1, <2>3, <3>0, OthersStay
      <4>2. ASSUME NEW m \in held[s] PROVE owner'[m] = s /\ ~(Working(r) /\ m \in Own[cur[r]])
        <5>1. m \in Modules /\ owner[m] = s /\ s # Nobody /\ s # r
          BY <4>1, <4>2, <3>0 DEF Kept
        <5>2. owner'[m] = s
          BY <5>1, <2>3, WritesOwn
        <5>3. ~(Working(r) /\ m \in Own[cur[r]])
          BY <5>1, <3>0, WorksUnderLocks DEF Kept
        <5> QED
          BY <5>2, <5>3
      <4>3. Working(s) => \A m \in Own[cur[s]] : staging'[m] = staging[m]
        BY <2>3, <4>1, <4>2, WritesOwn, WorksUnderLocks
      <4> QED
        BY <4>1, <4>2, <4>3 DEF Kept, Working
    <3>2. Whole'
      <4>1. SUFFICES ASSUME NEW m \in Modules, SwapOnly(m), Working(r), m \in Own[cur[r]], table'[m] # table[m]
                     PROVE  \E x : table'[m] = {x}
        BY <2>1, <2>3, WritesOwn DEF Whole, SwapOnly
      <4>2. cur[r] \in Jobs \ Disabled
        BY <4>1, WorksUnderLocks DEF Working, EnabledInv, Enabled
      <4>3. cur[r] \in Swapped
        BY <4>1, <4>2 DEF SwapOnly
      <4>4. SwapRename(r)
        BY <2>3, <4>1, <4>3 DEF RunStep, Crash, Reaped, StartRun, TakeLock, AllLocked, LockBusy, SkipRaises, Start,
           DepsOver, Finish, LogFails, DepDone, DepDisabled, DepBlocked, DepReused, DepRaises, DepRuns, NextDep,
           Commit, TasksDone, SwapCreate, SwapLoad, TaskRaises, dataVars
      <4>5. table'[m] = {r}
        BY <3>0, <4>1, <4>4 DEF SwapRename, Step, Staged, Kept
      <4> QED
        BY <4>5
    <3>3. \A m \in held'[r] : owner'[m] = r
      <4>1. CASE TakeLock(r)
        <5>1. PICK m \in NextLock(r) :
                 owner' = [owner EXCEPT ![m] = r] /\ held' = [held EXCEPT ![r] = held[r] \cup {m}]
          BY <4>1 DEF TakeLock
        <5>2. m \in Modules
          BY <3>0 DEF NextLock
        <5> QED
          BY <3>0, <5>1, <5>2 DEF Kept
      <4>2. CASE ~TakeLock(r)
        <5>1. (owner' = owner /\ held' = held) \/ Release(r)
          BY <2>3, <4>2 DEF RunStep, Crash, Reaped, StartRun, AllLocked, LockBusy, SkipRaises, Start, DepsOver,
             Finish, LogFails, DepDone, DepDisabled, DepBlocked, DepReused, DepRaises, DepRuns, NextDep, Loads, Commit, TasksDone,
             SwapCreate, SwapLoad, SwapRename, Step, TaskRaises, JobFails, Leave, lockVars
        <5> QED
          BY <3>0, <5>1 DEF Kept, Release
      <4> QED
        BY <4>1, <4>2
    <3>4. /\ phase'[r] = "created" => SwapCreate(r)
          /\ phase'[r] = "loaded" => SwapLoad(r)
      <4>1. ASSUME NEW st, NEW raised, Leave(r, st, raised) PROVE phase'[r] \in {"over", "deps"}
        BY <4>1, <3>0 DEF Leave
      <4>2. CASE LockBusy(r) \/ SkipRaises(r) \/ LogFails(r) \/ Finish(r) \/ TaskRaises(r) \/ DepsOver(r)
                 \/ \E d \in Jobs : DepRaises(r, d)
        BY <3>0, <4>1, <4>2 DEF LockBusy, SkipRaises, LogFails, Finish, TaskRaises, DepsOver, DepRaises, JobFails
      <4>3. CASE ~(LockBusy(r) \/ SkipRaises(r) \/ LogFails(r) \/ Finish(r) \/ TaskRaises(r) \/ DepsOver(r)
                   \/ \E d \in Jobs : DepRaises(r, d))
        <5>1. CASE \E d \in Jobs : \/ DepDone(r, d) \/ DepDisabled(r, d) \/ DepBlocked(r, d)
                                   \/ DepReused(r, d) \/ DepRuns(r, d)
          <6>1. phase[r] = "deps" /\ (phase' = phase \/ \E ph \in {"lock", "start"} : phase' = [phase EXCEPT ![r] = ph])
            BY <5>1 DEF DepDone, DepDisabled, DepBlocked, DepReused, DepRuns, AtDep, NextDep
          <6> QED
            BY <3>0, <6>1
        <5>2. CASE Loads(r) \/ SwapCreate(r) \/ SwapLoad(r) \/ SwapRename(r)
          BY <3>0, <5>2 DEF Loads, Commit, TasksDone, SwapCreate, SwapLoad, SwapRename, Step
        <5>3. CASE \/ \E j \in Starts : StartRun(r, j)
                   \/ TakeLock(r) \/ AllLocked(r) \/ Start(r) \/ Crash(r) \/ Reaped(r)
          BY <3>0, <5>3 DEF StartRun, TakeLock, AllLocked, Start, Crash, Reaped
        <5> QED
          BY <2>3, <4>3, <5>1, <5>2, <5>3 DEF RunStep, Loads
      <4> QED
        BY <4>2, <4>3
    <3>5. /\ phase'[r] = "created" => \A m \in Own[cur'[r]] : staging'[m] = {}
          /\ phase'[r] = "loaded"  => \A m \in Own[cur'[r]] : staging'[m] = {r}
      <4>1. SwapCreate(r) \/ SwapLoad(r) => cur' = cur /\ Own[cur[r]] \subseteq Modules
        <5>1. SwapCreate(r) \/ SwapLoad(r) => cur' = cur /\ Working(r)
          BY DEF SwapCreate, SwapLoad, Step, runVars, Working
        <5> QED
          BY <5>1, <3>0, WorksUnderLocks
      <4> QED
        BY <3>0, <3>4, <4>1 DEF SwapCreate, SwapLoad, Step, Fill, Kept
    <3> QED
      BY <3>1, <3>2, <3>3, <3>5 DEF Kept
  <2> QED
    BY <2>1, <2>2, <2>3 DEF Next, AllOver
<1>3. KeptInv => SwapsAreWhole
  <2>1. ASSUME NEW m \in Modules, NEW x, table[m] = {x} PROVE Cardinality(table[m]) = 1
    BY <2>1, FS_Singleton
  <2> QED
    BY <2>1 DEF KeptInv, Whole, SwapsAreWhole
<1> QED
  BY <1>1, <1>2, <1>3, CoverHolds, EnabledHolds, PlatformTypes, PTL DEF Spec, TypeInv

=============================================================================
