-------------------------- MODULE PlatformJobs_proofs --------------------------
(***************************************************************************)
(* What is proved of the jobs of a run of PlatformRunner, for any registry *)
(* without a dependency cycle and any faults: that tasks begin only after  *)
(* what they require, and once, and that the exit code is honest.          *)
(*                                                                         *)
(* The argument follows the calls: the jobs a run is inside of form a      *)
(* chain from the job at hand to the top-level one, each at the dependency *)
(* that the next one is.                                                   *)
(***************************************************************************)
EXTENDS PlatformRunner_proofs

Past(r) == Working(r) \/ phase[r] = "finish"

\* C are the jobs that r is inside of.  None of them is done, each is what its
\* caller looks at, and the caller is the next one up.  A job that is to fail
\* but did not end yet is one of them.
Chain(r, C) ==
    /\ C \subseteq Jobs /\ cur[r] \in C /\ top[r] \in C
    /\ \A j \in C : done[r][j] = "none" /\ (j = top[r] \/ Rank[j] < Rank[top[r]])
    /\ \A j \in C \ {cur[r]} : Rank[cur[r]] < Rank[j]
    /\ \A j \in C \ {top[r]} :
          /\ caller[r][j] \in C
          /\ at[r][caller[r][j]] \in 1..Len(Deps[caller[r][j]])
          /\ Deps[caller[r][j]][at[r][caller[r][j]]] = j
          /\ \A k \in C : Rank[j] < Rank[k] => k = caller[r][j] \/ Rank[caller[r][j]] < Rank[k]
    /\ \A j \in Jobs : j \in depFail[r] /\ done[r][j] = "none" => j \in C /\ (j = cur[r] => phase[r] = "deps")
Inside(r) == Live(r) => \E C \in SUBSET Jobs : Chain(r, C)

\* How a job may come past its dependency d.
Behind(r, j, d) ==
    \/ done[r][d] \in Good \cup {"disabled"}
    \/ IsIsolated(r) /\ done[r][d] \in NotRun
    \/ j \in depFail[r]
    \/ (d \in Optional[j] \/ j \in Isolated) /\ j \in optFail[r]
Settled(r) ==
    \A j \in Jobs : \A k \in 1..Len(Deps[j]) : k < at[r][j] => Behind(r, j, Deps[j][k])

\* The tasks of a job that is not done did not begin, unless it is at them.
BegunOnce(r) ==
    \A j \in Jobs :
        \/ <<r, j>> \in unset
        \/ /\ begun[r][j] <= 1
           /\ \/ begun[r][j] = 0 \/ done[r][j] # "none"
              \/ j = cur[r] /\ (Past(r) \/ phase[r] = "dead")

\* A job that is past its dependencies is not to fail for one.
PastDeps(r) ==
    Past(r) => /\ at[r][cur[r]] > Len(Deps[cur[r]]) /\ cur[r] \notin depFail[r]
               /\ Working(r) => HasTasks(cur[r])

\* Before the top-level job starts nothing was done.
Fresh(r) ==
    phase[r] = "none" \/ (AtTop(r) /\ phase[r] \in {"lock", "start"}) =>
        /\ \A j \in Jobs : done[r][j] = "none"
        /\ depFail[r] = {} /\ optFail[r] = {}

\* In an isolated run a failed job is reported, or is about to be.
FailNoted(r) ==
    /\ \A j \in Isolated : j \notin depFail[r]
    /\ Live(r) /\ IsIsolated(r) /\ (\E d \in Jobs : done[r][d] = "failed") =>
          top[r] \in optFail[r] \/ \E k \in Jobs : k \in depFail[r] /\ done[r][k] = "none"

JobInv(r) == Inside(r) /\ Settled(r) /\ BegunOnce(r) /\ PastDeps(r) /\ Fresh(r) /\ FailNoted(r)
JobsInv   == \A r \in Runs : JobInv(r)

-----------------------------------------------------------------------------
(* What the steps do, by run *)

\* The part of the state of run r that the invariant is about.
RunTypes(r) ==
    /\ top \in [Runs -> Jobs \cup {NoJob}] /\ cur \in [Runs -> Jobs \cup {NoJob}]
    /\ caller \in [Runs -> [Jobs -> Jobs \cup {NoJob}]] /\ at \in [Runs -> [Jobs -> Nat]]
    /\ done \in [Runs -> [Jobs -> Statuses]] /\ begun \in [Runs -> [Jobs -> Nat]]
    /\ depFail \in [Runs -> SUBSET Jobs] /\ optFail \in [Runs -> SUBSET Jobs]
    /\ phase \in [Runs -> PhaseSet] /\ result \in [Runs -> Results]
    /\ row \in [Runs -> [Jobs -> RowSet]] /\ unset \subseteq Runs \X Jobs
    /\ phase[r] # "none" => top[r] \in Jobs /\ cur[r] \in Jobs
    /\ phase[r] # "none" /\ cur[r] # top[r] => caller[r][cur[r]] \in Jobs

LEMMA HasTypes == ASSUME TypeInv, NEW r \in Runs PROVE RunTypes(r)
BY DEF TypeInv, TypeOK, Stack, RunTypes, Statuses, PhaseSet, RowSet

LEMMA JobsHaveTypes ==
    /\ NoJob \notin Jobs /\ Deps \in [Jobs -> Seq(Jobs)] /\ Optional \in [Jobs -> SUBSET Jobs]
    /\ \A j \in Jobs : Rank[j] \in Nat /\ Len(Deps[j]) \in Nat
    /\ \A j \in Jobs : \A k \in 1..Len(Deps[j]) : Deps[j][k] \in Jobs /\ Deps[j][k] \in Dep(j)
    /\ \A j \in Jobs : \A d \in Dep(j) : Rank[d] < Rank[j]
BY PlatformAssumption, RankDrops DEF Dep

LEMMA RankType == \A j \in Jobs : Rank[j] \in Int /\ Len(Deps[j]) \in Nat
BY JobsHaveTypes

\* A step of one run leaves the others' jobs alone; it may sweep their rows.
LEMMA OthersKeep ==
    ASSUME TypeInv, NEW r \in Runs, RunStep(r) \/ Crash(r) \/ Reaped(r), NEW s \in Runs \ {r}
    PROVE  /\ at'[s] = at[s] /\ depFail'[s] = depFail[s] /\ optFail'[s] = optFail[s]
           /\ begun'[s] = begun[s] /\ result'[s] = result[s]
           /\ \A j \in Jobs : <<s, j>> \in unset' <=> <<s, j>> \in unset
           /\ \A j \in Jobs : row'[s][j] = row[s][j] \/ row[s][j] = "running"
<1>0. RunTypes(s)
  BY HasTypes
<1>1. ASSUME NEW st, NEW raised, Leave(r, st, raised)
      PROVE  /\ at'[s] = at[s] /\ depFail'[s] = depFail[s] /\ optFail'[s] = optFail[s] /\ result'[s] = result[s]
  BY <1>0, <1>1 DEF Leave, Put, Fails, NothingFails, RunTypes
<1>2. ASSUME NEW j, NEW st, NewRow(r, j, st)
      PROVE  \A k \in Jobs : row'[s][k] = row[s][k] \/ row[s][k] = "running"
  BY <1>0, <1>2 DEF NewRow, Put, RunTypes
<1>3. ASSUME NEW S, JobFails(r, S)
      PROVE  /\ at'[s] = at[s] /\ depFail'[s] = depFail[s] /\ optFail'[s] = optFail[s] /\ result'[s] = result[s]
             /\ row'[s] = row[s] /\ unset' = unset
  BY <1>0, <1>1, <1>3 DEF JobFails, Put, RunTypes
<1>4. CASE \/ \E j \in Starts : StartRun(r, j)
           \/ TakeLock(r) \/ AllLocked(r) \/ Start(r) \/ SkipRaises(r) \/ Crash(r) \/ Reaped(r)
           \/ Loads(r) \/ SwapCreate(r) \/ SwapLoad(r) \/ SwapRename(r) \/ \E d \in Jobs : DepRuns(r, d)
  BY <1>0, <1>2, <1>4
  DEF StartRun, TakeLock, AllLocked, Start, SkipRaises, Crash, Reaped, Loads, Commit, TasksDone, SwapCreate, SwapLoad, SwapRename,
      Step, DepRuns, Put, RunTypes, runVars
<1>5. CASE LogFails(r)
  BY <1>1, <1>5 DEF LogFails
<1>6. CASE Finish(r)
  BY <1>0, <1>1, <1>6 DEF Finish, Put, RunTypes
<1>7. CASE LockBusy(r)
  <2>1. CASE AtTop(r)
    BY <1>0, <1>7, <2>1 DEF LockBusy, runVars, RunTypes
  <2> QED
    BY <1>1, <1>2, <1>7, <2>1 DEF LockBusy
<1>8. CASE TaskRaises(r) \/ \E d \in Jobs : DepRaises(r, d)
  BY <1>3, <1>8 DEF TaskRaises, DepRaises
<1>9. CASE DepsOver(r)
  BY <1>0, <1>3, <1>9 DEF DepsOver, runVars, Put, RunTypes
<1>10. CASE \E d \in Jobs : DepDone(r, d) \/ DepDisabled(r, d) \/ DepBlocked(r, d) \/ DepReused(r, d)
  BY <1>0, <1>2, <1>10 DEF DepDone, DepDisabled, DepBlocked, DepReused, NextDep, Fails, NothingFails, Put, RunTypes
<1> QED
  BY <1>4, <1>5, <1>6, <1>7, <1>8, <1>9, <1>10 DEF RunStep, Loads

\* The dependency that r looks at.
LEMMA LooksAt ==
    ASSUME TypeInv, NEW r \in Runs, NEW d \in Jobs, AtDep(r, d)
    PROVE  /\ phase[r] = "deps" /\ cur[r] \in Jobs /\ at[r][cur[r]] \in 1..Len(Deps[cur[r]])
           /\ d = Deps[cur[r]][at[r][cur[r]]] /\ d \in Dep(cur[r]) /\ Rank[d] < Rank[cur[r]]
<1>1. /\ phase[r] = "deps" /\ cur[r] \in Jobs /\ at[r][cur[r]] <= Len(Deps[cur[r]])
      /\ d = Deps[cur[r]][at[r][cur[r]]] /\ at[r][cur[r]] > 0 /\ at[r][cur[r]] \in Nat
  BY DEF AtDep, TypeInv, TypeOK, Stack
<1>2. at[r][cur[r]] \in 1..Len(Deps[cur[r]])
  BY <1>1, JobsHaveTypes
<1> QED
  BY <1>1, <1>2, JobsHaveTypes

-----------------------------------------------------------------------------
(* The next dependency *)

LEMMA NextDepKeeps ==
    ASSUME TypeInv, NEW r \in Runs, JobInv(r), NEW d \in Jobs, AtDep(r, d), NextDep(r),
           Fails(r, cur[r], d) \/ NothingFails, IsIsolated(r) => NothingFails,
           done' = done \/ (done[r][d] = "none" /\ \E st \in {"disabled", "skipped", "reused"} :
                                                       done' = Put(done, r, d, st)),
           \/ done'[r][d] \in Good \cup {"disabled"} \/ (IsIsolated(r) /\ done'[r][d] \in NotRun)
           \/ Fails(r, cur[r], d)
    PROVE  JobInv(r)'
<1> DEFINE c == cur[r]
<1>0. /\ RunTypes(r) /\ phase[r] = "deps" /\ c \in Jobs /\ at[r][c] \in 1..Len(Deps[c])
      /\ d = Deps[c][at[r][c]] /\ d \in Dep(c) /\ Rank[d] < Rank[c] /\ Live(r)
  BY HasTypes, LooksAt DEF Live
<1>1. /\ top' = top /\ cur' = cur /\ caller' = caller /\ phase' = phase /\ begun' = begun /\ unset' = unset
      /\ \A k \in Jobs : at'[r][k] = IF k = c THEN at[r][c] + 1 ELSE at[r][k]
  BY <1>0 DEF NextDep, Put, RunTypes
<1>2. /\ \A k \in Jobs : done'[r][k] = done[r][k] \/ (k = d /\ done[r][d] = "none"
                                                     /\ done'[r][d] \in {"disabled", "skipped", "reused"})
  <2>1. CASE done' = done
    BY <2>1
  <2>2. ASSUME done[r][d] = "none", NEW st \in {"disabled", "skipped", "reused"}, done' = Put(done, r, d, st)
        PROVE  \A k \in Jobs : done'[r][k] = IF k = d THEN st ELSE done[r][k]
    BY <1>0, <2>2 DEF Put, RunTypes
  <2> QED
    BY <2>1, <2>2
<1>3. /\ depFail'[r] = depFail[r] \/ (depFail'[r] = depFail[r] \cup {c} /\ c \notin Isolated)
      /\ optFail'[r] = optFail[r] \/ optFail'[r] = optFail[r] \cup {c}
      /\ IsIsolated(r) => depFail'[r] = depFail[r] /\ optFail'[r] = optFail[r]
      /\ Fails(r, c, d) => c \in depFail'[r] \/ ((d \in Optional[c] \/ c \in Isolated) /\ c \in optFail'[r])
  <2>1. depFail \in [Runs -> SUBSET Jobs] /\ optFail \in [Runs -> SUBSET Jobs]
    BY <1>0 DEF RunTypes
  <2>2. CASE NothingFails /\ ~Fails(r, c, d)
    BY <2>2 DEF NothingFails
  <2>3. CASE Fails(r, c, d) /\ ~NothingFails
    BY <2>1, <2>3 DEF Fails
  <2>4. CASE Fails(r, c, d) /\ NothingFails
    BY <2>1, <2>4 DEF Fails, NothingFails
  <2> QED
    BY <2>2, <2>3, <2>4
<1>4. PICK C \in SUBSET Jobs : Chain(r, C)
  BY <1>0 DEF JobInv, Inside
<1>5. d \notin C
  <2>1. ASSUME d \in C PROVE FALSE
    <3>1. d = c \/ Rank[c] < Rank[d]
      BY <1>4, <2>1 DEF Chain
    <3>2. Rank[d] < Rank[c] /\ c \in Jobs
      BY <1>0
    <3> QED
      BY <3>1, <3>2, RankType
  <2> QED
    BY <2>1
<1>6. \A j \in C \ {top[r]} : caller[r][j] # c
  <2>1. ASSUME NEW j \in C \ {top[r]}, caller[r][j] = c PROVE FALSE
    <3>1. j = d
      BY <1>0, <1>4, <2>1 DEF Chain
    <3> QED
      BY <1>5, <2>1, <3>1
  <2> QED
    BY <2>1
<1>7. Chain(r, C)'
  <2>1. \A j \in C : done'[r][j] = "none"
    BY <1>2, <1>4, <1>5 DEF Chain
  <2>2. \A j \in C \ {top[r]} : at'[r][caller[r][j]] = at[r][caller[r][j]]
    BY <1>1, <1>4, <1>6 DEF Chain
  <2>3. \A j \in Jobs : j \in depFail'[r] /\ done'[r][j] = "none" => j \in C /\ (j = c => phase[r] = "deps")
    BY <1>0, <1>2, <1>3, <1>4 DEF Chain
  <2> QED
    BY <1>1, <1>4, <2>1, <2>2, <2>3 DEF Chain
<1>8. Settled(r)'
  <2> SUFFICES ASSUME NEW j \in Jobs, NEW k \in 1..Len(Deps[j]), k < at'[r][j] PROVE Behind(r, j, Deps[j][k])'
    BY DEF Settled
  <2>1. CASE k < at[r][j]
    <3>1. Behind(r, j, Deps[j][k]) /\ Deps[j][k] \in Jobs
      BY <2>1, JobsHaveTypes DEF JobInv, Settled
    <3>2. /\ depFail[r] \subseteq depFail'[r] /\ optFail[r] \subseteq optFail'[r]
          /\ done'[r][Deps[j][k]] = done[r][Deps[j][k]] \/ done[r][Deps[j][k]] = "none"
      BY <1>2, <1>3, <3>1
    <3> QED
      BY <1>1, <3>1, <3>2 DEF Behind, IsIsolated, Good, NotRun
  <2>2. CASE ~(k < at[r][j])
    <3>1. j = c
      BY <1>1, <2>2
    <3>4. at[r][c] \in Nat /\ c \in Jobs
      BY <1>0 DEF RunTypes
    <3>2. k \in Int /\ at[r][c] \in Int /\ k < at[r][c] + 1 /\ ~(k < at[r][c])
      BY <1>1, <2>2, <3>1, <3>4, RankType
    <3>3. k = at[r][c]
      BY <3>2
    <3> QED
      BY <1>0, <1>1, <1>3, <3>1, <3>3 DEF Behind, IsIsolated
  <2> QED
    BY <2>1, <2>2
<1>9. BegunOnce(r)' /\ PastDeps(r)' /\ Fresh(r)'
  BY <1>0, <1>1, <1>2 DEF JobInv, BegunOnce, PastDeps, Fresh, Past, Working, AtTop
<1>10. FailNoted(r)'
  <2>1. \A j \in Isolated : j \notin depFail'[r]
    BY <1>3 DEF JobInv, FailNoted
  <2>2. ASSUME IsIsolated(r), NEW e \in Jobs, done'[r][e] = "failed"
        PROVE  top[r] \in optFail'[r] \/ \E k \in Jobs : k \in depFail'[r] /\ done'[r][k] = "none"
    <3>1. done[r][e] = "failed"
      BY <1>2, <2>2
    <3>2. top[r] \in optFail[r] \/ \E k \in Jobs : k \in depFail[r] /\ done[r][k] = "none"
      BY <1>0, <2>2, <3>1 DEF JobInv, FailNoted
    <3>3. \A k \in Jobs : k \in depFail[r] /\ done[r][k] = "none" => done'[r][k] = "none"
      BY <1>2, <1>4, <1>5 DEF Chain
    <3> QED
      BY <1>3, <2>2, <3>2, <3>3
  <2> QED
    BY <1>1, <2>1, <2>2 DEF FailNoted, IsIsolated
<1> QED
  BY <1>7, <1>8, <1>9, <1>10 DEF JobInv, Inside

-----------------------------------------------------------------------------
(* The end of a job *)

LEMMA LeaveKeeps ==
    ASSUME TypeInv, NEW r \in Runs, JobInv(r), Live(r), NEW st \in Statuses, NEW raised \in BOOLEAN,
           Leave(r, st, raised), begun' = begun,
           raised \/ (phase[r] # "deps" /\ (st \in Good \/ (st = "skipped" /\ IsIsolated(r)))),
           st = "none" => phase[r] # "deps" /\ <<r, cur[r]>> \in unset',
           \A j \in Jobs : <<r, j>> \in unset => <<r, j>> \in unset'
    PROVE  JobInv(r)'
<1> DEFINE c == cur[r]
           p == caller[r][c]
<1>0. RunTypes(r) /\ c \in Jobs /\ top[r] \in Jobs /\ (c # top[r] => p \in Jobs)
  BY HasTypes DEF Live, RunTypes
<1>1. /\ top' = top /\ caller' = caller
      /\ \A k \in Jobs : done'[r][k] = IF k = c THEN st ELSE done[r][k]
  BY <1>0 DEF Leave, Put, RunTypes
<1>2. PICK C \in SUBSET Jobs : Chain(r, C)
  BY DEF JobInv, Inside
<1>3. done[r][c] = "none" /\ \A e \in Jobs : done'[r][e] = done[r][e] \/ done[r][e] = "none"
  BY <1>1, <1>2 DEF Chain
<1>4. \A j \in Jobs : \/ <<r, j>> \in unset'
                       \/ /\ begun'[r][j] <= 1
                          /\ begun'[r][j] = 0 \/ done'[r][j] # "none" \/ phase[r] = "dead"
  BY <1>1 DEF JobInv, BegunOnce
<1>5. BegunOnce(r)'
  BY <1>4 DEF BegunOnce, Live
<1>6. CASE AtTop(r)
  <2>1. /\ phase'[r] = "over" /\ depFail' = depFail /\ optFail' = optFail /\ cur' = cur /\ at' = at
    BY <1>0, <1>6 DEF Leave, NothingFails, RunTypes
  <2>2. Settled(r)'
    <3> SUFFICES ASSUME NEW j \in Jobs, NEW k \in 1..Len(Deps[j]), k < at[r][j] PROVE Behind(r, j, Deps[j][k])'
      BY <2>1 DEF Settled
    <3>1. Behind(r, j, Deps[j][k]) /\ Deps[j][k] \in Jobs
      BY JobsHaveTypes DEF JobInv, Settled
    <3> QED
      BY <1>1, <1>3, <2>1, <3>1 DEF Behind, IsIsolated, Good, NotRun
  <2> QED
    BY <1>5, <2>1, <2>2 DEF JobInv, Inside, Live, PastDeps, Past, Working, Fresh, FailNoted
<1>7. CASE ~AtTop(r)
  <2>0. c # top[r] /\ p \in Jobs /\ p \in C /\ at[r][p] \in 1..Len(Deps[p]) /\ Deps[p][at[r][p]] = c
        /\ p # c /\ c \in Dep(p)
    <3>1. c # top[r] /\ p \in Jobs /\ p \in C /\ at[r][p] \in 1..Len(Deps[p]) /\ Deps[p][at[r][p]] = c
      BY <1>0, <1>2, <1>7 DEF Chain, AtTop
    <3>2. c \in Dep(p) /\ Rank[c] < Rank[p]
      BY <3>1, JobsHaveTypes
    <3> QED
      BY <1>0, <3>1, <3>2, JobsHaveTypes
  <2>1. /\ phase'[r] = "deps" /\ cur'[r] = p
        /\ \A k \in Jobs : at'[r][k] = IF k = p THEN at[r][p] + 1 ELSE at[r][k]
        /\ Fails(r, p, c) \/ (NothingFails /\ ~raised)
    BY <1>0, <1>7, <2>0 DEF Leave, Put, RunTypes
  <2>2. /\ depFail'[r] = depFail[r] \/ (depFail'[r] = depFail[r] \cup {p} /\ p \notin Isolated)
        /\ optFail'[r] = optFail[r] \/ optFail'[r] = optFail[r] \cup {p}
        /\ raised => p \in depFail'[r] \/ ((c \in Optional[p] \/ p \in Isolated) /\ p \in optFail'[r])
    BY <1>0, <2>1 DEF Fails, NothingFails, RunTypes
  <2>3. \/ Fails(r, p, c) /\ (p \in depFail'[r] \/ ((c \in Optional[p] \/ p \in Isolated) /\ p \in optFail'[r]))
        \/ ~raised /\ depFail'[r] = depFail[r] /\ optFail'[r] = optFail[r]
    BY <1>0, <2>1 DEF Fails, NothingFails, RunTypes
  <2>4. \A j \in C \ {c, top[r]} : caller[r][j] # p /\ caller[r][j] # c
    <3> SUFFICES ASSUME NEW j \in C \ {c, top[r]}, caller[r][j] \in {p, c} PROVE FALSE
      OBVIOUS
    <3>1. caller[r][j] = c
      BY <1>2, <2>0 DEF Chain
    <3>2. j \in Dep(c)
      <4>1. at[r][c] \in 1..Len(Deps[c]) /\ Deps[c][at[r][c]] = j
        BY <1>2, <3>1 DEF Chain
      <4> QED
        BY <1>0, <4>1, JobsHaveTypes
    <3>3. Rank[j] < Rank[c] /\ Rank[c] < Rank[j]
      BY <1>0, <1>2, <3>2, JobsHaveTypes DEF Chain
    <3> QED
      BY <1>0, <1>2, <3>3, JobsHaveTypes
  <2>9. PICK D \in SUBSET Jobs : D = C \ {c}
    OBVIOUS
  <2>5. Chain(r, D)'
    <3>1. \A j \in C \ {c} : done'[r][j] = "none"
      BY <1>1, <1>2 DEF Chain
    <3>2. \A j \in C \ {c, p} : Rank[p] < Rank[j]
      BY <1>2, <2>0 DEF Chain
    <3>3. \A j \in C \ {c, top[r]} : at'[r][caller[r][j]] = at[r][caller[r][j]] /\ caller[r][j] \in C \ {c}
      BY <1>2, <2>1, <2>4 DEF Chain
    <3>4. \A j \in Jobs : j \in depFail'[r] /\ done'[r][j] = "none"
                              => j \in C \ {c} /\ (j = p => phase'[r] = "deps")
      <4> SUFFICES ASSUME NEW j \in Jobs, j \in depFail'[r], done'[r][j] = "none" PROVE j \in C \ {c}
        BY <2>1
      <4>1. CASE j = p
        BY <2>0, <4>1
      <4>2. CASE j = c
        <5>1. st = "none" /\ j \in depFail[r] /\ phase[r] # "deps"
          BY <1>1, <2>0, <2>2, <4>2
        <5> QED
          BY <1>2, <1>3, <4>2, <5>1 DEF Chain
      <4>3. CASE j # p /\ j # c
        BY <1>1, <1>2, <2>2, <4>3 DEF Chain
      <4> QED
        BY <4>1, <4>2, <4>3
    <3>5. \A j \in C \ {c, top[r]} :
            /\ at'[r][caller[r][j]] \in 1..Len(Deps[caller[r][j]])
            /\ Deps[caller[r][j]][at'[r][caller[r][j]]] = j
            /\ \A k \in C : Rank[j] < Rank[k] => k = caller[r][j] \/ Rank[caller[r][j]] < Rank[k]
      BY <1>2, <3>3 DEF Chain
    <3>6. /\ C \ {c} \subseteq Jobs /\ p \in C \ {c} /\ top[r] \in C \ {c}
          /\ \A j \in C \ {c} : j = top[r] \/ Rank[j] < Rank[top[r]]
      BY <1>0, <1>2, <2>0 DEF Chain
    <3>7. /\ D \subseteq Jobs /\ p \in D /\ top[r] \in D
          /\ \A j \in D : done'[r][j] = "none" /\ (j = top[r] \/ Rank[j] < Rank[top[r]])
          /\ \A j \in D \ {p} : Rank[p] < Rank[j]
          /\ \A j \in D \ {top[r]} :
                /\ caller[r][j] \in D
                /\ at'[r][caller[r][j]] \in 1..Len(Deps[caller[r][j]])
                /\ Deps[caller[r][j]][at'[r][caller[r][j]]] = j
                /\ \A k \in D : Rank[j] < Rank[k] => k = caller[r][j] \/ Rank[caller[r][j]] < Rank[k]
          /\ \A j \in Jobs : j \in depFail'[r] /\ done'[r][j] = "none" => j \in D /\ (j = p => phase'[r] = "deps")
      BY <2>9, <3>1, <3>2, <3>3, <3>4, <3>5, <3>6
    <3> QED
      BY <1>1, <2>1, <3>7 DEF Chain
  <2>6. Settled(r)'
    <3> SUFFICES ASSUME NEW j \in Jobs, NEW k \in 1..Len(Deps[j]), k < at'[r][j] PROVE Behind(r, j, Deps[j][k])'
      BY DEF Settled
    <3>1. CASE k < at[r][j]
      <4>1. Behind(r, j, Deps[j][k]) /\ Deps[j][k] \in Jobs
        BY <3>1, JobsHaveTypes DEF JobInv, Settled
      <4> QED
        BY <1>1, <1>3, <2>2, <4>1 DEF Behind, IsIsolated, Good, NotRun
    <3>2. CASE ~(k < at[r][j])
      <4>1. j = p
        BY <2>1, <3>2
      <4>2. k \in Int /\ at[r][p] \in Int /\ k < at[r][p] + 1 /\ ~(k < at[r][p])
        <5>1. at[r][p] \in Nat /\ p \in Jobs
          BY <1>0, <2>0 DEF RunTypes
        <5> QED
          BY <2>1, <3>2, <4>1, <5>1, RankType
      <4>3. k = at[r][p] /\ Deps[j][k] = c
        BY <2>0, <4>1, <4>2
      <4> QED
        BY <1>0, <1>1, <2>2, <4>1, <4>3 DEF Behind, IsIsolated, NotRun
    <3> QED
      BY <3>1, <3>2
  <2>7. FailNoted(r)'
    <3>1. \A j \in Isolated : j \notin depFail'[r]
      BY <2>2 DEF JobInv, FailNoted
    <3>2. ASSUME IsIsolated(r), NEW e \in Jobs, done'[r][e] = "failed"
          PROVE  top[r] \in optFail'[r] \/ \E k \in Jobs : k \in depFail'[r] /\ done'[r][k] = "none"
      <4>1. CASE Fails(r, p, c)
        <5>1. CASE p = top[r]
          BY <1>0, <3>2, <4>1, <5>1 DEF IsIsolated, Fails, RunTypes
        <5>2. CASE p # top[r]
          <6>1. caller[r][p] \in C /\ p \in Dep(caller[r][p])
            BY <1>2, <2>0, <5>2, JobsHaveTypes DEF Chain
          <6>2. p \notin Isolated /\ Optional[p] = {}
            BY <2>0, <6>1, UmbrellaAssumption
          <6>3. p \in depFail'[r]
            BY <1>0, <4>1, <6>2 DEF Fails, RunTypes
          <6>4. done'[r][p] = "none"
            BY <1>1, <1>2, <2>0 DEF Chain
          <6> QED
            BY <2>0, <6>3, <6>4
        <5> QED
          BY <5>1, <5>2
      <4>2. CASE ~Fails(r, p, c)
        <5>1. ~raised /\ depFail'[r] = depFail[r] /\ optFail'[r] = optFail[r] /\ phase[r] # "deps"
          BY <2>3, <4>2
        <5>2. e # c
          BY <1>1, <3>2, <5>1 DEF Good
        <5>3. top[r] \in optFail[r] \/ \E k \in Jobs : k \in depFail[r] /\ done[r][k] = "none"
          BY <1>1, <3>2, <5>2 DEF JobInv, FailNoted
        <5>4. c \notin depFail[r]
          BY <1>0, <1>2, <1>3, <5>1 DEF Chain
        <5> QED
          BY <1>1, <5>1, <5>3, <5>4
      <4> QED
        BY <4>1, <4>2
    <3> QED
      BY <1>1, <3>1, <3>2 DEF FailNoted, IsIsolated
  <2>8. PastDeps(r)' /\ Fresh(r)'
    BY <2>1 DEF PastDeps, Past, Working, Fresh
  <2> QED
    BY <1>5, <2>5, <2>6, <2>7, <2>8 DEF JobInv, Inside
<1> QED
  BY <1>6, <1>7

-----------------------------------------------------------------------------
(* The other steps *)

\* A step that leaves the jobs of r alone: of another run, or one that takes
\* locks, writes tables or ends the process.
LEMMA QuietKeeps ==
    ASSUME NEW r \in Runs, JobInv(r),
           top'[r] = top[r], cur'[r] = cur[r], caller'[r] = caller[r], at'[r] = at[r], done'[r] = done[r],
           depFail'[r] = depFail[r], optFail'[r] = optFail[r], begun'[r] = begun[r],
           \A j \in Jobs : <<r, j>> \in unset' <=> <<r, j>> \in unset,
           \/ phase'[r] = phase[r]
           \/ phase[r] = "lock" /\ phase'[r] \in {"start", "over"}
           \/ Working(r) /\ phase'[r] \in {"created", "loaded", "finish"}
           \/ phase[r] # "none" /\ phase'[r] = "dead"
    PROVE  JobInv(r)'
<1>1. ASSUME NEW C \in SUBSET Jobs, Chain(r, C), Live(r)' PROVE Chain(r, C)'
  BY <1>1 DEF Chain, Live, Working
<1>2. Inside(r)'
  BY <1>1 DEF JobInv, Inside, Live, Working
<1>3. Settled(r)' /\ FailNoted(r)'
  BY DEF JobInv, Settled, Behind, IsIsolated, FailNoted, Live, Working
<1>4. PastDeps(r)' /\ Fresh(r)'
  BY DEF JobInv, PastDeps, Past, Working, Fresh, AtTop
<1>5. BegunOnce(r)'
  BY DEF JobInv, BegunOnce, Past, Working
<1> QED
  BY <1>2, <1>3, <1>4, <1>5 DEF JobInv

LEMMA StartRunKeeps ==
    ASSUME TypeInv, NEW r \in Runs, JobInv(r), NEW j \in Starts, StartRun(r, j)
    PROVE  JobInv(r)'
<1>0. RunTypes(r) /\ j \in Jobs
  BY HasTypes, PlatformAssumption
<1>1. /\ phase[r] = "none" /\ phase'[r] = "lock" /\ top'[r] = j /\ cur'[r] = j
      /\ UNCHANGED <<caller, at, done, depFail, optFail, begun, unset>>
  BY <1>0 DEF StartRun, RunTypes
<1>2. /\ \A k \in Jobs : done[r][k] = "none"
      /\ depFail[r] = {} /\ optFail[r] = {}
  BY <1>1 DEF JobInv, Fresh
<1>3. PICK C \in SUBSET Jobs : C = {j}
  BY <1>0
<1>4. Chain(r, C)'
  BY <1>0, <1>1, <1>2, <1>3 DEF Chain
<1>5. Settled(r)'
  <2>1. \A k \in Jobs : \A i \in 1..Len(Deps[k]) : i < at[r][k] => FALSE
    <3> SUFFICES ASSUME NEW k \in Jobs, NEW i \in 1..Len(Deps[k]), i < at[r][k] PROVE FALSE
      OBVIOUS
    <3>1. Behind(r, k, Deps[k][i]) /\ Deps[k][i] \in Jobs
      BY JobsHaveTypes DEF JobInv, Settled
    <3> QED
      BY <1>2, <3>1 DEF Behind, Good, NotRun
  <2> QED
    BY <1>1, <2>1 DEF Settled
<1>6. BegunOnce(r)' /\ PastDeps(r)' /\ Fresh(r)' /\ FailNoted(r)'
  BY <1>0, <1>1, <1>2 DEF JobInv, BegunOnce, PastDeps, Past, Working, Fresh, FailNoted
<1> QED
  BY <1>4, <1>5, <1>6 DEF JobInv, Inside

LEMMA StartKeeps ==
    ASSUME TypeInv, NEW r \in Runs, JobInv(r), Start(r)
    PROVE  JobInv(r)'
<1> DEFINE c == cur[r]
<1>0. RunTypes(r) /\ phase[r] = "start" /\ c \in Jobs /\ top[r] \in Jobs /\ Live(r)
  BY HasTypes DEF Start, RunTypes, Live
<1>1. /\ phase'[r] = "deps" /\ UNCHANGED <<top, cur, caller, done, begun, unset>>
      /\ \A k \in Jobs : at'[r][k] = IF k = c THEN 1 ELSE at[r][k]
      /\ depFail'[r] = depFail[r] \ {c} /\ optFail'[r] = optFail[r] \ {c}
  BY <1>0 DEF Start, Put, RunTypes
<1>2. PICK C \in SUBSET Jobs : Chain(r, C)
  BY <1>0 DEF JobInv, Inside
<1>3. c \notin depFail[r]
  BY <1>0, <1>2 DEF Chain
<1>4. \A j \in C \ {top[r]} : caller[r][j] # c
  <2> SUFFICES ASSUME NEW j \in C \ {top[r]}, caller[r][j] = c PROVE FALSE
    OBVIOUS
  <2>1. at[r][c] \in 1..Len(Deps[c]) /\ Deps[c][at[r][c]] = j /\ j \in Jobs
    BY <1>2 DEF Chain
  <2>2. Rank[j] < Rank[c]
    BY <1>0, <2>1, JobsHaveTypes
  <2>3. j = c \/ Rank[c] < Rank[j]
    BY <1>2 DEF Chain
  <2> QED
    BY <1>0, <2>1, <2>2, <2>3, JobsHaveTypes
<1>5. Chain(r, C)'
  <2>1. \A j \in C \ {top[r]} : at'[r][caller[r][j]] = at[r][caller[r][j]]
    BY <1>1, <1>2, <1>4 DEF Chain
  <2> QED
    BY <1>1, <1>2, <2>1 DEF Chain
<1>6. Settled(r)'
  <2> SUFFICES ASSUME NEW j \in Jobs, NEW k \in 1..Len(Deps[j]), k < at'[r][j] PROVE Behind(r, j, Deps[j][k])'
    BY DEF Settled
  <2>1. j # c /\ k < at[r][j]
    BY <1>1, JobsHaveTypes
  <2>2. Behind(r, j, Deps[j][k])
    BY <2>1 DEF JobInv, Settled
  <2> QED
    BY <1>1, <2>1, <2>2 DEF Behind, IsIsolated
<1>7. FailNoted(r)'
  <2>1. CASE AtTop(r)
    BY <1>0, <1>1, <2>1 DEF JobInv, Fresh, FailNoted
  <2>2. CASE ~AtTop(r)
    BY <1>0, <1>1, <1>3, <2>2 DEF JobInv, FailNoted, AtTop, IsIsolated
  <2> QED
    BY <2>1, <2>2
<1>8. BegunOnce(r)' /\ PastDeps(r)' /\ Fresh(r)'
  BY <1>0, <1>1 DEF JobInv, BegunOnce, PastDeps, Past, Working, Fresh
<1> QED
  BY <1>5, <1>6, <1>7, <1>8 DEF JobInv, Inside

LEMMA DepRunsKeeps ==
    ASSUME TypeInv, NEW r \in Runs, JobInv(r), NEW d \in Jobs, DepRuns(r, d)
    PROVE  JobInv(r)'
<1> DEFINE c == cur[r]
<1>0. /\ RunTypes(r) /\ phase[r] = "deps" /\ c \in Jobs /\ top[r] \in Jobs /\ at[r][c] \in 1..Len(Deps[c])
      /\ d = Deps[c][at[r][c]] /\ d \in Dep(c) /\ Rank[d] < Rank[c] /\ Live(r) /\ done[r][d] = "none"
  BY HasTypes, LooksAt DEF Live, DepRuns, RunTypes
<1>1. /\ phase'[r] \in {"lock", "start"} /\ UNCHANGED <<top, at, done, depFail, optFail, begun, unset>>
      /\ cur'[r] = d /\ \A k \in Jobs : caller'[r][k] = IF k = d THEN c ELSE caller[r][k]
  BY <1>0 DEF DepRuns, Put, RunTypes
<1>2. PICK C \in SUBSET Jobs : Chain(r, C)
  BY <1>0 DEF JobInv, Inside
<1>3. \A j \in C : Rank[d] < Rank[j] /\ j # d /\ (j = c \/ Rank[c] < Rank[j])
  <2> TAKE j \in C
  <2>1. j \in Jobs /\ (j = c \/ Rank[c] < Rank[j])
    BY <1>2 DEF Chain
  <2>2. Rank[d] < Rank[c] /\ c \in Jobs
    BY <1>0
  <2> QED
    BY <2>1, <2>2, RankType
<1>4. PICK D \in SUBSET Jobs : D = C \cup {d}
  OBVIOUS
<1>5. d # top[r] /\ (d = top[r] \/ Rank[d] < Rank[top[r]])
  BY <1>2, <1>3 DEF Chain
<1>6. Chain(r, D)'
  <2>1. \A j \in D \ {top[r]} :
            /\ caller'[r][j] \in D
            /\ at[r][caller'[r][j]] \in 1..Len(Deps[caller'[r][j]])
            /\ Deps[caller'[r][j]][at[r][caller'[r][j]]] = j
            /\ \A k \in D : Rank[j] < Rank[k] => k = caller'[r][j] \/ Rank[caller'[r][j]] < Rank[k]
    <3> TAKE j \in D \ {top[r]}
    <3>1. CASE j = d
      <4>1. caller'[r][j] = c /\ c \in D
        BY <1>1, <1>2, <1>4, <3>1 DEF Chain
      <4>2. \A k \in D : Rank[d] < Rank[k] => k = c \/ Rank[c] < Rank[k]
        BY <1>3, <1>4, JobsHaveTypes
      <4> QED
        BY <1>0, <3>1, <4>1, <4>2
    <3>2. CASE j # d
      <4>1. j \in C \ {top[r]} /\ caller'[r][j] = caller[r][j]
        BY <1>1, <1>4, <3>2
      <4>2. ~(Rank[j] < Rank[d])
        BY <1>2, <1>3, <4>1, JobsHaveTypes
      <4> QED
        BY <1>2, <1>4, <4>1, <4>2 DEF Chain
    <3> QED
      BY <3>1, <3>2
  <2>2. /\ D \subseteq Jobs /\ d \in D /\ top[r] \in D
        /\ \A j \in D : done[r][j] = "none" /\ (j = top[r] \/ Rank[j] < Rank[top[r]])
        /\ \A j \in D \ {d} : Rank[d] < Rank[j]
    BY <1>0, <1>2, <1>3, <1>4, <1>5 DEF Chain
  <2>3. \A j \in Jobs : j \in depFail[r] /\ done[r][j] = "none" => j \in D /\ j # d
    BY <1>2, <1>3, <1>4 DEF Chain
  <2> QED
    BY <1>1, <2>1, <2>2, <2>3 DEF Chain
<1>7. Settled(r)' /\ FailNoted(r)'
  BY <1>0, <1>1 DEF JobInv, Settled, Behind, IsIsolated, FailNoted
<1>8. BegunOnce(r)' /\ PastDeps(r)' /\ Fresh(r)'
  BY <1>0, <1>1, <1>5 DEF JobInv, BegunOnce, PastDeps, Past, Working, Fresh, AtTop
<1> QED
  BY <1>6, <1>7, <1>8 DEF JobInv, Inside

\* The dependencies are over and none that is required failed.
LEMMA DepsOverKeeps ==
    ASSUME TypeInv, NEW r \in Runs, JobInv(r), DepsOver(r), ~RequirementFailed(r)
    PROVE  JobInv(r)'
<1> DEFINE c == cur[r]
<1>0. /\ RunTypes(r) /\ phase[r] = "deps" /\ c \in Jobs /\ Live(r) /\ at[r][c] > Len(Deps[c])
  BY HasTypes DEF Live, DepsOver, RunTypes
<1>1. /\ UNCHANGED <<top, cur, caller, at, done, depFail, optFail, unset>>
      /\ phase'[r] = IF HasTasks(c) THEN "work" ELSE "finish"
      /\ \A k \in Jobs : begun'[r][k] = IF k = c /\ HasTasks(c) THEN begun[r][c] + 1 ELSE begun[r][k]
  BY <1>0 DEF DepsOver, runVars, Put, RunTypes
<1>2. PICK C \in SUBSET Jobs : Chain(r, C)
  BY <1>0 DEF JobInv, Inside
<1>3. c \notin depFail[r] /\ done[r][c] = "none"
  BY <1>2 DEF RequirementFailed, Chain
<1>4. Chain(r, C)'
  BY <1>1, <1>2, <1>3 DEF Chain
<1>5. BegunOnce(r)'
  <2> SUFFICES ASSUME NEW j \in Jobs, <<r, j>> \notin unset
               PROVE  /\ begun'[r][j] <= 1
                      /\ begun'[r][j] = 0 \/ done[r][j] # "none" \/ (j = c /\ Past(r)')
    BY <1>1 DEF BegunOnce
  <2>1. /\ begun[r][j] <= 1 /\ begun[r][j] \in Nat
        /\ begun[r][j] = 0 \/ done[r][j] # "none"
    BY <1>0 DEF JobInv, BegunOnce, Past, Working, RunTypes
  <2>2. Past(r)'
    BY <1>1 DEF Past, Working
  <2> QED
    BY <1>1, <1>3, <2>1, <2>2
<1>6. PastDeps(r)'
  BY <1>0, <1>1, <1>3 DEF PastDeps, Past, Working
<1>7. Settled(r)' /\ FailNoted(r)' /\ Fresh(r)'
  BY <1>0, <1>1 DEF JobInv, Settled, Behind, IsIsolated, FailNoted, Fresh
<1> QED
  BY <1>4, <1>5, <1>6, <1>7 DEF JobInv, Inside

\* The run is over without the row of a module that was busy.
LEMMA SkipRaisesKeeps ==
    ASSUME TypeInv, NEW r \in Runs, JobInv(r), SkipRaises(r)
    PROVE  JobInv(r)'
<1>0. RunTypes(r) /\ phase[r] = "lock" /\ top[r] \in Jobs /\ Live(r)
  BY HasTypes DEF Live, SkipRaises, Busy, RunTypes
<1>1. /\ UNCHANGED <<top, caller, at, depFail, optFail, begun, unset>>
      /\ phase'[r] = "over" /\ \A k \in Jobs : done'[r][k] = IF k = top[r] THEN "failed" ELSE done[r][k]
  BY <1>0 DEF SkipRaises, Put, RunTypes
<1>2. done[r][top[r]] = "none"
  BY <1>0 DEF JobInv, Inside, Chain
<1>3. Settled(r)'
  <2> SUFFICES ASSUME NEW j \in Jobs, NEW k \in 1..Len(Deps[j]), k < at[r][j] PROVE Behind(r, j, Deps[j][k])'
    BY <1>1 DEF Settled
  <2>1. Behind(r, j, Deps[j][k]) /\ Deps[j][k] \in Jobs
    BY JobsHaveTypes DEF JobInv, Settled
  <2> QED
    BY <1>1, <1>2, <2>1 DEF Behind, IsIsolated, Good, NotRun
<1>4. BegunOnce(r)' /\ FailNoted(r)' /\ PastDeps(r)' /\ Fresh(r)' /\ Inside(r)'
  BY <1>0, <1>1, <1>2 DEF JobInv, BegunOnce, FailNoted, PastDeps, Past, Working, Fresh, Inside, Live
<1> QED
  BY <1>3, <1>4 DEF JobInv

LEMMA JobsHold == Spec => []JobsInv
<1>1. Init => JobsInv
  <2> SUFFICES ASSUME Init, NEW r \in Runs PROVE JobInv(r)
    BY DEF JobsInv
  <2>1. /\ phase[r] = "none" /\ depFail[r] = {} /\ optFail[r] = {}
        /\ \A j \in Jobs : at[r][j] = 0 /\ done[r][j] = "none" /\ begun[r][j] = 0
    BY DEF Init, None, ByJob
  <2>2. Settled(r)
    BY <2>1, JobsHaveTypes DEF Settled
  <2> QED
    BY <2>1, <2>2
    DEF JobInv, Inside, Live, BegunOnce, PastDeps, Past, Working, Fresh, FailNoted
<1>2. TypeInv /\ CoverInv /\ JobsInv /\ [Next]_vars => JobsInv'
  <2> SUFFICES ASSUME TypeInv, CoverInv, JobsInv, [Next]_vars PROVE JobsInv'
    OBVIOUS
  <2>0. \A s \in Runs : JobInv(s)
    BY DEF JobsInv
  <2>1. ASSUME UNCHANGED vars \/ \E r \in Runs, m \in Modules : SessionLost(r, m) PROVE JobsInv'
    <3> SUFFICES ASSUME NEW s \in Runs PROVE JobInv(s)'
      BY DEF JobsInv
    <3>1. UNCHANGED <<runVars, phase, begun, unset>>
      BY <2>1 DEF vars, SessionLost
    <3> QED
      BY <2>0, <3>1, QuietKeeps DEF runVars
  <2>2. ASSUME NEW r \in Runs, RunStep(r) \/ Crash(r) \/ Reaped(r), NEW s \in Runs \ {r} PROVE JobInv(s)'
    BY <2>0, <2>2, QuietKeeps, OthersStay, OthersKeep
  <2>3. ASSUME NEW r \in Runs, RunStep(r) \/ Crash(r) \/ Reaped(r) PROVE JobInv(r)'
    <3>0. RunTypes(r) /\ JobInv(r)
      BY <2>0, HasTypes
    <3>1. ASSUME \/ TakeLock(r) \/ AllLocked(r) \/ Loads(r) \/ SwapCreate(r) \/ SwapLoad(r) \/ SwapRename(r)
                 \/ Crash(r) \/ Reaped(r)
          PROVE  JobInv(r)'
      <4>1. UNCHANGED <<runVars, begun, unset>>
        BY <3>1 DEF TakeLock, AllLocked, Loads, Commit, TasksDone, SwapCreate, SwapLoad, SwapRename, Step, Crash, Reaped
      <4>2. \/ phase'[r] = phase[r]
            \/ phase[r] = "lock" /\ phase'[r] = "start"
            \/ Working(r) /\ phase'[r] \in {"created", "loaded", "finish"}
            \/ phase[r] # "none" /\ phase'[r] = "dead"
        BY <3>0, <3>1
        DEF TakeLock, AllLocked, Loads, Commit, TasksDone, SwapCreate, SwapLoad, SwapRename, Step, Crash, Reaped, Working, RunTypes
      <4> QED
        BY <3>0, <4>1, <4>2, QuietKeeps DEF runVars
    <3>2. ASSUME NEW S, JobFails(r, S), Live(r), begun' = begun PROVE JobInv(r)'
      <4>1. Leave(r, "failed", TRUE) /\ unset' = unset
        BY <3>2 DEF JobFails
      <4> QED
        BY <3>0, <3>2, <4>1, LeaveKeeps DEF Statuses, NotRun
    <3>3. ASSUME TaskRaises(r) \/ (DepsOver(r) /\ RequirementFailed(r)) \/ \E d \in Jobs : DepRaises(r, d)
          PROVE  JobInv(r)'
      BY <3>2, <3>3 DEF TaskRaises, Working, DepsOver, DepRaises, AtDep, Live
    <3>4. ASSUME LogFails(r) PROVE JobInv(r)'
      <4>1. /\ phase[r] \in {"start", "finish"} /\ Leave(r, done[r][cur[r]], TRUE)
            /\ unset' = unset \cup {<<r, cur[r]>>} /\ begun' = begun
        BY <3>4 DEF LogFails
      <4>2. done[r][cur[r]] \in Statuses
        BY <3>0, <4>1 DEF RunTypes
      <4> QED
        BY <3>0, <4>1, <4>2, LeaveKeeps DEF Live
    <3>5. ASSUME Finish(r) PROVE JobInv(r)'
      <4>1. PICK st \in {"partial", "success"} : Leave(r, st, FALSE)
        BY <3>5 DEF Finish
      <4>2. phase[r] = "finish" /\ begun' = begun /\ unset' = unset
        BY <3>5 DEF Finish
      <4> QED
        BY <3>0, <4>1, <4>2, LeaveKeeps DEF Live, Statuses, Good
    <3>6. ASSUME LockBusy(r) PROVE JobInv(r)'
      <4>1. phase[r] = "lock" /\ begun' = begun /\ unset' = unset
        BY <3>6 DEF LockBusy, Busy
      <4>2. CASE AtTop(r)
        <5>1. UNCHANGED runVars /\ phase'[r] = "over"
          BY <3>0, <3>6, <4>2 DEF LockBusy, RunTypes
        <5> QED
          BY <3>0, <4>1, <5>1, QuietKeeps DEF runVars
      <4>3. CASE ~AtTop(r)
        <5>1. Leave(r, "skipped", FALSE) /\ IsIsolated(r)
          BY <3>6, <4>1, <4>3 DEF LockBusy, CoverInv, Covers
        <5> QED
          BY <3>0, <4>1, <5>1, LeaveKeeps DEF Live, Statuses, NotRun
      <4> QED
        BY <4>2, <4>3
    <3>7. ASSUME NEW d \in Jobs, DepDone(r, d) \/ DepDisabled(r, d) \/ DepBlocked(r, d) \/ DepReused(r, d)
          PROVE  JobInv(r)'
      <4>1. done[r][d] \in Statuses
        BY <3>0 DEF RunTypes
      <4>2. CASE DepDone(r, d)
        <5>1. /\ AtDep(r, d) /\ NextDep(r) /\ done' = done /\ done[r][d] # "none"
              /\ \/ Fails(r, cur[r], d) /\ ~IsIsolated(r)
                 \/ NothingFails /\ ~(done[r][d] \in NotRun /\ ~IsIsolated(r))
          BY <4>2 DEF DepDone
        <5>2. \/ done'[r][d] \in Good \cup {"disabled"} \/ (IsIsolated(r) /\ done'[r][d] \in NotRun)
              \/ Fails(r, cur[r], d)
          <6>1. done[r][d] \in NotRun \/ done[r][d] \in Good \cup {"disabled"}
            BY <4>1, <5>1 DEF Statuses
          <6> QED
            BY <5>1, <6>1 DEF IsIsolated, Good, NotRun
        <5> QED
          BY <3>0, <5>1, <5>2, NextDepKeeps
      <4>3. ASSUME NEW st \in {"disabled", "skipped", "reused"}, done' = Put(done, r, d, st)
            PROVE  done'[r][d] = st
        BY <3>0, <4>3 DEF Put, RunTypes
      <4>4. CASE DepDisabled(r, d)
        <5>1. AtDep(r, d) /\ NextDep(r) /\ done[r][d] = "none" /\ done' = Put(done, r, d, "disabled") /\ NothingFails
          BY <4>4 DEF DepDisabled
        <5>2. done'[r][d] = "disabled" /\ \E st \in {"disabled", "skipped", "reused"} : done' = Put(done, r, d, st)
          BY <4>3, <5>1
        <5>3. done'[r][d] \in Good \cup {"disabled"}
          BY <5>2
        <5> QED
          BY <3>0, <5>1, <5>2, <5>3, NextDepKeeps DEF IsIsolated, Good, NotRun, NothingFails
      <4>5. CASE DepReused(r, d)
        <5>1. AtDep(r, d) /\ NextDep(r) /\ done[r][d] = "none" /\ done' = Put(done, r, d, "reused") /\ NothingFails
          BY <4>5 DEF DepReused
        <5>2. /\ done'[r][d] \in Good \cup {"disabled"}
              /\ \E st \in {"disabled", "skipped", "reused"} : done' = Put(done, r, d, st)
          BY <4>3, <5>1 DEF Good
        <5> QED
          BY <3>0, <5>1, <5>2, NextDepKeeps DEF IsIsolated, Good, NotRun, NothingFails
      <4>6. CASE DepBlocked(r, d)
        <5>1. /\ AtDep(r, d) /\ NextDep(r) /\ done[r][d] = "none" /\ done' = Put(done, r, d, "skipped")
              /\ Fails(r, cur[r], d) /\ ~IsIsolated(r)
          BY <4>6 DEF DepBlocked, Blocked
        <5> QED
          BY <3>0, <4>3, <5>1, NextDepKeeps
      <4> QED
        BY <3>7, <4>2, <4>4, <4>5, <4>6
    <3> QED
      BY <2>3, <3>0, <3>1, <3>3, <3>4, <3>5, <3>6, <3>7, StartRunKeeps, StartKeeps, DepRunsKeeps, DepsOverKeeps,
         SkipRaisesKeeps DEF RunStep, Loads
  <2> QED
    BY <2>1, <2>2, <2>3 DEF Next, AllOver, JobsInv
<1> QED
  BY <1>1, <1>2, CoverHolds, PlatformTypes, PTL DEF Spec, TypeInv

-----------------------------------------------------------------------------
(* Order and number of attempts *)

\* The tasks of a job begin only after every job it requires has succeeded, was
\* reused or is switched off -- an isolated run goes on after one that failed
\* or was skipped -- for any registry, wherever the jobs share dependencies and
\* whichever of them fail, are retried by another caller or cannot write their
\* rows.  (runner.py:13-22, 246-309)
THEOREM RequiredComeFirst == Spec => []DependenciesFirst
<1>1. TypeInv /\ JobsInv => DependenciesFirst
  <2> SUFFICES ASSUME TypeInv, JobsInv, NEW r \in Runs, Working(r), NEW d \in Dep(cur[r]) \ Optional[cur[r]]
               PROVE  done[r][d] \in Good \cup {"disabled"} \/ (IsIsolated(r) /\ done[r][d] \in NotRun)
    BY DEF DependenciesFirst
  <2>1. JobInv(r) /\ cur[r] \in Jobs
    BY HasTypes DEF JobsInv, RunTypes, Working
  <2>2. PICK k \in 1..Len(Deps[cur[r]]) : d = Deps[cur[r]][k]
    BY DEF Dep
  <2>3. at[r][cur[r]] > Len(Deps[cur[r]]) /\ cur[r] \notin depFail[r] /\ HasTasks(cur[r])
    BY <2>1 DEF JobInv, PastDeps, Past
  <2>4. k < at[r][cur[r]]
    BY <2>1, <2>3, JobsHaveTypes, HasTypes DEF RunTypes
  <2>5. Behind(r, cur[r], d)
    BY <2>1, <2>2, <2>4 DEF JobInv, Settled
  <2>6. cur[r] \notin Isolated
    BY <2>3, JobsAssumption DEF HasTasks
  <2>7. d \notin Optional[cur[r]]
    OBVIOUS
  <2> QED
    BY <2>3, <2>5, <2>6, <2>7 DEF Behind, IsIsolated, Good, NotRun
<1> QED
  BY <1>1, JobsHold, PlatformTypes, PTL DEF TypeInv

\* However many jobs of the run depend on it, the tasks of a job begin at most
\* once in a run, unless it raised when its row could not be written.
\* (runner.py:17-18, 252-260, 333-342)
THEOREM TasksBeginOnce == Spec => []NothingRetried
<1>1. JobsInv => NothingRetried
  BY DEF JobsInv, JobInv, BegunOnce, NothingRetried
<1> QED
  BY <1>1, JobsHold, PTL

-----------------------------------------------------------------------------
(* The exit code *)

\* StatusIsHonest of one run; a run has an exit code only when it is over.
Honest(r) ==
    /\ result[r] # "none" => phase[r] = "over"
    /\ result[r] = "success" =>
            \A d \in Dep(top[r]) : \/ done[r][d] \in Good \cup {"disabled"}
                                   \/ IsIsolated(r) /\ done[r][d] = "skipped"
    /\ (result[r] = "partial" /\ ~IsIsolated(r)) =>
            \A d \in Dep(top[r]) \ Optional[top[r]] : done[r][d] \in Good \cup {"disabled"}
    /\ result[r] \in {"success", "partial"} => row[r][top[r]] = result[r]
    /\ (result[r] = "failed" /\ IsIsolated(r) /\ Never("log")) =>
            \A d \in Dep(top[r]) : done[r][d] \notin Good
HonestInv == \A r \in Runs : Honest(r)

LEMMA NotHonestYet == ASSUME NEW r \in Runs, result[r] \in {"none", "locked"}, result[r] = "none" \/ phase[r] = "over"
                      PROVE  Honest(r)
BY DEF Honest

\* The run of a top-level job ends with what its dependencies say.
LEMMA FinishIsHonest ==
    ASSUME TypeInv, NEW r \in Runs, JobInv(r), InLockOrder(r), Finish(r), AtTop(r)
    PROVE  Honest(r)'
<1> DEFINE t == top[r]
           st == IF t \in optFail[r] THEN "partial" ELSE "success"
<1>0. /\ RunTypes(r) /\ phase[r] = "finish" /\ Live(r) /\ t \in Jobs /\ cur[r] = t
      /\ at[r][t] > Len(Deps[t]) /\ t \notin depFail[r]
  BY HasTypes DEF Finish, RunTypes, Live, AtTop, JobInv, PastDeps, Past
<1>1. /\ top' = top /\ phase'[r] = "over" /\ row'[r][t] = st
      /\ result'[r] = IF ReleaseRaises(r) THEN "failed" ELSE st
      /\ \A k \in Jobs : k # t => done'[r][k] = done[r][k]
  BY <1>0 DEF Finish, Leave, AtTop, Put, RunTypes
<1>2. \A d \in Dep(t) : d \in Jobs /\ d # t /\ done'[r][d] = done[r][d]
  <2> TAKE d \in Dep(t)
  <2>1. d \in Jobs /\ Rank[d] < Rank[t]
    BY <1>0, JobsHaveTypes DEF Dep
  <2> QED
    BY <1>0, <1>1, <2>1, JobsHaveTypes
<1>3. ASSUME NEW d \in Dep(t) PROVE Behind(r, t, d)
  <2>1. PICK k \in 1..Len(Deps[t]) : d = Deps[t][k]
    BY DEF Dep
  <2>2. k < at[r][t]
    BY <1>0, JobsHaveTypes DEF RunTypes
  <2> QED
    BY <1>0, <2>1, <2>2 DEF JobInv, Settled
<1>4. ASSUME IsIsolated(r), NEW d \in Jobs, done[r][d] = "failed" PROVE t \in optFail[r]
  <2>1. PICK C \in SUBSET Jobs : Chain(r, C)
    BY <1>0 DEF JobInv, Inside
  <2>2. ASSUME NEW k \in Jobs, k \in depFail[r], done[r][k] = "none" PROVE FALSE
    <3>1. k \in C /\ k # t
      BY <1>0, <2>1, <2>2 DEF Chain
    <3>2. Rank[t] < Rank[k] /\ Rank[k] < Rank[t]
      BY <1>0, <2>1, <3>1 DEF Chain
    <3> QED
      BY <1>0, <3>1, <3>2, JobsHaveTypes
  <2> QED
    BY <1>0, <1>4, <2>2 DEF JobInv, FailNoted
<1>5. CASE result'[r] = "failed"
  <2>1. ReleaseRaises(r)
    BY <1>1, <1>5
  <2>2. ~IsIsolated(r)
    BY <1>0, <2>1 DEF ReleaseRaises, InLockOrder, AtTop
  <2> QED
    BY <1>1, <1>5, <2>2 DEF Honest, IsIsolated
<1>6. CASE result'[r] = "success"
  <2>1. t \notin optFail[r]
    BY <1>1, <1>6
  <2>2. \A d \in Dep(t) : done[r][d] \in Good \cup {"disabled"} \/ (IsIsolated(r) /\ done[r][d] = "skipped")
    BY <1>0, <1>2, <1>3, <1>4, <2>1 DEF Behind, NotRun
  <2> QED
    BY <1>1, <1>2, <1>6, <2>1, <2>2 DEF Honest, IsIsolated
<1>7. CASE result'[r] = "partial"
  <2>1. ~IsIsolated(r) => \A d \in Dep(t) \ Optional[t] : done[r][d] \in Good \cup {"disabled"}
    BY <1>0, <1>3 DEF Behind, IsIsolated
  <2> QED
    BY <1>1, <1>2, <1>7, <2>1 DEF Honest, IsIsolated
<1> QED
  BY <1>1, <1>5, <1>6, <1>7

\* It fails for a reason.
LEMMA FailureIsHonest ==
    ASSUME TypeInv, NEW r \in Runs, JobInv(r), budget \in [Faults -> Nat], BudgetInv, AtTop(r),
           TaskRaises(r) \/ (DepsOver(r) /\ RequirementFailed(r)) \/ \E d \in Jobs : DepRaises(r, d)
    PROVE  Honest(r)'
<1> DEFINE t == top[r]
<1>1. PICK S : JobFails(r, S) /\ (S = {"log"} \/ TaskRaises(r) \/ (DepsOver(r) /\ RequirementFailed(r)))
  BY DEF TaskRaises, DepsOver, DepRaises
<1>2. RunTypes(r) /\ t \in Jobs /\ cur[r] = t /\ Live(r)
  BY HasTypes DEF RunTypes, AtTop, Live, TaskRaises, Working, DepsOver, DepRaises, AtDep
<1>3. /\ top' = top /\ phase'[r] = "over" /\ result'[r] = "failed"
      /\ \A k \in Jobs : k # t => done'[r][k] = done[r][k]
  BY <1>1, <1>2 DEF JobFails, Leave, AtTop, Put, RunTypes
<1>4. S = {"log"} => ~Never("log")'
  <2>1. S = {"log"} => Spend({"log"})
    <3>1. Spend(S) \/ Spend(S \cup {"log"})
      BY <1>1 DEF JobFails
    <3>2. S = {"log"} => S \cup {"log"} = {"log"}
      OBVIOUS
    <3> QED
      BY <3>1, <3>2
  <2> QED
    BY <2>1, SpendLess DEF Faults
<1>5. ASSUME IsIsolated(r), TaskRaises(r) PROVE FALSE
  BY <1>2, <1>5, JobsAssumption DEF IsIsolated, TaskRaises, JobInv, PastDeps, Past, Working, HasTasks
<1>6. ASSUME IsIsolated(r), RequirementFailed(r), NEW d \in Dep(t) PROVE done'[r][d] \notin Good
  <2>1. t \notin depFail[r]
    BY <1>6 DEF JobInv, FailNoted, IsIsolated
  <2>2. done[r][d] \notin Good
    BY <1>2, <1>6, <2>1 DEF RequirementFailed
  <2>3. d \in Jobs /\ Rank[d] < Rank[t]
    BY <1>2, JobsHaveTypes DEF Dep
  <2>4. d # t
    BY <1>2, <2>3, JobsHaveTypes
  <2> QED
    BY <1>3, <2>2, <2>3, <2>4
<1> QED
  BY <1>1, <1>3, <1>4, <1>5, <1>6 DEF Honest, IsIsolated

\* The exit code says what the run did, and so does its row: for any registry
\* whose umbrella jobs are nobody's dependencies, whatever fails, is skipped,
\* reused or switched off, and whichever rows are swept by other runs.
\* (runner.py:229, 307-345; registry.py:102-107)
THEOREM ExitCodesAreHonest == Spec => []StatusIsHonest
<1>1. Init => BudgetInv /\ HonestInv
  <2> SUFFICES ASSUME Init PROVE BudgetInv /\ HonestInv
    OBVIOUS
  <2>1. \A f \in Faults : budget[f] = Budget[f] /\ Budget[f] \in Nat
    BY PlatformAssumption DEF Init
  <2>2. \A r \in Runs : result[r] = "none"
    BY DEF Init
  <2> QED
    BY <2>1, <2>2, NotHonestYet DEF BudgetInv, HonestInv
<1>2. TypeInv /\ OrderInv /\ JobsInv /\ BudgetInv /\ HonestInv /\ [Next]_vars => BudgetInv' /\ HonestInv'
  <2> SUFFICES ASSUME TypeInv, OrderInv, JobsInv, BudgetInv, HonestInv, [Next]_vars PROVE HonestInv'
    BY BudgetFalls
  <2>0. /\ \A s \in Runs : Honest(s) /\ JobInv(s) /\ InLockOrder(s)
        /\ Never("log")' => Never("log")
        /\ budget \in [Faults -> Nat]
    BY BudgetFalls DEF HonestInv, JobsInv, OrderInv, Faults, TypeInv, TypeOK
  \* nothing but the sweep of a running row happens to s
  <2>1. ASSUME NEW s \in Runs, top'[s] = top[s], done'[s] = done[s], result'[s] = result[s],
               phase'[s] = phase[s], \A j \in Jobs : row'[s][j] = row[s][j] \/ row[s][j] = "running"
        PROVE  Honest(s)'
    <3>1. result[s] # "none" => top[s] \in Jobs
      BY <2>0, HasTypes DEF Honest, RunTypes
    <3> QED
      BY <2>0, <2>1, <3>1 DEF Honest, IsIsolated
  <2>2. ASSUME UNCHANGED vars \/ \E r \in Runs, m \in Modules : SessionLost(r, m) PROVE HonestInv'
    <3>1. UNCHANGED <<runVars, phase, result, row>>
      BY <2>2 DEF vars, SessionLost
    <3> QED
      BY <2>1, <3>1 DEF runVars, HonestInv
  <2>3. ASSUME NEW r \in Runs, RunStep(r) \/ Crash(r) \/ Reaped(r), NEW s \in Runs \ {r} PROVE Honest(s)'
    BY <2>1, <2>3, OthersStay, OthersKeep
  <2>4. ASSUME NEW r \in Runs, RunStep(r) \/ Crash(r) \/ Reaped(r) PROVE Honest(r)'
    <3>0. RunTypes(r) /\ JobInv(r) /\ InLockOrder(r)
      BY <2>0, HasTypes
    <3>1. result[r] = "none" \/ phase[r] = "over"
      BY <2>0 DEF Honest
    <3>2. CASE Reaped(r)
      BY <2>1, <3>2 DEF Reaped, runVars
    <3>3. phase[r] # "over" \/ Reaped(r)
      BY <2>4 DEF RunStep, Crash, StartRun, TakeLock, AllLocked, LockBusy, SkipRaises, Busy, Start, DepsOver, Finish,
         LogFails, DepDone, DepDisabled, DepBlocked, DepReused, DepRaises, DepRuns, AtDep, Loads, Commit, TasksDone, SwapCreate,
         SwapLoad, SwapRename, Step, TaskRaises, Working
    <3>4. ASSUME NEW st, NEW raised, Leave(r, st, raised), ~AtTop(r) PROVE result' = result
      BY <3>4 DEF Leave
    <3>5. ASSUME ~Reaped(r), result' = result PROVE Honest(r)'
      <4>1. result'[r] = "none"
        BY <3>1, <3>3, <3>5
      <4> QED
        BY <4>1 DEF Honest
    <3>6. CASE LogFails(r)
      <4>1. CASE AtTop(r)
        <5>1. phase'[r] = "over" /\ result'[r] = "failed" /\ Spend({"log"})
          BY <3>0, <3>6, <4>1 DEF LogFails, Leave, AtTop, RunTypes
        <5>2. ~Never("log")'
          BY <2>0, <5>1, SpendLess DEF Faults
        <5> QED
          BY <5>1, <5>2 DEF Honest
      <4> QED
        BY <3>4, <3>5, <3>6, <4>1 DEF LogFails, Reaped
    <3>7. CASE SkipRaises(r)
      <4>1. phase'[r] = "over" /\ result'[r] = "failed" /\ Spend({"log"})
        BY <3>0, <3>7 DEF SkipRaises, RunTypes
      <4>2. ~Never("log")'
        BY <2>0, <4>1, SpendLess DEF Faults
      <4> QED
        BY <4>1, <4>2 DEF Honest
    <3>8. CASE LockBusy(r)
      <4>1. CASE AtTop(r)
        <5>1. phase'[r] = "over" /\ result'[r] = "locked"
          BY <3>0, <3>8, <4>1 DEF LockBusy, RunTypes
        <5> QED
          BY <5>1 DEF Honest
      <4> QED
        BY <3>4, <3>5, <3>8, <4>1 DEF LockBusy, Busy, Reaped
    <3>9. CASE Finish(r)
      <4>1. CASE AtTop(r)
        BY <3>0, <3>9, <4>1, FinishIsHonest
      <4> QED
        BY <3>4, <3>5, <3>9, <4>1 DEF Finish, Reaped
    <3>10. CASE TaskRaises(r) \/ (DepsOver(r) /\ RequirementFailed(r)) \/ \E d \in Jobs : DepRaises(r, d)
      <4>1. CASE AtTop(r)
        BY <2>0, <3>0, <3>10, <4>1, FailureIsHonest
      <4>2. CASE ~AtTop(r)
        <5>1. PICK S : JobFails(r, S)
          BY <3>10 DEF TaskRaises, DepsOver, DepRaises
        <5>2. ~Reaped(r)
          BY <3>10 DEF Reaped, TaskRaises, Working, DepsOver, DepRaises, AtDep
        <5> QED
          BY <3>4, <3>5, <4>2, <5>1, <5>2 DEF JobFails
      <4> QED
        BY <4>1, <4>2
    <3>11. CASE ~LogFails(r) /\ ~SkipRaises(r) /\ ~LockBusy(r) /\ ~Finish(r) /\ ~Reaped(r)
                /\ ~(TaskRaises(r) \/ (DepsOver(r) /\ RequirementFailed(r)) \/ \E d \in Jobs : DepRaises(r, d))
      <4>1. result' = result
        BY <2>4, <3>11 DEF RunStep, Crash, StartRun, TakeLock, AllLocked, Start, DepsOver, DepDone, DepDisabled,
           DepBlocked, DepReused, DepRuns, NextDep, Loads, Commit, TasksDone, SwapCreate, SwapLoad, SwapRename, Step
      <4> QED
        BY <3>5, <3>11, <4>1
    <3> QED
      BY <3>2, <3>6, <3>7, <3>8, <3>9, <3>10, <3>11
  <2> QED
    BY <2>2, <2>3, <2>4 DEF Next, AllOver, HonestInv
<1>3. HonestInv => StatusIsHonest
  BY DEF HonestInv, Honest, StatusIsHonest
<1> QED
  BY <1>1, <1>2, <1>3, OrderHolds, JobsHold, PlatformTypes, PTL DEF Spec, TypeInv

================================================================================
