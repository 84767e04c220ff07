-------------------------- MODULE JobLifecycleProofs --------------------------
(***************************************************************************)
(* Theorems about JobLifecycle for every set of jobs, every number of      *)
(* slots, restarts and faults: a cancelled job never completes; the job    *)
(* table keeps the contract of JobContract; slots and duties; the rows a   *)
(* delivered job may lose; what a job without a result leaves behind.      *)
(***************************************************************************)
EXTENDS JobLifecycle, FiniteSetTheorems, TLAPS

\* The claim has begun the job: from here on no insertion or claim touches it.
Begun(j) == status[j] \notin {"absent", "queued"}

\* Whoever holds a job - its worker, the dispatcher's tables, the dispatcher
\* itself, a call it has left behind - holds one that was claimed.
HoldersBegan ==
    \A j \in Jobs : worker[j] # "none" \/ j \in running \cup todo \/ j \in {cur, thread.job}
                      => Begun(j)

\* Where the dispatcher uses `cur`, and a call left behind its job.
CurOK ==
    /\ pc \in {"check", "finish", "revoke", "rmdirs", "spawn", "pid", "spawnfail",
               "exp_rm", "recover_rm"} => cur \in Jobs
    /\ thread.at \in {"finish", "revoke", "rmdirs", "exp_rm"} => thread.job \in Jobs

\* A worker in its exception handler knows what to report.
ReasonOK == \A j \in Jobs : worker[j] \in Tidying => reason[j] # "none"

\* After the worker's last look at the flag a cancel request moves the status
\* where complete_job refuses it, and nobody but the worker would move it back.
CommitOK ==
    \A j \in Jobs : worker[j] = "commit" /\ status[j] \in {"running", "postprocessing"}
                      => ~cancelReq[j]

IInv ==
    /\ TypeOK /\ CurOK /\ HoldersBegan /\ ReasonOK /\ CommitOK
    /\ CancelledNeverCompletes

-----------------------------------------------------------------------------
LEMMA InitIInv == Init => IInv
<1> SUFFICES ASSUME Init PROVE IInv
  OBVIOUS
<1> USE ConstantsAssumption DEF Init
<1>1. TypeOK
  BY DEF TypeOK, Statuses, WorkerPCs, PCs, Clocks, Unseen, NoCall
<1>2. CurOK
  BY DEF CurOK, NoCall
<1>4. HoldersBegan
  BY DEF HoldersBegan, NoCall
<1>3. ReasonOK /\ CommitOK /\ CancelledNeverCompletes
  BY DEF ReasonOK, Tidying, CommitOK, CancelledNeverCompletes
<1> QED
  BY <1>1, <1>2, <1>3, <1>4 DEF IInv

Held == {"none", "there", "left"}
Rows == {"none", "ready", "left"}

\* What a revocation, a removal and those who do not come any more leave.
LEMMA RevokeType ==
    ASSUME TypeOK, NEW j \in Jobs, TryRevoke(j) \/ RevokeRows(j) \/ LeaveRows(j)
    PROVE  rows' \in [Jobs -> Rows]
BY DEF TypeOK, TryRevoke, RevokeRows, LeaveRows, Rows

LEMMA RemoveType ==
    ASSUME TypeOK, NEW j \in Jobs, RemoveDirs(j)
    PROVE  files' \in [Jobs -> Held]
BY DEF TypeOK, RemoveDirs, Held

LEMMA ForsakeType ==
    ASSUME TypeOK, NEW S, Forsake(S)
    PROVE  rows' \in [Jobs -> Rows] /\ files' \in [Jobs -> Held]
BY DEF TypeOK, Forsake, Rows, Held

\* The steps of job j's worker process.
LEMMA WorkerKeeps ==
    ASSUME IInv, NEW j \in Jobs, WorkerStep(j)
    PROVE  IInv'
<1> USE DEF IInv, Begun, Active, Terminal, Statuses, Alive, InTry, Tidying, WorkerPCs
<1>1. UNCHANGED <<cancelReq, createdAt, loop, api, faults>>
  BY DEF WorkerStep
<1> USE <1>1 DEF loop, api, WorkerStep, WInstall, WLoad, WPrepare, WHook, WDownloaded,
        WSetPostprocessing, WFinalize, WPublish, WCheckCancel, WComplete, WReturn, WTidyRows, WTidyDirs,
        WFail, Goes, Raise, Worker, FailJob
<1>2. TypeOK'
  <2>1. status' \in [Jobs -> Statuses]
    BY DEF TypeOK, ReasonOK
  <2>2. rows' \in [Jobs -> Rows]
    <3>1. CASE WTidyRows(j)
      BY <3>1, RevokeType
    <3>2. CASE ~WTidyRows(j)
      BY <3>2 DEF TypeOK, Rows
    <3> QED
      BY <3>1, <3>2
  <2>3. files' \in [Jobs -> Held]
    <3>1. CASE WTidyDirs(j)
      BY <3>1, RemoveType
    <3>2. CASE ~WTidyDirs(j)
      BY <3>2 DEF TypeOK, Held
    <3> QED
      BY <3>1, <3>2
  <2>4. worker' \in [Jobs -> WorkerPCs]
    BY DEF TypeOK
  <2>5. reason' \in [Jobs -> {"none", "cancelled", "failed"}]
    BY DEF TypeOK
  <2>6. sig' \in [Jobs -> BOOLEAN]
    BY DEF TypeOK
  <2> QED
    BY <2>1, <2>2, <2>3, <2>4, <2>5, <2>6 DEF TypeOK, Rows, Held
<1>3. CurOK'
  BY DEF CurOK
<1>4. HoldersBegan'
  BY DEF TypeOK, HoldersBegan
<1>5. ReasonOK'
  BY DEF TypeOK, ReasonOK
<1>6. CommitOK'
  BY DEF TypeOK, CommitOK
<1>7. CancelledNeverCompletes'
  BY DEF TypeOK, CancelledNeverCompletes, CommitOK
<1> QED
  BY <1>2, <1>3, <1>4, <1>5, <1>6, <1>7

\* What the helpers of the dispatcher do to the variables they assign.
LEMMA FreshType ==
    ASSUME TypeOK, NEW S, Fresh(S)
    PROVE  clock' \in [Jobs -> Clocks]
BY DEF TypeOK, Fresh, Clocks

LEMMA SignalType ==
    ASSUME TypeOK, NEW S, Signal(S)
    PROVE  sig' \in [Jobs -> BOOLEAN]
BY DEF TypeOK, Signal

LEMMA EndType ==
    ASSUME TypeOK, NEW S, End(S)
    PROVE  /\ worker' \in [Jobs -> WorkerPCs]
           /\ sig' \in [Jobs -> BOOLEAN]
           /\ \A j \in Jobs : worker'[j] \in {worker[j], "exited"}
           /\ \A j \in Jobs : worker[j] = "none" => worker'[j] = "none"
<1>1. worker' \in [Jobs -> WorkerPCs]
  BY DEF TypeOK, End, WorkerPCs
<1>2. sig' \in [Jobs -> BOOLEAN]
  BY DEF TypeOK, End
<1>3. \A j \in Jobs : worker'[j] \in {worker[j], "exited"}
  BY DEF TypeOK, End
<1>4. \A j \in Jobs : worker[j] = "none" => worker'[j] = "none"
  BY DEF TypeOK, End, Live, Alive, InTry, Tidying
<1> QED
  BY <1>1, <1>2, <1>3, <1>4

LEMMA KillType ==
    ASSUME TypeOK, NEW S, Kill(S)
    PROVE  /\ worker' \in [Jobs -> WorkerPCs]
           /\ sig' \in [Jobs -> BOOLEAN]
           /\ rows' \in [Jobs -> Rows] /\ files' \in [Jobs -> Held]
           /\ \A j \in Jobs : worker'[j] \in {worker[j], "exited"}
           /\ \A j \in Jobs : worker[j] = "none" => worker'[j] = "none"
BY EndType, ForsakeType DEF Kill

LEMMA UnseenType == Unseen \in [status : Statuses, cancel : BOOLEAN]
BY DEF Unseen, Statuses

\* A signal, or the death of a worker.
LEMMA SignalsKeep ==
    ASSUME IInv, NEW j \in Jobs, TermArrives(j) \/ WorkerDies(j)
    PROVE  IInv'
<1> USE DEF IInv, Begun, table, loop, api
<1>1. CASE TermArrives(j)
  <2> USE <1>1 DEF TermArrives, Interrupted, Alive, InTry, Tidying, WorkerPCs
  <2>1. worker' \in [Jobs -> WorkerPCs]
    BY DEF TypeOK
  <2>2. reason' \in [Jobs -> {"none", "cancelled", "failed"}]
    BY DEF TypeOK
  <2>3. sig' \in [Jobs -> BOOLEAN]
    BY DEF TypeOK
  <2>4. rows' \in [Jobs -> Rows] /\ files' \in [Jobs -> Held]
    <3>1. CASE Forsake(Stranded({j}))
      BY <3>1, ForsakeType
    <3>2. CASE LeaveRows(j) /\ UNCHANGED files
      BY <3>2, RevokeType DEF TypeOK, Held
    <3>3. CASE UNCHANGED <<rows, files>>
      BY <3>3 DEF TypeOK, Rows, Held
    <3> QED
      BY <3>1, <3>2, <3>3
  <2>5. TypeOK'
    BY <2>1, <2>2, <2>3, <2>4 DEF TypeOK, Rows, Held
  <2>6. CurOK' /\ HoldersBegan'
    BY DEF TypeOK, CurOK, HoldersBegan
  <2>7. ReasonOK' /\ CommitOK' /\ CancelledNeverCompletes'
    BY DEF TypeOK, ReasonOK, CommitOK, CancelledNeverCompletes
  <2> QED
    BY <2>5, <2>6, <2>7
<1>2. CASE WorkerDies(j)
  <2>1. /\ worker' \in [Jobs -> WorkerPCs] /\ sig' \in [Jobs -> BOOLEAN]
        /\ rows' \in [Jobs -> Rows] /\ files' \in [Jobs -> Held]
        /\ \A k \in Jobs : worker'[k] \in {worker[k], "exited"}
        /\ \A k \in Jobs : worker[k] = "none" => worker'[k] = "none"
    BY <1>2, KillType DEF WorkerDies
  <2>2. UNCHANGED <<status, cancelReq, createdAt, reason, loop, api, faults>>
    BY <1>2 DEF WorkerDies
  <2>3. TypeOK'
    BY <2>1, <2>2 DEF TypeOK, Rows, Held
  <2>4. CurOK' /\ HoldersBegan'
    BY <2>1, <2>2 DEF CurOK, HoldersBegan
  <2>5. ReasonOK' /\ CommitOK' /\ CancelledNeverCompletes'
    BY <2>1, <2>2 DEF ReasonOK, CommitOK, CancelledNeverCompletes, Tidying
  <2> QED
    BY <2>3, <2>4, <2>5
<1> QED
  BY <1>1, <1>2

\* The handlers of the API, for job j.
LEMMA ApiKeeps ==
    ASSUME IInv, NEW j \in Jobs, Api(j) \/ PurgeRemove(j)
    PROVE  IInv'
<1> USE DEF IInv, Begun, Active, Terminal, Statuses, process, loop, api
<1>1. CASE CreateJob(j)
  <2>1. Cardinality({k \in Jobs : status[k] # "absent"}) \in Nat
    BY ConstantsAssumption, FS_Subset, FS_CardinalityType
  <2>2. TypeOK'
    BY <1>1, <2>1 DEF CreateJob, TypeOK
  <2> QED
    BY <1>1, <2>2 DEF CreateJob, TypeOK, CurOK, HoldersBegan, ReasonOK, CommitOK,
       CancelledNeverCompletes
<1>2. CASE RequestCancel(j)
  BY <1>2 DEF RequestCancel, TypeOK, CurOK, HoldersBegan, ReasonOK, CommitOK,
     CancelledNeverCompletes
<1>3. CASE PurgeMark(j)
  BY <1>3, RevokeType DEF PurgeMark, MarkExpired, Rows, TypeOK, CurOK, HoldersBegan, ReasonOK,
     CommitOK, CancelledNeverCompletes
<1>4. CASE PurgeRemove(j)
  BY <1>4, RemoveType DEF PurgeRemove, Held, table, TypeOK, CurOK, HoldersBegan, ReasonOK,
     CommitOK, CancelledNeverCompletes
<1> QED
  BY <1>1, <1>2, <1>3, <1>4 DEF Api

\* The dispatcher task at work on its current job or between two jobs.
LEMMA DispatchKeeps ==
    ASSUME IInv, Dispatch
    PROVE  IInv'
<1> USE DEF IInv, Begun, table, process, loop, api, Goto, Resume, FailJob, MarkExpired, Live,
            Rows, Held
<1> NoJob \notin Jobs
  BY ConstantsAssumption
<1> DEFINE Rest == CurOK /\ HoldersBegan /\ ReasonOK /\ CommitOK /\ CancelledNeverCompletes
<1> USE DEF TypeOK
<1>1. ASSUME BeginPass PROVE TypeOK' /\ Rest'
  <2>1. CASE stopEvent # "clear"
    <3>1. sig' \in [Jobs -> BOOLEAN]
      BY <1>1, <2>1, SignalType DEF BeginPass, Terminate
    <3>2. TypeOK'
      BY <1>1, <2>1, <3>1, UnseenType DEF BeginPass, Terminate, PCs
    <3>3. Rest'
      BY <1>1, <2>1 DEF BeginPass, Terminate, CurOK, HoldersBegan, ReasonOK, CommitOK,
         CancelledNeverCompletes
    <3> QED
      BY <3>2, <3>3
  <2>2. CASE stopEvent = "clear"
    BY <1>1, <2>2 DEF BeginPass, PCs, CurOK, HoldersBegan, ReasonOK, CommitOK,
       CancelledNeverCompletes
  <2> QED
    BY <2>1, <2>2
<1>2. ASSUME MonExited PROVE TypeOK' /\ Rest'
  <2>1. clock' \in [Jobs -> Clocks]
    BY <1>2, FreshType DEF MonExited
  <2>2. TypeOK'
    BY <1>2, <2>1, UnseenType DEF MonExited, PCs, CurOK
  <2>3. CurOK' /\ HoldersBegan'
    BY <1>2 DEF MonExited, CurOK, HoldersBegan
  <2>4. ReasonOK' /\ CommitOK' /\ CancelledNeverCompletes'
    BY <1>2 DEF MonExited, ReasonOK, CommitOK, CancelledNeverCompletes
  <2> QED
    BY <2>2, <2>3, <2>4
<1>3. ASSUME MonAlive PROVE TypeOK' /\ Rest'
  <2>1. /\ worker' \in [Jobs -> WorkerPCs]
        /\ rows' \in [Jobs -> Rows] /\ files' \in [Jobs -> Held]
        /\ \A j \in Jobs : worker'[j] \in {worker[j], "exited"}
        /\ \A j \in Jobs : worker[j] = "none" => worker'[j] = "none"
    BY <1>3, KillType DEF MonAlive
  <2>2. sig' \in [Jobs -> BOOLEAN]
    BY <1>3, KillType, SignalType DEF MonAlive
  <2>3. clock' \in [Jobs -> Clocks]
    BY <1>3 DEF MonAlive, Clocks
  <2>4. TypeOK'
    BY <1>3, <2>1, <2>2, <2>3, UnseenType DEF MonAlive, PCs
  <2>5. UNCHANGED <<status, cancelReq, reason, todo, running, thread>> /\ pc' = "mon"
        /\ cur' = NoJob
    BY <1>3 DEF MonAlive
  <2>6. CurOK' /\ HoldersBegan'
    BY <2>1, <2>5 DEF CurOK, HoldersBegan
  <2>7. ReasonOK' /\ CommitOK' /\ CancelledNeverCompletes'
    BY <2>1, <2>5 DEF ReasonOK, CommitOK, CancelledNeverCompletes, Tidying
  <2> QED
    BY <2>4, <2>6, <2>7
<1>4. ASSUME Finish PROVE TypeOK' /\ Rest'
  <2>1. status' \in [Jobs -> Statuses]
    BY <1>4 DEF Finish, Statuses, Terminal
  <2>4. TypeOK'
    BY <1>4, <2>1 DEF Finish, PCs
  <2>2. CurOK' /\ HoldersBegan'
    BY <1>4 DEF Finish, PCs, Unseen, Statuses, Terminal, CurOK, HoldersBegan
  <2>3. ReasonOK' /\ CommitOK' /\ CancelledNeverCompletes'
    BY <1>4 DEF Finish, PCs, Unseen, Statuses, Terminal, HoldersBegan, ReasonOK, CommitOK,
       CancelledNeverCompletes
  <2> QED
    BY <2>2, <2>3, <2>4
<1>5. ASSUME Revoke \/ RemoveFailed PROVE TypeOK' /\ Rest'
  <2>1. TypeOK'
    BY <1>5, RevokeType, RemoveType, UnseenType DEF Revoke, RemoveFailed, PCs, CurOK
  <2>2. CurOK' /\ HoldersBegan'
    BY <1>5 DEF Revoke, RemoveFailed, PCs, CurOK, HoldersBegan
  <2>3. ReasonOK' /\ CommitOK' /\ CancelledNeverCompletes'
    BY <1>5 DEF Revoke, RemoveFailed, PCs, HoldersBegan, ReasonOK, CommitOK,
       CancelledNeverCompletes
  <2> QED
    BY <2>1, <2>2, <2>3
<1>6. ASSUME MonEnd \/ FillEnd \/ CleanupEnd \/ SetPid \/ Recovered PROVE TypeOK' /\ Rest'
  <2>1. TypeOK'
    BY <1>6 DEF MonEnd, FillEnd, CleanupEnd, SetPid, Recovered, PCs
  <2>2. CurOK' /\ HoldersBegan'
    BY <1>6 DEF MonEnd, FillEnd, CleanupEnd, SetPid, Recovered, PCs, CurOK, HoldersBegan
  <2>3. ReasonOK' /\ CommitOK' /\ CancelledNeverCompletes'
    BY <1>6 DEF MonEnd, FillEnd, CleanupEnd, SetPid, Recovered, PCs, HoldersBegan, ReasonOK, CommitOK,
       CancelledNeverCompletes
  <2> QED
    BY <2>1, <2>2, <2>3
<1>7. ASSUME Spawn PROVE TypeOK' /\ Rest'
  <2>1. clock' \in [Jobs -> Clocks]
    BY <1>7, FreshType DEF Spawn
  <2>2. TypeOK'
    BY <1>7, <2>1 DEF Spawn, PCs, WorkerPCs, Alive, CurOK
  <2>3. CurOK' /\ HoldersBegan'
    BY <1>7 DEF Spawn, CurOK, HoldersBegan
  <2>4. ReasonOK' /\ CommitOK' /\ CancelledNeverCompletes'
    BY <1>7 DEF Spawn, Tidying, ReasonOK, CommitOK, CancelledNeverCompletes
  <2> QED
    BY <2>2, <2>3, <2>4
<1>8. ASSUME SpawnRaises \/ StartFailed PROVE TypeOK' /\ Rest'
  <2>1. TypeOK'
    BY <1>8, ForsakeType DEF SpawnRaises, StartFailed, PCs, Statuses, Terminal
  <2>2. CurOK' /\ HoldersBegan'
    BY <1>8 DEF SpawnRaises, StartFailed, PCs, Statuses, Terminal, CurOK, HoldersBegan
  <2>3. ReasonOK' /\ CommitOK' /\ CancelledNeverCompletes'
    BY <1>8 DEF SpawnRaises, StartFailed, PCs, Statuses, Terminal, HoldersBegan, ReasonOK, CommitOK,
       CancelledNeverCompletes
  <2> QED
    BY <2>1, <2>2, <2>3
<1>9. ASSUME CleanupRemove \/ RecoverRemove PROVE TypeOK' /\ Rest'
  <2>1. TypeOK'
    BY <1>9, RemoveType DEF CleanupRemove, RecoverRemove, PCs, CurOK
  <2>2. CurOK' /\ HoldersBegan'
    BY <1>9 DEF CleanupRemove, RecoverRemove, PCs, CurOK, HoldersBegan
  <2>3. ReasonOK' /\ CommitOK' /\ CancelledNeverCompletes'
    BY <1>9 DEF CleanupRemove, RecoverRemove, PCs, HoldersBegan, ReasonOK, CommitOK,
       CancelledNeverCompletes
  <2> QED
    BY <2>1, <2>2, <2>3
<1>10. ASSUME GracePass \/ EndAll PROVE TypeOK' /\ Rest'
  <2>1. clock' \in [Jobs -> Clocks]
    BY <1>10, FreshType DEF GracePass, EndAll
  <2>2. TypeOK'
    BY <1>10, <2>1 DEF GracePass, EndAll, PCs
  <2>3. CurOK' /\ HoldersBegan'
    BY <1>10 DEF GracePass, EndAll, CurOK, HoldersBegan
  <2>4. ReasonOK' /\ CommitOK' /\ CancelledNeverCompletes'
    BY <1>10 DEF GracePass, EndAll, ReasonOK, CommitOK, CancelledNeverCompletes
  <2> QED
    BY <2>2, <2>3, <2>4
<1>11. ASSUME GraceEnd PROVE TypeOK' /\ Rest'
  <2>1. /\ worker' \in [Jobs -> WorkerPCs]
        /\ sig' \in [Jobs -> BOOLEAN]
        /\ rows' \in [Jobs -> Rows] /\ files' \in [Jobs -> Held]
        /\ \A j \in Jobs : worker'[j] \in {worker[j], "exited"}
        /\ \A j \in Jobs : worker[j] = "none" => worker'[j] = "none"
    BY <1>11, KillType DEF GraceEnd
  <2>2. TypeOK'
    BY <1>11, <2>1 DEF GraceEnd, PCs
  <2>3. UNCHANGED <<status, cancelReq, reason, running, thread>> /\ todo' = running /\ pc' = "end"
        /\ cur' = NoJob
    BY <1>11 DEF GraceEnd
  <2>4. CurOK' /\ HoldersBegan'
    BY <2>1, <2>3 DEF CurOK, HoldersBegan
  <2>5. ReasonOK' /\ CommitOK' /\ CancelledNeverCompletes'
    BY <2>1, <2>3 DEF ReasonOK, CommitOK, CancelledNeverCompletes, Tidying
  <2> QED
    BY <2>2, <2>4, <2>5
<1>12. ASSUME NEW j \in Jobs, MonRead(j) PROVE TypeOK' /\ Rest'
  <2>1. TypeOK'
    BY <1>12 DEF MonRead, PCs
  <2>2. CurOK' /\ HoldersBegan'
    BY <1>12 DEF MonRead, PCs, CurOK, HoldersBegan
  <2>3. ReasonOK' /\ CommitOK' /\ CancelledNeverCompletes'
    BY <1>12 DEF MonRead, PCs, HoldersBegan, ReasonOK, CommitOK,
       CancelledNeverCompletes
  <2> QED
    BY <2>1, <2>2, <2>3
<1>13. ASSUME NEW j \in Jobs, Claim(j) PROVE TypeOK' /\ Rest'
  <2>1. TypeOK'
    BY <1>13 DEF Claim, IsOldestQueued, PCs, Statuses, Active
  <2>2. CurOK' /\ HoldersBegan'
    BY <1>13 DEF Claim, IsOldestQueued, PCs, Statuses, Active, CurOK, HoldersBegan
  <2>3. ReasonOK' /\ CommitOK' /\ CancelledNeverCompletes'
    BY <1>13 DEF Claim, IsOldestQueued, PCs, Statuses, Active, HoldersBegan, ReasonOK, CommitOK,
       CancelledNeverCompletes
  <2> QED
    BY <2>1, <2>2, <2>3
<1>14. ASSUME NEW j \in Jobs, CleanupExpire(j) PROVE TypeOK' /\ Rest'
  <2>1. TypeOK'
    BY <1>14, RevokeType DEF CleanupExpire, PCs, Statuses, Terminal
  <2>2. CurOK' /\ HoldersBegan'
    BY <1>14 DEF CleanupExpire, PCs, Statuses, Terminal, CurOK, HoldersBegan
  <2>3. ReasonOK' /\ CommitOK' /\ CancelledNeverCompletes'
    BY <1>14 DEF CleanupExpire, PCs, Statuses, Terminal, HoldersBegan, ReasonOK, CommitOK,
       CancelledNeverCompletes
  <2> QED
    BY <2>1, <2>2, <2>3
<1>15. ASSUME NEW j \in Jobs, EndJob(j) PROVE TypeOK' /\ Rest'
  <2>1. TypeOK'
    BY <1>15 DEF EndJob, PCs, Statuses, Terminal
  <2>2. CurOK' /\ HoldersBegan'
    BY <1>15 DEF EndJob, PCs, Statuses, Terminal, CurOK, HoldersBegan
  <2>3. ReasonOK' /\ CommitOK' /\ CancelledNeverCompletes'
    BY <1>15 DEF EndJob, PCs, Statuses, Terminal, HoldersBegan, ReasonOK, CommitOK,
       CancelledNeverCompletes
  <2> QED
    BY <2>1, <2>2, <2>3
<1>16. ASSUME NEW j \in Jobs, RecoverJob(j) PROVE TypeOK' /\ Rest'
  <2>1. TypeOK'
    BY <1>16, RevokeType DEF RecoverJob, PCs
  <2>2. CurOK' /\ HoldersBegan'
    BY <1>16 DEF RecoverJob, PCs, CurOK, HoldersBegan
  <2>3. ReasonOK' /\ CommitOK' /\ CancelledNeverCompletes'
    BY <1>16 DEF RecoverJob, PCs, HoldersBegan, ReasonOK, CommitOK,
       CancelledNeverCompletes
  <2> QED
    BY <2>1, <2>2, <2>3
<1> QED
  BY <1>1, <1>2, <1>3, <1>4, <1>5, <1>6, <1>7, <1>8, <1>9, <1>10, <1>11, <1>12, <1>13, <1>14,
     <1>15, <1>16 DEF Dispatch

\* A query that raises, the shutdown of the dispatcher and of the process, its
\* restart, and the passing of time.
LEMMA HostKeeps ==
    ASSUME IInv, \/ Fault \/ Stop \/ Exit \/ Crash \/ Start
                 \/ \E j \in Jobs : LimitPasses(j) \/ GracePasses(j)
    PROVE  IInv'
<1> USE DEF IInv, Begun, table, process, loop, api, Goto, TypeOK
<1> NoJob \notin Jobs /\ MaxStarts \in Nat /\ LoopFaults \in Nat
  BY ConstantsAssumption
<1> DEFINE Rest == CurOK /\ HoldersBegan /\ ReasonOK /\ CommitOK /\ CancelledNeverCompletes
<1>1. ASSUME Fault PROVE TypeOK' /\ Rest'
  <2>1. faults' \in 0 .. LoopFaults
    BY <1>1 DEF Fault
  <2>2. CASE ClaimRaises
    BY <2>1, <2>2 DEF ClaimRaises, PCs, CurOK, HoldersBegan, ReasonOK, CommitOK,
       CancelledNeverCompletes
  <2>3. CASE LeaveLoop
    <3>1. /\ UNCHANGED <<table, files, worker, reason, running, clock>>
          /\ pc' \in {"grace", "halted"} /\ cur' = NoJob /\ todo' = {} /\ seen' = Unseen
          /\ drain' \in {"grace", "no"}
      BY <2>3 DEF LeaveLoop, Terminate
    <3>2. sig' \in [Jobs -> BOOLEAN]
      BY <2>3, SignalType DEF LeaveLoop, Terminate
    <3>3. CASE UNCHANGED api
      <4>1. TypeOK'
        BY <2>1, <3>1, <3>2, <3>3, UnseenType DEF PCs
      <4>2. Rest'
        BY <3>1, <3>3 DEF CurOK, HoldersBegan, ReasonOK, CommitOK, CancelledNeverCompletes
      <4> QED
        BY <4>1, <4>2
    <3>4. CASE StopTimesOut
      <4>1. /\ stopEvent' = "overrun" /\ UNCHANGED <<purging, starts>>
            /\ \/ thread' = NoCall
               \/ /\ pc \in {"fill", "finish", "revoke", "rmdirs", "cleanup", "exp_rm"}
                  /\ thread' = [at |-> pc, job |-> cur, seen |-> seen]
        BY <3>4 DEF StopTimesOut
      <4>2. TypeOK'
        BY <2>1, <3>1, <3>2, <4>1, UnseenType DEF PCs, NoCall
      <4>3. CurOK' /\ HoldersBegan'
        BY <3>1, <4>1 DEF CurOK, HoldersBegan, NoCall
      <4>4. ReasonOK' /\ CommitOK' /\ CancelledNeverCompletes'
        BY <3>1 DEF ReasonOK, CommitOK, CancelledNeverCompletes
      <4> QED
        BY <4>2, <4>3, <4>4
    <3> QED
      BY <1>1, <2>2, <3>3, <3>4 DEF Fault, LoopRaises
  <2> QED
    BY <1>1, <2>2, <2>3 DEF Fault, LoopRaises, StopTimesOut
<1>2. ASSUME Stop PROVE TypeOK' /\ Rest'
  <2>1. sig' \in [Jobs -> BOOLEAN]
    BY <1>2, SignalType DEF Stop
  <2>2. TypeOK'
    BY <1>2, <2>1 DEF Stop
  <2>3. Rest'
    BY <1>2 DEF Stop, CurOK, HoldersBegan, ReasonOK, CommitOK, CancelledNeverCompletes
  <2> QED
    BY <2>2, <2>3
<1>3. ASSUME Gone PROVE TypeOK' /\ Rest'
  <2>1. /\ worker' \in [Jobs -> WorkerPCs]
        /\ sig' \in [Jobs -> BOOLEAN]
        /\ rows' \in [Jobs -> Rows] /\ files' \in [Jobs -> Held]
        /\ \A j \in Jobs : worker'[j] \in {worker[j], "exited"}
        /\ \A j \in Jobs : worker[j] = "none" => worker'[j] = "none"
    <3>1. /\ rows' \in [Jobs -> Rows] /\ files' \in [Jobs -> Held]
      BY <1>3, ForsakeType DEF Gone
    <3>2. CASE UNCHANGED <<worker, sig>>
      BY <3>1, <3>2
    <3>3. CASE End(Jobs)
      BY <3>1, <3>3, EndType
    <3> QED
      BY <1>3, <3>2, <3>3 DEF Gone
  <2>2. clock' \in [Jobs -> Clocks]
    BY <1>3 DEF Gone, Clocks
  <2>3. TypeOK'
    BY <1>3, <2>1, <2>2, UnseenType DEF Gone, PCs, NoCall, Rows, Held
  <2>4. UNCHANGED <<status, cancelReq, reason>> /\ pc' = "down" /\ cur' = NoJob
        /\ todo' = {} /\ running' = {} /\ thread' = NoCall
    BY <1>3 DEF Gone
  <2>5. CurOK' /\ HoldersBegan'
    BY <2>1, <2>4 DEF CurOK, HoldersBegan, NoCall
  <2>6. ReasonOK' /\ CommitOK' /\ CancelledNeverCompletes'
    BY <2>1, <2>4 DEF ReasonOK, CommitOK, CancelledNeverCompletes, Tidying
  <2> QED
    BY <2>3, <2>5, <2>6
<1>4. ASSUME Start PROVE TypeOK' /\ Rest'
  <2>1. TypeOK'
    BY <1>4 DEF Start, PCs, Statuses, Active, Terminal
  <2>2. CurOK' /\ HoldersBegan'
    BY <1>4 DEF Start, CurOK, HoldersBegan, Active
  <2>3. ReasonOK' /\ CommitOK' /\ CancelledNeverCompletes'
    BY <1>4 DEF Start, ReasonOK, CommitOK, CancelledNeverCompletes, Active
  <2> QED
    BY <2>1, <2>2, <2>3
<1>5. ASSUME NEW j \in Jobs, LimitPasses(j) \/ GracePasses(j) PROVE TypeOK' /\ Rest'
  BY <1>5 DEF LimitPasses, GracePasses, Clocks, CurOK, HoldersBegan, ReasonOK, CommitOK,
     CancelledNeverCompletes
<1> QED
  BY <1>1, <1>2, <1>3, <1>4, <1>5 DEF Exit, Crash

\* A call the dispatcher task has left behind.
LEMMA ThreadKeeps ==
    ASSUME IInv, ThreadStep
    PROVE  IInv'
<1> USE DEF IInv, Begun, table, process, loop, FailJob, MarkExpired, Rows, Held, TypeOK
<1> NoJob \notin Jobs
  BY ConstantsAssumption
<1> DEFINE Rest == CurOK /\ HoldersBegan /\ ReasonOK /\ CommitOK /\ CancelledNeverCompletes
<1>1. ASSUME ThreadFails PROVE TypeOK' /\ Rest'
  <2>1. TypeOK'
    BY <1>1, ForsakeType DEF ThreadFails, NoCall, Unseen, Statuses, Terminal
  <2>2. CurOK' /\ HoldersBegan'
    BY <1>1 DEF ThreadFails, NoCall, CurOK, HoldersBegan
  <2>3. ReasonOK' /\ CommitOK' /\ CancelledNeverCompletes'
    BY <1>1 DEF ThreadFails, ReasonOK, CommitOK, CancelledNeverCompletes
  <2> QED
    BY <2>1, <2>2, <2>3
<1>2. ASSUME ThreadRevokes PROVE TypeOK' /\ Rest'
  <2>1. TypeOK'
    BY <1>2, RevokeType DEF ThreadRevokes, CurOK
  <2>2. CurOK' /\ HoldersBegan'
    BY <1>2 DEF ThreadRevokes, CurOK, HoldersBegan
  <2>3. ReasonOK' /\ CommitOK' /\ CancelledNeverCompletes'
    BY <1>2 DEF ThreadRevokes, ReasonOK, CommitOK, CancelledNeverCompletes
  <2> QED
    BY <2>1, <2>2, <2>3
<1>3. ASSUME ThreadRemoves PROVE TypeOK' /\ Rest'
  <2>1. TypeOK'
    BY <1>3, RemoveType DEF ThreadRemoves, CurOK, NoCall, Unseen, Statuses
  <2>2. CurOK' /\ HoldersBegan'
    BY <1>3 DEF ThreadRemoves, CurOK, HoldersBegan, NoCall
  <2>3. ReasonOK' /\ CommitOK' /\ CancelledNeverCompletes'
    BY <1>3 DEF ThreadRemoves, ReasonOK, CommitOK, CancelledNeverCompletes
  <2> QED
    BY <2>1, <2>2, <2>3
<1>4. ASSUME ThreadEnds PROVE TypeOK' /\ Rest'
  BY <1>4 DEF ThreadEnds, NoCall, Unseen, Statuses, CurOK, HoldersBegan, ReasonOK, CommitOK,
     CancelledNeverCompletes
<1>5. ASSUME NEW j \in Jobs, ThreadClaims(j) PROVE TypeOK' /\ Rest'
  <2>1. TypeOK'
    BY <1>5 DEF ThreadClaims, NoCall, Unseen, Statuses, Active
  <2>2. CurOK' /\ HoldersBegan'
    BY <1>5 DEF ThreadClaims, CurOK, HoldersBegan, NoCall
  <2>3. ReasonOK' /\ CommitOK' /\ CancelledNeverCompletes'
    BY <1>5 DEF ThreadClaims, IsOldestQueued, HoldersBegan, ReasonOK, CommitOK,
       CancelledNeverCompletes
  <2> QED
    BY <2>1, <2>2, <2>3
<1>6. ASSUME NEW j \in Jobs, ThreadExpires(j) PROVE TypeOK' /\ Rest'
  <2>1. TypeOK'
    BY <1>6, RevokeType DEF ThreadExpires, NoCall, Unseen, Statuses, Terminal, Fruitless
  <2>2. CurOK' /\ HoldersBegan'
    BY <1>6 DEF ThreadExpires, CurOK, HoldersBegan, NoCall
  <2>3. ReasonOK' /\ CommitOK' /\ CancelledNeverCompletes'
    BY <1>6 DEF ThreadExpires, ReasonOK, CommitOK, CancelledNeverCompletes
  <2> QED
    BY <2>1, <2>2, <2>3
<1> QED
  BY <1>1, <1>2, <1>3, <1>4, <1>5, <1>6 DEF ThreadStep

LEMMA StutterKeeps ==
    ASSUME IInv, UNCHANGED vars
    PROVE  IInv'
BY DEF IInv, vars, table, process, loop, api, TypeOK, CurOK, HoldersBegan, Begun, ReasonOK,
       CommitOK, CancelledNeverCompletes

LEMMA NextIInv == IInv /\ [Next]_vars => IInv'
<1> SUFFICES ASSUME IInv, [Next]_vars PROVE IInv'
  OBVIOUS
<1> QED
  BY WorkerKeeps, SignalsKeep, ApiKeeps, DispatchKeeps, ThreadKeeps, HostKeeps, StutterKeeps
  DEF Next, Step

LEMMA AlwaysIInv == Spec => []IInv
<1>1. Init => IInv
  BY InitIInv
<1>2. IInv /\ [Next]_vars => IInv'
  BY NextIInv
<1> QED
  BY <1>1, <1>2, PTL DEF Spec

\* Every variable keeps its type, however many jobs, slots, restarts and faults
\* there are; in particular a worker's exception handler never writes a status
\* that run_job did not decide on.
THEOREM TypeCorrect == Spec => []TypeOK
<1>1. IInv => TypeOK
  BY DEF IInv
<1> QED
  BY <1>1, AlwaysIInv, PTL

\* No job that was asked to be cancelled completes: the worker may look at the
\* flag outside complete_job's transaction, because a later request leaves the
\* job in a status that complete_job refuses and that nobody but the worker
\* itself would take back.
THEOREM CancelWins == Spec => []CancelledNeverCompletes
<1>1. IInv => CancelledNeverCompletes
  BY DEF IInv
<1> QED
  BY <1>1, AlwaysIInv, PTL

-----------------------------------------------------------------------------
(***************************************************************************)
(* The refinement.                                                         *)
(***************************************************************************)
\* Pairs of statuses between which the contract sees at most one step, given
\* whether the client has asked for a cancellation.
MayBecome(old, new, asked) ==
    \/ new = old
    \/ old = "absent" /\ new = "queued"
    \/ old = "queued" /\ new = "running"
    \/ old \in Active /\ new \in Active \cup {"failed", "cancelled"}
    \/ old \in {"failed", "cancelled"} /\ new \in {"failed", "cancelled"}
    \/ old \in {"running", "postprocessing"} /\ new = "completed" /\ ~asked
    \/ old \in {"completed", "failed", "cancelled"} /\ new = "expired"

ContractStep == [Contract!Next]_Contract!vars

LEMMA OneMoves ==
    ASSUME TypeOK, NEW j \in Jobs, NEW s \in Statuses,
           MayBecome(status[j], s, cancelReq[j]),
           status' = [status EXCEPT ![j] = s], UNCHANGED cancelReq
    PROVE  ContractStep
<1> DEFINE phase == [k \in Jobs |-> PhaseOf(status[k])]
<1>1. phase' = [phase EXCEPT ![j] = PhaseOf(s)]
  BY DEF TypeOK
<1>2. phase[j] = PhaseOf(status[j]) /\ (PhaseOf(s) = phase[j] => phase' = phase)
  BY <1>1
<1>3. \/ PhaseOf(s) = PhaseOf(status[j])
      \/ PhaseOf(status[j]) = "absent" /\ PhaseOf(s) = "waiting"
      \/ PhaseOf(status[j]) = "waiting" /\ PhaseOf(s) = "working"
      \/ PhaseOf(status[j]) = "working" /\ PhaseOf(s) = "dropped"
      \/ PhaseOf(status[j]) = "working" /\ PhaseOf(s) = "delivered" /\ ~cancelReq[j]
      \/ PhaseOf(status[j]) \in {"delivered", "dropped"} /\ PhaseOf(s) = "gone"
  BY DEF MayBecome, PhaseOf, Active, Terminal, Statuses
<1> QED
  BY <1>1, <1>2, <1>3
  DEF ContractStep, Contract!Next, Contract!vars, Contract!Move, Contract!Submit,
      Contract!Begin, Contract!Deliver, Contract!Drop, Contract!Expire

LEMMA NoneMoves ==
    ASSUME UNCHANGED <<status, cancelReq>>
    PROVE  ContractStep
BY DEF ContractStep, Contract!vars, PhaseOf

\* fail_job on a job that was claimed.
LEMMA FailMoves ==
    ASSUME IInv, NEW j \in Jobs, Begun(j), NEW s \in {"failed", "cancelled"},
           FailJob(j, s), UNCHANGED cancelReq
    PROVE  ContractStep
<1>1. PICK t \in Statuses : /\ t = IF status[j] \in {"completed", "expired"} THEN status[j] ELSE s
                            /\ status' = [status EXCEPT ![j] = t]
  BY DEF FailJob, IInv, TypeOK, Statuses, Terminal
<1>2. MayBecome(status[j], t, cancelReq[j])
  BY <1>1 DEF MayBecome, Begun, IInv, TypeOK, Statuses, Terminal, Active
<1> QED
  BY <1>1, <1>2, OneMoves DEF IInv

LEMMA WorkerMoves ==
    ASSUME IInv, NEW j \in Jobs, WorkerStep(j)
    PROVE  ContractStep
<1> USE DEF IInv
<1>1. UNCHANGED cancelReq
  BY DEF WorkerStep
<1>2. CASE UNCHANGED status
  BY <1>1, <1>2, NoneMoves
<1>3. CASE WSetPostprocessing(j)
  <2>1. CASE /\ status[j] \in {"running", "cancelling"}
             /\ status' = [status EXCEPT ![j] = "postprocessing"]
    BY <1>1, <2>1, OneMoves DEF MayBecome, Active, Statuses
  <2>2. CASE UNCHANGED status
    BY <2>2, <1>2
  <2> QED
    BY <1>3, <2>1, <2>2 DEF WSetPostprocessing, Raise, TypeOK
<1>4. CASE WComplete(j)
  <2>1. CASE /\ worker[j] = "commit"
             /\ status[j] \in {"running", "postprocessing"}
             /\ status' = [status EXCEPT ![j] = "completed"]
    BY <1>1, <2>1, OneMoves DEF CommitOK, MayBecome, Statuses, Terminal
  <2> QED
    BY <1>2, <1>4, <2>1 DEF WComplete, Worker, Raise
<1>5. CASE WFail(j)
  <2>1. Begun(j) /\ reason[j] \in {"failed", "cancelled"}
    BY <1>5 DEF WFail, Worker, HoldersBegan, ReasonOK, Tidying, TypeOK
  <2> QED
    BY <1>1, <1>5, <2>1, FailMoves DEF WFail
<1> QED
  BY <1>2, <1>3, <1>4, <1>5
  DEF WorkerStep, WInstall, WLoad, WPrepare, WHook, WDownloaded, WFinalize, WPublish,
      WCheckCancel, WReturn, WTidyRows, WTidyDirs, Goes, Raise

\* mark_job_expired.
LEMMA ExpiryMoves ==
    ASSUME TypeOK, NEW j \in Jobs, MarkExpired(j), UNCHANGED cancelReq
    PROVE  ContractStep
BY OneMoves DEF MarkExpired, MayBecome, Statuses, Terminal

LEMMA ApiMoves ==
    ASSUME IInv, NEW j \in Jobs, Api(j)
    PROVE  ContractStep
<1> USE DEF IInv
<1>1. CASE CreateJob(j)
  BY <1>1, OneMoves DEF CreateJob, MayBecome, Statuses
<1>2. CASE RequestCancel(j)
  <2> DEFINE phase == [k \in Jobs |-> PhaseOf(status[k])]
  <2>1. phase[j] \in {"waiting", "working"}
    BY <1>2 DEF RequestCancel, PhaseOf, Active
  <2>2. cancelReq' = [cancelReq EXCEPT ![j] = TRUE]
    BY <1>2 DEF RequestCancel
  <2>3. phase' = [phase EXCEPT ![j] = IF @ = "waiting" THEN "dropped" ELSE @]
    BY <1>2 DEF RequestCancel, PhaseOf, Active, TypeOK
  <2> QED
    BY <2>1, <2>2, <2>3 DEF ContractStep, Contract!Next, Contract!vars, Contract!Ask
<1>3. CASE PurgeMark(j)
  BY <1>3, ExpiryMoves DEF PurgeMark
<1> QED
  BY <1>1, <1>2, <1>3 DEF Api

LEMMA DispatcherMoves ==
    ASSUME IInv, Dispatch \/ ThreadStep \/ Fault
    PROVE  ContractStep
<1> USE DEF IInv, table
<1>1. CASE BeginPass \/ MonExited \/ MonAlive \/ Revoke \/ RemoveFailed \/ MonEnd
  BY <1>1, NoneMoves DEF BeginPass, Terminate, MonExited, MonAlive, Revoke, RemoveFailed, MonEnd
<1>2. CASE Spawn \/ SetPid \/ SpawnRaises \/ FillEnd \/ CleanupRemove \/ CleanupEnd
  BY <1>2, NoneMoves DEF Spawn, SetPid, SpawnRaises, FillEnd, CleanupRemove, CleanupEnd
<1>3. CASE GracePass \/ GraceEnd \/ EndAll \/ RecoverRemove \/ Recovered \/ Fault
  BY <1>3, NoneMoves DEF GracePass, GraceEnd, EndAll, RecoverRemove, Recovered, Fault,
     LoopRaises, ClaimRaises, StopTimesOut, LeaveLoop, Terminate
<1>4. CASE Finish
  BY <1>4, FailMoves DEF Finish, CurOK, HoldersBegan
<1>5. CASE StartFailed
  BY <1>5, FailMoves DEF StartFailed, CurOK, HoldersBegan
<1>6. ASSUME NEW j \in Jobs, MonRead(j) \/ RecoverJob(j) PROVE ContractStep
  BY <1>6, NoneMoves DEF MonRead, RecoverJob
<1>7. ASSUME NEW j \in Jobs, Claim(j) \/ ThreadClaims(j) PROVE ContractStep
  BY <1>7, OneMoves DEF Claim, ThreadClaims, IsOldestQueued, MayBecome, Statuses, Active
<1>8. ASSUME NEW j \in Jobs, CleanupExpire(j) \/ ThreadExpires(j) PROVE ContractStep
  BY <1>8, ExpiryMoves DEF CleanupExpire, ThreadExpires
<1>9. ASSUME NEW j \in Jobs, EndJob(j) PROVE ContractStep
  BY <1>9, FailMoves DEF EndJob, HoldersBegan
<1>10. CASE ThreadFails
  BY <1>10, FailMoves DEF ThreadFails, CurOK, HoldersBegan
<1>11. CASE ThreadRevokes \/ ThreadRemoves \/ ThreadEnds
  BY <1>11, NoneMoves DEF ThreadRevokes, ThreadRemoves, ThreadEnds
<1> QED
  BY <1>1, <1>2, <1>3, <1>4, <1>5, <1>6, <1>7, <1>8, <1>9, <1>10, <1>11 DEF Dispatch, ThreadStep

LEMMA StartMoves ==
    ASSUME IInv, Start
    PROVE  ContractStep
<1> DEFINE phase == [k \in Jobs |-> PhaseOf(status[k])]
<1>1. phase' = [k \in Jobs |-> IF phase[k] = "working" THEN "dropped" ELSE phase[k]]
  BY DEF Start, PhaseOf, Active, IInv, TypeOK
<1>2. UNCHANGED cancelReq
  BY DEF Start
<1> QED
  BY <1>1, <1>2 DEF ContractStep, Contract!Next, Contract!vars, Contract!Restart

LEMMA NextMoves == IInv /\ [Next]_vars => ContractStep
<1> SUFFICES ASSUME IInv, [Next]_vars PROVE ContractStep
  OBVIOUS
<1> USE DEF table
<1>1. CASE Dispatch \/ ThreadStep \/ Fault
  BY <1>1, DispatcherMoves
<1>2. CASE Stop \/ Exit \/ Crash
  BY <1>2, NoneMoves DEF Stop, Exit, Crash, Gone
<1>3. CASE Start
  BY <1>3, StartMoves
<1>4. ASSUME NEW j \in Jobs, Api(j) PROVE ContractStep
  BY <1>4, ApiMoves
<1>5. ASSUME NEW j \in Jobs, WorkerStep(j) PROVE ContractStep
  BY <1>5, WorkerMoves
<1>6. ASSUME NEW j \in Jobs,
             PurgeRemove(j) \/ TermArrives(j) \/ WorkerDies(j) \/ LimitPasses(j) \/ GracePasses(j)
      PROVE  ContractStep
  BY <1>6, NoneMoves DEF PurgeRemove, TermArrives, WorkerDies, LimitPasses, GracePasses
<1>7. CASE UNCHANGED vars
  BY <1>7, NoneMoves DEF vars
<1> QED
  BY <1>1, <1>2, <1>3, <1>4, <1>5, <1>6, <1>7 DEF Next, Step

\* Whatever the dispatcher, the workers and the crashes do to the job table,
\* the client sees a job that runs at most once, is delivered only if nobody
\* asked for its cancellation, and never comes back once it has ended.
THEOREM ImplementsContract == Spec => KeepsContract
<1>1. Init => Contract!Init
  BY DEF Init, Contract!Init, PhaseOf, Active, Terminal
<1>2. IInv /\ [Next]_vars => [Contract!Next]_Contract!vars
  BY NextMoves DEF ContractStep
<1> QED
  BY <1>1, <1>2, AlwaysIInv, PTL DEF Spec, KeepsContract, Contract!Spec

\* A job that has ended is never taken up again: it follows from the contract.
THEOREM NotReopened == Spec => NeverReopened
<1>1. IInv /\ IInv' /\ [Next]_vars =>
        [\A j \in Jobs : status[j] \in Terminal => status'[j] \in Terminal]_vars
  <2> SUFFICES ASSUME IInv, IInv', [Next]_vars, NEW j \in Jobs, status[j] \in Terminal
               PROVE  status'[j] \in Terminal
    OBVIOUS
  <2> DEFINE phase == [k \in Jobs |-> PhaseOf(status[k])]
  <2>1. phase[j] \in {"delivered", "dropped", "gone"}
    BY DEF PhaseOf, Active, Terminal
  <2>2. ContractStep
    BY NextMoves
  <2>3. phase'[j] \in {"delivered", "dropped", "gone"}
    BY <2>1, <2>2
    DEF ContractStep, Contract!Next, Contract!vars, Contract!Move, Contract!Submit,
        Contract!Begin, Contract!Deliver, Contract!Drop, Contract!Expire, Contract!Ask,
        Contract!Restart
  <2> QED
    BY <2>3 DEF PhaseOf, Active, Terminal, IInv, TypeOK, Statuses
<1> QED
  BY <1>1, AlwaysIInv, PTL DEF Spec, NeverReopened

-----------------------------------------------------------------------------
(***************************************************************************)
(* Slots and supervision.                                                  *)
(***************************************************************************)
\* The last part of _terminate_all, and nothing else, runs with drain "final".
DrainOK == /\ pc = "end" => drain = "final"
           /\ drain = "final" => pc \in {"end", "revoke", "rmdirs"}

\* Every live worker is in the registry, and none is left after the SIGKILLs.
LiveKnown == \A j \in Jobs : Live(j) => j \in running /\ drain # "final"

\* The slot of a claimed job is kept free until it is in the registry.
Fits == /\ IsFiniteSet(running)
        /\ Cardinality(running) <= MaxConcurrent
        /\ pc = "spawn" => Cardinality(running) + 1 <= MaxConcurrent

SlotInv == IInv /\ DrainOK /\ LiveKnown /\ Fits

\* A job that had ended when its row was read has ended.
SeenTrue == pc = "check" /\ seen.status \in Terminal => status[cur] \in Terminal

\* A job whose pid is being recorded is in the registry.
PidKnown == pc = "pid" => cur \in running

\* After the SIGKILLs _terminate_all still has every unfinished job before it.
EndDuty == drain = "final" => \A j \in Jobs : status[j] \in Active => j \in todo

\* Only a stop that has run out of time leaves a call behind.
NoneBehind == thread = NoCall

DutyInv == IInv /\ DrainOK /\ SeenTrue /\ PidKnown /\ EndDuty /\ NoneBehind /\ AllSupervised

\* Everybody but the dispatcher, as far as the loop can tell.
Aside ==
    \/ Stop
    \/ \E j \in Jobs : \/ Api(j) \/ PurgeRemove(j)
                       \/ WorkerStep(j) \/ TermArrives(j) \/ WorkerDies(j)
                       \/ LimitPasses(j) \/ GracePasses(j)
    \/ UNCHANGED vars

\* Nobody but the dispatcher starts a worker, takes up a job or moves the loop.
LEMMA AsideQuiet ==
    ASSUME IInv, Aside
    PROVE  /\ UNCHANGED <<pc, cur, seen, todo, drain, running>>
           /\ UNCHANGED thread
           /\ \A j \in Jobs : Live(j)' => Live(j)
           /\ \A j \in Jobs : status'[j] \in Active => status[j] \in Active
           /\ \A j \in Jobs : status[j] \in Terminal => status'[j] \in Terminal
<1> DEFINE Quiet == /\ UNCHANGED <<pc, cur, seen, todo, drain, running>>
                    /\ UNCHANGED thread
                    /\ \A j \in Jobs : Live(j)' => Live(j)
                    /\ \A j \in Jobs : status'[j] \in Active => status[j] \in Active
                    /\ \A j \in Jobs : status[j] \in Terminal => status'[j] \in Terminal
<1> USE DEF loop, api, Live, IInv, TypeOK
<1>1. CASE Stop
  BY <1>1 DEF Stop, table
<1>2. CASE UNCHANGED vars
  BY <1>2 DEF vars, table, process
<1>3. ASSUME NEW j \in Jobs, Api(j) PROVE Quiet
  BY <1>3 DEF Api, CreateJob, RequestCancel, PurgeMark, MarkExpired, process, Active, Terminal
<1>4. ASSUME NEW j \in Jobs, PurgeRemove(j) \/ LimitPasses(j) \/ GracePasses(j) PROVE Quiet
  BY <1>4 DEF PurgeRemove, LimitPasses, GracePasses, table, process
<1>5. ASSUME NEW j \in Jobs, TermArrives(j) \/ WorkerDies(j) PROVE Quiet
  BY <1>5 DEF TermArrives, WorkerDies, Kill, End, Interrupted, Alive, InTry, Tidying, WorkerPCs
<1>6. ASSUME NEW j \in Jobs, WorkerStep(j) PROVE Quiet
  <2> USE DEF WorkerStep, WInstall, WLoad, WPrepare, WHook, WDownloaded, WSetPostprocessing,
          WFinalize, WPublish, WCheckCancel, WComplete, WReturn, WTidyRows, WTidyDirs, WFail,
          Goes, Raise, Worker, FailJob
  <2>1. UNCHANGED <<pc, cur, seen, todo, drain, running, thread>>
    BY <1>6
  <2>2. \A k \in Jobs : Live(k)' => Live(k)
    BY <1>6 DEF Alive, InTry, Tidying, WorkerPCs
  <2>3. \A k \in Jobs : status'[k] \in Active => status[k] \in Active
    BY <1>6 DEF Active, Terminal, ReasonOK, Tidying
  <2>4. \A k \in Jobs : status[k] \in Terminal => status'[k] \in Terminal
    BY <1>6 DEF Active, Terminal, ReasonOK, Tidying
  <2> QED
    BY <2>1, <2>2, <2>3, <2>4
<1> QED
  BY <1>1, <1>2, <1>3, <1>4, <1>5, <1>6 DEF Aside

\* The process goes down, and comes up again.
Host == Exit \/ Crash \/ Start

LEMMA NextSplits == [Next]_vars => Aside \/ Dispatch \/ ThreadStep \/ Fault \/ Host
BY DEF Next, Step, Aside, Host

-----------------------------------------------------------------------------
(***************************************************************************)
(* Slots.                                                                  *)
(***************************************************************************)
LEMMA RegistryGrows ==
    ASSUME Fits, pc = "spawn"
    PROVE  /\ IsFiniteSet(running \cup {cur})
           /\ Cardinality(running \cup {cur}) <= MaxConcurrent
<1>1. Cardinality(running) \in Nat
  BY FS_CardinalityType DEF Fits
<1>2. CASE cur \in running
  <2>1. running \cup {cur} = running
    BY <1>2
  <2> QED
    BY <2>1 DEF Fits
<1>3. CASE cur \notin running
  <2>1. /\ IsFiniteSet(running \cup {cur})
        /\ Cardinality(running \cup {cur}) = Cardinality(running) + 1
    BY <1>3, FS_AddElement DEF Fits
  <2> QED
    BY <1>1, <2>1, ConstantsAssumption DEF Fits
<1> QED
  BY <1>2, <1>3

LEMMA RegistryShrinks ==
    ASSUME Fits, NEW S, S \subseteq running
    PROVE  IsFiniteSet(S) /\ Cardinality(S) <= MaxConcurrent
<1>1. /\ IsFiniteSet(S) /\ Cardinality(S) <= Cardinality(running)
      /\ Cardinality(S) \in Nat /\ Cardinality(running) \in Nat
  BY FS_Subset, FS_CardinalityType DEF Fits
<1> QED
  BY <1>1, ConstantsAssumption DEF Fits

\* A step that takes nobody into the registry.
LEMMA RegistryKeeps ==
    ASSUME SlotInv, running' \subseteq running, pc' = "spawn" => pc = "spawn"
    PROVE  Fits'
<1>1. IsFiniteSet(running') /\ Cardinality(running') <= MaxConcurrent
  BY RegistryShrinks DEF SlotInv
<1>2. ASSUME pc' = "spawn" PROVE Cardinality(running') + 1 <= MaxConcurrent
  <2>1. IsFiniteSet(running) /\ Cardinality(running) + 1 <= MaxConcurrent
    BY <1>2 DEF SlotInv, Fits
  <2>2. /\ Cardinality(running') <= Cardinality(running)
        /\ Cardinality(running') \in Nat /\ Cardinality(running) \in Nat
    BY <2>1, FS_Subset, FS_CardinalityType
  <2> QED
    BY <2>1, <2>2, ConstantsAssumption
<1> QED
  BY <1>1, <1>2 DEF Fits

LEMMA AsideSlots ==
    ASSUME SlotInv, Aside
    PROVE  (DrainOK /\ LiveKnown /\ Fits)'
<1>1. DrainOK' /\ LiveKnown'
  BY AsideQuiet DEF SlotInv, DrainOK, LiveKnown
<1>2. Fits'
  BY AsideQuiet, RegistryKeeps DEF SlotInv
<1> QED
  BY <1>1, <1>2

LEMMA DispatchSlots ==
    ASSUME SlotInv, Dispatch
    PROVE  (DrainOK /\ LiveKnown /\ Fits)'
<1> DEFINE Goal == (DrainOK /\ LiveKnown /\ Fits)'
<1> USE DEF SlotInv, DrainOK, LiveKnown, Live, Goto, process, api, IInv, TypeOK, CurOK
<1>1. CASE BeginPass
  <2>1. DrainOK' /\ LiveKnown'
    BY <1>1 DEF BeginPass, Terminate
  <2>2. running' \subseteq running /\ pc' # "spawn"
    BY <1>1 DEF BeginPass, Terminate
  <2> QED
    BY <2>1, <2>2, RegistryKeeps
<1>2. CASE MonExited
  <2>1. DrainOK' /\ LiveKnown'
    BY <1>2 DEF MonExited, Alive, InTry, Tidying
  <2>2. running' \subseteq running /\ pc' # "spawn"
    BY <1>2 DEF MonExited
  <2> QED
    BY <2>1, <2>2, RegistryKeeps
<1>3. CASE MonAlive
  <2>1. DrainOK' /\ LiveKnown'
    BY <1>3 DEF MonAlive, Kill, End, Alive, InTry, Tidying
  <2>2. running' \subseteq running /\ pc' # "spawn"
    BY <1>3 DEF MonAlive
  <2> QED
    BY <2>1, <2>2, RegistryKeeps
<1>4. CASE \/ Finish \/ Revoke \/ RemoveFailed \/ MonEnd \/ SetPid \/ SpawnRaises
           \/ StartFailed \/ FillEnd \/ CleanupRemove \/ CleanupEnd \/ GracePass
           \/ RecoverRemove \/ Recovered
           \/ \E j \in Jobs : MonRead(j) \/ CleanupExpire(j) \/ EndJob(j) \/ RecoverJob(j)
  <2> USE DEF Finish, Revoke, RemoveFailed, Resume, MonEnd, SetPid, SpawnRaises, StartFailed,
          FillEnd, CleanupRemove, CleanupEnd, GracePass, RecoverRemove, Recovered, MonRead,
          CleanupExpire, EndJob, RecoverJob
  <2>1. DrainOK' /\ LiveKnown'
    BY <1>4
  <2>2. running' \subseteq running /\ pc' # "spawn"
    BY <1>4
  <2> QED
    BY <2>1, <2>2, RegistryKeeps
<1>5. ASSUME NEW j \in Jobs, Claim(j) PROVE Goal
  <2>1. DrainOK' /\ LiveKnown'
    BY <1>5 DEF Claim
  <2>2. running' = running /\ Cardinality(running) < MaxConcurrent /\ IsFiniteSet(running)
    BY <1>5 DEF Claim, Fits
  <2>3. Cardinality(running) \in Nat
    BY <2>2, FS_CardinalityType
  <2>4. Cardinality(running) + 1 <= MaxConcurrent /\ Cardinality(running) <= MaxConcurrent
    BY <2>2, <2>3, ConstantsAssumption
  <2> QED
    BY <2>1, <2>2, <2>4 DEF Fits
<1>6. CASE Spawn
  <2>1. DrainOK' /\ LiveKnown'
    BY <1>6 DEF Spawn
  <2>2. running' = running \cup {cur} /\ pc = "spawn" /\ pc' # "spawn"
    BY <1>6 DEF Spawn
  <2> QED
    BY <2>1, <2>2, RegistryGrows DEF Fits
<1>7. CASE GraceEnd
  <2>1. DrainOK' /\ LiveKnown'
    BY <1>7 DEF GraceEnd, Kill, End, Alive, InTry, Tidying
  <2>2. running' \subseteq running /\ pc' # "spawn"
    BY <1>7 DEF GraceEnd
  <2> QED
    BY <2>1, <2>2, RegistryKeeps
<1>8. CASE EndAll
  <2>1. DrainOK' /\ LiveKnown'
    BY <1>8 DEF EndAll
  <2>2. running' \subseteq running /\ pc' # "spawn"
    BY <1>8 DEF EndAll
  <2> QED
    BY <2>1, <2>2, RegistryKeeps
<1> QED
  BY <1>1, <1>2, <1>3, <1>4, <1>5, <1>6, <1>7, <1>8 DEF Dispatch

LEMMA FaultSlots ==
    ASSUME SlotInv, Fault
    PROVE  (DrainOK /\ LiveKnown /\ Fits)'
<1> USE DEF SlotInv, DrainOK, LiveKnown, Live, Goto, process, Fault, LoopRaises, ClaimRaises,
        StopTimesOut, LeaveLoop, Terminate
<1>1. DrainOK' /\ LiveKnown'
  OBVIOUS
<1>2. running' \subseteq running /\ pc' # "spawn"
  OBVIOUS
<1> QED
  BY <1>1, <1>2, RegistryKeeps

LEMMA ThreadSlots ==
    ASSUME SlotInv, ThreadStep
    PROVE  (DrainOK /\ LiveKnown /\ Fits)'
<1>1. UNCHANGED <<worker, loop>>
  BY DEF ThreadStep, ThreadFails, ThreadRevokes, ThreadRemoves, ThreadEnds, ThreadClaims,
     ThreadExpires, process
<1> QED
  BY <1>1 DEF SlotInv, DrainOK, LiveKnown, Fits, Live, loop

LEMMA HostSlots ==
    ASSUME SlotInv, Host, ~WorkersOutliveApi
    PROVE  (DrainOK /\ LiveKnown /\ Fits)'
<1> USE DEF SlotInv, DrainOK, LiveKnown, Live, Goto, process, Host, Exit, Crash, Gone, Start
<1>1. DrainOK' /\ LiveKnown'
  BY DEF End, Alive, InTry, Tidying, IInv, TypeOK
<1>2. running' \subseteq running /\ pc' # "spawn"
  OBVIOUS
<1> QED
  BY <1>1, <1>2, RegistryKeeps

LEMMA InitSlots == Init => SlotInv
<1> SUFFICES ASSUME Init PROVE SlotInv
  OBVIOUS
<1>1. DrainOK /\ LiveKnown
  BY DEF Init, DrainOK, LiveKnown, Live, Alive, InTry, Tidying
<1>2. Fits
  <2>1. running = {} /\ pc # "spawn"
    BY DEF Init
  <2> QED
    BY <2>1, FS_EmptySet, ConstantsAssumption DEF Fits
<1> QED
  BY <1>1, <1>2, InitIInv DEF SlotInv

\* No more workers are alive than there are slots, whatever is cancelled,
\* killed, fails to start or raises, if the service manager ends the workers
\* together with the API process: the registry the slots are counted from then
\* holds every live worker.
THEOREM SlotsSuffice ==
    ASSUME ~WorkersOutliveApi
    PROVE  Spec => []SlotLimit
<1>1. SlotInv /\ [Next]_vars => SlotInv'
  BY NextSplits, NextIInv, AsideSlots, DispatchSlots, ThreadSlots, FaultSlots, HostSlots
  DEF SlotInv
<1>2. SlotInv => SlotLimit
  <2> SUFFICES ASSUME SlotInv PROVE SlotLimit
    OBVIOUS
  <2>1. {j \in Jobs : Live(j)} \subseteq running
    BY DEF SlotInv, LiveKnown
  <2> QED
    BY <2>1, RegistryShrinks DEF SlotInv, SlotLimit
<1> QED
  BY <1>1, <1>2, InitSlots, PTL DEF Spec

-----------------------------------------------------------------------------
(***************************************************************************)
(* Duties.                                                                 *)
(***************************************************************************)
Duty == SeenTrue /\ PidKnown /\ EndDuty /\ NoneBehind /\ AllSupervised

LEMMA AsideDuty ==
    ASSUME DutyInv, Aside
    PROVE  (DrainOK /\ Duty)'
<1> USE AsideQuiet DEF DutyInv
<1>1. DrainOK' /\ PidKnown' /\ EndDuty' /\ NoneBehind'
  BY DEF DrainOK, PidKnown, EndDuty, NoneBehind
<1>2. SeenTrue'
  BY DEF SeenTrue, IInv, CurOK
<1>3. AllSupervised'
  BY DEF AllSupervised, Handled
<1> QED
  BY <1>1, <1>2, <1>3 DEF Duty

LEMMA DispatchDuty ==
    ASSUME DutyInv, Dispatch
    PROVE  (DrainOK /\ Duty)'
<1> DEFINE Goal == (DrainOK /\ Duty)'
<1> USE DEF DutyInv, Duty, DrainOK, SeenTrue, PidKnown, EndDuty, NoneBehind, AllSupervised,
        Handled, Goto, table, api, IInv, TypeOK, CurOK
<1>1. CASE BeginPass
  BY <1>1 DEF BeginPass, Terminate
<1>2. CASE MonExited
  BY <1>2 DEF MonExited, Active, Terminal
<1>3. CASE MonAlive \/ Revoke \/ RemoveFailed \/ MonEnd
  BY <1>3 DEF MonAlive, Revoke, RemoveFailed, Resume, MonEnd
<1>4. CASE Finish
  BY <1>4 DEF Finish, FailJob, Active, Terminal
<1>5. CASE Spawn \/ SetPid \/ SpawnRaises \/ FillEnd \/ CleanupRemove \/ CleanupEnd
  BY <1>5 DEF Spawn, SetPid, SpawnRaises, FillEnd, CleanupRemove, CleanupEnd
<1>6. CASE StartFailed
  BY <1>6 DEF StartFailed, FailJob, Active, Terminal
<1>7. CASE GracePass \/ GraceEnd
  BY <1>7 DEF GracePass, GraceEnd
<1>8. CASE EndAll
  BY <1>8 DEF EndAll
<1>9. CASE RecoverRemove \/ Recovered
  BY <1>9 DEF RecoverRemove, Recovered
<1>10. ASSUME NEW j \in Jobs, MonRead(j) PROVE Goal
  BY <1>10 DEF MonRead
<1>11. ASSUME NEW j \in Jobs, Claim(j) PROVE Goal
  BY <1>11 DEF Claim
<1>12. ASSUME NEW j \in Jobs, CleanupExpire(j) PROVE Goal
  BY <1>12 DEF CleanupExpire, MarkExpired, Active
<1>13. ASSUME NEW j \in Jobs, EndJob(j) PROVE Goal
  BY <1>13 DEF EndJob, FailJob, Active, Terminal
<1>14. ASSUME NEW j \in Jobs, RecoverJob(j) PROVE Goal
  BY <1>14 DEF RecoverJob
<1> QED
  BY <1>1, <1>2, <1>3, <1>4, <1>5, <1>6, <1>7, <1>8, <1>9, <1>10, <1>11, <1>12, <1>13, <1>14
  DEF Dispatch

LEMMA HostDuty ==
    ASSUME DutyInv, Host
    PROVE  (DrainOK /\ Duty)'
<1> USE DEF DutyInv, Duty, DrainOK, SeenTrue, PidKnown, EndDuty, NoneBehind, AllSupervised,
        Handled, Goto, table, api, IInv, TypeOK
<1>1. CASE Exit \/ Crash
  BY <1>1 DEF Exit, Crash, Gone
<1>2. CASE Start
  BY <1>2 DEF Start, Active, Terminal
<1> QED
  BY <1>1, <1>2 DEF Host

LEMMA InitDuty == Init => DutyInv
<1> SUFFICES ASSUME Init PROVE DutyInv
  OBVIOUS
<1>1. DrainOK /\ SeenTrue /\ PidKnown /\ EndDuty /\ NoneBehind /\ AllSupervised
  BY DEF Init, DrainOK, SeenTrue, PidKnown, EndDuty, NoneBehind, AllSupervised, Active
<1> QED
  BY <1>1, InitIInv DEF DutyInv

LEMMA FaultsKept ==
    ASSUME Aside \/ Dispatch \/ ThreadStep \/ Host
    PROVE  UNCHANGED faults
<1>1. CASE Stop \/ Host \/ UNCHANGED vars
  BY <1>1 DEF Stop, Host, Exit, Crash, Gone, Start, vars
<1>2. ASSUME NEW j \in Jobs,
             Api(j) \/ PurgeRemove(j) \/ LimitPasses(j) \/ GracePasses(j)
      PROVE  UNCHANGED faults
  BY <1>2 DEF Api, CreateJob, RequestCancel, PurgeMark, PurgeRemove, LimitPasses, GracePasses
<1>3. ASSUME NEW j \in Jobs, WorkerStep(j) \/ TermArrives(j) \/ WorkerDies(j)
      PROVE  UNCHANGED faults
  BY <1>3 DEF WorkerStep, TermArrives, WorkerDies
<1>4. CASE Dispatch
  BY <1>4 DEF Dispatch, BeginPass, MonExited, MonAlive, Finish, Revoke, RemoveFailed, MonEnd,
     Spawn, SetPid, SpawnRaises, StartFailed, FillEnd, CleanupRemove, CleanupEnd, GracePass,
     GraceEnd, EndAll, RecoverRemove, Recovered, MonRead, Claim, CleanupExpire, EndJob, RecoverJob
<1>5. CASE ThreadStep
  BY <1>5 DEF ThreadStep, ThreadFails, ThreadRevokes, ThreadRemoves, ThreadEnds, ThreadClaims,
     ThreadExpires
<1> QED
  BY <1>1, <1>2, <1>3, <1>4, <1>5 DEF Aside

\* Only a query that raises and a stop that runs out of time count as faults.
LEMMA FaultsCount ==
    ASSUME IInv, [Next]_vars, faults' = 0
    PROVE  faults = 0 /\ (Aside \/ Dispatch \/ ThreadStep \/ Host)
<1>1. faults \in Nat
  BY ConstantsAssumption DEF IInv, TypeOK
<1>2. CASE Fault
  BY <1>1, <1>2 DEF Fault
<1>3. CASE Aside \/ Dispatch \/ ThreadStep \/ Host
  <2>1. UNCHANGED faults
    BY <1>3, FaultsKept
  <2> QED
    BY <1>3, <2>1
<1> QED
  BY <1>2, <1>3, NextSplits

\* Until a query of the dispatcher loop raises or a stop runs out of time, every
\* unfinished claimed job is supervised or just being started or ended, also when
\* spawning fails, when workers are killed and when they outlive the API process:
\* the row the loop read before it looked at the process can only be wrong about a
\* job that has ended, and _terminate_all ends what it kills before it forgets it.
THEOREM EveryJobSupervised == Spec => []NoJobLost
<1> DEFINE Duties == IInv /\ (faults = 0 => DutyInv)
<1>1. Duties /\ [Next]_vars => Duties'
  <2> SUFFICES ASSUME Duties, [Next]_vars PROVE Duties'
    OBVIOUS
  <2>1. IInv'
    BY NextIInv
  <2>2. ASSUME faults' = 0 PROVE DutyInv'
    <3>1. DutyInv /\ (Aside \/ Dispatch \/ Host)
      <4>1. DutyInv /\ (Aside \/ Dispatch \/ ThreadStep \/ Host)
        BY <2>2, FaultsCount
      <4>2. ~ThreadStep
        BY <4>1 DEF DutyInv, NoneBehind, NoCall, ThreadStep, ThreadFails, ThreadRevokes,
           ThreadRemoves, ThreadEnds, ThreadClaims, ThreadExpires
      <4> QED
        BY <4>1, <4>2
    <3>2. (DrainOK /\ Duty)'
      BY <3>1, AsideDuty, DispatchDuty, HostDuty
    <3> QED
      BY <2>1, <3>2 DEF Duty, DutyInv
  <2> QED
    BY <2>1, <2>2
<1>2. Duties => NoJobLost
  BY DEF DutyInv, NoJobLost
<1>3. Init => Duties
  BY InitDuty DEF DutyInv
<1> QED
  BY <1>1, <1>2, <1>3, PTL DEF Spec

-----------------------------------------------------------------------------
(***************************************************************************)
(* The rows of a delivered job.                                            *)
(***************************************************************************)
\* A job is delivered by its own worker, whose handler runs afterwards only for
\* a SIGTERM; and a worker is started once.
LateOK  == \A j \in Jobs : status[j] = "completed" =>
             worker[j] \in {"done", "exited"} \/ (worker[j] \in Tidying /\ reason[j] = "cancelled")
SpawnOK == pc = "spawn" => worker[cur] = "none"

\* What the dispatcher has read of a job that it goes on to revoke, outside the
\* last part of _terminate_all, and what a call it has left behind works with.
SeenOK ==
    /\ pc = "check" => seen.status \in Active \cup Terminal
    /\ pc = "finish" \/ (pc \in {"revoke", "rmdirs"} /\ drain # "final") => seen.status \in Active
    /\ thread.at \in {"finish", "revoke"} => thread.seen.status \in Active

\* The last part of _terminate_all ends the jobs whose processes it has killed.
KilledOK == drain = "final" => todo \subseteq running /\ (pc # "end" => cur \in running)

\* What the start has found interrupted stays without a result.
RecoverOK == pc \in {"recover", "recover_rm"} => \A j \in todo : status[j] \in Fruitless

LossInv == IInv /\ DrainOK /\ LateOK /\ SpawnOK /\ SeenOK /\ KilledOK /\ RecoverOK

\* The dispatcher and the host start a worker only where there was none, and
\* deliver nothing.
LEMMA DispatchDelivers ==
    ASSUME IInv, SpawnOK, Dispatch \/ ThreadStep \/ Fault \/ Host
    PROVE  /\ UNCHANGED reason
           /\ \A j \in Jobs : \/ worker'[j] \in {worker[j], "exited"}
                              \/ worker[j] = "none" /\ pc' # "spawn"
           /\ \A j \in Jobs : status'[j] = "completed" => status[j] = "completed"
<1> DEFINE Alone == /\ UNCHANGED reason
                    /\ \A j \in Jobs : \/ worker'[j] \in {worker[j], "exited"}
                                       \/ worker[j] = "none" /\ pc' # "spawn"
                    /\ \A j \in Jobs : status'[j] = "completed" => status[j] = "completed"
<1> USE DEF IInv, TypeOK, CurOK, Goto, table, process, loop, FailJob, MarkExpired, End, Kill
<1>1. CASE BeginPass \/ MonExited \/ Revoke \/ RemoveFailed \/ MonEnd
  BY <1>1 DEF BeginPass, Terminate, MonExited, Revoke, RemoveFailed, MonEnd
<1>2. CASE SetPid \/ SpawnRaises \/ FillEnd \/ CleanupRemove \/ CleanupEnd
  BY <1>2 DEF SetPid, SpawnRaises, FillEnd, CleanupRemove, CleanupEnd
<1>3. CASE GracePass \/ EndAll \/ RecoverRemove \/ Recovered \/ Fault
  BY <1>3 DEF GracePass, EndAll, RecoverRemove, Recovered, Fault, LoopRaises, ClaimRaises,
     StopTimesOut, LeaveLoop, Terminate
<1>4. CASE MonAlive \/ GraceEnd
  BY <1>4 DEF MonAlive, GraceEnd
<1>5. CASE Finish \/ StartFailed
  BY <1>5 DEF Finish, StartFailed
<1>6. CASE Spawn
  BY <1>6 DEF Spawn, SpawnOK
<1>7. ASSUME NEW j \in Jobs, MonRead(j) \/ RecoverJob(j) PROVE Alone
  BY <1>7 DEF MonRead, RecoverJob
<1>8. ASSUME NEW j \in Jobs, Claim(j) \/ CleanupExpire(j) \/ EndJob(j) PROVE Alone
  BY <1>8 DEF Claim, CleanupExpire, EndJob
<1>9. CASE ThreadFails \/ ThreadRevokes \/ ThreadRemoves \/ ThreadEnds
  BY <1>9 DEF ThreadFails, ThreadRevokes, ThreadRemoves, ThreadEnds
<1>10. ASSUME NEW j \in Jobs, ThreadClaims(j) \/ ThreadExpires(j) PROVE Alone
  BY <1>10 DEF ThreadClaims, ThreadExpires
<1>11. CASE Host
  BY <1>11 DEF Host, Exit, Crash, Gone, Start
<1> QED
  BY <1>1, <1>2, <1>3, <1>4, <1>5, <1>6, <1>7, <1>8, <1>9, <1>10, <1>11 DEF Dispatch, ThreadStep

\* A worker that has not been started does nothing.
LEMMA AsideStartsNone ==
    ASSUME IInv, Aside
    PROVE  \A j \in Jobs : worker[j] = "none" => worker'[j] = "none"
<1> DEFINE None == \A j \in Jobs : worker[j] = "none" => worker'[j] = "none"
<1> USE DEF IInv, TypeOK
<1>1. CASE Stop \/ UNCHANGED vars
  BY <1>1 DEF Stop, vars, process
<1>2. ASSUME NEW j \in Jobs, Api(j) \/ PurgeRemove(j) \/ LimitPasses(j) \/ GracePasses(j)
      PROVE  None
  BY <1>2 DEF Api, CreateJob, RequestCancel, PurgeMark, PurgeRemove, LimitPasses, GracePasses,
     process
<1>3. ASSUME NEW j \in Jobs, TermArrives(j) \/ WorkerDies(j) PROVE None
  BY <1>3 DEF TermArrives, WorkerDies, Interrupted, Kill, End, Live, Alive, InTry, Tidying
<1>4. ASSUME NEW j \in Jobs, WorkerStep(j) PROVE None
  BY <1>4 DEF WorkerStep, WInstall, WLoad, WPrepare, WHook, WDownloaded, WSetPostprocessing,
     WFinalize, WPublish, WCheckCancel, WComplete, WReturn, WTidyRows, WTidyDirs, WFail, Goes,
     Raise, Worker
<1> QED
  BY <1>1, <1>2, <1>3, <1>4 DEF Aside

LEMMA NextLate == LossInv /\ [Next]_vars => LateOK' /\ SpawnOK'
<1> SUFFICES ASSUME LossInv, [Next]_vars PROVE LateOK' /\ SpawnOK'
  OBVIOUS
<1> USE DEF LossInv, IInv, TypeOK
<1>1. CASE Dispatch \/ ThreadStep \/ Fault \/ Host
  <2>1. LateOK'
    BY <1>1, DispatchDelivers DEF LateOK, Tidying
  <2>2. SpawnOK'
    <3>1. ASSUME NEW j \in Jobs, Claim(j) PROVE SpawnOK'
      BY <3>1 DEF Claim, IsOldestQueued, SpawnOK, Goto, process, HoldersBegan, Begun
    <3>2. CASE ThreadStep
      BY <3>2 DEF ThreadStep, ThreadFails, ThreadRevokes, ThreadRemoves, ThreadEnds,
         ThreadClaims, ThreadExpires, SpawnOK, process, loop
    <3>3. CASE pc' # "spawn"
      BY <3>3 DEF SpawnOK
    <3>4. ASSUME Dispatch \/ Fault \/ Host, \A j \in Jobs : ~Claim(j) PROVE pc' # "spawn"
      BY <3>4 DEF Dispatch, BeginPass, Terminate, MonExited, MonAlive, Finish, Revoke,
         RemoveFailed, Resume, MonEnd, Spawn, SetPid, SpawnRaises, StartFailed, FillEnd,
         CleanupRemove, CleanupEnd, GracePass, GraceEnd, EndAll, RecoverRemove, Recovered,
         MonRead, CleanupExpire, EndJob, RecoverJob, Fault, LoopRaises, ClaimRaises,
         StopTimesOut, LeaveLoop, Host, Exit, Crash, Gone, Start, Goto
    <3> QED
      BY <1>1, <3>1, <3>2, <3>3, <3>4
  <2> QED
    BY <2>1, <2>2
<1>2. CASE Aside
  <2>1. SpawnOK'
    BY <1>2, AsideQuiet, AsideStartsNone DEF SpawnOK, CurOK
  <2>2. LateOK'
    <3>1. CASE Stop \/ UNCHANGED vars
      BY <3>1 DEF Stop, vars, table, process, LateOK
    <3>2. ASSUME NEW j \in Jobs, Api(j) \/ PurgeRemove(j) \/ LimitPasses(j) \/ GracePasses(j)
          PROVE  LateOK'
      BY <3>2 DEF Api, CreateJob, RequestCancel, PurgeMark, MarkExpired, PurgeRemove,
         LimitPasses, GracePasses, table, process, LateOK
    <3>3. ASSUME NEW j \in Jobs, TermArrives(j) PROVE LateOK'
      BY <3>3 DEF TermArrives, Interrupted, InTry, Tidying, LateOK
    <3>4. ASSUME NEW j \in Jobs, WorkerDies(j) PROVE LateOK'
      BY <3>4 DEF WorkerDies, Kill, End, LateOK
    <3>5. ASSUME NEW j \in Jobs, WorkerStep(j) PROVE LateOK'
      BY <3>5 DEF WorkerStep, WInstall, WLoad, WPrepare, WHook, WDownloaded,
         WSetPostprocessing, WFinalize, WPublish, WCheckCancel, WComplete, WReturn, WTidyRows,
         WTidyDirs, WFail, Goes, Raise, Worker, FailJob, ReasonOK, Tidying, LateOK
    <3> QED
      BY <1>2, <3>1, <3>2, <3>3, <3>4, <3>5 DEF Aside
  <2> QED
    BY <2>1, <2>2
<1> QED
  BY <1>1, <1>2, NextSplits

LEMMA NextSeen == LossInv /\ [Next]_vars => DrainOK' /\ SeenOK' /\ KilledOK'
<1> DEFINE Goal == DrainOK' /\ SeenOK' /\ KilledOK'
<1> SUFFICES ASSUME LossInv, [Next]_vars PROVE Goal
  OBVIOUS
<1> USE DEF LossInv, IInv, TypeOK, DrainOK, SeenOK, KilledOK, Goto, api
<1>1. CASE Aside
  BY <1>1, AsideQuiet
<1>2. CASE ThreadStep
  <2>1. UNCHANGED loop
    BY <1>2 DEF ThreadStep, ThreadFails, ThreadRevokes, ThreadRemoves, ThreadEnds,
       ThreadClaims, ThreadExpires
  <2>2. thread'.at \in {"none", "rmdirs", "cleanup", "exp_rm"}
    <3>1. CASE ThreadRevokes
      BY <3>1 DEF ThreadRevokes
    <3>2. CASE ThreadRemoves
      <4>1. thread' = NoCall \/ thread' = [NoCall EXCEPT !.at = "cleanup"]
        BY <3>2 DEF ThreadRemoves
      <4>2. NoCall.at = "none" /\ [NoCall EXCEPT !.at = "cleanup"].at = "cleanup"
        BY DEF NoCall
      <4>3. CASE thread' = NoCall
        BY <4>2, <4>3
      <4>4. CASE thread' = [NoCall EXCEPT !.at = "cleanup"]
        BY <4>2, <4>4
      <4> QED
        BY <4>1, <4>3, <4>4
    <3>3. CASE ThreadFails \/ ThreadEnds
      BY <3>3 DEF ThreadFails, ThreadEnds, NoCall
    <3>4. CASE \E j \in Jobs : ThreadClaims(j)
      BY <3>4 DEF ThreadClaims, NoCall
    <3>5. ASSUME NEW j \in Jobs, ThreadExpires(j) PROVE thread'.at = "exp_rm"
      BY <3>5 DEF ThreadExpires, NoCall
    <3> QED
      BY <1>2, <3>1, <3>2, <3>3, <3>4, <3>5 DEF ThreadStep
  <2> QED
    BY <2>1, <2>2 DEF loop
<1>3. CASE Fault
  BY <1>3 DEF Fault, LoopRaises, ClaimRaises, StopTimesOut, LeaveLoop, Terminate, Awaiting, NoCall
<1>4. CASE Host
  BY <1>4 DEF Host, Exit, Crash, Gone, Start, NoCall
<1>5. CASE BeginPass
  BY <1>5 DEF BeginPass, Terminate
<1>6. CASE MonExited
  BY <1>6 DEF MonExited
<1>7. CASE MonAlive \/ MonEnd \/ Spawn \/ SetPid \/ SpawnRaises \/ StartFailed
  BY <1>7 DEF MonAlive, MonEnd, Spawn, SetPid, SpawnRaises, StartFailed
<1>8. CASE Finish \/ Revoke
  BY <1>8 DEF Finish, Revoke
<1>9. CASE RemoveFailed
  BY <1>9 DEF RemoveFailed, Resume
<1>10. CASE FillEnd \/ CleanupRemove \/ CleanupEnd \/ GracePass \/ GraceEnd \/ EndAll
  BY <1>10 DEF FillEnd, CleanupRemove, CleanupEnd, GracePass, GraceEnd, EndAll
<1>11. CASE RecoverRemove \/ Recovered
  BY <1>11 DEF RecoverRemove, Recovered
<1>12. ASSUME NEW j \in Jobs, MonRead(j) PROVE Goal
  BY <1>12 DEF MonRead, HoldersBegan, Begun, Statuses
<1>13. ASSUME NEW j \in Jobs, Claim(j) \/ CleanupExpire(j) \/ RecoverJob(j) PROVE Goal
  BY <1>13 DEF Claim, CleanupExpire, RecoverJob
<1>14. ASSUME NEW j \in Jobs, EndJob(j) PROVE Goal
  BY <1>14 DEF EndJob
<1> QED
  BY <1>1, <1>2, <1>3, <1>4, <1>5, <1>6, <1>7, <1>8, <1>9, <1>10, <1>11, <1>12, <1>13, <1>14,
     NextSplits DEF Dispatch

LEMMA NextRecovers == LossInv /\ [Next]_vars => RecoverOK'
<1> SUFFICES ASSUME LossInv, [Next]_vars, pc' \in {"recover", "recover_rm"} PROVE RecoverOK'
  BY DEF RecoverOK
<1> USE DEF LossInv, IInv, TypeOK, RecoverOK, Fruitless, Terminal, Goto
<1>1. CASE Start
  BY <1>1 DEF Start, Active
<1>2. CASE RecoverRemove \/ \E j \in Jobs : RecoverJob(j)
  BY <1>2 DEF RecoverRemove, RecoverJob, table
<1>3. ASSUME pc \in {"recover", "recover_rm"}, UNCHANGED todo,
             \A j \in Jobs : status[j] \in Fruitless => status'[j] \in Fruitless
      PROVE  RecoverOK'
  BY <1>3
<1>4. CASE Aside
  <2>1. UNCHANGED <<pc, todo>>
    BY <1>4, AsideQuiet
  <2>2. ASSUME NEW j \in Jobs, WorkerStep(j) PROVE RecoverOK'
    BY <1>3, <2>1, <2>2 DEF WorkerStep, WInstall, WLoad, WPrepare, WHook, WDownloaded,
       WSetPostprocessing, WFinalize, WPublish, WCheckCancel, WComplete, WReturn, WTidyRows,
       WTidyDirs, WFail, Goes, Raise, Worker, FailJob, ReasonOK, Tidying
  <2>3. ASSUME NEW j \in Jobs, Api(j) PROVE RecoverOK'
    BY <2>1, <2>3 DEF Api, CreateJob, RequestCancel, PurgeMark, Serving
  <2>4. ASSUME NEW j \in Jobs, \/ PurgeRemove(j) \/ TermArrives(j) \/ WorkerDies(j)
                               \/ LimitPasses(j) \/ GracePasses(j)
        PROVE  RecoverOK'
    BY <1>3, <2>1, <2>4 DEF PurgeRemove, TermArrives, WorkerDies, LimitPasses, GracePasses, table
  <2>5. CASE Stop \/ UNCHANGED vars
    BY <1>3, <2>1, <2>5 DEF Stop, vars, table
  <2> QED
    BY <1>4, <2>2, <2>3, <2>4, <2>5 DEF Aside
<1>5. CASE ThreadStep
  <2>1. UNCHANGED <<pc, todo>>
    BY <1>5 DEF ThreadStep, ThreadFails, ThreadRevokes, ThreadRemoves, ThreadEnds, ThreadClaims,
       ThreadExpires, loop
  <2>2. CASE ThreadFails \/ ThreadRevokes \/ ThreadRemoves \/ ThreadEnds
    BY <1>3, <2>1, <2>2 DEF ThreadFails, ThreadRevokes, ThreadRemoves, ThreadEnds, FailJob, table
  <2>3. ASSUME NEW j \in Jobs, ThreadClaims(j) \/ ThreadExpires(j) PROVE RecoverOK'
    BY <1>3, <2>1, <2>3 DEF ThreadClaims, IsOldestQueued, ThreadExpires, MarkExpired
  <2> QED
    BY <1>5, <2>2, <2>3 DEF ThreadStep
<1>6. ASSUME Dispatch \/ Fault \/ Host, ~Start, ~RecoverRemove,
             \A j \in Jobs : ~RecoverJob(j)
      PROVE  pc' \notin {"recover", "recover_rm"}
  BY <1>6 DEF Dispatch, BeginPass, Terminate, MonExited, MonAlive, Finish, Revoke,
     RemoveFailed, Resume, MonEnd, Spawn, SetPid, SpawnRaises, StartFailed, FillEnd,
     CleanupRemove, CleanupEnd, GracePass, GraceEnd, EndAll, Recovered,
     MonRead, Claim, CleanupExpire, EndJob, Fault, LoopRaises, ClaimRaises,
     StopTimesOut, LeaveLoop, Host, Exit, Crash, Gone
<1> QED
  BY <1>1, <1>2, <1>4, <1>5, <1>6, NextSplits

\* No row of a delivered job goes but by one of the known steps.
NoRowLost ==
    \A j \in Jobs :
       status[j] = "completed" /\ rows[j] # "none" /\ rows'[j] = "none"
         => \/ status'[j] = "expired"
            \/ LateSignal(j) \/ ShutDown(j)
            \/ SawUnfinished(pc, j, seen, cur)
            \/ SawUnfinished(thread.at, j, thread.seen, thread.job)

LEMMA NextLosesNone == LossInv /\ Next => NoRowLost
<1> SUFFICES ASSUME LossInv, Next PROVE NoRowLost
  OBVIOUS
<1> USE DEF LossInv, IInv, TypeOK
<1>1. ASSUME \A j \in Jobs : rows'[j] = "none" => rows[j] = "none" PROVE NoRowLost
  BY <1>1 DEF NoRowLost
<1>2. ASSUME NEW S, Forsake(S) PROVE NoRowLost
  BY <1>1, <1>2 DEF Forsake
<1>3. CASE UNCHANGED rows
  BY <1>1, <1>3
<1>4. ASSUME NEW j \in Jobs, WorkerStep(j) PROVE NoRowLost
  <2>1. CASE WFinalize(j)
    BY <1>1, <2>1 DEF WFinalize, Worker, Raise
  <2>2. CASE WTidyRows(j)
    BY <2>2 DEF WTidyRows, Worker, TryRevoke, RevokeRows, LeaveRows, NoRowLost, LateSignal, LateOK
  <2> QED
    BY <1>3, <1>4, <2>1, <2>2
    DEF WorkerStep, WInstall, WLoad, WPrepare, WHook, WDownloaded, WSetPostprocessing,
        WPublish, WCheckCancel, WComplete, WReturn, WTidyDirs, WFail, Goes, Raise
<1>5. ASSUME NEW j \in Jobs, PurgeMark(j) \/ CleanupExpire(j) \/ ThreadExpires(j)
      PROVE  NoRowLost
  BY <1>5 DEF PurgeMark, CleanupExpire, ThreadExpires, MarkExpired, RevokeRows, NoRowLost
<1>6. CASE Revoke
  BY <1>6 DEF Revoke, CurOK, TryRevoke, RevokeRows, LeaveRows, NoRowLost, SawUnfinished,
     ShutDown, SeenOK, KilledOK
<1>7. CASE ThreadRevokes
  BY <1>7 DEF ThreadRevokes, CurOK, TryRevoke, RevokeRows, LeaveRows, NoRowLost, SawUnfinished,
     SeenOK
<1>8. ASSUME NEW j \in Jobs, RecoverJob(j) PROVE NoRowLost
  BY <1>8 DEF RecoverJob, RecoverOK, Fruitless, TryRevoke, RevokeRows, LeaveRows, NoRowLost
<1>9. ASSUME NEW j \in Jobs, Api(j) PROVE NoRowLost
  BY <1>3, <1>5, <1>9 DEF Api, CreateJob, RequestCancel
<1>10. ASSUME NEW j \in Jobs, PurgeRemove(j) \/ LimitPasses(j) \/ GracePasses(j)
       PROVE  UNCHANGED rows
  BY <1>10 DEF PurgeRemove, LimitPasses, GracePasses, table
<1>11. ASSUME NEW j \in Jobs, TermArrives(j) \/ WorkerDies(j) PROVE NoRowLost
  <2>1. CASE LeaveRows(j)
    BY <1>1, <2>1 DEF LeaveRows
  <2> QED
    BY <1>2, <1>3, <1>11, <2>1 DEF TermArrives, WorkerDies, Kill
<1>12. CASE Exit \/ Crash \/ MonAlive \/ GraceEnd \/ StartFailed \/ ThreadFails
  BY <1>2, <1>3, <1>12 DEF Exit, Crash, Gone, MonAlive, GraceEnd, Kill, StartFailed, ThreadFails
<1>13. CASE Stop \/ Start \/ Fault \/ ThreadRemoves \/ ThreadEnds
  BY <1>3, <1>13 DEF Stop, Start, Fault, LoopRaises, ClaimRaises, StopTimesOut, LeaveLoop,
     Terminate, ThreadRemoves, ThreadEnds, table
<1>14. ASSUME NEW j \in Jobs, MonRead(j) \/ Claim(j) \/ EndJob(j) \/ ThreadClaims(j)
       PROVE  UNCHANGED rows
  BY <1>14 DEF MonRead, Claim, EndJob, ThreadClaims, table
<1>15. CASE \/ BeginPass \/ MonExited \/ Finish \/ RemoveFailed \/ MonEnd \/ Spawn \/ SetPid
            \/ SpawnRaises \/ FillEnd \/ CleanupRemove \/ CleanupEnd \/ GracePass \/ EndAll
            \/ RecoverRemove \/ Recovered
  BY <1>3, <1>15 DEF BeginPass, Terminate, MonExited, Finish, RemoveFailed, MonEnd, Spawn,
     SetPid, SpawnRaises, FillEnd, CleanupRemove, CleanupEnd, GracePass, EndAll, RecoverRemove,
     Recovered, table
<1> QED
  BY <1>3, <1>4, <1>5, <1>6, <1>7, <1>8, <1>9, <1>10, <1>11, <1>12, <1>13, <1>14, <1>15
  DEF Next, Step, Dispatch, ThreadStep

LEMMA InitLoss == Init => LossInv
<1> SUFFICES ASSUME Init PROVE LossInv
  OBVIOUS
<1>1. DrainOK /\ LateOK /\ SpawnOK /\ SeenOK /\ KilledOK /\ RecoverOK
  BY DEF Init, DrainOK, LateOK, SpawnOK, SeenOK, KilledOK, RecoverOK, NoCall
<1> QED
  BY <1>1, InitIInv DEF LossInv

\* The rows of a delivered job go only when it expires, when its worker handles a
\* SIGTERM that came after the commit, when the dispatcher (or a call it has left
\* behind) revokes what it had read as unfinished, or what _terminate_all has just
\* killed: a job whose row was read as ended is left alone, and the start of the
\* API process takes nothing from a delivered job, whatever workers have survived.
THEOREM LossesAreKnown == Spec => OnlyKnownLoss
<1>1. LossInv /\ [Next]_vars => LossInv'
  BY NextIInv, NextLate, NextSeen, NextRecovers DEF LossInv
<1>2. LossInv /\ [Next]_vars => [NoRowLost]_vars
  BY NextLosesNone
<1> QED
  BY <1>1, <1>2, InitLoss, PTL DEF Spec, OnlyKnownLoss, NoRowLost

-----------------------------------------------------------------------------
(***************************************************************************)
(* What is left behind.                                                    *)
(***************************************************************************)
\* Only a stop that has run out of time leaves a call behind, and only one.
BehindOK == thread # NoCall => stopEvent = "overrun"

\* A worker that has completed its job, and one that has not begun or has tidied up.
DoneOK == \A j \in Jobs : worker[j] = "done" => status[j] \in {"completed", "expired"}

NoRows(j)  == rows[j] # "ready"
NoFiles(j) == files[j] # "there"
EarlyBare == \A j \in Jobs : worker[j] \in {"none", "boot", "ready"} => NoRows(j) /\ NoFiles(j)
TidyBare  == \A j \in Jobs : /\ worker[j] \in {"h_dirs", "h_fail"} => NoRows(j)
                             /\ worker[j] = "h_fail" => NoFiles(j)

\* Worker states in which nobody need come back to the job's rows and files.
Calm(j) == worker[j] \in {"none", "boot", "ready", "done", "exited"}

\* The revocation of the job's rows is next on somebody's list.
Owed(j) == \/ cur = j /\ pc = "revoke"
           \/ thread.job = j /\ thread.at = "revoke"
           \/ j \in todo /\ pc \in {"recover", "recover_rm"}

\* What NoLeftovers says, of rows and files apart, and of every calm worker.
Swept == \A j \in Jobs : status[j] \in Fruitless /\ Calm(j)
                           => (NoRows(j) \/ Owed(j)) /\ (NoFiles(j) \/ j \in InHand)

Clean    == BehindOK /\ DoneOK /\ EarlyBare /\ TidyBare /\ Swept
CleanInv == IInv /\ SpawnOK /\ Clean

\* Nobody but the job's worker brings rows or files into being.
Barer == \A j \in Jobs : /\ NoRows(j) => rows'[j] # "ready"
                         /\ NoFiles(j) => files'[j] # "there"

LEMMA ForsakeBares ==
    ASSUME TypeOK, NEW S, Forsake(S)
    PROVE  /\ Barer
           /\ \A j \in Jobs : j \in S => NoRows(j)' /\ NoFiles(j)'
BY DEF TypeOK, Forsake, Barer, NoRows, NoFiles

LEMMA RevokeBares ==
    ASSUME TypeOK, NEW j \in Jobs, TryRevoke(j) \/ RevokeRows(j)
    PROVE  NoRows(j)' /\ \A k \in Jobs : NoRows(k) => NoRows(k)'
BY DEF TypeOK, TryRevoke, RevokeRows, LeaveRows, NoRows

LEMMA RemoveBares ==
    ASSUME TypeOK, NEW j \in Jobs, RemoveDirs(j)
    PROVE  NoFiles(j)' /\ \A k \in Jobs : NoFiles(k) => NoFiles(k)'
BY DEF TypeOK, RemoveDirs, NoFiles

LEMMA InitClean == Init => CleanInv
<1> SUFFICES ASSUME Init PROVE CleanInv
  OBVIOUS
<1>1. BehindOK /\ DoneOK /\ SpawnOK
  BY DEF Init, BehindOK, DoneOK, SpawnOK
<1>2. EarlyBare /\ TidyBare /\ Swept
  BY DEF Init, EarlyBare, TidyBare, Swept, NoRows, NoFiles
<1> QED
  BY <1>1, <1>2, InitIInv DEF CleanInv, Clean

\* A worker that is killed: what it has is tidied up by nobody, once its job has
\* ended without a result.
LEMMA KillSweeps ==
    ASSUME CleanInv, NEW S, End(S), NEW T, Forsake(T), Stranded(S) \subseteq T,
           UNCHANGED status
    PROVE  /\ DoneOK' /\ EarlyBare' /\ TidyBare'
           /\ \A j \in Jobs : status'[j] \in Fruitless /\ Calm(j)'
                                => \/ NoRows(j)' /\ NoFiles(j)'
                                   \/ Calm(j) /\ j \notin T
                                      /\ (NoRows(j) => NoRows(j)') /\ (NoFiles(j) => NoFiles(j)')
<1> USE DEF CleanInv, Clean, IInv, TypeOK
<1>1. \A j \in Jobs : worker'[j] = worker[j] \/ (worker'[j] = "exited" /\ j \in S /\ Live(j))
  BY DEF End
<1>2. DoneOK'
  BY <1>1 DEF DoneOK
<1>3. EarlyBare' /\ TidyBare'
  BY <1>1, ForsakeBares DEF EarlyBare, TidyBare, Barer, NoRows, NoFiles
<1>4. ASSUME NEW j \in Jobs, status'[j] \in Fruitless, Calm(j)'
      PROVE  \/ NoRows(j)' /\ NoFiles(j)'
             \/ Calm(j) /\ j \notin T
                /\ (NoRows(j) => NoRows(j)') /\ (NoFiles(j) => NoFiles(j)')
  <2>1. CASE j \in T
    BY <2>1, ForsakeBares
  <2>2. CASE j \notin T
    <3>1. worker'[j] = worker[j]
      BY <1>1, <1>4, <2>2 DEF Stranded
    <3> QED
      BY <1>4, <2>2, <3>1, ForsakeBares DEF Calm, Barer, NoRows, NoFiles
  <2> QED
    BY <2>1, <2>2
<1> QED
  BY <1>2, <1>3, <1>4

LEMMA WorkerCleans ==
    ASSUME CleanInv, NEW j \in Jobs, WorkerStep(j)
    PROVE  Clean'
<1> USE DEF CleanInv, Clean, IInv, TypeOK
<1>1. UNCHANGED <<pc, cur, todo, stopEvent, thread, purging>>
  BY DEF WorkerStep, loop, api
<1>2. \A k \in Jobs : Owed(k)' = Owed(k) /\ (k \in InHand)' = (k \in InHand)
  BY <1>1 DEF Owed, InHand
<1>3. BehindOK'
  BY <1>1 DEF BehindOK
<1> USE DEF Calm, NoRows, NoFiles
<1>4. CASE \/ WInstall(j) \/ WLoad(j) \/ WPrepare(j) \/ WHook(j) \/ WDownloaded(j) \/ WPublish(j)
           \/ WCheckCancel(j) \/ WReturn(j)
  <2> USE <1>4 DEF WInstall, WLoad, WPrepare, WHook, WDownloaded, WPublish, WCheckCancel,
          WReturn, Goes, Raise, Worker
  <2>1. DoneOK' /\ EarlyBare' /\ TidyBare'
    BY DEF DoneOK, EarlyBare, TidyBare
  <2>2. Swept'
    BY <1>2 DEF Swept, EarlyBare
  <2> QED
    BY <1>3, <2>1, <2>2
<1>5. CASE WSetPostprocessing(j) \/ WComplete(j)
  <2> USE <1>5 DEF WSetPostprocessing, WComplete, Raise, Worker
  <2>1. DoneOK' /\ EarlyBare' /\ TidyBare'
    BY DEF DoneOK, EarlyBare, TidyBare
  <2>2. Swept'
    BY <1>2 DEF Swept, Fruitless, Terminal
  <2> QED
    BY <1>3, <2>1, <2>2
<1>6. CASE WTidyRows(j)
  <2>1. /\ worker[j] = "h_rows" /\ worker' = [worker EXCEPT ![j] = "h_dirs"]
        /\ UNCHANGED <<status, files>>
        /\ NoRows(j)' /\ \A k \in Jobs : NoRows(k) => NoRows(k)'
    BY <1>6, RevokeBares DEF WTidyRows, Worker
  <2>2. DoneOK' /\ EarlyBare' /\ TidyBare'
    BY <2>1 DEF DoneOK, EarlyBare, TidyBare
  <2>3. Swept'
    BY <1>2, <2>1 DEF Swept
  <2> QED
    BY <1>3, <2>2, <2>3
<1>7. CASE WFinalize(j)
  <2> USE <1>7 DEF WFinalize, Raise, Worker
  <2>1. DoneOK' /\ EarlyBare' /\ TidyBare'
    BY DEF DoneOK, EarlyBare, TidyBare
  <2>2. Swept'
    BY <1>2 DEF Swept
  <2> QED
    BY <1>3, <2>1, <2>2
<1>9. CASE WTidyDirs(j)
  <2>1. /\ worker[j] = "h_dirs" /\ worker' = [worker EXCEPT ![j] = "h_fail"]
        /\ UNCHANGED <<status, rows>>
        /\ NoFiles(j)' /\ \A k \in Jobs : NoFiles(k) => NoFiles(k)'
    BY <1>9, RemoveBares DEF WTidyDirs, Worker
  <2>2. DoneOK' /\ EarlyBare' /\ TidyBare'
    BY <2>1 DEF DoneOK, EarlyBare, TidyBare
  <2>3. Swept'
    BY <1>2, <2>1 DEF Swept
  <2> QED
    BY <1>3, <2>2, <2>3
<1>8. CASE WFail(j)
  <2> USE <1>8 DEF WFail, Worker, FailJob
  <2>1. DoneOK' /\ EarlyBare' /\ TidyBare'
    BY DEF DoneOK, EarlyBare, TidyBare
  <2>2. Swept'
    BY <1>2 DEF Swept, TidyBare
  <2> QED
    BY <1>3, <2>1, <2>2
<1> QED
  BY <1>4, <1>5, <1>6, <1>7, <1>8, <1>9 DEF WorkerStep

LEMMA SignalCleans ==
    ASSUME CleanInv, NEW j \in Jobs, TermArrives(j) \/ WorkerDies(j)
    PROVE  Clean'
<1> USE DEF CleanInv, Clean, IInv, TypeOK
<1>1. UNCHANGED <<status, pc, cur, todo, stopEvent, thread, purging>>
  BY DEF TermArrives, WorkerDies, loop, api
<1>2. \A k \in Jobs : Owed(k)' = Owed(k) /\ (k \in InHand)' = (k \in InHand)
  BY <1>1 DEF Owed, InHand
<1>3. BehindOK'
  BY <1>1 DEF BehindOK
<1>4. CASE WorkerDies(j)
  <2>1. End({j}) /\ Forsake(Stranded({j}))
    BY <1>4 DEF WorkerDies, Kill
  <2>2. DoneOK' /\ EarlyBare' /\ TidyBare'
    BY <1>1, <2>1, KillSweeps
  <2>3. Swept'
    BY <1>1, <1>2, <2>1, KillSweeps DEF Swept
  <2> QED
    BY <1>3, <2>2, <2>3
<1>5. CASE TermArrives(j)
  <2>1. CASE worker[j] \in {"boot", "ready"} \cup Tidying /\ Interrupted(j, "exited")
             /\ Forsake(Stranded({j}))
    <3>1. /\ Barer
          /\ status[j] \in Fruitless => NoRows(j)' /\ NoFiles(j)'
      BY <2>1, ForsakeBares DEF Stranded, Live, Alive
    <3>2. worker' = [worker EXCEPT ![j] = "exited"]
      BY <2>1 DEF Interrupted
    <3>3. DoneOK' /\ EarlyBare' /\ TidyBare'
      BY <1>1, <3>1, <3>2 DEF DoneOK, EarlyBare, TidyBare, Barer, NoRows, NoFiles
    <3>4. Swept'
      BY <1>1, <1>2, <3>1, <3>2 DEF Swept, Calm, Barer, NoRows, NoFiles
    <3> QED
      BY <1>3, <3>3, <3>4
  <2>2. CASE worker[j] \in InTry /\ Interrupted(j, "h_rows") /\ UNCHANGED <<rows, files>>
    BY <1>1, <1>2, <1>3, <2>2
    DEF Interrupted, InTry, DoneOK, EarlyBare, TidyBare, Swept, Calm, NoRows, NoFiles
  <2>3. CASE worker[j] = "h_rows" /\ Interrupted(j, "h_dirs") /\ LeaveRows(j) /\ UNCHANGED files
    BY <1>1, <1>2, <1>3, <2>3
    DEF Interrupted, LeaveRows, DoneOK, EarlyBare, TidyBare, Swept, Calm, NoRows, NoFiles
  <2>4. CASE worker[j] = "h_dirs" /\ Interrupted(j, "h_dirs") /\ UNCHANGED <<rows, files>>
    BY <1>1, <1>2, <1>3, <2>4
    DEF Interrupted, DoneOK, EarlyBare, TidyBare, Swept, Calm, NoRows, NoFiles
  <2> QED
    BY <1>5, <2>1, <2>2, <2>3, <2>4 DEF TermArrives
<1> QED
  BY <1>4, <1>5

\* The API's handlers, the stop and the passing of time.
LEMMA ApiCleans ==
    ASSUME CleanInv, NEW j \in Jobs,
           \/ Api(j) \/ PurgeRemove(j) \/ LimitPasses(j) \/ GracePasses(j) \/ Stop
           \/ UNCHANGED vars
    PROVE  Clean'
<1> USE DEF CleanInv, Clean, IInv, TypeOK, process, table, api, loop
<1>1. CASE LimitPasses(j) \/ GracePasses(j) \/ UNCHANGED vars
  <2>1. UNCHANGED <<table, files, worker, pc, cur, todo, stopEvent, thread, purging>>
    BY <1>1 DEF LimitPasses, GracePasses, vars
  <2> QED
    BY <2>1 DEF BehindOK, DoneOK, EarlyBare, TidyBare, Swept, Calm, NoRows, NoFiles, Owed, InHand
<1>2. CASE Stop
  <2>1. UNCHANGED <<table, files, worker, pc, cur, todo, thread, purging>>
    BY <1>2 DEF Stop
  <2>2. BehindOK'
    BY <1>2, <2>1 DEF Stop, Serving, BehindOK
  <2> QED
    BY <2>1, <2>2 DEF DoneOK, EarlyBare, TidyBare, Swept, Calm, NoRows, NoFiles, Owed, InHand
<1>3. CASE CreateJob(j)
  BY <1>3 DEF CreateJob, BehindOK, DoneOK, EarlyBare, TidyBare, Swept, Fruitless, Terminal, Calm,
     NoRows, NoFiles, Owed, InHand
<1>4. CASE RequestCancel(j)
  <2>1. UNCHANGED <<rows, files, worker, pc, cur, todo, stopEvent, thread, purging>>
    BY <1>4 DEF RequestCancel
  <2>2. status[j] = "queued" => worker[j] = "none"
    BY DEF HoldersBegan, Begun
  <2>3. DoneOK'
    BY <1>4, <2>1 DEF RequestCancel, DoneOK, Active
  <2>4. Swept'
    BY <1>4, <2>1, <2>2
    DEF RequestCancel, Swept, EarlyBare, Fruitless, Terminal, Calm, NoRows, NoFiles, Owed, InHand
  <2> QED
    BY <2>1, <2>3, <2>4 DEF BehindOK, EarlyBare, TidyBare, NoRows, NoFiles
<1>5. CASE PurgeMark(j)
  <2>1. /\ UNCHANGED <<files, worker, pc, cur, todo, stopEvent, thread>>
        /\ purging' = purging \cup {j} /\ status' = [status EXCEPT ![j] = "expired"]
        /\ NoRows(j)' /\ \A k \in Jobs : NoRows(k) => NoRows(k)'
    BY <1>5, RevokeBares DEF PurgeMark, MarkExpired
  <2>2. DoneOK' /\ EarlyBare' /\ TidyBare'
    BY <2>1 DEF DoneOK, EarlyBare, TidyBare, NoFiles
  <2>3. Swept'
    BY <2>1 DEF Swept, Calm, NoFiles, Owed, InHand
  <2> QED
    BY <2>1, <2>2, <2>3 DEF BehindOK
<1>6. CASE PurgeRemove(j)
  <2>1. /\ UNCHANGED <<table, worker, pc, cur, todo, stopEvent, thread>>
        /\ purging' = purging \ {j}
        /\ NoFiles(j)' /\ \A k \in Jobs : NoFiles(k) => NoFiles(k)'
    BY <1>6, RemoveBares DEF PurgeRemove
  <2>2. DoneOK' /\ EarlyBare' /\ TidyBare'
    BY <2>1 DEF DoneOK, EarlyBare, TidyBare, NoRows
  <2>3. Swept'
    BY <2>1 DEF Swept, Calm, NoRows, Owed, InHand
  <2> QED
    BY <2>1, <2>2, <2>3 DEF BehindOK
<1> QED
  BY <1>1, <1>2, <1>3, <1>4, <1>5, <1>6 DEF Api

\* The dispatcher's steps that neither tidy up nor change a job's status.
LEMMA QuietCleans ==
    ASSUME CleanInv, UNCHANGED <<status, rows, files, worker, stopEvent, thread, purging>>,
           pc \notin {"revoke", "rmdirs", "exp_rm", "recover", "recover_rm"}
           \/ (pc = "recover" /\ todo = {}),
           pc' \notin {"recover", "recover_rm"}
    PROVE  Clean'
<1> USE DEF CleanInv, Clean
<1>1. BehindOK' /\ DoneOK' /\ EarlyBare' /\ TidyBare'
  BY DEF BehindOK, DoneOK, EarlyBare, TidyBare, NoRows, NoFiles
<1>2. Swept'
  BY DEF Swept, Calm, NoRows, NoFiles, Owed, InHand
<1> QED
  BY <1>1, <1>2

LEMMA DispatchCleans ==
    ASSUME CleanInv, Dispatch
    PROVE  Clean'
<1> DEFINE Goal == Clean'
<1> USE DEF CleanInv, Clean, IInv, TypeOK, CurOK, Goto, api, table, process
<1> NoJob \notin Jobs
  BY ConstantsAssumption
<1>1. CASE \/ BeginPass \/ MonExited \/ MonEnd \/ SetPid \/ SpawnRaises \/ FillEnd \/ CleanupEnd
           \/ GracePass \/ EndAll \/ Recovered \/ \E j \in Jobs : MonRead(j)
  <2>1. UNCHANGED <<status, rows, files, worker, stopEvent, thread, purging>>
    BY <1>1 DEF BeginPass, Terminate, MonExited, MonEnd, SetPid, SpawnRaises, FillEnd,
       CleanupEnd, GracePass, EndAll, Recovered, MonRead
  <2>2. /\ \/ pc \notin {"revoke", "rmdirs", "exp_rm", "recover", "recover_rm"}
           \/ pc = "recover" /\ todo = {}
        /\ pc' \notin {"recover", "recover_rm"}
    BY <1>1 DEF BeginPass, Terminate, MonExited, MonEnd, SetPid, SpawnRaises, FillEnd,
       CleanupEnd, GracePass, EndAll, Recovered, MonRead
  <2> QED
    BY <2>1, <2>2, QuietCleans
<1>2. CASE MonAlive \/ GraceEnd
  <2>1. /\ UNCHANGED <<status, stopEvent, thread, purging>>
        /\ pc \in {"check", "grace"} /\ pc' \in {"mon", "end"}
    BY <1>2 DEF MonAlive, GraceEnd
  <2>2. CASE UNCHANGED <<rows, files, worker>>
    BY <2>1, <2>2, QuietCleans
  <2>3. ASSUME NEW S, Kill(S) PROVE Goal
    <3>1. End(S) /\ Forsake(Stranded(S))
      BY <2>3 DEF Kill
    <3>2. DoneOK' /\ EarlyBare' /\ TidyBare'
      BY <2>1, <3>1, KillSweeps
    <3>3. Swept'
      BY <2>1, <3>1, KillSweeps DEF Swept, Owed, InHand
    <3> QED
      BY <2>1, <3>2, <3>3 DEF BehindOK
  <2> QED
    BY <1>2, <2>2, <2>3 DEF MonAlive, GraceEnd
<1>3. ASSUME Finish \/ \E j \in Jobs : EndJob(j) PROVE Goal
  <2>1. PICK j \in Jobs : /\ pc \in {"finish", "end"} /\ pc' = "revoke" /\ cur' = j
                          /\ \A k \in Jobs : k # j => status'[k] = status[k]
                          /\ status[j] \in {"completed", "expired"} => status'[j] = status[j]
                          /\ UNCHANGED <<rows, files, worker, stopEvent, thread, purging>>
    BY <1>3 DEF Finish, EndJob, FailJob
  <2>2. DoneOK' /\ EarlyBare' /\ TidyBare'
    BY <2>1 DEF DoneOK, EarlyBare, TidyBare, NoRows, NoFiles
  <2>3. Swept'
    BY <2>1 DEF Swept, Calm, NoRows, NoFiles, Owed, InHand
  <2> QED
    BY <2>1, <2>2, <2>3 DEF BehindOK
<1>4. CASE Revoke
  <2>1. /\ UNCHANGED <<status, files, worker, stopEvent, thread, purging, cur>>
        /\ pc = "revoke" /\ pc' = "rmdirs" /\ cur \in Jobs
        /\ NoRows(cur)' /\ \A k \in Jobs : NoRows(k) => NoRows(k)'
    BY <1>4, RevokeBares DEF Revoke
  <2>2. DoneOK' /\ EarlyBare' /\ TidyBare'
    BY <2>1 DEF DoneOK, EarlyBare, TidyBare, NoFiles
  <2>3. Swept'
    BY <2>1 DEF Swept, Calm, NoFiles, Owed, InHand
  <2> QED
    BY <2>1, <2>2, <2>3 DEF BehindOK
<1>5. CASE RemoveFailed \/ CleanupRemove \/ RecoverRemove
  <2>1. PICK j \in Jobs :
           /\ cur = j /\ RemoveDirs(j)
           /\ UNCHANGED <<table, worker, stopEvent, thread, purging>>
           /\ \/ pc \in {"rmdirs", "exp_rm"} /\ pc' \in {"end", "mon", "cleanup"}
              \/ pc = "recover_rm" /\ pc' = "recover" /\ UNCHANGED todo
    BY <1>5 DEF RemoveFailed, CleanupRemove, RecoverRemove, Resume
  <2>4. NoFiles(j)' /\ \A k \in Jobs : NoFiles(k) => NoFiles(k)'
    BY <2>1, RemoveBares
  <2>2. DoneOK' /\ EarlyBare' /\ TidyBare'
    BY <2>1, <2>4 DEF DoneOK, EarlyBare, TidyBare, NoRows
  <2>3. Swept'
    BY <2>1, <2>4 DEF Swept, Calm, NoRows, Owed, InHand
  <2> QED
    BY <2>1, <2>2, <2>3 DEF BehindOK
<1>6. CASE Spawn
  <2>1. /\ UNCHANGED <<status, rows, files, stopEvent, thread, purging>>
        /\ pc = "spawn" /\ pc' = "pid" /\ cur \in Jobs
        /\ worker[cur] = "none" /\ worker' = [worker EXCEPT ![cur] = "boot"]
    BY <1>6 DEF Spawn, SpawnOK
  <2>2. DoneOK' /\ EarlyBare' /\ TidyBare'
    BY <2>1 DEF DoneOK, EarlyBare, TidyBare, NoRows, NoFiles
  <2>3. Swept'
    BY <2>1 DEF Swept, EarlyBare, Calm, NoRows, NoFiles, Owed, InHand
  <2> QED
    BY <2>1, <2>2, <2>3 DEF BehindOK
<1>7. CASE StartFailed
  <2>1. PICK c \in Jobs :
           /\ cur = c /\ pc = "spawnfail" /\ pc' = "fill"
           /\ UNCHANGED <<worker, stopEvent, thread, purging>>
           /\ FailJob(c, "failed") /\ Forsake({c} \ {j \in Jobs : Live(j)})
    BY <1>7 DEF StartFailed
  <2>4. Barer /\ (~Live(c) => NoRows(c)' /\ NoFiles(c)')
    BY <2>1, ForsakeBares
  <2>5. /\ \A k \in Jobs : k # c => status'[k] = status[k]
        /\ status[c] \in {"completed", "expired"} => status'[c] = status[c]
    BY <2>1 DEF FailJob
  <2>2. DoneOK' /\ EarlyBare' /\ TidyBare'
    BY <2>1, <2>4, <2>5 DEF DoneOK, EarlyBare, TidyBare, Barer, NoRows, NoFiles
  <2>3. ASSUME NEW j \in Jobs, status'[j] \in Fruitless, Calm(j)'
        PROVE  (NoRows(j)' \/ Owed(j)') /\ (NoFiles(j)' \/ (j \in InHand)')
    <3>1. Calm(j) /\ (Owed(j) => Owed(j)') /\ (j \in InHand => (j \in InHand)')
      BY <2>1, <2>3 DEF Calm, Owed, InHand
    <3>2. CASE status[j] \in Fruitless
      BY <2>4, <3>1, <3>2 DEF Swept, Barer, NoRows, NoFiles
    <3>3. CASE status[j] \notin Fruitless
      <4>1. j = c
        BY <2>3, <2>5, <3>3
      <4>2. worker[j] # "done"
        BY <2>3, <2>5, <3>3, <4>1 DEF DoneOK, Fruitless, Terminal
      <4>3. CASE Live(j)
        <5>1. worker[j] \in {"boot", "ready"}
          BY <3>1, <4>2, <4>3 DEF Calm, Live, Alive, InTry, Tidying
        <5> QED
          BY <2>4, <5>1 DEF EarlyBare, Barer, NoRows, NoFiles
      <4> QED
        BY <2>4, <4>1, <4>3
    <3> QED
      BY <3>2, <3>3
  <2> QED
    BY <2>1, <2>2, <2>3 DEF BehindOK, Swept
<1>8. ASSUME NEW j \in Jobs, Claim(j) PROVE Goal
  <2>1. /\ UNCHANGED <<rows, files, worker, stopEvent, thread, purging>>
        /\ pc = "fill" /\ pc' = "spawn" /\ status' = [status EXCEPT ![j] = "running"]
        /\ worker[j] = "none"
    BY <1>8 DEF Claim, IsOldestQueued, HoldersBegan, Begun
  <2>2. DoneOK' /\ EarlyBare' /\ TidyBare'
    BY <2>1 DEF DoneOK, EarlyBare, TidyBare, NoRows, NoFiles
  <2>3. Swept'
    BY <2>1 DEF Swept, Fruitless, Terminal, Calm, NoRows, NoFiles, Owed, InHand
  <2> QED
    BY <2>1, <2>2, <2>3 DEF BehindOK
<1>9. ASSUME NEW j \in Jobs, CleanupExpire(j) PROVE Goal
  <2>1. /\ UNCHANGED <<files, worker, stopEvent, thread, purging>>
        /\ pc = "cleanup" /\ pc' = "exp_rm" /\ cur' = j
        /\ status' = [status EXCEPT ![j] = "expired"]
        /\ NoRows(j)' /\ \A k \in Jobs : NoRows(k) => NoRows(k)'
    BY <1>9, RevokeBares DEF CleanupExpire, MarkExpired
  <2>2. DoneOK' /\ EarlyBare' /\ TidyBare'
    BY <2>1 DEF DoneOK, EarlyBare, TidyBare, NoFiles
  <2>3. Swept'
    BY <2>1 DEF Swept, Calm, NoFiles, Owed, InHand
  <2> QED
    BY <2>1, <2>2, <2>3 DEF BehindOK
<1>10. ASSUME NEW j \in Jobs, RecoverJob(j) PROVE Goal
  <2>1. /\ UNCHANGED <<status, files, worker, stopEvent, thread, purging>>
        /\ pc = "recover" /\ pc' = "recover_rm" /\ cur' = j /\ todo' = todo \ {j}
        /\ NoRows(j)' /\ \A k \in Jobs : NoRows(k) => NoRows(k)'
    BY <1>10, RevokeBares DEF RecoverJob
  <2>2. DoneOK' /\ EarlyBare' /\ TidyBare'
    BY <2>1 DEF DoneOK, EarlyBare, TidyBare, NoFiles
  <2>3. Swept'
    BY <2>1 DEF Swept, Calm, NoFiles, Owed, InHand
  <2> QED
    BY <2>1, <2>2, <2>3 DEF BehindOK
<1> QED
  BY <1>1, <1>2, <1>3, <1>4, <1>5, <1>6, <1>7, <1>8, <1>9, <1>10 DEF Dispatch

LEMMA ThreadCleans ==
    ASSUME CleanInv, ThreadStep
    PROVE  Clean'
<1> DEFINE Goal == Clean'
<1> USE DEF CleanInv, Clean, IInv, TypeOK, CurOK, table, process, loop
<1> NoJob \notin Jobs
  BY ConstantsAssumption
<1>1. UNCHANGED <<worker, loop, stopEvent, purging>> /\ thread # NoCall
  <2>1. UNCHANGED <<worker, loop, stopEvent, purging>> /\ thread.at # "none"
    BY DEF ThreadStep, ThreadFails, ThreadRevokes, ThreadRemoves, ThreadEnds, ThreadClaims,
       ThreadExpires
  <2> QED
    BY <2>1 DEF NoCall
<1>2. BehindOK'
  BY <1>1 DEF BehindOK
<1>3. CASE ThreadFails
  <2>1. PICK j \in Jobs : /\ thread.at = "finish" /\ thread' = NoCall
                          /\ \A k \in Jobs : k # j => status'[k] = status[k]
                          /\ status[j] \in {"completed", "expired"} => status'[j] = status[j]
                          /\ Barer /\ NoRows(j)' /\ NoFiles(j)'
    BY <1>3, ForsakeBares DEF ThreadFails, FailJob
  <2>2. DoneOK' /\ EarlyBare' /\ TidyBare'
    BY <1>1, <2>1 DEF DoneOK, EarlyBare, TidyBare, Barer, NoRows, NoFiles
  <2>3. Swept'
    BY <1>1, <2>1 DEF Swept, Calm, Barer, NoRows, NoFiles, Owed, InHand
  <2> QED
    BY <1>2, <2>2, <2>3
<1>4. CASE ThreadRevokes
  <2>1. /\ UNCHANGED <<status, files>> /\ thread.job \in Jobs
        /\ thread.at = "revoke" /\ thread'.at = "rmdirs" /\ thread'.job = thread.job
        /\ NoRows(thread.job)' /\ \A k \in Jobs : NoRows(k) => NoRows(k)'
    <3>1. thread.job \in Jobs /\ UNCHANGED <<status, files>> /\ thread.at = "revoke"
          /\ thread'.at = "rmdirs" /\ thread'.job = thread.job
      BY <1>4 DEF ThreadRevokes
    <3>2. TryRevoke(thread.job)
      BY <1>4 DEF ThreadRevokes
    <3>3. rows'[thread.job] # "ready" /\ \A k \in Jobs : NoRows(k) => NoRows(k)'
      BY <3>1, <3>2 DEF TryRevoke, RevokeRows, LeaveRows, NoRows
    <3> QED
      BY <3>1, <3>3 DEF NoRows
  <2>2. DoneOK' /\ EarlyBare' /\ TidyBare'
    BY <1>1, <2>1 DEF DoneOK, EarlyBare, TidyBare, NoFiles
  <2>3. Swept'
    BY <1>1, <2>1 DEF Swept, Calm, NoRows, NoFiles, Owed, InHand
  <2> QED
    BY <1>2, <2>2, <2>3
<1>5. CASE ThreadRemoves
  <2>1. PICK j \in Jobs : /\ j = thread.job /\ UNCHANGED table
                          /\ thread.at \in {"rmdirs", "exp_rm"}
                          /\ NoFiles(j)' /\ \A k \in Jobs : NoFiles(k) => NoFiles(k)'
    BY <1>5, RemoveBares DEF ThreadRemoves
  <2>2. DoneOK' /\ EarlyBare' /\ TidyBare'
    BY <1>1, <2>1 DEF DoneOK, EarlyBare, TidyBare, NoRows
  <2>3. Swept'
    BY <1>1, <2>1 DEF Swept, Calm, NoRows, Owed, InHand
  <2> QED
    BY <1>2, <2>2, <2>3
<1>6. CASE ThreadEnds
  <2>1. UNCHANGED <<table, files>> /\ thread.at \in {"fill", "cleanup"}
    BY <1>6 DEF ThreadEnds
  <2> QED
    BY <1>1, <1>2, <2>1
    DEF DoneOK, EarlyBare, TidyBare, Swept, Calm, NoRows, NoFiles, Owed, InHand
<1>7. ASSUME NEW j \in Jobs, ThreadClaims(j) PROVE Goal
  <2>1. /\ UNCHANGED <<rows, files>> /\ thread.at = "fill"
        /\ status' = [status EXCEPT ![j] = "running"] /\ worker[j] = "none"
    BY <1>7 DEF ThreadClaims, IsOldestQueued, HoldersBegan, Begun
  <2> QED
    BY <1>1, <1>2, <2>1
    DEF DoneOK, EarlyBare, TidyBare, Swept, Fruitless, Terminal, Calm, NoRows, NoFiles, Owed,
        InHand
<1>8. ASSUME NEW j \in Jobs, ThreadExpires(j) PROVE Goal
  <2>1. /\ UNCHANGED files /\ thread.at = "cleanup"
        /\ thread'.at = "exp_rm" /\ thread'.job = j
        /\ status' = [status EXCEPT ![j] = "expired"]
        /\ NoRows(j)' /\ \A k \in Jobs : NoRows(k) => NoRows(k)'
    BY <1>8, RevokeBares DEF ThreadExpires, MarkExpired, NoCall
  <2>2. DoneOK' /\ EarlyBare' /\ TidyBare'
    BY <1>1, <2>1 DEF DoneOK, EarlyBare, TidyBare, NoFiles
  <2>3. Swept'
    BY <1>1, <2>1 DEF Swept, Calm, NoFiles, Owed, InHand
  <2> QED
    BY <1>2, <2>2, <2>3
<1> QED
  BY <1>3, <1>4, <1>5, <1>6, <1>7, <1>8 DEF ThreadStep

LEMMA FaultCleans ==
    ASSUME CleanInv, Fault
    PROVE  Clean'
<1> USE DEF CleanInv, Clean, Goto, api, table, process
<1>1. UNCHANGED <<status, rows, files, worker, purging>>
      /\ pc' \in {"grace", "halted", "cleanup"}
  BY DEF Fault, LoopRaises, ClaimRaises, StopTimesOut, LeaveLoop, Terminate
<1>2. CASE LoopRaises \/ ClaimRaises
  <2>1. pc \notin {"revoke", "rmdirs", "exp_rm", "recover", "recover_rm"}
        /\ UNCHANGED <<stopEvent, thread>>
    BY <1>2 DEF LoopRaises, ClaimRaises, LeaveLoop, Terminate
  <2> QED
    BY <1>1, <2>1, QuietCleans
<1>3. CASE StopTimesOut
  <2>1. /\ thread = NoCall /\ stopEvent' = "overrun" /\ pc \notin {"recover", "recover_rm"}
        /\ pc \in {"revoke", "rmdirs", "exp_rm"} => thread'.at = pc /\ thread'.job = cur
    BY <1>3 DEF StopTimesOut, Awaiting, BehindOK
  <2>2. BehindOK' /\ DoneOK' /\ EarlyBare' /\ TidyBare'
    BY <1>1, <2>1 DEF BehindOK, DoneOK, EarlyBare, TidyBare, NoRows, NoFiles
  <2>3. Swept'
    BY <1>1, <2>1 DEF Swept, Calm, NoRows, NoFiles, Owed, InHand, NoCall
  <2> QED
    BY <2>2, <2>3
<1> QED
  BY <1>2, <1>3 DEF Fault

LEMMA HostCleans ==
    ASSUME CleanInv, Host
    PROVE  Clean'
<1> USE DEF CleanInv, Clean, IInv, TypeOK, Goto, process, table
<1>1. CASE Gone
  <2>1. /\ UNCHANGED status /\ thread' = NoCall
        /\ Forsake(InHand \cup Stranded(IF WorkersOutliveApi THEN {} ELSE Jobs))
    BY <1>1 DEF Gone
  <2>2. CASE WorkersOutliveApi
    <3>1. Barer /\ UNCHANGED worker /\ \A j \in Jobs : j \in InHand => NoRows(j)' /\ NoFiles(j)'
      BY <1>1, <2>1, <2>2, ForsakeBares DEF Gone
    <3>2. DoneOK' /\ EarlyBare' /\ TidyBare'
      BY <2>1, <3>1 DEF DoneOK, EarlyBare, TidyBare, Barer, NoRows, NoFiles
    <3>3. \A j \in Jobs : Owed(j) => j \in InHand
      BY DEF Owed, InHand
    <3>4. Swept'
      BY <2>1, <3>1, <3>3 DEF Swept, Calm, Barer, NoRows, NoFiles
    <3> QED
      BY <2>1, <3>2, <3>4 DEF BehindOK
  <2>3. CASE ~WorkersOutliveApi
    <3>1. /\ End(Jobs) /\ Forsake(InHand \cup Stranded(Jobs))
          /\ Stranded(Jobs) \subseteq InHand \cup Stranded(Jobs)
      BY <1>1, <2>1, <2>3 DEF Gone
    <3>2. DoneOK' /\ EarlyBare' /\ TidyBare'
      BY <2>1, <3>1, KillSweeps
    <3>3. \A j \in Jobs : Owed(j) => j \in InHand
      BY DEF Owed, InHand
    <3>4. Swept'
      BY <2>1, <3>1, <3>3, KillSweeps DEF Swept
    <3> QED
      BY <2>1, <3>2, <3>4 DEF BehindOK
  <2> QED
    BY <2>2, <2>3
<1>2. CASE Start
  <2>1. /\ UNCHANGED <<rows, files, worker, stopEvent, thread, purging>>
        /\ pc = "down" /\ pc' = "recover"
        /\ \A j \in Jobs : status'[j] = status[j] \/ j \in todo'
        /\ \A j \in Jobs : status[j] \notin Active => status'[j] = status[j]
    BY <1>2 DEF Start, api
  <2>2. BehindOK' /\ DoneOK' /\ EarlyBare' /\ TidyBare'
    BY <2>1 DEF BehindOK, DoneOK, Active, EarlyBare, TidyBare, NoRows, NoFiles
  <2>3. Swept'
    BY <2>1 DEF Swept, Calm, NoRows, NoFiles, Owed, InHand
  <2> QED
    BY <2>2, <2>3
<1> QED
  BY <1>1, <1>2 DEF Host, Exit, Crash

\* Whoever ends a job without a result - its worker, the dispatcher after a worker
\* has died, at a shutdown, or at the next start, the client's cancellation, the
\* sweep - and whatever crashes, outlives whom or times out, the job's rows and
\* files are gone once its worker is gone and nobody is at it; only what a failing
\* revocation or removal, the death of the one at it, a worker killed after its job
\* was failed, the start of a worker that failed after it had died, and a stop that
\* ran out of time have left is there.  NoLeftovers alone is not inductive: it says
\* nothing of a worker that is still alive, nor of what a revocation still owes.
THEOREM NothingIsLeft == Spec => []NoLeftovers
<1>1. LossInv /\ Clean /\ [Next]_vars => (LossInv /\ Clean)'
  <2> SUFFICES ASSUME LossInv, Clean, [Next]_vars PROVE LossInv' /\ Clean'
    OBVIOUS
  <2>1. LossInv'
    BY NextIInv, NextLate, NextSeen, NextRecovers DEF LossInv
  <2>2. CleanInv
    BY DEF LossInv, CleanInv
  <2>3. ASSUME Aside PROVE Clean'
    <3>1. ASSUME NEW j \in Jobs, \/ Api(j) \/ PurgeRemove(j) \/ LimitPasses(j) \/ GracePasses(j)
                                 \/ Stop \/ UNCHANGED vars
          PROVE  Clean'
      BY <2>2, <3>1, ApiCleans
    <3>2. ASSUME Stop \/ UNCHANGED vars, Jobs = {} PROVE Clean'
      BY <2>2, <3>2 DEF Stop, vars, table, process, loop, api, CleanInv, Clean, BehindOK, Serving,
         DoneOK, EarlyBare, TidyBare, Swept
    <3> QED
      BY <2>2, <2>3, <3>1, <3>2, WorkerCleans, SignalCleans DEF Aside
  <2> QED
    BY <2>1, <2>2, <2>3, NextSplits, DispatchCleans, ThreadCleans, FaultCleans, HostCleans
<1>2. LossInv /\ Clean => NoLeftovers
  <2> SUFFICES ASSUME LossInv, Clean, NEW j \in Jobs, status[j] \in Fruitless, ~Live(j), j \notin InHand
               PROVE  files[j] # "there" /\ rows[j] # "ready"
    BY DEF NoLeftovers
  <2>1. ~Owed(j)
    BY DEF Owed, InHand
  <2>2. Calm(j)
    BY DEF LossInv, IInv, TypeOK, WorkerPCs, Live, Calm
  <2> QED
    BY <2>1, <2>2 DEF Clean, Swept, NoRows, NoFiles
<1>3. Init => LossInv /\ Clean
  BY InitLoss, InitClean DEF CleanInv
<1> QED
  BY <1>1, <1>2, <1>3, PTL DEF Spec
===============================================================================
