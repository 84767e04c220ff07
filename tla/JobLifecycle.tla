----------------------------- MODULE JobLifecycle -----------------------------
(***************************************************************************)
(* One download job, from the API request to its last file on disk, as the *)
(* API handlers, the dispatcher task and the worker processes drive it.    *)
(* They share the jobs and artifacts tables (every database.py method is   *)
(* one SQLite transaction, so one step here) and the job directories; the  *)
(* dispatcher reaches a worker only through signals and its exit code.     *)
(*                                                                         *)
(* Abstracted: ids, owners, urls, progress numbers, error codes; the S3    *)
(* side of an artifact and the analysis operations, which use the same     *)
(* slots; wall-clock time, of which only "limit passed" remains.           *)
(***************************************************************************)
EXTENDS Naturals, FiniteSets

CONSTANTS
    Jobs,               \* the jobs clients may submit
    NoJob,              \* value of `cur` when the dispatcher handles no job
    MaxConcurrent,      \* settings.max_concurrent_operations
    MaxStarts,          \* bound: starts of the API process
    SpawnFaults,        \* may starting a worker or recording its pid fail?
    TidyFaults,         \* may a revocation or the removal of a directory fail?
    LoopFaults,         \* bound: queries of the dispatcher loop that raise, stops that time out
    WorkersOutliveApi   \* do workers survive a crash of the API process?

ASSUME ConstantsAssumption ==
    /\ NoJob \notin Jobs
    /\ IsFiniteSet(Jobs)
    /\ MaxConcurrent \in Nat \ {0}
    /\ MaxStarts \in Nat
    /\ SpawnFaults \in BOOLEAN /\ TidyFaults \in BOOLEAN /\ WorkersOutliveApi \in BOOLEAN
    /\ LoopFaults \in Nat

VARIABLES
    status,      \* jobs.status, "absent" before the row exists
    cancelReq,   \* jobs.cancel_requested
    createdAt,   \* jobs.created_at, as the rank of the insertion
    rows,        \* the artifact rows: "none", "ready" (local ones are born ready), "left"
    files,       \* work/<job> and artifacts/<job>: "none", "there", "left"
    worker,      \* where the job's worker process is, "none" before it starts
    reason,      \* what the worker's exception handler will report
    sig,         \* a SIGTERM the worker has not handled yet
    pc, cur,     \* where the dispatcher is, and the job it handles there
    seen,        \* the row _monitor_running read for cur
    todo,        \* jobs the dispatcher's current pass has still to visit
    drain,       \* progress of _terminate_all
    running,     \* keys of Dispatcher.running
    clock,       \* age of each running operation
    stopEvent,   \* Dispatcher._stop_event, "overrun" once stop() has cancelled the task
    thread,      \* the call the cancelled task has left behind in its thread
    purging,     \* jobs a purge request has expired but not yet removed
    starts,      \* how often the API process was started
    faults       \* how many of LoopFaults have happened

table   == <<status, cancelReq, createdAt, rows>>
process == <<worker, reason, sig>>
loop    == <<pc, cur, seen, todo, drain, running, clock>>
api     == <<stopEvent, thread, purging, starts>>
vars    == <<table, files, process, loop, api, faults>>

-----------------------------------------------------------------------------
Active    == {"running", "postprocessing", "cancelling"}
Terminal  == {"completed", "failed", "cancelled", "expired"}
Fruitless == Terminal \ {"completed"}
Statuses  == {"absent", "queued"} \cup Active \cup Terminal

\* States of a worker process, in the order run_job passes through them.
Tidying   == {"h_rows", "h_dirs", "h_fail"}     \* run_job's except clauses
InTry     == {"prep", "run", "hook", "final", "publish", "check", "commit", "done"}
Alive     == {"boot", "ready"} \cup InTry \cup Tidying
WorkerPCs == {"none", "exited"} \cup Alive

PCs == {"down", "recover", "recover_rm", "loop", "mon", "check", "finish",
        "revoke", "rmdirs", "fill", "spawn", "pid", "spawnfail", "cleanup",
        "exp_rm", "grace", "end", "halted"}
Clocks == {"fresh", "late", "termed", "overdue"}
Unseen == [status |-> "absent", cancel |-> FALSE]
NoCall == [at |-> "none", job |-> NoJob, seen |-> Unseen]

Live(j)  == worker[j] \in Alive
\* The API answers requests between the lifespan's startup and its shutdown.
Serving  == pc \notin {"down", "recover", "recover_rm"} /\ stopEvent = "clear"

Goto(p, j) == pc' = p /\ cur' = j

TypeOK ==
    /\ status \in [Jobs -> Statuses]
    /\ cancelReq \in [Jobs -> BOOLEAN]
    /\ createdAt \in [Jobs -> Nat]
    /\ rows \in [Jobs -> {"none", "ready", "left"}]
    /\ files \in [Jobs -> {"none", "there", "left"}]
    /\ worker \in [Jobs -> WorkerPCs]
    /\ reason \in [Jobs -> {"none", "cancelled", "failed"}]
    /\ sig \in [Jobs -> BOOLEAN]
    /\ pc \in PCs
    /\ cur \in Jobs \cup {NoJob}
    /\ seen \in [status : Statuses, cancel : BOOLEAN]
    /\ todo \subseteq Jobs
    /\ drain \in {"no", "grace", "final"}
    /\ running \subseteq Jobs
    /\ clock \in [Jobs -> Clocks]
    /\ stopEvent \in {"clear", "set", "overrun"}
    /\ thread \in [at : {"none", "fill", "finish", "revoke", "rmdirs", "cleanup", "exp_rm"},
                    job : Jobs \cup {NoJob}, seen : [status : Statuses, cancel : BOOLEAN]]
    /\ purging \subseteq Jobs
    /\ starts \in 0 .. MaxStarts
    /\ faults \in 0 .. LoopFaults

Init ==
    /\ status = [j \in Jobs |-> "absent"]
    /\ cancelReq = [j \in Jobs |-> FALSE]
    /\ createdAt = [j \in Jobs |-> 0]
    /\ rows = [j \in Jobs |-> "none"]
    /\ files = [j \in Jobs |-> "none"]
    /\ worker = [j \in Jobs |-> "none"]
    /\ reason = [j \in Jobs |-> "none"]
    /\ sig = [j \in Jobs |-> FALSE]
    /\ pc = "down" /\ cur = NoJob
    /\ seen = Unseen
    /\ todo = {} /\ drain = "no" /\ running = {}
    /\ clock = [j \in Jobs |-> "fresh"]
    /\ stopEvent = "clear" /\ thread = NoCall
    /\ purging = {} /\ starts = 0 /\ faults = 0

-----------------------------------------------------------------------------
(***************************************************************************)
(* Transactions several callers share.                                     *)
(***************************************************************************)
\* Database.fail_job: only completed and expired jobs are left alone.
FailJob(j, s) ==
    status' = [status EXCEPT ![j] =
                 IF @ \in {"completed", "expired"} THEN @ ELSE s]

\* Database.revoke_job_artifacts: no guard on the job's status.
RevokeRows(j) == rows' = [rows EXCEPT ![j] = "none"]

\* Everybody who calls it passes over an exception and goes on with the
\* directories.  "left" is where the job is afterwards: it still has its rows,
\* and nobody owes it a revocation any more.
LeaveRows(j)  == rows' = [rows EXCEPT ![j] = IF @ = "none" THEN @ ELSE "left"]
TryRevoke(j) == RevokeRows(j) \/ (TidyFaults /\ LeaveRows(j))

\* Dispatcher._remove_job_directories, worker._cleanup_job's safe_rmtree: what
\* cannot be removed is passed over as well.
RemoveDirs(j) ==
    \E left \in IF TidyFaults THEN {"none", "left"} ELSE {"none"} :
        files' = [files EXCEPT ![j] = IF @ = "none" THEN @ ELSE left]

\* Those who were to tidy up the jobs in S will not come any more, or never were.
Forsake(S) ==
    /\ rows' = [j \in Jobs |-> IF j \in S /\ rows[j] = "ready" THEN "left" ELSE rows[j]]
    /\ files' = [j \in Jobs |-> IF j \in S /\ files[j] = "there" THEN "left" ELSE files[j]]

\* Database.mark_job_expired on a job that its callers found finished.
MarkExpired(j) ==
    /\ status[j] \in {"completed", "failed", "cancelled"}
    /\ status' = [status EXCEPT ![j] = "expired"]
    /\ RevokeRows(j)

-----------------------------------------------------------------------------
(***************************************************************************)
(* API handlers.                                                           *)
(***************************************************************************)
\* POST /jobs: Database.create_job inserts a queued row.
CreateJob(j) ==
    /\ Serving
    /\ status[j] = "absent"
    /\ status' = [status EXCEPT ![j] = "queued"]
    /\ createdAt' = [createdAt EXCEPT ![j] =
                       Cardinality({k \in Jobs : status[k] # "absent"})]
    /\ UNCHANGED <<cancelReq, rows, files, process, loop, api, faults>>

\* Mutant: request_cancel without its look at the status.
RequestCancelAny(j) ==
    /\ Serving
    /\ status[j] # "absent"
    /\ status' = [status EXCEPT ![j] = "cancelling"]
    /\ cancelReq' = [cancelReq EXCEPT ![j] = TRUE]
    /\ UNCHANGED <<createdAt, rows, files, process, loop, api, faults>>

\* DELETE /jobs/<id> on an unfinished job: Database.request_cancel.
RequestCancel(j) ==
    /\ Serving
    /\ status[j] \in Active \cup {"queued"}
    /\ status' = [status EXCEPT ![j] =
                    IF @ = "queued" THEN "cancelled" ELSE "cancelling"]
    /\ cancelReq' = [cancelReq EXCEPT ![j] = TRUE]
    /\ UNCHANGED <<createdAt, rows, files, process, loop, api, faults>>

\* DELETE /jobs/<id> on a finished job: Dispatcher.purge_job, which first
\* expires the row and then, in a second step, removes the directories.
PurgeMark(j) ==
    /\ Serving
    /\ MarkExpired(j)
    /\ purging' = purging \cup {j}
    /\ UNCHANGED <<cancelReq, createdAt, files, process, loop, stopEvent, thread, starts, faults>>

PurgeRemove(j) ==
    /\ j \in purging
    /\ RemoveDirs(j)
    /\ purging' = purging \ {j}
    /\ UNCHANGED <<table, process, loop, stopEvent, thread, starts, faults>>

-----------------------------------------------------------------------------
(***************************************************************************)
(* The worker process of job j: main, run_job, YtDlpService.download.      *)
(***************************************************************************)
Worker(j, from, to) == worker[j] = from /\ worker' = [worker EXCEPT ![j] = to]

\* Mutant: the handler does not learn which exception it handles.
RaiseUnexplained(j, from, r) ==
    /\ Worker(j, from, "h_rows")
    /\ UNCHANGED <<status, rows, files, reason>>

\* An exception leaves run_job's try block: its handler takes over.
Raise(j, from, r) ==
    /\ Worker(j, from, "h_rows")
    /\ reason' = [reason EXCEPT ![j] = r]
    /\ UNCHANGED <<status, rows, files>>

Goes(j, from, to) == Worker(j, from, to) /\ UNCHANGED <<status, rows, files, reason>>

\* main installs the signal handlers, then run_job loads the job context.
WInstall(j) == Goes(j, "boot", "ready")

WLoad(j) == Goes(j, "ready", IF status[j] \in {"running", "cancelling"}
                             THEN "prep" ELSE "exited")

\* download: a last look at the flag, then fresh directories.
WPrepare(j) ==
    \/ cancelReq[j] /\ Raise(j, "prep", "cancelled")
    \/ Raise(j, "prep", "failed")
    \/ /\ ~cancelReq[j]
       /\ Worker(j, "prep", "run")
       /\ files' = [files EXCEPT ![j] = "there"]
       /\ UNCHANGED <<status, rows, reason>>

\* Every hook yt-dlp calls polls the flag first; the one of a finished stream
\* goes on to make the job postprocessing, in a second transaction.
WHook(j) ==
    \/ cancelReq[j] /\ Raise(j, "run", "cancelled")
    \/ ~cancelReq[j] /\ Goes(j, "run", "hook")

\* The download ends with an error, or well and without a cancel request.
WDownloaded(j) ==
    \/ Raise(j, "run", "failed")
    \/ ~cancelReq[j] /\ Goes(j, "run", "final")

\* Mutant: set_job_postprocessing without its status condition.
WSetPostprocessingAlways(j) ==
    /\ Worker(j, "hook", "run")
    /\ status' = [status EXCEPT ![j] = "postprocessing"]
    /\ UNCHANGED <<rows, files, reason>>

\* Database.set_job_postprocessing: takes a cancelling job back, too.
WSetPostprocessing(j) ==
    \/ Raise(j, "hook", "failed")
    \/ /\ Worker(j, "hook", "run")
       /\ status' = [status EXCEPT ![j] =
                       IF @ \in {"running", "cancelling"} THEN "postprocessing" ELSE @]
       /\ UNCHANGED <<rows, files, reason>>

\* _finalize_artifacts: moves the files and inserts their rows.
WFinalize(j) ==
    \/ Raise(j, "final", "failed")
    \/ /\ files[j] # "none"
       /\ Worker(j, "final", "publish")
       /\ rows' = [rows EXCEPT ![j] = "ready"]
       /\ UNCHANGED <<status, files, reason>>

\* publish_job_artifacts: with S3 it polls the flag again, and it may fail.
\* What it does to the rows and objects is the subject of ArtifactStore.
WPublish(j) ==
    \/ cancelReq[j] /\ Raise(j, "publish", "cancelled")
    \/ Raise(j, "publish", "failed")
    \/ Goes(j, "publish", "check")

\* run_job polls the flag once more, outside complete_job's transaction.
WCheckCancel(j) ==
    \/ cancelReq[j] /\ Raise(j, "check", "cancelled")
    \/ Raise(j, "check", "failed")
    \/ ~cancelReq[j] /\ Goes(j, "check", "commit")

\* Mutant: complete_job accepts a cancelling job, as set_job_postprocessing does.
WCompleteCancelling(j) ==
    \/ /\ rows[j] # "none" /\ status[j] \in Active
       /\ Worker(j, "commit", "done")
       /\ status' = [status EXCEPT ![j] = "completed"]
       /\ UNCHANGED <<rows, files, reason>>
    \/ Raise(j, "commit", "failed")

\* Database.complete_job; it raises when the job may not complete, and it may
\* raise before its COMMIT anyway.
WComplete(j) ==
    \/ /\ rows[j] # "none" /\ status[j] \in {"running", "postprocessing"}
       /\ Worker(j, "commit", "done")
       /\ status' = [status EXCEPT ![j] = "completed"]
       /\ UNCHANGED <<rows, files, reason>>
    \/ Raise(j, "commit", "failed")

WReturn(j) == Goes(j, "done", "exited")

\* _cleanup_job and the fail_job that follows it.
WTidyRows(j) ==
    Worker(j, "h_rows", "h_dirs") /\ TryRevoke(j) /\ UNCHANGED <<status, files, reason>>
WTidyDirs(j) ==
    Worker(j, "h_dirs", "h_fail") /\ RemoveDirs(j) /\ UNCHANGED <<status, rows, reason>>
WFail(j) ==
    Worker(j, "h_fail", "exited") /\ FailJob(j, reason[j]) /\ UNCHANGED <<rows, files, reason>>

WorkerStep(j) ==
    /\ \/ WInstall(j) \/ WLoad(j) \/ WPrepare(j) \/ WHook(j) \/ WDownloaded(j)
       \/ WSetPostprocessing(j) \/ WFinalize(j) \/ WPublish(j) \/ WCheckCancel(j)
       \/ WComplete(j) \/ WReturn(j)
       \/ WTidyRows(j) \/ WTidyDirs(j) \/ WFail(j)
    /\ sig' = [sig EXCEPT ![j] = @ /\ worker'[j] # "exited"]
    /\ UNCHANGED <<cancelReq, createdAt, loop, api, faults>>

\* A worker that is killed tidies nothing up, and if its job has ended already
\* (as failed at a start or for want of a recorded pid), nobody else will.
Stranded(S) == {j \in S : Live(j) /\ status[j] \in Fruitless}

End(S)  == /\ worker' = [j \in Jobs |-> IF j \in S /\ Live(j) THEN "exited" ELSE worker[j]]
           /\ sig' = [j \in Jobs |-> sig[j] /\ j \notin S]
Kill(S) == End(S) /\ Forsake(Stranded(S))

\* SIGTERM reaches Python: the default action before main installs the
\* handler; a WorkerCancelled that nobody catches before run_job's try block,
\* in the last calls of its handler and between two calls of _cleanup_job;
\* WorkerCancelled in the try block, wherever it is; and one that the
\* `except Exception` around _cleanup_job's first two calls swallows, which
\* takes the first of them back.
Interrupted(j, to) ==
    /\ worker' = [worker EXCEPT ![j] = to]
    /\ reason' = [reason EXCEPT ![j] = IF to = "h_rows" THEN "cancelled" ELSE @]

TermArrives(j) ==
    /\ sig[j]
    /\ sig' = [sig EXCEPT ![j] = FALSE]
    /\ \/ /\ worker[j] \in {"boot", "ready"} \cup Tidying
          /\ Interrupted(j, "exited") /\ Forsake(Stranded({j}))
       \/ worker[j] \in InTry /\ Interrupted(j, "h_rows") /\ UNCHANGED <<rows, files>>
       \/ worker[j] = "h_rows" /\ Interrupted(j, "h_dirs") /\ LeaveRows(j) /\ UNCHANGED files
       \/ worker[j] = "h_dirs" /\ Interrupted(j, "h_dirs") /\ UNCHANGED <<rows, files>>
    /\ UNCHANGED <<status, cancelReq, createdAt, loop, api, faults>>

\* The process dies on its own: it crashes, or the OOM killer takes it.
WorkerDies(j) ==
    /\ Live(j)
    /\ Kill({j})
    /\ UNCHANGED <<status, cancelReq, createdAt, reason, loop, api, faults>>

-----------------------------------------------------------------------------
(***************************************************************************)
(* The dispatcher task: _run_loop and what it calls.                       *)
(***************************************************************************)
Fresh(S)  == clock' = [j \in Jobs |-> IF j \in S THEN "fresh" ELSE clock[j]]
Signal(S) == sig' = [j \in Jobs |-> sig[j] \/ (j \in S /\ Live(j))]

\* Once a job is dealt with, _monitor_running goes on with the next one and
\* _terminate_all with the next one it killed.
Resume == Goto(IF drain = "final" THEN "end" ELSE "mon", NoJob) /\ seen' = Unseen

\* _terminate_all starts with a SIGTERM for every operation.
Terminate ==
    /\ drain' = "grace"
    /\ Signal(running)
    /\ Goto("grace", NoJob)
    /\ todo' = {} /\ seen' = Unseen
    /\ UNCHANGED <<table, files, worker, reason, running, clock>>

BeginPass ==
    /\ pc = "loop"
    /\ IF stopEvent # "clear" THEN Terminate /\ UNCHANGED <<api, faults>>
       ELSE /\ todo' = running
            /\ Goto("mon", NoJob)
            /\ UNCHANGED <<table, files, process, seen, drain, running, clock, api, faults>>

\* _monitor_running: the row is read in a thread; only afterwards, in another
\* step, does the dispatcher look whether the process has exited.
MonRead(j) ==
    /\ pc = "mon" /\ j \in todo
    /\ Goto("check", j)
    /\ seen' = [status |-> status[j], cancel |-> cancelReq[j]]
    /\ todo' = todo \ {j}
    /\ UNCHANGED <<table, files, process, drain, running, clock, api, faults>>

\* Mutant: a job being cancelled is thought to be the worker's own affair.
MonExitedTrusting ==
    /\ pc = "check" /\ worker[cur] = "exited"
    /\ running' = running \ {cur}
    /\ Fresh({cur})
    /\ IF seen.status \in Terminal \/ seen.cancel
       THEN Goto("mon", NoJob) /\ seen' = Unseen
       ELSE Goto("finish", cur) /\ UNCHANGED seen
    /\ UNCHANGED <<table, files, process, todo, drain, api, faults>>

\* Mutant: what the row says of the end is not looked at.
MonExitedUnchecked ==
    /\ pc = "check" /\ worker[cur] = "exited"
    /\ running' = running \ {cur}
    /\ Fresh({cur})
    /\ Goto("finish", cur)
    /\ UNCHANGED <<table, files, process, seen, todo, drain, api, faults>>

\* Mutant: a worker that reported its own end keeps its slot.
MonExitedKeepsSlot ==
    /\ pc = "check" /\ worker[cur] = "exited"
    /\ IF seen.status \in Terminal
       THEN Goto("mon", NoJob) /\ seen' = Unseen /\ UNCHANGED <<running, clock>>
       ELSE /\ Goto("finish", cur) /\ UNCHANGED seen
            /\ running' = running \ {cur} /\ Fresh({cur})
    /\ UNCHANGED <<table, files, process, todo, drain, api, faults>>

\* The exited branch, up to the decision _finish_operation makes on the row
\* that was read before.
MonExited ==
    /\ pc = "check" /\ worker[cur] = "exited"
    /\ running' = running \ {cur}
    /\ Fresh({cur})
    /\ IF seen.status \in Terminal
       THEN Goto("mon", NoJob) /\ seen' = Unseen
       ELSE Goto("finish", cur) /\ UNCHANGED seen
    /\ UNCHANGED <<table, files, process, todo, drain, api, faults>>

\* Mutant: no SIGKILL after the grace period.
MonAliveNoKill ==
    /\ pc = "check" /\ worker[cur] # "exited"
    /\ IF clock[cur] = "late" \/ (clock[cur] = "fresh" /\ seen.cancel)
       THEN Signal({cur}) /\ clock' = [clock EXCEPT ![cur] = "termed"]
       ELSE UNCHANGED <<sig, clock>>
    /\ Goto("mon", NoJob) /\ seen' = Unseen
    /\ UNCHANGED <<table, files, worker, reason, todo, drain, running, api, faults>>

\* SIGTERM once, for a cancel request or a passed time limit; SIGKILL when
\* the grace period after it has passed.
MonAlive ==
    /\ pc = "check" /\ worker[cur] # "exited"
    /\ \/ /\ clock[cur] = "late" \/ (clock[cur] = "fresh" /\ seen.cancel)
          /\ Signal({cur})
          /\ clock' = [clock EXCEPT ![cur] = "termed"]
          /\ UNCHANGED <<worker, rows, files>>
       \/ clock[cur] = "overdue" /\ Kill({cur}) /\ UNCHANGED clock
       \/ /\ clock[cur] = "termed" \/ (clock[cur] = "fresh" /\ ~seen.cancel)
          /\ UNCHANGED <<worker, sig, rows, files, clock>>
    /\ Goto("mon", NoJob) /\ seen' = Unseen
    /\ UNCHANGED <<status, cancelReq, createdAt, reason, todo, drain, running, api, faults>>

\* The rest of _finish_operation: fail the job, then _revoke_failed_job_artifacts.
Finish ==
    /\ pc = "finish"
    /\ FailJob(cur, IF seen.cancel THEN "cancelled" ELSE "failed")
    /\ Goto("revoke", cur)
    /\ UNCHANGED <<cancelReq, createdAt, rows, files, process, seen, todo, drain, running,
                   clock, api, faults>>

\* Mutant: the rows are revoked, the directories forgotten.
RevokeRowsOnly ==
    /\ pc = "revoke"
    /\ TryRevoke(cur)
    /\ Resume
    /\ UNCHANGED <<status, cancelReq, createdAt, files, process, todo, drain, running,
                   clock, api, faults>>

Revoke ==
    /\ pc = "revoke"
    /\ TryRevoke(cur)
    /\ Goto("rmdirs", cur)
    /\ UNCHANGED <<status, cancelReq, createdAt, files, process, seen, todo, drain, running,
                   clock, api, faults>>

RemoveFailed ==
    /\ pc = "rmdirs"
    /\ RemoveDirs(cur)
    /\ Resume
    /\ UNCHANGED <<table, process, todo, drain, running, clock, api, faults>>

MonEnd ==
    /\ pc = "mon" /\ todo = {}
    /\ Goto(IF drain = "grace" THEN "grace" ELSE "fill", NoJob)
    /\ UNCHANGED <<table, files, process, seen, todo, drain, running, clock, api, faults>>

\* Mutant: a claim that does not count the operations in progress.
ClaimUncounted(j) ==
    /\ pc = "fill"
    /\ status[j] = "queued"
    /\ status' = [status EXCEPT ![j] = "running"]
    /\ Goto("spawn", j)
    /\ UNCHANGED <<cancelReq, createdAt, rows, files, process, seen, todo, drain, running,
                   clock, api, faults>>

\* Database.claim_next_operation takes the queued job that was created first.
IsOldestQueued(j) ==
    /\ status[j] = "queued"
    /\ \A k \in Jobs : status[k] = "queued" => createdAt[j] <= createdAt[k]

\* _fill_available_slots leases one job after the other while a slot is free.
Claim(j) ==
    /\ pc = "fill"
    /\ Cardinality(running) < MaxConcurrent
    /\ IsOldestQueued(j)
    /\ status' = [status EXCEPT ![j] = "running"]
    /\ Goto("spawn", j)
    /\ UNCHANGED <<cancelReq, createdAt, rows, files, process, seen, todo, drain, running,
                   clock, api, faults>>

\* _spawn: the process starts and is registered, then its pid is recorded.
Spawn ==
    /\ pc = "spawn"
    /\ worker' = [worker EXCEPT ![cur] = "boot"]
    /\ running' = running \cup {cur}
    /\ Fresh({cur})
    /\ Goto("pid", cur)
    /\ UNCHANGED <<table, files, reason, sig, seen, todo, drain, api, faults>>

SetPid ==
    /\ pc = "pid"
    /\ Goto("fill", NoJob)
    /\ UNCHANGED <<table, files, process, seen, todo, drain, running, clock, api, faults>>

\* Either call of _spawn raises; the handler fails the job and tidies nothing up.
SpawnRaises ==
    /\ SpawnFaults
    /\ pc \in {"spawn", "pid"}
    /\ Goto("spawnfail", cur)
    /\ UNCHANGED <<table, files, process, seen, todo, drain, running, clock, api, faults>>

StartFailed ==
    /\ pc = "spawnfail"
    /\ FailJob(cur, "failed")
    /\ Forsake({cur} \ {j \in Jobs : Live(j)})
    /\ Goto("fill", NoJob)
    /\ UNCHANGED <<cancelReq, createdAt, process, seen, todo, drain, running, clock, api,
                   faults>>

\* No free slot, or nothing queued.
FillEnd ==
    /\ pc = "fill"
    /\ \/ Cardinality(running) >= MaxConcurrent
       \/ \A j \in Jobs : status[j] # "queued"
    /\ Goto("cleanup", NoJob)
    /\ UNCHANGED <<table, files, process, seen, todo, drain, running, clock, api, faults>>

\* cleanup: a job past its TTL, or one the storage limit evicts, is expired
\* and then its directories are removed; the loop comes here now and then.
CleanupExpire(j) ==
    /\ pc = "cleanup"
    /\ MarkExpired(j)
    /\ Goto("exp_rm", j)
    /\ UNCHANGED <<cancelReq, createdAt, files, process, seen, todo, drain, running, clock,
                   api, faults>>

CleanupRemove ==
    /\ pc = "exp_rm"
    /\ RemoveDirs(cur)
    /\ Goto("cleanup", NoJob)
    /\ UNCHANGED <<table, process, seen, todo, drain, running, clock, api, faults>>

CleanupEnd ==
    /\ pc = "cleanup"
    /\ Goto("loop", NoJob)
    /\ UNCHANGED <<table, files, process, seen, todo, drain, running, clock, api, faults>>

-----------------------------------------------------------------------------
(***************************************************************************)
(* _terminate_all: after the SIGTERMs, monitoring passes until the grace   *)
(* period ends, then SIGKILL for the rest, each failed and revoked without *)
(* looking at its row.                                                     *)
(***************************************************************************)
GracePass ==
    /\ pc = "grace" /\ running # {}
    /\ todo' = running
    /\ Goto("mon", NoJob)
    /\ UNCHANGED <<table, files, process, seen, drain, running, clock, api, faults>>

GraceEnd ==
    /\ pc = "grace"
    /\ Kill(running)
    /\ drain' = "final"
    /\ todo' = running
    /\ Goto("end", NoJob)
    /\ UNCHANGED <<status, cancelReq, createdAt, reason, seen, running, clock, api, faults>>

EndJob(j) ==
    /\ pc = "end" /\ j \in todo
    /\ FailJob(j, "failed")
    /\ todo' = todo \ {j}
    /\ Goto("revoke", j)
    /\ UNCHANGED <<cancelReq, createdAt, rows, files, process, seen, drain, running, clock,
                   api, faults>>

EndAll ==
    /\ pc = "end" /\ todo = {}
    /\ running' = {} /\ Fresh(running)
    /\ drain' = "no"
    /\ Goto("halted", NoJob)
    /\ UNCHANGED <<table, files, process, seen, todo, api, faults>>

\* An exception that leaves _run_loop's body runs _terminate_all, too, and
\* one that leaves _terminate_all ends the task; nobody restarts it.
LeaveLoop ==
    IF drain = "no" THEN Terminate
    ELSE /\ Goto("halted", NoJob)
         /\ todo' = {} /\ seen' = Unseen /\ drain' = "no"
         /\ UNCHANGED <<table, files, process, running, clock>>

\* operation_state, fail_job or a query of the clean-up raises.
LoopRaises ==
    /\ \/ pc \in {"mon", "end"} /\ todo # {}
       \/ pc \in {"finish", "spawnfail", "cleanup"}
    /\ LeaveLoop
    /\ UNCHANGED api

\* _fill_available_slots swallows what claim_next_operation raises.
ClaimRaises ==
    /\ pc = "fill" /\ Cardinality(running) < MaxConcurrent
    /\ Goto("cleanup", NoJob)
    /\ UNCHANGED <<table, files, process, seen, todo, drain, running, clock, api>>

\* Where the dispatcher task waits, and so where a cancellation finds it.
Awaiting ==
    \/ pc \in {"loop", "finish", "spawn", "pid", "cleanup", "exp_rm", "grace"}
    \/ pc \in {"mon", "end"} /\ todo # {}
    \/ pc \in {"revoke", "rmdirs"} /\ drain # "final"
    \/ pc = "fill" /\ Cardinality(running) < MaxConcurrent

\* Dispatcher.stop gives up waiting and cancels the task, which leaves its loop
\* or _terminate_all at once; a call it had in a thread runs on without it.
StopTimesOut ==
    /\ stopEvent = "set" /\ Awaiting
    /\ stopEvent' = "overrun"
    /\ thread' = IF pc \in {"fill", "finish", "revoke", "rmdirs", "cleanup", "exp_rm"}
                 THEN [at |-> pc, job |-> cur, seen |-> seen] ELSE NoCall
    /\ LeaveLoop
    /\ UNCHANGED <<purging, starts>>

Fault == /\ faults < LoopFaults
         /\ faults' = faults + 1
         /\ \/ LoopRaises
            \/ ClaimRaises
            \/ StopTimesOut

\* The call left behind: a claim nobody spawns, a job failed without the
\* revocation that should follow, a revocation, a clean-up.
ThreadClaims(j) ==
    /\ thread.at = "fill"
    /\ IsOldestQueued(j)
    /\ status' = [status EXCEPT ![j] = "running"]
    /\ thread' = NoCall
    /\ UNCHANGED <<cancelReq, createdAt, rows, files, process, loop, stopEvent, purging,
                   starts, faults>>

ThreadFails ==
    /\ thread.at = "finish"
    /\ FailJob(thread.job, IF thread.seen.cancel THEN "cancelled" ELSE "failed")
    /\ Forsake({thread.job})
    /\ thread' = NoCall
    /\ UNCHANGED <<cancelReq, createdAt, process, loop, stopEvent, purging, starts, faults>>

ThreadRevokes ==
    /\ thread.at = "revoke"
    /\ TryRevoke(thread.job)
    /\ thread' = [thread EXCEPT !.at = "rmdirs"]
    /\ UNCHANGED <<status, cancelReq, createdAt, files, process, loop, stopEvent, purging,
                   starts, faults>>

ThreadRemoves ==
    /\ thread.at \in {"rmdirs", "exp_rm"}
    /\ RemoveDirs(thread.job)
    /\ thread' = IF thread.at = "rmdirs" THEN NoCall
                 ELSE [NoCall EXCEPT !.at = "cleanup"]
    /\ UNCHANGED <<table, process, loop, stopEvent, purging, starts, faults>>

ThreadExpires(j) ==
    /\ thread.at = "cleanup"
    /\ MarkExpired(j)
    /\ thread' = [NoCall EXCEPT !.at = "exp_rm", !.job = j]
    /\ UNCHANGED <<cancelReq, createdAt, files, process, loop, stopEvent, purging, starts,
                   faults>>

ThreadEnds ==
    /\ thread.at \in {"fill", "cleanup"}
    /\ thread.at = "fill" => \A j \in Jobs : status[j] # "queued"
    /\ thread' = NoCall
    /\ UNCHANGED <<table, files, process, loop, stopEvent, purging, starts, faults>>

ThreadStep ==
    \/ ThreadFails \/ ThreadRevokes \/ ThreadRemoves \/ ThreadEnds
    \/ \E j \in Jobs : ThreadClaims(j) \/ ThreadExpires(j)

-----------------------------------------------------------------------------
(***************************************************************************)
(* The life of the API process, and the passing of time.                   *)
(***************************************************************************)
\* The lifespan shutdown sets the stop event once the requests are answered.
\* systemd stops a control group: its SIGTERM may reach the workers as well.
Stop ==
    /\ Serving /\ purging = {}
    /\ starts < MaxStarts
    /\ stopEvent' = "set"
    /\ \E S \in {{}, Jobs} : Signal(S)
    /\ UNCHANGED <<table, files, worker, reason, loop, thread, purging, starts, faults>>

\* Jobs somebody of the API process is tidying up, who will not come back: the
\* next start looks for unfinished jobs only.
InHand ==
    LET hand == {"revoke", "rmdirs", "exp_rm", "recover_rm"}
    IN  {j \in Jobs : \/ j \in purging
                      \/ cur = j /\ pc \in hand
                      \/ thread.job = j /\ thread.at \in hand
                      \/ j \in todo /\ pc \in {"recover", "recover_rm"}}

\* The process is gone; so is everything it kept in memory.
Gone ==
    /\ Goto("down", NoJob)
    /\ seen' = Unseen /\ todo' = {} /\ drain' = "no" /\ running' = {}
    /\ clock' = [j \in Jobs |-> "fresh"]
    /\ stopEvent' = "clear" /\ thread' = NoCall /\ purging' = {}
    /\ IF WorkersOutliveApi THEN UNCHANGED <<worker, sig>> ELSE End(Jobs)
    /\ Forsake(InHand \cup Stranded(IF WorkersOutliveApi THEN {} ELSE Jobs))
    /\ UNCHANGED <<status, cancelReq, createdAt, reason, starts, faults>>

\* The interpreter waits for its threads before it ends.
Exit == pc = "halted" /\ stopEvent # "clear" /\ thread = NoCall /\ Gone

Crash == pc # "down" /\ starts < MaxStarts /\ Gone

\* Dispatcher.start: Database.reconcile_interrupted, then every interrupted
\* job is revoked and its directories removed before requests are served.
Start ==
    /\ pc = "down"
    /\ starts < MaxStarts
    /\ starts' = starts + 1
    /\ status' = [j \in Jobs |-> IF status[j] \in Active THEN "failed" ELSE status[j]]
    /\ todo' = {j \in Jobs : status[j] \in Active}
    /\ Goto("recover", NoJob)
    /\ UNCHANGED <<cancelReq, createdAt, rows, files, process, seen, drain, running, clock,
                   stopEvent, thread, purging, faults>>

RecoverJob(j) ==
    /\ pc = "recover" /\ j \in todo
    /\ TryRevoke(j)
    /\ todo' = todo \ {j}
    /\ Goto("recover_rm", j)
    /\ UNCHANGED <<status, cancelReq, createdAt, files, process, seen, drain, running, clock,
                   api, faults>>

RecoverRemove ==
    /\ pc = "recover_rm"
    /\ RemoveDirs(cur)
    /\ Goto("recover", NoJob)
    /\ UNCHANGED <<table, process, seen, todo, drain, running, clock, api, faults>>

Recovered ==
    /\ pc = "recover" /\ todo = {}
    /\ Goto("loop", NoJob)
    /\ UNCHANGED <<table, files, process, seen, todo, drain, running, clock, api, faults>>

\* download_timeout_seconds, then cancel_grace_seconds, have passed.
LimitPasses(j) ==
    /\ j \in running /\ clock[j] = "fresh"
    /\ clock' = [clock EXCEPT ![j] = "late"]
    /\ UNCHANGED <<table, files, process, pc, cur, seen, todo, drain, running, api, faults>>

GracePasses(j) ==
    /\ j \in running /\ clock[j] = "termed"
    /\ clock' = [clock EXCEPT ![j] = "overdue"]
    /\ UNCHANGED <<table, files, process, pc, cur, seen, todo, drain, running, api, faults>>

-----------------------------------------------------------------------------
Api(j) == CreateJob(j) \/ RequestCancel(j) \/ PurgeMark(j)

Dispatch ==
    \/ BeginPass \/ MonExited \/ MonAlive \/ Finish \/ Revoke \/ RemoveFailed
    \/ MonEnd \/ Spawn \/ SetPid \/ SpawnRaises \/ StartFailed \/ FillEnd
    \/ CleanupRemove \/ CleanupEnd
    \/ GracePass \/ GraceEnd \/ EndAll \/ RecoverRemove \/ Recovered
    \/ \E j \in Jobs : \/ MonRead(j) \/ Claim(j) \/ CleanupExpire(j)
                       \/ EndJob(j) \/ RecoverJob(j)

Step ==
    \/ Dispatch \/ ThreadStep \/ Stop \/ Exit \/ Crash \/ Start
    \/ \E j \in Jobs : \/ Api(j) \/ PurgeRemove(j)
                       \/ WorkerStep(j) \/ TermArrives(j) \/ WorkerDies(j)
                       \/ LimitPasses(j) \/ GracePasses(j)

Next == Fault \/ Step

Spec == Init /\ [][Next]_vars

\* The event loop runs the dispatcher task, threads and requests go on, time
\* passes, the service manager restarts the process.  Nothing is assumed of
\* the workers: a download may hang for ever and ignore SIGTERM.  GraceEnd
\* needs strong fairness because monitoring passes alternate with it.
Fairness ==
    /\ WF_vars(Dispatch) /\ WF_vars(ThreadStep)
    /\ SF_vars(GraceEnd)
    /\ WF_vars(Start) /\ WF_vars(Exit)
    /\ \A j \in Jobs : WF_vars(PurgeRemove(j)) /\ WF_vars(LimitPasses(j))
                       /\ WF_vars(GracePasses(j))

FairSpec == Spec /\ Fairness

-----------------------------------------------------------------------------
(***************************************************************************)
(* Properties.                                                             *)
(***************************************************************************)
\* A job somebody asked to cancel is never delivered: no interleaving of the
\* request with the hooks, which may take a cancelling job back to
\* postprocessing, and with the worker's last look at the flag, which is not
\* part of complete_job's transaction, lets it complete.
CancelledNeverCompletes ==
    \A j \in Jobs : status[j] = "completed" => ~cancelReq[j]

\* As long as no query of the loop has raised and no stop has run out of time,
\* every unfinished claimed job is somebody's duty: it is supervised, or the
\* dispatcher is just starting or ending it.  Otherwise it would stay "running"
\* until the next restart.
Handled(j) == cur = j /\ pc \in {"spawn", "pid", "spawnfail", "finish"}
AllSupervised ==
    \A j \in Jobs : status[j] \in Active => j \in running \/ Handled(j) \/ pc = "down"
NoJobLost == faults = 0 => AllSupervised

\* No more workers are alive than the operator allowed, whatever was
\* cancelled, killed, restarted or failed to start.
SlotLimit == Cardinality({j \in Jobs : Live(j)}) <= MaxConcurrent

\* A job that has ended stays out of the dispatcher's reach: it is never
\* taken up again, even by a worker that outlives its own failure.
NeverReopened ==
    [][\A j \in Jobs : status[j] \in Terminal => status'[j] \in Terminal]_vars

\* The rows of a delivered job vanish only with its expiry, or by one of three
\* revocations that do not look at the row themselves: the worker's handler,
\* only for a SIGTERM that came after the commit; the dispatcher's, only where
\* the row it had read before was that of an unfinished job; and the one for the
\* jobs a shutdown has killed.  A start never takes anything from a delivered job.
SawUnfinished(at, j, s, k) == at = "revoke" /\ k = j /\ s.status \in Active
LateSignal(j) == worker[j] = "h_rows" /\ reason[j] = "cancelled"
ShutDown(j)   == pc = "revoke" /\ cur = j /\ drain = "final" /\ j \in running
OnlyKnownLoss ==
    [][\A j \in Jobs :
         status[j] = "completed" /\ rows[j] # "none" /\ rows'[j] = "none"
           => \/ status'[j] = "expired"
              \/ LateSignal(j) \/ ShutDown(j)
              \/ SawUnfinished(pc, j, seen, cur)
              \/ SawUnfinished(thread.at, j, thread.seen, thread.job)]_vars

\* A job that ended without a result leaves nothing on disk and nothing in the
\* table once its worker is gone and nobody is tidying it up, whoever has ended
\* it, with whatever was read before, and however often the API has started
\* again: failing a job and tidying it up are never parted.  Except ("left") by
\* a revocation or a removal that failed, the death of the one who was at it, a
\* worker killed after its job was failed, a dead worker whose pid could not be
\* recorded, and a fail_job that runs on after a stop has run out of time.
NoLeftovers ==
    \A j \in Jobs : status[j] \in Fruitless /\ ~Live(j) /\ j \notin InHand
                      => files[j] # "there" /\ rows[j] # "ready"

\* What a claim starts comes to an end, even if the worker hangs and ignores
\* its SIGTERM; unless a query that raised has ended the dispatcher task, which
\* nothing starts again while the API goes on.
LoopDead == pc = "halted" /\ stopEvent = "clear"
ActiveEnds == \A j \in Jobs : status[j] \in Active ~> status[j] \in Terminal \/ LoopDead

\* The queue drains: a waiting job gets a slot or is cancelled.
QueueDrains == \A j \in Jobs : status[j] = "queued" ~> status[j] # "queued"

\* The job table keeps the promises of JobContract.
PhaseOf(s) ==
    CASE s = "queued" -> "waiting"
      [] s \in Active -> "working"
      [] s = "completed" -> "delivered"
      [] s \in {"failed", "cancelled"} -> "dropped"
      [] s = "expired" -> "gone"
      [] OTHER -> "absent"

Contract == INSTANCE JobContract WITH
    phase <- [j \in Jobs |-> PhaseOf(status[j])], wish <- cancelReq

KeepsContract == Contract!Spec

-----------------------------------------------------------------------------
(***************************************************************************)
(* What the repository says of the program and the code does not do.       *)
(***************************************************************************)
\* complete_job raises "job cannot complete without a ready artifact", so a
\* completed job should have its artifact rows.
CompletedHasArtifact == \A j \in Jobs : status[j] = "completed" => rows[j] # "none"

===============================================================================
