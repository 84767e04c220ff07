----------------------------- MODULE ArtifactStore -----------------------------
(***************************************************************************)
(* The artifacts of one job between the local disk and the S3 bucket: the  *)
(* worker's publish_job_artifacts, the revocations of worker, dispatcher   *)
(* and clean-up, and the deletion outbox that several processes work off.  *)
(* A row, the file it names and the object it names are changed in         *)
(* separate steps, and a process may end between any two of them.          *)
(*                                                                         *)
(* The job's own life is that of JobLifecycle, reduced to what the files   *)
(* and objects depend on.  Abstracted: keys (one object per artifact, its  *)
(* id is in the key), sizes and checksums, versions of an object, batch    *)
(* limits of the outbox, the length of a lease or a delay.                 *)
(***************************************************************************)
EXTENDS Naturals, FiniteSets

CONSTANTS
    Artifacts,       \* the files _finalize_artifacts has registered
    NoArtifact,      \* value of `at` when no upload is under way
    Deleters,        \* processes that run process_deletion_outbox
    KeepLocal,       \* settings.s3_keep_local
    Fallback,        \* settings.s3_failure_mode = "fallback"
    DeleteOnExpiry,  \* settings.s3_delete_on_expiry
    LateFaults,      \* may a call fail after the promotion?
    SecondSignal     \* may a SIGTERM arrive while a handler is running?

ASSUME StoreAssumption ==
    /\ NoArtifact \notin Artifacts
    /\ Artifacts # {} /\ IsFiniteSet(Artifacts)
    /\ {KeepLocal, Fallback, DeleteOnExpiry, LateFaults, SecondSignal} \subseteq BOOLEAN

VARIABLES
    row,        \* backend and state of the artifact row, "none" without one
    file,       \* does the local copy exist?
    object,     \* does the S3 object exist?
    outbox,     \* the storage_deletions entry of the object
    claimed,    \* entries a deleter has claimed and not finished
    erased,     \* those whose object it has deleted
    job,        \* status of the job
    cancelReq,  \* jobs.cancel_requested: "no" or "yes"
    passed,     \* history: was a revocation that raised passed over?
    wpc,        \* where the worker is
    at,         \* the artifact it is uploading
    todo,       \* artifacts its current loop has still to visit
    uploaded,   \* uploaded_ids
    reap,       \* how far the dispatcher is with the ended worker
    expiry      \* how far the clean-up of the expired job is

work  == <<wpc, at, todo, uploaded>>
flags == <<cancelReq, passed>>
side  == <<claimed, erased, reap, expiry>>
vars  == <<row, file, object, outbox, job, flags, work, side>>

Uploading  == {"next", "upload", "record", "promote"}
InTry      == Uploading \cup {"unlink", "list", "fallback", "check", "commit", "done"}
Handling   == {"h_rows", "h_dirs", "h_fail"}
HasKey(a)  == row[a] \in {"uploading", "s3"}
Ready(a)   == row[a] \in {"local", "s3"}

TypeOK ==
    /\ row \in [Artifacts -> {"none", "local", "uploading", "s3"}]
    /\ file \in [Artifacts -> BOOLEAN]
    /\ object \in [Artifacts -> BOOLEAN]
    /\ outbox \in [Artifacts -> {"none", "due", "leased", "delayed"}]
    /\ claimed \in [Deleters -> SUBSET Artifacts]
    /\ erased \in [Deleters -> SUBSET Artifacts]
    /\ job \in {"working", "completed", "failed", "expired"}
    /\ cancelReq \in {"no", "yes"}
    /\ passed \in BOOLEAN
    /\ wpc \in InTry \cup Handling \cup {"exited"}
    /\ at \in Artifacts \cup {NoArtifact}
    /\ todo \subseteq Artifacts
    /\ uploaded \subseteq Artifacts
    /\ reap \in {"idle", "revoke", "rmdirs", "done"}
    /\ expiry \in {"idle", "rmdirs", "done"}

\* _finalize_artifacts has moved the files and inserted their rows.
Init ==
    /\ row = [a \in Artifacts |-> "local"]
    /\ file = [a \in Artifacts |-> TRUE]
    /\ object = [a \in Artifacts |-> FALSE]
    /\ outbox = [a \in Artifacts |-> "none"]
    /\ claimed = [d \in Deleters |-> {}]
    /\ erased = [d \in Deleters |-> {}]
    /\ job = "working" /\ cancelReq = "no" /\ passed = FALSE
    /\ wpc = "next" /\ at = NoArtifact /\ todo = Artifacts /\ uploaded = {}
    /\ reap = "idle" /\ expiry = "idle"

-----------------------------------------------------------------------------
(***************************************************************************)
(* Transactions several callers share.                                     *)
(***************************************************************************)
\* Mutant: entries are inserted without not_before, so they are never due.
EnqueueUntimed == outbox' = [a \in Artifacts |->
                               IF HasKey(a) /\ outbox[a] = "none" THEN "untimed" ELSE outbox[a]]

\* Database._enqueue_remote_deletions: INSERT OR IGNORE for every row with a key.
Enqueue == outbox' = [a \in Artifacts |->
                        IF HasKey(a) /\ outbox[a] = "none" THEN "due" ELSE outbox[a]]

\* Database.revoke_job_artifacts.
RevokeRows == Enqueue /\ row' = [a \in Artifacts |-> "none"]

\* _cleanup_job and _revoke_failed_job_artifacts pass over an exception of it,
\* and remove the files all the same.
TryRevoke ==
    \/ RevokeRows /\ UNCHANGED passed
    \/ passed' = TRUE /\ UNCHANGED <<row, outbox>>

\* _remove_job_directories and safe_rmtree: what cannot be removed stays, too.
RemoveFiles ==
    \E kept \in SUBSET {a \in Artifacts : file[a]} :
        file' = [a \in Artifacts |-> a \in kept]

-----------------------------------------------------------------------------
(***************************************************************************)
(* The worker: publish_job_artifacts and the rest of run_job.              *)
(***************************************************************************)
Goes(p) == wpc' = p

\* An exception in publish_job_artifacts.
Failed == Goes(IF Fallback THEN "fallback" ELSE "h_rows")

\* Mutant: the row learns of the object only when the upload has succeeded.
StageLate(a) ==
    /\ wpc = "next" /\ cancelReq = "no"
    /\ a \in todo /\ file[a] /\ row[a] = "local"
    /\ at' = a /\ todo' = todo \ {a}
    /\ Goes("upload")
    /\ UNCHANGED <<row, file, object, outbox, job, flags, uploaded, side>>

\* Mutant: the deletion is planned when the upload is, and stays planned.
StagePlansDeletion(a) ==
    /\ wpc = "next" /\ cancelReq = "no"
    /\ a \in todo /\ file[a] /\ row[a] = "local"
    /\ row' = [row EXCEPT ![a] = "uploading"]
    /\ outbox' = [outbox EXCEPT ![a] = "due"]
    /\ at' = a /\ todo' = todo \ {a}
    /\ Goes("upload")
    /\ UNCHANGED <<file, object, job, flags, uploaded, side>>

\* The next artifact: the cancel flag, the file, then stage_artifact_upload.
Stage(a) ==
    /\ wpc = "next" /\ cancelReq = "no"
    /\ a \in todo /\ file[a] /\ row[a] = "local"
    /\ row' = [row EXCEPT ![a] = "uploading"]
    /\ at' = a /\ todo' = todo \ {a}
    /\ Goes("upload")
    /\ UNCHANGED <<file, object, outbox, job, flags, uploaded, side>>

\* _upload_one: the object is there before head_object has verified it.
Upload ==
    /\ wpc = "upload"
    /\ object' = [object EXCEPT ![at] = TRUE]
    /\ Goes("record")
    /\ UNCHANGED <<row, file, outbox, job, flags, at, todo, uploaded, side>>

\* record_artifact_upload_result.
Record ==
    /\ wpc = "record" /\ row[at] = "uploading"
    /\ uploaded' = uploaded \cup {at}
    /\ at' = NoArtifact
    /\ Goes(IF todo = {} THEN "promote" ELSE "next")
    /\ UNCHANGED <<row, file, object, outbox, job, flags, todo, side>>

\* Mutant: each artifact is promoted for itself, whatever became of the others.
PromoteEarly ==
    /\ wpc = "next" /\ cancelReq = "no" /\ uploaded # {}
    /\ row' = [a \in Artifacts |-> IF a \in uploaded THEN "s3" ELSE row[a]]
    /\ Goes("check")
    /\ UNCHANGED <<file, object, outbox, job, flags, at, todo, uploaded, side>>

\* promote_job_artifacts_to_s3: all of them or none.
Promote ==
    /\ wpc = "promote" /\ cancelReq = "no"
    /\ uploaded # {} /\ uploaded = {a \in Artifacts : row[a] = "uploading"}
    /\ row' = [a \in Artifacts |-> IF a \in uploaded THEN "s3" ELSE row[a]]
    /\ todo' = Artifacts
    /\ Goes(IF KeepLocal THEN "list" ELSE "unlink")
    /\ UNCHANGED <<file, object, outbox, job, flags, at, uploaded, side>>

\* _remove_local_copies, one file at a time.
Unlink(a) ==
    /\ wpc = "unlink" /\ a \in todo /\ file[a]
    /\ file' = [file EXCEPT ![a] = FALSE]
    /\ todo' = todo \ {a}
    /\ Goes(IF todo' = {} THEN "list" ELSE "unlink")
    /\ UNCHANGED <<row, object, outbox, job, flags, at, uploaded, side>>

\* list_artifacts, then publish_job_artifacts returns.
Listed ==
    /\ wpc = "list"
    /\ Goes("check")
    /\ UNCHANGED <<row, file, object, outbox, job, flags, at, todo, uploaded, side>>

\* The network, the verification, the database or the disk fails.
PublishFails ==
    /\ \/ wpc \in Uploading
       \/ LateFaults /\ wpc \in {"unlink", "list"}
    /\ Failed
    /\ UNCHANGED <<row, file, object, outbox, job, flags, at, todo, uploaded, side>>

\* The flag is polled before each artifact, during an upload (the callback),
\* before the promotion and after publish_job_artifacts has returned.
Cancelled ==
    /\ cancelReq = "yes"
    /\ wpc \in {"next", "upload", "promote", "check"}
    /\ Goes("h_rows")
    /\ UNCHANGED <<row, file, object, outbox, job, flags, at, todo, uploaded, side>>

\* fallback_job_artifacts_to_local: the objects go to the outbox, every row
\* becomes a ready local one.  The outbox run that follows is a Deleter's.
FallBack ==
    /\ wpc = "fallback"
    /\ Enqueue
    /\ row' = [a \in Artifacts |-> IF row[a] = "none" THEN "none" ELSE "local"]
    /\ Goes("check")
    /\ UNCHANGED <<file, object, job, flags, at, todo, uploaded, side>>

FallBackFails ==
    /\ wpc = "fallback"
    /\ Goes("h_rows")
    /\ UNCHANGED <<row, file, object, outbox, job, flags, at, todo, uploaded, side>>

Check ==
    /\ wpc = "check" /\ cancelReq = "no"
    /\ Goes("commit")
    /\ UNCHANGED <<row, file, object, outbox, job, flags, at, todo, uploaded, side>>

\* complete_job: one ready artifact is enough for it; a cancelling job is not
\* completed.
Complete ==
    /\ wpc = "commit"
    /\ IF job = "working" /\ cancelReq = "no" /\ \E a \in Artifacts : Ready(a)
       THEN job' = "completed" /\ Goes("done")
       ELSE Goes("h_rows") /\ UNCHANGED job
    /\ UNCHANGED <<row, file, object, outbox, flags, at, todo, uploaded, side>>

Return ==
    /\ wpc = "done"
    /\ Goes("exited")
    /\ UNCHANGED <<row, file, object, outbox, job, flags, at, todo, uploaded, side>>

\* _cleanup_job and fail_job in run_job's exception handlers.
HandlerRevokes ==
    /\ wpc = "h_rows"
    /\ TryRevoke
    /\ Goes("h_dirs")
    /\ UNCHANGED <<file, object, job, cancelReq, at, todo, uploaded, side>>

HandlerRemoves ==
    /\ wpc = "h_dirs"
    /\ RemoveFiles
    /\ Goes("h_fail")
    /\ UNCHANGED <<row, object, outbox, job, flags, at, todo, uploaded, side>>

FailJob == job' = IF job \in {"completed", "expired"} THEN job ELSE "failed"

HandlerFails ==
    /\ wpc = "h_fail"
    /\ FailJob
    /\ Goes("exited")
    /\ UNCHANGED <<row, file, object, outbox, flags, at, todo, uploaded, side>>

WorkerStep ==
    \/ \E a \in Artifacts : Stage(a) \/ Unlink(a)
    \/ Upload \/ Record \/ Promote \/ Listed \/ PublishFails \/ Cancelled
    \/ FallBack \/ FallBackFails \/ Check \/ Complete \/ Return
    \/ HandlerRevokes \/ HandlerRemoves \/ HandlerFails

\* SIGTERM: WorkerCancelled in the try block; in a handler it is swallowed by
\* _cleanup_job's except clauses, which takes back a revocation under way, or
\* ends the process.
Terminated ==
    /\ \/ wpc \in InTry /\ Goes("h_rows") /\ UNCHANGED passed
       \/ SecondSignal /\ wpc = "h_rows" /\ Goes("h_dirs") /\ passed' = TRUE
       \/ SecondSignal /\ wpc = "h_dirs" /\ Goes("h_dirs") /\ UNCHANGED passed
       \/ SecondSignal /\ wpc \in Handling /\ Goes("exited") /\ UNCHANGED passed
    /\ UNCHANGED <<row, file, object, outbox, job, cancelReq, at, todo, uploaded, side>>

\* SIGKILL, the OOM killer, a crash of the worker.
WorkerDies ==
    /\ wpc # "exited"
    /\ Goes("exited")
    /\ UNCHANGED <<row, file, object, outbox, job, flags, at, todo, uploaded, side>>

-----------------------------------------------------------------------------
(***************************************************************************)
(* The owner, the dispatcher and the clean-up.                             *)
(***************************************************************************)
RequestCancel ==
    /\ job = "working"
    /\ cancelReq' = "yes"
    /\ UNCHANGED <<row, file, object, outbox, job, passed, work, side>>

\* The worker has exited: nothing to do if its job has ended ...
Reaped ==
    /\ reap = "idle" /\ wpc = "exited" /\ job # "working"
    /\ reap' = "done"
    /\ UNCHANGED <<row, file, object, outbox, job, flags, work, claimed, erased, expiry>>

\* ... otherwise, and also on the strength of a row read before the job was
\* completed, fail_job and _revoke_failed_job_artifacts; after a restart
\* reconcile_interrupted and the revocation in Dispatcher.start.
ReapFails ==
    /\ reap = "idle" /\ wpc = "exited" /\ job \in {"working", "completed"}
    /\ FailJob
    /\ reap' = "revoke"
    /\ UNCHANGED <<row, file, object, outbox, flags, work, claimed, erased, expiry>>

ReapRevokes ==
    /\ reap = "revoke"
    /\ TryRevoke
    /\ reap' = "rmdirs"
    /\ UNCHANGED <<file, object, job, cancelReq, work, claimed, erased, expiry>>

ReapRemoves ==
    /\ reap = "rmdirs"
    /\ RemoveFiles
    /\ reap' = "done"
    /\ UNCHANGED <<row, object, outbox, job, flags, work, claimed, erased, expiry>>

\* mark_job_expired by the TTL, by the storage limit or by a purge, then the
\* directories.
Expire ==
    /\ job \in {"completed", "failed"}
    /\ RevokeRows
    /\ job' = "expired"
    /\ expiry' = "rmdirs"
    /\ UNCHANGED <<file, object, flags, work, claimed, erased, reap>>

ExpiryRemoves ==
    /\ expiry = "rmdirs"
    /\ RemoveFiles
    /\ expiry' = "done"
    /\ UNCHANGED <<row, object, outbox, job, flags, work, claimed, erased, reap>>

\* The API process goes down, and every worker and deleter with it; the next
\* start only takes up jobs that are still active.
Crash ==
    /\ wpc' = "exited"
    /\ claimed' = [d \in Deleters |-> {}] /\ erased' = [d \in Deleters |-> {}]
    /\ reap' = IF job = "working" THEN "idle" ELSE "done"
    /\ expiry' = IF expiry = "rmdirs" THEN "done" ELSE expiry
    /\ UNCHANGED <<row, file, object, outbox, job, flags, at, todo, uploaded>>

-----------------------------------------------------------------------------
(***************************************************************************)
(* process_deletion_outbox, by any of the processes that run it.           *)
(***************************************************************************)
ClaimDue(d) ==
    LET due == {a \in Artifacts : outbox[a] = "due"}
    IN  /\ claimed[d] = {} /\ due # {}
        /\ claimed' = [claimed EXCEPT ![d] = due]
        /\ outbox' = [a \in Artifacts |-> IF a \in due THEN "leased" ELSE outbox[a]]
        /\ UNCHANGED <<row, file, object, job, flags, work, erased, reap, expiry>>

Erase(d, a) ==
    /\ DeleteOnExpiry
    /\ a \in claimed[d] \ erased[d]
    /\ object' = [object EXCEPT ![a] = FALSE]
    /\ erased' = [erased EXCEPT ![d] = @ \cup {a}]
    /\ UNCHANGED <<row, file, outbox, job, flags, work, claimed, reap, expiry>>

Drop(d, a) == /\ claimed' = [claimed EXCEPT ![d] = @ \ {a}]
              /\ erased' = [erased EXCEPT ![d] = @ \ {a}]

\* The object is gone, or is to be kept: the entry is deleted.
Acknowledge(d, a) ==
    /\ a \in claimed[d]
    /\ DeleteOnExpiry => a \in erased[d]
    /\ outbox' = [outbox EXCEPT ![a] = "none"]
    /\ Drop(d, a)
    /\ UNCHANGED <<row, file, object, job, flags, work, reap, expiry>>

\* Mutant: a failed deletion is given up.
DeletionForgotten(d, a) ==
    /\ a \in claimed[d]
    /\ outbox' = [outbox EXCEPT ![a] = "none"]
    /\ Drop(d, a)
    /\ UNCHANGED <<row, file, object, job, flags, work, reap, expiry>>

\* delete_object or the acknowledgement raises: the lease ends, the entry
\* waits.  Another deleter may have acknowledged it in the meantime.
DeletionFails(d, a) ==
    /\ DeleteOnExpiry
    /\ a \in claimed[d]
    /\ outbox' = [outbox EXCEPT ![a] = IF @ = "none" THEN "none" ELSE "delayed"]
    /\ Drop(d, a)
    /\ UNCHANGED <<row, file, object, job, flags, work, reap, expiry>>

\* A deleter ends with its process, or an exception leaves the loop.
DeleterDies(d) ==
    /\ claimed[d] # {}
    /\ claimed' = [claimed EXCEPT ![d] = {}]
    /\ erased' = [erased EXCEPT ![d] = {}]
    /\ UNCHANGED <<row, file, object, outbox, job, flags, work, reap, expiry>>

\* A lease runs out, perhaps while its holder is still at work.
LeaseEnds(a) ==
    /\ outbox[a] = "leased"
    /\ outbox' = [outbox EXCEPT ![a] = "due"]
    /\ UNCHANGED <<row, file, object, job, flags, work, side>>

\* not_before has come.
DelayEnds(a) ==
    /\ outbox[a] = "delayed"
    /\ outbox' = [outbox EXCEPT ![a] = "due"]
    /\ UNCHANGED <<row, file, object, job, flags, work, side>>

Outbox ==
    \/ \E d \in Deleters : ClaimDue(d) \/ DeleterDies(d)
    \/ \E d \in Deleters, a \in Artifacts :
          Erase(d, a) \/ Acknowledge(d, a) \/ DeletionFails(d, a)
    \/ \E a \in Artifacts : LeaseEnds(a) \/ DelayEnds(a)

Next ==
    \/ WorkerStep \/ Terminated \/ WorkerDies
    \/ RequestCancel \/ Reaped \/ ReapFails \/ ReapRevokes \/ ReapRemoves
    \/ Expire \/ ExpiryRemoves \/ Crash
    \/ Outbox

Spec == Init /\ [][Next]_vars

\* The dispatcher works the outbox off in every clean-up and time passes.  S3
\* refuses a deletion, and the process dies on the way, only finitely often
\* for each entry: that is the strong fairness.
Fairness ==
    /\ \A d \in Deleters : WF_vars(ClaimDue(d))
    /\ \A d \in Deleters, a \in Artifacts : SF_vars(Erase(d, a)) /\ SF_vars(Acknowledge(d, a))
    /\ \A a \in Artifacts : WF_vars(LeaseEnds(a)) /\ WF_vars(DelayEnds(a))

FairSpec == Spec /\ Fairness

-----------------------------------------------------------------------------
(***************************************************************************)
(* Properties.                                                             *)
(***************************************************************************)
\* Every object in the bucket can still be found: by the outbox, or by a row
\* that some later expiry or revocation will hand to the outbox.  So a kill
\* between an upload and its transaction, a crash between two steps of a
\* revocation or a lease that ran out never leaves an object for ever.
NoOrphanObject ==
    DeleteOnExpiry =>
      \A a \in Artifacts :
        object[a] => \/ outbox[a] # "none"
                     \/ HasKey(a) /\ job # "expired"

\* "No half set is exposed": what a completed job offers is all on one side,
\* although complete_job itself asks for a single ready artifact only.
NoHalfSet ==
    job = "completed" =>
      \E s \in {"none", "local", "s3"} : \A a \in Artifacts : row[a] = s

\* What a completed job lists can be served: the copy or the object its row
\* names is there, while uploads fail, fallbacks, revocations and deletions run
\* and processes die between any two of them.  The one exception: a revocation
\* of the completed job that raised was passed over, and the files went.
RowsServable ==
    job = "completed" =>
      \A a \in Artifacts : /\ row[a] = "local" => file[a] \/ passed
                           /\ row[a] = "s3" => object[a]

\* Every object of an expired job is deleted in the end.
ExpiredObjectsGo == \A a \in Artifacts : job = "expired" ~> ~object[a]

\* "Every upload failure ... restores the complete local set": a job completed
\* after a fallback should have the files its rows promise.
FallbackRestoresFiles ==
    job = "completed" /\ ~passed => \A a \in Artifacts : row[a] = "local" => file[a]
===============================================================================
