# A TLA+ verification of ytbdownload

`ytbdownload` is a self-hosted download service: a FastAPI process, an asyncio
dispatcher inside it, one worker process per operation, a SQLite database, two
directory trees and, optionally, an S3 bucket. These modules model its control
flow, check it with TLC on small instances, and prove part of it with TLAPS.

## 1. Inventory

### Components, their state and their operations

| component | source | state it keeps | operations |
| --- | --- | --- | --- |
| HTTP API | `app/main.py` | none of its own | create analysis, create job, status, list, `DELETE` (cancel or purge), artifact delivery, direct links |
| Dispatcher | `app/dispatcher.py` | `running` (registry of worker processes), `_stop_event`, the position of its loop | lease, spawn, monitor, time limit, SIGTERM then SIGKILL, cleanup, purge, stop |
| Worker | `app/worker.py`, `app/yt_service.py` | position in `run_job`, a pending SIGTERM | download with hooks, finalise artifacts, complete, or tidy up and fail |
| Database | `app/database.py` | tables `analyses`, `jobs`, `artifacts`, `storage_deletions` | one transaction per method |
| Artifact storage | `app/artifact_storage.py` | objects in the bucket (external) | publish, promote, fall back, sign, work off the deletion outbox |
| Security | `app/security.py` | window of hits per client | session cookie, direct-link signature, rate limit, URL check |
| Format logic | `app/yt_service.py` | none | normalise formats, build choices, name and choose files |
| Web client | `app/static/app.js` | `activeJob`, `jobs`, `jobGeneration`, the invocations of `pollJob` and requests that await an answer | analyse, start, poll, cancel, dismiss, view, purge, list, log in and out |
| Settings, schemas, deployment | `app/config.py`, `app/models.py`, `deploy/`, `compose.yml` | none | validation at start |

### How they interact

* API and dispatcher share one process and one event loop; every database call
  runs in a thread, so every `await` is a point where the other may act.
* API, dispatcher and workers share the database. A worker learns of a cancel
  request only by polling `cancel_requested`.
* The dispatcher acts on a worker with SIGTERM and SIGKILL and learns of its
  end by `poll()`. A SIGTERM becomes the exception `WorkerCancelled` at
  whatever statement the worker has reached.
* Dispatcher and worker both delete rows and directories of a failed job.
* S3 deletions go through an outbox table, written in the transaction that
  revokes the artifacts and worked off later under a lease.

### What is hard

A row is read before a process is polled and used after it; a flag is polled in
one transaction and relied on in the next; signals arrive anywhere, also in the
handler of the previous one; two parties write the final status of a job; the
API process may crash between any two steps, and the workers may or may not go
down with it; row and directory are changed in separate steps; limits are
checked in one transaction and used in another. The list `hazards` of
`PROJECT.json` has each of these at its line.

### What makes each component correct

* **Job lifecycle**: a cancelled job is never delivered; a finished job is never
  reopened; every claimed job has somebody in charge of it and ends; no more
  workers than slots; nothing is left on disk; a delivered job has its files.
* **Artifact storage**: no object without a row or an outbox entry that leads to
  it; a ready artifact can be served from the backend its row names; every
  outbox entry is worked off.
* **Admission**: the queue limit; one job per idempotency key; a job only from a
  ready, unexpired analysis of the same owner.
* **Analyses**: a result is stored exactly with a completed row and stays until
  the sweep; no analysis runs for ever.
* **Delivery**: a link works until the moment it carries; nothing that is handed
  out outlives the artifact it names.
* **Rate limit**: at most N hits in any window, and no refusal without reason.
* **Download**: what is fetched is what was picked; the size limit holds for a
  job as a whole; after a request to cancel was seen nothing is delivered.
* **Client**: an unfinished job on the card is polled until it ends; a late
  answer to a poll never undoes what the user did in the meantime.

## 2. Plan

The order follows how much of the service depends on a part and how little its
tests can reach of it.

1. **Job lifecycle** (done): `JobLifecycle`, the abstract `JobContract` it
   implements, the proofs.
2. **Artifact storage** (done): `ArtifactStore` with its proofs. It takes the
   step `WPublish` of `JobLifecycle` apart.
3. **Admission** (done): `Admission` with its proofs. It is the way into the
   table that `JobLifecycle` starts from.
4. **Analysis lifecycle** (done): `AnalysisLifecycle` with its proofs.
5. **Delivery** (done): `Delivery` with its proofs: the readiness check, direct
   links and presigned URLs against expiry, eviction and purge.
6. **Rate limit** (done): `RateLimiter` with its proofs, the sliding window
   against the definition of "at most N hits in any window".
7. **Web client** (job card and history done): `WebClient` with its proofs.
   Left: the analysis form.
8. **Download** (done): `Download` with its proofs: choices, selectors, the formats
   of two days, hooks, progress and the files at the end.

Left for later: the analysis form of the page; that `ArtifactStore` implements the
publication step of `JobLifecycle`.

## 3. The modules and the code

A database method runs in one SQLite transaction (or one autocommitted
statement), so it is one step. Between two database calls of the API or the
dispatcher lies an `await`, so every call is a step of its own. A worker is
another process: each of its calls is a step.

### `JobLifecycle`

| state | code |
| --- | --- |
| `status`, `cancelReq`, `createdAt`, `rows` | columns of `jobs`; whether `artifacts` has rows of the job |
| `files` | `work/<job>` and `artifacts/<job>`; as with `rows`, `left` marks what is there although the one to tidy it up has passed it over or died |
| `worker`, `reason`, `sig` | position of the process in `run_job`, what its `except` clause will write, a pending SIGTERM |
| `pc`, `cur`, `seen`, `todo`, `drain` | position of the dispatcher task, the job and row it holds across an `await`, the rest of its pass, progress of `_terminate_all` |
| `running`, `clock` | `Dispatcher.running`; age and `terminated_at` of an operation, as "limit passed" and "grace passed" |
| `stopEvent`, `thread` | `_stop_event` and whether `stop` has given up waiting; the database call or removal that its `task.cancel` has left behind in a thread |
| `purging`, `starts`, `faults` | purge requests between their two steps; two bounds |

* *API*: `CreateJob`, `RequestCancel`, `PurgeMark`/`PurgeRemove` (`purge_job` in
  its two steps).
* *Dispatcher loop*: `BeginPass`; `MonRead` reads the row, `MonExited` and
  `MonAlive` look at the process afterwards; `Finish`, `Revoke`, `RemoveFailed`
  are `_finish_operation`; `Claim`, `Spawn`, `SetPid`, `SpawnRaises`,
  `StartFailed`, `FillEnd` are `_fill_available_slots`; `Cleanup*` is `cleanup`.
* *Shutdown*: `Stop`, `Terminate`, `GracePass`, `GraceEnd`, `EndJob`, `EndAll`
  are `stop` and `_terminate_all`; `StopTimesOut` is the end of the `wait_for` in
  `stop`, wherever the task waits, and `Thread*` the rest of the call that it leaves
  behind, which the interpreter waits for before it ends; `Exit`, `Crash`, `Start`, `Recover*` are the
  end of the process and `Dispatcher.start`.
* *Worker*: `WInstall` ... `WReturn` in the order of `run_job` and `download`,
  `WTidyRows`, `WTidyDirs`, `WFail` for its `except` clauses, `TermArrives` for
  a SIGTERM at whatever statement it finds, `WorkerDies` for everything else
  that ends a process.
* *Tidying up*: `RevokeRows`, `RemoveDirs` and the worker's `WTidy*` may fail
  (`TidyFaults`), be passed over by the `except` clause around them, and leave what
  they should have removed. `left` marks this; `Forsake` marks what somebody leaves by
  dying (the one at it, `InHand`, or a worker whose job was failed before,
  `Stranded`).
* *Faults*: `Fault` is a query of the loop that raises, in its monitoring pass, its
  clean-up or one of its `fail_job` calls, or a stop that runs out of time; there
  are at most `LoopFaults` of them.

`JobContract` is what the client is promised about a job: waiting, working,
delivered, dropped, gone, and a wish to cancel. `KeepsContract` is the
refinement, with `PhaseOf` as the mapping of statuses.

### `ArtifactStore`

| state | code |
| --- | --- |
| `row` | an `artifacts` row: backend and `ready`/`uploading` |
| `file`, `object` | the local copy, the object in the bucket |
| `outbox` | its `storage_deletions` entry: due, leased or waiting for `not_before` |
| `claimed`, `erased` | what a running `process_deletion_outbox` holds in memory |
| `job`, `cancelReq` | the job, reduced to what decides about files |
| `passed` | history: a revocation raised and was passed over |
| `wpc`, `at`, `todo`, `uploaded` | position and loop variables of `publish_job_artifacts` and `run_job` |
| `reap`, `expiry` | how far the dispatcher's revocation and the expiry are |

`Stage`, `Upload`, `Record`, `Promote`, `Unlink`, `Listed`, `FallBack` are
`publish_job_artifacts`; `HandlerRevokes`, `HandlerRemoves`, `HandlerFails` the
worker's `except` clauses; `Reap*` the dispatcher's `_finish_operation` or the
recovery at start; `Expire`, `ExpiryRemoves` expiry, eviction and purge;
`TryRevoke` is a revocation that may raise, as both sides swallow it, and
`RemoveFiles` a removal that may leave any of the files;
`ClaimDue`, `Erase`, `Acknowledge`, `DeletionFails`, `LeaseEnds`, `DelayEnds`
the outbox, worked off by several `Deleters` (dispatcher and workers run it).

### `Admission`

`rpc` is where each of the requests in progress stands; `key`, `ana` are its
header and analysis, `told` the history of answers; `jobs`, `jobKey`, `jobAna`,
`analyses`, `past` are the tables as far as admission reads them. `PostAnalysis`
and `InsertAnalysis` are `POST /analyses`; `PostJob`, `Replay`, `ReadAnalysis`,
`Exists`, `InsertJob`, `Conflict`, `Lookup` are `POST /jobs` with
`Database.create_job`, whose `SELECT`, `INSERT` and second `SELECT` run in
autocommit mode and are therefore separate steps. `ExpireAnalyses` is the sweep,
`JobMoves` and `AnalysisMoves` stand for all of `JobLifecycle` and
`AnalysisLifecycle` (with `complete_analysis` bringing back a failed or swept
analysis), `Restart` for the reconciliation.

### `WebClient`

| state | code |
| --- | --- |
| `srv` | status of the user's jobs in the database |
| `active`, `shown`, `jobs` | `state.activeJob` (id and status), `state.jobs` |
| `poll`, `target`, `got` | the invocations of `pollJob`: where each is, its `jobId`, the answer it waits for |
| `current` | the invocation whose `generation` equals `state.jobGeneration` |
| `req`, `kind`, `about`, `snap` | every other request: position, operation, job, the answer on its way |
| `cookie`, `dialog` | a valid session cookie, the modal login dialog |

The script runs to completion between two `await`s, so each step is what a
handler does between two of them. `Start`, `Cancel`, `View`, `Purge`, `Dismiss`,
`LoadJobs`, `Logout`, `Login` are the clicks, `*Answered` the continuations after
`await api(...)`, `Serve*` the handlers of `app/main.py`; `CallFails` and
`PollFails` lose a request or its answer, `*Refused` are 401 answers. A request
carries the cookie it was sent with. `PollJob` starts a loop and makes every older
one stale; `PollAnswered`, like the code, compares the generation only.

### `AnalysisLifecycle`

| state | code |
| --- | --- |
| `status`, `result`, `due` | columns of `analyses`: status, whether `result_json` is set, whether `expires_at` has come |
| `worker`, `sig` | position of the worker in `run_analysis`, a pending SIGTERM |
| `api`, `hold`, `act`, `seen` | life of the API process, the analysis the dispatcher handles across an `await`, what it does with it, the row it has read |
| `running`, `clock` | `Dispatcher.running` with the age of an operation |
| `orphans` | history: workers that lived when the dispatcher forgot them |

`Complete` and `Fail` are `complete_analysis`, which has no condition, and
`fail_analysis`, which spares completed and expired rows. `Read`, then
`VisitExited` or `VisitAlive`, then `Finish` are a visit of `_monitor_running`;
`TerminateAll`, `GraceEnd`, `EndOperation` the shutdown; `Gone` the end of the
process, with or without its workers; `Start` the reconciliation.

### `Delivery`

| state | code |
| --- | --- |
| `now` | the clock, in ticks of less than a second |
| `job`, `jobExp`, `row`, `file` | status and `expires_at` of the job, its artifact's row, the local file |
| `links` | the ends of the links that were handed out |
| `pc`, `asked`, `begun`, `left`, `snap`, `answer`, `until` | where the handler of a request is, its link, its first look at the clock, `ttl_seconds`, the row it has read, its answer and the end of the URL in it |
| `kept`, `late` | history: nobody has purged or evicted the job; the job was gone before the request came |

`GetArtifact`, `PostLink`, `GetDirect` begin the three handlers, `ReadRow` is
`get_artifact` in its thread, `CheckRemote`, `CheckLocal`, `CheckRefused` are
`require_ready_artifact` with the first half of `deliver_artifact`, `Sign`,
`SignFails`, `ServeLocal` its second half, `MakeLink` the end of
`create_artifact_direct_link`. `Sweep`, `PurgeOrEvict` and `RemoveFiles` may come
between any two of them.

### `RateLimiter`

`log` from `head` on is the deque of one client and bucket, `hint` the last
refusal. `Accept` and `Refuse` are the two ends of `check`, each with the loop
that drops old hits (`Cut`); `RetryAfter` is the rounding of `retry_after`.

### `Download`

| state | code |
| --- | --- |
| `seen`, `current` | the formats at the analysis, and those of the entry when the job runs |
| `pick` | the choice of the job, one of `Offer` or `ListOffer` |
| `step`, `item` | position in `YtDlpService.download` and in yt-dlp's walk through the entries |
| `chosen`, `todo`, `got` | the streams of the selector, those to come, the pieces on the disk |
| `bytes`, `last` | `ProgressReporter.bytes_by_file`, `last_progress` |
| `shown`, `status`, `cancel` | `jobs.progress`, `status`, `cancel_requested` |
| `files`, `rows`, `outcome` | finished files, artifact rows, how the download has ended |

`Kept` is `normalize_formats`, `Offer` and `ListOffer` are `build_choices` and
`build_playlist_choices`, `Selector` is `video_selector` as a sequence of
alternatives, each the set of combinations yt-dlp may take for it. `Refuse` is
`_match_filter`, `Piece`, `PieceTooMuch`, `Finish` are `progress_hook`,
`Postprocess` is `postprocessor_hook`, `NoticeCancel` every check of the flag
that raises, `Break` a `DownloadError`, whose handler looks at the flag, and
`OtherError` every other exception, which ends the job as `INTERNAL_ERROR`;
`NoArtifact`, `TooLarge`, `Finalize` are `_finalize_artifacts`.
What yt-dlp does is external: the meaning of `ba`, `b`, `+`, `/` and the filters,
that streams may start again or fail, and that refused entries are skipped.

## 4. What is checked

Definitions marked "Mutant" in a module are not part of its specification. Each
is what a definition would look like with a plausible bug, and shows that the
property named in `PROJECT.json` notices that bug.

| run | shows | distinct states |
| --- | --- | --- |
| `lifecycle_faults`: `TypeOK`, `CancelledNeverCompletes`, `NoJobLost`, `NoLeftovers`, `NeverReopened`, `OnlyKnownLoss`, `KeepsContract`, `ActiveEnds` | One job through every interleaving of API, dispatcher and worker with failing spawns, failing revocations and removals, a raising query or a stop that times out, two restarts and workers that survive them: the job table keeps the contract of JobContract, no claimed job is without somebody in charge of it, what ended without a result leaves nothing that somebody could still have tidied up, a delivered job loses its rows in the known ways only, and under fairness of the dispatcher and of time alone a claimed job ends. | 356 000 |
| `lifecycle_quiet`: `SlotLimit`, `QueueDrains` | Two jobs and one slot without restarts and faults, under fairness: no more workers than slots, and every queued job gets its turn behind a worker that hangs. | 412 000 |
| `store_objects`: `TypeOK`, `NoOrphanObject`, `NoHalfSet` | Two artifacts and two deleters with every fault: no S3 object is ever out of reach of both the rows and the outbox, and a completed job is wholly local or wholly remote. | 782 000 |
| `store_served`: `RowsServable`, `ExpiredObjectsGo` | With fallbacks, handlers cut off by a second signal and revocations that raise, what a completed job lists is on disk or in the bucket, as its row says, unless a revocation was passed over; under fairness the objects of an expired job are deleted, although deletions fail, leases run out and deleters and the whole process die. | 262 000 |
| `admission_races`: `TypeOK`, `OverrunBounded`, `OneJobPerKey`, `BlindJobsBounded` | Two requests at a time post analyses and jobs, with and without the same key, against leases, late completions, the expiry sweep and restarts: the queue exceeds its limit by the concurrent requests at most, a key stands for one job, and the jobs that run without the result of their analysis, with those still to be created that way, are never more than the requests that were under way together. | 258 000 |
| `web_late`: `TypeOK`, `Followed`, `DismissedStaysShut`, `CardSettles` | Two polling loops and two other requests whose answers come late, out of order or never, while jobs end, the user clicks and the session runs out: a card that shows an unfinished job is polled, a dismissed one stays shut, and a job that has ended is shown as ended in the end. | 655 000 |
| `analysis_ends`: `TypeOK`, `ResultMatches`, `CompletedSurvives`, `OnlyOrphansReopen`, `AnalysisEnds` | One analysis with its time limit, signals at any time, failing spawns, shutdown, crashes and surviving workers: results match their status, a stored result survives every late verdict, only a given-up worker overturns a verdict, and what is claimed ends. | 5 800 |
| `delivery_links`: `TypeOK`, `LinkKeepsItsWord`, `RevokedAtOnce`, `UrlEndsInTime` | One request after the other for an artifact and its links against the clock, the sweep, an eviction and a purge: a link works until the second it carries unless the job was purged or evicted, a request after that is not served, and a presigned URL outlives neither link nor artifact by more than the handler took and a second. | 455 000 |
| `limiter_window`: `WindowRespected`, `RetryIsEnough`, `NoNeedlessRefusal` | Every pattern of hits in time: no window holds more than the limit wherever it begins, a hit is refused only for hits in the window that ends now, and waiting `retry_after` is enough to the tick. (The type invariant is a theorem.) | 18 000 |
| `download_job`: `TypeOK`, `PickHonoured`, `BudgetHolds`, `SeenCancelEnds`, `LateNumbersTrue` | Every set of formats at the analysis and at the download and every choice that was offered: what is fetched is what was picked, the streams stay within the size limit however often one starts again, after a request to cancel was seen nothing is delivered and the media is not blamed, and the last percents are not shown too early. | 1 659 000 |

The other runs check one property each and end in a violation; section 6 says what they show.

**Bounds.** One job is enough for the races between its own worker, the
dispatcher and the API; two jobs and one slot add competition for the slot and
the passes over a registry. Three starts of the process give a crash or stop
with a recovery, and one during that recovery with another. One raising query
reaches every place where one can raise, one stop that times out every place where
the task can wait. `left` keeps the states apart in which something was passed
over from those in which it was tidied up, for good.
Two artifacts are the smallest set that can be half published; two deleters the
smallest number that can claim the same entry twice. In `store_served` `LateFaults`
is off, for `lost_copies` shows what a failure after the promotion does. S3 being
required (`Fallback` off) has no run of its own: what a worker can do there it can
also do with the fallback, which may fail before it has made any row local; both
settings are covered by the theorems. Two requests, one key and
a queue of two give every race for the key and for the last place in the queue;
three jobs allow the limit to be overrun, and more jobs of one analysis than there
are requests. Two loops are one that is
current and one that is out of date but still waits for its answer; two clicks
after the page has loaded are enough for a cancel whose answer comes after the
user has opened another job. An analysis meets its own worker and the dispatcher
only, three starts give a surviving worker and two verdicts on it. Two ticks to a
second, an artifact of two and a half and links of less than, exactly and more
than its life give every rounding; requests share nothing but rows and links, so
one slot is enough and more are left to the theorems. A limit of two hits in
four ticks over eleven ticks has windows that begin anywhere. Two heights, MP4
or not, with and without sound, and a limit of three formats reach every
alternative of the selector and the truncation; two entries of up to two streams
of two pieces pass a limit of three in the first entry and only in the second.
That restarts do not raise the number of workers
above the slots, and what more clicks, loops and requests can do, is left to the
theorems `SlotsSuffice`, `CardIsFollowed` and `ShutStaysShut`.

**Fairness.** `JobLifecycle!FairSpec` assumes that the event loop runs the
dispatcher task and ends a call that was left behind in a thread, that a purge
request in progress is finished, that time passes
and that the service manager starts the process again (`Restart=` in the unit
file). `GraceEnd` has strong fairness because the monitoring passes alternate
with it while the grace period runs out. Nothing is assumed of the workers: a
download may hang for ever. `ArtifactStore!FairSpec` assumes that each deleter
claims what is due (the dispatcher runs the outbox in every clean-up), that time
passes, and, with strong fairness, that S3 does not refuse the deletion of one
object for ever. `WebClient!FairSpec` assumes that the browser runs the continuations and
timers of `pollJob`, and, with strong fairness, that not every request of a loop
that asks again and again is lost. Of the other requests it assumes nothing.
`AnalysisLifecycle!FairSpec` assumes what `JobLifecycle!FairSpec` does; `Read`,
`TerminateAll` and `GraceEnd` have strong fairness because every pass visits
every operation and the shutdown has its turn between two of them. The other
modules check safety only and assume nothing.

## 5. What is proved

The theorems hold for every value of the constants that the named assumptions
(`ConstantsAssumption`, `StoreAssumption`, `AdmissionAssumption`,
`ClientAssumption`, `AnalysisAssumption`, `LimiterAssumption`,
`DeliveryAssumption`, `DownloadAssumption`) allow.

* `JobLifecycleProofs`: `TypeCorrect` and `CancelWins` (a job that was asked to
  be cancelled never completes). `CancelledNeverCompletes` is not inductive: the
  worker looks at the flag in one step and completes the job in the next, and
  `set_job_postprocessing` may take a cancelling job back. The invariant `IInv`
  adds `CommitOK` (a worker about to complete has either no request or a status
  that `complete_job` refuses), `HoldersBegan` (whoever holds a job holds a
  claimed one), `ReasonOK` (an exception handler knows its reason) and `CurOK`.
  In the same module: `ImplementsContract`, the refinement of `JobContract`.
  `MayBecome` lists the changes of status the steps make, `OneMoves` maps each
  to a step of the contract; the restart maps to `Restart`, a cancel request to
  `Ask`. `NotReopened` follows from the contract.
  `SlotsSuffice` (no more workers than slots, if workers go
  down with the API process) from `LiveKnown` (every live worker is in the
  registry), `Fits` (the claimed job's slot is kept free until it is registered)
  and `DrainOK`. `EveryJobSupervised` (`NoJobLost`, which itself ends where a
  query of the loop raises or a stop times out) from `SeenTrue` (a row read before
  the process was polled can be wrong only about a job that has ended), `PidKnown`,
  `EndDuty` and `NoneBehind`.
  `LossesAreKnown` (`OnlyKnownLoss`: only the worker's handler, for a signal behind
  the commit, a shutdown that has killed the worker, and a dispatcher that had read
  the row of an unfinished job) from `SeenOK` (`_finish_operation` goes on to fail
  and revoke only what was read as unfinished), `KilledOK` (the last part of
  `_terminate_all` ends jobs whose workers it has killed), `LateOK` and `RecoverOK`:
  what the start has found interrupted stays failed or cancelled while it is
  tidied up, so that the recovery takes the rows of no delivered job, even if
  workers have survived.
  `NothingIsLeft` (`NoLeftovers`) has no hypothesis: it holds with every crash,
  fault and surviving worker, because what a failure or a death leaves is marked in
  the state. `Clean` is its invariant. A job that has ended without a result, and
  whose worker is not at it (`Calm`), has nothing in the table and on
  disk, or a revocation and a removal are still owed to it (`Swept`, `Owed`); a
  handler fails the job after it has tidied up (`TidyBare`), a worker that has not
  begun has made nothing yet (`EarlyBare`), one past `complete_job` has a delivered
  or expired job (`DoneOK`), and a call is left behind only by a stop (`BehindOK`).
* `ArtifactStoreProofs`: `StoreTypeCorrect`, `NothingIsOrphaned`,
  `AllOrNothing`, `RowsAreServable`. The heart of the first invariant is
  `DoomedStays`: what is in the outbox, or in the hands of a deleter, belongs to
  no row and is not uploaded again. `AllOrNothing` needs what the rows look like
  during an upload (`LoopOK`, `PromoteOK`) and after it (`UniformOK`).
  `RowsAreServable` adds `Served`: files are removed only when no row needs them,
  unless a revocation was passed over. Its one assumption, that no fallback can
  follow the removal of local copies, cannot be dropped: the run `lost_copies` shows
  it. The exception in `RowsServable` itself is the other way to lose a served row:
  both `_cleanup_job` and `_revoke_failed_job_artifacts` swallow a revocation that
  raises (in the worker also the one a second SIGTERM cuts off) and remove the
  directories all the same. `passed` records that this has happened.
* `AdmissionProofs`: `AdmissionTypeCorrect`, `KeyNamesOneJob`,
  `OverrunIsBounded`, `FewJobsRunBlind`. The third needs `Load`: a request past the
  check counts like one that is queued already. The last follows the count from the
  sweep on: an expired analysis has no unfinished job then, a request that inserts
  one was counted as having read it before, and nobody reads it again while it is
  expired.
* `WebClientProofs`: `ClientTypeCorrect`, `CardIsFollowed`, `ShutStaysShut`.
  `Followed` is not inductive: the answer to a purge changes the card without
  starting a loop. `Inv` adds that whatever the page or an answer calls ended has
  ended on the server (in `PageInv`, `PollInv`, `CallOK`), so that answer never
  says "active", and `ShutIsIdle`: an empty card has no current loop.

* `AnalysisProofs`: `AnalysisTypeCorrect`, `ResultsMatch`, `ResultsSurvive`,
  `VerdictsStand`. The last is not inductive: `Owned` says that a live worker
  nobody has given up is registered and, until it has stored its result, at work
  on a row that is running; `VerdictOK` that no verdict of the dispatcher meets a
  live worker it has not given up.
* `RateLimiterProofs`: `LimiterTypeCorrect`, `NoWindowOverrun`,
  `WaitingSuffices`, `RefusalsAreDue`, for every limit, window and resolution of
  the clock. The invariant `LimInv` adds that the log is in the order of time
  (`InOrder`), that all before `head` has left the window (`Dropped`), that no
  more than the limit is left of it (`Bounded`), and what a refusal rested on
  (`HintOK`).
* `DeliveryProofs`: `DeliveryTypeCorrect`, `LinksKeepTheirWord`,
  `RevocationHolds`, `UrlsEndInTime`, for any number of requests and every
  setting. `Dated` adds that row, copies and links go by the job's own
  `expires_at`; `LateEmpty` that a request that came too late never holds a row;
  `Lives` bounds what is left of a link by its end and the time since the handler
  looked at the clock. The products of seconds and ticks are lemmas of their own
  (`SecondBounds`, `TicksAdd`, `TicksGrow`).

* `DownloadProofs`, for every set of formats, every number of entries and pieces
  and every limit: `TypeCorrect`, `PicksAreHonoured`, `BudgetIsKept`,
  `SeenCancelsEnd`, `LateNumbersAreTrue`. `PlaceOK` ties `step` to what is
  chosen, left and recorded. `PickHonoured` rests on lemmas about the selector:
  `SelectedHonours` (whatever alternative is taken honours the choice, one lemma
  for each kind of choice) and `OfferedIsThere` (a choice that was offered selects
  something among formats that are still there), and on `PickOK`, that choice and
  selection have not changed since. `BudgetOK` says that `bytes` is never behind
  the disk and stays within the limit before the last piece. `Total` is a fold, whose
  recursion the library's theorems cannot be instantiated for; `SumExists` and
  `SumUnique` show by least counterexamples that folds over finite sets are sums,
  `TotalOfUpdate`, `TotalMonotone` and `RecordsSum` what follows. `WarnedOK` lists
  the steps that are left once a check has seen the request (an exception other
  than `DownloadError` may end each of them); `NumbersOK` that a
  single media has shown no late number before its streams are selected.

Only model-checked, on the bounds above: the liveness properties (`ActiveEnds`,
`QueueDrains`, `ExpiredObjectsGo`, `CardSettles`, `AnalysisEnds`), which are
beyond the proof system. Every other property of a passing run is a theorem.

## 6. What the code does otherwise than it says

The two runs that end in a violation show disagreements of the code with its own
words; `findings` in `PROJECT.json` quotes them.

* `lost_artifact`: a SIGTERM right after `complete_job`'s commit, or a row read
  just before it, revokes the artifacts of a completed job, and so does a shutdown
  that kills a worker behind its commit. `OnlyKnownLoss` says that these are the
  only ways.
* `lost_copies`: a failure after the promotion makes the fallback promise local
  files that are gone, and delete the objects.

Met while modelling, without a run of their own: a cancel request between the
worker's last look at the flag and `complete_job` ends as the failure
`INTERNAL_ERROR`; a second SIGTERM during `_cleanup_job`, like a revocation
that raises there or in the dispatcher, may leave a job with artifact rows whose
files are removed, and if the job was completed before, it goes on listing them; a
removal that fails is logged and never tried again; an exception
that yt-dlp does not turn into `DownloadError` ends a cancelled download as
`INTERNAL_ERROR`, for only the handler of `DownloadError` looks at the flag; a `stop`
that runs out of time may leave a claimed job running without a worker, or a failed
one with its files, which nobody removes; the queue limit is overrun by concurrent requests
(bounded by `OverrunBounded`); a job may be created from an analysis that the
sweep has expired after `create_job` read it, and then runs without the
analysis result. In the page, the answer to a cancel takes the card away from a
job the user has opened meanwhile, and it opens a card again that was dismissed
after a poll had shown the end; the answer to a list may replace newer entries of the
history by older ones, or fill the page again after logging out.

A job ended for its time limit is recorded as cancelled, because the worker
cannot tell one SIGTERM from another. A crash between the expiry of a job and the
removal of its directories leaves them for ever, and so does one between
`reconcile_interrupted` and the removals that follow it. One raising query ends the
dispatcher while the API goes on accepting jobs. `NoLeftovers` counts all of these,
and says that there are no others.

About downloads: `build_choices` offers "at most 720p" as soon as anything is as
high, although nothing may be as low. The last alternative of the selector, `b`,
has no limit, so such a job gets the larger picture, or none ("format not
available") where picture and sound come apart. `PickHonoured` says that this is
the only exception. With two streams the progress jumps to 95 after the first
and falls back with the second; with playlists 98 is shown between two entries. What
`match_filter` refuses is skipped silently: the reason it returns is never
stored, a single media ends as `NO_ARTIFACT`, a playlist is delivered without
the entry. An archive doubles what a playlist takes on the disk, the size limit
looks at its members only.

About the rest: the answer to a new link tells an end that is up to a second
later than the one in the link, and a link made in the last second of an
artifact is dead on arrival. The lifetime of an analysis counts from its creation, not
from its result. The rate limiter never forgets a client. In the page, one failed
poll ends the analysis form, and logging out while an analysis loads leaves the
button disabled until the page is loaded again.

## 7. What is not modelled, and assumptions

* Not modelled yet: the analysis form of the page. Not modelled at all: URL
  validation and sessions (predicates without state), request parsing and
  settings, the schema migration, deployment files (they appear as the constant
  `WorkersOutliveApi` and as the restart of the service), subtitles, names and
  labels, the normalisation of playlists.
* `JobLifecycle` leaves out analyses, which use the same slots, progress numbers
  and error codes. Its queue is ordered by creation alone.
* `ArtifactStore` assumes that a killed worker's upload does not land later,
  that workers go down with the API process, and an unversioned bucket. With
  `S3_DELETE_ON_EXPIRY=false` the outbox also forgets the objects of failed
  uploads, so `NoOrphanObject` is stated for `true`.
* `Admission` has one owner and leaves out rate limits and validation, which
  only refuse.
* `WebClient` has one page and knows the server's statuses as absent, active,
  done and expired. A reload is a new page, that is, an initial state. The list of
  at most 50 jobs is the whole list, and 404 does not occur because no row of
  `jobs` is ever deleted.
* `AnalysisLifecycle` leaves out slots and raising queries, which `JobLifecycle`
  has for the same dispatcher.
* `RateLimiter` has one client and one bucket; others are independent copies.
* `Delivery` has one job with one artifact; how rows come to be is
  `ArtifactStore`, how a completed job may lose them is `JobLifecycle`.
* `Download` assumes that the limits of a filter and the meaning of the selector
  are yt-dlp's documented ones, and leaves out its own `max_filesize`, which
  declines a stream without an error.
