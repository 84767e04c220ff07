------------------------------- MODULE Admission -------------------------------
(***************************************************************************)
(* How analyses and jobs get into the queue: the handlers of POST          *)
(* /analyses and POST /jobs as far as they read and write the database,    *)
(* many of them at a time, against the dispatcher that takes operations    *)
(* from the queue and the sweep that expires old analyses.  What a handler *)
(* does between two awaits is one step; every database call is a step of   *)
(* its own, because it runs in a thread.                                   *)
(*                                                                         *)
(* Abstracted: owners (one), URLs and choices, rate limits (they only      *)
(* refuse), the order of the queue and everything about a running          *)
(* operation (JobLifecycle).                                               *)
(***************************************************************************)
EXTENDS Naturals, FiniteSets

CONSTANTS
    Requests,     \* request slots: how many POSTs are handled at a time
    Jobs,         \* ids of jobs, so a bound on how many there are
    Analyses,     \* ids of analyses
    Keys,         \* values of the Idempotency-Key header
    NoKey,        \* a request without the header
    NoAnalysis,   \* a request that posts an analysis itself
    MaxQueued     \* settings.max_queued_operations

ASSUME AdmissionAssumption ==
    /\ NoKey \notin Keys /\ NoAnalysis \notin Analyses
    /\ IsFiniteSet(Requests) /\ IsFiniteSet(Jobs) /\ IsFiniteSet(Analyses)
    /\ MaxQueued \in Nat \ {0}

VARIABLES
    rpc,        \* where the handler of a slot is, "idle" without a request
    key,        \* its idempotency key
    ana,        \* the analysis its job is to be made from
    told,       \* history: the <<key, job>> pairs answered so far
    jobs,       \* status of a job
    jobKey,     \* jobs.idempotency_key
    jobAna,     \* jobs.analysis_id
    analyses,   \* status of an analysis
    past        \* analyses whose expires_at has come

slots  == <<rpc, key, ana, told>>
tables == <<jobs, jobKey, jobAna, analyses, past>>
vars   == <<slots, tables>>

\* Past the capacity check, before the insertion.
Passed == {"validate", "analysis", "exists", "insert", "lookup"}

TypeOK ==
    /\ rpc \in [Requests -> {"idle", "replay"} \cup Passed]
    /\ key \in [Requests -> Keys \cup {NoKey}]
    /\ ana \in [Requests -> Analyses \cup {NoAnalysis}]
    /\ told \subseteq Keys \X Jobs
    /\ jobs \in [Jobs -> {"absent", "queued", "active", "ended"}]
    /\ jobKey \in [Jobs -> Keys \cup {NoKey}]
    /\ jobAna \in [Jobs -> Analyses \cup {NoAnalysis}]
    /\ analyses \in [Analyses ->
         {"absent", "queued", "running", "completed", "failed", "expired"}]
    /\ past \subseteq Analyses

Init ==
    /\ rpc = [r \in Requests |-> "idle"]
    /\ key = [r \in Requests |-> NoKey]
    /\ ana = [r \in Requests |-> NoAnalysis]
    /\ told = {}
    /\ jobs = [i \in Jobs |-> "absent"]
    /\ jobKey = [i \in Jobs |-> NoKey]
    /\ jobAna = [i \in Jobs |-> NoAnalysis]
    /\ analyses = [a \in Analyses |-> "absent"]
    /\ past = {}

-----------------------------------------------------------------------------
QueuedJobs     == {i \in Jobs : jobs[i] = "queued"}
QueuedAnalyses == {a \in Analyses : analyses[a] = "queued"}

\* queued_operation_count.
Queued == Cardinality(QueuedJobs) + Cardinality(QueuedAnalyses)

\* Mutant: the limit itself is still let in.
HasCapacityOffByOne == Queued <= MaxQueued

\* ensure_queue_capacity.
HasCapacity == Queued < MaxQueued

\* get_job_by_idempotency.
Holders(k) == {i \in Jobs : jobs[i] # "absent" /\ jobKey[i] = k}

At(r, p)   == rpc[r] = p
Goes(r, p) == rpc' = [rpc EXCEPT ![r] = p]

\* The handler is done, and the client knows which job its key stands for.
Answer(r, i) ==
    /\ Goes(r, "idle")
    /\ told' = IF key[r] = NoKey THEN told ELSE told \cup {<<key[r], i>>}

-----------------------------------------------------------------------------
(***************************************************************************)
(* POST /analyses.                                                         *)
(***************************************************************************)
\* The capacity check; the URL is validated after it, with DNS queries.
PostAnalysis(r) ==
    /\ At(r, "idle")
    /\ HasCapacity
    /\ Goes(r, "validate")
    /\ key' = [key EXCEPT ![r] = NoKey]
    /\ ana' = [ana EXCEPT ![r] = NoAnalysis]
    /\ UNCHANGED <<told, tables>>

\* Database.create_analysis.
InsertAnalysis(r, a) ==
    /\ At(r, "validate") /\ analyses[a] = "absent"
    /\ analyses' = [analyses EXCEPT ![a] = "queued"]
    /\ Goes(r, "idle")
    /\ UNCHANGED <<key, ana, told, jobs, jobKey, jobAna, past>>

-----------------------------------------------------------------------------
(***************************************************************************)
(* POST /jobs.                                                             *)
(***************************************************************************)
\* Without a key the capacity is checked at once, with one the replay first.
PostJob(r, k, a) ==
    /\ At(r, "idle")
    /\ \/ k # NoKey /\ Goes(r, "replay")
       \/ k = NoKey /\ HasCapacity /\ Goes(r, "analysis")
    /\ key' = [key EXCEPT ![r] = k]
    /\ ana' = [ana EXCEPT ![r] = a]
    /\ UNCHANGED <<told, tables>>

\* A known key is answered with its job; otherwise the capacity check follows.
Replay(r) ==
    /\ At(r, "replay")
    /\ \/ \E i \in Holders(key[r]) : Answer(r, i)
       \/ /\ Holders(key[r]) = {}
          /\ Goes(r, IF HasCapacity THEN "analysis" ELSE "idle")
          /\ UNCHANGED told
    /\ UNCHANGED <<key, ana, tables>>

\* get_analysis, then the checks on its result.
ReadAnalysis(r) ==
    /\ At(r, "analysis") /\ analyses[ana[r]] = "completed"
    /\ Goes(r, IF key[r] = NoKey THEN "insert" ELSE "exists")
    /\ UNCHANGED <<key, ana, told, tables>>

\* No URL, no finished analysis, no such choice, too large: an error answer.
Refused(r) ==
    /\ rpc[r] \in {"validate", "analysis"}
    /\ Goes(r, "idle")
    /\ UNCHANGED <<key, ana, told, tables>>

\* Database.create_job looks for the key once more ...
Exists(r) ==
    /\ At(r, "exists")
    /\ \/ \E i \in Holders(key[r]) : Answer(r, i)
       \/ Holders(key[r]) = {} /\ Goes(r, "insert") /\ UNCHANGED told
    /\ UNCHANGED <<key, ana, tables>>

\* Mutant: the index on (owner, idempotency_key) is not unique.
InsertJobAnyway(r, i) ==
    /\ At(r, "insert") /\ jobs[i] = "absent"
    /\ jobs' = [jobs EXCEPT ![i] = "queued"]
    /\ jobKey' = [jobKey EXCEPT ![i] = key[r]]
    /\ jobAna' = [jobAna EXCEPT ![i] = ana[r]]
    /\ Answer(r, i)
    /\ UNCHANGED <<key, ana, analyses, past>>

\* ... inserts the row ...
InsertJob(r, i) ==
    /\ At(r, "insert") /\ jobs[i] = "absent"
    /\ key[r] = NoKey \/ Holders(key[r]) = {}
    /\ jobs' = [jobs EXCEPT ![i] = "queued"]
    /\ jobKey' = [jobKey EXCEPT ![i] = key[r]]
    /\ jobAna' = [jobAna EXCEPT ![i] = ana[r]]
    /\ Answer(r, i)
    /\ UNCHANGED <<key, ana, analyses, past>>

\* ... or runs into the unique index ...
Conflict(r) ==
    /\ At(r, "insert")
    /\ key[r] # NoKey /\ Holders(key[r]) # {}
    /\ Goes(r, "lookup")
    /\ UNCHANGED <<key, ana, told, tables>>

\* ... and answers with the job that came first.
Lookup(r) ==
    /\ At(r, "lookup")
    /\ \E i \in Holders(key[r]) : Answer(r, i)
    /\ UNCHANGED <<key, ana, tables>>

-----------------------------------------------------------------------------
(***************************************************************************)
(* The dispatcher, the workers and time.                                   *)
(***************************************************************************)
Moves(i, from, to) ==
    /\ jobs[i] = from
    /\ jobs' = [jobs EXCEPT ![i] = to]
    /\ UNCHANGED <<slots, jobKey, jobAna, analyses, past>>

\* Leased; ended by its worker or the dispatcher; cancelled in the queue.
JobMoves(i) == Moves(i, "queued", "active") \/ Moves(i, "active", "ended")
               \/ Moves(i, "queued", "ended")

Becomes(a, from, to) ==
    /\ analyses[a] = from
    /\ analyses' = [analyses EXCEPT ![a] = to]
    /\ UNCHANGED <<slots, jobs, jobKey, jobAna, past>>

\* Leased and ended; complete_analysis has no condition on the status, so a
\* worker that outlived its verdict makes a failed or swept analysis ready again.
AnalysisMoves(a) ==
    \/ Becomes(a, "queued", "running") \/ Becomes(a, "running", "failed")
    \/ \E from \in {"running", "failed", "expired"} : Becomes(a, from, "completed")

TtlEnds(a) ==
    /\ analyses[a] # "absent" /\ a \notin past
    /\ past' = past \cup {a}
    /\ UNCHANGED <<slots, jobs, jobKey, jobAna, analyses>>

\* Mutant: only jobs that have been leased protect their analysis.
ExpireIgnoringQueue ==
    LET old == {a \in past : /\ analyses[a] \in {"completed", "failed"}
                             /\ \A i \in Jobs : jobAna[i] = a => jobs[i] # "active"}
    IN  /\ old # {}
        /\ analyses' = [a \in Analyses |-> IF a \in old THEN "expired" ELSE analyses[a]]
        /\ UNCHANGED <<slots, jobs, jobKey, jobAna, past>>

\* expire_analyses: one statement over the whole table.
ExpireAnalyses ==
    LET old == {a \in past : /\ analyses[a] \in {"completed", "failed"}
                             /\ \A i \in Jobs :
                                  jobAna[i] = a => jobs[i] \notin {"queued", "active"}}
    IN  /\ old # {}
        /\ analyses' = [a \in Analyses |-> IF a \in old THEN "expired" ELSE analyses[a]]
        /\ UNCHANGED <<slots, jobs, jobKey, jobAna, past>>

\* Mutant: reconcile uses a status of its own, which OperationStatus lacks.
RestartInterrupts ==
    /\ rpc' = [r \in Requests |-> "idle"]
    /\ jobs' = [i \in Jobs |-> IF jobs[i] = "active" THEN "interrupted" ELSE jobs[i]]
    /\ analyses' = [a \in Analyses |->
                      IF analyses[a] = "running" THEN "interrupted" ELSE analyses[a]]
    /\ UNCHANGED <<key, ana, told, jobKey, jobAna, past>>

\* The API process goes down with its requests; reconcile_interrupted ends
\* what was running, the queue stays.
Restart ==
    /\ rpc' = [r \in Requests |-> "idle"]
    /\ jobs' = [i \in Jobs |-> IF jobs[i] = "active" THEN "ended" ELSE jobs[i]]
    /\ analyses' = [a \in Analyses |->
                      IF analyses[a] = "running" THEN "failed" ELSE analyses[a]]
    /\ UNCHANGED <<key, ana, told, jobKey, jobAna, past>>

-----------------------------------------------------------------------------
Handler(r) ==
    \/ PostAnalysis(r) \/ Replay(r) \/ ReadAnalysis(r) \/ Refused(r) \/ Exists(r)
    \/ Conflict(r) \/ Lookup(r)
    \/ \E k \in Keys \cup {NoKey}, a \in Analyses : PostJob(r, k, a)
    \/ \E a \in Analyses : InsertAnalysis(r, a)
    \/ \E i \in Jobs : InsertJob(r, i)

Next ==
    \/ \E r \in Requests : Handler(r)
    \/ \E i \in Jobs : JobMoves(i)
    \/ \E a \in Analyses : AnalysisMoves(a) \/ TtlEnds(a)
    \/ ExpireAnalyses \/ Restart

Spec == Init /\ [][Next]_vars

-----------------------------------------------------------------------------
(***************************************************************************)
(* Properties.                                                             *)
(***************************************************************************)
\* The queue exceeds its limit by at most the requests that were checked while
\* another one was between its check and its insertion.
OverrunBounded == Queued <= MaxQueued - 1 + Cardinality(Requests)

\* Whoever posts with an idempotency key is told the same job, however many
\* requests with that key are under way and however often the API restarts.
OneJobPerKey == \A p, q \in told : p[1] = q[1] => p[2] = q[2]

\* Unfinished jobs of an analysis, and requests that will yet make one of it
\* because they have read it and do not look again.
Unfinished(a) == {i \in Jobs : jobAna[i] = a /\ jobs[i] \in {"queued", "active"}}
HaveRead(a)   == {r \in Requests : ana[r] = a /\ rpc[r] \in {"exists", "insert", "lookup"}}

\* A job may lose its analysis only to the race between create_job's read and
\* the sweep: the jobs without the result they were made from, and those still
\* to come, are at most the requests that were under way when the sweep came,
\* however many jobs the analysis had and however often it is swept and revived.
BlindJobsBounded ==
    \A a \in Analyses :
        analyses[a] = "expired"
          => Cardinality(Unfinished(a)) + Cardinality(HaveRead(a)) <= Cardinality(Requests)

===============================================================================
