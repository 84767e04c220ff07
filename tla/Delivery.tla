------------------------------- MODULE Delivery -------------------------------
(***************************************************************************)
(* How a finished artifact is handed out: the handlers of GET /artifacts,  *)
(* POST /direct-links and GET /d/ against the clock, the sweep of expired  *)
(* jobs, evictions and purges.  A handler looks at the clock, reads the    *)
(* row in a thread and signs in another one, and whatever it found may be  *)
(* out of date by then.                                                    *)
(*                                                                         *)
(* The clock counts ticks, several to a second: the database compares      *)
(* exact times, a link and a presigned URL end at whole seconds.           *)
(* Abstracted: all jobs but one and its one artifact, owners, HEAD, ranges *)
(* and headers, forged signatures, how the rows come to be (ArtifactStore) *)
(* and how a completed job may lose them (JobLifecycle.OnlyKnownLoss).     *)
(***************************************************************************)
EXTENDS Integers

CONSTANTS
    Requests,    \* request slots: how many are handled at a time
    Tick,        \* ticks in a second
    Ttl,         \* settings.artifact_ttl_hours, in ticks
    LinkTtls,    \* the ttl_minutes clients may ask for, in ticks
    MaxLink,     \* settings.direct_link_max_ttl_minutes and the slack, in seconds
    PresignTtl,  \* settings.s3_presign_ttl_seconds
    NoLink,      \* a GET /artifacts, which needs no link
    NoRow,       \* what get_artifact finds when there is none
    Horizon      \* bound: the last tick that is looked at

ASSUME DeliveryAssumption ==
    /\ Tick \in Nat \ {0} /\ Ttl \in Nat \ {0} /\ LinkTtls \subseteq Nat \ {0}
    /\ MaxLink \in Nat /\ PresignTtl \in Nat \ {0} /\ Horizon \in Nat
    /\ NoLink \notin Nat
    /\ NoRow \notin [exp : Nat, s3 : BOOLEAN, local : BOOLEAN]

VARIABLES
    now,      \* the clock
    job,      \* jobs.status, as far as it matters here
    jobExp,   \* jobs.expires_at
    row,      \* the artifact's row: expires_at, storage_backend, local_available
    file,     \* is the local file there?
    links,    \* the ends of the links signed so far, in seconds
    kept,     \* history: nobody has purged or evicted the job
    pc,       \* where the handler of a slot is, "idle" without a request
    asked,    \* the link it was asked with
    begun,    \* when it looked at the clock first
    left,     \* the seconds its URL may live
    snap,     \* the row it has read
    late,     \* history: the row was gone before it began
    answer,   \* what it has answered
    until     \* the end of the URL it has answered, in seconds

world   == <<job, jobExp, row, file, kept>>
handler == <<pc, asked, begun, left, snap, late, answer, until>>
vars    == <<now, world, links, handler>>

Row == [exp : Nat, s3 : BOOLEAN, local : BOOLEAN]

TypeOK ==
    /\ now \in Nat
    /\ job \in {"working", "completed", "expired"}
    /\ jobExp \in Nat
    /\ row \in Row \cup {NoRow}
    /\ file \in BOOLEAN /\ kept \in BOOLEAN
    /\ links \subseteq Nat
    /\ pc \in [Requests -> {"idle", "read", "check", "sign", "local", "linkread", "linkmake"}]
    /\ asked \in [Requests -> Nat \cup {NoLink}]
    /\ begun \in [Requests -> Nat]
    /\ left \in [Requests -> Nat]
    /\ snap \in [Requests -> Row \cup {NoRow}]
    /\ late \in [Requests -> BOOLEAN]
    /\ answer \in [Requests -> {"none", "refused", "file", "url"}]
    /\ until \in [Requests -> Nat]

\* The job has just been queued: create_job has given it a first expires_at.
Init ==
    /\ now = 0 /\ job = "working" /\ jobExp = Ttl
    /\ row = NoRow /\ file = FALSE /\ kept = TRUE /\ links = {}
    /\ pc = [r \in Requests |-> "idle"] /\ asked = [r \in Requests |-> NoLink]
    /\ begun = [r \in Requests |-> 0] /\ left = [r \in Requests |-> 0]
    /\ snap = [r \in Requests |-> NoRow] /\ late = [r \in Requests |-> FALSE]
    /\ answer = [r \in Requests |-> "none"] /\ until = [r \in Requests |-> 0]

\* int() of a moment: the second it lies in.
Second(t) == t \div Tick

Least(a, b) == IF a <= b THEN a ELSE b
Most(a, b)  == IF a >= b THEN a ELSE b

-----------------------------------------------------------------------------
(* The life of the artifact.                                               *)

\* Mutant: complete_job leaves the job's own expires_at as create_job set it.
CompleteRowOnly ==
    /\ job = "working" /\ job' = "completed"
    /\ \E s3, local \in BOOLEAN :
         /\ s3 \/ local
         /\ row' = [exp |-> now + Ttl, s3 |-> s3, local |-> local] /\ file' = local
    /\ UNCHANGED <<now, jobExp, kept, links, handler>>

\* The artifact is published and complete_job dates it and the job anew.
Complete ==
    /\ job = "working" /\ job' = "completed"
    /\ \E s3, local \in BOOLEAN :
         /\ s3 \/ local
         /\ row' = [exp |-> now + Ttl, s3 |-> s3, local |-> local] /\ file' = local
    /\ jobExp' = now + Ttl
    /\ UNCHANGED <<now, kept, links, handler>>

\* mark_job_expired; the files go in a step of their own.
MarkExpired == job = "completed" /\ job' = "expired" /\ row' = NoRow

\* cleanup: expired_jobs and mark_job_expired.
Sweep ==
    /\ jobExp < now /\ MarkExpired
    /\ UNCHANGED <<now, jobExp, file, kept, links, handler>>

\* DELETE /jobs (purge_job), or the eviction of the oldest jobs when the disk is
\* full (cleanup).
PurgeOrEvict ==
    /\ MarkExpired /\ kept' = FALSE
    /\ UNCHANGED <<now, jobExp, file, links, handler>>

RemoveFiles ==
    /\ job = "expired" /\ file /\ file' = FALSE
    /\ UNCHANGED <<now, job, jobExp, row, kept, links, handler>>

Elapse ==
    /\ now < Horizon /\ now' = now + 1
    /\ UNCHANGED <<world, links, handler>>

-----------------------------------------------------------------------------
(* The handlers.                                                           *)

Goes(r, from, to) == pc[r] = from /\ pc' = [pc EXCEPT ![r] = to]
Set(f, r, v) == [f EXCEPT ![r] = v]

\* A request comes in; its slot forgets the one before.
Arrives(r, p, link, ttl) ==
    /\ Goes(r, "idle", p)
    /\ asked' = Set(asked, r, link) /\ left' = Set(left, r, ttl)
    /\ begun' = Set(begun, r, now) /\ late' = Set(late, r, job = "expired")
    /\ answer' = Set(answer, r, "none") /\ until' = Set(until, r, 0)
    /\ UNCHANGED <<now, world, links, snap>>

Answers(r, a) == pc' = Set(pc, r, "idle") /\ answer' = Set(answer, r, a)

\* GET /artifacts/<id> with a session.
GetArtifact(r) == Arrives(r, "read", NoLink, PresignTtl)

\* Mutant: a link that has ended is found out too late.
GetDirectUnchecked(r, link) ==
    /\ link <= Second(now) + MaxLink
    /\ Arrives(r, "read", link, link - Second(now))

\* GET /d/<id>: the link is looked at before the row is.
GetDirect(r, link) ==
    /\ link > Second(now) /\ link <= Second(now) + MaxLink
    /\ Arrives(r, "read", link, Most(1, link - Second(now)))

\* POST /artifacts/<id>/direct-links.
PostLink(r) == Arrives(r, "linkread", NoLink, 0)

\* Mutant: a row that was read once is taken from a cache.
ReadRowCached(r, from, to) ==
    /\ Goes(r, from, to)
    /\ snap' = Set(snap, r, IF snap[r] = NoRow THEN row ELSE snap[r])
    /\ UNCHANGED <<now, world, links, asked, begun, left, late, answer, until>>

\* get_artifact, in a thread.  The row of a job that is not completed is no use.
ReadRow(r, from, to) ==
    /\ Goes(r, from, to)
    /\ snap' = Set(snap, r, row)
    /\ UNCHANGED <<now, world, links, asked, begun, left, late, answer, until>>

\* require_ready_artifact, on the row as it was read and the clock as it is.
Ready(r) == snap[r] # NoRow /\ snap[r].exp > now

\* Mutant: the presigned URL may live as long as the link says.
SignForUnlimited(r) == left[r]

\* deliver_artifact: what is left of the artifact, at least a second, limits
\* what is left of the link.
SignFor(r) == Least(left[r], Most(1, Second(snap[r].exp - now)))

CheckRemote(r) ==
    /\ Goes(r, "check", "sign") /\ Ready(r) /\ snap[r].s3
    /\ left' = Set(left, r, SignFor(r))
    /\ UNCHANGED <<now, world, links, asked, begun, snap, late, answer, until>>

CheckLocal(r) ==
    /\ Goes(r, "check", "local") /\ Ready(r) /\ ~snap[r].s3
    /\ UNCHANGED <<now, world, links, asked, begun, left, snap, late, answer, until>>

CheckRefused(r) ==
    /\ pc[r] \in {"check", "linkmake"} /\ ~Ready(r)
    /\ Answers(r, "refused")
    /\ UNCHANGED <<now, world, links, asked, begun, left, snap, late, until>>

\* presign: the URL counts its life from the second it is signed in.
Sign(r) ==
    /\ pc[r] = "sign"
    /\ until' = Set(until, r, Second(now) + Most(1, Least(left[r], PresignTtl)))
    /\ Answers(r, "url")
    /\ UNCHANGED <<now, world, links, asked, begun, left, snap, late>>

\* Signing fails: a local copy takes its place.
SignFails(r) ==
    /\ Goes(r, "sign", "local")
    /\ UNCHANGED <<now, world, links, asked, begun, left, snap, late, answer, until>>

ServeLocal(r) ==
    /\ pc[r] = "local"
    /\ Answers(r, IF snap[r].local /\ file THEN "file" ELSE "refused")
    /\ UNCHANGED <<now, world, links, asked, begun, left, snap, late, until>>

\* No link outlives the artifact, as its row has it.
LinkEnd(r, ttl) == Least(now + ttl, snap[r].exp)

MakeLink(r, ttl) ==
    /\ Goes(r, "linkmake", "idle") /\ Ready(r)
    /\ links' = links \cup {Second(LinkEnd(r, ttl))}
    /\ UNCHANGED <<now, world, asked, begun, left, snap, late, answer, until>>

-----------------------------------------------------------------------------
Handler(r) ==
    \/ GetArtifact(r) \/ PostLink(r) \/ \E link \in links : GetDirect(r, link)
    \/ ReadRow(r, "read", "check") \/ ReadRow(r, "linkread", "linkmake")
    \/ CheckRemote(r) \/ CheckLocal(r) \/ CheckRefused(r)
    \/ Sign(r) \/ SignFails(r) \/ ServeLocal(r)
    \/ \E ttl \in LinkTtls : MakeLink(r, ttl)

Next ==
    \/ Complete \/ Sweep \/ PurgeOrEvict \/ RemoveFiles \/ Elapse
    \/ \E r \in Requests : Handler(r)

Spec == Init /\ [][Next]_vars

-----------------------------------------------------------------------------
(***************************************************************************)
(* Properties.                                                             *)
(***************************************************************************)
\* A link keeps its word: until the second it carries its artifact can be read
\* and has not expired, unless the job was purged or evicted.  The link is made
\* from the artifact's expires_at, the sweep goes by the job's.
LinkKeepsItsWord ==
    kept => \A link \in links : now < link * Tick => row # NoRow /\ row.exp > now

\* A request that comes in after the job was swept, purged or evicted is not
\* served, with whatever link, though the files may still be there.
RevokedAtOnce ==
    \A r \in Requests : answer[r] \in {"file", "url"} => ~late[r]

\* A presigned URL dies with the link it was asked with and with the artifact,
\* give or take the time the handler took and a second.  In spite of the
\* clamps to a second, of clocks read at three moments and of rounding.
Excess(r, end) == until[r] * Tick - end
EndsInTime(r) ==
    /\ asked[r] # NoLink => Excess(r, asked[r] * Tick) < now - begun[r] + Tick
    /\ Excess(r, snap[r].exp) < now - begun[r] + Tick
UrlEndsInTime == \A r \in Requests : answer[r] = "url" => EndsInTime(r)

===============================================================================
