------------------------------- MODULE WebClient -------------------------------
(***************************************************************************)
(* The page of app/static/app.js as far as it follows jobs: the job card   *)
(* (state.activeJob), the history (state.jobs), the polling loops and the  *)
(* requests whose answers arrive late, in any order, or never.  The script *)
(* runs to completion between two awaits, so a step is what lies between   *)
(* two of them.                                                            *)
(*                                                                         *)
(* Abstracted: the server's statuses to absent, active, done and expired   *)
(* (JobLifecycle has them all), what is rendered, the analysis form.       *)
(***************************************************************************)
EXTENDS Naturals

CONSTANTS
    Jobs,        \* jobs of this user
    NoJob,       \* state.activeJob = null
    Loops,       \* invocations of pollJob alive at a time
    NoLoop,      \* state.jobGeneration belongs to no invocation
    Calls,       \* other requests in flight at a time
    MaxClicks    \* bound: what the user does

ASSUME ClientAssumption ==
    NoJob \notin Jobs /\ NoLoop \notin Loops /\ Calls # {} /\ MaxClicks \in Nat

VARIABLES
    srv,       \* the jobs table of the server
    active,    \* state.activeJob.id
    shown,     \* state.activeJob.status
    jobs,      \* state.jobs
    poll,      \* where a pollJob invocation is, "off" if there is none
    target,    \* its jobId
    got,       \* the answer on its way to it
    current,   \* the invocation whose generation is state.jobGeneration
    req,       \* where a request is, "free" if the slot is unused
    kind,      \* what was asked
    about,     \* of which job
    snap,      \* the answer on its way to the page
    cookie,    \* the browser holds a valid session cookie
    dialog,    \* the modal authentication dialog is open
    clicks

page    == <<active, shown, jobs>>
pollers == <<poll, target, got>>
calls   == <<req, kind, about, snap>>
session == <<cookie, dialog>>
vars    == <<srv, page, pollers, current, calls, session, clicks>>

Statuses == {"absent", "active", "done", "expired"}
Ended    == {"done", "expired"}
Blank    == [j \in Jobs |-> "absent"]

TypeOK ==
    /\ srv \in [Jobs -> Statuses] /\ jobs \in [Jobs -> Statuses]
    /\ active \in Jobs \cup {NoJob} /\ shown \in Statuses
    /\ poll \in [Loops -> {"off", "sent", "answered", "refused", "sleep"}]
    /\ target \in [Loops -> Jobs \cup {NoJob}]
    /\ got \in [Loops -> Statuses]
    /\ current \in Loops \cup {NoLoop}
    /\ req \in [Calls -> {"free", "sent", "answered", "refused"}]
    /\ kind \in [Calls -> {"none", "start", "cancel", "purge", "list", "logout"}]
    /\ about \in [Calls -> Jobs \cup {NoJob}]
    /\ snap \in [Calls -> [Jobs -> Statuses]]
    /\ cookie \in BOOLEAN /\ dialog \in BOOLEAN
    /\ clicks \in 0..MaxClicks

\* The page has just been loaded and asks for the history.
Init ==
    /\ srv \in [Jobs -> {"absent", "active", "done"}]
    /\ active = NoJob /\ shown = "absent" /\ jobs = Blank
    /\ poll = [l \in Loops |-> "off"] /\ target = [l \in Loops |-> NoJob]
    /\ got = [l \in Loops |-> "absent"] /\ current = NoLoop
    /\ LET c == CHOOSE d \in Calls : TRUE IN
         /\ req = [d \in Calls |-> IF d = c THEN "sent" ELSE "free"]
         /\ kind = [d \in Calls |-> IF d = c THEN "list" ELSE "none"]
    /\ about = [c \in Calls |-> NoJob] /\ snap = [c \in Calls |-> Blank]
    /\ cookie = TRUE /\ dialog = FALSE /\ clicks = 0

-----------------------------------------------------------------------------
(* What every request and every loop is made of.                           *)

\* A request carries the cookie it is sent with.
Sent == IF cookie THEN "sent" ELSE "refused"

\* Slots are anonymous: the next request or loop takes any one that is free.
FreeCall == CHOOSE c \in Calls : req[c] = "free"
FreeLoop == CHOOSE l \in Loops : poll[l] = "off"

Ask(k, j) ==
    LET c == FreeCall IN
    /\ \E d \in Calls : req[d] = "free"
    /\ req' = [req EXCEPT ![c] = IF k = "logout" THEN "sent" ELSE Sent]
    /\ kind' = [kind EXCEPT ![c] = k]
    /\ about' = [about EXCEPT ![c] = j]
    /\ snap' = [snap EXCEPT ![c] = Blank]

Answer(c, j, s) ==
    /\ req' = [req EXCEPT ![c] = "answered"]
    /\ about' = [about EXCEPT ![c] = j]
    /\ snap' = [snap EXCEPT ![c] = s]
    /\ UNCHANGED kind

Free(c) ==
    /\ req' = [req EXCEPT ![c] = "free"]
    /\ kind' = [kind EXCEPT ![c] = "none"]
    /\ about' = [about EXCEPT ![c] = NoJob]
    /\ snap' = [snap EXCEPT ![c] = Blank]

\* A new generation: every older loop stops at its next check.
PollJob(j) ==
    LET l == FreeLoop IN
    /\ \E k \in Loops : poll[k] = "off"
    /\ poll' = [poll EXCEPT ![l] = Sent]
    /\ target' = [target EXCEPT ![l] = j]
    /\ current' = l
    /\ UNCHANGED got

KeepPolling == UNCHANGED <<pollers, current>>

\* state.activeJob = job.
Show(j, s) == active' = j /\ shown' = s

Upsert(j, s) == jobs' = [jobs EXCEPT ![j] = s]

-----------------------------------------------------------------------------
(* The server and the network.                                             *)

SrvEnds(j) ==
    /\ srv[j] = "active" /\ srv' = [srv EXCEPT ![j] = "done"]
    /\ UNCHANGED <<page, pollers, current, calls, session, clicks>>

SrvExpires(j) ==
    /\ srv[j] = "done" /\ srv' = [srv EXCEPT ![j] = "expired"]
    /\ UNCHANGED <<page, pollers, current, calls, session, clicks>>

Only(j, s) == [Blank EXCEPT ![j] = s]

ServeStart(c, j) ==
    /\ req[c] = "sent" /\ kind[c] = "start" /\ srv[j] = "absent"
    /\ srv' = [srv EXCEPT ![j] = "active"]
    /\ Answer(c, j, Only(j, "active"))
    /\ UNCHANGED <<page, pollers, current, session, clicks>>

\* DELETE cancels what is active, purges what has ended, and does nothing if
\* the job moves on between its two database calls.
ServeDelete(c) ==
    LET j == about[c] IN
    /\ req[c] = "sent" /\ kind[c] \in {"cancel", "purge"}
    /\ \E s \in Statuses :
         /\ \/ s = srv[j]
            \/ srv[j] = "active" /\ s = "done"
            \/ srv[j] = "done" /\ s = "expired"
         /\ srv' = [srv EXCEPT ![j] = s]
         /\ Answer(c, j, Only(j, s))
    /\ UNCHANGED <<page, pollers, current, session, clicks>>

ServeList(c) ==
    /\ req[c] = "sent" /\ kind[c] = "list"
    /\ Answer(c, NoJob, srv)
    /\ UNCHANGED <<srv, page, pollers, current, session, clicks>>

ServeLogout(c) ==
    /\ req[c] = "sent" /\ kind[c] = "logout"
    /\ Answer(c, NoJob, Blank)
    /\ UNCHANGED <<srv, page, pollers, current, session, clicks>>

ServePoll(l) ==
    /\ poll[l] = "sent"
    /\ poll' = [poll EXCEPT ![l] = "answered"]
    /\ got' = [got EXCEPT ![l] = srv[target[l]]]
    /\ UNCHANGED <<srv, page, target, current, calls, session, clicks>>

\* The request or its answer is lost, or the server refuses: a toast.
CallFails(c) ==
    /\ req[c] \in {"sent", "answered"}
    /\ Free(c)
    /\ UNCHANGED <<srv, page, pollers, current, session, clicks>>

\* 401: api() opens the dialog before the caller sees the error.
CallRefused(c) ==
    /\ req[c] = "refused"
    /\ Free(c) /\ dialog' = TRUE
    /\ UNCHANGED <<srv, page, pollers, current, cookie, clicks>>

\* The cookie runs out.
SessionEnds ==
    /\ cookie /\ cookie' = FALSE
    /\ UNCHANGED <<srv, page, pollers, current, calls, dialog, clicks>>

-----------------------------------------------------------------------------
(* Answers.                                                                *)

StartAnswered(c) ==
    LET j == about[c] IN
    /\ req[c] = "answered" /\ kind[c] = "start"
    /\ Show(j, snap[c][j]) /\ Upsert(j, snap[c][j])
    /\ PollJob(j)
    /\ Free(c)
    /\ UNCHANGED <<srv, session, clicks>>

\* Mutant: the answer is shown and the loop of another job left running.
CancelAnsweredNoPoll(c) ==
    LET j == about[c] IN
    /\ req[c] = "answered" /\ kind[c] = "cancel"
    /\ Show(j, snap[c][j]) /\ Upsert(j, snap[c][j])
    /\ KeepPolling
    /\ Free(c)
    /\ UNCHANGED <<srv, session, clicks>>

\* Whatever the card shows by now, it shows the cancelled job afterwards.
CancelAnswered(c) ==
    LET j == about[c] IN
    /\ req[c] = "answered" /\ kind[c] = "cancel"
    /\ Show(j, snap[c][j]) /\ Upsert(j, snap[c][j])
    /\ IF snap[c][j] = "active" THEN PollJob(j) ELSE KeepPolling
    /\ Free(c)
    /\ UNCHANGED <<srv, session, clicks>>

PurgeAnswered(c) ==
    LET j == about[c] IN
    /\ req[c] = "answered" /\ kind[c] = "purge"
    /\ Upsert(j, snap[c][j])
    /\ IF active = j THEN Show(j, snap[c][j]) ELSE UNCHANGED <<active, shown>>
    /\ KeepPolling
    /\ Free(c)
    /\ UNCHANGED <<srv, session, clicks>>

\* Mutant: the list is dropped instead of emptied.
LogoutAnsweredDropsList(c) ==
    /\ req[c] = "answered" /\ kind[c] = "logout"
    /\ jobs' = [j \in {} |-> "absent"] /\ Show(NoJob, "absent")
    /\ current' = NoLoop
    /\ cookie' = FALSE /\ dialog' = TRUE
    /\ Free(c)
    /\ UNCHANGED <<srv, pollers, clicks>>

\* An empty card shows the newest unfinished job of the list.
ListAnswered(c) ==
    LET unfinished == {j \in Jobs : snap[c][j] = "active"} IN
    /\ req[c] = "answered" /\ kind[c] = "list"
    /\ jobs' = snap[c]
    /\ IF active = NoJob /\ unfinished # {}
         THEN \E j \in unfinished : Show(j, "active") /\ PollJob(j)
         ELSE KeepPolling /\ UNCHANGED <<active, shown>>
    /\ Free(c)
    /\ UNCHANGED <<srv, session, clicks>>

LogoutAnswered(c) ==
    /\ req[c] = "answered" /\ kind[c] = "logout"
    /\ jobs' = Blank /\ Show(NoJob, "absent")
    /\ current' = NoLoop
    /\ cookie' = FALSE /\ dialog' = TRUE
    /\ Free(c)
    /\ UNCHANGED <<srv, pollers, clicks>>

-----------------------------------------------------------------------------
(* pollJob.                                                                *)

\* The loop's slot at phase p, with no answer on its way.  The generation of a
\* loop that has returned is nobody's.
Loop(l, p) ==
    /\ poll' = [poll EXCEPT ![l] = p]
    /\ target' = [target EXCEPT ![l] = IF p = "off" THEN NoJob ELSE @]
    /\ got' = [got EXCEPT ![l] = "absent"]
    /\ current' = IF p = "off" /\ current = l THEN NoLoop ELSE current

\* Only the generation is looked at again after the await, not the job.
PollAnswered(l) ==
    /\ poll[l] = "answered"
    /\ IF current = l
         THEN /\ Show(target[l], got[l]) /\ Upsert(target[l], got[l])
              /\ Loop(l, IF got[l] \in Ended THEN "off" ELSE "sleep")
         ELSE Loop(l, "off") /\ UNCHANGED page
    /\ UNCHANGED <<srv, calls, session, clicks>>

\* Mutant: any error ends the loop, like a 404 does.
PollFailsForGood(l) ==
    /\ poll[l] = "sent"
    /\ Loop(l, "off")
    /\ UNCHANGED <<srv, page, calls, session, clicks>>

\* Network errors and 5xx answers are retried after a pause.  A GET changes
\* nothing, so an answer that is lost is a request that was lost.
PollFails(l) ==
    /\ poll[l] = "sent"
    /\ Loop(l, IF current = l THEN "sleep" ELSE "off")
    /\ UNCHANGED <<srv, page, calls, session, clicks>>

PollRefused(l) ==
    /\ poll[l] = "refused"
    /\ dialog' = TRUE
    /\ Loop(l, IF current = l THEN "sleep" ELSE "off")
    /\ UNCHANGED <<srv, page, calls, cookie, clicks>>

Wake(l) ==
    /\ poll[l] = "sleep"
    /\ Loop(l, IF current = l /\ active = target[l] THEN Sent ELSE "off")
    /\ UNCHANGED <<srv, page, calls, session, clicks>>

-----------------------------------------------------------------------------
(* The user.  The dialog is modal: nothing else can be clicked under it.   *)

Click ==
    /\ ~dialog /\ clicks < MaxClicks /\ clicks' = clicks + 1
    /\ UNCHANGED <<srv, session>>

Start ==
    /\ Click /\ Ask("start", NoJob)
    /\ UNCHANGED <<page, pollers, current>>

\* Mutant: the generation stays.
DismissKeepsGeneration ==
    /\ Click /\ active # NoJob /\ shown # "active"
    /\ Show(NoJob, "absent")
    /\ UNCHANGED <<jobs, current, pollers, calls>>

Cancel ==
    /\ Click /\ active # NoJob /\ shown = "active"
    /\ Ask("cancel", active)
    /\ UNCHANGED <<page, pollers, current>>

Dismiss ==
    /\ Click /\ active # NoJob /\ shown # "active"
    /\ Show(NoJob, "absent") /\ current' = NoLoop
    /\ UNCHANGED <<jobs, pollers, calls>>

\* The button of an unfinished job in the history.
View(j) ==
    /\ Click /\ jobs[j] = "active"
    /\ Show(j, jobs[j]) /\ PollJob(j)
    /\ UNCHANGED <<jobs, calls>>

Purge(j) ==
    /\ Click /\ jobs[j] = "done"
    /\ Ask("purge", j)
    /\ UNCHANGED <<page, pollers, current>>

\* Opening the history or its refresh button.
LoadJobs ==
    /\ Click /\ Ask("list", NoJob)
    /\ UNCHANGED <<page, pollers, current>>

Logout ==
    /\ Click /\ Ask("logout", NoJob)
    /\ UNCHANGED <<page, pollers, current>>

\* The new cookie comes with the answer; the page loads the history with it.
Login ==
    /\ dialog /\ dialog' = FALSE /\ cookie' = TRUE
    /\ clicks < MaxClicks /\ clicks' = clicks + 1
    /\ \E c \in Calls : req[c] = "free"
    /\ req' = [req EXCEPT ![FreeCall] = "sent"]
    /\ kind' = [kind EXCEPT ![FreeCall] = "list"]
    /\ UNCHANGED <<srv, page, pollers, current, about, snap>>

-----------------------------------------------------------------------------
Server ==
    \/ \E j \in Jobs : SrvEnds(j) \/ SrvExpires(j)
    \/ \E c \in Calls, j \in Jobs : ServeStart(c, j)
    \/ \E c \in Calls : ServeDelete(c) \/ ServeList(c) \/ ServeLogout(c)
    \/ \E l \in Loops : ServePoll(l)

CallReturns(c) ==
    \/ StartAnswered(c) \/ CancelAnswered(c) \/ PurgeAnswered(c)
    \/ ListAnswered(c) \/ LogoutAnswered(c)
    \/ CallFails(c) \/ CallRefused(c)

PollMoves(l) == PollAnswered(l) \/ PollFails(l) \/ PollRefused(l) \/ Wake(l)

User ==
    \/ Start \/ Cancel \/ Dismiss \/ LoadJobs \/ Logout \/ Login
    \/ \E j \in Jobs : View(j) \/ Purge(j)

Next ==
    \/ Server \/ User \/ SessionEnds
    \/ \E c \in Calls : CallReturns(c)
    \/ \E l \in Loops : PollMoves(l)

Spec == Init /\ [][Next]_vars

\* The browser runs what is ready, and of a loop that asks again and again not
\* every request is lost.
FairSpec ==
    /\ Spec
    /\ \A l \in Loops : WF_vars(PollMoves(l)) /\ SF_vars(ServePoll(l))

-----------------------------------------------------------------------------
\* A card that shows an unfinished job is being polled: the loop of the
\* current generation exists and asks for that job, whichever answers of
\* startDownload, cancelActiveJob, purgeJob and loadJobs came late or never.
Followed ==
    active # NoJob /\ shown = "active" =>
        current # NoLoop /\ poll[current] # "off" /\ target[current] = active

\* A card the user has dismissed, or that logging out has cleared, is not
\* brought back by a poll that was under way: only a click on the history or
\* the answer to a start, a cancel or a list opens it.
DismissedStaysShut ==
    [][active = NoJob /\ active' # NoJob =>
         \/ clicks' = clicks + 1
         \/ \E c \in Calls :
              req[c] = "answered" /\ req'[c] = "free" /\ kind[c] \in {"start", "cancel", "list"}]_vars

\* Once the server has ended the job on the card, the card says so in the end
\* (or shows another job), however many polls fail, as long as the session
\* lasts.
CardSettles ==
    \A j \in Jobs :
        active = j /\ shown = "active" /\ srv[j] \in Ended
            ~> ~(active = j /\ shown = "active") \/ ~cookie
===============================================================================
