--------------------------- MODULE AnalysisLifecycle ---------------------------
(***************************************************************************)
(* Analyses, from the POST that queues one to the sweep that empties it:   *)
(* the dispatcher, its worker processes and the restarts of the API, as    *)
(* far as they meet in the analyses table.                                 *)
(*                                                                         *)
(* Abstracted: what an analysis finds; the order of the queue and of the   *)
(* monitoring pass, the slots, and queries that raise (all JobLifecycle,   *)
(* whose dispatcher is the same one); the capacity check (Admission).      *)
(***************************************************************************)
EXTENDS Naturals, FiniteSets

CONSTANTS
    Analyses,      \* the analyses clients may ask for
    NoAnalysis,    \* value of `hold` when the dispatcher handles none
    MaxStarts      \* bound: starts of the API process

ASSUME AnalysisAssumption == NoAnalysis \notin Analyses /\ MaxStarts \in Nat

VARIABLES
    status,    \* analyses.status, "absent" before the row exists
    result,    \* is analyses.result_json set?
    due,       \* has analyses.expires_at, fixed at the insertion, come?
    worker,    \* where the worker process of an analysis is
    sig,       \* a SIGTERM it has not handled yet
    api,       \* life of the API process and of the dispatcher in it
    hold,      \* the analysis the dispatcher handles
    act,       \* what it does with it
    seen,      \* the status _monitor_running read for it
    running,   \* keys of Dispatcher.running
    clock,     \* age of a running operation
    starts,    \* how often the API process was started
    orphans    \* history: live workers the dispatcher has given up

rows    == <<status, result, due>>
process == <<worker, sig>>
loop    == <<api, hold, act, seen, running, clock>>
vars    == <<rows, process, loop, starts, orphans>>

Ended    == {"completed", "failed", "expired"}
Statuses == {"absent", "queued", "running"} \cup Ended
Alive    == {"boot", "work", "done", "handler"}
Live(a)  == worker[a] \in Alive

TypeOK ==
    /\ status \in [Analyses -> Statuses]
    /\ result \in [Analyses -> BOOLEAN] /\ due \in [Analyses -> BOOLEAN]
    /\ worker \in [Analyses -> {"none", "exited"} \cup Alive]
    /\ sig \in [Analyses -> BOOLEAN]
    /\ api \in {"down", "up", "stopping", "grace", "final"}
    /\ hold \in Analyses \cup {NoAnalysis}
    /\ act \in {"none", "visit", "finish", "spawn", "pid", "startfail"}
    /\ seen \in Statuses
    /\ running \subseteq Analyses
    /\ clock \in [Analyses -> {"fresh", "late", "termed", "overdue"}]
    /\ starts \in 0..MaxStarts
    /\ orphans \subseteq Analyses

Init ==
    /\ status = [a \in Analyses |-> "absent"]
    /\ result = [a \in Analyses |-> FALSE] /\ due = [a \in Analyses |-> FALSE]
    /\ worker = [a \in Analyses |-> "none"] /\ sig = [a \in Analyses |-> FALSE]
    /\ api = "down" /\ hold = NoAnalysis /\ act = "none" /\ seen = "absent"
    /\ running = {} /\ clock = [a \in Analyses |-> "fresh"]
    /\ starts = 0 /\ orphans = {}

-----------------------------------------------------------------------------
(* The transactions.                                                       *)

\* POST /analyses: Database.create_analysis.
Create(a) ==
    /\ api = "up" /\ status[a] = "absent"
    /\ status' = [status EXCEPT ![a] = "queued"]
    /\ UNCHANGED <<result, due, process, loop, starts, orphans>>

\* Mutant: complete_analysis forgets that the row's result is its product.
CompleteEmpty(a) ==
    status' = [status EXCEPT ![a] = "completed"] /\ UNCHANGED <<result, due>>

\* Database.complete_analysis: whatever the status is.
Complete(a) ==
    /\ status' = [status EXCEPT ![a] = "completed"]
    /\ result' = [result EXCEPT ![a] = TRUE]
    /\ UNCHANGED due

\* Mutant: a terminated analysis is called cancelled, as a job would be.
FailAsJob(a) ==
    /\ status' = [status EXCEPT ![a] = IF worker[a] = "handler" THEN "cancelled" ELSE @]
    /\ UNCHANGED <<result, due>>

\* Mutant: fail_analysis without its condition on the status.
FailAlways(a) ==
    status' = [status EXCEPT ![a] = "failed"] /\ UNCHANGED <<result, due>>

\* Database.fail_analysis: only completed and expired rows are left alone.
Fail(a) ==
    /\ status' = [status EXCEPT ![a] = IF @ \in {"completed", "expired"} THEN @ ELSE "failed"]
    /\ UNCHANGED <<result, due>>

\* Mutant: the sweep keeps the result of what it expires.
ExpireRowsOnly(S) ==
    /\ status' = [a \in Analyses |-> IF a \in S THEN "expired" ELSE status[a]]
    /\ UNCHANGED result

ExpireRows(S) ==
    /\ status' = [a \in Analyses |-> IF a \in S THEN "expired" ELSE status[a]]
    /\ result' = [a \in Analyses |-> a \notin S /\ result[a]]

\* cleanup: Database.expire_analyses takes every ended row that is due, but for
\* the completed ones an unfinished job was made from.
Sweep ==
    /\ api = "up" /\ hold = NoAnalysis
    /\ \E held \in SUBSET {a \in Analyses : status[a] = "completed"} :
         ExpireRows({a \in Analyses \ held : due[a] /\ status[a] \in {"completed", "failed"}})
    /\ UNCHANGED <<due, process, loop, starts, orphans>>

\* analysis_ttl_minutes have passed since the insertion.
ComesDue(a) ==
    /\ status[a] # "absent"
    /\ due' = [due EXCEPT ![a] = TRUE]
    /\ UNCHANGED <<status, result, process, loop, starts, orphans>>

-----------------------------------------------------------------------------
(* The worker process: main and run_analysis.                              *)

Worker(a, from, to) == worker[a] = from /\ worker' = [worker EXCEPT ![a] = to]

\* main, and the look at the row: only a running analysis is taken up.
WLoad(a) ==
    /\ Worker(a, "boot", IF status[a] = "running" THEN "work" ELSE "exited")
    /\ UNCHANGED rows

\* The analysis ends, with a result or with an error, some time later.
WComplete(a) == Worker(a, "work", "done") /\ Complete(a)
WRaise(a)    == Worker(a, "work", "handler") /\ UNCHANGED rows
WReturn(a)   == Worker(a, "done", "exited") /\ UNCHANGED rows
WFail(a)     == Worker(a, "handler", "exited") /\ Fail(a)

WorkerStep(a) ==
    /\ WLoad(a) \/ WComplete(a) \/ WRaise(a) \/ WReturn(a) \/ WFail(a)
    /\ sig' = [sig EXCEPT ![a] = @ /\ worker'[a] # "exited"]
    /\ UNCHANGED <<loop, starts, orphans>>

\* SIGTERM: in the try block, even behind complete_analysis, it reaches the
\* handler; before it and in a handler nobody catches it.
TermArrives(a) ==
    /\ sig[a] /\ Live(a)
    /\ sig' = [sig EXCEPT ![a] = FALSE]
    /\ worker' = [worker EXCEPT ![a] = IF @ \in {"work", "done"} THEN "handler" ELSE "exited"]
    /\ UNCHANGED <<rows, loop, starts, orphans>>

\* It crashes, or the OOM killer takes it.
WorkerDies(a) ==
    /\ Live(a)
    /\ worker' = [worker EXCEPT ![a] = "exited"]
    /\ sig' = [sig EXCEPT ![a] = FALSE]
    /\ UNCHANGED <<rows, loop, starts, orphans>>

-----------------------------------------------------------------------------
(* The dispatcher, which does one thing at a time.                         *)

Signal(S) == sig' = [a \in Analyses |-> sig[a] \/ (a \in S /\ Live(a))]
Kill(S) ==
    /\ worker' = [a \in Analyses |-> IF a \in S /\ Live(a) THEN "exited" ELSE worker[a]]
    /\ sig' = [a \in Analyses |-> sig[a] /\ a \notin S]

Takes(a, what) == hold' = a /\ act' = what
Frees == hold' = NoAnalysis /\ act' = "none"

Claim(a) ==
    /\ api = "up" /\ hold = NoAnalysis /\ status[a] = "queued"
    /\ status' = [status EXCEPT ![a] = "running"]
    /\ Takes(a, "spawn")
    /\ UNCHANGED <<result, due, process, api, seen, running, clock, starts, orphans>>

\* _spawn: the process starts and is registered, then its pid is recorded.
Spawn ==
    /\ act = "spawn"
    /\ worker' = [worker EXCEPT ![hold] = "boot"]
    /\ running' = running \cup {hold}
    /\ clock' = [clock EXCEPT ![hold] = "fresh"]
    /\ Takes(hold, "pid")
    /\ UNCHANGED <<rows, sig, api, seen, starts, orphans>>

SetPid ==
    /\ act = "pid" /\ Frees
    /\ UNCHANGED <<rows, process, api, seen, running, clock, starts, orphans>>

\* Either call raises.  Behind the second one there is a worker by now.
SpawnRaises ==
    /\ act \in {"spawn", "pid"}
    /\ Takes(hold, "startfail")
    /\ orphans' = IF act = "pid" THEN orphans \cup {hold} ELSE orphans
    /\ UNCHANGED <<rows, process, api, seen, running, clock, starts>>

StartFailed ==
    /\ act = "startfail"
    /\ Fail(hold) /\ Frees
    /\ UNCHANGED <<process, api, seen, running, clock, starts, orphans>>

\* _monitor_running: first the row, then, an await later, the return code.
Read(a) ==
    /\ api \in {"up", "stopping", "grace"} /\ hold = NoAnalysis /\ a \in running
    /\ Takes(a, "visit") /\ seen' = status[a]
    /\ UNCHANGED <<rows, process, api, running, clock, starts, orphans>>

VisitExited ==
    /\ act = "visit" /\ worker[hold] = "exited"
    /\ running' = running \ {hold}
    /\ IF seen \in Ended THEN Frees ELSE Takes(hold, "finish")
    /\ seen' = "absent"
    /\ UNCHANGED <<rows, process, api, clock, starts, orphans>>

\* Mutant: an analysis fails as soon as its time is up, not with its worker.
VisitAliveHasty ==
    /\ act = "visit" /\ Live(hold)
    /\ clock[hold] = "late" /\ Signal({hold})
    /\ clock' = [clock EXCEPT ![hold] = "termed"]
    /\ Fail(hold) /\ Frees /\ seen' = "absent"
    /\ UNCHANGED <<worker, api, running, starts, orphans>>

\* Mutant: a worker that ignores its SIGTERM is left alone.
VisitAlivePatient ==
    /\ act = "visit" /\ Live(hold)
    /\ \/ /\ clock[hold] = "late" /\ Signal({hold})
          /\ clock' = [clock EXCEPT ![hold] = "termed"]
       \/ clock[hold] # "late" /\ UNCHANGED <<sig, clock>>
    /\ Frees /\ seen' = "absent"
    /\ UNCHANGED <<rows, worker, api, running, starts, orphans>>

\* SIGTERM when the time limit has passed, SIGKILL a grace period later.
VisitAlive ==
    /\ act = "visit" /\ Live(hold)
    /\ \/ /\ clock[hold] = "late" /\ Signal({hold})
          /\ clock' = [clock EXCEPT ![hold] = "termed"]
          /\ UNCHANGED worker
       \/ clock[hold] = "overdue" /\ Kill({hold}) /\ UNCHANGED clock
       \/ clock[hold] \in {"fresh", "termed"} /\ UNCHANGED <<process, clock>>
    /\ Frees /\ seen' = "absent"
    /\ UNCHANGED <<rows, api, running, starts, orphans>>

\* The rest of _finish_operation.
Finish ==
    /\ act = "finish"
    /\ Fail(hold) /\ Frees
    /\ UNCHANGED <<process, api, seen, running, clock, starts, orphans>>

-----------------------------------------------------------------------------
(* Shutdown, crash and restart of the API process.                         *)

\* The stop event.  systemd stops a control group: its SIGTERM may reach the
\* workers as well.
Stop ==
    /\ api = "up" /\ api' = "stopping"
    /\ \E S \in {{}, Analyses} : Signal(S)
    /\ UNCHANGED <<rows, worker, hold, act, seen, running, clock, starts, orphans>>

\* _terminate_all: SIGTERM for everybody, monitoring until the grace period
\* ends, then SIGKILL, and a verdict that does not look at the row.
TerminateAll ==
    /\ api = "stopping" /\ hold = NoAnalysis
    /\ Signal(running) /\ api' = "grace"
    /\ UNCHANGED <<rows, worker, hold, act, seen, running, clock, starts, orphans>>

GraceEnd ==
    /\ api = "grace" /\ hold = NoAnalysis
    /\ Kill(running) /\ api' = "final"
    /\ UNCHANGED <<rows, hold, act, seen, running, clock, starts, orphans>>

EndOperation(a) ==
    /\ api = "final" /\ a \in running
    /\ Fail(a) /\ running' = running \ {a}
    /\ UNCHANGED <<process, api, hold, act, seen, clock, starts, orphans>>

\* The process ends; its workers, in sessions of their own, may go on.
Gone ==
    /\ api' = "down" /\ Frees /\ seen' = "absent" /\ running' = {}
    /\ clock' = [a \in Analyses |-> "fresh"]
    /\ \/ /\ orphans' = orphans \cup {a \in Analyses : Live(a)} /\ UNCHANGED process
       \/ Kill(Analyses) /\ UNCHANGED orphans
    /\ UNCHANGED <<rows, starts>>

Exit  == api = "final" /\ running = {} /\ Gone
Crash == api # "down" /\ Gone

\* Database.reconcile_interrupted, before requests are served.
Start ==
    /\ api = "down" /\ starts < MaxStarts
    /\ api' = "up" /\ starts' = starts + 1
    /\ status' = [a \in Analyses |-> IF status[a] = "running" THEN "failed" ELSE status[a]]
    /\ UNCHANGED <<result, due, process, hold, act, seen, running, clock, orphans>>

\* analysis_timeout_seconds, then cancel_grace_seconds, have passed.
TimePasses(a) ==
    /\ a \in running /\ clock[a] \in {"fresh", "termed"}
    /\ clock' = [clock EXCEPT ![a] = IF @ = "fresh" THEN "late" ELSE "overdue"]
    /\ UNCHANGED <<rows, process, api, hold, act, seen, running, starts, orphans>>

-----------------------------------------------------------------------------
Handle == Spawn \/ SetPid \/ SpawnRaises \/ StartFailed \/ VisitExited \/ VisitAlive \/ Finish

Next ==
    \/ Handle \/ Sweep \/ Stop \/ TerminateAll \/ GraceEnd \/ Exit \/ Crash \/ Start
    \/ \E a \in Analyses :
         \/ Create(a) \/ ComesDue(a) \/ Claim(a) \/ Read(a) \/ EndOperation(a)
         \/ WorkerStep(a) \/ TermArrives(a) \/ WorkerDies(a) \/ TimePasses(a)

Spec == Init /\ [][Next]_vars

\* The event loop goes on: what the dispatcher has begun it ends, every pass
\* visits every operation, claims are made and the shutdown gets its turn
\* between them; time passes, and the service manager restarts the process.
\* Nothing is assumed of the workers.
Fairness ==
    /\ WF_vars(Handle) /\ WF_vars(Start) /\ WF_vars(Exit)
    /\ SF_vars(TerminateAll) /\ SF_vars(GraceEnd)
    /\ \A a \in Analyses : /\ SF_vars(Read(a)) /\ WF_vars(EndOperation(a))
                           /\ WF_vars(TimePasses(a))

FairSpec == Spec /\ Fairness

-----------------------------------------------------------------------------
(***************************************************************************)
(* Properties.                                                             *)
(***************************************************************************)
\* POST /jobs and the page take a completed analysis for one with a result, and
\* an analysis that failed or was swept for one without: no late verdict, no
\* sweep and no worker that completes a row it no longer owns breaks that.
ResultMatches == \A a \in Analyses : result[a] <=> status[a] = "completed"

\* A result that is in the table stays there until it is swept: not a SIGTERM
\* behind the commit, not a verdict on a row read before it, neither shutdown
\* nor restart takes it away.
CompletedSurvives ==
    [][\A a \in Analyses : status[a] = "completed" => status'[a] \in {"completed", "expired"}]_vars

\* complete_analysis has no condition on the status, so a late worker turns a
\* failed or swept analysis back into a completed one.  That takes a worker the
\* dispatcher gave up alive: a verdict on a supervised one waits for its exit.
OnlyOrphansReopen ==
    [][\A a \in Analyses :
         status[a] \in {"failed", "expired"} /\ status'[a] \notin {"failed", "expired"}
           => a \in orphans]_vars

\* A claimed analysis ends, though its extractor may hang and ignore SIGTERM,
\* as long as the API process is started again when it has gone down.
AnalysisEnds ==
    \A a \in Analyses :
      status[a] = "running" ~> status[a] # "running" \/ (api = "down" /\ starts = MaxStarts)

===============================================================================
