------------------------------ MODULE JobContract -----------------------------
(***************************************************************************)
(* What the service promises a client about a download job, whoever does   *)
(* the work and whatever goes wrong: a job runs at most once, it is        *)
(* delivered only if its cancellation was never asked for, an ended job    *)
(* stays ended, and what has expired never comes back.                     *)
(***************************************************************************)
CONSTANT Jobs

VARIABLES
    phase,   \* where the job is in its life
    wish     \* did the client ask for its cancellation?

vars == <<phase, wish>>

Phases == {"absent", "waiting", "working", "delivered", "dropped", "gone"}

TypeOK == phase \in [Jobs -> Phases] /\ wish \in [Jobs -> BOOLEAN]

Init ==
    /\ phase = [j \in Jobs |-> "absent"]
    /\ wish = [j \in Jobs |-> FALSE]

Move(j, from, to) == phase[j] \in from /\ phase' = [phase EXCEPT ![j] = to]

Submit(j)  == Move(j, {"absent"}, "waiting") /\ UNCHANGED wish
Begin(j)   == Move(j, {"waiting"}, "working") /\ UNCHANGED wish
Deliver(j) == ~wish[j] /\ Move(j, {"working"}, "delivered") /\ UNCHANGED wish
Drop(j)    == Move(j, {"working"}, "dropped") /\ UNCHANGED wish
Expire(j)  == Move(j, {"delivered", "dropped"}, "gone") /\ UNCHANGED wish

\* A cancellation is only ever asked for while the job has not ended.
Ask(j) ==
    /\ phase[j] \in {"waiting", "working"}
    /\ wish' = [wish EXCEPT ![j] = TRUE]
    /\ phase' = [phase EXCEPT ![j] = IF @ = "waiting" THEN "dropped" ELSE @]

\* A restart of the service drops all work in progress at once.
Restart ==
    /\ phase' = [j \in Jobs |-> IF phase[j] = "working" THEN "dropped" ELSE phase[j]]
    /\ UNCHANGED wish

Next ==
    \/ Restart
    \/ \E j \in Jobs : \/ Submit(j) \/ Begin(j) \/ Deliver(j) \/ Drop(j)
                       \/ Expire(j) \/ Ask(j)

Spec == Init /\ [][Next]_vars
===============================================================================
