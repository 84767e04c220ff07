---------------------------- MODULE AnalysisProofs ----------------------------
(***************************************************************************)
(* What the analyses table keeps, whatever the number of analyses and of   *)
(* restarts: results that match their status, completed rows that stay     *)
(* so, and verdicts that only given-up workers overturn.                   *)
(***************************************************************************)
EXTENDS AnalysisLifecycle, TLAPS

\* The dispatcher holds an analysis as long as it does something with it, and
\* has let go of everything when it is down or has killed what was left.
HoldOK ==
    /\ act # "none" <=> hold # NoAnalysis
    /\ api \in {"down", "final"} => act = "none"
    /\ api = "down" => running = {}

\* A worker is started once, for a row that was claimed, and no verdict of the
\* dispatcher meets a live worker it has not given up.
VerdictOK ==
    /\ \A a \in Analyses : status[a] \in {"absent", "queued"} => worker[a] = "none"
    /\ act = "spawn" => worker[hold] = "none" /\ status[hold] = "running"
    /\ act = "finish" => ~Live(hold)
    /\ act = "startfail" => ~Live(hold) \/ hold \in orphans

\* A live worker that was not given up is supervised, and at work on a row
\* that is still its own.
Owned ==
    \A a \in Analyses :
      Live(a) /\ a \notin orphans =>
        /\ a \in running /\ api # "final"
        /\ worker[a] \in {"boot", "work"} => status[a] = "running"

IInv == TypeOK /\ HoldOK /\ VerdictOK /\ Owned

-----------------------------------------------------------------------------
(***************************************************************************)
(* The inductive invariant, one group of actors at a time.                 *)
(***************************************************************************)
LEMMA InitIInv == Init => IInv
BY AnalysisAssumption
   DEF Init, IInv, TypeOK, HoldOK, VerdictOK, Owned, Statuses, Live, Alive

\* The API handler and the passing of time.
LEMMA AsideIInv ==
    ASSUME IInv, NEW a \in Analyses, Create(a) \/ ComesDue(a) \/ TimePasses(a)
    PROVE  IInv'
<1> USE DEF IInv, Create, ComesDue, TimePasses, rows, process, loop
<1>1. TypeOK'
  BY DEF TypeOK, Statuses, Ended
<1>2. HoldOK'
  BY DEF HoldOK
<1>3. VerdictOK'
  BY DEF VerdictOK, HoldOK, TypeOK, Live
<1>4. Owned'
  BY DEF Owned, VerdictOK, TypeOK, Live, Alive
<1> QED
  BY <1>1, <1>2, <1>3, <1>4

\* A worker process, its signals and its death.
LEMMA WorkerIInv ==
    ASSUME IInv, NEW a \in Analyses, WorkerStep(a) \/ TermArrives(a) \/ WorkerDies(a)
    PROVE  IInv'
<1> USE DEF IInv, rows, loop, Alive, Live, TypeOK
<1>1. CASE WorkerStep(a)
  <2> USE <1>1 DEF WorkerStep, WLoad, WComplete, WRaise, WReturn, WFail, Worker, Complete, Fail
  <2>1. TypeOK'
    BY DEF Statuses, Ended
  <2>2. HoldOK'
    BY DEF HoldOK
  <2>3. VerdictOK'
    BY DEF VerdictOK, HoldOK
  <2>4. Owned'
    BY DEF Owned, VerdictOK
  <2> QED
    BY <2>1, <2>2, <2>3, <2>4
<1>2. CASE TermArrives(a) \/ WorkerDies(a)
  <2> USE <1>2 DEF TermArrives, WorkerDies
  <2>1. TypeOK' /\ HoldOK'
    BY DEF HoldOK
  <2>2. VerdictOK'
    BY DEF VerdictOK, HoldOK
  <2>3. Owned'
    BY DEF Owned
  <2> QED
    BY <2>1, <2>2, <2>3
<1> QED
  BY <1>1, <1>2

\* What the dispatcher does with the analysis it holds.
LEMMA HandleIInv ==
    ASSUME IInv, Handle
    PROVE  IInv'
<1> USE DEF IInv, rows, process, Frees, Takes
<1>0. hold \in Analyses /\ act # "none"
  BY DEF Handle, Spawn, SetPid, SpawnRaises, StartFailed, VisitExited, VisitAlive, Finish,
     HoldOK, TypeOK
<1>1. CASE Spawn
  BY <1>0, <1>1 DEF Spawn, TypeOK, HoldOK, VerdictOK, Owned, Live, Alive
<1>2. CASE SetPid \/ SpawnRaises
  <2> USE <1>0, <1>2, AnalysisAssumption DEF SetPid, SpawnRaises
  <2>1. TypeOK' /\ HoldOK'
    BY DEF TypeOK, HoldOK
  <2>2. VerdictOK'
    BY DEF VerdictOK, Live, Alive
  <2>3. Owned'
    BY DEF Owned, Live
  <2> QED
    BY <2>1, <2>2, <2>3
<1>3. CASE StartFailed \/ Finish
  <2> USE <1>0, <1>3, AnalysisAssumption DEF StartFailed, Finish, Fail
  <2>1. TypeOK' /\ HoldOK'
    BY DEF TypeOK, HoldOK, Statuses, Ended
  <2>2. VerdictOK'
    BY DEF VerdictOK, TypeOK, Live
  <2>3. Owned'
    BY DEF Owned, VerdictOK, TypeOK, Live
  <2> QED
    BY <2>1, <2>2, <2>3
<1>4. CASE VisitExited
  <2> USE <1>0, <1>4, AnalysisAssumption DEF VisitExited
  <2>1. TypeOK' /\ HoldOK'
    BY DEF TypeOK, HoldOK, Statuses
  <2>2. VerdictOK'
    BY DEF VerdictOK, Live, Alive
  <2>3. Owned'
    BY DEF Owned, Live, Alive
  <2> QED
    BY <2>1, <2>2, <2>3
<1>5. CASE VisitAlive
  <2> USE <1>0, <1>5, AnalysisAssumption DEF VisitAlive, Signal, Kill
  <2>1. TypeOK'
    BY DEF TypeOK, Statuses
  <2>2. HoldOK'
    BY DEF HoldOK
  <2>3. VerdictOK'
    BY DEF VerdictOK, TypeOK, Live, Alive
  <2>4. Owned'
    BY DEF Owned, TypeOK, Live, Alive
  <2> QED
    BY <2>1, <2>2, <2>3, <2>4
<1> QED
  BY <1>1, <1>2, <1>3, <1>4, <1>5 DEF Handle

\* The dispatcher takes up an analysis, or ends one at shutdown.
LEMMA LoopIInv ==
    ASSUME IInv, NEW a \in Analyses, Claim(a) \/ Read(a) \/ EndOperation(a)
    PROVE  IInv'
<1> USE AnalysisAssumption DEF IInv, rows, process, Takes
<1>1. CASE Claim(a)
  BY <1>1 DEF Claim, TypeOK, HoldOK, VerdictOK, Owned, Live, Alive, Statuses
<1>2. CASE Read(a)
  BY <1>2 DEF Read, TypeOK, HoldOK, VerdictOK, Owned, Live
<1>3. CASE EndOperation(a)
  BY <1>3 DEF EndOperation, Fail, TypeOK, HoldOK, VerdictOK, Owned, Live, Statuses, Ended
<1> QED
  BY <1>1, <1>2, <1>3

\* Shutdown, crash and restart.
LEMMA HostIInv ==
    ASSUME IInv, Stop \/ TerminateAll \/ GraceEnd \/ Exit \/ Crash \/ Start
    PROVE  IInv'
<1> USE AnalysisAssumption DEF IInv, rows, process
<1>1. CASE Stop \/ TerminateAll
  BY <1>1 DEF Stop, TerminateAll, Signal, TypeOK, HoldOK, VerdictOK, Owned, Live
<1>2. CASE GraceEnd
  <2> USE <1>2 DEF GraceEnd, Kill
  <2>1. TypeOK' /\ HoldOK'
    BY DEF TypeOK, HoldOK
  <2>2. VerdictOK'
    BY DEF VerdictOK, HoldOK, TypeOK, Live, Alive
  <2>3. Owned'
    BY DEF Owned, TypeOK, Live, Alive
  <2> QED
    BY <2>1, <2>2, <2>3
<1>3. CASE Exit \/ Crash
  <2> USE <1>3 DEF Exit, Crash, Gone, Kill, Frees
  <2>1. TypeOK' /\ HoldOK'
    BY DEF TypeOK, HoldOK, Statuses
  <2>2. VerdictOK'
    BY DEF VerdictOK, TypeOK, Live, Alive
  <2>3. Owned'
    BY DEF Owned, TypeOK, Live, Alive
  <2> QED
    BY <2>1, <2>2, <2>3
<1>4. CASE Start
  <2> USE <1>4 DEF Start
  <2>1. TypeOK' /\ HoldOK'
    BY DEF TypeOK, HoldOK, Statuses, Ended
  <2>2. VerdictOK'
    BY DEF VerdictOK, HoldOK, TypeOK, Live
  <2>3. Owned'
    BY DEF Owned, HoldOK, TypeOK, Live
  <2> QED
    BY <2>1, <2>2, <2>3
<1> QED
  BY <1>1, <1>2, <1>3, <1>4

LEMMA NextIInv ==
    ASSUME IInv, [Next]_vars
    PROVE  IInv'
<1>1. CASE Next
  <2>1. CASE Sweep
    BY <2>1 DEF Sweep, ExpireRows, IInv, rows, process, loop, TypeOK, HoldOK, VerdictOK, Owned,
       Live, Alive, Statuses, Ended
  <2> QED
    BY <1>1, <2>1, AsideIInv, WorkerIInv, HandleIInv, LoopIInv, HostIInv DEF Next
<1>2. CASE UNCHANGED vars
  BY <1>2 DEF vars, rows, process, loop, IInv, TypeOK, HoldOK, VerdictOK, Owned, Live
<1> QED
  BY <1>1, <1>2

LEMMA Invariance == Spec => []IInv
<1>1. IInv /\ [Next]_vars => IInv'
  BY NextIInv
<1> QED
  BY InitIInv, <1>1, PTL DEF Spec

\* Every variable keeps its type.
THEOREM AnalysisTypeCorrect == Spec => []TypeOK
<1>1. IInv => TypeOK
  BY DEF IInv
<1> QED
  BY Invariance, <1>1, PTL

-----------------------------------------------------------------------------
(***************************************************************************)
(* Results and verdicts.                                                   *)
(***************************************************************************)
\* Who writes a row: the insertion, the claim, the worker's commit, a verdict,
\* the sweep and the reconciliation after a restart; everybody else leaves it.
Written ==
    \/ UNCHANGED <<status, result>>
    \/ Sweep
    \/ Start
    \/ \E a \in Analyses : \/ Create(a) \/ Claim(a)
                           \/ Complete(a) /\ Live(a) /\ worker[a] = "work"
    \/ \E a \in Analyses : Fail(a)

LEMMA NextWrites ==
    ASSUME IInv, [Next]_vars
    PROVE  Written
<1>1. CASE Handle
  BY <1>1 DEF Handle, Spawn, SetPid, SpawnRaises, StartFailed, VisitExited, VisitAlive, Finish,
     rows, Written, IInv, HoldOK, TypeOK
<1>2. ASSUME NEW a \in Analyses, WorkerStep(a)
      PROVE  Written
  BY <1>2 DEF WorkerStep, WLoad, WComplete, WRaise, WReturn, WFail, Worker, rows, Written,
     Live, Alive
<1>3. ASSUME NEW a \in Analyses,
             \/ Create(a) \/ ComesDue(a) \/ Claim(a) \/ Read(a) \/ EndOperation(a)
             \/ TermArrives(a) \/ WorkerDies(a) \/ TimePasses(a)
      PROVE  Written
  BY <1>3 DEF ComesDue, Read, EndOperation, TermArrives, WorkerDies, TimePasses, rows, Written
<1>4. CASE Sweep \/ Stop \/ TerminateAll \/ GraceEnd \/ Exit \/ Crash \/ Start
  BY <1>4 DEF Stop, TerminateAll, GraceEnd, Exit, Crash, Gone, rows, Written
<1>5. CASE UNCHANGED vars
  BY <1>5 DEF vars, rows, Written
<1> QED
  BY <1>1, <1>2, <1>3, <1>4, <1>5 DEF Next

\* POST /jobs and the page find a result exactly with a completed analysis.
THEOREM ResultsMatch == Spec => []ResultMatches
<1>1. Init => ResultMatches
  BY DEF Init, ResultMatches
<1>2. ASSUME IInv, ResultMatches, [Next]_vars
      PROVE  ResultMatches'
  <2> USE <1>2 DEF ResultMatches, IInv, TypeOK
  <2>1. CASE UNCHANGED <<status, result>>
    BY <2>1
  <2>2. CASE Sweep
    BY <2>2 DEF Sweep, ExpireRows
  <2>3. CASE Start
    BY <2>3 DEF Start
  <2>4. ASSUME NEW a \in Analyses, Create(a) \/ Claim(a) \/ Complete(a) \/ Fail(a)
        PROVE  ResultMatches'
    BY <2>4 DEF Create, Claim, Complete, Fail
  <2> QED
    BY <1>2, <2>1, <2>2, <2>3, <2>4, NextWrites DEF Written
<1> QED
  BY <1>1, <1>2, Invariance, PTL DEF Spec

\* No verdict, signal, shutdown or restart takes a result away again.
THEOREM ResultsSurvive == Spec => CompletedSurvives
<1> DEFINE Kept == \A a \in Analyses :
                     status[a] = "completed" => status'[a] \in {"completed", "expired"}
<1>1. ASSUME IInv, [Next]_vars
      PROVE  [Kept]_vars
  <2> USE <1>1 DEF IInv, TypeOK
  <2>1. CASE UNCHANGED <<status, result>>
    BY <2>1
  <2>2. CASE Sweep
    BY <2>2 DEF Sweep, ExpireRows
  <2>3. CASE Start
    BY <2>3 DEF Start
  <2>4. ASSUME NEW a \in Analyses, Create(a) \/ Claim(a) \/ Complete(a) \/ Fail(a)
        PROVE  Kept
    BY <2>4 DEF Create, Claim, Complete, Fail
  <2> QED
    BY <1>1, <2>1, <2>2, <2>3, <2>4, NextWrites DEF Written
<1> QED
  BY <1>1, Invariance, PTL DEF Spec, CompletedSurvives

\* A verdict of the dispatcher is overturned only by a worker it gave up alive.
THEOREM VerdictsStand == Spec => OnlyOrphansReopen
<1> DEFINE Stands == \A a \in Analyses :
                       status[a] \in {"failed", "expired"} /\ status'[a] \notin {"failed", "expired"}
                         => a \in orphans
<1>1. ASSUME IInv, [Next]_vars
      PROVE  [Stands]_vars
  <2> USE <1>1 DEF IInv, TypeOK
  <2>1. CASE UNCHANGED <<status, result>>
    BY <2>1
  <2>2. CASE Sweep
    BY <2>2 DEF Sweep, ExpireRows
  <2>3. CASE Start
    BY <2>3 DEF Start
  <2>4. ASSUME NEW a \in Analyses, Create(a) \/ Claim(a) \/ Fail(a)
        PROVE  Stands
    BY <2>4 DEF Create, Claim, Fail
  <2>5. ASSUME NEW a \in Analyses, Complete(a), Live(a), worker[a] = "work"
        PROVE  Stands
    BY <2>5 DEF Complete, Owned
  <2> QED
    BY <1>1, <2>1, <2>2, <2>3, <2>4, <2>5, NextWrites DEF Written
<1> QED
  BY <1>1, Invariance, PTL DEF Spec, OnlyOrphansReopen

===============================================================================
