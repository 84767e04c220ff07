---------------------------- MODULE AdmissionProofs ----------------------------
(***************************************************************************)
(* Proofs about Admission, for any number of concurrent requests, ids and  *)
(* keys: how far the queue can exceed its limit, that a key stands for one *)
(* job, and how many jobs can lose their analysis to the sweep.            *)
(***************************************************************************)
EXTENDS Admission, FiniteSetTheorems, TLAPS

\* Requests on their way from the capacity check to the insertion.
OnTheWay == {r \in Requests : rpc[r] \in Passed}

\* A request that passes the check found less than MaxQueued queued; after it
\* only those already on the way add to the queue.  OverrunBounded alone is
\* not inductive: it says nothing of the requests still on the way.
Load == Queued + Cardinality(OnTheWay) <= MaxQueued - 1 + Cardinality(Requests)

\* The unique index, and the answers given so far.
KeysUnique == \A i, k \in Jobs :
                /\ jobs[i] # "absent" /\ jobs[k] # "absent"
                /\ jobKey[i] = jobKey[k] /\ jobKey[i] # NoKey
                => i = k
ToldRight  == \A p \in told : jobs[p[2]] # "absent" /\ jobKey[p[2]] = p[1]

KInv == TypeOK /\ KeysUnique /\ ToldRight

\* Cardinalities of the sets that make up the load.
LEMMA Finite ==
    /\ IsFiniteSet(QueuedJobs) /\ Cardinality(QueuedJobs) \in Nat
    /\ IsFiniteSet(QueuedAnalyses) /\ Cardinality(QueuedAnalyses) \in Nat
    /\ IsFiniteSet(OnTheWay) /\ Cardinality(OnTheWay) \in Nat
    /\ Cardinality(OnTheWay) <= Cardinality(Requests)
    /\ Cardinality(Requests) \in Nat
<1>1. QueuedJobs \in SUBSET Jobs /\ QueuedAnalyses \in SUBSET Analyses
      /\ OnTheWay \in SUBSET Requests
  BY DEF QueuedJobs, QueuedAnalyses, OnTheWay
<1> QED
  BY <1>1, AdmissionAssumption, FS_Subset, FS_CardinalityType

LEMMA Smaller ==
    ASSUME NEW S, IsFiniteSet(S), NEW T, T \subseteq S
    PROVE  /\ IsFiniteSet(T) /\ Cardinality(T) <= Cardinality(S)
           /\ Cardinality(S) \in Nat /\ Cardinality(T) \in Nat
BY FS_Subset, FS_CardinalityType

LEMMA OneMore ==
    ASSUME NEW S, IsFiniteSet(S), NEW x, NEW T, T \subseteq S \cup {x}
    PROVE  Cardinality(T) <= Cardinality(S) + 1
<1>1. Cardinality(S) \in Nat
  BY FS_CardinalityType
<1>2. IsFiniteSet(S \cup {x}) /\ Cardinality(S \cup {x}) <= Cardinality(S) + 1
  <2>1. CASE x \in S
    <3>1. S \cup {x} = S
      BY <2>1
    <3> QED
      BY <1>1, <3>1
  <2>2. CASE x \notin S
    <3>1. IsFiniteSet(S \cup {x}) /\ Cardinality(S \cup {x}) = Cardinality(S) + 1
      BY <2>2, FS_AddElement
    <3> QED
      BY <1>1, <3>1
  <2> QED
    BY <2>1, <2>2
<1>3. /\ Cardinality(T) <= Cardinality(S \cup {x})
      /\ Cardinality(S \cup {x}) \in Nat /\ Cardinality(T) \in Nat
  BY <1>2, Smaller
<1> QED
  BY <1>1, <1>2, <1>3

LEMMA OneLess ==
    ASSUME NEW S, IsFiniteSet(S), NEW x \in S, NEW T, T \subseteq S \ {x}
    PROVE  Cardinality(T) + 1 <= Cardinality(S)
<1>1. Cardinality(S) \in Nat
  BY FS_CardinalityType
<1>2. IsFiniteSet(S \ {x}) /\ Cardinality(S \ {x}) = Cardinality(S) - 1
  BY FS_RemoveElement
<1>3. Cardinality(T) <= Cardinality(S \ {x}) /\ Cardinality(T) \in Nat
  BY <1>2, Smaller
<1> QED
  BY <1>1, <1>2, <1>3

-----------------------------------------------------------------------------
(***************************************************************************)
(* Type correctness and the idempotency key.                               *)
(***************************************************************************)
LEMMA InitKInv == Init => KInv
<1> SUFFICES ASSUME Init PROVE KInv
  OBVIOUS
<1> USE DEF Init
<1>1. TypeOK
  BY DEF TypeOK
<1>2. KeysUnique /\ ToldRight
  BY DEF KeysUnique, ToldRight
<1> QED
  BY <1>1, <1>2 DEF KInv

\* A request is answered with a job that holds its key.
LEMMA AnswerKeeps ==
    ASSUME KInv, NEW r \in Requests, NEW i \in Holders(key[r]), Answer(r, i),
           UNCHANGED <<key, ana, tables>>
    PROVE  KInv'
<1> USE DEF KInv, tables, Answer, Goes, Holders
<1>1. TypeOK'
  BY DEF TypeOK
<1>2. KeysUnique'
  BY DEF KeysUnique
<1>3. ToldRight'
  BY DEF ToldRight
<1> QED
  BY <1>1, <1>2, <1>3

\* A step of a handler that neither inserts nor answers.
LEMMA HandlerMoves ==
    ASSUME KInv, NEW r \in Requests, NEW p \in {"idle", "replay"} \cup Passed, Goes(r, p),
           key' \in [Requests -> Keys \cup {NoKey}],
           ana' \in [Requests -> Analyses \cup {NoAnalysis}],
           UNCHANGED <<told, tables>>
    PROVE  KInv'
<1> USE DEF KInv, tables, Goes
<1>1. TypeOK'
  BY DEF TypeOK
<1>2. KeysUnique' /\ ToldRight'
  BY DEF KeysUnique, ToldRight
<1> QED
  BY <1>1, <1>2

LEMMA HandlerKeeps ==
    ASSUME KInv, NEW r \in Requests, Handler(r)
    PROVE  KInv'
<1> USE DEF Passed
<1>1. TypeOK
  BY DEF KInv
<1>2. CASE PostAnalysis(r)
  BY <1>1, <1>2, HandlerMoves DEF PostAnalysis, TypeOK
<1>3. CASE Replay(r)
  BY <1>1, <1>3, HandlerMoves, AnswerKeeps DEF Replay, TypeOK
<1>4. CASE ReadAnalysis(r) \/ Refused(r) \/ Conflict(r)
  BY <1>1, <1>4, HandlerMoves DEF ReadAnalysis, Refused, Conflict, TypeOK
<1>5. CASE Exists(r) \/ Lookup(r)
  BY <1>1, <1>5, HandlerMoves, AnswerKeeps DEF Exists, Lookup, TypeOK
<1>6. ASSUME NEW k \in Keys \cup {NoKey}, NEW a \in Analyses, PostJob(r, k, a) PROVE KInv'
  BY <1>1, <1>6, HandlerMoves DEF PostJob, TypeOK
<1>7. ASSUME NEW a \in Analyses, InsertAnalysis(r, a) PROVE KInv'
  BY <1>7 DEF InsertAnalysis, Goes, KInv, TypeOK, KeysUnique, ToldRight
<1>8. ASSUME NEW i \in Jobs, InsertJob(r, i) PROVE KInv'
  <2> USE <1>1, <1>8 DEF InsertJob, Answer, Goes, Holders
  <2>1. TypeOK'
    BY DEF TypeOK
  <2>2. KeysUnique'
    BY DEF KInv, KeysUnique, TypeOK
  <2>3. ToldRight'
    BY AdmissionAssumption DEF KInv, ToldRight, TypeOK
  <2> QED
    BY <2>1, <2>2, <2>3 DEF KInv
<1> QED
  BY <1>2, <1>3, <1>4, <1>5, <1>6, <1>7, <1>8 DEF Handler

\* Statuses move, ids and keys stay: JobMoves, AnalysisMoves, ExpireAnalyses, Restart.
LEMMA StatusMoves ==
    ASSUME KInv, UNCHANGED <<key, ana, told, jobKey, jobAna>>,
           rpc' \in [Requests -> {"idle", "replay"} \cup Passed],
           jobs' \in [Jobs -> {"absent", "queued", "active", "ended"}],
           analyses' \in [Analyses ->
              {"absent", "queued", "running", "completed", "failed", "expired"}],
           past' \subseteq Analyses,
           \A i \in Jobs : (jobs'[i] = "absent") <=> (jobs[i] = "absent")
    PROVE  KInv'
<1>1. TypeOK'
  BY DEF KInv, TypeOK
<1>2. KeysUnique'
  BY DEF KInv, KeysUnique
<1>3. ToldRight'
  BY DEF KInv, TypeOK, ToldRight
<1> QED
  BY <1>1, <1>2, <1>3 DEF KInv

LEMMA RestKeeps ==
    ASSUME KInv,
           \/ \E i \in Jobs : JobMoves(i)
           \/ \E a \in Analyses : AnalysisMoves(a) \/ TtlEnds(a)
           \/ ExpireAnalyses \/ Restart
    PROVE  KInv'
<1>1. TypeOK
  BY DEF KInv
<1>2. ASSUME NEW i \in Jobs, JobMoves(i) PROVE KInv'
  BY <1>1, <1>2, StatusMoves DEF JobMoves, Moves, TypeOK, slots
<1>3. ASSUME NEW a \in Analyses, AnalysisMoves(a) PROVE KInv'
  BY <1>1, <1>3, StatusMoves DEF AnalysisMoves, Becomes, TypeOK, slots
<1>4. ASSUME NEW a \in Analyses, TtlEnds(a) PROVE KInv'
  BY <1>1, <1>4, StatusMoves DEF TtlEnds, TypeOK, slots
<1>5. CASE ExpireAnalyses
  BY <1>1, <1>5, StatusMoves DEF ExpireAnalyses, TypeOK, slots
<1>6. CASE Restart
  BY <1>1, <1>6, StatusMoves DEF Restart, TypeOK
<1> QED
  BY <1>2, <1>3, <1>4, <1>5, <1>6

LEMMA NextKeepsKInv == KInv /\ [Next]_vars => KInv'
<1> SUFFICES ASSUME KInv, [Next]_vars PROVE KInv'
  OBVIOUS
<1>1. CASE Next
  BY <1>1, HandlerKeeps, RestKeeps DEF Next
<1>2. CASE UNCHANGED vars
  <2> USE <1>2 DEF vars, slots, tables
  <2>1. TypeOK'
    BY DEF KInv, TypeOK
  <2>2. KeysUnique' /\ ToldRight'
    BY DEF KInv, KeysUnique, ToldRight
  <2> QED
    BY <2>1, <2>2 DEF KInv
<1> QED
  BY <1>1, <1>2

LEMMA KInvHolds == Spec => []KInv
BY InitKInv, NextKeepsKInv, PTL DEF Spec

\* Every variable has its type, whatever the requests and restarts do.
THEOREM AdmissionTypeCorrect == Spec => []TypeOK
<1>1. KInv => TypeOK
  BY DEF KInv
<1> QED
  BY <1>1, KInvHolds, PTL

\* All answers to requests with one key name one job: of two requests that both
\* find the key unknown, the unique index lets one insert and the other is
\* answered with the row of the first.
THEOREM KeyNamesOneJob == Spec => []OneJobPerKey
<1>1. KInv => OneJobPerKey
  BY AdmissionAssumption DEF KInv, TypeOK, KeysUnique, ToldRight, OneJobPerKey
<1> QED
  BY <1>1, KInvHolds, PTL

-----------------------------------------------------------------------------
(***************************************************************************)
(* The length of the queue.                                                *)
(***************************************************************************)
\* Finite, after a step.
LEMMA FiniteNext ==
    /\ IsFiniteSet(QueuedJobs') /\ Cardinality(QueuedJobs') \in Nat
    /\ IsFiniteSet(QueuedAnalyses') /\ Cardinality(QueuedAnalyses') \in Nat
    /\ IsFiniteSet(OnTheWay') /\ Cardinality(OnTheWay') \in Nat
    /\ Cardinality(OnTheWay') <= Cardinality(Requests)
<1>1. QueuedJobs' \in SUBSET Jobs /\ QueuedAnalyses' \in SUBSET Analyses
      /\ OnTheWay' \in SUBSET Requests
  BY DEF QueuedJobs, QueuedAnalyses, OnTheWay
<1> QED
  BY <1>1, AdmissionAssumption, FS_Subset, FS_CardinalityType

\* A request passes the capacity check: the queue is below its limit, so the
\* load is within its bound even when every request is on the way.
LEMMA CheckedLoad ==
    ASSUME HasCapacity, UNCHANGED tables
    PROVE  Load'
<1>1. QueuedJobs' = QueuedJobs /\ QueuedAnalyses' = QueuedAnalyses
  BY DEF tables, QueuedJobs, QueuedAnalyses
<1>2. Cardinality(QueuedJobs) + Cardinality(QueuedAnalyses) < MaxQueued
  BY DEF HasCapacity, Queued
<1>3. Cardinality(QueuedJobs') + Cardinality(QueuedAnalyses') + Cardinality(OnTheWay')
        <= MaxQueued - 1 + Cardinality(Requests)
  BY <1>1, <1>2, Finite, FiniteNext, AdmissionAssumption
<1> QED
  BY <1>3 DEF Load, Queued

\* Nothing joins the queue and nobody sets out for it.
LEMMA LighterLoad ==
    ASSUME Load, QueuedJobs' \subseteq QueuedJobs,
           QueuedAnalyses' \subseteq QueuedAnalyses, OnTheWay' \subseteq OnTheWay
    PROVE  Load'
<1>1. /\ Cardinality(QueuedJobs') <= Cardinality(QueuedJobs)
      /\ Cardinality(QueuedAnalyses') <= Cardinality(QueuedAnalyses)
      /\ Cardinality(OnTheWay') <= Cardinality(OnTheWay)
  BY Finite, Smaller
<1>2. Cardinality(QueuedJobs') + Cardinality(QueuedAnalyses') + Cardinality(OnTheWay')
        <= MaxQueued - 1 + Cardinality(Requests)
  BY <1>1, Finite, FiniteNext, AdmissionAssumption DEF Load, Queued
<1> QED
  BY <1>2 DEF Load, Queued

\* A request arrives: one more in the queue, one less on the way.
LEMMA ArrivalKeepsLoad ==
    ASSUME Load, NEW r \in OnTheWay, OnTheWay' \subseteq OnTheWay \ {r},
           \/ /\ QueuedAnalyses' \subseteq QueuedAnalyses
              /\ \E i : QueuedJobs' \subseteq QueuedJobs \cup {i}
           \/ /\ QueuedJobs' \subseteq QueuedJobs
              /\ \E a : QueuedAnalyses' \subseteq QueuedAnalyses \cup {a}
    PROVE  Load'
<1>1. Cardinality(OnTheWay') + 1 <= Cardinality(OnTheWay)
  BY Finite, OneLess
<1>2. Cardinality(QueuedJobs') + Cardinality(QueuedAnalyses')
        <= Cardinality(QueuedJobs) + Cardinality(QueuedAnalyses) + 1
  <2>1. CASE /\ QueuedAnalyses' \subseteq QueuedAnalyses
             /\ \E i : QueuedJobs' \subseteq QueuedJobs \cup {i}
    <3>1. /\ Cardinality(QueuedAnalyses') <= Cardinality(QueuedAnalyses)
          /\ Cardinality(QueuedJobs') <= Cardinality(QueuedJobs) + 1
      BY <2>1, Finite, Smaller, OneMore
    <3> QED
      BY <3>1, Finite, FiniteNext
  <2>2. CASE /\ QueuedJobs' \subseteq QueuedJobs
             /\ \E a : QueuedAnalyses' \subseteq QueuedAnalyses \cup {a}
    <3>1. /\ Cardinality(QueuedJobs') <= Cardinality(QueuedJobs)
          /\ Cardinality(QueuedAnalyses') <= Cardinality(QueuedAnalyses) + 1
      BY <2>2, Finite, Smaller, OneMore
    <3> QED
      BY <3>1, Finite, FiniteNext
  <2> QED
    BY <2>1, <2>2
<1>3. Cardinality(QueuedJobs') + Cardinality(QueuedAnalyses') + Cardinality(OnTheWay')
        <= MaxQueued - 1 + Cardinality(Requests)
  BY <1>1, <1>2, Finite, FiniteNext, AdmissionAssumption DEF Load, Queued
<1> QED
  BY <1>3 DEF Load, Queued

LEMMA HandlerKeepsLoad ==
    ASSUME KInv, Load, NEW r \in Requests, Handler(r)
    PROVE  Load'
<1> USE DEF KInv, TypeOK, OnTheWay, Passed, Goes, At
<1>1. CASE PostAnalysis(r)
  BY <1>1, CheckedLoad DEF PostAnalysis
<1>2. ASSUME UNCHANGED tables,
             \/ Goes(r, "idle") \/ Goes(r, "replay")
             \/ rpc[r] \in Passed /\ \E p \in Passed : Goes(r, p)
      PROVE  Load'
  <2>1. QueuedJobs' = QueuedJobs /\ QueuedAnalyses' = QueuedAnalyses
    BY <1>2 DEF tables, QueuedJobs, QueuedAnalyses
  <2>2. OnTheWay' \subseteq OnTheWay
    BY <1>2
  <2> QED
    BY <2>1, <2>2, LighterLoad
<1>3. CASE Replay(r)
  BY <1>2, <1>3, CheckedLoad DEF Replay, Answer
<1>4. CASE ReadAnalysis(r) \/ Refused(r) \/ Conflict(r)
  BY <1>2, <1>4 DEF ReadAnalysis, Refused, Conflict
<1>5. CASE Exists(r) \/ Lookup(r)
  BY <1>2, <1>5 DEF Exists, Lookup, Answer
<1>6. ASSUME NEW k \in Keys \cup {NoKey}, NEW a \in Analyses, PostJob(r, k, a) PROVE Load'
  BY <1>2, <1>6, CheckedLoad DEF PostJob
<1>7. ASSUME NEW a \in Analyses, InsertAnalysis(r, a) PROVE Load'
  <2>1. r \in OnTheWay /\ OnTheWay' \subseteq OnTheWay \ {r}
    BY <1>7 DEF InsertAnalysis
  <2>2. QueuedJobs' = QueuedJobs /\ QueuedAnalyses' \subseteq QueuedAnalyses \cup {a}
    BY <1>7 DEF InsertAnalysis, QueuedJobs, QueuedAnalyses
  <2> QED
    BY <2>1, <2>2, ArrivalKeepsLoad
<1>8. ASSUME NEW i \in Jobs, InsertJob(r, i) PROVE Load'
  <2>1. r \in OnTheWay /\ OnTheWay' \subseteq OnTheWay \ {r}
    BY <1>8 DEF InsertJob, Answer
  <2>2. QueuedAnalyses' = QueuedAnalyses /\ QueuedJobs' \subseteq QueuedJobs \cup {i}
    BY <1>8 DEF InsertJob, QueuedJobs, QueuedAnalyses
  <2> QED
    BY <2>1, <2>2, ArrivalKeepsLoad
<1> QED
  BY <1>1, <1>3, <1>4, <1>5, <1>6, <1>7, <1>8 DEF Handler

LEMMA RestKeepsLoad ==
    ASSUME KInv, Load,
           \/ \E i \in Jobs : JobMoves(i)
           \/ \E a \in Analyses : AnalysisMoves(a) \/ TtlEnds(a)
           \/ ExpireAnalyses \/ Restart
    PROVE  Load'
<1> USE DEF KInv, TypeOK, slots, QueuedJobs, QueuedAnalyses, OnTheWay, Passed
<1>1. QueuedJobs' \subseteq QueuedJobs
  BY DEF JobMoves, Moves, AnalysisMoves, Becomes, TtlEnds, ExpireAnalyses, Restart
<1>2. QueuedAnalyses' \subseteq QueuedAnalyses
  BY DEF JobMoves, Moves, AnalysisMoves, Becomes, TtlEnds, ExpireAnalyses, Restart
<1>3. OnTheWay' \subseteq OnTheWay
  BY DEF JobMoves, Moves, AnalysisMoves, Becomes, TtlEnds, ExpireAnalyses, Restart
<1> QED
  BY <1>1, <1>2, <1>3, LighterLoad

LEMMA InitLoad == Init => Load
<1> SUFFICES ASSUME Init PROVE Load
  OBVIOUS
<1>1. QueuedJobs = {} /\ QueuedAnalyses = {} /\ OnTheWay = {}
  BY DEF Init, QueuedJobs, QueuedAnalyses, OnTheWay, Passed
<1> QED
  BY <1>1, Finite, FS_EmptySet, AdmissionAssumption DEF Load, Queued

LEMMA NextKeepsLoad == KInv /\ Load /\ [Next]_vars => Load'
<1> SUFFICES ASSUME KInv, Load, [Next]_vars PROVE Load'
  OBVIOUS
<1>1. CASE Next
  BY <1>1, HandlerKeepsLoad, RestKeepsLoad DEF Next
<1>2. CASE UNCHANGED vars
  BY <1>2, LighterLoad
     DEF vars, slots, tables, QueuedJobs, QueuedAnalyses, OnTheWay
<1> QED
  BY <1>1, <1>2

\* However many requests are handled at a time, the queue exceeds its limit by
\* fewer than their number: what passed the check before the others inserted.
THEOREM OverrunIsBounded == Spec => []OverrunBounded
<1>1. Load => OverrunBounded
  <2>1. Queued \in Nat
    BY Finite DEF Queued
  <2> QED
    BY <2>1, Finite, AdmissionAssumption DEF Load, OverrunBounded
<1> QED
  BY <1>1, InitLoad, NextKeepsLoad, KInvHolds, PTL DEF Spec

-----------------------------------------------------------------------------
(***************************************************************************)
(* The sweep.                                                              *)
(***************************************************************************)
LEMMA FiniteBlind ==
    ASSUME NEW a
    PROVE  /\ IsFiniteSet(Unfinished(a)) /\ Cardinality(Unfinished(a)) \in Nat
           /\ IsFiniteSet(HaveRead(a)) /\ Cardinality(HaveRead(a)) \in Nat
           /\ Cardinality(HaveRead(a)) <= Cardinality(Requests)
<1>1. Unfinished(a) \in SUBSET Jobs /\ HaveRead(a) \in SUBSET Requests
  BY DEF Unfinished, HaveRead
<1> QED
  BY <1>1, AdmissionAssumption, FS_Subset, FS_CardinalityType

LEMMA FiniteBlindNext ==
    ASSUME NEW a
    PROVE  /\ IsFiniteSet(Unfinished(a)') /\ Cardinality(Unfinished(a)') \in Nat
           /\ IsFiniteSet(HaveRead(a)') /\ Cardinality(HaveRead(a)') \in Nat
           /\ Cardinality(HaveRead(a)') <= Cardinality(Requests)
<1>1. Unfinished(a)' \in SUBSET Jobs /\ HaveRead(a)' \in SUBSET Requests
  BY DEF Unfinished, HaveRead
<1> QED
  BY <1>1, AdmissionAssumption, FS_Subset, FS_CardinalityType

\* The bound for one analysis; whoever has read it may become a job of it.
Blind(a) == Cardinality(Unfinished(a)) + Cardinality(HaveRead(a)) <= Cardinality(Requests)

\* Nobody joins the analysis.
LEMMA FewerBlind ==
    ASSUME NEW a, Blind(a), Unfinished(a)' \subseteq Unfinished(a), HaveRead(a)' \subseteq HaveRead(a)
    PROVE  Blind(a)'
<1>1. /\ Cardinality(Unfinished(a)') <= Cardinality(Unfinished(a))
      /\ Cardinality(HaveRead(a)') <= Cardinality(HaveRead(a))
  BY FiniteBlind, Smaller
<1>2. Cardinality(Unfinished(a)') + Cardinality(HaveRead(a)') <= Cardinality(Requests)
  BY <1>1, FiniteBlind, FiniteBlindNext, Finite DEF Blind
<1> QED
  BY <1>2 DEF Blind

\* A request that has read the analysis inserts its job: one more, one less.
LEMMA InsertBlind ==
    ASSUME NEW a, Blind(a), NEW r \in HaveRead(a), HaveRead(a)' \subseteq HaveRead(a) \ {r},
           NEW i, Unfinished(a)' \subseteq Unfinished(a) \cup {i}
    PROVE  Blind(a)'
<1>1. /\ Cardinality(HaveRead(a)') + 1 <= Cardinality(HaveRead(a))
      /\ Cardinality(Unfinished(a)') <= Cardinality(Unfinished(a)) + 1
  BY FiniteBlind, OneLess, OneMore
<1>2. Cardinality(Unfinished(a)') + Cardinality(HaveRead(a)') <= Cardinality(Requests)
  BY <1>1, FiniteBlind, FiniteBlindNext, Finite DEF Blind
<1> QED
  BY <1>2 DEF Blind

LEMMA HandlerBlind ==
    ASSUME KInv, NEW r \in Requests, Handler(r), NEW a \in Analyses, Blind(a),
           analyses[a] = "expired"
    PROVE  Blind(a)'
<1> USE DEF KInv, TypeOK, tables, Unfinished, HaveRead, At, Goes, Answer
<1>1. CASE \/ PostAnalysis(r) \/ Replay(r) \/ ReadAnalysis(r) \/ Refused(r) \/ Exists(r)
           \/ Conflict(r) \/ Lookup(r)
  <2>1. UNCHANGED <<jobs, jobAna>>
    BY <1>1 DEF PostAnalysis, Replay, ReadAnalysis, Refused, Exists, Conflict, Lookup
  <2>2. HaveRead(a)' \subseteq HaveRead(a)
    BY <1>1 DEF PostAnalysis, Replay, ReadAnalysis, Refused, Exists, Conflict, Lookup
  <2> QED
    BY <2>1, <2>2, FewerBlind
<1>2. ASSUME NEW k \in Keys \cup {NoKey}, NEW b \in Analyses, PostJob(r, k, b) PROVE Blind(a)'
  BY <1>2, FewerBlind DEF PostJob
<1>3. ASSUME NEW b \in Analyses, InsertAnalysis(r, b) PROVE Blind(a)'
  BY <1>3, FewerBlind DEF InsertAnalysis
<1>4. ASSUME NEW i \in Jobs, InsertJob(r, i) PROVE Blind(a)'
  <2>1. /\ rpc[r] = "insert" /\ rpc' = [rpc EXCEPT ![r] = "idle"] /\ UNCHANGED ana
        /\ jobs[i] = "absent" /\ jobs' = [jobs EXCEPT ![i] = "queued"]
        /\ jobAna' = [jobAna EXCEPT ![i] = ana[r]]
    BY <1>4 DEF InsertJob
  <2>2. CASE ana[r] = a
    <3>1. r \in HaveRead(a) /\ HaveRead(a)' \subseteq HaveRead(a) \ {r}
      BY <2>1, <2>2
    <3>2. Unfinished(a)' \subseteq Unfinished(a) \cup {i}
      BY <2>1
    <3> QED
      BY <3>1, <3>2, InsertBlind
  <2>3. CASE ana[r] # a
    <3>1. HaveRead(a)' \subseteq HaveRead(a) /\ Unfinished(a)' \subseteq Unfinished(a)
      BY <2>1, <2>3
    <3> QED
      BY <3>1, FewerBlind
  <2> QED
    BY <2>2, <2>3
<1> QED
  BY <1>1, <1>2, <1>3, <1>4 DEF Handler

LEMMA RestBlind ==
    ASSUME KInv, NEW a \in Analyses, Blind(a),
           \/ \E i \in Jobs : JobMoves(i)
           \/ \E b \in Analyses : AnalysisMoves(b) \/ TtlEnds(b)
           \/ ExpireAnalyses \/ Restart \/ UNCHANGED vars
    PROVE  Blind(a)'
<1> USE DEF KInv, TypeOK, vars, slots, tables
<1>1. Unfinished(a)' \subseteq Unfinished(a)
  BY DEF Unfinished, JobMoves, Moves, AnalysisMoves, Becomes, TtlEnds, ExpireAnalyses, Restart
<1>2. HaveRead(a)' \subseteq HaveRead(a)
  BY DEF HaveRead, JobMoves, Moves, AnalysisMoves, Becomes, TtlEnds, ExpireAnalyses, Restart
<1> QED
  BY <1>1, <1>2, FewerBlind

\* The sweep takes an analysis without unfinished jobs only.
LEMMA SweptBlind ==
    ASSUME KInv, [Next]_vars, NEW a \in Analyses, analyses[a] # "expired", analyses'[a] = "expired"
    PROVE  Blind(a)'
<1>1. ExpireAnalyses
  BY DEF KInv, TypeOK, Next, Handler, PostAnalysis, InsertAnalysis, PostJob, Replay, ReadAnalysis,
     Refused, Exists, InsertJob, Conflict, Lookup, JobMoves, Moves, AnalysisMoves, Becomes,
     TtlEnds, Restart, vars, tables
<1>2. \A i \in Jobs : jobAna[i] = a => jobs[i] \notin {"queued", "active"}
  BY <1>1 DEF ExpireAnalyses, KInv, TypeOK
<1>3. Unfinished(a)' = {}
  BY <1>1, <1>2 DEF ExpireAnalyses, Unfinished
<1>4. Cardinality(Unfinished(a)') = 0
  BY <1>3, FS_EmptySet
<1>5. Cardinality(Unfinished(a)') + Cardinality(HaveRead(a)') <= Cardinality(Requests)
  BY <1>4, FiniteBlindNext, Finite
<1> QED
  BY <1>5 DEF Blind

\* However many jobs, requests and sweeps there are: the jobs whose analysis is
\* swept away before they end are at most the requests that had read it and had
\* not inserted their job when the sweep came; the bound needs those requests in
\* it, because each of them may still become a job after the sweep.
THEOREM FewJobsRunBlind == Spec => []BlindJobsBounded
<1>1. Init => BlindJobsBounded
  BY DEF Init, BlindJobsBounded
<1>2. KInv /\ BlindJobsBounded /\ [Next]_vars => BlindJobsBounded'
  <2> SUFFICES ASSUME KInv, BlindJobsBounded, [Next]_vars, NEW a \in Analyses,
                      analyses'[a] = "expired"
               PROVE  Blind(a)'
    BY DEF BlindJobsBounded, Blind
  <2>1. CASE analyses[a] # "expired"
    BY <2>1, SweptBlind
  <2>2. CASE analyses[a] = "expired"
    <3>1. Blind(a)
      BY <2>2 DEF BlindJobsBounded, Blind
    <3> QED
      BY <2>2, <3>1, HandlerBlind, RestBlind DEF Next
  <2> QED
    BY <2>1, <2>2
<1> QED
  BY <1>1, <1>2, KInvHolds, PTL DEF Spec

===============================================================================
