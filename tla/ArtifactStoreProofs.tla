-------------------------- MODULE ArtifactStoreProofs --------------------------
(***************************************************************************)
(* Proofs about ArtifactStore, for every set of artifacts and deleters and *)
(* every setting: no object is ever out of reach, a completed job is never *)
(* half local and half remote, and what it lists can be served.            *)
(***************************************************************************)
EXTENDS ArtifactStore, TLAPS

\* The artifact being uploaded has a row that names its object.
StagedFirst == wpc \in {"upload", "record"} => at \in Artifacts /\ row[at] = "uploading"

\* The job is unfinished, and its rows exist, while publication goes on.
StillWorking == wpc \in InTry \ {"done"} =>
                  job = "working" /\ \A a \in Artifacts : row[a] # "none"

\* The dispatcher revokes for a worker that has exited.
ReapLate == reap = "revoke" => wpc = "exited"

\* An expired job has no row with a key.
KeysLive == \A a \in Artifacts : HasKey(a) => job # "expired"

\* Whatever is in the outbox, or in the hands of a deleter, belongs to no row
\* and will not be uploaded again.
Doomed(a) == \/ outbox[a] # "none"
             \/ \E d \in Deleters : a \in claimed[d] \cup erased[d]
DoomedStays == \A a \in Artifacts :
                 Doomed(a) => ~HasKey(a) /\ (row[a] = "local" => wpc \notin Uploading)

\* A deleter acknowledges what it has erased, and it is erased.
ErasedGone == \A d \in Deleters : \A a \in erased[d] : ~object[a]

\* The rows during an upload and afterwards.
Uniform    == \E s \in {"none", "local", "s3"} : \A a \in Artifacts : row[a] = s
LoopOK     == wpc \in Uploading =>
                \A a \in Artifacts : row[a] = IF a \in todo THEN "local" ELSE "uploading"
PromoteOK  == wpc = "promote" => todo = {}
UniformOK  == wpc \in {"unlink", "list", "check", "commit", "done"} => Uniform

IInv ==
    /\ TypeOK
    /\ StagedFirst /\ StillWorking /\ KeysLive /\ DoomedStays /\ ErasedGone
    /\ LoopOK /\ PromoteOK /\ UniformOK /\ ReapLate
    /\ NoOrphanObject /\ NoHalfSet

Reach == NoOrphanObject /\ KeysLive /\ DoomedStays /\ ErasedGone
Rows  == /\ StagedFirst /\ StillWorking /\ LoopOK /\ PromoteOK /\ UniformOK
         /\ ReapLate /\ NoHalfSet

LEMMA Parts == IInv <=> TypeOK /\ Reach /\ Rows
BY DEF IInv, Reach, Rows

LEMMA InitIInv == Init => IInv
<1> SUFFICES ASSUME Init PROVE IInv
  OBVIOUS
<1> USE DEF Init
<1>1. TypeOK
  BY DEF TypeOK, InTry, Uploading
<1>2. Reach
  BY DEF Reach, NoOrphanObject, HasKey, KeysLive, DoomedStays, Doomed, ErasedGone
<1>3. Rows
  BY DEF Rows, StagedFirst, StillWorking, LoopOK, PromoteOK, UniformOK, ReapLate, NoHalfSet,
     Uploading, InTry
<1> QED
  BY <1>1, <1>2, <1>3, Parts

\* The types of what the shared transactions assign.
LEMMA EnqueueType ==
    ASSUME TypeOK, Enqueue
    PROVE  /\ outbox' \in [Artifacts -> {"none", "due", "leased", "delayed"}]
           /\ \A a \in Artifacts : outbox'[a] # "none" <=> outbox[a] # "none" \/ HasKey(a)
BY DEF TypeOK, Enqueue, HasKey

LEMMA RemovalType ==
    ASSUME RemoveFiles
    PROVE  file' \in [Artifacts -> BOOLEAN]
BY DEF RemoveFiles

\* publish_job_artifacts up to the promotion.
LEMMA PublishKeeps ==
    ASSUME IInv,
           \/ \E a \in Artifacts : Stage(a)
           \/ Upload \/ Record \/ Promote
    PROVE  IInv'
<1> USE DEF side, flags
<1>1. TypeOK /\ Reach /\ Rows
  BY Parts
<1>2. ASSUME NEW a \in Artifacts, Stage(a) PROVE TypeOK' /\ Reach' /\ Rows'
  <2> USE <1>1, <1>2 DEF Stage, Goes, Uploading, InTry
  <2>1. TypeOK'
    BY DEF TypeOK
  <2>2. Reach'
    BY DEF TypeOK, Reach, Rows, StillWorking, NoOrphanObject, HasKey, KeysLive, DoomedStays,
       Doomed, ErasedGone
  <2>3. Rows'
    BY DEF TypeOK, Rows, StagedFirst, StillWorking, LoopOK, PromoteOK, UniformOK, ReapLate,
       NoHalfSet
  <2> QED
    BY <2>1, <2>2, <2>3
<1>3. ASSUME Upload PROVE TypeOK' /\ Reach' /\ Rows'
  <2> USE <1>1, <1>3 DEF Upload, Goes, Uploading, InTry
  <2>1. TypeOK'
    BY DEF TypeOK
  <2>2. Reach'
    BY DEF TypeOK, Reach, Rows, StagedFirst, StillWorking, NoOrphanObject, HasKey, KeysLive,
       DoomedStays, Doomed, ErasedGone
  <2>3. Rows'
    BY DEF TypeOK, Rows, StagedFirst, StillWorking, LoopOK, PromoteOK, UniformOK, ReapLate,
       NoHalfSet
  <2> QED
    BY <2>1, <2>2, <2>3
<1>4. ASSUME Record PROVE TypeOK' /\ Reach' /\ Rows'
  <2> USE <1>1, <1>4 DEF Record, Goes, Uploading, InTry
  <2>1. TypeOK'
    BY DEF TypeOK, Rows, StagedFirst
  <2>2. Reach'
    BY DEF TypeOK, Reach, Rows, NoOrphanObject, HasKey, KeysLive, DoomedStays, Doomed, ErasedGone
  <2>3. Rows'
    BY DEF TypeOK, Rows, StagedFirst, StillWorking, LoopOK, PromoteOK, UniformOK, ReapLate,
       NoHalfSet
  <2> QED
    BY <2>1, <2>2, <2>3
<1>5. ASSUME Promote PROVE TypeOK' /\ Reach' /\ Rows'
  <2> USE <1>1, <1>5 DEF Promote, Goes, Uploading, InTry
  <2>1. TypeOK'
    BY DEF TypeOK
  <2>2. Reach'
    BY DEF TypeOK, Reach, Rows, StillWorking, NoOrphanObject, HasKey, KeysLive, DoomedStays,
       Doomed, ErasedGone
  <2>3. \A a \in Artifacts : row'[a] = "s3"
    BY DEF TypeOK, Rows, LoopOK, PromoteOK
  <2>4. Rows'
    BY <2>3 DEF TypeOK, Rows, StagedFirst, StillWorking, LoopOK, PromoteOK, UniformOK, Uniform,
       ReapLate, NoHalfSet
  <2> QED
    BY <2>1, <2>2, <2>4
<1> QED
  BY <1>2, <1>3, <1>4, <1>5 DEF IInv, Reach, Rows

\* A step of the worker that leaves every row alone.
LEMMA QuietKeeps ==
    ASSUME IInv,
           \/ \E a \in Artifacts : Unlink(a)
           \/ Listed \/ PublishFails \/ Cancelled \/ FallBackFails \/ Check \/ Complete
           \/ Return \/ HandlerRemoves \/ HandlerFails \/ Terminated \/ WorkerDies
           \/ RequestCancel \/ (HandlerRevokes /\ UNCHANGED <<row, outbox>>)
    PROVE  IInv'
<1> USE DEF side, work, flags, Goes, Failed, Uploading, InTry, Handling, Unlink, Listed, PublishFails,
            Cancelled, FallBackFails, Check, Complete, Return, HandlerRemoves, HandlerFails,
            FailJob, Terminated, WorkerDies, RequestCancel, HandlerRevokes, TryRevoke
<1>1. TypeOK /\ Reach /\ Rows
  BY Parts
<1>2. TypeOK'
  <2>1. file' \in [Artifacts -> BOOLEAN]
    BY <1>1, RemovalType DEF TypeOK
  <2>2. wpc' \in InTry \cup Handling \cup {"exited"}
    BY <1>1 DEF TypeOK
  <2>3. job' \in {"working", "completed", "failed", "expired"} /\ cancelReq' \in {"no", "yes"}
        /\ passed' \in BOOLEAN
    BY <1>1 DEF TypeOK
  <2>4. UNCHANGED <<row, object, outbox, claimed, erased, at, uploaded, reap, expiry>>
    OBVIOUS
  <2>5. todo' \subseteq Artifacts
    BY <1>1 DEF TypeOK
  <2> QED
    BY <1>1, <2>1, <2>2, <2>3, <2>4, <2>5 DEF TypeOK
<1>3. UNCHANGED <<row, object, outbox, claimed, erased>>
  OBVIOUS
<1>4. Reach'
  <2>1. wpc' \in Uploading => wpc \in Uploading
    OBVIOUS
  <2>2. job' = "expired" => job = "expired"
    OBVIOUS
  <2> QED
    BY <1>1, <1>3, <2>1, <2>2 DEF Reach, NoOrphanObject, HasKey, KeysLive, DoomedStays, Doomed,
       ErasedGone
<1>5. Rows'
  <2>1. StagedFirst' /\ LoopOK' /\ PromoteOK' /\ ReapLate'
    BY <1>1, <1>3 DEF Rows, StagedFirst, LoopOK, PromoteOK, ReapLate
  <2>2. StillWorking'
    BY <1>1, <1>3 DEF Rows, StillWorking
  <2>3. UniformOK'
    BY <1>1, <1>3 DEF Rows, UniformOK, Uniform
  <2>4. NoHalfSet'
    BY <1>1, <1>3 DEF Rows, UniformOK, Uniform, NoHalfSet
  <2> QED
    BY <2>1, <2>2, <2>3, <2>4 DEF Rows
<1> QED
  BY <1>2, <1>4, <1>5 DEF IInv, Reach, Rows

\* The fallback, and every revocation.
LEMMA RevocationsKeep ==
    ASSUME IInv, FallBack \/ Expire \/ (RevokeRows /\ (HandlerRevokes \/ ReapRevokes))
    PROVE  IInv'
<1> USE DEF side, work, flags, Goes, Uploading, InTry, Handling, RevokeRows, TryRevoke
<1>1. TypeOK /\ Reach /\ Rows
  BY Parts
<1>2. Enqueue
  BY DEF FallBack, HandlerRevokes, ReapRevokes, Expire
<1>3. /\ outbox' \in [Artifacts -> {"none", "due", "leased", "delayed"}]
      /\ \A a \in Artifacts : outbox'[a] # "none" <=> outbox[a] # "none" \/ HasKey(a)
  BY <1>1, <1>2, EnqueueType
<1>4. \A a \in Artifacts : row'[a] \in {"none", "local"}
  BY DEF FallBack, HandlerRevokes, ReapRevokes, Expire
<1>5. wpc' \notin Uploading \/ \A a \in Artifacts : row'[a] = "none"
  BY DEF FallBack, HandlerRevokes, ReapRevokes, Expire
<1>6. UNCHANGED <<object, claimed, erased>>
  BY DEF FallBack, HandlerRevokes, ReapRevokes, Expire
<1>7. TypeOK'
  <2>1. row' \in [Artifacts -> {"none", "local", "uploading", "s3"}] /\ passed' \in BOOLEAN
    BY <1>1 DEF TypeOK, FallBack, HandlerRevokes, ReapRevokes, Expire
  <2> QED
    BY <1>1, <1>3, <2>1 DEF TypeOK, FallBack, HandlerRevokes, ReapRevokes, Expire
<1>8. Reach'
  <2>1. DoomedStays'
    BY <1>1, <1>3, <1>4, <1>5, <1>6 DEF Reach, HasKey, DoomedStays, Doomed
  <2> QED
    BY <1>1, <1>3, <1>4, <1>6, <2>1 DEF Reach, NoOrphanObject, HasKey, KeysLive, ErasedGone
<1>9. Rows'
  <2>1. CASE FallBack
    <3>1. \A a \in Artifacts : row'[a] = "local"
      BY <1>1, <2>1 DEF FallBack, TypeOK, Rows, StillWorking
    <3> QED
      BY <1>1, <2>1, <3>1 DEF FallBack, Rows, StagedFirst, StillWorking, LoopOK, PromoteOK,
         UniformOK, Uniform, ReapLate, NoHalfSet
  <2>2. CASE RevokeRows /\ (HandlerRevokes \/ ReapRevokes \/ Expire)
    <3>1. \A a \in Artifacts : row'[a] = "none"
      BY <2>2
    <3>2. Uniform' /\ NoHalfSet'
      BY <3>1 DEF Uniform, NoHalfSet
    <3>3. wpc' \notin InTry \ {"done"}
      BY <1>1, <2>2 DEF HandlerRevokes, ReapRevokes, Expire, TypeOK, Rows, StillWorking,
         ReapLate
    <3>4. ReapLate'
      BY <1>1, <2>2 DEF HandlerRevokes, ReapRevokes, Expire, Rows, ReapLate
    <3> QED
      BY <3>2, <3>3, <3>4 DEF Rows, StagedFirst, StillWorking, LoopOK, PromoteOK, UniformOK
  <2> QED
    BY <2>1, <2>2 DEF Expire
<1> QED
  BY <1>7, <1>8, <1>9 DEF IInv, Reach, Rows

\* The other steps of the dispatcher and the clean-up, and a crash.
LEMMA SupervisionKeeps ==
    ASSUME IInv,
           \/ Reaped \/ ReapFails \/ ReapRemoves \/ ExpiryRemoves \/ Crash
           \/ ReapRevokes /\ UNCHANGED <<row, outbox>>
    PROVE  IInv'
<1> USE DEF work, flags, Uploading, InTry, Handling, Reaped, ReapFails, FailJob, ReapRemoves,
            ExpiryRemoves, Crash, ReapRevokes, TryRevoke
<1>1. TypeOK /\ Reach /\ Rows
  BY Parts
<1>2. TypeOK'
  <2>1. claimed' \in [Deleters -> SUBSET Artifacts] /\ erased' \in [Deleters -> SUBSET Artifacts]
    BY <1>1 DEF TypeOK
  <2>2. file' \in [Artifacts -> BOOLEAN]
    BY <1>1, RemovalType DEF TypeOK
  <2>3. UNCHANGED <<row, object, outbox, cancelReq, at, todo, uploaded>> /\ passed' \in BOOLEAN
    BY <1>1 DEF TypeOK
  <2>4. /\ job' \in {"working", "completed", "failed", "expired"}
        /\ wpc' \in InTry \cup Handling \cup {"exited"}
        /\ reap' \in {"idle", "revoke", "rmdirs", "done"}
        /\ expiry' \in {"idle", "rmdirs", "done"}
    BY <1>1 DEF TypeOK
  <2> QED
    BY <1>1, <2>1, <2>2, <2>3, <2>4 DEF TypeOK
<1>3. /\ UNCHANGED <<row, object, outbox, todo, at>>
      /\ wpc' \in {wpc, "exited"}
      /\ job' \in {job, "failed"} /\ (job \in {"completed", "expired"} => job' = job)
      /\ reap' = "revoke" => wpc' = "exited" \/ reap = "revoke"
      /\ wpc' # "exited" => job' = job
  BY <1>1 DEF TypeOK
<1>4. \A d \in Deleters : claimed'[d] \subseteq claimed[d] /\ erased'[d] \subseteq erased[d]
  BY <1>1 DEF TypeOK
<1>5. Reach'
  BY <1>1, <1>3, <1>4 DEF Reach, NoOrphanObject, HasKey, KeysLive, DoomedStays, Doomed, ErasedGone
<1>6. Rows'
  <2>1. StagedFirst' /\ LoopOK' /\ PromoteOK' /\ ReapLate'
    BY <1>1, <1>3 DEF Rows, StagedFirst, LoopOK, PromoteOK, ReapLate
  <2>2. StillWorking'
    BY <1>1, <1>3 DEF Rows, StillWorking
  <2>3. UniformOK' /\ NoHalfSet'
    BY <1>1, <1>3 DEF Rows, UniformOK, Uniform, NoHalfSet
  <2> QED
    BY <2>1, <2>2, <2>3 DEF Rows
<1> QED
  BY <1>2, <1>5, <1>6 DEF IInv, Reach, Rows

\* The deletion outbox.
LEMMA OutboxKeeps ==
    ASSUME IInv, Outbox
    PROVE  IInv'
<1> USE DEF work, side, flags
<1>1. TypeOK /\ Reach /\ Rows
  BY Parts
<1>2. UNCHANGED <<row, file, job, cancelReq, passed, wpc, at, todo, uploaded, reap, expiry>>
  BY DEF Outbox, ClaimDue, DeleterDies, Erase, Acknowledge, DeletionFails, LeaseEnds, DelayEnds
<1>3. Rows'
  <2>1. StagedFirst' /\ StillWorking' /\ LoopOK' /\ PromoteOK' /\ ReapLate'
    BY <1>1, <1>2 DEF Rows, StagedFirst, StillWorking, LoopOK, PromoteOK, ReapLate
  <2>2. UniformOK' /\ NoHalfSet'
    BY <1>1, <1>2 DEF Rows, UniformOK, Uniform, NoHalfSet
  <2> QED
    BY <2>1, <2>2 DEF Rows
<1>4. KeysLive'
  BY <1>1, <1>2 DEF Reach, KeysLive, HasKey
<1> DEFINE Moves == /\ TypeOK'
                   /\ NoOrphanObject' /\ DoomedStays' /\ ErasedGone'
<1> USE <1>1, <1>2 DEF TypeOK, Reach, NoOrphanObject, HasKey, DoomedStays, Doomed, ErasedGone
<1>5. ASSUME NEW d \in Deleters, ClaimDue(d) PROVE Moves
  BY <1>5 DEF ClaimDue
<1>6. ASSUME NEW d \in Deleters, DeleterDies(d) PROVE Moves
  BY <1>6 DEF DeleterDies
<1>7. ASSUME NEW d \in Deleters, NEW a \in Artifacts, Erase(d, a) PROVE Moves
  BY <1>7 DEF Erase
<1>8. ASSUME NEW d \in Deleters, NEW a \in Artifacts, Acknowledge(d, a) PROVE Moves
  BY <1>8 DEF Acknowledge, Drop
<1>9. ASSUME NEW d \in Deleters, NEW a \in Artifacts, DeletionFails(d, a) PROVE Moves
  BY <1>9 DEF DeletionFails, Drop
<1>10. ASSUME NEW a \in Artifacts, LeaseEnds(a) \/ DelayEnds(a) PROVE Moves
  BY <1>10 DEF LeaseEnds, DelayEnds
<1>11. Moves
  BY <1>5, <1>6, <1>7, <1>8, <1>9, <1>10 DEF Outbox
<1> QED
  BY <1>3, <1>4, <1>11 DEF IInv, Rows

LEMMA StutterKeeps ==
    ASSUME IInv, UNCHANGED vars
    PROVE  IInv'
<1> USE DEF vars, work, side, flags
<1>1. TypeOK'
  BY DEF IInv, TypeOK
<1>2. Reach'
  BY Parts DEF Reach, NoOrphanObject, HasKey, KeysLive, DoomedStays, Doomed, ErasedGone
<1>3. Rows'
  BY Parts DEF Rows, StagedFirst, StillWorking, LoopOK, PromoteOK, UniformOK, Uniform, ReapLate,
     NoHalfSet
<1> QED
  BY <1>1, <1>2, <1>3 DEF IInv, Reach, Rows

LEMMA AlwaysIInv == Spec => []IInv
<1>1. Init => IInv
  BY InitIInv
<1>2. IInv /\ [Next]_vars => IInv'
  BY PublishKeeps, QuietKeeps, RevocationsKeep, SupervisionKeeps, OutboxKeeps, StutterKeeps
     DEF Next, WorkerStep, HandlerRevokes, ReapRevokes, TryRevoke
<1> QED
  BY <1>1, <1>2, PTL DEF Spec

\* Every variable keeps its type, for all parameters.
THEOREM StoreTypeCorrect == Spec => []TypeOK
<1>1. IInv => TypeOK
  BY DEF IInv
<1> QED
  BY <1>1, AlwaysIInv, PTL

\* No object in the bucket is ever out of reach of rows and outbox: publishing,
\* revoking and deleting may be cut off anywhere, by any number of processes.
THEOREM NothingIsOrphaned == Spec => []NoOrphanObject
<1>1. IInv => NoOrphanObject
  BY DEF IInv
<1> QED
  BY <1>1, AlwaysIInv, PTL

\* What a completed job offers is on one side, however many artifacts it has.
THEOREM AllOrNothing == Spec => []NoHalfSet
<1>1. IInv => NoHalfSet
  BY DEF IInv
<1> QED
  BY <1>1, AlwaysIInv, PTL

-----------------------------------------------------------------------------
(***************************************************************************)
(* What rows promise is there.                                             *)
(***************************************************************************)
NoRows == \A a \in Artifacts : row[a] = "none"

\* What a row names exists; an uploaded object waits for its row to say so.
LocalThere    == \A a \in Artifacts : row[a] = "local" => file[a] \/ passed
RemoteThere   == \A a \in Artifacts : row[a] = "s3" => object[a]
UploadedThere == wpc \in Uploading =>
                   \A a \in Artifacts : row[a] = "uploading" =>
                      object[a] \/ (a = at /\ wpc = "upload")

\* Files are removed only when no row needs them, or its revocation was passed over.
FilesKept    == wpc \in Uploading \cup {"fallback"} \/ (KeepLocal /\ wpc = "list")
                  => \A a \in Artifacts : file[a]
UnlinkRemote == wpc = "unlink" => ~KeepLocal /\ \A a \in Artifacts : row[a] = "s3"
RemoveAfter  == /\ wpc = "h_dirs" => NoRows \/ passed
                /\ reap = "rmdirs" => (NoRows \/ passed) /\ wpc = "exited"
                /\ expiry = "rmdirs" => NoRows /\ job = "expired"

Served == LocalThere /\ RemoteThere /\ UploadedThere /\ FilesKept /\ UnlinkRemote /\ RemoveAfter

LEMMA InitServed == Init => Served
BY DEF Init, Served, LocalThere, RemoteThere, UploadedThere, FilesKept, UnlinkRemote, RemoveAfter,
       Uploading

LEMMA WorkerServes ==
    ASSUME IInv, Served, WorkerStep \/ Terminated \/ WorkerDies,
           KeepLocal \/ ~LateFaults \/ ~Fallback
    PROVE  Served'
<1>1. TypeOK /\ StillWorking /\ LoopOK /\ StagedFirst
  BY DEF IInv
<1> USE <1>1 DEF TypeOK, Served, LocalThere, RemoteThere, UploadedThere, FilesKept, UnlinkRemote,
        RemoveAfter, NoRows, Uploading, Goes, side, flags
<1>2. ASSUME NEW a \in Artifacts, Stage(a) PROVE Served'
  BY <1>2 DEF Stage
<1>2a. ASSUME NEW a \in Artifacts, Unlink(a) PROVE Served'
  BY <1>2a DEF Unlink
<1>3. CASE Upload \/ Record
  BY <1>3 DEF Upload, Record, StagedFirst
<1>4. CASE Promote
  <2>0. wpc = "promote" /\ \A a \in Artifacts : row[a] = "uploading"
    BY <1>4 DEF Promote, IInv, PromoteOK, LoopOK
  <2>1. \A a \in Artifacts : row[a] = "uploading" /\ object[a] /\ file[a]
    BY <2>0
  <2>2. \A a \in Artifacts : row'[a] = "s3"
    BY <1>4, <2>1 DEF Promote
  <2>3. /\ UNCHANGED <<file, object, reap, expiry, job>>
        /\ wpc' = IF KeepLocal THEN "list" ELSE "unlink"
    BY <1>4 DEF Promote
  <2>4. reap # "rmdirs" /\ expiry # "rmdirs"
    BY <1>4 DEF Promote, InTry
  <2> QED
    BY <2>1, <2>2, <2>3, <2>4, StoreAssumption
<1>5. CASE Listed \/ PublishFails \/ Cancelled \/ FallBackFails \/ Check \/ Return
  BY <1>5 DEF Listed, PublishFails, Failed, Cancelled, FallBackFails, Check, Return
<1>6. CASE FallBack
  BY <1>6 DEF FallBack
<1>7. CASE Complete
  BY <1>7 DEF Complete, StillWorking, InTry
<1>8. CASE HandlerRevokes
  BY <1>8 DEF HandlerRevokes, TryRevoke, RevokeRows
<1>9. CASE HandlerRemoves
  BY <1>9 DEF HandlerRemoves, RemoveFiles
<1>10. CASE HandlerFails
  BY <1>10 DEF HandlerFails, FailJob
<1>11. CASE Terminated \/ WorkerDies
  BY <1>11 DEF Terminated, WorkerDies, InTry, Handling
<1> QED
  BY <1>2, <1>3, <1>4, <1>5, <1>6, <1>7, <1>8, <1>9, <1>10, <1>11, <1>2a DEF WorkerStep

LEMMA OthersServe ==
    ASSUME IInv, Served,
           \/ RequestCancel \/ Reaped \/ ReapFails \/ ReapRevokes \/ ReapRemoves
           \/ Expire \/ ExpiryRemoves \/ Crash \/ UNCHANGED vars
    PROVE  Served'
<1>1. TypeOK /\ StillWorking /\ ReapLate
  BY DEF IInv
<1> USE <1>1 DEF TypeOK, Served, LocalThere, RemoteThere, UploadedThere, FilesKept, UnlinkRemote,
        RemoveAfter, NoRows, Uploading, work, side, flags
<1>2. CASE RequestCancel \/ Reaped \/ UNCHANGED vars
  BY <1>2 DEF RequestCancel, Reaped, vars
<1>3. CASE ReapFails
  BY <1>3 DEF ReapFails, FailJob
<1>4. CASE ReapRevokes
  BY <1>4 DEF ReapRevokes, TryRevoke, RevokeRows, ReapLate
<1>5. CASE ReapRemoves
  BY <1>5 DEF ReapRemoves, RemoveFiles
<1>6. CASE Expire
  <2>1. /\ NoRows' /\ job' = "expired"
        /\ UNCHANGED <<file, wpc, reap>>
    BY <1>6 DEF Expire, RevokeRows
  <2>2. wpc # "unlink"
    BY <1>6 DEF Expire, StillWorking, InTry
  <2> QED
    BY <2>1, <2>2
<1>7. CASE ExpiryRemoves
  BY <1>7 DEF ExpiryRemoves, RemoveFiles, StillWorking, InTry
<1>8. CASE Crash
  BY <1>8 DEF Crash
<1> QED
  BY <1>2, <1>3, <1>4, <1>5, <1>6, <1>7, <1>8

\* A deleter erases what no row names.
LEMMA OutboxServes ==
    ASSUME IInv, Served, Outbox
    PROVE  Served'
<1> USE DEF Served, LocalThere, RemoteThere, UploadedThere, FilesKept, UnlinkRemote,
        RemoveAfter, NoRows, work, side, flags
<1>1. CASE UNCHANGED object
  BY <1>1 DEF Outbox, ClaimDue, DeleterDies, Erase, Acknowledge, DeletionFails, LeaseEnds,
     DelayEnds
<1>2. ASSUME NEW d \in Deleters, NEW a \in Artifacts, Erase(d, a) PROVE Served'
  <2>1. ~HasKey(a)
    BY <1>2 DEF Erase, IInv, DoomedStays, Doomed
  <2> QED
    BY <1>2, <2>1 DEF Erase, HasKey, IInv, TypeOK
<1> QED
  BY <1>1, <1>2 DEF Outbox, ClaimDue, DeleterDies, Acknowledge, DeletionFails, LeaseEnds, DelayEnds

\* What a completed job lists can be served, for every number of artifacts and
\* deleters, wherever uploads fail, handlers are interrupted and processes die,
\* with one exception in the state: a revocation that raised was passed over,
\* and local files were removed although their rows had stayed.  And with one
\* in the settings: the fallback must not run after local copies were removed,
\* so they are kept, or nothing fails after the promotion, or S3 is required.
THEOREM RowsAreServable ==
    ASSUME KeepLocal \/ ~LateFaults \/ ~Fallback
    PROVE  Spec => []RowsServable
<1>1. IInv /\ Served /\ [Next]_vars => Served'
  BY WorkerServes, OthersServe, OutboxServes DEF Next
<1>2. Served => RowsServable
  BY DEF Served, LocalThere, RemoteThere, RowsServable
<1> QED
  BY <1>1, <1>2, InitServed, AlwaysIInv, PTL DEF Spec
===============================================================================
