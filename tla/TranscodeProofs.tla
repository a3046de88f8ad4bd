--------------------------- MODULE TranscodeProofs ---------------------------
(***************************************************************************)
(* Four facts about Transcode, for any numbers of requests, workers, job   *)
(* rows, rungs, attempts and stalls, and any set of faults:                *)
(*                                                                         *)
(*   TypeCorrect         the type invariant                                *)
(*   CompletedPublished  nothing is completed before its output is there,  *)
(*                       by the inductive invariant PublishedInv           *)
(*   Exclusive           one worker at a time, by LockInv                  *)
(*   Verdicts            the database is told what BullMQ does, by LockInv *)
(*                                                                         *)
(* One lemma per group of actions shows that the group keeps an invariant. *)
(*                                                                         *)
(* And two about OneClient, what a client is promised that has the asset   *)
(* to itself: it sends one request at a time, puts its video by a direct   *)
(* upload or a presigned URL, and asks for it to be processed as often as  *)
(* it likes.  The workers may be many and die at any time, and anything    *)
(* may fail that the handlers are written to survive.                      *)
(*                                                                         *)
(*   Backed              a ready asset has its renditions, and an asset    *)
(*                       that can be processed has a source                *)
(*   LifecycleKept       the pipeline implements AssetLifecycle            *)
(*                                                                         *)
(* Both follow from Served, which rests on LockInv: while a worker works,  *)
(* the queue job is live, and then no request is past its look at it.      *)
(***************************************************************************)
EXTENDS Transcode, TLAPS

\* Updates of a queue job and of a worker's record that keep their type.
LEMMA BullUpdate ==
    ASSUME NEW b \in BullJob, NEW s \in BullState, NEW m \in Nat,
           NEW o \in Workers \cup {None}
    PROVE  /\ [b EXCEPT !.state = s, !.made = m, !.owner = o] \in BullJob
           /\ [b EXCEPT !.owner = o, !.stalled = m, !.state = s] \in BullJob
BY DEF BullJob

\* A worker that fetches a job, or moves on, is still a worker.
LEMMA WorkerUpdate ==
    ASSUME NEW x \in Worker, NEW p \in WorkerPc, NEW j \in Jobs \cup {None},
           NEW m \in Nat
    PROVE  [x EXCEPT !.pc = p, !.job = j, !.attempt = m] \in Worker
BY DEF Worker

\* A request that has read the status is still a request.
LEMMA RequestUpdate ==
    ASSUME NEW q \in Request, NEW p \in RequestPc, NEW s \in AssetStatus
    PROVE  [q EXCEPT !.pc = p, !.seen = s] \in Request
BY DEF Request

\* A worker with nothing to do, running or not, is a worker.
LEMMA IdleWorkerType ==
    ASSUME ConstantsAssumption
    PROVE  \A p \in WorkerPc : [IdleWorker EXCEPT !.pc = p] \in Worker /\ IdleWorker \in Worker
<1>1. 1 \in Ladder
    BY DEF Ladder, ConstantsAssumption
<1>2. "idle" \in WorkerPc /\ "none" \in SourceKind
    BY DEF WorkerPc, SourceKind
<1> QED
    BY <1>1, <1>2 DEF IdleWorker, Worker

\* What a client calls keeps the types.
LEMMA CallTypes ==
    ASSUME ConstantsAssumption, TypeOK, NEW r \in Requests, Call(r)
    PROVE  TypeOK'
<1> USE DEF TypeOK, AssetRow, Request, Called, ApiGoto
<1>1. CASE Presign(r)
    BY <1>1 DEF Presign
<1>2. CASE ConfirmSource(r)
    BY <1>2 DEF ConfirmSource, RequestPc
<1>3. CASE CompleteMultipart(r)
    BY <1>3 DEF CompleteMultipart, RequestPc
<1>4. CASE BeginUpload(r)
    BY <1>4 DEF BeginUpload, RequestPc
<1>5. CASE Import(r)
    BY <1>5 DEF Import, AssetStatus
<1>6. CASE ProcessRead(r)
    <2>1. req' \in [Requests -> Request]
        <3> HIDE DEF Request
        <3>1. /\ req[r] \in Request /\ asset.status \in AssetStatus
              /\ "checkRows" \in RequestPc
            BY DEF RequestPc
        <3>2. PICK new \in Request : req' = [req EXCEPT ![r] = new]
            BY <3>1, <1>6, RequestUpdate DEF ProcessRead
        <3> QED
            BY <3>2
    <2> QED
        BY <2>1, <1>6 DEF ProcessRead
<1>7. CASE DeleteSources(r)
    <2>1. req' \in [Requests -> Request]
        BY <1>7 DEF DeleteSources, RequestPc
    <2>2. source' \in BOOLEAN
        BY <1>7 DEF DeleteSources
    <2> QED
        BY <2>1, <2>2, <1>7 DEF DeleteSources
<1> QED
    BY <1>1, <1>2, <1>3, <1>4, <1>5, <1>6, <1>7 DEF Call

\* So does every further statement of an API handler ...
LEMMA ContinueTypes ==
    ASSUME ConstantsAssumption, TypeOK, NEW r \in Requests, Continue(r)
    PROVE  TypeOK'
<1> USE DEF TypeOK, AssetRow, Request, RequestPc, ApiGoto, Finish, IdleRequest,
        AssetStatus, NoFault, Fault
<1>1. CASE Assemble(r)
    BY <1>1 DEF Assemble
<1>2. CASE Promote(r)
    BY <1>2 DEF Promote
<1>3. CASE EndUpload(r)
    BY <1>3 DEF EndUpload
<1>4. CASE AbortUpload(r)
    BY <1>4 DEF AbortUpload
<1>5. CASE CommitUpload(r)
    BY <1>5 DEF CommitUpload
<1>6. CASE CheckRows(r)
    BY <1>6 DEF CheckRows
<1>7. CASE CheckQueue(r)
    BY <1>7 DEF CheckQueue
<1>8. CASE RemoveOld(r)
    BY <1>8 DEF RemoveOld, BullJob, BullState, NoBull
<1>9. CASE InsertRow(r)
    BY <1>9 DEF InsertRow, UnusedIds, JobStatus
<1>10. CASE SetQueued(r)
    BY <1>10 DEF SetQueued, SetStatus
<1>11. CASE AddToQueue(r)
    <2>1. Added(req[r].job) \in BullJob
        BY DEF Added, BullJob, BullState, NoBull
    <2>2. bull' \in BullJob
        BY <2>1, <1>11 DEF AddToQueue
    <2>3. req' \in [Requests -> Request]
        BY <1>11 DEF AddToQueue
    <2>4. budget' \in 0..FaultBudget
        BY <1>11 DEF AddToQueue, ConstantsAssumption
    <2> QED
        BY <2>2, <2>3, <2>4, <1>11 DEF AddToQueue
<1>12. CASE UndoRow(r)
    BY <1>12 DEF UndoRow, SetRow, RowExists, JobStatus
<1>13. CASE UndoStatus(r)
    BY <1>13 DEF UndoStatus, SetStatus
<1>14. CASE DeletePlayback(r)
    BY <1>14 DEF DeletePlayback
<1>15. CASE DeleteRow(r)
    BY <1>15 DEF DeleteRow, JobStatus
<1> QED
    BY <1>1, <1>2, <1>3, <1>4, <1>5, <1>6, <1>7, <1>8, <1>9, <1>10, <1>11,
       <1>12, <1>13, <1>14, <1>15 DEF Continue

\* ... and its interruption.
LEMMA InterruptTypes ==
    ASSUME ConstantsAssumption, TypeOK, NEW r \in Requests, Interrupt(r)
    PROVE  TypeOK'
<1> USE DEF TypeOK, Request, RequestPc, Finish, IdleRequest, AssetStatus, Fault
<1>1. CASE Disconnect(r)
    BY <1>1 DEF Disconnect, Detached
<1>2. CASE Abandon(r)
    BY <1>2 DEF Abandon
<1> QED
    BY <1>1, <1>2 DEF Interrupt

\* The worker's own statements, from the fetch of a job to its end, keep the types.
LEMMA TranscodeTypes ==
    ASSUME ConstantsAssumption, TypeOK, NEW w \in Workers, Transcode(w)
    PROVE  TypeOK'
<1> USE DEF TypeOK, Worker, WorkerPc, WorkingPc, WorkerGoto, Throw, ThrowUnmarked,
        Release, SourceKind, AssetRow, SetStatus, FailedStatus, NoFault, Fault
<1>1. CASE Fetch(w)
    <2>1. bull' \in BullJob
        BY <1>1 DEF Fetch, BullJob, BullState
    <2>2. bull.job \in Jobs \cup {None} /\ bull.made + 1 \in Nat
        BY DEF BullJob
    <2>3. wkr' \in [Workers -> Worker]
        <3> DEFINE new == [wkr[w] EXCEPT !.pc = "load", !.job = bull.job,
                                         !.attempt = bull.made + 1]
        <3>1. wkr[w] \in Worker /\ "load" \in WorkerPc
            OBVIOUS
        <3>2. new \in Worker
            <4> HIDE DEF TypeOK, Worker, WorkerPc
            <4> QED BY <2>2, <3>1, WorkerUpdate
        <3>3. wkr' = [wkr EXCEPT ![w] = new]
            BY <1>1 DEF Fetch
        <3> QED
            BY <3>2, <3>3
    <2> QED
        BY <2>1, <2>3, <1>1 DEF Fetch
<1>2. CASE Load(w)
    BY <1>2 DEF Load
<1>3. CASE Skip(w)
    BY <1>3 DEF Skip, SetRow, RowExists, JobStatus
<1>4. CASE ClaimRow(w)
    BY <1>4 DEF ClaimRow, SetRow, RowExists, JobStatus
<1>5. CASE ClaimAsset(w)
    BY <1>5, SMTT(40) DEF ClaimAsset, AssetStatus
<1>6. CASE ClearRenditions(w)
    BY <1>6 DEF ClearRenditions
<1>7. CASE ClaimFails(w)
    BY <1>7 DEF ClaimFails
<1>8. CASE Resolve(w)
    BY <1>8 DEF Resolve, Found
<1>9. CASE EncodeRung(w)
    <2>1. wkr' \in [Workers -> Worker]
        <3>1. wkr[w].rung # Rungs => wkr[w].rung + 1 \in Ladder
            BY DEF Ladder, ConstantsAssumption
        <3>2. \A new \in Worker : [wkr EXCEPT ![w] = new] \in [Workers -> Worker]
            OBVIOUS
        <3>3. /\ [wkr[w] EXCEPT !.pc = "publish"] \in Worker
              /\ wkr[w].rung # Rungs => [wkr[w] EXCEPT !.rung = @ + 1] \in Worker
            BY <3>1
        <3> QED
            BY <3>2, <3>3, <1>9 DEF EncodeRung
    <2> QED
        BY <2>1, <1>9 DEF EncodeRung
<1>10. CASE EncodeFails(w)
    BY <1>10 DEF EncodeFails
<1>11. CASE Publish(w)
    BY <1>11 DEF Publish
<1>12. CASE MarkReady(w)
    BY <1>12 DEF MarkReady, AssetStatus
<1>13. CASE MarkDone(w)
    BY <1>13 DEF MarkDone, SetRow, RowExists, JobStatus
<1>14. CASE Archive(w)
    BY <1>14 DEF Archive, Archived
<1>15. CASE Cleanup(w)
    <2>1. Detached \in [Requests -> Request]
        BY DEF Detached, Request, RequestPc
    <2>2. req' \in [Requests -> Request]
        BY <1>15, <2>1 DEF Cleanup
    <2>3. wkr' \in [Workers -> Worker]
        BY <1>15 DEF Cleanup
    <2> QED
        BY <1>15, <2>2, <2>3 DEF Cleanup
<1>16. CASE Ack(w)
    <2>1. IdleWorker \in Worker
        BY IdleWorkerType
    <2>2. wkr' \in [Workers -> Worker]
        BY <2>1, <1>16 DEF Ack
    <2>3. bull' \in BullJob
        BY <1>16 DEF Ack, BullJob, BullState
    <2> QED
        BY <2>2, <2>3, <1>16 DEF Ack
<1>17. CASE RetryAsset(w)
    BY <1>17 DEF RetryAsset, AssetStatus
<1>18. CASE RetryRow(w)
    BY <1>18 DEF RetryRow, SetRow, RowExists, JobStatus
<1>19. CASE FailAsset(w)
    BY <1>19 DEF FailAsset, AssetStatus
<1>20. CASE FailRow(w)
    BY <1>20 DEF FailRow, SetRow, RowExists, JobStatus
<1>21. CASE Nack(w)
    <2>1. wkr' \in [Workers -> Worker]
        <3>1. IdleWorker \in Worker
            BY IdleWorkerType
        <3> QED
            BY <3>1, <1>21 DEF Nack
    <2>2. bull' \in BullJob
        <3> DEFINE over == [bull EXCEPT
                !.state = IF ~wkr[w].fatal /\ bull.made + 1 < MaxAttempts
                          THEN "delayed" ELSE "failed",
                !.made = @ + 1, !.owner = None]
        <3>1. bull.made + 1 \in Nat /\ {"delayed", "failed"} \subseteq BullState
            BY DEF BullJob, BullState
        <3>2. over \in BullJob
            BY <3>1, BullUpdate
        <3> QED
            BY <3>2, <1>21 DEF Nack
    <2>3. notices' \in SUBSET Notice
        BY <1>21 DEF Nack, Notice
    <2> QED
        BY <2>1, <2>2, <2>3, <1>21 DEF Nack
<1> QED
    BY <1>1, <1>2, <1>3, <1>4, <1>5, <1>6, <1>7, <1>8, <1>9, <1>10, <1>11,
       <1>12, <1>13, <1>14, <1>15, <1>16, <1>17, <1>18, <1>19, <1>20,
       <1>21 DEF Transcode

\* So does the reconciliation of a booting worker ...
LEMMA BootTypes ==
    ASSUME ConstantsAssumption, TypeOK, NEW w \in Workers, Boot(w)
    PROVE  TypeOK'
<1> USE DEF TypeOK, Worker, WorkerPc, WorkingPc, BootPc, WorkerGoto, NoFault, Fault
<1>1. CASE Restart(w)
    BY <1>1 DEF Restart
<1>2. CASE BootScan(w)
    BY <1>2 DEF BootScan
<1>3. CASE BootInspect(w)
    BY <1>3 DEF BootInspect
<1>4. CASE BootFailAsset(w)
    BY <1>4, SMTT(40) DEF BootFailAsset, FailedStatus, AssetRow, AssetStatus
<1>5. CASE BootFailRows(w)
    BY <1>5 DEF BootFailRows, JobStatus
<1> QED
    BY <1>1, <1>2, <1>3, <1>4, <1>5 DEF Boot

\* ... and, with BullMQ's stalled check and a crash, whatever workers do.
LEMMA FleetTypes ==
    ASSUME ConstantsAssumption, TypeOK, Fleet
    PROVE  TypeOK'
<1> PICK w \in Workers : WorkerStep(w) \/ StalledCheck(w) \/ Crash(w)
    BY DEF Fleet
<1>1. CASE WorkerStep(w)
    BY <1>1, TranscodeTypes, BootTypes DEF WorkerStep
<1>2. CASE StalledCheck(w)
    <2>1. bull' \in BullJob
        <3> DEFINE lost == [bull EXCEPT !.owner = None, !.stalled = @ + 1,
                !.state = IF bull.stalled + 1 > MaxStalls
                          THEN "failed" ELSE "waiting"]
        <3>1. bull.stalled + 1 \in Nat /\ {"waiting", "failed"} \subseteq BullState
            BY DEF TypeOK, BullJob, BullState
        <3>2. lost \in BullJob
            BY <3>1, BullUpdate DEF TypeOK
        <3> QED
            BY <3>2, <1>2 DEF StalledCheck
    <2>2. notices' \in SUBSET Notice
        BY <1>2 DEF StalledCheck, TypeOK, BullJob, Notice
    <2>3. budget' \in 0..FaultBudget
        BY <1>2 DEF StalledCheck, TypeOK, Fault, NoFault, ConstantsAssumption
    <2> QED
        BY <2>1, <2>2, <2>3, <1>2 DEF StalledCheck, TypeOK
<1>3. CASE Crash(w)
    <2>1. [IdleWorker EXCEPT !.pc = "down"] \in Worker
        BY IdleWorkerType DEF WorkerPc, BootPc
    <2>2. wkr' \in [Workers -> Worker]
        BY <2>1, <1>3 DEF Crash, TypeOK
    <2>3. budget' \in 0..FaultBudget
        BY <1>3 DEF Crash, TypeOK, Fault, ConstantsAssumption
    <2> QED
        BY <2>2, <2>3, <1>3 DEF Crash, TypeOK
<1> QED
    BY <1>1, <1>2, <1>3

\* The 'failed' and 'stalled' listeners keep the types.
LEMMA ListenTypes ==
    ASSUME ConstantsAssumption, TypeOK, Listen
    PROVE  TypeOK'
<1> USE DEF TypeOK, Notice, Handled, Onward, Fault, NoFault
<1> PICK n \in notices : NoticeCheck(n) \/ NoticeAsset(n) \/ NoticeRow(n)
    BY DEF Listen
<1>1. CASE NoticeCheck(n)
    BY <1>1 DEF NoticeCheck
<1>2. CASE NoticeAsset(n)
    BY <1>2 DEF NoticeAsset, FailedStatus, AssetRow, AssetStatus
<1>3. CASE NoticeRow(n)
    BY <1>3 DEF NoticeRow, SetRow, RowExists, JobStatus
<1> QED
    BY <1>1, <1>2, <1>3

\* No step of the API, of a worker, of a listener or of the queue leaves the
\* types.
THEOREM TypeCorrect == Spec => []TypeOK
<1>1. Init => TypeOK
    <2> SUFFICES ASSUME Init PROVE TypeOK
        OBVIOUS
    <2>1. asset \in AssetRow /\ jobs \in [Jobs -> JobStatus]
        BY DEF Init, AssetRow, AssetStatus, JobStatus
    <2>2. bull \in BullJob
        BY DEF Init, NoBull, BullJob, BullState
    <2>3. req \in [Requests -> Request]
        BY DEF Init, IdleRequest, Request, RequestPc, AssetStatus
    <2>4. wkr \in [Workers -> Worker]
        BY ConstantsAssumption, IdleWorkerType DEF Init, WorkerPc
    <2>5. budget \in 0..FaultBudget
        BY ConstantsAssumption DEF Init, ConstantsAssumption
    <2> QED
        BY <2>1, <2>2, <2>3, <2>4, <2>5 DEF Init, TypeOK
<1>2. TypeOK /\ [Next]_vars => TypeOK'
    <2> SUFFICES ASSUME TypeOK, [Next]_vars
                 PROVE  TypeOK'
        OBVIOUS
    <2> USE ConstantsAssumption
    <2>1. CASE Api
        BY <2>1, CallTypes, ContinueTypes, InterruptTypes DEF Api
    <2>2. CASE SourceLands
        BY <2>2 DEF SourceLands, TypeOK
    <2>3. CASE Fleet
        BY <2>3, FleetTypes
    <2>4. CASE Listen
        BY <2>4, ListenTypes
    <2>5. CASE Queue
        BY <2>5 DEF Queue, BackoffOver, Retire, TypeOK, BullJob, BullState, NoBull
    <2>6. CASE UNCHANGED vars
        BY <2>6 DEF vars, TypeOK
    <2> QED
        BY <2>1, <2>2, <2>3, <2>4, <2>5, <2>6 DEF Next
<1> QED
    BY <1>1, <1>2, PTL DEF Spec

-----------------------------------------------------------------------------
(* Nothing is completed before an output is published.                     *)

\* From the end of uploadDirectory to the answer to BullMQ.
AfterPublish == {"skip", "markReady", "markDone", "archive", "cleanup", "ack"}

\* The strengthening: nor is any request or worker about to say so. A worker is
\* past its upload, or has read "ready" and skips; a request has read "ready"
\* and may restore it.
PublishedInv ==
    playback = "never" =>
        /\ asset.status # "ready"
        /\ bull.state # "completed"
        /\ \A j \in Jobs : jobs[j] # "completed"
        /\ \A r \in Requests : req[r].seen # "ready"
        /\ \A w \in Workers : wkr[w].pc \notin AfterPublish

\* An output that was published is at most purged.
LEMMA PlaybackStays ==
    ASSUME Next, playback # "never"
    PROVE  playback' # "never"
<1>1. CASE Api
    BY <1>1 DEF Api, Call, Presign, ConfirmSource, CompleteMultipart,
        BeginUpload, Import, ProcessRead, DeleteSources, Continue,
        Assemble, Promote, EndUpload, AbortUpload, CommitUpload,
        CheckRows, CheckQueue, RemoveOld, InsertRow, SetQueued,
        AddToQueue, UndoRow, UndoStatus, DeletePlayback, DeleteRow,
        Interrupt, Disconnect, Abandon
<1>2. CASE SourceLands
    BY <1>2 DEF SourceLands
<1>3. CASE Fleet
    <2> PICK w \in Workers : WorkerStep(w) \/ StalledCheck(w) \/ Crash(w)
        BY <1>3 DEF Fleet
    <2>1. CASE Transcode(w)
        BY <2>1 DEF Transcode, Fetch, Load, Skip, ClaimRow, ClaimAsset, ClearRenditions,
            ClaimFails, Resolve, EncodeRung, EncodeFails, Publish, MarkReady, MarkDone, Archive,
            Cleanup, Ack, RetryAsset, RetryRow, FailAsset, FailRow, Nack
    <2>2. CASE Boot(w) \/ StalledCheck(w) \/ Crash(w)
        BY <2>2 DEF Boot, Restart, BootScan, BootInspect, BootFailAsset, BootFailRows,
            StalledCheck, Crash
    <2> QED
        BY <2>1, <2>2 DEF WorkerStep
<1>4. CASE Listen
    BY <1>4 DEF Listen, NoticeCheck, NoticeAsset, NoticeRow
<1>5. CASE Queue
    BY <1>5 DEF Queue, BackoffOver, Retire
<1> QED
    BY <1>1, <1>2, <1>3, <1>4, <1>5 DEF Next

\* A call marks nothing ready or completed by itself.
LEMMA CallPublished ==
    ASSUME TypeOK, PublishedInv, NEW r \in Requests, Call(r)
    PROVE  PublishedInv'
<1> SUFFICES ASSUME playback' = "never"
             PROVE  PublishedInv'
    BY DEF PublishedInv
<1>1. playback = "never"
    BY PlaybackStays DEF Next, Api
<1> USE <1>1 DEF PublishedInv, TypeOK, Request, AssetRow, ApiGoto, Finish, IdleRequest, Called
<1>2. CASE Presign(r)
    BY <1>2 DEF Presign
<1>3. CASE ConfirmSource(r)
    BY <1>3 DEF ConfirmSource
<1>4. CASE CompleteMultipart(r)
    BY <1>4 DEF CompleteMultipart
<1>5. CASE BeginUpload(r)
    BY <1>5 DEF BeginUpload
<1>6. CASE Import(r)
    BY <1>6 DEF Import
<1>7. CASE ProcessRead(r)
    BY <1>7 DEF ProcessRead
<1>8. CASE DeleteSources(r)
    BY <1>8 DEF DeleteSources
<1> QED
    BY <1>2, <1>3, <1>4, <1>5, <1>6, <1>7, <1>8 DEF Call

\* Nor does the rest of a handler: /process can only restore the status it saw, and
\* it saw ready only when an output was there.
LEMMA ContinuePublished ==
    ASSUME TypeOK, PublishedInv, NEW r \in Requests, Continue(r)
    PROVE  PublishedInv'
<1> SUFFICES ASSUME playback' = "never"
             PROVE  PublishedInv'
    BY DEF PublishedInv
<1>1. playback = "never"
    BY PlaybackStays DEF Next, Api
<1> USE <1>1 DEF PublishedInv, TypeOK, Request, AssetRow, ApiGoto, Finish, IdleRequest
<1>2. CASE Assemble(r)
    BY <1>2 DEF Assemble
<1>3. CASE Promote(r)
    BY <1>3 DEF Promote
<1>4. CASE EndUpload(r)
    BY <1>4 DEF EndUpload
<1>5. CASE AbortUpload(r)
    BY <1>5 DEF AbortUpload
<1>6. CASE CommitUpload(r)
    BY <1>6 DEF CommitUpload
<1>7. CASE CheckRows(r)
    BY <1>7 DEF CheckRows
<1>8. CASE CheckQueue(r)
    BY <1>8 DEF CheckQueue
<1>9. CASE RemoveOld(r)
    BY <1>9 DEF RemoveOld, NoBull
<1>10. CASE InsertRow(r)
    BY <1>10 DEF InsertRow
<1>11. CASE SetQueued(r)
    BY <1>11 DEF SetQueued, SetStatus
<1>12. CASE AddToQueue(r)
    <2>1. Added(req[r].job).state # "completed"
        BY <1>1 DEF Added, NoBull
    <2>2. bull' \in {bull, Added(req[r].job)}
        BY <1>12 DEF AddToQueue
    <2>3. \A q \in Requests : req'[q].seen # "ready"
        BY <1>12, SMTT(40) DEF AddToQueue
    <2> QED
        BY <2>1, <2>2, <2>3, <1>12 DEF AddToQueue
<1>13. CASE UndoRow(r)
    BY <1>13 DEF UndoRow, SetRow, RowExists
<1>14. CASE UndoStatus(r)
    BY <1>14 DEF UndoStatus, SetStatus
<1>15. CASE DeletePlayback(r)
    BY <1>15 DEF DeletePlayback
<1>16. CASE DeleteRow(r)
    BY <1>16 DEF DeleteRow
<1> QED
    BY <1>2, <1>3, <1>4, <1>5, <1>6, <1>7, <1>8, <1>9, <1>10, <1>11,
       <1>12, <1>13, <1>14, <1>15, <1>16 DEF Continue

\* A handler that stops half way marks nothing completed.
LEMMA InterruptPublished ==
    ASSUME TypeOK, PublishedInv, NEW r \in Requests, Interrupt(r)
    PROVE  PublishedInv'
<1> SUFFICES ASSUME playback' = "never"
             PROVE  PublishedInv'
    BY DEF PublishedInv
<1>1. playback = "never"
    BY PlaybackStays DEF Next, Api
<1> USE <1>1 DEF PublishedInv, TypeOK, Request, AssetRow, ApiGoto, Finish, IdleRequest
<1>2. CASE Disconnect(r)
    BY <1>2 DEF Disconnect, Detached
<1>3. CASE Abandon(r)
    BY <1>3 DEF Abandon
<1> QED
    BY <1>2, <1>3 DEF Interrupt

\* A worker reaches the statements that say completed only past its upload, or when
\* it loaded an asset that was ready already.
LEMMA TranscodePublished ==
    ASSUME TypeOK, PublishedInv, NEW w \in Workers, Transcode(w)
    PROVE  PublishedInv'
<1> SUFFICES ASSUME playback' = "never"
             PROVE  PublishedInv'
    BY DEF PublishedInv
<1>1. playback = "never"
    BY PlaybackStays DEF Next, Fleet, WorkerStep
<1> USE <1>1 DEF PublishedInv, TypeOK, Worker, AssetRow, WorkerGoto, Throw, ThrowUnmarked, Release,
        IdleWorker, AfterPublish, SetStatus, FailedStatus, SetRow, RowExists
<1>2. CASE Fetch(w)
    BY <1>2 DEF Fetch
<1>3. CASE Load(w)
    BY <1>3 DEF Load
<1>4. CASE Skip(w)
    BY <1>4 DEF Skip
<1>5. CASE ClaimRow(w)
    BY <1>5 DEF ClaimRow
<1>6. CASE ClaimAsset(w)
    BY <1>6 DEF ClaimAsset
<1>7. CASE ClearRenditions(w)
    BY <1>7 DEF ClearRenditions
<1>8. CASE ClaimFails(w)
    BY <1>8 DEF ClaimFails
<1>9. CASE Resolve(w)
    BY <1>9 DEF Resolve
<1>10. CASE EncodeRung(w)
    BY <1>10 DEF EncodeRung
<1>11. CASE EncodeFails(w)
    BY <1>11 DEF EncodeFails
<1>12. CASE Publish(w)
    BY <1>12 DEF Publish
<1>13. CASE MarkReady(w)
    BY <1>13 DEF MarkReady
<1>14. CASE MarkDone(w)
    BY <1>14 DEF MarkDone
<1>15. CASE Archive(w)
    BY <1>15 DEF Archive
<1>16. CASE Cleanup(w)
    BY <1>16 DEF Cleanup, Detached, Request
<1>17. CASE Ack(w)
    BY <1>17 DEF Ack
<1>18. CASE RetryAsset(w)
    BY <1>18 DEF RetryAsset
<1>19. CASE RetryRow(w)
    BY <1>19 DEF RetryRow
<1>20. CASE FailAsset(w)
    BY <1>20 DEF FailAsset
<1>21. CASE FailRow(w)
    BY <1>21 DEF FailRow
<1>22. CASE Nack(w)
    <2>1. bull'.state # "completed"
        BY <1>22 DEF Nack, BullJob
    <2>2. \A v \in Workers : wkr'[v].pc \notin AfterPublish
        BY <1>22 DEF Nack
    <2> QED
        BY <2>1, <2>2, <1>22 DEF Nack
<1> QED
    BY <1>2, <1>3, <1>4, <1>5, <1>6, <1>7, <1>8, <1>9, <1>10, <1>11,
       <1>12, <1>13, <1>14, <1>15, <1>16, <1>17, <1>18, <1>19, <1>20,
       <1>21, <1>22 DEF Transcode

\* A reconciliation only ever writes errors.
LEMMA BootPublished ==
    ASSUME TypeOK, PublishedInv, NEW w \in Workers, Boot(w)
    PROVE  PublishedInv'
<1> SUFFICES ASSUME playback' = "never"
             PROVE  PublishedInv'
    BY DEF PublishedInv
<1>1. playback = "never"
    BY PlaybackStays DEF Next, Fleet, WorkerStep
<1> USE <1>1 DEF PublishedInv, TypeOK, Worker, AssetRow, WorkerGoto, Throw, ThrowUnmarked, Release,
        IdleWorker, AfterPublish, SetStatus, FailedStatus, SetRow, RowExists
<1>2. CASE Restart(w)
    BY <1>2 DEF Restart
<1>3. CASE BootScan(w)
    BY <1>3 DEF BootScan
<1>4. CASE BootInspect(w)
    BY <1>4 DEF BootInspect
<1>5. CASE BootFailAsset(w)
    BY <1>5 DEF BootFailAsset
<1>6. CASE BootFailRows(w)
    BY <1>6 DEF BootFailRows, PendingRow
<1> QED
    BY <1>2, <1>3, <1>4, <1>5, <1>6 DEF Boot

\* An asset is ready, a jobs row completed, a queue job completed only once a whole
\* HLS output has been uploaded, whatever the faults and the interleaving.
THEOREM CompletedPublished == Spec => []CompletedIsPublished
<1>1. Init => PublishedInv
    BY DEF Init, PublishedInv, NoBull, IdleRequest, IdleWorker, AfterPublish
<1>2. TypeOK /\ PublishedInv /\ [Next]_vars => PublishedInv'
    <2> SUFFICES ASSUME TypeOK, PublishedInv, [Next]_vars
                 PROVE  PublishedInv'
        OBVIOUS
    <2>1. CASE Api
        BY <2>1, CallPublished, ContinuePublished, InterruptPublished DEF Api
    <2>2. CASE SourceLands
        BY <2>2 DEF SourceLands, PublishedInv
    <2>3. CASE Fleet
        <3> PICK w \in Workers : WorkerStep(w) \/ StalledCheck(w) \/ Crash(w)
            BY <2>3 DEF Fleet
        <3>1. CASE WorkerStep(w)
            BY <3>1, TranscodePublished, BootPublished DEF WorkerStep
        <3>2. CASE StalledCheck(w)
            BY <3>2 DEF StalledCheck, PublishedInv, TypeOK, BullJob
        <3>3. CASE Crash(w)
            BY <3>3 DEF Crash, PublishedInv, TypeOK, Worker, IdleWorker, AfterPublish
        <3> QED
            BY <3>1, <3>2, <3>3
    <2>4. CASE Listen
        <3> PICK n \in notices : NoticeCheck(n) \/ NoticeAsset(n) \/ NoticeRow(n)
            BY <2>4 DEF Listen
        <3> QED
            BY DEF NoticeCheck, NoticeAsset, NoticeRow, PublishedInv, TypeOK,
                AssetRow, FailedStatus, SetRow, RowExists
    <2>5. CASE Queue
        BY <2>5 DEF Queue, BackoffOver, Retire, PublishedInv, TypeOK, BullJob, NoBull
    <2>6. CASE UNCHANGED vars
        BY <2>6 DEF vars, PublishedInv
    <2> QED
        BY <2>1, <2>2, <2>3, <2>4, <2>5, <2>6 DEF Next
<1>3. PublishedInv => CompletedIsPublished
    BY DEF PublishedInv, CompletedIsPublished
<1> QED
    BY <1>1, <1>2, <1>3, TypeCorrect, PTL DEF Spec

-----------------------------------------------------------------------------
(* Locks: one worker at a time, and one verdict per attempt.               *)

\* The strengthening: a worker that holds the lock counts the attempts as BullMQ
\* does, took its decision on that count, and, if no lock is ever lost by a live
\* worker, every working worker holds the lock.
LockInv ==
    \A w \in Workers :
        /\ Working(w) /\ HoldsLock(w) => wkr[w].attempt = bull.made + 1
        /\ wkr[w].pc \in {"retryAsset", "retryRow"} => wkr[w].attempt < MaxAttempts
        /\ wkr[w].pc \in {"failAsset", "failRow"} =>
               wkr[w].fatal \/ ~(wkr[w].attempt < MaxAttempts)
        /\ "stall" \notin Faults /\ Working(w) => HoldsLock(w)

\* A step that leaves the workers alone, and the queue job too while it is
\* active, has nothing to do with locks.
LEMMA LockFrame ==
    ASSUME LockInv, wkr' = wkr,
           bull.state = "active" \/ bull'.state = "active" => bull' = bull
    PROVE  LockInv'
BY DEF LockInv, Working, HoldsLock

\* The API takes no lock away: an active job is neither removed nor added again.
LEMMA ApiLock ==
    ASSUME TypeOK, LockInv, Api
    PROVE  LockInv'
<1> PICK r \in Requests : Call(r) \/ Continue(r) \/ Interrupt(r)
    BY DEF Api
<1>1. wkr' = wkr
    BY DEF Call, Presign, ConfirmSource, CompleteMultipart, BeginUpload,
        Import, ProcessRead, DeleteSources, Continue, Assemble, Promote,
        EndUpload, AbortUpload, CommitUpload, CheckRows, CheckQueue,
        RemoveOld, InsertRow, SetQueued, AddToQueue, UndoRow, UndoStatus,
        DeletePlayback, DeleteRow, Interrupt, Disconnect, Abandon
<1>2. CASE RemoveOld(r)
    <2>1. bull' = bull \/ (bull' = NoBull /\ bull.state # "active")
        BY <1>2 DEF RemoveOld
    <2> QED
        BY <1>1, <2>1, LockFrame DEF NoBull
<1>3. CASE AddToQueue(r)
    <2>1. bull' = bull \/ bull' = Added(req[r].job)
        BY <1>3 DEF AddToQueue
    <2>2. bull.state # "none" => Added(req[r].job) = bull
        BY DEF Added
    <2>3. bull.state = "none" => Added(req[r].job).state = "waiting"
        BY DEF Added, NoBull
    <2> QED
        BY <1>1, <2>1, <2>2, <2>3, LockFrame
<1>4. CASE ~RemoveOld(r) /\ ~AddToQueue(r)
    <2>1. bull' = bull
        BY <1>4 DEF Call, Presign, ConfirmSource, CompleteMultipart,
            BeginUpload, Import, ProcessRead, DeleteSources,
            Continue, Assemble, Promote, EndUpload, AbortUpload,
            CommitUpload, CheckRows, CheckQueue, InsertRow,
            SetQueued, UndoRow, UndoStatus, DeletePlayback,
            DeleteRow, Interrupt, Disconnect, Abandon
    <2> QED
        BY <1>1, <2>1, LockFrame
<1> QED
    BY <1>2, <1>3, <1>4

\* A worker works only on the job it holds, and counts attempts as BullMQ does.
LEMMA TranscodeLock ==
    ASSUME TypeOK, LockInv, NEW w \in Workers, Transcode(w)
    PROVE  LockInv'
<1> USE DEF LockInv, HoldsLock, Working, WorkingPc, TypeOK, Worker, WorkerGoto, Throw,
        ThrowUnmarked, Release, IdleWorker
<1>2. CASE Fetch(w)
    BY <1>2 DEF Fetch, BullJob
<1>3. CASE Load(w)
    BY <1>3 DEF Load
<1>4. CASE Skip(w)
    BY <1>4 DEF Skip
<1>5. CASE ClaimRow(w)
    BY <1>5 DEF ClaimRow
<1>6. CASE ClaimAsset(w)
    BY <1>6 DEF ClaimAsset
<1>7. CASE ClearRenditions(w)
    BY <1>7 DEF ClearRenditions
<1>8. CASE ClaimFails(w)
    BY <1>8 DEF ClaimFails
<1>9. CASE Resolve(w)
    BY <1>9 DEF Resolve
<1>10. CASE EncodeRung(w)
    BY <1>10 DEF EncodeRung
<1>11. CASE EncodeFails(w)
    BY <1>11 DEF EncodeFails
<1>12. CASE Publish(w)
    BY <1>12 DEF Publish
<1>13. CASE MarkReady(w)
    BY <1>13 DEF MarkReady
<1>14. CASE MarkDone(w)
    BY <1>14 DEF MarkDone
<1>15. CASE Archive(w)
    BY <1>15 DEF Archive
<1>16. CASE Cleanup(w)
    BY <1>16 DEF Cleanup
<1>17. CASE Ack(w)
    BY <1>17 DEF Ack, BullJob
<1>18. CASE RetryAsset(w)
    BY <1>18 DEF RetryAsset
<1>19. CASE RetryRow(w)
    BY <1>19 DEF RetryRow
<1>20. CASE FailAsset(w)
    BY <1>20 DEF FailAsset
<1>21. CASE FailRow(w)
    BY <1>21 DEF FailRow
<1>22. CASE Nack(w)
    <2>1. ~Working(w)' /\ wkr' = [wkr EXCEPT ![w] = IdleWorker]
        BY <1>22 DEF Nack
    <2>2. bull' = bull \/ (bull'.state # "active" /\ HoldsLock(w))
        <3> DEFINE over == [bull EXCEPT
                !.state = IF ~wkr[w].fatal /\ bull.made + 1 < MaxAttempts
                          THEN "delayed" ELSE "failed",
                !.made = @ + 1, !.owner = None]
        <3>1. over.state # "active"
            BY DEF BullJob
        <3> HIDE DEF over
        <3>2. bull' = IF HoldsLock(w) THEN over ELSE bull
            BY <1>22, Zenon DEF Nack, over
        <3>3. CASE HoldsLock(w)
            BY <3>1, <3>2, <3>3
        <3>4. CASE ~HoldsLock(w)
            BY <3>2, <3>4
        <3> QED
            BY <3>3, <3>4
    <2>3. \A v \in Workers \ {w} : HoldsLock(v) => ~HoldsLock(w)
        OBVIOUS
    <2>4. CASE bull' = bull
        BY <2>1, <2>4
    <2>5. CASE bull'.state # "active" /\ HoldsLock(w)
        BY <2>1, <2>3, <2>5
    <2> QED
        BY <2>2, <2>4, <2>5
<1> QED
    BY <1>2, <1>3, <1>4, <1>5, <1>6, <1>7, <1>8, <1>9, <1>10, <1>11,
       <1>12, <1>13, <1>14, <1>15, <1>16, <1>17, <1>18, <1>19, <1>20,
       <1>21, <1>22 DEF Transcode

\* A booting worker holds no lock and takes none.
LEMMA BootLock ==
    ASSUME TypeOK, LockInv, NEW w \in Workers, Boot(w)
    PROVE  LockInv'
<1> USE DEF LockInv, HoldsLock, Working, WorkingPc, TypeOK, Worker, WorkerGoto, Throw,
        ThrowUnmarked, Release, IdleWorker
<1>2. CASE Restart(w)
    BY <1>2 DEF Restart
<1>3. CASE BootScan(w)
    BY <1>3 DEF BootScan
<1>4. CASE BootInspect(w)
    <2>1. bull' = bull /\ ~Working(w)'
        BY <1>4 DEF BootInspect
    <2>2. \A v \in Workers \ {w} : wkr'[v] = wkr[v]
        BY <1>4 DEF BootInspect
    <2>3. wkr'[w].pc \in {"idle", "bootFailAsset"}
        BY <1>4 DEF BootInspect
    <2> QED
        BY <2>1, <2>2, <2>3
<1>5. CASE BootFailAsset(w)
    BY <1>5 DEF BootFailAsset
<1>6. CASE BootFailRows(w)
    BY <1>6 DEF BootFailRows
<1> QED
    BY <1>2, <1>3, <1>4, <1>5, <1>6 DEF Boot

\* Only the stalled check takes a lock: from a worker that died, or by a stall.
LEMMA FleetLock ==
    ASSUME ConstantsAssumption, TypeOK, LockInv, Fleet
    PROVE  LockInv'
<1> PICK w \in Workers : WorkerStep(w) \/ StalledCheck(w) \/ Crash(w)
    BY DEF Fleet
<1>1. CASE WorkerStep(w)
    BY <1>1, TranscodeLock, BootLock DEF WorkerStep
<1>2. CASE StalledCheck(w)
    <2>1. wkr' = wkr /\ bull'.state # "active" /\ bull.state = "active"
        BY <1>2 DEF StalledCheck, TypeOK, BullJob
    <2>2. "stall" \notin Faults => OwnerLost
        BY <1>2 DEF StalledCheck, Fault
    <2>3. "stall" \notin Faults => \A v \in Workers : ~Working(v)
        BY <2>2, ConstantsAssumption DEF LockInv, OwnerLost, HoldsLock, ConstantsAssumption
    <2> QED
        BY <2>1, <2>3 DEF LockInv, HoldsLock, Working
<1>3. CASE Crash(w)
    BY <1>3 DEF Crash, LockInv, HoldsLock, Working, WorkingPc, TypeOK, Worker, IdleWorker
<1> QED
    BY <1>1, <1>2, <1>3

\* The lock invariant holds in every reachable state.
LEMMA LockInvariant == Spec => []LockInv
<1>1. Init => LockInv
    BY DEF Init, LockInv, HoldsLock, Working, WorkingPc, NoBull, IdleWorker
<1>2. TypeOK /\ LockInv /\ [Next]_vars => LockInv'
    <2> SUFFICES ASSUME TypeOK, LockInv, [Next]_vars
                 PROVE  LockInv'
        OBVIOUS
    <2>1. CASE Api
        BY <2>1, ApiLock
    <2>2. CASE SourceLands
        BY <2>2, LockFrame DEF SourceLands
    <2>3. CASE Fleet
        BY <2>3, FleetLock, ConstantsAssumption
    <2>4. CASE Listen
        BY <2>4, LockFrame DEF Listen, NoticeCheck, NoticeAsset, NoticeRow
    <2>5. CASE Queue
        BY <2>5, LockFrame DEF Queue, BackoffOver, Retire, NoBull, TypeOK, BullJob
    <2>6. CASE UNCHANGED vars
        BY <2>6, LockFrame DEF vars
    <2> QED
        BY <2>1, <2>2, <2>3, <2>4, <2>5, <2>6 DEF Next
<1> QED
    BY <1>1, <1>2, TypeCorrect, PTL DEF Spec

\* While no live worker loses its lock, at most one worker is on the asset,
\* however many there are, whatever crashes and is delivered again.
THEOREM Exclusive == Spec => []ExclusiveTranscode
<1>1. LockInv => ExclusiveTranscode
    BY DEF LockInv, ExclusiveTranscode, HoldsLock
<1> QED
    BY <1>1, LockInvariant, PTL

\* What the worker writes about a retry is what BullMQ then does, under every
\* fault and for every number of attempts and stalls allowed.
THEOREM Verdicts == Spec => []VerdictsAgree
<1>1. TypeOK /\ LockInv => VerdictsAgree
    <2> SUFFICES ASSUME TypeOK, LockInv, NEW w \in Workers, HoldsLock(w)
                 PROVE  /\ wkr[w].pc \in {"retryAsset", "retryRow"}
                               => bull.made + 1 < MaxAttempts
                        /\ wkr[w].pc \in {"failAsset", "failRow"}
                               => wkr[w].fatal \/ bull.made + 1 >= MaxAttempts
        BY DEF VerdictsAgree
    <2>1. MaxAttempts \in Nat /\ bull.made \in Nat
        BY ConstantsAssumption DEF ConstantsAssumption, TypeOK, BullJob
    <2> QED
        BY <2>1 DEF LockInv, Working, WorkingPc
<1> QED
    BY <1>1, TypeCorrect, LockInvariant, PTL


-----------------------------------------------------------------------------
(* One client.                                                             *)

\* One request at a time, the faults the handlers are written to survive (the
\* constants of the run one_client, but for their sizes).
OneClient ==
    /\ \A r, s \in Requests : r = s
    /\ Endpoints \subseteq {"upload", "presign", "process"}
    /\ Faults \subseteq {"disconnect", "queueAdd", "queueRead", "source",
                         "reject", "encode", "publish", "crash"}

Uploading  == {"stream", "commitUpload", "abortUpload"}
Submitting == {"checkRows", "checkQueue", "removeOld", "insert", "setQueued"}
Submitted  == {"add", "undoRow", "undoStatus"}
PastQueue  == {"removeOld", "insert", "setQueued"} \cup Submitted

\* What a request q may rest on: a direct upload has the asset to itself until
\* it is committed; a submission finds the asset as it read it, or worse, and
\* once it has looked at the queue no job is live.
Rightful(q, row, rungs, vol, src, live) ==
    /\ q.pc \in {"idle", "promote"} \cup Uploading \cup Submitting \cup Submitted
    /\ q.pc \in Uploading => row.status = "created"
    /\ q.pc = "commitUpload" => vol = "whole"
    /\ q.pc = "promote" => row.key /\ src
    /\ q.pc \in Submitting \cup Submitted =>
           row.status # "created" /\ q.seen \in ProcessableStatuses
    /\ q.pc \in Submitting /\ q.seen = "ready" => row.status = "ready"
    /\ q.pc \in Submitted =>
           row.status \in {"queued", "error"} /\ (q.seen = "ready" => rungs = Ladder)
    /\ q.pc \in PastQueue => ~live

\* What a worker x may rest on: from its claim to its verdict the status is its
\* own or an error that somebody else reports; the renditions rows are those of
\* its turns of the ladder loop; its local source stays until it is in the bucket.
Transcoding == {"clear", "resolve", "encode", "publish", "markReady", "retryAsset"}
Reading == {"encode", "publish", "markReady", "markDone", "archive"}
Grounded(x, status, rungs, vol, src, output) ==
    /\ x.pc \in {"claimRow", "claimAsset"} => status \in {"queued", "processing", "error"}
    /\ x.pc \in Transcoding => status \in {"processing", "error"}
    /\ x.pc \in {"claimRow", "claimAsset", "clear", "resolve"} \cup Reading => x.key
    /\ x.pc \in {"idle", "load", "claimRow", "claimAsset", "clear", "resolve"} \cup BootPc =>
           x.rung = 1
    /\ x.pc = "resolve" => rungs = {}
    /\ x.pc = "encode" => rungs = 1..(x.rung - 1)
    /\ x.pc \in {"publish", "markReady"} => rungs = Ladder
    /\ x.pc = "markReady" => output = "complete"
    /\ x.pc \in Reading /\ x.src = "volume" => vol # "absent"
    /\ x.pc = "cleanup" /\ x.src = "volume" => src

AssetInv ==
    /\ asset.status # "gone"
    /\ asset.status # "created" => asset.key /\ (volume = "whole" \/ source)
    /\ BullLive => asset.status \notin {"created", "uploaded"}
    /\ asset.status = "ready" => rows = Ladder
RequestInv ==
    \A r \in Requests : Rightful(req[r], asset, rows, volume, source, BullLive)
WorkerInv ==
    \A w \in Workers : Grounded(wkr[w], asset.status, rows, volume, source, playback)
Served == AssetInv /\ RequestInv /\ WorkerInv

-----------------------------------------------------------------------------
(* What one client at a time, and a lock, buy.                             *)

\* Who works holds a live job.
LEMMA NobodyWorks ==
    ASSUME LockInv, OneClient, ~BullLive
    PROVE  \A w \in Workers : ~Working(w)
BY DEF LockInv, OneClient, BullLive, LiveQueueStates, HoldsLock

\* The request that moves is the only one.
LEMMA OnlyRequest ==
    ASSUME TypeOK, OneClient, NEW r \in Requests, NEW q, req' = [req EXCEPT ![r] = q]
    PROVE  \A o \in Requests : o = r /\ req'[o] = q
BY DEF TypeOK, OneClient

LEMMA OnlyMoves ==
    ASSUME TypeOK, OneClient, NEW r \in Requests, NEW from, NEW to, ApiGoto(r, from, to)
    PROVE  \A o \in Requests : /\ req[o].pc = from /\ req'[o].pc = to
                               /\ req'[o].seen = req[o].seen
<1> DEFINE q == [req[r] EXCEPT !.pc = to]
<1>1. req' = [req EXCEPT ![r] = q]
    BY DEF ApiGoto
<1>2. q.pc = to /\ q.seen = req[r].seen
    BY DEF TypeOK, Request
<1>3. req[r].pc = from
    BY DEF ApiGoto
<1> HIDE DEF q
<1>4. \A o \in Requests : o = r /\ req'[o] = q
    BY <1>1, OnlyRequest
<1> QED
    BY <1>2, <1>3, <1>4

\* A client with no request under way may rest on nothing.
LEMMA OnlyFinishes ==
    ASSUME TypeOK, OneClient, NEW r \in Requests, Finish(r)
    PROVE  RequestInv'
<1>1. \A o \in Requests : req'[o] = IdleRequest
    BY OnlyRequest DEF Finish
<1> QED
    BY <1>1 DEF RequestInv, Rightful, IdleRequest, Uploading, Submitting, Submitted, PastQueue

\* Workers are not disturbed by what leaves their files and the status alone ...
LEMMA WorkersAside ==
    ASSUME WorkerInv, wkr' = wkr, asset'.status = asset.status,
           UNCHANGED <<rows, volume, playback>>, source => source'
    PROVE  WorkerInv'
BY DEF WorkerInv, Grounded

\* ... nor by anything while no job is live.
LEMMA WorkersIdle ==
    ASSUME TypeOK, LockInv, OneClient, WorkerInv, wkr' = wkr, ~BullLive
    PROVE  WorkerInv'
<1>1. \A w \in Workers : wkr[w].pc \in BootPc \cup {"idle"} /\ wkr[w].rung = 1
    BY NobodyWorks DEF TypeOK, Worker, WorkerPc, Working, WorkerInv, Grounded
<1> QED
    BY <1>1 DEF WorkerInv, Grounded, BootPc, Transcoding, Reading

-----------------------------------------------------------------------------
(* The client's requests.                                                  *)

LEMMA CallServed ==
    ASSUME TypeOK, LockInv, OneClient, Served, NEW r \in Requests, Call(r)
    PROVE  Served'
<1> USE DEF Served, AssetInv
<1>1. CASE Presign(r)
    <2>1. asset'.status = asset.status /\ asset'.key
        BY <1>1 DEF Presign, TypeOK, AssetRow
    <2>2. BullLive' = BullLive /\ UNCHANGED <<rows, volume, source, playback, req, wkr>>
        BY <1>1 DEF Presign, BullLive
    <2>3. RequestInv'
        BY <2>1, <2>2 DEF RequestInv, Rightful
    <2>4. WorkerInv'
        BY <2>1, <2>2, WorkersAside
    <2> QED
        BY <2>1, <2>2, <2>3, <2>4
<1>2. CASE ConfirmSource(r)
    <2>1. ApiGoto(r, "idle", "promote") /\ asset.key /\ source
        BY <1>2 DEF ConfirmSource
    <2>2. BullLive' = BullLive /\ UNCHANGED <<asset, rows, volume, source, playback, wkr>>
        BY <1>2 DEF ConfirmSource, BullLive
    <2>3. RequestInv'
        BY <2>1, <2>2, OnlyMoves
        DEF RequestInv, Rightful, Uploading, Submitting, Submitted, PastQueue
    <2>4. WorkerInv'
        BY <2>2, WorkersAside
    <2> QED
        BY <2>2, <2>3, <2>4
<1>3. CASE BeginUpload(r)
    <2>1. ApiGoto(r, "idle", "stream") /\ asset.status = "created"
        BY <1>3 DEF BeginUpload
    <2>2. BullLive' = BullLive /\ UNCHANGED <<asset, rows, source, playback, wkr>>
        BY <1>3 DEF BeginUpload, BullLive
    <2>3. RequestInv'
        BY <2>1, <2>2, OnlyMoves
        DEF RequestInv, Rightful, Uploading, Submitting, Submitted, PastQueue
    <2>4. WorkerInv'
        BY <2>1, <2>2, WorkersIdle
    <2> QED
        BY <2>1, <2>2, <2>3, <2>4
<1>4. CASE ProcessRead(r)
    <2> DEFINE q == [req[r] EXCEPT !.pc = "checkRows", !.seen = asset.status]
    <2>1. req' = [req EXCEPT ![r] = q] /\ asset.status \in ProcessableStatuses
        BY <1>4 DEF ProcessRead
    <2>2. q.pc = "checkRows" /\ q.seen = asset.status
        BY DEF TypeOK, Request
    <2> HIDE DEF q
    <2>3. BullLive' = BullLive /\ UNCHANGED <<asset, rows, volume, source, playback, wkr>>
        BY <1>4 DEF ProcessRead, BullLive
    <2>4. \A o \in Requests : req'[o] = q
        BY <2>1, OnlyRequest
    <2>5. RequestInv'
        BY <2>1, <2>2, <2>3, <2>4
        DEF RequestInv, Rightful, Uploading, Submitting, Submitted, PastQueue, ProcessableStatuses
    <2>6. WorkerInv'
        BY <2>3, WorkersAside
    <2> QED
        BY <2>3, <2>5, <2>6
<1>5. ~CompleteMultipart(r) /\ ~Import(r) /\ ~DeleteSources(r)
    BY DEF OneClient, CompleteMultipart, Import, DeleteSources, Called
<1> QED
    BY <1>1, <1>2, <1>3, <1>4, <1>5 DEF Call

\* The upload, and its confirmation.
LEMMA UploadServed ==
    ASSUME TypeOK, LockInv, OneClient, Served, NEW r \in Requests,
           \/ Promote(r) \/ EndUpload(r) \/ AbortUpload(r) \/ CommitUpload(r)
           \/ Disconnect(r)
    PROVE  Served'
<1> USE DEF Served, AssetInv
<1>1. req[r].pc \in {"stream", "commitUpload", "abortUpload"} => asset.status = "created"
    BY DEF RequestInv, Rightful, Uploading
<1>2. CASE Promote(r)
    <2>1. Finish(r) /\ wkr' = wkr /\ BullLive' = BullLive
          /\ UNCHANGED <<rows, volume, source, playback>>
        BY <1>2 DEF Promote, BullLive
    <2>2. RequestInv'
        BY <2>1, OnlyFinishes
    <2>3. CASE asset.status # "created"
        BY <1>2, <2>1, <2>2, <2>3, WorkersAside DEF Promote
    <2>4. CASE asset.status = "created"
        <3>1. asset.key /\ source
            BY <1>2 DEF Promote, RequestInv, Rightful
        <3>2. asset'.status = "uploaded" /\ asset'.key
            BY <1>2, <2>4, <3>1 DEF Promote, TypeOK, AssetRow
        <3>3. ~BullLive
            BY <2>4
        <3>4. WorkerInv'
            BY <2>1, <3>3, WorkersIdle
        <3> QED
            BY <2>1, <2>2, <3>1, <3>2, <3>3, <3>4
    <2> QED
        BY <2>3, <2>4
<1>3. CASE EndUpload(r)
    <2>1. req[r].pc = "stream"
        BY <1>3 DEF EndUpload, RequestInv, Rightful, Uploading, Submitting, Submitted
    <2>2. ApiGoto(r, "stream", "commitUpload")
        BY <1>3, <2>1 DEF EndUpload
    <2>3. volume' = "whole"
        BY <1>3, <2>1 DEF EndUpload, OneClient
    <2>4. BullLive' = BullLive /\ UNCHANGED <<asset, rows, source, playback, wkr>>
        BY <1>3 DEF EndUpload, BullLive
    <2>5. RequestInv'
        BY <1>1, <2>1, <2>2, <2>3, <2>4, OnlyMoves
        DEF RequestInv, Rightful, Uploading, Submitting, Submitted, PastQueue
    <2>6. WorkerInv'
        BY <1>1, <2>1, <2>4, WorkersIdle
    <2> QED
        BY <1>1, <2>1, <2>4, <2>5, <2>6
<1>4. CASE AbortUpload(r)
    <2>1. Finish(r) /\ wkr' = wkr /\ BullLive' = BullLive /\ asset.status = "created"
        BY <1>1, <1>4 DEF AbortUpload, BullLive
    <2>2. asset'.status = "created"
        BY <1>4, <2>1 DEF AbortUpload, TypeOK, AssetRow
    <2>3. ~BullLive
        BY <2>1
    <2>4. WorkerInv'
        BY <2>1, <2>3, WorkersIdle
    <2> QED
        BY <2>1, <2>2, <2>3, <2>4, OnlyFinishes
<1>5. CASE CommitUpload(r)
    <2>1. /\ Finish(r) /\ wkr' = wkr /\ BullLive' = BullLive /\ asset.status = "created"
          /\ volume' = volume
        BY <1>1, <1>5 DEF CommitUpload, BullLive
    <2>2. asset'.status = "uploaded" /\ asset'.key
        BY <1>5, <2>1 DEF CommitUpload, TypeOK, AssetRow
    <2>3. ~BullLive
        BY <2>1
    <2>4. WorkerInv'
        BY <2>1, <2>3, WorkersIdle
    <2>5. volume = "whole"
        BY <1>5 DEF CommitUpload, RequestInv, Rightful
    <2> QED
        BY <2>1, <2>2, <2>3, <2>4, <2>5, OnlyFinishes
<1>6. CASE Disconnect(r)
    <2>1. req[r].pc = "stream"
        BY <1>6 DEF Disconnect, RequestInv, Rightful, Uploading, Submitting, Submitted
    <2>2. req' = [Detached EXCEPT ![r].pc = "abortUpload"]
        BY <1>6 DEF Disconnect
    <2>3. \A o \in Requests : req'[o].pc = "abortUpload"
        BY <2>2 DEF Detached, OneClient, TypeOK, Request
    <2>4. BullLive' = BullLive /\ UNCHANGED <<asset, rows, source, playback, wkr>>
        BY <1>6 DEF Disconnect, BullLive
    <2>5. RequestInv'
        BY <1>1, <2>1, <2>3, <2>4
        DEF RequestInv, Rightful, Uploading, Submitting, Submitted, PastQueue
    <2>6. WorkerInv'
        BY <1>1, <2>1, <2>4, WorkersIdle
    <2> QED
        BY <1>1, <2>1, <2>4, <2>5, <2>6
<1> QED
    BY <1>2, <1>3, <1>4, <1>5, <1>6

\* A submission.
LEMMA SubmitServed ==
    ASSUME TypeOK, LockInv, OneClient, Served, NEW r \in Requests,
           \/ CheckRows(r) \/ CheckQueue(r) \/ RemoveOld(r) \/ InsertRow(r)
           \/ SetQueued(r) \/ AddToQueue(r) \/ UndoRow(r) \/ UndoStatus(r)
    PROVE  Served'
<1> USE DEF Served, AssetInv
<1>1. Rightful(req[r], asset, rows, volume, source, BullLive)
    BY DEF RequestInv
<1>2. req[r].pc \in PastQueue => ~BullLive
    BY <1>1 DEF Rightful
<1>3. ASSUME NEW from, NEW to, ApiGoto(r, from, to), from \in Submitting, to \in Submitting,
             BullLive' = BullLive \/ ~BullLive', to \in PastQueue => ~BullLive',
             UNCHANGED <<asset, rows, volume, source, playback, wkr>>
      PROVE  Served'
    <2>1. RequestInv'
        BY <1>1, <1>3, OnlyMoves
        DEF RequestInv, Rightful, Uploading, Submitting, Submitted, PastQueue
    <2>2. WorkerInv'
        BY <1>3, WorkersAside
    <2> QED
        BY <1>3, <2>1, <2>2
<1>4. ASSUME Finish(r), UNCHANGED <<asset, rows, volume, source, playback, wkr>>,
             BullLive' => asset.status \notin {"created", "uploaded"}
      PROVE  Served'
    BY <1>4, OnlyFinishes, WorkersAside
<1>5. CASE CheckRows(r)
    <2>1. BullLive' = BullLive /\ UNCHANGED <<asset, rows, volume, source, playback, wkr>>
        BY <1>5 DEF CheckRows, BullLive
    <2>2. Finish(r) \/ ApiGoto(r, "checkRows", "checkQueue")
        BY <1>5 DEF CheckRows
    <2> QED
        BY <1>3, <1>4, <2>1, <2>2 DEF Submitting, Submitted, PastQueue
<1>6. CASE CheckQueue(r)
    <2>1. BullLive' = BullLive /\ UNCHANGED <<asset, rows, volume, source, playback, wkr>>
        BY <1>6 DEF CheckQueue, BullLive
    <2>2. CASE BullLive
        <3>1. Finish(r)
            BY <1>6, <2>2 DEF CheckQueue, BullLive, LiveQueueStates
        <3> QED
            BY <1>4, <2>1, <3>1
    <2>3. CASE ~BullLive
        <3>1. ApiGoto(r, "checkQueue", "insert") \/ ApiGoto(r, "checkQueue", "removeOld")
            BY <1>6, <2>3 DEF CheckQueue
        <3> QED
            BY <1>3, <2>1, <2>3, <3>1 DEF Submitting, Submitted, PastQueue
    <2> QED
        BY <2>2, <2>3
<1>7. CASE RemoveOld(r)
    <2>1. ~BullLive /\ ApiGoto(r, "removeOld", "insert")
        BY <1>2, <1>7 DEF RemoveOld, ApiGoto, PastQueue
    <2>2. ~BullLive'
        BY <1>7, <2>1 DEF RemoveOld, BullLive, LiveQueueStates, NoBull
    <2>3. UNCHANGED <<asset, rows, volume, source, playback, wkr>>
        BY <1>7 DEF RemoveOld
    <2> QED
        BY <1>3, <2>1, <2>2, <2>3 DEF Submitting
<1>8. CASE InsertRow(r)
    <2>1. BullLive' = BullLive /\ UNCHANGED <<asset, rows, volume, source, playback, wkr>>
        BY <1>8 DEF InsertRow, BullLive
    <2>2. CASE Finish(r)
        BY <1>4, <2>1, <2>2
    <2>3. CASE ~Finish(r)
        <3>1. PICK j \in UnusedIds : req' = [req EXCEPT ![r].pc = "setQueued", ![r].job = j]
            BY <1>8, <2>3 DEF InsertRow
        <3> DEFINE q == [req[r] EXCEPT !.pc = "setQueued", !.job = j]
        <3>2. req' = [req EXCEPT ![r] = q]
            BY <3>1
        <3>3. q.pc = "setQueued" /\ q.seen = req[r].seen
            BY DEF TypeOK, Request
        <3> HIDE DEF q
        <3>4. \A o \in Requests : req'[o] = q
            BY <3>2, OnlyRequest
        <3>5. req[r].pc = "insert"
            BY <1>8 DEF InsertRow
        <3>6. RequestInv'
            BY <1>1, <2>1, <3>3, <3>4, <3>5
            DEF RequestInv, Rightful, Uploading, Submitting, Submitted, PastQueue
        <3> QED
            BY <2>1, <3>6, WorkersAside
    <2> QED
        BY <2>2, <2>3
<1>9. CASE SetQueued(r)
    <2>1. ApiGoto(r, "setQueued", "add") /\ wkr' = wkr /\ BullLive' = BullLive
          /\ UNCHANGED <<rows, volume, source>>
        BY <1>9 DEF SetQueued, BullLive
    <2>2. ~BullLive /\ asset.status # "created"
        BY <1>1, <2>1 DEF ApiGoto, Rightful, Submitting, PastQueue
    <2>3. asset'.status = "queued" /\ asset'.key = asset.key
        BY <1>9 DEF SetQueued, SetStatus, Exists, TypeOK, AssetRow
    <2>4. req[r].seen = "ready" => rows = Ladder
        BY <1>1, <2>1 DEF ApiGoto, Rightful, Submitting
    <2>5. RequestInv'
        BY <1>1, <2>1, <2>2, <2>3, <2>4, OnlyMoves, OnlyRequest
        DEF RequestInv, Rightful, Uploading, Submitting, Submitted, PastQueue, OneClient
    <2>6. WorkerInv'
        BY <2>1, <2>2, WorkersIdle
    <2> QED
        BY <2>1, <2>2, <2>3, <2>5, <2>6
<1>10. CASE AddToQueue(r)
    <2>1. UNCHANGED <<asset, rows, volume, source, playback, wkr>>
        BY <1>10 DEF AddToQueue
    <2>2. asset.status \in {"queued", "error"} /\ ~BullLive
        BY <1>1, <1>2, <1>10 DEF AddToQueue, Rightful, Submitted, PastQueue
    <2>3. CASE Finish(r)
        BY <1>4, <2>1, <2>2, <2>3
    <2>4. CASE ~Finish(r)
        <3>1. ApiGoto(r, "add", "undoRow") /\ bull' = bull
            BY <1>10, <2>4 DEF AddToQueue, Fault, OneClient
        <3>2. ~BullLive'
            BY <2>2, <3>1 DEF BullLive
        <3>3. RequestInv'
            BY <1>1, <2>1, <2>2, <3>1, <3>2, OnlyMoves
            DEF RequestInv, Rightful, Uploading, Submitting, Submitted, PastQueue
        <3> QED
            BY <2>1, <3>2, <3>3, WorkersAside
    <2> QED
        BY <2>3, <2>4
<1>11. CASE UndoRow(r)
    <2>1. UNCHANGED <<asset, rows, volume, source, playback, wkr>> /\ BullLive' = BullLive
        BY <1>11 DEF UndoRow, BullLive
    <2>2. ApiGoto(r, "undoRow", "undoStatus")
        BY <1>11 DEF UndoRow
    <2>3. RequestInv'
        BY <1>1, <2>1, <2>2, OnlyMoves
        DEF RequestInv, Rightful, Uploading, Submitting, Submitted, PastQueue
    <2> QED
        BY <2>1, <2>3, WorkersAside
<1>12. CASE UndoStatus(r)
    <2>1. /\ Finish(r) /\ UNCHANGED <<rows, volume, source, playback, wkr>>
          /\ BullLive' = BullLive
        BY <1>12 DEF UndoStatus, BullLive
    <2>2. ~BullLive /\ req[r].seen \in ProcessableStatuses
          /\ asset.status \in {"queued", "error"} /\ (req[r].seen = "ready" => rows = Ladder)
        BY <1>1, <1>2, <1>12 DEF UndoStatus, Rightful, Submitted, PastQueue
    <2>3. asset'.status = req[r].seen /\ asset'.key = asset.key
        BY <1>12, <2>2 DEF UndoStatus, SetStatus, Exists, TypeOK, AssetRow, Fault, OneClient
    <2>4. WorkerInv'
        BY <2>1, <2>2, WorkersIdle
    <2> QED
        BY <2>1, <2>2, <2>3, <2>4, OnlyFinishes DEF ProcessableStatuses
<1> QED
    BY <1>5, <1>6, <1>7, <1>8, <1>9, <1>10, <1>11, <1>12

LEMMA ApiServed ==
    ASSUME TypeOK, LockInv, OneClient, Served, Api
    PROVE  Served'
<1> PICK r \in Requests : Call(r) \/ Continue(r) \/ Interrupt(r)
    BY DEF Api
<1>1. ~Assemble(r) /\ ~DeletePlayback(r) /\ ~DeleteRow(r)
    BY DEF Served, RequestInv, Rightful, Assemble, DeletePlayback, DeleteRow, ApiGoto,
        Uploading, Submitting, Submitted
<1>2. ~Abandon(r)
    BY DEF Abandon, Fault, OneClient
<1> QED
    BY <1>1, <1>2, CallServed, UploadServed, SubmitServed DEF Continue, Interrupt

-----------------------------------------------------------------------------
(* Workers, listeners and the queue.                                       *)

\* While a worker works no request has looked at the queue, none uploads, and
\* nobody else works.
LEMMA WorkersTurn ==
    ASSUME TypeOK, LockInv, OneClient, Served, NEW w \in Workers, Working(w)
    PROVE  /\ BullLive /\ HoldsLock(w)
           /\ asset.status \notin {"created", "uploaded"}
           /\ asset.status \in AssetStatus \ {"gone"}
           /\ \A r \in Requests : req[r].pc \notin PastQueue \cup Uploading
           /\ \A v \in Workers : v # w => wkr[v].pc \in BootPc \cup {"idle"} /\ wkr[v].rung = 1
<1>1. HoldsLock(w) /\ BullLive
    BY DEF LockInv, OneClient, HoldsLock, BullLive, LiveQueueStates
<1>2. asset.status \notin {"created", "uploaded"} /\ asset.status \in AssetStatus \ {"gone"}
    BY <1>1 DEF Served, AssetInv, TypeOK, AssetRow
<1>3. \A r \in Requests : req[r].pc \notin PastQueue \cup Uploading
    BY <1>1, <1>2 DEF Served, RequestInv, Rightful
<1>4. \A v \in Workers : v # w => ~Working(v)
    BY <1>1 DEF LockInv, OneClient, HoldsLock
<1>5. \A v \in Workers : v # w => wkr[v].pc \in BootPc \cup {"idle"} /\ wkr[v].rung = 1
    BY <1>4 DEF TypeOK, Worker, WorkerPc, Working, Served, WorkerInv, Grounded
<1> QED
    BY <1>1, <1>2, <1>3, <1>5

\* A worker goes on to x, and may rest on what it finds.
LEMMA OnlyWorks ==
    ASSUME TypeOK, LockInv, OneClient, Served, NEW w \in Workers, Working(w),
           NEW x, wkr' = [wkr EXCEPT ![w] = x],
           Grounded(x, asset'.status, rows', volume', source', playback')
    PROVE  WorkerInv'
<1>1. \A v \in Workers : wkr'[v] = IF v = w THEN x ELSE wkr[v]
    BY DEF TypeOK
<1>2. \A v \in Workers : v # w => wkr[v].pc \in BootPc \cup {"idle"} /\ wkr[v].rung = 1
    BY WorkersTurn
<1>3. \A v \in Workers : v # w =>
          Grounded(wkr[v], asset'.status, rows', volume', source', playback')
    BY <1>2 DEF Grounded, BootPc, Transcoding, Reading
<1> QED
    BY <1>1, <1>3 DEF WorkerInv

\* The requests do not notice what a worker does, as long as the asset keeps its
\* key and stays ready if it was.
LEMMA RequestsAside ==
    ASSUME TypeOK, LockInv, OneClient, Served, NEW w \in Workers, Working(w),
           req' = req, asset'.key = asset.key, source => source',
           asset'.status # "created", asset.status = "ready" => asset'.status = "ready"
    PROVE  RequestInv'
<1>1. \A r \in Requests : req[r].pc \notin PastQueue \cup Uploading
    BY WorkersTurn
<1> QED
    BY <1>1 DEF Served, RequestInv, Rightful, PastQueue, Uploading, Submitting, Submitted

\* Somebody reports an error.
LEMMA Reported ==
    ASSUME TypeOK, LockInv, OneClient, Served, asset' = FailedStatus,
           UNCHANGED <<rows, volume, source, playback, req, bull>>
    PROVE  /\ AssetInv' /\ RequestInv'
           /\ \A x : Grounded(x, asset.status, rows, volume, source, playback)
                     => Grounded(x, asset'.status, rows', volume', source', playback')
           /\ asset'.status \in {asset.status, "error"}
<1>1. /\ asset'.key = asset.key
      /\ \/ asset'.status = asset.status
         \/ asset'.status = "error" /\ asset.status \in {"queued", "processing", "error"}
    BY DEF FailedStatus, InFlight, TypeOK, AssetRow
<1>2. BullLive' = BullLive
    BY DEF BullLive
<1>3. AssetInv'
    BY <1>1, <1>2 DEF Served, AssetInv
<1>4. RequestInv'
    BY <1>1, <1>2 DEF Served, RequestInv, Rightful
<1>5. \A x : Grounded(x, asset.status, rows, volume, source, playback)
             => Grounded(x, asset'.status, rows', volume', source', playback')
    BY <1>1 DEF Grounded
<1> QED
    BY <1>1, <1>3, <1>4, <1>5

\* A worker goes on and leaves the row, the renditions and the output alone.
LEMMA PlainStep ==
    ASSUME TypeOK, LockInv, OneClient, Served, NEW w \in Workers, Working(w),
           NEW x, wkr' = [wkr EXCEPT ![w] = x],
           UNCHANGED <<asset, rows, volume, playback, req>>, source => source',
           BullLive' => BullLive,
           Grounded(x, asset.status, rows, volume, source', playback)
    PROVE  Served'
<1>1. AssetInv'
    BY DEF Served, AssetInv
<1>2. asset.status # "created"
    BY WorkersTurn
<1>3. RequestInv'
    BY <1>2, RequestsAside
<1>4. WorkerInv'
    BY OnlyWorks
<1> QED
    BY <1>1, <1>3, <1>4 DEF Served

\* What is left in the record of a worker at a new statement.
LEMMA Elsewhere ==
    ASSUME TypeOK, NEW w \in Workers, NEW from, NEW to, WorkerGoto(w, from, to)
    PROVE  \E x : /\ wkr' = [wkr EXCEPT ![w] = x] /\ wkr[w].pc = from /\ x.pc = to
                  /\ x.key = wkr[w].key /\ x.src = wkr[w].src /\ x.rung = wkr[w].rung
<1> DEFINE x == [wkr[w] EXCEPT !.pc = to]
<1>1. wkr' = [wkr EXCEPT ![w] = x] /\ wkr[w].pc = from
    BY DEF WorkerGoto
<1>2. x.pc = to /\ x.key = wkr[w].key /\ x.src = wkr[w].src /\ x.rung = wkr[w].rung
    BY DEF TypeOK, Worker
<1> HIDE DEF x
<1> QED
    BY <1>1, <1>2

\* The catch block.
LEMMA Throws ==
    ASSUME TypeOK, LockInv, OneClient, Served, NEW w \in Workers, NEW fatal,
           wkr[w].pc \in {"resolve", "encode", "publish", "markReady"}, Throw(w, fatal),
           UNCHANGED <<asset, rows, bull, volume, source, playback, req>>
    PROVE  Served'
<1> DEFINE to == IF ~fatal /\ wkr[w].attempt < MaxAttempts THEN "retryAsset" ELSE "failAsset"
           x == [wkr[w] EXCEPT !.fatal = fatal, !.pc = to]
<1>1. wkr' = [wkr EXCEPT ![w] = x]
    BY DEF Throw
<1>2. x.pc \in {"retryAsset", "failAsset"}
    BY DEF TypeOK, Worker
<1> HIDE DEF x
<1>3. Working(w)
    BY DEF Working, WorkingPc
<1>4. asset.status \in {"processing", "error"}
    BY DEF Served, WorkerInv, Grounded, Transcoding
<1>5. Grounded(x, asset.status, rows, volume, source, playback)
    BY <1>2, <1>4 DEF Grounded, BootPc, Transcoding, Reading
<1>6. BullLive' => BullLive
    BY DEF BullLive
<1> QED
    BY <1>1, <1>3, <1>5, <1>6, PlainStep

\* Taking a job, and looking at the asset.
LEMMA ClaimServed ==
    ASSUME TypeOK, LockInv, OneClient, Served, NEW w \in Workers,
           Fetch(w) \/ Load(w) \/ ClaimRow(w) \/ ClaimAsset(w) \/ ClearRenditions(w)
    PROVE  Served'
<1>1. Grounded(wkr[w], asset.status, rows, volume, source, playback)
    BY DEF Served, WorkerInv
<1>2. CASE Fetch(w)
    <2>1. BullLive /\ BullLive' = BullLive
        BY <1>2 DEF Fetch, BullLive, LiveQueueStates, TypeOK, BullJob
    <2>2. UNCHANGED <<asset, rows, volume, source, playback, req>>
        BY <1>2 DEF Fetch
    <2>3. \A v \in Workers : wkr[v].pc \in BootPc \cup {"idle"} /\ wkr[v].rung = 1
        <3>1. \A v \in Workers : ~Working(v)
            BY <1>2 DEF Fetch, LockInv, OneClient, HoldsLock
        <3> QED
            BY <3>1 DEF TypeOK, Worker, WorkerPc, Working, Served, WorkerInv, Grounded
    <2>4. \A v \in Workers : /\ v # w => wkr'[v] = wkr[v]
                             /\ v = w => wkr'[v].pc = "load" /\ wkr'[v].rung = wkr[v].rung
        BY <1>2 DEF Fetch, TypeOK, Worker
    <2>5. WorkerInv'
        BY <2>3, <2>4 DEF WorkerInv, Grounded, BootPc, Transcoding, Reading
    <2> QED
        BY <2>1, <2>2, <2>5 DEF Served, AssetInv, RequestInv
<1>3. CASE Load(w)
    <2>1. /\ wkr[w].pc = "load" /\ Working(w) /\ asset.status # "gone"
          /\ UNCHANGED <<asset, rows, volume, source, playback, req, bull>>
        BY <1>3 DEF Load, Working, WorkingPc, Served, AssetInv
    <2>2. BullLive' => BullLive
        BY <2>1 DEF BullLive
    <2>3. CASE asset.status = "ready"
        <3>1. WorkerGoto(w, "load", "skip")
            BY <1>3, <2>1, <2>3 DEF Load, Exists
        <3>2. PICK x : wkr' = [wkr EXCEPT ![w] = x] /\ x.pc = "skip"
            BY <3>1, Elsewhere
        <3>3. Grounded(x, asset.status, rows, volume, source', playback)
            BY <3>2 DEF Grounded, BootPc, Transcoding, Reading
        <3> QED
            BY <2>1, <2>2, <3>2, <3>3, PlainStep
    <2>4. CASE asset.status # "ready"
        <3> DEFINE x == [wkr[w] EXCEPT !.pc = "claimRow", !.key = asset.key, !.url = asset.url]
        <3>1. wkr' = [wkr EXCEPT ![w] = x]
            BY <1>3, <2>1, <2>4 DEF Load, Exists
        <3>2. x.pc = "claimRow" /\ x.key = asset.key /\ x.rung = wkr[w].rung
            BY DEF TypeOK, Worker
        <3> HIDE DEF x
        <3>3. asset.status \in {"queued", "processing", "error"}
            BY <2>1, <2>4, WorkersTurn DEF AssetStatus
        <3>4. asset.key /\ x.rung = 1
            BY <1>1, <2>1, <3>2, <3>3 DEF Served, AssetInv, Grounded
        <3>5. Grounded(x, asset.status, rows, volume, source', playback)
            BY <3>2, <3>3, <3>4 DEF Grounded, BootPc, Transcoding, Reading
        <3> QED
            BY <2>1, <2>2, <3>1, <3>5, PlainStep
    <2> QED
        BY <2>3, <2>4
<1>4. CASE ClaimRow(w)
    <2>1. UNCHANGED <<asset, rows, volume, source, playback, req, bull>>
        BY <1>4 DEF ClaimRow
    <2>2. PICK x : /\ wkr' = [wkr EXCEPT ![w] = x] /\ wkr[w].pc = "claimRow"
                   /\ x.pc = "claimAsset" /\ x.key = wkr[w].key /\ x.rung = wkr[w].rung
        BY <1>4, Elsewhere DEF ClaimRow
    <2>3. Grounded(x, asset.status, rows, volume, source', playback)
        BY <1>1, <2>1, <2>2 DEF Grounded, BootPc, Transcoding, Reading
    <2>4. Working(w) /\ (BullLive' => BullLive)
        BY <2>1, <2>2 DEF Working, WorkingPc, BullLive
    <2> QED
        BY <2>1, <2>2, <2>3, <2>4, PlainStep
<1>5. CASE ClaimAsset(w)
    <2>1. UNCHANGED <<rows, volume, source, playback, req, bull>>
        BY <1>5 DEF ClaimAsset
    <2>2. PICK x : /\ wkr' = [wkr EXCEPT ![w] = x] /\ wkr[w].pc = "claimAsset"
                   /\ x.pc = "clear" /\ x.key = wkr[w].key /\ x.rung = wkr[w].rung
        BY <1>5, Elsewhere DEF ClaimAsset
    <2>3. asset.status \in {"queued", "processing", "error"}
        BY <1>1, <2>2 DEF Grounded
    <2>4. asset'.status = "processing" /\ asset'.key = asset.key
        BY <1>5, <2>3 DEF ClaimAsset, SetStatus, Exists, TypeOK, AssetRow
    <2>5. Grounded(x, asset'.status, rows', volume', source', playback')
        BY <1>1, <2>2, <2>4 DEF Grounded, BootPc, Transcoding, Reading
    <2>6. Working(w)
        BY <2>2 DEF Working, WorkingPc
    <2>7. WorkerInv'
        BY <2>2, <2>5, <2>6, OnlyWorks
    <2>8. RequestInv'
        BY <2>1, <2>3, <2>4, <2>6, RequestsAside
    <2> QED
        BY <2>1, <2>3, <2>4, <2>7, <2>8 DEF Served, AssetInv
<1>6. CASE ClearRenditions(w)
    <2>1. UNCHANGED <<asset, volume, source, playback, req, bull>> /\ rows' = {}
        BY <1>6 DEF ClearRenditions
    <2>2. PICK x : /\ wkr' = [wkr EXCEPT ![w] = x] /\ wkr[w].pc = "clear"
                   /\ x.pc = "resolve" /\ x.key = wkr[w].key /\ x.rung = wkr[w].rung
        BY <1>6, Elsewhere DEF ClearRenditions
    <2>3. asset.status \in {"processing", "error"}
        BY <1>1, <2>2 DEF Grounded, Transcoding
    <2>4. Grounded(x, asset'.status, rows', volume', source', playback')
        BY <1>1, <2>1, <2>2, <2>3 DEF Grounded, BootPc, Transcoding, Reading
    <2>5. Working(w)
        BY <2>2 DEF Working, WorkingPc
    <2>6. WorkerInv'
        BY <2>2, <2>4, <2>5, OnlyWorks
    <2>7. RequestInv'
        BY <2>1, <2>3, <2>5, RequestsAside
    <2>8. BullLive' = BullLive
        BY <2>1 DEF BullLive
    <2> QED
        BY <2>1, <2>3, <2>6, <2>7, <2>8 DEF Served, AssetInv
<1> QED
    BY <1>2, <1>3, <1>4, <1>5, <1>6

\* The try block, up to the output.
LEMMA EncodeServed ==
    ASSUME ConstantsAssumption, TypeOK, LockInv, OneClient, Served, NEW w \in Workers,
           Resolve(w) \/ EncodeRung(w) \/ EncodeFails(w) \/ Publish(w)
    PROVE  Served'
<1>1. Grounded(wkr[w], asset.status, rows, volume, source, playback)
    BY DEF Served, WorkerInv
<1>2. wkr[w].pc \in {"resolve", "encode", "publish"}
    BY DEF Resolve, EncodeRung, EncodeFails, Publish, WorkerGoto
<1>3. Working(w) /\ asset.status \in {"processing", "error"} /\ wkr[w].key
    BY <1>1, <1>2 DEF Working, WorkingPc, Grounded, Transcoding, Reading
<1>4. CASE Resolve(w)
    <2>1. UNCHANGED <<asset, rows, bull, volume, source, playback, req>>
        BY <1>4 DEF Resolve
    <2>2. CASE \E fatal : Throw(w, fatal)
        BY <1>2, <2>1, <2>2, Throws
    <2>3. CASE ~\E fatal : Throw(w, fatal)
        <3> DEFINE x == [wkr[w] EXCEPT !.pc = "encode", !.src = Found(w)]
        <3>1. wkr' = [wkr EXCEPT ![w] = x] /\ wkr[w].pc = "resolve"
            BY <1>4, <2>3 DEF Resolve
        <3>2. x.pc = "encode" /\ x.src = Found(w) /\ x.key = wkr[w].key /\ x.rung = wkr[w].rung
            BY DEF TypeOK, Worker
        <3> HIDE DEF x
        <3>3. Found(w) = "volume" => volume # "absent"
            BY DEF Found
        <3>4. rows = {} /\ x.rung = 1
            BY <1>1, <3>1, <3>2 DEF Grounded
        <3>5. 1..(x.rung - 1) = {}
            BY <3>4
        <3>6. Grounded(x, asset.status, rows, volume, source', playback)
            BY <1>3, <3>2, <3>3, <3>4, <3>5 DEF Grounded, BootPc, Transcoding, Reading
        <3>7. BullLive' => BullLive
            BY <2>1 DEF BullLive
        <3> QED
            BY <1>3, <2>1, <3>1, <3>6, <3>7, PlainStep
    <2> QED
        BY <2>2, <2>3
<1>5. CASE EncodeRung(w)
    <2>1. /\ UNCHANGED <<asset, bull, volume, source, playback, req>>
          /\ rows' = rows \cup {wkr[w].rung} /\ wkr[w].pc = "encode"
        BY <1>5 DEF EncodeRung
    <2>2. /\ wkr[w].rung \in 1..Rungs /\ rows = 1..(wkr[w].rung - 1)
          /\ wkr[w].src = "volume" => volume # "absent"
        BY <1>1, <2>1 DEF Grounded, TypeOK, Worker, Ladder, Reading
    <2>3. rows' = 1..wkr[w].rung
        BY <2>1, <2>2, ConstantsAssumption DEF ConstantsAssumption
    <2>4. \E x : /\ wkr' = [wkr EXCEPT ![w] = x]
                 /\ Grounded(x, asset.status, rows', volume, source, playback)
        <3>1. CASE wkr[w].rung = Rungs
            <4> DEFINE x == [wkr[w] EXCEPT !.pc = "publish"]
            <4>1. wkr' = [wkr EXCEPT ![w] = x]
                BY <1>5, <3>1 DEF EncodeRung
            <4>2. x.pc = "publish" /\ x.key = wkr[w].key /\ x.src = wkr[w].src
                BY DEF TypeOK, Worker
            <4> HIDE DEF x
            <4>3. Grounded(x, asset.status, rows', volume, source, playback)
                BY <1>3, <2>2, <2>3, <3>1, <4>2 DEF Grounded, BootPc, Transcoding, Reading, Ladder
            <4> QED
                BY <4>1, <4>3
        <3>2. CASE wkr[w].rung # Rungs
            <4> DEFINE x == [wkr[w] EXCEPT !.rung = wkr[w].rung + 1]
            <4>1. wkr' = [wkr EXCEPT ![w] = x]
                BY <1>5, <3>2 DEF EncodeRung
            <4>2. /\ x.pc = "encode" /\ x.key = wkr[w].key /\ x.src = wkr[w].src
                  /\ x.rung = wkr[w].rung + 1
                BY <2>1 DEF TypeOK, Worker
            <4> HIDE DEF x
            <4>3. rows' = 1..(x.rung - 1)
                BY <2>2, <2>3, <4>2, ConstantsAssumption DEF ConstantsAssumption
            <4>4. Grounded(x, asset.status, rows', volume, source, playback)
                BY <1>3, <2>2, <4>2, <4>3 DEF Grounded, BootPc, Transcoding, Reading
            <4> QED
                BY <4>1, <4>4
        <3> QED
            BY <3>1, <3>2
    <2>5. WorkerInv'
        BY <1>3, <2>1, <2>4, OnlyWorks
    <2>6. RequestInv'
        BY <1>3, <2>1, RequestsAside
    <2>7. BullLive' = BullLive
        BY <2>1 DEF BullLive
    <2> QED
        BY <1>3, <2>1, <2>5, <2>6, <2>7 DEF Served, AssetInv
<1>6. CASE EncodeFails(w)
    <2>1. Throw(w, FALSE) /\ UNCHANGED <<asset, rows, bull, volume, source, playback, req>>
        BY <1>6 DEF EncodeFails
    <2>2. \E fatal : Throw(w, fatal)
        BY <2>1
    <2> QED
        BY <1>2, <2>1, <2>2, Throws
<1>7. CASE Publish(w)
    <2>1. CASE Throw(w, FALSE) /\ playback' = playback
        <3>1. UNCHANGED <<asset, rows, bull, volume, source, playback, req>>
            BY <1>7, <2>1 DEF Publish
        <3>2. \E fatal : Throw(w, fatal)
            BY <2>1
        <3> QED
            BY <1>2, <3>1, <3>2, Throws
    <2>2. CASE ~(Throw(w, FALSE) /\ playback' = playback)
        <3>1. /\ WorkerGoto(w, "publish", "markReady") /\ playback' = "complete"
              /\ UNCHANGED <<asset, rows, bull, volume, source, req>>
            BY <1>7, <2>2 DEF Publish
        <3>2. PICK x : /\ wkr' = [wkr EXCEPT ![w] = x] /\ wkr[w].pc = "publish"
                       /\ x.pc = "markReady" /\ x.key = wkr[w].key /\ x.src = wkr[w].src
            BY <3>1, Elsewhere
        <3>3. Grounded(x, asset'.status, rows', volume', source', playback')
            BY <1>1, <1>3, <3>1, <3>2 DEF Grounded, BootPc, Transcoding, Reading
        <3>4. WorkerInv'
            BY <1>3, <3>2, <3>3, OnlyWorks
        <3>5. RequestInv'
            BY <1>3, <3>1, RequestsAside
        <3>6. BullLive' = BullLive
            BY <3>1 DEF BullLive
        <3> QED
            BY <3>1, <3>4, <3>5, <3>6 DEF Served, AssetInv
    <2> QED
        BY <2>1, <2>2
<1> QED
    BY <1>4, <1>5, <1>6, <1>7

\* The row, the archive, the local source, and the answer to BullMQ.
LEMMA FinishServed ==
    ASSUME TypeOK, LockInv, OneClient, Served, NEW w \in Workers,
           MarkReady(w) \/ MarkDone(w) \/ Archive(w) \/ Cleanup(w)
    PROVE  Served'
<1>1. Grounded(wkr[w], asset.status, rows, volume, source, playback)
    BY DEF Served, WorkerInv
<1>2. wkr[w].pc \in {"markReady", "markDone", "archive", "cleanup"} /\ Working(w)
    BY DEF MarkReady, MarkDone, Archive, Cleanup, WorkerGoto, Working, WorkingPc
<1>3. ~Fault("db") /\ ~Fault("archive")
    BY DEF Fault, OneClient
<1>4. CASE MarkReady(w)
    <2>1. /\ WorkerGoto(w, "markReady", "markDone") /\ SetStatus("ready")
          /\ UNCHANGED <<rows, bull, volume, source, playback, req>>
        BY <1>3, <1>4 DEF MarkReady
    <2>2. PICK x : /\ wkr' = [wkr EXCEPT ![w] = x] /\ wkr[w].pc = "markReady"
                   /\ x.pc = "markDone" /\ x.key = wkr[w].key /\ x.src = wkr[w].src
        BY <2>1, Elsewhere
    <2>3. rows = Ladder /\ asset.status \in {"processing", "error"}
        BY <1>1, <2>2 DEF Grounded, Transcoding
    <2>4. asset'.status = "ready" /\ asset'.key = asset.key
        BY <2>1, <2>3 DEF SetStatus, Exists, TypeOK, AssetRow
    <2>5. Grounded(x, asset'.status, rows', volume', source', playback')
        BY <1>1, <2>1, <2>2 DEF Grounded, BootPc, Transcoding, Reading
    <2>6. WorkerInv'
        BY <1>2, <2>2, <2>5, OnlyWorks
    <2>7. RequestInv'
        BY <1>2, <2>1, <2>4, RequestsAside
    <2> QED
        BY <2>1, <2>3, <2>4, <2>6, <2>7 DEF Served, AssetInv
<1>5. CASE MarkDone(w)
    <2>1. /\ WorkerGoto(w, "markDone", "archive")
          /\ UNCHANGED <<asset, rows, bull, volume, source, playback, req>>
        BY <1>3, <1>5 DEF MarkDone
    <2>2. PICK x : /\ wkr' = [wkr EXCEPT ![w] = x] /\ wkr[w].pc = "markDone"
                   /\ x.pc = "archive" /\ x.key = wkr[w].key /\ x.src = wkr[w].src
        BY <2>1, Elsewhere
    <2>3. Grounded(x, asset.status, rows, volume, source', playback)
        BY <1>1, <2>1, <2>2 DEF Grounded, BootPc, Transcoding, Reading
    <2>4. BullLive' => BullLive
        BY <2>1 DEF BullLive
    <2> QED
        BY <1>2, <2>1, <2>2, <2>3, <2>4, PlainStep
<1>6. CASE Archive(w)
    <2>1. /\ WorkerGoto(w, "archive", "cleanup") /\ source' = (source \/ Archived(w))
          /\ UNCHANGED <<asset, rows, bull, volume, playback, req>>
        BY <1>3, <1>6 DEF Archive
    <2>2. PICK x : /\ wkr' = [wkr EXCEPT ![w] = x] /\ wkr[w].pc = "archive"
                   /\ x.pc = "cleanup" /\ x.key = wkr[w].key /\ x.src = wkr[w].src
        BY <2>1, Elsewhere
    <2>3. x.src = "volume" => source'
        BY <1>1, <2>1, <2>2 DEF Grounded, Reading, Archived
    <2>4. Grounded(x, asset.status, rows, volume, source', playback)
        BY <2>2, <2>3 DEF Grounded, BootPc, Transcoding, Reading
    <2>5. (BullLive' => BullLive) /\ (source => source')
        BY <2>1 DEF BullLive
    <2> QED
        BY <1>2, <2>1, <2>2, <2>4, <2>5, PlainStep
<1>7. CASE Cleanup(w)
    <2>1. /\ WorkerGoto(w, "cleanup", "ack")
          /\ UNCHANGED <<asset, rows, bull, source, playback>>
          /\ volume' = volume \/ wkr[w].src = "volume"
          /\ req' = req \/ req' = Detached
        BY <1>7 DEF Cleanup
    <2>2. PICK x : wkr' = [wkr EXCEPT ![w] = x] /\ wkr[w].pc = "cleanup" /\ x.pc = "ack"
        BY <2>1, Elsewhere
    <2>3. \A r \in Requests : req[r].pc # "stream"
        BY <1>2, WorkersTurn DEF Uploading
    <2>4. Detached = req
        BY <2>3 DEF Detached, TypeOK
    <2>5. Grounded(x, asset'.status, rows', volume', source', playback')
        BY <2>2 DEF Grounded, BootPc, Transcoding, Reading
    <2>6. WorkerInv'
        BY <1>2, <2>2, <2>5, OnlyWorks
    <2>7. asset.status # "created"
        BY <1>2, WorkersTurn
    <2>8. RequestInv'
        BY <1>2, <2>1, <2>4, <2>7, RequestsAside
    <2>9. volume' = volume \/ source
        BY <1>1, <2>1, <2>2 DEF Grounded
    <2>10. BullLive' = BullLive
        BY <2>1 DEF BullLive
    <2> QED
        BY <2>1, <2>6, <2>8, <2>9, <2>10 DEF Served, AssetInv
<1> QED
    BY <1>4, <1>5, <1>6, <1>7

\* Verdicts, and the end of a job.
LEMMA VerdictServed ==
    ASSUME TypeOK, LockInv, OneClient, Served, NEW w \in Workers,
           \/ Skip(w) \/ Ack(w) \/ RetryAsset(w) \/ RetryRow(w)
           \/ FailAsset(w) \/ FailRow(w) \/ Nack(w)
    PROVE  Served'
<1>1. Grounded(wkr[w], asset.status, rows, volume, source, playback)
    BY DEF Served, WorkerInv
<1>2. Working(w)
    BY DEF Skip, Ack, RetryAsset, RetryRow, FailAsset, FailRow, Nack, WorkerGoto, Working,
        WorkingPc
<1>3. BullLive /\ ~Fault("db")
    BY <1>2, WorkersTurn DEF Fault, OneClient
<1>4. ASSUME NEW from, NEW to, WorkerGoto(w, from, to), to \in {"ack", "nack"},
             UNCHANGED <<asset, rows, volume, source, playback, req>>
      PROVE  Served'
    <2>1. PICK x : wkr' = [wkr EXCEPT ![w] = x] /\ x.pc = to
        BY <1>4, Elsewhere
    <2>2. Grounded(x, asset.status, rows, volume, source', playback)
        BY <1>4, <2>1 DEF Grounded, BootPc, Transcoding, Reading
    <2> QED
        BY <1>2, <1>3, <1>4, <2>1, <2>2, PlainStep
<1>5. CASE Skip(w)
    BY <1>4, <1>5 DEF Skip
<1>6. CASE Ack(w) \/ Nack(w)
    <2>1. /\ wkr' = [wkr EXCEPT ![w] = IdleWorker]
          /\ UNCHANGED <<asset, rows, volume, source, playback, req>>
        BY <1>6 DEF Ack, Nack, Release
    <2>2. Grounded(IdleWorker, asset.status, rows, volume, source', playback)
        BY DEF IdleWorker, Grounded, BootPc, Transcoding, Reading
    <2> QED
        BY <1>2, <1>3, <2>1, <2>2, PlainStep
<1>7. CASE RetryAsset(w)
    <2>1. /\ WorkerGoto(w, "retryAsset", "retryRow") /\ SetStatus("queued")
          /\ UNCHANGED <<rows, bull, volume, source, playback, req>>
        BY <1>3, <1>7 DEF RetryAsset
    <2>2. PICK x : wkr' = [wkr EXCEPT ![w] = x] /\ wkr[w].pc = "retryAsset" /\ x.pc = "retryRow"
        BY <2>1, Elsewhere
    <2>3. asset.status \in {"processing", "error"}
        BY <1>1, <2>2 DEF Grounded, Transcoding
    <2>4. asset'.status = "queued" /\ asset'.key = asset.key
        BY <2>1, <2>3 DEF SetStatus, Exists, TypeOK, AssetRow
    <2>5. Grounded(x, asset'.status, rows', volume', source', playback')
        BY <2>2 DEF Grounded, BootPc, Transcoding, Reading
    <2>6. WorkerInv'
        BY <1>2, <2>2, <2>5, OnlyWorks
    <2>7. RequestInv'
        BY <1>2, <2>1, <2>3, <2>4, RequestsAside
    <2> QED
        BY <2>1, <2>3, <2>4, <2>6, <2>7 DEF Served, AssetInv
<1>8. CASE RetryRow(w) \/ FailRow(w)
    BY <1>4, <1>8 DEF RetryRow, FailRow
<1>9. CASE FailAsset(w)
    <2>1. /\ WorkerGoto(w, "failAsset", "failRow") /\ asset' = FailedStatus
          /\ UNCHANGED <<rows, bull, volume, source, playback, req>>
        BY <1>3, <1>9 DEF FailAsset
    <2>2. PICK x : wkr' = [wkr EXCEPT ![w] = x] /\ x.pc = "failRow"
        BY <2>1, Elsewhere
    <2>3. Grounded(x, asset'.status, rows', volume', source', playback')
        BY <2>2 DEF Grounded, BootPc, Transcoding, Reading
    <2>4. WorkerInv'
        BY <1>2, <2>2, <2>3, OnlyWorks
    <2> QED
        BY <2>1, <2>4, Reported DEF Served
<1> QED
    BY <1>5, <1>6, <1>7, <1>8, <1>9

\* A worker that dies and boots.
LEMMA BootServed ==
    ASSUME TypeOK, LockInv, OneClient, Served, NEW w \in Workers, Boot(w) \/ Crash(w)
    PROVE  Served'
<1>1. ASSUME NEW x, wkr' = [wkr EXCEPT ![w] = x], x.pc \in BootPc \cup {"idle"}, x.rung = 1,
             \A y : Grounded(y, asset.status, rows, volume, source, playback)
                    => Grounded(y, asset'.status, rows', volume', source', playback')
      PROVE  WorkerInv'
    <2>1. \A v \in Workers : wkr'[v] = IF v = w THEN x ELSE wkr[v]
        BY <1>1 DEF TypeOK
    <2>2. Grounded(x, asset'.status, rows', volume', source', playback')
        BY <1>1 DEF Grounded, BootPc, Transcoding, Reading
    <2>3. \A v \in Workers : Grounded(wkr[v], asset'.status, rows', volume', source', playback')
        BY <1>1 DEF Served, WorkerInv
    <2> QED
        BY <2>1, <2>2, <2>3 DEF WorkerInv
<1>2. ASSUME NEW from, NEW to, WorkerGoto(w, from, to), from \in BootPc, to \in BootPc \cup {"idle"},
             \A y : Grounded(y, asset.status, rows, volume, source, playback)
                    => Grounded(y, asset'.status, rows', volume', source', playback')
      PROVE  WorkerInv'
    <2>1. PICK x : /\ wkr' = [wkr EXCEPT ![w] = x] /\ x.pc = to /\ wkr[w].pc = from
                   /\ x.rung = wkr[w].rung
        BY <1>2, Elsewhere
    <2>2. wkr[w].rung = 1
        BY <1>2, <2>1 DEF Served, WorkerInv, Grounded
    <2> QED
        BY <1>1, <1>2, <2>1, <2>2
<1>3. ASSUME WorkerInv', UNCHANGED <<asset, rows, bull, volume, source, playback, req>>
      PROVE  Served'
    <2>1. BullLive' = BullLive
        BY <1>3 DEF BullLive
    <2> QED
        BY <1>3, <2>1 DEF Served, AssetInv, RequestInv
<1>4. CASE Crash(w)
    <2> DEFINE x == [IdleWorker EXCEPT !.pc = "down"]
    <2>1. x.pc = "down" /\ x.rung = 1
        BY DEF IdleWorker
    <2>2. /\ wkr' = [wkr EXCEPT ![w] = x]
          /\ UNCHANGED <<asset, rows, bull, volume, source, playback, req>>
        BY <1>4 DEF Crash
    <2> HIDE DEF x
    <2>3. WorkerInv'
        BY <1>1, <2>1, <2>2 DEF BootPc
    <2> QED
        BY <1>3, <2>2, <2>3
<1>5. CASE Restart(w) \/ BootScan(w) \/ BootInspect(w) \/ BootFailRows(w)
    <2>1. UNCHANGED <<asset, rows, bull, volume, source, playback, req>>
        BY <1>5 DEF Restart, BootScan, BootInspect, BootFailRows
    <2>2. \E from \in BootPc, to \in BootPc \cup {"idle"} : WorkerGoto(w, from, to)
        BY <1>5 DEF Restart, BootScan, BootInspect, BootFailRows, BootPc
    <2>3. WorkerInv'
        BY <1>2, <2>1, <2>2
    <2> QED
        BY <1>3, <2>1, <2>3
<1>6. CASE BootFailAsset(w)
    <2>1. /\ WorkerGoto(w, "bootFailAsset", "bootFailRows") /\ asset' = FailedStatus
          /\ UNCHANGED <<rows, bull, volume, source, playback, req>>
        BY <1>6 DEF BootFailAsset, Fault, OneClient
    <2>2. WorkerInv'
        BY <1>2, <2>1, Reported DEF BootPc
    <2> QED
        BY <2>1, <2>2, Reported DEF Served
<1> QED
    BY <1>4, <1>5, <1>6 DEF Boot

\* Listeners, BullMQ's own doings, and a client's PUT to S3.
LEMMA RestServed ==
    ASSUME TypeOK, LockInv, OneClient, Served,
           \/ SourceLands \/ Listen \/ Queue
           \/ \E w \in Workers : StalledCheck(w)
    PROVE  Served'
<1>1. ASSUME UNCHANGED <<asset, rows, volume, playback, req, wkr>>, source => source',
             BullLive' => BullLive
      PROVE  Served'
    <2>1. WorkerInv'
        BY <1>1, WorkersAside DEF Served
    <2> QED
        BY <1>1, <2>1 DEF Served, AssetInv, RequestInv, Rightful
<1>2. CASE SourceLands
    BY <1>1, <1>2 DEF SourceLands, BullLive
<1>3. ASSUME NEW n \in notices, NoticeCheck(n) \/ NoticeRow(n)
      PROVE  Served'
    BY <1>1, <1>3 DEF NoticeCheck, NoticeRow, BullLive
<1>4. ASSUME NEW n \in notices, NoticeAsset(n)
      PROVE  Served'
    <2>1. asset' = FailedStatus /\ UNCHANGED <<rows, bull, volume, source, playback, req, wkr>>
        BY <1>4 DEF NoticeAsset, Fault, OneClient
    <2>2. WorkerInv'
        BY <2>1, Reported DEF Served, WorkerInv
    <2> QED
        BY <2>1, <2>2, Reported DEF Served
<1>5. CASE Queue
    BY <1>1, <1>5 DEF Queue, BackoffOver, Retire, BullLive, LiveQueueStates, NoBull, TypeOK, BullJob
<1>6. ASSUME NEW w \in Workers, StalledCheck(w)
      PROVE  Served'
    BY <1>1, <1>6 DEF StalledCheck, BullLive, LiveQueueStates
<1> QED
    BY <1>2, <1>3, <1>4, <1>5, <1>6 DEF Listen

\* In every reachable state.
LEMMA ServedInvariant ==
    ASSUME OneClient
    PROVE  Spec => []Served
<1>1. Init => Served
    BY DEF Init, Served, AssetInv, RequestInv, WorkerInv, Rightful, Grounded, IdleRequest,
        IdleWorker, NoBull, BullLive, LiveQueueStates, Uploading, Submitting, Submitted,
        PastQueue, BootPc, Transcoding, Reading
<1>2. TypeOK /\ LockInv /\ Served /\ [Next]_vars => Served'
    <2> SUFFICES ASSUME TypeOK, LockInv, Served, [Next]_vars
                 PROVE  Served'
        OBVIOUS
    <2>1. CASE Api
        BY <2>1, ApiServed
    <2>2. ASSUME NEW w \in Workers, WorkerStep(w) \/ StalledCheck(w) \/ Crash(w)
          PROVE  Served'
        <3>1. ~ClaimFails(w)
            BY DEF ClaimFails, Fault, OneClient
        <3> QED
            BY <2>2, <3>1, ClaimServed, EncodeServed, FinishServed, VerdictServed, BootServed,
               RestServed, ConstantsAssumption DEF WorkerStep, Transcode
    <2>3. CASE SourceLands \/ Listen \/ Queue
        BY <2>3, RestServed
    <2>4. CASE UNCHANGED vars
        BY <2>4 DEF vars, Served, AssetInv, RequestInv, WorkerInv, BullLive
    <2> QED
        BY <2>1, <2>2, <2>3, <2>4 DEF Next, Fleet
<1> QED
    BY <1>1, <1>2, TypeCorrect, LockInvariant, PTL DEF Spec

\* With one client at a time, whatever fails and whoever dies: a ready asset has
\* a row for every rung (the ladder loop and the delete before it), and an asset
\* that /process accepts still has a source that resolveSource can read, also
\* after the worker has removed the local copy (worker index.ts, archive).
THEOREM Backed ==
    ASSUME OneClient
    PROVE  Spec => []AssetBacked
<1>1. Served => AssetBacked
    BY DEF Served, AssetInv, AssetBacked, ReadyHasRenditions, SourceAvailable
<1> QED
    BY <1>1, ServedInvariant, PTL

-----------------------------------------------------------------------------
(* The refinement of AssetLifecycle.                                       *)

\* A submission, and its undoing.
LEMMA ApiMoves ==
    ASSUME TypeOK, LockInv, OneClient, Served, Api
    PROVE  [Lifecycle!Next]_(Lifecycle!lifecycle)
<1> PICK r \in Requests : Call(r) \/ Continue(r) \/ Interrupt(r)
    BY DEF Api
<1>1. Rightful(req[r], asset, rows, volume, source, BullLive)
    BY DEF Served, RequestInv
<1>2. playback' = playback
    <2>1. ~DeletePlayback(r)
        BY <1>1 DEF Rightful, DeletePlayback, ApiGoto, Uploading, Submitting, Submitted
    <2> QED
        BY <2>1 DEF Call, Presign, ConfirmSource, CompleteMultipart, BeginUpload, Import,
            ProcessRead, DeleteSources, Continue, Assemble, Promote, EndUpload, AbortUpload,
            CommitUpload, CheckRows, CheckQueue, RemoveOld, InsertRow, SetQueued, AddToQueue,
            UndoRow, UndoStatus, DeleteRow, Interrupt, Disconnect, Abandon
<1>3. CASE asset'.status = asset.status
    BY <1>2, <1>3 DEF Lifecycle!lifecycle
<1>4. CASE asset.status = "created" /\ asset'.status = "uploaded"
    BY <1>2, <1>4 DEF Lifecycle!Next, Lifecycle!Supply, Lifecycle!Move
<1>5. CASE SetQueued(r)
    <2>1. asset'.status = "queued"
        BY <1>5 DEF SetQueued, SetStatus, Exists, Served, AssetInv, TypeOK, AssetRow
    <2>2. asset.status \in {"uploaded", "queued", "processing", "ready", "error"}
        BY <1>1, <1>5 DEF SetQueued, ApiGoto, Rightful, Submitting, Served, AssetInv, TypeOK,
            AssetRow, AssetStatus
    <2>3. CASE asset.status = "queued"
        BY <1>2, <2>1, <2>3 DEF Lifecycle!lifecycle
    <2>4. CASE asset.status = "processing"
        BY <1>2, <2>1, <2>4 DEF Lifecycle!Next, Lifecycle!Retry, Lifecycle!Move, Lifecycle!Flagged
    <2>5. CASE asset.status \in {"uploaded", "ready", "error"}
        BY <1>2, <2>1, <2>5 DEF Lifecycle!Next, Lifecycle!Submit, Lifecycle!Move
    <2> QED
        BY <2>2, <2>3, <2>4, <2>5
<1>6. CASE UndoStatus(r)
    <2>1. asset.status \in {"queued", "error"} /\ req[r].seen \in {"uploaded", "error", "ready"}
        BY <1>1, <1>6 DEF UndoStatus, Rightful, Submitted, ProcessableStatuses
    <2>2. asset'.status = req[r].seen
        BY <1>6, <2>1 DEF UndoStatus, SetStatus, Exists, Fault, OneClient, TypeOK, AssetRow
    <2> QED
        BY <1>2, <2>1, <2>2
        DEF Lifecycle!Next, Lifecycle!Refuse, Lifecycle!Move, Lifecycle!Flagged
<1>7. CASE ~SetQueued(r) /\ ~UndoStatus(r)
    <2>1. CASE Promote(r) \/ CommitUpload(r) \/ AbortUpload(r) \/ Presign(r)
        BY <1>3, <1>4, <2>1 DEF Promote, CommitUpload, AbortUpload, Presign, TypeOK, AssetRow
    <2>2. ~Import(r) /\ ~DeleteRow(r)
        BY <1>1 DEF Import, Called, OneClient, DeleteRow, Rightful, Uploading, Submitting, Submitted
    <2>3. CASE ~(Promote(r) \/ CommitUpload(r) \/ AbortUpload(r) \/ Presign(r))
        <3>1. asset' = asset
            BY <1>7, <2>2, <2>3 DEF Call, ConfirmSource, CompleteMultipart, BeginUpload,
                ProcessRead, DeleteSources, Continue, Assemble, EndUpload, CheckRows, CheckQueue,
                RemoveOld, InsertRow, AddToQueue, UndoRow, DeletePlayback, Interrupt, Disconnect,
                Abandon
        <3> QED
            BY <1>3, <3>1
    <2> QED
        BY <2>1, <2>3
<1> QED
    BY <1>5, <1>6, <1>7

\* An error is reported for what was in flight.
LEMMA FailMoves ==
    ASSUME TypeOK, asset' = FailedStatus, playback' = playback
    PROVE  [Lifecycle!Next]_(Lifecycle!lifecycle)
<1>1. \/ asset'.status = asset.status
      \/ asset.status \in {"queued", "processing"} /\ asset'.status = "error"
    BY DEF FailedStatus, InFlight, TypeOK, AssetRow
<1> QED
    BY <1>1 DEF Lifecycle!lifecycle, Lifecycle!Next, Lifecycle!Fail, Lifecycle!Move

\* What a worker writes.
LEMMA FleetMoves ==
    ASSUME TypeOK, LockInv, OneClient, Served, Fleet
    PROVE  [Lifecycle!Next]_(Lifecycle!lifecycle)
<1> PICK w \in Workers : WorkerStep(w) \/ StalledCheck(w) \/ Crash(w)
    BY DEF Fleet
<1>1. Grounded(wkr[w], asset.status, rows, volume, source, playback) /\ ~Fault("db")
    BY DEF Served, WorkerInv, Fault, OneClient
<1>2. ASSUME NEW s, SetStatus(s), asset.status # "gone"
      PROVE  asset'.status = s
    BY <1>2 DEF SetStatus, Exists, TypeOK, AssetRow
<1>3. CASE asset' = asset /\ playback' = playback
    BY <1>3 DEF Lifecycle!lifecycle
<1>4. CASE ClaimAsset(w)
    <2>1. asset.status \in {"queued", "processing", "error"}
        BY <1>1, <1>4 DEF ClaimAsset, WorkerGoto, Grounded
    <2>2. asset'.status = "processing" /\ playback' = playback
        BY <1>2, <1>4, <2>1 DEF ClaimAsset
    <2> QED
        BY <2>1, <2>2 DEF Lifecycle!lifecycle, Lifecycle!Next, Lifecycle!Start, Lifecycle!Move,
            Lifecycle!Flagged
<1>5. CASE Publish(w)
    <2>1. asset.status \in {"processing", "error"}
        BY <1>1, <1>5 DEF Publish, WorkerGoto, Grounded, Transcoding
    <2>2. asset' = asset /\ (playback' = "complete" \/ playback' = playback)
        BY <1>5 DEF Publish
    <2> QED
        BY <2>1, <2>2 DEF Lifecycle!lifecycle, Lifecycle!Next, Lifecycle!Upload, Lifecycle!Flagged
<1>6. CASE MarkReady(w)
    <2>1. asset.status \in {"processing", "error"} /\ playback = "complete"
        BY <1>1, <1>6 DEF MarkReady, Grounded, Transcoding
    <2>2. asset'.status = "ready" /\ playback' = playback
        BY <1>1, <1>2, <1>6, <2>1 DEF MarkReady
    <2> QED
        BY <2>1, <2>2 DEF Lifecycle!Next, Lifecycle!Succeed, Lifecycle!Move, Lifecycle!Flagged
<1>7. CASE RetryAsset(w)
    <2>1. asset.status \in {"processing", "error"}
        BY <1>1, <1>7 DEF RetryAsset, Grounded, Transcoding
    <2>2. asset'.status = "queued" /\ playback' = playback
        BY <1>1, <1>2, <1>7, <2>1 DEF RetryAsset
    <2> QED
        BY <2>1, <2>2 DEF Lifecycle!Next, Lifecycle!Retry, Lifecycle!Move, Lifecycle!Flagged
<1>8. CASE FailAsset(w) \/ BootFailAsset(w)
    <2>1. asset' = FailedStatus /\ playback' = playback
        BY <1>1, <1>8 DEF FailAsset, BootFailAsset
    <2> QED
        BY <2>1, FailMoves
<1>9. CASE ~(\/ ClaimAsset(w) \/ Publish(w) \/ MarkReady(w) \/ RetryAsset(w)
             \/ FailAsset(w) \/ BootFailAsset(w))
    BY <1>3, <1>9 DEF WorkerStep, Transcode, Fetch, Load, Skip, ClaimRow, ClearRenditions,
        ClaimFails, Resolve, EncodeRung, EncodeFails, MarkDone, Archive, Cleanup, Ack, RetryRow,
        FailRow, Nack, Boot, Restart, BootScan, BootInspect, BootFailRows, StalledCheck, Crash
<1> QED
    BY <1>4, <1>5, <1>6, <1>7, <1>8, <1>9

\* What the documentation tells a client that polls (docs/api-reference.md, "Asset
\* lifecycle"): every step of the API, the workers and the queue is a move of
\* AssetLifecycle or invisible; in particular ready follows a published output.
THEOREM LifecycleKept ==
    ASSUME OneClient
    PROVE  Spec => ImplementsLifecycle
<1>1. Init => Lifecycle!Init
    BY DEF Init, Lifecycle!Init
<1>2. TypeOK /\ LockInv /\ Served /\ [Next]_vars => [Lifecycle!Next]_(Lifecycle!lifecycle)
    <2> SUFFICES ASSUME TypeOK, LockInv, Served, [Next]_vars
                 PROVE  [Lifecycle!Next]_(Lifecycle!lifecycle)
        OBVIOUS
    <2>1. CASE Api
        BY <2>1, ApiMoves
    <2>2. CASE Fleet
        BY <2>2, FleetMoves
    <2>3. CASE SourceLands \/ Queue \/ UNCHANGED vars
        BY <2>3 DEF SourceLands, Queue, BackoffOver, Retire, vars, Lifecycle!lifecycle
    <2>4. ASSUME NEW n \in notices, NoticeCheck(n) \/ NoticeRow(n)
          PROVE  UNCHANGED Lifecycle!lifecycle
        BY <2>4 DEF NoticeCheck, NoticeRow, Lifecycle!lifecycle
    <2>5. ASSUME NEW n \in notices, NoticeAsset(n)
          PROVE  [Lifecycle!Next]_(Lifecycle!lifecycle)
        <3>1. asset' = FailedStatus /\ playback' = playback
            BY <2>5 DEF NoticeAsset, Fault, OneClient
        <3> QED
            BY <3>1, FailMoves
    <2> QED
        BY <2>1, <2>2, <2>3, <2>4, <2>5 DEF Next, Listen
<1> QED
    BY <1>1, <1>2, TypeCorrect, LockInvariant, ServedInvariant, PTL
    DEF Spec, ImplementsLifecycle, Lifecycle!Spec

=============================================================================
