------------------------------ MODULE Transcode ------------------------------
(***************************************************************************)
(* The life of one asset: the API and the workers together, and what must  *)
(* hold of the asset, its rows, its queue job and its files between them.  *)
(***************************************************************************)
EXTENDS AssetRoutes, TranscodeWorker

Api == \E r \in Requests : Call(r) \/ Continue(r) \/ Interrupt(r)
Fleet == \E w \in Workers : WorkerStep(w) \/ StalledCheck(w) \/ Crash(w)
Queue == BackoffOver \/ Retire
Next == Api \/ SourceLands \/ Fleet \/ Listen \/ Queue

Spec == Init /\ [][Next]_vars

\* A handler that has begun goes on; a worker takes its next step, and boots
\* again once down (docker restarts it); BullMQ moves what is due; listeners
\* run. No client need ever call, no fault need ever happen, and a finished job
\* may be kept for good.
Fairness ==
    /\ \A r \in Requests : WF_vars(Continue(r))
    /\ \A w \in Workers : WF_vars(WorkerStep(w))
    /\ WF_vars(\E w \in Workers : StalledCheck(w))
    /\ WF_vars(BackoffOver)
    /\ WF_vars(Listen)

FairSpec == Spec /\ Fairness

-----------------------------------------------------------------------------
(* Safety.                                                                 *)

\* No request, worker or listener is under way and the queue holds no live job.
Quiescent ==
    /\ \A r \in Requests : req[r].pc = "idle"
    /\ \A w \in Workers : wkr[w].pc = "idle"
    /\ notices = {}
    /\ ~BullLive

\* Not kept by the code (README, section on disagreements): once everything
\* has come to rest, no asset is left queued or processing and no jobs row
\* pending, which would refuse every later /process call.
QuiescentSettled ==
    Quiescent => /\ asset.status \notin InFlight
                 /\ \A j \in Jobs : jobs[j] \notin PendingRow

\* Nor this, as soon as two calls overlap. assets.ts, before the insert in
\* /process: one in-flight transcode per asset.
OneInFlight == Cardinality({j \in Jobs : jobs[j] \in PendingRow}) <= 1

\* While no lock is lost by a live worker, one worker at most is on the asset:
\* crashes, re-deliveries, retries and fresh submissions never overlap.
ExclusiveTranscode ==
    "stall" \notin Faults =>
        \A v, w \in Workers : Working(v) /\ Working(w) => v = w

\* The worker tells the database whether the job will be retried before BullMQ
\* decides it: as long as the worker holds the lock, the two agree.
VerdictsAgree ==
    \A w \in Workers : HoldsLock(w) =>
        /\ wkr[w].pc \in {"retryAsset", "retryRow"} => bull.made + 1 < MaxAttempts
        /\ wkr[w].pc \in {"failAsset", "failRow"} =>
               wkr[w].fatal \/ bull.made + 1 >= MaxAttempts

\* A ready asset has a row for every rung of its ladder.
ReadyHasRenditions == asset.status = "ready" => rows = Ladder

\* An asset that /process accepts, or has accepted, still has a source that
\* resolveSource can read, unless a DELETE is at work on it: a finished video
\* can be processed again.
Deleting == \E r \in Requests : req[r].pc \in {"delPlayback", "delRow"}
SourceAvailable ==
    asset.status \notin {"created", "gone"} /\ ~Deleting
        => volume = "whole" \/ asset.url \/ (asset.key /\ source)

\* What an asset's status promises is there.
AssetBacked == ReadyHasRenditions /\ SourceAvailable

\* An asset is ready, a jobs row completed or a queue job completed only when
\* an HLS output has been uploaded in full at some time (a DELETE may since
\* have purged it).
CompletedIsPublished ==
    (asset.status = "ready" \/ bull.state = "completed"
        \/ \E j \in Jobs : jobs[j] = "completed")
        => playback # "never"

\* Not kept by the code either: once all has come to rest, a deleted asset
\* leaves nothing in the bucket.
DeletedLeavesNothing ==
    Quiescent /\ ~Exists => ~source /\ playback # "complete"

-----------------------------------------------------------------------------
(* What a step may never do.                                               *)

\* Not kept by the code where a lock is lost or the database fails (README,
\* section on disagreements): no worker and no listener takes an asset away
\* from ready, only a request to re-process, import or delete does.
ReadyIsKept ==
    [][asset.status = "ready" /\ asset'.status # "ready"
        => wkr' = wkr /\ notices' = notices]_vars

-----------------------------------------------------------------------------
\* The whole pipeline implements the lifecycle a polling client is promised.
Lifecycle == INSTANCE AssetLifecycle
             WITH status <- asset.status, published <- playback = "complete"
ImplementsLifecycle == Lifecycle!Spec

-----------------------------------------------------------------------------
(* Liveness.                                                               *)

\* A job in the queue is completed or failed in the end.
QueueDrains == BullLive ~> ~BullLive

\* An asset does not stay queued or processing for ever.
AssetSettles == asset.status \in InFlight ~> asset.status \notin InFlight

\* No jobs row stays pending for ever.
RowsSettle ==
    \A j \in Jobs : jobs[j] \in PendingRow ~> jobs[j] \notin PendingRow

\* No client polls for ever, and no row blocks later submissions for ever.
NothingStaysInFlight == AssetSettles /\ RowsSettle

=============================================================================
