---------------------------- MODULE AssetPipeline ----------------------------
(***************************************************************************)
(* What the API and the transcode workers share about one asset: its row,  *)
(* its renditions and jobs rows, the BullMQ job, the S3 bucket, the upload *)
(* volume, and the record each request and each worker keeps of what it    *)
(* read before its last await.                                             *)
(*                                                                         *)
(* One asset is enough: the queue job id is transcode-<assetId>, every S3  *)
(* key and directory holds the asset id, and every statement of the        *)
(* handlers is keyed by it.                                                *)
(*                                                                         *)
(* AssetRoutes adds the API handlers, TranscodeWorker the worker, and      *)
(* Transcode composes them.                                                *)
(***************************************************************************)
EXTENDS Naturals, FiniteSets

CONSTANTS
    Requests,     \* HTTP requests that may be under way at once
    Workers,      \* worker processes, one job slot each
    Jobs,         \* ids for rows of the jobs table; bounds the /process calls
    Rungs,        \* renditions that filterLadder keeps for the source
    MaxAttempts,  \* queue.ts: attempts
    MaxStalls,    \* BullMQ's maxStalledCount
    Endpoints,    \* the endpoints clients call
    Faults,       \* the kinds of fault that may happen
    FaultBudget,  \* how many faults may happen in one behaviour
    None          \* "no job", "no worker"

EndpointNames == {"upload", "presign", "multipart", "import", "process", "delete"}

(* disconnect  a client drops a direct upload                              *)
(* abandon     a handler stops half way: a failed statement, a crashed API *)
(* queueAdd, queueRemove, queueRead   the Redis call of that name fails    *)
(* queueLate   add fails for the caller, but Redis has run it              *)
(* source      fetching or probing the source fails, and may be retried    *)
(* reject      the source is refused for good: no video, too large, quota  *)
(* encode, publish, archive           that phase of the worker fails       *)
(* db          a statement of a worker, or of an error path, fails         *)
(* stall       a live worker renews its lock too late                      *)
(* crash       a worker process dies                                       *)
FaultNames == {"disconnect", "abandon", "queueAdd", "queueLate", "queueRemove",
               "queueRead", "source", "reject", "encode", "publish", "archive", "db",
               "stall", "crash"}

ASSUME ConstantsAssumption ==
    /\ Rungs \in Nat \ {0}
    /\ MaxAttempts \in Nat \ {0}
    /\ MaxStalls \in Nat
    /\ FaultBudget \in Nat
    /\ Endpoints \subseteq EndpointNames
    /\ Faults \subseteq FaultNames
    /\ None \notin Jobs \cup Workers

VARIABLES
    asset,     \* the assets row: status, is sourceKey set, is sourceUrl set (and
               \* granted: has a client been let upload a source to S3)
    rows,      \* the renditions rows, by rung
    jobs,      \* the jobs rows, by id
    bull,      \* the BullMQ job with id transcode-<assetId>
    volume,    \* UPLOAD_DIR/<assetId>/input.mp4
    source,    \* is there an object under sources/<assetId>/
    playback,  \* the HLS output under playback/<assetId>/
    req,       \* the API requests
    wkr,       \* the workers
    notices,   \* 'failed' and 'stalled' listeners under way in the workers
    budget     \* faults still to come

vars == <<asset, rows, jobs, bull, volume, source, playback,
          req, wkr, notices, budget>>

-----------------------------------------------------------------------------
(* The records.                                                            *)

AssetStatus == {"created", "uploaded", "queued", "processing", "ready",
                "error", "gone"}
JobStatus == {"none", "queued", "processing", "completed", "failed", "deleted"}
BullState == {"none", "waiting", "active", "delayed", "completed", "failed"}
SourceKind == {"none", "volume", "url", "s3"}

RequestPc == {"idle", "assemble", "promote", "stream", "detached",
              "commitUpload", "abortUpload", "checkRows", "checkQueue",
              "removeOld", "insert", "setQueued", "add", "undoRow",
              "undoStatus", "delPlayback", "delRow"}
WorkingPc == {"load", "skip", "claimRow", "claimAsset", "clear", "resolve",
              "encode", "publish", "markReady", "markDone", "archive",
              "cleanup", "ack", "retryAsset", "retryRow", "failAsset",
              "failRow", "nack"}
BootPc == {"down", "bootScan", "bootInspect", "bootFailAsset", "bootFailRows"}
WorkerPc == WorkingPc \cup BootPc \cup {"idle"}

Ladder == 1..Rungs
AssetRow == [status : AssetStatus, key : BOOLEAN, url : BOOLEAN,
             granted : BOOLEAN]
BullJob == [state : BullState, job : Jobs \cup {None}, made : Nat,
            stalled : Nat, owner : Workers \cup {None}]
Request == [pc : RequestPc, seen : AssetStatus, job : Jobs \cup {None}]
Worker == [pc : WorkerPc, job : Jobs \cup {None}, attempt : Nat,
           src : SourceKind, key : BOOLEAN, url : BOOLEAN,
           rung : Ladder, fatal : BOOLEAN]
Notice == [at : Workers, job : Jobs \cup {None}, step : {"check", "asset", "row"}]

NoBull == [state |-> "none", job |-> None, made |-> 0, stalled |-> 0,
           owner |-> None]
IdleRequest == [pc |-> "idle", seen |-> "created", job |-> None]
IdleWorker == [pc |-> "idle", job |-> None, attempt |-> 0, src |-> "none",
               key |-> FALSE, url |-> FALSE, rung |-> 1, fatal |-> FALSE]

PendingRow == {"queued", "processing"}
InFlight == {"queued", "processing"}
LiveQueueStates == {"active", "waiting", "delayed"}

\* Type correctness: every row, queue job, request, worker and listener is one
\* the handlers can produce, and faults are never overspent.
TypeOK ==
    /\ asset \in AssetRow
    /\ rows \in SUBSET Ladder
    /\ jobs \in [Jobs -> JobStatus]
    /\ bull \in BullJob
    /\ volume \in {"absent", "partial", "whole"}
    /\ source \in BOOLEAN
    /\ playback \in {"never", "complete", "purged"}
    /\ req \in [Requests -> Request]
    /\ wkr \in [Workers -> Worker]
    /\ notices \in SUBSET Notice
    /\ budget \in 0..FaultBudget

\* POST /v1/assets has inserted the row; nothing else exists yet.
Init ==
    /\ asset = [status |-> "created", key |-> FALSE, url |-> FALSE,
                 granted |-> FALSE]
    /\ rows = {}
    /\ jobs = [j \in Jobs |-> "none"]
    /\ bull = NoBull
    /\ volume = "absent"
    /\ source = FALSE
    /\ playback = "never"
    /\ req = [r \in Requests |-> IdleRequest]
    /\ wkr = [w \in Workers |-> IdleWorker]
    /\ notices = {}
    /\ budget = FaultBudget

-----------------------------------------------------------------------------
(* Statements and calls the two sides share.                               *)

Exists == asset.status # "gone"
Working(w) == wkr[w].pc \in WorkingPc
BullLive == bull.state \in LiveQueueStates

\* A fault of kind f happens in this step, or none does.
Fault(f) == f \in Faults /\ budget > 0 /\ budget' = budget - 1
NoFault == budget' = budget

\* UPDATE assets SET status = s WHERE id = ... : a deleted row stays deleted.
SetStatus(s) == asset' = IF Exists THEN [asset EXCEPT !.status = s] ELSE asset

\* UPDATE jobs SET status = s WHERE id = j : likewise.
RowExists(j) == j \in Jobs /\ jobs[j] \notin {"none", "deleted"}
SetRow(j, s) == jobs' = IF RowExists(j) THEN [jobs EXCEPT ![j] = s] ELSE jobs

\* rm -rf UPLOAD_DIR/<assetId>: an upload that is still streaming goes on
\* writing to a file which no directory names any more.
Detached == [r \in Requests |->
    IF req[r].pc = "stream" THEN [req[r] EXCEPT !.pc = "detached"] ELSE req[r]]

=============================================================================
