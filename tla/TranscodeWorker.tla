--------------------------- MODULE TranscodeWorker ---------------------------
(***************************************************************************)
(* The transcode worker of apps/worker/src/index.ts: processTranscodeJob   *)
(* and its error paths, the 'failed' and 'stalled' listeners, the startup  *)
(* reconciliation, and what BullMQ does to the job around them.            *)
(*                                                                         *)
(* One action per statement, file operation on shared storage or call to   *)
(* BullMQ, in source order. A worker's record keeps the asset row and the  *)
(* attempt number it read first, which it never reads again.               *)
(***************************************************************************)
EXTENDS AssetPipeline

WorkerGoto(w, from, to) == wkr[w].pc = from /\ wkr' = [wkr EXCEPT ![w].pc = to]
Release(w) == wkr' = [wkr EXCEPT ![w] = IdleWorker]

\* The catch block: willRetry decides what the database is told.
Throw(w, fatal) ==
    wkr' = [wkr EXCEPT
        ![w].fatal = fatal,
        ![w].pc = IF ~fatal /\ wkr[w].attempt < MaxAttempts
                  THEN "retryAsset" ELSE "failAsset"]

\* An error outside the try block reaches BullMQ with nothing written.
ThrowUnmarked(w, fatal) ==
    wkr' = [wkr EXCEPT ![w].fatal = fatal, ![w].pc = "nack"]

HoldsLock(w) == bull.state = "active" /\ bull.owner = w

-----------------------------------------------------------------------------
(* Before the try block: load, skip or claim.                              *)

\* Mistake: the attempt number is the number of attempts made before.
FetchUncounted(w) ==
    /\ wkr[w].pc = "idle" /\ bull.state = "waiting"
    /\ bull' = [bull EXCEPT !.state = "active", !.owner = w]
    /\ wkr' = [wkr EXCEPT ![w].pc = "load", ![w].job = bull.job,
                          ![w].attempt = bull.made]
    /\ UNCHANGED <<asset, rows, jobs, volume, source, playback, req, notices,
                   budget>>

Fetch(w) ==
    /\ wkr[w].pc = "idle" /\ bull.state = "waiting"
    /\ bull' = [bull EXCEPT !.state = "active", !.owner = w]
    /\ wkr' = [wkr EXCEPT ![w].pc = "load", ![w].job = bull.job,
                          ![w].attempt = bull.made + 1]
    /\ UNCHANGED <<asset, rows, jobs, volume, source, playback, req, notices,
                   budget>>

\* Mistake: a re-delivered job of a ready asset is run again.
LoadUnskipped(w) ==
    /\ wkr[w].pc = "load"
    /\ IF ~Exists THEN ThrowUnmarked(w, TRUE)
       ELSE wkr' = [wkr EXCEPT ![w].pc = "claimRow", ![w].key = asset.key,
                               ![w].url = asset.url]
    /\ UNCHANGED <<asset, rows, jobs, bull, volume, source, playback, req,
                   notices, budget>>

Load(w) ==
    /\ wkr[w].pc = "load"
    /\ IF ~Exists THEN ThrowUnmarked(w, TRUE)
       ELSE IF asset.status = "ready" THEN WorkerGoto(w, "load", "skip")
       ELSE wkr' = [wkr EXCEPT ![w].pc = "claimRow", ![w].key = asset.key,
                                ![w].url = asset.url]
    /\ UNCHANGED <<asset, rows, jobs, bull, volume, source, playback, req,
                   notices, budget>>

\* A re-delivered job of a finished asset: its row is completed, or that fails.
Skip(w) ==
    /\ WorkerGoto(w, "skip", "ack")
    /\ \/ NoFault /\ SetRow(wkr[w].job, "completed")
       \/ Fault("db") /\ UNCHANGED jobs
    /\ UNCHANGED <<asset, rows, bull, volume, source, playback, req, notices>>

ClaimRow(w) ==
    /\ WorkerGoto(w, "claimRow", "claimAsset")
    /\ SetRow(wkr[w].job, "processing")
    /\ UNCHANGED <<asset, rows, bull, volume, source, playback, req, notices,
                   budget>>

ClaimAsset(w) ==
    /\ WorkerGoto(w, "claimAsset", "clear")
    /\ SetStatus("processing")
    /\ UNCHANGED <<rows, jobs, bull, volume, source, playback, req, notices,
                   budget>>

ClearRenditions(w) ==
    /\ WorkerGoto(w, "clear", "resolve")
    /\ rows' = {}
    /\ UNCHANGED <<asset, jobs, bull, volume, source, playback, req, notices,
                   budget>>

ClaimFails(w) ==
    /\ wkr[w].pc \in {"load", "claimRow", "claimAsset", "clear"}
    /\ Fault("db")
    /\ ThrowUnmarked(w, FALSE)
    /\ UNCHANGED <<asset, rows, jobs, bull, volume, source, playback, req,
                   notices>>

-----------------------------------------------------------------------------
(* Inside it: source, probe, quota, ladder, upload.                        *)

\* resolveSource looks at the volume, then at the URL, then at S3.
Found(w) ==
    CASE volume # "absent"      -> "volume"
      [] wkr[w].url             -> "url"
      [] wkr[w].key /\ source   -> "s3"
      [] OTHER                  -> "none"

\* resolveSource, ffprobe and the quota check. A truncated file may or may not
\* have a readable header.
Resolve(w) ==
    /\ wkr[w].pc = "resolve"
    /\ \/ /\ NoFault /\ Found(w) # "none"
          /\ wkr' = [wkr EXCEPT ![w].pc = "encode", ![w].src = Found(w)]
       \/ NoFault /\ Found(w) = "none" /\ Throw(w, ~wkr[w].key)
       \/ NoFault /\ volume = "partial" /\ Throw(w, FALSE)
       \/ Fault("source") /\ Throw(w, FALSE)
       \/ Fault("reject") /\ Throw(w, TRUE)
    /\ UNCHANGED <<asset, rows, jobs, bull, volume, source, playback, req,
                   notices>>

\* One turn of the ladder loop: FFmpeg reads the source, the row is inserted.
Unreadable(w) == wkr[w].src = "volume" /\ volume = "absent"
RowRefused(w) == ~Exists \/ wkr[w].rung \in rows

\* Mistakes: the loop stops one rung early, or goes on past the last one, or
\* ends without an upload.
EncodeRungEarly(w) ==
    /\ wkr[w].pc = "encode" /\ ~Unreadable(w) /\ ~RowRefused(w)
    /\ rows' = rows \cup {wkr[w].rung}
    /\ wkr' = IF wkr[w].rung >= Rungs - 1
              THEN [wkr EXCEPT ![w].pc = "publish"]
              ELSE [wkr EXCEPT ![w].rung = @ + 1]
    /\ UNCHANGED <<asset, jobs, bull, volume, source, playback, req, notices,
                   budget>>

EncodeRungPast(w) ==
    /\ wkr[w].pc = "encode" /\ ~Unreadable(w) /\ ~RowRefused(w)
    /\ rows' = rows \cup {wkr[w].rung}
    /\ wkr' = IF wkr[w].rung > Rungs
              THEN [wkr EXCEPT ![w].pc = "publish"]
              ELSE [wkr EXCEPT ![w].rung = @ + 1]
    /\ UNCHANGED <<asset, jobs, bull, volume, source, playback, req, notices,
                   budget>>

EncodeRungUnpublished(w) ==
    /\ wkr[w].pc = "encode" /\ ~Unreadable(w) /\ ~RowRefused(w)
    /\ rows' = rows \cup {wkr[w].rung}
    /\ wkr' = IF wkr[w].rung = Rungs
              THEN [wkr EXCEPT ![w].pc = "markReady"]
              ELSE [wkr EXCEPT ![w].rung = @ + 1]
    /\ UNCHANGED <<asset, jobs, bull, volume, source, playback, req, notices,
                   budget>>

EncodeRung(w) ==
    /\ wkr[w].pc = "encode" /\ ~Unreadable(w) /\ ~RowRefused(w)
    /\ rows' = rows \cup {wkr[w].rung}
    /\ wkr' = IF wkr[w].rung = Rungs
              THEN [wkr EXCEPT ![w].pc = "publish"]
              ELSE [wkr EXCEPT ![w].rung = @ + 1]
    /\ UNCHANGED <<asset, jobs, bull, volume, source, playback, req, notices,
                   budget>>

\* FFmpeg finds no file, or the unique index or the foreign key refuses the row.
EncodeFails(w) ==
    /\ wkr[w].pc = "encode"
    /\ (NoFault /\ (Unreadable(w) \/ RowRefused(w))) \/ Fault("encode")
    /\ Throw(w, FALSE)
    /\ UNCHANGED <<asset, rows, jobs, bull, volume, source, playback, req,
                   notices>>

\* uploadDirectory: the row is not looked at again. (Objects left by an upload
\* that failed half way are not told from those of the previous run.)
Publish(w) ==
    /\ wkr[w].pc = "publish"
    /\ \/ /\ NoFault /\ playback' = "complete"
          /\ WorkerGoto(w, "publish", "markReady")
       \/ Fault("publish") /\ UNCHANGED playback /\ Throw(w, FALSE)
    /\ UNCHANGED <<asset, rows, jobs, bull, volume, source, req, notices>>

MarkReady(w) ==
    /\ wkr[w].pc = "markReady"
    /\ \/ NoFault /\ SetStatus("ready") /\ WorkerGoto(w, "markReady", "markDone")
       \/ Fault("db") /\ UNCHANGED asset /\ Throw(w, FALSE)
    /\ UNCHANGED <<rows, jobs, bull, volume, source, playback, req, notices>>

\* Still inside the try block: a failure here is retried like any other.
MarkDone(w) ==
    /\ wkr[w].pc = "markDone"
    /\ \/ /\ NoFault /\ SetRow(wkr[w].job, "completed")
          /\ WorkerGoto(w, "markDone", "archive")
       \/ Fault("db") /\ UNCHANGED jobs /\ Throw(w, FALSE)
    /\ UNCHANGED <<asset, rows, bull, volume, source, playback, req, notices>>

-----------------------------------------------------------------------------
(* After READY: archive the local source, then remove it. Neither throws.  *)

Archived(w) == wkr[w].key /\ wkr[w].src = "volume" /\ volume # "absent"

\* Mistake: the local source is removed without a copy in S3.
ArchiveSkipped(w) ==
    /\ WorkerGoto(w, "archive", "cleanup") /\ NoFault
    /\ UNCHANGED <<asset, rows, jobs, bull, volume, source, playback, req, notices>>

Archive(w) ==
    /\ WorkerGoto(w, "archive", "cleanup")
    /\ \/ NoFault /\ source' = (source \/ Archived(w))
       \/ Archived(w) /\ Fault("archive") /\ UNCHANGED source
    /\ UNCHANGED <<asset, rows, jobs, bull, volume, playback, req, notices>>

Cleanup(w) ==
    /\ WorkerGoto(w, "cleanup", "ack")
    /\ IF wkr[w].src = "volume"
       THEN volume' = "absent" /\ req' = Detached
       ELSE UNCHANGED <<volume, req>>
    /\ UNCHANGED <<asset, rows, jobs, bull, source, playback, notices, budget>>

\* moveToCompleted succeeds only for the worker that still holds the lock.
Ack(w) ==
    /\ wkr[w].pc = "ack" /\ Release(w)
    /\ bull' = IF HoldsLock(w)
               THEN [bull EXCEPT !.state = "completed", !.owner = None] ELSE bull
    /\ UNCHANGED <<asset, rows, jobs, volume, source, playback, req, notices,
                   budget>>

-----------------------------------------------------------------------------
(* markRetryPending and markAssetFailed: two statements in one try, so that *)
(* when the first fails the second is not run.                             *)

RetryAsset(w) ==
    /\ wkr[w].pc = "retryAsset"
    /\ \/ NoFault /\ SetStatus("queued") /\ WorkerGoto(w, "retryAsset", "retryRow")
       \/ Fault("db") /\ UNCHANGED asset /\ WorkerGoto(w, "retryAsset", "nack")
    /\ UNCHANGED <<rows, jobs, bull, volume, source, playback, req, notices>>

RetryRow(w) ==
    /\ WorkerGoto(w, "retryRow", "nack")
    /\ \/ NoFault /\ SetRow(wkr[w].job, "queued")
       \/ Fault("db") /\ UNCHANGED jobs
    /\ UNCHANGED <<asset, rows, bull, volume, source, playback, req, notices>>

\* Mistake: whatever the status, it becomes an error.
FailedAlways == IF Exists THEN [asset EXCEPT !.status = "error"] ELSE asset

\* WHERE status IN (queued, processing, error): an asset that is ready stays so.
FailedStatus == IF asset.status \in InFlight \cup {"error"}
                THEN [asset EXCEPT !.status = "error"] ELSE asset

FailAsset(w) ==
    /\ wkr[w].pc = "failAsset"
    /\ \/ /\ NoFault /\ asset' = FailedStatus
          /\ WorkerGoto(w, "failAsset", "failRow")
       \/ Fault("db") /\ UNCHANGED asset /\ WorkerGoto(w, "failAsset", "nack")
    /\ UNCHANGED <<rows, jobs, bull, volume, source, playback, req, notices>>

FailRow(w) ==
    /\ WorkerGoto(w, "failRow", "nack")
    /\ \/ NoFault /\ SetRow(wkr[w].job, "failed")
       \/ Fault("db") /\ UNCHANGED jobs
    /\ UNCHANGED <<asset, rows, bull, volume, source, playback, req, notices>>

\* moveToFailed: retried unless the error is unrecoverable or the attempts are
\* used up. Without the lock BullMQ reports an error and nothing else.
Nack(w) ==
    /\ wkr[w].pc = "nack" /\ Release(w)
    /\ IF HoldsLock(w)
       THEN /\ bull' = [bull EXCEPT
                   !.state = IF ~wkr[w].fatal /\ bull.made + 1 < MaxAttempts
                             THEN "delayed" ELSE "failed",
                   !.made = @ + 1, !.owner = None]
            /\ notices' = notices \cup
                   {[at |-> w, job |-> wkr[w].job, step |-> "check"]}
       ELSE UNCHANGED <<bull, notices>>
    /\ UNCHANGED <<asset, rows, jobs, volume, source, playback, req, budget>>

-----------------------------------------------------------------------------
(* The 'failed' and 'stalled' listeners: getState, then markAssetFailed.   *)

Handled(n) == notices \ {n}
Onward(n, step) == Handled(n) \cup {[n EXCEPT !.step = step]}

NoticeCheck(n) ==
    /\ n.step = "check"
    /\ notices' = IF bull.state = "failed" THEN Onward(n, "asset") ELSE Handled(n)
    /\ UNCHANGED <<asset, rows, jobs, bull, volume, source, playback, req, wkr,
                   budget>>

NoticeAsset(n) ==
    /\ n.step = "asset"
    /\ \/ NoFault /\ asset' = FailedStatus /\ notices' = Onward(n, "row")
       \/ Fault("db") /\ UNCHANGED asset /\ notices' = Handled(n)
    /\ UNCHANGED <<rows, jobs, bull, volume, source, playback, req, wkr>>

NoticeRow(n) ==
    /\ n.step = "row" /\ notices' = Handled(n)
    /\ \/ NoFault /\ SetRow(n.job, "failed")
       \/ Fault("db") /\ UNCHANGED jobs
    /\ UNCHANGED <<asset, rows, bull, volume, source, playback, req, wkr>>

Listen == \E n \in notices : NoticeCheck(n) \/ NoticeAsset(n) \/ NoticeRow(n)

-----------------------------------------------------------------------------
(* BullMQ's own doings.                                                    *)

BackoffOver ==
    /\ bull.state = "delayed"
    /\ bull' = [bull EXCEPT !.state = "waiting"]
    /\ UNCHANGED <<asset, rows, jobs, volume, source, playback, req, wkr,
                   notices, budget>>

\* Mistakes: a lock that is never renewed, and one that never expires.
OwnerLostTooSoon == bull.owner = None \/ Working(bull.owner)
OwnerLostNever == bull.owner = None

\* Every running worker looks for jobs whose lock has expired: its owner has
\* died, or was too slow to renew it.
OwnerLost == bull.owner = None \/ ~Working(bull.owner)

StalledCheck(w) ==
    /\ wkr[w].pc \notin BootPc /\ bull.state = "active"
    /\ (NoFault /\ OwnerLost) \/ (Fault("stall") /\ ~OwnerLost)
    /\ bull' = [bull EXCEPT !.owner = None, !.stalled = @ + 1,
                   !.state = IF bull.stalled + 1 > MaxStalls
                             THEN "failed" ELSE "waiting"]
    /\ notices' = notices \cup {[at |-> w, job |-> bull.job, step |-> "check"]}
    /\ UNCHANGED <<asset, rows, jobs, volume, source, playback, req, wkr>>

\* removeOnComplete and removeOnFail: a finished job is forgotten after a day at
\* the least, when the listeners it woke have long run.
Retire ==
    /\ bull.state \in {"completed", "failed"} /\ notices = {}
    /\ bull' = NoBull
    /\ UNCHANGED <<asset, rows, jobs, volume, source, playback, req, wkr,
                   notices, budget>>

-----------------------------------------------------------------------------
(* A worker dies and boots again: reconcileInterruptedAssets.              *)

Crash(w) ==
    /\ wkr[w].pc # "down" /\ Fault("crash")
    /\ wkr' = [wkr EXCEPT ![w] = [IdleWorker EXCEPT !.pc = "down"]]
    /\ notices' = {n \in notices : n.at # w}
    /\ UNCHANGED <<asset, rows, jobs, bull, volume, source, playback, req>>

Restart(w) ==
    /\ WorkerGoto(w, "down", "bootScan")
    /\ UNCHANGED <<asset, rows, jobs, bull, volume, source, playback, req,
                   notices, budget>>

BootScan(w) ==
    /\ WorkerGoto(w, "bootScan",
            IF asset.status \in InFlight THEN "bootInspect" ELSE "idle")
    /\ UNCHANGED <<asset, rows, jobs, bull, volume, source, playback, req,
                   notices, budget>>

\* isJobLive: when Redis does not answer, the job counts as live.
BootInspect(w) ==
    /\ \/ NoFault /\ WorkerGoto(w, "bootInspect",
                        IF BullLive THEN "idle" ELSE "bootFailAsset")
       \/ Fault("queueRead") /\ WorkerGoto(w, "bootInspect", "idle")
    /\ UNCHANGED <<asset, rows, jobs, bull, volume, source, playback, req,
                   notices>>

BootFailAsset(w) ==
    /\ \/ /\ NoFault /\ asset' = FailedStatus
          /\ WorkerGoto(w, "bootFailAsset", "bootFailRows")
       \/ Fault("db") /\ UNCHANGED asset /\ WorkerGoto(w, "bootFailAsset", "idle")
    /\ UNCHANGED <<rows, jobs, bull, volume, source, playback, req, notices>>

BootFailRows(w) ==
    /\ WorkerGoto(w, "bootFailRows", "idle")
    /\ \/ /\ NoFault
          /\ jobs' = [j \in Jobs |->
                 IF jobs[j] \in PendingRow THEN "failed" ELSE jobs[j]]
       \/ Fault("db") /\ UNCHANGED jobs
    /\ UNCHANGED <<asset, rows, bull, volume, source, playback, req, notices>>

-----------------------------------------------------------------------------
Transcode(w) ==
    \/ Fetch(w) \/ Load(w) \/ Skip(w)
    \/ ClaimRow(w) \/ ClaimAsset(w) \/ ClearRenditions(w) \/ ClaimFails(w)
    \/ Resolve(w) \/ EncodeRung(w) \/ EncodeFails(w) \/ Publish(w)
    \/ MarkReady(w) \/ MarkDone(w) \/ Archive(w) \/ Cleanup(w) \/ Ack(w)
    \/ RetryAsset(w) \/ RetryRow(w) \/ FailAsset(w) \/ FailRow(w) \/ Nack(w)
Boot(w) ==
    \/ Restart(w) \/ BootScan(w) \/ BootInspect(w)
    \/ BootFailAsset(w) \/ BootFailRows(w)
WorkerStep(w) == Transcode(w) \/ Boot(w)

=============================================================================
