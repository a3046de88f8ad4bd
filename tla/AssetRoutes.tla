----------------------------- MODULE AssetRoutes -----------------------------
(***************************************************************************)
(* The API handlers of apps/api/src/routes/assets.ts that change what the  *)
(* pipeline shares: upload, presign, multipart, import, process, delete.   *)
(*                                                                         *)
(* A handler is cut at its awaits, one action per statement or call, in    *)
(* source order. A request that is refused (404, 409, 400) changes nothing *)
(* and is left out unless it was refused half way.                         *)
(***************************************************************************)
EXTENDS AssetPipeline

ApiGoto(r, from, to) == req[r].pc = from /\ req' = [req EXCEPT ![r].pc = to]
Finish(r) == req' = [req EXCEPT ![r] = IdleRequest]

\* findAssetOrFail at the head of every handler.
Called(r, endpoint) ==
    endpoint \in Endpoints /\ req[r].pc = "idle" /\ Exists

-----------------------------------------------------------------------------
(* Sources in S3: a presigned PUT, or a multipart upload.                  *)

\* POST upload-url and POST multipart/create store the key whatever the status,
\* and hand out a URL or an upload id that outlives the key.
Presign(r) ==
    /\ Called(r, "presign") \/ Called(r, "multipart")
    /\ asset' = [asset EXCEPT !.key = TRUE, !.granted = TRUE]
    /\ UNCHANGED <<rows, jobs, bull, volume, source, playback, req, wkr,
                   notices, budget>>

\* The client PUTs its file to the presigned URL: the API sees nothing of it.
SourceLands ==
    /\ "presign" \in Endpoints /\ asset.granted
    /\ source' = TRUE
    /\ UNCHANGED <<asset, rows, jobs, bull, volume, playback, req, wkr,
                   notices, budget>>

\* POST upload-complete: HEAD must find the object.
ConfirmSource(r) ==
    /\ Called(r, "presign") /\ asset.key /\ source
    /\ ApiGoto(r, "idle", "promote")
    /\ UNCHANGED <<asset, rows, jobs, bull, volume, source, playback, wkr,
                   notices, budget>>

\* POST multipart/complete: the asset is found; its key may be NULL by now ...
CompleteMultipart(r) ==
    /\ Called(r, "multipart") /\ asset.granted
    /\ ApiGoto(r, "idle", "assemble")
    /\ UNCHANGED <<asset, rows, jobs, bull, volume, source, playback, wkr,
                   notices, budget>>

\* ... and S3 assembles the parts, whatever has become of the row since.
Assemble(r) ==
    /\ ApiGoto(r, "assemble", "promote")
    /\ source' = TRUE
    /\ UNCHANGED <<asset, rows, jobs, bull, volume, playback, wkr, notices,
                   budget>>

\* UPDATE assets SET status = uploaded WHERE id = ... AND status = created.
Promote(r) ==
    /\ req[r].pc = "promote" /\ Finish(r)
    /\ asset' = IF asset.status = "created"
                THEN [asset EXCEPT !.status = "uploaded"] ELSE asset
    /\ UNCHANGED <<rows, jobs, bull, volume, source, playback, wkr, notices,
                   budget>>

-----------------------------------------------------------------------------
(* PUT upload: the body is streamed to the shared volume.                  *)

\* The status is checked, the directory made, the file opened and truncated.
BeginUpload(r) ==
    /\ Called(r, "upload") /\ asset.status = "created"
    /\ ApiGoto(r, "idle", "stream")
    /\ volume' = "partial"
    /\ UNCHANGED <<asset, rows, jobs, bull, source, playback, wkr, notices,
                   budget>>

\* The last byte is written. The file is whole if it is still the one in the
\* directory and nobody else is writing to it.
EndUpload(r) ==
    /\ req[r].pc \in {"stream", "detached"}
    /\ ApiGoto(r, req[r].pc, "commitUpload")
    /\ volume' = IF req[r].pc = "detached" THEN volume
                 ELSE IF \E o \in Requests \ {r} : req[o].pc = "stream"
                      THEN "partial" ELSE "whole"
    /\ UNCHANGED <<asset, rows, jobs, bull, source, playback, wkr, notices,
                   budget>>

\* The client goes away: the whole directory is removed.
Disconnect(r) ==
    /\ req[r].pc \in {"stream", "detached"} /\ Fault("disconnect")
    /\ volume' = "absent"
    /\ req' = [Detached EXCEPT ![r].pc = "abortUpload"]
    /\ UNCHANGED <<asset, rows, jobs, bull, source, playback, wkr, notices>>

\* UPDATE ... SET status = created, sourceKey = NULL WHERE status = created.
AbortUpload(r) ==
    /\ req[r].pc = "abortUpload" /\ Finish(r)
    /\ asset' = IF asset.status = "created"
                THEN [asset EXCEPT !.key = FALSE] ELSE asset
    /\ UNCHANGED <<rows, jobs, bull, volume, source, playback, wkr, notices,
                   budget>>

\* UPDATE ... SET sourceKey, status = uploaded WHERE status = created, else 409.
CommitUpload(r) ==
    /\ req[r].pc = "commitUpload" /\ Finish(r)
    /\ asset' = IF asset.status = "created"
                THEN [asset EXCEPT !.status = "uploaded", !.key = TRUE]
                ELSE asset
    /\ UNCHANGED <<rows, jobs, bull, volume, source, playback, wkr, notices,
                   budget>>

-----------------------------------------------------------------------------
\* POST import sets the URL and the status whatever the status was.
Import(r) ==
    /\ Called(r, "import")
    /\ asset' = [asset EXCEPT !.url = TRUE, !.status = "uploaded"]
    /\ UNCHANGED <<rows, jobs, bull, volume, source, playback, req, wkr,
                   notices, budget>>

-----------------------------------------------------------------------------
(* POST process.                                                           *)

ProcessableStatuses == {"uploaded", "error", "ready"}

\* The bound on /process calls: each call under way must find an unused id.
UnusedIds == {j \in Jobs : jobs[j] = "none"}
Claiming == {r \in Requests :
                req[r].pc \in {"checkRows", "checkQueue", "removeOld", "insert"}}

ProcessRead(r) ==
    /\ Called(r, "process") /\ asset.status \in ProcessableStatuses
    /\ Cardinality(Claiming) < Cardinality(UnusedIds)
    /\ req' = [req EXCEPT ![r].pc = "checkRows", ![r].seen = asset.status]
    /\ UNCHANGED <<asset, rows, jobs, bull, volume, source, playback, wkr,
                   notices, budget>>

CheckRows(r) ==
    /\ req[r].pc = "checkRows"
    /\ IF \E j \in Jobs : jobs[j] \in PendingRow
       THEN Finish(r)
       ELSE ApiGoto(r, "checkRows", "checkQueue")
    /\ UNCHANGED <<asset, rows, jobs, bull, volume, source, playback, wkr,
                   notices, budget>>

\* getJob and getState: a live job refuses the call, a finished one is removed.
CheckQueue(r) ==
    /\ req[r].pc = "checkQueue"
    /\ CASE bull.state = "none" -> ApiGoto(r, "checkQueue", "insert")
         [] BullLive            -> Finish(r)
         [] OTHER               -> ApiGoto(r, "checkQueue", "removeOld")
    /\ UNCHANGED <<asset, rows, jobs, bull, volume, source, playback, wkr,
                   notices, budget>>

\* remove() acts on the id: it takes whatever job has it now, unless a worker
\* holds it. Its failure is swallowed.
RemoveOld(r) ==
    /\ ApiGoto(r, "removeOld", "insert")
    /\ \/ NoFault /\ bull' = IF bull.state = "active" THEN bull ELSE NoBull
       \/ Fault("queueRemove") /\ UNCHANGED bull
    /\ UNCHANGED <<asset, rows, jobs, volume, source, playback, wkr, notices>>

\* The foreign key refuses a row for a deleted asset.
InsertRow(r) ==
    /\ req[r].pc = "insert"
    /\ \/ \E j \in UnusedIds :
            /\ Exists
            /\ jobs' = [jobs EXCEPT ![j] = "queued"]
            /\ req' = [req EXCEPT ![r].pc = "setQueued", ![r].job = j]
       \/ ~Exists /\ Finish(r) /\ UNCHANGED jobs
    /\ UNCHANGED <<asset, rows, bull, volume, source, playback, wkr, notices,
                   budget>>

SetQueued(r) ==
    /\ ApiGoto(r, "setQueued", "add")
    /\ SetStatus("queued")
    /\ UNCHANGED <<rows, jobs, bull, volume, source, playback, wkr, notices,
                   budget>>

\* BullMQ's add: nothing happens when the id is taken.
Added(j) ==
    IF bull.state = "none"
    THEN [NoBull EXCEPT !.state = "waiting", !.job = j] ELSE bull

\* An add that throws may have reached Redis all the same.
AddToQueue(r) ==
    /\ req[r].pc = "add"
    /\ \/ NoFault /\ bull' = Added(req[r].job) /\ Finish(r)
       \/ Fault("queueAdd") /\ UNCHANGED bull /\ ApiGoto(r, "add", "undoRow")
       \/ /\ Fault("queueLate") /\ bull' = Added(req[r].job)
          /\ ApiGoto(r, "add", "undoRow")
    /\ UNCHANGED <<asset, rows, jobs, volume, source, playback, wkr, notices>>

\* Mistake: a submission the queue refused keeps its row.
UndoRowKept(r) ==
    /\ ApiGoto(r, "undoRow", "undoStatus")
    /\ UNCHANGED <<asset, rows, jobs, bull, volume, source, playback, wkr,
                   notices, budget>>

UndoRow(r) ==
    /\ ApiGoto(r, "undoRow", "undoStatus")
    /\ \/ NoFault /\ SetRow(req[r].job, "deleted")
       \/ Fault("db") /\ UNCHANGED jobs
    /\ UNCHANGED <<asset, rows, bull, volume, source, playback, wkr, notices>>

\* Mistake: a submission the queue refused leaves the asset queued.
UndoStatusKept(r) ==
    /\ req[r].pc = "undoStatus" /\ Finish(r)
    /\ UNCHANGED <<asset, rows, jobs, bull, volume, source, playback, wkr,
                   notices, budget>>

\* The status read at the start comes back, whatever it is by now.
UndoStatus(r) ==
    /\ req[r].pc = "undoStatus" /\ Finish(r)
    /\ \/ NoFault /\ SetStatus(req[r].seen)
       \/ Fault("db") /\ UNCHANGED asset
    /\ UNCHANGED <<rows, jobs, bull, volume, source, playback, wkr, notices>>

-----------------------------------------------------------------------------
(* DELETE: S3 first, sources before playback, then the row and, by the     *)
(* foreign keys, its renditions and jobs. Queue and volume are left alone. *)

DeleteSources(r) ==
    /\ Called(r, "delete")
    /\ ApiGoto(r, "idle", "delPlayback")
    /\ source' = FALSE
    /\ UNCHANGED <<asset, rows, jobs, bull, volume, playback, wkr, notices,
                   budget>>

DeletePlayback(r) ==
    /\ ApiGoto(r, "delPlayback", "delRow")
    /\ playback' = IF playback = "complete" THEN "purged" ELSE playback
    /\ UNCHANGED <<asset, rows, jobs, bull, volume, source, wkr, notices,
                   budget>>

DeleteRow(r) ==
    /\ req[r].pc = "delRow" /\ Finish(r)
    /\ asset' = [status |-> "gone", key |-> FALSE, url |-> FALSE,
                 granted |-> FALSE]
    /\ rows' = {}
    /\ jobs' = [j \in Jobs |-> IF jobs[j] = "none" THEN "none" ELSE "deleted"]
    /\ UNCHANGED <<bull, volume, source, playback, wkr, notices, budget>>

-----------------------------------------------------------------------------
\* A handler stops half way: a statement or an S3 call failed where nothing
\* catches it, or the API process died.
Abandon(r) ==
    /\ req[r].pc # "idle" /\ Fault("abandon")
    /\ Finish(r)
    /\ UNCHANGED <<asset, rows, jobs, bull, volume, source, playback, wkr,
                   notices>>

\* What a client does when it likes, and what the API then goes on to do.
Call(r) ==
    \/ Presign(r) \/ ConfirmSource(r) \/ CompleteMultipart(r)
    \/ BeginUpload(r) \/ Import(r) \/ ProcessRead(r) \/ DeleteSources(r)
Continue(r) ==
    \/ Assemble(r) \/ Promote(r)
    \/ EndUpload(r) \/ AbortUpload(r) \/ CommitUpload(r)
    \/ CheckRows(r) \/ CheckQueue(r) \/ RemoveOld(r) \/ InsertRow(r)
    \/ SetQueued(r) \/ AddToQueue(r) \/ UndoRow(r) \/ UndoStatus(r)
    \/ DeletePlayback(r) \/ DeleteRow(r)
Interrupt(r) == Disconnect(r) \/ Abandon(r)

=============================================================================
