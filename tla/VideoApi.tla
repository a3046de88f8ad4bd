------------------------------ MODULE VideoApi ------------------------------
(***************************************************************************)
(* The API's side of one video, as its pages use it: the assets row, its   *)
(* comments, the objects of its thumbnail and text tracks, and the         *)
(* handlers of routes/playback.ts, routes/comments.ts and the second half  *)
(* of routes/assets.ts, one action per await.  The pipeline behind the     *)
(* status is the subject of module Transcode; here it is moved by Worker.  *)
(*                                                                         *)
(* A page has at most one request of a kind on its way.  The request may   *)
(* get lost, the page may give up on it (30 s) while its handler goes on,  *)
(* and the process may die with every handler in it.                       *)
(***************************************************************************)
EXTENDS Integers, Sequences, FiniteSets

CONSTANTS
    None,
    Chapter, Segment,               \* chapter titles and transcript segments
    MetaKeys, MaxMeta,              \* keys of custom metadata, the limit on them
    MaxFaults                       \* bound: requests lost or given up, crashes

VARIABLES
    row,        \* the assets row
    objects,    \* custom thumbnails in the bucket
    tracks,     \* chapters.json, transcript.json, subtitles.vtt: field -> version
    comments,   \* the bodies of the comments
    jobs,       \* handlers at work
    answers,    \* answers the page has not handled yet
    torn,       \* parts that a request nobody heard the end of left in doubt
    faults

api == <<row, objects, tracks, comments, jobs, answers, torn, faults>>

Public  == {"load", "reload", "list", "post", "react"}
Files   == {"getChapters", "getTranscript"}
Reads   == {"load", "reload", "list", "asset", "assets"} \cup Files
Thumbs  == {"thumb", "unthumb"}
Changes == {"post", "react", "settings", "meta", "process", "delete"} \cup Thumbs
Writes  == Changes \cup Chapter \cup Segment
FixedKinds == Reads \cup Changes
Kinds   == Reads \cup Writes
Slots   == Kinds \cup {"abandoned"}

\* The video has a thumbnail of its own already; 0 is none. Its metadata are
\* marked, for the properties, with the version of the row that set them.
FirstThumb == -1
InitRow(status) == [status |-> status, meta |-> [keys |-> {}, ver |-> 0], thumb |-> FirstThumb,
                    settings |-> {"comments"}, ver |-> 0]

ApiInit(sent, status) ==
    /\ row = InitRow(status)
    /\ objects = {FirstThumb} /\ comments = {}
    /\ tracks = [chapters |-> [f \in Chapter |-> 0], transcript |-> [f \in Segment |-> 0],
                 subtitles |-> [f \in Segment |-> 0]]
    /\ jobs = [s \in Slots |-> IF s \in sent
                 THEN [kind |-> s, pc |-> "sent", arg |-> None, old |-> 0] ELSE None]
    /\ answers = [k \in Kinds |-> None]
    /\ torn = {} /\ faults = 0

-----------------------------------------------------------------------------
(* What the pages do with requests.                                        *)

Waiting(k) == jobs[k] # None \/ answers[k] # None
With(js, k, b) == [js EXCEPT ![k] = [kind |-> k, pc |-> "sent", arg |-> b, old |-> 0]]
Heard(as, k) == [as EXCEPT ![k] = None]

-----------------------------------------------------------------------------
(* The handlers.                                                           *)

At(s, ks, pc) == jobs[s] # None /\ jobs[s].kind \in ks /\ jobs[s].pc = pc
Go(s, pc) == jobs' = [jobs EXCEPT ![s].pc = pc] /\ UNCHANGED answers
End(s, ok, b) ==
    /\ jobs' = [jobs EXCEPT ![s] = None]
    /\ answers' = IF s = "abandoned" THEN answers
                  ELSE [answers EXCEPT ![s] = [ok |-> ok, body |-> b]]

Changed(r) == row' = [r EXCEPT !.ver = @ + 1]

Processable == {"uploaded", "error", "ready"}
Found(k) == CASE k \in Public    -> row.status = "ready"
              [] k = "assets"    -> TRUE
              [] k \in Files     -> TRUE
              [] k = "process"   -> row.status \in Processable
              [] OTHER           -> row.status # "gone"

Refuse(s) ==
    /\ At(s, Kinds, "sent") /\ ~Found(jobs[s].kind)
    /\ End(s, FALSE, None)
    /\ UNCHANGED <<row, objects, tracks, comments, torn, faults>>

\* GET /v1/assets/:id
AssetBody == row

Read(s) ==
    /\ At(s, Reads, "sent") /\ Found(jobs[s].kind)
    /\ End(s, TRUE, CASE jobs[s].kind = "getChapters"   -> tracks.chapters
                      [] jobs[s].kind = "getTranscript" -> tracks.transcript
                      [] jobs[s].kind = "assets"        -> [status |-> row.status]
                      [] jobs[s].kind \in {"load", "reload"} -> row.settings
                      [] jobs[s].kind = "asset"         -> AssetBody
                      [] OTHER                          -> None)
    /\ UNCHANGED <<row, objects, tracks, comments, torn, faults>>

\* Every handler that writes reads the row first.
Look(s) ==
    /\ At(s, Writes, "sent") /\ Found(jobs[s].kind)
    /\ jobs' = [jobs EXCEPT ![s].pc = "looked", ![s].old = row.thumb]
    /\ UNCHANGED <<row, objects, tracks, comments, answers, torn, faults>>

\* POST /v1/playback/:playbackId/comments
Insert(s) ==
    /\ At(s, {"post", "react"}, "looked")
    /\ comments' = comments \cup {jobs[s].arg}
    /\ End(s, TRUE, None)
    /\ UNCHANGED <<row, objects, tracks, torn, faults>>

\* PATCH /v1/assets/:id
Update(s) ==
    /\ At(s, {"meta", "settings"}, "looked")
    /\ IF row.status = "gone" THEN UNCHANGED row
       ELSE IF jobs[s].kind = "meta"
              THEN Changed([row EXCEPT !.meta = [keys |-> jobs[s].arg, ver |-> row.ver + 1]])
       ELSE Changed([row EXCEPT !.settings = jobs[s].arg])
    /\ End(s, TRUE, IF jobs[s].kind = "meta" THEN [keys |-> jobs[s].arg, ver |-> row'.meta.ver]
                    ELSE row'.ver)
    /\ UNCHANGED <<objects, tracks, comments, torn, faults>>

\* POST /v1/assets/:id/process: the row is queued (AssetRoutes has the rest).
Queue(s) ==
    /\ At(s, {"process"}, "looked")
    /\ IF row.status \in Processable
         THEN Changed([row EXCEPT !.status = "queued"]) /\ End(s, TRUE, row'.ver)
         ELSE UNCHANGED row /\ End(s, FALSE, None)
    /\ UNCHANGED <<objects, tracks, comments, torn, faults>>

\* DELETE /v1/assets/:id: the objects, then the row and its comments.
Purge(s) ==
    /\ At(s, {"delete"}, "looked")
    /\ objects' = {}
    /\ Go(s, "purged")
    /\ UNCHANGED <<row, tracks, comments, torn, faults>>
DropRow(s) ==
    /\ At(s, {"delete"}, "purged")
    /\ Changed([row EXCEPT !.status = "gone", !.thumb = 0])
    /\ comments' = {}
    /\ End(s, TRUE, row'.ver)
    /\ UNCHANGED <<objects, tracks, torn, faults>>

\* PATCH /v1/assets/:id/chapters
PutChapters(s) ==
    /\ At(s, Chapter, "looked")
    /\ tracks' = [tracks EXCEPT !.chapters = jobs[s].arg]
    /\ End(s, TRUE, jobs[s].arg)
    /\ UNCHANGED <<row, objects, comments, torn, faults>>

\* PATCH /v1/assets/:id/transcript: the transcript, then the subtitles.
PutTranscript(s) ==
    /\ At(s, Segment, "looked")
    /\ tracks' = [tracks EXCEPT !.transcript = jobs[s].arg]
    /\ Go(s, "put")
    /\ UNCHANGED <<row, objects, comments, torn, faults>>
PutSubtitles(s) ==
    /\ At(s, Segment, "put")
    /\ tracks' = [tracks EXCEPT !.subtitles = jobs[s].arg]
    /\ End(s, TRUE, jobs[s].arg)
    /\ UNCHANGED <<row, objects, comments, torn, faults>>

\* Mistake: one key for every thumbnail of the video.
NewKeySame(n) == FirstThumb
\* The key of a new thumbnail is unique.
NewKey(n) == n

\* PUT and DELETE /v1/assets/:id/thumbnail
PutThumb(s) ==
    /\ At(s, {"thumb"}, "looked")
    /\ objects' = objects \cup {NewKey(jobs[s].arg)}
    /\ Go(s, "put")
    /\ UNCHANGED <<row, tracks, comments, torn, faults>>

\* The previous thumbnail is removed, unless there is none or it is this one.
Clean(s) ==
    /\ At(s, {"thumb"}, "put") \/ At(s, {"unthumb"}, "looked")
    /\ objects' = IF jobs[s].kind = "thumb" /\ jobs[s].old = NewKey(jobs[s].arg)
                    THEN objects ELSE objects \ {jobs[s].old}
    /\ IF jobs[s].kind = "unthumb" /\ jobs[s].old = 0
         THEN End(s, TRUE, row.ver) ELSE Go(s, "cleaned")
    /\ UNCHANGED <<row, tracks, comments, torn, faults>>

SetThumb(s) ==
    /\ At(s, Thumbs, "cleaned")
    /\ IF row.status = "gone" THEN UNCHANGED row
       ELSE Changed([row EXCEPT !.thumb =
                       IF jobs[s].kind = "thumb" THEN NewKey(jobs[s].arg) ELSE 0])
    /\ torn' = torn \ {"thumbnail"}
    /\ End(s, TRUE, row'.ver)
    /\ UNCHANGED <<objects, tracks, comments, faults>>

Serve(s) ==
    \/ Refuse(s) \/ Read(s) \/ Look(s) \/ Insert(s) \/ Update(s) \/ Queue(s)
    \/ Purge(s) \/ DropRow(s) \/ PutChapters(s) \/ PutTranscript(s) \/ PutSubtitles(s)
    \/ PutThumb(s) \/ Clean(s) \/ SetThumb(s)

-----------------------------------------------------------------------------
(* The rest of the system.                                                 *)

\* The upload, the pipeline and its AI phase move the row on.
Worker ==
    /\ \/ row.status = "uploaded"   /\ Changed([row EXCEPT !.status = "queued"])
       \/ row.status = "queued"     /\ Changed([row EXCEPT !.status = "processing"])
       \/ row.status = "processing" /\ \E status \in {"ready", "error"} :
              Changed([row EXCEPT !.status = status])
    /\ UNCHANGED <<objects, tracks, comments, jobs, answers, torn, faults>>

Fault == faults < MaxFaults /\ faults' = faults + 1
Failure == [ok |-> FALSE, body |-> None]
PartOf(k) == CASE k \in Chapter -> {"chapters"} [] k \in Segment -> {"transcript"}
               [] k \in Thumbs \cup {"delete"} -> {"thumbnail"} [] OTHER -> {}

\* The request never arrives, or the answer to a read does not.
Lose(k) ==
    /\ Fault /\ (At(k, Kinds, "sent"))
    /\ jobs' = [jobs EXCEPT ![k] = None]
    /\ answers' = [answers EXCEPT ![k] = Failure]
    /\ UNCHANGED <<row, objects, tracks, comments, torn>>

\* The page gives up on a request whose handler goes on.
GiveUp(k) ==
    /\ Fault /\ At(k, Writes, jobs[k].pc) /\ jobs["abandoned"] = None
    /\ jobs' = [jobs EXCEPT ![k] = None, !["abandoned"] = jobs[k]]
    /\ answers' = [answers EXCEPT ![k] = Failure]
    /\ torn' = torn \cup (PartOf(k) \ {"thumbnail"})
    /\ UNCHANGED <<row, objects, tracks, comments>>

\* The API's process dies.
Crash ==
    /\ Fault /\ \E s \in Slots : jobs[s] # None /\ jobs[s].pc # "sent"
    /\ jobs' = [s \in Slots |-> None]
    /\ answers' = [k \in Kinds |-> IF jobs[k] = None THEN answers[k] ELSE Failure]
    /\ torn' = torn \cup UNION {PartOf(jobs[s].kind) :
                 s \in {t \in Slots : \/ At(t, Segment, "put") \/ At(t, Thumbs, "cleaned")
                              \/ At(t, {"delete"}, "purged")}}
    /\ UNCHANGED <<row, objects, tracks, comments>>

AtWork(ss) == {s \in ss : jobs[s] # None}
ApiNext ==
    \/ Worker \/ Crash
    \/ \E s \in AtWork(Slots) : Serve(s)
    \/ \E k \in AtWork(Kinds) : Lose(k) \/ GiveUp(k)

=============================================================================
