------------------------------- MODULE Encode -------------------------------
(***************************************************************************)
(* What the transcode job does between taking an asset and calling it      *)
(* ready: the source, ffprobe, one ffmpeg after another, the files they    *)
(* leave in the job's scratch directory, and the upload of that directory  *)
(* (apps/worker/src: index.ts, ffmpeg.ts, transcoding.ts, thumbnails.ts,   *)
(* s3.ts, scratch.ts).  TranscodeWorker models the rows and the queue the  *)
(* same job writes; here one asset and one worker suffice.                 *)
(*                                                                         *)
(* An ffmpeg that runs out of time is only asked to stop: its promise      *)
(* rejects at once, the job goes on, and the process - a stray - lives     *)
(* until it obeys or is killed five seconds later.  A crash of the worker  *)
(* leaves its ffmpeg to itself, writing to a directory no later attempt    *)
(* uses (it is not followed here), and that directory behind.              *)
(***************************************************************************)
EXTENDS Integers, Sequences, FiniteSetsExt

CONSTANTS
    Sources,       \* sources: [w, h, dur, via], pixels and seconds
    MaxAttempts,   \* attempts the queue gives a job
    MaxRedirects,  \* MAX_IMPORT_REDIRECTS
    UploadBatch,   \* UPLOAD_BATCH_SIZE
    MaxRuns,       \* bound: runs of the job, those that crash included
    MaxKept        \* bound: files that a failed removal leaves

\* What ffprobe says of a source, and where it is fetched from.
Source == [w : Nat \ {0}, h : Nat \ {0}, dur : Nat, via : {"local", "url"}]

ASSUME EncodeAssumption ==
    /\ Sources \subseteq Source
    /\ {MaxAttempts, MaxRuns, UploadBatch} \subseteq Nat \ {0}
    /\ {MaxRedirects, MaxKept} \subseteq Nat

VARIABLES
    src,      \* the source
    job,      \* the job and the worker that runs it
    proc,     \* the file the ffmpeg the job waits for is writing, or "none"
    files,    \* the output directory of the attempt under way
    strays,   \* the ffmpegs nobody waits for: [file, linked]
    kept,     \* files that a failed removal has left where they were
    late,     \* uploads an attempt that failed has left running
    bucket,   \* the asset's playback files in storage
    leftover, \* scratch directories of runs that crashed
    crashes   \* crashes so far

vars == <<src, job, proc, files, strays, kept, late, bucket, leftover, crashes>>

-----------------------------------------------------------------------------
(* The ladder and the scrubber sprite. *)

TRANSCODING_LADDER ==
    << [quality |-> "360p", height |-> 360], [quality |-> "480p", height |-> 480],
       [quality |-> "720p", height |-> 720], [quality |-> "1080p", height |-> 1080],
       [quality |-> "1440p", height |-> 1440], [quality |-> "2160p", height |-> 2160],
       [quality |-> "4320p", height |-> 4320] >>

ShortSide(s) == IF s.w < s.h THEN s.w ELSE s.h

\* The ladder ascends: the rungs that fit are its first ones.  The lowest always is.
filterLadder(s) ==
    LET fits == {k \in DOMAIN TRANSCODING_LADDER : TRANSCODING_LADDER[k].height <= ShortSide(s)}
    IN  SubSeq(TRANSCODING_LADDER, 1, Max({1} \cup fits))

CeilDiv(a, b) == (a + b - 1) \div b
AtLeast(a, b) == IF a < b THEN b ELSE a

ThumbWidth == 160
Cols == 5
MaxTiles == 400
BaseInterval == 5
MaxSpriteDimension == 65000

\* Math.round(160 * h / w), made even, 90 if that is nothing.
ThumbHeight(s) ==
    LET round == (2 * ThumbWidth * s.h + s.w) \div (2 * s.w)
        even  == round + (round % 2)
    IN  IF even = 0 THEN 90 ELSE even

\* Mistake: the JPEG's height is not looked at.
TilesAlways(height) == MaxTiles

TilesThatFit(height) ==
    LET rows == AtLeast(MaxSpriteDimension \div height, 1)
    IN  IF rows * Cols < MaxTiles THEN rows * Cols ELSE MaxTiles

\* Only for a thumbHeight the sprite can hold (the code throws otherwise).
computeSpriteLayout(s) ==
    LET most  == TilesThatFit(ThumbHeight(s))
        tiles == AtLeast(CeilDiv(s.dur, BaseInterval), 1)
        step  == IF tiles > most THEN CeilDiv(s.dur, most) ELSE BaseInterval
        count == AtLeast(CeilDiv(s.dur, step), 1)
    IN  [interval |-> step, count |-> count, rows |-> CeilDiv(count, Cols),
         height |-> ThumbHeight(s)]

\* The cues of thumbnails.vtt: a span of the film and its tile in the sprite.
Cues(s, l) ==
    {[from |-> i * l.interval,
      to   |-> IF (i + 1) * l.interval < s.dur THEN (i + 1) * l.interval ELSE s.dur,
      x    |-> (i % Cols) * ThumbWidth,
      y    |-> (i \div Cols) * l.height] :
        i \in {k \in 0 .. l.count - 1 : k * l.interval < s.dur}}

-----------------------------------------------------------------------------
(* Files, processes and the job. *)

Qualities == {TRANSCODING_LADDER[k].quality : k \in DOMAIN TRANSCODING_LADDER}
Files == Qualities \cup {"download", "sprite", "vtt", "poster", "master"}
Contents == {"none", "partial", "whole"}
NoFiles == [f \in Files |-> "none"]
There == {f \in Files : files[f] # "none"}

FfmpegPcs == {"rung", "download", "sprite", "poster", "poster at 0"}
AttemptPcs == FfmpegPcs \cup
    {"resolve", "probe", "quota", "measure", "vtt", "playlist", "upload", "finish", "cleanup"}
Pcs == AttemptPcs \cup {"waiting", "down", "over"}

Ladder == filterLadder(src)

Waiting(attempt) ==
    [pc |-> "waiting", attempt |-> attempt, hop |-> 0, rung |-> 1,
     left |-> {}, fly |-> {}, outcome |-> "none"]

Goto(pc) == job' = [job EXCEPT !.pc = pc]

TypeOK ==
    /\ src \in Sources
    /\ job.pc \in Pcs /\ job.attempt \in 0 .. MaxAttempts
    /\ job.hop \in 0 .. MaxRedirects /\ job.rung \in 1 .. Len(Ladder)
    /\ job.left \subseteq Files /\ job.fly \subseteq Files
    /\ job.outcome \in {"none", "retry", "failed", "ready"}
    /\ proc \in Files \cup {"none"}
    /\ files \in [Files -> Contents] /\ bucket \in [Files -> Contents]
    /\ strays \subseteq [file : Files, linked : BOOLEAN]
    /\ kept \subseteq Files
    /\ late \subseteq Files \X Contents
    /\ crashes \in 0 .. MaxRuns /\ leftover \in 0 .. crashes

Init ==
    /\ src \in Sources
    /\ job = Waiting(0)
    /\ proc = "none"
    /\ files = NoFiles /\ bucket = NoFiles
    /\ strays = {} /\ kept = {} /\ late = {}
    /\ leftover = 0 /\ crashes = 0

-----------------------------------------------------------------------------
(* The attempt, up to the first ffmpeg. *)

\* processTranscodeJob makes a directory of its own for this attempt.
Start ==
    /\ job.pc = "waiting" /\ job.attempt + crashes < MaxRuns
    /\ job' = [Waiting(job.attempt + 1) EXCEPT !.pc = "resolve"]
    /\ UNCHANGED <<src, proc, files, strays, late, bucket, leftover, crashes, kept>>

\* The catch block: an UnrecoverableError, or the last attempt, ends the job.
Caught(kind) ==
    job' = [job EXCEPT !.pc = "cleanup", !.fly = {}, !.left = {},
              !.outcome = IF kind = "error" /\ job.attempt < MaxAttempts
                            THEN "retry" ELSE "failed"]

Fails(pcs, kinds) ==
    /\ job.pc \in pcs
    /\ \E kind \in kinds : Caught(kind)
    /\ UNCHANGED <<src, proc, files, strays, late, bucket, leftover, crashes, kept>>

\* resolveSource: the shared volume, the URL or storage; then ensureFreeSpace.
Resolve ==
    /\ job.pc = "resolve"
    /\ job' = [job EXCEPT !.pc = "probe", !.hop = 0]
    /\ UNCHANGED <<src, proc, files, strays, late, bucket, leftover, crashes, kept>>

\* A redirect of the URL: its target is checked like the URL was.
Redirected ==
    /\ job.pc = "resolve" /\ src.via = "url"
    /\ job.hop < MaxRedirects
    /\ job' = [job EXCEPT !.hop = @ + 1]
    /\ UNCHANGED <<src, proc, files, strays, late, bucket, leftover, crashes, kept>>

\* assertPublicHttpUrl refuses the URL or the target of a redirect.
SourceBlocked == src.via = "url" /\ Fails({"resolve"}, {"unrecoverable"})

\* No source, an empty or oversized one or a redirect too many is final; the
\* network and a lack of scratch space are not.
ResolveFails == Fails({"resolve"}, {"error", "unrecoverable"})

\* ffprobe: nothing in the code limits the time it takes.
Probe ==
    /\ job.pc = "probe"
    /\ Goto("quota")
    /\ UNCHANGED <<src, proc, files, strays, late, bucket, leftover, crashes, kept>>

ProbeFails == Fails({"probe"}, {"error", "unrecoverable"})

WithinQuota ==
    /\ job.pc = "quota"
    /\ Goto("rung")
    /\ UNCHANGED <<src, proc, files, strays, late, bucket, leftover, crashes, kept>>

QuotaExceeded == Fails({"quota"}, {"error", "unrecoverable"})

-----------------------------------------------------------------------------
(* ffmpeg.  Where the job goes when one ends, and what it removes first. *)

Following(ok) ==
    CASE job.pc = "rung" -> "measure"
      [] job.pc = "download" -> "sprite"
      [] job.pc = "sprite" -> IF ok THEN "vtt" ELSE "poster"
      [] job.pc = "poster" -> IF ok THEN "playlist" ELSE "poster at 0"
      [] OTHER -> "playlist"

\* Mistake: a failed download is only logged.
RemovedSprite == IF job.pc \in {"sprite", "vtt"} THEN {"sprite", "vtt"} ELSE {}

\* What a failed download or sprite may have left, to be removed.
Removed == CASE job.pc = "download" -> {"download"}
             [] job.pc \in {"sprite", "vtt"} -> {"sprite", "vtt"}
             [] OTHER -> {}

Without(fs, gone) == [f \in Files |-> IF f \in gone THEN "none" ELSE fs[f]]
Unlinked(others, gone) ==
    {IF p.file \in gone THEN [p EXCEPT !.linked = FALSE] ELSE p : p \in others}

\* rm, of the files of fs: its failure is swallowed, and what it did not get to
\* stays for the upload to find.
rm(fs, others) ==
    \E stay \in SUBSET {f \in Removed : fs[f] # "none"} :
        /\ files' = Without(fs, Removed \ stay)
        /\ strays' = Unlinked(others, Removed \ stay)
        /\ kept' = kept \cup stay /\ Cardinality(kept') <= MaxKept

\* The promise of runFfmpeg has rejected; fs is what is in the directory.
Rejected(fs, others) ==
    IF job.pc = "rung"
      THEN /\ Caught("error")
           /\ files' = fs /\ strays' = others
           /\ UNCHANGED kept
      ELSE Goto(Following(FALSE)) /\ rm(fs, others)

\* generateThumbnails refuses a source too tall before it starts ffmpeg.
TooTall == job.pc = "sprite" /\ ThumbHeight(src) > MaxSpriteDimension

runFfmpeg(output) ==
    /\ proc = "none"
    /\ proc' = output
    /\ files' = [files EXCEPT ![output] = "partial"]
    /\ UNCHANGED <<src, job, strays, late, bucket, leftover, crashes, kept>>

transcodeRendition == job.pc = "rung" /\ runFfmpeg(Ladder[job.rung].quality)

createDownloadableMp4 == job.pc = "download" /\ runFfmpeg("download")

generateThumbnails == job.pc = "sprite" /\ ~TooTall /\ runFfmpeg("sprite")

extractPosterThumbnail == job.pc \in {"poster", "poster at 0"} /\ runFfmpeg("poster")

\* The 'error' event, or TooTall.
SpawnFails ==
    /\ job.pc \in FfmpegPcs /\ proc = "none"
    /\ Rejected(files, strays)
    /\ UNCHANGED <<src, proc, late, bucket, leftover, crashes>>

Succeeds ==
    /\ proc # "none"
    /\ proc' = "none"
    /\ files' = [files EXCEPT ![proc] = "whole"]
    /\ Goto(Following(TRUE))
    /\ UNCHANGED <<src, strays, late, bucket, leftover, crashes, kept>>

\* 'close' with another code: the file is not whole.
Breaks ==
    /\ proc # "none"
    /\ proc' = "none"
    /\ Rejected(files, strays)
    /\ UNCHANGED <<src, late, bucket, leftover, crashes>>

\* Mistake: SIGTERM, and the rejection is left to the 'close' event.
TimesOutPolitely ==
    /\ proc # "none"
    /\ UNCHANGED vars

\* The timeout: SIGTERM and an immediate rejection.  Every limit is minutes
\* long, so that the stray of an earlier one is gone by then.
TimesOut ==
    /\ proc # "none" /\ strays = {}
    /\ proc' = "none"
    /\ Rejected(files, {[file |-> proc, linked |-> TRUE]})
    /\ UNCHANGED <<src, late, bucket, leftover, crashes>>

\* A stray that had its file open goes on writing it, alone or not.
StrayWrites ==
    /\ \E p \in strays :
         /\ p.linked /\ files[p.file] = "whole"
         /\ files' = [files EXCEPT ![p.file] = "partial"]
    /\ UNCHANGED <<src, job, proc, strays, late, bucket, leftover, crashes, kept>>

\* It obeys, or ends of itself: 'close' clears the timer of the second signal.
StrayEnds ==
    /\ \E p \in strays : strays' = strays \ {p}
    /\ UNCHANGED <<src, job, proc, files, late, bucket, leftover, crashes, kept>>

\* Mistake: no second signal.
KillNever(p) == FALSE

\* The second signal, five seconds later, which no process ignores.
Kill(p) == strays' = strays \ {p}

ForceKill ==
    /\ \E p \in strays : Kill(p)
    /\ UNCHANGED <<src, job, proc, files, late, bucket, leftover, crashes, kept>>

-----------------------------------------------------------------------------
(* Between and after the ffmpegs. *)

\* The rung's dimensions and size are read back and its row is written.
Measure ==
    /\ job.pc = "measure"
    /\ IF job.rung < Len(Ladder)
         THEN job' = [job EXCEPT !.pc = "rung", !.rung = @ + 1]
         ELSE Goto("download")
    /\ UNCHANGED <<src, proc, files, strays, late, bucket, leftover, crashes, kept>>

MeasureFails == Fails({"measure"}, {"error"})

WriteVtt ==
    /\ job.pc = "vtt"
    /\ files' = [files EXCEPT !["vtt"] = "whole"]
    /\ Goto("poster")
    /\ UNCHANGED <<src, proc, strays, late, bucket, leftover, crashes, kept>>

\* The cues cannot be written, or not to the end.
VttFails ==
    /\ job.pc = "vtt"
    /\ \E part \in {"none", "partial"} : rm([files EXCEPT !["vtt"] = part], strays)
    /\ Goto("poster")
    /\ UNCHANGED <<src, proc, late, bucket, leftover, crashes>>

\* createMasterPlaylist, then the listing uploadDirectory starts from.
WritePlaylist ==
    /\ job.pc = "playlist"
    /\ files' = [files EXCEPT !["master"] = "whole"]
    /\ job' = [job EXCEPT !.pc = "upload", !.left = There \cup {"master"}]
    /\ UNCHANGED <<src, proc, strays, late, bucket, leftover, crashes, kept>>

PlaylistFails == Fails({"playlist"}, {"error"})

\* The next files of the listing, whose order is the directory's.
NextOf(listing) ==
    CHOOSE batch \in SUBSET listing :
        Cardinality(batch) = IF Cardinality(listing) < UploadBatch
                               THEN Cardinality(listing) ELSE UploadBatch

NextBatch ==
    /\ job.pc = "upload" /\ job.fly = {} /\ job.left # {}
    /\ job' = [job EXCEPT !.left = @ \ NextOf(@), !.fly = NextOf(job.left)]
    /\ UNCHANGED <<src, proc, files, strays, late, bucket, leftover, crashes, kept>>

\* withRetry tries an upload three times, and pauses in between: one step.
PutDone ==
    /\ \E f \in job.fly :
         /\ bucket' = [bucket EXCEPT ![f] = files[f]]
         /\ job' = [job EXCEPT !.fly = @ \ {f}]
    /\ UNCHANGED <<src, proc, files, strays, late, leftover, crashes, kept>>

\* Mistake: Promise.allSettled, whose rejections nobody reads.
PutGivenUpSettled ==
    /\ \E f \in job.fly : job' = [job EXCEPT !.fly = @ \ {f}]
    /\ UNCHANGED <<src, proc, files, strays, late, bucket, leftover, crashes, kept>>

\* One upload gives up: Promise.all rejects and forgets the others.
PutGivenUp ==
    /\ \E f \in job.fly :
         /\ Caught("error")
         /\ late' = late \cup {<<g, files[g]>> : g \in job.fly \ {f}}
    /\ UNCHANGED <<src, proc, files, strays, bucket, leftover, crashes, kept>>

\* An upload that never lands stays late for good.
LateLands ==
    /\ \E put \in late :
         /\ bucket' = [bucket EXCEPT ![put[1]] = put[2]]
         /\ late' = late \ {put}
    /\ UNCHANGED <<src, job, proc, files, strays, leftover, crashes, kept>>

Uploaded ==
    /\ job.pc = "upload" /\ job.fly = {} /\ job.left = {}
    /\ Goto("finish")
    /\ UNCHANGED <<src, proc, files, strays, late, bucket, leftover, crashes, kept>>

\* The asset is marked ready; nothing after that fails the job.
Finish ==
    /\ job.pc = "finish"
    /\ job' = [job EXCEPT !.pc = "cleanup", !.outcome = "ready"]
    /\ UNCHANGED <<src, proc, files, strays, late, bucket, leftover, crashes, kept>>

FinishFails == Fails({"finish"}, {"error"})

\* The finally block.
Cleanup ==
    /\ job.pc = "cleanup"
    /\ files' = NoFiles
    /\ strays' = {[p EXCEPT !.linked = FALSE] : p \in strays}
    /\ job' = IF job.outcome = "retry"
                THEN Waiting(job.attempt)
                ELSE [job EXCEPT !.pc = "over"]
    /\ UNCHANGED <<src, proc, late, bucket, leftover, crashes, kept>>

-----------------------------------------------------------------------------
(* The worker itself. *)

\* The process dies; the queue gives the attempt out again.
Crash ==
    /\ job.attempt + crashes < MaxRuns /\ job.pc \in AttemptPcs
    /\ crashes' = crashes + 1
    /\ leftover' = leftover + 1
    /\ job' = CASE job.outcome \in {"ready", "failed"} -> [job EXCEPT !.pc = "over"]
                [] job.outcome = "retry" -> [Waiting(job.attempt) EXCEPT !.pc = "down"]
                [] OTHER -> [Waiting(job.attempt - 1) EXCEPT !.pc = "down"]
    /\ proc' = "none" /\ files' = NoFiles
    /\ strays' = {} /\ late' = {}
    /\ UNCHANGED <<src, bucket, kept>>

\* boot: sweepStaleJobDirs removes the directories that are a day old.
Boot ==
    /\ job.pc = "down"
    /\ leftover' \in 0 .. leftover
    /\ Goto("waiting")
    /\ UNCHANGED <<src, proc, files, strays, late, bucket, crashes, kept>>

Next ==
    \/ Start \/ Resolve \/ Redirected \/ SourceBlocked \/ ResolveFails \/ Probe \/ ProbeFails
    \/ WithinQuota \/ QuotaExceeded
    \/ transcodeRendition \/ createDownloadableMp4 \/ generateThumbnails
    \/ extractPosterThumbnail \/ SpawnFails \/ Succeeds \/ Breaks \/ TimesOut
    \/ StrayWrites \/ StrayEnds \/ ForceKill
    \/ Measure \/ MeasureFails \/ WriteVtt \/ VttFails
    \/ WritePlaylist \/ PlaylistFails \/ NextBatch \/ PutDone
    \/ PutGivenUp \/ LateLands \/ Uploaded \/ Finish \/ FinishFails \/ Cleanup
    \/ Crash \/ Boot

Spec == Init /\ [][Next]_vars

\* The steps of the job that end without anybody's help, ffprobe's included;
\* and the two timers of runFfmpeg.
Steps ==
    \/ Start \/ Resolve \/ ResolveFails \/ Probe \/ ProbeFails
    \/ WithinQuota \/ QuotaExceeded \/ transcodeRendition \/ createDownloadableMp4
    \/ generateThumbnails \/ extractPosterThumbnail \/ SpawnFails \/ Measure \/ WriteVtt
    \/ WritePlaylist \/ NextBatch \/ PutDone \/ PutGivenUp \/ Uploaded \/ Finish
    \/ Cleanup \/ Boot

FairSpec ==
    /\ Spec
    /\ WF_vars(Steps) /\ WF_vars(TimesOut)
    /\ WF_vars(ForceKill)

-----------------------------------------------------------------------------
(* Properties. *)

\* A ready asset is playable: every rung and the master playlist are in
\* storage whole, and no half-written download or sprite was published
\* (worker/src/index.ts:635-648), whatever failed, timed out, was retried or
\* landed late.  Not so for a file whose removal failed as well, an error that
\* index.ts:636 and 647 swallow.  The poster is not tidied up at all.
PublishedWhole ==
    job.outcome = "ready" =>
      /\ \A k \in DOMAIN Ladder : bucket[Ladder[k].quality] = "whole"
      /\ bucket["master"] = "whole"
      /\ \A f \in {"download", "sprite", "vtt"} \ kept : bucket[f] # "partial"

\* The sprite of any source is a JPEG that can exist (65,000 pixels at most)
\* with a tile for every cue, and the cues cover the film without a gap
\* (thumbnails.ts:37-56 and 95-106).
SpriteFits ==
    job.pc = "vtt" =>
      LET l == computeSpriteLayout(src)
          cues == Cues(src, l)
      IN  /\ l.rows * l.height <= MaxSpriteDimension
          /\ \A c \in cues : c.y + l.height <= l.rows * l.height
          /\ \A c \in cues : c.to = src.dur \/ \E d \in cues : d.from = c.to
          /\ src.dur > 0 => \E c \in cues : c.from = 0

\* An ffmpeg that ran out of time is gone in the end even if it ignores the
\* request to stop (ffmpeg.ts:83-89).
StraysDie == (strays # {}) ~> (strays = {})

\* However an ffmpeg hangs, the attempt that waits for it comes to an end
\* (ffmpeg.ts:83-109): the job never stays at one step for good.
AttemptEnds == (job.pc \in FfmpegPcs) ~> (job.pc \notin FfmpegPcs)

\* An ffmpeg that hangs neither stays for good nor holds its attempt up.
HungFfmpegEnds == StraysDie /\ AttemptEnds
=============================================================================
