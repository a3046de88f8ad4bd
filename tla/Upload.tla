------------------------------- MODULE Upload -------------------------------
(***************************************************************************)
(* Getting a new video to the platform from a browser: the New video page  *)
(* (NewVideoPage.tsx), the upload library under it (lib/upload.ts) and the *)
(* multipart endpoints and storage they talk to.                           *)
(*                                                                         *)
(* A run is one call of handleStart.  It outlives the phase the page shows:*)
(* the workers of a run that has failed go on in the background, and the   *)
(* file field still answers the keyboard while a run is under way, so that *)
(* several runs may be at work on one asset.                               *)
(*                                                                         *)
(* A call to the API has an effect and then an answer; the network may     *)
(* fail it before the effect or lose the answer after it.  The time limit  *)
(* of lib/api.ts rejects with an AbortError, which nobody can tell from    *)
(* the one that a cancellation raises.                                     *)
(***************************************************************************)
EXTENDS Integers, Sequences, FiniteSetsExt

CONSTANTS
    Files, Small,   \* files to choose from; those that go up in a single PUT
    PartCount,      \* parts of every other file
    Attempts,       \* PART_ATTEMPTS
    Concurrency,    \* PART_CONCURRENCY
    MaxRuns,        \* bound: runs started
    MaxPicks,       \* bound: files and tabs chosen
    MaxFaults       \* bound: answers the network loses

ASSUME UploadAssumption ==
    /\ Small \subseteq Files
    /\ {PartCount, Attempts, Concurrency, MaxRuns} \subseteq Nat \ {0}
    /\ {MaxFaults, MaxPicks} \subseteq Nat
    /\ "none" \notin Files

VARIABLES
    page,      \* the New video page
    run,       \* the calls of handleStart, in order
    saved,     \* the session stored for each asset
    upload,    \* S3's multipart uploads, in order of creation
    aborting,  \* abort requests on their way
    asset,     \* the assets' rows and source objects, in order of creation
    faults,    \* faults so far
    picks,     \* choices so far
    early      \* history: a part given up without a cancel, attempts left

vars == <<page, run, saved, upload, aborting, asset, faults, picks, early>>

Parts  == 1 .. PartCount
Pool   == 1 .. Concurrency
RunIds == 1 .. MaxRuns
NoFile == "none"
Content == Files \cup {NoFile}
Empty   == [p \in Parts |-> NoFile]
Whole(f) == [p \in Parts |-> f]

Phases == {"idle", "creating", "uploading", "imported", "processing", "done", "error", "gone"}
Working == {"creating", "uploading", "imported", "processing"}

NoSession == [id |-> 0, file |-> NoFile, parts |-> Empty]
Rest  == [pc |-> "rest", part |-> 0, tries |-> 0]
Fresh(f, tab) ==
    [pc |-> "create", file |-> f, tab |-> tab, asset |-> 0, id |-> 0, etags |-> Empty,
     queue |-> {}, pool |-> [w \in Pool |-> Rest], aborted |-> FALSE]

Init ==
    /\ page = [phase |-> "idle", tab |-> "upload", file |-> NoFile, asset |-> 0, abort |-> 0]
    /\ run = <<>> /\ saved = [a \in RunIds |-> NoSession]
    /\ upload = <<>> /\ aborting = {} /\ asset = <<>>
    /\ faults = 0 /\ picks = 0 /\ early = FALSE

Fault == faults < MaxFaults /\ faults' = faults + 1

-----------------------------------------------------------------------------
(* What a run does between two awaits.                                     *)

\* The page as a run sets it; after an unmount that does nothing.
Show(phase) == IF page.phase = "gone" THEN page ELSE [page EXCEPT !.phase = phase]

\* Mistake: an abort leaves the phase as it is.
CaughtQuietly(how) ==
    [(IF how = "abort" THEN page ELSE Show("error")) EXCEPT !.abort = 0]

\* The catch and finally of handleStart: abortRef is cleared whoever set it.
Caught(how) == [Show(IF how = "abort" THEN "idle" ELSE "error") EXCEPT !.abort = 0]

\* A run that is over keeps what its workers in the background still use.
Over(rr) ==
    IF \A w \in Pool : rr.pool[w].pc \in {"rest", "return"}
    THEN [Fresh(rr.file, rr.tab) EXCEPT !.pc = "over", !.asset = rr.asset]
    ELSE [rr EXCEPT !.pc = "over"]

\* The run r fails at a call of its own.
Throw(r, how) ==
    /\ run' = [run EXCEPT ![r] = Over(@)]
    /\ page' = Caught(how)

\* Mistake: the file is not compared.
ResumableAny(a, f) == saved[a].id # 0 /\ f # NoFile

\* readSession: what is stored is of use for the same file only.
Resumable(a, f) == saved[a].id # 0 /\ saved[a].file = f

\* Mistake: the part stays in the queue.
TakeShared(rr, w) ==
    IF rr.queue = {} THEN [rr EXCEPT !.pool[w] = [Rest EXCEPT !.pc = "return"]]
    ELSE [rr EXCEPT !.pool[w] = [pc |-> IF rr.aborted THEN "throw" ELSE "url",
                                 part |-> Min(rr.queue), tries |-> 1]]

\* A worker is free: it takes the next part of the queue, unless the run was
\* aborted, or it returns.
Take(rr, w) ==
    IF rr.queue = {} THEN [rr EXCEPT !.pool[w] = [Rest EXCEPT !.pc = "return"]]
    ELSE [rr EXCEPT !.pool[w] = [pc |-> IF rr.aborted THEN "throw" ELSE "url",
                                 part |-> Min(rr.queue), tries |-> 1],
                    !.queue = @ \ {Min(@)}]

\* As many workers as PART_CONCURRENCY allows and the queue needs, one at
\* least. The first of them take the first parts that are missing, in order.
Spawn(rr) ==
    LET missing == {p \in Parts : rr.etags[p] = NoFile}
        Rank(p) == Cardinality({q \in missing : q <= p})
        First(w) == CHOOSE p \in missing : Rank(p) = w
    IN  [rr EXCEPT !.pc = "parts",
                   !.queue = {p \in missing : Rank(p) > Concurrency},
                   !.pool = [w \in Pool |->
                       CASE w <= Cardinality(missing) ->
                               [pc |-> IF rr.aborted THEN "throw" ELSE "url",
                                part |-> First(w), tries |-> 1]
                         [] w > Cardinality(missing) /\ w = 1 -> [Rest EXCEPT !.pc = "return"]
                         [] OTHER -> Rest]]

\* Step 2 of handleStart, up to its first await: the session is read, and
\* dropped if it is another file's.
Step2(rr) ==
    CASE rr.tab = "import"                      -> [rr EXCEPT !.pc = "import"]
      [] rr.tab = "upload" /\ rr.file \in Small -> [rr EXCEPT !.pc = "presign"]
      [] rr.tab = "upload" /\ rr.file \notin Small /\ Resumable(rr.asset, rr.file) ->
            Spawn([rr EXCEPT !.id = saved[rr.asset].id, !.etags = saved[rr.asset].parts])
      [] OTHER                                  -> [rr EXCEPT !.pc = "open"]

Step2Phase(rr) == IF rr.tab = "import" THEN "imported" ELSE "uploading"
Dropped(rr) ==
    IF rr.tab = "upload" /\ rr.file \notin Small /\ ~Resumable(rr.asset, rr.file)
    THEN [saved EXCEPT ![rr.asset] = NoSession] ELSE saved

-----------------------------------------------------------------------------
(* The page.                                                               *)

Picked == picks < MaxPicks /\ picks' = picks + 1

\* The tabs are inert while a run is under way.
PickTab(tab) ==
    /\ Picked
    /\ page.phase \in {"idle", "error"} /\ tab # page.tab
    /\ page' = [page EXCEPT !.tab = tab]
    /\ UNCHANGED <<run, saved, upload, aborting, asset, faults, early>>

\* abortUpload: the session is forgotten first, then the API is told.
Abandon(a) ==
    /\ saved' = [saved EXCEPT ![a] = NoSession]
    /\ aborting' = aborting \cup ({saved[a].id} \ {0})

\* handleFileSelect. The field is dimmed while a run is under way, and still
\* opens from the keyboard.
Select(f) ==
    /\ Picked
    /\ page.phase \notin {"done", "gone"} /\ page.tab = "upload"
    /\ page' = [page EXCEPT !.file = f, !.asset = 0, !.phase = "idle"]
    /\ IF page.asset # 0 THEN Abandon(page.asset) ELSE UNCHANGED <<saved, aborting>>
    /\ UNCHANGED <<run, upload, asset, faults, early>>

\* handleStart: the asset of an earlier attempt is used again.
Start ==
    LET rr == [Fresh(page.file, page.tab) EXCEPT !.asset = page.asset]
        r  == Len(run) + 1
    IN  /\ page.phase \in {"idle", "error"} /\ Len(run) < MaxRuns
        /\ page.tab = "upload" => page.file # NoFile
        /\ IF page.asset = 0
           THEN /\ run' = Append(run, rr)
                /\ page' = [page EXCEPT !.phase = "creating", !.abort = r]
                /\ UNCHANGED saved
           ELSE /\ run' = Append(run, Step2(rr))
                /\ page' = [page EXCEPT !.phase = Step2Phase(rr), !.abort = r]
                /\ saved' = Dropped(rr)
        /\ UNCHANGED <<upload, aborting, asset, faults, picks, early>>

AbortRef == IF page.abort = 0 THEN run ELSE [run EXCEPT ![page.abort].aborted = TRUE]

\* handleCancel, offered while the page shows an upload.
Cancel ==
    /\ page.phase = "uploading"
    /\ run' = AbortRef
    /\ IF page.asset # 0 THEN Abandon(page.asset) ELSE UNCHANGED <<saved, aborting>>
    /\ UNCHANGED <<page, upload, asset, faults, picks, early>>

\* The page goes away: the run it holds is aborted, nothing else.
Leave ==
    /\ page.phase # "gone"
    /\ page' = [page EXCEPT !.phase = "gone"]
    /\ run' = AbortRef
    /\ UNCHANGED <<saved, upload, aborting, asset, faults, picks, early>>


-----------------------------------------------------------------------------
(* Step 1: the asset.                                                      *)

Created(r) ==
    LET a == Len(asset) + 1
        rr == [run[r] EXCEPT !.asset = a]
    IN  /\ run[r].pc = "create"
        /\ asset' = Append(asset, [status |-> "created", url |-> FALSE, object |-> Empty])
        /\ run' = [run EXCEPT ![r] = Step2(rr)]
        /\ page' = [Show(Step2Phase(rr)) EXCEPT !.asset = a]
        /\ saved' = Dropped(rr)
        /\ UNCHANGED <<upload, aborting, faults, picks, early>>

\* Every call of a run that can fail without an effect.
Calls == {"create", "presign", "send", "confirm", "open", "complete", "import", "process"}
CallFails(r) ==
    /\ run[r].pc \in Calls /\ Fault
    /\ \/ Throw(r, "error")
       \/ Throw(r, "abort") /\ run[r].pc # "send"
    /\ UNCHANGED <<saved, upload, aborting, asset, picks, early>>

\* A single PUT is under way and the run is aborted.
SendAborted(r) ==
    /\ run[r].pc = "send" /\ run[r].aborted
    /\ Throw(r, "abort")
    /\ UNCHANGED <<saved, upload, aborting, asset, faults, picks, early>>

Goto(r, from, to) == run[r].pc = from /\ run' = [run EXCEPT ![r].pc = to]

-----------------------------------------------------------------------------
(* Step 2, a small file: a presigned URL, one PUT, a confirmation.         *)

Presigned(r) ==
    /\ Goto(r, "presign", "send")
    /\ UNCHANGED <<page, saved, upload, aborting, asset, faults, picks, early>>

Sent(r) ==
    /\ Goto(r, "send", "confirm") /\ ~run[r].aborted
    /\ asset' = [asset EXCEPT ![run[r].asset].object = Whole(run[r].file)]
    /\ UNCHANGED <<page, saved, upload, aborting, faults, picks, early>>

Promoted(a) == [asset EXCEPT ![a].status = IF @ = "created" THEN "uploaded" ELSE @]

Confirmed(r) ==
    /\ Goto(r, "confirm", "process")
    /\ asset' = Promoted(run[r].asset)
    /\ page' = Show("processing")
    /\ UNCHANGED <<saved, upload, aborting, faults, picks, early>>

\* Step 2, an address: POST import sets the source whatever the status.
Imported(r) ==
    /\ Goto(r, "import", "process")
    /\ asset' = [asset EXCEPT ![run[r].asset].status = "uploaded", ![run[r].asset].url = TRUE]
    /\ page' = Show("processing")
    /\ UNCHANGED <<saved, upload, aborting, faults, picks, early>>

-----------------------------------------------------------------------------
(* Step 2, any other file: a multipart upload.                             *)

Opened(r) ==
    LET id == Len(upload) + 1
    IN  /\ run[r].pc = "open"
        /\ upload' = Append(upload, [state |-> "open", parts |-> Empty])
        /\ saved' = [saved EXCEPT ![run[r].asset] = [id |-> id, file |-> run[r].file, parts |-> Empty]]
        /\ run' = [run EXCEPT ![r] = Spawn([@ EXCEPT !.id = id])]
        /\ UNCHANGED <<page, aborting, asset, faults, picks, early>>

Worker(r, w) == run[r].pool[w]
At(r, w, pc) == Worker(r, w).pc = pc
Becomes(r, w, pc) == run' = [run EXCEPT ![r].pool[w].pc = pc]

\* Promise.all is rejected by the first worker that throws; the other workers
\* run on, and what they throw later nobody hears.
WorkerThrows(r, w, how) ==
    LET stopped == [run[r] EXCEPT !.pool[w] = Rest]
    IN  IF run[r].pc = "parts"
        THEN run' = [run EXCEPT ![r] = Over(stopped)] /\ page' = Caught(how)
        ELSE run' = [run EXCEPT ![r] = Over(stopped)] /\ UNCHANGED page

Threw(r, w) ==
    /\ At(r, w, "throw")
    /\ WorkerThrows(r, w, "abort")
    /\ UNCHANGED <<saved, upload, aborting, asset, faults, picks, early>>

\* An attempt has failed: the next one after a delay, the last one for good.
Attempt(r, w) ==
    IF Worker(r, w).tries < Attempts
    THEN Becomes(r, w, "wait") /\ UNCHANGED page
    ELSE WorkerThrows(r, w, "error")

\* persistParts: what the run knows of replaces what was stored.
Persisted(rr) == [saved EXCEPT ![rr.asset] = [id |-> rr.id, file |-> rr.file, parts |-> rr.etags]]

\* Mistake: the part is recorded when its URL is there, before it is sent.
PartUrlEager(r, w) ==
    LET rr == [run[r] EXCEPT !.etags[Worker(r, w).part] = run[r].file,
                             !.pool[w].pc = "put"]
    IN  /\ At(r, w, "url") /\ ~run[r].aborted
        /\ saved' = Persisted(rr)
        /\ run' = [run EXCEPT ![r] = rr]
        /\ UNCHANGED <<page, upload, aborting, asset, faults, picks, early>>

\* POST part-url answers; putBlob does not start for an aborted run.
PartUrl(r, w) ==
    /\ At(r, w, "url")
    /\ IF run[r].aborted THEN WorkerThrows(r, w, "abort")
       ELSE Becomes(r, w, "put") /\ UNCHANGED page
    /\ UNCHANGED <<saved, upload, aborting, asset, faults, picks, early>>

\* ... or fails. Out of time is an AbortError: the catch block rethrows it.
PartUrlFails(r, w) ==
    /\ At(r, w, "url") /\ Fault
    /\ \/ Attempt(r, w) /\ UNCHANGED early
       \/ WorkerThrows(r, w, "abort") /\ early' = (early \/ ~run[r].aborted)
    /\ UNCHANGED <<saved, upload, aborting, asset, picks>>

\* The part arrives at an open upload ...
PartStored(r, w) ==
    /\ At(r, w, "put") /\ upload[run[r].id].state = "open"
    /\ upload' = [upload EXCEPT ![run[r].id].parts[Worker(r, w).part] = run[r].file]
    /\ Becomes(r, w, "stored")
    /\ UNCHANGED <<page, saved, aborting, asset, faults, picks, early>>

\* ... or is refused by one that is no more.
PartRefused(r, w) ==
    /\ At(r, w, "put") /\ upload[run[r].id].state # "open" /\ Attempt(r, w)
    /\ UNCHANGED <<saved, upload, aborting, asset, faults, picks, early>>

PartLost(r, w) ==
    /\ Worker(r, w).pc \in {"put", "stored"} /\ Fault /\ Attempt(r, w)
    /\ UNCHANGED <<saved, upload, aborting, asset, picks, early>>

\* The PUT is answered: etags and session are written, by a run that is over
\* as by one that is not, and the worker goes on to its next part.
PartDone(r, w) ==
    LET rr == [run[r] EXCEPT !.etags[Worker(r, w).part] = run[r].file]
    IN  /\ At(r, w, "stored") /\ ~run[r].aborted
        /\ saved' = Persisted(rr)
        /\ run' = [run EXCEPT ![r] = Take(rr, w)]
        /\ UNCHANGED <<page, upload, aborting, asset, faults, picks, early>>

\* The delay is over, or cut short by the abort.
Waited(r, w) ==
    /\ At(r, w, "wait")
    /\ run' = [run EXCEPT ![r].pool[w] =
                 [pc |-> "url", part |-> Worker(r, w).part, tries |-> Worker(r, w).tries + 1]]
    /\ UNCHANGED <<page, saved, upload, aborting, asset, faults, picks, early>>

Interrupted(r, w) ==
    /\ Worker(r, w).pc \in {"put", "stored", "wait"} /\ run[r].aborted
    /\ WorkerThrows(r, w, "abort")
    /\ UNCHANGED <<saved, upload, aborting, asset, faults, picks, early>>

\* Every worker has returned: with every part, POST complete.
Joined(r) ==
    /\ run[r].pc = "parts"
    /\ \A w \in Pool : Worker(r, w).pc \in {"rest", "return"}
    /\ IF \A p \in Parts : run[r].etags[p] # NoFile
       THEN Goto(r, "parts", "complete") /\ UNCHANGED page
       ELSE Throw(r, "error")
    /\ UNCHANGED <<saved, upload, aborting, asset, faults, picks, early>>

-----------------------------------------------------------------------------
(* The end of a multipart upload.                                          *)

\* S3 assembles the parts the run lists if they are the ones it has.
Assembled(r) ==
    LET id == run[r].id
    IN  /\ run[r].pc = "complete"
        /\ upload[id].state = "open" /\ upload[id].parts = run[r].etags
        /\ upload' = [upload EXCEPT ![id].state = "done"]
        /\ asset' = [Promoted(run[r].asset) EXCEPT ![run[r].asset].object = upload[id].parts]
        /\ run' = [run EXCEPT ![r].pc = "assembled"]
        /\ UNCHANGED <<page, saved, aborting, faults, picks, early>>

\* 400: "Could not finish the upload - please retry". The session is kept.
CompleteRefused(r) ==
    /\ run[r].pc = "complete"
    /\ upload[run[r].id].state # "open" \/ upload[run[r].id].parts # run[r].etags
    /\ Throw(r, "error")
    /\ UNCHANGED <<saved, upload, aborting, asset, faults, picks, early>>

CompleteAnswered(r) ==
    /\ Goto(r, "assembled", "process")
    /\ saved' = [saved EXCEPT ![run[r].asset] = NoSession]
    /\ page' = Show("processing")
    /\ UNCHANGED <<upload, aborting, asset, faults, picks, early>>

\* The abort request of a cancelled upload arrives, or is lost.
AbortArrives(id) ==
    /\ id \in aborting /\ aborting' = aborting \ {id}
    /\ upload' = IF upload[id].state = "open"
                 THEN [upload EXCEPT ![id] = [state |-> "dropped", parts |-> Empty]] ELSE upload
    /\ UNCHANGED <<page, run, saved, asset, faults, picks, early>>

AbortLost(id) ==
    /\ id \in aborting /\ aborting' = aborting \ {id} /\ Fault
    /\ UNCHANGED <<page, run, saved, upload, asset, picks, early>>

-----------------------------------------------------------------------------
(* Step 3: processing.                                                     *)

Queued(r) ==
    /\ run[r].pc = "process" /\ asset[run[r].asset].status = "uploaded"
    /\ asset' = [asset EXCEPT ![run[r].asset].status = "queued"]
    /\ run' = [run EXCEPT ![r].pc = "queued"]
    /\ UNCHANGED <<page, saved, upload, aborting, faults, picks, early>>

\* 409 for an asset that is queued already.
ProcessRefused(r) ==
    /\ run[r].pc = "process" /\ asset[run[r].asset].status # "uploaded"
    /\ Throw(r, "error")
    /\ UNCHANGED <<saved, upload, aborting, asset, faults, picks, early>>

\* The page is left for the video's own.
ProcessAnswered(r) ==
    /\ run[r].pc = "queued"
    /\ run' = [run EXCEPT ![r] = Over(@)]
    /\ page' = [Show("done") EXCEPT !.abort = 0]
    /\ UNCHANGED <<saved, upload, aborting, asset, faults, picks, early>>

\* The answer of POST complete or POST process is lost: its effect stays.
AnswerLost(r) ==
    /\ run[r].pc \in {"assembled", "queued"} /\ Fault
    /\ \E how \in {"error", "abort"} : Throw(r, how)
    /\ UNCHANGED <<saved, upload, aborting, asset, picks, early>>

-----------------------------------------------------------------------------
WorkerStep(r, w) ==
    \/ Threw(r, w) \/ PartUrl(r, w) \/ PartUrlFails(r, w)
    \/ PartStored(r, w) \/ PartRefused(r, w) \/ PartLost(r, w) \/ PartDone(r, w)
    \/ Waited(r, w) \/ Interrupted(r, w)

RunStep(r) ==
    \/ Created(r) \/ CallFails(r) \/ SendAborted(r)
    \/ Presigned(r) \/ Sent(r) \/ Confirmed(r) \/ Imported(r)
    \/ Opened(r) \/ Joined(r) \/ Assembled(r) \/ CompleteRefused(r) \/ CompleteAnswered(r)
    \/ Queued(r) \/ ProcessRefused(r) \/ ProcessAnswered(r) \/ AnswerLost(r)
    \/ \E w \in Pool : WorkerStep(r, w)

UserStep ==
    \/ \E tab \in {"upload", "import"} : PickTab(tab)
    \/ \E f \in Files : Select(f)
    \/ Start \/ Cancel \/ Leave

Next ==
    \/ UserStep
    \/ \E r \in 1 .. Len(run) : RunStep(r)
    \/ \E id \in aborting : AbortArrives(id) \/ AbortLost(id)

Spec == Init /\ [][Next]_vars

\* Every call ends: lib/api.ts has a time limit, the browser ends a PUT. The
\* user owes nothing.
FairSpec ==
    /\ Spec
    /\ \A r \in RunIds : WF_vars(r <= Len(run) /\ RunStep(r))

-----------------------------------------------------------------------------
RunType ==
    [pc : Calls \cup {"parts", "assembled", "queued", "over"}, file : Content,
     tab : {"upload", "import"}, asset : 0 .. MaxRuns, id : 0 .. MaxRuns,
     etags : [Parts -> Content], queue : SUBSET Parts, aborted : BOOLEAN,
     pool : [Pool -> [pc : {"rest", "return", "throw", "url", "put", "stored", "wait"},
                      part : {0} \cup Parts, tries : 0 .. Attempts]]]

\* Every variable has its type; no part is tried more often than it may be,
\* and no two workers of a run have the same part.
TypeOK ==
    /\ page \in [phase : Phases, tab : {"upload", "import"}, file : Content,
                 asset : 0 .. Len(asset), abort : 0 .. Len(run)]
    /\ \A r \in 1 .. Len(run) : run[r] \in RunType
    /\ \A a \in RunIds : saved[a] \in [id : 0 .. Len(upload), file : Content, parts : [Parts -> Content]]
    /\ \A u \in 1 .. Len(upload) : upload[u] \in
            [state : {"open", "done", "dropped"}, parts : [Parts -> Content]]
    /\ aborting \subseteq 1 .. Len(upload)
    /\ \A a \in 1 .. Len(asset) : asset[a] \in
            [status : {"created", "uploaded", "queued"}, url : BOOLEAN, object : [Parts -> Content]]
    /\ faults \in 0 .. MaxFaults /\ picks \in 0 .. MaxPicks /\ early \in BOOLEAN
    /\ \A r \in 1 .. Len(run) : \A v, w \in Pool :
            v # w /\ Worker(r, v).part # 0 => Worker(r, v).part # Worker(r, w).part

\* lib/upload.ts resumes what was sent of "this" file, and completes a list of
\* ETags it was given over several runs: whoever ran, the source object of an
\* asset is one file from end to end, and an asset that says it is uploaded,
\* or is queued for encoding, has one (or an address to fetch it from).
WholeFile ==
    \A a \in 1 .. Len(asset) :
        /\ asset[a].object \in {Empty} \cup {Whole(f) : f \in Files}
        /\ asset[a].status # "created" => asset[a].url \/ asset[a].object # Empty

\* What a retry will not send again is there: a part that the stored session
\* lists as done is in storage, under that upload and with that file's bytes,
\* as long as the upload is open, even where the workers of a failed run and
\* those of its retry both write the session.
ResumeSkipsOnlyStored ==
    \A a \in RunIds :
        saved[a].id # 0 /\ upload[saved[a].id].state = "open" =>
            \A p \in Parts : saved[a].parts[p] # NoFile =>
                saved[a].parts[p] = saved[a].file
                /\ upload[saved[a].id].parts[p] = saved[a].file

\* A file is stored whole, whatever part of it an earlier run has sent.
StoredWhole == WholeFile /\ ResumeSkipsOnlyStored

\* While the page says that it works there is a run that has yet to report:
\* no spinner, with every control disabled, is left behind by a run that is
\* over, whichever of two runs was the last to set the phase.
SomeoneAtWork ==
    page.phase \in Working => \E r \in 1 .. Len(run) : run[r].pc # "over"

\* docs/api-reference.md: the dashboard "retries each part up to 3 times". No
\* part is given up with attempts left unless the user cancelled. The code
\* breaks it: a part-url call that runs out of time is taken for a cancel.
PartsRetried == ~early

=============================================================================
