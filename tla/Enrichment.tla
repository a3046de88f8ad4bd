----------------------------- MODULE Enrichment -----------------------------
(***************************************************************************)
(* The AI pipeline: the ai_jobs rows that a worker writes after it marked  *)
(* an asset ready (apps/worker/src/index.ts runPostReadyPhase,             *)
(* apps/worker/src/ai/process.ts), and the reconciliation of a booting     *)
(* worker that settles the rows of a worker that died.                     *)
(*                                                                         *)
(* The transcode itself is one step here (TranscodeWorker has its detail): *)
(* this module needs several assets, because the reconciliation looks at   *)
(* all of them at once.                                                    *)
(***************************************************************************)
EXTENDS Naturals, FiniteSets

CONSTANTS
    Assets,       \* videos, all submitted at the start
    Workers,      \* worker processes
    Runs,         \* ids for ai_jobs rows; bounds the runs
    Faults,       \* kinds of fault that may happen
    FaultBudget,  \* how many
    None          \* no asset, no run, no worker

(* transcode  the transcode fails for good                                 *)
(* ai         extraction, Whisper, the LLM or a statement of the run fails *)
(* settle     the statement that records the outcome of the run fails too  *)
(* upload     the AI outputs cannot be uploaded                            *)
(* crash      the worker process dies                                      *)
FaultKinds == {"transcode", "ai", "settle", "upload", "crash"}

ASSUME EnrichmentAssumption ==
    /\ FaultBudget \in Nat /\ Faults \subseteq FaultKinds
    /\ None \notin Assets \cup Workers \cup Runs

VARIABLES
    status,  \* assets.status, by asset
    job,     \* the transcode job, by asset: its state and its owner
    ai,      \* the ai_jobs rows, by id: asset, status and the three step columns
    wkr,     \* the workers
    unwritten, \* history: runs whose outcome the database refused
    budget   \* faults still to come

vars == <<status, job, ai, wkr, unwritten, budget>>

Steps == {"transcription", "subtitles", "chapters"}
StepStatus == {"pending", "processing", "completed", "failed", "skipped"}
RunStatus == {"queued", "processing", "completed", "failed", "skipped"}
RunningPc == {"transcode", "begin", "start", "extract", "transcribe",
              "subtitles", "writeVtt", "chapters", "askLlm", "done", "upload",
              "ack"}
BootPc == {"down", "scan", "flag", "sweepRead", "sweepWrite"}

NoRow == [asset |-> None, status |-> "queued", step |-> [s \in Steps |-> "pending"]]
Row == [asset : Assets \cup {None}, status : RunStatus, step : [Steps -> StepStatus]]
Worker == [pc : RunningPc \cup BootPc \cup {"idle"}, asset : Assets \cup {None},
           run : Runs \cup {None}, stuck : SUBSET Assets, orphans : SUBSET Runs]
At(pc) == [pc |-> pc, asset |-> None, run |-> None, stuck |-> {}, orphans |-> {}]
NoJob == [state |-> "none", owner |-> None]
Job == [state : {"none", "waiting", "active", "failed"}, owner : Workers \cup {None}]

InFlight == {"queued", "processing"}

\* Type correctness: the rows, jobs and workers are ones the code can produce.
TypeOK ==
    /\ status \in [Assets -> InFlight \cup {"ready", "error"}]
    /\ job \in [Assets -> Job]
    /\ ai \in [Runs -> Row]
    /\ wkr \in [Workers -> Worker]
    /\ unwritten \subseteq Runs /\ budget \in 0..FaultBudget

\* Every video has been submitted; no worker is up yet.
Init ==
    /\ status = [a \in Assets |-> "queued"]
    /\ job = [a \in Assets |-> [NoJob EXCEPT !.state = "waiting"]]
    /\ ai = [x \in Runs |-> NoRow]
    /\ wkr = [w \in Workers |-> At("down")]
    /\ unwritten = {} /\ budget = FaultBudget

Fault(f) == f \in Faults /\ budget > 0 /\ budget' = budget - 1
NoFault == budget' = budget

Goto(w, from, to) == wkr[w].pc = from /\ wkr' = [wkr EXCEPT ![w].pc = to]
Running(w) == wkr[w].pc \in RunningPc
Unused == {x \in Runs : ai[x].asset = None}
SetRun(w, s) == ai' = [ai EXCEPT ![wkr[w].run].status = s]
SetStep(w, step, s) == ai' = [ai EXCEPT ![wkr[w].run].step[step] = s]

\* Mistake (as released before 1.0.3): the step columns are forgotten.
FailedStatusOnly(row) == [row EXCEPT !.status = "failed"]

\* failIfRunning, in the statement that fails the run.
Failed(row) ==
    [row EXCEPT !.status = "failed",
                !.step = [s \in Steps |->
                    IF row.step[s] = "processing" THEN "failed" ELSE row.step[s]]]

-----------------------------------------------------------------------------
(* The transcode around the run.                                           *)

\* A ready asset is skipped: its job is only acknowledged.
Take(w, a) ==
    /\ wkr[w].pc = "idle" /\ job[a].state = "waiting"
    /\ job' = [job EXCEPT ![a] = [state |-> "active", owner |-> w]]
    /\ wkr' = [wkr EXCEPT ![w].asset = a,
                   ![w].pc = IF status[a] = "ready" THEN "ack" ELSE "transcode"]
    /\ status' = [status EXCEPT ![a] = IF @ = "ready" THEN @ ELSE "processing"]
    /\ UNCHANGED <<ai, budget, unwritten>>

TranscodeDone(w) ==
    /\ wkr[w].pc = "transcode"
    /\ LET a == wkr[w].asset IN
       \/ /\ NoFault /\ Goto(w, "transcode", "begin")
          /\ status' = [status EXCEPT ![a] = "ready"]
          /\ UNCHANGED job
       \/ /\ Fault("transcode")
          /\ status' = [status EXCEPT ![a] = "error"]
          /\ job' = [job EXCEPT ![a] = [state |-> "failed", owner |-> None]]
          /\ wkr' = [wkr EXCEPT ![w] = At("idle")]
    /\ UNCHANGED <<ai, unwritten>>

Ack(w) ==
    /\ wkr[w].pc = "ack"
    /\ job' = [job EXCEPT ![wkr[w].asset] =
                   IF @ = [state |-> "active", owner |-> w] THEN NoJob ELSE @]
    /\ wkr' = [wkr EXCEPT ![w] = At("idle")]
    /\ UNCHANGED <<status, ai, budget, unwritten>>

\* POST process on a finished or failed video, to run its AI again.
Reprocess(a) ==
    /\ status[a] \in {"ready", "error"} /\ job[a].state \in {"none", "failed"}
    /\ Unused # {}
    /\ status' = [status EXCEPT ![a] = "queued"]
    /\ job' = [job EXCEPT ![a] = [state |-> "waiting", owner |-> None]]
    /\ UNCHANGED <<ai, wkr, budget, unwritten>>

-----------------------------------------------------------------------------
(* runPostReadyPhase and processAi.                                        *)

\* No provider configured; the monthly AI quota used up; or a run is inserted.
BeginRun(w) ==
    /\ wkr[w].pc = "begin"
    /\ \/ Goto(w, "begin", "ack") /\ UNCHANGED ai
       \/ \E x \in Unused, s \in {"skipped", "queued"} :
            /\ ai' = [ai EXCEPT ![x].asset = wkr[w].asset, ![x].status = s]
            /\ wkr' = [wkr EXCEPT ![w].run = x,
                           ![w].pc = IF s = "skipped" THEN "ack" ELSE "start"]
    /\ UNCHANGED <<status, job, budget, unwritten>>

\* The database takes the statement that records an outcome, or refuses it.
Written == NoFault /\ UNCHANGED unwritten
Refused(w) ==
    Fault("settle") /\ unwritten' = unwritten \cup {wkr[w].run} /\ UNCHANGED ai

\* Transcription switched off, or no audio stream: skipped, and where that cannot
\* be written the error ends the phase and the row stays. Else the run starts.
StartRun(w) ==
    /\ \/ Goto(w, "start", "ack") /\ Written /\ SetRun(w, "skipped")
       \/ Goto(w, "start", "ack") /\ Refused(w)
       \/ Goto(w, "start", "extract") /\ Written /\ SetRun(w, "processing")
    /\ UNCHANGED <<status, job>>

Transcribe(w) ==
    /\ \/ Goto(w, "extract", "transcribe")
          /\ SetStep(w, "transcription", "processing")
       \/ Goto(w, "transcribe", "subtitles")
          /\ SetStep(w, "transcription", "completed")
    /\ UNCHANGED <<status, job, budget, unwritten>>

Subtitles(w) ==
    /\ \/ Goto(w, "subtitles", "chapters") /\ SetStep(w, "subtitles", "skipped")
       \/ Goto(w, "subtitles", "writeVtt") /\ SetStep(w, "subtitles", "processing")
       \/ Goto(w, "writeVtt", "chapters") /\ SetStep(w, "subtitles", "completed")
    /\ UNCHANGED <<status, job, budget, unwritten>>

Chapters(w) ==
    /\ \/ Goto(w, "chapters", "done") /\ SetStep(w, "chapters", "skipped")
       \/ Goto(w, "chapters", "askLlm") /\ SetStep(w, "chapters", "processing")
       \/ Goto(w, "askLlm", "done") /\ SetStep(w, "chapters", "completed")
    /\ UNCHANGED <<status, job, budget, unwritten>>

\* Mistake: the last statement is forgotten.
FinishRunSilent(w) ==
    /\ Goto(w, "done", "upload")
    /\ UNCHANGED <<status, job, ai, budget, unwritten>>

\* The row is completed before its outputs are uploaded.
FinishRun(w) ==
    /\ Goto(w, "done", "upload") /\ SetRun(w, "completed")
    /\ UNCHANGED <<status, job, budget, unwritten>>

\* The catch block: one statement settles the run and the step in flight; its own
\* failure is swallowed, and the worker goes on with the row as it was.
FailRun(w) ==
    /\ wkr[w].pc \in {"start", "extract", "transcribe", "subtitles", "writeVtt",
                      "chapters", "askLlm", "done"}
    /\ Goto(w, wkr[w].pc, "upload")
    /\ \/ /\ Fault("ai") /\ UNCHANGED unwritten
          /\ ai' = [ai EXCEPT ![wkr[w].run] = Failed(@)]
       \/ Refused(w)
    /\ UNCHANGED <<status, job>>

\* Uploading the outputs, storage and usage: whatever fails is only logged.
UploadOutputs(w) ==
    /\ Goto(w, "upload", "ack")
    /\ NoFault \/ Fault("upload")
    /\ UNCHANGED <<status, job, ai, unwritten>>

-----------------------------------------------------------------------------
(* A worker dies; BullMQ re-delivers its job; a worker boots.              *)

Crash(w) ==
    /\ wkr[w].pc # "down" /\ Fault("crash")
    /\ wkr' = [wkr EXCEPT ![w] = At("down")]
    /\ UNCHANGED <<status, job, ai, unwritten>>

\* The stalled check of a worker that is up.
Redeliver(a) ==
    /\ job[a].state = "active" /\ ~Running(job[a].owner)
    /\ \E w \in Workers : wkr[w].pc \notin BootPc
    /\ job' = [job EXCEPT ![a] = [state |-> "waiting", owner |-> None]]
    /\ UNCHANGED <<status, ai, wkr, budget, unwritten>>

StartProcess(w) ==
    /\ Goto(w, "down", "scan")
    /\ UNCHANGED <<status, job, ai, budget, unwritten>>

\* reconcileInterruptedAssets: with nothing in flight it returns at once.
Scan(w) ==
    /\ wkr[w].pc = "scan"
    /\ LET stuck == {a \in Assets : status[a] \in InFlight} IN
       wkr' = [wkr EXCEPT ![w].stuck = stuck,
                          ![w].pc = IF stuck = {} THEN "idle" ELSE "flag"]
    /\ UNCHANGED <<status, job, ai, budget, unwritten>>

\* Each asset in flight without a live job becomes an error.
Flag(w) ==
    /\ wkr[w].pc = "flag"
    /\ \/ \E a \in wkr[w].stuck :
            /\ wkr' = [wkr EXCEPT ![w].stuck = @ \ {a}]
            /\ status' = IF job[a].state \notin {"waiting", "active"}
                            /\ status[a] \in InFlight
                         THEN [status EXCEPT ![a] = "error"] ELSE status
       \/ wkr[w].stuck = {} /\ Goto(w, "flag", "sweepRead") /\ UNCHANGED status
    /\ UNCHANGED <<job, ai, budget, unwritten>>

\* reconcileInterruptedAiJobs: runs in flight on assets that are not ...
Unfinished == {x \in Runs : ai[x].asset # None /\ ai[x].status \in InFlight}

\* Mistake: the ids collected are those of the assets.
SweepReadAssets(w) ==
    /\ wkr[w].pc = "sweepRead"
    /\ LET orphans == {x \in Unfinished : status[ai[x].asset] \notin InFlight} IN
       wkr' = [wkr EXCEPT ![w].orphans = {ai[x].asset : x \in orphans},
                          ![w].pc = IF orphans = {} THEN "idle" ELSE "sweepWrite"]
    /\ UNCHANGED <<status, job, ai, budget, unwritten>>

SweepRead(w) ==
    /\ wkr[w].pc = "sweepRead"
    /\ LET orphans == {x \in Unfinished : status[ai[x].asset] \notin InFlight} IN
       wkr' = [wkr EXCEPT ![w].orphans = orphans,
                          ![w].pc = IF orphans = {} THEN "idle" ELSE "sweepWrite"]
    /\ UNCHANGED <<status, job, ai, budget, unwritten>>

\* ... are failed by id, in a second statement.
SweepWrite(w) ==
    /\ wkr[w].pc = "sweepWrite"
    /\ ai' = [x \in Runs |-> IF x \in wkr[w].orphans THEN Failed(ai[x]) ELSE ai[x]]
    /\ wkr' = [wkr EXCEPT ![w] = At("idle")]
    /\ UNCHANGED <<status, job, budget, unwritten>>

-----------------------------------------------------------------------------
Boot(w) == StartProcess(w) \/ Scan(w) \/ Flag(w) \/ SweepRead(w) \/ SweepWrite(w)
Work(w) ==
    \/ \E a \in Assets : Take(w, a)
    \/ TranscodeDone(w) \/ Ack(w)
    \/ BeginRun(w) \/ StartRun(w) \/ Transcribe(w) \/ Subtitles(w) \/ Chapters(w)
    \/ FinishRun(w) \/ FailRun(w) \/ UploadOutputs(w)

Next ==
    \/ \E w \in Workers : Work(w) \/ Boot(w) \/ Crash(w)
    \/ \E a \in Assets : Reprocess(a) \/ Redeliver(a)

Spec == Init /\ [][Next]_vars

\* Processes start, and start again after a crash; a worker goes on with what it
\* is doing; BullMQ re-delivers. Nobody need ever ask for a second run.
FairSpec ==
    /\ Spec
    /\ \A w \in Workers : WF_vars(Work(w)) /\ WF_vars(Boot(w))
    /\ \A a \in Assets : WF_vars(Redeliver(a))

-----------------------------------------------------------------------------
Executing(w, x) == Running(w) /\ wkr[w].run = x

\* process.ts, on failIfRunning: once a run is settled no step column is left at
\* "processing", which is what the dashboard draws a spinner for.
NoSpinnerOnSettledRun ==
    \A x \in Runs : ai[x].status \notin InFlight =>
        \A s \in Steps : ai[x].step[s] # "processing"

\* Not kept by the code once two workers share a queue (README, section on
\* disagreements): a run is advanced or settled by the worker that executes it,
\* and by nobody else as long as that worker is alive.
LiveRunSpared ==
    [][\A w \in Workers, x \in Runs :
        Executing(w, x) /\ ai'[x] # ai[x] => wkr'[w] # wkr[w]]_vars

\* Not kept by the code either: at rest (every process up and idle, no job to
\* take) no run is left in flight.
AtRest ==
    /\ \A w \in Workers : wkr[w].pc = "idle"
    /\ \A a \in Assets : job[a].state \notin {"waiting", "active"}
NoOrphanAtRest == AtRest => Unfinished = {}

\* A run that a worker executes is settled, unless that worker dies first or the
\* database refuses the very statement that records the outcome (process.ts
\* swallows that, and the row waits for the next boot): nothing the AI providers,
\* the storage or the rest of the run do can leave it in flight.
RunSettles ==
    \A w \in Workers, x \in Runs :
        Executing(w, x) /\ x \in Unfinished ~>
            x \notin Unfinished \/ wkr[w].pc = "down" \/ x \in unwritten

=============================================================================
