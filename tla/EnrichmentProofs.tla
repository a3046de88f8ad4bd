-------------------------- MODULE EnrichmentProofs --------------------------
(***************************************************************************)
(* What the dashboard draws of an AI run, where one worker serves the      *)
(* queue, which is the default installation (docker-compose.yml): for any  *)
(* number of videos, runs and faults, its deaths included, a settled run   *)
(* has no step in progress.                                                *)
(*                                                                         *)
(*   EnrichmentTyped  the types                                            *)
(*   SpinnersStop     NoSpinnerOnSettledRun, by RunsKept                   *)
(*                                                                         *)
(* With a second worker the statement is false: it may settle, at its      *)
(* boot, a run that the first one is about to give its next step.          *)
(***************************************************************************)
EXTENDS Enrichment, TLAPS

OneWorker == \A v, w \in Workers : v = w

\* The awaits of a run, by what has been written of it before: it is in the
\* table but has not begun, it has begun, or one of its steps has.
Begun == {"extract", "transcribe", "subtitles", "writeVtt", "chapters", "askLlm", "done"}
InRun == Begun \cup {"start"}
Spinner == [transcribe |-> "transcription", writeVtt |-> "subtitles", askLlm |-> "chapters"]

\* What a worker x may rest on: its run is in the table and in flight, and the
\* one step in progress, if any, is the one it is at.
Executes(x, table) ==
    /\ x.pc \in RunningPc => x.asset \in Assets
    /\ x.pc \in InRun =>
           /\ x.run \in Runs /\ table[x.run].asset # None
           /\ table[x.run].status \in InFlight
           /\ \A s \in Steps : table[x.run].step[s] = "processing" =>
                  x.pc \in DOMAIN Spinner /\ s = Spinner[x.pc]
    /\ x.pc = "upload" => x.run \in Runs

\* A row without a run, or with a settled one, shows no step in progress.
Settled(r) == r.asset = None \/ r.status \notin InFlight
Still(r) == Settled(r) => \A s \in Steps : r.step[s] # "processing"

RunsKept ==
    /\ \A x \in Runs : Still(ai[x])
    /\ \A w \in Workers : Executes(wkr[w], ai)

-----------------------------------------------------------------------------
(* Types.                                                                  *)

\* A worker, and the row of its run, move.
LEMMA WorkerMoves ==
    ASSUME TypeOK, NEW w \in Workers, NEW x \in Worker, wkr' = [wkr EXCEPT ![w] = x]
    PROVE  wkr' \in [Workers -> Worker] /\ wkr'[w] = x
BY DEF TypeOK

LEMMA GotoMoves ==
    ASSUME TypeOK, NEW w \in Workers, NEW from,
           NEW to \in RunningPc \cup BootPc \cup {"idle"}, Goto(w, from, to)
    PROVE  /\ wkr' \in [Workers -> Worker]
           /\ wkr'[w] = [wkr[w] EXCEPT !.pc = to]
           /\ wkr'[w].pc = to /\ wkr'[w].run = wkr[w].run /\ wkr'[w].asset = wkr[w].asset
<1> DEFINE x == [wkr[w] EXCEPT !.pc = to]
<1>1. wkr[w] \in Worker
    BY DEF TypeOK
<1>2. x \in Worker /\ x.pc = to /\ x.run = wkr[w].run /\ x.asset = wkr[w].asset
    BY <1>1 DEF Worker
<1>3. wkr' = [wkr EXCEPT ![w] = x]
    BY DEF Goto
<1> QED
    BY <1>2, <1>3, WorkerMoves

LEMMA RowMoves ==
    ASSUME TypeOK, NEW run \in Runs, NEW r \in Row, ai' = [ai EXCEPT ![run] = r]
    PROVE  /\ ai' \in [Runs -> Row]
           /\ \A y \in Runs : ai'[y] = IF y = run THEN r ELSE ai[y]
BY DEF TypeOK

LEMMA StatusMoves ==
    ASSUME TypeOK, NEW w \in Workers, wkr[w].run \in Runs, NEW s \in RunStatus, SetRun(w, s)
    PROVE  /\ ai' \in [Runs -> Row]
           /\ \A y \in Runs : ai'[y] = IF y = wkr[w].run THEN [ai[y] EXCEPT !.status = s]
                                                        ELSE ai[y]
<1> DEFINE r == [ai[wkr[w].run] EXCEPT !.status = s]
<1>1. ai[wkr[w].run] \in Row
    BY DEF TypeOK
<1>2. r \in Row
    BY <1>1 DEF Row
<1>3. ai' = [ai EXCEPT ![wkr[w].run] = r]
    BY DEF SetRun
<1> QED
    BY <1>2, <1>3, RowMoves

LEMMA StepMoves ==
    ASSUME TypeOK, NEW w \in Workers, wkr[w].run \in Runs,
           NEW step \in Steps, NEW s \in StepStatus, SetStep(w, step, s)
    PROVE  /\ ai' \in [Runs -> Row]
           /\ \A y \in Runs : y # wkr[w].run => ai'[y] = ai[y]
           /\ ai'[wkr[w].run].asset = ai[wkr[w].run].asset
           /\ ai'[wkr[w].run].status = ai[wkr[w].run].status
           /\ \A t \in Steps :
                  ai'[wkr[w].run].step[t] = IF t = step THEN s ELSE ai[wkr[w].run].step[t]
<1> DEFINE old == ai[wkr[w].run]
           r == [old EXCEPT !.step = [@ EXCEPT ![step] = s]]
<1>1. old \in Row
    BY DEF TypeOK
<1>2. /\ r \in Row /\ r.asset = old.asset /\ r.status = old.status
      /\ \A t \in Steps : r.step[t] = IF t = step THEN s ELSE old.step[t]
    BY <1>1 DEF Row
<1>3. ai' = [ai EXCEPT ![wkr[w].run] = r]
    BY DEF SetStep
<1> QED
    BY <1>2, <1>3, RowMoves

LEMMA FailedRow ==
    ASSUME NEW r \in Row
    PROVE  Failed(r) \in Row /\ Still(Failed(r)) /\ Failed(r).asset = r.asset
BY DEF Failed, Row, Still, RunStatus, StepStatus

LEMMA AtTyped ==
    ASSUME NEW pc \in RunningPc \cup BootPc \cup {"idle"}
    PROVE  At(pc) \in Worker /\ At(pc).pc = pc
BY DEF At, Worker

LEMMA FaultTyped ==
    ASSUME EnrichmentAssumption, TypeOK, NEW f, Fault(f) \/ NoFault
    PROVE  budget' \in 0 .. FaultBudget
BY DEF EnrichmentAssumption, TypeOK, Fault, NoFault

LEMMA InitKept == EnrichmentAssumption /\ Init => TypeOK /\ RunsKept
<1> SUFFICES ASSUME EnrichmentAssumption, Init PROVE TypeOK /\ RunsKept
    OBVIOUS
<1>1. wkr \in [Workers -> Worker] /\ \A w \in Workers : wkr[w].pc = "down"
    BY AtTyped DEF Init, BootPc
<1>2. ai \in [Runs -> Row] /\ \A x \in Runs : ai[x] = NoRow
    BY DEF Init, NoRow, Row, RunStatus, StepStatus
<1>3. status \in [Assets -> InFlight \cup {"ready", "error"}] /\ job \in [Assets -> Job]
    BY DEF Init, InFlight, Job, NoJob
<1>4. unwritten \subseteq Runs /\ budget \in 0 .. FaultBudget
    BY DEF Init, EnrichmentAssumption
<1>5. Still(NoRow)
    BY DEF NoRow, Still, Settled
<1> QED
    BY <1>1, <1>2, <1>3, <1>4, <1>5
    DEF TypeOK, RunsKept, Executes, RunningPc, InRun, Begun

-----------------------------------------------------------------------------
(* The worker's steps.                                                     *)

\* Where there is one worker, what holds of the one that moves holds of all.
LEMMA OnlyWorker ==
    ASSUME OneWorker, NEW w \in Workers, Executes(wkr'[w], ai')
    PROVE  \A v \in Workers : Executes(wkr'[v], ai')
BY DEF OneWorker

LEMMA TakeKept ==
    ASSUME TypeOK, RunsKept, OneWorker, NEW w \in Workers, NEW a \in Assets, Take(w, a)
    PROVE  TypeOK' /\ RunsKept'
<1> DEFINE pc == IF status[a] = "ready" THEN "ack" ELSE "transcode"
           x == [wkr[w] EXCEPT !.asset = a, !.pc = pc]
<1>1. wkr[w] \in Worker /\ pc \in {"ack", "transcode"}
    BY DEF TypeOK
<1>2. x \in Worker /\ x.pc \in {"ack", "transcode"} /\ x.asset \in Assets
    BY <1>1 DEF Worker, RunningPc
<1>3. wkr' = [wkr EXCEPT ![w] = x] /\ UNCHANGED <<ai, budget, unwritten>>
    BY DEF Take
<1> HIDE DEF x, pc
<1>4. wkr' \in [Workers -> Worker] /\ wkr'[w] = x
    BY <1>2, <1>3, WorkerMoves
<1>5. Executes(wkr'[w], ai')
    BY <1>2, <1>4 DEF Executes, RunningPc, InRun, Begun
<1>6. job' \in [Assets -> Job] /\ status' \in [Assets -> InFlight \cup {"ready", "error"}]
    BY DEF Take, TypeOK, Job, InFlight
<1> QED
    BY <1>3, <1>4, <1>5, <1>6, OnlyWorker DEF TypeOK, RunsKept

LEMMA TranscodeKept ==
    ASSUME EnrichmentAssumption, TypeOK, RunsKept, OneWorker, NEW w \in Workers, TranscodeDone(w)
    PROVE  TypeOK' /\ RunsKept'
<1>1. ai' = ai /\ unwritten' = unwritten /\ wkr[w].pc = "transcode" /\ wkr[w].asset \in Assets
    BY DEF TranscodeDone, RunsKept, Executes, RunningPc
<1>2. CASE Goto(w, "transcode", "begin") /\ NoFault
            /\ status' = [status EXCEPT ![wkr[w].asset] = "ready"] /\ UNCHANGED job
    <2>1. wkr' \in [Workers -> Worker] /\ wkr'[w].pc = "begin" /\ wkr'[w].asset \in Assets
        BY <1>1, <1>2, GotoMoves DEF RunningPc
    <2>2. Executes(wkr'[w], ai')
        BY <2>1 DEF Executes, InRun, Begun
    <2>3. status' \in [Assets -> InFlight \cup {"ready", "error"}] /\ budget' \in 0 .. FaultBudget
        BY <1>2 DEF TypeOK, NoFault
    <2> QED
        BY <1>1, <1>2, <2>1, <2>2, <2>3, OnlyWorker DEF TypeOK, RunsKept
<1>3. CASE /\ Fault("transcode")
           /\ status' = [status EXCEPT ![wkr[w].asset] = "error"]
           /\ job' = [job EXCEPT ![wkr[w].asset] = [state |-> "failed", owner |-> None]]
           /\ wkr' = [wkr EXCEPT ![w] = At("idle")]
    <2>1. wkr' \in [Workers -> Worker] /\ wkr'[w].pc = "idle"
        BY <1>3, AtTyped, WorkerMoves
    <2>2. Executes(wkr'[w], ai')
        BY <2>1 DEF Executes, RunningPc, InRun, Begun
    <2>3. budget' \in 0 .. FaultBudget
        BY <1>3, FaultTyped
    <2>4. /\ status' \in [Assets -> InFlight \cup {"ready", "error"}]
          /\ job' \in [Assets -> Job]
        BY <1>3 DEF TypeOK, Job
    <2> QED
        BY <1>1, <2>1, <2>2, <2>3, <2>4, OnlyWorker DEF TypeOK, RunsKept
<1> QED
    BY <1>2, <1>3 DEF TranscodeDone

LEMMA AckKept ==
    ASSUME TypeOK, RunsKept, OneWorker, NEW w \in Workers, Ack(w)
    PROVE  TypeOK' /\ RunsKept'
<1>1. UNCHANGED <<status, ai, budget, unwritten>> /\ wkr' = [wkr EXCEPT ![w] = At("idle")]
    BY DEF Ack
<1>2. wkr' \in [Workers -> Worker] /\ wkr'[w].pc = "idle"
    BY <1>1, AtTyped, WorkerMoves
<1>3. Executes(wkr'[w], ai')
    BY <1>2 DEF Executes, RunningPc, InRun, Begun
<1>4. job' \in [Assets -> Job]
    BY DEF Ack, TypeOK, Job, NoJob
<1> QED
    BY <1>1, <1>2, <1>3, <1>4, OnlyWorker DEF TypeOK, RunsKept

\* A new row is still, whether it begins a run or says that it is skipped.
LEMMA BeginKept ==
    ASSUME TypeOK, RunsKept, OneWorker, EnrichmentAssumption, NEW w \in Workers, BeginRun(w)
    PROVE  TypeOK' /\ RunsKept'
<1>1. /\ UNCHANGED <<status, job, budget, unwritten>>
      /\ wkr[w].pc = "begin" /\ wkr[w].asset \in Assets
    BY DEF BeginRun, RunsKept, Executes, RunningPc, Goto
<1>2. CASE Goto(w, "begin", "ack") /\ UNCHANGED ai
    <2>1. wkr' \in [Workers -> Worker] /\ wkr'[w].pc = "ack" /\ wkr'[w].asset \in Assets
        BY <1>1, <1>2, GotoMoves DEF RunningPc
    <2>2. Executes(wkr'[w], ai')
        BY <2>1 DEF Executes, InRun, Begun
    <2> QED
        BY <1>1, <1>2, <2>1, <2>2, OnlyWorker DEF TypeOK, RunsKept
<1>3. ASSUME NEW x \in Unused, NEW s \in {"skipped", "queued"},
             ai' = [ai EXCEPT ![x].asset = wkr[w].asset, ![x].status = s],
             wkr' = [wkr EXCEPT ![w].run = x,
                         ![w].pc = IF s = "skipped" THEN "ack" ELSE "start"]
      PROVE  TypeOK' /\ RunsKept'
    <2> DEFINE pc == IF s = "skipped" THEN "ack" ELSE "start"
               q == [wkr[w] EXCEPT !.run = x, !.pc = pc]
               r == [ai[x] EXCEPT !.asset = wkr[w].asset, !.status = s]
    <2>1. x \in Runs /\ ai[x] \in Row /\ wkr[w] \in Worker /\ ai[x].asset = None
        BY <1>3 DEF Unused, TypeOK
    <2>2. \A t \in Steps : ai[x].step[t] # "processing"
        BY <2>1 DEF RunsKept, Still, Settled
    <2>3. /\ q \in Worker /\ q.asset \in Assets /\ q.run = x
          /\ q.pc = "ack" \/ (q.pc = "start" /\ s = "queued")
        BY <1>1, <1>3, <2>1 DEF Worker, RunningPc
    <2>4. r \in Row /\ r.asset \in Assets /\ r.status = s /\ r.step = ai[x].step
        BY <1>1, <1>3, <2>1 DEF Row, RunStatus
    <2>5. ai' = [ai EXCEPT ![x] = r] /\ wkr' = [wkr EXCEPT ![w] = q]
        BY <1>3, <2>1 DEF TypeOK
    <2> HIDE DEF q, r, pc
    <2>6. /\ ai' \in [Runs -> Row]
          /\ \A y \in Runs : ai'[y] = IF y = x THEN r ELSE ai[y]
        BY <2>1, <2>4, <2>5, RowMoves
    <2>7. wkr' \in [Workers -> Worker] /\ wkr'[w] = q
        BY <2>3, <2>5, WorkerMoves
    <2>8. r.asset # None
        BY <2>4, EnrichmentAssumption DEF EnrichmentAssumption
    <2>9. Executes(wkr'[w], ai')
        <3>1. CASE q.pc = "ack"
            BY <2>3, <2>7, <3>1 DEF Executes, InRun, Begun
        <3>2. CASE q.pc = "start" /\ s = "queued"
            <4>1. ai'[x].asset # None /\ ai'[x].status = "queued" /\ ai'[x].step = ai[x].step
                BY <2>1, <2>4, <2>6, <2>8, <3>2
            <4> QED
                BY <2>1, <2>2, <2>3, <2>7, <3>2, <4>1 DEF Executes, InFlight
        <3> QED
            BY <2>3, <3>1, <3>2
    <2>10. \A y \in Runs : Still(ai'[y])
        BY <2>2, <2>4, <2>6 DEF RunsKept, Still
    <2> QED
        BY <1>1, <2>6, <2>7, <2>9, <2>10, OnlyWorker DEF TypeOK, RunsKept
<1> QED
    BY <1>2, <1>3 DEF BeginRun

\* A statement of the run: it sets the status of the row.
LEMMA StatusKept ==
    ASSUME TypeOK, RunsKept, OneWorker, NEW w \in Workers,
           NEW from \in {"start", "done"}, NEW to \in RunningPc, NEW s \in RunStatus,
           Goto(w, from, to), SetRun(w, s), NoFault, UNCHANGED <<status, job, unwritten>>,
           to \in InRun => to = "extract" /\ s \in InFlight
    PROVE  TypeOK' /\ RunsKept'
<1> DEFINE run == wkr[w].run
<1>1. /\ wkr[w].pc = from /\ run \in Runs /\ ai[run] \in Row /\ ai[run].asset # None
      /\ wkr[w].asset \in Assets
      /\ \A t \in Steps : ai[run].step[t] # "processing"
    BY DEF Goto, RunsKept, Executes, InRun, Begun, Spinner, RunningPc, TypeOK
<1>2. /\ wkr' \in [Workers -> Worker] /\ wkr'[w].pc = to /\ wkr'[w].run = run
      /\ wkr'[w].asset = wkr[w].asset
    BY GotoMoves
<1>3. /\ ai' \in [Runs -> Row]
      /\ \A y \in Runs : ai'[y] = IF y = run THEN [ai[y] EXCEPT !.status = s] ELSE ai[y]
    BY <1>1, StatusMoves
<1>4. ai'[run].asset # None /\ ai'[run].status = s /\ ai'[run].step = ai[run].step
    BY <1>1, <1>3 DEF Row
<1>5. Executes(wkr'[w], ai')
    BY <1>1, <1>2, <1>4 DEF Executes
<1>6. \A y \in Runs : Still(ai'[y])
    BY <1>1, <1>3, <1>4 DEF RunsKept, Still
<1> QED
    BY <1>2, <1>3, <1>5, <1>6, OnlyWorker DEF TypeOK, RunsKept, NoFault

\* The outcome is not written: the row stays what it was, and the worker leaves it.
LEMMA OutcomeLostKept ==
    ASSUME EnrichmentAssumption, TypeOK, RunsKept, OneWorker, NEW w \in Workers,
           wkr[w].pc \in InRun, NEW to \in {"upload", "ack"}, Goto(w, wkr[w].pc, to),
           Refused(w), UNCHANGED <<status, job>>
    PROVE  TypeOK' /\ RunsKept'
<1>1. wkr[w].run \in Runs /\ wkr[w].asset \in Assets
    BY DEF RunsKept, Executes, InRun, Begun, RunningPc
<1>2. /\ wkr' \in [Workers -> Worker] /\ wkr'[w].pc = to /\ wkr'[w].run = wkr[w].run
      /\ wkr'[w].asset = wkr[w].asset
    <2>1. to \in RunningPc \cup BootPc \cup {"idle"}
        BY DEF RunningPc
    <2> QED
        BY <2>1, GotoMoves
<1>3. Executes(wkr'[w], ai')
    BY <1>1, <1>2 DEF Executes, InRun, Begun
<1>4. budget' \in 0 .. FaultBudget /\ unwritten' \subseteq Runs /\ ai' = ai
    BY <1>1, FaultTyped DEF Refused, TypeOK
<1> QED
    BY <1>2, <1>3, <1>4, OnlyWorker DEF TypeOK, RunsKept

\* A statement of the run: it starts a step, or ends the one it is at.
LEMMA StepKept ==
    ASSUME TypeOK, RunsKept, OneWorker, NEW w \in Workers,
           NEW from \in Begun, NEW to \in Begun, NEW step \in Steps, NEW s \in StepStatus,
           Goto(w, from, to), SetStep(w, step, s), UNCHANGED <<status, job, budget, unwritten>>,
           from \in DOMAIN Spinner => step = Spinner[from],
           s = "processing" => to \in DOMAIN Spinner /\ step = Spinner[to]
    PROVE  TypeOK' /\ RunsKept'
<1> DEFINE run == wkr[w].run
<1>1. /\ wkr[w].pc = from /\ run \in Runs /\ ai[run] \in Row /\ ai[run].asset # None
      /\ ai[run].status \in InFlight /\ wkr[w].asset \in Assets
      /\ \A t \in Steps : ai[run].step[t] = "processing" => t = step
    BY DEF Goto, RunsKept, Executes, InRun, Begun, RunningPc, TypeOK
<1>2. /\ wkr' \in [Workers -> Worker] /\ wkr'[w].pc = to /\ wkr'[w].run = run
      /\ wkr'[w].asset = wkr[w].asset
    <2>1. to \in RunningPc \cup BootPc \cup {"idle"}
        BY DEF Begun, RunningPc
    <2> HIDE DEF run
    <2>2. /\ wkr' \in [Workers -> Worker] /\ wkr'[w].pc = to /\ wkr'[w].run = wkr[w].run
          /\ wkr'[w].asset = wkr[w].asset
        BY <2>1, GotoMoves
    <2> QED
        BY <2>2 DEF run
<1>3. /\ ai' \in [Runs -> Row]
      /\ \A y \in Runs : y # run => ai'[y] = ai[y]
      /\ ai'[run].asset = ai[run].asset /\ ai'[run].status = ai[run].status
      /\ \A t \in Steps : ai'[run].step[t] = IF t = step THEN s ELSE ai[run].step[t]
    BY <1>1, StepMoves
<1>4. Executes(wkr'[w], ai')
    BY <1>1, <1>2, <1>3 DEF Executes, Begun, RunningPc
<1>5. \A y \in Runs : Still(ai'[y])
    <2>1. Still(ai'[run])
        BY <1>1, <1>3 DEF Still, Settled
    <2> QED
        BY <1>3, <2>1 DEF RunsKept
<1> QED
    BY <1>2, <1>3, <1>4, <1>5, OnlyWorker DEF TypeOK, RunsKept

LEMMA RunKept ==
    ASSUME EnrichmentAssumption, TypeOK, RunsKept, OneWorker, NEW w \in Workers,
           StartRun(w) \/ Transcribe(w) \/ Subtitles(w) \/ Chapters(w) \/ FinishRun(w)
    PROVE  TypeOK' /\ RunsKept'
<1> USE DEF Steps, StepStatus, RunStatus, Begun, Spinner
<1>1. CASE StartRun(w)
    <2>1. ASSUME Goto(w, "start", "ack"), Written, SetRun(w, "skipped")
          PROVE  TypeOK' /\ RunsKept'
        BY <1>1, <2>1, StatusKept DEF StartRun, Written, InRun, RunningPc
    <2>2. ASSUME Goto(w, "start", "extract"), Written, SetRun(w, "processing")
          PROVE  TypeOK' /\ RunsKept'
        BY <1>1, <2>2, StatusKept DEF StartRun, Written, InRun, RunningPc, InFlight
    <2>3. ASSUME Goto(w, "start", "ack"), Refused(w)
          PROVE  TypeOK' /\ RunsKept'
        BY <1>1, <2>3, OutcomeLostKept DEF StartRun, Goto, InRun
    <2> QED
        BY <1>1, <2>1, <2>2, <2>3 DEF StartRun
<1>2. CASE Transcribe(w)
    <2>1. ASSUME Goto(w, "extract", "transcribe"), SetStep(w, "transcription", "processing")
          PROVE  TypeOK' /\ RunsKept'
        BY <1>2, <2>1, StepKept DEF Transcribe
    <2>2. ASSUME Goto(w, "transcribe", "subtitles"), SetStep(w, "transcription", "completed")
          PROVE  TypeOK' /\ RunsKept'
        BY <1>2, <2>2, StepKept DEF Transcribe
    <2> QED
        BY <1>2, <2>1, <2>2 DEF Transcribe
<1>3. CASE Subtitles(w)
    <2>1. ASSUME Goto(w, "subtitles", "chapters"), SetStep(w, "subtitles", "skipped")
          PROVE  TypeOK' /\ RunsKept'
        BY <1>3, <2>1, StepKept DEF Subtitles
    <2>2. ASSUME Goto(w, "subtitles", "writeVtt"), SetStep(w, "subtitles", "processing")
          PROVE  TypeOK' /\ RunsKept'
        BY <1>3, <2>2, StepKept DEF Subtitles
    <2>3. ASSUME Goto(w, "writeVtt", "chapters"), SetStep(w, "subtitles", "completed")
          PROVE  TypeOK' /\ RunsKept'
        BY <1>3, <2>3, StepKept DEF Subtitles
    <2> QED
        BY <1>3, <2>1, <2>2, <2>3 DEF Subtitles
<1>4. CASE Chapters(w)
    <2>1. ASSUME Goto(w, "chapters", "done"), SetStep(w, "chapters", "skipped")
          PROVE  TypeOK' /\ RunsKept'
        BY <1>4, <2>1, StepKept DEF Chapters
    <2>2. ASSUME Goto(w, "chapters", "askLlm"), SetStep(w, "chapters", "processing")
          PROVE  TypeOK' /\ RunsKept'
        BY <1>4, <2>2, StepKept DEF Chapters
    <2>3. ASSUME Goto(w, "askLlm", "done"), SetStep(w, "chapters", "completed")
          PROVE  TypeOK' /\ RunsKept'
        BY <1>4, <2>3, StepKept DEF Chapters
    <2> QED
        BY <1>4, <2>1, <2>2, <2>3 DEF Chapters
<1>5. CASE FinishRun(w)
    BY <1>5, StatusKept DEF FinishRun, InRun, RunningPc, NoFault
<1> QED
    BY <1>1, <1>2, <1>3, <1>4, <1>5

LEMMA FailKept ==
    ASSUME EnrichmentAssumption, TypeOK, RunsKept, OneWorker, NEW w \in Workers, FailRun(w)
    PROVE  TypeOK' /\ RunsKept'
<1>0. CASE Refused(w)
    BY <1>0, OutcomeLostKept DEF FailRun, InRun, Begun
<1> SUFFICES ASSUME Fault("ai"), UNCHANGED unwritten,
                    ai' = [ai EXCEPT ![wkr[w].run] = Failed(@)]
             PROVE  TypeOK' /\ RunsKept'
    BY <1>0 DEF FailRun
<1> DEFINE run == wkr[w].run
<1>1. /\ wkr[w].pc \in InRun /\ run \in Runs /\ ai[run] \in Row /\ wkr[w].asset \in Assets
    BY DEF FailRun, RunsKept, Executes, InRun, Begun, RunningPc, TypeOK
<1>2. /\ wkr' \in [Workers -> Worker] /\ wkr'[w].pc = "upload" /\ wkr'[w].run = run
      /\ wkr'[w].asset = wkr[w].asset
    BY GotoMoves DEF FailRun, RunningPc
<1>3. /\ ai' \in [Runs -> Row]
      /\ \A y \in Runs : ai'[y] = IF y = run THEN Failed(ai[run]) ELSE ai[y]
    BY <1>1, FailedRow, RowMoves DEF FailRun
<1>4. Executes(wkr'[w], ai')
    BY <1>1, <1>2 DEF Executes, InRun, Begun
<1>5. \A y \in Runs : Still(ai'[y])
    BY <1>1, <1>3, FailedRow DEF RunsKept
<1>6. budget' \in 0 .. FaultBudget /\ UNCHANGED <<status, job>>
    BY FaultTyped DEF FailRun
<1> QED
    BY <1>2, <1>3, <1>4, <1>5, <1>6, OnlyWorker DEF TypeOK, RunsKept

LEMMA UploadKept ==
    ASSUME EnrichmentAssumption, TypeOK, RunsKept, OneWorker, NEW w \in Workers, UploadOutputs(w)
    PROVE  TypeOK' /\ RunsKept'
<1>1. UNCHANGED <<status, job, ai, unwritten>> /\ wkr[w].asset \in Assets
    BY DEF UploadOutputs, Goto, RunsKept, Executes, RunningPc
<1>2. /\ wkr' \in [Workers -> Worker] /\ wkr'[w].pc = "ack"
      /\ wkr'[w].asset = wkr[w].asset
    BY GotoMoves DEF UploadOutputs, RunningPc
<1>3. Executes(wkr'[w], ai')
    BY <1>1, <1>2 DEF Executes, InRun, Begun
<1>4. budget' \in 0 .. FaultBudget
    BY FaultTyped DEF UploadOutputs
<1> QED
    BY <1>1, <1>2, <1>3, <1>4, OnlyWorker DEF TypeOK, RunsKept

-----------------------------------------------------------------------------
(* Deaths, boots and the queue.                                            *)

\* A worker that is down or boots executes nothing.
LEMMA BootingExecutes ==
    ASSUME NEW x, NEW table, x.pc \in BootPc \cup {"idle"}
    PROVE  Executes(x, table)
BY DEF Executes, BootPc, RunningPc, InRun, Begun

LEMMA CrashKept ==
    ASSUME EnrichmentAssumption, TypeOK, RunsKept, OneWorker, NEW w \in Workers, Crash(w)
    PROVE  TypeOK' /\ RunsKept'
<1>1. wkr' = [wkr EXCEPT ![w] = At("down")] /\ UNCHANGED <<status, job, ai, unwritten>>
    BY DEF Crash
<1>2. wkr' \in [Workers -> Worker] /\ wkr'[w].pc = "down"
    BY <1>1, AtTyped, WorkerMoves DEF BootPc
<1>3. Executes(wkr'[w], ai')
    BY <1>2, BootingExecutes DEF BootPc
<1>4. budget' \in 0 .. FaultBudget
    BY FaultTyped DEF Crash
<1> QED
    BY <1>1, <1>2, <1>3, <1>4, OnlyWorker DEF TypeOK, RunsKept

LEMMA BootKept ==
    ASSUME TypeOK, RunsKept, OneWorker, NEW w \in Workers, Boot(w)
    PROVE  TypeOK' /\ RunsKept'
<1> SUFFICES /\ wkr' \in [Workers -> Worker] /\ wkr'[w].pc \in BootPc \cup {"idle"}
             /\ status' \in [Assets -> InFlight \cup {"ready", "error"}]
             /\ ai' \in [Runs -> Row] /\ \A y \in Runs : Still(ai'[y])
    <2>1. UNCHANGED <<job, budget, unwritten>>
        BY DEF Boot, StartProcess, Scan, Flag, SweepRead, SweepWrite
    <2> QED
        BY <2>1, BootingExecutes, OnlyWorker DEF TypeOK, RunsKept
<1>1. wkr[w] \in Worker
    BY DEF TypeOK
<1>2. CASE StartProcess(w)
    BY <1>2, GotoMoves DEF StartProcess, BootPc, TypeOK, RunsKept
<1>3. CASE Scan(w)
    <2> DEFINE stuck == {a \in Assets : status[a] \in InFlight}
               x == [wkr[w] EXCEPT !.stuck = stuck,
                                   !.pc = IF stuck = {} THEN "idle" ELSE "flag"]
    <2>1. x \in Worker /\ x.pc \in BootPc \cup {"idle"}
        BY <1>1 DEF Worker, BootPc
    <2>2. wkr' = [wkr EXCEPT ![w] = x] /\ UNCHANGED <<status, ai>>
        BY <1>3 DEF Scan
    <2> HIDE DEF x
    <2> QED
        BY <2>1, <2>2, WorkerMoves DEF TypeOK, RunsKept
<1>4. CASE Flag(w)
    <2>1. ASSUME NEW a \in wkr[w].stuck, wkr' = [wkr EXCEPT ![w].stuck = @ \ {a}]
          PROVE  wkr' \in [Workers -> Worker] /\ wkr'[w].pc = wkr[w].pc
        <3> DEFINE x == [wkr[w] EXCEPT !.stuck = @ \ {a}]
        <3>1. x \in Worker /\ x.pc = wkr[w].pc
            BY <1>1 DEF Worker
        <3>2. wkr' = [wkr EXCEPT ![w] = x]
            BY <2>1
        <3> HIDE DEF x
        <3> QED
            BY <3>1, <3>2, WorkerMoves
    <2>2. ASSUME Goto(w, "flag", "sweepRead")
          PROVE  wkr' \in [Workers -> Worker] /\ wkr'[w].pc = "sweepRead"
        BY <2>2, GotoMoves DEF BootPc
    <2>3. wkr' \in [Workers -> Worker] /\ wkr'[w].pc \in BootPc
        BY <1>4, <2>1, <2>2 DEF Flag, BootPc
    <2>4. status' \in [Assets -> InFlight \cup {"ready", "error"}]
        BY <1>4 DEF Flag, TypeOK
    <2> QED
        BY <1>4, <2>3, <2>4 DEF Flag, TypeOK, RunsKept
<1>5. CASE SweepRead(w)
    <2> DEFINE orphans == {x \in Unfinished : status[ai[x].asset] \notin InFlight}
               q == [wkr[w] EXCEPT !.orphans = orphans,
                                   !.pc = IF orphans = {} THEN "idle" ELSE "sweepWrite"]
    <2>1. orphans \subseteq Runs
        BY DEF Unfinished
    <2> HIDE DEF orphans
    <2>2. q \in Worker /\ q.pc \in BootPc \cup {"idle"}
        BY <1>1, <2>1 DEF Worker, BootPc
    <2>3. wkr' = [wkr EXCEPT ![w] = q] /\ UNCHANGED <<status, ai>>
        BY <1>5 DEF SweepRead, orphans
    <2> HIDE DEF q
    <2> QED
        BY <2>2, <2>3, WorkerMoves DEF TypeOK, RunsKept
<1>6. CASE SweepWrite(w)
    <2>1. \A x \in Runs : ai[x] \in Row /\ Still(ai[x])
        BY DEF TypeOK, RunsKept
    <2>2. ai' = [x \in Runs |-> IF x \in wkr[w].orphans THEN Failed(ai[x]) ELSE ai[x]]
        BY <1>6 DEF SweepWrite
    <2>3. ai' \in [Runs -> Row] /\ \A y \in Runs : Still(ai'[y])
        BY <2>1, <2>2, FailedRow
    <2>4. wkr' \in [Workers -> Worker] /\ wkr'[w].pc = "idle"
        BY <1>6, AtTyped, WorkerMoves DEF SweepWrite
    <2> QED
        BY <1>6, <2>3, <2>4 DEF SweepWrite, TypeOK
<1> QED
    BY <1>2, <1>3, <1>4, <1>5, <1>6 DEF Boot

LEMMA QueueKept ==
    ASSUME TypeOK, RunsKept, NEW a \in Assets, Reprocess(a) \/ Redeliver(a)
    PROVE  TypeOK' /\ RunsKept'
<1>1. UNCHANGED <<ai, wkr, budget, unwritten>>
    BY DEF Reprocess, Redeliver
<1>2. job' \in [Assets -> Job]
    BY DEF Reprocess, Redeliver, TypeOK, Job
<1>3. status' \in [Assets -> InFlight \cup {"ready", "error"}]
    BY DEF Reprocess, Redeliver, TypeOK, InFlight
<1> QED
    BY <1>1, <1>2, <1>3 DEF TypeOK, RunsKept

-----------------------------------------------------------------------------
LEMMA KeptInvariant == ASSUME OneWorker PROVE Spec => [](TypeOK /\ RunsKept)
<1>1. Init => TypeOK /\ RunsKept
    BY InitKept, EnrichmentAssumption
<1>2. (TypeOK /\ RunsKept) /\ [Next]_vars => (TypeOK /\ RunsKept)'
    <2> SUFFICES ASSUME TypeOK, RunsKept, [Next]_vars
                 PROVE  TypeOK' /\ RunsKept'
        OBVIOUS
    <2>1. ASSUME NEW w \in Workers, Work(w)
          PROVE  TypeOK' /\ RunsKept'
        BY <2>1, OneWorker, EnrichmentAssumption, TakeKept, TranscodeKept, AckKept, BeginKept,
           RunKept, FailKept, UploadKept DEF Work
    <2>2. ASSUME NEW w \in Workers, Boot(w) \/ Crash(w)
          PROVE  TypeOK' /\ RunsKept'
        BY <2>2, OneWorker, EnrichmentAssumption, BootKept, CrashKept
    <2>3. ASSUME NEW a \in Assets, Reprocess(a) \/ Redeliver(a)
          PROVE  TypeOK' /\ RunsKept'
        BY <2>3, QueueKept
    <2>4. CASE UNCHANGED vars
        BY <2>4 DEF vars, TypeOK, RunsKept
    <2> QED
        BY <2>1, <2>2, <2>3, <2>4 DEF Next
<1> QED
    BY <1>1, <1>2, PTL DEF Spec

\* Every status, job, row and worker is one the code can produce
\* (ai/process.ts, worker index.ts).
THEOREM EnrichmentTyped == ASSUME OneWorker PROVE Spec => []TypeOK
BY KeptInvariant, PTL

\* Once a run is settled, by its own last statement, by its catch block or by a
\* booting worker, no step column is left at "processing", however often its
\* worker dies and its video is run again (ai/process.ts failIfRunning).
THEOREM SpinnersStop == ASSUME OneWorker PROVE Spec => []NoSpinnerOnSettledRun
<1>1. RunsKept => NoSpinnerOnSettledRun
    BY DEF RunsKept, Still, Settled, NoSpinnerOnSettledRun
<1> QED
    BY <1>1, KeptInvariant, PTL

=============================================================================
