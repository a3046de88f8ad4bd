------------------------------- MODULE Usage -------------------------------
(***************************************************************************)
(* The minutes and the bytes of one organization on a plan: the API's      *)
(* check before work starts (services/usage.ts), the worker's own check    *)
(* once it knows how long the video is, and the counters it adds to        *)
(* afterwards (apps/worker/src/index.ts).                                  *)
(*                                                                         *)
(* Between a check and the increment that makes it good lies the whole     *)
(* encoding: other slots check and add meanwhile, and a month may end.     *)
(* A slot is one of the jobs the workers run at once.  A job comes again   *)
(* after a crash, or to a second slot when its lock ran out.  A length is  *)
(* in the unit of the limits; the plan does not change (Billing has that). *)
(***************************************************************************)
EXTENDS Integers, FiniteSetsExt

CONSTANTS
    Slots,          \* jobs that run at once, over all workers
    Videos,         \* ids of assets
    Lengths,        \* how long a video may be
    EncodingLimit, AiLimit, StorageLimit,  \* PLAN_LIMITS of the plan
    MaxMonth,       \* bound: months after the first
    MaxDeliveries   \* bound: times the job of a video is delivered

VARIABLES
    month,   \* usageMonthKey() of now
    video,   \* assets: status, length, storage_bytes; deliveries so far
    used,    \* usage_monthly
    slot,    \* the jobs that run
    spent    \* history: what the jobs that counted have encoded and transcribed

usageVars == <<month, video, used, slot, spent>>

Months == 0 .. MaxMonth
Counters == {"encoding", "ai"}
Limit == [c \in Counters |-> IF c = "encoding" THEN EncodingLimit ELSE AiLimit]

Statuses == {"none", "creating", "uploaded", "submitting", "queued", "processing", "ready",
             "error", "deleted"}
Pcs == {"idle", "quota", "encode", "count", "aiQuota", "ai", "aiCount"}
NoVideo == "none"
Free == [pc |-> "idle", video |-> NoVideo]
Unborn == [status |-> "none", length |-> 0, bytes |-> 0, delivered |-> 0]

TypeOK ==
    /\ month \in Months
    /\ video \in [Videos -> [status : Statuses, length : Lengths \cup {0}, bytes : Nat,
                             delivered : 0 .. MaxDeliveries]]
    /\ used \in [Months -> [Counters -> Nat]]
    /\ spent \in [Months -> [Counters -> Nat]]
    /\ slot \in [Slots -> [pc : Pcs, video : Videos \cup {NoVideo}]]

Init ==
    /\ month = 0
    /\ video = [v \in Videos |-> Unborn]
    /\ used = [m \in Months |-> [c \in Counters |-> 0]]
    /\ spent = used
    /\ slot = [w \in Slots |-> Free]

-----------------------------------------------------------------------------
(* The API.  getOrgUsage reads this month's counter and what the videos     *)
(* that are not deleted take; either at its ceiling refuses.                *)

Stored == MapThenSumSet(LAMBDA v : video[v].bytes, {v \in Videos : video[v].status # "deleted"})

CanStart == Stored < StorageLimit /\ used[month]["encoding"] < EncodingLimit

Status(v, from, to) ==
    /\ video[v].status \in from
    /\ video' = [video EXCEPT ![v].status = to]
    /\ UNCHANGED <<month, used, slot, spent>>

(* POST /v1/assets: the check, then the row.                                *)
Create(v) == CanStart /\ Status(v, {"none"}, "creating")

(* The row, and in time a source: its length is not known to the API.       *)
Insert(v) ==
    /\ video[v].status = "creating"
    /\ \E len \in Lengths :
         video' = [video EXCEPT ![v].status = "uploaded", ![v].length = len]
    /\ UNCHANGED <<month, used, slot, spent>>

(* POST .../process: a processable status and the check, then the job.      *)
Process(v) == CanStart /\ Status(v, {"uploaded", "error"}, "submitting")
Enqueue(v) == Status(v, {"submitting"}, "queued")

Delete(v) == Status(v, {"uploaded", "ready", "error"}, "deleted")

-----------------------------------------------------------------------------
(* The worker.                                                              *)

Step(w, from, to) ==
    /\ slot[w].pc = from
    /\ slot' = IF to = "idle" THEN [slot EXCEPT ![w] = Free] ELSE [slot EXCEPT ![w].pc = to]
Works(w) == slot[w].video

(* A job whose video is ready already has nothing left to do.               *)
Take(w, v) ==
    /\ slot[w].pc = "idle"
    /\ video[v].status \in {"queued", "processing"} /\ video[v].delivered < MaxDeliveries
    /\ slot' = [slot EXCEPT ![w] = [pc |-> "quota", video |-> v]]
    /\ video' = [video EXCEPT ![v].status = "processing", ![v].delivered = @ + 1]
    /\ UNCHANGED <<month, used, spent>>

\* Mistake: the worker asks what the API asks, whether the ceiling is reached.
WouldExceedReached(c, len) == used[month][c] >= Limit[c]

WouldExceed(c, len) == used[month][c] + len > Limit[c]

Refused(w) ==
    /\ Step(w, "quota", "idle")
    /\ WouldExceed("encoding", video[Works(w)].length)
    /\ video' = [video EXCEPT ![Works(w)].status = "error"]
    /\ UNCHANGED <<month, used, spent>>

Admitted(w) ==
    /\ Step(w, "quota", "encode")
    /\ ~WouldExceed("encoding", video[Works(w)].length)
    /\ UNCHANGED <<month, video, used, spent>>

(* The renditions are as large as the source.                               *)
Ready(w) ==
    /\ Step(w, "encode", "count")
    /\ video' = [video EXCEPT ![Works(w)].status = "ready", ![Works(w)].bytes = 2 * video[Works(w)].length]
    /\ UNCHANGED <<month, used, spent>>

(* Retries are deliveries; the last attempt that fails ends in error.       *)
Fail(w) ==
    /\ Step(w, "encode", "idle")
    /\ \/ UNCHANGED video
       \/ video' = [video EXCEPT ![Works(w)].status = "error"]
    /\ UNCHANGED <<month, used, spent>>

(* INSERT ... ON DUPLICATE KEY UPDATE: one statement adds.                  *)
Increment(c, len) == [used EXCEPT ![month][c] = @ + len]

(* Best effort: a failure does not fail the job.                            *)
RecordUsage(w, c) ==
    LET len == video[Works(w)].length IN
    \/ /\ used' = Increment(c, len)
       /\ spent' = [spent EXCEPT ![month][c] = @ + len]
    \/ UNCHANGED <<used, spent>>

Count(w) == Step(w, "count", "aiQuota") /\ RecordUsage(w, "encoding") /\ UNCHANGED <<month, video>>

(* AI has a budget of its own; past it the phase is skipped, never failed.  *)
AiQuota(w) ==
    /\ slot[w].pc = "aiQuota"
    /\ Step(w, "aiQuota", IF WouldExceed("ai", video[Works(w)].length) THEN "idle" ELSE "ai")
    /\ UNCHANGED <<month, video, used, spent>>

(* The AI's files count as storage, whatever became of the video meanwhile. *)
Transcribe(w) ==
    /\ \/ /\ Step(w, "ai", "aiCount")
          /\ video' = [video EXCEPT ![Works(w)].bytes = 2 * video[Works(w)].length + 1]
       \/ Step(w, "ai", "idle") /\ UNCHANGED video
    /\ UNCHANGED <<month, used, spent>>

AiCount(w) == Step(w, "aiCount", "idle") /\ RecordUsage(w, "ai") /\ UNCHANGED <<month, video>>

Crash(w) ==
    /\ slot[w].pc # "idle"
    /\ slot' = [slot EXCEPT ![w] = Free]
    /\ UNCHANGED <<month, video, used, spent>>

NextMonth == month < MaxMonth /\ month' = month + 1 /\ UNCHANGED <<video, used, slot, spent>>

Worker(w) ==
    \/ \E v \in Videos : Take(w, v)
    \/ Refused(w) \/ Admitted(w) \/ Ready(w) \/ Fail(w) \/ Count(w)
    \/ AiQuota(w) \/ Transcribe(w) \/ AiCount(w) \/ Crash(w)

Api(v) == Create(v) \/ Insert(v) \/ Process(v) \/ Enqueue(v) \/ Delete(v)

Next == NextMonth \/ (\E v \in Videos : Api(v)) \/ (\E w \in Slots : Worker(w))

-----------------------------------------------------------------------------
(* What the jobs of a month may come to, checked once per job and counted   *)
(* at its end: the plan, and for every slot but one a video more.  The job  *)
(* that was admitted last saw all that the others had counted before.       *)
Longest(limit) == Max({0} \cup {l \in Lengths : l <= limit})

\* However jobs, months, crashes and second deliveries fall, what is encoded
\* and transcribed in a month, as far as it could be recorded, exceeds the plan
\* by no more than one video for each slot but one (processTranscodeJob,
\* runPostReadyPhase, loadOrgQuota, recordUsage).
SpentWithinPlan ==
    \A m \in Months, c \in Counters :
        spent[m][c] <= Limit[c] + (Cardinality(Slots) - 1) * Longest(Limit[c])
=============================================================================
