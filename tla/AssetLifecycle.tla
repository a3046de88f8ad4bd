--------------------------- MODULE AssetLifecycle ---------------------------
(***************************************************************************)
(* What the pipeline promises a client that polls one asset: the statuses  *)
(* it can see one after another (docs/api-reference.md, "Asset             *)
(* lifecycle"), with the retry, the interruption and the failed submission *)
(* that the code adds, and the output there is when the status says ready. *)
(***************************************************************************)

VARIABLES
    status,     \* what GET /v1/assets/:id answers; "gone" is a 404
    published   \* the HLS output can be played

lifecycle == <<status, published>>

Init == status = "created" /\ published = FALSE

Move(from, to) == status \in from /\ status' = to /\ UNCHANGED published

\* A source has arrived in full.
Supply == Move({"created"}, "uploaded")

\* A transcode is submitted; a finished or failed video may be run again.
Submit == Move({"uploaded", "error", "ready"}, "queued")

\* A worker that boots in the middle of a submission or of another's transcode
\* may report an error for it (so may a listener that comes late); the work goes
\* on regardless, so that error can still be followed by what it interrupts.
Flagged(s) == {s, "error"}

\* The queue refused the job: the asset goes back to where it was.
Refuse == \E s \in {"uploaded", "error", "ready"} : Move(Flagged("queued"), s)

Start == Move(Flagged("queued"), "processing")
Retry == Move(Flagged("processing"), "queued")
Fail == Move({"queued", "processing"}, "error")

\* The output is uploaded during the transcode, and only then is the asset ready.
Upload ==
    /\ status \in Flagged("processing") /\ published' = TRUE
    /\ UNCHANGED status
Succeed == published /\ Move(Flagged("processing"), "ready")

\* DELETE purges the output first, then the row.
Purge == status # "gone" /\ published' = FALSE /\ UNCHANGED status
Delete == Move({"created", "uploaded", "queued", "processing", "ready", "error"},
               "gone")

Next == Supply \/ Submit \/ Refuse \/ Start \/ Retry \/ Fail \/ Upload
        \/ Succeed \/ Purge \/ Delete

Spec == Init /\ [][Next]_lifecycle

=============================================================================
