----------------------------- MODULE DetailPage -----------------------------
(***************************************************************************)
(* The dashboard's list of videos (pages/VideosPage.tsx) and the page of   *)
(* one of them (pages/VideoDetailPage.tsx), with the settings and the      *)
(* thumbnail dialog.  Both read through TanStack Query: what was read last *)
(* stays in the cache, is polled while its status is moving and the tab is *)
(* visible, and is invalidated by what the page changes.                   *)
(*                                                                         *)
(* For the properties, mine is the version of the row that the last change *)
(* of this page made whose acceptance the page heard of; meta is that of   *)
(* the last change of the metadata it heard of, raced when the video was   *)
(* being read just then and has not been read again since.                 *)
(***************************************************************************)
EXTENDS VideoApi

VARIABLES detail, mine, meta

Pages == {"asset", "assets"}
Unread == [data |-> None, error |-> FALSE, stale |-> TRUE]

DetailInit(open) ==
    /\ detail = [route |-> IF open THEN "asset" ELSE "closed", visible |-> TRUE,
                 cache |-> [k \in Pages |-> Unread],
                 confirmDelete |-> FALSE, confirmAi |-> FALSE, settings |-> FALSE,
                 thumb |-> FALSE, refused |-> FALSE]
    /\ mine = 0 /\ meta = [ver |-> 0, raced |-> FALSE]

\* POLL_STATUSES and TRANSITIONAL
Moving(status) == status \in {"created", "uploaded", "queued", "processing"}

Cache(k) == detail.cache[k]
OnVideo == detail.route = "asset"
\* The page of the video itself, not its skeleton or its error.
Video == OnVideo /\ Cache("asset").data # None /\ ~Cache("asset").error
Shown(k) == Cache(k).data
NoDialog == ~detail.settings /\ ~detail.thumb

-----------------------------------------------------------------------------
(* The queries.                                                            *)

Ask(js, k) == IF js[k] = None THEN With(js, k, None) ELSE js

\* Mistake: a read that is under way will do.
RestartedIdle(k) == detail.route = k /\ ~Waiting(k)
\* invalidateQueries reads again what the open page shows, and gives up the
\* read that is under way; a query of another page becomes stale.
Restarted(k) == detail.route = k

Invalidate(js, ks) == [s \in Slots |-> IF s \in ks /\ Restarted(s)
                         THEN [kind |-> s, pc |-> "sent", arg |-> None, old |-> 0] ELSE js[s]]
Dropped(as, ks) == [k \in Kinds |-> IF k \in ks /\ Restarted(k) THEN None ELSE as[k]]
Stale(d, ks) == [d EXCEPT !.cache = [k \in Pages |->
                   IF k \in ks /\ d.route # k THEN [d.cache[k] EXCEPT !.stale = TRUE] ELSE d.cache[k]]]

\* Whether a read of the page k begins: the metadata it finds are no older
\* than what the page has heard of.
Begins(k, yes) == meta' = [meta EXCEPT !.raced = @ /\ ~(k = "asset" /\ yes)]

Fetched(k) ==
    /\ answers[k] # None
    /\ answers' = Heard(answers, k)
    /\ detail' = [detail EXCEPT !.cache[k] = IF answers[k].ok
                    THEN [data |-> answers[k].body, error |-> FALSE, stale |-> FALSE]
                    ELSE [@ EXCEPT !.error = TRUE]]
    /\ UNCHANGED <<jobs, mine, meta>>

Refetch(k) ==
    /\ detail.route = k /\ ~Waiting(k)
    /\ jobs' = Ask(jobs, k) /\ Begins(k, TRUE)
    /\ UNCHANGED <<detail, answers, mine>>

\* refetchInterval, not in the background
Poll(k) ==
    /\ detail.visible /\ Shown(k) # None /\ Moving(Shown(k).status)
    /\ Refetch(k)

\* Retry below a page that failed.
RetryRead(k) == Cache(k).error /\ Refetch(k)

\* The tab is hidden; the window comes back, ten seconds later or more.
Hide ==
    /\ detail.route # "closed" /\ detail.visible
    /\ detail' = [detail EXCEPT !.visible = FALSE]
    /\ UNCHANGED <<jobs, answers, mine, meta>>
Show ==
    /\ detail.route # "closed" /\ ~detail.visible
    /\ detail' = [detail EXCEPT !.visible = TRUE]
    /\ jobs' = IF answers[detail.route] = None THEN Ask(jobs, detail.route) ELSE jobs
    /\ Begins(detail.route, ~Waiting(detail.route))
    /\ UNCHANGED <<answers, mine>>

\* By a link or the browser's history another page is mounted: its query is read again when it is stale.
Visit(d, js, as, k) ==
    /\ detail' = [d EXCEPT !.route = k, !.confirmDelete = FALSE, !.confirmAi = FALSE,
                           !.settings = FALSE, !.thumb = FALSE, !.refused = FALSE]
    /\ jobs' = IF d.cache[k].stale /\ as[k] = None THEN Ask(js, k) ELSE js
Navigate(k) ==
    /\ detail.route \in Pages \ {k}
    /\ k = "asset" => Shown("assets") # None /\ Shown("assets").status # "gone"
    /\ Visit(detail, jobs, answers, k) /\ Begins(k, Cache(k).stale /\ ~Waiting(k))
    /\ UNCHANGED <<answers, mine>>

-----------------------------------------------------------------------------
(* The mutations.                                                          *)

\* The page of the video hears that a change of its own was accepted, and
\* reads the video again if it is open.
Own(ver) ==
    /\ mine' = IF OnVideo /\ ver > mine THEN ver ELSE mine
    /\ Begins("asset", OnVideo)

\* The metadata editor: the page's own keys plus one, or minus one.
SaveMeta(new) ==
    /\ Video /\ NoDialog /\ ~Waiting("meta")
    /\ LET old == Shown("asset").meta.keys IN
         \/ \E k \in MetaKeys \ old : Cardinality(old) < MaxMeta /\ new = old \cup {k}
         \/ \E k \in old : new = old \ {k}
    /\ jobs' = With(jobs, "meta", new)
    /\ UNCHANGED <<detail, answers, mine, meta>>
\* They are put into the cache; a read under way is not given up.
MetaSaved ==
    /\ answers["meta"] # None
    /\ answers' = Heard(answers, "meta")
    /\ IF answers["meta"].ok /\ Shown("asset") # None
         THEN /\ detail' = [detail EXCEPT !.cache["asset"].data.meta = answers["meta"].body]
              /\ meta' = [ver |-> answers["meta"].body.ver, raced |-> Waiting("asset")]
         ELSE UNCHANGED <<detail, meta>>
    /\ UNCHANGED <<jobs, mine>>

\* Retry of a failed transcode; regenerating what the AI failed at (whether it
\* did is left open).
AskAi ==
    /\ Video /\ NoDialog /\ Shown("asset").status = "ready"
    /\ detail' = [detail EXCEPT !.confirmAi = TRUE]
    /\ UNCHANGED <<jobs, answers, mine, meta>>
CancelAi ==
    /\ Video /\ detail.confirmAi /\ ~Waiting("process")
    /\ detail' = [detail EXCEPT !.confirmAi = FALSE]
    /\ UNCHANGED <<jobs, answers, mine, meta>>
Process ==
    /\ Video /\ NoDialog /\ ~Waiting("process")
    /\ Shown("asset").status = "error" \/ detail.confirmAi
    /\ jobs' = With(jobs, "process", None)
    /\ detail' = [detail EXCEPT !.refused = FALSE]
    /\ UNCHANGED <<answers, mine, meta>>
Processed ==
    /\ answers["process"] # None
    /\ IF answers["process"].ok
         THEN /\ detail' = Stale(detail, Pages)
              /\ jobs' = Invalidate(jobs, Pages)
              /\ Own(answers["process"].body)
              /\ answers' = Heard(Dropped(answers, Pages), "process")
         ELSE /\ detail' = [detail EXCEPT !.refused = OnVideo]
              /\ answers' = Heard(answers, "process") /\ UNCHANGED <<jobs, mine, meta>>

\* Deleting takes a confirmation, and goes back to the list.
AskDelete ==
    /\ Video /\ NoDialog /\ ~Waiting("delete")
    /\ detail' = [detail EXCEPT !.confirmDelete = ~@]
    /\ UNCHANGED <<jobs, answers, mine, meta>>
Delete ==
    /\ Video /\ NoDialog /\ detail.confirmDelete /\ ~Waiting("delete")
    /\ jobs' = With(jobs, "delete", None)
    /\ UNCHANGED <<detail, answers, mine, meta>>
Deleted ==
    /\ answers["delete"] # None
    /\ IF answers["delete"].ok
         THEN /\ UNCHANGED <<mine, meta>>
              /\ answers' = Heard(Dropped(answers, {"assets"}), "delete")
              /\ LET d == [detail EXCEPT !.cache["assets"].stale = TRUE]
                 IN Visit(d, Invalidate(jobs, {"assets"}), answers', "assets")
         ELSE answers' = Heard(answers, "delete") /\ UNCHANGED <<detail, jobs, mine, meta>>

\* The settings dialog, of a draft, and the thumbnail dialog, of a picked file.
OpenSettings ==
    /\ Video /\ NoDialog /\ Shown("asset").status = "ready"
    /\ detail' = [detail EXCEPT !.settings = TRUE]
    /\ UNCHANGED <<jobs, answers, mine, meta>>
OpenThumb ==
    /\ Video /\ NoDialog /\ Shown("asset").status = "ready"
    /\ detail' = [detail EXCEPT !.thumb = TRUE]
    /\ UNCHANGED <<jobs, answers, mine, meta>>
Busy == \E k \in {"settings"} \cup Thumbs : Waiting(k)
CloseDialog ==
    /\ ~NoDialog /\ ~Busy
    /\ detail' = [detail EXCEPT !.settings = FALSE, !.thumb = FALSE]
    /\ UNCHANGED <<jobs, answers, mine, meta>>
SaveSettings(s) ==
    /\ Video /\ detail.settings /\ ~Busy /\ s # Shown("asset").settings
    /\ jobs' = With(jobs, "settings", s)
    /\ UNCHANGED <<detail, answers, mine, meta>>
Upload(n) ==
    /\ Video /\ detail.thumb /\ ~Busy
    /\ jobs' = With(jobs, "thumb", n)
    /\ UNCHANGED <<detail, answers, mine, meta>>
ResetThumb ==
    /\ Video /\ detail.thumb /\ ~Busy /\ Shown("asset").thumb # 0
    /\ jobs' = With(jobs, "unthumb", None)
    /\ UNCHANGED <<detail, answers, mine, meta>>

\* onSaved, onClose; a failure leaves the dialog open.
DialogSaved(k) ==
    /\ detail.route # "closed" /\ answers[k] # None
    /\ IF answers[k].ok
         THEN /\ Own(answers[k].body)
              /\ jobs' = Invalidate(jobs, {"asset"})
              /\ detail' = [Stale(detail, {"asset"}) EXCEPT !.settings = FALSE, !.thumb = FALSE]
              /\ answers' = Heard(Dropped(answers, {"asset"}), k)
         ELSE answers' = Heard(answers, k) /\ UNCHANGED <<detail, jobs, mine, meta>>

-----------------------------------------------------------------------------

DetailAnswered ==
    \/ \E k \in Pages : Fetched(k)
    \/ MetaSaved \/ Processed \/ Deleted
    \/ \E k \in {"settings"} \cup Thumbs : DialogSaved(k)

\* What ends a dialog or brings the tab back.
DetailEnd == CancelAi \/ CloseDialog \/ Show

DetailInput(n) ==
    \/ \E k \in Pages : RetryRead(k) \/ Navigate(k)
    \/ Hide
    \/ \E new \in SUBSET MetaKeys : SaveMeta(new)
    \/ AskAi \/ Process \/ AskDelete \/ Delete
    \/ OpenSettings \/ OpenThumb \/ ResetThumb \/ Upload(n)
    \/ \E s \in SUBSET {"comments"} : SaveSettings(s)

-----------------------------------------------------------------------------
(* Properties of the page.                                                 *)

\* What the page of a video shows, once nothing is being read, includes every
\* change it made itself and heard the acceptance of, even if an older read
\* was answered last (refreshAsset, retryMutation). Metadata, which it puts
\* into the cache itself (metadataMutation), it may show in an older state only
\* by the answer to the one read that was under way then, until the next read.
OwnChangesShown ==
    (OnVideo /\ Video /\ ~Waiting("asset"))
        => /\ Shown("asset").ver >= mine
           /\ Shown("asset").meta.ver >= meta.ver \/ meta.raced

\* The row names a thumbnail that exists, but while a request that removed it
\* is about to name another, or after one was cut off just there (assets.ts).
ThumbnailThere ==
    \/ row.thumb \in objects \cup {0}
    \/ "thumbnail" \in torn
    \/ \E s \in Slots : At(s, Thumbs, "cleaned") \/ At(s, {"delete"}, "purged")

=============================================================================
