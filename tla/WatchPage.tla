----------------------------- MODULE WatchPage ------------------------------
(***************************************************************************)
(* The public page of a video (components/WatchPage.tsx) with its comment  *)
(* section and form, the identity dialog, the inline editors of chapter    *)
(* titles and transcript segments and the settings dialog of its owner.    *)
(*                                                                         *)
(* A text, a reaction, a title is the number of the input that made it, so *)
(* no two are alike.  typed and dismissed record, for the properties, the  *)
(* drafts the viewer has not given up and the reactions he has.            *)
(***************************************************************************)
EXTENDS VideoApi

CONSTANTS People, StorageWorks

VARIABLES watch, inputs, typed, dismissed

WatchInit(open) ==
    watch = [view |-> IF open THEN "loading" ELSE "closed", canEdit |-> FALSE,
             settings |-> {}, chapters |-> None, transcript |-> None,
             identity |-> None, saved |-> None, modal |-> FALSE, pending |-> 0,
             draft |-> 0, failed |-> FALSE, list |-> "none", form |-> FALSE]

rest == <<row, objects, tracks, comments, torn, faults>>
Open == watch.view = "ready"
HasComments == Open /\ "comments" \in watch.settings
Free == Open /\ ~watch.modal /\ ~watch.form    \* no dialog above the page

\* What the comment section is unmounted with.
Unmounted(w) == [w EXCEPT !.draft = 0, !.failed = FALSE]

-----------------------------------------------------------------------------
(* Loading.                                                                *)

\* The page: the text tracks are fetched next, and the comments by their section.
Loaded ==
    /\ answers["load"] # None
    /\ answers' = Heard(answers, "load")
    /\ IF answers["load"].ok
         THEN /\ \E b \in BOOLEAN : watch' = [watch EXCEPT !.view = "ready", !.canEdit = b,
                                        !.settings = answers["load"].body]
              /\ jobs' = LET files == With(With(jobs, "getChapters", None), "getTranscript", None)
                         IN IF "comments" \in watch'.settings THEN With(files, "list", None)
                            ELSE files
         ELSE watch' = [watch EXCEPT !.view = "error"] /\ UNCHANGED jobs
    /\ UNCHANGED <<typed, dismissed>>

FileLoaded(k, part) ==
    /\ answers[k] # None
    /\ answers' = Heard(answers, k)
    /\ watch' = IF answers[k].ok THEN [watch EXCEPT ![part] = answers[k].body] ELSE watch
    /\ UNCHANGED <<jobs, typed, dismissed>>

\* After the settings were saved: only the playback data is read again.
Reloaded ==
    /\ answers["reload"] # None
    /\ answers' = Heard(answers, "reload")
    /\ LET s == IF answers["reload"].ok THEN answers["reload"].body ELSE watch.settings
           w == [watch EXCEPT !.settings = s]
       IN IF "comments" \in s
            THEN /\ watch' = w
                 /\ jobs' = IF HasComments \/ Waiting("list") THEN jobs ELSE With(jobs, "list", None)
                 /\ UNCHANGED typed
            ELSE watch' = Unmounted(w) /\ typed' = typed \ {watch.draft} /\ UNCHANGED jobs
    /\ UNCHANGED dismissed

\* What the list holds, and the markers on the player, is left out.
Listed ==
    /\ answers["list"] # None
    /\ answers' = Heard(answers, "list")
    /\ watch' = [watch EXCEPT !.list = IF answers["list"].ok THEN "shown" ELSE "failed"]
    /\ UNCHANGED <<jobs, typed, dismissed>>

\* The window gets the focus again, or Retry below a list that failed.
ReadAgain ==
    /\ HasComments /\ ~Waiting("list") /\ watch.list # "none"
    /\ jobs' = With(jobs, "list", None)
    /\ UNCHANGED <<watch, answers, typed, dismissed>>

-----------------------------------------------------------------------------
(* Identity, reactions and comments.                                       *)

Post(js, k, text, who) == With(js, k, [body |-> text, by |-> who])

\* handleReact, requireIdentity (one reaction at a time on its way).
React(n) ==
    /\ HasComments /\ Free /\ ~Waiting("react")
    /\ IF watch.saved # None
         THEN /\ watch' = [watch EXCEPT !.identity = watch.saved]
              /\ jobs' = Post(jobs, "react", n, watch.saved)
         ELSE /\ watch' = [watch EXCEPT !.pending = n, !.modal = TRUE]
              /\ UNCHANGED jobs
    /\ UNCHANGED <<answers, typed, dismissed>>

\* handleIdentityConfirm, after saveIdentity.
Confirm(who) ==
    /\ watch.modal
    /\ watch' = [watch EXCEPT !.identity = who, !.saved = IF StorageWorks THEN who ELSE @,
                              !.modal = FALSE, !.pending = 0]
    /\ jobs' = IF watch.pending # 0 THEN Post(jobs, "react", watch.pending, who) ELSE jobs
    /\ UNCHANGED <<answers, typed, dismissed>>

\* Mistake: the reaction that asked for the identity is not forgotten.
CloseKept(w) == [w EXCEPT !.modal = FALSE]
\* onClose of the identity dialog.
Close(w) == [w EXCEPT !.modal = FALSE, !.pending = 0]

Dismiss ==
    /\ watch.modal
    /\ watch' = Close(watch)
    /\ dismissed' = dismissed \cup ({watch.pending} \ {0})
    /\ UNCHANGED <<jobs, answers, typed>>

\* handleClearIdentity; another tab of the browser may do the same to the storage.
Forget ==
    /\ HasComments /\ Free /\ watch.identity # None
    /\ watch' = [watch EXCEPT !.identity = None, !.saved = None]
    /\ UNCHANGED <<jobs, answers, typed, dismissed>>
ForgotElsewhere ==
    /\ watch.saved # None
    /\ watch' = [watch EXCEPT !.saved = None]
    /\ UNCHANGED <<jobs, answers, typed, dismissed>>

\* Without an identity the textarea loses the focus to the dialog.
Focus(n) ==
    /\ HasComments /\ Free /\ ~Waiting("post") /\ watch.draft = 0
    /\ IF watch.identity = None
         THEN watch' = [watch EXCEPT !.modal = TRUE] /\ UNCHANGED typed
         ELSE watch' = [watch EXCEPT !.draft = n] /\ typed' = typed \cup {n}
    /\ UNCHANGED <<jobs, answers, dismissed>>

\* Mistake: the form is cleared when the comment is sent.
SubmittedCleared(w) == [w EXCEPT !.failed = FALSE, !.draft = 0]
Submitted(w) == [w EXCEPT !.failed = FALSE]

\* handleSubmit of the form.
Submit ==
    /\ HasComments /\ Free /\ watch.draft # 0 /\ ~Waiting("post")
    /\ IF watch.identity = None
         THEN watch' = [watch EXCEPT !.modal = TRUE] /\ UNCHANGED jobs
         ELSE watch' = Submitted(watch) /\ jobs' = Post(jobs, "post", watch.draft, watch.identity)
    /\ UNCHANGED <<answers, typed, dismissed>>

Posted ==
    /\ answers["post"] # None
    /\ answers' = Heard(answers, "post")
    /\ watch' = IF answers["post"].ok THEN [watch EXCEPT !.list = "shown", !.draft = 0]
                ELSE [watch EXCEPT !.failed = "comments" \in watch.settings]
    /\ UNCHANGED <<jobs, typed, dismissed>>

\* A reaction that failed is not mentioned.
Reacted ==
    /\ answers["react"] # None
    /\ answers' = Heard(answers, "react")
    /\ UNCHANGED <<watch, jobs, typed, dismissed>>

-----------------------------------------------------------------------------
(* The owner's edits.                                                      *)

PartName(f) == IF f \in Chapter THEN "chapters" ELSE "transcript"
Edits(part) == IF part = "chapters" THEN Chapter ELSE Segment

\* Mistake: the page shows the new title before it is stored.
WhileSavedShown(w, f, all) == [w EXCEPT ![PartName(f)] = all]
\* What the page shows while an edit is saved.
WhileSaved(w, f, all) == w

\* handleChapterTitleChange and handleSegmentTextChange: the whole array, as
\* the page shows it, goes to the API.
SaveEdit(f, n) ==
    /\ Free /\ watch.canEdit /\ watch[PartName(f)] # None /\ ~Waiting(f)
    /\ LET all == [watch[PartName(f)] EXCEPT ![f] = n]
       IN jobs' = With(jobs, f, all) /\ watch' = WhileSaved(watch, f, all)
    /\ torn' = IF \E g \in Edits(PartName(f)) : Waiting(g) THEN torn \cup {PartName(f)} ELSE torn
    /\ UNCHANGED <<answers, typed, dismissed>>

Edited(f) ==
    /\ answers[f] # None
    /\ answers' = Heard(answers, f)
    /\ watch' = IF answers[f].ok THEN [watch EXCEPT ![PartName(f)] = answers[f].body] ELSE watch
    /\ UNCHANGED <<jobs, typed, dismissed>>

\* The settings dialog: comments on or off.
OpenForm ==
    /\ Free /\ watch.canEdit
    /\ watch' = [watch EXCEPT !.form = TRUE]
    /\ UNCHANGED <<jobs, answers, typed, dismissed>>
CloseForm ==
    /\ watch.form /\ ~Waiting("settings")
    /\ watch' = [watch EXCEPT !.form = FALSE]
    /\ UNCHANGED <<jobs, answers, typed, dismissed>>
SaveForm(s) ==
    /\ watch.form /\ ~Waiting("settings") /\ s # watch.settings
    /\ jobs' = With(jobs, "settings", s)
    /\ UNCHANGED <<watch, answers, typed, dismissed>>
FormSaved ==
    /\ watch.form /\ answers["settings"] # None
    /\ answers' = Heard(answers, "settings")
    /\ IF answers["settings"].ok
         THEN watch' = [watch EXCEPT !.form = FALSE] /\ jobs' = With(jobs, "reload", None)
         ELSE UNCHANGED <<watch, jobs>>
    /\ UNCHANGED <<typed, dismissed>>

-----------------------------------------------------------------------------

WatchAnswered ==
    /\ \/ Loaded \/ FileLoaded("getChapters", "chapters") \/ FileLoaded("getTranscript", "transcript")
       \/ Reloaded \/ Listed \/ Posted \/ Reacted \/ FormSaved
       \/ \E f \in Chapter \cup Segment : Edited(f)
    /\ UNCHANGED rest

\* What ends a dialog.
WatchEnd ==
    /\ Dismiss \/ CloseForm \/ \E who \in People : Confirm(who)
    /\ UNCHANGED rest

WatchInput(n) ==
    \/ /\ \/ ReadAgain \/ React(n) \/ Forget \/ ForgotElsewhere \/ Focus(n) \/ Submit \/ OpenForm
          \/ \E s \in SUBSET {"comments"} : SaveForm(s)
       /\ UNCHANGED rest
    \/ /\ \E f \in Chapter \cup Segment : SaveEdit(f, n)
       /\ UNCHANGED <<row, objects, tracks, comments, faults>>

-----------------------------------------------------------------------------
(* Properties of the page.                                                 *)

Bodies == {c.body : c \in comments}

\* A comment somebody has written is in the box or stored, through refused and
\* unheard requests, lost identities and dialogs, until he hides the section
\* himself (CommentForm's promise to keep the draft).
DraftNeverLost == typed \subseteq {watch.draft} \cup Bodies

\* A reaction whose identity dialog was closed is never posted, whatever asks
\* for an identity later.
DismissedNeverPosted ==
    \A n \in dismissed : n \notin Bodies /\ (jobs["react"] # None => jobs["react"].arg.body # n)

\* With no edit under way the page shows the titles and texts that are stored,
\* unless two edits overlapped or the end of one was not heard.
PageShowsStored ==
    \A part \in {"chapters", "transcript"} \ torn :
        (watch[part] # None /\ \A f \in Edits(part) : ~Waiting(f)) => watch[part] = tracks[part]

=============================================================================
