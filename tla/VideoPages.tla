----------------------------- MODULE VideoPages -----------------------------
(***************************************************************************)
(* One tab of a browser on the public page of a video, on the dashboard    *)
(* (the list and the page of the video), or on its settings page, with the *)
(* API behind it.                                                          *)
(***************************************************************************)
EXTENDS WatchPage, DetailPage, SettingsPage

CONSTANTS MaxInputs, MaxSettings      \* bounds: what the person at the tab does

(* What a request carries, what the API answers, and a flow of the settings *)
(* page.                                                                    *)
Statuses == {"uploaded", "queued", "processing", "ready", "error", "gone"}
Sections == SUBSET {"comments"}
Metas   == SUBSET MetaKeys
Tagged  == [keys : Metas, ver : Nat]
Row     == [status : Statuses, meta : Tagged, thumb : Int, settings : Sections, ver : Nat]
Brief   == [status : Statuses]
Posting == [body : Nat, by : People]
Titles  == [Chapter -> Nat]
Texts   == [Segment -> Nat]
Seen    == [look : Int, logo : {None} \cup Exts]
Job == [kind : Kinds, pc : {"sent", "looked", "put", "purged", "cleaned"},
        arg : {None} \cup Nat \cup Metas \cup Sections \cup Titles \cup Texts \cup Posting,
        old : Int]
Answer == [ok : BOOLEAN, body : {None} \cup Nat \cup Row \cup Brief \cup Tagged
                                  \cup Sections \cup Titles \cup Texts]
Flow == [pc : {"sent", "looked", "put", "dropped", "ok", "fail", "reading", "got", "unread", "refetch"},
         arg : {None} \cup Exts \cup Int, got : {None} \cup Exts \cup Nat \cup Seen]

\* Titles, texts and removals are not called as the other requests are.
ASSUME VideoPagesAssumption ==
    /\ Chapter \cap Segment = {}
    /\ (Chapter \cup Segment) \cap (FixedKinds \cup {"abandoned"}) = {}
    /\ Removals \cap FixedFlows = {} /\ Exts # {}
    /\ None \notin Job \cup Answer \cup Flow \cup Titles \cup Texts

vars == <<api, watch, detail, inputs, typed, dismissed, mine, meta, settings>>

Init ==
    /\ \/ /\ ApiInit({"load"}, "ready")
          /\ WatchInit(TRUE) /\ DetailInit(FALSE) /\ SettingsInit(FALSE)
       \/ /\ \E status \in {"queued", "ready", "error"} : ApiInit({"asset"}, status)
          /\ WatchInit(FALSE) /\ DetailInit(TRUE) /\ SettingsInit(FALSE)
       \/ /\ ApiInit({}, "gone")
          /\ WatchInit(FALSE) /\ DetailInit(FALSE) /\ SettingsInit(TRUE)
    /\ inputs = 0 /\ typed = {} /\ dismissed = {}

Input == inputs < MaxInputs /\ inputs' = inputs + 1

\* On the settings page nothing of a video's is asked for.
Api == page.view = "closed" /\ ApiNext /\ UNCHANGED <<watch, detail, inputs, typed, dismissed, mine, meta, settings>>
Watching ==
    /\ watch.view # "closed"
    /\ \/ (WatchAnswered \/ WatchEnd) /\ UNCHANGED <<detail, inputs, mine, meta, settings>>
       \/ Input /\ WatchInput(inputs') /\ UNCHANGED <<detail, mine, meta, settings>>
Managing ==
    /\ detail.route # "closed"
    /\ \/ (DetailAnswered \/ DetailEnd) /\ UNCHANGED inputs
       \/ (\E k \in Pages : Poll(k)) /\ UNCHANGED inputs
       \/ Input /\ DetailInput(inputs')
    /\ UNCHANGED <<rest, watch, typed, dismissed, settings>>

Setting ==
    /\ page.view # "closed"
    /\ \/ /\ \/ SettingsAnswered \/ SettingsEnd
             \/ \E f \in Flows : Handle(f) /\ UNCHANGED page
          /\ UNCHANGED <<inputs, faults>>
       \/ inputs < MaxSettings /\ Input /\ SettingsInput(inputs') /\ UNCHANGED faults
       \/ Fault /\ (\E f \in Flows : Lapse(f) \/ Abandon(f)) /\ UNCHANGED <<page, inputs>>
    /\ UNCHANGED <<row, objects, tracks, comments, jobs, answers, torn,
                   watch, detail, typed, dismissed, mine, meta>>

Next == Api \/ Watching \/ Managing \/ Setting

-----------------------------------------------------------------------------
(* What the pages have in common.                                          *)

\* Whatever somebody writes, a comment or the organization's name, is where it
\* was written or stored, until its author gives it up; and what he gave up is
\* never sent.
WritingNeverLost == DraftNeverLost /\ NameNeverLost /\ DismissedNeverPosted

\* With nothing on its way, the pages show what is stored.
PagesShowStored == PageShowsStored /\ SettingsShown

\* The pictures that rows name, a thumbnail or a logo, exist.
PicturesThere == ThumbnailThere /\ LogoThere

Spec == Init /\ [][Next]_vars

=============================================================================
