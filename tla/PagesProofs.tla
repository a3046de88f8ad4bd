---------------------------- MODULE PagesProofs ----------------------------
(***************************************************************************)
(* Four facts about VideoPages, for any people, chapters, segments, logos  *)
(* and metadata, any number of inputs and of faults:                       *)
(*                                                                         *)
(*   PagesPictures    a picture that a row names is in the bucket          *)
(*   PagesWriting     what somebody writes is not lost, nor sent after all *)
(*   PagesStored      the pages show what is stored                        *)
(*   PagesOwnChanges  a page shows its own changes, or newer ones          *)
(*                                                                         *)
(* One inductive invariant, in seven parts, each on the ones above it:     *)
(*                                                                         *)
(*   TypedInv    the types; a request carries, and an answer brings, what  *)
(*               its kind calls for; one page at a time is open            *)
(*   SettingInv  the flows of the settings page: one writes the logo, one  *)
(*               reads, and what it has read is stored or will be replaced *)
(*   ThumbInv    a thumbnail that is being uploaded has a key of its own   *)
(*   WritingInv  what is in the box has a number, which whatever is sent   *)
(*               of it carries                                             *)
(*   EditInv     of the titles, and of the texts, one edit is on its way   *)
(*               and nothing is asked for that could answer before it      *)
(*   ChangeInv   an answer that was asked for before a change of one's own *)
(*               is not listened to after it                               *)
(*   MetaInv     but one that was asked for before the metadata were saved *)
(***************************************************************************)
EXTENDS VideoPages, TLAPS

-----------------------------------------------------------------------------
(* Types.                                                                   *)

ArgFits(k, b) ==
    /\ k \in {"post", "react"} => b \in Posting
    /\ k = "thumb" => b \in Nat
    /\ k = "settings" => b \in Sections
    /\ k = "meta" => b \in Metas
    /\ k \in Chapter => b \in Titles
    /\ k \in Segment => b \in Texts
    /\ k \notin {"post", "react", "thumb", "settings", "meta"} \cup Chapter \cup Segment => b = None
Carried(j) == j \in Job /\ ArgFits(j.kind, j.arg)
Jobs(js) ==
    /\ js \in [Slots -> {None} \cup Job]
    /\ \A s \in Slots : js[s] # None =>
          /\ Carried(js[s])
          /\ IF s = "abandoned" THEN js[s].kind \in Writes ELSE js[s].kind = s

BodyFits(k, b) ==
    /\ k = "asset" => b \in Row
    /\ k = "assets" => b \in Brief
    /\ k \in {"process", "settings"} \cup Thumbs => b \in Nat
    /\ k \in {"load", "reload"} => b \in Sections
    /\ k = "meta" => b \in Tagged
    /\ k \in {"getChapters"} \cup Chapter => b \in Titles
    /\ k \in {"getTranscript"} \cup Segment => b \in Texts
Answers(as) ==
    /\ as \in [Kinds -> {None} \cup Answer]
    /\ \A k \in Kinds : as[k] # None /\ as[k].ok => BodyFits(k, as[k].body)

StoredTyped ==
    /\ row \in Row /\ objects \subseteq Int /\ comments \subseteq Posting /\ faults \in Nat
    /\ tracks \in [chapters : Titles, transcript : Texts, subtitles : Texts]
    /\ torn \subseteq {"chapters", "transcript", "thumbnail"}
ApiTyped == StoredTyped /\ Jobs(jobs) /\ Answers(answers)

View == {"closed", "loading", "ready", "error"}
WatchType ==
    [view : View, canEdit : BOOLEAN, settings : Sections,
     chapters : {None} \cup Titles, transcript : {None} \cup Texts,
     identity : {None} \cup People, saved : {None} \cup People, modal : BOOLEAN, pending : Nat,
     draft : Nat, failed : BOOLEAN, list : {"none", "shown", "failed"}, form : BOOLEAN]
WatchTyped == watch \in WatchType /\ typed \subseteq Nat /\ dismissed \subseteq Nat

Entry == [data : {None} \cup Row \cup Brief, error : BOOLEAN, stale : BOOLEAN]
DetailType ==
    [route : {"closed", "asset", "assets"}, visible : BOOLEAN, cache : [Pages -> Entry],
     confirmDelete : BOOLEAN, confirmAi : BOOLEAN, settings : BOOLEAN, thumb : BOOLEAN,
     refused : BOOLEAN]
Detailed(d) == d \in DetailType /\ d.cache["asset"].data \in {None} \cup Row
DetailTyped == Detailed(detail) /\ mine \in Nat

StoreType == [look : Int, logo : {None} \cup Exts, name : Nat, files : SUBSET Exts,
              named : SUBSET Nat, torn : SUBSET {"logo", "shown"}]
PageType == [view : View, admin : BOOLEAN, look : Int, logo : {None} \cup Exts, draft : Int,
             name : {None} \cup Nat, editing : BOOLEAN, text : Nat, meant : SUBSET Nat]
FlowFits(f, x) ==
    /\ f \in Uploads => x.arg \in Exts
    /\ f \in Saves => x.arg \in Int
    /\ f \in Renames => x.arg \in Nat /\ x.pc \in {"sent", "looked", "ok", "fail", "refetch"}
    /\ f = "org" => x.pc \in {"reading", "got", "unread"}
    /\ x.pc = "got" => IF f = "org" THEN x.got \in Nat ELSE x.got \in Seen
Running(fl) ==
    /\ fl \in [Flows -> {None} \cup Flow]
    /\ \A f \in Flows : fl[f] # None => FlowFits(f, fl[f])
SettingsTyped == store \in StoreType /\ page \in PageType /\ Running(flow)

Typed == ApiTyped /\ WatchTyped /\ DetailTyped /\ SettingsTyped /\ inputs \in Nat

\* The tab is on one of the three pages, and only the dashboard deletes.
OnePage ==
    /\ watch.view = "closed" \/ detail.route = "closed"
    /\ page.view # "closed" => watch.view = "closed" /\ detail.route = "closed"
    /\ watch.view = "closed" => typed = {} /\ dismissed = {}
    /\ detail.route = "closed" => \A s \in Slots : jobs[s] # None => jobs[s].kind # "delete"

-----------------------------------------------------------------------------
(* Requests.                                                                *)

Asked(k, b) == [kind |-> k, pc |-> "sent", arg |-> b, old |-> 0]

LEMMA KindsDiffer ==
    /\ "abandoned" \notin Kinds /\ Chapter \cap Segment = {}
    /\ \A k \in Chapter \cup Segment : k \notin FixedKinds
    /\ Reads \subseteq FixedKinds /\ Changes \subseteq FixedKinds /\ Reads \cap Changes = {}
    /\ Kinds = FixedKinds \cup Chapter \cup Segment
    /\ Slots = Kinds \cup {"abandoned"} /\ Writes \subseteq Kinds
    /\ Thumbs \subseteq Changes /\ Reads \subseteq Kinds
BY VideoPagesAssumption
   DEF VideoPagesAssumption, Kinds, Slots, FixedKinds, Reads, Writes, Changes, Thumbs, Public, Files

LEMMA NotNone ==
    /\ \A j \in Job : j # None
    /\ \A a \in Answer : a # None
    /\ \A x \in Flow : x # None
    /\ \A t \in Titles \cup Texts : t # None
BY VideoPagesAssumption DEF VideoPagesAssumption

LEMMA AskedIs ==
    ASSUME NEW k \in Kinds, NEW b, ArgFits(k, b)
    PROVE  /\ Carried(Asked(k, b)) /\ Asked(k, b) # None
           /\ Asked(k, b).kind = k /\ Asked(k, b).pc = "sent" /\ Asked(k, b).arg = b
           /\ Asked(k, b).old = 0
<1>1. b \in {None} \cup Nat \cup Metas \cup Sections \cup Titles \cup Texts \cup Posting
    <2>1. CASE k \in {"post", "react", "thumb", "settings", "meta"}
        BY <2>1 DEF ArgFits
    <2>2. CASE k \in Chapter \cup Segment
        BY <2>2 DEF ArgFits
    <2>3. CASE k \notin {"post", "react", "thumb", "settings", "meta"} \cup Chapter \cup Segment
        BY <2>3 DEF ArgFits
    <2> QED
        BY <2>1, <2>2, <2>3
<1>2. Asked(k, b) \in Job
    BY <1>1 DEF Asked, Job
<1> QED
    BY <1>2, NotNone DEF Asked, Carried

\* One more request.
LEMMA AskedOne ==
    ASSUME NEW js, Jobs(js), NEW k \in Kinds, NEW b, ArgFits(k, b)
    PROVE  /\ Jobs(With(js, k, b))
           /\ With(js, k, b)[k] = Asked(k, b)
           /\ \A s \in Slots : s # k => With(js, k, b)[s] = js[s]
<1>1. k \in Slots /\ k # "abandoned"
    BY KindsDiffer
<1>2. /\ Carried(Asked(k, b)) /\ Asked(k, b) # None /\ Asked(k, b).kind = k
    BY AskedIs
<1>3. With(js, k, b) = [js EXCEPT ![k] = Asked(k, b)]
    BY DEF With, Asked
<1>4. js \in [Slots -> {None} \cup Job]
    BY DEF Jobs
<1>5. /\ With(js, k, b) \in [Slots -> {None} \cup Job]
      /\ With(js, k, b)[k] = Asked(k, b)
      /\ \A s \in Slots : s # k => With(js, k, b)[s] = js[s]
    BY <1>1, <1>2, <1>3, <1>4 DEF Carried
<1> QED
    BY <1>1, <1>2, <1>5 DEF Jobs

LEMMA HeardOne ==
    ASSUME NEW as, Answers(as), NEW k \in Kinds
    PROVE  /\ Answers(Heard(as, k)) /\ Heard(as, k)[k] = None
           /\ \A l \in Kinds : l # k => Heard(as, k)[l] = as[l]
BY DEF Answers, Heard

\* A handler goes on to another statement, having read the row or not.
LEMMA HandlerGoesOn ==
    ASSUME Jobs(jobs), NEW s \in Slots, jobs[s] # None,
           NEW pc \in {"sent", "looked", "put", "purged", "cleaned"}, NEW old \in Int,
           jobs' = [jobs EXCEPT ![s].pc = pc, ![s].old = old]
    PROVE  /\ Jobs(jobs') /\ \A t \in Slots : t # s => jobs'[t] = jobs[t]
           /\ jobs'[s] # None /\ jobs'[s].kind = jobs[s].kind /\ jobs'[s].arg = jobs[s].arg
           /\ jobs'[s].pc = pc /\ jobs'[s].old = old
<1> DEFINE j == [[jobs[s] EXCEPT !.pc = pc] EXCEPT !.old = old]
<1>1. jobs \in [Slots -> {None} \cup Job] /\ jobs[s] \in Job
    BY DEF Jobs
<1>2. j \in Job /\ j.kind = jobs[s].kind /\ j.arg = jobs[s].arg /\ j.pc = pc /\ j.old = old
    BY <1>1 DEF Job
<1>3. jobs' = [jobs EXCEPT ![s] = j]
    BY <1>1
<1> HIDE DEF j
<1>4. jobs' \in [Slots -> {None} \cup Job] /\ jobs'[s] = j /\ \A t \in Slots : t # s => jobs'[t] = jobs[t]
    BY <1>1, <1>2, <1>3
<1>5. j # None
    BY <1>2, NotNone
<1>6. Carried(j)
    BY <1>2 DEF Jobs, Carried
<1> QED
    BY <1>2, <1>4, <1>5, <1>6 DEF Jobs

LEMMA HandlerGoes ==
    ASSUME Jobs(jobs), NEW s \in Slots, jobs[s] # None,
           NEW pc \in {"sent", "looked", "put", "purged", "cleaned"}, Go(s, pc)
    PROVE  /\ Jobs(jobs') /\ \A t \in Slots : t # s => jobs'[t] = jobs[t]
           /\ jobs'[s] # None /\ jobs'[s].kind = jobs[s].kind /\ jobs'[s].arg = jobs[s].arg
           /\ jobs'[s].pc = pc /\ jobs'[s].old = jobs[s].old
           /\ answers' = answers
<1> DEFINE old == jobs[s].old
<1>1. jobs \in [Slots -> {None} \cup Job] /\ jobs[s] \in Job /\ old \in Int
    BY DEF Jobs, Job
<1>2. [jobs EXCEPT ![s].pc = pc] = [jobs EXCEPT ![s].pc = pc, ![s].old = old]
    BY <1>1 DEF Job
<1>3. jobs' = [jobs EXCEPT ![s].pc = pc, ![s].old = old]
    BY <1>2 DEF Go
<1> HIDE DEF old
<1>4. /\ Jobs(jobs') /\ \A t \in Slots : t # s => jobs'[t] = jobs[t]
      /\ jobs'[s] # None /\ jobs'[s].kind = jobs[s].kind /\ jobs'[s].arg = jobs[s].arg
      /\ jobs'[s].pc = pc /\ jobs'[s].old = old
    BY <1>1, <1>3, HandlerGoesOn
<1> QED
    BY <1>4 DEF Go, old

\* A handler ends with an answer, unless its page has given it up.
LEMMA HandlerEnds ==
    ASSUME Jobs(jobs), Answers(answers), NEW s \in Slots, NEW ok \in BOOLEAN, NEW b,
           s # "abandoned" => [ok |-> ok, body |-> b] \in Answer,
           s # "abandoned" /\ ok => BodyFits(s, b), End(s, ok, b)
    PROVE  /\ Jobs(jobs') /\ jobs'[s] = None /\ \A t \in Slots : t # s => jobs'[t] = jobs[t]
           /\ Answers(answers')
           /\ s = "abandoned" => answers' = answers
           /\ s # "abandoned" => /\ answers'[s] = [ok |-> ok, body |-> b] /\ answers'[s] # None
                                 /\ answers'[s].ok = ok /\ answers'[s].body = b
           /\ \A k \in Kinds : k # s => answers'[k] = answers[k]
<1>1. Jobs(jobs') /\ jobs'[s] = None /\ \A t \in Slots : t # s => jobs'[t] = jobs[t]
    BY DEF Jobs, End
<1>2. CASE s = "abandoned"
    BY <1>1, <1>2, KindsDiffer DEF End
<1>3. CASE s # "abandoned"
    <2> DEFINE a == [ok |-> ok, body |-> b]
    <2>1. s \in Kinds
        BY <1>3, KindsDiffer
    <2>2. a \in Answer /\ a.ok = ok /\ a.body = b /\ a # None
        BY <1>3, NotNone
    <2>3. answers' = [answers EXCEPT ![s] = a]
        BY <1>3 DEF End
    <2> HIDE DEF a
    <2>4. /\ answers' \in [Kinds -> {None} \cup Answer] /\ answers'[s] = a
          /\ \A k \in Kinds : k # s => answers'[k] = answers[k]
        BY <2>1, <2>2, <2>3 DEF Answers
    <2>5. Answers(answers')
        BY <1>3, <2>1, <2>2, <2>4 DEF Answers
    <2> QED
        BY <1>1, <1>3, <2>2, <2>4, <2>5 DEF a
<1> QED
    BY <1>2, <1>3

-----------------------------------------------------------------------------
(* The public page.                                                         *)

Asks(ks) ==
    /\ Jobs(jobs')
    /\ \A s \in Slots : \/ jobs'[s] = jobs[s]
                        \/ /\ s \in ks \cap Kinds /\ jobs'[s] # None
                           /\ jobs'[s].kind = s /\ jobs'[s].pc = "sent" /\ jobs'[s].old = 0
Hears(ks) ==
    /\ Answers(answers')
    /\ \A k \in Kinds : answers'[k] = answers[k] \/ (k \in ks /\ answers'[k] = None)
WatchKinds == {"load", "reload", "list", "getChapters", "getTranscript", "post", "react", "settings"}
                \cup Chapter \cup Segment
WatchMoves ==
    /\ UNCHANGED <<row, objects, tracks, comments, faults>>
    /\ torn' = torn \/ torn' \in {torn \cup {"chapters"}, torn \cup {"transcript"}}
    /\ Asks(WatchKinds) /\ Hears(WatchKinds)
    /\ watch' \in WatchType /\ watch'.view # "closed"
    /\ typed' \subseteq Nat /\ dismissed' \subseteq Nat

LEMMA AsksOne ==
    ASSUME Jobs(jobs), NEW k \in Kinds, NEW b, ArgFits(k, b), NEW ks, k \in ks,
           jobs' = With(jobs, k, b)
    PROVE  Asks(ks)
<1>1. /\ Jobs(jobs') /\ jobs'[k] = Asked(k, b)
      /\ \A s \in Slots : s # k => jobs'[s] = jobs[s]
    BY AskedOne
<1>2. Asked(k, b) # None /\ Asked(k, b).kind = k /\ Asked(k, b).pc = "sent" /\ Asked(k, b).old = 0
    BY AskedIs
<1> QED
    BY <1>1, <1>2 DEF Asks

LEMMA AsksNone == Jobs(jobs) /\ jobs' = jobs => \A ks : Asks(ks)
BY DEF Asks
LEMMA HearsNone == Answers(answers) /\ answers' = answers => \A ks : Hears(ks)
BY DEF Hears
LEMMA HearsOne ==
    ASSUME Answers(answers), NEW k \in Kinds, NEW ks, k \in ks, answers' = Heard(answers, k)
    PROVE  Hears(ks)
BY HeardOne DEF Hears

LEMMA PageKinds ==
    /\ WatchKinds \subseteq Kinds
    /\ {"load", "reload", "list", "getChapters", "getTranscript", "post", "react", "settings",
        "asset", "assets", "meta", "process", "delete", "thumb", "unthumb"} \subseteq FixedKinds
    /\ \A b : /\ ArgFits("list", None) /\ ArgFits("getChapters", None) /\ ArgFits("getTranscript", None)
              /\ ArgFits("reload", None) /\ ArgFits("asset", None) /\ ArgFits("assets", None)
              /\ ArgFits("process", None) /\ ArgFits("delete", None) /\ ArgFits("unthumb", None)
              /\ b \in Posting => ArgFits("post", b) /\ ArgFits("react", b)
              /\ b \in Sections => ArgFits("settings", b)
              /\ b \in Nat => ArgFits("thumb", b)
              /\ b \in Metas => ArgFits("meta", b)
              /\ \A f \in Chapter : b \in Titles => ArgFits(f, b)
              /\ \A f \in Segment : b \in Texts => ArgFits(f, b)
<1>1. {"load", "reload", "list", "getChapters", "getTranscript", "post", "react", "settings",
        "asset", "assets", "meta", "process", "delete", "thumb", "unthumb"} \subseteq FixedKinds
    BY DEF FixedKinds, Reads, Changes, Thumbs, Public, Files
<1>2. WatchKinds \subseteq Kinds
    BY <1>1, KindsDiffer DEF WatchKinds
<1>3. \A k \in FixedKinds : k \notin Chapter \cup Segment
    BY KindsDiffer
<1>4. ASSUME NEW b
      PROVE  /\ ArgFits("list", None) /\ ArgFits("getChapters", None) /\ ArgFits("getTranscript", None)
             /\ ArgFits("reload", None) /\ ArgFits("asset", None) /\ ArgFits("assets", None)
             /\ ArgFits("process", None) /\ ArgFits("delete", None) /\ ArgFits("unthumb", None)
             /\ b \in Posting => ArgFits("post", b) /\ ArgFits("react", b)
             /\ b \in Sections => ArgFits("settings", b)
             /\ b \in Nat => ArgFits("thumb", b)
             /\ b \in Metas => ArgFits("meta", b)
    BY <1>1, <1>3 DEF ArgFits
<1>5. ASSUME NEW b
      PROVE  /\ \A f \in Chapter : b \in Titles => ArgFits(f, b)
             /\ \A f \in Segment : b \in Texts => ArgFits(f, b)
    BY <1>1, <1>3, KindsDiffer DEF ArgFits
<1> QED
    BY <1>1, <1>2, <1>4, <1>5

LEMMA PostTyped ==
    ASSUME NEW text \in Nat, NEW who \in {None} \cup People, who # None
    PROVE  [body |-> text, by |-> who] \in Posting
BY DEF Posting

\* A part of what the public page shows changes, and its view does not.
LEMMA WatchFields ==
    ASSUME NEW w \in WatchType, NEW b \in BOOLEAN, NEW n \in Nat, NEW who \in {None} \cup People
    PROVE  /\ [w EXCEPT !.form = b] \in WatchType /\ [w EXCEPT !.form = b].view = w.view
           /\ [w EXCEPT !.modal = b] \in WatchType /\ [w EXCEPT !.modal = b].view = w.view
           /\ [w EXCEPT !.failed = b] \in WatchType /\ [w EXCEPT !.failed = b].view = w.view
           /\ [w EXCEPT !.canEdit = b] \in WatchType
           /\ [w EXCEPT !.draft = n] \in WatchType /\ [w EXCEPT !.draft = n].view = w.view
           /\ [w EXCEPT !.pending = n] \in WatchType /\ [w EXCEPT !.pending = n].view = w.view
           /\ [w EXCEPT !.identity = who] \in WatchType /\ [w EXCEPT !.identity = who].view = w.view
<1>1. /\ [w EXCEPT !.form = b] \in WatchType /\ [w EXCEPT !.form = b].view = w.view
      /\ [w EXCEPT !.modal = b] \in WatchType /\ [w EXCEPT !.modal = b].view = w.view
    BY DEF WatchType
<1>2. /\ [w EXCEPT !.failed = b] \in WatchType /\ [w EXCEPT !.failed = b].view = w.view
      /\ [w EXCEPT !.canEdit = b] \in WatchType
    BY DEF WatchType
<1>3. /\ [w EXCEPT !.draft = n] \in WatchType /\ [w EXCEPT !.draft = n].view = w.view
      /\ [w EXCEPT !.pending = n] \in WatchType /\ [w EXCEPT !.pending = n].view = w.view
    BY DEF WatchType
<1>4. [w EXCEPT !.identity = who] \in WatchType /\ [w EXCEPT !.identity = who].view = w.view
    BY DEF WatchType
<1> QED
    BY <1>1, <1>2, <1>3, <1>4

LEMMA WatchAnswers ==
    ASSUME ApiTyped, WatchTyped, watch.view # "closed", WatchAnswered
    PROVE  WatchMoves
<1> USE DEF ApiTyped, WatchTyped
<1>1. UNCHANGED <<row, objects, tracks, comments, torn, faults>>
    BY DEF WatchAnswered, rest
<1>2. CASE Loaded
    <2>1. /\ "load" \in Kinds /\ answers' = Heard(answers, "load") /\ UNCHANGED <<typed, dismissed>>
          /\ "list" \in Kinds /\ "getChapters" \in Kinds /\ "getTranscript" \in Kinds
        BY <1>2, PageKinds, KindsDiffer DEF Loaded
    <2>2. Hears(WatchKinds)
        BY <2>1, HearsOne DEF WatchKinds
    <2>3. CASE answers["load"].ok
        <3>1. answers["load"].body \in Sections
            BY <1>2, <2>1, <2>3 DEF Loaded, Answers, BodyFits
        <3>2. watch' \in WatchType /\ watch'.view = "ready"
            <4>1. PICK c \in BOOLEAN : watch' = [watch EXCEPT !.view = "ready", !.canEdit = c,
                                                      !.settings = answers["load"].body]
                BY <1>2, <2>3 DEF Loaded
            <4> DEFINE w == [watch EXCEPT !.view = "ready"]
                       v == [w EXCEPT !.canEdit = c]
            <4>2. w \in WatchType /\ w.view = "ready"
                BY DEF WatchType, View
            <4>3. v \in WatchType /\ v.view = "ready"
                BY <4>2 DEF WatchType
            <4> HIDE DEF v
            <4>4. [v EXCEPT !.settings = answers["load"].body] \in WatchType
                BY <3>1, <4>3 DEF WatchType
            <4> QED
                BY <4>1, <4>3, <4>4 DEF v, WatchType
        <3> DEFINE a == With(jobs, "getChapters", None)
                   b == With(a, "getTranscript", None)
                   c == With(b, "list", None)
        <3>3. /\ Jobs(a) /\ a["getChapters"] = Asked("getChapters", None)
              /\ \A s \in Slots : s # "getChapters" => a[s] = jobs[s]
            BY <2>1, AskedOne, PageKinds
        <3>4. jobs' \in {b, c}
            BY <1>2, <2>3 DEF Loaded
        <3> HIDE DEF a
        <3>5. /\ Jobs(b) /\ b["getTranscript"] = Asked("getTranscript", None)
              /\ \A s \in Slots : s # "getTranscript" => b[s] = a[s]
            BY <2>1, <3>3, AskedOne, PageKinds
        <3> HIDE DEF b
        <3>6. /\ Jobs(c) /\ c["list"] = Asked("list", None)
              /\ \A s \in Slots : s # "list" => c[s] = b[s]
            BY <2>1, <3>5, AskedOne, PageKinds
        <3> HIDE DEF c
        <3>7. \A k \in {"list", "getChapters", "getTranscript"} :
                /\ k \in WatchKinds \cap Kinds /\ Asked(k, None) # None
                /\ Asked(k, None).kind = k /\ Asked(k, None).pc = "sent" /\ Asked(k, None).old = 0
            BY <2>1, AskedIs, PageKinds DEF WatchKinds
        <3>8. Asks(WatchKinds)
            <4>1. CASE jobs' = b
                BY <3>3, <3>5, <3>7, <4>1 DEF Asks
            <4>2. CASE jobs' = c
                BY <3>3, <3>5, <3>6, <3>7, <4>2 DEF Asks
            <4> QED
                BY <3>4, <4>1, <4>2
        <3> QED
            BY <1>1, <2>1, <2>2, <3>2, <3>8 DEF WatchMoves
    <2>4. CASE ~answers["load"].ok
        <3>1. watch' \in WatchType /\ watch'.view = "error" /\ jobs' = jobs
            BY <1>2, <2>4 DEF Loaded, WatchType, View
        <3> QED
            BY <1>1, <2>1, <2>2, <3>1, AsksNone DEF WatchMoves
    <2> QED
        BY <2>3, <2>4
<1>3. ASSUME NEW k, NEW part, <<k, part>> \in {<<"getChapters", "chapters">>, <<"getTranscript", "transcript">>},
             FileLoaded(k, part)
      PROVE  WatchMoves
    <2>1. k \in Kinds /\ k \in WatchKinds
        BY <1>3, PageKinds, KindsDiffer DEF WatchKinds
    <2>2. Hears(WatchKinds) /\ Asks(WatchKinds) /\ UNCHANGED <<typed, dismissed>>
        BY <1>3, <2>1, HearsOne, AsksNone DEF FileLoaded
    <2>3. watch' \in WatchType /\ watch'.view = watch.view
        <3>1. CASE answers[k].ok
            <4>1. BodyFits(k, answers[k].body) /\ watch' = [watch EXCEPT ![part] = answers[k].body]
                BY <1>3, <2>1, <3>1 DEF FileLoaded, Answers
            <4>2. CASE k = "getChapters" /\ part = "chapters"
                BY <4>1, <4>2 DEF BodyFits, WatchType
            <4>3. CASE k = "getTranscript" /\ part = "transcript"
                BY <4>1, <4>3 DEF BodyFits, WatchType
            <4> QED
                BY <1>3, <4>2, <4>3
        <3>2. CASE ~answers[k].ok
            BY <1>3, <3>2 DEF FileLoaded
        <3> QED
            BY <3>1, <3>2
    <2> QED
        BY <1>1, <2>2, <2>3 DEF WatchMoves
<1>4. CASE Reloaded
    <2>1. "reload" \in Kinds /\ "list" \in Kinds /\ answers' = Heard(answers, "reload")
        BY <1>4, PageKinds, KindsDiffer DEF Reloaded
    <2>2. Hears(WatchKinds)
        BY <2>1, HearsOne DEF WatchKinds
    <2>3. jobs' = jobs \/ jobs' = With(jobs, "list", None)
        BY <1>4 DEF Reloaded
    <2>4. Asks(WatchKinds)
        BY <2>1, <2>3, AsksOne, AsksNone, PageKinds DEF WatchKinds
    <2> DEFINE s == IF answers["reload"].ok THEN answers["reload"].body ELSE watch.settings
               w == [watch EXCEPT !.settings = s]
    <2>5. s \in Sections
        BY <1>4, <2>1 DEF Reloaded, Answers, BodyFits, WatchType
    <2>6. /\ watch' = w \/ watch' = Unmounted(w)
          /\ typed' = typed \/ typed' = typed \ {watch.draft}
          /\ dismissed' = dismissed
        BY <1>4 DEF Reloaded
    <2> HIDE DEF s
    <2>7. w \in WatchType /\ w.view = watch.view
        BY <2>5 DEF WatchType
    <2> HIDE DEF w
    <2>8. Unmounted(w) \in WatchType /\ Unmounted(w).view = w.view
        <3> DEFINE v == [w EXCEPT !.draft = 0]
        <3>1. v \in WatchType /\ v.view = w.view
            BY <2>7, WatchFields
        <3>2. Unmounted(w) = [v EXCEPT !.failed = FALSE]
            BY DEF Unmounted
        <3> HIDE DEF v
        <3>3. [v EXCEPT !.failed = FALSE] \in WatchType /\ [v EXCEPT !.failed = FALSE].view = v.view
            BY <3>1, WatchFields
        <3> QED
            BY <3>1, <3>2, <3>3
    <2> QED
        BY <1>1, <2>2, <2>4, <2>6, <2>7, <2>8 DEF WatchMoves
<1>5. CASE Listed
    <2>1. "list" \in Kinds
        BY PageKinds, KindsDiffer
    <2>2. Hears(WatchKinds) /\ Asks(WatchKinds) /\ UNCHANGED <<typed, dismissed>>
        BY <1>5, <2>1, HearsOne, AsksNone DEF Listed, WatchKinds
    <2>3. watch' \in WatchType /\ watch'.view = watch.view
        BY <1>5 DEF Listed, WatchType
    <2> QED
        BY <1>1, <2>2, <2>3 DEF WatchMoves
<1>6. CASE Posted
    <2>1. "post" \in Kinds
        BY PageKinds, KindsDiffer
    <2>2. Hears(WatchKinds) /\ Asks(WatchKinds) /\ UNCHANGED <<typed, dismissed>>
        BY <1>6, <2>1, HearsOne, AsksNone DEF Posted, WatchKinds
    <2>3. watch' \in WatchType /\ watch'.view = watch.view
        <3>1. CASE answers["post"].ok
            BY <1>6, <3>1 DEF Posted, WatchType
        <3>2. CASE ~answers["post"].ok
            <4> DEFINE b == "comments" \in watch.settings
            <4>1. b \in BOOLEAN /\ watch' = [watch EXCEPT !.failed = b]
                BY <1>6, <3>2 DEF Posted
            <4> HIDE DEF b
            <4> QED
                BY <4>1 DEF WatchType
        <3> QED
            BY <3>1, <3>2
    <2> QED
        BY <1>1, <2>2, <2>3 DEF WatchMoves
<1>7. CASE Reacted
    <2>1. "react" \in Kinds
        BY PageKinds, KindsDiffer
    <2> QED
        BY <1>1, <1>7, <2>1, HearsOne, AsksNone DEF Reacted, WatchKinds, WatchMoves
<1>8. CASE FormSaved
    <2>1. "settings" \in Kinds /\ "reload" \in Kinds
        BY PageKinds, KindsDiffer
    <2>2. Hears(WatchKinds) /\ UNCHANGED <<typed, dismissed>>
        BY <1>8, <2>1, HearsOne DEF FormSaved, WatchKinds
    <2>3. jobs' = jobs \/ jobs' = With(jobs, "reload", None)
        BY <1>8 DEF FormSaved
    <2>4. Asks(WatchKinds)
        BY <2>1, <2>3, AsksOne, AsksNone, PageKinds DEF WatchKinds
    <2>5. watch' \in WatchType /\ watch'.view = watch.view
        BY <1>8, WatchFields DEF FormSaved
    <2> QED
        BY <1>1, <2>2, <2>4, <2>5 DEF WatchMoves
<1>9. ASSUME NEW f \in Chapter \cup Segment, Edited(f)
      PROVE  WatchMoves
    <2>1. f \in Kinds /\ f \in WatchKinds
        BY KindsDiffer DEF WatchKinds
    <2>2. Hears(WatchKinds) /\ Asks(WatchKinds) /\ UNCHANGED <<typed, dismissed>>
        BY <1>9, <2>1, HearsOne, AsksNone DEF Edited
    <2>3. watch' \in WatchType /\ watch'.view = watch.view
        <3>1. CASE answers[f].ok
            <4>1. /\ BodyFits(f, answers[f].body)
                  /\ watch' = [watch EXCEPT ![PartName(f)] = answers[f].body]
                BY <1>9, <2>1, <3>1 DEF Edited, Answers
            <4>2. CASE f \in Chapter
                BY <4>1, <4>2 DEF BodyFits, WatchType, PartName
            <4>3. CASE f \in Segment
                <5>1. PartName(f) = "transcript"
                    BY <4>3, KindsDiffer DEF PartName
                <5> QED
                    BY <4>1, <4>3, <5>1 DEF BodyFits, WatchType
            <4> QED
                BY <4>2, <4>3
        <3>2. CASE ~answers[f].ok
            BY <1>9, <3>2 DEF Edited
        <3> QED
            BY <3>1, <3>2
    <2> QED
        BY <1>1, <2>2, <2>3 DEF WatchMoves
<1> QED
    BY <1>2, <1>3, <1>4, <1>5, <1>6, <1>7, <1>8, <1>9 DEF WatchAnswered

LEMMA WatchEnds ==
    ASSUME ApiTyped, WatchTyped, watch.view # "closed", WatchEnd
    PROVE  WatchMoves
<1> USE DEF ApiTyped, WatchTyped
<1>1. UNCHANGED <<row, objects, tracks, comments, torn, faults>>
    BY DEF WatchEnd, rest
<1>2. CASE Dismiss
    <2>1. Hears(WatchKinds) /\ Asks(WatchKinds)
        BY <1>2, HearsNone, AsksNone DEF Dismiss
    <2>2. /\ watch' \in WatchType /\ watch'.view = watch.view
          /\ typed' = typed /\ dismissed' \subseteq Nat
        BY <1>2 DEF Dismiss, Close, WatchType
    <2> QED
        BY <1>1, <2>1, <2>2 DEF WatchMoves
<1>3. CASE CloseForm
    <2>1. Hears(WatchKinds) /\ Asks(WatchKinds)
        BY <1>3, HearsNone, AsksNone DEF CloseForm
    <2>2. watch' \in WatchType /\ watch'.view = watch.view /\ UNCHANGED <<typed, dismissed>>
        BY <1>3 DEF CloseForm, WatchType
    <2> QED
        BY <1>1, <2>1, <2>2 DEF WatchMoves
<1>4. ASSUME NEW who \in People, Confirm(who)
      PROVE  WatchMoves
    <2>1. "react" \in Kinds /\ "react" \in WatchKinds
        BY PageKinds, KindsDiffer DEF WatchKinds
    <2>2. Hears(WatchKinds) /\ UNCHANGED <<typed, dismissed>>
        BY <1>4, HearsNone DEF Confirm
    <2>3. [body |-> watch.pending, by |-> who] \in Posting
        BY DEF Posting, WatchType
    <2>4. jobs' = jobs \/ jobs' = With(jobs, "react", [body |-> watch.pending, by |-> who])
        BY <1>4 DEF Confirm, Post
    <2>5. Asks(WatchKinds)
        BY <2>1, <2>3, <2>4, AsksOne, AsksNone, PageKinds
    <2>6. watch' \in WatchType /\ watch'.view = watch.view
        BY <1>4 DEF Confirm, WatchType
    <2> QED
        BY <1>1, <2>2, <2>5, <2>6 DEF WatchMoves
<1> QED
    BY <1>2, <1>3, <1>4 DEF WatchEnd

LEMMA WatchInputs ==
    ASSUME ApiTyped, WatchTyped, watch.view # "closed", NEW n \in Nat, WatchInput(n)
    PROVE  WatchMoves
<1> USE DEF ApiTyped, WatchTyped
<1>0. /\ UNCHANGED <<row, objects, tracks, comments, faults>>
      /\ torn' = torn \/ \E f \in Chapter \cup Segment : SaveEdit(f, n)
    BY DEF WatchInput, rest
<1>1. ASSUME answers' = answers, torn' = torn, Asks(WatchKinds), watch' \in WatchType,
             watch'.view = watch.view, typed' \in {typed, typed \cup {n}}, dismissed' = dismissed
      PROVE  WatchMoves
    BY <1>0, <1>1, HearsNone DEF WatchMoves
<1>2. /\ {"list", "post", "react", "settings"} \subseteq Kinds
      /\ {"list", "post", "react", "settings"} \subseteq WatchKinds
    BY PageKinds, KindsDiffer DEF WatchKinds
<1>3. CASE ReadAgain /\ torn' = torn
    <2>1. Asks(WatchKinds)
        BY <1>2, <1>3, AsksOne, PageKinds DEF ReadAgain
    <2> QED
        BY <1>1, <1>3, <2>1 DEF ReadAgain
<1>4. CASE React(n) /\ torn' = torn
    <2>1. CASE watch.saved # None
        <3>1. [body |-> n, by |-> watch.saved] \in Posting
            BY <2>1 DEF Posting, WatchType
        <3>2. Asks(WatchKinds)
            BY <1>2, <1>4, <2>1, <3>1, AsksOne, PageKinds DEF React, Post
        <3>3. watch' \in WatchType /\ watch'.view = watch.view
            <4>1. watch' = [watch EXCEPT !.identity = watch.saved]
                BY <1>4, <2>1 DEF React
            <4>2. watch.saved \in {None} \cup People
                BY DEF WatchType
            <4> QED
                BY <4>1, <4>2, WatchFields
        <3> QED
            BY <1>1, <1>4, <3>2, <3>3 DEF React
    <2>2. CASE watch.saved = None
        <3>1. Asks(WatchKinds)
            BY <1>4, <2>2, AsksNone DEF React
        <3>2. watch' \in WatchType /\ watch'.view = watch.view
            <4> DEFINE v == [watch EXCEPT !.pending = n]
            <4>1. watch' = [v EXCEPT !.modal = TRUE]
                BY <1>4, <2>2 DEF React
            <4>2. v \in WatchType /\ v.view = watch.view
                BY WatchFields
            <4> HIDE DEF v
            <4> QED
                BY <4>1, <4>2, WatchFields
        <3> QED
            BY <1>1, <1>4, <3>1, <3>2 DEF React
    <2> QED
        BY <2>1, <2>2
<1>5. CASE (Forget \/ ForgotElsewhere \/ OpenForm) /\ torn' = torn
    <2>1. /\ jobs' = jobs /\ answers' = answers /\ typed' = typed /\ dismissed' = dismissed
          /\ watch' \in WatchType /\ watch'.view = watch.view
        BY <1>5 DEF Forget, ForgotElsewhere, OpenForm, WatchType
    <2> QED
        BY <1>1, <1>5, <2>1, AsksNone
<1>6. CASE Focus(n) /\ torn' = torn
    <2>1. /\ jobs' = jobs /\ answers' = answers /\ dismissed' = dismissed
          /\ typed' \in {typed, typed \cup {n}}
        BY <1>6 DEF Focus
    <2>2. watch' \in WatchType /\ watch'.view = watch.view
        <3>1. watch' \in {[watch EXCEPT !.modal = TRUE], [watch EXCEPT !.draft = n]}
            BY <1>6 DEF Focus
        <3>2. CASE watch' = [watch EXCEPT !.modal = TRUE]
            BY <3>2, WatchFields
        <3>3. CASE watch' = [watch EXCEPT !.draft = n]
            BY <3>3, WatchFields
        <3> QED
            BY <3>1, <3>2, <3>3
    <2> QED
        BY <1>1, <1>6, <2>1, <2>2, AsksNone
<1>7. CASE Submit /\ torn' = torn
    <2>1. CASE watch.identity = None
        <3>1. /\ jobs' = jobs /\ UNCHANGED <<answers, typed, dismissed>>
              /\ watch' = [watch EXCEPT !.modal = TRUE]
            BY <1>7, <2>1 DEF Submit
        <3> QED
            BY <1>1, <1>7, <3>1, AsksNone, WatchFields
    <2>2. CASE watch.identity # None
        <3>1. [body |-> watch.draft, by |-> watch.identity] \in Posting
            BY <2>2 DEF Posting, WatchType
        <3>2. Asks(WatchKinds)
            BY <1>2, <1>7, <2>2, <3>1, AsksOne, PageKinds DEF Submit, Post
        <3>3. watch' \in WatchType /\ watch'.view = watch.view
            <4>1. watch' = [watch EXCEPT !.failed = FALSE]
                BY <1>7, <2>2 DEF Submit, Submitted
            <4> QED
                BY <4>1, WatchFields
        <3> QED
            BY <1>1, <1>7, <3>2, <3>3 DEF Submit
    <2> QED
        BY <2>1, <2>2
<1>8. ASSUME NEW s \in SUBSET {"comments"}, SaveForm(s), torn' = torn
      PROVE  WatchMoves
    <2>1. Asks(WatchKinds)
        BY <1>2, <1>8, AsksOne, PageKinds DEF SaveForm, Sections
    <2> QED
        BY <1>1, <1>8, <2>1 DEF SaveForm
<1>9. ASSUME NEW f \in Chapter \cup Segment, SaveEdit(f, n)
      PROVE  WatchMoves
    <2> DEFINE part == PartName(f)
               all == [watch[part] EXCEPT ![f] = n]
    <2>1. f \in Kinds /\ f \in WatchKinds
        BY KindsDiffer DEF WatchKinds
    <2>2. /\ answers' = answers /\ typed' = typed /\ dismissed' = dismissed /\ watch' = watch
          /\ jobs' = With(jobs, f, all)
          /\ torn' = torn \/ torn' = torn \cup {part}
          /\ watch[part] # None
        BY <1>9 DEF SaveEdit, WhileSaved
    <2>3. part = "chapters" \/ part = "transcript"
        BY DEF PartName
    <2>4. ArgFits(f, all)
        <3>1. CASE f \in Chapter
            <4>1. part = "chapters" /\ watch.chapters \in Titles
                BY <2>2, <3>1 DEF PartName, WatchType
            <4>2. all \in Titles
                BY <3>1, <4>1 DEF Titles
            <4> QED
                BY <3>1, <4>2, PageKinds
        <3>2. CASE f \in Segment
            <4>1. part = "transcript" /\ watch.transcript \in Texts
                BY <2>2, <3>2, KindsDiffer DEF PartName, WatchType
            <4>2. all \in Texts
                BY <3>2, <4>1 DEF Texts
            <4> QED
                BY <3>2, <4>2, PageKinds
        <3> QED
            BY <3>1, <3>2
    <2> HIDE DEF all, part
    <2>5. Asks(WatchKinds)
        BY <2>1, <2>2, <2>4, AsksOne
    <2> QED
        BY <1>0, <2>2, <2>3, <2>5, HearsNone DEF WatchMoves
<1> QED
    BY <1>3, <1>4, <1>5, <1>6, <1>7, <1>8, <1>9 DEF WatchInput, rest

-----------------------------------------------------------------------------
(* The dashboard.                                                           *)

DetailKinds == {"asset", "assets", "meta", "process", "delete", "settings", "thumb", "unthumb"}
DetailMoves ==
    /\ UNCHANGED <<row, objects, tracks, comments, torn, faults>>
    /\ Asks(DetailKinds) /\ Hears(DetailKinds)
    /\ Detailed(detail') /\ detail'.route # "closed" /\ mine' \in Nat

LEMMA DashboardKinds ==
    /\ DetailKinds \subseteq Kinds /\ Pages \subseteq DetailKinds
    /\ \A k \in Pages : ArgFits(k, None)
<1>1. DetailKinds \subseteq Kinds
    BY PageKinds, KindsDiffer DEF DetailKinds
<1> QED
    BY <1>1, PageKinds DEF DetailKinds, Pages

LEMMA AskOnce ==
    ASSUME NEW js, Jobs(js), NEW k \in Pages
    PROVE  /\ Jobs(Ask(js, k)) /\ Ask(js, k)[k] # None
           /\ Ask(js, k)[k] = IF js[k] = None THEN Asked(k, None) ELSE js[k]
           /\ \A s \in Slots : s # k => Ask(js, k)[s] = js[s]
<1>1. k \in Kinds /\ ArgFits(k, None)
    BY DashboardKinds
<1>2. CASE js[k] = None
    BY <1>1, <1>2, AskedOne, AskedIs DEF Ask
<1>3. CASE js[k] # None
    BY <1>3 DEF Ask
<1> QED
    BY <1>2, <1>3

LEMMA InvalidateAsks ==
    ASSUME NEW js, Jobs(js), NEW ks \in SUBSET Pages
    PROVE  /\ Jobs(Invalidate(js, ks))
           /\ \A s \in Slots : Invalidate(js, ks)[s] =
                 IF s \in ks /\ detail.route = s THEN Asked(s, None) ELSE js[s]
<1> DEFINE js2 == Invalidate(js, ks)
<1>1. \A s \in Slots : js2[s] = IF s \in ks /\ detail.route = s THEN Asked(s, None) ELSE js[s]
    BY DEF Invalidate, Restarted, Asked
<1>2. js2 = [s \in Slots |-> js2[s]]
    BY DEF Invalidate
<1> HIDE DEF js2
<1>3. \A s \in ks : s \in Kinds /\ s # "abandoned" /\ Carried(Asked(s, None)) /\ Asked(s, None).kind = s
    BY DashboardKinds, AskedIs, KindsDiffer
<1>4. js2 \in [Slots -> {None} \cup Job]
    BY <1>1, <1>2, <1>3 DEF Jobs, Carried
<1> QED
    BY <1>1, <1>3, <1>4 DEF Jobs, js2

LEMMA DroppedAnswers ==
    ASSUME NEW as, Answers(as), NEW ks \in SUBSET Pages
    PROVE  /\ Answers(Dropped(as, ks))
           /\ \A k \in Kinds : Dropped(as, ks)[k] = IF k \in ks /\ detail.route = k THEN None ELSE as[k]
BY DEF Answers, Dropped, Restarted

LEMMA StaleDetail ==
    ASSUME NEW d, Detailed(d), NEW ks \in SUBSET Pages
    PROVE  /\ Detailed(Stale(d, ks)) /\ Stale(d, ks).route = d.route
           /\ \A k \in Pages : /\ Stale(d, ks).cache[k].data = d.cache[k].data
                               /\ Stale(d, ks).cache[k].error = d.cache[k].error
<1> DEFINE c == [k \in Pages |-> IF k \in ks /\ d.route # k THEN [d.cache[k] EXCEPT !.stale = TRUE]
                                ELSE d.cache[k]]
<1>1. d \in DetailType /\ d.cache \in [Pages -> Entry]
    BY DEF Detailed, DetailType
<1>2. c \in [Pages -> Entry]
    BY <1>1 DEF Entry
<1>3. \A k \in Pages : c[k].data = d.cache[k].data /\ c[k].error = d.cache[k].error
    BY <1>1 DEF Entry
<1>4. Stale(d, ks) = [d EXCEPT !.cache = c]
    BY DEF Stale
<1> HIDE DEF c
<1>5. Stale(d, ks) \in DetailType /\ Stale(d, ks).cache = c /\ Stale(d, ks).route = d.route
    BY <1>1, <1>2, <1>4 DEF DetailType
<1>6. "asset" \in Pages
    BY DEF Pages
<1> QED
    BY <1>3, <1>5, <1>6 DEF Detailed

LEMMA VisitMoves ==
    ASSUME NEW d, Detailed(d), NEW js, Jobs(js), NEW as, NEW k \in Pages, Visit(d, js, as, k)
    PROVE  /\ Detailed(detail') /\ detail'.route = k /\ detail'.cache = d.cache
           /\ jobs' = js \/ jobs' = Ask(js, k)
<1>1. detail' = [d EXCEPT !.route = k, !.confirmDelete = FALSE, !.confirmAi = FALSE,
                          !.settings = FALSE, !.thumb = FALSE, !.refused = FALSE]
    BY DEF Visit
<1> QED
    BY <1>1 DEF Visit, Detailed, DetailType, Pages

LEMMA AsksMore ==
    ASSUME NEW js, Jobs(js), NEW k \in Pages,
           \A s \in Slots : \/ js[s] = jobs[s]
                            \/ /\ s \in DetailKinds \cap Kinds /\ js[s] # None
                               /\ js[s].kind = s /\ js[s].pc = "sent" /\ js[s].old = 0,
           jobs' = js \/ jobs' = Ask(js, k)
    PROVE  Asks(DetailKinds)
<1>1. k \in DetailKinds \cap Kinds /\ ArgFits(k, None)
    BY DashboardKinds
<1>2. /\ Asked(k, None) # None /\ Asked(k, None).kind = k /\ Asked(k, None).pc = "sent"
      /\ Asked(k, None).old = 0
    BY <1>1, AskedIs
<1>3. CASE jobs' = js
    BY <1>3 DEF Asks
<1>4. CASE jobs' = Ask(js, k)
    BY <1>1, <1>2, <1>4, AskOnce DEF Asks
<1> QED
    BY <1>3, <1>4

LEMMA HearsMore ==
    ASSUME NEW as, Answers(as), NEW ks, NEW k \in Kinds, k \in ks, answers' = Heard(as, k),
           \A l \in Kinds : as[l] = answers[l] \/ (l \in ks /\ as[l] = None)
    PROVE  Hears(ks)
<1>1. /\ Answers(answers') /\ answers'[k] = None
      /\ \A l \in Kinds : l # k => answers'[l] = as[l]
    BY HeardOne
<1> QED
    BY <1>1 DEF Hears

LEMMA DetailAnswers ==
    ASSUME ApiTyped, DetailTyped, detail.route # "closed", DetailAnswered,
           UNCHANGED <<row, objects, tracks, comments, torn, faults>>
    PROVE  DetailMoves /\ (jobs'["thumb"] = jobs["thumb"])
<1> USE DEF ApiTyped, DetailTyped
<1>0. /\ DetailKinds \subseteq Kinds /\ {"meta", "process", "delete", "settings"} \subseteq DetailKinds
      /\ Thumbs \subseteq DetailKinds /\ Pages \subseteq DetailKinds /\ Pages \subseteq Kinds
      /\ "asset" \in Pages /\ "assets" \in Pages /\ "thumb" \in Slots /\ "thumb" \notin Pages
    BY DashboardKinds, KindsDiffer DEF DetailKinds, Pages, Thumbs
<1>1. ASSUME NEW k \in Pages, Fetched(k)
      PROVE  DetailMoves /\ jobs'["thumb"] = jobs["thumb"]
    <2>1. Hears(DetailKinds) /\ Asks(DetailKinds) /\ jobs' = jobs /\ mine' = mine
        BY <1>0, <1>1, HearsOne, AsksNone DEF Fetched
    <2> DEFINE e == IF answers[k].ok THEN [data |-> answers[k].body, error |-> FALSE, stale |-> FALSE]
                    ELSE [detail.cache[k] EXCEPT !.error = TRUE]
    <2>2. detail' = [detail EXCEPT !.cache[k] = e]
        BY <1>1 DEF Fetched
    <2>3. e \in Entry /\ (k = "asset" => e.data \in {None} \cup Row)
        <3>1. CASE answers[k].ok
            BY <1>0, <1>1, <3>1 DEF Fetched, Answers, BodyFits, Entry, Pages
        <3>2. CASE ~answers[k].ok
            BY <3>2 DEF Entry, Detailed, DetailType
        <3> QED
            BY <3>1, <3>2
    <2> HIDE DEF e
    <2>4. Detailed(detail') /\ detail'.route = detail.route
        BY <1>0, <2>2, <2>3 DEF Detailed, DetailType
    <2> QED
        BY <2>1, <2>4 DEF DetailMoves
<1>2. CASE MetaSaved
    <2>1. "meta" \in DetailKinds /\ "meta" \in Kinds
        BY <1>0
    <2>2. Hears(DetailKinds) /\ Asks(DetailKinds) /\ jobs' = jobs /\ mine' = mine
        BY <1>2, <2>1, HearsOne, AsksNone DEF MetaSaved
    <2>3. Detailed(detail') /\ detail'.route = detail.route
        <3>1. CASE answers["meta"].ok /\ detail.cache["asset"].data # None
            <4> DEFINE b == answers["meta"].body
                       x == [detail.cache["asset"].data EXCEPT !.meta = b]
                       e == [detail.cache["asset"] EXCEPT !.data = x]
            <4>1. b \in Tagged
                BY <1>2, <2>1, <3>1 DEF MetaSaved, Answers, BodyFits
            <4>2. detail' = [detail EXCEPT !.cache["asset"].data.meta = b]
                BY <1>2, <3>1 DEF MetaSaved, Shown, Cache
            <4>3. detail' = [detail EXCEPT !.cache["asset"] = e]
                BY <4>2
            <4> HIDE DEF b
            <4>4. x \in Row
                BY <3>1, <4>1 DEF Detailed, Row
            <4> HIDE DEF x
            <4>5. e \in Entry /\ e.data = x
                BY <1>0, <4>4 DEF Detailed, DetailType, Entry
            <4> HIDE DEF e
            <4> QED
                BY <1>0, <4>3, <4>4, <4>5 DEF Detailed, DetailType
        <3>2. CASE ~(answers["meta"].ok /\ detail.cache["asset"].data # None)
            BY <1>2, <3>2 DEF MetaSaved, Shown, Cache
        <3> QED
            BY <3>1, <3>2
    <2> QED
        BY <2>2, <2>3 DEF DetailMoves
<1>3. ASSUME NEW k \in {"process", "settings"} \cup Thumbs, NEW ks \in SUBSET Pages, answers[k] # None,
             answers[k].ok, Own(answers[k].body), jobs' = Invalidate(jobs, ks),
             answers' = Heard(Dropped(answers, ks), k), Detailed(detail'), detail'.route = detail.route
      PROVE  DetailMoves /\ jobs'["thumb"] = jobs["thumb"]
    <2>1. k \in Kinds /\ k \in DetailKinds
        BY <1>0
    <2>2. answers[k].body \in Nat
        BY <1>3, <2>1 DEF Answers, BodyFits
    <2>3. mine' \in Nat
        BY <1>3, <2>2 DEF Own
    <2>4. Hears(DetailKinds)
        <3> DEFINE as == Dropped(answers, ks)
        <3>1. Answers(as) /\ \A l \in Kinds : as[l] = answers[l] \/ (l \in ks /\ as[l] = None)
            BY DroppedAnswers
        <3>2. answers' = Heard(as, k)
            BY <1>3
        <3>3. \A l \in Kinds : as[l] = answers[l] \/ (l \in DetailKinds /\ as[l] = None)
            BY <1>0, <3>1
        <3> HIDE DEF as
        <3> QED
            BY <2>1, <3>1, <3>2, <3>3, HearsMore
    <2>5. /\ Jobs(jobs')
          /\ \A s \in Slots : jobs'[s] = IF s \in ks /\ detail.route = s THEN Asked(s, None) ELSE jobs[s]
        BY <1>3, InvalidateAsks
    <2>6. \A s \in ks : /\ s \in DetailKinds \cap Kinds /\ Asked(s, None) # None
                        /\ Asked(s, None).kind = s /\ Asked(s, None).pc = "sent"
                        /\ Asked(s, None).old = 0
        BY <1>0, DashboardKinds, AskedIs
    <2>7. Asks(DetailKinds) /\ jobs'["thumb"] = jobs["thumb"]
        BY <1>0, <2>5, <2>6 DEF Asks
    <2> QED
        BY <1>3, <2>3, <2>4, <2>7 DEF DetailMoves
<1>4. CASE Processed
    <2>1. CASE answers["process"].ok
        <3>1. Detailed(Stale(detail, Pages)) /\ Stale(detail, Pages).route = detail.route
            BY StaleDetail
        <3> QED
            BY <1>3, <1>4, <2>1, <3>1 DEF Processed
    <2>2. CASE ~answers["process"].ok
        <3>1. Hears(DetailKinds) /\ Asks(DetailKinds) /\ jobs' = jobs /\ mine' = mine
            BY <1>0, <1>4, <2>2, HearsOne, AsksNone DEF Processed
        <3> DEFINE b == OnVideo
        <3>2. detail' = [detail EXCEPT !.refused = b] /\ b \in BOOLEAN
            BY <1>4, <2>2 DEF Processed, OnVideo
        <3> HIDE DEF b
        <3>3. Detailed(detail') /\ detail'.route = detail.route
            BY <3>2 DEF Detailed, DetailType
        <3> QED
            BY <3>1, <3>3 DEF DetailMoves
    <2> QED
        BY <2>1, <2>2
<1>5. CASE Deleted
    <2>1. "delete" \in Kinds /\ "delete" \in DetailKinds
        BY <1>0
    <2>2. CASE answers["delete"].ok
        <3> DEFINE as == Dropped(answers, {"assets"})
                   js == Invalidate(jobs, {"assets"})
                   d == [detail EXCEPT !.cache["assets"].stale = TRUE]
        <3>1. answers' = Heard(as, "delete") /\ mine' = mine /\ Visit(d, js, answers', "assets")
            BY <1>5, <2>2 DEF Deleted
        <3>2. Detailed(d)
            <4> DEFINE e == [detail.cache["assets"] EXCEPT !.stale = TRUE]
            <4>1. e \in Entry /\ d = [detail EXCEPT !.cache["assets"] = e]
                <5>1. detail.cache["assets"] \in Entry
                    BY <1>0 DEF Detailed, DetailType
                <5>2. e \in Entry
                    BY <5>1 DEF Entry
                <5> QED
                    BY <5>2
            <4> HIDE DEF e
            <4> QED
                BY <1>0, <4>1 DEF Detailed, DetailType
        <3>3. Answers(as) /\ \A l \in Kinds : as[l] = answers[l] \/ (l \in {"assets"} /\ as[l] = None)
            BY <1>0, DroppedAnswers
        <3>4. /\ Jobs(js)
              /\ \A s \in Slots : js[s] = IF s \in {"assets"} /\ detail.route = s THEN Asked(s, None)
                                          ELSE jobs[s]
            BY <1>0, InvalidateAsks
        <3>5. /\ Asked("assets", None) # None /\ Asked("assets", None).kind = "assets"
              /\ Asked("assets", None).pc = "sent" /\ Asked("assets", None).old = 0
              /\ "assets" \in DetailKinds \cap Kinds
            BY <1>0, DashboardKinds, AskedIs
        <3> HIDE DEF as, js, d
        <3>6. Hears(DetailKinds)
            <4>1. \A l \in Kinds : as[l] = answers[l] \/ (l \in DetailKinds /\ as[l] = None)
                BY <1>0, <3>3
            <4> QED
                BY <2>1, <3>1, <3>3, <4>1, HearsMore
        <3>7. /\ Detailed(detail') /\ detail'.route = "assets"
              /\ jobs' = js \/ jobs' = Ask(js, "assets")
            BY <1>0, <3>1, <3>2, <3>4, VisitMoves
        <3>8. Asks(DetailKinds)
            BY <1>0, <3>4, <3>5, <3>7, AsksMore
        <3>9. jobs'["thumb"] = jobs["thumb"]
            BY <1>0, <3>4, <3>7, AskOnce
        <3> QED
            BY <3>1, <3>6, <3>7, <3>8, <3>9 DEF DetailMoves
    <2>3. CASE ~answers["delete"].ok
        BY <1>5, <2>1, <2>3, HearsOne, AsksNone DEF Deleted, DetailMoves
    <2> QED
        BY <2>2, <2>3
<1>6. ASSUME NEW k \in {"settings"} \cup Thumbs, DialogSaved(k)
      PROVE  DetailMoves /\ jobs'["thumb"] = jobs["thumb"]
    <2>1. CASE answers[k].ok
        <3> DEFINE d == Stale(detail, {"asset"})
        <3>1. Detailed(d) /\ d.route = detail.route
            BY <1>0, StaleDetail
        <3>2. detail' = [d EXCEPT !.settings = FALSE, !.thumb = FALSE]
            BY <1>6, <2>1 DEF DialogSaved
        <3> HIDE DEF d
        <3>3. Detailed(detail') /\ detail'.route = detail.route
            BY <3>1, <3>2 DEF Detailed, DetailType
        <3> QED
            BY <1>0, <1>3, <1>6, <2>1, <3>3 DEF DialogSaved
    <2>2. CASE ~answers[k].ok
        BY <1>0, <1>6, <2>2, HearsOne, AsksNone DEF DialogSaved, DetailMoves
    <2> QED
        BY <2>1, <2>2
<1> QED
    BY <1>1, <1>2, <1>4, <1>5, <1>6 DEF DetailAnswered

LEMMA DetailActs ==
    ASSUME ApiTyped, DetailTyped, detail.route # "closed",
           UNCHANGED <<row, objects, tracks, comments, torn, faults>>,
           NEW n \in Nat, DetailEnd \/ (\E k \in Pages : Poll(k)) \/ DetailInput(n)
    PROVE  DetailMoves /\ (jobs'["thumb"] # jobs["thumb"] => jobs'["thumb"].arg = n /\ DetailInput(n))
<1> USE DEF ApiTyped, DetailTyped
<1>0. /\ DetailKinds \subseteq Kinds /\ {"meta", "process", "delete", "settings"} \subseteq DetailKinds
      /\ Thumbs \subseteq DetailKinds /\ Pages \subseteq DetailKinds /\ Pages \subseteq Kinds
      /\ "asset" \in Pages /\ "assets" \in Pages /\ "thumb" \in Slots /\ "thumb" \notin Pages
      /\ "thumb" \in DetailKinds /\ "unthumb" \in DetailKinds
    BY DashboardKinds, KindsDiffer DEF DetailKinds, Pages, Thumbs
<1>1. ASSUME answers' = answers, mine' = mine, Asks(DetailKinds), Detailed(detail'),
             detail'.route # "closed", jobs'["thumb"] = jobs["thumb"]
      PROVE  DetailMoves /\ jobs'["thumb"] = jobs["thumb"]
    BY <1>1, HearsNone DEF DetailMoves
<1>2. ASSUME NEW k \in DetailKinds, NEW b, ArgFits(k, b), jobs' = With(jobs, k, b)
      PROVE  Asks(DetailKinds) /\ jobs'[k] = Asked(k, b) /\ (k # "thumb" => jobs'["thumb"] = jobs["thumb"])
    <2>1. k \in Kinds
        BY <1>0
    <2> QED
        BY <1>0, <1>2, <2>1, AsksOne, AskedOne
<1>3. ASSUME NEW k \in Pages, jobs' = jobs \/ jobs' = Ask(jobs, k)
      PROVE  Asks(DetailKinds) /\ jobs'["thumb"] = jobs["thumb"]
    <2>1. Asks(DetailKinds)
        BY <1>3, AsksMore
    <2>2. Ask(jobs, k)["thumb"] = jobs["thumb"]
        BY <1>0, AskOnce
    <2> QED
        BY <1>3, <2>1, <2>2
<1>4. ASSUME NEW k \in Pages, Poll(k) \/ RetryRead(k)
      PROVE  DetailMoves /\ jobs'["thumb"] = jobs["thumb"]
    BY <1>1, <1>3, <1>4 DEF Poll, RetryRead, Refetch
<1>5. ASSUME NEW k \in Pages, Navigate(k)
      PROVE  DetailMoves /\ jobs'["thumb"] = jobs["thumb"]
    <2>1. Visit(detail, jobs, answers, k) /\ answers' = answers /\ mine' = mine
        BY <1>5 DEF Navigate
    <2>2. Detailed(detail') /\ detail'.route = k /\ (jobs' = jobs \/ jobs' = Ask(jobs, k))
        BY <2>1, VisitMoves
    <2> QED
        BY <1>1, <1>3, <2>1, <2>2 DEF Pages
<1>6. CASE Hide \/ AskAi \/ CancelAi \/ AskDelete \/ OpenSettings \/ OpenThumb \/ CloseDialog
    <2>1. jobs' = jobs /\ answers' = answers /\ mine' = mine
        BY <1>6 DEF Hide, AskAi, CancelAi, AskDelete, OpenSettings, OpenThumb, CloseDialog
    <2>2. Detailed(detail') /\ detail'.route = detail.route
        BY <1>6
           DEF Hide, AskAi, CancelAi, AskDelete, OpenSettings, OpenThumb, CloseDialog, Detailed, DetailType
    <2> QED
        BY <1>1, <2>1, <2>2, AsksNone
<1>7. CASE Show
    <2>1. detail.route \in Pages
        BY DEF Detailed, DetailType, Pages
    <2>2. jobs' = jobs \/ jobs' = Ask(jobs, detail.route)
        BY <1>7 DEF Show
    <2>3. Detailed(detail') /\ detail'.route = detail.route
        BY <1>7 DEF Show, Detailed, DetailType
    <2> QED
        BY <1>1, <1>3, <1>7, <2>1, <2>2, <2>3 DEF Show
<1>8. ASSUME NEW new \in SUBSET MetaKeys, SaveMeta(new)
      PROVE  DetailMoves /\ jobs'["thumb"] = jobs["thumb"]
    <2>1. ArgFits("meta", new) /\ jobs' = With(jobs, "meta", new)
        BY <1>8, PageKinds DEF SaveMeta, Metas
    <2> QED
        BY <1>0, <1>1, <1>2, <1>8, <2>1 DEF SaveMeta
<1>9. CASE Process
    <2>1. jobs' = With(jobs, "process", None) /\ answers' = answers /\ mine' = mine
        BY <1>9 DEF Process
    <2>2. Detailed(detail') /\ detail'.route = detail.route
        BY <1>9 DEF Process, Detailed, DetailType
    <2> QED
        BY <1>0, <1>1, <1>2, <2>1, <2>2, PageKinds
<1>10. CASE Delete
    BY <1>0, <1>1, <1>2, <1>10, PageKinds DEF Delete
<1>11. ASSUME NEW s \in SUBSET {"comments"}, SaveSettings(s)
      PROVE  DetailMoves /\ jobs'["thumb"] = jobs["thumb"]
    <2>1. ArgFits("settings", s) /\ jobs' = With(jobs, "settings", s)
        BY <1>11, PageKinds DEF SaveSettings, Sections
    <2> QED
        BY <1>0, <1>1, <1>2, <1>11, <2>1 DEF SaveSettings
<1>12. CASE ResetThumb
    BY <1>0, <1>1, <1>2, <1>12, PageKinds DEF ResetThumb
<1>13. CASE Upload(n)
    <2>1. /\ jobs' = With(jobs, "thumb", n) /\ answers' = answers /\ mine' = mine /\ detail' = detail
          /\ ArgFits("thumb", n)
        BY <1>13, PageKinds DEF Upload
    <2>2. Asks(DetailKinds) /\ jobs'["thumb"] = Asked("thumb", n)
        BY <1>0, <1>2, <2>1
    <2>3. Hears(DetailKinds) /\ jobs'["thumb"].arg = n
        BY <2>1, <2>2, HearsNone DEF Asked
    <2>4. n = n /\ (Upload(n) => DetailInput(n))
        BY DEF DetailInput
    <2> QED
        BY <1>13, <2>1, <2>2, <2>3, <2>4 DEF DetailMoves
<1> QED
    BY <1>4, <1>5, <1>6, <1>7, <1>8, <1>9, <1>10, <1>11, <1>12, <1>13 DEF DetailEnd, DetailInput

-----------------------------------------------------------------------------
(* The settings page.                                                       *)

LEMMA FlowNames ==
    /\ Flows = {"mount", "save", "upload", "rename", "org"} \cup Late \cup Removals
    /\ Late = {"late save", "late upload", "late rename", "late removal"}
    /\ Removals \cap ({"mount", "save", "upload", "rename", "org"} \cup Late) = {}
    /\ Saves = {"save", "late save"} /\ Renames = {"rename", "late rename"}
    /\ Uploads = {"upload", "late upload"} /\ Deletions = Removals \cup {"late removal"}
    /\ Logos = Uploads \cup Deletions
BY VideoPagesAssumption
   DEF VideoPagesAssumption, Flows, FixedFlows, Logos, Late, Saves, Renames, Uploads, Deletions

\* One flow is something else, or nothing.
LEMMA FlowTo ==
    ASSUME Running(flow), NEW f \in Flows, NEW x \in Flow, FlowFits(f, x),
           flow' = [flow EXCEPT ![f] = x]
    PROVE  /\ Running(flow') /\ flow'[f] = x /\ x # None
           /\ \A h \in Flows : h # f => flow'[h] = flow[h]
<1>1. x # None
    BY NotNone
<1>2. /\ flow' \in [Flows -> {None} \cup Flow] /\ flow'[f] = x
      /\ \A h \in Flows : h # f => flow'[h] = flow[h]
    BY DEF Running
<1> QED
    BY <1>1, <1>2 DEF Running

LEMMA FlowEnds ==
    ASSUME Running(flow), NEW f \in Flows, flow' = [flow EXCEPT ![f] = None]
    PROVE  Running(flow') /\ flow'[f] = None /\ \A h \in Flows : h # f => flow'[h] = flow[h]
BY DEF Running

FlowPcs == {"sent", "looked", "put", "dropped", "ok", "fail", "reading", "got", "unread", "refetch"}

\* It has come to another point.
LEMMA FlowAt ==
    ASSUME Running(flow), NEW f \in Flows, flow[f] # None, NEW pc \in FlowPcs \ {"got"},
           f \in Renames => pc \in {"sent", "looked", "ok", "fail", "refetch"},
           f = "org" => pc \in {"reading", "unread"},
           flow' = [flow EXCEPT ![f].pc = pc]
    PROVE  /\ Running(flow') /\ flow'[f] # None /\ flow'[f].pc = pc /\ flow'[f].arg = flow[f].arg
           /\ \A h \in Flows : h # f => flow'[h] = flow[h]
<1> DEFINE x == [flow[f] EXCEPT !.pc = pc]
<1>1. flow[f] \in Flow /\ FlowFits(f, flow[f])
    BY DEF Running
<1>2. x \in Flow /\ x.pc = pc /\ x.arg = flow[f].arg
    BY <1>1 DEF Flow, FlowPcs
<1>3. flow' = [flow EXCEPT ![f] = x]
    BY DEF Running
<1> HIDE DEF x
<1>4. FlowFits(f, x)
    BY <1>1, <1>2 DEF FlowFits
<1> QED
    BY <1>2, <1>3, <1>4, FlowTo

\* It has come to another point with something read.
LEMMA FlowTook ==
    ASSUME Running(flow), NEW f \in Flows, flow[f] # None, NEW pc \in {"looked", "got"}, NEW body,
           body \in {None} \cup Exts \cup Nat \cup Seen,
           f \in Renames => pc = "looked", f = "org" => pc = "got",
           pc = "got" => IF f = "org" THEN body \in Nat ELSE body \in Seen,
           Took(f, pc, body)
    PROVE  /\ Running(flow') /\ flow'[f] # None /\ flow'[f].pc = pc /\ flow'[f].arg = flow[f].arg
           /\ flow'[f].got = body /\ \A h \in Flows : h # f => flow'[h] = flow[h]
<1> DEFINE x == [[flow[f] EXCEPT !.pc = pc] EXCEPT !.got = body]
<1>1. flow[f] \in Flow /\ FlowFits(f, flow[f])
    BY DEF Running
<1>2. x \in Flow /\ x.pc = pc /\ x.arg = flow[f].arg /\ x.got = body
    BY <1>1 DEF Flow
<1>3. flow' = [flow EXCEPT ![f] = x]
    BY DEF Running, Took
<1> HIDE DEF x
<1>4. FlowFits(f, x)
    BY <1>1, <1>2 DEF FlowFits
<1> QED
    BY <1>2, <1>3, <1>4, FlowTo

Starts(pc, b) == [pc |-> pc, arg |-> b, got |-> None]

LEMMA FlowStarts ==
    ASSUME Running(flow), NEW f \in Flows, NEW pc \in {"sent", "reading"}, NEW b,
           b \in {None} \cup Exts \cup Int,
           f \in Uploads => b \in Exts, f \in Saves => b \in Int,
           f \in Renames => b \in Nat /\ pc = "sent", f = "org" => pc = "reading",
           flow' = [flow EXCEPT ![f] = Starts(pc, b)]
    PROVE  /\ Running(flow') /\ flow'[f] # None /\ flow'[f].pc = pc /\ flow'[f].arg = b
           /\ flow'[f] = Starts(pc, b) /\ \A h \in Flows : h # f => flow'[h] = flow[h]
<1> DEFINE x == Starts(pc, b)
<1>1. x \in Flow /\ x.pc = pc /\ x.arg = b /\ x.got = None
    BY DEF Starts, Flow
<1> HIDE DEF x
<1>2. FlowFits(f, x)
    BY <1>1 DEF FlowFits
<1> QED
    BY <1>1, <1>2, FlowTo DEF x

LEMMA StoreMoves ==
    ASSUME store \in StoreType
    PROVE  /\ \A n \in Int : [store EXCEPT !.look = n] \in StoreType
           /\ \A e \in {None} \cup Exts : [store EXCEPT !.logo = e] \in StoreType
           /\ \A fs \in SUBSET Exts : [store EXCEPT !.files = fs] \in StoreType
           /\ \A ps \in SUBSET {"logo", "shown"} : [store EXCEPT !.torn = store.torn \cup ps] \in StoreType
BY DEF StoreType

\* Without an overlap in doubt there is one change of the logo at a time, and
\* what its row will name is in the bucket.
LogoInv ==
    /\ "logo" \notin store.torn =>
         /\ \A f, h \in Logos : flow[f] # None /\ flow[h] # None => f = h
         /\ \A f \in Uploads : On(f, Flows, "put") => flow[f].arg \in store.files
    /\ LogoThere

\* The editor stays open over the name that is on its way, and it is stored
\* before the editor hears of it. A name that is read or shown is the first one
\* or was stored.
NamesStored ==
    /\ store.name \in {0} \cup store.named
    /\ flow["org"] # None /\ flow["org"].pc = "got" => flow["org"].got \in {0} \cup store.named
    /\ page.view = "ready" => page.name \in {0} \cup store.named
NameInv ==
    /\ flow["rename"] # None /\ flow["rename"].pc # "refetch" =>
          /\ page.editing /\ page.text = flow["rename"].arg
          /\ flow["rename"].pc = "ok" => flow["rename"].arg \in store.named
    /\ 0 \notin page.meant
    /\ NamesStored
    /\ NameNeverLost

\* Without a loss in doubt: no write goes on late; one flow reads at a time; what it has read is
\* stored now or another write has yet to be read back; and the page shows what
\* is stored or a flow has yet to be read back.
Readers == Flows \ ({"org"} \cup Renames)
LateOnes == Late \ Renames
Now     == [look |-> store.look, logo |-> store.logo]
Written2(f) == flow[f] # None /\ flow[f].pc = "ok"
ShownInv ==
    (page.view # "closed" /\ "shown" \notin store.torn) =>
        /\ \A f \in LateOnes : flow[f] = None
        /\ \A f, h \in Readers : Reading(f) /\ Reading(h) => f = h
        /\ \A f \in Readers : flow[f] # None /\ flow[f].pc = "got" =>
              flow[f].got = Now \/ \E h \in Readers : Written2(h)
        /\ \/ page.look = store.look /\ page.logo = store.logo
           \/ \E f \in Readers : Written2(f) \/ Reading(f)

SettingInv == SettingsTyped /\ LogoInv /\ NameInv /\ ShownInv

LEMMA FlowFacts ==
    ASSUME SettingsTyped
    PROVE  /\ Running(flow) /\ flow \in [Flows -> {None} \cup Flow]
           /\ \A f \in Flows : flow[f] # None => flow[f] \in Flow /\ FlowFits(f, flow[f])
           /\ "org" \in Flows /\ "rename" \in Flows /\ "save" \in Flows /\ "upload" \in Flows
           /\ "mount" \in Flows /\ "mount" \notin Logos /\ Removals \subseteq Deletions /\ Logos \subseteq Flows
           /\ Uploads \subseteq Logos /\ Deletions \subseteq Logos /\ Uploads \cap Deletions = {}
           /\ "org" \notin Logos \cup Saves \cup Renames
           /\ (Saves \cup Renames) \cap Logos = {} /\ Saves \cap Renames = {}
           /\ "save" \in Saves /\ "upload" \in Uploads /\ "rename" \in Renames
           /\ "upload" \notin Removals /\ "rename" \notin Removals /\ "org" \notin Removals
           /\ Readers \subseteq Flows /\ Logos \subseteq Readers /\ Saves \subseteq Readers
           /\ LateOnes \subseteq Readers /\ Saves \subseteq Flows /\ Renames \subseteq Flows
           /\ "org" \notin Readers /\ Readers \cap Renames = {}
           /\ \A f \in Flows : f \notin Readers => f \in {"org"} \cup Renames
BY FlowNames DEF SettingsTyped, Running, Readers, LateOnes

LEMMA KeepsLookUp ==
    ASSUME SettingInv, page' = page, NEW f \in Flows, LookUp(f)
    PROVE  SettingInv'
<1> USE DEF SettingInv, SettingsTyped
<1>1. flow[f] # None /\ flow[f].pc = "sent" /\ store' = store
    BY DEF LookUp, On
<1>2. f # "org"
    BY <1>1, FlowFacts DEF FlowFits
<1>3. /\ Running(flow') /\ flow'[f] # None /\ flow'[f].arg = flow[f].arg
      /\ flow'[f].pc \in {"fail", "ok", "looked"} /\ (flow'[f].pc = "ok" => f \in Deletions)
      /\ \A h \in Flows : h # f => flow'[h] = flow[h]
    <2>1. CASE f \in Renames /\ ~page.admin
        <3>1. flow' = [flow EXCEPT ![f].pc = "fail"]
            BY <2>1 DEF LookUp, To
        <3>2. /\ Running(flow) /\ "fail" \in FlowPcs \ {"got"}
              /\ "fail" \in {"sent", "looked", "ok", "fail", "refetch"} /\ f # "org"
            BY <1>2 DEF FlowPcs
        <3>3. /\ Running(flow') /\ flow'[f] # None /\ flow'[f].pc = "fail" /\ flow'[f].arg = flow[f].arg
              /\ \A h \in Flows : h # f => flow'[h] = flow[h]
            BY <1>1, <3>1, <3>2, FlowAt
        <3> QED
            BY <3>3
    <2>2. CASE ~(f \in Renames /\ ~page.admin) /\ f \in Deletions /\ store.logo = None
        <3>1. flow' = [flow EXCEPT ![f].pc = "ok"]
            BY <2>2 DEF LookUp, To
        <3> QED
            BY <1>1, <1>2, <2>2, <3>1, FlowAt, FlowFacts DEF FlowPcs
    <2>3. CASE ~(f \in Renames /\ ~page.admin) /\ ~(f \in Deletions /\ store.logo = None)
        <3> DEFINE b == IF f \in Deletions THEN store.logo ELSE None
        <3>1. Took(f, "looked", b) /\ b \in {None} \cup Exts \cup Nat \cup Seen
            BY <2>3 DEF LookUp, StoreType
        <3> HIDE DEF b
        <3> QED
            BY <1>1, <1>2, <3>1, FlowTook
    <2> QED
        BY <2>1, <2>2, <2>3
<1>4. SettingsTyped'
    BY <1>1, <1>3
<1>5. LogoInv'
    BY <1>1, <1>3, FlowFacts DEF LogoInv, LogoThere, On
<1>6. NameInv'
    BY <1>1, <1>3, FlowFacts DEF NameInv, NamesStored, NameNeverLost
<1>7. ShownInv'
    <2>1. \A h \in Flows : Reading(h)' <=> Reading(h)
        BY <1>1, <1>3 DEF Reading
    <2>2. \A h \in Flows : Written2(h) => Written2(h)'
        BY <1>1, <1>3 DEF Written2
    <2> QED
        BY <1>1, <1>3, <2>1, <2>2, FlowFacts DEF ShownInv, Now
<1> QED
    BY <1>4, <1>5, <1>6, <1>7

LEMMA KeepsPatch ==
    ASSUME SettingInv, page' = page, NEW f \in Flows, Patch(f)
    PROVE  SettingInv'
<1> USE DEF SettingInv, SettingsTyped
<1>1. /\ flow[f] # None /\ flow[f].pc = "looked" /\ f \in Saves \cup Renames
      /\ flow' = [flow EXCEPT ![f].pc = "ok"]
    BY DEF Patch, On, To
<1>2. /\ Running(flow') /\ flow'[f] # None /\ flow'[f].arg = flow[f].arg /\ flow'[f].pc = "ok"
      /\ \A h \in Flows : h # f => flow'[h] = flow[h]
    BY <1>1, FlowAt, FlowFacts DEF FlowPcs
<1>3. flow[f].arg \in Int /\ (f \in Renames => flow[f].arg \in Nat)
    BY <1>1, FlowFacts DEF FlowFits
<1>4. /\ store' \in StoreType /\ store'.logo = store.logo /\ store'.files = store.files
      /\ store'.torn = store.torn
      /\ f \in Saves => store'.named = store.named /\ store'.name = store.name
      /\ f \in Renames => /\ store'.look = store.look /\ store'.named = store.named \cup {flow[f].arg}
                         /\ store'.name = flow[f].arg
    <2>1. CASE f \in Saves
        BY <1>3, <2>1, FlowFacts DEF Patch, StoreType
    <2>2. CASE f \in Renames
        BY <1>3, <2>2, FlowFacts DEF Patch, StoreType
    <2> QED
        BY <1>1, <2>1, <2>2
<1>5. SettingsTyped'
    BY <1>2, <1>4
<1>6. LogoInv'
    BY <1>1, <1>2, <1>4, FlowFacts DEF LogoInv, LogoThere, On
<1>7. NameInv'
    <2>1. CASE f \in Saves
        BY <1>2, <1>4, <2>1, FlowFacts DEF NameInv, NamesStored, NameNeverLost
    <2>2. CASE f \in Renames
        BY <1>1, <1>2, <1>4, <2>2, FlowFacts DEF NameInv, NamesStored, NameNeverLost
    <2> QED
        BY <1>1, <2>1, <2>2
<1>8. ShownInv'
    <2>1. \A h \in Flows : Reading(h)' <=> Reading(h)
        BY <1>1, <1>2 DEF Reading
    <2>2. \A h \in Flows : Written2(h) => Written2(h)'
        BY <1>1, <1>2 DEF Written2
    <2>3. CASE f \in Saves
        <3>1. f \in Readers /\ Written2(f)'
            BY <1>2, <2>3, FlowFacts DEF Written2
        <3>2. page.view # "closed" /\ "shown" \notin store.torn => \A h \in LateOnes : flow'[h] = None
            BY <1>1, <1>2, FlowFacts DEF ShownInv
        <3>3. page.view # "closed" /\ "shown" \notin store.torn
                => \A h, g \in Readers : Reading(h)' /\ Reading(g)' => h = g
            BY <2>1, FlowFacts DEF ShownInv
        <3> QED
            BY <1>4, <3>1, <3>2, <3>3 DEF ShownInv
    <2>4. CASE f \in Renames
        BY <1>2, <1>4, <2>1, <2>2, <2>4, FlowFacts DEF ShownInv, Now
    <2> QED
        BY <1>1, <2>3, <2>4
<1> QED
    BY <1>5, <1>6, <1>7, <1>8

\* The handlers of the logo.
LEMMA KeepsLogo ==
    ASSUME SettingInv, page' = page, NEW f \in Flows,
           PutLogo(f) \/ NameLogo(f) \/ DeleteLogo(f) \/ ForgetLogo(f)
    PROVE  SettingInv'
<1> USE DEF SettingInv, SettingsTyped
<1>1. flow[f] # None /\ f \in Logos /\ f \in Readers
    BY FlowFacts DEF PutLogo, NameLogo, DeleteLogo, ForgetLogo, On
<1>2. flow[f] \in Flow /\ FlowFits(f, flow[f])
    BY <1>1, FlowFacts
<1>3. ASSUME NEW pc \in {"put", "dropped", "ok"}, flow' = [flow EXCEPT ![f].pc = pc]
      PROVE  /\ Running(flow') /\ flow'[f] # None /\ flow'[f].arg = flow[f].arg /\ flow'[f].pc = pc
             /\ \A h \in Flows : h # f => flow'[h] = flow[h]
    BY <1>1, <1>3, FlowAt, FlowFacts DEF FlowPcs
<1>4. ASSUME \A h \in Flows : h # f => flow'[h] = flow[h], store'.named = store.named,
             store'.name = store.name
      PROVE  NameInv'
    BY <1>1, <1>4, FlowFacts DEF NameInv, NamesStored, NameNeverLost
<1>5. ASSUME flow'[f] # None, flow'[f].pc \in {"put", "dropped", "ok"}, flow[f].pc \notin {"ok", "reading", "got"},
             \A h \in Flows : h # f => flow'[h] = flow[h], store'.torn = store.torn,
             flow'[f].pc = "ok" \/ Now' = Now
      PROVE  ShownInv'
    <2>1. \A h \in Flows : Reading(h)' <=> Reading(h)
        BY <1>1, <1>5 DEF Reading
    <2>2. \A h \in Flows : Written2(h) => Written2(h)'
        BY <1>1, <1>5 DEF Written2
    <2>3. CASE flow'[f].pc = "ok"
        BY <1>1, <1>5, <2>1, <2>3, FlowFacts DEF ShownInv, Written2
    <2>4. CASE Now' = Now
        <3>1. store'.look = store.look /\ store'.logo = store.logo
            BY <2>4 DEF Now
        <3> QED
            BY <1>1, <1>5, <2>1, <2>2, <2>4, <3>1, FlowFacts DEF ShownInv
    <2> QED
        BY <1>5, <2>3, <2>4
<1>6. CASE PutLogo(f)
    <2>1. /\ f \in Uploads /\ flow[f].pc = "looked" /\ flow' = [flow EXCEPT ![f].pc = "put"]
          /\ store' = [store EXCEPT !.files = store.files \cup {flow[f].arg}]
        BY <1>6 DEF PutLogo, On, To
    <2>2. /\ store' \in StoreType /\ store'.files = store.files \cup {flow[f].arg}
          /\ store'.logo = store.logo /\ store'.look = store.look /\ store'.torn = store.torn
          /\ store'.named = store.named /\ store'.name = store.name
        BY <1>2, <2>1 DEF StoreType, FlowFits
    <2>3. Now' = Now
        BY <2>2 DEF Now
    <2>4. LogoInv'
        BY <1>1, <1>3, <2>1, <2>2, FlowFacts DEF LogoInv, LogoThere, On
    <2> QED
        BY <1>1, <1>3, <1>4, <1>5, <2>1, <2>2, <2>3, <2>4
<1>7. CASE NameLogo(f)
    <2>1. /\ f \in Uploads /\ flow[f].pc = "put" /\ flow' = [flow EXCEPT ![f].pc = "ok"]
          /\ store' = [store EXCEPT !.logo = flow[f].arg]
        BY <1>7 DEF NameLogo, On, To
    <2>2. /\ store' \in StoreType /\ store'.files = store.files
          /\ store'.logo = flow[f].arg /\ store'.torn = store.torn /\ store'.named = store.named
          /\ store'.name = store.name
        BY <1>2, <2>1 DEF StoreType, FlowFits
    <2>3. LogoInv'
        <3>1. CASE "logo" \in store.torn
            BY <2>2, <3>1 DEF LogoInv, LogoThere
        <3>2. CASE "logo" \notin store.torn
            BY <1>1, <1>3, <2>1, <2>2, <3>2, FlowFacts DEF LogoInv, LogoThere, On
        <3> QED
            BY <3>1, <3>2
    <2> QED
        BY <1>1, <1>3, <1>4, <1>5, <2>1, <2>2, <2>3
<1>8. CASE DeleteLogo(f)
    <2>1. /\ f \in Deletions /\ flow[f].pc = "looked" /\ flow' = [flow EXCEPT ![f].pc = "dropped"]
          /\ store' = [store EXCEPT !.files = store.files \ {flow[f].got}]
        BY <1>8 DEF DeleteLogo, On, To
    <2>2. /\ store' \in StoreType /\ store'.files = store.files \ {flow[f].got}
          /\ store'.logo = store.logo /\ store'.look = store.look /\ store'.torn = store.torn
          /\ store'.named = store.named /\ store'.name = store.name
        BY <2>1 DEF StoreType
    <2>3. Now' = Now
        BY <2>2 DEF Now
    <2>4. LogoThere'
        BY <1>1, <1>3, <2>1 DEF LogoThere, On
    <2>5. LogoInv'
        <3>1. ASSUME "logo" \notin store.torn
              PROVE  \A h \in Uploads : flow[h] = None
            BY <1>1, <2>1, <3>1, FlowFacts, FlowNames DEF LogoInv
        <3> QED
            BY <1>1, <1>3, <2>1, <2>2, <2>4, <3>1, FlowFacts DEF LogoInv, On
    <2> QED
        BY <1>1, <1>3, <1>4, <1>5, <2>1, <2>2, <2>3, <2>5
<1>9. CASE ForgetLogo(f)
    <2>1. /\ f \in Deletions /\ flow[f].pc = "dropped" /\ flow' = [flow EXCEPT ![f].pc = "ok"]
          /\ store' = [store EXCEPT !.logo = None]
        BY <1>9 DEF ForgetLogo, On, To
    <2>2. /\ store' \in StoreType /\ store'.files = store.files
          /\ store'.logo = None /\ store'.torn = store.torn /\ store'.named = store.named
          /\ store'.name = store.name
        BY <2>1 DEF StoreType
    <2>3. LogoInv'
        BY <1>1, <1>3, <2>1, <2>2, FlowFacts DEF LogoInv, LogoThere, On
    <2> QED
        BY <1>1, <1>3, <1>4, <1>5, <2>1, <2>2, <2>3
<1> QED
    BY <1>6, <1>7, <1>8, <1>9

LEMMA KeepsReadBack ==
    ASSUME SettingInv, page' = page, NEW f \in Flows, ReadBack(f)
    PROVE  SettingInv'
<1> USE DEF SettingInv, SettingsTyped
<1> DEFINE b == IF f = "org" THEN store.name ELSE Now
<1>1. flow[f] # None /\ flow[f].pc = "reading" /\ store' = store /\ Took(f, "got", b)
    BY DEF ReadBack, On, Now
<1>2. f \notin Renames
    BY <1>1, FlowFacts DEF FlowFits
<1>3. (f = "org" => b \in Nat) /\ (f # "org" => b \in Seen)
    BY DEF StoreType, Seen, Now
<1>4. (f # "org" => b = Now) /\ (f = "org" => b = store.name)
    OBVIOUS
<1> HIDE DEF b
<1>5. /\ Running(flow') /\ flow'[f] # None /\ flow'[f].pc = "got" /\ flow'[f].got = b
      /\ \A h \in Flows : h # f => flow'[h] = flow[h]
    BY <1>1, <1>2, <1>3, FlowTook
<1>6. SettingsTyped'
    BY <1>1, <1>5
<1>7. LogoInv'
    BY <1>1, <1>5, FlowFacts DEF LogoInv, LogoThere, On
<1>8. NameInv'
    BY <1>1, <1>2, <1>4, <1>5, FlowFacts DEF NameInv, NamesStored, NameNeverLost
<1>9. ShownInv'
    <2>1. \A h \in Flows : Reading(h)' <=> Reading(h)
        BY <1>1, <1>5 DEF Reading
    <2>2. \A h \in Flows : Written2(h) => Written2(h)'
        BY <1>1, <1>5 DEF Written2
    <2>3. Now' = Now
        BY <1>1 DEF Now
    <2>4. ASSUME page.view # "closed", "shown" \notin store.torn
          PROVE  \A h \in Readers : flow'[h] # None /\ flow'[h].pc = "got" =>
                    flow'[h].got = Now \/ \E g \in Readers : Written2(g)'
        <3>1. ASSUME NEW h \in Readers, flow'[h] # None, flow'[h].pc = "got"
              PROVE  flow'[h].got = Now \/ \E g \in Readers : Written2(g)'
            <4>1. CASE h = f
                BY <1>4, <1>5, <4>1, FlowFacts
            <4>2. CASE h # f
                BY <1>5, <2>2, <2>4, <3>1, <4>2, FlowFacts DEF ShownInv
            <4> QED
                BY <4>1, <4>2
        <3> QED
            BY <3>1
    <2>5. ASSUME page.view # "closed", "shown" \notin store.torn
          PROVE  /\ \A h \in LateOnes : flow'[h] = None
                 /\ \A g, h \in Readers : Reading(g)' /\ Reading(h)' => g = h
                 /\ \/ page.look = store.look /\ page.logo = store.logo
                    \/ \E h \in Readers : Written2(h)' \/ Reading(h)'
        BY <1>1, <1>5, <2>1, <2>2, <2>5, FlowFacts DEF ShownInv
    <2> QED
        BY <1>1, <2>3, <2>4, <2>5 DEF ShownInv
<1> QED
    BY <1>6, <1>7, <1>8, <1>9

LEMMA KeepsLapse ==
    ASSUME SettingInv, page' = page, NEW f \in Flows, Lapse(f)
    PROVE  SettingInv'
<1> USE DEF SettingInv, SettingsTyped
<1> DEFINE ps == (IF f \in {"org"} \cup Renames THEN {} ELSE {"shown"})
                    \cup (IF flow[f].pc = "dropped" THEN {"logo"} ELSE {})
<1>1. /\ flow[f] # None /\ store' = [store EXCEPT !.torn = store.torn \cup ps]
      /\ \/ flow[f].pc \in {"sent", "looked", "put", "dropped", "ok"} /\ To(f, "fail")
         \/ flow[f].pc \in {"reading", "got"} /\ To(f, "unread")
    BY DEF Lapse, Tear
<1>2. /\ store' \in StoreType /\ store'.torn = store.torn \cup ps /\ store'.logo = store.logo
      /\ store'.files = store.files /\ store'.named = store.named /\ store'.look = store.look
      /\ store'.name = store.name
    BY <1>1 DEF StoreType
<1>3. /\ f \notin {"org"} \cup Renames => "shown" \in ps
      /\ flow[f].pc = "dropped" => "logo" \in ps
    OBVIOUS
<1> HIDE DEF ps
<1>4. /\ Running(flow') /\ flow'[f] # None /\ flow'[f].pc \in {"fail", "unread"} /\ flow'[f].arg = flow[f].arg
      /\ \A h \in Flows : h # f => flow'[h] = flow[h]
    <2>1. FlowFits(f, flow[f])
        BY <1>1, FlowFacts
    <2>2. CASE flow[f].pc \in {"sent", "looked", "put", "dropped", "ok"} /\ To(f, "fail")
        <3>1. f # "org"
            BY <2>1, <2>2 DEF FlowFits
        <3>2. flow' = [flow EXCEPT ![f].pc = "fail"]
            BY <2>2 DEF To
        <3> QED
            BY <1>1, <3>1, <3>2, FlowAt DEF FlowPcs
    <2>3. CASE flow[f].pc \in {"reading", "got"} /\ To(f, "unread")
        <3>1. f \notin Renames
            BY <2>1, <2>3 DEF FlowFits
        <3>2. flow' = [flow EXCEPT ![f].pc = "unread"]
            BY <2>3 DEF To
        <3> QED
            BY <1>1, <3>1, <3>2, FlowAt DEF FlowPcs
    <2> QED
        BY <1>1, <2>2, <2>3
<1>5. SettingsTyped'
    BY <1>2, <1>4
<1>6. LogoInv'
    <2>1. LogoThere'
        BY <1>2, <1>3, <1>4, FlowFacts DEF LogoInv, LogoThere, On
    <2> QED
        BY <1>1, <1>2, <1>4, <2>1, FlowFacts DEF LogoInv, On
<1>7. NameInv'
    BY <1>1, <1>2, <1>4, FlowFacts DEF NameInv, NamesStored, NameNeverLost, FlowFits
<1>8. ShownInv'
    <2>1. CASE f \notin {"org"} \cup Renames
        BY <1>2, <1>3, <2>1 DEF ShownInv
    <2>2. CASE f \in {"org"} \cup Renames
        <3>1. \A h \in Readers : (Reading(h)' <=> Reading(h)) /\ (Written2(h)' <=> Written2(h)) /\ flow'[h] = flow[h]
            BY <1>4, <2>2, FlowFacts DEF Reading, Written2
        <3>2. Now' = Now
            BY <1>2 DEF Now
        <3> QED
            BY <1>2, <3>1, <3>2, FlowFacts DEF ShownInv
    <2> QED
        BY <2>1, <2>2
<1> QED
    BY <1>5, <1>6, <1>7, <1>8

\* A write is given up, and goes on late.
LEMMA KeepsAbandon ==
    ASSUME SettingInv, page' = page, NEW f \in Flows, Abandon(f)
    PROVE  SettingInv'
<1> USE DEF SettingInv, SettingsTyped
<1> DEFINE g == GoOn(f)
           ps == IF f = "rename" THEN {} ELSE {"shown"}
<1>1. /\ f \in Mine /\ flow[f] # None /\ flow[g] = None
      /\ flow[f].pc \in {"sent", "looked", "put", "dropped"}
      /\ flow' = [flow EXCEPT ![f] = None, ![g] = flow[f]]
      /\ store' = [store EXCEPT !.torn = store.torn \cup ps]
    BY DEF Abandon, Tear
<1>2. /\ g \in Late /\ g \in Flows /\ g # f /\ f # "org" /\ g # "org" /\ g # "rename"
      /\ f = "rename" => g = "late rename"
      /\ (f \in Logos <=> g \in Logos) /\ (f \in Uploads <=> g \in Uploads)
      /\ (f \in Deletions <=> g \in Deletions) /\ (f \in Saves <=> g \in Saves)
      /\ (f \in Renames <=> g \in Renames)
    <2>1. CASE f \in Removals
        BY <2>1, FlowNames DEF GoOn
    <2>2. CASE f \in {"save", "upload", "rename"}
        BY <2>2, FlowNames DEF GoOn
    <2> QED
        BY <1>1, <2>1, <2>2 DEF Mine
<1>3. (f # "rename" => "shown" \in ps) /\ ps \subseteq {"shown"}
    OBVIOUS
<1>4. flow[f] \in Flow /\ FlowFits(f, flow[f]) /\ flow \in [Flows -> {None} \cup Flow]
    BY <1>1, FlowFacts
<1> HIDE DEF g, ps
<1>5. /\ flow' \in [Flows -> {None} \cup Flow] /\ flow'[f] = None /\ flow'[g] = flow[f]
      /\ \A h \in Flows : h # f /\ h # g => flow'[h] = flow[h]
    BY <1>1, <1>2, <1>4
<1>6. FlowFits(g, flow'[g])
    BY <1>1, <1>2, <1>4, <1>5 DEF FlowFits
<1>7. Running(flow')
    BY <1>5, <1>6 DEF Running
<1>8. /\ store' \in StoreType /\ store'.torn = store.torn \cup ps /\ store'.logo = store.logo
      /\ store'.files = store.files /\ store'.named = store.named /\ store'.look = store.look
      /\ store'.name = store.name
    BY <1>1, <1>3 DEF StoreType
<1>9. LogoInv'
    <2>1. LogoThere'
        BY <1>1, <1>2, <1>5, <1>8, FlowFacts DEF LogoInv, LogoThere, On
    <2>2. ASSUME "logo" \notin store'.torn
          PROVE  /\ \A i, h \in Logos : flow'[i] # None /\ flow'[h] # None => i = h
                 /\ \A h \in Uploads : On(h, Flows, "put")' => flow'[h].arg \in store'.files
        <3>1. "logo" \notin store.torn
            BY <1>8, <2>2
        <3>2. ASSUME NEW h \in Logos, flow'[h] # None
              PROVE  (flow[h] # None /\ h # f) \/ (h = g /\ f \in Logos)
            <4>1. CASE h = g
                BY <1>2, <4>1
            <4>2. CASE h # g
                BY <1>5, <3>2, <4>2, FlowFacts
            <4> QED
                BY <4>1, <4>2
        <3>3. \A i, h \in Logos : flow'[i] # None /\ flow'[h] # None => i = h
            <4>1. CASE f \in Logos
                <5>1. \A h \in Logos : flow[h] # None => h = f
                    BY <1>1, <3>1, <4>1 DEF LogoInv
                <5> QED
                    BY <3>2, <5>1
            <4>2. CASE f \notin Logos
                BY <3>1, <3>2, <4>2 DEF LogoInv
            <4> QED
                BY <4>1, <4>2
        <3>4. \A h \in Uploads : On(h, Flows, "put")' => flow'[h].arg \in store'.files
            BY <1>1, <1>2, <1>5, <1>8, <3>1, FlowFacts DEF LogoInv, On
        <3> QED
            BY <3>3, <3>4
    <2> QED
        BY <2>1, <2>2 DEF LogoInv
<1>10. NameInv'
    BY <1>1, <1>2, <1>5, <1>8, FlowFacts DEF NameInv, NamesStored, NameNeverLost
<1>11. ShownInv'
    <2>1. CASE f # "rename"
        BY <1>3, <1>8, <2>1 DEF ShownInv
    <2>2. CASE f = "rename"
        <3>1. \A h \in Readers : (Reading(h)' <=> Reading(h)) /\ (Written2(h)' <=> Written2(h)) /\ flow'[h] = flow[h]
            BY <1>2, <1>5, <2>2, FlowFacts DEF Reading, Written2
        <3>2. Now' = Now
            BY <1>8 DEF Now
        <3>3. store.torn \subseteq store'.torn
            BY <1>8
        <3> QED
            BY <1>8, <3>1, <3>2, <3>3, FlowFacts DEF ShownInv
    <2> QED
        BY <2>1, <2>2
<1> QED
    BY <1>7, <1>8, <1>9, <1>10, <1>11

\* What the person does on the page, but for starting a flow.
LEMMA KeepsDrafts ==
    ASSUME SettingInv, page.view # "closed", NEW n \in Nat,
           Draft(n) \/ Elsewhere(n) \/ EditName(n) \/ CancelName
    PROVE  SettingInv' /\ page'.view # "closed"
<1> USE DEF SettingInv, SettingsTyped
<1>1. flow' = flow
    BY DEF Draft, Elsewhere, EditName, CancelName
<1>2. CASE Elsewhere(n)
    <2>1. /\ page' = page /\ store' \in StoreType /\ store'.torn = store.torn \cup {"shown"}
          /\ store'.logo = store.logo /\ store'.files = store.files /\ store'.named = store.named
          /\ store'.name = store.name
        <3>1. page' = page /\ store' = [store EXCEPT !.look = n, !.torn = store.torn \cup {"shown"}]
            BY <1>2 DEF Elsewhere
        <3>2. n \in Int /\ store.torn \cup {"shown"} \in SUBSET {"logo", "shown"}
            BY DEF StoreType
        <3> QED
            BY <3>1, <3>2 DEF StoreType
    <2>2. LogoInv'
        BY <1>1, <2>1 DEF LogoInv, LogoThere, On
    <2>3. NameInv'
        BY <1>1, <2>1 DEF NameInv, NamesStored, NameNeverLost
    <2>4. ShownInv'
        BY <2>1 DEF ShownInv
    <2> QED
        BY <1>1, <2>1, <2>2, <2>3, <2>4
<1>3. ASSUME store' = store, page' \in PageType, page'.view = page.view, page'.look = page.look,
             page'.logo = page.logo, NameInv'
      PROVE  SettingInv' /\ page'.view # "closed"
    <2>1. LogoInv'
        BY <1>1, <1>3 DEF LogoInv, LogoThere, On
    <2>2. \A h \in Readers : (Reading(h)' <=> Reading(h)) /\ (Written2(h)' <=> Written2(h))
        BY <1>1 DEF Reading, Written2
    <2>3. Now' = Now
        BY <1>3 DEF Now
    <2>4. ShownInv'
        BY <1>1, <1>3, <2>2, <2>3 DEF ShownInv
    <2> QED
        BY <1>1, <1>3, <2>1, <2>4
<1>4. CASE Draft(n)
    <2>1. /\ store' = store /\ page' \in PageType /\ page'.view = page.view /\ page'.look = page.look
          /\ page'.logo = page.logo /\ page'.meant = page.meant /\ page'.editing = page.editing
          /\ page'.text = page.text /\ page'.name = page.name
        BY <1>4 DEF Draft, PageType
    <2>2. NameInv'
        BY <1>1, <2>1 DEF NameInv, NamesStored, NameNeverLost
    <2> QED
        BY <1>3, <2>1, <2>2
<1>5. CASE EditName(n)
    <2>1. /\ store' = store /\ page' \in PageType /\ page'.view = page.view /\ page'.look = page.look
          /\ page'.logo = page.logo /\ page'.meant = page.meant \cup ({n} \ {0})
          /\ page'.editing = TRUE /\ page'.name = page.name
          /\ page'.text = n /\ ~page.editing
        BY <1>5 DEF EditName, PageType
    <2>2. NameInv'
        BY <1>1, <2>1 DEF NameInv, NamesStored, NameNeverLost
    <2> QED
        BY <1>3, <2>1, <2>2
<1>6. CASE CancelName
    <2>1. /\ store' = store /\ page' \in PageType /\ page'.view = page.view /\ page'.look = page.look
          /\ page'.logo = page.logo /\ page'.meant = page.meant \ {page.text} /\ page'.editing = FALSE
          /\ flow["rename"] = None /\ page'.name = page.name
        BY <1>6 DEF CancelName, PageType
    <2>2. NameInv'
        BY <1>1, <2>1 DEF NameInv, NamesStored, NameNeverLost
    <2> QED
        BY <1>3, <2>1, <2>2
<1> QED
    BY <1>2, <1>4, <1>5, <1>6

\* A name that is the one shown, or nothing.
CloseName == SaveName /\ page.text \in {0, page.name}
LEMMA KeepsClosed ==
    ASSUME SettingInv, page.view # "closed", CloseName
    PROVE  SettingInv' /\ page'.view # "closed"
<1> USE DEF SettingInv, SettingsTyped
<1>1. /\ page.view = "ready" /\ page.editing /\ flow["rename"] = None /\ page.text \in {0, page.name}
      /\ page' = [page EXCEPT !.editing = FALSE, !.text = 0] /\ flow' = flow /\ store' = store
    BY DEF CloseName, SaveName, Section
<1>2. /\ page' \in PageType /\ page'.view = page.view /\ page'.look = page.look
      /\ page'.logo = page.logo /\ page'.name = page.name /\ page'.meant = page.meant
      /\ ~page'.editing
    BY <1>1 DEF PageType
<1>3. page.meant \subseteq store.named
    BY <1>1 DEF NameInv, NamesStored, NameNeverLost
<1>4. NameInv'
    BY <1>1, <1>2, <1>3 DEF NameInv, NamesStored, NameNeverLost
<1>5. LogoInv'
    BY <1>1 DEF LogoInv, LogoThere, On
<1>6. ShownInv'
    BY <1>1, <1>2 DEF ShownInv, Reading, Written2, Now
<1> QED
    BY <1>1, <1>2, <1>4, <1>5, <1>6

\* A flow starts.
LEMMA KeepsStarts ==
    ASSUME SettingInv, page.view # "closed", ~CloseName,
           Save \/ SaveName \/ ReadOrgAgain \/ (\E e \in Exts : PickLogo(e)) \/ \E f \in Removals : DropLogo(f)
    PROVE  SettingInv' /\ page'.view # "closed"
<1> USE DEF SettingInv, SettingsTyped
<1>1. page' = page
    BY DEF CloseName, Save, SaveName, SentName, ReadOrgAgain, PickLogo, DropLogo, Logo
<1>2. ASSUME NEW f \in {"save", "rename", "org"}, NEW pc \in {"sent", "reading"}, NEW b, flow[f] = None,
             b \in {None} \cup Exts \cup Int,
             f = "save" => b \in Int /\ pc = "sent",
             f = "rename" => b \in Nat /\ pc = "sent" /\ page.editing /\ page.text = b,
             f = "org" => pc = "reading", flow' = [flow EXCEPT ![f] = Starts(pc, b)], store' = store
      PROVE  SettingInv'
    <2>1. /\ f \notin Logos \cup Late /\ f \in Flows /\ (f \in Saves => b \in Int)
          /\ (f \in Renames => b \in Nat /\ pc = "sent")
        BY <1>2, FlowNames, FlowFacts
    <2>2. /\ Running(flow') /\ flow'[f] # None /\ flow'[f].pc = pc /\ flow'[f].arg = b
          /\ \A h \in Flows : h # f => flow'[h] = flow[h]
        <3>1. /\ Running(flow) /\ b \in {None} \cup Exts \cup Int /\ (f = "org" => pc = "reading")
              /\ flow' = [flow EXCEPT ![f] = Starts(pc, b)]
            BY <1>2
        <3>2. f \in Uploads => b \in Exts
            BY <2>1, FlowFacts
        <3>3. (f \in Saves => b \in Int) /\ (f \in Renames => b \in Nat /\ pc = "sent") /\ f \in Flows
            BY <2>1
        <3>4. CASE pc = "sent"
            BY <3>1, <3>2, <3>3, <3>4, FlowStarts
        <3>5. CASE pc = "reading"
            BY <3>1, <3>2, <3>3, <3>5, FlowStarts
        <3> QED
            BY <3>4, <3>5
    <2>3. LogoInv'
        BY <1>2, <2>1, <2>2, FlowFacts DEF LogoInv, LogoThere, On
    <2>4. NameInv'
        BY <1>1, <1>2, <2>2, FlowFacts DEF NameInv, NamesStored, NameNeverLost
    <2>5. \A h \in Readers : (Reading(h)' <=> Reading(h)) /\ (Written2(h)' <=> Written2(h))
        <3>1. f \in Readers => pc = "sent"
            BY <1>2, FlowFacts
        <3> QED
            BY <1>2, <2>2, <3>1, FlowFacts DEF Reading, Written2
    <2>6. \A h \in Readers : flow'[h] # None /\ flow'[h].pc = "got" => flow'[h] = flow[h]
        BY <1>2, <2>2, FlowFacts
    <2>7. Now' = Now
        BY <1>2 DEF Now
    <2>8. ShownInv'
        BY <1>1, <1>2, <2>1, <2>2, <2>5, <2>6, <2>7, FlowFacts DEF ShownInv, LateOnes
    <2> QED
        BY <1>1, <1>2, <2>2, <2>3, <2>4, <2>8
<1>3. CASE Save
    <2>1. flow' = [flow EXCEPT !["save"] = Starts("sent", page.draft)] /\ store' = store /\ flow["save"] = None
        BY <1>3 DEF Save, Begin, Starts
    <2>2. page.draft \in Int
        BY DEF PageType
    <2> QED
        BY <1>1, <1>2, <2>1, <2>2, FlowFacts
<1>4. CASE SaveName
    <2>1. /\ flow' = [flow EXCEPT !["rename"] = Starts("sent", page.text)] /\ store' = store
          /\ flow["rename"] = None /\ page.editing
        BY <1>4 DEF CloseName, SaveName, Begin, Starts
    <2>2. page.text \in Nat /\ page.text \in {None} \cup Exts \cup Int
        BY DEF PageType
    <2>3. SettingInv'
        BY <1>2, <2>1, <2>2
    <2> QED
        BY <1>1, <2>3
<1>5. CASE ReadOrgAgain
    <2>1. flow' = [flow EXCEPT !["org"] = Starts("reading", None)] /\ store' = store /\ flow["org"] = None
        BY <1>5 DEF ReadOrgAgain, ReadOrg, Starts
    <2> QED
        <3>1. SettingInv'
            BY <1>2, <2>1
        <3> QED
            BY <1>1, <3>1
<1>6. ASSUME NEW f \in {"upload"} \cup Removals, NEW b \in {None} \cup Exts, f = "upload" => b \in Exts,
             Logo(f, b)
      PROVE  SettingInv'
    <2>0. /\ f # "org" /\ f \notin Renames /\ f \notin Saves /\ f \in Logos /\ f \in Readers
          /\ f \in Flows /\ f \notin Late /\ (f \in Uploads => f = "upload")
        BY FlowFacts, FlowNames
    <2>1. flow' = [flow EXCEPT ![f] = Starts("sent", b)] /\ flow[f] = None
        BY <1>6 DEF Logo, Begin, Starts
    <2>2. /\ Running(flow') /\ flow'[f] # None /\ flow'[f].pc = "sent" /\ flow'[f].arg = b
          /\ \A h \in Flows : h # f => flow'[h] = flow[h]
        BY <1>6, <2>0, <2>1, FlowStarts
    <2>3. \A h \in Readers : (Reading(h)' <=> Reading(h)) /\ (Written2(h)' <=> Written2(h))
        BY <2>0, <2>1, <2>2, FlowFacts DEF Reading, Written2
    <2>4. \A h \in Readers : flow'[h] # None /\ flow'[h].pc = "got" => flow'[h] = flow[h]
        BY <2>2, FlowFacts
    <2>5. CASE \E g \in Logos : flow[g] # None
        <3>1. store' = [store EXCEPT !.torn = store.torn \cup {"logo", "shown"}]
            BY <1>6, <2>5 DEF Logo, Tear
        <3>2. /\ store' \in StoreType /\ store'.torn = store.torn \cup {"logo", "shown"}
              /\ store'.named = store.named /\ store'.name = store.name
            BY <3>1 DEF StoreType
        <3>3. LogoInv' /\ ShownInv'
            BY <3>2 DEF LogoInv, LogoThere, ShownInv
        <3>4. NameInv'
            BY <1>1, <2>0, <2>2, <3>2, FlowFacts DEF NameInv, NamesStored, NameNeverLost
        <3> QED
            BY <1>1, <2>2, <3>2, <3>3, <3>4
    <2>6. CASE ~(\E g \in Logos : flow[g] # None)
        <3>1. store' = store
            BY <1>6, <2>6 DEF Logo
        <3>2. LogoInv'
            BY <1>6, <2>0, <2>2, <2>6, <3>1, FlowFacts DEF LogoInv, LogoThere, On
        <3>3. NameInv'
            BY <1>1, <2>0, <2>2, <3>1, FlowFacts DEF NameInv, NamesStored, NameNeverLost
        <3>4. Now' = Now
            BY <3>1 DEF Now
        <3>5. ShownInv'
            BY <1>1, <2>0, <2>2, <2>3, <2>4, <3>1, <3>4, FlowFacts DEF ShownInv, LateOnes
        <3> QED
            BY <1>1, <2>2, <3>1, <3>2, <3>3, <3>5
    <2> QED
        BY <2>5, <2>6
<1>7. ASSUME NEW e \in Exts, PickLogo(e)
      PROVE  SettingInv'
    BY <1>6, <1>7 DEF PickLogo
<1>8. ASSUME NEW f \in Removals, DropLogo(f)
      PROVE  SettingInv'
    BY <1>6, <1>8, FlowFacts DEF DropLogo
<1> QED
    BY <1>1, <1>3, <1>4, <1>5, <1>7, <1>8

\* What the page hears.
LEMMA KeepsHeard ==
    ASSUME SettingInv, page.view # "closed", NEW f \in Flows, Written(f) \/ Got(f) \/ Missed(f)
    PROVE  SettingInv' /\ page'.view # "closed"
<1> USE DEF SettingInv, SettingsTyped
<1>1. CASE Written(f)
    <2>1. /\ flow[f] # None /\ flow[f].pc = "ok" /\ f \in Mine \ {"rename"} /\ page' = page
          /\ flow' = [flow EXCEPT ![f].pc = "reading"]
        BY <1>1 DEF Written, On, ReadNext
    <2>2. f \in Readers /\ f # "org" /\ f \notin Renames /\ f \notin Late
        BY <2>1, FlowFacts, FlowNames DEF Mine
    <2>3. /\ Running(flow') /\ flow'[f] # None /\ flow'[f].arg = flow[f].arg /\ flow'[f].pc = "reading"
          /\ \A h \in Flows : h # f => flow'[h] = flow[h]
        BY <2>1, <2>2, FlowAt DEF FlowPcs
    <2>4. /\ store' \in StoreType /\ store'.named = store.named /\ store'.logo = store.logo
          /\ store'.files = store.files /\ store'.look = store.look /\ store'.name = store.name
          /\ store'.torn = store.torn \/ store'.torn = store.torn \cup {"shown"}
        <3>1. store' = store \/ store' = [store EXCEPT !.torn = store.torn \cup {"shown"}]
            BY <1>1 DEF Written, Tear
        <3>2. [store EXCEPT !.torn = store.torn \cup {"shown"}] \in StoreType
            BY StoreMoves
        <3> QED
            BY <3>1, <3>2 DEF StoreType
    <2>5. LogoInv'
        BY <2>1, <2>3, <2>4, FlowFacts DEF LogoInv, LogoThere, On
    <2>6. NameInv'
        BY <2>1, <2>2, <2>3, <2>4, FlowFacts DEF NameInv, NamesStored, NameNeverLost
    <2>7. ShownInv'
        <3>1. CASE \E g \in Flows \ {f, "org"} : Reading(g)
            <4>1. store' = [store EXCEPT !.torn = store.torn \cup {"shown"}]
                BY <1>1, <3>1 DEF Written, Tear
            <4>2. "shown" \in store'.torn
                BY <4>1 DEF StoreType
            <4> QED
                BY <4>2 DEF ShownInv
        <3>2. CASE ~(\E g \in Flows \ {f, "org"} : Reading(g))
            <4>1. \A h \in Readers : Reading(h)' => h = f
                BY <2>1, <2>3, <3>2, FlowFacts DEF Reading
            <4>2. \A h \in Readers : ~(flow'[h] # None /\ flow'[h].pc = "got")
                BY <2>3, <4>1 DEF Reading
            <4>3. Reading(f)'
                BY <2>3 DEF Reading
            <4>4. "shown" \notin store'.torn => \A h \in LateOnes : flow'[h] = None
                BY <2>1, <2>2, <2>3, <2>4, FlowFacts DEF ShownInv, LateOnes
            <4> QED
                BY <2>2, <4>1, <4>2, <4>3, <4>4 DEF ShownInv
        <3> QED
            BY <3>1, <3>2
    <2> QED
        BY <2>1, <2>3, <2>4, <2>5, <2>6, <2>7
<1>2. ASSUME flow[f] # None, flow[f].pc \in {"got", "fail", "unread", "ok"}, flow' = [flow EXCEPT ![f] = None],
             store' = store, f \in Readers \cup Renames, page'.view = page.view, page'.name = page.name,
             page'.meant = page.meant, page'.editing = page.editing, page'.text = page.text
      PROVE  /\ Running(flow') /\ flow'[f] = None /\ \A h \in Flows : h # f => flow'[h] = flow[h]
             /\ LogoInv' /\ NameInv'
    <2>1. Running(flow') /\ flow'[f] = None /\ \A h \in Flows : h # f => flow'[h] = flow[h]
        BY <1>2, FlowEnds
    <2>2. LogoThere'
        BY <1>2, <2>1, FlowFacts DEF LogoInv, LogoThere, On
    <2>3. LogoInv'
        BY <1>2, <2>1, <2>2, FlowFacts DEF LogoInv, On
    <2>4. NameInv'
        BY <1>2, <2>1, FlowFacts DEF NameInv, NamesStored, NameNeverLost
    <2> QED
        BY <2>1, <2>3, <2>4
<1>3. CASE Got(f)
    <2>1. /\ flow[f] # None /\ flow[f].pc = "got" /\ f # "org" /\ store' = store
          /\ flow' = [flow EXCEPT ![f] = None]
          /\ page' = [page EXCEPT !.look = flow[f].got.look, !.logo = flow[f].got.logo,
                                  !.draft = flow[f].got.look]
        BY <1>3 DEF Got, On
    <2>2. flow[f].got \in Seen /\ f \in Readers
        BY <2>1, FlowFacts DEF FlowFits
    <2>3. /\ page' \in PageType /\ page'.look = flow[f].got.look /\ page'.logo = flow[f].got.logo
          /\ page'.view = page.view /\ page'.meant = page.meant /\ page'.editing = page.editing
          /\ page'.text = page.text /\ page'.name = page.name
        BY <2>1, <2>2 DEF PageType, Seen
    <2>4. /\ Running(flow') /\ flow'[f] = None /\ \A h \in Flows : h # f => flow'[h] = flow[h]
          /\ LogoInv' /\ NameInv'
        BY <1>2, <2>1, <2>2, <2>3
    <2>5. ShownInv'
        <3>1. SUFFICES ASSUME "shown" \notin store.torn
                       PROVE  ShownInv'
            BY <2>1 DEF ShownInv
        <3>2. Reading(f)
            BY <2>1 DEF Reading
        <3>3. \A h \in Readers : ~Reading(h)'
            BY <2>2, <2>4, <3>1, <3>2, FlowFacts DEF ShownInv, Reading
        <3>4. \A h \in Readers : ~(flow'[h] # None /\ flow'[h].pc = "got")
            BY <3>3 DEF Reading
        <3>5. \A h \in Readers : Written2(h) => Written2(h)'
            BY <2>1, <2>4, FlowFacts DEF Written2
        <3>6. flow[f].got = Now \/ \E h \in Readers : Written2(h)
            BY <2>1, <2>2, <3>1 DEF ShownInv
        <3>7. \/ page'.look = store'.look /\ page'.logo = store'.logo
              \/ \E h \in Readers : Written2(h)'
            BY <2>1, <2>3, <3>5, <3>6 DEF Now
        <3>8. \A h \in LateOnes : flow'[h] = None
            BY <2>4, <3>1, FlowFacts DEF ShownInv
        <3> QED
            BY <3>3, <3>4, <3>7, <3>8 DEF ShownInv
    <2> QED
        BY <2>1, <2>3, <2>4, <2>5
<1>4. CASE Missed(f)
    <2>1. /\ flow[f] # None /\ flow[f].pc \in {"fail", "unread", "ok"} /\ f # "org" /\ store' = store
          /\ flow[f].pc = "ok" => f \in Late
          /\ flow' = [flow EXCEPT ![f] = None] /\ page' = page
        BY <1>4, FlowNames DEF Missed, On
    <2>2. f \in Readers \cup Renames
        BY <2>1, FlowFacts
    <2>3. /\ Running(flow') /\ flow'[f] = None /\ \A h \in Flows : h # f => flow'[h] = flow[h]
          /\ LogoInv' /\ NameInv'
        BY <1>2, <2>1, <2>2
    <2>4. page.view # "closed" /\ "shown" \notin store.torn
            => \A h \in Readers : (Reading(h)' <=> Reading(h)) /\ (Written2(h)' <=> Written2(h))
        <3>1. SUFFICES ASSUME "shown" \notin store.torn, page.view # "closed", NEW h \in Readers
                       PROVE  (Reading(h)' <=> Reading(h)) /\ (Written2(h)' <=> Written2(h))
            OBVIOUS
        <3>2. h = f => flow[f].pc # "ok"
            BY <2>1, <3>1, FlowFacts DEF ShownInv, LateOnes
        <3> QED
            BY <2>1, <2>3, <3>1, <3>2, FlowFacts DEF Reading, Written2
    <2>5. \A h \in Readers : flow'[h] # None => flow'[h] = flow[h]
        BY <2>3, FlowFacts
    <2>6. Now' = Now
        BY <2>1 DEF Now
    <2>7. ShownInv'
        BY <2>1, <2>4, <2>5, <2>6, FlowFacts DEF ShownInv
    <2> QED
        BY <2>1, <2>3, <2>7
<1> QED
    BY <1>1, <1>3, <1>4

LEMMA KeepsRenamed ==
    ASSUME SettingInv, page.view # "closed", Renamed
    PROVE  SettingInv' /\ page'.view # "closed"
<1> USE DEF SettingInv, SettingsTyped
<1> DEFINE x == Starts("reading", None)
           y == [flow["rename"] EXCEPT !.pc = "refetch"]
<1>1. /\ flow["rename"] # None /\ flow["rename"].pc = "ok" /\ store' = store
      /\ page' = [page EXCEPT !.editing = FALSE, !.text = 0]
      /\ flow' = [[flow EXCEPT !["org"] = x] EXCEPT !["rename"].pc = "refetch"]
    BY DEF Renamed, On, ReadOrg, Starts
<1>2. flow["rename"] \in Flow /\ FlowFits("rename", flow["rename"])
    BY <1>1, FlowFacts
<1>3. x \in Flow /\ x.pc = "reading" /\ x # None /\ FlowFits("org", x)
    <2>1. x \in Flow /\ x.pc = "reading" /\ x # None
        BY NotNone DEF Starts, Flow
    <2> HIDE DEF x
    <2> QED
        BY <2>1, FlowFacts DEF FlowFits
<1>4. y \in Flow /\ y.pc = "refetch" /\ y # None /\ y.arg = flow["rename"].arg /\ FlowFits("rename", y)
    BY <1>2, NotNone DEF Flow, FlowFits
<1>5. flow' = [[flow EXCEPT !["org"] = x] EXCEPT !["rename"] = y]
    BY <1>1, FlowFacts
<1> HIDE DEF x, y
<1>6. /\ flow' \in [Flows -> {None} \cup Flow] /\ flow'["org"] = x /\ flow'["rename"] = y
      /\ \A h \in Flows \ {"org", "rename"} : flow'[h] = flow[h]
    BY <1>3, <1>4, <1>5, FlowFacts
<1>7. Running(flow')
    BY <1>3, <1>4, <1>6, FlowFacts DEF Running
<1>8. /\ page' \in PageType /\ page'.view = page.view /\ page'.look = page.look /\ page'.logo = page.logo
      /\ page'.meant = page.meant /\ page'.name = page.name
    BY <1>1 DEF PageType
<1>9. LogoInv'
    BY <1>1, <1>6, FlowFacts DEF LogoInv, LogoThere, On
<1>10. NameInv'
    <2>1. page.text \in store.named
        BY <1>1 DEF NameInv
    <2>2. NameNeverLost'
        BY <1>1, <1>8, <2>1 DEF NameInv, NamesStored, NameNeverLost
    <2> QED
        BY <1>1, <1>3, <1>4, <1>6, <1>8, <2>2 DEF NameInv, NamesStored
<1>11. ShownInv'
    <2>1. \A h \in Readers : /\ (Reading(h)' <=> Reading(h)) /\ (Written2(h)' <=> Written2(h))
                             /\ flow'[h] = flow[h]
        BY <1>6, FlowFacts DEF Reading, Written2
    <2>2. Now' = Now
        BY <1>1 DEF Now
    <2> QED
        BY <1>1, <1>8, <2>1, <2>2, FlowFacts DEF ShownInv
<1> QED
    BY <1>1, <1>7, <1>8, <1>9, <1>10, <1>11

LEMMA KeepsOrgRead ==
    ASSUME SettingInv, page.view # "closed", OrgRead
    PROVE  SettingInv' /\ page'.view # "closed"
<1> USE DEF SettingInv, SettingsTyped
<1>1. /\ flow["org"] # None /\ flow["org"].pc \in {"got", "unread"} /\ store' = store
      /\ flow' = [f \in Flows |-> IF f = "org" \/ On(f, {"rename"}, "refetch") THEN None ELSE flow[f]]
      /\ page' = IF flow["org"].pc = "unread" THEN [page EXCEPT !.view = "error"]
                 ELSE [page EXCEPT !.view = "ready", !.name = flow["org"].got,
                                   !.draft = IF Section THEN page.draft ELSE page.look]
    BY DEF OrgRead, On
<1>2. flow["org"].pc = "got" => flow["org"].got \in Nat
    BY <1>1, FlowFacts DEF FlowFits
<1>3. /\ page' \in PageType /\ page'.view # "closed" /\ page'.look = page.look /\ page'.logo = page.logo
      /\ page'.meant = page.meant /\ page'.editing = page.editing /\ page'.text = page.text
      /\ page'.view = "ready" => flow["org"].pc = "got" /\ page'.name = flow["org"].got
    <2>1. CASE flow["org"].pc = "unread"
        BY <1>1, <2>1 DEF PageType, View
    <2>2. CASE flow["org"].pc = "got"
        <3> DEFINE d == IF Section THEN page.draft ELSE page.look
        <3>1. d \in Int
            BY DEF PageType
        <3>2. page' = [page EXCEPT !.view = "ready", !.name = flow["org"].got, !.draft = d]
            BY <1>1, <2>2
        <3> HIDE DEF d
        <3> QED
            BY <1>2, <2>2, <3>1, <3>2 DEF PageType, View
    <2> QED
        BY <1>1, <2>1, <2>2
<1>4. \A h \in Flows \ {"org", "rename"} : flow'[h] = flow[h]
    BY <1>1 DEF On
<1>5. /\ flow'["org"] = None
      /\ flow'["rename"] = IF flow["rename"] # None /\ flow["rename"].pc = "refetch" THEN None ELSE flow["rename"]
      /\ flow' \in [Flows -> {None} \cup Flow]
    BY <1>1, FlowFacts DEF On
<1>6. Running(flow')
    BY <1>4, <1>5, FlowFacts DEF Running
<1>7. LogoInv'
    BY <1>1, <1>4, FlowFacts DEF LogoInv, LogoThere, On
<1>8. NameInv'
    BY <1>1, <1>3, <1>5 DEF NameInv, NamesStored, NameNeverLost
<1>9. ShownInv'
    <2>1. \A h \in Readers : /\ (Reading(h)' <=> Reading(h)) /\ (Written2(h)' <=> Written2(h))
                             /\ flow'[h] = flow[h]
        BY <1>4, FlowFacts DEF Reading, Written2
    <2>2. Now' = Now
        BY <1>1 DEF Now
    <2> QED
        BY <1>1, <1>3, <2>1, <2>2, FlowFacts DEF ShownInv
<1> QED
    BY <1>1, <1>3, <1>6, <1>7, <1>8, <1>9

LEMMA SettingKept ==
    ASSUME SettingInv, inputs \in Nat, Setting
    PROVE  SettingInv' /\ page'.view # "closed" /\ inputs' \in Nat
<1>1. page.view # "closed"
    BY DEF Setting
<1>2. inputs' \in Nat
    BY DEF Setting, Input
<1>3. ASSUME NEW f \in Flows, Handle(f), page' = page
      PROVE  SettingInv' /\ page'.view # "closed"
    <2>1. CASE LookUp(f)
        BY <1>1, <1>3, <2>1, KeepsLookUp
    <2>2. CASE Patch(f)
        BY <1>1, <1>3, <2>2, KeepsPatch
    <2>3. CASE PutLogo(f) \/ NameLogo(f) \/ DeleteLogo(f) \/ ForgetLogo(f)
        BY <1>1, <1>3, <2>3, KeepsLogo
    <2>4. CASE ReadBack(f)
        BY <1>1, <1>3, <2>4, KeepsReadBack
    <2> QED
        BY <1>3, <2>1, <2>2, <2>3, <2>4 DEF Handle
<1>4. CASE SettingsAnswered
    <2>1. ASSUME NEW f \in Flows, Written(f) \/ Got(f) \/ Missed(f)
          PROVE  SettingInv' /\ page'.view # "closed"
        BY <1>1, <2>1, KeepsHeard
    <2>2. CASE Renamed
        BY <1>1, <1>2, <2>2, KeepsRenamed
    <2>3. CASE OrgRead
        BY <1>1, <1>2, <2>3, KeepsOrgRead
    <2>4. (\E f \in Flows : Written(f) \/ Got(f) \/ Missed(f)) \/ Renamed \/ OrgRead
        BY <1>4 DEF SettingsAnswered
    <2> QED
        BY <1>2, <2>1, <2>2, <2>3, <2>4
<1>5. CASE SettingsEnd
    <2>1. 0 \in Nat /\ CancelName
        BY <1>5 DEF SettingsEnd
    <2> QED
        BY <1>1, <1>2, <2>1, KeepsDrafts
<1>6. ASSUME SettingsInput(inputs'), inputs' \in Nat
      PROVE  SettingInv' /\ page'.view # "closed"
    <2>1. CASE CloseName
        BY <1>1, <2>1, KeepsClosed
    <2>2. ASSUME ~CloseName, Save \/ SaveName \/ ReadOrgAgain \/ (\E e \in Exts : PickLogo(e))
                              \/ \E f \in Removals : DropLogo(f)
          PROVE  SettingInv' /\ page'.view # "closed"
        <3>1. SettingInv /\ page.view # "closed"
            BY <1>1
        <3> QED
            BY <2>2, <3>1, KeepsStarts
    <2>3. CASE \E n \in Nat : Draft(n) \/ Elsewhere(n) \/ EditName(n)
        BY <1>1, <2>3, KeepsDrafts
    <2> QED
        BY <1>6, <2>1, <2>2, <2>3 DEF SettingsInput, CloseName
<1>7. ASSUME NEW f \in Flows, Lapse(f) \/ Abandon(f), page' = page
      PROVE  SettingInv' /\ page'.view # "closed"
    BY <1>1, <1>7, KeepsLapse, KeepsAbandon
<1>8. \/ \E f \in Flows : Handle(f) /\ UNCHANGED page
      \/ SettingsAnswered \/ SettingsEnd \/ SettingsInput(inputs')
      \/ (\E f \in Flows : Lapse(f) \/ Abandon(f)) /\ UNCHANGED page
    BY DEF Setting
<1> QED
    BY <1>1, <1>2, <1>3, <1>4, <1>5, <1>6, <1>7, <1>8

LEMMA SettingsOpened ==
    ASSUME NEW open \in BOOLEAN, SettingsInit(open)
    PROVE  SettingInv
<1>1. PICK e \in Exts : e = CHOOSE x \in Exts : TRUE
    BY VideoPagesAssumption DEF VideoPagesAssumption
<1>2. store = [look |-> FirstLook, logo |-> e, name |-> 0, files |-> {e}, named |-> {}, torn |-> {}]
    BY <1>1 DEF SettingsInit
<1>3. /\ store \in StoreType /\ store.logo = e /\ store.files = {e} /\ store.name = 0
    BY <1>2 DEF StoreType, FirstLook
<1>4. PICK admin \in BOOLEAN : page = Opened(IF open THEN "loading" ELSE "closed", admin)
    BY DEF SettingsInit
<1>5. /\ page \in PageType /\ page.meant = {} /\ (page.view # "closed" => open) /\ page.view # "ready"
    BY <1>4 DEF Opened, PageType, View, Default
<1>6. flow = [f \in Flows |-> IF open /\ f \in {"mount", "org"} THEN Starts("reading", None) ELSE None]
    BY DEF SettingsInit, Starts
<1>7. /\ Starts("reading", None) \in Flow /\ Starts("reading", None).pc = "reading"
      /\ Starts("reading", None) # None
    BY NotNone DEF Starts, Flow
<1>8. \A f \in Flows : /\ flow[f] # None => open /\ f \in {"mount", "org"} /\ flow[f].pc = "reading"
                       /\ open /\ f = "mount" => flow[f] # None
    BY <1>6, <1>7
<1>9. Running(flow)
    <2>1. flow \in [Flows -> {None} \cup Flow]
        BY <1>6, <1>7
    <2> QED
        <3>1. ASSUME NEW f \in Flows, flow[f] # None
              PROVE  FlowFits(f, flow[f])
            <4>1. flow[f].pc = "reading" /\ f \notin Uploads \cup Saves \cup Renames
                BY <1>8, <3>1, FlowNames
            <4> QED
                BY <4>1 DEF FlowFits
        <3> QED
            BY <2>1, <3>1 DEF Running
<1>10. SettingsTyped
    BY <1>3, <1>5, <1>9 DEF SettingsTyped
<1>11. LogoInv
    <2>1. \A f \in Logos : flow[f] = None
        BY <1>8, <1>10, FlowFacts
    <2> QED
        BY <1>3, <1>10, <2>1, FlowFacts DEF LogoInv, LogoThere, On
<1>12. NameInv
    BY <1>3, <1>5, <1>8, <1>10, FlowFacts DEF NameInv, NamesStored, NameNeverLost
<1>13. ShownInv
    <2>1. "mount" \in Readers /\ "mount" \notin LateOnes /\ "org" \notin LateOnes
        BY FlowNames DEF Readers, LateOnes
    <2>2. open => Reading("mount")
        BY <1>8, <1>10, FlowFacts DEF Reading
    <2>3. \A f \in Readers : flow[f] # None => f = "mount" /\ flow[f].pc = "reading"
        BY <1>8, <1>10, FlowFacts
    <2> QED
        BY <1>5, <1>10, <2>1, <2>2, <2>3, FlowFacts DEF ShownInv, Reading
<1> QED
    BY <1>10, <1>11, <1>12, <1>13 DEF SettingInv

-----------------------------------------------------------------------------
(* The API.                                                                 *)

\* What becomes of one handler, with no other touched.
Went(s, pc, old) ==
    /\ Jobs(jobs') /\ \A t \in Slots : t # s => jobs'[t] = jobs[t]
    /\ jobs'[s] # None /\ jobs'[s].kind = jobs[s].kind /\ jobs'[s].arg = jobs[s].arg
    /\ jobs'[s].pc = pc /\ jobs'[s].old = old
    /\ answers' = answers
Ended(s, ok, b) ==
    /\ Jobs(jobs') /\ jobs'[s] = None /\ \A t \in Slots : t # s => jobs'[t] = jobs[t]
    /\ Answers(answers')
    /\ s = "abandoned" => answers' = answers
    /\ s # "abandoned" => /\ answers'[s] = [ok |-> ok, body |-> b] /\ answers'[s] # None
                          /\ answers'[s].ok = ok /\ answers'[s].body = b
    /\ \A k \in Kinds : k # s => answers'[k] = answers[k]

LEMMA RowChanged ==
    ASSUME NEW r \in Row, Changed(r)
    PROVE  /\ row' \in Row /\ row'.ver = r.ver + 1 /\ row'.status = r.status
           /\ row'.thumb = r.thumb /\ row'.meta = r.meta /\ row'.settings = r.settings
BY DEF Changed, Row

\* A slot is of its kind, or holds an abandoned write.
LEMMA SlotIs ==
    ASSUME ApiTyped, NEW s \in Slots, jobs[s] # None
    PROVE  /\ jobs[s] \in Job /\ jobs[s].kind \in Kinds /\ ArgFits(jobs[s].kind, jobs[s].arg)
           /\ s # "abandoned" => jobs[s].kind = s /\ s \in Kinds
           /\ s = "abandoned" => jobs[s].kind \in Writes
           /\ jobs[s].kind \in Reads => s = jobs[s].kind
<1>1. Reads \cap Writes = {}
    BY KindsDiffer DEF Writes
<1> QED
    BY <1>1, KindsDiffer DEF ApiTyped, Jobs, Carried, Job

LEMMA Refused ==
    ASSUME ApiTyped, NEW s \in Slots, Refuse(s)
    PROVE  /\ jobs[s] # None /\ jobs[s].pc = "sent" /\ Ended(s, FALSE, None)
           /\ UNCHANGED <<row, objects, tracks, comments, torn, faults>>
<1>1. [ok |-> FALSE, body |-> None] \in Answer
    BY DEF Answer
<1> QED
    BY <1>1, HandlerEnds DEF Refuse, At, ApiTyped, Ended

LEMMA HasRead ==
    ASSUME ApiTyped, NEW s \in Slots, Read(s)
    PROVE  /\ jobs[s] # None /\ s \in Reads /\ s \in Kinds
           /\ UNCHANGED <<row, objects, tracks, comments, torn, faults>>
           /\ \E b : /\ Ended(s, TRUE, b)
                     /\ s = "asset" => b = row
                     /\ s = "getChapters" => b = tracks.chapters
                     /\ s = "getTranscript" => b = tracks.transcript
<1>1. /\ jobs[s] # None /\ jobs[s].kind \in Reads
      /\ UNCHANGED <<row, objects, tracks, comments, torn, faults>>
    BY DEF Read, At
<1>2. jobs[s].kind = s /\ s \in Reads /\ s \in Kinds /\ s # "abandoned"
    BY <1>1, SlotIs, KindsDiffer
<1> DEFINE b == CASE s = "getChapters"   -> tracks.chapters
                  [] s = "getTranscript" -> tracks.transcript
                  [] s = "assets"        -> [status |-> row.status]
                  [] s \in {"load", "reload"} -> row.settings
                  [] s = "asset"         -> row
                  [] OTHER               -> None
<1>3. End(s, TRUE, b)
    BY <1>2 DEF Read, AssetBody
<1>4. /\ s = "asset" => b = row
      /\ s = "getChapters" => b = tracks.chapters
      /\ s = "getTranscript" => b = tracks.transcript
      /\ s = "assets" => b = [status |-> row.status]
      /\ s \in {"load", "reload"} => b = row.settings
      /\ s = "list" => b = None
    BY <1>2
<1> HIDE DEF b
<1>5. s \in {"load", "reload", "list", "asset", "assets", "getChapters", "getTranscript"}
    BY <1>2 DEF Reads, Files
<1>6. /\ row.settings \in Sections /\ [status |-> row.status] \in Brief
      /\ tracks.chapters \in Titles /\ tracks.transcript \in Texts /\ row \in Row
    BY DEF ApiTyped, StoredTyped, Row, Brief
<1>7. b \in {None} \cup Nat \cup Row \cup Brief \cup Tagged \cup Sections \cup Titles \cup Texts
    BY <1>4, <1>5, <1>6
<1>8. [ok |-> TRUE, body |-> b] \in Answer
    BY <1>7 DEF Answer
<1>9. BodyFits(s, b)
    <2>1. s \notin Chapter \cup Segment
        BY <1>2, KindsDiffer
    <2> QED
        BY <1>4, <1>5, <1>6, <2>1 DEF BodyFits, Thumbs
<1>10. Ended(s, TRUE, b)
    BY <1>3, <1>8, <1>9, HandlerEnds DEF ApiTyped, Ended
<1> QED
    BY <1>1, <1>2, <1>4, <1>10

LEMMA Looked ==
    ASSUME ApiTyped, NEW s \in Slots, Look(s)
    PROVE  /\ jobs[s] # None /\ jobs[s].pc = "sent" /\ Found(jobs[s].kind) /\ Went(s, "looked", row.thumb)
           /\ jobs[s].kind \in Writes
           /\ UNCHANGED <<row, objects, tracks, comments, torn, faults>>
<1>1. row.thumb \in Int
    BY DEF ApiTyped, StoredTyped, Row
<1> QED
    BY <1>1, HandlerGoesOn DEF Look, At, ApiTyped, Went

LEMMA Inserted ==
    ASSUME ApiTyped, NEW s \in Slots, Insert(s)
    PROVE  /\ jobs[s] # None /\ jobs[s].kind \in {"post", "react"} /\ Ended(s, TRUE, None)
           /\ comments' = comments \cup {jobs[s].arg} /\ jobs[s].arg \in Posting
           /\ UNCHANGED <<row, objects, tracks, torn, faults>>
<1>1. [ok |-> TRUE, body |-> None] \in Answer
    BY DEF Answer
<1>2. jobs[s] # None /\ jobs[s].kind \in {"post", "react"}
    BY DEF Insert, At
<1>3. jobs[s].arg \in Posting
    BY <1>2, SlotIs DEF ArgFits
<1>4. s # "abandoned" => BodyFits(s, None)
    <2>1. {"post", "react"} \subseteq FixedKinds
        BY PageKinds
    <2>2. ASSUME s # "abandoned" PROVE s \in {"post", "react"} /\ s \notin Chapter \cup Segment
        BY <1>2, <2>1, <2>2, SlotIs, KindsDiffer
    <2> QED
        BY <2>2 DEF BodyFits, Thumbs
<1>5. Ended(s, TRUE, None)
    BY <1>1, <1>4, HandlerEnds DEF Insert, ApiTyped, Ended
<1> QED
    BY <1>2, <1>3, <1>5 DEF Insert

\* The version that a change answers with.
LEMMA EndsVersioned ==
    ASSUME ApiTyped, NEW s \in Slots, jobs[s] # None, jobs[s].kind \in {"process", "settings"} \cup Thumbs,
           NEW b \in Nat, End(s, TRUE, b)
    PROVE  Ended(s, TRUE, b)
<1>1. [ok |-> TRUE, body |-> b] \in Answer
    BY DEF Answer
<1>2. s # "abandoned" => BodyFits(s, b)
    <2>1. {"process", "settings"} \cup Thumbs \subseteq FixedKinds
        BY PageKinds DEF Thumbs
    <2>2. ASSUME s # "abandoned" PROVE s \in {"process", "settings"} \cup Thumbs /\ s \notin Chapter \cup Segment
        BY <2>1, <2>2, SlotIs, KindsDiffer
    <2> QED
        BY <2>2 DEF BodyFits, Thumbs
<1> QED
    BY <1>1, <1>2, HandlerEnds DEF ApiTyped, Ended

LEMMA Updated ==
    ASSUME ApiTyped, NEW s \in Slots, Update(s)
    PROVE  /\ jobs[s] # None /\ jobs[s].kind \in {"meta", "settings"}
           /\ row' \in Row /\ row'.ver >= row.ver /\ row'.status = row.status /\ row'.thumb = row.thumb
           /\ row'.meta = row.meta \/ (row'.meta.ver = row'.ver /\ row'.ver = row.ver + 1)
           /\ \E b : /\ Ended(s, TRUE, b)
                     /\ IF jobs[s].kind = "meta" THEN b.ver = row'.meta.ver ELSE b = row'.ver
           /\ UNCHANGED <<objects, tracks, comments, torn, faults>>
<1>1. jobs[s] # None /\ jobs[s].kind \in {"meta", "settings"}
    BY DEF Update, At
<1>2. row \in Row /\ ArgFits(jobs[s].kind, jobs[s].arg)
    BY <1>1, SlotIs DEF ApiTyped, StoredTyped
<1>3. /\ row' \in Row /\ row'.ver >= row.ver /\ row'.status = row.status /\ row'.thumb = row.thumb
      /\ row'.meta = row.meta \/ (row'.meta.ver = row'.ver /\ row'.ver = row.ver + 1)
    <2>1. CASE row.status = "gone"
        BY <1>2, <2>1 DEF Update, Row
    <2>2. CASE row.status # "gone" /\ jobs[s].kind = "meta"
        <3> DEFINE m == [keys |-> jobs[s].arg, ver |-> row.ver + 1]
                   r == [row EXCEPT !.meta = m]
        <3>1. m \in Tagged /\ m.ver = row.ver + 1
            BY <1>2, <2>2 DEF ArgFits, Tagged, Row
        <3>2. Changed(r)
            BY <2>2 DEF Update
        <3> HIDE DEF m
        <3>3. /\ r \in Row /\ r.ver = row.ver /\ r.status = row.status /\ r.thumb = row.thumb
              /\ r.meta.ver = row.ver + 1
            BY <1>2, <3>1 DEF Row
        <3> HIDE DEF r
        <3> QED
            BY <1>2, <3>2, <3>3, RowChanged DEF Row
    <2>3. CASE row.status # "gone" /\ jobs[s].kind # "meta"
        <3> DEFINE r == [row EXCEPT !.settings = jobs[s].arg]
        <3>1. /\ r \in Row /\ r.ver = row.ver /\ r.status = row.status /\ r.thumb = row.thumb
              /\ r.meta = row.meta /\ Changed(r)
            BY <1>1, <1>2, <2>3 DEF Update, Row, ArgFits
        <3> HIDE DEF r
        <3> QED
            BY <1>2, <3>1, RowChanged DEF Row
    <2> QED
        BY <2>1, <2>2, <2>3
<1>4. \E b : Ended(s, TRUE, b) /\ IF jobs[s].kind = "meta" THEN b.ver = row'.meta.ver ELSE b = row'.ver
    <2>1. CASE jobs[s].kind = "settings"
        <3>1. End(s, TRUE, row'.ver) /\ row'.ver \in Nat
            BY <1>3, <2>1 DEF Update, Row
        <3> QED
            BY <1>1, <2>1, <3>1, EndsVersioned
    <2>2. CASE jobs[s].kind = "meta"
        <3> DEFINE b == [keys |-> jobs[s].arg, ver |-> row'.meta.ver]
        <3>1. End(s, TRUE, b) /\ b \in Tagged /\ b.ver = row'.meta.ver
            BY <1>2, <1>3, <2>2 DEF Update, ArgFits, Row, Tagged
        <3> HIDE DEF b
        <3>2. [ok |-> TRUE, body |-> b] \in Answer
            BY <3>1 DEF Answer
        <3>3. s # "abandoned" => BodyFits(s, b)
            <4>1. "meta" \notin Chapter \cup Segment
                BY PageKinds, KindsDiffer
            <4>2. s # "abandoned" => s = "meta"
                BY <1>1, <2>2, SlotIs
            <4> QED
                BY <3>1, <4>1, <4>2 DEF BodyFits, Thumbs
        <3>4. Ended(s, TRUE, b)
            BY <3>1, <3>2, <3>3, HandlerEnds DEF ApiTyped, Ended
        <3> QED
            BY <2>2, <3>1, <3>4
    <2> QED
        BY <1>1, <2>1, <2>2
<1> QED
    BY <1>1, <1>3, <1>4 DEF Update

LEMMA Queued ==
    ASSUME ApiTyped, NEW s \in Slots, Queue(s)
    PROVE  /\ jobs[s] # None /\ jobs[s].kind = "process"
           /\ row' \in Row /\ row'.ver >= row.ver /\ row'.thumb = row.thumb
           /\ (row'.status = "gone" <=> row.status = "gone")
           /\ Ended(s, TRUE, row'.ver) \/ Ended(s, FALSE, None)
           /\ UNCHANGED <<objects, tracks, comments, torn, faults>>
<1>1. jobs[s] # None /\ jobs[s].kind = "process" /\ row \in Row
    BY DEF Queue, At, ApiTyped, StoredTyped
<1>2. CASE row.status \in Processable
    <2> DEFINE r == [row EXCEPT !.status = "queued"]
    <2>1. r \in Row /\ r.ver = row.ver /\ r.status = "queued" /\ r.thumb = row.thumb /\ Changed(r)
        BY <1>1, <1>2 DEF Queue, Row, Statuses
    <2>2. End(s, TRUE, row'.ver) /\ row.status # "gone"
        BY <1>2 DEF Queue, Processable
    <2> HIDE DEF r
    <2>3. row' \in Row /\ row'.ver = row.ver + 1 /\ row'.thumb = row.thumb /\ row'.status = "queued"
        BY <2>1, RowChanged
    <2>4. row'.ver \in Nat /\ row'.ver >= row.ver
        BY <1>1, <2>3 DEF Row
    <2>5. Ended(s, TRUE, row'.ver)
        BY <1>1, <2>2, <2>4, EndsVersioned
    <2> QED
        BY <1>1, <2>2, <2>3, <2>4, <2>5 DEF Queue
<1>3. CASE row.status \notin Processable
    <2>1. [ok |-> FALSE, body |-> None] \in Answer
        BY DEF Answer
    <2>2. Ended(s, FALSE, None)
        BY <1>1, <1>3, <2>1, HandlerEnds DEF Queue, ApiTyped, Ended
    <2> QED
        <3>1. row' = row /\ UNCHANGED <<objects, tracks, comments, torn, faults>>
            BY <1>3 DEF Queue
        <3>2. row.ver >= row.ver
            BY <1>1 DEF Row
        <3> QED
            BY <1>1, <2>2, <3>1, <3>2
<1> QED
    BY <1>2, <1>3

LEMMA Purged ==
    ASSUME ApiTyped, NEW s \in Slots, Purge(s)
    PROVE  /\ jobs[s] # None /\ jobs[s].kind = "delete" /\ jobs[s].pc = "looked" /\ objects' = {}
           /\ Went(s, "purged", jobs[s].old)
           /\ UNCHANGED <<row, tracks, comments, torn, faults>>
BY HandlerGoes DEF Purge, At, ApiTyped, Went

LEMMA RowDropped ==
    ASSUME ApiTyped, NEW s \in Slots, DropRow(s)
    PROVE  /\ jobs[s] # None /\ jobs[s].kind = "delete" /\ jobs[s].pc = "purged" /\ comments' = {}
           /\ row' \in Row /\ row'.ver >= row.ver /\ row'.thumb = 0 /\ row'.status = "gone"
           /\ Ended(s, TRUE, row'.ver)
           /\ UNCHANGED <<objects, tracks, torn, faults>>
<1>1. jobs[s] # None /\ jobs[s].kind = "delete" /\ jobs[s].pc = "purged" /\ row \in Row
    BY DEF DropRow, At, ApiTyped, StoredTyped
<1> DEFINE r == [row EXCEPT !.status = "gone", !.thumb = 0]
<1>2. r \in Row /\ r.ver = row.ver /\ r.status = "gone" /\ r.thumb = 0 /\ Changed(r)
    <2>1. Changed(r)
        BY DEF DropRow
    <2>2. "gone" \in Statuses /\ 0 \in Int
        BY DEF Statuses
    <2>3. r \in Row /\ r.ver = row.ver /\ r.status = "gone" /\ r.thumb = 0
        BY <1>1, <2>2 DEF Row
    <2> QED
        BY <2>1, <2>3
<1> HIDE DEF r
<1>3. row' \in Row /\ row'.ver = row.ver + 1 /\ row'.thumb = 0 /\ row'.status = "gone"
    BY <1>2, RowChanged
<1>4. row'.ver \in Nat /\ row'.ver >= row.ver
    BY <1>1, <1>3 DEF Row
<1>5. Ended(s, TRUE, row'.ver)
    <2>1. [ok |-> TRUE, body |-> row'.ver] \in Answer
        BY <1>4 DEF Answer
    <2>2. "delete" \notin Chapter \cup Segment
        BY PageKinds, KindsDiffer
    <2>3. s # "abandoned" => BodyFits(s, row'.ver)
        BY <1>1, <2>2, SlotIs DEF BodyFits, Thumbs
    <2> QED
        BY <2>1, <2>3, HandlerEnds DEF DropRow, ApiTyped, Ended
<1> QED
    BY <1>1, <1>3, <1>4, <1>5 DEF DropRow

LEMMA ChaptersPut ==
    ASSUME ApiTyped, NEW s \in Slots, PutChapters(s)
    PROVE  /\ jobs[s] # None /\ jobs[s].kind \in Chapter /\ jobs[s].pc = "looked" /\ jobs[s].arg \in Titles
           /\ tracks' \in [chapters : Titles, transcript : Texts, subtitles : Texts]
           /\ tracks'.chapters = jobs[s].arg /\ tracks'.transcript = tracks.transcript
           /\ Ended(s, TRUE, jobs[s].arg)
           /\ UNCHANGED <<row, objects, comments, torn, faults>>
<1>1. jobs[s] # None /\ jobs[s].kind \in Chapter /\ jobs[s].pc = "looked"
    BY DEF PutChapters, At
<1>2. jobs[s].arg \in Titles
    BY <1>1, SlotIs DEF ArgFits
<1>3. /\ tracks' \in [chapters : Titles, transcript : Texts, subtitles : Texts]
      /\ tracks'.chapters = jobs[s].arg /\ tracks'.transcript = tracks.transcript
    BY <1>2 DEF PutChapters, ApiTyped, StoredTyped
<1> DEFINE b == jobs[s].arg
<1>4. End(s, TRUE, b)
    BY DEF PutChapters
<1>5. b \in Titles
    BY <1>2
<1> HIDE DEF b
<1>6. [ok |-> TRUE, body |-> b] \in Answer
    BY <1>5 DEF Answer
<1>7. s # "abandoned" => BodyFits(s, b)
    <2>1. ASSUME s # "abandoned" PROVE s \in Chapter /\ s \notin Segment /\ s \notin FixedKinds
        BY <1>1, <2>1, SlotIs, KindsDiffer
    <2>2. {"asset", "assets", "process", "settings", "load", "reload", "meta", "getTranscript", "thumb",
           "unthumb"} \subseteq FixedKinds
        BY PageKinds
    <2> QED
        BY <1>5, <2>1, <2>2 DEF BodyFits, Thumbs
<1>8. Ended(s, TRUE, b)
    BY <1>4, <1>6, <1>7, HandlerEnds DEF ApiTyped, Ended
<1> QED
    BY <1>1, <1>2, <1>3, <1>8 DEF PutChapters, b

LEMMA TranscriptPut ==
    ASSUME ApiTyped, NEW s \in Slots, PutTranscript(s)
    PROVE  /\ jobs[s] # None /\ jobs[s].kind \in Segment /\ jobs[s].pc = "looked" /\ jobs[s].arg \in Texts
           /\ tracks' \in [chapters : Titles, transcript : Texts, subtitles : Texts]
           /\ tracks'.transcript = jobs[s].arg /\ tracks'.chapters = tracks.chapters
           /\ Went(s, "put", jobs[s].old)
           /\ UNCHANGED <<row, objects, comments, torn, faults>>
<1>1. jobs[s] # None /\ jobs[s].kind \in Segment /\ jobs[s].pc = "looked"
    BY DEF PutTranscript, At
<1>2. jobs[s].arg \in Texts
    BY <1>1, SlotIs DEF ArgFits
<1>3. /\ tracks' \in [chapters : Titles, transcript : Texts, subtitles : Texts]
      /\ tracks'.transcript = jobs[s].arg /\ tracks'.chapters = tracks.chapters
    BY <1>2 DEF PutTranscript, ApiTyped, StoredTyped
<1> QED
    BY <1>1, <1>2, <1>3, HandlerGoes DEF PutTranscript, ApiTyped, Went

LEMMA SubtitlesPut ==
    ASSUME ApiTyped, NEW s \in Slots, PutSubtitles(s)
    PROVE  /\ jobs[s] # None /\ jobs[s].kind \in Segment /\ jobs[s].pc = "put" /\ jobs[s].arg \in Texts
           /\ tracks' \in [chapters : Titles, transcript : Texts, subtitles : Texts]
           /\ tracks'.transcript = tracks.transcript /\ tracks'.chapters = tracks.chapters
           /\ Ended(s, TRUE, jobs[s].arg)
           /\ UNCHANGED <<row, objects, comments, torn, faults>>
<1>1. jobs[s] # None /\ jobs[s].kind \in Segment /\ jobs[s].pc = "put"
    BY DEF PutSubtitles, At
<1>2. jobs[s].arg \in Texts
    BY <1>1, SlotIs DEF ArgFits
<1>3. /\ tracks' \in [chapters : Titles, transcript : Texts, subtitles : Texts]
      /\ tracks'.transcript = tracks.transcript /\ tracks'.chapters = tracks.chapters
    BY <1>2 DEF PutSubtitles, ApiTyped, StoredTyped
<1> DEFINE b == jobs[s].arg
<1>4. End(s, TRUE, b)
    BY DEF PutSubtitles
<1>5. b \in Texts
    BY <1>2
<1> HIDE DEF b
<1>6. [ok |-> TRUE, body |-> b] \in Answer
    BY <1>5 DEF Answer
<1>7. s # "abandoned" => BodyFits(s, b)
    <2>1. ASSUME s # "abandoned" PROVE s \in Segment /\ s \notin Chapter /\ s \notin FixedKinds
        BY <1>1, <2>1, SlotIs, KindsDiffer
    <2>2. {"asset", "assets", "process", "settings", "load", "reload", "meta", "getChapters", "thumb",
           "unthumb"} \subseteq FixedKinds
        BY PageKinds
    <2> QED
        BY <1>5, <2>1, <2>2 DEF BodyFits, Thumbs
<1>8. Ended(s, TRUE, b)
    BY <1>4, <1>6, <1>7, HandlerEnds DEF ApiTyped, Ended
<1> QED
    BY <1>1, <1>2, <1>3, <1>8 DEF PutSubtitles, b

LEMMA ThumbPut ==
    ASSUME ApiTyped, NEW s \in Slots, PutThumb(s)
    PROVE  /\ jobs[s] # None /\ jobs[s].kind = "thumb" /\ jobs[s].pc = "looked" /\ jobs[s].arg \in Nat
           /\ objects' = objects \cup {jobs[s].arg} /\ Went(s, "put", jobs[s].old)
           /\ UNCHANGED <<row, tracks, comments, torn, faults>>
<1>1. jobs[s] # None /\ jobs[s].kind = "thumb" /\ jobs[s].pc = "looked"
    BY DEF PutThumb, At
<1>2. jobs[s].arg \in Nat
    BY <1>1, SlotIs DEF ArgFits
<1> QED
    BY <1>1, <1>2, HandlerGoes DEF PutThumb, ApiTyped, Went, NewKey

LEMMA Cleaned ==
    ASSUME ApiTyped, NEW s \in Slots, Clean(s)
    PROVE  /\ jobs[s] # None /\ objects' \subseteq objects
           /\ objects' = objects \ {jobs[s].old} \/ objects' = objects
           /\ \/ jobs[s].kind = "thumb" /\ jobs[s].pc = "put"
              \/ jobs[s].kind = "unthumb" /\ jobs[s].pc = "looked"
           /\ \/ /\ Went(s, "cleaned", jobs[s].old)
              \/ /\ Ended(s, TRUE, row.ver) /\ jobs[s].kind = "unthumb" /\ jobs[s].old = 0
           /\ UNCHANGED <<row, tracks, comments, torn, faults>>
<1>1. /\ jobs[s] # None
      /\ \/ jobs[s].kind = "thumb" /\ jobs[s].pc = "put"
         \/ jobs[s].kind = "unthumb" /\ jobs[s].pc = "looked"
    BY DEF Clean, At
<1>2. objects' = objects \ {jobs[s].old} \/ objects' = objects
    BY DEF Clean
<1>3. \/ Went(s, "cleaned", jobs[s].old)
      \/ Ended(s, TRUE, row.ver) /\ jobs[s].kind = "unthumb" /\ jobs[s].old = 0
    <2>1. CASE jobs[s].kind = "unthumb" /\ jobs[s].old = 0
        <3>1. End(s, TRUE, row.ver) /\ row.ver \in Nat
            BY <2>1 DEF Clean, ApiTyped, StoredTyped, Row
        <3> QED
            BY <1>1, <2>1, <3>1, EndsVersioned DEF Thumbs
    <2>2. CASE ~(jobs[s].kind = "unthumb" /\ jobs[s].old = 0)
        BY <1>1, <2>2, HandlerGoes DEF Clean, ApiTyped, Went
    <2> QED
        BY <2>1, <2>2
<1> QED
    BY <1>1, <1>2, <1>3 DEF Clean

LEMMA ThumbSet ==
    ASSUME ApiTyped, NEW s \in Slots, SetThumb(s)
    PROVE  /\ jobs[s] # None /\ jobs[s].kind \in Thumbs /\ jobs[s].pc = "cleaned"
           /\ row' \in Row /\ row'.ver >= row.ver /\ row'.status = row.status
           /\ IF row.status = "gone" THEN row' = row
              ELSE row'.thumb = IF jobs[s].kind = "thumb" THEN jobs[s].arg ELSE 0
           /\ torn' = torn \ {"thumbnail"} /\ Ended(s, TRUE, row'.ver)
           /\ UNCHANGED <<objects, tracks, comments, faults>>
<1>1. jobs[s] # None /\ jobs[s].kind \in Thumbs /\ jobs[s].pc = "cleaned" /\ row \in Row
    BY DEF SetThumb, At, ApiTyped, StoredTyped
<1>2. /\ row' \in Row /\ row'.ver >= row.ver /\ row'.status = row.status
      /\ IF row.status = "gone" THEN row' = row
         ELSE row'.thumb = IF jobs[s].kind = "thumb" THEN jobs[s].arg ELSE 0
    <2>1. CASE row.status = "gone"
        BY <1>1, <2>1 DEF SetThumb, Row
    <2>2. CASE row.status # "gone"
        <3> DEFINE n == IF jobs[s].kind = "thumb" THEN jobs[s].arg ELSE 0
                   r == [row EXCEPT !.thumb = n]
        <3>1. n \in Int
            BY <1>1, SlotIs DEF ArgFits
        <3>2. Changed(r)
            BY <2>2 DEF SetThumb, NewKey
        <3>3. n = IF jobs[s].kind = "thumb" THEN jobs[s].arg ELSE 0
            OBVIOUS
        <3> HIDE DEF n
        <3>4. r \in Row /\ r.ver = row.ver /\ r.status = row.status /\ r.thumb = n
            BY <1>1, <3>1 DEF Row
        <3> HIDE DEF r
        <3>5. row' \in Row /\ row'.ver = row.ver + 1 /\ row'.status = row.status /\ row'.thumb = n
            BY <3>2, <3>4, RowChanged
        <3>6. row'.ver >= row.ver
            BY <1>1, <3>5 DEF Row
        <3> QED
            BY <2>2, <3>3, <3>5, <3>6
    <2> QED
        BY <2>1, <2>2
<1>3. row'.ver \in Nat /\ End(s, TRUE, row'.ver)
    BY <1>2 DEF SetThumb, Row
<1>4. Ended(s, TRUE, row'.ver)
    BY <1>1, <1>3, EndsVersioned
<1> QED
    BY <1>1, <1>2, <1>4 DEF SetThumb

LEMMA Worked ==
    ASSUME ApiTyped, Worker
    PROVE  /\ row' \in Row /\ row'.ver >= row.ver /\ row'.thumb = row.thumb
           /\ row.status # "gone" /\ row'.status # "gone"
           /\ UNCHANGED <<objects, tracks, comments, jobs, answers, torn, faults>>
<1>1. row \in Row
    BY DEF ApiTyped, StoredTyped
<1>2. PICK status \in {"queued", "processing", "ready", "error"} :
        Changed([row EXCEPT !.status = status]) /\ row.status # "gone"
    BY DEF Worker
<1> DEFINE r == [row EXCEPT !.status = status]
<1>3. r \in Row /\ r.ver = row.ver /\ r.thumb = row.thumb /\ r.status = status /\ Changed(r)
    BY <1>1, <1>2 DEF Row, Statuses
<1> HIDE DEF r
<1>4. /\ row' \in Row /\ row'.ver = row.ver + 1 /\ row'.thumb = row.thumb /\ row'.status = status
    BY <1>3, RowChanged
<1>5. row'.ver >= row.ver
    BY <1>1, <1>4 DEF Row
<1> QED
    BY <1>2, <1>4, <1>5 DEF Worker

LEMMA FailureIs == Failure \in Answer /\ Failure # None /\ Failure.ok = FALSE
<1>1. Failure \in Answer /\ Failure.ok = FALSE
    BY DEF Failure, Answer
<1> QED
    BY <1>1, NotNone

\* The page is told of a failure.
LEMMA FailedIs ==
    ASSUME ApiTyped, NEW k \in Kinds, answers' = [answers EXCEPT ![k] = Failure]
    PROVE  Answers(answers') /\ answers'[k] = Failure /\ \A l \in Kinds : l # k => answers'[l] = answers[l]
<1>1. /\ answers' \in [Kinds -> {None} \cup Answer]
      /\ answers'[k] = Failure /\ \A l \in Kinds : l # k => answers'[l] = answers[l]
    BY FailureIs DEF ApiTyped, Answers
<1> QED
    BY <1>1, FailureIs DEF ApiTyped, Answers

LEMMA Lost ==
    ASSUME ApiTyped, NEW k \in Kinds, Lose(k)
    PROVE  /\ jobs[k] # None /\ jobs[k].pc = "sent" /\ Jobs(jobs') /\ jobs'[k] = None
           /\ \A s \in Slots : s # k => jobs'[s] = jobs[s]
           /\ Answers(answers') /\ answers'[k] = Failure /\ \A l \in Kinds : l # k => answers'[l] = answers[l]
           /\ faults' \in Nat /\ UNCHANGED <<row, objects, tracks, comments, torn>>
<1>1. k \in Slots
    BY KindsDiffer
<1>2. Jobs(jobs') /\ jobs'[k] = None /\ \A s \in Slots : s # k => jobs'[s] = jobs[s]
    BY <1>1 DEF Lose, ApiTyped, Jobs
<1>3. faults' \in Nat
    BY DEF Lose, Fault, ApiTyped, StoredTyped
<1> QED
    BY <1>2, <1>3, FailedIs DEF Lose, At

LEMMA GivenUp ==
    ASSUME ApiTyped, NEW k \in Kinds, GiveUp(k)
    PROVE  /\ jobs[k] # None /\ jobs["abandoned"] = None /\ jobs[k].kind \in Writes
           /\ Jobs(jobs') /\ jobs'[k] = None /\ jobs'["abandoned"] = jobs[k]
           /\ \A s \in Slots : s # k /\ s # "abandoned" => jobs'[s] = jobs[s]
           /\ Answers(answers') /\ answers'[k] = Failure /\ \A l \in Kinds : l # k => answers'[l] = answers[l]
           /\ torn' = torn \cup (PartOf(k) \ {"thumbnail"})
           /\ faults' \in Nat /\ UNCHANGED <<row, objects, tracks, comments>>
<1>1. k \in Slots /\ k # "abandoned" /\ "abandoned" \in Slots
    BY KindsDiffer
<1>2. jobs[k] # None /\ jobs["abandoned"] = None /\ jobs[k].kind \in Writes
    BY DEF GiveUp, At
<1>3. jobs' = [jobs EXCEPT ![k] = None, !["abandoned"] = jobs[k]]
    BY DEF GiveUp
<1>4. /\ jobs' \in [Slots -> {None} \cup Job] /\ jobs'[k] = None /\ jobs'["abandoned"] = jobs[k]
      /\ \A s \in Slots : s # k /\ s # "abandoned" => jobs'[s] = jobs[s]
    BY <1>1, <1>3 DEF ApiTyped, Jobs
<1>5. Jobs(jobs')
    BY <1>1, <1>2, <1>4 DEF ApiTyped, Jobs
<1>6. faults' \in Nat
    BY DEF GiveUp, Fault, ApiTyped, StoredTyped
<1>7. Answers(answers') /\ answers'[k] = Failure /\ \A l \in Kinds : l # k => answers'[l] = answers[l]
    BY FailedIs DEF GiveUp
<1> QED
    BY <1>2, <1>4, <1>5, <1>6, <1>7 DEF GiveUp

Torn(parts) == parts \subseteq {"chapters", "transcript", "thumbnail"}
LEMMA PartsAre == \A k : Torn(PartOf(k))
BY DEF PartOf, Torn

LEMMA Crashed ==
    ASSUME ApiTyped, Crash
    PROVE  /\ Jobs(jobs') /\ \A s \in Slots : jobs'[s] = None
           /\ Answers(answers')
           /\ \A k \in Kinds : answers'[k] = IF jobs[k] = None THEN answers[k] ELSE Failure
           /\ torn \subseteq torn' /\ torn' \subseteq {"chapters", "transcript", "thumbnail"}
           /\ \A s \in Slots :
                 (/\ jobs[s] # None
                  /\ \/ jobs[s].kind \in Segment /\ jobs[s].pc = "put"
                     \/ jobs[s].kind \in Thumbs /\ jobs[s].pc = "cleaned"
                     \/ jobs[s].kind = "delete" /\ jobs[s].pc = "purged")
                   => PartOf(jobs[s].kind) \subseteq torn'
           /\ faults' \in Nat /\ UNCHANGED <<row, objects, tracks, comments>>
<1>1. /\ jobs' = [s \in Slots |-> None]
      /\ answers' = [k \in Kinds |-> IF jobs[k] = None THEN answers[k] ELSE Failure]
    BY DEF Crash
<1>2. Jobs(jobs') /\ \A s \in Slots : jobs'[s] = None
    BY <1>1 DEF Jobs
<1>3. /\ answers' \in [Kinds -> {None} \cup Answer]
      /\ \A k \in Kinds : answers'[k] = IF jobs[k] = None THEN answers[k] ELSE Failure
    BY <1>1, FailureIs DEF ApiTyped, Answers
<1>4. Answers(answers')
    BY <1>3, FailureIs DEF ApiTyped, Answers
<1> DEFINE cut == {t \in Slots : \/ At(t, Segment, "put") \/ At(t, Thumbs, "cleaned")
                                 \/ At(t, {"delete"}, "purged")}
<1>5. torn' = torn \cup UNION {PartOf(jobs[s].kind) : s \in cut}
    BY DEF Crash
<1>6. \A s \in Slots : s \in cut <=> \/ At(s, Segment, "put") \/ At(s, Thumbs, "cleaned")
                                     \/ At(s, {"delete"}, "purged")
    OBVIOUS
<1> HIDE DEF cut
<1>7. torn \subseteq torn' /\ torn' \subseteq {"chapters", "transcript", "thumbnail"}
    BY <1>5, PartsAre DEF Torn, ApiTyped, StoredTyped
<1>8. \A s \in cut : PartOf(jobs[s].kind) \subseteq torn'
    BY <1>5
<1>9. faults' \in Nat
    BY DEF Crash, Fault, ApiTyped, StoredTyped
<1> QED
    BY <1>2, <1>3, <1>4, <1>6, <1>7, <1>8, <1>9 DEF Crash, At

-----------------------------------------------------------------------------
(* Types hold.                                                              *)

LEMMA ServedTyped ==
    ASSUME ApiTyped, NEW s \in Slots, Serve(s)
    PROVE  /\ ApiTyped' /\ jobs[s] # None /\ \A t \in Slots : t # s => jobs'[t] = jobs[t]
           /\ jobs'[s] # None => jobs'[s].kind = jobs[s].kind
<1> USE DEF ApiTyped, StoredTyped
<1>1. CASE Refuse(s)
    BY <1>1, Refused DEF Ended
<1>2. CASE Read(s)
    BY <1>2, HasRead DEF Ended
<1>3. CASE Look(s)
    BY <1>3, Looked DEF Went
<1>4. CASE Insert(s)
    <2>1. comments' \subseteq Posting
        BY <1>4, Inserted
    <2> QED
        BY <1>4, <2>1, Inserted DEF Ended
<1>5. CASE Update(s)
    BY <1>5, Updated DEF Ended
<1>6. CASE Queue(s)
    BY <1>6, Queued DEF Ended
<1>7. CASE Purge(s)
    BY <1>7, Purged DEF Went
<1>8. CASE DropRow(s)
    BY <1>8, RowDropped DEF Ended
<1>9. CASE PutChapters(s)
    BY <1>9, ChaptersPut DEF Ended
<1>10. CASE PutTranscript(s)
    BY <1>10, TranscriptPut DEF Went
<1>11. CASE PutSubtitles(s)
    BY <1>11, SubtitlesPut DEF Ended
<1>12. CASE PutThumb(s)
    <2>1. objects' \subseteq Int
        <3>1. objects' = objects \cup {jobs[s].arg} /\ jobs[s].arg \in Nat
            BY <1>12, ThumbPut
        <3>2. jobs[s].arg \in Int /\ objects \subseteq Int
            BY <3>1
        <3> QED
            BY <3>1, <3>2
    <2> QED
        BY <1>12, <2>1, ThumbPut DEF Went
<1>13. CASE Clean(s)
    BY <1>13, Cleaned DEF Went, Ended
<1>14. CASE SetThumb(s)
    BY <1>14, ThumbSet DEF Ended
<1> QED
    BY <1>1, <1>2, <1>3, <1>4, <1>5, <1>6, <1>7, <1>8, <1>9, <1>10, <1>11, <1>12, <1>13, <1>14 DEF Serve

LEMMA ApiStays ==
    ASSUME ApiTyped, ApiNext
    PROVE  /\ ApiTyped'
           /\ \A s \in Slots : jobs'[s] # None => \E t \in Slots : jobs[t] # None /\ jobs'[s].kind = jobs[t].kind
<1>1. CASE Worker
    BY <1>1, Worked DEF ApiTyped, StoredTyped
<1>2. CASE Crash
    BY <1>2, Crashed DEF ApiTyped, StoredTyped
<1>3. ASSUME NEW s \in Slots, Serve(s)
      PROVE  /\ ApiTyped'
             /\ \A t \in Slots : jobs'[t] # None => \E u \in Slots : jobs[u] # None /\ jobs'[t].kind = jobs[u].kind
    BY <1>3, ServedTyped
<1>4. ASSUME NEW k \in Kinds, Lose(k)
      PROVE  /\ ApiTyped'
             /\ \A t \in Slots : jobs'[t] # None => \E u \in Slots : jobs[u] # None /\ jobs'[t].kind = jobs[u].kind
    BY <1>4, Lost, KindsDiffer DEF ApiTyped, StoredTyped
<1>5. ASSUME NEW k \in Kinds, GiveUp(k)
      PROVE  /\ ApiTyped'
             /\ \A t \in Slots : jobs'[t] # None => \E u \in Slots : jobs[u] # None /\ jobs'[t].kind = jobs[u].kind
    <2>1. PartOf(k) \ {"thumbnail"} \subseteq {"chapters", "transcript", "thumbnail"}
        BY PartsAre DEF Torn
    <2>2. ApiTyped'
        BY <1>5, <2>1, GivenUp DEF ApiTyped, StoredTyped
    <2> QED
        BY <1>5, <2>2, GivenUp, KindsDiffer
<1> QED
    BY <1>1, <1>2, <1>3, <1>4, <1>5 DEF ApiNext, AtWork

TypedInv == Typed /\ OnePage

LEMMA WatchingMoves ==
    ASSUME TypedInv, Watching
    PROVE  /\ WatchMoves /\ inputs' \in Nat /\ UNCHANGED <<detail, mine, settings>> /\ detail.route = "closed"
           /\ inputs' \in {inputs, inputs + 1}
<1>1. watch.view # "closed" /\ ApiTyped /\ WatchTyped /\ inputs \in Nat
    BY DEF TypedInv, Typed, Watching
<1>2. CASE (WatchAnswered \/ WatchEnd) /\ UNCHANGED inputs
    BY <1>1, <1>2, WatchAnswers, WatchEnds DEF Watching, TypedInv, OnePage
<1>3. CASE Input /\ WatchInput(inputs')
    <2>1. inputs' \in Nat /\ inputs' = inputs + 1
        BY <1>1, <1>3 DEF Input
    <2>2. WatchMoves
        BY <1>1, <1>3, <2>1, WatchInputs
    <2> QED
        BY <1>1, <2>1, <2>2 DEF Watching, TypedInv, OnePage
<1> QED
    BY <1>2, <1>3 DEF Watching

LEMMA ManagingMoves ==
    ASSUME TypedInv, Managing
    PROVE  /\ DetailMoves /\ inputs' \in Nat /\ UNCHANGED <<watch, typed, dismissed, settings>>
           /\ detail.route # "closed" /\ watch.view = "closed"
           /\ jobs'["thumb"] # jobs["thumb"] => jobs'["thumb"].arg = inputs + 1 /\ inputs' = inputs + 1
           /\ inputs' \in {inputs, inputs + 1}
<1>1. /\ detail.route # "closed" /\ ApiTyped /\ DetailTyped /\ inputs \in Nat
      /\ UNCHANGED <<row, objects, tracks, comments, torn, faults, watch, typed, dismissed, settings>>
      /\ watch.view = "closed"
    BY DEF TypedInv, Typed, OnePage, Managing, rest
<1>2. CASE DetailAnswered /\ UNCHANGED inputs
    BY <1>1, <1>2, DetailAnswers
<1>3. CASE (DetailEnd \/ \E k \in Pages : Poll(k)) /\ UNCHANGED inputs
    <2>1. \A n \in {inputs + 1, inputs + 2} :
            DetailMoves /\ (jobs'["thumb"] # jobs["thumb"] => jobs'["thumb"].arg = n)
        <3>1. ASSUME NEW n \in Nat
              PROVE  DetailMoves /\ (jobs'["thumb"] # jobs["thumb"] => jobs'["thumb"].arg = n /\ DetailInput(n))
            BY <1>1, <1>3, DetailActs
        <3> QED
            BY <1>1, <3>1
    <2>2. jobs'["thumb"] = jobs["thumb"]
        BY <1>1, <2>1
    <2> QED
        BY <1>1, <1>3, <2>1, <2>2
<1>4. CASE Input /\ DetailInput(inputs')
    <2>1. inputs' = inputs + 1 /\ inputs' \in Nat
        BY <1>1, <1>4 DEF Input
    <2>2. DetailMoves /\ (jobs'["thumb"] # jobs["thumb"] => jobs'["thumb"].arg = inputs')
        BY <1>1, <1>4, <2>1, DetailActs
    <2> QED
        BY <1>1, <2>1, <2>2
<1> QED
    BY <1>2, <1>3, <1>4 DEF Managing

LEMMA ApiMoves ==
    ASSUME TypedInv, Api
    PROVE  TypedInv'
<1>1. /\ ApiTyped' /\ UNCHANGED <<watch, detail, inputs, typed, dismissed, mine, settings>>
      /\ \A s \in Slots : jobs'[s] # None => \E t \in Slots : jobs[t] # None /\ jobs'[s].kind = jobs[t].kind
    BY ApiStays DEF Api, TypedInv, Typed
<1>2. Typed'
    BY <1>1 DEF TypedInv, Typed, WatchTyped, DetailTyped, SettingsTyped, settings
<1>3. OnePage'
    BY <1>1 DEF TypedInv, OnePage, settings
<1> QED
    BY <1>2, <1>3 DEF TypedInv

LEMMA NoDeletion == "delete" \notin WatchKinds /\ "delete" \in DetailKinds
BY PageKinds, KindsDiffer DEF WatchKinds, DetailKinds

\* Every step keeps to the types.
LEMMA TypedKept ==
    ASSUME TypedInv, SettingInv, [Next]_vars
    PROVE  TypedInv'
<1>1. CASE Api
    BY <1>1, ApiMoves
<1>2. CASE Watching
    <2>1. WatchMoves /\ inputs' \in Nat /\ UNCHANGED <<detail, mine, settings>> /\ detail.route = "closed"
        BY <1>2, WatchingMoves
    <2>2. /\ watch.view # "closed" /\ page.view = "closed"
        BY <1>2 DEF Watching, TypedInv, OnePage
    <2>3. torn' \subseteq {"chapters", "transcript", "thumbnail"}
        BY <2>1 DEF WatchMoves, TypedInv, Typed, ApiTyped, StoredTyped
    <2>4. ApiTyped' /\ WatchTyped'
        BY <2>1, <2>3 DEF WatchMoves, TypedInv, Typed, ApiTyped, StoredTyped, WatchTyped, Asks, Hears
    <2>5. Typed'
        BY <2>1, <2>4 DEF TypedInv, Typed, DetailTyped, SettingsTyped, settings
    <2>6. \A s \in Slots : jobs'[s] # None => jobs'[s].kind # "delete"
        BY <2>1, NoDeletion DEF WatchMoves, Asks, TypedInv, OnePage
    <2> QED
        BY <2>1, <2>2, <2>5, <2>6 DEF TypedInv, OnePage, WatchMoves, settings
<1>3. CASE Managing
    <2>1. /\ DetailMoves /\ inputs' \in Nat /\ UNCHANGED <<watch, typed, dismissed, settings>>
          /\ detail.route # "closed" /\ watch.view = "closed"
        BY <1>3, ManagingMoves
    <2>2. ApiTyped' /\ DetailTyped'
        BY <2>1 DEF DetailMoves, TypedInv, Typed, ApiTyped, StoredTyped, DetailTyped, Asks, Hears
    <2>3. Typed'
        BY <2>1, <2>2 DEF TypedInv, Typed, WatchTyped, SettingsTyped, settings
    <2> QED
        BY <2>1, <2>3 DEF TypedInv, OnePage, DetailMoves, settings
<1>4. CASE Setting
    <2>1. SettingInv' /\ page'.view # "closed" /\ inputs' \in Nat
        BY <1>4, SettingKept DEF TypedInv, Typed
    <2>2. /\ UNCHANGED <<row, objects, tracks, comments, jobs, answers, torn, watch, detail, typed, dismissed, mine>>
          /\ page.view # "closed" /\ faults' \in Nat
        BY <1>4 DEF Setting, Fault, TypedInv, Typed, ApiTyped, StoredTyped
    <2>3. ApiTyped'
        BY <2>2 DEF TypedInv, Typed, ApiTyped, StoredTyped
    <2>4. Typed'
        BY <2>1, <2>2, <2>3 DEF TypedInv, Typed, WatchTyped, DetailTyped, SettingInv
    <2> QED
        BY <2>2, <2>4 DEF TypedInv, OnePage
<1>5. CASE UNCHANGED vars
    <2>1. Typed'
        BY <1>5 DEF vars, api, settings, TypedInv, Typed, ApiTyped, StoredTyped, WatchTyped, DetailTyped,
                    SettingsTyped
    <2> QED
        BY <1>5, <2>1 DEF vars, api, settings, TypedInv, OnePage
<1> QED
    BY <1>1, <1>2, <1>3, <1>4, <1>5 DEF Next

\* The settings are not touched from elsewhere.
LEMMA SettingInvKept ==
    ASSUME TypedInv, SettingInv, [Next]_vars
    PROVE  SettingInv'
<1>1. CASE Setting
    BY <1>1, SettingKept DEF TypedInv, Typed
<1>2. CASE UNCHANGED settings
    <2>1. store' = store /\ page' = page /\ flow' = flow
        BY <1>2 DEF settings
    <2>2. SettingsTyped'
        BY <2>1 DEF SettingInv, SettingsTyped
    <2>3. LogoInv'
        BY <2>1 DEF SettingInv, LogoInv, LogoThere, On
    <2>4. NameInv'
        BY <2>1 DEF SettingInv, NameInv, NamesStored, NameNeverLost
    <2>5. ShownInv'
        BY <2>1 DEF SettingInv, ShownInv, Reading, Written2, Now
    <2> QED
        BY <2>2, <2>3, <2>4, <2>5 DEF SettingInv
<1>3. Setting \/ UNCHANGED settings
    BY DEF Next, Api, Watching, Managing, vars
<1> QED
    BY <1>1, <1>2, <1>3

LEMMA ApiOpened ==
    ASSUME NEW sent \in SUBSET {"load", "asset"}, NEW status \in Statuses, ApiInit(sent, status)
    PROVE  /\ ApiTyped /\ row.ver = 0 /\ row.meta.ver = 0 /\ row.thumb = FirstThumb /\ FirstThumb \in objects
           /\ row.status = status /\ comments = {} /\ torn = {}
           /\ \A s \in Slots : jobs[s] = IF s \in sent THEN Asked(s, None) ELSE None
           /\ \A s \in Slots : jobs[s] # None => jobs[s].kind = s /\ s \in {"load", "asset"}
           /\ \A k \in Kinds : answers[k] = None
<1> DEFINE m == [keys |-> {}, ver |-> 0]
<1>1. row = [status |-> status, meta |-> m, thumb |-> FirstThumb, settings |-> {"comments"}, ver |-> 0]
    BY DEF ApiInit, InitRow
<1>2. m \in Tagged /\ m.ver = 0 /\ {"comments"} \in Sections /\ FirstThumb \in Int /\ 0 \in Nat
    BY DEF Tagged, Metas, Sections, FirstThumb
<1> HIDE DEF m
<1>3. row \in Row /\ row.ver = 0 /\ row.meta.ver = 0 /\ row.thumb = FirstThumb /\ row.status = status
    BY <1>1, <1>2 DEF Row
<1>4. tracks \in [chapters : Titles, transcript : Texts, subtitles : Texts]
    BY DEF ApiInit, Titles, Texts
<1>5. /\ objects = {FirstThumb} /\ comments = {} /\ torn = {} /\ faults \in Nat
      /\ answers = [k \in Kinds |-> None]
      /\ jobs = [s \in Slots |-> IF s \in sent THEN Asked(s, None) ELSE None]
    BY DEF ApiInit, Asked
<1>6. \A k \in {"load", "asset"} :
        /\ k \in Kinds /\ k # "abandoned" /\ Carried(Asked(k, None)) /\ Asked(k, None).kind = k
    <2>1. "load" \in Kinds /\ "asset" \in Kinds /\ {"load", "asset"} \cap (Chapter \cup Segment) = {}
        BY PageKinds, KindsDiffer
    <2>2. ArgFits("load", None) /\ ArgFits("asset", None)
        BY <2>1 DEF ArgFits
    <2> QED
        BY <2>1, <2>2, AskedIs, KindsDiffer
<1>7. jobs \in [Slots -> {None} \cup Job]
    BY <1>5, <1>6 DEF Carried
<1>8. \A s \in Slots : jobs[s] # None => jobs[s].kind = s /\ s \in {"load", "asset"} /\ Carried(jobs[s])
    BY <1>5, <1>6
<1>9. Jobs(jobs)
    BY <1>6, <1>7, <1>8 DEF Jobs
<1>10. Answers(answers) /\ \A k \in Kinds : answers[k] = None
    BY <1>5 DEF Answers
<1> QED
    BY <1>2, <1>3, <1>4, <1>5, <1>8, <1>9, <1>10 DEF ApiTyped, StoredTyped

LEMMA WatchOpened ==
    ASSUME NEW open \in BOOLEAN, WatchInit(open), typed = {}, dismissed = {}
    PROVE  /\ WatchTyped /\ watch.draft = 0 /\ watch.pending = 0 /\ watch.chapters = None
           /\ watch.transcript = None /\ watch.view = IF open THEN "loading" ELSE "closed"
<1> DEFINE v == IF open THEN "loading" ELSE "closed"
<1>1. v \in View
    BY DEF View
<1>2. watch = [view |-> v, canEdit |-> FALSE,
             settings |-> {}, chapters |-> None, transcript |-> None,
             identity |-> None, saved |-> None, modal |-> FALSE, pending |-> 0,
             draft |-> 0, failed |-> FALSE, list |-> "none", form |-> FALSE]
    BY DEF WatchInit
<1>3. v = IF open THEN "loading" ELSE "closed"
    OBVIOUS
<1> HIDE DEF v
<1>4. {} \in Sections
    BY DEF Sections
<1>5. watch \in WatchType
    BY <1>1, <1>2, <1>4 DEF WatchType
<1> QED
    BY <1>2, <1>3, <1>5 DEF WatchTyped

LEMMA DetailOpened ==
    ASSUME NEW open \in BOOLEAN, DetailInit(open)
    PROVE  /\ DetailTyped /\ mine = 0 /\ meta = [ver |-> 0, raced |-> FALSE]
           /\ detail.route = IF open THEN "asset" ELSE "closed"
           /\ \A k \in Pages : detail.cache[k].data = None
<1> DEFINE r == IF open THEN "asset" ELSE "closed"
           c == [k \in Pages |-> Unread]
<1>1. detail = [route |-> r, visible |-> TRUE, cache |-> c,
                 confirmDelete |-> FALSE, confirmAi |-> FALSE, settings |-> FALSE,
                 thumb |-> FALSE, refused |-> FALSE]
      /\ mine = 0 /\ meta = [ver |-> 0, raced |-> FALSE]
    BY DEF DetailInit
<1>2. r \in {"closed", "asset", "assets"} /\ r = IF open THEN "asset" ELSE "closed"
    OBVIOUS
<1>3. Unread \in Entry /\ Unread.data = None
    BY DEF Unread, Entry
<1>4. c \in [Pages -> Entry] /\ \A k \in Pages : c[k].data = None
    BY <1>3
<1> HIDE DEF r, c
<1>5. detail \in DetailType /\ detail.cache = c /\ detail.route = r
    BY <1>1, <1>2, <1>4 DEF DetailType
<1>6. "asset" \in Pages
    BY DEF Pages
<1> QED
    BY <1>1, <1>2, <1>4, <1>5, <1>6 DEF DetailTyped, Detailed

Opening(sent, status, w, d, p) ==
    /\ sent \subseteq {"load", "asset"} /\ status \in Statuses
    /\ w \in BOOLEAN /\ d \in BOOLEAN /\ p \in BOOLEAN
    /\ ~(w /\ d) /\ (p => ~w /\ ~d) /\ (p <=> status = "gone")
    /\ ("load" \in sent <=> w) /\ ("asset" \in sent <=> d)
    /\ ApiInit(sent, status) /\ WatchInit(w) /\ DetailInit(d) /\ SettingsInit(p)

\* The tab opens on one of its pages.
LEMMA Opens ==
    ASSUME Init
    PROVE  /\ \E sent, status : \E w, d, p \in BOOLEAN : Opening(sent, status, w, d, p)
           /\ inputs = 0 /\ typed = {} /\ dismissed = {}
<1>1. CASE ApiInit({"load"}, "ready") /\ WatchInit(TRUE) /\ DetailInit(FALSE) /\ SettingsInit(FALSE)
    <2>1. Opening({"load"}, "ready", TRUE, FALSE, FALSE)
        BY <1>1 DEF Opening, Statuses
    <2> QED
        BY <2>1 DEF Init
<1>2. ASSUME NEW status \in {"queued", "ready", "error"}, ApiInit({"asset"}, status),
             WatchInit(FALSE), DetailInit(TRUE), SettingsInit(FALSE)
      PROVE  \E sent, x : \E w, d, p \in BOOLEAN : Opening(sent, x, w, d, p)
    <2>1. Opening({"asset"}, status, FALSE, TRUE, FALSE)
        BY <1>2 DEF Opening, Statuses
    <2> QED
        BY <2>1
<1>3. CASE ApiInit({}, "gone") /\ WatchInit(FALSE) /\ DetailInit(FALSE) /\ SettingsInit(TRUE)
    <2>1. Opening({}, "gone", FALSE, FALSE, TRUE)
        BY <1>3 DEF Opening, Statuses
    <2> QED
        BY <2>1 DEF Init
<1> QED
    BY <1>1, <1>2, <1>3 DEF Init

LEMMA InitTyped == Init => TypedInv /\ SettingInv
<1> SUFFICES ASSUME Init PROVE TypedInv /\ SettingInv
    OBVIOUS
<1>1. PICK sent, status : \E w, d, p \in BOOLEAN : Opening(sent, status, w, d, p)
    BY Opens
<1>2. PICK w \in BOOLEAN, d \in BOOLEAN, p \in BOOLEAN : Opening(sent, status, w, d, p)
    BY <1>1
<1>3. inputs = 0 /\ typed = {} /\ dismissed = {}
    BY Opens
<1>4. /\ ApiTyped
      /\ \A s \in Slots : jobs[s] # None => jobs[s].kind = s /\ s \in {"load", "asset"}
    BY <1>2, ApiOpened DEF Opening
<1>5. WatchTyped /\ watch.view = IF w THEN "loading" ELSE "closed"
    BY <1>2, <1>3, WatchOpened DEF Opening
<1>6. DetailTyped /\ detail.route = IF d THEN "asset" ELSE "closed"
    BY <1>2, DetailOpened DEF Opening
<1>7. SettingInv
    BY <1>2, SettingsOpened DEF Opening
<1>8. page.view = IF p THEN "loading" ELSE "closed"
    BY <1>2 DEF Opening, SettingsInit, Opened
<1>9. OnePage
    BY <1>2, <1>3, <1>4, <1>5, <1>6, <1>8 DEF OnePage, Opening
<1> QED
    BY <1>3, <1>4, <1>5, <1>6, <1>7, <1>9 DEF TypedInv, Typed, SettingInv

-----------------------------------------------------------------------------
(* Thumbnails.                                                              *)

\* The dashboard asks once, but for what it reads again.
LEMMA AsksFresh ==
    ASSUME TypedInv, Managing, NEW s \in Slots, s \notin Pages
    PROVE  jobs'[s] = jobs[s] \/ jobs[s] = None
<1> USE DEF TypedInv, Typed, ApiTyped
<1>1. \A js, k : Jobs(js) /\ k \in Pages => Ask(js, k)[s] = js[s]
    BY AskOnce
<1>2. \A ks \in SUBSET Pages : Invalidate(jobs, ks)[s] = jobs[s]
    BY DEF Invalidate
<1>3. \A k, b : ~Waiting(k) /\ jobs' = With(jobs, k, b) => jobs'[s] = jobs[s] \/ jobs[s] = None
    BY DEF With, Waiting, Jobs
<1>4. "asset" \in Pages /\ "assets" \in Pages /\ {"asset"} \in SUBSET Pages
      /\ {"assets"} \in SUBSET Pages /\ Pages \in SUBSET Pages
    BY DEF Pages
<1>5. CASE DetailAnswered
    <2>1. CASE MetaSaved \/ \E k \in Pages : Fetched(k)
        BY <2>1 DEF MetaSaved, Fetched
    <2>2. CASE Processed \/ \E k \in {"settings"} \cup Thumbs : DialogSaved(k)
        BY <1>2, <1>4, <2>2 DEF Processed, DialogSaved
    <2>3. CASE Deleted
        <3> DEFINE js == Invalidate(jobs, {"assets"})
        <3>1. jobs' = jobs \/ jobs' = js \/ jobs' = Ask(js, "assets")
            BY <2>3 DEF Deleted, Visit
        <3>2. Jobs(js)
            BY <1>4, InvalidateAsks
        <3>3. js[s] = jobs[s]
            BY <1>2, <1>4
        <3> HIDE DEF js
        <3> QED
            BY <1>1, <1>4, <3>1, <3>2, <3>3
    <2> QED
        BY <1>5, <2>1, <2>2, <2>3 DEF DetailAnswered
<1>6. ASSUME NEW k \in Pages, Poll(k) \/ RetryRead(k) \/ Navigate(k)
      PROVE  jobs'[s] = jobs[s]
    BY <1>1, <1>6 DEF Poll, RetryRead, Navigate, Refetch, Visit
<1>7. CASE Hide \/ AskAi \/ CancelAi \/ AskDelete \/ OpenSettings \/ OpenThumb \/ CloseDialog
    BY <1>7 DEF Hide, AskAi, CancelAi, AskDelete, OpenSettings, OpenThumb, CloseDialog
<1>8. CASE Show
    <2>1. detail.route \in Pages
        BY <1>8 DEF Show, DetailTyped, Detailed, DetailType, Pages
    <2> QED
        BY <1>1, <1>8, <2>1 DEF Show
<1>9. CASE Process \/ Delete \/ \E new \in SUBSET MetaKeys : SaveMeta(new)
    BY <1>3, <1>9 DEF Process, Delete, SaveMeta
<1>10. ASSUME NEW n, Upload(n) \/ ResetThumb \/ \E x \in SUBSET {"comments"} : SaveSettings(x)
       PROVE  jobs'[s] = jobs[s] \/ jobs[s] = None
    <2>1. ~Waiting("settings") /\ ~Waiting("thumb") /\ ~Waiting("unthumb")
        BY <1>10 DEF Upload, ResetThumb, SaveSettings, Busy, Thumbs
    <2> QED
        BY <1>3, <1>10, <2>1 DEF Upload, ResetThumb, SaveSettings
<1> QED
    BY <1>5, <1>6, <1>7, <1>8, <1>9, <1>10 DEF Managing, DetailEnd, DetailInput

\* The video is about to go, or has gone.
Gone == row.status = "gone" \/ \E s \in Slots : At(s, {"delete"}, "purged")
Uploading(s) == jobs[s] # None /\ jobs[s].kind = "thumb"

\* The key of a thumbnail under way is of no other one, is not the one that the
\* row names nor one that somebody is about to remove, and names an object
\* from the upload on.
KeyOwn(s) ==
    /\ jobs[s].arg \in 1 .. inputs /\ row.thumb # jobs[s].arg
    /\ \A t \in Slots : jobs[t] # None => jobs[t].old # jobs[s].arg
    /\ \A t \in Slots : Uploading(t) /\ jobs[t].arg = jobs[s].arg => t = s
    /\ jobs[s].pc \in {"put", "cleaned"} => Gone \/ jobs[s].arg \in objects
ThumbInv ==
    /\ row.status = "gone" /\ page.view = "closed" => row.thumb = 0
    /\ row.thumb <= inputs /\ \A s \in Slots : jobs[s] # None => jobs[s].old <= inputs
    /\ \A s \in Slots : Uploading(s) => KeyOwn(s)
    /\ ThumbnailThere

LEMMA ThumbNumbers ==
    ASSUME TypedInv
    PROVE  /\ row.thumb \in Int /\ inputs \in Nat /\ ApiTyped /\ Jobs(jobs)
           /\ \A s \in Slots : jobs[s] # None => jobs[s].old \in Int /\ jobs[s].kind \in Kinds
           /\ \A s \in Slots : Uploading(s) => jobs[s].arg \in Nat
           /\ "thumb" \notin Pages /\ "delete" \notin Pages /\ "unthumb" \notin Pages
           /\ "thumb" \in Slots /\ "delete" \notin Thumbs /\ Thumbs = {"thumb", "unthumb"}
           /\ "abandoned" \notin Kinds
<1>1. ApiTyped /\ Jobs(jobs) /\ row \in Row /\ inputs \in Nat
    BY DEF TypedInv, Typed, ApiTyped, StoredTyped
<1>2. \A s \in Slots : Uploading(s) => jobs[s].arg \in Nat
    BY <1>1, SlotIs DEF Uploading, ArgFits
<1>3. \A s \in Slots : jobs[s] # None => jobs[s].old \in Int /\ jobs[s].kind \in Kinds
    BY <1>1, SlotIs DEF Job
<1>4. "thumb" \in Slots /\ "abandoned" \notin Kinds
    BY KindsDiffer, PageKinds
<1> QED
    BY <1>1, <1>2, <1>3, <1>4 DEF Row, Pages, Thumbs

\* A request that has removed what the row names.
Removing(s) == At(s, Thumbs, "cleaned") \/ At(s, {"delete"}, "purged")

LEMMA GoneStays ==
    ASSUME row.status = "gone" => row'.status = "gone",
           \A s \in Slots : At(s, {"delete"}, "purged") => jobs'[s] = jobs[s]
    PROVE  Gone => Gone'
BY DEF Gone, At

OldFits(s) == \/ jobs'[s].old = 0 \/ jobs'[s].old = row.thumb
              \/ jobs[s] # None /\ jobs'[s].old = jobs[s].old
\* What may become of a request without touching thumbnails.
Harmless(s) ==
    \/ jobs'[s] = jobs[s]
    \/ jobs'[s] = None /\ ~Removing(s)
    \/ /\ jobs'[s] # None /\ jobs'[s].kind # "thumb" /\ OldFits(s) /\ ~Removing(s)
    \/ /\ Uploading(s) /\ ~Removing(s) /\ jobs'[s] # None /\ jobs'[s].kind = "thumb"
       /\ jobs'[s].arg = jobs[s].arg /\ OldFits(s) /\ jobs'[s].pc \notin {"put", "cleaned"}
    \/ /\ s = "thumb" /\ ~Removing(s) /\ jobs'[s] # None /\ jobs'[s].kind = "thumb"
       /\ jobs'[s].arg = inputs + 1 /\ inputs' = inputs + 1 /\ jobs'[s].old = 0 /\ jobs'[s].pc = "sent"

LEMMA ThumbFrame ==
    ASSUME TypedInv, ThumbInv, inputs' \in {inputs, inputs + 1}, page'.view = page.view,
           objects' = objects, row'.thumb = row.thumb, row'.status = "gone" <=> row.status = "gone",
           torn \subseteq torn', \A s \in Slots : Harmless(s)
    PROVE  ThumbInv'
<1>1. row.thumb \in Int /\ inputs \in Nat /\ inputs' \in Nat /\ inputs <= inputs'
    BY ThumbNumbers
<1>2. \A s \in Slots : jobs[s] # None => jobs[s].old \in Int /\ jobs[s].old <= inputs
    BY ThumbNumbers DEF ThumbInv
<1>3. \A s \in Slots : Removing(s) => jobs'[s] = jobs[s]
    BY DEF Harmless
<1>4. Gone => Gone'
    BY <1>3, GoneStays DEF Removing
<1>5. ThumbnailThere'
    BY <1>3 DEF ThumbInv, ThumbnailThere, Removing, At
<1>6. \A s \in Slots : jobs'[s] # None => \/ jobs'[s].old = 0 \/ jobs'[s].old = row.thumb
                                          \/ jobs[s] # None /\ jobs'[s].old = jobs[s].old
    BY DEF Harmless, OldFits
<1>7. \A s \in Slots : jobs'[s] # None => jobs'[s].old <= inputs'
    BY <1>1, <1>2, <1>6 DEF ThumbInv
<1>8. \A s \in Slots : Uploading(s)' =>
         \/ /\ Uploading(s) /\ jobs'[s].arg = jobs[s].arg
            /\ jobs'[s].pc \in {"put", "cleaned"} => jobs[s].pc = jobs'[s].pc
         \/ s = "thumb" /\ jobs'[s].arg = inputs + 1 /\ inputs' = inputs + 1 /\ jobs'[s].pc = "sent"
    BY DEF Harmless, Uploading
<1>9. ASSUME NEW s \in Slots, Uploading(s)'
      PROVE  KeyOwn(s)'
    <2>1. \A t \in Slots : Uploading(t) => jobs[t].arg \in 1 .. inputs
        BY DEF ThumbInv, KeyOwn
    <2>2. CASE /\ Uploading(s) /\ jobs'[s].arg = jobs[s].arg
               /\ jobs'[s].pc \in {"put", "cleaned"} => jobs[s].pc = jobs'[s].pc
        <3>1. KeyOwn(s)
            BY <2>2 DEF ThumbInv
        <3>2. jobs[s].arg \in 1 .. inputs /\ row.thumb # jobs[s].arg
            BY <3>1 DEF KeyOwn
        <3>3. \A t \in Slots : jobs'[t] # None => jobs'[t].old # jobs[s].arg
            BY <1>1, <1>6, <3>1, <3>2 DEF KeyOwn
        <3>4. \A t \in Slots : Uploading(t)' /\ jobs'[t].arg = jobs[s].arg => t = s
            BY <1>1, <1>8, <3>1, <3>2 DEF KeyOwn
        <3>5. jobs'[s].pc \in {"put", "cleaned"} => Gone' \/ jobs[s].arg \in objects'
            BY <1>4, <2>2, <3>1 DEF KeyOwn
        <3>6. jobs[s].arg \in 1 .. inputs'
            BY <1>1, <3>2
        <3> QED
            BY <2>2, <3>2, <3>3, <3>4, <3>5, <3>6 DEF KeyOwn
    <2>3. CASE s = "thumb" /\ jobs'[s].arg = inputs + 1 /\ inputs' = inputs + 1 /\ jobs'[s].pc = "sent"
        <3>1. jobs'[s].arg \in 1 .. inputs' /\ row'.thumb # jobs'[s].arg
            BY <1>1, <2>3 DEF ThumbInv
        <3>2. \A t \in Slots : jobs'[t] # None => jobs'[t].old # jobs'[s].arg
            BY <1>1, <1>2, <1>6, <2>3 DEF ThumbInv
        <3>3. \A t \in Slots : Uploading(t)' /\ jobs'[t].arg = jobs'[s].arg => t = s
            BY <1>1, <1>8, <2>1, <2>3
        <3> QED
            BY <2>3, <3>1, <3>2, <3>3 DEF KeyOwn
    <2> QED
        BY <1>8, <1>9, <2>2, <2>3
<1>10. row'.thumb <= inputs'
    BY <1>1 DEF ThumbInv
<1>11. row'.status = "gone" /\ page'.view = "closed" => row'.thumb = 0
    BY DEF ThumbInv
<1> QED
    BY <1>5, <1>7, <1>9, <1>10, <1>11 DEF ThumbInv

\* A handler that has nothing to do with objects.
LEMMA ThumbServed ==
    ASSUME TypedInv, ThumbInv, inputs' = inputs, page' = page, NEW s \in Slots,
           Refuse(s) \/ Read(s) \/ Look(s) \/ Insert(s) \/ Update(s) \/ Queue(s)
             \/ PutChapters(s) \/ PutTranscript(s) \/ PutSubtitles(s)
    PROVE  ThumbInv'
<1>1. ApiTyped /\ "thumb" \in Changes /\ "unthumb" \in Changes /\ "delete" \in Changes
    BY ThumbNumbers DEF Changes, Thumbs
<1>2. ASSUME NEW ok, NEW b, Ended(s, ok, b), ~Removing(s)
      PROVE  \A t \in Slots : Harmless(t)
    BY <1>2 DEF Ended, Harmless
<1>3. ASSUME NEW pc, NEW old, Went(s, pc, old), ~Removing(s), jobs[s] # None, old = row.thumb \/ old = jobs[s].old,
             pc = "looked" \/ jobs[s].kind # "thumb"
      PROVE  \A t \in Slots : Harmless(t)
    BY <1>3 DEF Went, Harmless, Uploading, OldFits
<1>4. ASSUME NEW x \in Kinds, x \notin {"thumb", "unthumb", "delete"}, jobs[s].kind = x
      PROVE  ~Removing(s)
    BY <1>4 DEF Removing, At, Thumbs
<1>5. ASSUME \A t \in Slots : Harmless(t), objects' = objects, row'.thumb = row.thumb,
             row'.status = "gone" <=> row.status = "gone", torn' = torn
      PROVE  ThumbInv'
    BY <1>5, ThumbFrame
<1>6. CASE Refuse(s)
    <2>1. ~Removing(s)
        BY <1>1, <1>6, Refused DEF Removing, At
    <2> QED
        BY <1>1, <1>2, <1>5, <1>6, <2>1, Refused
<1>7. CASE Read(s)
    <2>1. jobs[s].kind = s /\ s \in Reads /\ s \in Kinds
        <3>1. jobs[s] # None /\ s \in Reads /\ s \in Kinds
            BY <1>1, <1>7, HasRead
        <3>2. s # "abandoned"
            BY <3>1, KindsDiffer
        <3> QED
            BY <1>1, <3>1, <3>2, SlotIs
    <2>2. ~Removing(s)
        BY <1>1, <1>4, <2>1, KindsDiffer
    <2> QED
        BY <1>1, <1>2, <1>5, <1>7, <2>2, HasRead
<1>8. CASE Look(s)
    <2>1. ~Removing(s)
        BY <1>1, <1>8, Looked DEF Removing, At
    <2> QED
        BY <1>1, <1>3, <1>5, <1>8, <2>1, Looked
<1>9. CASE Insert(s)
    <2>1. ~Removing(s)
        BY <1>1, <1>9, Inserted DEF Removing, At, Thumbs
    <2> QED
        BY <1>1, <1>2, <1>5, <1>9, <2>1, Inserted
<1>10. CASE Update(s)
    <2>1. ~Removing(s)
        BY <1>1, <1>10, Updated DEF Removing, At, Thumbs
    <2> QED
        BY <1>1, <1>2, <1>5, <1>10, <2>1, Updated
<1>11. CASE Queue(s)
    <2>1. ~Removing(s)
        BY <1>1, <1>11, Queued DEF Removing, At, Thumbs
    <2> QED
        BY <1>1, <1>2, <1>5, <1>11, <2>1, Queued
<1>12. ASSUME jobs[s].kind \in Chapter \cup Segment
       PROVE  ~Removing(s) /\ jobs[s].kind # "thumb"
    BY <1>1, <1>4, <1>12, KindsDiffer
<1>13. CASE PutChapters(s)
    BY <1>1, <1>2, <1>5, <1>12, <1>13, ChaptersPut
<1>14. CASE PutTranscript(s)
    BY <1>1, <1>3, <1>5, <1>12, <1>14, TranscriptPut
<1>15. CASE PutSubtitles(s)
    BY <1>1, <1>2, <1>5, <1>12, <1>15, SubtitlesPut
<1> QED
    BY <1>6, <1>7, <1>8, <1>9, <1>10, <1>11, <1>13, <1>14, <1>15

\* The handlers that remove or put objects, or name them.
LEMMA ThumbChanged ==
    ASSUME TypedInv, ThumbInv, inputs' = inputs, page' = page, page.view = "closed", NEW s \in Slots,
           Purge(s) \/ DropRow(s) \/ PutThumb(s) \/ Clean(s) \/ SetThumb(s)
    PROVE  ThumbInv'
<1>1. ApiTyped /\ row.thumb \in Int /\ inputs \in Nat /\ Thumbs = {"thumb", "unthumb"}
    BY ThumbNumbers
<1>2. \A t \in Slots : jobs[t] # None => jobs[t].old <= inputs
    BY DEF ThumbInv
<1>3. \A t \in Slots : Uploading(t) => KeyOwn(t)
    BY DEF ThumbInv
\* The rest of KeyOwn: who uploads what.
<1>4. ASSUME \A t \in Slots : jobs'[t] # None => /\ jobs[t] # None /\ jobs'[t].kind = jobs[t].kind
                                                  /\ jobs'[t].arg = jobs[t].arg /\ jobs'[t].old = jobs[t].old,
             NEW u \in Slots, Uploading(u)'
      PROVE  /\ Uploading(u) /\ jobs'[u].arg = jobs[u].arg /\ jobs'[u].arg \in 1 .. inputs'
             /\ \A t \in Slots : jobs'[t] # None => jobs'[t].old # jobs'[u].arg
             /\ \A t \in Slots : Uploading(t)' /\ jobs'[t].arg = jobs'[u].arg => t = u
    <2>1. Uploading(u) /\ jobs'[u].arg = jobs[u].arg
        BY <1>4 DEF Uploading
    <2>2. \A t \in Slots : Uploading(t)' => Uploading(t) /\ jobs'[t].arg = jobs[t].arg
        BY <1>4 DEF Uploading
    <2> QED
        BY <1>3, <1>4, <2>1, <2>2 DEF KeyOwn
<1>5. CASE Purge(s)
    <2>1. /\ jobs[s] # None /\ jobs[s].kind = "delete" /\ jobs[s].pc = "looked" /\ objects' = {}
          /\ Went(s, "purged", jobs[s].old) /\ row' = row /\ torn' = torn
        BY <1>1, <1>5, Purged
    <2>2. \A t \in Slots : jobs'[t] # None => /\ jobs[t] # None /\ jobs'[t].kind = jobs[t].kind
                                              /\ jobs'[t].arg = jobs[t].arg /\ jobs'[t].old = jobs[t].old
        BY <2>1 DEF Went
    <2>3. At(s, {"delete"}, "purged")'
        BY <2>1 DEF Went, At
    <2>4. Gone' /\ ThumbnailThere'
        BY <2>3 DEF Gone, ThumbnailThere
    <2>5. \A u \in Slots : Uploading(u)' => KeyOwn(u)'
        BY <1>3, <1>4, <2>1, <2>2, <2>4 DEF KeyOwn
    <2>6. \A t \in Slots : jobs'[t] # None => jobs'[t].old <= inputs'
        BY <1>2, <2>2
    <2> QED
        BY <2>1, <2>4, <2>5, <2>6 DEF ThumbInv
<1>6. CASE DropRow(s)
    <2>1. /\ jobs[s] # None /\ row'.thumb = 0 /\ row'.status = "gone" /\ Ended(s, TRUE, row'.ver)
          /\ objects' = objects
        BY <1>1, <1>6, RowDropped
    <2>2. \A t \in Slots : jobs'[t] # None => /\ jobs[t] # None /\ jobs'[t].kind = jobs[t].kind
                                              /\ jobs'[t].arg = jobs[t].arg /\ jobs'[t].old = jobs[t].old
        BY <2>1 DEF Ended
    <2>3. Gone' /\ ThumbnailThere'
        BY <2>1 DEF Gone, ThumbnailThere
    <2>4. \A u \in Slots : Uploading(u)' => KeyOwn(u)'
        BY <1>1, <1>3, <1>4, <2>1, <2>2, <2>3 DEF KeyOwn
    <2>5. \A t \in Slots : jobs'[t] # None => jobs'[t].old <= inputs'
        BY <1>2, <2>2
    <2> QED
        BY <1>1, <2>1, <2>3, <2>4, <2>5 DEF ThumbInv
<1>7. CASE PutThumb(s)
    <2>1. /\ jobs[s] # None /\ jobs[s].kind = "thumb" /\ jobs[s].pc = "looked"
          /\ objects' = objects \cup {jobs[s].arg} /\ Went(s, "put", jobs[s].old) /\ row' = row /\ torn' = torn
        BY <1>1, <1>7, ThumbPut
    <2>2. \A t \in Slots : jobs'[t] # None => /\ jobs[t] # None /\ jobs'[t].kind = jobs[t].kind
                                              /\ jobs'[t].arg = jobs[t].arg /\ jobs'[t].old = jobs[t].old
        BY <2>1 DEF Went
    <2>3. \A t \in Slots : Removing(t) => jobs'[t] = jobs[t]
        BY <1>1, <2>1 DEF Removing, At, Went
    <2>4. (Gone => Gone') /\ ThumbnailThere'
        <3>1. Gone => Gone'
            BY <2>1, <2>3, GoneStays DEF Removing
        <3>2. ThumbnailThere'
            BY <2>1, <2>3 DEF ThumbInv, ThumbnailThere, Removing, At
        <3> QED
            BY <3>1, <3>2
    <2>5. \A t \in Slots : t # s => jobs'[t] = jobs[t]
        BY <2>1 DEF Went
    <2>6. \A u \in Slots : Uploading(u)' => KeyOwn(u)'
        <3>1. SUFFICES ASSUME NEW u \in Slots, Uploading(u)'
                       PROVE  KeyOwn(u)'
            OBVIOUS
        <3>2. jobs'[u].pc \in {"put", "cleaned"} => Gone' \/ jobs'[u].arg \in objects'
            <4>1. CASE u = s
                BY <2>1, <2>2, <3>1, <4>1 DEF Uploading
            <4>2. CASE u # s
                BY <1>3, <2>1, <2>4, <2>5, <3>1, <4>2 DEF Uploading, KeyOwn
            <4> QED
                BY <4>1, <4>2
        <3>3. /\ Uploading(u) /\ jobs'[u].arg = jobs[u].arg /\ jobs'[u].arg \in 1 .. inputs'
              /\ \A t \in Slots : jobs'[t] # None => jobs'[t].old # jobs'[u].arg
              /\ \A t \in Slots : Uploading(t)' /\ jobs'[t].arg = jobs'[u].arg => t = u
            BY <1>4, <2>2, <3>1
        <3>4. row'.thumb # jobs'[u].arg
            BY <1>3, <2>1, <3>3 DEF KeyOwn
        <3> QED
            BY <3>2, <3>3, <3>4 DEF KeyOwn
    <2>7. \A t \in Slots : jobs'[t] # None => jobs'[t].old <= inputs'
        BY <1>2, <2>2
    <2> QED
        BY <2>1, <2>4, <2>6, <2>7 DEF ThumbInv
<1>8. CASE Clean(s)
    <2>1. /\ jobs[s] # None /\ objects' \subseteq objects /\ row' = row /\ torn' = torn
          /\ objects' = objects \ {jobs[s].old} \/ objects' = objects
          /\ \/ jobs[s].kind = "thumb" /\ jobs[s].pc = "put"
             \/ jobs[s].kind = "unthumb" /\ jobs[s].pc = "looked"
          /\ \/ Went(s, "cleaned", jobs[s].old)
             \/ Ended(s, TRUE, row.ver) /\ jobs[s].kind = "unthumb" /\ jobs[s].old = 0
        BY <1>1, <1>8, Cleaned
    <2>2. \A t \in Slots : /\ t # s => jobs'[t] = jobs[t]
                           /\ jobs'[t] # None => /\ jobs[t] # None /\ jobs'[t].kind = jobs[t].kind
                                                 /\ jobs'[t].arg = jobs[t].arg /\ jobs'[t].old = jobs[t].old
        BY <2>1 DEF Went, Ended
    <2>3. \A t \in Slots : Removing(t) => jobs'[t] = jobs[t]
        BY <1>1, <2>1, <2>2 DEF Removing, At
    <2>4. Gone => Gone'
        BY <2>1, <2>3, GoneStays DEF Removing
    <2>5. ThumbnailThere'
        <3>1. CASE Went(s, "cleaned", jobs[s].old)
            <4>1. At(s, Thumbs, "cleaned")'
                BY <1>1, <2>1, <3>1 DEF Went, At
            <4> QED
                BY <4>1 DEF ThumbnailThere
        <3>2. CASE jobs[s].old = 0
            <4>1. \A x : x \in objects \cup {0} => x \in objects' \cup {0}
                BY <2>1, <3>2
            <4> QED
                BY <2>1, <2>3, <4>1 DEF ThumbInv, ThumbnailThere, Removing, At
        <3> QED
            BY <2>1, <3>1, <3>2
    <2>6. \A u \in Slots : Uploading(u)' => KeyOwn(u)'
        <3>1. SUFFICES ASSUME NEW u \in Slots, Uploading(u)'
                       PROVE  KeyOwn(u)'
            OBVIOUS
        <3>2. /\ Uploading(u) /\ jobs'[u].arg = jobs[u].arg /\ jobs'[u].arg \in 1 .. inputs'
              /\ \A t \in Slots : jobs'[t] # None => jobs'[t].old # jobs'[u].arg
              /\ \A t \in Slots : Uploading(t)' /\ jobs'[t].arg = jobs'[u].arg => t = u
            BY <1>4, <2>2, <3>1
        <3>3. jobs[s].old # jobs[u].arg /\ row'.thumb # jobs'[u].arg
            BY <1>3, <2>1, <3>2 DEF KeyOwn
        <3>4. jobs'[u].pc \in {"put", "cleaned"} => jobs[u].pc \in {"put", "cleaned"}
            BY <2>1, <2>2, <3>2 DEF Uploading
        <3>5. jobs'[u].pc \in {"put", "cleaned"} => Gone' \/ jobs'[u].arg \in objects'
            BY <1>3, <2>1, <2>4, <3>2, <3>3, <3>4 DEF KeyOwn
        <3> QED
            BY <3>2, <3>3, <3>5 DEF KeyOwn
    <2>7. \A t \in Slots : jobs'[t] # None => jobs'[t].old <= inputs'
        BY <1>2, <2>2
    <2> QED
        BY <2>1, <2>5, <2>6, <2>7 DEF ThumbInv
<1>9. CASE SetThumb(s)
    <2>1. /\ jobs[s] # None /\ jobs[s].kind \in Thumbs /\ jobs[s].pc = "cleaned"
          /\ row'.status = row.status /\ objects' = objects /\ Ended(s, TRUE, row'.ver)
          /\ IF row.status = "gone" THEN row' = row
             ELSE row'.thumb = IF jobs[s].kind = "thumb" THEN jobs[s].arg ELSE 0
        BY <1>1, <1>9, ThumbSet
    <2>2. \A t \in Slots : /\ t # s => jobs'[t] = jobs[t]
                           /\ jobs'[t] # None => /\ t # s /\ jobs[t] # None /\ jobs'[t].kind = jobs[t].kind
                                                 /\ jobs'[t].arg = jobs[t].arg /\ jobs'[t].old = jobs[t].old
        BY <2>1 DEF Ended
    <2>3. \A t \in Slots : At(t, {"delete"}, "purged") => jobs'[t] = jobs[t]
        BY <1>1, <2>1, <2>2 DEF At
    <2>4. Gone => Gone'
        BY <2>1, <2>3, GoneStays
    <2>5. row'.thumb = 0 \/ (Uploading(s) /\ row'.thumb = jobs[s].arg)
        BY <1>1, <2>1 DEF ThumbInv, Uploading
    <2>6. ThumbnailThere'
        <3>1. CASE row'.thumb = 0
            BY <3>1 DEF ThumbnailThere
        <3>2. CASE Uploading(s) /\ row'.thumb = jobs[s].arg
            <4>1. Gone \/ jobs[s].arg \in objects
                BY <1>3, <2>1, <3>2 DEF KeyOwn
            <4>2. CASE jobs[s].arg \in objects
                BY <2>1, <3>2, <4>2 DEF ThumbnailThere
            <4>3. CASE Gone /\ row.status = "gone"
                BY <2>1, <3>1, <4>3 DEF ThumbInv, ThumbnailThere
            <4>4. CASE Gone /\ row.status # "gone"
                <5>1. PICK t \in Slots : At(t, {"delete"}, "purged")
                    BY <4>4 DEF Gone
                <5>2. At(t, {"delete"}, "purged")'
                    BY <2>3, <5>1 DEF At
                <5> QED
                    BY <5>2 DEF ThumbnailThere
            <4> QED
                BY <4>1, <4>2, <4>3, <4>4
        <3> QED
            BY <2>5, <3>1, <3>2
    <2>7. \A u \in Slots : Uploading(u)' => KeyOwn(u)'
        <3>1. SUFFICES ASSUME NEW u \in Slots, Uploading(u)'
                       PROVE  KeyOwn(u)'
            OBVIOUS
        <3>2. /\ Uploading(u) /\ jobs'[u].arg = jobs[u].arg /\ jobs'[u].arg \in 1 .. inputs'
              /\ \A t \in Slots : jobs'[t] # None => jobs'[t].old # jobs'[u].arg
              /\ \A t \in Slots : Uploading(t)' /\ jobs'[t].arg = jobs'[u].arg => t = u
            BY <1>4, <2>2, <3>1
        <3>3. u # s /\ jobs'[u] = jobs[u]
            BY <2>2, <3>1 DEF Uploading
        <3>4. row'.thumb # jobs'[u].arg
            BY <1>1, <1>3, <2>5, <3>2, <3>3 DEF KeyOwn
        <3>5. jobs'[u].pc \in {"put", "cleaned"} => Gone' \/ jobs'[u].arg \in objects'
            BY <1>3, <2>1, <2>4, <3>2, <3>3 DEF KeyOwn
        <3> QED
            BY <3>2, <3>4, <3>5 DEF KeyOwn
    <2>8. \A t \in Slots : jobs'[t] # None => jobs'[t].old <= inputs'
        BY <1>2, <2>2
    <2>9. row'.thumb <= inputs'
        BY <1>1, <1>3, <2>5 DEF KeyOwn
    <2>10. row'.status = "gone" => row'.thumb = 0
        BY <2>1 DEF ThumbInv
    <2> QED
        BY <2>6, <2>7, <2>8, <2>9, <2>10 DEF ThumbInv
<1> QED
    BY <1>5, <1>6, <1>7, <1>8, <1>9

\* Requests that get lost, are given up or die.
LEMMA ThumbFailed ==
    ASSUME TypedInv, ThumbInv, inputs' = inputs, page' = page,
           Crash \/ \E k \in Kinds : Lose(k) \/ GiveUp(k)
    PROVE  ThumbInv'
<1>1. ApiTyped /\ row.thumb \in Int /\ inputs \in Nat /\ Thumbs = {"thumb", "unthumb"}
      /\ "abandoned" \notin Kinds
    BY ThumbNumbers
<1>2. CASE Crash
    <2>1. /\ \A s \in Slots : jobs'[s] = None
          /\ torn \subseteq torn' /\ row' = row /\ objects' = objects
          /\ \A s \in Slots : Removing(s) => PartOf(jobs[s].kind) \subseteq torn'
        BY <1>1, <1>2, Crashed DEF Removing, At
    <2>2. \A s \in Slots : Removing(s) => PartOf(jobs[s].kind) = {"thumbnail"}
        <3>1. \A k \in {"thumb", "unthumb", "delete"} : k \notin Chapter \cup Segment
            BY PageKinds, KindsDiffer
        <3> QED
            BY <1>1, <3>1 DEF Removing, At, PartOf
    <2>3. ThumbnailThere'
        BY <2>1, <2>2 DEF ThumbInv, ThumbnailThere, Removing
    <2> QED
        BY <2>1, <2>3 DEF ThumbInv, Uploading
<1>3. ASSUME NEW k \in Kinds, Lose(k)
      PROVE  ThumbInv'
    <2>1. k \in Slots
        BY KindsDiffer
    <2>2. \A s \in Slots : Harmless(s)
        BY <1>1, <1>3, <2>1, Lost DEF Harmless, Removing, At
    <2> QED
        BY <1>1, <1>3, <2>2, Lost, ThumbFrame
<1>4. ASSUME NEW k \in Kinds, GiveUp(k)
      PROVE  ThumbInv'
    <2>1. /\ k \in Slots /\ "abandoned" \in Slots /\ k # "abandoned"
          /\ jobs[k] # None /\ jobs["abandoned"] = None /\ jobs'[k] = None /\ jobs'["abandoned"] = jobs[k]
          /\ \A s \in Slots : s # k /\ s # "abandoned" => jobs'[s] = jobs[s]
          /\ torn \subseteq torn' /\ row' = row /\ objects' = objects
        BY <1>1, <1>4, GivenUp, KindsDiffer
    <2> DEFINE was(s) == IF s = "abandoned" THEN k ELSE s
    <2>2. \A s \in Slots : jobs'[s] # None => was(s) \in Slots /\ jobs'[s] = jobs[was(s)]
        BY <2>1
    <2>3. \A s, t \in Slots : jobs'[s] # None /\ jobs'[t] # None /\ was(s) = was(t) => s = t
        BY <2>1
    <2>4. \A s \in Slots : jobs[s] # None => \E t \in Slots : jobs'[t] = jobs[s]
        BY <2>1
    <2> HIDE DEF was
    <2>5. Gone => Gone'
        BY <2>1, <2>4 DEF Gone, At
    <2>6. ThumbnailThere'
        BY <2>1, <2>4 DEF ThumbInv, ThumbnailThere, At
    <2>7. \A s \in Slots : jobs'[s] # None => jobs'[s].old <= inputs'
        BY <2>2 DEF ThumbInv
    <2>8. ASSUME NEW s \in Slots, Uploading(s)'
          PROVE  KeyOwn(s)'
        <3>1. was(s) \in Slots /\ Uploading(was(s)) /\ jobs'[s] = jobs[was(s)]
            BY <2>2, <2>8 DEF Uploading
        <3>2. KeyOwn(was(s))
            BY <3>1 DEF ThumbInv
        <3>3. \A t \in Slots : jobs'[t] # None => jobs'[t].old # jobs'[s].arg
            BY <2>2, <3>1, <3>2 DEF KeyOwn
        <3>4. \A t \in Slots : Uploading(t)' /\ jobs'[t].arg = jobs'[s].arg => t = s
            BY <2>2, <2>3, <2>8, <3>1, <3>2 DEF KeyOwn, Uploading
        <3> QED
            BY <2>1, <2>5, <3>1, <3>2, <3>3, <3>4 DEF KeyOwn
    <2> QED
        BY <2>1, <2>6, <2>7, <2>8 DEF ThumbInv
<1> QED
    BY <1>2, <1>3, <1>4

LEMMA ThumbKept ==
    ASSUME TypedInv, SettingInv, ThumbInv, [Next]_vars
    PROVE  ThumbInv'
<1>1. ApiTyped /\ row.thumb \in Int /\ inputs \in Nat /\ Thumbs = {"thumb", "unthumb"} /\ Jobs(jobs)
    BY ThumbNumbers
<1>2. CASE Api
    <2>1. page.view = "closed" /\ page' = page /\ inputs' = inputs /\ ApiNext
        BY <1>2 DEF Api, settings
    <2>2. CASE Worker
        <3>1. \A s \in Slots : Harmless(s)
            BY <1>1, <2>2, Worked DEF Harmless
        <3> QED
            BY <1>1, <2>1, <2>2, <3>1, Worked, ThumbFrame
    <2>3. ASSUME NEW s \in Slots, Serve(s)
          PROVE  ThumbInv'
        BY <2>1, <2>3, ThumbServed, ThumbChanged DEF Serve
    <2> QED
        BY <2>1, <2>2, <2>3, ThumbFailed DEF ApiNext, AtWork
<1>3. CASE Watching
    <2>1. WatchMoves /\ UNCHANGED <<detail, mine, settings>> /\ inputs' \in {inputs, inputs + 1}
        BY <1>3, WatchingMoves
    <2>2. page' = page
        BY <2>1 DEF settings
    <2>3. WatchKinds \cap {"thumb", "unthumb", "delete"} = {}
        BY PageKinds, KindsDiffer DEF WatchKinds
    <2>4. ASSUME NEW s \in Slots
          PROVE  Harmless(s)
        <3>1. CASE jobs'[s] = jobs[s]
            BY <3>1 DEF Harmless
        <3>2. CASE /\ s \in WatchKinds \cap Kinds /\ jobs'[s] # None
                   /\ jobs'[s].kind = s /\ jobs'[s].pc = "sent" /\ jobs'[s].old = 0
            <4>1. jobs[s] # None => jobs[s].kind = s
                BY <1>1, <3>2, ThumbNumbers, SlotIs
            <4>2. ~Removing(s)
                BY <1>1, <2>3, <3>2, <4>1 DEF Removing, At
            <4> QED
                BY <2>3, <3>2, <4>2 DEF Harmless, OldFits
        <3> QED
            BY <2>1, <3>1, <3>2 DEF WatchMoves, Asks
    <2>5. row' = row /\ objects' = objects /\ torn \subseteq torn'
        BY <2>1 DEF WatchMoves
    <2> QED
        BY <2>1, <2>2, <2>4, <2>5, ThumbFrame
<1>4. CASE Managing
    <2>1. /\ DetailMoves /\ UNCHANGED <<watch, typed, dismissed, settings>> /\ inputs' \in {inputs, inputs + 1}
          /\ jobs'["thumb"] # jobs["thumb"] => jobs'["thumb"].arg = inputs + 1 /\ inputs' = inputs + 1
        BY <1>4, ManagingMoves
    <2>2. page' = page
        BY <2>1 DEF settings
    <2>3. ASSUME NEW s \in Slots
          PROVE  Harmless(s)
        <3>1. CASE jobs'[s] = jobs[s]
            BY <3>1 DEF Harmless
        <3>2. CASE /\ jobs'[s] # jobs[s] /\ s \in DetailKinds \cap Kinds /\ jobs'[s] # None
                   /\ jobs'[s].kind = s /\ jobs'[s].pc = "sent" /\ jobs'[s].old = 0
            <4>1. jobs[s] # None => jobs[s].kind = s
                BY <1>1, <3>2, ThumbNumbers, SlotIs
            <4>2. ~Removing(s)
                <5>1. CASE s \in Pages
                    BY <1>1, <4>1, <5>1, ThumbNumbers DEF Removing, At
                <5>2. CASE s \notin Pages
                    BY <1>4, <3>2, <5>2, AsksFresh DEF Removing, At
                <5> QED
                    BY <5>1, <5>2
            <4>3. CASE s = "thumb"
                BY <2>1, <3>2, <4>2, <4>3 DEF Harmless
            <4>4. CASE s # "thumb"
                BY <3>2, <4>2, <4>4 DEF Harmless, OldFits
            <4> QED
                BY <4>3, <4>4
        <3> QED
            BY <2>1, <3>1, <3>2 DEF DetailMoves, Asks
    <2>4. row' = row /\ objects' = objects /\ torn' = torn
        BY <2>1 DEF DetailMoves
    <2> QED
        BY <2>1, <2>2, <2>3, <2>4, ThumbFrame
<1>5. CASE Setting
    <2>1. SettingInv' /\ page'.view # "closed" /\ inputs' \in {inputs, inputs + 1} /\ inputs' \in Nat
        BY <1>1, <1>5, SettingKept DEF Setting, Input
    <2>2. row' = row /\ objects' = objects /\ jobs' = jobs /\ torn' = torn
        BY <1>5 DEF Setting
    <2>3. page.view # "closed"
        BY <1>5 DEF Setting
    <2>4. \A s \in Slots : jobs[s] # None => jobs[s].old \in Int
        BY ThumbNumbers
    <2>5. /\ row'.thumb <= inputs' /\ \A s \in Slots : jobs'[s] # None => jobs'[s].old <= inputs'
        BY <1>1, <2>1, <2>2, <2>4 DEF ThumbInv
    <2>6. ThumbnailThere'
        BY <2>2 DEF ThumbInv, ThumbnailThere, At
    <2>7. Gone' = Gone
        BY <2>2 DEF Gone, At
    <2>8. \A s \in Slots : Uploading(s)' => KeyOwn(s)'
        BY <1>1, <2>1, <2>2, <2>7 DEF ThumbInv, Uploading, KeyOwn
    <2> QED
        BY <2>1, <2>5, <2>6, <2>8 DEF ThumbInv
<1>6. CASE UNCHANGED vars
    <2>1. inputs' = inputs /\ page' = page /\ row' = row /\ objects' = objects /\ jobs' = jobs /\ torn' = torn
        BY <1>6 DEF vars, api, settings
    <2>2. \A s \in Slots : Harmless(s)
        BY <2>1 DEF Harmless
    <2> QED
        BY <2>1, <2>2, ThumbFrame
<1> QED
    BY <1>2, <1>3, <1>4, <1>5, <1>6 DEF Next

LEMMA InitThumb == Init => ThumbInv
<1> SUFFICES ASSUME Init PROVE ThumbInv
    OBVIOUS
<1>1. PICK sent, status : \E w, d, p \in BOOLEAN : Opening(sent, status, w, d, p)
    BY Opens
<1>2. PICK w \in BOOLEAN, d \in BOOLEAN, p \in BOOLEAN : Opening(sent, status, w, d, p)
    BY <1>1
<1>3. inputs = 0
    BY Opens
<1>4. /\ row.thumb = FirstThumb /\ FirstThumb \in objects /\ row.status = status
      /\ \A s \in Slots : jobs[s] = IF s \in sent THEN Asked(s, None) ELSE None
      /\ \A s \in Slots : jobs[s] # None => jobs[s].kind = s /\ s \in {"load", "asset"}
    BY <1>2, ApiOpened DEF Opening
<1>8. \A s \in Slots : Asked(s, None).old = 0
    BY DEF Asked
<1>5. \A s \in Slots : jobs[s] # None => jobs[s].old = 0
    BY <1>4, <1>8
<1>6. page.view = IF p THEN "loading" ELSE "closed"
    BY <1>2 DEF Opening, SettingsInit, Opened
<1>7. ThumbnailThere
    BY <1>4 DEF ThumbnailThere
<1> QED
    BY <1>2, <1>3, <1>4, <1>5, <1>6, <1>7 DEF ThumbInv, Uploading, FirstThumb, Opening

-----------------------------------------------------------------------------
(* Comments and reactions.                                                  *)

Commenting(s) == jobs[s] # None /\ jobs[s].kind \in {"post", "react"}
Sent(n) == n \in Bodies \/ \E s \in Slots : Commenting(s) /\ jobs[s].arg.body = n

\* What was written is known by a number no later input has.
WritingNumbered ==
    /\ \A n \in Nat : Sent(n) => n <= inputs
    /\ \A n \in typed \cup dismissed : n <= inputs
    /\ watch.draft <= inputs /\ watch.pending <= inputs

\* A comment that is on its way, or was accepted, is still in the box; what
\* was dismissed, or still waits for an identity, was never sent.
WritingInv ==
    /\ WritingNumbered
    /\ 0 \notin typed /\ 0 \notin dismissed
    /\ DraftNeverLost
    /\ watch.view = "closed" => watch.draft = 0
    /\ jobs["post"] # None /\ watch.draft # 0 => jobs["post"].arg.body = watch.draft
    /\ answers["post"] # None /\ answers["post"].ok => watch.draft \in {0} \cup Bodies
    /\ \A n \in dismissed : ~Sent(n) /\ n # watch.draft /\ n # watch.pending
    /\ watch.pending # 0 => ~Sent(watch.pending) /\ watch.pending # watch.draft

LEMMA WritingTypes ==
    ASSUME TypedInv
    PROVE  /\ inputs \in Nat /\ typed \subseteq Nat /\ dismissed \subseteq Nat
           /\ watch \in WatchType /\ watch.draft \in Nat /\ watch.pending \in Nat
           /\ comments \subseteq Posting /\ Bodies \subseteq Nat
           /\ ApiTyped /\ Jobs(jobs) /\ Answers(answers)
           /\ "post" \in Kinds /\ "react" \in Kinds /\ "post" \in Slots /\ "react" \in Slots
           /\ \A s \in Slots : Commenting(s) => jobs[s].arg \in Posting /\ jobs[s].arg.body \in Nat
           /\ \A n : Sent(n) => n \in Nat
<1>1. /\ inputs \in Nat /\ typed \subseteq Nat /\ dismissed \subseteq Nat
      /\ watch \in WatchType /\ comments \subseteq Posting
      /\ ApiTyped /\ Jobs(jobs) /\ Answers(answers)
    BY DEF TypedInv, Typed, WatchTyped, ApiTyped, StoredTyped
<1>2. watch.draft \in Nat /\ watch.pending \in Nat
    BY <1>1 DEF WatchType
<1>3. Bodies \subseteq Nat
    BY <1>1 DEF Bodies, Posting
<1>4. "post" \in Kinds /\ "react" \in Kinds /\ "post" \in Slots /\ "react" \in Slots
    BY PageKinds, KindsDiffer
<1>5. ASSUME NEW s \in Slots, Commenting(s)
      PROVE  jobs[s].arg \in Posting /\ jobs[s].arg.body \in Nat
    BY <1>1, <1>5, SlotIs DEF Commenting, ArgFits, Posting
<1> QED
    BY <1>1, <1>2, <1>3, <1>4, <1>5 DEF Sent

\* A step that sends nothing new and changes nothing that was written.
LEMMA WritingSame ==
    ASSUME TypedInv, WritingInv, inputs' \in {inputs, inputs + 1},
           watch'.draft = watch.draft, watch'.pending = watch.pending,
           watch'.view = "closed" => watch.view = "closed",
           typed' = typed, dismissed' = dismissed,
           \A n \in Nat : Sent(n)' => Sent(n),
           watch.view = "closed" \/ Bodies \subseteq Bodies',
           jobs'["post"] # None => jobs["post"] # None /\ jobs'["post"].arg = jobs["post"].arg,
           \/ answers'["post"] = answers["post"] \/ answers'["post"] = None \/ ~answers'["post"].ok
           \/ jobs["post"] # None /\ jobs["post"].arg.body \in Bodies'
    PROVE  WritingInv'
<1>1. /\ inputs \in Nat /\ typed \subseteq Nat /\ dismissed \subseteq Nat
      /\ watch.draft \in Nat /\ watch.pending \in Nat
    BY WritingTypes
<1>2. WritingNumbered'
    BY <1>1 DEF WritingInv, WritingNumbered
<1>3. watch.view = "closed" => typed = {} /\ watch.draft = 0
    BY DEF WritingInv, TypedInv, OnePage
<1>4. DraftNeverLost'
    BY <1>3 DEF WritingInv, DraftNeverLost
<1>5. jobs'["post"] # None /\ watch'.draft # 0 => jobs'["post"].arg.body = watch'.draft
    BY DEF WritingInv
<1>6. answers'["post"] # None /\ answers'["post"].ok => watch'.draft \in {0} \cup Bodies'
    BY <1>3 DEF WritingInv
<1>7. \A n \in dismissed' : ~Sent(n)' /\ n # watch'.draft /\ n # watch'.pending
    BY <1>1 DEF WritingInv
<1>8. watch'.pending # 0 => ~Sent(watch.pending)' /\ watch'.pending # watch'.draft
    BY <1>1 DEF WritingInv
<1>9. watch'.view = "closed" => watch'.draft = 0
    BY DEF WritingInv
<1> QED
    BY <1>2, <1>4, <1>5, <1>6, <1>7, <1>8, <1>9 DEF WritingInv

-----------------------------------------------------------------------------
(* The API.                                                                 *)

\* A handler keeps what it was asked to do, until it ends.
Keeps ==
    /\ \A k \in Kinds : jobs'[k] # None =>
          /\ jobs[k] # None /\ jobs'[k].kind = jobs[k].kind /\ jobs'[k].arg = jobs[k].arg
    /\ jobs'["abandoned"] # None => \E t \in Slots :
          /\ jobs[t] # None /\ jobs'["abandoned"].kind = jobs[t].kind /\ jobs'["abandoned"].arg = jobs[t].arg

LEMMA WentKeeps == ASSUME NEW s \in Slots, NEW pc, NEW old, jobs[s] # None, Went(s, pc, old) PROVE Keeps
BY KindsDiffer DEF Went, Keeps
LEMMA EndedKeeps == ASSUME NEW s \in Slots, NEW ok, NEW b, Ended(s, ok, b) PROVE Keeps
BY KindsDiffer DEF Ended, Keeps

LEMMA SameKeeps == ASSUME jobs' = jobs PROVE Keeps
BY KindsDiffer DEF Keeps

LEMMA HandlersKeep ==
    ASSUME ApiTyped, NEW s \in Slots, Serve(s)
    PROVE  Keeps
<1>1. CASE Refuse(s)
    BY <1>1, Refused, EndedKeeps
<1>2. CASE Read(s)
    BY <1>2, HasRead, EndedKeeps
<1>3. CASE Look(s)
    BY <1>3, Looked, WentKeeps
<1>4. CASE Insert(s)
    BY <1>4, Inserted, EndedKeeps
<1>5. CASE Update(s)
    BY <1>5, Updated, EndedKeeps
<1>6. CASE Queue(s)
    BY <1>6, Queued, EndedKeeps
<1>7. CASE Purge(s)
    BY <1>7, Purged, WentKeeps
<1>8. CASE DropRow(s)
    BY <1>8, RowDropped, EndedKeeps
<1>9. CASE PutChapters(s)
    BY <1>9, ChaptersPut, EndedKeeps
<1>10. CASE PutTranscript(s)
    BY <1>10, TranscriptPut, WentKeeps
<1>11. CASE PutSubtitles(s)
    BY <1>11, SubtitlesPut, EndedKeeps
<1>12. CASE PutThumb(s)
    BY <1>12, ThumbPut, WentKeeps
<1>13. CASE Clean(s)
    BY <1>13, Cleaned, WentKeeps, EndedKeeps
<1>14. CASE SetThumb(s)
    BY <1>14, ThumbSet, EndedKeeps
<1> QED
    BY <1>1, <1>2, <1>3, <1>4, <1>5, <1>6, <1>7, <1>8, <1>9, <1>10, <1>11, <1>12, <1>13, <1>14 DEF Serve

LEMMA ApiKeeps ==
    ASSUME ApiTyped, ApiNext
    PROVE  Keeps
<1>1. CASE Worker
    BY <1>1, Worked, SameKeeps
<1>2. CASE Crash
    <2>1. \A s \in Slots : jobs'[s] = None
        BY <1>2, Crashed
    <2> QED
        BY <2>1, KindsDiffer DEF Keeps
<1>3. CASE \E s \in AtWork(Slots) : Serve(s)
    BY <1>3, HandlersKeep DEF AtWork
<1>4. ASSUME NEW k \in Kinds, Lose(k)
      PROVE  Keeps
    BY <1>4, Lost, KindsDiffer DEF Keeps
<1>5. ASSUME NEW k \in Kinds, GiveUp(k)
      PROVE  Keeps
    BY <1>5, GivenUp, KindsDiffer DEF Keeps
<1> QED
    BY <1>1, <1>2, <1>3, <1>4, <1>5 DEF ApiNext, AtWork

LEMMA KeepsSent ==
    ASSUME Keeps, NEW s \in Slots, Commenting(s)'
    PROVE  \E t \in Slots : Commenting(t) /\ jobs[t].arg = jobs'[s].arg
BY KindsDiffer DEF Keeps, Commenting

\* What handlers do to the comments and to the answer of a comment.
LEMMA HandlersComment ==
    ASSUME TypedInv, NEW s \in Slots, Serve(s)
    PROVE  /\ \/ comments' = comments
              \/ /\ Commenting(s) /\ comments' = comments \cup {jobs[s].arg}
              \/ comments' = {} /\ jobs[s].kind = "delete" /\ jobs[s] # None
           /\ \/ answers'["post"] = answers["post"] \/ ~answers'["post"].ok
              \/ jobs["post"] # None /\ jobs["post"].arg \in comments'
<1>1. ApiTyped /\ "post" \in Kinds /\ "post" # "abandoned"
    BY WritingTypes, KindsDiffer
<1>2. ASSUME NEW ok, NEW b, Ended(s, ok, b), jobs[s] # None, jobs[s].kind # "post"
      PROVE  answers'["post"] = answers["post"]
    BY <1>1, <1>2, SlotIs DEF Ended
<1>3. ASSUME NEW pc, NEW old, Went(s, pc, old)
      PROVE  answers'["post"] = answers["post"]
    BY <1>3 DEF Went
<1>4. "post" \notin Chapter \cup Segment \cup Reads
    BY PageKinds, KindsDiffer DEF Changes
<1>5. CASE Refuse(s)
    <2>1. Ended(s, FALSE, None) /\ comments' = comments
        BY <1>1, <1>5, Refused
    <2> QED
        BY <1>1, <2>1 DEF Ended
<1>6. CASE Read(s)
    <2>1. jobs[s] # None /\ s \in Reads /\ s \in Kinds /\ comments' = comments
        BY <1>1, <1>6, HasRead
    <2>2. jobs[s].kind # "post"
        BY <1>1, <1>4, <2>1, SlotIs, KindsDiffer
    <2>3. PICK b : Ended(s, TRUE, b)
        BY <1>1, <1>6, HasRead
    <2> QED
        BY <1>2, <2>1, <2>2, <2>3
<1>7. CASE Look(s)
    BY <1>1, <1>3, <1>7, Looked
<1>8. CASE Insert(s)
    <2>1. /\ jobs[s] # None /\ jobs[s].kind \in {"post", "react"} /\ Ended(s, TRUE, None)
          /\ comments' = comments \cup {jobs[s].arg}
        BY <1>1, <1>8, Inserted
    <2>2. CASE s = "post"
        BY <2>1, <2>2 DEF Commenting
    <2>3. CASE s # "post"
        BY <1>1, <2>1, <2>3 DEF Commenting, Ended
    <2> QED
        BY <2>2, <2>3
<1>9. CASE Update(s)
    BY <1>1, <1>2, <1>9, Updated
<1>10. CASE Queue(s)
    BY <1>1, <1>2, <1>10, Queued
<1>11. CASE Purge(s)
    BY <1>1, <1>3, <1>11, Purged
<1>12. CASE DropRow(s)
    BY <1>1, <1>2, <1>12, RowDropped
<1>13. CASE PutChapters(s)
    BY <1>1, <1>2, <1>4, <1>13, ChaptersPut
<1>14. CASE PutTranscript(s)
    BY <1>1, <1>3, <1>14, TranscriptPut
<1>15. CASE PutSubtitles(s)
    BY <1>1, <1>2, <1>4, <1>15, SubtitlesPut
<1>16. CASE PutThumb(s)
    BY <1>1, <1>3, <1>16, ThumbPut
<1>17. CASE Clean(s)
    <2>1. jobs[s] # None /\ jobs[s].kind # "post" /\ comments' = comments
        BY <1>1, <1>17, Cleaned
    <2>2. Went(s, "cleaned", jobs[s].old) \/ Ended(s, TRUE, row.ver)
        BY <1>1, <1>17, Cleaned
    <2> QED
        BY <1>2, <1>3, <2>1, <2>2
<1>18. CASE SetThumb(s)
    BY <1>1, <1>2, <1>18, ThumbSet DEF Thumbs
<1> QED
    BY <1>5, <1>6, <1>7, <1>8, <1>9, <1>10, <1>11, <1>12, <1>13, <1>14, <1>15, <1>16, <1>17, <1>18 DEF Serve

LEMMA WritingServed ==
    ASSUME TypedInv, WritingInv, Api
    PROVE  WritingInv'
<1>1. ApiTyped /\ ApiNext /\ UNCHANGED <<watch, inputs, typed, dismissed>>
    BY WritingTypes DEF Api
<1>2. Keeps
    BY <1>1, ApiKeeps
<1>3. "post" \in Kinds
    BY WritingTypes
<1>4. jobs'["post"] # None => jobs["post"] # None /\ jobs'["post"].arg = jobs["post"].arg
    BY <1>2, <1>3 DEF Keeps
<1>5. /\ \/ comments' = comments
         \/ \E s \in Slots : Commenting(s) /\ comments' = comments \cup {jobs[s].arg}
         \/ comments' = {} /\ \E s \in Slots : jobs[s] # None /\ jobs[s].kind = "delete"
      /\ \/ answers'["post"] = answers["post"] \/ answers'["post"] = None \/ ~answers'["post"].ok
         \/ jobs["post"] # None /\ jobs["post"].arg \in comments'
    <2>1. CASE Worker
        BY <1>1, <2>1, Worked
    <2>2. CASE Crash
        BY <1>1, <1>3, <2>2, Crashed, FailureIs
    <2>3. CASE \E s \in AtWork(Slots) : Serve(s)
        BY <2>3, HandlersComment DEF AtWork
    <2>4. ASSUME NEW k \in Kinds, Lose(k) \/ GiveUp(k)
          PROVE  /\ comments' = comments
                 /\ answers'["post"] = answers["post"] \/ ~answers'["post"].ok
        BY <1>1, <1>3, <2>4, Lost, GivenUp, FailureIs
    <2> QED
        BY <1>1, <2>1, <2>2, <2>3, <2>4 DEF ApiNext, AtWork
<1>6. watch.view = "closed" \/ Bodies \subseteq Bodies'
    <2>1. CASE \E s \in Slots : jobs[s] # None /\ jobs[s].kind = "delete"
        BY <2>1 DEF TypedInv, OnePage
    <2>2. CASE comments \subseteq comments'
        BY <2>2 DEF Bodies
    <2> QED
        BY <1>5, <2>1, <2>2
<1>7. ASSUME NEW n \in Nat, Sent(n)'
      PROVE  Sent(n)
    <2>1. CASE n \in Bodies'
        <3>1. PICK c \in comments' : c.body = n
            BY <2>1 DEF Bodies
        <3>2. CASE c \in comments
            BY <3>1, <3>2 DEF Sent, Bodies
        <3>3. CASE \E s \in Slots : Commenting(s) /\ c = jobs[s].arg
            BY <3>1, <3>3 DEF Sent
        <3> QED
            BY <1>5, <3>1, <3>2, <3>3
    <2>2. CASE \E s \in Slots : Commenting(s)' /\ jobs'[s].arg.body = n
        BY <1>2, <2>2, KeepsSent DEF Sent
    <2> QED
        BY <1>7, <2>1, <2>2 DEF Sent
<1>8. \/ answers'["post"] = answers["post"] \/ answers'["post"] = None \/ ~answers'["post"].ok
      \/ jobs["post"] # None /\ jobs["post"].arg.body \in Bodies'
    BY <1>5 DEF Bodies
<1> QED
    BY <1>1, <1>4, <1>6, <1>7, <1>8, WritingSame

-----------------------------------------------------------------------------
(* The page.                                                                *)

\* Nothing of a comment or a reaction is sent.
Silent == jobs'["post"] = jobs["post"] /\ jobs'["react"] = jobs["react"]

LEMMA SilentSends ==
    ASSUME TypedInv, \E ks : Asks(ks), Silent, comments' = comments
    PROVE  /\ \A n \in Nat : Sent(n)' => Sent(n)
           /\ Bodies' = Bodies
<1>1. Bodies' = Bodies
    BY DEF Bodies
<1>2. ASSUME NEW s \in Slots, Commenting(s)'
      PROVE  jobs'[s] = jobs[s]
    BY <1>2 DEF Asks, Silent, Commenting
<1> QED
    BY <1>1, <1>2 DEF Sent, Commenting

LEMMA SilentAsk ==
    ASSUME TypedInv, NEW k \in Kinds \ {"post", "react"}, NEW b, ArgFits(k, b),
           jobs' = With(jobs, k, b)
    PROVE  Silent
BY WritingTypes, AskedOne DEF Silent

\* A step of the page that sends no comment and leaves what was written alone.
LEMMA WritingQuiet ==
    ASSUME TypedInv, WritingInv, WatchMoves, Silent, inputs' \in {inputs, inputs + 1},
           watch'.draft = watch.draft, watch'.pending = watch.pending,
           typed' = typed, dismissed' = dismissed
    PROVE  WritingInv'
<1>1. comments' = comments /\ watch'.view # "closed" /\ Asks(WatchKinds)
    BY DEF WatchMoves
<1>2. /\ \A n \in Nat : Sent(n)' => Sent(n)
      /\ Bodies' = Bodies
    BY <1>1, SilentSends
<1>3. answers'["post"] = answers["post"] \/ answers'["post"] = None
    BY WritingTypes DEF WatchMoves, Hears
<1>4. jobs'["post"] # None => jobs["post"] # None /\ jobs'["post"].arg = jobs["post"].arg
    BY DEF Silent
<1> QED
    BY <1>1, <1>2, <1>3, <1>4, WritingSame

LEMMA WritingAnswered ==
    ASSUME TypedInv, WritingInv, WatchMoves, WatchAnswered, inputs' = inputs
    PROVE  WritingInv'
<1>1. /\ watch \in WatchType /\ Jobs(jobs) /\ "post" \in Kinds /\ "react" \in Kinds
      /\ typed \subseteq Nat /\ inputs \in Nat /\ "post" \in Slots
    BY WritingTypes
<1>2. CASE Loaded
    <2>1. typed' = typed /\ dismissed' = dismissed
        BY <1>2 DEF Loaded
    <2>2. watch'.draft = watch.draft /\ watch'.pending = watch.pending
        BY <1>1, <1>2 DEF Loaded, WatchType
    <2>3. Silent
        <3> DEFINE a == With(jobs, "getChapters", None)
                   b == With(a, "getTranscript", None)
                   c == With(b, "list", None)
        <3>1. \/ jobs' = jobs \/ jobs' = b \/ jobs' = c
            BY <1>2 DEF Loaded
        <3>5. /\ "getChapters" \in Kinds /\ "getTranscript" \in Kinds /\ "list" \in Kinds
              /\ ArgFits("getChapters", None) /\ ArgFits("getTranscript", None) /\ ArgFits("list", None)
            BY PageKinds, KindsDiffer
        <3>6. ASSUME NEW js, Jobs(js), NEW k \in {"getChapters", "getTranscript", "list"}
              PROVE  /\ Jobs(With(js, k, None)) /\ With(js, k, None)["post"] = js["post"]
                     /\ With(js, k, None)["react"] = js["react"]
            BY <1>1, <3>5, <3>6, AskedOne, KindsDiffer
        <3>2. Jobs(a) /\ a["post"] = jobs["post"] /\ a["react"] = jobs["react"]
            BY <1>1, <3>6
        <3>3. Jobs(b) /\ b["post"] = a["post"] /\ b["react"] = a["react"]
            BY <3>2, <3>6
        <3>4. c["post"] = b["post"] /\ c["react"] = b["react"]
            BY <3>3, <3>6
        <3> HIDE DEF a, b, c
        <3> QED
            BY <3>1, <3>2, <3>3, <3>4 DEF Silent
    <2> QED
        BY <2>1, <2>2, <2>3, WritingQuiet
<1>3. ASSUME NEW k, NEW part \in {"chapters", "transcript"}, FileLoaded(k, part)
      PROVE  WritingInv'
    <2>1. typed' = typed /\ dismissed' = dismissed /\ Silent
        BY <1>3 DEF FileLoaded, Silent
    <2>2. watch'.draft = watch.draft /\ watch'.pending = watch.pending
        BY <1>1, <1>3 DEF FileLoaded, WatchType
    <2> QED
        BY <2>1, <2>2, WritingQuiet
<1>4. CASE Reloaded
    <2> DEFINE s == IF answers["reload"].ok THEN answers["reload"].body ELSE watch.settings
               w == [watch EXCEPT !.settings = s]
    <2>1. w.draft = watch.draft /\ w.pending = watch.pending
        BY <1>1 DEF WatchType
    <2>2. CASE "comments" \in s
        <3>1. /\ watch' = w /\ typed' = typed /\ dismissed' = dismissed
              /\ jobs' = jobs \/ jobs' = With(jobs, "list", None)
            BY <1>4, <2>2 DEF Reloaded
        <3>2. Silent
            BY <3>1, SilentAsk, PageKinds, KindsDiffer DEF Silent
        <3> QED
            BY <2>1, <3>1, <3>2, WritingQuiet
    <2>3. CASE "comments" \notin s
        <3>1. /\ watch' = Unmounted(w) /\ typed' = typed \ {watch.draft} /\ dismissed' = dismissed
              /\ jobs' = jobs
            BY <1>4, <2>3 DEF Reloaded
        <3>2. watch'.draft = 0 /\ watch'.pending = watch.pending
            BY <1>1, <2>1, <3>1 DEF Unmounted, WatchType
        <3>3. Silent /\ comments' = comments /\ Asks(WatchKinds)
            BY <3>1 DEF Silent, WatchMoves
        <3>4. /\ \A n \in Nat : Sent(n)' => Sent(n)
              /\ Bodies' = Bodies
            BY <3>3, SilentSends
        <3>5. DraftNeverLost'
            BY <3>1, <3>4 DEF WritingInv, DraftNeverLost
        <3>6. WritingNumbered'
            BY <1>1, <3>1, <3>2, <3>4 DEF WritingInv, WritingNumbered
        <3>7. \A n \in dismissed' : ~Sent(n)' /\ n # watch'.draft /\ n # watch'.pending
            BY <3>1, <3>2, <3>4, WritingTypes DEF WritingInv
        <3>8. watch'.pending # 0 => ~Sent(watch.pending)' /\ watch'.pending # watch'.draft
            BY <3>2, <3>4, WritingTypes DEF WritingInv
        <3> QED
            BY <3>1, <3>2, <3>5, <3>6, <3>7, <3>8 DEF WritingInv
    <2> QED
        BY <2>2, <2>3
<1>5. CASE Listed
    <2>1. typed' = typed /\ dismissed' = dismissed /\ Silent
        BY <1>5 DEF Listed, Silent
    <2>2. watch'.draft = watch.draft /\ watch'.pending = watch.pending
        BY <1>1, <1>5 DEF Listed, WatchType
    <2> QED
        BY <2>1, <2>2, WritingQuiet
<1>6. CASE Posted
    <2>1. typed' = typed /\ dismissed' = dismissed /\ Silent /\ jobs' = jobs
        BY <1>6 DEF Posted, Silent
    <2>2. CASE ~answers["post"].ok
        <3>1. watch'.draft = watch.draft /\ watch'.pending = watch.pending
            BY <1>1, <1>6, <2>2 DEF Posted, WatchType
        <3> QED
            BY <2>1, <3>1, WritingQuiet
    <2>3. CASE answers["post"].ok
        <3>1. /\ watch'.draft = 0 /\ watch'.pending = watch.pending
              /\ answers["post"] # None /\ answers' = Heard(answers, "post")
            BY <1>1, <1>6, <2>3 DEF Posted, WatchType
        <3>2. comments' = comments /\ Asks(WatchKinds)
            BY DEF WatchMoves
        <3>3. /\ \A n \in Nat : Sent(n)' => Sent(n)
              /\ Bodies' = Bodies
            BY <2>1, <3>2, SilentSends
        <3>4. watch.draft \in {0} \cup Bodies
            BY <2>3, <3>1 DEF WritingInv
        <3>5. DraftNeverLost'
            BY <2>1, <3>3, <3>4 DEF WritingInv, DraftNeverLost
        <3>6. WritingNumbered'
            BY <1>1, <2>1, <3>1, <3>3 DEF WritingInv, WritingNumbered
        <3>7. \A n \in dismissed' : ~Sent(n)' /\ n # watch'.draft /\ n # watch'.pending
            BY <2>1, <3>1, <3>3, WritingTypes DEF WritingInv
        <3>8. watch'.pending # 0 => ~Sent(watch.pending)' /\ watch'.pending # watch'.draft
            BY <3>1, <3>3, WritingTypes DEF WritingInv
        <3> QED
            BY <2>1, <3>1, <3>5, <3>6, <3>7, <3>8 DEF WritingInv
    <2> QED
        BY <2>2, <2>3
<1>7. CASE Reacted
    BY <1>7, WritingQuiet DEF Reacted, Silent
<1>8. CASE FormSaved
    <2>1. typed' = typed /\ dismissed' = dismissed
        BY <1>8 DEF FormSaved
    <2>2. watch'.draft = watch.draft /\ watch'.pending = watch.pending
        BY <1>1, <1>8 DEF FormSaved, WatchType
    <2>3. Silent
        <3>1. jobs' = jobs \/ jobs' = With(jobs, "reload", None)
            BY <1>8 DEF FormSaved
        <3> QED
            BY <3>1, SilentAsk, PageKinds, KindsDiffer DEF Silent
    <2> QED
        BY <2>1, <2>2, <2>3, WritingQuiet
<1>9. ASSUME NEW f \in Chapter \cup Segment, Edited(f)
      PROVE  WritingInv'
    <2>1. typed' = typed /\ dismissed' = dismissed /\ Silent
        BY <1>9 DEF Edited, Silent
    <2>2. watch'.draft = watch.draft /\ watch'.pending = watch.pending
        BY <1>1, <1>9 DEF Edited, PartName, WatchType
    <2> QED
        BY <2>1, <2>2, WritingQuiet
<1> QED
    BY <1>2, <1>3, <1>4, <1>5, <1>6, <1>7, <1>8, <1>9 DEF WatchAnswered

\* A comment or a reaction is sent.
LEMMA WritingSends ==
    ASSUME TypedInv, NEW k \in {"post", "react"}, NEW text \in Nat, NEW who \in People,
           jobs' = Post(jobs, k, text, who), comments' = comments
    PROVE  /\ \A n \in Nat : Sent(n)' => Sent(n) \/ n = text
           /\ Bodies' = Bodies
           /\ jobs'[k].arg.body = text /\ \A l \in {"post", "react"} \ {k} : jobs'[l] = jobs[l]
<1>1. [body |-> text, by |-> who] \in Posting
    BY DEF Posting
<1>2. /\ k \in Kinds /\ k \in Slots /\ ArgFits(k, [body |-> text, by |-> who]) /\ Jobs(jobs)
      /\ "post" \in Slots /\ "react" \in Slots
    BY <1>1, WritingTypes, PageKinds
<1>3. jobs' = With(jobs, k, [body |-> text, by |-> who])
    BY DEF Post
<1>4. /\ jobs'[k] = Asked(k, [body |-> text, by |-> who])
      /\ \A s \in Slots : s # k => jobs'[s] = jobs[s]
    BY <1>2, <1>3, AskedOne
<1>5. jobs'[k].arg.body = text
    BY <1>4 DEF Asked
<1>6. Bodies' = Bodies
    BY DEF Bodies
<1>7. ASSUME NEW n \in Nat, Sent(n)'
      PROVE  Sent(n) \/ n = text
    BY <1>4, <1>5, <1>6, <1>7 DEF Sent, Commenting
<1> QED
    BY <1>2, <1>4, <1>5, <1>6, <1>7

LEMMA WritingEnded ==
    ASSUME TypedInv, WritingInv, WatchMoves, WatchEnd, inputs' = inputs
    PROVE  WritingInv'
<1>1. /\ watch \in WatchType /\ Jobs(jobs) /\ dismissed \subseteq Nat /\ watch.draft \in Nat /\ watch.pending \in Nat
      /\ typed \subseteq Nat /\ inputs \in Nat
    BY WritingTypes
<1>2. comments' = comments /\ watch'.view # "closed" /\ Asks(WatchKinds)
    BY DEF WatchMoves
<1>3. CASE Dismiss
    <2>1. /\ typed' = typed /\ jobs' = jobs /\ answers' = answers
          /\ dismissed' = dismissed \cup ({watch.pending} \ {0})
        BY <1>3 DEF Dismiss
    <2>2. watch'.draft = watch.draft /\ watch'.pending = 0
        BY <1>1, <1>3 DEF Dismiss, Close, WatchType
    <2>3. /\ \A n \in Nat : Sent(n)' => Sent(n)
          /\ Bodies' = Bodies
        BY <1>2, <2>1, SilentSends DEF Silent
    <2>4. DraftNeverLost'
        BY <2>1, <2>2, <2>3 DEF WritingInv, DraftNeverLost
    <2>5. WritingNumbered'
        BY <1>1, <2>1, <2>2, <2>3 DEF WritingInv, WritingNumbered
    <2>6. ASSUME NEW n \in dismissed'
          PROVE  ~Sent(n)' /\ n # watch'.draft /\ n # watch'.pending
        BY <1>1, <2>1, <2>2, <2>3 DEF WritingInv
    <2> QED
        BY <1>2, <2>1, <2>2, <2>3, <2>4, <2>5, <2>6 DEF WritingInv
<1>4. CASE CloseForm
    <2>1. watch'.draft = watch.draft /\ watch'.pending = watch.pending
        BY <1>1, <1>4 DEF CloseForm, WatchType
    <2> QED
        BY <1>4, <2>1, WritingQuiet DEF CloseForm, Silent
<1>5. ASSUME NEW who \in People, Confirm(who)
      PROVE  WritingInv'
    <2>1. /\ typed' = typed /\ dismissed' = dismissed /\ answers' = answers
          /\ jobs' = IF watch.pending # 0 THEN Post(jobs, "react", watch.pending, who) ELSE jobs
        BY <1>5 DEF Confirm
    <2>2. watch'.draft = watch.draft /\ watch'.pending = 0
        BY <1>1, <1>5 DEF Confirm, WatchType
    <2>3. /\ \A n \in Nat : Sent(n)' => Sent(n) \/ (n = watch.pending /\ n # 0)
          /\ Bodies' = Bodies /\ jobs'["post"] = jobs["post"]
        <3>1. CASE watch.pending # 0
            BY <1>1, <1>2, <2>1, <3>1, WritingSends
        <3>2. CASE watch.pending = 0
            BY <1>2, <2>1, <3>2, SilentSends DEF Silent
        <3> QED
            BY <3>1, <3>2
    <2>4. DraftNeverLost'
        BY <2>1, <2>2, <2>3 DEF WritingInv, DraftNeverLost
    <2>5. WritingNumbered'
        BY <1>1, <2>1, <2>2, <2>3 DEF WritingInv, WritingNumbered
    <2>6. ASSUME NEW n \in dismissed'
          PROVE  ~Sent(n)' /\ n # watch'.draft /\ n # watch'.pending
        BY <1>1, <2>1, <2>2, <2>3 DEF WritingInv
    <2> QED
        BY <1>2, <2>1, <2>2, <2>3, <2>4, <2>5, <2>6 DEF WritingInv
<1> QED
    BY <1>3, <1>4, <1>5 DEF WatchEnd

LEMMA WritingReacts ==
    ASSUME TypedInv, WritingInv, WatchMoves, inputs' = inputs + 1, React(inputs')
    PROVE  WritingInv'
<1>1. /\ watch \in WatchType /\ dismissed \subseteq Nat /\ watch.draft \in Nat /\ watch.pending \in Nat
      /\ typed \subseteq Nat /\ inputs \in Nat
    BY WritingTypes
<1>2. comments' = comments /\ watch'.view # "closed" /\ Asks(WatchKinds)
    BY DEF WatchMoves
<1>3. typed' = typed /\ dismissed' = dismissed /\ answers' = answers
    BY DEF React
<1>4. CASE watch.saved # None
    <2>1. watch.saved \in People /\ jobs' = Post(jobs, "react", inputs', watch.saved)
        BY <1>1, <1>4 DEF React, WatchType
    <2>2. watch'.draft = watch.draft /\ watch'.pending = watch.pending
        BY <1>1, <1>4 DEF React, WatchType
    <2>3. /\ \A n \in Nat : Sent(n)' => Sent(n) \/ n = inputs + 1
          /\ Bodies' = Bodies /\ jobs'["post"] = jobs["post"]
        <3>1. inputs' = inputs + 1 /\ inputs' \in Nat
            BY <1>1
        <3> QED
            BY <1>2, <2>1, <3>1, WritingSends
    <2>4. DraftNeverLost'
        BY <1>3, <2>2, <2>3 DEF WritingInv, DraftNeverLost
    <2>5. WritingNumbered'
        BY <1>1, <1>3, <2>2, <2>3 DEF WritingInv, WritingNumbered
    <2>6. ASSUME NEW n \in dismissed'
          PROVE  ~Sent(n)' /\ n # watch'.draft /\ n # watch'.pending
        <3>1. n \in Nat /\ n <= inputs /\ ~Sent(n) /\ n # watch.draft /\ n # watch.pending
            BY <1>1, <1>3, <2>6 DEF WritingInv, WritingNumbered
        <3> QED
            BY <1>1, <2>2, <2>3, <3>1
    <2>7. watch'.pending # 0 => ~Sent(watch.pending)' /\ watch'.pending # watch'.draft
        BY <1>1, <2>2, <2>3 DEF WritingInv, WritingNumbered
    <2> QED
        BY <1>2, <1>3, <2>2, <2>3, <2>4, <2>5, <2>6, <2>7 DEF WritingInv
<1>5. CASE watch.saved = None
    <2>1. jobs' = jobs /\ watch'.draft = watch.draft /\ watch'.pending = inputs + 1
        BY <1>1, <1>5 DEF React, WatchType
    <2>2. /\ \A n \in Nat : Sent(n)' => Sent(n)
          /\ Bodies' = Bodies
        BY <1>2, <2>1, SilentSends DEF Silent
    <2>3. ~Sent(inputs + 1)
        BY <1>1 DEF WritingInv, WritingNumbered
    <2>4. DraftNeverLost'
        BY <1>3, <2>1, <2>2 DEF WritingInv, DraftNeverLost
    <2>5. WritingNumbered'
        BY <1>1, <1>3, <2>1, <2>2 DEF WritingInv, WritingNumbered
    <2>6. ASSUME NEW n \in dismissed'
          PROVE  ~Sent(n)' /\ n # watch'.draft /\ n # watch'.pending
        <3>1. n \in Nat /\ n <= inputs /\ ~Sent(n) /\ n # watch.draft
            BY <1>1, <1>3, <2>6 DEF WritingInv, WritingNumbered
        <3> QED
            BY <1>1, <2>1, <2>2, <3>1
    <2>7. ~Sent(watch.pending)' /\ watch'.pending # watch'.draft
        <3>1. watch.draft <= inputs
            BY DEF WritingInv, WritingNumbered
        <3>2. ~(inputs + 1 \in Bodies') /\ ~\E s \in Slots : Commenting(s)' /\ jobs'[s].arg.body = inputs + 1
            BY <2>1, <2>2, <2>3 DEF Sent, Commenting
        <3> QED
            BY <1>1, <2>1, <3>1, <3>2 DEF Sent
    <2> QED
        BY <1>2, <1>3, <2>1, <2>2, <2>4, <2>5, <2>6, <2>7 DEF WritingInv
<1> QED
    BY <1>4, <1>5

LEMMA WritingDrafts ==
    ASSUME TypedInv, WritingInv, WatchMoves, inputs' = inputs + 1, Focus(inputs') \/ Submit
    PROVE  WritingInv'
<1>1. /\ watch \in WatchType /\ dismissed \subseteq Nat /\ watch.draft \in Nat /\ watch.pending \in Nat
      /\ typed \subseteq Nat /\ inputs \in Nat
    BY WritingTypes
<1>2. comments' = comments /\ watch'.view # "closed" /\ Asks(WatchKinds)
    BY DEF WatchMoves
<1>3. CASE watch.identity = None
    <2>1. watch'.draft = watch.draft /\ watch'.pending = watch.pending
        BY <1>1, <1>3 DEF Focus, Submit, WatchType
    <2> QED
        BY <1>3, <2>1, WritingQuiet DEF Focus, Submit, Silent
<1>4. CASE Focus(inputs') /\ watch.identity # None
    <2>1. /\ typed' = typed \cup {inputs + 1} /\ dismissed' = dismissed /\ answers' = answers /\ jobs' = jobs
          /\ watch.draft = 0 /\ jobs["post"] = None /\ answers["post"] = None
        BY <1>4 DEF Focus, Waiting
    <2>2. watch'.draft = inputs + 1 /\ watch'.pending = watch.pending
        BY <1>1, <1>4 DEF Focus, WatchType
    <2>3. /\ \A n \in Nat : Sent(n)' => Sent(n)
          /\ Bodies' = Bodies
        BY <1>2, <2>1, SilentSends DEF Silent
    <2>4. DraftNeverLost'
        BY <2>1, <2>2, <2>3 DEF WritingInv, DraftNeverLost
    <2>5. WritingNumbered'
        BY <1>1, <2>1, <2>2, <2>3 DEF WritingInv, WritingNumbered
    <2>6. ASSUME NEW n \in dismissed'
          PROVE  ~Sent(n)' /\ n # watch'.draft /\ n # watch'.pending
        <3>1. n \in Nat /\ n <= inputs /\ ~Sent(n) /\ n # watch.pending
            BY <1>1, <2>1, <2>6 DEF WritingInv, WritingNumbered
        <3> QED
            BY <1>1, <2>2, <2>3, <3>1
    <2>7. watch'.pending # 0 => ~Sent(watch.pending)' /\ watch'.pending # watch'.draft
        BY <1>1, <2>2, <2>3 DEF WritingInv, WritingNumbered
    <2> QED
        BY <1>1, <1>2, <2>1, <2>2, <2>3, <2>4, <2>5, <2>6, <2>7 DEF WritingInv
<1>5. CASE Submit /\ watch.identity # None
    <2>1. /\ typed' = typed /\ dismissed' = dismissed /\ answers' = answers
          /\ jobs' = Post(jobs, "post", watch.draft, watch.identity)
          /\ watch.draft # 0 /\ answers["post"] = None
        BY <1>5 DEF Submit, Waiting
    <2>2. watch'.draft = watch.draft /\ watch'.pending = watch.pending /\ watch.identity \in People
        BY <1>1, <1>5 DEF Submit, Submitted, WatchType
    <2>3. /\ \A n \in Nat : Sent(n)' => Sent(n) \/ n = watch.draft
          /\ Bodies' = Bodies /\ jobs'["post"].arg.body = watch.draft
        BY <1>1, <1>2, <2>1, <2>2, WritingSends
    <2>4. DraftNeverLost'
        BY <2>1, <2>2, <2>3 DEF WritingInv, DraftNeverLost
    <2>5. WritingNumbered'
        BY <1>1, <2>1, <2>2, <2>3 DEF WritingInv, WritingNumbered
    <2>6. ASSUME NEW n \in dismissed'
          PROVE  ~Sent(n)' /\ n # watch'.draft /\ n # watch'.pending
        <3>1. n \in Nat /\ ~Sent(n) /\ n # watch.draft /\ n # watch.pending
            BY <1>1, <2>1, <2>6 DEF WritingInv
        <3> QED
            BY <1>1, <2>2, <2>3, <3>1
    <2>7. watch'.pending # 0 => ~Sent(watch.pending)' /\ watch'.pending # watch'.draft
        BY <1>1, <2>2, <2>3 DEF WritingInv
    <2> QED
        BY <1>2, <2>1, <2>2, <2>3, <2>4, <2>5, <2>6, <2>7 DEF WritingInv
<1> QED
    BY <1>3, <1>4, <1>5

LEMMA WritingInput ==
    ASSUME TypedInv, WritingInv, WatchMoves, inputs' = inputs + 1, WatchInput(inputs')
    PROVE  WritingInv'
<1>1. watch \in WatchType /\ "list" \in Kinds /\ "settings" \in Kinds
    BY WritingTypes, PageKinds, KindsDiffer
<1>2. CASE ReadAgain
    <2>1. Silent
        BY <1>1, <1>2, SilentAsk, PageKinds DEF ReadAgain
    <2> QED
        BY <1>2, <2>1, WritingQuiet DEF ReadAgain
<1>3. CASE Forget \/ ForgotElsewhere \/ OpenForm
    <2>1. watch'.draft = watch.draft /\ watch'.pending = watch.pending
        BY <1>1, <1>3 DEF Forget, ForgotElsewhere, OpenForm, WatchType
    <2> QED
        BY <1>3, <2>1, WritingQuiet DEF Forget, ForgotElsewhere, OpenForm, Silent
<1>4. ASSUME NEW s \in SUBSET {"comments"}, SaveForm(s)
      PROVE  WritingInv'
    <2>1. Silent
        BY <1>1, <1>4, SilentAsk, PageKinds DEF SaveForm, Sections
    <2> QED
        BY <1>4, <2>1, WritingQuiet DEF SaveForm
<1>5. ASSUME NEW f \in Chapter \cup Segment, NEW n, SaveEdit(f, n)
      PROVE  WritingInv'
    <2>1. f \in Kinds /\ f # "post" /\ f # "react" /\ "post" \in Slots /\ "react" \in Slots /\ Jobs(jobs)
        BY WritingTypes, PageKinds, KindsDiffer
    <2>2. watch' = watch /\ typed' = typed /\ dismissed' = dismissed /\ answers' = answers
        BY <1>5 DEF SaveEdit, WhileSaved
    <2>3. PICK all : jobs' = [jobs EXCEPT ![f] = [kind |-> f, pc |-> "sent", arg |-> all, old |-> 0]]
        BY <1>5 DEF SaveEdit, With
    <2>4. Silent
        BY <2>1, <2>3 DEF Silent, Jobs
    <2> QED
        BY <2>2, <2>4, WritingQuiet
<1> QED
    BY <1>2, <1>3, <1>4, <1>5, WritingReacts, WritingDrafts DEF WatchInput

LEMMA WritingManaged ==
    ASSUME TypedInv, WritingInv, Managing
    PROVE  WritingInv'
<1>1. /\ DetailMoves /\ UNCHANGED <<watch, typed, dismissed>> /\ inputs' \in {inputs, inputs + 1}
    BY ManagingMoves
<1>2. "post" \notin DetailKinds /\ "react" \notin DetailKinds
    BY DEF DetailKinds
<1>3. Silent /\ comments' = comments /\ Asks(DetailKinds)
    BY <1>1, <1>2, WritingTypes DEF DetailMoves, Asks, Silent
<1>4. /\ \A n \in Nat : Sent(n)' => Sent(n)
      /\ Bodies' = Bodies
    BY <1>3, SilentSends
<1>5. answers'["post"] = answers["post"]
    BY <1>1, <1>2, WritingTypes DEF DetailMoves, Hears
<1> QED
    BY <1>1, <1>3, <1>4, <1>5, WritingSame DEF Silent

\* Nothing of the video's page or its API changes.
LEMMA WritingApart ==
    ASSUME TypedInv, WritingInv, inputs' \in {inputs, inputs + 1},
           UNCHANGED <<comments, jobs, answers, watch, typed, dismissed>>
    PROVE  WritingInv'
<1>1. \A n : Sent(n)' <=> Sent(n)
    BY DEF Sent, Bodies, Commenting
<1>2. Bodies' = Bodies
    BY DEF Bodies
<1> QED
    BY <1>1, <1>2, WritingSame

LEMMA WritingKept ==
    ASSUME TypedInv, WritingInv, [Next]_vars
    PROVE  WritingInv'
<1>1. CASE Api
    BY <1>1, WritingServed
<1>2. CASE Watching
    <2>1. WatchMoves
        BY <1>2, WatchingMoves
    <2>2. CASE (WatchAnswered \/ WatchEnd) /\ UNCHANGED inputs
        BY <2>1, <2>2, WritingAnswered, WritingEnded
    <2>3. CASE Input /\ WatchInput(inputs')
        BY <2>1, <2>3, WritingInput DEF Input
    <2> QED
        BY <1>2, <2>2, <2>3 DEF Watching
<1>3. CASE Managing
    BY <1>3, WritingManaged
<1>4. CASE Setting
    BY <1>4, WritingApart DEF Setting, Input
<1>5. CASE UNCHANGED vars
    BY <1>5, WritingApart DEF vars, api
<1> QED
    BY <1>1, <1>2, <1>3, <1>4, <1>5 DEF Next

LEMMA InitWriting == Init => WritingInv
<1> SUFFICES ASSUME Init PROVE WritingInv
    OBVIOUS
<1>1. PICK sent, status : \E w, d, p \in BOOLEAN : Opening(sent, status, w, d, p)
    BY Opens
<1>2. PICK w \in BOOLEAN, d \in BOOLEAN, p \in BOOLEAN : Opening(sent, status, w, d, p)
    BY <1>1
<1>3. inputs = 0 /\ typed = {} /\ dismissed = {}
    BY Opens
<1>4. watch.draft = 0 /\ watch.pending = 0
    BY <1>2, <1>3, WatchOpened DEF Opening
<1>5. /\ comments = {} /\ \A k \in Kinds : answers[k] = None
      /\ \A s \in Slots : jobs[s] # None => jobs[s].kind = s /\ s \in {"load", "asset"}
    BY <1>2, ApiOpened DEF Opening
<1>6. \A n : ~Sent(n)
    BY <1>5 DEF Sent, Bodies, Commenting
<1>7. TypedInv
    BY InitTyped
<1>8. jobs["post"] = None /\ answers["post"] = None
    BY <1>5, <1>7, WritingTypes
<1> QED
    BY <1>3, <1>4, <1>6, <1>8 DEF WritingInv, WritingNumbered, DraftNeverLost

-----------------------------------------------------------------------------
(* Titles and transcripts.                                                  *)

Parts == {"chapters", "transcript"}
Getter(part) == IF part = "chapters" THEN "getChapters" ELSE "getTranscript"
LeftEdit(part) == jobs["abandoned"] # None /\ jobs["abandoned"].kind \in Edits(part)
Idle(part) == (\A f \in Edits(part) : ~Waiting(f)) /\ ~LeftEdit(part)

\* An edit that is stored and the page has not heard of.
PutAlready(f) == f \in Segment /\ jobs[f] # None /\ jobs[f].pc = "put"
Accepted(k) == answers[k] # None /\ answers[k].ok

\* A part is read once, before the first edit of it.
ReadOnce(part) ==
    /\ Waiting(Getter(part)) => watch[part] = None
    /\ jobs[Getter(part)] = None \/ answers[Getter(part)] = None
    /\ Accepted(Getter(part)) => answers[Getter(part)].body = tracks[part]
    /\ watch[part] = None => Idle(part)
    /\ watch.view = "loading" => watch[part] = None /\ ~Waiting(Getter(part))

\* Unless the part is in doubt, one edit of it is on its way, and what is
\* stored is what the page shows or what that edit brought.
EditedOnce(part) ==
    /\ \A f \in Edits(part) : jobs[f] = None \/ answers[f] = None
    /\ part \notin torn =>
          /\ \A f, g \in Edits(part) : Waiting(f) /\ Waiting(g) => f = g
          /\ ~LeftEdit(part)
          /\ \A f \in Edits(part) : /\ PutAlready(f) => jobs[f].arg = tracks[part]
                                    /\ Accepted(f) => answers[f].body = tracks[part]
          /\ \/ watch[part] \in {tracks[part], None}
             \/ \E f \in Edits(part) : PutAlready(f) \/ Accepted(f)

PartInv(part) == ReadOnce(part) /\ EditedOnce(part)
LoadOnce ==
    Waiting("load") => watch.view = "loading" /\ (jobs["load"] = None \/ answers["load"] = None)
EditInv == LoadOnce /\ \A part \in Parts : PartInv(part)

LEMMA EditTypes ==
    ASSUME TypedInv
    PROVE  /\ ApiTyped /\ Jobs(jobs) /\ Answers(answers) /\ watch \in WatchType
           /\ tracks \in [chapters : Titles, transcript : Texts, subtitles : Texts]
           /\ torn \subseteq {"chapters", "transcript", "thumbnail"}
           /\ "load" \in FixedKinds /\ "load" \in Kinds
<1>1. "load" \in FixedKinds /\ "load" \in Kinds
    BY PageKinds, KindsDiffer
<1> QED
    BY <1>1 DEF TypedInv, Typed, WatchTyped, ApiTyped, StoredTyped

LEMMA EditKinds ==
    /\ Edits("chapters") \cap Edits("transcript") = {}
    /\ \A part \in Parts : /\ Edits(part) \subseteq Kinds /\ Edits(part) \subseteq Writes
                           /\ "abandoned" \notin Edits(part)
                           /\ Getter(part) \in Kinds /\ Getter(part) \in Reads
                           /\ Getter(part) \notin Writes
                           /\ \A f \in Edits(part) : f \notin FixedKinds /\ f # Getter(part)
                                                     /\ PartName(f) = part /\ PartOf(f) = {part}
    /\ Edits("chapters") = Chapter /\ Edits("transcript") = Segment
    /\ Getter("chapters") = "getChapters" /\ Getter("transcript") = "getTranscript"
    /\ \A k \in FixedKinds, part \in Parts : k \notin Edits(part)
<1>1. Edits("chapters") = Chapter /\ Edits("transcript") = Segment
    BY DEF Edits
<1>2. Getter("chapters") = "getChapters" /\ Getter("transcript") = "getTranscript"
    BY DEF Getter
<1>3. Chapter \subseteq Writes /\ Segment \subseteq Writes
    BY DEF Writes
<1>4. /\ "getChapters" \in Reads /\ "getTranscript" \in Reads
      /\ "getChapters" \notin Writes /\ "getTranscript" \notin Writes
    <2>1. "getChapters" \in Reads /\ "getTranscript" \in Reads
        BY DEF Reads, Files
    <2> QED
        BY <2>1, KindsDiffer DEF Writes
<1>5. ASSUME NEW f \in Chapter
      PROVE  PartName(f) = "chapters" /\ PartOf(f) = {"chapters"}
    <2>1. f \notin Segment /\ f \notin Thumbs \cup {"delete"}
        BY <1>5, KindsDiffer, PageKinds DEF Thumbs
    <2> QED
        BY <1>5, <2>1 DEF PartName, PartOf
<1>6. ASSUME NEW f \in Segment
      PROVE  PartName(f) = "transcript" /\ PartOf(f) = {"transcript"}
    <2>1. f \notin Chapter /\ f \notin Thumbs \cup {"delete"}
        BY <1>6, KindsDiffer, PageKinds DEF Thumbs
    <2> QED
        BY <1>6, <2>1 DEF PartName, PartOf
<1>7. ASSUME NEW part \in Parts
      PROVE  /\ Edits(part) \subseteq Kinds /\ Edits(part) \subseteq Writes
             /\ "abandoned" \notin Edits(part)
             /\ Getter(part) \in Kinds /\ Getter(part) \in Reads
             /\ Getter(part) \notin Writes
             /\ \A f \in Edits(part) : f \notin FixedKinds /\ f # Getter(part)
                                       /\ PartName(f) = part /\ PartOf(f) = {part}
    <2>1. CASE part = "chapters"
        BY <1>1, <1>2, <1>3, <1>4, <1>5, <2>1, KindsDiffer
    <2>2. CASE part = "transcript"
        BY <1>1, <1>2, <1>3, <1>4, <1>6, <2>2, KindsDiffer
    <2> QED
        BY <2>1, <2>2 DEF Parts
<1> QED
    BY <1>1, <1>2, <1>7, KindsDiffer DEF Parts

PartSame(part) ==
    /\ watch'[part] = watch[part] /\ tracks'[part] = tracks[part]
    /\ watch'.view = "loading" => watch.view = "loading"
    /\ part \in torn => part \in torn'
    /\ jobs'[Getter(part)] = jobs[Getter(part)] /\ answers'[Getter(part)] = answers[Getter(part)]
    /\ \A f \in Edits(part) : jobs'[f] = jobs[f] /\ answers'[f] = answers[f]
    /\ LeftEdit(part)' => LeftEdit(part)

LEMMA PartFrame ==
    ASSUME NEW part \in Parts, PartInv(part), PartSame(part)
    PROVE  PartInv(part)'
<1>1. /\ Waiting(Getter(part))' <=> Waiting(Getter(part))
      /\ Accepted(Getter(part))' <=> Accepted(Getter(part))
      /\ \A f \in Edits(part) : /\ Waiting(f)' <=> Waiting(f)
                                /\ PutAlready(f)' <=> PutAlready(f)
                                /\ Accepted(f)' <=> Accepted(f)
    BY DEF PartSame, Waiting, Accepted, PutAlready
<1>2. Idle(part) => Idle(part)'
    BY <1>1 DEF Idle, PartSame
<1>3. ReadOnce(part)'
    BY <1>1, <1>2 DEF PartInv, ReadOnce, PartSame
<1>4. EditedOnce(part)'
    BY <1>1 DEF PartInv, EditedOnce, PartSame
<1> QED
    BY <1>3, <1>4 DEF PartInv

-----------------------------------------------------------------------------
(* The API.                                                                 *)

\* A handler goes on or ends; only one that writes goes on.
LEMMA HandlersGo ==
    ASSUME ApiTyped, NEW s \in Slots, Serve(s)
    PROVE  \/ \E ok, b : Ended(s, ok, b)
           \/ jobs[s].kind \in Writes /\ \E pc, old : Went(s, pc, old)
<1>1. {"delete", "thumb", "unthumb"} \cup Segment \subseteq Writes
    BY DEF Writes, Changes, Thumbs
<1>2. CASE Refuse(s) \/ Read(s) \/ Insert(s) \/ Update(s) \/ Queue(s)
    BY <1>2, Refused, HasRead, Inserted, Updated, Queued
<1>3. CASE DropRow(s) \/ PutChapters(s) \/ PutSubtitles(s) \/ SetThumb(s)
    BY <1>3, RowDropped, ChaptersPut, SubtitlesPut, ThumbSet
<1>4. CASE Look(s) \/ Purge(s) \/ PutTranscript(s) \/ PutThumb(s)
    BY <1>1, <1>4, Looked, Purged, TranscriptPut, ThumbPut
<1>5. CASE Clean(s)
    BY <1>1, <1>5, Cleaned
<1> QED
    BY <1>2, <1>3, <1>4, <1>5 DEF Serve

LEMMA LoadServed ==
    ASSUME TypedInv, LoadOnce, watch' = watch, jobs'["load"] = jobs["load"] \/ jobs'["load"] = None,
           \/ answers'["load"] = answers["load"]
           \/ jobs["load"] # None /\ jobs'["load"] = None
    PROVE  LoadOnce'
BY DEF LoadOnce, Waiting

\* A handler's work on something else, or its first steps.
LEMMA PartGoes ==
    ASSUME TypedInv, NEW part \in Parts, PartInv(part), NEW s \in Slots, NEW pc, NEW old,
           jobs[s] # None, Went(s, pc, old), watch' = watch, tracks'[part] = tracks[part], torn' = torn,
           s \in Edits(part) => pc # "put" /\ jobs[s].pc # "put"
    PROVE  PartInv(part)'
<1>1. /\ \A t \in Slots : t # s => jobs'[t] = jobs[t]
      /\ jobs'[s] # None /\ jobs'[s].kind = jobs[s].kind /\ jobs'[s].arg = jobs[s].arg
      /\ jobs'[s].pc = pc /\ answers' = answers
    BY DEF Went
<1>2. /\ \A t \in Slots : jobs'[t] = None <=> jobs[t] = None
      /\ \A k \in Kinds : Waiting(k)' <=> Waiting(k)
      /\ \A k \in Kinds : Accepted(k)' <=> Accepted(k)
    BY <1>1, KindsDiffer DEF Waiting, Accepted
<1>3. LeftEdit(part)' <=> LeftEdit(part)
    BY <1>1, KindsDiffer DEF LeftEdit
<1>4. \A f \in Edits(part) : /\ PutAlready(f)' <=> PutAlready(f)
                             /\ jobs[f] # None => jobs'[f].arg = jobs[f].arg
    BY <1>1, EditKinds, KindsDiffer DEF PutAlready
<1>5. ReadOnce(part)'
    <2>1. Idle(part)' <=> Idle(part)
        BY <1>2, <1>3, EditKinds DEF Idle
    <2> QED
        BY <1>1, <1>2, <2>1, EditKinds, KindsDiffer DEF PartInv, ReadOnce
<1>6. EditedOnce(part)'
    <2>1. \A f \in Edits(part) : jobs'[f] = None \/ answers'[f] = None
        BY <1>1, <1>2, EditKinds, KindsDiffer DEF PartInv, EditedOnce
    <2>2. \A f \in Edits(part) : f \in Kinds /\ f \in Slots
        BY EditKinds, KindsDiffer
    <2>3. CASE part \in torn
        BY <2>1, <2>3 DEF EditedOnce
    <2>4. CASE part \notin torn
        <3>1. \A f, g \in Edits(part) : Waiting(f)' /\ Waiting(g)' => f = g
            BY <1>2, <2>2, <2>4 DEF PartInv, EditedOnce
        <3>2. \A f \in Edits(part) : PutAlready(f)' => jobs'[f].arg = tracks'[part]
            BY <1>4, <2>4 DEF PartInv, EditedOnce, PutAlready
        <3>3. \A f \in Edits(part) : Accepted(f)' => answers'[f].body = tracks'[part]
            BY <1>1, <1>2, <2>2, <2>4 DEF PartInv, EditedOnce
        <3>4. \/ watch'[part] \in {tracks'[part], None}
              \/ \E f \in Edits(part) : PutAlready(f)' \/ Accepted(f)'
            BY <1>2, <1>4, <2>2, <2>4 DEF PartInv, EditedOnce
        <3> QED
            BY <1>3, <2>1, <2>4, <3>1, <3>2, <3>3, <3>4 DEF PartInv, EditedOnce
    <2> QED
        BY <2>3, <2>4
<1> QED
    BY <1>5, <1>6 DEF PartInv

\* A handler ends: of something else, of the read, or of an edit it refuses.
LEMMA PartEnds ==
    ASSUME TypedInv, NEW part \in Parts, PartInv(part), NEW s \in Slots, NEW ok, NEW b,
           jobs[s] # None, Ended(s, ok, b), watch' = watch, tracks'[part] = tracks[part],
           part \in torn => part \in torn', part \in torn' => part \in torn,
           s \in Edits(part) => ok = FALSE /\ jobs[s].pc # "put",
           s = Getter(part) /\ ok => b = tracks[part]
    PROVE  PartInv(part)'
<1>1. /\ jobs'[s] = None /\ \A t \in Slots : t # s => jobs'[t] = jobs[t]
      /\ \A k \in Kinds : k # s => answers'[k] = answers[k]
      /\ s # "abandoned" => answers'[s].ok = ok /\ answers'[s].body = b /\ answers'[s] # None
    BY DEF Ended
<1>2. \A k \in Kinds : /\ k \in Slots /\ k # "abandoned"
                       /\ Waiting(k)' <=> Waiting(k)
                       /\ jobs[k] = None => jobs'[k] = None /\ answers'[k] = answers[k]
                       /\ jobs'[k] # None => jobs'[k] = jobs[k] /\ answers'[k] = answers[k]
    BY <1>1, KindsDiffer DEF Waiting
<1>3. LeftEdit(part)' => LeftEdit(part)
    BY <1>1, KindsDiffer DEF LeftEdit
<1>4. \A f \in Edits(part) : /\ f \in Kinds
                             /\ PutAlready(f)' <=> PutAlready(f)
                             /\ jobs'[f] # None => jobs'[f] = jobs[f]
                             /\ Accepted(f)' => Accepted(f) /\ answers'[f] = answers[f]
                             /\ Accepted(f) /\ jobs[f] = None => Accepted(f)'
    BY <1>1, <1>2, EditKinds, KindsDiffer DEF PutAlready, Accepted
<1>5. ReadOnce(part)'
    <2>1. Idle(part) => Idle(part)'
        BY <1>2, <1>3, EditKinds DEF Idle
    <2>2. /\ Waiting(Getter(part))' <=> Waiting(Getter(part))
          /\ jobs'[Getter(part)] = None \/ answers'[Getter(part)] = None
        BY <1>1, <1>2, EditKinds DEF PartInv, ReadOnce
    <2>3. Accepted(Getter(part))' => answers'[Getter(part)].body = tracks[part]
        <3>1. CASE s = Getter(part)
            BY <1>1, <1>2, <3>1, EditKinds DEF Accepted
        <3>2. CASE s # Getter(part)
            BY <1>1, <3>2, EditKinds DEF Accepted, PartInv, ReadOnce
        <3> QED
            BY <3>1, <3>2
    <2> QED
        BY <2>1, <2>2, <2>3 DEF PartInv, ReadOnce
<1>6. EditedOnce(part)'
    <2>1. \A f \in Edits(part) : jobs'[f] = None \/ answers'[f] = None
        BY <1>2, <1>4 DEF PartInv, EditedOnce
    <2>3. CASE part \in torn
        BY <2>1, <2>3 DEF EditedOnce
    <2>4. CASE part \notin torn
        <3>1. \A f, g \in Edits(part) : Waiting(f)' /\ Waiting(g)' => f = g
            BY <1>2, <1>4, <2>4 DEF PartInv, EditedOnce
        <3>2. \A f \in Edits(part) : PutAlready(f)' => jobs'[f].arg = tracks'[part]
            BY <1>4, <2>4 DEF PartInv, EditedOnce, PutAlready
        <3>3. \A f \in Edits(part) : Accepted(f)' => answers'[f].body = tracks'[part]
            BY <1>4, <2>4 DEF PartInv, EditedOnce
        <3>4. \/ watch'[part] \in {tracks'[part], None}
              \/ \E f \in Edits(part) : PutAlready(f)' \/ Accepted(f)'
            <4>1. CASE watch[part] \in {tracks[part], None}
                BY <4>1
            <4>2. ASSUME NEW f \in Edits(part), PutAlready(f)
                  PROVE  PutAlready(f)'
                BY <1>4, <4>2
            <4>3. ASSUME NEW f \in Edits(part), Accepted(f)
                  PROVE  Accepted(f)'
                <5>1. jobs[f] = None
                    BY <4>3 DEF PartInv, EditedOnce, Accepted
                <5> QED
                    BY <1>4, <4>3, <5>1
            <4> QED
                BY <2>4, <4>1, <4>2, <4>3 DEF PartInv, EditedOnce
        <3> QED
            BY <1>3, <2>1, <2>4, <3>1, <3>2, <3>3, <3>4 DEF PartInv, EditedOnce
    <2> QED
        BY <2>3, <2>4
<1> QED
    BY <1>5, <1>6 DEF PartInv

\* An edit is stored.
LEMMA PartStored ==
    ASSUME TypedInv, NEW part \in Parts, PartInv(part), NEW s \in Slots, jobs[s] # None,
           jobs[s].kind \in Edits(part), watch' = watch, torn' = torn,
           part \notin torn => tracks'[part] = jobs[s].arg,
           \/ Ended(s, TRUE, jobs[s].arg)
           \/ part = "transcript" /\ Went(s, "put", jobs[s].old)
    PROVE  PartInv(part)'
<1>1. /\ s # "abandoned" => s \in Edits(part) /\ jobs[s].kind = s
      /\ s = "abandoned" => LeftEdit(part)
      /\ Getter(part) \in Kinds /\ Getter(part) # s
      /\ \A f \in Edits(part) : f \in Kinds /\ f \in Slots /\ f # "abandoned" /\ f # Getter(part)
    BY EditTypes, EditKinds, KindsDiffer, SlotIs DEF LeftEdit
<1>2. /\ \A t \in Slots : t # s => jobs'[t] = jobs[t]
      /\ \A k \in Kinds : k # s => answers'[k] = answers[k]
    BY DEF Ended, Went
<1>3. jobs'[Getter(part)] = jobs[Getter(part)] /\ answers'[Getter(part)] = answers[Getter(part)]
    BY <1>1, <1>2, KindsDiffer
<1>4. ~Idle(part)
    BY <1>1 DEF Idle, Waiting
<1>5. watch[part] # None /\ ~Waiting(Getter(part)) /\ watch.view # "loading"
    BY <1>4 DEF PartInv, ReadOnce
<1>6. ReadOnce(part)'
    BY <1>3, <1>5 DEF ReadOnce, Waiting, Accepted
<1>7. \A f \in Edits(part) : jobs'[f] = None \/ answers'[f] = None
    <2>1. ASSUME NEW f \in Edits(part), f # s
          PROVE  jobs'[f] = None \/ answers'[f] = None
        BY <1>1, <1>2, <2>1 DEF PartInv, EditedOnce
    <2>2. ASSUME s \in Edits(part)
          PROVE  jobs'[s] = None \/ answers'[s] = None
        <3>1. jobs[s] = None \/ answers[s] = None
            BY <2>2 DEF PartInv, EditedOnce
        <3> QED
            BY <3>1 DEF Ended, Went
    <2> QED
        BY <2>1, <2>2
<1>8. CASE part \in torn
    BY <1>6, <1>7, <1>8 DEF PartInv, EditedOnce
<1>9. CASE part \notin torn
    <2>1. s \in Edits(part) /\ s # "abandoned" /\ s \in Kinds
        BY <1>1, <1>9 DEF PartInv, EditedOnce
    <2>2. \A f \in Edits(part) : f # s => ~Waiting(f)
        BY <1>9, <2>1 DEF PartInv, EditedOnce, Waiting
    <2>3. \A f \in Edits(part) : f # s => jobs'[f] = None /\ answers'[f] = None
        BY <1>1, <1>2, <2>2 DEF Waiting
    <2>4. LeftEdit(part)' <=> LeftEdit(part)
        BY <1>2, <2>1, KindsDiffer DEF LeftEdit
    <2>5. ~LeftEdit(part)'
        BY <1>9, <2>4 DEF PartInv, EditedOnce
    <2>6. CASE Ended(s, TRUE, jobs[s].arg)
        <3>1. jobs'[s] = None /\ answers'[s] # None /\ answers'[s].ok /\ answers'[s].body = tracks'[part]
            BY <1>9, <2>1, <2>6 DEF Ended
        <3> QED
            BY <1>6, <1>7, <2>1, <2>3, <2>5, <3>1 DEF PartInv, EditedOnce, Waiting, PutAlready, Accepted
    <2>7. CASE part = "transcript" /\ Went(s, "put", jobs[s].old)
        <3>1. /\ jobs'[s] # None /\ jobs'[s].pc = "put" /\ jobs'[s].arg = tracks'[part]
              /\ answers' = answers /\ s \in Segment
            BY <1>9, <2>1, <2>7, EditKinds DEF Went
        <3>2. answers[s] = None
            BY <2>1 DEF PartInv, EditedOnce
        <3> QED
            BY <1>6, <1>7, <2>1, <2>3, <2>5, <3>1, <3>2 DEF PartInv, EditedOnce, Waiting, PutAlready, Accepted
    <2> QED
        BY <2>6, <2>7
<1> QED
    BY <1>8, <1>9

LEMMA PartServed ==
    ASSUME TypedInv, NEW part \in Parts, PartInv(part), NEW s \in Slots, Serve(s), watch' = watch
    PROVE  PartInv(part)'
<1>1. ApiTyped /\ jobs[s] # None
    BY EditTypes, ServedTyped
<1>2. /\ s \in Edits(part) => jobs[s].kind = s
      /\ s = Getter(part) => jobs[s].kind = s
      /\ Getter(part) \in Reads /\ Getter(part) \notin Writes /\ Reads \cap Edits(part) = {}
    BY <1>1, SlotIs, EditKinds, KindsDiffer
<1>3. ASSUME NEW ok, NEW b, Ended(s, ok, b), jobs[s].kind \in Writes \ Edits(part),
             tracks'[part] = tracks[part], torn' = torn \/ torn' = torn \ {"thumbnail"}
      PROVE  PartInv(part)'
    <2>1. part \in torn' <=> part \in torn
        BY <1>3 DEF Parts
    <2> QED
        BY <1>1, <1>2, <1>3, <2>1, PartEnds
<1>4. ASSUME NEW pc, NEW old, Went(s, pc, old), jobs[s].kind \in Writes \ Edits(part),
             tracks'[part] = tracks[part], torn' = torn
      PROVE  PartInv(part)'
    BY <1>1, <1>2, <1>4, PartGoes
<1>5. \A k \in Changes : k \in Writes \ Edits(part)
    BY EditKinds, KindsDiffer DEF Writes
<1>6. {"post", "react", "settings", "meta", "process", "delete", "thumb", "unthumb"} \subseteq Changes
    BY DEF Changes, Thumbs
<1>7. CASE Refuse(s)
    <2>1. Ended(s, FALSE, None) /\ jobs[s].pc = "sent" /\ tracks' = tracks /\ torn' = torn
        BY <1>1, <1>7, Refused
    <2> QED
        BY <1>1, <2>1, PartEnds
<1>8. CASE Read(s)
    <2>1. s \in Reads /\ tracks' = tracks /\ torn' = torn
        BY <1>1, <1>8, HasRead
    <2>2. PICK b : /\ Ended(s, TRUE, b)
                   /\ s = "getChapters" => b = tracks.chapters
                   /\ s = "getTranscript" => b = tracks.transcript
        BY <1>1, <1>8, HasRead
    <2>3. s = Getter(part) => b = tracks[part]
        BY <2>2 DEF Getter, Parts
    <2> QED
        BY <1>1, <1>2, <2>1, <2>2, <2>3, PartEnds
<1>9. CASE Look(s)
    <2>1. Went(s, "looked", row.thumb) /\ jobs[s].pc = "sent" /\ tracks' = tracks /\ torn' = torn
        BY <1>1, <1>9, Looked
    <2> QED
        BY <1>1, <2>1, PartGoes
<1>10. CASE Insert(s)
    BY <1>1, <1>3, <1>5, <1>6, <1>10, Inserted
<1>11. CASE Update(s)
    <2>1. jobs[s].kind \in {"meta", "settings"} /\ tracks' = tracks /\ torn' = torn
        BY <1>1, <1>11, Updated
    <2>2. PICK b : Ended(s, TRUE, b)
        BY <1>1, <1>11, Updated
    <2> QED
        BY <1>3, <1>5, <1>6, <2>1, <2>2
<1>12. CASE Queue(s)
    <2>1. jobs[s].kind = "process" /\ tracks' = tracks /\ torn' = torn
        BY <1>1, <1>12, Queued
    <2>2. Ended(s, TRUE, row'.ver) \/ Ended(s, FALSE, None)
        BY <1>1, <1>12, Queued
    <2> QED
        BY <1>3, <1>5, <1>6, <2>1, <2>2
<1>13. CASE Purge(s)
    BY <1>1, <1>4, <1>5, <1>6, <1>13, Purged
<1>14. CASE DropRow(s)
    BY <1>1, <1>3, <1>5, <1>6, <1>14, RowDropped
<1>15. CASE PutChapters(s)
    <2>1. /\ jobs[s].kind \in Chapter /\ Ended(s, TRUE, jobs[s].arg) /\ torn' = torn
          /\ tracks'.chapters = jobs[s].arg /\ tracks'.transcript = tracks.transcript
        BY <1>1, <1>15, ChaptersPut
    <2>2. CASE part = "chapters"
        BY <1>1, <2>1, <2>2, PartStored, EditKinds
    <2>3. CASE part = "transcript"
        <3>1. jobs[s].kind \in Writes \ Edits(part) /\ tracks'[part] = tracks[part]
            BY <2>1, <2>3, EditKinds, KindsDiffer DEF Writes
        <3> QED
            BY <1>3, <2>1, <3>1
    <2> QED
        BY <2>2, <2>3 DEF Parts
<1>16. CASE PutTranscript(s)
    <2>1. /\ jobs[s].kind \in Segment /\ Went(s, "put", jobs[s].old) /\ torn' = torn
          /\ tracks'.transcript = jobs[s].arg /\ tracks'.chapters = tracks.chapters
        BY <1>1, <1>16, TranscriptPut
    <2>2. CASE part = "transcript"
        BY <1>1, <2>1, <2>2, PartStored, EditKinds
    <2>3. CASE part = "chapters"
        BY <1>4, <2>1, <2>3, EditKinds, KindsDiffer DEF Writes
    <2> QED
        BY <2>2, <2>3 DEF Parts
<1>17. CASE PutSubtitles(s)
    <2>1. /\ jobs[s].kind \in Segment /\ jobs[s].pc = "put" /\ Ended(s, TRUE, jobs[s].arg) /\ torn' = torn
          /\ tracks'.transcript = tracks.transcript /\ tracks'.chapters = tracks.chapters
        BY <1>1, <1>17, SubtitlesPut
    <2>2. CASE part = "transcript"
        <3>1. part \notin torn => tracks'[part] = jobs[s].arg
            <4>1. CASE s = "abandoned"
                BY <1>1, <2>1, <2>2, <4>1, EditKinds DEF PartInv, EditedOnce, LeftEdit
            <4>2. CASE s # "abandoned"
                <5>1. s \in Segment
                    BY <1>1, <2>1, <4>2, SlotIs
                <5> QED
                    BY <1>1, <2>1, <2>2, <5>1, EditKinds DEF PartInv, EditedOnce, PutAlready
            <4> QED
                BY <4>1, <4>2
        <3> QED
            BY <1>1, <2>1, <2>2, <3>1, PartStored, EditKinds
    <2>3. CASE part = "chapters"
        <3>1. jobs[s].kind \in Writes \ Edits(part) /\ tracks'[part] = tracks[part]
            BY <2>1, <2>3, EditKinds, KindsDiffer DEF Writes
        <3> QED
            BY <1>3, <2>1, <3>1
    <2> QED
        BY <2>2, <2>3 DEF Parts
<1>18. CASE PutThumb(s)
    BY <1>1, <1>4, <1>5, <1>6, <1>18, ThumbPut
<1>19. CASE Clean(s)
    <2>1. jobs[s].kind \in {"thumb", "unthumb"} /\ tracks' = tracks /\ torn' = torn
        BY <1>1, <1>19, Cleaned
    <2>2. Went(s, "cleaned", jobs[s].old) \/ Ended(s, TRUE, row.ver)
        BY <1>1, <1>19, Cleaned
    <2> QED
        BY <1>3, <1>4, <1>5, <1>6, <2>1, <2>2
<1>20. CASE SetThumb(s)
    <2>1. /\ jobs[s].kind \in {"thumb", "unthumb"} /\ tracks' = tracks /\ torn' = torn \ {"thumbnail"}
          /\ Ended(s, TRUE, row'.ver)
        BY <1>1, <1>20, ThumbSet DEF Thumbs
    <2> QED
        BY <1>3, <1>5, <1>6, <2>1
<1> QED
    BY <1>7, <1>8, <1>9, <1>10, <1>11, <1>12, <1>13, <1>14, <1>15, <1>16, <1>17, <1>18, <1>19, <1>20 DEF Serve

\* A request of the page's is lost.
LEMMA PartLost ==
    ASSUME TypedInv, NEW part \in Parts, PartInv(part), NEW k \in Kinds, Lose(k), watch' = watch
    PROVE  PartInv(part)'
<1>1. /\ jobs[k] # None /\ jobs[k].pc = "sent" /\ jobs'[k] = None
      /\ \A s \in Slots : s # k => jobs'[s] = jobs[s]
      /\ answers'[k] = Failure /\ \A l \in Kinds : l # k => answers'[l] = answers[l]
      /\ tracks' = tracks /\ torn' = torn /\ Failure # None /\ ~Failure.ok
    BY EditTypes, Lost, FailureIs
<1>2. \A l \in Kinds : /\ l \in Slots /\ (Waiting(l)' <=> Waiting(l))
                       /\ Accepted(l)' => Accepted(l) /\ l # k /\ answers'[l] = answers[l]
                       /\ PutAlready(l)' <=> PutAlready(l)
    BY <1>1, KindsDiffer DEF Waiting, Accepted, PutAlready
<1>3. LeftEdit(part)' <=> LeftEdit(part)
    BY <1>1, KindsDiffer DEF LeftEdit
<1>4. \A f \in Edits(part) : f \in Kinds /\ f # "abandoned"
    BY EditKinds
<1>5. ReadOnce(part)'
    <2>1. Idle(part)' <=> Idle(part)
        BY <1>2, <1>3, <1>4 DEF Idle
    <2>2. Getter(part) \in Kinds
        BY EditKinds
    <2>3. jobs'[Getter(part)] = None \/ answers'[Getter(part)] = None
        BY <1>1, <1>2, <2>2 DEF PartInv, ReadOnce
    <2>4. Accepted(Getter(part))' => answers'[Getter(part)].body = tracks'[part]
        BY <1>1, <1>2, <2>2 DEF PartInv, ReadOnce
    <2> QED
        BY <1>1, <1>2, <2>1, <2>2, <2>3, <2>4 DEF PartInv, ReadOnce
<1>6. EditedOnce(part)'
    <2>1. \A f \in Edits(part) : jobs'[f] = None \/ answers'[f] = None
        BY <1>1, <1>2, <1>4 DEF PartInv, EditedOnce
    <2>2. CASE part \in torn
        BY <1>1, <2>1, <2>2 DEF EditedOnce
    <2>3. CASE part \notin torn
        <3>1. \A f, g \in Edits(part) : Waiting(f)' /\ Waiting(g)' => f = g
            BY <1>2, <1>4, <2>3 DEF PartInv, EditedOnce
        <3>2. \A f \in Edits(part) : PutAlready(f)' => jobs'[f].arg = tracks'[part]
            BY <1>1, <1>2, <1>4, <2>3 DEF PartInv, EditedOnce, PutAlready
        <3>3. \A f \in Edits(part) : Accepted(f)' => answers'[f].body = tracks'[part]
            BY <1>1, <1>2, <1>4, <2>3 DEF PartInv, EditedOnce
        <3>4. ASSUME NEW f \in Edits(part), PutAlready(f) \/ Accepted(f)
              PROVE  PutAlready(f)' \/ Accepted(f)'
            <4>1. f # k
                BY <1>1, <3>4 DEF PutAlready, Accepted, PartInv, EditedOnce
            <4> QED
                BY <1>1, <1>2, <1>4, <3>4, <4>1 DEF PutAlready, Accepted
        <3>5. \/ watch'[part] \in {tracks'[part], None}
              \/ \E f \in Edits(part) : PutAlready(f)' \/ Accepted(f)'
            BY <1>1, <2>3, <3>4 DEF PartInv, EditedOnce
        <3> QED
            BY <1>1, <1>3, <2>1, <2>3, <3>1, <3>2, <3>3, <3>5 DEF PartInv, EditedOnce
    <2> QED
        BY <2>2, <2>3
<1> QED
    BY <1>5, <1>6 DEF PartInv

\* The page gives up on a request whose handler goes on.
LEMMA PartGivenUp ==
    ASSUME TypedInv, NEW part \in Parts, PartInv(part), NEW k \in Kinds, GiveUp(k), watch' = watch
    PROVE  PartInv(part)'
<1>1. /\ jobs[k] # None /\ jobs["abandoned"] = None /\ jobs[k].kind \in Writes
      /\ jobs'[k] = None /\ jobs'["abandoned"] = jobs[k]
      /\ \A s \in Slots : s # k /\ s # "abandoned" => jobs'[s] = jobs[s]
      /\ answers'[k] = Failure /\ \A l \in Kinds : l # k => answers'[l] = answers[l]
      /\ tracks' = tracks /\ torn' = torn \cup (PartOf(k) \ {"thumbnail"}) /\ Failure # None /\ ~Failure.ok
    BY EditTypes, GivenUp, FailureIs
<1>2. jobs[k].kind = k /\ k \in Slots /\ k # "abandoned" /\ k # Getter(part)
    BY <1>1, EditTypes, SlotIs, EditKinds, KindsDiffer
<1>3. CASE k \notin Edits(part)
    <2>1. PartSame(part)
        BY <1>1, <1>2, <1>3, EditKinds, KindsDiffer DEF PartSame, LeftEdit
    <2>2. CASE part \in torn' => part \in torn
        BY <2>1, PartFrame
    <2> QED
        BY <2>1, PartFrame
<1>4. CASE k \in Edits(part)
    <2>1. part \in torn'
        BY <1>1, <1>4, EditKinds DEF Parts
    <2>2. Waiting(k)
        BY <1>1 DEF Waiting
    <2>3. watch[part] # None /\ watch.view # "loading" /\ ~Waiting(Getter(part))
        BY <1>4, <2>2 DEF PartInv, ReadOnce, Idle
    <2>4. ReadOnce(part)'
        <3>1. jobs'[Getter(part)] = jobs[Getter(part)] /\ answers'[Getter(part)] = answers[Getter(part)]
            BY <1>1, <1>2, EditKinds, KindsDiffer
        <3> QED
            BY <2>3, <3>1 DEF ReadOnce, Waiting, Accepted
    <2>5. \A f \in Edits(part) : jobs'[f] = None \/ answers'[f] = None
        <3>1. \A f \in Edits(part) : f \in Kinds /\ f \in Slots /\ f # "abandoned"
            BY EditKinds, KindsDiffer
        <3> QED
            BY <1>1, <3>1 DEF PartInv, EditedOnce
    <2> QED
        BY <2>1, <2>4, <2>5 DEF PartInv, EditedOnce
<1> QED
    BY <1>3, <1>4

\* The API's process dies.
LEMMA PartCrashed ==
    ASSUME TypedInv, NEW part \in Parts, PartInv(part), Crash, watch' = watch
    PROVE  PartInv(part)'
<1>1. /\ \A s \in Slots : jobs'[s] = None
      /\ \A k \in Kinds : answers'[k] = IF jobs[k] = None THEN answers[k] ELSE Failure
      /\ torn \subseteq torn' /\ tracks' = tracks /\ Failure # None /\ ~Failure.ok
    BY EditTypes, Crashed, FailureIs
<1>2. \A s \in Slots : jobs[s] # None /\ jobs[s].kind \in Segment /\ jobs[s].pc = "put"
                         => PartOf(jobs[s].kind) \subseteq torn'
    BY EditTypes, Crashed
<1>3. \A k \in Kinds : /\ k \in Slots /\ (Waiting(k)' <=> Waiting(k))
                       /\ jobs'[k] = None /\ ~PutAlready(k)'
                       /\ Accepted(k)' => Accepted(k) /\ answers'[k] = answers[k]
                       /\ Accepted(k) /\ jobs[k] = None => Accepted(k)'
    BY <1>1, KindsDiffer DEF Waiting, PutAlready, Accepted
<1>4. ~LeftEdit(part)'
    BY <1>1, KindsDiffer DEF LeftEdit
<1>5. Getter(part) \in Kinds /\ \A f \in Edits(part) : f \in Kinds
    BY EditKinds
<1>6. ReadOnce(part)'
    <2>1. Idle(part) => Idle(part)'
        BY <1>3, <1>4, <1>5 DEF Idle
    <2> QED
        BY <1>1, <1>3, <1>5, <2>1 DEF PartInv, ReadOnce
<1>7. CASE part \in torn'
    BY <1>3, <1>5, <1>6, <1>7 DEF PartInv, EditedOnce
<1>8. CASE part \notin torn'
    <2>1. part \notin torn
        BY <1>1, <1>8
    <2>2. \A f, g \in Edits(part) : Waiting(f)' /\ Waiting(g)' => f = g
        BY <1>3, <1>5, <2>1 DEF PartInv, EditedOnce
    <2>3. \A f \in Edits(part) : Accepted(f)' => answers'[f].body = tracks'[part]
        BY <1>1, <1>3, <1>5, <2>1 DEF PartInv, EditedOnce
    <2>4. \A f \in Edits(part) : ~PutAlready(f)
        <3> SUFFICES ASSUME NEW f \in Edits(part), PutAlready(f) PROVE FALSE
            OBVIOUS
        <3>1. jobs[f] # None /\ jobs[f].pc = "put" /\ f \in Segment /\ f \in Slots
            BY <1>3, <1>5 DEF PutAlready
        <3>2. jobs[f].kind = f
            BY <1>5, <3>1, EditTypes, SlotIs, KindsDiffer
        <3> QED
            BY <1>2, <1>8, <3>1, <3>2, EditKinds
    <2>5. ASSUME NEW f \in Edits(part), Accepted(f)
          PROVE  Accepted(f)'
        BY <1>3, <1>5, <2>5 DEF PartInv, EditedOnce, Accepted
    <2>6. \/ watch'[part] \in {tracks'[part], None}
          \/ \E f \in Edits(part) : PutAlready(f)' \/ Accepted(f)'
        BY <1>1, <2>1, <2>4, <2>5 DEF PartInv, EditedOnce
    <2> QED
        BY <1>3, <1>4, <1>5, <1>6, <2>2, <2>3, <2>6 DEF PartInv, EditedOnce
<1> QED
    BY <1>7, <1>8

LEMMA EditServed ==
    ASSUME TypedInv, EditInv, Api
    PROVE  EditInv'
<1>1. ApiTyped /\ ApiNext /\ watch' = watch /\ "load" \in Kinds /\ "load" \notin Writes
    BY EditTypes, PageKinds, KindsDiffer DEF Api, Writes, Reads
<1>2. CASE Worker
    <2>1. tracks' = tracks /\ jobs' = jobs /\ answers' = answers /\ torn' = torn
        BY <1>1, <1>2, Worked
    <2>2. \A part \in Parts : PartSame(part)
        BY <1>1, <2>1 DEF PartSame, LeftEdit
    <2> QED
        BY <1>1, <2>1, <2>2, PartFrame, LoadServed DEF EditInv
<1>3. CASE Crash
    <2>1. LoadOnce'
        <3>1. /\ jobs'["load"] = None
              /\ answers'["load"] = IF jobs["load"] = None THEN answers["load"] ELSE Failure
            BY <1>1, <1>3, Crashed, KindsDiffer
        <3> QED
            BY <1>1, <3>1, LoadServed DEF EditInv
    <2> QED
        BY <1>1, <1>3, <2>1, PartCrashed DEF EditInv
<1>4. ASSUME NEW s \in Slots, Serve(s)
      PROVE  EditInv'
    <2>1. LoadOnce'
        <3>1. /\ jobs[s] # None /\ \A t \in Slots : t # s => jobs'[t] = jobs[t]
            BY <1>1, <1>4, ServedTyped
        <3>2. CASE \E ok, b : Ended(s, ok, b)
            BY <1>1, <3>1, <3>2, LoadServed, KindsDiffer DEF Ended, EditInv
        <3>3. CASE jobs[s].kind \in Writes /\ \E pc, old : Went(s, pc, old)
            <4>2. s # "load"
                BY <1>1, <3>1, <3>3, SlotIs
            <4> QED
                BY <1>1, <3>1, <3>3, <4>2, LoadServed, KindsDiffer DEF Went, EditInv
        <3> QED
            BY <1>1, <1>4, <3>2, <3>3, HandlersGo
    <2> QED
        BY <1>1, <1>4, <2>1, PartServed DEF EditInv
<1>5. ASSUME NEW k \in Kinds, Lose(k)
      PROVE  EditInv'
    <2>1. /\ jobs[k] # None /\ jobs'[k] = None /\ \A s \in Slots : s # k => jobs'[s] = jobs[s]
          /\ \A l \in Kinds : l # k => answers'[l] = answers[l]
        BY <1>1, <1>5, Lost
    <2>2. LoadOnce'
        BY <1>1, <2>1, LoadServed, KindsDiffer DEF EditInv
    <2> QED
        BY <1>1, <1>5, <2>2, PartLost DEF EditInv
<1>6. ASSUME NEW k \in Kinds, GiveUp(k)
      PROVE  EditInv'
    <2>1. /\ jobs[k] # None /\ jobs'[k] = None /\ \A s \in Slots : s # k /\ s # "abandoned" => jobs'[s] = jobs[s]
          /\ \A l \in Kinds : l # k => answers'[l] = answers[l]
        BY <1>1, <1>6, GivenUp
    <2>2. LoadOnce'
        BY <1>1, <2>1, LoadServed, KindsDiffer DEF EditInv
    <2> QED
        BY <1>1, <1>6, <2>2, PartGivenUp DEF EditInv
<1> QED
    BY <1>1, <1>2, <1>3, <1>4, <1>5, <1>6 DEF ApiNext, AtWork

-----------------------------------------------------------------------------
(* The page.                                                                *)

LEMMA WithElse ==
    ASSUME NEW js, Jobs(js), NEW k, NEW b, NEW s \in Slots, s # k
    PROVE  With(js, k, b)[s] = js[s]
BY DEF With, Jobs

\* What has nothing to do with the titles and the transcript.
Beside == {"reload", "list", "post", "react", "settings"}

LEMMA EditQuiet ==
    ASSUME TypedInv, EditInv, WatchMoves, torn' = torn, watch'.view = watch.view,
           watch'.chapters = watch.chapters, watch'.transcript = watch.transcript,
           NEW k \in Beside, NEW b, NEW l \in Beside,
           jobs' = jobs \/ jobs' = With(jobs, k, b),
           answers' = answers \/ answers' = Heard(answers, l)
    PROVE  EditInv'
<1>1. Beside \subseteq FixedKinds /\ Beside \cap {"load", "getChapters", "getTranscript"} = {}
    BY PageKinds DEF Beside
<1>2. Jobs(jobs) /\ Answers(answers) /\ "abandoned" \notin Beside /\ "load" \in Kinds /\ l \in Kinds
    BY <1>1, EditTypes, KindsDiffer
<1>3. \A s \in Slots : s \notin Beside => jobs'[s] = jobs[s]
    BY <1>2, WithElse
<1>4. \A s \in Kinds : s \notin Beside => answers'[s] = answers[s]
    BY <1>2, HeardOne
<1>5. ASSUME NEW part \in Parts
      PROVE  PartSame(part)
    <2>1. Getter(part) \notin Beside /\ Getter(part) \in Kinds
        BY <1>1, EditKinds DEF Getter
    <2>2. \A f \in Edits(part) : f \notin Beside /\ f \in Kinds
        BY <1>1, EditKinds
    <2>3. watch'[part] = watch[part]
        BY DEF Parts
    <2> QED
        BY <1>2, <1>3, <1>4, <2>1, <2>2, <2>3, KindsDiffer DEF PartSame, WatchMoves, LeftEdit
<1>6. LoadOnce'
    BY <1>1, <1>2, <1>3, <1>4, KindsDiffer DEF EditInv, LoadOnce, Waiting
<1> QED
    BY <1>5, <1>6, PartFrame DEF EditInv

\* The page is there: its files are asked for.
LEMMA EditLoaded ==
    ASSUME TypedInv, EditInv, WatchMoves, Loaded, torn' = torn
    PROVE  EditInv'
<1>1. Jobs(jobs) /\ Answers(answers) /\ watch \in WatchType /\ "load" \in Kinds /\ "load" \in Slots
    BY EditTypes, KindsDiffer
<1>2. /\ watch.view = "loading" /\ jobs["load"] = None /\ answers["load"] # None
      /\ answers' = Heard(answers, "load") /\ tracks' = tracks
    BY DEF Loaded, EditInv, LoadOnce, Waiting, WatchMoves
<1>3. answers'["load"] = None /\ \A k \in Kinds : k # "load" => answers'[k] = answers[k]
    BY <1>1, <1>2, HeardOne
<1>4. /\ watch'.chapters = watch.chapters /\ watch'.transcript = watch.transcript
      /\ watch'.view \in {"ready", "error"}
    BY <1>1 DEF Loaded, WatchType
<1>5. \A s \in Slots : s \notin {"getChapters", "getTranscript", "list"} => jobs'[s] = jobs[s]
    <2> DEFINE a == With(jobs, "getChapters", None)
               b == With(a, "getTranscript", None)
               c == With(b, "list", None)
    <2>1. jobs' = jobs \/ jobs' = b \/ jobs' = c
        BY DEF Loaded
    <2>2. /\ "getChapters" \in Kinds /\ "getTranscript" \in Kinds
          /\ ArgFits("getChapters", None) /\ ArgFits("getTranscript", None)
        BY PageKinds, KindsDiffer
    <2>3. Jobs(a) /\ \A s \in Slots : s # "getChapters" => a[s] = jobs[s]
        BY <1>1, <2>2, AskedOne
    <2>4. Jobs(b) /\ \A s \in Slots : s # "getTranscript" => b[s] = a[s]
        BY <2>2, <2>3, AskedOne
    <2>5. \A s \in Slots : s # "list" => c[s] = b[s]
        BY <2>4, WithElse
    <2> HIDE DEF a, b, c
    <2> QED
        BY <2>1, <2>3, <2>4, <2>5
<1>6. LoadOnce'
    BY <1>1, <1>2, <1>3, <1>5 DEF LoadOnce, Waiting
<1>7. ASSUME NEW part \in Parts
      PROVE  PartInv(part)'
    <2>1. /\ watch[part] = None /\ ~Waiting(Getter(part)) /\ Idle(part)
        BY <1>2 DEF EditInv, PartInv, ReadOnce
    <2>2. watch'[part] = None
        BY <1>4, <2>1 DEF Parts
    <2>3. \A f \in Edits(part) : /\ f \in Kinds /\ f \in Slots /\ f \notin {"getChapters", "getTranscript", "list", "load"}
        BY EditKinds, KindsDiffer, PageKinds
    <2>4. \A f \in Edits(part) : jobs'[f] = None /\ answers'[f] = None
        BY <1>3, <1>5, <2>1, <2>3 DEF Idle, Waiting
    <2>5. ~LeftEdit(part)'
        BY <1>5, <2>1, KindsDiffer, PageKinds DEF LeftEdit, Idle
    <2>6. answers'[Getter(part)] = None
        BY <1>3, <2>1, EditKinds DEF Waiting, Getter
    <2>7. ReadOnce(part)'
        BY <1>4, <2>2, <2>4, <2>5, <2>6 DEF ReadOnce, Idle, Accepted, Waiting
    <2>8. EditedOnce(part)'
        BY <2>2, <2>4, <2>5 DEF EditedOnce, Waiting, PutAlready, Accepted
    <2> QED
        BY <2>7, <2>8 DEF PartInv
<1> QED
    BY <1>6, <1>7 DEF EditInv

LEMMA EditFetched ==
    ASSUME TypedInv, EditInv, WatchMoves, NEW part \in Parts, FileLoaded(Getter(part), part), torn' = torn
    PROVE  EditInv'
<1>1. /\ Jobs(jobs) /\ Answers(answers) /\ watch \in WatchType /\ "load" \in Kinds /\ "load" \in Slots
      /\ Getter(part) \in Kinds /\ Getter(part) # "load"
    BY EditTypes, KindsDiffer, EditKinds DEF Getter
<1>2. answers[Getter(part)] # None /\ answers' = Heard(answers, Getter(part)) /\ jobs' = jobs /\ tracks' = tracks
    BY DEF FileLoaded, WatchMoves
<1>3. answers'[Getter(part)] = None /\ \A k \in Kinds : k # Getter(part) => answers'[k] = answers[k]
    BY <1>1, <1>2, HeardOne
<1>4. /\ watch[part] = None /\ Idle(part) /\ jobs[Getter(part)] = None /\ watch.view # "loading"
      /\ Accepted(Getter(part)) => answers[Getter(part)].body = tracks[part]
    BY <1>2 DEF EditInv, PartInv, ReadOnce, Waiting
<1>5. /\ watch'.view = watch.view /\ watch'[part] \in {None, tracks[part]}
      /\ \A p \in Parts : p # part => watch'[p] = watch[p]
    BY <1>1, <1>2, <1>4 DEF FileLoaded, WatchType, Parts, Accepted
<1>6. LoadOnce'
    BY <1>1, <1>2, <1>3, <1>5 DEF EditInv, LoadOnce, Waiting
<1>7. \A f \in Edits(part) : f \in Kinds /\ f # Getter(part)
    BY EditKinds
<1>8. PartInv(part)'
    <2>1. \A f \in Edits(part) : jobs'[f] = None /\ answers'[f] = None
        BY <1>2, <1>3, <1>4, <1>7 DEF Idle, Waiting
    <2>2. ~LeftEdit(part)'
        BY <1>2, <1>4 DEF LeftEdit, Idle
    <2>3. ReadOnce(part)'
        BY <1>2, <1>3, <1>4, <1>5, <2>1, <2>2 DEF ReadOnce, Idle, Accepted, Waiting
    <2>4. EditedOnce(part)'
        BY <1>2, <1>5, <2>1, <2>2 DEF EditedOnce, Waiting, PutAlready, Accepted
    <2> QED
        BY <2>3, <2>4 DEF PartInv
<1>9. ASSUME NEW p \in Parts, p # part
      PROVE  PartInv(p)'
    <2>1. /\ Getter(p) # Getter(part) /\ Getter(p) \in Kinds
          /\ \A f \in Edits(p) : f \in Kinds /\ f # Getter(part)
        BY <1>1, <1>9, EditKinds, PageKinds DEF Parts
    <2>2. PartSame(p)
        BY <1>2, <1>3, <1>5, <1>9, <2>1 DEF PartSame, LeftEdit
    <2> QED
        BY <2>2, PartFrame DEF EditInv
<1> QED
    BY <1>6, <1>8, <1>9 DEF EditInv

LEMMA EditSent ==
    ASSUME TypedInv, EditInv, WatchMoves, NEW f \in Chapter \cup Segment, NEW n, SaveEdit(f, n)
    PROVE  EditInv'
<1> DEFINE part == PartName(f)
<1>1. part \in Parts /\ f \in Edits(part)
    BY EditKinds, KindsDiffer DEF PartName, Parts
<1>2. /\ Jobs(jobs) /\ f \in Kinds /\ f \in Slots /\ f # "load" /\ "load" \in Slots
      /\ \A p \in Parts : f # Getter(p) /\ Getter(p) \in Slots
    BY <1>1, EditTypes, EditKinds, KindsDiffer, PageKinds DEF Getter
<1>3. /\ watch' = watch /\ answers' = answers /\ tracks' = tracks /\ watch[part] # None /\ ~Waiting(f)
      /\ torn' = IF \E g \in Edits(part) : Waiting(g) THEN torn \cup {part} ELSE torn
    BY DEF SaveEdit, WhileSaved, WatchMoves
<1>4. PICK all : jobs' = With(jobs, f, all)
    BY DEF SaveEdit
<1>5. \A s \in Slots : s # f => jobs'[s] = jobs[s]
    BY <1>2, <1>4, WithElse
<1>6. jobs'[f].pc = "sent"
    BY <1>2, <1>4 DEF With, Jobs
<1> HIDE DEF part
<1>7. LoadOnce'
    BY <1>2, <1>3, <1>5 DEF EditInv, LoadOnce, Waiting
<1>8. PartInv(part)'
    <2>1. /\ ~Waiting(Getter(part)) /\ watch.view # "loading"
          /\ jobs'[Getter(part)] = jobs[Getter(part)]
        BY <1>1, <1>2, <1>3, <1>5 DEF EditInv, PartInv, ReadOnce
    <2>2. ReadOnce(part)'
        BY <1>3, <2>1 DEF ReadOnce, Waiting, Accepted
    <2>3. \A g \in Edits(part) : g \in Slots /\ g # "abandoned"
        BY <1>1, EditKinds, KindsDiffer
    <2>4. \A g \in Edits(part) : jobs'[g] = None \/ answers'[g] = None
        BY <1>1, <1>3, <1>5, <2>3 DEF EditInv, PartInv, EditedOnce, Waiting
    <2>5. CASE part \in torn'
        BY <2>2, <2>4, <2>5 DEF PartInv, EditedOnce
    <2>6. CASE part \notin torn'
        <3>1. part \notin torn /\ \A g \in Edits(part) : ~Waiting(g)
            BY <1>3, <2>6
        <3>2. \A g \in Edits(part) : g # f => jobs'[g] = None /\ answers'[g] = None
            BY <1>3, <1>5, <2>3, <3>1 DEF Waiting
        <3>3. LeftEdit(part)' <=> LeftEdit(part)
            BY <1>1, <1>5, <2>3, KindsDiffer DEF LeftEdit
        <3>4. watch'[part] \in {tracks'[part], None} /\ ~LeftEdit(part)
            BY <1>1, <1>3, <3>1 DEF EditInv, PartInv, EditedOnce, PutAlready, Accepted, Waiting
        <3>5. answers'[f] = None
            BY <1>3 DEF Waiting
        <3>6. ~LeftEdit(part)'
            BY <3>3, <3>4
        <3>7. \A g \in Edits(part) : ~PutAlready(g)' /\ ~Accepted(g)'
            BY <1>6, <3>2, <3>5 DEF PutAlready, Accepted
        <3>8. \A g, h \in Edits(part) : Waiting(g)' /\ Waiting(h)' => g = h
            BY <3>2 DEF Waiting
        <3> QED
            BY <2>2, <2>4, <3>4, <3>6, <3>7, <3>8 DEF PartInv, EditedOnce
    <2> QED
        BY <2>5, <2>6
<1>9. ASSUME NEW p \in Parts, p # part
      PROVE  PartInv(p)'
    <2>1. \A g \in Edits(p) : g # f /\ g \in Slots
        BY <1>1, <1>9, EditKinds, KindsDiffer
    <2>2. p \in torn => p \in torn'
        BY <1>3
    <2>3. p \in torn' => p \in torn
        BY <1>3, <1>9
    <2>4. PartSame(p)
        BY <1>2, <1>3, <1>5, <2>1, <2>2, KindsDiffer DEF PartSame, LeftEdit
    <2> QED
        BY <2>4, PartFrame DEF EditInv
<1> QED
    BY <1>7, <1>8, <1>9 DEF EditInv

LEMMA EditHeard ==
    ASSUME TypedInv, EditInv, WatchMoves, NEW f \in Chapter \cup Segment, Edited(f), torn' = torn
    PROVE  EditInv'
<1> DEFINE part == PartName(f)
<1>1. part \in Parts /\ f \in Edits(part)
    BY EditKinds, KindsDiffer DEF PartName, Parts
<1>2. /\ Answers(answers) /\ f \in Kinds /\ f # "load" /\ "load" \in Kinds /\ watch \in WatchType
      /\ \A p \in Parts : f # Getter(p) /\ Getter(p) \in Kinds
    BY <1>1, EditTypes, EditKinds, KindsDiffer, PageKinds DEF Getter
<1>3. /\ answers[f] # None /\ answers' = Heard(answers, f) /\ jobs' = jobs /\ tracks' = tracks
      /\ watch' = IF answers[f].ok THEN [watch EXCEPT ![part] = answers[f].body] ELSE watch
    BY DEF Edited, WatchMoves
<1> HIDE DEF part
<1>4. answers'[f] = None /\ \A k \in Kinds : k # f => answers'[k] = answers[k]
    BY <1>2, <1>3, HeardOne
<1>5. /\ watch'.view = watch.view /\ \A p \in Parts : p # part => watch'[p] = watch[p]
      /\ watch'[part] = IF answers[f].ok THEN answers[f].body ELSE watch[part]
    BY <1>1, <1>2, <1>3 DEF WatchType, Parts
<1>6. answers[f].ok => answers[f].body # None
    <2>1. answers[f].ok => answers[f].body \in Titles \cup Texts
        BY <1>2, <1>3, KindsDiffer DEF Answers, BodyFits
    <2> QED
        BY <2>1, NotNone
<1>7. LoadOnce'
    BY <1>2, <1>3, <1>4, <1>5, KindsDiffer DEF EditInv, LoadOnce, Waiting
<1>8. PartInv(part)'
    <2>1. ~Idle(part)
        BY <1>1, <1>3 DEF Idle, Waiting
    <2>2. watch[part] # None /\ ~Waiting(Getter(part)) /\ watch.view # "loading"
        BY <1>1, <2>1 DEF EditInv, PartInv, ReadOnce
    <2>3. watch'[part] # None
        BY <1>5, <1>6, <2>2
    <2>4. ~Waiting(Getter(part))'
        BY <1>1, <1>2, <1>3, <1>4, <2>2 DEF Waiting
    <2>5. ReadOnce(part)'
        BY <1>5, <2>2, <2>3, <2>4 DEF ReadOnce, Waiting, Accepted
    <2>6. \A g \in Edits(part) : g \in Kinds
        BY <1>1, EditKinds
    <2>7. \A g \in Edits(part) : jobs'[g] = None \/ answers'[g] = None
        BY <1>1, <1>3, <1>4, <2>6 DEF EditInv, PartInv, EditedOnce
    <2>8. CASE part \in torn
        BY <2>5, <2>7, <2>8 DEF PartInv, EditedOnce
    <2>9. CASE part \notin torn
        <3>1. \A g \in Edits(part) : g # f => ~Waiting(g)
            BY <1>1, <1>3, <2>9 DEF EditInv, PartInv, EditedOnce, Waiting
        <3>2. jobs[f] = None
            BY <1>1, <1>3 DEF EditInv, PartInv, EditedOnce
        <3>3. \A g \in Edits(part) : jobs'[g] = None /\ answers'[g] = None
            BY <1>3, <1>4, <2>6, <3>1, <3>2 DEF Waiting
        <3>4. ~LeftEdit(part)'
            BY <1>1, <1>3, <2>9 DEF EditInv, PartInv, EditedOnce, LeftEdit
        <3>5. watch'[part] = tracks'[part]
            <4>1. CASE answers[f].ok
                BY <1>1, <1>3, <1>5, <2>9, <4>1 DEF EditInv, PartInv, EditedOnce, Accepted
            <4>2. CASE ~answers[f].ok
                <5>1. \A g \in Edits(part) : ~PutAlready(g) /\ ~Accepted(g)
                    BY <3>1, <3>2, <4>2 DEF PutAlready, Accepted, Waiting
                <5> QED
                    BY <1>1, <1>3, <1>5, <2>2, <2>9, <4>2, <5>1 DEF EditInv, PartInv, EditedOnce
            <4> QED
                BY <4>1, <4>2
        <3> QED
            BY <2>5, <3>3, <3>4, <3>5 DEF PartInv, EditedOnce, Waiting, PutAlready, Accepted
    <2> QED
        BY <2>8, <2>9
<1>9. ASSUME NEW p \in Parts, p # part
      PROVE  PartInv(p)'
    <2>1. \A g \in Edits(p) : g # f /\ g \in Kinds
        BY <1>1, <1>9, EditKinds
    <2>2. PartSame(p)
        BY <1>2, <1>3, <1>4, <1>5, <1>9, <2>1 DEF PartSame, LeftEdit
    <2> QED
        BY <2>2, PartFrame DEF EditInv
<1> QED
    BY <1>7, <1>8, <1>9 DEF EditInv

LEMMA EditWatched ==
    ASSUME TypedInv, EditInv, Watching
    PROVE  EditInv'
<1>1. WatchMoves
    BY WatchingMoves
<1>2. watch \in WatchType
    BY EditTypes
<1>3. {"reload", "list", "post", "react", "settings"} \subseteq Beside
    BY DEF Beside
<1>4. CASE WatchAnswered
    <2>1. torn' = torn
        BY <1>4 DEF WatchAnswered, rest
    <2>2. CASE Reloaded
        <3>1. watch'.view = watch.view /\ watch'.chapters = watch.chapters /\ watch'.transcript = watch.transcript
            BY <1>2, <2>2 DEF Reloaded, Unmounted, WatchType
        <3>2. /\ jobs' = jobs \/ jobs' = With(jobs, "list", None)
              /\ answers' = Heard(answers, "reload")
            BY <2>2 DEF Reloaded
        <3> QED
            BY <1>1, <1>3, <2>1, <3>1, <3>2, EditQuiet
    <2>3. CASE Listed \/ Posted \/ Reacted \/ FormSaved
        <3>1. watch'.view = watch.view /\ watch'.chapters = watch.chapters /\ watch'.transcript = watch.transcript
            BY <1>2, <2>3 DEF Listed, Posted, Reacted, FormSaved, WatchType
        <3>2. /\ jobs' = jobs \/ jobs' = With(jobs, "reload", None)
              /\ \E l \in Beside : answers' = Heard(answers, l)
            BY <1>3, <2>3 DEF Listed, Posted, Reacted, FormSaved
        <3> QED
            BY <1>1, <1>3, <2>1, <3>1, <3>2, EditQuiet
    <2>4. CASE FileLoaded("getChapters", "chapters") \/ FileLoaded("getTranscript", "transcript")
        <3>1. \E part \in Parts : FileLoaded(Getter(part), part)
            BY <2>4 DEF Getter, Parts
        <3> QED
            BY <1>1, <2>1, <3>1, EditFetched
    <2> QED
        BY <1>1, <1>4, <2>1, <2>2, <2>3, <2>4, EditLoaded, EditHeard DEF WatchAnswered
<1>5. CASE WatchEnd
    <2>1. torn' = torn
        BY <1>5 DEF WatchEnd, rest
    <2>2. watch'.view = watch.view /\ watch'.chapters = watch.chapters /\ watch'.transcript = watch.transcript
        BY <1>2, <1>5 DEF WatchEnd, Dismiss, Close, CloseForm, Confirm, WatchType
    <2>3. /\ answers' = answers /\ \E b : jobs' = jobs \/ jobs' = With(jobs, "react", b)
        BY <1>5 DEF WatchEnd, Dismiss, CloseForm, Confirm, Post
    <2> QED
        BY <1>1, <1>3, <2>1, <2>2, <2>3, EditQuiet
<1>6. ASSUME NEW n, WatchInput(n)
      PROVE  EditInv'
    <2>1. CASE \E f \in Chapter \cup Segment : SaveEdit(f, n)
        BY <1>1, <2>1, EditSent
    <2>2. CASE /\ \/ ReadAgain \/ React(n) \/ Forget \/ ForgotElsewhere \/ Focus(n) \/ Submit \/ OpenForm
                  \/ \E s \in SUBSET {"comments"} : SaveForm(s)
               /\ UNCHANGED rest
        <3>1. torn' = torn
            BY <2>2 DEF rest
        <3>2. watch'.view = watch.view /\ watch'.chapters = watch.chapters /\ watch'.transcript = watch.transcript
            BY <1>2, <2>2 DEF ReadAgain, React, Forget, ForgotElsewhere, Focus, Submit, Submitted, OpenForm,
               SaveForm, WatchType
        <3>3. answers' = answers
            BY <2>2 DEF ReadAgain, React, Forget, ForgotElsewhere, Focus, Submit, OpenForm, SaveForm
        <3>4. \E k \in Beside : \E b : jobs' = jobs \/ jobs' = With(jobs, k, b)
            BY <1>3, <2>2 DEF ReadAgain, React, Forget, ForgotElsewhere, Focus, Submit, OpenForm, SaveForm, Post
        <3> QED
            BY <1>1, <1>3, <3>1, <3>2, <3>3, <3>4, EditQuiet
    <2> QED
        BY <1>6, <2>1, <2>2 DEF WatchInput
<1> QED
    BY <1>4, <1>5, <1>6 DEF Watching

LEMMA EditManaged ==
    ASSUME TypedInv, EditInv, Managing
    PROVE  EditInv'
<1>1. DetailMoves /\ watch' = watch
    BY ManagingMoves
<1>2. \A k \in DetailKinds : k \in FixedKinds /\ k \notin {"load", "getChapters", "getTranscript"}
    BY PageKinds DEF DetailKinds
<1>3. /\ \A s \in Slots : s \notin DetailKinds \cap Kinds => jobs'[s] = jobs[s]
      /\ \A k \in Kinds : k \notin DetailKinds => answers'[k] = answers[k]
    BY <1>1 DEF DetailMoves, Asks, Hears
<1>4. "load" \in Kinds /\ "load" \in Slots
    BY EditTypes, KindsDiffer
<1>5. LoadOnce'
    BY <1>1, <1>2, <1>3, <1>4 DEF EditInv, LoadOnce, Waiting
<1>6. ASSUME NEW part \in Parts
      PROVE  PartSame(part)
    <2>1. Getter(part) \in Kinds /\ Getter(part) \in Slots /\ Getter(part) \notin DetailKinds
        BY <1>2, EditKinds, KindsDiffer DEF Getter
    <2>2. \A f \in Edits(part) : f \in Kinds /\ f \in Slots /\ f \notin DetailKinds
        BY <1>2, EditKinds, KindsDiffer
    <2> QED
        BY <1>1, <1>3, <2>1, <2>2, KindsDiffer DEF PartSame, DetailMoves, LeftEdit
<1> QED
    BY <1>5, <1>6, PartFrame DEF EditInv

LEMMA EditApart ==
    ASSUME EditInv, UNCHANGED <<tracks, jobs, answers, torn, watch>>
    PROVE  EditInv'
<1>1. LoadOnce'
    BY DEF EditInv, LoadOnce, Waiting
<1>2. \A part \in Parts : PartSame(part)
    BY DEF PartSame, LeftEdit
<1> QED
    BY <1>1, <1>2, PartFrame DEF EditInv

LEMMA EditKept ==
    ASSUME TypedInv, EditInv, [Next]_vars
    PROVE  EditInv'
<1>1. CASE Setting
    BY <1>1, EditApart DEF Setting
<1>2. CASE UNCHANGED vars
    BY <1>2, EditApart DEF vars, api
<1> QED
    BY <1>1, <1>2, EditServed, EditWatched, EditManaged DEF Next

LEMMA InitEdit == Init => EditInv
<1> SUFFICES ASSUME Init PROVE EditInv
    OBVIOUS
<1>1. PICK sent, status : \E w, d, p \in BOOLEAN : Opening(sent, status, w, d, p)
    BY Opens
<1>2. PICK w \in BOOLEAN, d \in BOOLEAN, p \in BOOLEAN : Opening(sent, status, w, d, p)
    BY <1>1
<1>3. typed = {} /\ dismissed = {}
    BY Opens
<1>4. /\ watch.chapters = None /\ watch.transcript = None /\ watch.view = IF w THEN "loading" ELSE "closed"
    BY <1>2, <1>3, WatchOpened DEF Opening
<1>5. /\ torn = {} /\ \A k \in Kinds : answers[k] = None
      /\ \A s \in Slots : jobs[s] = IF s \in sent THEN Asked(s, None) ELSE None
      /\ sent \subseteq {"load", "asset"} /\ ("load" \in sent <=> w)
    BY <1>2, ApiOpened DEF Opening
<1>6. "load" \in Kinds /\ "load" \in Slots
    BY PageKinds, KindsDiffer
<1>7. LoadOnce
    BY <1>4, <1>5, <1>6 DEF LoadOnce, Waiting
<1>8. ASSUME NEW part \in Parts
      PROVE  PartInv(part)
    <2>1. Getter(part) \in Kinds /\ Getter(part) \in Slots /\ Getter(part) \notin sent
        BY <1>5, EditKinds, KindsDiffer DEF Getter
    <2>2. \A f \in Edits(part) : f \in Kinds /\ f \in Slots /\ f \notin sent
        <3>1. \A f \in Edits(part) : f \in Kinds /\ f \in Slots /\ f \notin FixedKinds
            BY EditKinds, KindsDiffer
        <3>2. "load" \in FixedKinds /\ "asset" \in FixedKinds
            BY PageKinds
        <3> QED
            BY <1>5, <3>1, <3>2
    <2>3. "abandoned" \in Slots /\ "abandoned" \notin sent
        BY <1>5, KindsDiffer
    <2>4. watch[part] = None
        BY <1>4 DEF Parts
    <2>5. /\ \A f \in Edits(part) : jobs[f] = None /\ answers[f] = None
          /\ jobs["abandoned"] = None /\ jobs[Getter(part)] = None /\ answers[Getter(part)] = None
        BY <1>5, <2>1, <2>2, <2>3
    <2> QED
        BY <2>4, <2>5 DEF PartInv, ReadOnce, EditedOnce, Idle, LeftEdit, Waiting, Accepted, PutAlready
<1> QED
    BY <1>7, <1>8 DEF EditInv

LEMMA EditsShown == EditInv => PageShowsStored
BY DEF EditInv, PartInv, EditedOnce, PageShowsStored, Parts, PutAlready, Accepted, Waiting

-----------------------------------------------------------------------------
(* A video page's own changes.                                              *)

\* The answers that tell the version of the row a change made.
Versioned == {"process", "settings", "thumb", "unthumb"}

\* Own changes are of versions that exist; what is read next, and what the
\* page shows with nothing being read, is not older.
ChangeInv ==
    /\ mine <= row.ver
    /\ \A k \in Versioned : Accepted(k) => answers[k].body <= row.ver
    /\ Accepted("asset") => answers["asset"].body.ver >= mine
    /\ LET c == detail.cache["asset"]
       IN c.data # None /\ ~c.error /\ ~Waiting("asset") => c.data.ver >= mine

LEMMA ChangeTypes ==
    ASSUME TypedInv
    PROVE  /\ ApiTyped /\ Jobs(jobs) /\ Answers(answers) /\ Detailed(detail) /\ detail \in DetailType
           /\ mine \in Nat /\ row \in Row /\ row.ver \in Nat
           /\ detail.cache["asset"] \in Entry
           /\ detail.cache["asset"].data # None => detail.cache["asset"].data.ver \in Nat
           /\ Accepted("asset") => answers["asset"].body.ver \in Nat
           /\ \A k \in Versioned : k \in Kinds /\ (Accepted(k) => answers[k].body \in Nat)
           /\ "asset" \in Kinds /\ "asset" \in Slots /\ "asset" \notin Versioned
           /\ \A k \in Versioned \cup {"asset"} : k \in Slots /\ k # "abandoned" /\ k \notin Chapter \cup Segment
<1>1. /\ ApiTyped /\ Jobs(jobs) /\ Answers(answers) /\ Detailed(detail) /\ mine \in Nat /\ row \in Row
    BY DEF TypedInv, Typed, ApiTyped, StoredTyped, DetailTyped
<1>2. /\ detail \in DetailType /\ row.ver \in Nat
      /\ detail.cache["asset"].data \in {None} \cup Row
    BY <1>1 DEF Detailed, Row
<1>3. \A k \in Versioned \cup {"asset"} : k \in Kinds /\ k \in Slots /\ k # "abandoned" /\ k \notin Chapter \cup Segment
    <2>1. Versioned \cup {"asset"} \subseteq FixedKinds
        BY PageKinds DEF Versioned
    <2> QED
        BY <2>1, KindsDiffer
<1>4. Accepted("asset") => answers["asset"].body \in Row
    BY <1>1, <1>3 DEF Answers, BodyFits, Accepted
<1>5. \A k \in Versioned : Accepted(k) => answers[k].body \in Nat
    BY <1>1, <1>3 DEF Answers, BodyFits, Accepted, Versioned, Thumbs
<1>6. detail.cache["asset"] \in Entry
    BY <1>2 DEF DetailType, Pages
<1>7. "asset" \notin Versioned
    BY DEF Versioned
<1> QED
    BY <1>1, <1>2, <1>3, <1>4, <1>5, <1>6, <1>7 DEF Row

Tells(s, ok, b) ==
    /\ Ended(s, ok, b)
    /\ ok /\ s \in Versioned => b <= row'.ver
    /\ ok /\ s = "asset" => b = row
    /\ ok /\ s = "meta" => b.ver = row'.meta.ver

\* The version grows, and an answer tells one that exists.
LEMMA HandlersVersion ==
    ASSUME TypedInv, NEW s \in Slots, Serve(s)
    PROVE  /\ row'.ver \in Nat /\ row'.ver >= row.ver
           /\ \/ \E pc, old : Went(s, pc, old)
              \/ \E ok, b : Tells(s, ok, b)
<1>1. ApiTyped /\ row.ver \in Nat /\ "asset" \notin Writes
    BY ChangeTypes, PageKinds, KindsDiffer DEF Writes, Reads
<1>2. /\ jobs[s] # None /\ row' \in Row
      /\ s \in Versioned \cup {"asset"} => jobs[s].kind = s
    BY <1>1, ServedTyped, SlotIs, ChangeTypes DEF ApiTyped, StoredTyped
<1>3. row'.ver \in Nat
    BY <1>2 DEF Row
<1>14. row'.ver <= row'.ver /\ (row' = row => row'.ver >= row.ver)
    BY <1>1, <1>3
<1>15. \A ok, b : Tells(s, ok, b) => \E x, y : Tells(s, x, y)
    OBVIOUS
<1>4. /\ \A k \in Versioned \cup {"asset", "meta"} : k \notin {"post", "react", "delete"} \cup Chapter \cup Segment
      /\ "meta" \notin Versioned /\ "meta" \notin Reads /\ (s = "meta" => jobs[s].kind = s)
    <2>1. "meta" \in FixedKinds /\ "meta" # "abandoned"
        BY PageKinds
    <2>2. "meta" \notin Reads /\ "meta" \notin Chapter \cup Segment
        BY <2>1, KindsDiffer DEF Reads, Public, Files
    <2> QED
        BY <1>1, <1>2, <2>1, <2>2, SlotIs, ChangeTypes DEF Versioned
<1>5. CASE Refuse(s)
    <2>1. Tells(s, FALSE, None) /\ row' = row
        BY <1>1, <1>5, Refused DEF Tells
    <2> QED
        BY <1>3, <1>14, <1>15, <2>1
<1>6. CASE Read(s)
    <2>1. s \in Reads /\ row' = row
        BY <1>1, <1>6, HasRead
    <2>2. s \notin Versioned
        BY <2>1 DEF Versioned, Reads, Files
    <2>3. PICK b : Ended(s, TRUE, b) /\ (s = "asset" => b = row)
        BY <1>1, <1>6, HasRead
    <2>4. Tells(s, TRUE, b)
        BY <1>4, <2>1, <2>2, <2>3 DEF Tells
    <2> QED
        BY <1>3, <1>14, <1>15, <2>1, <2>4
<1>7. CASE Look(s)
    BY <1>1, <1>3, <1>7, Looked
<1>8. CASE Insert(s) \/ DropRow(s) \/ PutChapters(s) \/ PutSubtitles(s)
    <2>1. jobs[s].kind \in {"post", "react", "delete"} \cup Chapter \cup Segment
        BY <1>1, <1>8, Inserted, RowDropped, ChaptersPut, SubtitlesPut
    <2>2. s \notin Versioned /\ s # "asset" /\ s # "meta"
        BY <1>2, <1>4, <2>1
    <2>3. \E b : Ended(s, TRUE, b)
        BY <1>1, <1>8, Inserted, RowDropped, ChaptersPut, SubtitlesPut
    <2>4. \E b : Tells(s, TRUE, b)
        BY <2>2, <2>3 DEF Tells
    <2>5. row'.ver >= row.ver
        <3>1. row' = row \/ row'.ver >= row.ver
            BY <1>1, <1>8, Inserted, RowDropped, ChaptersPut, SubtitlesPut
        <3> QED
            BY <1>1, <3>1
    <2> QED
        BY <1>3, <2>4, <2>5
<1>9. CASE Update(s)
    <2>1. jobs[s].kind \in {"meta", "settings"} /\ row'.ver >= row.ver
        BY <1>1, <1>9, Updated
    <2>2. PICK b : /\ Ended(s, TRUE, b)
                   /\ IF jobs[s].kind = "meta" THEN b.ver = row'.meta.ver ELSE b = row'.ver
        BY <1>1, <1>9, Updated
    <2>3. s # "asset" /\ (s \in Versioned => s = "settings" /\ jobs[s].kind = s)
        BY <1>2, <1>4, <2>1 DEF Versioned
    <2>4. Tells(s, TRUE, b)
        BY <1>4, <1>14, <2>2, <2>3 DEF Tells
    <2> QED
        BY <1>3, <2>1, <2>4
<1>10. CASE Queue(s)
    <2>1. jobs[s].kind = "process" /\ row'.ver >= row.ver
        BY <1>1, <1>10, Queued
    <2>2. Ended(s, TRUE, row'.ver) \/ Ended(s, FALSE, None)
        BY <1>1, <1>10, Queued
    <2>3. Tells(s, TRUE, row'.ver) \/ Tells(s, FALSE, None)
        BY <1>2, <1>4, <1>14, <2>1, <2>2 DEF Tells
    <2> QED
        BY <1>3, <2>1, <2>3
<1>11. CASE Purge(s) \/ PutTranscript(s) \/ PutThumb(s)
    <2>1. row' = row /\ \E pc, old : Went(s, pc, old)
        BY <1>1, <1>11, Purged, TranscriptPut, ThumbPut
    <2> QED
        BY <1>1, <2>1
<1>12. CASE Clean(s)
    <2>1. jobs[s].kind \in {"thumb", "unthumb"} /\ row' = row
        BY <1>1, <1>12, Cleaned
    <2>2. Went(s, "cleaned", jobs[s].old) \/ Ended(s, TRUE, row.ver)
        BY <1>1, <1>12, Cleaned
    <2>3. Went(s, "cleaned", jobs[s].old) \/ Tells(s, TRUE, row.ver)
        BY <1>2, <1>4, <1>14, <2>1, <2>2 DEF Tells
    <2> QED
        BY <1>3, <1>14, <1>15, <2>1, <2>3
<1>13. CASE SetThumb(s)
    <2>1. jobs[s].kind \in {"thumb", "unthumb"} /\ row'.ver >= row.ver /\ Ended(s, TRUE, row'.ver)
        BY <1>1, <1>13, ThumbSet DEF Thumbs
    <2>2. Tells(s, TRUE, row'.ver)
        BY <1>2, <1>4, <1>14, <2>1 DEF Tells
    <2> QED
        BY <1>3, <2>1, <2>2
<1> QED
    BY <1>5, <1>6, <1>7, <1>8, <1>9, <1>10, <1>11, <1>12, <1>13 DEF Serve

\* The page is the same, and every answer that comes is of a version there is.
LEMMA ChangeFrame ==
    ASSUME TypedInv, ChangeInv, mine' = mine, detail'.cache["asset"] = detail.cache["asset"],
           row'.ver \in Nat, row'.ver >= row.ver,
           \A k \in Versioned : \/ answers'[k] = answers[k]
                                \/ answers'[k] = None \/ ~answers'[k].ok \/ answers'[k].body <= row'.ver,
           \/ answers'["asset"] = answers["asset"]
           \/ answers'["asset"] = None \/ ~answers'["asset"].ok \/ answers'["asset"].body = row,
           Waiting("asset") => Waiting("asset")'
    PROVE  ChangeInv'
<1>1. mine \in Nat /\ row.ver \in Nat /\ \A k \in Versioned : Accepted(k) => answers[k].body \in Nat
    BY ChangeTypes
<1>2. mine' <= row'.ver
    BY <1>1 DEF ChangeInv
<1>3. \A k \in Versioned : Accepted(k)' => answers'[k].body <= row'.ver
    BY <1>1 DEF ChangeInv, Accepted
<1>4. Accepted("asset")' => answers'["asset"].body.ver >= mine'
    BY <1>1 DEF ChangeInv, Accepted
<1> QED
    BY <1>2, <1>3, <1>4 DEF ChangeInv

LEMMA ChangeServed ==
    ASSUME TypedInv, ChangeInv, Api
    PROVE  ChangeInv'
<1>1. ApiTyped /\ ApiNext /\ mine' = mine /\ detail' = detail
    BY ChangeTypes DEF Api
<1>2. /\ row.ver \in Nat /\ \A k \in Versioned \cup {"asset"} : k \in Kinds /\ k \in Slots
      /\ "asset" \notin Writes /\ "asset" \in Kinds /\ "asset" \in Slots /\ "asset" # "abandoned"
    BY ChangeTypes, KindsDiffer, PageKinds DEF Writes, Reads
<1>3. Failure # None /\ ~Failure.ok
    BY FailureIs
<1>4. CASE Worker
    <2>1. row' \in Row /\ row'.ver >= row.ver /\ jobs' = jobs /\ answers' = answers
        BY <1>1, <1>4, Worked
    <2> QED
        BY <1>1, <2>1, ChangeFrame DEF Row, Waiting
<1>5. CASE Crash
    <2>1. /\ row' = row
          /\ \A k \in Kinds : answers'[k] = IF jobs[k] = None THEN answers[k] ELSE Failure
        BY <1>1, <1>5, Crashed
    <2> QED
        BY <1>1, <1>2, <1>3, <2>1, ChangeFrame DEF Waiting
<1>6. ASSUME NEW s \in Slots, Serve(s)
      PROVE  ChangeInv'
    <2>1. row'.ver \in Nat /\ row'.ver >= row.ver
        BY <1>6, HandlersVersion
    <2>2. CASE \E pc, old : Went(s, pc, old)
        <3>1. answers' = answers /\ jobs'[s] # None /\ \A t \in Slots : t # s => jobs'[t] = jobs[t]
            BY <2>2 DEF Went
        <3>2. Waiting("asset") => Waiting("asset")'
            BY <1>2, <3>1 DEF Waiting
        <3> QED
            BY <1>1, <2>1, <3>1, <3>2, ChangeFrame
    <2>3. ASSUME NEW ok, NEW b, Tells(s, ok, b)
          PROVE  ChangeInv'
        <3>1. /\ jobs'[s] = None /\ \A t \in Slots : t # s => jobs'[t] = jobs[t]
              /\ s # "abandoned" => answers'[s] # None /\ answers'[s].ok = ok /\ answers'[s].body = b
              /\ \A k \in Kinds : k # s => answers'[k] = answers[k]
            BY <2>3 DEF Tells, Ended
        <3>2. Waiting("asset") => Waiting("asset")'
            BY <1>2, <3>1 DEF Waiting
        <3>3. \A k \in Versioned : \/ answers'[k] = answers[k]
                                   \/ ~answers'[k].ok \/ answers'[k].body <= row'.ver
            BY <1>2, <2>3, <3>1, KindsDiffer DEF Tells
        <3>4. answers'["asset"] = answers["asset"] \/ ~answers'["asset"].ok \/ answers'["asset"].body = row
            BY <1>2, <2>3, <3>1 DEF Tells
        <3> QED
            BY <1>1, <2>1, <3>2, <3>3, <3>4, ChangeFrame
    <2> QED
        BY <1>6, <2>2, <2>3, HandlersVersion
<1>7. ASSUME NEW k \in Kinds, Lose(k)
      PROVE  ChangeInv'
    <2>1. /\ row' = row /\ \A s \in Slots : s # k => jobs'[s] = jobs[s]
          /\ answers'[k] = Failure /\ \A l \in Kinds : l # k => answers'[l] = answers[l]
        BY <1>1, <1>7, Lost
    <2> QED
        BY <1>1, <1>2, <1>3, <2>1, ChangeFrame DEF Waiting
<1>8. ASSUME NEW k \in Kinds, GiveUp(k)
      PROVE  ChangeInv'
    <2>1. /\ row' = row /\ \A s \in Slots : s # k /\ s # "abandoned" => jobs'[s] = jobs[s]
          /\ answers'[k] = Failure /\ \A l \in Kinds : l # k => answers'[l] = answers[l]
        BY <1>1, <1>8, GivenUp
    <2> QED
        BY <1>1, <1>2, <1>3, <2>1, ChangeFrame DEF Waiting
<1> QED
    BY <1>1, <1>4, <1>5, <1>6, <1>7, <1>8 DEF ApiNext, AtWork

\* A step of the dashboard that changes neither what is known of the video nor
\* what the page itself did.
LEMMA ChangeQuiet ==
    ASSUME TypedInv, ChangeInv, DetailMoves, mine' = mine,
           detail'.cache["asset"].data # None =>
               /\ detail.cache["asset"].data # None
               /\ detail'.cache["asset"].data.ver = detail.cache["asset"].data.ver,
           detail.cache["asset"].error => detail'.cache["asset"].error,
           answers'["asset"] = answers["asset"] \/ jobs'["asset"] # None
    PROVE  ChangeInv'
<1>1. "asset" \in Kinds /\ "asset" \in Slots /\ \A k \in Versioned : k \in Kinds
    BY ChangeTypes
<1>2. /\ row' = row /\ \A k \in Kinds : answers'[k] = answers[k] \/ answers'[k] = None
      /\ \A s \in Slots : jobs'[s] = jobs[s] \/ jobs'[s] # None
    BY DEF DetailMoves, Asks, Hears
<1>3. Waiting("asset") => Waiting("asset")'
    BY <1>1, <1>2 DEF Waiting
<1>4. \A k \in Versioned : Accepted(k)' => Accepted(k) /\ answers'[k] = answers[k]
    BY <1>1, <1>2 DEF Accepted
<1>5. Accepted("asset")' => Accepted("asset") /\ answers'["asset"] = answers["asset"]
    BY <1>1, <1>2 DEF Accepted
<1> QED
    BY <1>2, <1>3, <1>4, <1>5 DEF ChangeInv

\* The page hears that a change it made was accepted, and reads the video
\* again when it shows it.
LEMMA ChangeHeard ==
    ASSUME TypedInv, ChangeInv, DetailMoves, NEW k \in Versioned, NEW ks \in SUBSET Pages, "asset" \in ks,
           Accepted(k), Own(answers[k].body), NEW js, js = Invalidate(jobs, ks), jobs' = js,
           answers' = Heard(Dropped(answers, ks), k),
           detail'.cache["asset"].data = detail.cache["asset"].data,
           detail'.cache["asset"].error = detail.cache["asset"].error
    PROVE  ChangeInv'
<1>1. /\ mine \in Nat /\ row.ver \in Nat /\ answers[k].body \in Nat /\ answers[k].body <= row.ver
      /\ "asset" \in Kinds /\ "asset" \in Slots /\ Jobs(jobs) /\ Answers(answers) /\ k # "asset" /\ k \in Kinds
    BY ChangeTypes DEF ChangeInv
<1>2. CASE ~OnVideo
    <2>1. mine' = mine
        BY <1>2 DEF Own
    <2>2. answers'["asset"] = answers["asset"]
        <3>1. Answers(Dropped(answers, ks)) /\ Dropped(answers, ks)["asset"] = answers["asset"]
            BY <1>1, <1>2, DroppedAnswers DEF OnVideo
        <3> QED
            BY <1>1, <3>1, HeardOne
    <2> QED
        BY <2>1, <2>2, ChangeQuiet
<1>3. CASE OnVideo
    <2>1. jobs'["asset"] = Asked("asset", None)
        BY <1>1, <1>3, InvalidateAsks DEF OnVideo
    <2>2. Asked("asset", None) # None
        BY <1>1, AskedIs, DashboardKinds DEF Pages
    <2>3. answers'["asset"] = None
        <3>1. Answers(Dropped(answers, ks)) /\ Dropped(answers, ks)["asset"] = None
            BY <1>1, <1>3, DroppedAnswers DEF OnVideo
        <3> QED
            BY <1>1, <3>1, HeardOne
    <2>4. mine' <= row'.ver
        BY <1>1 DEF ChangeInv, Own, DetailMoves
    <2>5. \A l \in Versioned : Accepted(l)' => Accepted(l) /\ answers'[l] = answers[l]
        BY ChangeTypes DEF DetailMoves, Hears, Accepted
    <2>6. Waiting("asset")' /\ ~Accepted("asset")'
        BY <2>1, <2>2, <2>3 DEF Waiting, Accepted
    <2>7. row' = row
        BY DEF DetailMoves
    <2> QED
        BY <2>4, <2>5, <2>6, <2>7 DEF ChangeInv
<1> QED
    BY <1>2, <1>3

LEMMA DeletedKeeps ==
    ASSUME TypedInv, Deleted
    PROVE  detail'.cache["asset"] = detail.cache["asset"]
<1>1. detail \in DetailType
    BY ChangeTypes
<1>2. CASE answers["delete"].ok
    <2> DEFINE d == [detail EXCEPT !.cache["assets"].stale = TRUE]
    <2>1. d \in DetailType /\ d.cache["asset"] = detail.cache["asset"]
        BY <1>1 DEF DetailType, Pages, Entry
    <2>2. Visit(d, Invalidate(jobs, {"assets"}), answers', "assets")
        BY <1>2 DEF Deleted
    <2> HIDE DEF d
    <2>3. detail'.cache = d.cache
        BY <2>1, <2>2 DEF Visit, DetailType
    <2> QED
        BY <2>1, <2>3
<1> QED
    BY <1>2 DEF Deleted

LEMMA SavedKeeps ==
    ASSUME TypedInv, NEW k, DialogSaved(k)
    PROVE  /\ detail'.cache["asset"].data = detail.cache["asset"].data
           /\ detail'.cache["asset"].error = detail.cache["asset"].error
<1>1. Detailed(detail) /\ "asset" \in Pages /\ {"asset"} \in SUBSET Pages
    BY ChangeTypes DEF Pages
<1>2. CASE answers[k].ok
    <2>1. detail' = [Stale(detail, {"asset"}) EXCEPT !.settings = FALSE, !.thumb = FALSE]
        BY <1>2 DEF DialogSaved
    <2>2. /\ Detailed(Stale(detail, {"asset"}))
          /\ Stale(detail, {"asset"}).cache["asset"].data = detail.cache["asset"].data
          /\ Stale(detail, {"asset"}).cache["asset"].error = detail.cache["asset"].error
        BY <1>1, StaleDetail
    <2>3. detail'.cache = Stale(detail, {"asset"}).cache
        BY <2>1, <2>2 DEF Detailed, DetailType
    <2> QED
        BY <2>2, <2>3
<1> QED
    BY <1>2 DEF DialogSaved

LEMMA ChangeAnswered ==
    ASSUME TypedInv, ChangeInv, DetailMoves, DetailAnswered
    PROVE  ChangeInv'
<1>1. /\ detail \in DetailType /\ Detailed(detail) /\ Jobs(jobs) /\ Answers(answers)
      /\ detail.cache["asset"] \in Entry /\ mine \in Nat
      /\ "asset" \in Kinds /\ "asset" \in Slots
    BY ChangeTypes
<1>2. CASE Fetched("asset")
    <2>1. /\ answers["asset"] # None /\ answers' = Heard(answers, "asset") /\ mine' = mine /\ jobs' = jobs
          /\ row' = row
        BY <1>2 DEF Fetched, DetailMoves
    <2>2. answers'["asset"] = None /\ \A k \in Kinds : k # "asset" => answers'[k] = answers[k]
        BY <1>1, <2>1, HeardOne
    <2>3. IF answers["asset"].ok THEN detail'.cache["asset"].data = answers["asset"].body
          ELSE detail'.cache["asset"].error
        <3>1. "asset" \in Pages
            BY DEF Pages
        <3>2. CASE answers["asset"].ok
            BY <1>1, <1>2, <3>1, <3>2 DEF Fetched, DetailType
        <3>3. CASE ~answers["asset"].ok
            BY <1>1, <1>2, <3>1, <3>3 DEF Fetched, DetailType, Entry
        <3> QED
            BY <3>2, <3>3
    <2>4. \A k \in Versioned : Accepted(k)' => Accepted(k) /\ answers'[k] = answers[k]
        BY <2>2, ChangeTypes DEF Accepted
    <2>5. ~Accepted("asset")'
        BY <2>2 DEF Accepted
    <2>6. detail'.cache["asset"].data # None /\ ~detail'.cache["asset"].error
             => detail'.cache["asset"].data.ver >= mine'
        BY <2>1, <2>3 DEF ChangeInv, Accepted
    <2> QED
        BY <2>1, <2>4, <2>5, <2>6 DEF ChangeInv
<1>3. CASE Fetched("assets")
    <2>1. answers' = Heard(answers, "assets") /\ mine' = mine
        BY <1>3 DEF Fetched
    <2>2. answers'["asset"] = answers["asset"]
        BY <1>1, <2>1, HeardOne, DashboardKinds DEF Pages
    <2>3. detail'.cache["asset"] = detail.cache["asset"]
        BY <1>1, <1>3 DEF Fetched, DetailType, Pages
    <2> QED
        BY <2>1, <2>2, <2>3, ChangeQuiet
<1>4. CASE MetaSaved
    <2>1. answers' = Heard(answers, "meta") /\ mine' = mine
        BY <1>4 DEF MetaSaved
    <2>2. answers'["asset"] = answers["asset"]
        <3>1. "meta" \in Kinds /\ "meta" # "asset"
            BY PageKinds, KindsDiffer
        <3> QED
            BY <1>1, <2>1, <3>1, HeardOne
    <2>3. /\ detail'.cache["asset"].data # None =>
               /\ detail.cache["asset"].data # None
               /\ detail'.cache["asset"].data.ver = detail.cache["asset"].data.ver
          /\ detail'.cache["asset"].error = detail.cache["asset"].error
        <3>1. CASE ~(answers["meta"].ok /\ Shown("asset") # None)
            BY <1>4, <3>1 DEF MetaSaved
        <3>2. CASE answers["meta"].ok /\ Shown("asset") # None
            <4>1. detail' = [detail EXCEPT !.cache["asset"].data.meta = answers["meta"].body]
                BY <1>4, <3>2 DEF MetaSaved
            <4>2. detail.cache["asset"].data \in Row /\ detail.cache["asset"].data # None /\ "asset" \in Pages
                BY <1>1, <3>2 DEF Shown, Cache, Detailed, Pages
            <4>3. detail'.cache["asset"] = [detail.cache["asset"] EXCEPT !.data.meta = answers["meta"].body]
                BY <1>1, <4>1, <4>2 DEF DetailType
            <4>4. /\ detail'.cache["asset"].error = detail.cache["asset"].error
                  /\ detail'.cache["asset"].data = [detail.cache["asset"].data EXCEPT !.meta = answers["meta"].body]
                BY <1>1, <4>3 DEF Entry
            <4> QED
                BY <4>2, <4>4 DEF Row
        <3> QED
            BY <3>1, <3>2
    <2> QED
        BY <2>1, <2>2, <2>3, ChangeQuiet
<1>5. CASE Processed
    <2>1. "process" \in Versioned /\ "process" \in Kinds /\ Pages \in SUBSET Pages /\ "asset" \in Pages
        BY ChangeTypes DEF Versioned, Pages
    <2>2. CASE answers["process"].ok
        <3>1. /\ Accepted("process") /\ Own(answers["process"].body) /\ jobs' = Invalidate(jobs, Pages)
              /\ answers' = Heard(Dropped(answers, Pages), "process") /\ detail' = Stale(detail, Pages)
            BY <1>5, <2>2 DEF Processed, Accepted
        <3>2. /\ detail'.cache["asset"].data = detail.cache["asset"].data
              /\ detail'.cache["asset"].error = detail.cache["asset"].error
            BY <1>1, <2>1, <3>1, StaleDetail
        <3> QED
            BY <2>1, <3>1, <3>2, ChangeHeard
    <2>3. CASE ~answers["process"].ok
        <3>1. detail'.cache = detail.cache
            BY <1>1, <1>5, <2>3 DEF Processed, DetailType
        <3>2. answers' = Heard(answers, "process") /\ mine' = mine
            BY <1>5, <2>3 DEF Processed
        <3>3. answers'["asset"] = answers["asset"]
            BY <1>1, <2>1, <3>2, HeardOne
        <3> QED
            BY <3>1, <3>2, <3>3, ChangeQuiet
    <2> QED
        BY <2>2, <2>3
<1>6. CASE Deleted
    <2>1. "delete" \in Kinds /\ {"assets"} \in SUBSET Pages
        BY PageKinds, KindsDiffer DEF Pages
    <2>2. CASE answers["delete"].ok
        <3>1. mine' = mine /\ answers' = Heard(Dropped(answers, {"assets"}), "delete")
            BY <1>6, <2>2 DEF Deleted
        <3>2. answers'["asset"] = answers["asset"]
            <4>1. /\ Answers(Dropped(answers, {"assets"}))
                  /\ Dropped(answers, {"assets"})["asset"] = answers["asset"]
                BY <1>1, <2>1, DroppedAnswers
            <4> QED
                BY <1>1, <2>1, <3>1, <4>1, HeardOne
        <3>3. detail'.cache["asset"] = detail.cache["asset"]
            BY <1>6, DeletedKeeps
        <3> QED
            BY <3>1, <3>2, <3>3, ChangeQuiet
    <2>3. CASE ~answers["delete"].ok
        <3>1. answers' = Heard(answers, "delete") /\ mine' = mine /\ detail' = detail
            BY <1>6, <2>3 DEF Deleted
        <3>2. answers'["asset"] = answers["asset"]
            BY <1>1, <2>1, <3>1, HeardOne
        <3> QED
            BY <3>1, <3>2, ChangeQuiet
    <2> QED
        BY <2>2, <2>3
<1>7. ASSUME NEW k \in {"settings"} \cup Thumbs, DialogSaved(k)
      PROVE  ChangeInv'
    <2>1. k \in Versioned /\ k \in Kinds /\ k # "asset" /\ {"asset"} \in SUBSET Pages /\ "asset" \in Pages
        BY ChangeTypes DEF Versioned, Pages, Thumbs
    <2>2. CASE answers[k].ok
        <3>1. /\ Accepted(k) /\ Own(answers[k].body) /\ jobs' = Invalidate(jobs, {"asset"})
              /\ answers' = Heard(Dropped(answers, {"asset"}), k)
            BY <1>7, <2>2 DEF DialogSaved, Accepted
        <3> QED
            BY <1>7, <2>1, <3>1, SavedKeeps, ChangeHeard
    <2>3. CASE ~answers[k].ok
        <3>1. answers' = Heard(answers, k) /\ mine' = mine /\ detail' = detail
            BY <1>7, <2>3 DEF DialogSaved
        <3>2. answers'["asset"] = answers["asset"]
            BY <1>1, <2>1, <3>1, HeardOne
        <3> QED
            BY <3>1, <3>2, ChangeQuiet
    <2> QED
        BY <2>2, <2>3
<1> QED
    BY <1>2, <1>3, <1>4, <1>5, <1>6, <1>7 DEF DetailAnswered, Pages

LEMMA ChangeActed ==
    ASSUME TypedInv, ChangeInv, DetailMoves, NEW n,
           DetailEnd \/ (\E k \in Pages : Poll(k)) \/ DetailInput(n)
    PROVE  ChangeInv'
<1>1. detail \in DetailType
    BY ChangeTypes
<1>2. answers' = answers /\ mine' = mine
    BY DEF DetailEnd, CancelAi, CloseDialog, Show, Poll, Refetch, DetailInput, RetryRead, Navigate, Hide,
       SaveMeta, AskAi, Process, AskDelete, Delete, OpenSettings, OpenThumb, ResetThumb, Upload, SaveSettings
<1>3. detail'.cache = detail.cache
    <2>1. CASE DetailEnd \/ (\E k \in Pages : Poll(k))
        BY <1>1, <2>1 DEF DetailEnd, CancelAi, CloseDialog, Show, Poll, Refetch, DetailType
    <2>2. CASE \E k \in Pages : Navigate(k)
        BY <1>1, <2>2 DEF Navigate, Visit, DetailType
    <2>3. CASE DetailInput(n) /\ ~\E k \in Pages : Navigate(k)
        BY <1>1, <2>3 DEF DetailInput, RetryRead, Refetch, Hide, SaveMeta, AskAi, Process, AskDelete, Delete,
           OpenSettings, OpenThumb, ResetThumb, Upload, SaveSettings, DetailType
    <2> QED
        BY <2>1, <2>2, <2>3
<1> QED
    BY <1>2, <1>3, ChangeQuiet

LEMMA ChangeKept ==
    ASSUME TypedInv, ChangeInv, [Next]_vars
    PROVE  ChangeInv'
<1>1. "asset" \in Kinds /\ "asset" \in Slots /\ row.ver \in Nat /\ \A k \in Versioned : k \in Kinds
    BY ChangeTypes
<1>2. CASE Watching
    <2>1. WatchMoves /\ UNCHANGED <<detail, mine>>
        BY <1>2, WatchingMoves
    <2>2. "asset" \notin WatchKinds
        <3>1. "asset" \in FixedKinds
            BY PageKinds
        <3> QED
            BY <3>1, KindsDiffer DEF WatchKinds
    <2>3. jobs'["asset"] = jobs["asset"] /\ answers'["asset"] = answers["asset"] /\ row' = row
        BY <1>1, <2>1, <2>2 DEF WatchMoves, Asks, Hears
    <2>4. \A k \in Versioned : answers'[k] = answers[k] \/ answers'[k] = None
        BY <1>1, <2>1 DEF WatchMoves, Hears
    <2>5. row'.ver \in Nat /\ row'.ver >= row.ver
        BY <1>1, <2>3
    <2>6. Waiting("asset") => Waiting("asset")'
        BY <2>3 DEF Waiting
    <2> QED
        BY <2>1, <2>3, <2>4, <2>5, <2>6, ChangeFrame
<1>3. CASE Managing
    <2>1. DetailMoves
        BY <1>3, ManagingMoves
    <2> QED
        BY <1>3, <2>1, ChangeAnswered, ChangeActed DEF Managing
<1>4. CASE UNCHANGED <<row, jobs, answers, detail, mine>>
    <2>1. row'.ver \in Nat /\ row'.ver >= row.ver
        BY <1>1, <1>4
    <2>2. Waiting("asset") => Waiting("asset")'
        BY <1>4 DEF Waiting
    <2> QED
        BY <1>4, <2>1, <2>2, ChangeFrame
<1>5. CASE Setting \/ UNCHANGED vars
    <2>1. UNCHANGED <<row, jobs, answers, detail, mine>>
        BY <1>5 DEF Setting, vars, api
    <2> QED
        BY <1>4, <2>1
<1> QED
    BY <1>2, <1>3, <1>5, ChangeServed DEF Next

LEMMA InitChange == Init => ChangeInv
<1> SUFFICES ASSUME Init PROVE ChangeInv
    OBVIOUS
<1>1. PICK sent, status : \E w, d, p \in BOOLEAN : Opening(sent, status, w, d, p)
    BY Opens
<1>2. PICK w \in BOOLEAN, d \in BOOLEAN, p \in BOOLEAN : Opening(sent, status, w, d, p)
    BY <1>1
<1>3. mine = 0 /\ detail.cache["asset"].data = None
    BY <1>2, DetailOpened DEF Opening, Pages
<1>4. row.ver = 0 /\ \A k \in Kinds : answers[k] = None
    BY <1>2, ApiOpened DEF Opening
<1>5. TypedInv
    BY InitTyped
<1>6. "asset" \in Kinds /\ \A k \in Versioned : k \in Kinds
    BY <1>5, ChangeTypes
<1> QED
    BY <1>3, <1>4, <1>6 DEF ChangeInv, Accepted

-----------------------------------------------------------------------------
(* The metadata a video page has changed.                                   *)

\* What the page heard of was stored; what it reads next, and what it shows
\* with nothing being read, is not older, but for the read that was under way.
MetaInv ==
    /\ meta \in [ver : Nat, raced : BOOLEAN]
    /\ meta.ver <= row.meta.ver /\ row.meta.ver <= row.ver
    /\ Accepted("meta") => answers["meta"].body.ver <= row.meta.ver
    /\ ~meta.raced /\ Accepted("asset") => answers["asset"].body.meta.ver >= meta.ver
    /\ LET c == detail.cache["asset"]
       IN ~meta.raced /\ c.data # None /\ ~c.error /\ ~Waiting("asset") => c.data.meta.ver >= meta.ver

LEMMA MetaTypes ==
    ASSUME TypedInv
    PROVE  /\ row \in Row /\ row.ver \in Nat /\ row.meta.ver \in Nat
           /\ "meta" \in Kinds /\ "meta" \in Slots /\ "meta" # "asset" /\ "meta" # "abandoned"
           /\ Accepted("meta") => answers["meta"].body \in Tagged /\ answers["meta"].body.ver \in Nat
           /\ Accepted("asset") => answers["asset"].body.meta.ver \in Nat
           /\ detail.cache["asset"].data # None => detail.cache["asset"].data.meta.ver \in Nat
<1>1. /\ row \in Row /\ Answers(answers) /\ Detailed(detail) /\ "asset" \in Kinds
    BY ChangeTypes
<1>2. "meta" \in Kinds /\ "meta" \in Slots /\ "meta" # "abandoned"
    BY PageKinds, KindsDiffer
<1>3. /\ Accepted("meta") => answers["meta"].body \in Tagged
      /\ Accepted("asset") => answers["asset"].body \in Row
    BY <1>1, <1>2 DEF Answers, BodyFits, Accepted
<1>4. detail.cache["asset"].data # None => detail.cache["asset"].data \in Row
    BY <1>1 DEF Detailed
<1> QED
    BY <1>1, <1>2, <1>3, <1>4 DEF Row, Tagged

\* Only a change of the metadata touches them, and marks them with its version.
LEMMA MetaMoves ==
    ASSUME TypedInv, Worker \/ \E s \in Slots : Serve(s)
    PROVE  /\ row'.ver \in Nat /\ row'.meta.ver \in Nat
           /\ row'.ver >= row.ver
           /\ row'.meta = row.meta \/ (row'.meta.ver = row'.ver /\ row'.ver > row.ver)
<1>1. ApiTyped /\ row \in Row /\ row.ver \in Nat /\ row.meta.ver \in Nat
    BY MetaTypes, ChangeTypes
<1>2. CASE Worker
    <2>1. row' \in Row /\ row'.ver >= row.ver
        BY <1>1, <1>2, Worked
    <2>2. row'.meta = row.meta
        BY <1>1, <1>2 DEF Worker, Changed, Row
    <2> QED
        BY <1>1, <2>1, <2>2 DEF Row
<1>3. ASSUME NEW s \in Slots, Serve(s)
      PROVE  /\ row' \in Row
             /\ row'.meta = row.meta \/ (row'.meta.ver = row'.ver /\ row'.ver = row.ver + 1)
    <2>1. row' \in Row
        BY <1>1, <1>3, ServedTyped DEF ApiTyped, StoredTyped
    <2>2. CASE Update(s)
        BY <1>1, <2>1, <2>2, Updated
    <2>3. CASE Queue(s) \/ DropRow(s) \/ SetThumb(s)
        BY <1>1, <2>1, <2>3 DEF Queue, DropRow, SetThumb, Changed, Row
    <2>4. CASE ~(Update(s) \/ Queue(s) \/ DropRow(s) \/ SetThumb(s))
        BY <1>3, <2>1, <2>4 DEF Serve, Refuse, Read, Look, Insert, Purge, PutChapters, PutTranscript,
                                PutSubtitles, PutThumb, Clean
    <2> QED
        BY <2>2, <2>3, <2>4
<1>4. ASSUME NEW s \in Slots, Serve(s)
      PROVE  row'.ver \in Nat /\ row'.ver >= row.ver
    BY <1>4, HandlersVersion
<1> QED
    BY <1>1, <1>2, <1>3, <1>4 DEF Row, Tagged

\* A read of the video is under way that began after all the page heard of.
Rereads ==
    /\ jobs'["asset"] # None /\ answers'["asset"] = None
    /\ meta' = [meta EXCEPT !.raced = FALSE]

\* The page is the same, or reads the video again, and every answer that comes
\* tells of metadata that are stored.
LEMMA MetaFrame ==
    ASSUME TypedInv, MetaInv, meta' = meta \/ Rereads,
           detail'.cache["asset"].data = detail.cache["asset"].data,
           detail'.cache["asset"].error = detail.cache["asset"].error,
           row'.meta.ver \in Nat, row'.meta.ver >= row.meta.ver, row'.meta.ver <= row'.ver,
           \/ answers'["meta"] = answers["meta"]
           \/ answers'["meta"] = None \/ ~answers'["meta"].ok \/ answers'["meta"].body.ver <= row'.meta.ver,
           \/ answers'["asset"] = answers["asset"]
           \/ answers'["asset"] = None \/ ~answers'["asset"].ok \/ answers'["asset"].body = row,
           Waiting("asset") => Waiting("asset")'
    PROVE  MetaInv'
<1>1. /\ meta \in [ver : Nat, raced : BOOLEAN] /\ row.meta.ver \in Nat /\ meta.ver <= row.meta.ver
      /\ Accepted("meta") => answers["meta"].body.ver \in Nat /\ answers["meta"].body.ver <= row.meta.ver
    BY MetaTypes DEF MetaInv
<1>2. meta' \in [ver : Nat, raced : BOOLEAN] /\ meta'.ver = meta.ver
    BY <1>1 DEF Rereads
<1>3. meta'.ver <= row'.meta.ver /\ row'.meta.ver <= row'.ver
    BY <1>1, <1>2
<1>4. Accepted("meta")' => answers'["meta"].body.ver <= row'.meta.ver
    BY <1>1 DEF Accepted
<1>5. CASE meta' = meta
    <2>1. ~meta'.raced /\ Accepted("asset")' => answers'["asset"].body.meta.ver >= meta'.ver
        BY <1>1, <1>5 DEF MetaInv, Accepted
    <2> QED
        BY <1>2, <1>3, <1>4, <1>5, <2>1 DEF MetaInv
<1>6. CASE Rereads
    <2>1. ~Accepted("asset")' /\ Waiting("asset")'
        BY <1>6 DEF Rereads, Accepted, Waiting
    <2> QED
        BY <1>2, <1>3, <1>4, <2>1 DEF MetaInv
<1> QED
    BY <1>5, <1>6

LEMMA MetaServed ==
    ASSUME TypedInv, MetaInv, Api
    PROVE  MetaInv'
<1>1. ApiTyped /\ ApiNext /\ meta' = meta /\ detail' = detail
    BY ChangeTypes DEF Api
<1>2. /\ row.ver \in Nat /\ row.meta.ver \in Nat /\ row.meta.ver <= row.ver
      /\ "meta" \in Kinds /\ "meta" \in Slots /\ "meta" # "abandoned" /\ "meta" # "asset"
      /\ "asset" \notin Writes /\ "asset" \in Kinds /\ "asset" \in Slots /\ "asset" # "abandoned"
    BY MetaTypes, ChangeTypes, KindsDiffer, PageKinds DEF MetaInv, Writes, Reads
<1>3. Failure # None /\ ~Failure.ok
    BY FailureIs
<1>4. ASSUME Worker \/ \E s \in Slots : Serve(s)
      PROVE  row'.meta.ver \in Nat /\ row'.meta.ver >= row.meta.ver /\ row'.meta.ver <= row'.ver
    BY <1>2, <1>4, MetaMoves
<1>5. CASE Worker
    <2>1. jobs' = jobs /\ answers' = answers
        BY <1>1, <1>5, Worked
    <2> QED
        BY <1>1, <1>4, <1>5, <2>1, MetaFrame DEF Waiting
<1>6. CASE Crash
    <2>1. /\ row' = row
          /\ \A k \in Kinds : answers'[k] = IF jobs[k] = None THEN answers[k] ELSE Failure
        BY <1>1, <1>6, Crashed
    <2>2. row'.meta.ver >= row.meta.ver /\ row'.meta.ver <= row'.ver
        BY <1>2, <2>1
    <2> QED
        BY <1>1, <1>2, <1>3, <2>1, <2>2, MetaFrame DEF Waiting
<1>7. ASSUME NEW s \in Slots, Serve(s)
      PROVE  MetaInv'
    <2>1. row'.meta.ver \in Nat /\ row'.meta.ver >= row.meta.ver /\ row'.meta.ver <= row'.ver
        BY <1>4, <1>7
    <2>2. CASE \E pc, old : Went(s, pc, old)
        <3>1. answers' = answers /\ jobs'[s] # None /\ \A t \in Slots : t # s => jobs'[t] = jobs[t]
            BY <2>2 DEF Went
        <3>2. Waiting("asset") => Waiting("asset")'
            BY <1>2, <3>1 DEF Waiting
        <3> QED
            BY <1>1, <2>1, <3>1, <3>2, MetaFrame
    <2>3. ASSUME NEW ok, NEW b, Tells(s, ok, b)
          PROVE  MetaInv'
        <3>1. /\ jobs'[s] = None /\ \A t \in Slots : t # s => jobs'[t] = jobs[t]
              /\ s # "abandoned" => answers'[s] # None /\ answers'[s].ok = ok /\ answers'[s].body = b
              /\ \A k \in Kinds : k # s => answers'[k] = answers[k]
            BY <2>3 DEF Tells, Ended
        <3>2. Waiting("asset") => Waiting("asset")'
            BY <1>2, <3>1 DEF Waiting
        <3>3. \/ answers'["meta"] = answers["meta"]
              \/ ~answers'["meta"].ok \/ answers'["meta"].body.ver <= row'.meta.ver
            BY <1>2, <2>1, <2>3, <3>1 DEF Tells
        <3>4. answers'["asset"] = answers["asset"] \/ ~answers'["asset"].ok \/ answers'["asset"].body = row
            BY <1>2, <2>3, <3>1 DEF Tells
        <3> QED
            BY <1>1, <2>1, <3>2, <3>3, <3>4, MetaFrame
    <2> QED
        BY <1>7, <2>2, <2>3, HandlersVersion
<1>8. ASSUME NEW k \in Kinds, Lose(k)
      PROVE  MetaInv'
    <2>1. /\ row' = row /\ \A s \in Slots : s # k => jobs'[s] = jobs[s]
          /\ answers'[k] = Failure /\ \A l \in Kinds : l # k => answers'[l] = answers[l]
        BY <1>1, <1>8, Lost
    <2>2. row'.meta.ver >= row.meta.ver /\ row'.meta.ver <= row'.ver
        BY <1>2, <2>1
    <2> QED
        BY <1>1, <1>2, <1>3, <2>1, <2>2, MetaFrame DEF Waiting
<1>9. ASSUME NEW k \in Kinds, GiveUp(k)
      PROVE  MetaInv'
    <2>1. /\ row' = row /\ \A s \in Slots : s # k /\ s # "abandoned" => jobs'[s] = jobs[s]
          /\ answers'[k] = Failure /\ \A l \in Kinds : l # k => answers'[l] = answers[l]
        BY <1>1, <1>9, GivenUp
    <2>2. row'.meta.ver >= row.meta.ver /\ row'.meta.ver <= row'.ver
        BY <1>2, <2>1
    <2> QED
        BY <1>1, <1>2, <1>3, <2>1, <2>2, MetaFrame DEF Waiting
<1> QED
    BY <1>1, <1>5, <1>6, <1>7, <1>8, <1>9 DEF ApiNext, AtWork

\* A step of the dashboard that does not tell it more of the video: a read of
\* it begins, or goes on.
LEMMA MetaQuiet ==
    ASSUME TypedInv, MetaInv, DetailMoves,
           detail'.cache["asset"].data = detail.cache["asset"].data,
           detail'.cache["asset"].error = detail.cache["asset"].error,
           Rereads \/ (meta' = meta /\ answers'["asset"] = answers["asset"])
    PROVE  MetaInv'
<1>1. /\ "asset" \in Kinds /\ "asset" \in Slots /\ "meta" \in Kinds /\ row.meta.ver \in Nat
      /\ row.meta.ver <= row.ver
    BY MetaTypes, ChangeTypes DEF MetaInv
<1>2. /\ row' = row /\ \A k \in Kinds : answers'[k] = answers[k] \/ answers'[k] = None
      /\ \A s \in Slots : jobs'[s] = jobs[s] \/ jobs'[s] # None
    BY DEF DetailMoves, Asks, Hears
<1>3. Waiting("asset") => Waiting("asset")'
    BY <1>1, <1>2 DEF Waiting, Rereads
<1>4. row'.meta.ver \in Nat /\ row'.meta.ver >= row.meta.ver /\ row'.meta.ver <= row'.ver
    BY <1>1, <1>2
<1> QED
    BY <1>1, <1>2, <1>3, <1>4, MetaFrame

LEMMA MetaBegins ==
    ASSUME meta \in [ver : Nat, raced : BOOLEAN], NEW k, NEW yes \in BOOLEAN, Begins(k, yes)
    PROVE  IF k = "asset" /\ yes THEN meta' = [meta EXCEPT !.raced = FALSE] ELSE meta' = meta
BY DEF Begins

\* The page invalidates the video and hears of a change of its own.
LEMMA MetaHeard ==
    ASSUME TypedInv, MetaInv, DetailMoves, NEW k \in Versioned, NEW ks \in SUBSET Pages, "asset" \in ks,
           NEW ver, Own(ver), NEW js, js = Invalidate(jobs, ks), jobs' = js,
           answers' = Heard(Dropped(answers, ks), k),
           detail'.cache["asset"].data = detail.cache["asset"].data,
           detail'.cache["asset"].error = detail.cache["asset"].error
    PROVE  MetaInv'
<1>1. /\ "asset" \in Kinds /\ "asset" \in Slots /\ Jobs(jobs) /\ Answers(answers) /\ k # "asset" /\ k \in Kinds
    BY ChangeTypes
<1>2. /\ Answers(Dropped(answers, ks))
      /\ Dropped(answers, ks)["asset"] = IF OnVideo THEN None ELSE answers["asset"]
    BY <1>1, DroppedAnswers DEF OnVideo
<1>3. answers'["asset"] = IF OnVideo THEN None ELSE answers["asset"]
    BY <1>1, <1>2, HeardOne
<1>4. IF OnVideo THEN meta' = [meta EXCEPT !.raced = FALSE] ELSE meta' = meta
    <2>1. OnVideo \in BOOLEAN
        BY DEF OnVideo
    <2> QED
        BY <2>1, MetaBegins DEF Own, MetaInv
<1>5. OnVideo => jobs'["asset"] # None
    <2>1. OnVideo => jobs'["asset"] = Asked("asset", None)
        BY <1>1, InvalidateAsks DEF OnVideo
    <2>2. Asked("asset", None) # None
        BY <1>1, AskedIs, DashboardKinds DEF Pages
    <2> QED
        BY <2>1, <2>2
<1>6. Rereads \/ (meta' = meta /\ answers'["asset"] = answers["asset"])
    BY <1>3, <1>4, <1>5 DEF Rereads
<1> QED
    BY <1>6, MetaQuiet

\* The page hears of the metadata it saved.
LEMMA MetaShown ==
    ASSUME TypedInv, MetaInv, DetailMoves, MetaSaved
    PROVE  MetaInv'
<1>1. /\ detail \in DetailType /\ Detailed(detail) /\ Answers(answers) /\ detail.cache["asset"] \in Entry
      /\ "asset" \in Kinds /\ "meta" \in Kinds /\ "meta" # "asset" /\ "asset" \in Pages
    BY ChangeTypes, MetaTypes DEF Pages
<1>2. answers' = Heard(answers, "meta") /\ jobs' = jobs /\ row' = row
    BY DEF MetaSaved, DetailMoves
<1>3. answers'["meta"] = None /\ answers'["asset"] = answers["asset"]
    BY <1>1, <1>2, HeardOne
<1>4. CASE ~(answers["meta"].ok /\ Shown("asset") # None)
    BY <1>3, <1>4, MetaQuiet DEF MetaSaved
<1>5. CASE answers["meta"].ok /\ Shown("asset") # None
    <2> DEFINE b == answers["meta"].body
               w == Waiting("asset")
    <2>1. Accepted("meta") /\ b \in Tagged /\ b.ver \in Nat /\ b.ver <= row.meta.ver
        BY <1>5, MetaTypes DEF MetaSaved, Accepted, MetaInv
    <2>2. meta' = [ver |-> b.ver, raced |-> w] /\ w \in BOOLEAN
        BY <1>5 DEF MetaSaved, Waiting
    <2>3. detail'.cache["asset"].data.meta = b
        <3>1. detail' = [detail EXCEPT !.cache["asset"].data.meta = b]
            BY <1>5 DEF MetaSaved
        <3>2. detail.cache["asset"].data \in Row
            BY <1>1, <1>5 DEF Shown, Cache, Detailed
        <3> HIDE DEF b
        <3>3. detail'.cache["asset"] = [detail.cache["asset"] EXCEPT !.data.meta = b]
            BY <1>1, <3>1, <3>2 DEF DetailType
        <3>4. detail'.cache["asset"].data = [detail.cache["asset"].data EXCEPT !.meta = b]
            BY <1>1, <3>3 DEF Entry
        <3> QED
            BY <3>2, <3>4 DEF Row
    <2>4. w => Waiting("asset")'
        BY <1>2, <1>3 DEF Waiting
    <2>5. Accepted("asset")' => w
        BY <1>3 DEF Accepted, Waiting
    <2>6. meta' \in [ver : Nat, raced : BOOLEAN] /\ meta'.ver = b.ver /\ meta'.raced = w
        BY <2>1, <2>2
    <2>7. row'.meta.ver <= row'.ver /\ ~Accepted("meta")'
        BY <1>2, <1>3 DEF MetaInv, Accepted
    <2> HIDE DEF b, w
    <2> QED
        BY <1>2, <2>1, <2>3, <2>5, <2>6, <2>7 DEF MetaInv
<1> QED
    BY <1>4, <1>5

LEMMA MetaRead ==
    ASSUME TypedInv, MetaInv, DetailMoves, NEW k \in Pages, Fetched(k)
    PROVE  MetaInv'
<1>1. /\ detail \in DetailType /\ Answers(answers) /\ detail.cache["asset"] \in Entry
      /\ "asset" \in Kinds /\ "meta" \in Kinds /\ "meta" # "asset" /\ "asset" \in Pages
    BY ChangeTypes, MetaTypes DEF Pages
<1>2. answers' = Heard(answers, k) /\ meta' = meta /\ row' = row /\ k \in Kinds
    BY DashboardKinds DEF Fetched, DetailMoves
<1>3. answers'[k] = None /\ \A l \in Kinds : l # k => answers'[l] = answers[l]
    BY <1>1, <1>2, HeardOne
<1>4. CASE k # "asset"
    <2>1. detail'.cache["asset"] = detail.cache["asset"]
        BY <1>1, <1>4 DEF Fetched, DetailType
    <2> QED
        BY <1>1, <1>2, <1>3, <1>4, <2>1, MetaQuiet
<1>5. CASE k = "asset"
    <2>1. ~Accepted("asset")' /\ (Accepted("meta")' => Accepted("meta") /\ answers'["meta"] = answers["meta"])
        BY <1>1, <1>3, <1>5 DEF Accepted
    <2>2. \/ answers["asset"].ok /\ detail'.cache["asset"].data = answers["asset"].body
          \/ detail'.cache["asset"].error
        BY <1>1, <1>5 DEF Fetched, DetailType, Entry
    <2>3. answers["asset"] # None
        BY <1>5 DEF Fetched
    <2> QED
        BY <1>2, <2>1, <2>2, <2>3 DEF MetaInv, Accepted
<1> QED
    BY <1>4, <1>5

LEMMA MetaAnswered ==
    ASSUME TypedInv, MetaInv, DetailMoves, DetailAnswered
    PROVE  MetaInv'
<1>1. /\ detail \in DetailType /\ Detailed(detail) /\ Jobs(jobs) /\ Answers(answers)
      /\ detail.cache["asset"] \in Entry /\ "asset" \in Kinds /\ "asset" \in Slots /\ "asset" \in Pages
    BY ChangeTypes DEF Pages
<1>2. CASE Processed
    <2>1. "process" \in Versioned /\ "process" \in Kinds /\ Pages \in SUBSET Pages
        BY ChangeTypes DEF Versioned
    <2>2. CASE answers["process"].ok
        <3>1. /\ Own(answers["process"].body) /\ jobs' = Invalidate(jobs, Pages)
              /\ answers' = Heard(Dropped(answers, Pages), "process") /\ detail' = Stale(detail, Pages)
            BY <1>2, <2>2 DEF Processed
        <3>2. /\ detail'.cache["asset"].data = detail.cache["asset"].data
              /\ detail'.cache["asset"].error = detail.cache["asset"].error
            BY <1>1, <2>1, <3>1, StaleDetail
        <3> QED
            BY <1>1, <2>1, <3>1, <3>2, MetaHeard
    <2>3. CASE ~answers["process"].ok
        <3>1. detail'.cache = detail.cache
            BY <1>1, <1>2, <2>3 DEF Processed, DetailType
        <3>2. answers' = Heard(answers, "process") /\ meta' = meta
            BY <1>2, <2>3 DEF Processed
        <3>3. answers'["asset"] = answers["asset"]
            BY <1>1, <2>1, <3>2, HeardOne
        <3> QED
            BY <3>1, <3>2, <3>3, MetaQuiet
    <2> QED
        BY <2>2, <2>3
<1>3. CASE Deleted
    <2>1. "delete" \in Kinds /\ {"assets"} \in SUBSET Pages
        BY PageKinds, KindsDiffer DEF Pages
    <2>2. CASE answers["delete"].ok
        <3>1. meta' = meta /\ answers' = Heard(Dropped(answers, {"assets"}), "delete")
            BY <1>3, <2>2 DEF Deleted
        <3>2. answers'["asset"] = answers["asset"]
            <4>1. /\ Answers(Dropped(answers, {"assets"}))
                  /\ Dropped(answers, {"assets"})["asset"] = answers["asset"]
                BY <1>1, <2>1, DroppedAnswers
            <4> QED
                BY <1>1, <2>1, <3>1, <4>1, HeardOne
        <3>3. detail'.cache["asset"] = detail.cache["asset"]
            BY <1>3, DeletedKeeps
        <3> QED
            BY <3>1, <3>2, <3>3, MetaQuiet
    <2>3. CASE ~answers["delete"].ok
        <3>1. answers' = Heard(answers, "delete") /\ meta' = meta /\ detail' = detail
            BY <1>3, <2>3 DEF Deleted
        <3>2. answers'["asset"] = answers["asset"]
            BY <1>1, <2>1, <3>1, HeardOne
        <3> QED
            BY <3>1, <3>2, MetaQuiet
    <2> QED
        BY <2>2, <2>3
<1>4. ASSUME NEW k \in {"settings"} \cup Thumbs, DialogSaved(k)
      PROVE  MetaInv'
    <2>1. k \in Versioned /\ k \in Kinds /\ k # "asset" /\ {"asset"} \in SUBSET Pages
        BY ChangeTypes DEF Versioned, Pages, Thumbs
    <2>2. CASE answers[k].ok
        <3>1. /\ Own(answers[k].body) /\ jobs' = Invalidate(jobs, {"asset"})
              /\ answers' = Heard(Dropped(answers, {"asset"}), k)
            BY <1>4, <2>2 DEF DialogSaved
        <3>2. /\ detail'.cache["asset"].data = detail.cache["asset"].data
              /\ detail'.cache["asset"].error = detail.cache["asset"].error
            BY <1>4, SavedKeeps
        <3> QED
            BY <2>1, <3>1, <3>2, MetaHeard
    <2>3. CASE ~answers[k].ok
        <3>1. answers' = Heard(answers, k) /\ meta' = meta /\ detail' = detail
            BY <1>4, <2>3 DEF DialogSaved
        <3>2. answers'["asset"] = answers["asset"]
            BY <1>1, <2>1, <3>1, HeardOne
        <3> QED
            BY <3>1, <3>2, MetaQuiet
    <2> QED
        BY <2>2, <2>3
<1> QED
    BY <1>2, <1>3, <1>4, MetaRead, MetaShown DEF DetailAnswered

\* A read that begins finds what the page has heard of.
LEMMA MetaAsked ==
    ASSUME TypedInv, MetaInv, DetailMoves, NEW k \in Pages, NEW yes \in BOOLEAN, Begins(k, yes),
           yes => jobs' = Ask(jobs, k) /\ answers[k] = None,
           answers' = answers, detail'.cache = detail.cache
    PROVE  MetaInv'
<1>1. IF k = "asset" /\ yes THEN meta' = [meta EXCEPT !.raced = FALSE] ELSE meta' = meta
    BY MetaBegins DEF MetaInv
<1>2. k = "asset" /\ yes => jobs'["asset"] # None /\ answers'["asset"] = None
    BY AskOnce, ChangeTypes
<1>3. Rereads \/ (meta' = meta /\ answers'["asset"] = answers["asset"])
    BY <1>1, <1>2 DEF Rereads
<1> QED
    BY <1>3, MetaQuiet

LEMMA MetaActed ==
    ASSUME TypedInv, MetaInv, DetailMoves, NEW n,
           DetailEnd \/ (\E k \in Pages : Poll(k)) \/ DetailInput(n)
    PROVE  MetaInv'
<1>1. detail \in DetailType
    BY ChangeTypes
<1>2. ASSUME NEW k \in Pages, Refetch(k)
      PROVE  MetaInv'
    BY <1>2, MetaAsked DEF Refetch, Waiting
<1>3. ASSUME NEW k \in Pages, Navigate(k)
      PROVE  MetaInv'
    <2>1. detail'.cache = detail.cache
        BY <1>1, <1>3 DEF Navigate, Visit, DetailType
    <2>2. (Cache(k).stale /\ ~Waiting(k)) \in BOOLEAN
        BY <1>1 DEF Cache, Waiting, DetailType, Entry
    <2> QED
        BY <1>3, <2>1, <2>2, MetaAsked DEF Navigate, Visit, Waiting, Cache
<1>4. CASE Show
    <2>1. detail'.cache = detail.cache /\ detail.route \in Pages
        BY <1>1, <1>4 DEF Show, DetailType, Pages
    <2>2. (~Waiting(detail.route)) \in BOOLEAN
        BY DEF Waiting
    <2> QED
        BY <1>4, <2>1, <2>2, MetaAsked DEF Show, Waiting
<1>5. CASE UNCHANGED <<answers, meta>> /\ detail'.cache = detail.cache
    BY <1>5, MetaQuiet
<1>6. CASE DetailEnd \/ (\E k \in Pages : Poll(k))
    <2>1. CASE CancelAi \/ CloseDialog
        BY <1>1, <1>5, <2>1 DEF CancelAi, CloseDialog, DetailType
    <2> QED
        BY <1>2, <1>4, <1>6, <2>1 DEF DetailEnd, Poll
<1>7. CASE DetailInput(n)
    <2>1. CASE \E k \in Pages : RetryRead(k) \/ Navigate(k)
        BY <1>2, <1>3, <2>1 DEF RetryRead
    <2>2. CASE ~\E k \in Pages : RetryRead(k) \/ Navigate(k)
        BY <1>1, <1>5, <1>7, <2>2 DEF DetailInput, Hide, SaveMeta, AskAi, Process, AskDelete, Delete,
           OpenSettings, OpenThumb, ResetThumb, Upload, SaveSettings, DetailType
    <2> QED
        BY <2>1, <2>2
<1> QED
    BY <1>6, <1>7

LEMMA MetaKept ==
    ASSUME TypedInv, MetaInv, [Next]_vars
    PROVE  MetaInv'
<1>1. /\ "asset" \in Kinds /\ "asset" \in Slots /\ "meta" \in Kinds /\ row.meta.ver \in Nat
      /\ row.meta.ver <= row.ver
    BY MetaTypes, ChangeTypes DEF MetaInv
<1>2. CASE Managing
    <2>1. DetailMoves
        BY <1>2, ManagingMoves
    <2> QED
        BY <1>2, <2>1, MetaAnswered, MetaActed DEF Managing
<1>3. ASSUME row' = row, UNCHANGED <<detail, meta>>, jobs'["asset"] = jobs["asset"],
             answers'["asset"] = answers["asset"],
             answers'["meta"] = answers["meta"] \/ answers'["meta"] = None
      PROVE  MetaInv'
    <2>1. row'.meta.ver >= row.meta.ver /\ row'.meta.ver <= row'.ver /\ row'.meta.ver \in Nat
        BY <1>1, <1>3
    <2>2. Waiting("asset") => Waiting("asset")'
        BY <1>3 DEF Waiting
    <2> QED
        BY <1>3, <2>1, <2>2, MetaFrame
<1>4. CASE Watching
    <2>1. WatchMoves /\ UNCHANGED <<detail, meta>>
        BY <1>4, WatchingMoves DEF Watching
    <2>2. "asset" \notin WatchKinds
        BY PageKinds, KindsDiffer DEF WatchKinds
    <2> QED
        BY <1>1, <1>3, <2>1, <2>2 DEF WatchMoves, Asks, Hears
<1>5. CASE Setting \/ UNCHANGED vars
    <2>1. UNCHANGED <<row, jobs, answers, detail, meta>>
        BY <1>5 DEF Setting, vars, api
    <2> QED
        BY <1>3, <2>1
<1> QED
    BY <1>2, <1>4, <1>5, MetaServed DEF Next

LEMMA InitMeta == Init => MetaInv
<1> SUFFICES ASSUME Init PROVE MetaInv
    OBVIOUS
<1>1. PICK sent, status : \E w, d, p \in BOOLEAN : Opening(sent, status, w, d, p)
    BY Opens
<1>2. PICK w \in BOOLEAN, d \in BOOLEAN, p \in BOOLEAN : Opening(sent, status, w, d, p)
    BY <1>1
<1>3. meta = [ver |-> 0, raced |-> FALSE] /\ detail.cache["asset"].data = None
    BY <1>2, DetailOpened DEF Opening, Pages
<1>4. row.ver = 0 /\ row.meta.ver = 0 /\ \A k \in Kinds : answers[k] = None
    BY <1>2, ApiOpened DEF Opening
<1>5. "asset" \in Kinds /\ "meta" \in Kinds
    BY InitTyped, MetaTypes, ChangeTypes
<1> QED
    BY <1>3, <1>4, <1>5 DEF MetaInv, Accepted

LEMMA ChangesShown == ChangeInv /\ MetaInv => OwnChangesShown
BY DEF ChangeInv, MetaInv, OwnChangesShown, OnVideo, Video, Shown, Cache

-----------------------------------------------------------------------------
(* The theorems.                                                            *)

LEMMA LookShown == SettingInv => SettingsShown
<1> SUFFICES ASSUME SettingInv, page.view # "closed", \A f \in Flows \ ({"org"} \cup Renames) : flow[f] = None,
                    "shown" \notin store.torn
             PROVE  page.look = store.look /\ page.logo = store.logo
    BY DEF SettingsShown
<1>1. \A f \in Readers : flow[f] = None
    BY DEF Readers
<1> QED
    BY <1>1 DEF SettingInv, ShownInv, Written2, Reading

LEMMA DismissedUnsent == TypedInv /\ WritingInv => DismissedNeverPosted
<1> SUFFICES ASSUME TypedInv, WritingInv, NEW n \in dismissed
             PROVE  n \notin Bodies /\ (jobs["react"] # None => jobs["react"].arg.body # n)
    BY DEF DismissedNeverPosted
<1>1. ~Sent(n)
    BY DEF WritingInv
<1>2. jobs["react"] # None => Commenting("react") /\ "react" \in Slots
    BY WritingTypes, SlotIs DEF Commenting
<1> QED
    BY <1>1, <1>2 DEF Sent

PagesInv == TypedInv /\ SettingInv /\ ThumbInv /\ WritingInv /\ EditInv /\ ChangeInv /\ MetaInv

LEMMA InitPages == Init => PagesInv
BY InitTyped, InitThumb, InitWriting, InitEdit, InitChange, InitMeta DEF PagesInv

\* Every step keeps each part of the invariant: the parts about pictures,
\* writing, edits and changes rest on the types and on the settings page's.
LEMMA AlwaysPages == Spec => []PagesInv
<1>1. Init => PagesInv
    BY InitPages
<1>2. PagesInv /\ [Next]_vars => PagesInv'
    BY TypedKept, SettingInvKept, ThumbKept, WritingKept, EditKept, ChangeKept, MetaKept DEF PagesInv
<1> QED
    BY <1>1, <1>2, PTL DEF Spec

\* The pictures that rows name, a thumbnail or a logo, are in the bucket, but
\* while a removal is about to forget one, or after one was cut off just there
\* (assets.ts, settings.ts).
THEOREM PagesPictures == Spec => []PicturesThere
<1>1. PagesInv => PicturesThere
    BY DEF PagesInv, ThumbInv, SettingInv, LogoInv, PicturesThere
<1> QED
    BY <1>1, AlwaysPages, PTL

\* A comment on its way, or refused, stays in the box until it is stored, a
\* name in its editor; and a reaction dismissed with its dialog is never sent.
THEOREM PagesWriting == Spec => []WritingNeverLost
<1>1. PagesInv => WritingNeverLost
    BY DismissedUnsent DEF PagesInv, WritingInv, SettingInv, NameInv, WritingNeverLost
<1> QED
    BY <1>1, AlwaysPages, PTL

\* With nothing on its way the public page shows the chapters and the
\* transcript that are stored, and the settings page the look and the logo,
\* unless two writes overlapped or the end of one was not heard.
THEOREM PagesStored == Spec => []PagesShowStored
<1>1. PagesInv => PagesShowStored
    BY EditsShown, LookShown DEF PagesInv, PagesShowStored
<1> QED
    BY <1>1, AlwaysPages, PTL

\* A page of a video that has heard of its own changes shows a row at least
\* as new, whichever polls, retries and invalidations raced with them; the
\* metadata it saved itself too, but by the answer to a read that was under way
\* when it heard of them (VideoDetailPage.tsx).
THEOREM PagesOwnChanges == Spec => []OwnChangesShown
<1>1. PagesInv => OwnChangesShown
    BY ChangesShown DEF PagesInv
<1> QED
    BY <1>1, AlwaysPages, PTL

=============================================================================
