---------------------------- MODULE SettingsPage ----------------------------
(***************************************************************************)
(* The dashboard's settings page (pages/SettingsPage.tsx, the provider of  *)
(* lib/settings-context.tsx) with routes/settings.ts and the renaming of   *)
(* the organization behind it.  Colour, theme and the two defaults of the  *)
(* AI travel together, in one value: the look.  A look, a name is the      *)
(* number of the input that made it, a logo its extension.                 *)
(*                                                                         *)
(* What the page has on its way are flows: a write with the read that      *)
(* follows it, one handler after the other.  A write the page has given up *)
(* on goes on as a late one, which nobody hears of.                        *)
(***************************************************************************)
EXTENDS VideoApi

CONSTANTS
    Exts,            \* extensions of a logo
    Removals         \* clicks on Remove that may be on their way at once

VARIABLES store, page, flow

settings == <<store, page, flow>>

Late == {"late save", "late upload", "late rename", "late removal"}
FixedFlows == {"mount", "save", "upload", "rename", "org"} \cup Late
Flows == FixedFlows \cup Removals
Saves     == {"save", "late save"}
Uploads   == {"upload", "late upload"}
Renames   == {"rename", "late rename"}
Deletions == Removals \cup {"late removal"}
Logos == Uploads \cup Deletions
Mine  == {"save", "upload", "rename"} \cup Removals
GoOn(f) == CASE f = "save" -> "late save" [] f = "upload" -> "late upload"
             [] f = "rename" -> "late rename" [] OTHER -> "late removal"

\* The look of a new row (DEFAULT_SETTINGS) and the one that is stored.
Default == 0
FirstLook == -1
\* The section when it mounts.
Opened(view, admin) ==
    [view |-> view, admin |-> admin, look |-> Default, logo |-> None, draft |-> Default,
     name |-> None, editing |-> FALSE, text |-> 0, meant |-> {}]

\* A logo has been uploaded before. The row exists: the first read made it.
\* For the properties: named, the names stored so far; torn, the parts left in
\* doubt; meant, the names typed and not cancelled.
SettingsInit(open) ==
    /\ store = [look |-> FirstLook, logo |-> CHOOSE e \in Exts : TRUE, name |-> 0,
                files |-> {CHOOSE e \in Exts : TRUE}, named |-> {}, torn |-> {}]
    /\ \E admin \in {FALSE, open} : page = Opened(IF open THEN "loading" ELSE "closed", admin)
    /\ flow = [f \in Flows |-> IF open /\ f \in {"mount", "org"}
                                THEN [pc |-> "reading", arg |-> None, got |-> None] ELSE None]

-----------------------------------------------------------------------------
(* The handlers.  A flow is sent, looked (its row has been read), put or   *)
(* dropped (an object), ok or fail; reading, got or unread.                *)

On(f, fs, pc) == flow[f] # None /\ f \in fs /\ flow[f].pc = pc
To(f, pc) == flow' = [flow EXCEPT ![f].pc = pc]
Took(f, pc, body) == flow' = [flow EXCEPT ![f].pc = pc, ![f].got = body]

\* ensureSettingsRow; assertRole; DELETE of a logo that is not there.
LookUp(f) ==
    /\ On(f, Flows, "sent")
    /\ IF f \in Renames /\ ~page.admin THEN To(f, "fail")
       ELSE IF f \in Deletions /\ store.logo = None THEN To(f, "ok")
       ELSE Took(f, "looked", IF f \in Deletions THEN store.logo ELSE None)
    /\ UNCHANGED store

\* PATCH /v1/settings, PATCH /v1/orgs/:orgId
Patch(f) ==
    /\ On(f, Saves \cup Renames, "looked")
    /\ store' = IF f \in Saves THEN [store EXCEPT !.look = flow[f].arg]
                ELSE [store EXCEPT !.name = flow[f].arg, !.named = @ \cup {flow[f].arg}]
    /\ To(f, "ok")

\* Mistake: the row first, the object when it has gone well.
PutLogoLate(f) ==
    /\ On(f, Uploads, "looked")
    /\ store' = [store EXCEPT !.logo = flow[f].arg]
    /\ To(f, "put")
\* PUT /v1/settings/logo: the object, then the row that names it.
PutLogo(f) ==
    /\ On(f, Uploads, "looked")
    /\ store' = [store EXCEPT !.files = @ \cup {flow[f].arg}]
    /\ To(f, "put")
NameLogo(f) ==
    /\ On(f, Uploads, "put")
    /\ store' = [store EXCEPT !.logo = flow[f].arg]
    /\ To(f, "ok")

\* DELETE /v1/settings/logo: the object that the row named, then the row.
DeleteLogo(f) ==
    /\ On(f, Deletions, "looked")
    /\ store' = [store EXCEPT !.files = @ \ {flow[f].got}]
    /\ To(f, "dropped")
ForgetLogo(f) ==
    /\ On(f, Deletions, "dropped")
    /\ store' = [store EXCEPT !.logo = None]
    /\ To(f, "ok")

\* GET /v1/settings, GET /v1/orgs/:orgId
ReadBack(f) ==
    /\ On(f, Flows, "reading")
    /\ Took(f, "got", IF f = "org" THEN store.name
                      ELSE [look |-> store.look, logo |-> store.logo])
    /\ UNCHANGED store

Handle(f) == \/ LookUp(f) \/ Patch(f) \/ PutLogo(f) \/ NameLogo(f) \/ DeleteLogo(f)
             \/ ForgetLogo(f) \/ ReadBack(f)

Tear(parts) == store' = [store EXCEPT !.torn = @ \cup parts]

\* The page gives up on a request whose handler goes on.
Abandon(f) ==
    /\ f \in Mine /\ flow[f] # None /\ flow[GoOn(f)] = None
    /\ flow[f].pc \in {"sent", "looked", "put", "dropped"}
    /\ flow' = [flow EXCEPT ![f] = None, ![GoOn(f)] = flow[f]]
    /\ Tear(IF f = "rename" THEN {} ELSE {"shown"})

\* A request or its answer is lost, or the process dies under its handler.
Lapse(f) ==
    /\ flow[f] # None
    /\ \/ flow[f].pc \in {"sent", "looked", "put", "dropped", "ok"} /\ To(f, "fail")
       \/ flow[f].pc \in {"reading", "got"} /\ To(f, "unread")
    /\ Tear((IF f \in {"org"} \cup Renames THEN {} ELSE {"shown"})
              \cup (IF flow[f].pc = "dropped" THEN {"logo"} ELSE {}))

\* A colleague saves another look.
Elsewhere(n) ==
    /\ page.view # "closed"
    /\ store' = [store EXCEPT !.look = n, !.torn = @ \cup {"shown"}]
    /\ UNCHANGED <<page, flow>>

-----------------------------------------------------------------------------
(* The look and the logo.                                                  *)

Section == page.view = "ready"
Begin(f, arg) == flow' = [flow EXCEPT ![f] = [pc |-> "sent", arg |-> arg, got |-> None]]
Reading(f) == flow[f] # None /\ flow[f].pc \in {"reading", "got"}

\* handleColorChange, setTheme, the toggles
Draft(n) ==
    /\ Section
    /\ page' = [page EXCEPT !.draft = n]
    /\ UNCHANGED <<store, flow>>

\* save: the button is there when something changed. (A section that was
\* unmounted by an error of the page forgets that a save is on its way; the
\* model has one at a time.)
Save ==
    /\ Section /\ page.draft # page.look /\ flow["save"] = None
    /\ Begin("save", page.draft)
    /\ UNCHANGED <<store, page>>

\* uploadLogo, removeLogo. Nothing keeps one from overtaking the other.
Logo(f, arg) ==
    /\ Section /\ flow[f] = None
    /\ Begin(f, arg)
    /\ IF \E g \in Logos : flow[g] # None THEN Tear({"logo", "shown"}) ELSE UNCHANGED store
    /\ UNCHANGED page
PickLogo(e) == Logo("upload", e)
DropLogo(f) == page.logo # None /\ Logo(f, None)

\* Mistake: what was written is not read back.
ReadNextNever(f) == [flow EXCEPT ![f] = None]
\* await refetch()
ReadNext(f) == [flow EXCEPT ![f].pc = "reading"]

Written(f) ==
    /\ On(f, Mine \ {"rename"}, "ok")
    /\ flow' = ReadNext(f)
    /\ IF \E g \in Flows \ {f, "org"} : Reading(g) THEN Tear({"shown"}) ELSE UNCHANGED store
    /\ UNCHANGED page

\* The provider has new settings: the drafts are theirs, whoever was typing.
Got(f) ==
    /\ On(f, Flows \ {"org"}, "got")
    /\ page' = [page EXCEPT !.look = flow[f].got.look, !.logo = flow[f].got.logo,
                            !.draft = flow[f].got.look]
    /\ flow' = [flow EXCEPT ![f] = None]
    /\ UNCHANGED store

\* A write that failed is told; a read that failed is not, nor the end of a
\* write that was given up.
Missed(f) ==
    /\ \/ On(f, Flows \ {"org"}, "fail") \/ On(f, Flows \ {"org"}, "unread")
       \/ On(f, Late, "ok")
    /\ flow' = [flow EXCEPT ![f] = None]
    /\ UNCHANGED <<store, page>>

-----------------------------------------------------------------------------
(* The name of the organization, and the page around.                      *)

ReadOrg == [flow EXCEPT !["org"] = [pc |-> "reading", arg |-> None, got |-> None]]

\* 0 is a text that was left as it was, or nothing.
EditName(n) ==
    /\ Section /\ ~page.editing
    /\ page' = [page EXCEPT !.editing = TRUE, !.text = n, !.meant = @ \cup ({n} \ {0})]
    /\ UNCHANGED <<store, flow>>
\* Cancel, Escape: not while it is saved.
CancelName ==
    /\ Section /\ page.editing /\ flow["rename"] = None
    /\ page' = [page EXCEPT !.editing = FALSE, !.text = 0, !.meant = @ \ {page.text}]
    /\ UNCHANGED <<store, flow>>

\* Mistake: the editor closes when the name is sent.
SentNameClosed == [page EXCEPT !.editing = FALSE, !.text = 0]
\* It stays, disabled.
SentName == page

\* saveOrgName; a name that is the one shown just closes the editor.
SaveName ==
    /\ Section /\ page.editing /\ flow["rename"] = None
    /\ IF page.text \in {0, page.name}
         THEN /\ page' = [page EXCEPT !.editing = FALSE, !.text = 0]
              /\ UNCHANGED flow
         ELSE Begin("rename", page.text) /\ page' = SentName
    /\ UNCHANGED store
\* onSuccess: the mutation is pending until the page has been read again.
Renamed ==
    /\ On("rename", Flows, "ok")
    /\ page' = [page EXCEPT !.editing = FALSE, !.text = 0]
    /\ flow' = [ReadOrg EXCEPT !["rename"].pc = "refetch"]
    /\ UNCHANGED store

\* The first read, Retry, and the focus of the window.
ReadOrgAgain ==
    /\ page.view \in {"error", "ready"} /\ flow["org"] = None
    /\ flow' = ReadOrg
    /\ UNCHANGED <<store, page>>

\* The section is mounted again when the error is over.
OrgRead ==
    /\ On("org", Flows, "got") \/ On("org", Flows, "unread")
    /\ page' = IF flow["org"].pc = "unread" THEN [page EXCEPT !.view = "error"]
               ELSE [page EXCEPT !.view = "ready", !.name = flow["org"].got,
                                 !.draft = IF Section THEN @ ELSE page.look]
    /\ flow' = [f \in Flows |-> IF f = "org" \/ On(f, {"rename"}, "refetch") THEN None
                                ELSE flow[f]]
    /\ UNCHANGED store

SettingsAnswered ==
    \/ \E f \in Flows : Written(f) \/ Got(f) \/ Missed(f)
    \/ Renamed \/ OrgRead
SettingsEnd == CancelName
SettingsInput(n) ==
    \/ Draft(n) \/ Save \/ EditName(n) \/ EditName(0) \/ SaveName \/ ReadOrgAgain \/ Elsewhere(n)
    \/ \E e \in Exts : PickLogo(e)
    \/ \E f \in Removals : DropLogo(f)

-----------------------------------------------------------------------------
(* Properties of the page.                                                 *)

\* With nothing on its way the settings page shows what is stored, unless a
\* request was lost, two reads overlapped or somebody else saved.
SettingsShown ==
    (page.view # "closed" /\ \A f \in Flows \ ({"org"} \cup Renames) : flow[f] = None)
        => \/ "shown" \in store.torn
           \/ page.look = store.look /\ page.logo = store.logo

\* A name somebody has typed for the organization is in the editor or has been
\* stored, through refusals and requests nobody heard of, until he cancels.
NameNeverLost ==
    page.meant \subseteq store.named \cup (IF page.editing THEN {page.text} ELSE {})

\* The logo that the row names is in the bucket, but while a removal is about
\* to forget it, or after one was cut off there, or overlapped with another
\* change of the logo.
LogoThere ==
    \/ store.logo \in store.files \cup {None}
    \/ "logo" \in store.torn
    \/ \E f \in Deletions : On(f, Deletions, "dropped")

=============================================================================
