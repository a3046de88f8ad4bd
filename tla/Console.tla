------------------------------ MODULE Console ------------------------------
(***************************************************************************)
(* The session of the dashboard in one browser (apps/dashboard/src: App,   *)
(* lib/auth.ts, lib/api.ts, the sign-in, sign-up, invitation, reset and    *)
(* billing pages, SubscriptionGate, OrgSwitcher, Sidebar).  The tabs share *)
(* one token in localStorage; everything else - the expiry timer, the      *)
(* cached answer of /v1/auth/me, the calls in flight - belongs to a tab    *)
(* and lasts until the browser loads a page into it.  One tab is modelled; *)
(* the others are what they do to that token (Elsewhere...).               *)
(*                                                                         *)
(* Setting window.location only asks for that: the page runs on until the  *)
(* browser has loaded the next one (`to'), and answers still arrive.       *)
(* Tokens are numbered in the order they were minted, and as they all live *)
(* equally long they expire in that order.                                 *)
(***************************************************************************)
EXTENDS Integers, Sequences, SequencesExt

CONSTANTS
    Orgs,       \* organizations of the user
    MaxTokens,  \* bound: tokens minted
    MaxPolls    \* POLL_TIMEOUT_MS / POLL_INTERVAL_MS

ASSUME ConsoleAssumption ==
    /\ Orgs # {}
    /\ MaxTokens \in Nat \ {0} /\ MaxPolls \in Nat

VARIABLES
    orgOf,    \* the organization of each token minted
    expired,  \* how many tokens have expired
    revoked,  \* how many tokens the last password reset made void
    plan,     \* what the API says of each organization's subscription
    stored,   \* localStorage: a token, or 0
    tab       \* the tab

consoleVars == <<orgOf, expired, revoked, plan, stored, tab>>

-----------------------------------------------------------------------------
\* "grace" and "readonly" show the dashboard as "active" does, but for a banner.
Entitlements == {"pending", "active"}
PublicPages == {"login", "signup", "invite", "reset"}
Addresses == PublicPages \cup {"gate", "success", "cancel"}
Pages == Addresses \cup {"guard", "return", "away"}
Kinds == {"none", "login", "signup", "accept", "reset", "switch", "create", "billing", "page"}

NoRead == -1
NoMe == [org |-> "none", ent |-> "none"]
Idle == [kind |-> "none", with |-> 0, org |-> "none", target |-> "gate"]

Tokens == DOMAIN orgOf
Valid(token) == token > expired /\ token > revoked
isLoggedIn == stored > expired

Blank ==
    [page |-> "away", to |-> "none", from |-> "gate", timer |-> 0,
     me |-> NoMe, err |-> FALSE, read |-> NoRead, call |-> Idle,
     started |-> FALSE, loops |-> << >>, slow |-> FALSE,
     welcome |-> FALSE, blocked |-> FALSE, foreign |-> FALSE]

ConsoleTypeOK ==
    /\ orgOf \in Seq(Orgs) /\ Len(orgOf) <= MaxTokens
    /\ expired \in 0 .. Len(orgOf) /\ revoked \in 0 .. Len(orgOf)
    /\ plan \in [Orgs -> Entitlements]
    /\ stored \in 0 .. Len(orgOf)
    /\ tab.page \in Pages /\ tab.to \in Pages \cup {"none"}
    /\ tab.timer \in 0 .. Len(orgOf)
    /\ tab.me \in [org : Orgs, ent : Entitlements] \cup {NoMe}
    /\ tab.read \in NoRead .. Len(orgOf)
    /\ tab.call.kind \in Kinds /\ tab.call.with \in 0 .. Len(orgOf)
    /\ \A k \in DOMAIN tab.loops : tab.loops[k].left \in 0 .. MaxPolls

ConsoleInit ==
    /\ orgOf = << >> /\ expired = 0 /\ revoked = 0
    /\ plan \in [Orgs -> Entitlements]
    /\ stored = 0
    /\ tab = Blank

-----------------------------------------------------------------------------
(* What a tab shows, and what it does when that changes. *)

\* SubscriptionGate: a failed read is no billing verdict.
Screen(r) ==
    CASE r.page # "gate" -> r.page
      [] r.me = NoMe /\ ~r.err -> "spinner"
      [] r.me.ent = "pending" /\ ~r.err -> "paywall"
      [] OTHER -> "dashboard"

Here == Screen(tab)
Staying == tab.to = "none"

\* AuthGuard shows the sign-in page without a session: "guard" at the address
\* of the dashboard, "return" at that of the success page.
Guards == {"guard", "return"}
Address(page) ==
    CASE page = "guard" -> "gate"
      [] page = "return" -> "success"
      [] OTHER -> page

\* handleUnauthorized, without the token it drops.
Bounced(r) ==
    IF r.page \in PublicPages THEN [r EXCEPT !.timer = 0]
    ELSE [r EXCEPT !.timer = 0, !.to = "login",
            !.from = IF r.page = "away" THEN "gate" ELSE Address(r.page)]

Unauthorized(r) ==
    /\ stored' = 0
    /\ tab' = Bounced(r)

\* Mistake: the dashboard does not arm the timer of a session it finds.
ArmNever(r, token) == r

\* Sidebar and WelcomeToast mount: scheduleExpiryLogout, and the toast takes
\* its flag.
Arm(r, token) == [r EXCEPT !.timer = token, !.welcome = FALSE]

\* The tab goes on as r, with the given token stored.
TabBecomes(r, token) ==
    LET mounts == Screen(r) = "dashboard" /\ Here # "dashboard"
    IN  IF mounts /\ token \in 1 .. expired
          THEN Unauthorized(r)
          ELSE /\ stored' = token
               /\ tab' = IF mounts THEN Arm(r, token) ELSE r

\* navigate() to a page of the application: what the tab has read stays, and
\* so does a call in flight.
Entered(r, page) ==
    IF r.page = page THEN r ELSE
    [r EXCEPT !.page = page, !.started = FALSE, !.loops = << >>, !.slow = FALSE,
              !.blocked = FALSE, !.err = FALSE,
              !.read = IF page = "gate" /\ r.me = NoMe THEN stored ELSE @]

-----------------------------------------------------------------------------
(* Pages come and go. *)

\* An address typed, a bookmark, or Stripe sending the browser back.
Visit(page) ==
    /\ Staying /\ tab.page = "away"
    /\ tab' = [tab EXCEPT !.to = page, !.from = "gate"]
    /\ UNCHANGED <<orgOf, expired, revoked, plan, stored>>

Reload ==
    /\ Staying /\ tab.page # "away"
    /\ tab' = [tab EXCEPT !.to = Address(tab.page)]
    /\ UNCHANGED <<orgOf, expired, revoked, plan, stored>>

\* AuthGuard; the sign-in and sign-up pages send a session on instead.
Guarded(page, from) ==
    CASE page = "gate" /\ ~isLoggedIn -> "guard"
      [] page = "success" /\ ~isLoggedIn -> "return"
      [] page \in {"login", "signup"} /\ isLoggedIn -> from
      [] OTHER -> page

\* The guard signs in at the address it guards, which has no ?from=.
Load ==
    /\ ~Staying
    /\ LET r    == tab
           from == IF r.to \in {"gate", "success"} THEN "gate" ELSE r.from
       IN  tab' = [Entered(Blank, Guarded(r.to, from)) EXCEPT !.from = from,
                                                                !.welcome = r.welcome]
    /\ UNCHANGED <<orgOf, expired, revoked, plan, stored>>

\* A re-render of the sign-in or sign-up page finds a session.
SignedInElsewhere ==
    /\ Staying /\ tab.page \in {"login", "signup"} \cup Guards /\ isLoggedIn
    /\ TabBecomes(Entered(tab, tab.from), stored)
    /\ UNCHANGED <<orgOf, expired, revoked, plan>>

\* The links of the public pages, and of the page after a cancelled Checkout.
Link(page) ==
    /\ Staying
    /\ \/ tab.page \in {"invite", "reset", "signup"} /\ page = "login"
       \/ tab.page \in {"login"} \cup Guards /\ page = "signup"
       \/ tab.page = "cancel" /\ page = "gate"
    /\ LET next == Guarded(page, "gate")
       IN  TabBecomes(Entered([tab EXCEPT !.from = "gate"], next), stored)
    /\ UNCHANGED <<orgOf, expired, revoked, plan>>

\* The button is next to the name of the user.
Logout ==
    /\ Staying /\ Here = "dashboard" /\ tab.me # NoMe
    /\ stored' = 0
    /\ tab' = [tab EXCEPT !.timer = 0, !.to = "login", !.from = "gate"]
    /\ UNCHANGED <<orgOf, expired, revoked, plan>>

\* The timer: MAX_TIMEOUT_MS is longer than a token lives.
TimerFires ==
    /\ tab.timer \in 1 .. expired
    /\ Unauthorized(tab)
    /\ UNCHANGED <<orgOf, expired, revoked, plan>>

-----------------------------------------------------------------------------
(* /v1/auth/me. *)

MeOf(token) == [org |-> orgOf[token], ent |-> plan[orgOf[token]]]

\* A stale answer is read again when the window gets the focus.
Refetch ==
    /\ Staying /\ tab.page = "gate" /\ tab.read = NoRead
    /\ tab' = [tab EXCEPT !.read = stored]
    /\ UNCHANGED <<orgOf, expired, revoked, plan, stored>>

MeAnswered ==
    /\ tab.read # NoRead
    /\ LET r == [tab EXCEPT !.read = NoRead]
       IN  IF Valid(tab.read)
             THEN TabBecomes([r EXCEPT !.me = MeOf(tab.read), !.err = FALSE], stored)
             ELSE Unauthorized([r EXCEPT !.err = TRUE])
    /\ UNCHANGED <<orgOf, expired, revoked, plan>>

MeLost ==
    /\ tab.read # NoRead
    /\ TabBecomes([tab EXCEPT !.read = NoRead, !.err = TRUE], stored)
    /\ UNCHANGED <<orgOf, expired, revoked, plan>>

-----------------------------------------------------------------------------
(* The forms and buttons: one call at a time on a page (`loading',            *)
(* `switching', isPending), and here in a tab.  "page" stands for every other *)
(* call of a dashboard page.                                                  *)

KindsHere ==
    CASE Here \in {"login", "return"} -> {"login"}
      [] Here = "guard" -> {"login", "page"}
      [] Here = "signup" -> {"signup"}
      [] Here = "invite" -> {"accept"}
      [] Here = "reset" -> {"reset"}
      [] Here \in {"paywall", "cancel"} -> {"billing"}
      [] Here = "dashboard" ->
           {"switch", "create", "page"} \cup (IF tab.blocked THEN {"billing"} ELSE {})
      [] OTHER -> {}

\* OrgSwitcher has nothing to switch from without a token, and offers the
\* other organizations.
Offered(kind) ==
    CASE kind = "switch" -> IF stored = 0 THEN {} ELSE Orgs \ {orgOf[stored]}
      [] kind \in {"login", "signup", "accept"} -> Orgs
      [] kind = "create" -> IF stored = 0 THEN {} ELSE Orgs
      [] OTHER -> {"none"}

\* The answer to the public calls does not depend on the token they carry.
Submit(kind) ==
    /\ Staying /\ tab.call = Idle
    /\ kind \in KindsHere
    /\ \E org \in Offered(kind) :
         tab' = [tab EXCEPT !.call =
                   [kind |-> kind, org |-> org,
                    with |-> IF kind \in {"login", "signup", "accept", "reset"} THEN 0 ELSE stored,
                    target |-> IF kind \in {"login", "signup"} THEN tab.from ELSE "gate"]]
    /\ UNCHANGED <<orgOf, expired, revoked, plan, stored>>

\* The page that sends each of the calls that bring a token.
PagesOf == [login |-> {"login"} \cup Guards, signup |-> {"signup"}, accept |-> {"invite"},
            switch |-> {"gate"}, create |-> {"gate"}]

\* The answer brings a token, to a page that may have been left: setToken arms
\* the timer before the page moves.
Minted(org, r(_)) ==
    /\ Len(orgOf) < MaxTokens
    /\ orgOf' = Append(orgOf, org)
    /\ LET new  == Len(orgOf) + 1
           mine == [r(tab) EXCEPT !.timer = new, !.call = Idle,
                      !.foreign = @ \/ tab.page \notin PagesOf[tab.call.kind]]
       IN  /\ stored' = new
           /\ tab' = mine
    /\ UNCHANGED <<expired, revoked, plan>>

\* navigate(): the gate has read nothing yet, so it reads under the new token.
OnTo(page, r) ==
    [Entered(r, page) EXCEPT !.read = IF page = "gate" /\ r.me = NoMe THEN Len(orgOf) + 1 ELSE @]

\* window.location.href.
LeaveFor(page, r) == [r EXCEPT !.to = page]

SignedIn ==
    /\ tab.call.kind = "login"
    /\ Minted(tab.call.org, LAMBDA r : OnTo(r.call.target, r))

Accepted ==
    /\ tab.call.kind = "accept"
    /\ Minted(tab.call.org, LAMBDA r : OnTo("gate", r))

SignedUp ==
    /\ tab.call.kind = "signup"
    /\ \/ Minted(tab.call.org, LAMBDA r : LeaveFor("away", r))
       \/ Minted(tab.call.org, LAMBDA r : OnTo(r.call.target, r))

Switched ==
    /\ tab.call.kind = "switch" /\ Valid(tab.call.with)
    /\ Minted(tab.call.org, LAMBDA r : LeaveFor("gate", r))

Created ==
    /\ tab.call.kind = "create" /\ Valid(tab.call.with)
    /\ \E page \in {"away", "gate"} :
         Minted(tab.call.org, LAMBDA r : LeaveFor(page, r))

\* The API makes every token of the user void.
PasswordReset ==
    /\ tab.call.kind = "reset"
    /\ revoked' = Len(orgOf)
    /\ tab' = [tab EXCEPT !.call = Idle]
    /\ UNCHANGED <<orgOf, expired, plan, stored>>

\* Checkout or the portal: redirectTo.
ToStripe ==
    /\ tab.call.kind = "billing" /\ Valid(tab.call.with)
    /\ tab' = [tab EXCEPT !.to = "away", !.call = Idle]
    /\ UNCHANGED <<orgOf, expired, revoked, plan, stored>>

\* A page's call, answered; 402, of a quota say, raises the modal and reads
\* `me' again.
PageAnswered ==
    /\ tab.call.kind = "page" /\ Valid(tab.call.with)
    /\ LET r == [tab EXCEPT !.call = Idle]
       IN  \/ /\ plan[orgOf[tab.call.with]] = "active" \/ tab.page # "gate"
              /\ tab' = r
           \/ /\ tab.page = "gate"
              /\ tab' = [r EXCEPT !.blocked = TRUE,
                                  !.read = IF @ = NoRead THEN stored ELSE @]
    /\ UNCHANGED <<orgOf, expired, revoked, plan, stored>>

DismissModal ==
    /\ tab.blocked
    /\ tab' = [tab EXCEPT !.blocked = FALSE]
    /\ UNCHANGED <<orgOf, expired, revoked, plan, stored>>

\* 401, of whatever token the call was sent with.
CallRefused ==
    /\ tab.call.kind \in {"switch", "create", "billing", "page"}
    /\ ~Valid(tab.call.with)
    /\ Unauthorized([tab EXCEPT !.call = Idle])
    /\ UNCHANGED <<orgOf, expired, revoked, plan>>

CallFails ==
    /\ tab.call.kind # "none"
    /\ tab' = [tab EXCEPT !.call = Idle]
    /\ UNCHANGED <<orgOf, expired, revoked, plan, stored>>

-----------------------------------------------------------------------------
(* /billing/success: sync, then poll. *)

Run == [pc |-> "sync", left |-> MaxPolls, with |-> stored]

\* Mistake: an effect without startedRef.
EffectAgain ==
    /\ Len(tab.loops) < 2
    /\ tab' = [tab EXCEPT !.loops = Append(@, Run)]

\* The effect runs again whenever `run' changes, with the language say.
Effect ==
    /\ ~tab.started
    /\ tab' = [tab EXCEPT !.started = TRUE, !.loops = Append(@, Run)]

StartRun ==
    /\ tab.page = "success" /\ ~tab.slow
    /\ Effect
    /\ UNCHANGED <<orgOf, expired, revoked, plan, stored>>

Retry ==
    /\ Staying /\ tab.slow
    /\ tab' = [tab EXCEPT !.slow = FALSE, !.loops = Append(@, Run)]
    /\ UNCHANGED <<orgOf, expired, revoked, plan, stored>>

With(r, k, run) == [r EXCEPT !.loops[k] = run]

\* Whatever becomes of the sync, the poll follows.
Synced ==
    /\ \E k \in DOMAIN tab.loops :
         LET run == tab.loops[k]
             r   == With(tab, k, [run EXCEPT !.pc = "read", !.with = stored])
         IN  /\ run.pc = "sync"
             /\ \/ TabBecomes(r, stored)
                \/ ~Valid(run.with) /\ Unauthorized([r EXCEPT !.loops[k].with = 0])
    /\ UNCHANGED <<orgOf, expired, revoked, plan>>

Polling(k) == tab.loops[k].pc = "read"

\* The organization is active: the flag of the toast, and off to /videos, where
\* AuthGuard looks again.
PollActive ==
    /\ \E k \in DOMAIN tab.loops :
         /\ Polling(k) /\ Valid(tab.loops[k].with)
         /\ MeOf(tab.loops[k].with).ent = "active"
         /\ LET r == [tab EXCEPT !.me = MeOf(tab.loops[k].with), !.welcome = TRUE]
            IN  TabBecomes(Entered(r, Guarded("gate", "gate")), stored)
    /\ UNCHANGED <<orgOf, expired, revoked, plan>>

\* Mistake: a read that fails is tried again without a look at the clock.
NotYetPatient(r, k, failed) ==
    IF r.loops[k].left = 0 /\ ~failed
      THEN [r EXCEPT !.slow = TRUE, !.loops = RemoveAt(@, k)]
      ELSE With(r, k, [r.loops[k] EXCEPT !.pc = "sleep",
                         !.left = IF failed THEN @ ELSE @ - 1])

\* Not active, or the read failed: give up at the deadline, else sleep.
NotYet(r, k, failed) ==
    IF r.loops[k].left = 0
      THEN [r EXCEPT !.slow = TRUE, !.loops = RemoveAt(@, k)]
      ELSE With(r, k, [r.loops[k] EXCEPT !.pc = "sleep", !.left = @ - 1])

PollNotYet ==
    /\ \E k \in DOMAIN tab.loops :
         LET with == tab.loops[k].with
         IN  /\ Polling(k)
             /\ \/ /\ Valid(with) /\ MeOf(with).ent # "active"
                   /\ TabBecomes(NotYet([tab EXCEPT !.me = MeOf(with)], k, FALSE), stored)
                \/ TabBecomes(NotYet(tab, k, TRUE), stored)
                \/ ~Valid(with) /\ Unauthorized(NotYet(tab, k, TRUE))
    /\ UNCHANGED <<orgOf, expired, revoked, plan>>

Wake ==
    /\ \E k \in DOMAIN tab.loops :
         /\ tab.loops[k].pc = "sleep"
         /\ tab' = [tab EXCEPT !.loops[k].pc = "read", !.loops[k].with = stored]
    /\ UNCHANGED <<orgOf, expired, revoked, plan, stored>>

-----------------------------------------------------------------------------
(* Time, Stripe and the other tabs. *)

Expire ==
    /\ expired < Len(orgOf)
    /\ expired' = expired + 1
    /\ UNCHANGED <<orgOf, revoked, plan, stored, tab>>

Pays(org) ==
    /\ plan[org] = "pending"
    /\ plan' = [plan EXCEPT ![org] = "active"]
    /\ UNCHANGED <<orgOf, expired, revoked, stored, tab>>

\* Another tab signs in or switches, or drops the token.
ElsewhereStored(org) ==
    /\ Len(orgOf) < MaxTokens
    /\ orgOf' = Append(orgOf, org) /\ stored' = Len(orgOf) + 1
    /\ tab' = [tab EXCEPT !.foreign = TRUE]
    /\ UNCHANGED <<expired, revoked, plan>>

ElsewhereCleared ==
    /\ stored # 0 /\ stored' = 0
    /\ tab' = [tab EXCEPT !.foreign = TRUE]
    /\ UNCHANGED <<orgOf, expired, revoked, plan>>

SuccessStep == StartRun \/ Synced \/ PollActive \/ PollNotYet \/ Wake

TabNext ==
    \/ \E page \in Addresses : Visit(page) \/ Link(page)
    \/ Reload \/ Load \/ SignedInElsewhere \/ Logout \/ TimerFires
    \/ Refetch \/ MeAnswered \/ MeLost
    \/ \E kind \in Kinds : Submit(kind)
    \/ SignedIn \/ Accepted \/ SignedUp \/ Switched \/ Created
    \/ PasswordReset \/ ToStripe \/ PageAnswered \/ DismissModal
    \/ CallRefused \/ CallFails
    \/ SuccessStep \/ Retry

ConsoleNext ==
    \/ TabNext
    \/ ElsewhereCleared
    \/ Expire
    \/ \E org \in Orgs : Pays(org) \/ ElsewhereStored(org)

ConsoleSpec == ConsoleInit /\ [][ConsoleNext]_consoleVars

\* The calls of the success page have a time limit, its pauses an end.
ConsoleFairSpec == ConsoleSpec /\ WF_consoleVars(SuccessStep)

-----------------------------------------------------------------------------
(* Properties.  `foreign': since this tab was loaded, the stored token was    *)
(* changed by another tab, or by the late answer to a page that had been left.*)

\* A dashboard is logged out when its own session ends, neither earlier nor
\* later: its timer runs for the token that is stored (lib/auth.ts:117-119),
\* unless another tab, or an abandoned page, has changed the one stored.
OwnTimer ==
    Here = "dashboard" /\ Staying /\ ~tab.foreign /\ stored # 0 => tab.timer = stored

\* The subscription a tab shows, its paywall included, is the one of the
\* organization its calls go to (SubscriptionGate.tsx:18-30), however late
\* an answer comes, unless another tab, or a page it has left, has changed
\* the session under it.
MeIsMine ==
    Staying /\ ~tab.foreign /\ stored # 0 /\ tab.me # NoMe => tab.me.org = orgOf[stored]

\* What a tab shows and does is of the session it stands in.
TabIsOfItsSession == OwnTimer /\ MeIsMine

\* The return from Checkout polls once at a time, and the slow screen with
\* its button is only there when nothing polls any more
\* (BillingSuccessPage.tsx:33-78).
OneRun == Len(tab.loops) <= IF tab.slow THEN 0 ELSE 1

\* That page never spins for good: it leaves, or says that it takes longer,
\* whatever its reads bring (BillingSuccessPage.tsx:46-66).
SuccessSettles ==
    (tab.page = "success" /\ Staying) ~> (tab.page # "success" \/ ~Staying \/ tab.slow)
=============================================================================
