------------------------------- MODULE Billing -------------------------------
(***************************************************************************)
(* The subscription of one organization in cloud mode: Stripe, which is    *)
(* the source of truth; its mirror in the organizations row; the webhook,  *)
(* the return from Checkout and the nightly reconcile that write it; and   *)
(* the 30 s cache through which the entitlement guard reads it             *)
(* (apps/api/src/services/billing.ts, billing-reconcile.ts,                *)
(* entitlements.ts, routes/billing.ts).                                    *)
(*                                                                         *)
(* One organization is enough: every subscription carries its id in its    *)
(* metadata, so applySubscription finds it, whichever subscription it      *)
(* mirrors at the time. Plans, prices and customers are left out.          *)
(***************************************************************************)
EXTENDS Naturals, FiniteSets

CONSTANTS
    Subs,         \* subscriptions that Checkout may create, one after another
    Handlers,     \* API requests and reconcile ticks that may overlap
    MaxChanges,   \* bounds the changes at Stripe
    Faults,       \* kinds of fault: one fault may happen in a behaviour
    None          \* no subscription

(* error   a call to Stripe's API, or writing the organizations row, fails *)
(* release then the DELETE of the claim fails too, and nobody is told      *)
(* crash   the API dies in the middle of a handler                         *)
FaultKinds == {"error", "release", "crash"}

ASSUME BillingAssumption ==
    /\ MaxChanges \in Nat
    /\ Faults \subseteq FaultKinds
    /\ None \notin Subs

VARIABLES
    stripe,   \* the status of each subscription at Stripe
    changes,  \* how many times one of them has changed
    session,  \* the Checkout session of each subscription
    events,   \* webhook events Stripe has had no 2xx for
    claimed,  \* the stripe_events rows
    org,      \* the organizations row
    hnd,      \* the handlers
    cache,    \* may the organization change things? as cached
    applied,  \* history: the newest change that a write to the row has known of
    doubled,  \* history: events not on record yet, answered as duplicates of a
              \* delivery that was in progress then, and is still or has failed
    over,     \* history: the subscription on record is past due ever since its
              \* grace period ran out
    fault     \* the fault that has happened

vars == <<stripe, changes, session, events, claimed, org, hnd, cache,
          applied, doubled, over, fault>>

Status == {"none", "incomplete", "active", "past_due", "canceled"}
Answers == {"yes", "no"}
Grace == {"none", "running", "expired"}
Session == {"none", "open", "returned"}
Event == [id : 1..MaxChanges, sub : Subs]
OrgRow == [sub : Subs \cup {None}, status : Status, grace : Grace]
Handler == [pc : {"idle", "retrieve", "find", "write", "finish", "release"},
            sub : Subs \cup {None}, event : 0..MaxChanges, nightly : BOOLEAN,
            snap : Status, asOf : 0..MaxChanges, seen : Grace]
IdleHandler == [pc |-> "idle", sub |-> None, event |-> 0, nightly |-> FALSE,
                snap |-> "none", asOf |-> 0, seen |-> "none"]

\* Type correctness: rows, events, handlers and entitlements the code can produce.
TypeOK ==
    /\ stripe \in [Subs -> Status] /\ changes \in 0..MaxChanges
    /\ session \in [Subs -> Session] /\ events \subseteq Event
    /\ claimed \subseteq 1..MaxChanges
    /\ org \in OrgRow /\ hnd \in [Handlers -> Handler]
    /\ cache \in Answers \cup {"empty"}
    /\ applied \in 0..MaxChanges /\ doubled \subseteq 1..MaxChanges
    /\ over \in BOOLEAN
    /\ fault \in FaultKinds \cup {"none"}

\* Signup has made a pending organization.
Init ==
    /\ stripe = [s \in Subs |-> "none"] /\ changes = 0
    /\ session = [s \in Subs |-> "none"] /\ events = {} /\ claimed = {}
    /\ org = [sub |-> None, status |-> "none", grace |-> "none"]
    /\ hnd = [h \in Handlers |-> IdleHandler]
    /\ cache = "empty"
    /\ applied = 0 /\ doubled = {} /\ over = FALSE /\ fault = "none"

Fault(f) == f \in Faults /\ fault = "none" /\ fault' = f
NoFault == UNCHANGED fault
Release(h) == hnd' = [hnd EXCEPT ![h] = IdleHandler]

-----------------------------------------------------------------------------
(* Stripe.                                                                 *)

SubscribedStatuses == {"active", "past_due"}

\* POST billing/checkout refuses an organization that the mirror says subscribed.
Checkout(s) ==
    /\ session[s] = "none" /\ org.status \notin SubscribedStatuses
    /\ \A o \in Subs : session[o] # "none" => stripe[o] # "none"
    /\ session' = [session EXCEPT ![s] = "open"]
    /\ UNCHANGED <<stripe, changes, events, claimed, org, hnd, cache,
                   applied, doubled, over, fault>>

\* A subscription is created incomplete, is paid, falls behind, is paid again, or
\* ends (canceled, or expired before it was paid); an event tells each change.
Becomes ==
    [none |-> {"incomplete"}, incomplete |-> {"active", "canceled"},
     active |-> {"past_due", "canceled"}, past_due |-> {"active", "canceled"},
     canceled |-> {}]

Change(s) ==
    /\ session[s] # "none" /\ changes < MaxChanges
    /\ \E new \in Becomes[stripe[s]] : stripe' = [stripe EXCEPT ![s] = new]
    /\ changes' = changes + 1
    /\ events' = events \cup {[id |-> changes + 1, sub |-> s]}
    /\ over' = (over /\ s # org.sub)
    /\ UNCHANGED <<session, claimed, org, hnd, cache, applied, doubled, fault>>

-----------------------------------------------------------------------------
(* Three ways to syncSubscription.                                         *)

\* POST billing/webhook: INSERT IGNORE claims the event; another delivery of it
\* is answered 200 at once, be the first done or still in progress. Stripe
\* delivers in any order, and again when it was told 500 or nothing in time.
InProgress(n) == \E h \in Handlers : hnd[h].event = n

Deliver(h, e) ==
    /\ hnd[h].pc = "idle"
    /\ IF e.id \in claimed
       THEN /\ events' = events \ {e} /\ UNCHANGED <<claimed, hnd>>
            /\ doubled' = IF InProgress(e.id) /\ e.id > applied
                          THEN doubled \cup {e.id} ELSE doubled
       ELSE /\ claimed' = claimed \cup {e.id} /\ UNCHANGED <<events, doubled>>
            /\ hnd' = [hnd EXCEPT ![h].pc = "retrieve", ![h].sub = e.sub,
                                  ![h].event = e.id]
    /\ UNCHANGED <<stripe, changes, session, org, cache, applied, over, fault>>

\* POST billing/sync, on the return from Checkout: once per session.
SyncReturn(h, s) ==
    /\ hnd[h].pc = "idle" /\ session[s] = "open" /\ stripe[s] # "none"
    /\ session' = [session EXCEPT ![s] = "returned"]
    /\ hnd' = [hnd EXCEPT ![h].pc = "retrieve", ![h].sub = s]
    /\ UNCHANGED <<stripe, changes, events, claimed, org, cache, applied, doubled, over, fault>>

\* Mistake: only an organization that may still change things is looked at.
ReconcileLive(h) ==
    /\ hnd[h].pc = "idle" /\ \A o \in Handlers : ~hnd[o].nightly
    /\ org.sub # None /\ org.status \in SubscribedStatuses
    /\ hnd' = [hnd EXCEPT ![h].pc = "retrieve", ![h].sub = org.sub,
                          ![h].nightly = TRUE]
    /\ UNCHANGED <<stripe, changes, session, events, claimed, org, cache,
                   applied, doubled, over, fault>>

\* The nightly reconcile, under its Redis lock: only the subscription on record.
Reconcile(h) ==
    /\ hnd[h].pc = "idle" /\ \A o \in Handlers : ~hnd[o].nightly
    /\ org.sub # None
    /\ hnd' = [hnd EXCEPT ![h].pc = "retrieve", ![h].sub = org.sub,
                          ![h].nightly = TRUE]
    /\ UNCHANGED <<stripe, changes, session, events, claimed, org, cache,
                   applied, doubled, over, fault>>

-----------------------------------------------------------------------------
(* syncSubscription and applySubscription.                                 *)

\* What an error does: a webhook forgets its claim, the others just end.
Failed(h) ==
    IF hnd[h].event # 0 THEN hnd' = [hnd EXCEPT ![h].pc = "release"] ELSE Release(h)

Retrieve(h) ==
    /\ hnd[h].pc = "retrieve"
    /\ \/ /\ NoFault
          /\ hnd' = [hnd EXCEPT ![h].pc = "find", ![h].snap = stripe[hnd[h].sub],
                                ![h].asOf = changes]
       \/ Fault("error") /\ Failed(h)
    /\ UNCHANGED <<stripe, changes, session, events, claimed, org, cache, applied, doubled, over>>

FindOrg(h) ==
    /\ hnd[h].pc = "find"
    /\ hnd' = [hnd EXCEPT ![h].pc = "write", ![h].seen = org.grace]
    /\ UNCHANGED <<stripe, changes, session, events, claimed, org, cache,
                   applied, doubled, over, fault>>

\* Mistake: every payment that fails starts the grace period.
GraceRestarted(h) == IF hnd[h].snap = "past_due" THEN "running" ELSE "none"

\* The grace period runs from the first failure.
GraceOf(h) ==
    IF hnd[h].snap # "past_due" THEN "none"
    ELSE IF hnd[h].seen = "none" THEN "running" ELSE hnd[h].seen

Write(h) ==
    /\ hnd[h].pc = "write"
    /\ \/ /\ NoFault
          /\ hnd' = [hnd EXCEPT ![h] =
                 [IdleHandler EXCEPT !.pc = "finish", !.event = hnd[h].event,
                                     !.nightly = hnd[h].nightly]]
          /\ org' = [sub |-> hnd[h].sub, status |-> hnd[h].snap, grace |-> GraceOf(h)]
          /\ applied' = IF hnd[h].asOf > applied THEN hnd[h].asOf ELSE applied
          /\ doubled' = {n \in doubled : n > applied'}
          /\ over' = (over /\ hnd[h].sub = org.sub)
       \/ Fault("error") /\ Failed(h) /\ UNCHANGED <<org, applied, doubled, over>>
    /\ UNCHANGED <<stripe, changes, session, events, claimed, cache>>

Acknowledged(h) == {e \in events : e.id # hnd[h].event}

\* The cached entitlement is dropped; the e-mails are best effort; a webhook is
\* answered 200.
Finish(h) ==
    /\ hnd[h].pc = "finish" /\ Release(h)
    /\ cache' = "empty" /\ events' = Acknowledged(h)
    /\ UNCHANGED <<stripe, changes, session, claimed, org, applied, doubled, over, fault>>

\* Mistake: the claim of an event that failed is kept.
ReleaseClaimKept(h) ==
    /\ hnd[h].pc = "release" /\ Release(h) /\ NoFault
    /\ UNCHANGED <<stripe, changes, session, events, claimed, org, cache,
                   applied, doubled, over>>

\* The claim is removed, or that fails in silence; then the answer is 500.
ReleaseClaim(h) ==
    /\ hnd[h].pc = "release" /\ Release(h)
    /\ \/ NoFault /\ claimed' = claimed \ {hnd[h].event} /\ UNCHANGED doubled
       \/ /\ "release" \in Faults /\ fault' = "release" /\ UNCHANGED claimed
          /\ doubled' = doubled \ {hnd[h].event}
    /\ UNCHANGED <<stripe, changes, session, events, org, cache, applied, over>>

Crash ==
    /\ Fault("crash") /\ \E h \in Handlers : hnd[h].pc # "idle"
    /\ hnd' = [h \in Handlers |-> IdleHandler] /\ cache' = "empty"
    /\ doubled' = doubled \ {hnd[h].event : h \in Handlers}
    /\ UNCHANGED <<stripe, changes, session, events, claimed, org, applied, over>>

-----------------------------------------------------------------------------
(* Entitlements.                                                           *)

\* Mistake: the deadline of the grace period is not looked at.
ModePatient ==
    CASE org.status = "none"     -> "pending"
      [] org.status = "active"   -> "active"
      [] org.status = "past_due" -> "grace"
      [] OTHER                   -> "readonly"

\* computeEntitlement, on the row as it is now.
Mode ==
    CASE org.status = "none"                              -> "pending"
      [] org.status = "active"                            -> "active"
      [] org.status = "past_due" /\ org.grace = "running" -> "grace"
      [] OTHER                                            -> "readonly"
CanMutate == IF Mode \in {"active", "grace"} THEN "yes" ELSE "no"

\* getOrgEntitlement on an empty cache. (An answer computed before a write and
\* cached after it is as stale as one that was cached before: for thirty seconds.)
LoadEntitlement ==
    /\ cache = "empty" /\ cache' = CanMutate
    /\ UNCHANGED <<stripe, changes, session, events, claimed, org, hnd, applied, doubled, over,
                   fault>>

\* Thirty seconds later.
CacheExpires ==
    /\ cache # "empty" /\ cache' = "empty"
    /\ UNCHANGED <<stripe, changes, session, events, claimed, org, hnd,
                   applied, doubled, over, fault>>

\* Seven days after the first failure: no handler lives so long.
GraceExpires ==
    /\ org.grace = "running" /\ org' = [org EXCEPT !.grace = "expired"]
    /\ \A h \in Handlers : hnd[h].pc = "idle"
    /\ over' = (stripe[org.sub] = "past_due")
    /\ UNCHANGED <<stripe, changes, session, events, claimed, hnd, cache,
                   applied, doubled, fault>>

-----------------------------------------------------------------------------
Advance(h) ==
    Retrieve(h) \/ FindOrg(h) \/ Write(h) \/ Finish(h) \/ ReleaseClaim(h)

Next ==
    \/ \E s \in Subs : Checkout(s) \/ Change(s)
    \/ \E h \in Handlers :
          \/ \E e \in events : Deliver(h, e)
          \/ \E s \in Subs : SyncReturn(h, s)
          \/ Reconcile(h) \/ Advance(h)
    \/ Crash \/ LoadEntitlement \/ CacheExpires \/ GraceExpires

Spec == Init /\ [][Next]_vars

\* Handlers go on; Stripe delivers what was not acknowledged; the reconcile runs
\* every night; time passes. Nobody need ever pay, nor come back from Checkout.
FairSpec ==
    /\ Spec
    /\ \A h \in Handlers : WF_vars(Advance(h))
    /\ SF_vars(\E h \in Handlers, e \in events : Deliver(h, e))
    /\ SF_vars(\E h \in Handlers : Reconcile(h))
    /\ WF_vars(CacheExpires) /\ SF_vars(GraceExpires)

-----------------------------------------------------------------------------
\* Not kept by the code (README, section on disagreements). The webhook's third
\* step: an event whose handling failed is forgotten "so the retry is processed".
\* An event that Stripe will not deliver again has reached the row: some write
\* was made by a handler that had read the subscription after that change.
NoEventLost ==
    fault # "crash" =>
        \A n \in 1..changes :
            (\A e \in events : e.id # n) => applied >= n \/ InProgress(n)

\* Every event is still at Stripe, or on record, or in progress; or it is lost
\* in one of three ways: it was answered as a duplicate of a delivery that then
\* failed, or its claim outlived a crash, or its claim could not be removed.
EventsAccounted ==
    \A n \in 1..changes :
        \/ \E e \in events : e.id = n
        \/ applied >= n
        \/ InProgress(n)
        \/ n \in doubled \ claimed
        \/ n \in claimed /\ fault \in {"release", "crash"}

\* Once the grace period of the subscription on record has run out, it does not
\* start again while the subscription stays past due, however often the failure
\* is reported, and whoever else is about to write the row.
GraceNotRenewed ==
    [][over => org'.grace # "running" \/ org'.sub # org.sub]_vars

\* What requireActiveSubscription goes by.
Entitled == (IF cache = "empty" THEN CanMutate ELSE cache) = "yes"

\* An organization that pays, and goes on paying, may in the end change things,
\* whatever order events, returns and reconciles came in and whatever got lost,
\* once the row names a subscription at all.
PaidIsEntitled ==
    (<>[](org.sub # None /\ \E s \in Subs : stripe[s] = "active")) => <>[]Entitled

\* One that does not pay any more may in the end only read.
UnpaidIsRefused ==
    (<>[](\A s \in Subs : stripe[s] # "active")) => <>[]~Entitled

\* In the end an organization may change things exactly if it pays. (With one
\* subscription: README, section on disagreements, for an abandoned second.)
EntitledAsPaid == PaidIsEntitled /\ UnpaidIsRefused

=============================================================================
