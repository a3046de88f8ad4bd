------------------------- MODULE SubscriptionProofs -------------------------
(***************************************************************************)
(* What an organization's subscription is, at the API and in a tab of its  *)
(* dashboard.  Two facts about Billing, for any number of subscriptions,   *)
(* of handlers that overlap and of changes at Stripe:                      *)
(*                                                                         *)
(*   EventsKept     an event that Stripe forgets is lost in three ways     *)
(*                  only, by EventInv                                      *)
(*   GraceGranted   a grace period that ran out does not start again while *)
(*                  the subscription stays past due, by GraceInv           *)
(*                                                                         *)
(* Both rest on Typed: the types, and which handlers have a subscription.  *)
(* And three about Console, for any organizations, any number of tokens    *)
(* and any number of polls:                                                *)
(*                                                                         *)
(*   ConsoleTyped   the type invariant                                     *)
(*   PollsOnce      the return from Checkout polls once at a time, by Runs *)
(*   OwnSession     a tab is of the session it stands in, by Own           *)
(*                                                                         *)
(* Both invariants speak of what is still in flight: a loop, a read and    *)
(* a call each carry the token they were sent with, and belong to a page   *)
(* that can be left before they are answered.                              *)
(***************************************************************************)
EXTENDS Billing, Console, TLAPS

-----------------------------------------------------------------------------
(* Billing.                                                                 *)

\* A handler that is about to use its subscription has one.
Equipped(q) == q.pc \in {"retrieve", "find", "write"} => q.sub \in Subs

Typed ==
    /\ TypeOK
    /\ \A h \in Handlers : Equipped(hnd[h])
    /\ org.grace # "none" => org.sub \in Subs

\* What a handler writes is no older than its event, and what it has written
\* neither.
Progress ==
    \A h \in Handlers :
        /\ hnd[h].pc = "idle" => hnd[h].event = 0
        /\ hnd[h].event <= changes
        /\ hnd[h].pc \in {"find", "write"} => hnd[h].event <= hnd[h].asOf
        /\ hnd[h].pc = "finish" => hnd[h].event <= applied

AtStripe(n) == \E e \in events : e.id = n
Unreleased  == fault \in {"release", "crash"}

\* An event in progress has been claimed by one handler; Stripe has it still,
\* unless somebody told it that it is a duplicate.
Owned ==
    \A h \in Handlers : hnd[h].event # 0 =>
        /\ hnd[h].event \in claimed
        /\ \A o \in Handlers : hnd[o].event = hnd[h].event => o = h
        /\ AtStripe(hnd[h].event) \/ hnd[h].event \in doubled \/ hnd[h].event <= applied

\* A claim is of an event that is on record, or in progress, or nobody's any more.
Claims == \A n \in claimed : n <= applied \/ InProgress(n) \/ Unreleased
Kept ==
    \A n \in 1..changes :
        \/ AtStripe(n) \/ n <= applied \/ InProgress(n)
        \/ n \in doubled \ claimed \/ (n \in claimed /\ Unreleased)

EventInv ==
    /\ Progress
    /\ \A e \in events : e.id <= changes
    /\ Owned /\ Claims /\ Kept

\* Whoever is about to write the row of a subscription whose grace ran out has
\* read it past due, and has seen that the period is over.
GraceInv ==
    over =>
        /\ org.sub \in Subs /\ stripe[org.sub] = "past_due" /\ org.grace = "expired"
        /\ \A h \in Handlers : hnd[h].sub = org.sub =>
              /\ hnd[h].pc \in {"find", "write"} => hnd[h].snap = "past_due"
              /\ hnd[h].pc = "write" => hnd[h].seen = "expired"

-----------------------------------------------------------------------------
(* Types.                                                                  *)

LEMMA BecomesStatus == \A old \in Status : Becomes[old] \subseteq Status
BY DEF Becomes, Status

LEMMA IdleTyped == BillingAssumption => IdleHandler \in Handler
BY DEF BillingAssumption, Handler, IdleHandler, Status, Grace

\* What Stripe and the clock do.
LEMMA WorldTyped ==
    ASSUME BillingAssumption, Typed,
           \/ \E s \in Subs : Checkout(s) \/ Change(s)
           \/ LoadEntitlement \/ CacheExpires \/ GraceExpires
    PROVE  Typed'
<1> USE DEF BillingAssumption, Typed, TypeOK
<1>1. ASSUME NEW s \in Subs, Checkout(s)
      PROVE  Typed'
    BY <1>1 DEF Checkout, Session
<1>2. ASSUME NEW s \in Subs, Change(s)
      PROVE  Typed'
    <2>1. changes' \in 0..MaxChanges /\ changes + 1 \in 1..MaxChanges
        BY <1>2 DEF Change
    <2>2. stripe' \in [Subs -> Status]
        BY <1>2, BecomesStatus DEF Change
    <2>3. events' \subseteq Event
        BY <1>2, <2>1 DEF Change, Event
    <2> QED
        BY <1>2, <2>1, <2>2, <2>3 DEF Change
<1>3. CASE LoadEntitlement
    BY <1>3 DEF LoadEntitlement, CanMutate, Answers
<1>4. CASE CacheExpires
    BY <1>4 DEF CacheExpires
<1>5. CASE GraceExpires
    BY <1>5 DEF GraceExpires, OrgRow, Grace
<1> QED
    BY <1>1, <1>2, <1>3, <1>4, <1>5

\* One handler goes on.
LEMMA MovesTyped ==
    ASSUME Typed, NEW h \in Handlers, NEW q \in Handler, Equipped(q),
           hnd' = [hnd EXCEPT ![h] = q]
    PROVE  hnd' \in [Handlers -> Handler] /\ \A o \in Handlers : Equipped(hnd'[o])
<1>1. \A o \in Handlers : hnd'[o] = IF o = h THEN q ELSE hnd[o]
    BY DEF Typed, TypeOK
<1> QED
    BY <1>1 DEF Typed, TypeOK

LEMMA IdleFits == BillingAssumption => IdleHandler \in Handler /\ Equipped(IdleHandler)
BY IdleTyped DEF Equipped, IdleHandler

LEMMA FailedTyped ==
    ASSUME BillingAssumption, Typed, NEW h \in Handlers, Failed(h)
    PROVE  hnd' \in [Handlers -> Handler] /\ \A o \in Handlers : Equipped(hnd'[o])
<1>1. CASE hnd[h].event # 0
    <2> DEFINE q == [hnd[h] EXCEPT !.pc = "release"]
    <2>1. q \in Handler /\ q.pc = "release"
        BY DEF Typed, TypeOK, Handler
    <2>2. hnd' = [hnd EXCEPT ![h] = q]
        BY <1>1 DEF Failed
    <2> HIDE DEF q
    <2> QED
        BY <2>1, <2>2, MovesTyped DEF Equipped
<1>2. CASE hnd[h].event = 0
    BY <1>2, IdleFits, MovesTyped DEF Failed, Release
<1> QED
    BY <1>1, <1>2

\* The handlers.
LEMMA HandlersTyped ==
    ASSUME BillingAssumption, Typed, NEW h \in Handlers,
           \/ \E e \in events : Deliver(h, e)
           \/ \E s \in Subs : SyncReturn(h, s)
           \/ Reconcile(h) \/ Advance(h)
    PROVE  Typed'
<1>1. hnd[h] \in Handler /\ Equipped(hnd[h])
    BY DEF Typed, TypeOK
<1>2. ASSUME NEW q \in Handler, Equipped(q), hnd' = [hnd EXCEPT ![h] = q],
             UNCHANGED <<stripe, changes, org, cache, applied, doubled, over, fault>>,
             session' \in [Subs -> Session], events' \subseteq Event,
             claimed' \subseteq 1..MaxChanges
      PROVE  Typed'
    BY <1>2, MovesTyped DEF Typed, TypeOK
<1>3. ASSUME NEW e \in events, Deliver(h, e)
      PROVE  Typed'
    <2>1. e.id \in 1..MaxChanges /\ e.sub \in Subs
        BY DEF Typed, TypeOK, Event
    <2>2. CASE e.id \in claimed
        BY <1>3, <2>1, <2>2 DEF Deliver, Typed, TypeOK
    <2>3. CASE e.id \notin claimed
        <3> DEFINE q == [hnd[h] EXCEPT !.pc = "retrieve", !.sub = e.sub, !.event = e.id]
        <3>1. e.id \in 0..MaxChanges
            BY <2>1 DEF BillingAssumption
        <3>2. q \in Handler
            BY <1>1, <2>1, <3>1 DEF Handler
        <3>3. Equipped(q)
            BY <1>1, <2>1 DEF Equipped, Handler
        <3>4. hnd' = [hnd EXCEPT ![h] = q] /\ claimed' = claimed \cup {e.id}
            BY <1>3, <2>3 DEF Deliver
        <3> HIDE DEF q
        <3> QED
            BY <1>2, <1>3, <2>1, <2>3, <3>2, <3>3, <3>4 DEF Deliver, Typed, TypeOK
    <2> QED
        BY <2>2, <2>3
<1>4. ASSUME NEW s \in Subs, SyncReturn(h, s)
      PROVE  Typed'
    <2> DEFINE q == [hnd[h] EXCEPT !.pc = "retrieve", !.sub = s]
    <2>1. q \in Handler /\ q.sub = s
        BY <1>1 DEF Handler
    <2>2. hnd' = [hnd EXCEPT ![h] = q] /\ session' \in [Subs -> Session]
        BY <1>4 DEF SyncReturn, Session, Typed, TypeOK
    <2> HIDE DEF q
    <2> QED
        BY <1>2, <1>4, <2>1, <2>2 DEF SyncReturn, Equipped, Typed, TypeOK
<1>5. CASE Reconcile(h)
    <2> DEFINE q == [hnd[h] EXCEPT !.pc = "retrieve", !.sub = org.sub, !.nightly = TRUE]
    <2>1. org.sub \in Subs
        BY <1>5 DEF Reconcile, Typed, TypeOK, OrgRow
    <2>2. q \in Handler /\ q.sub = org.sub
        BY <1>1, <2>1 DEF Handler
    <2>3. hnd' = [hnd EXCEPT ![h] = q]
        BY <1>5 DEF Reconcile
    <2> HIDE DEF q
    <2> QED
        BY <1>2, <1>5, <2>1, <2>2, <2>3 DEF Reconcile, Equipped, Typed, TypeOK
<1>6. CASE Retrieve(h) /\ NoFault
    <2> DEFINE q == [hnd[h] EXCEPT !.pc = "find", !.snap = stripe[hnd[h].sub], !.asOf = changes]
    <2>1. hnd[h].sub \in Subs /\ stripe[hnd[h].sub] \in Status /\ changes \in 0..MaxChanges
        BY <1>1, <1>6 DEF Retrieve, Equipped, Typed, TypeOK
    <2>2. q \in Handler
        BY <1>1, <2>1 DEF Handler
    <2>3. q.sub = hnd[h].sub
        BY <1>1 DEF Handler
    <2>4. hnd' = [hnd EXCEPT ![h] = q]
        BY <1>6 DEF Retrieve, NoFault, Fault
    <2> HIDE DEF q
    <2> QED
        BY <1>2, <1>6, <2>1, <2>2, <2>3, <2>4 DEF Retrieve, NoFault, Equipped, Typed, TypeOK
<1>7. CASE Retrieve(h) /\ Fault("error")
    <2>1. hnd' \in [Handlers -> Handler] /\ \A o \in Handlers : Equipped(hnd'[o])
        BY <1>7, FailedTyped DEF Retrieve, NoFault, Fault
    <2> QED
        BY <1>7, <2>1 DEF Retrieve, Fault, FaultKinds, Typed, TypeOK
<1>8. CASE FindOrg(h)
    <2> DEFINE q == [hnd[h] EXCEPT !.pc = "write", !.seen = org.grace]
    <2>1. q \in Handler
        BY <1>1 DEF Handler, Typed, TypeOK, OrgRow
    <2>2. q.sub = hnd[h].sub /\ hnd[h].sub \in Subs
        BY <1>1, <1>8 DEF Handler, FindOrg, Equipped
    <2>3. hnd' = [hnd EXCEPT ![h] = q]
        BY <1>8 DEF FindOrg
    <2> HIDE DEF q
    <2> QED
        BY <1>2, <1>8, <2>1, <2>2, <2>3 DEF FindOrg, Equipped, Typed, TypeOK
<1>9. CASE Write(h) /\ NoFault
    <2>1. GraceOf(h) \in Grace
        BY <1>1 DEF GraceOf, Grace, Handler
    <2>2. hnd[h].sub \in Subs /\ ~Fault("error")
        BY <1>1, <1>9 DEF Write, Equipped, NoFault, Fault
    <2>3. org' \in OrgRow /\ org'.sub \in Subs
        BY <1>1, <1>9, <2>1, <2>2 DEF Write, OrgRow, Handler
    <2>4. applied' \in 0..MaxChanges /\ over' \in BOOLEAN
        BY <1>1, <1>9, <2>2 DEF Write, Handler, Typed, TypeOK
    <2> DEFINE done == [IdleHandler EXCEPT !.pc = "finish", !.event = hnd[h].event,
                                           !.nightly = hnd[h].nightly]
    <2>5. done \in Handler
        BY <1>1, IdleTyped DEF Handler, IdleHandler
    <2>6. Equipped(done)
        BY <1>1 DEF IdleHandler, Equipped
    <2>7. hnd' = [hnd EXCEPT ![h] = done]
        BY <1>9, <2>2 DEF Write
    <2> HIDE DEF done
    <2> QED
        BY <1>9, <2>3, <2>4, <2>5, <2>6, <2>7, MovesTyped DEF Write, NoFault, Typed, TypeOK
<1>10. CASE Write(h) /\ Fault("error")
    <2>1. hnd' \in [Handlers -> Handler] /\ \A o \in Handlers : Equipped(hnd'[o])
        BY <1>10, FailedTyped DEF Write, NoFault, Fault
    <2>2. UNCHANGED <<org, applied, over>>
        BY <1>10 DEF Write, NoFault, Fault
    <2> QED
        BY <1>10, <2>1, <2>2 DEF Write, Fault, FaultKinds, Typed, TypeOK
<1>11. CASE Finish(h)
    <2>1. hnd' \in [Handlers -> Handler] /\ \A o \in Handlers : Equipped(hnd'[o])
        BY <1>11, IdleFits, MovesTyped DEF Finish, Release
    <2> QED
        BY <1>11, <2>1 DEF Finish, Acknowledged, Typed, TypeOK
<1>12. CASE ReleaseClaim(h)
    <2>1. hnd' \in [Handlers -> Handler] /\ \A o \in Handlers : Equipped(hnd'[o])
        BY <1>12, IdleFits, MovesTyped DEF ReleaseClaim, Release
    <2> QED
        BY <1>12, <2>1 DEF ReleaseClaim, NoFault, FaultKinds, Typed, TypeOK
<1>13. /\ Retrieve(h) => NoFault \/ Fault("error")
       /\ Write(h) => NoFault \/ Fault("error")
    BY DEF Retrieve, Write
<1> QED
    BY <1>3, <1>4, <1>5, <1>6, <1>7, <1>8, <1>9, <1>10, <1>11, <1>12, <1>13 DEF Advance

LEMMA CrashTyped ==
    ASSUME BillingAssumption, Typed, Crash
    PROVE  Typed'
BY IdleFits DEF Crash, Typed, TypeOK, Fault, FaultKinds

LEMMA TypedStep == BillingAssumption /\ Typed /\ [Next]_vars => Typed'
<1> SUFFICES ASSUME BillingAssumption, Typed, [Next]_vars
             PROVE  Typed'
    OBVIOUS
<1>1. CASE Next
    BY <1>1, WorldTyped, HandlersTyped, CrashTyped DEF Next
<1>2. CASE UNCHANGED vars
    BY <1>2 DEF vars, Typed, TypeOK
<1> QED
    BY <1>1, <1>2

LEMMA TypedInit == BillingAssumption /\ Init => Typed
<1> SUFFICES ASSUME BillingAssumption, Init
             PROVE  Typed
    OBVIOUS
<1>1. hnd \in [Handlers -> Handler] /\ \A h \in Handlers : Equipped(hnd[h])
    BY IdleFits DEF Init
<1>2. org \in OrgRow /\ org.grace = "none"
    BY DEF Init, OrgRow, Status, Grace
<1>3. /\ stripe \in [Subs -> Status] /\ session \in [Subs -> Session]
      /\ changes \in 0..MaxChanges /\ applied \in 0..MaxChanges
    BY DEF Init, Status, Session, BillingAssumption
<1> QED
    BY <1>1, <1>2, <1>3 DEF Init, Typed, TypeOK

\* Rows, events, handlers and the cached entitlement have the types the code
\* gives them (billing.ts, entitlements.ts, routes/billing.ts).
THEOREM BillingTyped == Spec => []TypeOK
<1>1. Init => Typed
    BY TypedInit, BillingAssumption
<1>2. Typed /\ [Next]_vars => Typed'
    BY TypedStep, BillingAssumption
<1>3. Typed => TypeOK
    BY DEF Typed
<1> QED
    BY <1>1, <1>2, <1>3, PTL DEF Spec

-----------------------------------------------------------------------------
(* Events.                                                                 *)

\* What Progress says of one handler, when there have been n changes and writes
\* know of m.
Keeps(q, n, m) ==
    /\ q.pc = "idle" => q.event = 0
    /\ q.event <= n
    /\ q.pc \in {"find", "write"} => q.event <= q.asOf
    /\ q.pc = "finish" => q.event <= m

LEMMA ProgressKeeps == Progress <=> \A h \in Handlers : Keeps(hnd[h], changes, applied)
BY DEF Progress, Keeps

\* One handler goes on, no change or write is forgotten.
LEMMA MovesKeep ==
    ASSUME Typed, EventInv, Typed', NEW h \in Handlers, NEW q, Keeps(q, changes', applied'),
           hnd' = [hnd EXCEPT ![h] = q], changes <= changes', applied <= applied'
    PROVE  Progress'
<1>1. \A o \in Handlers : hnd'[o] = IF o = h THEN q ELSE hnd[o]
    BY DEF Typed, TypeOK
<1>2. \A o \in Handlers : /\ hnd[o].event \in 0..MaxChanges /\ hnd[o].asOf \in 0..MaxChanges
                         /\ Keeps(hnd[o], changes, applied)
    BY ProgressKeeps DEF Typed, TypeOK, Handler, EventInv
<1>3. /\ changes \in Nat /\ changes' \in Nat /\ applied \in Nat /\ applied' \in Nat
      /\ BillingAssumption
    BY BillingAssumption DEF Typed, TypeOK
<1>4. \A o \in Handlers : Keeps(hnd'[o], changes', applied')
    BY <1>1, <1>2, <1>3 DEF Keeps, BillingAssumption
<1> QED
    BY <1>4 DEF Progress, Keeps

\* One handler goes on with its event, or with none: every event has the handlers
\* it had.
LEMMA EventOf ==
    ASSUME Typed, NEW h \in Handlers, NEW q, hnd' = [hnd EXCEPT ![h] = q],
           q.event = hnd[h].event
    PROVE  \A o \in Handlers : hnd'[o].event = hnd[o].event
<1>1. \A o \in Handlers : hnd'[o] = IF o = h THEN q ELSE hnd[o]
    BY DEF Typed, TypeOK
<1> QED
    BY <1>1

LEMMA Numbers ==
    ASSUME Typed
    PROVE  /\ changes \in Nat /\ applied \in Nat /\ claimed \subseteq Nat \ {0}
           /\ \A h \in Handlers : hnd[h].event \in Nat
           /\ \A e \in events : e.id \in Nat /\ 1 <= e.id
BY BillingAssumption DEF Typed, TypeOK, Handler, Event, BillingAssumption

\* A step that claims and acknowledges nothing.
LEMMA QuietStep ==
    ASSUME Typed, Typed', EventInv, NEW h \in Handlers, NEW q,
           hnd' = [hnd EXCEPT ![h] = q], q.event = hnd[h].event,
           Keeps(q, changes', applied'), applied <= applied',
           UNCHANGED <<changes, events, claimed>>, Unreleased => Unreleased',
           \A n \in doubled : n \in doubled' \/ n <= applied'
    PROVE  EventInv'
<1>1. /\ changes \in Nat /\ applied \in Nat /\ applied' \in Nat /\ claimed \subseteq Nat
      /\ \A o \in Handlers : hnd[o].event \in Nat
    BY Numbers, BillingAssumption DEF Typed, TypeOK, BillingAssumption
<1>2. changes <= changes'
    BY <1>1
<1>3. Progress'
    BY <1>2, MovesKeep
<1>4. \A o \in Handlers : hnd'[o].event = hnd[o].event
    BY EventOf
<1>5. \A n : InProgress(n) => InProgress(n)'
    BY <1>4 DEF InProgress
<1>6. \A n \in Nat : n <= applied => n <= applied'
    BY <1>1
<1>7. Owned'
    BY <1>1, <1>4, <1>6 DEF EventInv, Owned, AtStripe
<1>8. Claims'
    BY <1>1, <1>5, <1>6 DEF EventInv, Claims
<1>9. Kept'
    BY <1>1, <1>5, <1>6 DEF EventInv, Kept, AtStripe
<1> QED
    BY <1>3, <1>7, <1>8, <1>9 DEF EventInv

LEMMA WorldKeepsEvents ==
    ASSUME Typed, Typed', EventInv,
           \/ \E s \in Subs : Checkout(s) \/ Change(s)
           \/ LoadEntitlement \/ CacheExpires \/ GraceExpires
    PROVE  EventInv'
<1>1. ASSUME NEW s \in Subs, Change(s)
      PROVE  EventInv'
    <2>1. /\ changes \in Nat /\ changes' = changes + 1
          /\ UNCHANGED <<hnd, applied, claimed, doubled, fault>>
        BY <1>1, BillingAssumption DEF Change, Typed, TypeOK, BillingAssumption
    <2>2. events' = events \cup {[id |-> changes + 1, sub |-> s]}
        BY <1>1 DEF Change
    <2>3. \A h \in Handlers : hnd[h].event \in Nat
        BY Numbers
    <2>4. Progress'
        BY <2>1, <2>3 DEF EventInv, Progress
    <2>5. \A e \in events' : e.id <= changes'
        BY <2>1, <2>2, BillingAssumption DEF EventInv, Typed, TypeOK, Event, BillingAssumption
    <2>6. Claims' /\ Owned'
        BY <2>1, <2>2 DEF EventInv, Claims, Owned, InProgress, AtStripe, Unreleased
    <2>7. Kept'
        <3> SUFFICES ASSUME NEW n \in 1..(changes + 1)
                     PROVE  \/ AtStripe(n)' \/ n <= applied \/ InProgress(n)'
                            \/ n \in doubled \ claimed \/ (n \in claimed /\ Unreleased')
            BY <2>1 DEF Kept
        <3>1. CASE n = changes + 1
            <4> DEFINE e == [id |-> changes + 1, sub |-> s]
            <4>1. e \in events' /\ e.id = n
                BY <2>2, <3>1
            <4> QED
                BY <4>1 DEF AtStripe
        <3>2. CASE n # changes + 1
            <4>1. n \in 1..changes
                BY <2>1, <3>2
            <4> QED
                BY <2>1, <2>2, <4>1 DEF EventInv, Kept, InProgress, AtStripe, Unreleased
        <3> QED
            BY <3>1, <3>2
    <2> QED
        BY <2>4, <2>5, <2>6, <2>7 DEF EventInv
<1>2. CASE UNCHANGED <<hnd, changes, applied, events, claimed, doubled, fault>>
    BY <1>2 DEF EventInv, Progress, Owned, Claims, Kept, InProgress, AtStripe, Unreleased
<1> QED
    BY <1>1, <1>2 DEF Checkout, LoadEntitlement, CacheExpires, GraceExpires

\* The three steps of a delivery: it is claimed, or found claimed; it is done;
\* it has failed and is given back.
LEMMA DeliverKeepsEvents ==
    ASSUME Typed, Typed', EventInv, NEW h \in Handlers, NEW e \in events, Deliver(h, e)
    PROVE  EventInv'
<1>1. /\ changes \in Nat /\ applied \in Nat /\ claimed \subseteq Nat \ {0}
      /\ \A o \in Handlers : hnd[o].event \in Nat
      /\ e.id \in Nat /\ 1 <= e.id /\ e.id <= changes
    BY Numbers DEF EventInv
<1>2. CASE e.id \in claimed
    <2>1. events' = events \ {e} /\ UNCHANGED <<changes, hnd, claimed, applied, fault>>
        BY <1>2 DEF Deliver
    <2>2. /\ doubled \subseteq doubled'
          /\ InProgress(e.id) => e.id \in doubled' \/ e.id <= applied
        BY <1>1, <1>2 DEF Deliver
    <2>3. \A n : AtStripe(n) => AtStripe(n)' \/ n = e.id
        BY <2>1 DEF AtStripe
    <2>4. e.id <= applied \/ InProgress(e.id) \/ Unreleased
        BY <1>2 DEF EventInv, Claims
    <2>5. Progress' /\ Claims' /\ \A o \in events' : o.id <= changes'
        BY <2>1 DEF EventInv, Progress, Claims, InProgress, Unreleased
    <2>6. Owned'
        BY <2>1, <2>2, <2>3 DEF EventInv, Owned, InProgress
    <2>7. Kept'
        BY <1>2, <2>1, <2>2, <2>3, <2>4 DEF EventInv, Kept, InProgress, Unreleased
    <2> QED
        BY <2>5, <2>6, <2>7 DEF EventInv
<1>3. CASE e.id \notin claimed
    <2> DEFINE q == [hnd[h] EXCEPT !.pc = "retrieve", !.sub = e.sub, !.event = e.id]
    <2>1. hnd' = [hnd EXCEPT ![h] = q] /\ claimed' = claimed \cup {e.id}
        BY <1>3 DEF Deliver
    <2>2. UNCHANGED <<changes, events, applied, doubled, fault>>
        BY <1>3 DEF Deliver
    <2>3. q.event = e.id /\ q.pc = "retrieve"
        BY DEF Handler, Typed, TypeOK
    <2>4. Keeps(q, changes', applied')
        BY <1>1, <2>2, <2>3 DEF Keeps
    <2> HIDE DEF q
    <2>5. changes <= changes' /\ applied <= applied'
        BY <1>1, <2>2
    <2>6. Progress'
        BY <2>1, <2>4, <2>5, MovesKeep
    <2>7. \A o \in Handlers : hnd'[o] = IF o = h THEN q ELSE hnd[o]
        BY <2>1 DEF Typed, TypeOK
    <2>8. hnd[h].event = 0
        BY ProgressKeeps DEF Deliver, Keeps, EventInv
    <2>9. \A n \in Nat \ {0} : InProgress(n) => InProgress(n)'
        BY <2>7, <2>8 DEF InProgress
    <2>10. InProgress(e.id)' /\ AtStripe(e.id)
        BY <2>3, <2>7 DEF InProgress, AtStripe
    <2>11. Owned'
        <3> SUFFICES ASSUME NEW o \in Handlers, hnd'[o].event # 0
                     PROVE  /\ hnd'[o].event \in claimed'
                            /\ \A r \in Handlers : hnd'[r].event = hnd'[o].event => r = o
                            /\ \/ AtStripe(hnd[o].event)'
                               \/ hnd'[o].event \in doubled' \/ hnd'[o].event <= applied'
            BY DEF Owned, AtStripe
        <3>1. \A r \in Handlers : hnd[r].event # e.id
            BY <1>1, <1>3 DEF EventInv, Owned
        <3>2. CASE o = h
            BY <2>1, <2>2, <2>3, <2>7, <2>10, <3>1, <3>2 DEF AtStripe
        <3>3. CASE o # h
            <4>1. hnd'[o] = hnd[o]
                BY <2>7, <3>3
            <4> QED
                BY <2>1, <2>2, <2>3, <2>7, <3>1, <3>3, <4>1 DEF EventInv, Owned, AtStripe
        <3> QED
            BY <3>2, <3>3
    <2>12. Claims'
        BY <1>1, <2>1, <2>2, <2>9, <2>10 DEF EventInv, Claims, Unreleased
    <2>13. Kept'
        BY <2>1, <2>2, <2>9, <2>10 DEF EventInv, Kept, AtStripe, Unreleased
    <2> QED
        BY <2>2, <2>6, <2>11, <2>12, <2>13 DEF EventInv
<1> QED
    BY <1>2, <1>3

\* A handler that becomes free, whatever it acknowledges.
LEMMA FreeKeeps ==
    ASSUME Typed, Typed', EventInv, NEW h \in Handlers, Release(h),
           UNCHANGED <<changes, applied>>, events' \subseteq events
    PROVE  /\ Progress' /\ \A e \in events' : e.id <= changes'
           /\ \A o \in Handlers : hnd'[o] = IF o = h THEN IdleHandler ELSE hnd[o]
           /\ \A n \in Nat \ {0} : InProgress(n) => InProgress(n)' \/ n = hnd[h].event
<1>1. changes <= changes' /\ applied <= applied' /\ Keeps(IdleHandler, changes', applied')
    BY Numbers DEF Keeps, IdleHandler
<1>2. hnd' = [hnd EXCEPT ![h] = IdleHandler]
    BY DEF Release
<1>3. Progress'
    BY <1>1, <1>2, MovesKeep
<1>4. \A o \in Handlers : hnd'[o] = IF o = h THEN IdleHandler ELSE hnd[o]
    BY <1>2 DEF Typed, TypeOK
<1> QED
    BY <1>3, <1>4 DEF EventInv, InProgress

LEMMA FinishKeepsEvents ==
    ASSUME Typed, Typed', EventInv, NEW h \in Handlers, Finish(h)
    PROVE  EventInv'
<1>1. /\ events' = Acknowledged(h)
      /\ Release(h) /\ UNCHANGED <<changes, claimed, applied, doubled, fault>>
    BY DEF Finish
<1>2. events' \subseteq events
    BY <1>1 DEF Acknowledged
<1>3. /\ Progress' /\ \A e \in events' : e.id <= changes'
      /\ \A o \in Handlers : hnd'[o] = IF o = h THEN IdleHandler ELSE hnd[o]
      /\ \A n \in Nat \ {0} : InProgress(n) => InProgress(n)' \/ n = hnd[h].event
    BY <1>1, <1>2, FreeKeeps
<1>4. hnd[h].event <= applied /\ applied \in Nat /\ claimed \subseteq Nat \ {0}
    BY Numbers, ProgressKeeps DEF Finish, Keeps, EventInv
<1>5. \A n : AtStripe(n) => AtStripe(n)' \/ n = hnd[h].event
    BY <1>1 DEF AtStripe, Acknowledged
<1>6. IdleHandler.event = 0
    BY DEF IdleHandler
<1>7. Owned'
    BY <1>1, <1>3, <1>4, <1>5, <1>6 DEF EventInv, Owned
<1>8. Claims'
    BY <1>1, <1>3, <1>4 DEF EventInv, Claims, Unreleased
<1>9. Kept'
    BY <1>1, <1>3, <1>4, <1>5 DEF EventInv, Kept, Unreleased
<1> QED
    BY <1>3, <1>7, <1>8, <1>9 DEF EventInv

LEMMA ReleaseKeepsEvents ==
    ASSUME Typed, Typed', EventInv, NEW h \in Handlers, ReleaseClaim(h)
    PROVE  EventInv'
<1>1. Release(h) /\ UNCHANGED <<changes, events, applied>>
    BY DEF ReleaseClaim
<1>2. /\ Progress' /\ \A e \in events' : e.id <= changes'
      /\ \A o \in Handlers : hnd'[o] = IF o = h THEN IdleHandler ELSE hnd[o]
      /\ \A n \in Nat \ {0} : InProgress(n) => InProgress(n)' \/ n = hnd[h].event
    BY <1>1, FreeKeeps
<1>3. \/ claimed' = claimed \ {hnd[h].event} /\ UNCHANGED <<doubled, fault>>
      \/ /\ claimed' = claimed /\ Unreleased'
         /\ doubled' = doubled \ {hnd[h].event}
    BY DEF ReleaseClaim, NoFault, Unreleased
<1>4. /\ claimed \subseteq Nat \ {0} /\ IdleHandler.event = 0
      /\ changes \in Nat /\ applied \in Nat
    BY Numbers DEF IdleHandler
<1>5. Owned'
    <2> SUFFICES ASSUME NEW o \in Handlers, hnd'[o].event # 0
                 PROVE  /\ hnd'[o].event \in claimed'
                        /\ \A r \in Handlers : hnd'[r].event = hnd'[o].event => r = o
                        /\ \/ AtStripe(hnd[o].event)'
                           \/ hnd'[o].event \in doubled' \/ hnd'[o].event <= applied'
        BY DEF Owned, AtStripe
    <2>1. o # h /\ hnd'[o] = hnd[o]
        BY <1>2, <1>4
    <2> QED
        BY <1>1, <1>2, <1>3, <1>4, <2>1 DEF EventInv, Owned, AtStripe
<1>6. Claims'
    BY <1>1, <1>2, <1>3, <1>4 DEF EventInv, Claims, Unreleased
<1>7. Kept'
    <2> SUFFICES ASSUME NEW n \in 1..changes
                 PROVE  \/ AtStripe(n)' \/ n <= applied \/ InProgress(n)'
                        \/ n \in doubled' \ claimed' \/ (n \in claimed' /\ Unreleased')
        BY <1>1 DEF Kept
    <2>1. AtStripe(n)' <=> AtStripe(n)
        BY <1>1 DEF AtStripe
    <2>2. CASE n = hnd[h].event
        <3>1. n \in claimed /\ (AtStripe(n) \/ n \in doubled \/ n <= applied)
            BY <1>4, <2>2 DEF EventInv, Owned
        <3> QED
            BY <1>1, <1>3, <2>1, <2>2, <3>1
    <2>3. CASE n # hnd[h].event
        BY <1>2, <1>3, <1>4, <2>1, <2>3 DEF EventInv, Kept, Unreleased
    <2> QED
        BY <2>2, <2>3
<1> QED
    BY <1>2, <1>5, <1>6, <1>7 DEF EventInv

LEMMA HandlersKeepEvents ==
    ASSUME Typed, Typed', EventInv, NEW h \in Handlers,
           \/ \E e \in events : Deliver(h, e)
           \/ \E s \in Subs : SyncReturn(h, s)
           \/ Reconcile(h) \/ Advance(h)
    PROVE  EventInv'
<1>1. /\ hnd[h] \in Handler /\ Keeps(hnd[h], changes, applied)
      /\ changes \in Nat /\ applied \in Nat /\ applied' \in Nat /\ claimed \subseteq Nat
      /\ hnd[h].event \in Nat /\ hnd[h].asOf \in Nat
    BY ProgressKeeps, BillingAssumption DEF EventInv, Typed, TypeOK, Handler, BillingAssumption
<1>2. ASSUME NEW e \in events, Deliver(h, e)
      PROVE  EventInv'
    BY <1>2, DeliverKeepsEvents
<1>3. ASSUME NEW s \in Subs, SyncReturn(h, s)
      PROVE  EventInv'
    <2> DEFINE q == [hnd[h] EXCEPT !.pc = "retrieve", !.sub = s]
    <2>1. hnd' = [hnd EXCEPT ![h] = q] /\ q.event = hnd[h].event /\ q.pc = "retrieve"
        BY <1>1, <1>3 DEF SyncReturn, Handler
    <2> HIDE DEF q
    <2>2. UNCHANGED <<changes, events, claimed, doubled, applied, fault>> /\ applied <= applied'
        BY <1>1, <1>3 DEF SyncReturn
    <2>3. Keeps(q, changes', applied')
        BY <1>1, <2>1, <2>2 DEF Keeps
    <2> QED
        BY <2>1, <2>2, <2>3, QuietStep DEF Unreleased
<1>4. CASE Reconcile(h)
    <2> DEFINE q == [hnd[h] EXCEPT !.pc = "retrieve", !.sub = org.sub, !.nightly = TRUE]
    <2>1. hnd' = [hnd EXCEPT ![h] = q] /\ q.event = hnd[h].event /\ q.pc = "retrieve"
        BY <1>1, <1>4 DEF Reconcile, Handler
    <2> HIDE DEF q
    <2>2. UNCHANGED <<changes, events, claimed, doubled, applied, fault>> /\ applied <= applied'
        BY <1>1, <1>4 DEF Reconcile
    <2>3. Keeps(q, changes', applied')
        BY <1>1, <2>1, <2>2 DEF Keeps
    <2> QED
        BY <2>1, <2>2, <2>3, QuietStep DEF Unreleased
<1>5. ASSUME Failed(h), UNCHANGED <<changes, events, claimed, doubled, applied>>,
             fault = "none"
      PROVE  EventInv'
    <2>0. applied <= applied' /\ ~Unreleased
        BY <1>1, <1>5 DEF Unreleased
    <2>1. CASE hnd[h].event # 0
        <3> DEFINE q == [hnd[h] EXCEPT !.pc = "release"]
        <3>1. hnd' = [hnd EXCEPT ![h] = q] /\ q.event = hnd[h].event /\ q.pc = "release"
            BY <1>1, <1>5, <2>1 DEF Failed, Handler
        <3> HIDE DEF q
        <3>2. Keeps(q, changes', applied')
            BY <1>1, <1>5, <3>1 DEF Keeps
        <3> QED
            BY <1>5, <2>0, <3>1, <3>2, QuietStep
    <2>2. CASE hnd[h].event = 0
        <3>1. hnd' = [hnd EXCEPT ![h] = IdleHandler] /\ IdleHandler.event = 0 /\ IdleHandler.pc = "idle"
            BY <1>5, <2>2 DEF Failed, Release, IdleHandler
        <3>2. Keeps(IdleHandler, changes', applied')
            BY <1>1, <1>5, <3>1 DEF Keeps
        <3> QED
            BY <1>5, <2>0, <2>2, <3>1, <3>2, QuietStep
    <2> QED
        BY <2>1, <2>2
<1>6. CASE Retrieve(h) /\ NoFault
    <2> DEFINE q == [hnd[h] EXCEPT !.pc = "find", !.snap = stripe[hnd[h].sub], !.asOf = changes]
    <2>1. hnd' = [hnd EXCEPT ![h] = q]
        BY <1>6 DEF Retrieve, NoFault, Fault
    <2>2. q.event = hnd[h].event /\ q.pc = "find" /\ q.asOf = changes
        BY <1>1 DEF Handler
    <2> HIDE DEF q
    <2>3. UNCHANGED <<changes, events, claimed, doubled, applied, fault>> /\ applied <= applied'
        BY <1>1, <1>6 DEF Retrieve, NoFault
    <2>4. Keeps(q, changes', applied')
        BY <1>1, <2>2, <2>3 DEF Keeps
    <2> QED
        BY <2>1, <2>2, <2>3, <2>4, QuietStep DEF Unreleased
<1>7. CASE Retrieve(h) /\ Fault("error")
    BY <1>5, <1>7 DEF Retrieve, Fault, NoFault
<1>8. CASE FindOrg(h)
    <2> DEFINE q == [hnd[h] EXCEPT !.pc = "write", !.seen = org.grace]
    <2>1. /\ hnd' = [hnd EXCEPT ![h] = q] /\ q.event = hnd[h].event /\ q.pc = "write"
          /\ q.asOf = hnd[h].asOf
        BY <1>1, <1>8 DEF FindOrg, Handler
    <2> HIDE DEF q
    <2>2. UNCHANGED <<changes, events, claimed, doubled, applied, fault>> /\ applied <= applied'
        BY <1>1, <1>8 DEF FindOrg
    <2>3. Keeps(q, changes', applied')
        BY <1>1, <1>8, <2>1, <2>2 DEF Keeps, FindOrg
    <2> QED
        BY <2>1, <2>2, <2>3, QuietStep DEF Unreleased
<1>9. CASE Write(h) /\ NoFault
    <2> DEFINE q == [IdleHandler EXCEPT !.pc = "finish", !.event = hnd[h].event,
                                        !.nightly = hnd[h].nightly]
    <2>1. hnd' = [hnd EXCEPT ![h] = q]
        BY <1>9 DEF Write, NoFault, Fault
    <2>2. q.event = hnd[h].event /\ q.pc = "finish"
        BY DEF IdleHandler
    <2> HIDE DEF q
    <2>3. applied' = IF hnd[h].asOf > applied THEN hnd[h].asOf ELSE applied
        BY <1>9 DEF Write, NoFault, Fault
    <2>4. Keeps(q, changes', applied') /\ applied <= applied'
        BY <1>1, <1>9, <2>2, <2>3 DEF Keeps, Write
    <2>5. doubled' = {n \in doubled : n > applied'} /\ doubled \subseteq Nat
        BY <1>9 DEF Write, NoFault, Fault, Typed, TypeOK
    <2>6. \A n \in doubled : n \in doubled' \/ n <= applied'
        BY <1>1, <2>5
    <2>7. UNCHANGED <<changes, events, claimed, fault>>
        BY <1>9 DEF Write, NoFault
    <2> QED
        BY <2>1, <2>2, <2>4, <2>6, <2>7, QuietStep DEF Unreleased
<1>10. CASE Write(h) /\ Fault("error")
    BY <1>5, <1>10 DEF Write, Fault, NoFault
<1>11. CASE Finish(h)
    BY <1>11, FinishKeepsEvents
<1>12. CASE ReleaseClaim(h)
    BY <1>12, ReleaseKeepsEvents
<1>13. /\ Retrieve(h) => NoFault \/ Fault("error")
       /\ Write(h) => NoFault \/ Fault("error")
    BY DEF Retrieve, Write
<1> QED
    BY <1>2, <1>3, <1>4, <1>6, <1>7, <1>8, <1>9, <1>10, <1>11, <1>12, <1>13 DEF Advance

LEMMA CrashKeepsEvents ==
    ASSUME Typed, EventInv, Crash
    PROVE  EventInv'
<1>1. /\ changes \in Nat /\ applied \in Nat /\ Unreleased' /\ IdleHandler.event = 0
      /\ IdleHandler.pc = "idle"
      /\ UNCHANGED <<changes, applied, events, claimed>>
      /\ doubled' = doubled \ {hnd[h].event : h \in Handlers}
      /\ \A h \in Handlers : hnd'[h] = IdleHandler
    BY Numbers DEF Crash, Fault, Unreleased, IdleHandler
<1>2. \A n \in 1..changes : InProgress(n) => n \in claimed
    BY <1>1 DEF EventInv, Owned, InProgress
<1>3. \A n \in doubled \ doubled' : InProgress(n)
    BY <1>1 DEF InProgress
<1>4. Kept'
    BY <1>1, <1>2, <1>3 DEF EventInv, Kept, AtStripe
<1> QED
    BY <1>1, <1>4 DEF EventInv, Progress, Owned, Claims

\* An event that Stripe will not deliver again is in the row or being handled,
\* whoever overlapped with whom: claimed, it is written by a handler that reads the
\* subscription after the change; failed, it is given back. It is lost in three ways
\* only: answered as a duplicate of a delivery that then failed, or with a claim
\* that outlived a crash or could not be removed (routes/billing.ts:120-165,
\* billing.ts:280-335, 387-408).
THEOREM EventsKept == Spec => []EventsAccounted
<1>1. Init => EventInv
    <2>1. Init => Progress /\ Owned /\ Claims /\ Kept
        BY DEF Init, Progress, Owned, Claims, Kept, IdleHandler
    <2> QED
        BY <2>1 DEF EventInv, Init
<1>2. Typed /\ Typed' /\ EventInv /\ [Next]_vars => EventInv'
    <2> SUFFICES ASSUME Typed, Typed', EventInv, [Next]_vars
                 PROVE  EventInv'
        OBVIOUS
    <2>1. CASE Next
        BY <2>1, WorldKeepsEvents, HandlersKeepEvents, CrashKeepsEvents DEF Next
    <2>2. CASE UNCHANGED vars
        BY <2>2 DEF vars, EventInv, Progress, Owned, Claims, Kept, InProgress, AtStripe,
                    Unreleased
    <2> QED
        BY <2>1, <2>2
<1>3. Typed /\ EventInv => EventsAccounted
    <2>1. Typed => changes \in Nat /\ applied \in Nat
        BY Numbers
    <2> QED
        BY <2>1 DEF EventInv, Kept, EventsAccounted, AtStripe, Unreleased
<1>4. Init => Typed
    BY TypedInit, BillingAssumption
<1>5. Typed /\ [Next]_vars => Typed'
    BY TypedStep, BillingAssumption
<1> QED
    BY <1>1, <1>2, <1>3, <1>4, <1>5, PTL DEF Spec

-----------------------------------------------------------------------------
(* Grace periods.                                                          *)

\* What GraceInv says of one handler, when the subscription on record is sub.
Resigned(q, sub) ==
    q.sub = sub =>
        /\ q.pc \in {"find", "write"} => q.snap = "past_due"
        /\ q.pc = "write" => q.seen = "expired"

LEMMA GraceResigned ==
    GraceInv <=> (over => /\ org.sub \in Subs /\ stripe[org.sub] = "past_due"
                          /\ org.grace = "expired"
                          /\ \A h \in Handlers : Resigned(hnd[h], org.sub))
BY DEF GraceInv, Resigned

\* One handler goes on, the row stays.
LEMMA MovesResigned ==
    ASSUME Typed, GraceInv, NEW h \in Handlers, NEW q, hnd' = [hnd EXCEPT ![h] = q],
           over => Resigned(q, org.sub), UNCHANGED <<stripe, org, over>>
    PROVE  GraceInv'
<1>1. \A o \in Handlers : hnd'[o] = IF o = h THEN q ELSE hnd[o]
    BY DEF Typed, TypeOK
<1>2. over => \A o \in Handlers : Resigned(hnd'[o], org.sub)
    BY <1>1, GraceResigned
<1> QED
    BY <1>2 DEF GraceInv, Resigned

LEMMA WorldKeepsGrace ==
    ASSUME Typed, GraceInv,
           \/ \E s \in Subs : Checkout(s) \/ Change(s)
           \/ LoadEntitlement \/ CacheExpires \/ GraceExpires
    PROVE  GraceInv'
<1>1. ASSUME NEW s \in Subs, Change(s)
      PROVE  GraceInv'
    <2>1. over' => over /\ s # org.sub
        BY <1>1 DEF Change
    <2>2. PICK new : stripe' = [stripe EXCEPT ![s] = new]
        BY <1>1 DEF Change
    <2>3. \A o \in Subs : o # s => stripe'[o] = stripe[o]
        BY <2>2 DEF Typed, TypeOK
    <2> QED
        BY <1>1, <2>1, <2>3 DEF GraceInv, Change
<1>2. CASE GraceExpires
    <2>1. org.sub \in Subs
        BY <1>2 DEF GraceExpires, Typed
    <2>2. org'.sub = org.sub /\ org'.grace = "expired"
        BY <1>2 DEF GraceExpires, Typed, TypeOK, OrgRow
    <2>3. \A h \in Handlers : hnd'[h].pc = "idle"
        BY <1>2 DEF GraceExpires
    <2>4. over' => stripe'[org.sub] = "past_due"
        BY <1>2 DEF GraceExpires
    <2> QED
        BY <2>1, <2>2, <2>3, <2>4 DEF GraceInv
<1>3. CASE UNCHANGED <<stripe, org, hnd, over>>
    BY <1>3 DEF GraceInv
<1> QED
    BY <1>1, <1>2, <1>3 DEF Checkout, LoadEntitlement, CacheExpires

\* What a write puts back of a period that ran out.
LEMMA WriteKeepsExpired ==
    ASSUME Typed, GraceInv, over, NEW h \in Handlers, Write(h), NoFault,
           hnd[h].sub = org.sub
    PROVE  org' = [sub |-> org.sub, status |-> "past_due", grace |-> "expired"]
<1>1. hnd[h].snap = "past_due" /\ hnd[h].seen = "expired"
    BY DEF GraceInv, Write
<1> QED
    BY <1>1 DEF Write, NoFault, Fault, GraceOf

LEMMA HandlersKeepGrace ==
    ASSUME Typed, GraceInv, NEW h \in Handlers,
           \/ \E e \in events : Deliver(h, e)
           \/ \E s \in Subs : SyncReturn(h, s)
           \/ Reconcile(h) \/ Advance(h)
    PROVE  GraceInv'
<1>1. hnd[h] \in Handler
    BY DEF Typed, TypeOK
<1>2. ASSUME NEW q, hnd' = [hnd EXCEPT ![h] = q], q.pc \notin {"find", "write"},
             UNCHANGED <<stripe, org, over>>
      PROVE  GraceInv'
    <2>1. Resigned(q, org.sub)
        BY <1>2 DEF Resigned
    <2> QED
        BY <1>2, <2>1, MovesResigned
<1>3. ASSUME NEW e \in events, Deliver(h, e)
      PROVE  GraceInv'
    <2>1. UNCHANGED <<stripe, org, over>>
        BY <1>3 DEF Deliver
    <2>2. CASE e.id \in claimed
        <3>1. hnd' = hnd
            BY <1>3, <2>2 DEF Deliver
        <3> QED
            BY <2>1, <3>1 DEF GraceInv
    <2>3. CASE e.id \notin claimed
        <3> DEFINE q == [hnd[h] EXCEPT !.pc = "retrieve", !.sub = e.sub, !.event = e.id]
        <3>1. hnd' = [hnd EXCEPT ![h] = q] /\ q.pc = "retrieve"
            BY <1>1, <1>3, <2>3 DEF Deliver, Handler
        <3> HIDE DEF q
        <3> QED
            BY <1>2, <2>1, <3>1
    <2> QED
        BY <2>2, <2>3
<1>4. ASSUME NEW s \in Subs, SyncReturn(h, s)
      PROVE  GraceInv'
    <2> DEFINE q == [hnd[h] EXCEPT !.pc = "retrieve", !.sub = s]
    <2>1. hnd' = [hnd EXCEPT ![h] = q] /\ q.pc = "retrieve"
        BY <1>1, <1>4 DEF SyncReturn, Handler
    <2> HIDE DEF q
    <2> QED
        BY <1>2, <1>4, <2>1 DEF SyncReturn
<1>5. CASE Reconcile(h)
    <2> DEFINE q == [hnd[h] EXCEPT !.pc = "retrieve", !.sub = org.sub, !.nightly = TRUE]
    <2>1. hnd' = [hnd EXCEPT ![h] = q] /\ q.pc = "retrieve"
        BY <1>1, <1>5 DEF Reconcile, Handler
    <2> HIDE DEF q
    <2> QED
        BY <1>2, <1>5, <2>1 DEF Reconcile
<1>6. ASSUME Release(h), UNCHANGED <<stripe, org, over>>
      PROVE  GraceInv'
    BY <1>2, <1>6 DEF Release, IdleHandler
<1>7. ASSUME Failed(h), UNCHANGED <<stripe, org, over>>
      PROVE  GraceInv'
    <2>1. CASE hnd[h].event # 0
        <3> DEFINE q == [hnd[h] EXCEPT !.pc = "release"]
        <3>1. hnd' = [hnd EXCEPT ![h] = q] /\ q.pc = "release"
            BY <1>1, <1>7, <2>1 DEF Failed, Handler
        <3> HIDE DEF q
        <3> QED
            BY <1>2, <1>7, <3>1
    <2>2. CASE hnd[h].event = 0
        BY <1>6, <1>7, <2>2 DEF Failed
    <2> QED
        BY <2>1, <2>2
<1>8. CASE Retrieve(h) /\ NoFault
    <2> DEFINE q == [hnd[h] EXCEPT !.pc = "find", !.snap = stripe[hnd[h].sub], !.asOf = changes]
    <2>1. hnd' = [hnd EXCEPT ![h] = q] /\ UNCHANGED <<stripe, org, over>>
        BY <1>8 DEF Retrieve, NoFault, Fault
    <2>2. q.sub = hnd[h].sub /\ q.pc = "find" /\ q.snap = stripe[hnd[h].sub]
        BY <1>1 DEF Handler
    <2> HIDE DEF q
    <2>3. over => Resigned(q, org.sub)
        BY <2>2 DEF GraceInv, Resigned
    <2> QED
        BY <2>1, <2>3, MovesResigned
<1>9. CASE Retrieve(h) /\ Fault("error")
    BY <1>7, <1>9 DEF Retrieve, NoFault, Fault
<1>10. CASE FindOrg(h)
    <2> DEFINE q == [hnd[h] EXCEPT !.pc = "write", !.seen = org.grace]
    <2>1. hnd' = [hnd EXCEPT ![h] = q] /\ UNCHANGED <<stripe, org, over>>
        BY <1>10 DEF FindOrg
    <2>2. /\ q.sub = hnd[h].sub /\ q.pc = "write" /\ q.snap = hnd[h].snap
          /\ q.seen = org.grace /\ hnd[h].pc = "find"
        BY <1>1, <1>10 DEF FindOrg, Handler
    <2> HIDE DEF q
    <2>3. over => Resigned(q, org.sub)
        BY <2>2 DEF GraceInv, Resigned
    <2> QED
        BY <2>1, <2>3, MovesResigned
<1>11. CASE Write(h) /\ NoFault
    <2> SUFFICES ASSUME over'
                 PROVE  GraceInv'
        BY DEF GraceInv
    <2>1. over /\ hnd[h].sub = org.sub /\ stripe' = stripe
        BY <1>11 DEF Write, NoFault, Fault
    <2>2. org'.sub = org.sub /\ org'.grace = "expired"
        BY <1>11, <2>1, WriteKeepsExpired
    <2> DEFINE done == [IdleHandler EXCEPT !.pc = "finish", !.event = hnd[h].event,
                                           !.nightly = hnd[h].nightly]
    <2>3. hnd' = [hnd EXCEPT ![h] = done] /\ done.pc = "finish"
        BY <1>11 DEF Write, NoFault, Fault, IdleHandler
    <2> HIDE DEF done
    <2>4. \A o \in Handlers : hnd'[o] = IF o = h THEN done ELSE hnd[o]
        BY <2>3 DEF Typed, TypeOK
    <2> QED
        BY <2>1, <2>2, <2>3, <2>4 DEF GraceInv
<1>12. CASE Write(h) /\ Fault("error")
    BY <1>7, <1>12 DEF Write, NoFault, Fault
<1>13. CASE Finish(h)
    BY <1>6, <1>13 DEF Finish
<1>14. CASE ReleaseClaim(h)
    BY <1>6, <1>14 DEF ReleaseClaim
<1>15. /\ Retrieve(h) => NoFault \/ Fault("error")
       /\ Write(h) => NoFault \/ Fault("error")
    BY DEF Retrieve, Write
<1> QED
    BY <1>3, <1>4, <1>5, <1>8, <1>9, <1>10, <1>11, <1>12, <1>13, <1>14, <1>15 DEF Advance

\* No step but a write to the row by another subscription starts it anew.
LEMMA OverStays ==
    ASSUME Typed, GraceInv, over, [Next]_vars
    PROVE  org'.grace # "running" \/ org'.sub # org.sub
<1>1. ASSUME NEW h \in Handlers, Write(h), NoFault
      PROVE  org'.grace # "running" \/ org'.sub # org.sub
    <2>1. CASE hnd[h].sub = org.sub
        BY <1>1, <2>1, WriteKeepsExpired
    <2>2. CASE hnd[h].sub # org.sub
        <3>1. org' = [sub |-> hnd[h].sub, status |-> hnd[h].snap, grace |-> GraceOf(h)]
            BY <1>1 DEF Write, NoFault, Fault
        <3> QED
            BY <2>2, <3>1
    <2> QED
        BY <2>1, <2>2
<1>2. CASE org' = org
    BY <1>2 DEF GraceInv
<1>3. org.grace = "expired"
    BY DEF GraceInv
<1>4. ASSUME NEW h \in Handlers,
             \/ \E e \in events : Deliver(h, e)
             \/ \E s \in Subs : SyncReturn(h, s)
             \/ Reconcile(h) \/ Advance(h)
      PROVE  org' = org \/ (Write(h) /\ NoFault)
    <2>1. CASE Write(h)
        BY <2>1 DEF Write
    <2>2. CASE \E e \in events : Deliver(h, e)
        BY <2>2 DEF Deliver
    <2>3. CASE \E s \in Subs : SyncReturn(h, s)
        BY <2>3 DEF SyncReturn
    <2>4. CASE Reconcile(h) \/ Retrieve(h) \/ FindOrg(h) \/ Finish(h) \/ ReleaseClaim(h)
        BY <2>4 DEF Reconcile, Retrieve, FindOrg, Finish, ReleaseClaim
    <2> QED
        BY <1>4, <2>1, <2>2, <2>3, <2>4 DEF Advance
<1>5. (\E s \in Subs : Checkout(s) \/ Change(s)) \/ LoadEntitlement \/ CacheExpires \/ Crash
      => org' = org
    BY DEF Checkout, Change, LoadEntitlement, CacheExpires, Crash
<1>6. ~GraceExpires
    BY <1>3 DEF GraceExpires
<1>7. UNCHANGED vars => org' = org
    BY DEF vars
<1> QED
    BY <1>1, <1>2, <1>4, <1>5, <1>6, <1>7 DEF Next

\* A grace period that ran out does not start again while the subscription stays
\* past due: whoever writes the row has read it past due, and has found the
\* period over in the row before (billing.ts:280-335).
THEOREM GraceGranted == Spec => GraceNotRenewed
<1>1. Init => GraceInv
    BY DEF Init, GraceInv
<1>2. Typed /\ GraceInv /\ [Next]_vars => GraceInv'
    <2> SUFFICES ASSUME Typed, GraceInv, [Next]_vars
                 PROVE  GraceInv'
        OBVIOUS
    <2>1. CASE Crash
        BY <2>1 DEF Crash, GraceInv, IdleHandler
    <2>2. CASE UNCHANGED vars
        BY <2>2 DEF vars, GraceInv
    <2> QED
        BY <2>1, <2>2, WorldKeepsGrace, HandlersKeepGrace DEF Next
<1>3. Typed /\ GraceInv /\ [Next]_vars => [over => org'.grace # "running" \/ org'.sub # org.sub]_vars
    BY OverStays
<1>4. Init => Typed
    BY TypedInit, BillingAssumption
<1>5. Typed /\ [Next]_vars => Typed'
    BY TypedStep, BillingAssumption
<1> QED
    BY <1>1, <1>2, <1>3, <1>4, <1>5, PTL DEF Spec, GraceNotRenewed

-----------------------------------------------------------------------------
(* Console.                                                                 *)

Froms == {"gate", "success", "cancel"}

Calls(n) == [kind : Kinds, with : 0 .. n, org : Orgs \cup {"none"}, target : Froms]

Loops(n) == [pc : {"sync", "read", "sleep"}, left : 0 .. MaxPolls, with : 0 .. n]

Tabs(n) ==
    [page : Pages, to : Pages \cup {"none"}, from : Froms, timer : 0 .. n,
     me : [org : Orgs, ent : Entitlements] \cup {NoMe}, err : BOOLEAN,
     read : NoRead .. n, call : Calls(n), started : BOOLEAN, loops : Seq(Loops(n)),
     slow : BOOLEAN, welcome : BOOLEAN, blocked : BOOLEAN, foreign : BOOLEAN]

(* The calls that bring a token name the organization it is for.            *)
Minting == {"login", "signup", "accept", "switch", "create"}
Addressed(r) == r.call.kind \in Minting => r.call.org \in Orgs

(* The effect of /billing/success has run before anything polls, and the    *)
(* slow screen comes when its loop ends; all of it goes with the page.      *)
Runs(r) ==
    /\ Len(r.loops) <= 1
    /\ r.slow => r.loops = << >>
    /\ ~r.started => r.loops = << >> /\ ~r.slow
    /\ r.page # "success" => ~r.started

(* While nobody else has touched the session: only the gate reads `me', and *)
(* only the gate and the success page have read it, until a load is on its  *)
(* way.                                                                     *)
Placed(r) ==
    ~r.foreign =>
        /\ r.read # NoRead => r.page = "gate"
        /\ r.to = "none" /\ r.me # NoMe => r.page \in {"gate", "success"}

Shape(r, n) == r \in Tabs(n) /\ Addressed(r) /\ Runs(r) /\ Placed(r)

(* What is in flight was sent with the token stored now, and what has been  *)
(* read is of its organization; the success page has a token.               *)
Sent(r, token, orgs) ==
    r.to = "none" /\ ~r.foreign =>
        /\ r.page = "success" => token # 0
        /\ token # 0 =>
               /\ r.read \in {NoRead, token}
               /\ \A k \in DOMAIN r.loops : r.loops[k].with = token
               /\ r.me # NoMe => r.me.org = orgs[token]

Timed(r, token) ==
    r.to = "none" /\ ~r.foreign /\ token # 0 => (Screen(r) = "dashboard" => r.timer = token)

Own(r, token, orgs) == Sent(r, token, orgs) /\ Timed(r, token)

TabTyped ==
    /\ orgOf \in Seq(Orgs) /\ Len(orgOf) <= MaxTokens
    /\ expired \in 0 .. Len(orgOf) /\ revoked \in 0 .. Len(orgOf)
    /\ plan \in [Orgs -> Entitlements]
    /\ stored \in 0 .. Len(orgOf)

Inv == TabTyped /\ Shape(tab, Len(orgOf)) /\ Own(tab, stored, orgOf)
-----------------------------------------------------------------------------
(* What a tab shows, and the ways it goes on.                              *)

\* The token of a call, a read or a loop was minted.
LEMMA Ranges ==
    ASSUME TabTyped
    PROVE  /\ Len(orgOf) \in Nat /\ stored \in Nat /\ expired \in Nat
           /\ \A t \in 1 .. Len(orgOf) : orgOf[t] \in Orgs
BY DEF TabTyped

LEMMA Dashboard ==
    ASSUME NEW n \in Nat, NEW r \in Tabs(n)
    PROVE  Screen(r) = "dashboard" <=>
               /\ r.page = "gate" /\ (r.me # NoMe \/ r.err)
               /\ r.me.ent # "pending" \/ r.err
<1>1. CASE r.page # "gate"
    <2>1. r.page # "dashboard"
        BY DEF Tabs, Pages, Addresses, PublicPages
    <2> QED
        BY <1>1, <2>1 DEF Screen
<1>2. CASE r.page = "gate" /\ r.me = NoMe /\ ~r.err
    <2>1. ~(r.me.ent = "pending" /\ ~r.err)
        BY <1>2 DEF NoMe
    <2> QED
        BY <1>2, <2>1 DEF Screen
<1>3. CASE r.page = "gate" /\ r.me.ent = "pending" /\ ~r.err
    <2>1. r.me # NoMe
        BY <1>3 DEF NoMe
    <2> QED
        BY <1>3, <2>1 DEF Screen
<1>4. CASE r.page = "gate" /\ ~(r.me = NoMe /\ ~r.err) /\ ~(r.me.ent = "pending" /\ ~r.err)
    BY <1>4 DEF Screen, Tabs
<1> QED
    BY <1>1, <1>2, <1>3, <1>4

(* What the actions write keeps the type of the tab.                       *)
LEMMA Moves ==
    ASSUME NEW n \in Nat, NEW r \in Tabs(n)
    PROVE  /\ \A t \in 0 .. n, to \in Pages \cup {"none"}, from \in Froms :
                  [r EXCEPT !.timer = t, !.to = to, !.from = from] \in Tabs(n)
           /\ \A to \in Pages \cup {"none"}, from \in Froms :
                  [r EXCEPT !.to = to, !.from = from] \in Tabs(n)
           /\ \A from \in Froms, b \in BOOLEAN :
                  [r EXCEPT !.from = from, !.welcome = b] \in Tabs(n)
           /\ \A t \in 0 .. n, b \in BOOLEAN :
                  [r EXCEPT !.timer = t, !.welcome = b] \in Tabs(n)
           /\ \A to \in Pages \cup {"none"} :
                  [r EXCEPT !.to = to] \in Tabs(n)
<1>1. \A t \in 0 .. n, to \in Pages \cup {"none"}, from \in Froms :
           [r EXCEPT !.timer = t, !.to = to, !.from = from] \in Tabs(n)
    BY DEF Tabs
<1>2. \A to \in Pages \cup {"none"}, from \in Froms :
           [r EXCEPT !.to = to, !.from = from] \in Tabs(n)
    BY DEF Tabs
<1>3. \A from \in Froms, b \in BOOLEAN :
           [r EXCEPT !.from = from, !.welcome = b] \in Tabs(n)
    BY DEF Tabs
<1>4. \A t \in 0 .. n, b \in BOOLEAN :
           [r EXCEPT !.timer = t, !.welcome = b] \in Tabs(n)
    BY DEF Tabs
<1>5. \A to \in Pages \cup {"none"} :
           [r EXCEPT !.to = to] \in Tabs(n)
    BY DEF Tabs
<1> QED
    BY <1>1, <1>2, <1>3, <1>4, <1>5

LEMMA Reads ==
    ASSUME NEW n \in Nat, NEW r \in Tabs(n)
    PROVE  /\ \A read \in NoRead .. n :
                  [r EXCEPT !.read = read] \in Tabs(n)
           /\ \A read \in NoRead .. n, b \in BOOLEAN :
                  [r EXCEPT !.read = read, !.err = b] \in Tabs(n)
           /\ \A read \in NoRead .. n, me \in [org : Orgs, ent : Entitlements] \cup {NoMe}, b \in BOOLEAN :
                  [r EXCEPT !.read = read, !.me = me, !.err = b] \in Tabs(n)
<1>1. \A read \in NoRead .. n :
           [r EXCEPT !.read = read] \in Tabs(n)
    BY DEF Tabs
<1>2. \A read \in NoRead .. n, b \in BOOLEAN :
           [r EXCEPT !.read = read, !.err = b] \in Tabs(n)
    BY DEF Tabs
<1>3. \A read \in NoRead .. n, me \in [org : Orgs, ent : Entitlements] \cup {NoMe}, b \in BOOLEAN :
           [r EXCEPT !.read = read, !.me = me, !.err = b] \in Tabs(n)
    BY DEF Tabs
<1> QED
    BY <1>1, <1>2, <1>3

LEMMA Called ==
    ASSUME NEW n \in Nat, NEW r \in Tabs(n)
    PROVE  /\ \A call \in Calls(n) :
                  [r EXCEPT !.call = call] \in Tabs(n)
           /\ \A b \in BOOLEAN :
                  [r EXCEPT !.blocked = b] \in Tabs(n)
           /\ \A b \in BOOLEAN, read \in NoRead .. n :
                  [r EXCEPT !.blocked = b, !.read = read] \in Tabs(n)
           /\ \A to \in Pages \cup {"none"}, call \in Calls(n) :
                  [r EXCEPT !.to = to, !.call = call] \in Tabs(n)
<1>1. \A call \in Calls(n) :
           [r EXCEPT !.call = call] \in Tabs(n)
    BY DEF Tabs
<1>2. \A b \in BOOLEAN :
           [r EXCEPT !.blocked = b] \in Tabs(n)
    BY DEF Tabs
<1>3. \A b \in BOOLEAN, read \in NoRead .. n :
           [r EXCEPT !.blocked = b, !.read = read] \in Tabs(n)
    BY DEF Tabs
<1>4. \A to \in Pages \cup {"none"}, call \in Calls(n) :
           [r EXCEPT !.to = to, !.call = call] \in Tabs(n)
    BY DEF Tabs
<1> QED
    BY <1>1, <1>2, <1>3, <1>4

LEMMA Polls ==
    ASSUME NEW n \in Nat, NEW r \in Tabs(n)
    PROVE  /\ \A b \in BOOLEAN, loops \in Seq(Loops(n)) :
                  [r EXCEPT !.started = b, !.loops = loops] \in Tabs(n)
           /\ \A b \in BOOLEAN, loops \in Seq(Loops(n)) :
                  [r EXCEPT !.slow = b, !.loops = loops] \in Tabs(n)
           /\ \A loops \in Seq(Loops(n)) :
                  [r EXCEPT !.loops = loops] \in Tabs(n)
           /\ \A me \in [org : Orgs, ent : Entitlements] \cup {NoMe}, b \in BOOLEAN :
                  [r EXCEPT !.me = me, !.welcome = b] \in Tabs(n)
           /\ \A me \in [org : Orgs, ent : Entitlements] \cup {NoMe} :
                  [r EXCEPT !.me = me] \in Tabs(n)
<1>1. \A b \in BOOLEAN, loops \in Seq(Loops(n)) :
           [r EXCEPT !.started = b, !.loops = loops] \in Tabs(n)
    BY DEF Tabs
<1>2. \A b \in BOOLEAN, loops \in Seq(Loops(n)) :
           [r EXCEPT !.slow = b, !.loops = loops] \in Tabs(n)
    BY DEF Tabs
<1>3. \A loops \in Seq(Loops(n)) :
           [r EXCEPT !.loops = loops] \in Tabs(n)
    BY DEF Tabs
<1>4. \A me \in [org : Orgs, ent : Entitlements] \cup {NoMe}, b \in BOOLEAN :
           [r EXCEPT !.me = me, !.welcome = b] \in Tabs(n)
    BY DEF Tabs
<1>5. \A me \in [org : Orgs, ent : Entitlements] \cup {NoMe} :
           [r EXCEPT !.me = me] \in Tabs(n)
    BY DEF Tabs
<1> QED
    BY <1>1, <1>2, <1>3, <1>4, <1>5

\* handleUnauthorized: the page keeps its shape, and nothing is stored.
LEMMA BouncedShape ==
    ASSUME NEW n \in Nat, NEW r, Shape(r, n)
    PROVE  Shape(Bounced(r), n) /\ (Bounced(r).to # "none" \/ Bounced(r).page # "success")
<1> DEFINE from == IF r.page = "away" THEN "gate" ELSE Address(r.page)
<1>1. r.page \notin PublicPages => from \in Froms
    BY DEF Address, Shape, Tabs, Pages, Addresses, PublicPages, Froms
<1>2. Bounced(r) \in Tabs(n)
    <2>1. CASE r.page \in PublicPages
        BY <2>1 DEF Bounced, Shape, Tabs
    <2>2. CASE r.page \notin PublicPages
        <3>1. Bounced(r) = [r EXCEPT !.timer = 0, !.to = "login", !.from = from]
            BY <2>2 DEF Bounced
        <3>2. from \in Froms /\ "login" \in Pages \cup {"none"} /\ 0 \in 0 .. n
            BY <1>1, <2>2 DEF Pages, Addresses, PublicPages
        <3> HIDE DEF from
        <3>3. [r EXCEPT !.timer = 0, !.to = "login", !.from = from] \in Tabs(n)
            BY Zenon, <3>2, Moves DEF Shape
        <3> QED
            BY <3>1, <3>3
    <2> QED
        BY <2>1, <2>2
<1>3. /\ Bounced(r).page = r.page /\ Bounced(r).call = r.call /\ Bounced(r).loops = r.loops
      /\ Bounced(r).slow = r.slow /\ Bounced(r).started = r.started
      /\ Bounced(r).foreign = r.foreign /\ Bounced(r).read = r.read /\ Bounced(r).me = r.me
    BY DEF Bounced, Shape, Tabs
<1>4. Bounced(r).to # "none" \/ (Bounced(r).to = r.to /\ r.page \in PublicPages)
    BY DEF Bounced, Shape, Tabs
<1> QED
    BY <1>2, <1>3, <1>4 DEF Shape, Addressed, Runs, Placed, PublicPages

LEMMA BlankShape ==
    ASSUME NEW n \in Nat
    PROVE  Shape(Blank, n)
<1>1. Idle \in Calls(n) /\ << >> \in Seq(Loops(n)) /\ NoRead \in NoRead .. n
    BY DEF Idle, Calls, Kinds, Froms, NoRead
<1>2. Blank \in Tabs(n)
    BY <1>1 DEF Blank, Tabs, Pages, Addresses, Froms
<1> QED
    BY <1>2 DEF Shape, Blank, Addressed, Runs, Placed, Idle, Minting

LEMMA NothingStored ==
    ASSUME NEW r, NEW orgs, r.to # "none" \/ r.page # "success" \/ r.foreign
    PROVE  Own(r, 0, orgs)
BY DEF Own, Sent, Timed

\* The tab as it goes on after an answer: of the same load, for the same
\* session, and with the same timer.
LEMMA BecomesKeeps ==
    ASSUME TabTyped, Own(tab, stored, orgOf), tab \in Tabs(Len(orgOf)),
           NEW r, Shape(r, Len(orgOf)), Sent(r, stored, orgOf),
           r.to = tab.to, r.foreign = tab.foreign, r.timer = tab.timer,
           TabBecomes(r, stored)
    PROVE  /\ stored' \in 0 .. Len(orgOf)
           /\ Shape(tab', Len(orgOf)) /\ Own(tab', stored', orgOf)
<1> DEFINE n == Len(orgOf)
           mounts == Screen(r) = "dashboard" /\ Here # "dashboard"
<1>1. n \in Nat /\ stored \in 0 .. n
    BY DEF TabTyped
<1>2. CASE mounts /\ stored \in 1 .. expired
    <2>1. stored' = 0 /\ tab' = Bounced(r)
        BY <1>2 DEF TabBecomes, Unauthorized
    <2> QED
        BY <1>1, <2>1, BouncedShape, NothingStored
<1>3. CASE mounts /\ ~(stored \in 1 .. expired)
    <2>1. stored' = stored /\ tab' = Arm(r, stored)
        BY <1>3 DEF TabBecomes
    <2>2. /\ tab' \in Tabs(n) /\ tab'.timer = stored /\ tab'.page = r.page
          /\ tab'.call = r.call /\ tab'.loops = r.loops /\ tab'.slow = r.slow
          /\ tab'.started = r.started /\ tab'.foreign = r.foreign /\ tab'.read = r.read
          /\ tab'.me = r.me /\ tab'.to = r.to
        BY <1>1, <2>1 DEF Arm, Shape, Tabs
    <2>3. Shape(tab', n)
        BY <2>2 DEF Shape, Addressed, Runs, Placed
    <2>4. Sent(tab', stored, orgOf)
        BY <2>2 DEF Sent
    <2> QED
        BY <1>1, <2>1, <2>2, <2>3, <2>4 DEF Own, Timed
<1>4. CASE ~mounts
    <2>1. stored' = stored /\ tab' = r
        BY <1>4 DEF TabBecomes
    <2>2. Timed(r, stored)
        BY <1>4 DEF Timed, Own, Here
    <2> QED
        BY <1>1, <2>1, <2>2 DEF Own
<1> QED
    BY <1>2, <1>3, <1>4

\* navigate(): a page of the application.
LEMMA EnteredFields ==
    ASSUME TabTyped, NEW r, r \in Tabs(Len(orgOf)), Runs(r), Addressed(r), NEW page \in Pages
    PROVE  LET e == Entered(r, page)
           IN  /\ e \in Tabs(Len(orgOf)) /\ Runs(e) /\ Addressed(e)
               /\ e.page = page /\ e.to = r.to /\ e.foreign = r.foreign
               /\ e.timer = r.timer /\ e.me = r.me /\ e.call = r.call
               /\ e.loops = IF r.page = page THEN r.loops ELSE << >>
               /\ e.read = IF r.page # page /\ page = "gate" /\ r.me = NoMe
                             THEN stored ELSE r.read
<1> DEFINE n == Len(orgOf)
           e == Entered(r, page)
<1>1. CASE r.page = page
    BY <1>1 DEF Entered
<1>2. CASE r.page # page
    <2>1. n \in Nat /\ stored \in NoRead .. n
        BY DEF TabTyped, NoRead
    <2>2. << >> \in Seq(Loops(n))
        OBVIOUS
    <2>3. /\ e \in Tabs(n) /\ e.page = page /\ e.to = r.to /\ e.foreign = r.foreign
          /\ e.timer = r.timer /\ e.me = r.me /\ e.loops = << >> /\ ~e.slow
          /\ ~e.started /\ e.call = r.call
          /\ e.read = IF page = "gate" /\ r.me = NoMe THEN stored ELSE r.read
        BY <1>2, <2>1, <2>2 DEF Entered, Tabs
    <2>4. Addressed(e) /\ Runs(e)
        BY <2>3 DEF Addressed, Runs
    <2> QED
        BY <1>2, <2>3, <2>4
<1> QED
    BY <1>1, <1>2

\* Within a load, neither the gate nor the success page is left for another.
LEMMA EnteredShape ==
    ASSUME TabTyped, NEW r, Shape(r, Len(orgOf)), NEW page \in Pages,
           ~r.foreign => \/ page = "gate" \/ page = r.page
                         \/ r.page \notin {"gate", "success"}
                         \/ r.page = "success" /\ r.to # "none"
    PROVE  Shape(Entered(r, page), Len(orgOf))
<1> DEFINE e == Entered(r, page)
<1>1. /\ e \in Tabs(Len(orgOf)) /\ Runs(e) /\ Addressed(e)
      /\ e.page = page /\ e.foreign = r.foreign /\ e.me = r.me /\ e.call = r.call
      /\ e.to = r.to
      /\ e.read = IF r.page # page /\ page = "gate" /\ r.me = NoMe THEN stored ELSE r.read
    BY EnteredFields DEF Shape
<1>2. Placed(e)
    BY <1>1 DEF Shape, Placed
<1> QED
    BY <1>1, <1>2 DEF Shape

LEMMA EnteredSent ==
    ASSUME TabTyped, NEW r, Shape(r, Len(orgOf)), NEW page \in Pages, Sent(r, stored, orgOf),
           page = "success" => stored # 0
    PROVE  Sent(Entered(r, page), stored, orgOf)
<1> DEFINE e == Entered(r, page)
<1>1. /\ e.to = r.to /\ e.foreign = r.foreign /\ e.me = r.me /\ e.page = page
      /\ e.loops = IF r.page = page THEN r.loops ELSE << >>
      /\ e.read = IF r.page # page /\ page = "gate" /\ r.me = NoMe THEN stored ELSE r.read
    BY EnteredFields DEF Shape
<1> HIDE DEF e
<1>2. Sent(e, stored, orgOf)
    BY <1>1 DEF Sent
<1> QED
    BY <1>2 DEF e

-----------------------------------------------------------------------------
(* The actions that leave the tokens, their lives and the plans alone.     *)

TabKept == UNCHANGED <<orgOf, expired, revoked, plan>>

LEMMA Onward ==
    ASSUME Inv, TabKept, stored' \in 0 .. Len(orgOf),
           Shape(tab', Len(orgOf)), Own(tab', stored', orgOf)
    PROVE  Inv'
BY DEF Inv, TabKept, TabTyped, Shape, Own, Tabs, Calls, Loops, Addressed, Runs, Placed, Sent, Timed

\* The screen, the timer and what has been read stay; what is in flight is
\* answered, or goes with the token stored; and no load ends.
LEMMA AsideOwn ==
    ASSUME Inv, NEW r,
           r.page = tab.page, r.me = tab.me, r.err = tab.err,
           r.timer = tab.timer, r.foreign = tab.foreign,
           r.to # "none" \/ r.to = tab.to,
           r.read \in {tab.read, NoRead, stored},
           \A k \in DOMAIN r.loops : \/ r.loops[k].with = stored
                                     \/ k \in DOMAIN tab.loops /\ r.loops[k].with = tab.loops[k].with
    PROVE  Own(r, stored, orgOf)
<1>1. Sent(r, stored, orgOf)
    BY DEF Inv, Own, Sent
<1>2. Screen(r) = Screen(tab)
    BY DEF Screen
<1>3. Timed(r, stored)
    BY <1>2 DEF Inv, Own, Timed
<1> QED
    BY <1>1, <1>3 DEF Own

LEMMA AskedKeeps ==
    ASSUME Inv, NEW page \in Pages, Visit(page) \/ Reload
    PROVE  Inv'
<1> DEFINE n == Len(orgOf)
<1>1. PICK to \in Pages : \/ tab' = [tab EXCEPT !.to = to, !.from = "gate"]
                          \/ tab' = [tab EXCEPT !.to = to]
    BY DEF Visit, Reload, Address, Inv, Shape, Tabs, Pages, Addresses
<1>2. TabKept /\ stored' = stored /\ n \in Nat /\ stored \in 0 .. n
    BY DEF Visit, Reload, TabKept, Inv, TabTyped
<1>3. "gate" \in Froms /\ to # "none" /\ to \in Pages \cup {"none"}
    BY DEF Froms, Pages, Addresses, PublicPages
<1>4. tab' \in Tabs(n)
    <2>1. [tab EXCEPT !.to = to, !.from = "gate"] \in Tabs(n) /\ [tab EXCEPT !.to = to] \in Tabs(n)
        BY Zenon, <1>2, <1>3, Moves DEF Inv, Shape
    <2> QED
        BY <1>1, <2>1
<1>5. /\ tab'.page = tab.page /\ tab'.me = tab.me /\ tab'.err = tab.err
      /\ tab'.timer = tab.timer /\ tab'.foreign = tab.foreign /\ tab'.to = to
      /\ tab'.read = tab.read /\ tab'.loops = tab.loops /\ tab'.call = tab.call
      /\ tab'.slow = tab.slow /\ tab'.started = tab.started
    BY <1>1 DEF Inv, Shape, Tabs
<1>6. Shape(tab', n)
    BY <1>3, <1>4, <1>5 DEF Inv, Shape, Addressed, Runs, Placed
<1>7. Own(tab', stored, orgOf)
    BY <1>3, <1>5, AsideOwn
<1> QED
    BY <1>2, <1>6, <1>7, Onward

\* The page a load shows has read nothing; if it is the gate, it reads with
\* the token it finds.
LEMMA LoadKeeps ==
    ASSUME Inv, Load
    PROVE  Inv'
<1> DEFINE n == Len(orgOf)
           from == IF tab.to \in {"gate", "success"} THEN "gate" ELSE tab.from
           page == Guarded(tab.to, from)
           e == Entered(Blank, page)
<1>1. TabKept /\ stored' = stored /\ tab' = [e EXCEPT !.from = from, !.welcome = tab.welcome]
    BY DEF Load, TabKept
<1>2. from \in Froms /\ from \in Pages /\ tab.to \in Pages /\ tab.welcome \in BOOLEAN
    BY DEF Load, Staying, Inv, Shape, Tabs, Froms, Pages, Addresses
<1>3. page \in Pages
    BY <1>2 DEF Guarded, Pages, Addresses, PublicPages
<1>4. Shape(Blank, n) /\ n \in Nat /\ stored \in 0 .. n
    BY BlankShape DEF Inv, TabTyped
<1>5. Shape(e, n)
    BY <1>3, <1>4, EnteredShape DEF Inv, Blank
<1>6. e.me = NoMe /\ e.loops = << >> /\ e.read \in {NoRead, stored} /\ e.page = page
    BY <1>3, <1>4, EnteredFields DEF Inv, Shape, Blank
<1>7. ~e.err
    BY DEF Entered, Blank
<1> HIDE DEF e, page, from
<1>8. tab' \in Tabs(n)
    BY <1>1, <1>2, <1>4, <1>5, Moves DEF Shape
<1>9. /\ tab'.page = e.page /\ tab'.me = NoMe /\ ~tab'.err /\ tab'.foreign = e.foreign
      /\ tab'.read = e.read /\ tab'.loops = << >> /\ tab'.call = e.call
      /\ tab'.slow = e.slow /\ tab'.started = e.started
    BY <1>1, <1>5, <1>6, <1>7 DEF Shape, Tabs
<1>10. Shape(tab', n)
    BY <1>5, <1>6, <1>8, <1>9 DEF Shape, Addressed, Runs, Placed
<1>11. Screen(tab') # "dashboard"
    BY <1>4, <1>8, <1>9, Dashboard
<1>12. page = "success" => stored # 0
    BY <1>2 DEF page, Guarded, isLoggedIn, Inv, TabTyped, Froms, from
<1>13. Own(tab', stored, orgOf)
    BY <1>6, <1>9, <1>11, <1>12 DEF Own, Sent, Timed
<1> QED
    BY <1>1, <1>4, <1>10, <1>13, Onward


LEMMA UnauthorizedInv ==
    ASSUME Inv, TabKept, NEW r, Shape(r, Len(orgOf)), Unauthorized(r)
    PROVE  Inv'
<1>1. Len(orgOf) \in Nat /\ stored' = 0 /\ tab' = Bounced(r)
    BY DEF Unauthorized, Inv, TabTyped
<1>2. Shape(tab', Len(orgOf)) /\ Own(tab', stored', orgOf)
    BY <1>1, BouncedShape, NothingStored
<1> QED
    BY <1>1, <1>2, Onward

LEMMA BecomesInv ==
    ASSUME Inv, TabKept, NEW r, Shape(r, Len(orgOf)), Sent(r, stored, orgOf),
           r.to = tab.to, r.foreign = tab.foreign, r.timer = tab.timer,
           TabBecomes(r, stored)
    PROVE  Inv'
<1>1. /\ stored' \in 0 .. Len(orgOf)
      /\ Shape(tab', Len(orgOf)) /\ Own(tab', stored', orgOf)
    BY BecomesKeeps DEF Inv, Shape
<1> QED
    BY <1>1, Onward

LEMMA NavigatedInv ==
    ASSUME Inv, TabKept, NEW r, Shape(r, Len(orgOf)), Sent(r, stored, orgOf),
           r.to = tab.to, r.foreign = tab.foreign, r.timer = tab.timer,
           NEW page \in Pages,
           ~r.foreign => \/ page = "gate" \/ page = r.page
                         \/ r.page \notin {"gate", "success"}
                         \/ r.page = "success" /\ r.to # "none",
           page = "success" => stored # 0,
           TabBecomes(Entered(r, page), stored)
    PROVE  Inv'
<1> DEFINE e == Entered(r, page)
<1>1. Shape(e, Len(orgOf)) /\ Sent(e, stored, orgOf)
    BY EnteredShape, EnteredSent DEF Inv
<1>2. e.to = r.to /\ e.foreign = r.foreign /\ e.timer = r.timer
    BY EnteredFields DEF Inv, Shape
<1> HIDE DEF e
<1>3. TabBecomes(e, stored)
    BY DEF e
<1> QED
    BY <1>1, <1>2, <1>3, BecomesInv

LEMMA SignedInElsewhereKeeps ==
    ASSUME Inv, SignedInElsewhere
    PROVE  Inv'
<1>1. tab.from \in Pages /\ tab.page \notin {"gate", "success"}
    BY DEF SignedInElsewhere, Guards, Inv, Shape, Tabs, Froms, Pages, Addresses
<1>2. Shape(tab, Len(orgOf)) /\ Sent(tab, stored, orgOf)
    BY DEF Inv, Own
<1>3. TabKept /\ TabBecomes(Entered(tab, tab.from), stored)
    BY DEF SignedInElsewhere, TabKept
<1>4. stored # 0
    BY DEF SignedInElsewhere, isLoggedIn, Inv, TabTyped
<1> QED
    BY <1>1, <1>2, <1>3, <1>4, NavigatedInv

LEMMA LinkKeeps ==
    ASSUME Inv, NEW page \in Pages, Link(page)
    PROVE  Inv'
<1> DEFINE n == Len(orgOf)
           next == Guarded(page, "gate")
           r == [tab EXCEPT !.from = "gate"]
<1>1. TabKept /\ TabBecomes(Entered(r, next), stored)
    BY DEF Link, TabKept
<1>2. next \in Pages
    BY DEF Guarded, Pages, Addresses, PublicPages
<1>3. tab.page \notin {"gate", "success"} /\ next # "success"
    BY DEF Link, Guarded, Guards
<1>4. r \in Tabs(n)
    BY DEF Inv, Shape, Tabs, Froms
<1>5. /\ r.page = tab.page /\ r.me = tab.me /\ r.to = tab.to
      /\ r.timer = tab.timer /\ r.foreign = tab.foreign
      /\ r.read = tab.read /\ r.loops = tab.loops /\ r.call = tab.call
      /\ r.slow = tab.slow /\ r.started = tab.started
    BY DEF Inv, Shape, Tabs
<1> HIDE DEF r, next
<1>6. Shape(r, n)
    BY <1>4, <1>5 DEF Inv, Shape, Addressed, Runs, Placed
<1>7. Sent(r, stored, orgOf)
    BY <1>5 DEF Inv, Own, Sent
<1> QED
    BY <1>1, <1>2, <1>3, <1>5, <1>6, <1>7, NavigatedInv

LEMMA LogoutKeeps ==
    ASSUME Inv, Logout
    PROVE  Inv'
<1> DEFINE n == Len(orgOf)
<1>1. n \in Nat /\ 0 \in 0 .. n /\ "login" \in Pages \cup {"none"} /\ "gate" \in Froms
    BY DEF Inv, TabTyped, Pages, Addresses, PublicPages, Froms
<1>2. [tab EXCEPT !.timer = 0, !.to = "login", !.from = "gate"] \in Tabs(n)
    BY Zenon, <1>1, Moves DEF Inv, Shape
<1>3. TabKept /\ stored' = 0 /\ tab' = [tab EXCEPT !.timer = 0, !.to = "login", !.from = "gate"]
    BY DEF Logout, TabKept
<1>4. tab' \in Tabs(n)
    BY <1>2, <1>3
<1>5. /\ tab'.page = tab.page /\ tab'.me = tab.me /\ tab'.foreign = tab.foreign
      /\ tab'.read = tab.read /\ tab'.loops = tab.loops /\ tab'.call = tab.call
      /\ tab'.slow = tab.slow /\ tab'.started = tab.started
    BY <1>3 DEF Inv, Shape, Tabs
<1>6. tab'.to # "none"
    BY <1>3 DEF Inv, Shape, Tabs
<1>7. Shape(tab', n)
    BY <1>4, <1>5, <1>6 DEF Inv, Shape, Addressed, Runs, Placed
<1> QED
    BY <1>1, <1>3, <1>6, <1>7, NothingStored, Onward

LEMMA TimerFiresKeeps ==
    ASSUME Inv, TimerFires
    PROVE  Inv'
BY UnauthorizedInv DEF TimerFires, TabKept, Inv

-----------------------------------------------------------------------------
(* /v1/auth/me.                                                            *)

\* An answer to a token that is let in.
LEMMA MeOfToken ==
    ASSUME TabTyped, NEW t \in NoRead .. Len(orgOf), Valid(t)
    PROVE  /\ MeOf(t) \in [org : Orgs, ent : Entitlements] /\ MeOf(t) # NoMe
           /\ MeOf(t).org = orgOf[t] /\ t # 0
<1>1. t \in 1 .. Len(orgOf)
    BY DEF TabTyped, Valid, NoRead
<1>2. orgOf[t] \in Orgs /\ plan[orgOf[t]] \in Entitlements
    BY <1>1 DEF TabTyped
<1> QED
    BY <1>1, <1>2 DEF MeOf, NoMe, Entitlements

LEMMA RefetchKeeps ==
    ASSUME Inv, Refetch
    PROVE  Inv'
<1> DEFINE n == Len(orgOf)
<1>1. n \in Nat /\ stored \in 0 .. n /\ stored \in NoRead .. n
    BY DEF Inv, TabTyped, NoRead
<1>2. TabKept /\ stored' = stored /\ tab' = [tab EXCEPT !.read = stored] /\ tab.page = "gate"
    BY DEF Refetch, TabKept
<1>3. [tab EXCEPT !.read = stored] \in Tabs(n)
    BY Zenon, <1>1, Reads DEF Inv, Shape
<1>4. tab' \in Tabs(n)
    BY <1>2, <1>3
<1>5. /\ tab'.page = tab.page /\ tab'.me = tab.me /\ tab'.err = tab.err
      /\ tab'.timer = tab.timer /\ tab'.foreign = tab.foreign /\ tab'.to = tab.to
      /\ tab'.read = stored /\ tab'.loops = tab.loops /\ tab'.call = tab.call
      /\ tab'.slow = tab.slow /\ tab'.started = tab.started
    BY <1>2 DEF Inv, Shape, Tabs
<1>6. Shape(tab', n)
    BY <1>2, <1>4, <1>5 DEF Inv, Shape, Addressed, Runs, Placed
<1>7. Own(tab', stored, orgOf)
    BY <1>5, AsideOwn
<1> QED
    BY <1>1, <1>2, <1>6, <1>7, Onward

\* The record an answer to the read makes of the tab.
LEMMA AnsweredShape ==
    ASSUME Inv, tab.read # NoRead, NEW r, r \in Tabs(Len(orgOf)),
           r.page = tab.page, r.foreign = tab.foreign, r.to = tab.to, r.timer = tab.timer,
           r.read = NoRead, r.loops = tab.loops, r.call = tab.call,
           r.slow = tab.slow, r.started = tab.started,
           r.me = tab.me \/ (Valid(tab.read) /\ r.me = MeOf(tab.read))
    PROVE  Shape(r, Len(orgOf)) /\ Sent(r, stored, orgOf)
<1>1. Shape(r, Len(orgOf))
    BY DEF Inv, Shape, Addressed, Runs, Placed
<1>2. tab.read \in NoRead .. Len(orgOf)
    BY DEF Inv, Shape, Tabs
<1>3. Valid(tab.read) => MeOf(tab.read).org = orgOf[tab.read]
    BY <1>2, MeOfToken DEF Inv
<1>4. Sent(r, stored, orgOf)
    BY <1>3 DEF Inv, Own, Sent
<1> QED
    BY <1>1, <1>4

LEMMA MeAnsweredKeeps ==
    ASSUME Inv, MeAnswered \/ MeLost
    PROVE  Inv'
<1> DEFINE n == Len(orgOf)
           answered == [tab EXCEPT !.read = NoRead, !.me = MeOf(tab.read), !.err = FALSE]
           lost == [tab EXCEPT !.read = NoRead, !.err = TRUE]
<1>1. /\ n \in Nat /\ NoRead \in NoRead .. n /\ TabKept /\ tab.read # NoRead
      /\ TRUE \in BOOLEAN /\ FALSE \in BOOLEAN /\ tab.read \in NoRead .. n
    BY DEF Inv, TabTyped, NoRead, MeAnswered, MeLost, TabKept, Shape, Tabs
<1>2. [tab EXCEPT !.read = NoRead, !.err = TRUE] \in Tabs(n)
    BY Zenon, <1>1, Reads DEF Inv, Shape
<1>3. /\ lost.page = tab.page /\ lost.me = tab.me
      /\ lost.timer = tab.timer /\ lost.foreign = tab.foreign /\ lost.to = tab.to
      /\ lost.read = NoRead /\ lost.loops = tab.loops /\ lost.call = tab.call
      /\ lost.slow = tab.slow /\ lost.started = tab.started
    BY DEF Inv, Shape, Tabs
<1>4. Shape(lost, n) /\ Sent(lost, stored, orgOf)
    <2> HIDE DEF lost
    <2>1. lost \in Tabs(n)
        BY <1>2 DEF lost
    <2> QED
        BY <1>1, <1>3, <2>1, AnsweredShape
<1>5. CASE MeLost
    <2>1. TabBecomes(lost, stored)
        BY <1>5 DEF MeLost
    <2> HIDE DEF lost
    <2> QED
        BY <1>1, <1>3, <1>4, <2>1, BecomesInv
<1>6. CASE MeAnswered /\ ~Valid(tab.read)
    <2>1. [[tab EXCEPT !.read = NoRead] EXCEPT !.err = TRUE] = lost
        BY DEF Inv, Shape, Tabs
    <2>2. Unauthorized([[tab EXCEPT !.read = NoRead] EXCEPT !.err = TRUE])
        BY <1>6 DEF MeAnswered
    <2>3. Unauthorized(lost)
        BY <2>1, <2>2
    <2> HIDE DEF lost
    <2> QED
        BY <1>1, <1>4, <2>3, UnauthorizedInv
<1>7. CASE MeAnswered /\ Valid(tab.read)
    <2>1. [[tab EXCEPT !.read = NoRead] EXCEPT !.me = MeOf(tab.read), !.err = FALSE] = answered
        BY DEF Inv, Shape, Tabs
    <2>2. TabBecomes([[tab EXCEPT !.read = NoRead] EXCEPT !.me = MeOf(tab.read), !.err = FALSE], stored)
        BY <1>7 DEF MeAnswered
    <2>3. TabBecomes(answered, stored)
        BY <2>1, <2>2
    <2>4. MeOf(tab.read) \in [org : Orgs, ent : Entitlements] \cup {NoMe}
        BY <1>1, <1>7, MeOfToken DEF Inv
    <2>5. [tab EXCEPT !.read = NoRead, !.me = MeOf(tab.read), !.err = FALSE] \in Tabs(n)
        BY Zenon, <1>1, <2>4, Reads DEF Inv, Shape
    <2>6. /\ answered.page = tab.page /\ answered.me = MeOf(tab.read)
          /\ answered.timer = tab.timer /\ answered.foreign = tab.foreign
          /\ answered.to = tab.to
          /\ answered.read = NoRead /\ answered.loops = tab.loops /\ answered.call = tab.call
          /\ answered.slow = tab.slow /\ answered.started = tab.started
        BY DEF Inv, Shape, Tabs
    <2>7. answered \in Tabs(n)
        BY <2>5
    <2> HIDE DEF answered
    <2>8. Shape(answered, n) /\ Sent(answered, stored, orgOf)
        BY <1>1, <1>7, <2>6, <2>7, AnsweredShape
    <2> QED
        BY <1>1, <2>3, <2>6, <2>8, BecomesInv
<1> QED
    BY <1>5, <1>6, <1>7
-----------------------------------------------------------------------------
(* The forms and buttons.                                                  *)

LEMMA SubmitKeeps ==
    ASSUME Inv, NEW kind \in Kinds, Submit(kind)
    PROVE  Inv'
<1> DEFINE n == Len(orgOf)
<1>1. n \in Nat /\ stored \in 0 .. n
    BY DEF Inv, TabTyped
<1>2. PICK o \in Offered(kind) :
          tab' = [tab EXCEPT !.call =
                   [kind |-> kind, org |-> o,
                    with |-> IF kind \in {"login", "signup", "accept", "reset"} THEN 0 ELSE stored,
                    target |-> IF kind \in {"login", "signup"} THEN tab.from ELSE "gate"]]
    BY DEF Submit
<1> DEFINE with == IF kind \in {"login", "signup", "accept", "reset"} THEN 0 ELSE stored
           target == IF kind \in {"login", "signup"} THEN tab.from ELSE "gate"
           call == [kind |-> kind, org |-> o, with |-> with, target |-> target]
<1>3. /\ o \in Orgs \cup {"none"} /\ (kind \in Minting => o \in Orgs)
      /\ with \in 0 .. n /\ target \in Froms
    BY <1>1 DEF Offered, Minting, Froms, Inv, Shape, Tabs
<1>4. TabKept /\ stored' = stored /\ kind \in KindsHere
    BY DEF Submit, TabKept
<1>6. call \in Calls(n) /\ call.kind = kind /\ call.org = o
    <2> HIDE DEF with, target
    <2> QED
        BY <1>3 DEF Calls
<1>7. tab' = [tab EXCEPT !.call = call]
    BY <1>2
<1> HIDE DEF call
<1>8. [tab EXCEPT !.call = call] \in Tabs(n)
    BY Zenon, <1>1, <1>6, Called DEF Inv, Shape
<1>9. tab' \in Tabs(n)
    BY <1>7, <1>8
<1>10. /\ tab'.page = tab.page /\ tab'.me = tab.me /\ tab'.err = tab.err
       /\ tab'.timer = tab.timer /\ tab'.foreign = tab.foreign /\ tab'.to = tab.to
       /\ tab'.read = tab.read /\ tab'.loops = tab.loops /\ tab'.call = call
       /\ tab'.slow = tab.slow /\ tab'.started = tab.started
    BY <1>7 DEF Inv, Shape, Tabs
<1>11. Shape(tab', n)
    BY <1>3, <1>6, <1>9, <1>10 DEF Inv, Shape, Addressed, Runs, Placed
<1>12. Own(tab', stored, orgOf)
    BY <1>10, AsideOwn
<1> QED
    BY <1>1, <1>4, <1>11, <1>12, Onward

\* A call that is over: the page has its buttons back.
LEMMA IdleShape ==
    ASSUME Inv
    PROVE  LET r == [tab EXCEPT !.call = Idle]
           IN  /\ Shape(r, Len(orgOf)) /\ Sent(r, stored, orgOf) /\ r.call = Idle
               /\ r.page = tab.page /\ r.me = tab.me /\ r.err = tab.err
               /\ r.timer = tab.timer /\ r.foreign = tab.foreign /\ r.to = tab.to
               /\ r.read = tab.read /\ r.loops = tab.loops
               /\ r.slow = tab.slow /\ r.started = tab.started
<1> DEFINE n == Len(orgOf)
           r == [tab EXCEPT !.call = Idle]
<1>1. n \in Nat
    BY DEF Inv, TabTyped
<1>2. Idle \in Calls(n)
    BY <1>1 DEF Idle, Calls, Kinds, Froms
<1>3. [tab EXCEPT !.call = Idle] \in Tabs(n)
    BY Zenon, <1>1, <1>2, Called DEF Inv, Shape
<1>4. /\ r.page = tab.page /\ r.me = tab.me /\ r.err = tab.err
      /\ r.timer = tab.timer /\ r.foreign = tab.foreign /\ r.to = tab.to
      /\ r.read = tab.read /\ r.loops = tab.loops /\ r.call = Idle
      /\ r.slow = tab.slow /\ r.started = tab.started
    BY DEF Inv, Shape, Tabs
<1>5. r \in Tabs(n)
    BY <1>3
<1> HIDE DEF r
<1>6. Shape(r, n)
    BY <1>4, <1>5 DEF Inv, Shape, Addressed, Runs, Placed, Idle, Minting
<1>7. Sent(r, stored, orgOf)
    BY <1>4 DEF Inv, Own, Sent
<1> QED
    BY <1>4, <1>6, <1>7 DEF r

\* An answer or a refusal that brings no token.
LEMMA CallEnds ==
    ASSUME Inv, PasswordReset \/ CallFails \/ CallRefused
    PROVE  Inv'
<1> DEFINE n == Len(orgOf)
           r == [tab EXCEPT !.call = Idle]
<1>1. /\ Shape(r, n) /\ r.page = tab.page /\ r.me = tab.me /\ r.err = tab.err
      /\ r.timer = tab.timer /\ r.foreign = tab.foreign /\ r.to = tab.to
      /\ r.read = tab.read /\ r.loops = tab.loops
    BY IdleShape
<1>2. Own(r, stored, orgOf)
    <2> HIDE DEF r
    <2> QED
        BY <1>1, AsideOwn
<1>3. n \in Nat /\ stored \in 0 .. n
    BY DEF Inv, TabTyped
<1>4. CASE CallFails
    BY <1>1, <1>2, <1>3, <1>4, Onward DEF CallFails, TabKept
<1>5. CASE CallRefused
    BY <1>1, <1>5, UnauthorizedInv DEF CallRefused, TabKept
<1>6. CASE PasswordReset
    <2>1. /\ revoked' = n /\ tab' = r
          /\ orgOf' = orgOf /\ expired' = expired /\ plan' = plan /\ stored' = stored
        BY <1>6 DEF PasswordReset
    <2> HIDE DEF r
    <2>2. TabTyped'
        BY <1>3, <2>1 DEF TabTyped, Inv
    <2>3. Shape(tab', Len(orgOf')) /\ Own(tab', stored', orgOf')
        BY <1>1, <1>2, <2>1
    <2> QED
        BY <2>2, <2>3
           DEF Inv, Shape, Own, Tabs, Calls, Loops, Addressed, Runs, Placed, Sent, Timed
<1> QED
    BY <1>4, <1>5, <1>6

LEMMA ToStripeKeeps ==
    ASSUME Inv, ToStripe
    PROVE  Inv'
<1> DEFINE n == Len(orgOf)
<1>1. n \in Nat /\ stored \in 0 .. n /\ "away" \in Pages \cup {"none"} /\ Idle \in Calls(n)
    BY DEF Inv, TabTyped, Pages, Addresses, Idle, Calls, Kinds, Froms
<1>2. TabKept /\ stored' = stored /\ tab' = [tab EXCEPT !.to = "away", !.call = Idle]
    BY DEF ToStripe, TabKept
<1>3. [tab EXCEPT !.to = "away", !.call = Idle] \in Tabs(n)
    BY Zenon, <1>1, Called DEF Inv, Shape
<1>4. tab' \in Tabs(n)
    BY <1>2, <1>3
<1>5. /\ tab'.page = tab.page /\ tab'.me = tab.me /\ tab'.err = tab.err
      /\ tab'.timer = tab.timer /\ tab'.foreign = tab.foreign /\ tab'.to # "none"
      /\ tab'.read = tab.read /\ tab'.loops = tab.loops /\ tab'.call = Idle
      /\ tab'.slow = tab.slow /\ tab'.started = tab.started
    BY <1>2 DEF Inv, Shape, Tabs
<1>6. Shape(tab', n)
    BY <1>4, <1>5 DEF Inv, Shape, Addressed, Runs, Placed, Idle, Minting
<1>7. Own(tab', stored, orgOf)
    BY <1>5, AsideOwn
<1> QED
    BY <1>1, <1>2, <1>6, <1>7, Onward

\* 402: the gate reads again, with the token stored.
LEMMA PageAnsweredKeeps ==
    ASSUME Inv, PageAnswered
    PROVE  Inv'
<1> DEFINE n == Len(orgOf)
           r == [tab EXCEPT !.call = Idle]
           read == IF tab.read = NoRead THEN stored ELSE tab.read
<1>1. /\ Shape(r, n) /\ r.call = Idle /\ r.page = tab.page /\ r.me = tab.me /\ r.err = tab.err
      /\ r.timer = tab.timer /\ r.foreign = tab.foreign /\ r.to = tab.to
      /\ r.read = tab.read /\ r.loops = tab.loops
      /\ r.slow = tab.slow /\ r.started = tab.started
    BY IdleShape
<1>2. n \in Nat /\ stored \in 0 .. n /\ read \in NoRead .. n
    BY DEF Inv, TabTyped, Shape, Tabs, NoRead
<1>3. TabKept /\ stored' = stored /\ tab.call.kind = "page"
      /\ \/ tab' = r
         \/ /\ tab.page = "gate"
            /\ tab' = [r EXCEPT !.blocked = TRUE,
                                 !.read = IF @ = NoRead THEN stored ELSE @]
    BY DEF PageAnswered, TabKept
<1> HIDE DEF r
<1>5. CASE tab' = r
    <2>1. Own(r, stored, orgOf)
        BY <1>1, AsideOwn
    <2> QED
        BY <1>1, <1>2, <1>3, <1>5, <2>1, Onward
<1>6. CASE /\ tab.page = "gate"
           /\ tab' = [r EXCEPT !.blocked = TRUE, !.read = IF @ = NoRead THEN stored ELSE @]
    <2>1. tab' = [r EXCEPT !.blocked = TRUE, !.read = read]
        BY <1>1, <1>6 DEF Shape, Tabs
    <2> HIDE DEF read
    <2>2. [r EXCEPT !.blocked = TRUE, !.read = read] \in Tabs(n)
        BY Zenon, <1>1, <1>2, Called DEF Shape
    <2>3. tab' \in Tabs(n)
        BY <2>1, <2>2
    <2>4. /\ tab'.page = r.page /\ tab'.me = r.me /\ tab'.err = r.err
          /\ tab'.timer = r.timer /\ tab'.foreign = r.foreign /\ tab'.to = r.to
          /\ tab'.read = read /\ tab'.loops = r.loops /\ tab'.call = r.call
          /\ tab'.slow = r.slow /\ tab'.started = r.started
        BY <1>1, <2>1 DEF Shape, Tabs
    <2>5. Shape(tab', n)
        BY <1>1, <1>6, <2>3, <2>4 DEF Shape, Addressed, Runs, Placed
    <2>6. read \in {tab.read, stored}
        BY DEF read
    <2>7. Own(tab', stored, orgOf)
        BY <1>1, <2>4, <2>6, AsideOwn
    <2> QED
        BY <1>2, <1>3, <2>5, <2>7, Onward
<1> QED
    BY <1>3, <1>5, <1>6

LEMMA DismissModalKeeps ==
    ASSUME Inv, DismissModal
    PROVE  Inv'
<1> DEFINE n == Len(orgOf)
<1>1. n \in Nat /\ stored \in 0 .. n
    BY DEF Inv, TabTyped
<1>2. TabKept /\ stored' = stored /\ tab' = [tab EXCEPT !.blocked = FALSE]
    BY DEF DismissModal, TabKept
<1>3. [tab EXCEPT !.blocked = FALSE] \in Tabs(n)
    BY Zenon, <1>1, Called DEF Inv, Shape
<1>4. tab' \in Tabs(n)
    BY <1>2, <1>3
<1>5. /\ tab'.page = tab.page /\ tab'.me = tab.me /\ tab'.err = tab.err
      /\ tab'.timer = tab.timer /\ tab'.foreign = tab.foreign /\ tab'.to = tab.to
      /\ tab'.read = tab.read /\ tab'.loops = tab.loops /\ tab'.call = tab.call
      /\ tab'.slow = tab.slow /\ tab'.started = tab.started
    BY <1>2 DEF Inv, Shape, Tabs
<1>6. Shape(tab', n)
    BY <1>4, <1>5 DEF Inv, Shape, Addressed, Runs, Placed
<1>7. Own(tab', stored, orgOf)
    BY <1>5, AsideOwn
<1> QED
    BY <1>1, <1>2, <1>6, <1>7, Onward
-----------------------------------------------------------------------------
(* The answers that bring a token.                                         *)

LEMMA TabsGrow ==
    ASSUME NEW n \in Nat
    PROVE  Tabs(n) \subseteq Tabs(n + 1)
<1>1. 0 .. n \subseteq 0 .. n + 1 /\ NoRead .. n \subseteq NoRead .. n + 1
    BY DEF NoRead
<1>2. Loops(n) \subseteq Loops(n + 1) /\ Calls(n) \subseteq Calls(n + 1)
    BY <1>1 DEF Loops, Calls
<1>3. Seq(Loops(n)) \subseteq Seq(Loops(n + 1))
    BY <1>2
<1> QED
    BY <1>1, <1>2, <1>3 DEF Tabs

LEMMA MintedTyped ==
    ASSUME NEW n \in Nat, NEW r \in Tabs(n)
    PROVE  \A t \in 0 .. n, call \in Calls(n), b \in BOOLEAN :
               [r EXCEPT !.timer = t, !.call = call, !.foreign = b] \in Tabs(n)
BY DEF Tabs

\* setToken: the page that asked for the token goes on as r.
LEMMA MintedInv ==
    ASSUME Inv, ConsoleAssumption, NEW o \in Orgs, NEW r, r \in Tabs(Len(orgOf) + 1), Runs(r),
           r.foreign = tab.foreign,
           ~tab.foreign /\ tab.page \in PagesOf[tab.call.kind] =>
               /\ r.read # NoRead => r.page = "gate"
               /\ r.to = "none" => /\ r.read \in {NoRead, Len(orgOf) + 1}
                                   /\ r.loops = << >> /\ r.me = NoMe,
           Len(orgOf) < MaxTokens, orgOf' = Append(orgOf, o), stored' = Len(orgOf) + 1,
           tab' = [r EXCEPT !.timer = Len(orgOf) + 1, !.call = Idle,
                            !.foreign = @ \/ tab.page \notin PagesOf[tab.call.kind]],
           UNCHANGED <<expired, revoked, plan>>
    PROVE  Inv'
<1> DEFINE n == Len(orgOf)
           elsewhere == tab.page \notin PagesOf[tab.call.kind]
           foreign == r.foreign \/ elsewhere
<1>1. n \in Nat /\ n + 1 \in Nat /\ n + 1 \in 0 .. n + 1
    BY DEF Inv, TabTyped
<1>2. orgOf' \in Seq(Orgs) /\ Len(orgOf') = n + 1
    BY DEF Inv, TabTyped
<1>3. TabTyped'
    BY <1>1, <1>2, ConsoleAssumption DEF ConsoleAssumption, Inv, TabTyped
<1>4. Idle \in Calls(n + 1)
    BY <1>1 DEF Idle, Calls, Kinds, Froms
<1>5. foreign \in BOOLEAN /\ r.foreign = tab.foreign /\ tab.foreign \in BOOLEAN
    BY DEF Tabs, Inv, Shape
<1>6. [r EXCEPT !.timer = n + 1, !.call = Idle, !.foreign = foreign] \in Tabs(n + 1)
    BY Zenon, <1>1, <1>4, <1>5, MintedTyped
<1>7. tab' = [r EXCEPT !.timer = n + 1, !.call = Idle, !.foreign = foreign]
    BY DEF Tabs
<1>8. tab' \in Tabs(n + 1)
    BY <1>6, <1>7
<1>9. /\ tab'.page = r.page /\ tab'.me = r.me /\ tab'.timer = n + 1 /\ tab'.to = r.to
      /\ tab'.read = r.read /\ tab'.loops = r.loops /\ tab'.call = Idle
      /\ tab'.slow = r.slow /\ tab'.started = r.started /\ tab'.foreign = foreign
    BY <1>7 DEF Tabs
<1>10. ~foreign => ~tab.foreign /\ tab.page \in PagesOf[tab.call.kind]
    BY <1>5
<1> HIDE DEF foreign, elsewhere
<1>11. Runs(tab') /\ Addressed(tab')
    BY <1>9 DEF Runs, Addressed, Idle, Minting
<1>12. Placed(tab')
    BY <1>9, <1>10 DEF Placed, Idle
<1>13. Own(tab', n + 1, orgOf')
    BY <1>1, <1>9, <1>10 DEF Own, Sent, Timed
<1>14. Shape(tab', n + 1)
    BY <1>8, <1>11, <1>12 DEF Shape
<1> QED
    BY <1>2, <1>3, <1>13, <1>14
       DEF Inv, Shape, Own, Tabs, Calls, Loops, Addressed, Runs, Placed, Sent, Timed

\* navigate() under the new token.  The pages that ask for one are public, and
\* have nothing in flight.
LEMMA OnToShape ==
    ASSUME Inv, NEW page \in Froms, tab.call.kind \in {"login", "signup", "accept"}
    PROVE  LET r == OnTo(page, tab)
           IN  /\ r \in Tabs(Len(orgOf) + 1) /\ Runs(r) /\ r.foreign = tab.foreign
               /\ ~tab.foreign /\ tab.page \in PagesOf[tab.call.kind] =>
                      /\ r.read # NoRead => r.page = "gate"
                      /\ r.to = "none" => /\ r.read \in {NoRead, Len(orgOf) + 1}
                                          /\ r.loops = << >> /\ r.me = NoMe
<1> DEFINE n == Len(orgOf)
           e == Entered(tab, page)
           read == IF page = "gate" /\ tab.me = NoMe THEN n + 1 ELSE e.read
           r == OnTo(page, tab)
<1>1. n \in Nat /\ n + 1 \in Nat /\ page \in Pages
    BY DEF Inv, TabTyped, Froms, Pages, Addresses
<1>2. /\ e \in Tabs(n) /\ Runs(e) /\ e.page = page /\ e.to = tab.to /\ e.foreign = tab.foreign
      /\ e.me = tab.me
      /\ e.loops = IF tab.page = page THEN tab.loops ELSE << >>
      /\ e.read = IF tab.page # page /\ page = "gate" /\ tab.me = NoMe
                    THEN stored ELSE tab.read
    BY <1>1, EnteredFields DEF Inv, Shape
<1>3. r = [e EXCEPT !.read = IF page = "gate" /\ tab.me = NoMe THEN n + 1 ELSE @]
    BY DEF OnTo
<1> HIDE DEF e, r
<1>4. e \in Tabs(n + 1)
    BY <1>1, <1>2, TabsGrow
<1>5. read \in NoRead .. n + 1
    BY <1>1, <1>4 DEF Tabs, NoRead
<1>6. r = [e EXCEPT !.read = read]
    BY <1>3, <1>4 DEF Tabs
<1>7. /\ r.page = page /\ r.me = tab.me /\ r.to = tab.to /\ r.foreign = tab.foreign
      /\ r.loops = e.loops /\ r.slow = e.slow /\ r.started = e.started /\ r.read = read
    BY <1>2, <1>4, <1>6 DEF Tabs
<1>8. [e EXCEPT !.read = read] \in Tabs(n + 1)
    <2> HIDE DEF read
    <2> QED
        BY Zenon, <1>1, <1>4, <1>5, Reads
<1>9. r \in Tabs(n + 1)
    BY <1>6, <1>8
<1>10. Runs(r)
    BY <1>2, <1>7 DEF Runs
<1>11. PagesOf[tab.call.kind] \subseteq {"login", "signup", "invite", "guard", "return"}
    BY DEF PagesOf, Guards
<1>12. ASSUME ~tab.foreign, tab.page \in PagesOf[tab.call.kind]
       PROVE  /\ tab.read = NoRead /\ (tab.to = "none" => tab.me = NoMe) /\ e.loops = << >>
              /\ tab.page \notin {"gate", "success"} /\ tab.page # page
    BY <1>2, <1>11, <1>12 DEF Inv, Shape, Placed, Runs, Froms
<1>13. ASSUME ~tab.foreign, tab.page \in PagesOf[tab.call.kind]
       PROVE  /\ r.read # NoRead => r.page = "gate"
              /\ r.to = "none" => /\ r.read \in {NoRead, n + 1}
                                  /\ r.loops = << >> /\ r.me = NoMe
    BY <1>2, <1>7, <1>12, <1>13
<1> QED
    BY <1>7, <1>9, <1>10, <1>13 DEF r

\* window.location: nothing more is asked of the page.
LEMMA LeaveForShape ==
    ASSUME Inv, NEW page \in Pages
    PROVE  LET r == LeaveFor(page, tab)
           IN  /\ r \in Tabs(Len(orgOf) + 1) /\ Runs(r) /\ r.foreign = tab.foreign
               /\ ~tab.foreign /\ tab.page \in PagesOf[tab.call.kind] =>
                      /\ r.read # NoRead => r.page = "gate"
                      /\ r.to = "none" => /\ r.read \in {NoRead, Len(orgOf) + 1}
                                          /\ r.loops = << >> /\ r.me = NoMe
<1> DEFINE n == Len(orgOf)
           r == [tab EXCEPT !.to = page]
<1>1. n \in Nat /\ page \in Pages \cup {"none"} /\ page # "none"
    BY DEF Inv, TabTyped, Pages, Addresses, PublicPages
<1>2. [tab EXCEPT !.to = page] \in Tabs(n)
    BY Zenon, <1>1, Moves DEF Inv, Shape
<1>3. /\ r.page = tab.page /\ r.me = tab.me /\ r.to = page /\ r.foreign = tab.foreign
      /\ r.loops = tab.loops /\ r.slow = tab.slow /\ r.started = tab.started
      /\ r.read = tab.read
    BY DEF Inv, Shape, Tabs
<1>4. r \in Tabs(n + 1)
    BY <1>1, <1>2, TabsGrow
<1> HIDE DEF r
<1>5. Runs(r)
    BY <1>3 DEF Runs, Inv, Shape
<1>6. ~tab.foreign => /\ r.read # NoRead => r.page = "gate"
    BY <1>3 DEF Inv, Shape, Placed
<1>7. LeaveFor(page, tab) = r
    BY DEF LeaveFor, r
<1> QED
    BY <1>1, <1>3, <1>4, <1>5, <1>6, <1>7

LEMMA TokenComes ==
    ASSUME Inv, ConsoleAssumption,
           SignedIn \/ Accepted \/ SignedUp \/ Switched \/ Created
    PROVE  Inv'
<1>1. tab.call.kind \in Minting /\ tab.call.org \in Orgs /\ tab.call.target \in Froms
    BY DEF SignedIn, Accepted, SignedUp, Switched, Created, Minting, Inv, Shape, Addressed, Tabs,
           Calls
<1>2. PICK r :
          /\ \/ /\ tab.call.kind \in {"login", "signup", "accept"}
                /\ \E page \in Froms : r = OnTo(page, tab)
             \/ \E page \in Pages : r = LeaveFor(page, tab)
          /\ Len(orgOf) < MaxTokens
          /\ orgOf' = Append(orgOf, tab.call.org)
          /\ stored' = Len(orgOf) + 1
          /\ tab' = [r EXCEPT !.timer = Len(orgOf) + 1, !.call = Idle,
                              !.foreign = @ \/ tab.page \notin PagesOf[tab.call.kind]]
          /\ UNCHANGED <<expired, revoked, plan>>
    <2>1. "gate" \in Froms /\ "gate" \in Pages /\ "away" \in Pages
        BY DEF Froms, Pages, Addresses
    <2>2. CASE SignedIn
        BY <1>1, <2>2 DEF SignedIn, Minted
    <2>3. CASE Accepted
        BY <2>1, <2>3 DEF Accepted, Minted
    <2>4. CASE SignedUp
        BY <1>1, <2>1, <2>4 DEF SignedUp, Minted
    <2>5. CASE Switched
        BY <2>1, <2>5 DEF Switched, Minted
    <2>6. CASE Created
        BY <2>1, <2>6 DEF Created, Minted
    <2> QED
        BY <2>2, <2>3, <2>4, <2>5, <2>6
<1>3. /\ r \in Tabs(Len(orgOf) + 1) /\ Runs(r) /\ r.foreign = tab.foreign
      /\ ~tab.foreign /\ tab.page \in PagesOf[tab.call.kind] =>
             /\ r.read # NoRead => r.page = "gate"
             /\ r.to = "none" => /\ r.read \in {NoRead, Len(orgOf) + 1}
                                 /\ r.loops = << >> /\ r.me = NoMe
    BY <1>2, OnToShape, LeaveForShape
<1> QED
    BY <1>1, <1>2, <1>3, MintedInv
-----------------------------------------------------------------------------
(* /billing/success.                                                       *)

\* A loop starts where none runs.
LEMMA RunStarts ==
    ASSUME Inv, ConsoleAssumption, StartRun \/ Retry
    PROVE  Inv'
<1> DEFINE n == Len(orgOf)
           loops == Append(tab.loops, Run)
<1>1. n \in Nat /\ stored \in 0 .. n /\ TRUE \in BOOLEAN /\ FALSE \in BOOLEAN
    BY DEF Inv, TabTyped
<1>2. tab.loops = << >> /\ (Retry => tab.page = "success" /\ tab.started)
    BY DEF StartRun, Effect, Retry, Inv, Shape, Runs
<1>3. Run \in Loops(n) /\ Run.with = stored
    BY <1>1, ConsoleAssumption DEF Run, Loops, ConsoleAssumption
<1>4. loops = <<Run>> /\ loops \in Seq(Loops(n)) /\ Len(loops) = 1 /\ loops[1].with = stored
    BY <1>2, <1>3
<1>5. DOMAIN loops = {1}
    BY <1>4
<1>6. TabKept /\ stored' = stored
    BY DEF StartRun, Retry, TabKept
<1>7. \/ /\ tab' = [tab EXCEPT !.started = TRUE, !.loops = loops]
         /\ tab.page = "success" /\ ~tab.slow
      \/ Retry /\ tab' = [tab EXCEPT !.slow = FALSE, !.loops = loops]
    BY DEF StartRun, Effect, Retry, Inv, Shape, Tabs
<1> HIDE DEF loops
<1>8. /\ [tab EXCEPT !.started = TRUE, !.loops = loops] \in Tabs(n)
      /\ [tab EXCEPT !.slow = FALSE, !.loops = loops] \in Tabs(n)
    BY Zenon, <1>1, <1>4, Polls DEF Inv, Shape
<1>9. tab' \in Tabs(n)
    BY <1>7, <1>8
<1>10. /\ tab'.page = tab.page /\ tab'.me = tab.me /\ tab'.err = tab.err
       /\ tab'.timer = tab.timer /\ tab'.foreign = tab.foreign /\ tab'.to = tab.to
       /\ tab'.read = tab.read /\ tab'.loops = loops /\ tab'.call = tab.call
       /\ ~tab'.slow /\ tab'.started /\ tab.page = "success"
    BY <1>2, <1>7 DEF Inv, Shape, Tabs
<1>11. Shape(tab', n)
    BY <1>4, <1>9, <1>10 DEF Inv, Shape, Addressed, Runs, Placed
<1>12. Own(tab', stored, orgOf)
    BY <1>4, <1>5, <1>10, AsideOwn
<1> QED
    BY <1>1, <1>6, <1>11, <1>12, Onward

\* The one loop goes on.
LEMMA WithShape ==
    ASSUME TabTyped, NEW r, Shape(r, Len(orgOf)), Sent(r, stored, orgOf),
           NEW k \in DOMAIN r.loops, NEW run \in Loops(Len(orgOf))
    PROVE  LET w == With(r, k, run)
           IN  /\ Shape(w, Len(orgOf))
               /\ run.with \in {stored, r.loops[k].with} => Sent(w, stored, orgOf)
               /\ w.to = r.to /\ w.foreign = r.foreign /\ w.timer = r.timer
               /\ w.page = r.page /\ w.me = r.me /\ w.err = r.err /\ w.read = r.read
               /\ w.loops = [r.loops EXCEPT ![k] = run]
<1> DEFINE n == Len(orgOf)
           loops == [r.loops EXCEPT ![k] = run]
           w == With(r, k, run)
<1>1. n \in Nat /\ r.loops \in Seq(Loops(n)) /\ r \in Tabs(n)
    BY DEF TabTyped, Shape, Tabs
<1>2. loops \in Seq(Loops(n)) /\ Len(loops) = Len(r.loops) /\ DOMAIN loops = DOMAIN r.loops
    BY <1>1
<1>3. r.loops # << >> /\ loops # << >>
    BY <1>1, <1>2
<1>4. \A j \in DOMAIN loops : loops[j] = IF j = k THEN run ELSE r.loops[j]
    BY <1>1
<1>5. w = [r EXCEPT !.loops = loops]
    BY <1>1 DEF With, Tabs
<1> HIDE DEF loops, w
<1>6. [r EXCEPT !.loops = loops] \in Tabs(n)
    BY Zenon, <1>1, <1>2, Polls
<1>7. w \in Tabs(n)
    BY <1>5, <1>6
<1>8. /\ w.page = r.page /\ w.me = r.me /\ w.err = r.err
      /\ w.timer = r.timer /\ w.foreign = r.foreign /\ w.to = r.to
      /\ w.read = r.read /\ w.loops = loops /\ w.call = r.call
      /\ w.slow = r.slow /\ w.started = r.started
    BY <1>1, <1>5 DEF Tabs
<1>9. Shape(w, n)
    BY <1>2, <1>3, <1>7, <1>8 DEF Shape, Addressed, Runs, Placed
<1>10. run.with \in {stored, r.loops[k].with} => Sent(w, stored, orgOf)
    BY <1>2, <1>4, <1>8 DEF Sent
<1> QED
    BY <1>8, <1>9, <1>10 DEF w, loops

LEMMA SyncedKeeps ==
    ASSUME Inv, Synced
    PROVE  Inv'
<1> DEFINE n == Len(orgOf)
<1>1. TabTyped /\ Shape(tab, n) /\ Sent(tab, stored, orgOf) /\ n \in Nat /\ stored \in 0 .. n
    BY DEF Inv, Own, TabTyped
<1>2. PICK k \in DOMAIN tab.loops :
          LET r == With(tab, k, [tab.loops[k] EXCEPT !.pc = "read", !.with = stored])
          IN  TabBecomes(r, stored) \/ Unauthorized([r EXCEPT !.loops[k].with = 0])
    BY DEF Synced
<1> DEFINE run == [tab.loops[k] EXCEPT !.pc = "read", !.with = stored]
           dropped == [tab.loops[k] EXCEPT !.pc = "read", !.with = 0]
           r == With(tab, k, run)
           d == With(tab, k, dropped)
<1>3. tab.loops \in Seq(Loops(n)) /\ tab.loops[k] \in Loops(n)
    BY <1>1 DEF Shape, Tabs
<1>4. run \in Loops(n) /\ dropped \in Loops(n) /\ run.with = stored
    <2>1. 0 \in 0 .. n /\ "read" \in {"sync", "read", "sleep"}
        BY <1>1
    <2>2. run \in Loops(n) /\ run.with = stored
        BY <1>1, <1>3, <2>1 DEF Loops
    <2>3. dropped \in Loops(n)
        BY <1>1, <1>3, <2>1 DEF Loops
    <2> QED
        BY <2>2, <2>3
<1>5. [r EXCEPT !.loops[k].with = 0] = d
    BY <1>1, <1>3 DEF With, Shape, Tabs, Loops
<1>6. TabKept
    BY DEF Synced, TabKept
<1>7. /\ Shape(r, n) /\ Sent(r, stored, orgOf)
      /\ r.to = tab.to /\ r.foreign = tab.foreign /\ r.timer = tab.timer
    <2> HIDE DEF run
    <2> QED
        BY <1>1, <1>4, WithShape
<1>8. Shape(d, n)
    <2> HIDE DEF dropped
    <2> QED
        BY <1>1, <1>4, WithShape
<1>9. TabBecomes(r, stored) \/ Unauthorized(d)
    BY <1>2, <1>5
<1> HIDE DEF r, d
<1> QED
    BY <1>6, <1>7, <1>8, <1>9, BecomesInv, UnauthorizedInv

\* What a poll reads is of the organization of its token.
LEMMA PolledShape ==
    ASSUME Inv, NEW k \in DOMAIN tab.loops, Valid(tab.loops[k].with), NEW b \in BOOLEAN,
           NEW r, \/ r = [tab EXCEPT !.me = MeOf(tab.loops[k].with)]
                  \/ r = [tab EXCEPT !.me = MeOf(tab.loops[k].with), !.welcome = b]
    PROVE  /\ Shape(r, Len(orgOf)) /\ Sent(r, stored, orgOf)
           /\ r.to = tab.to /\ r.foreign = tab.foreign /\ r.timer = tab.timer
           /\ r.page = "success" /\ r.loops = tab.loops
<1> DEFINE n == Len(orgOf)
           with == tab.loops[k].with
           me == MeOf(with)
<1>1. n \in Nat /\ tab.loops \in Seq(Loops(n)) /\ tab \in Tabs(n)
    BY DEF Inv, TabTyped, Shape, Tabs
<1>2. with \in NoRead .. n
    <2>1. tab.loops[k] \in Loops(n)
        BY <1>1
    <2>2. with \in 0 .. n
        BY <2>1 DEF Loops
    <2> QED
        BY <1>1, <2>2 DEF NoRead
<1>3. /\ me \in [org : Orgs, ent : Entitlements] \cup {NoMe} /\ me.org = orgOf[with]
    BY <1>2, MeOfToken DEF Inv
<1>4. tab.page = "success"
    BY <1>1 DEF Inv, Shape, Runs
<1>5. r = [tab EXCEPT !.me = me] \/ r = [tab EXCEPT !.me = me, !.welcome = b]
    OBVIOUS
<1>6. Sent(tab, stored, orgOf)
    BY DEF Inv, Own
<1>7. tab.to = "none" /\ ~tab.foreign /\ stored # 0 => with = stored
    BY <1>6 DEF Sent
<1> HIDE DEF me, with
<1>8. [tab EXCEPT !.me = me] \in Tabs(n) /\ [tab EXCEPT !.me = me, !.welcome = b] \in Tabs(n)
    BY Zenon, <1>1, <1>3, Polls
<1>9. r \in Tabs(n)
    BY <1>5, <1>8
<1>10. /\ r.page = tab.page /\ r.me = me /\ r.err = tab.err
       /\ r.timer = tab.timer /\ r.foreign = tab.foreign /\ r.to = tab.to
       /\ r.read = tab.read /\ r.loops = tab.loops /\ r.call = tab.call
       /\ r.slow = tab.slow /\ r.started = tab.started
    BY <1>1, <1>5 DEF Tabs
<1>11. Shape(r, n)
    BY <1>4, <1>9, <1>10 DEF Inv, Shape, Addressed, Runs, Placed
<1>12. Sent(r, stored, orgOf)
    BY <1>3, <1>6, <1>7, <1>10 DEF Sent
<1> QED
    BY <1>4, <1>10, <1>11, <1>12

LEMMA PollActiveKeeps ==
    ASSUME Inv, PollActive
    PROVE  Inv'
<1>1. PICK k \in DOMAIN tab.loops :
          /\ Valid(tab.loops[k].with)
          /\ LET r == [tab EXCEPT !.me = MeOf(tab.loops[k].with), !.welcome = TRUE]
             IN  TabBecomes(Entered(r, Guarded("gate", "gate")), stored)
    BY DEF PollActive
<1> DEFINE r == [tab EXCEPT !.me = MeOf(tab.loops[k].with), !.welcome = TRUE]
           next == Guarded("gate", "gate")
<1>2. TRUE \in BOOLEAN /\ next \in {"gate", "guard"} /\ next \in Pages /\ TabKept
    BY DEF Guarded, Pages, Addresses, PollActive, TabKept
<1>3. /\ Shape(r, Len(orgOf)) /\ Sent(r, stored, orgOf)
      /\ r.to = tab.to /\ r.foreign = tab.foreign /\ r.timer = tab.timer
      /\ r.page = "success" /\ r.loops = tab.loops
    BY <1>1, <1>2, PolledShape
<1>4. TabBecomes(Entered(r, next), stored)
    BY <1>1
<1> HIDE DEF r
<1>5. ~r.foreign /\ r.to = "none" => next = "gate"
    <2>1. ~r.foreign /\ r.to = "none" => stored = tab.loops[k].with
        BY <1>3 DEF Sent
    <2>2. stored = tab.loops[k].with => isLoggedIn
        BY <1>1 DEF Valid, isLoggedIn
    <2> QED
        BY <2>1, <2>2 DEF Guarded
<1> HIDE DEF next
<1> QED
    BY <1>2, <1>3, <1>4, <1>5, NavigatedInv

\* Not active: the loop sleeps, or ends and makes room for the slow screen.
LEMMA NotYetShape ==
    ASSUME TabTyped, NEW r, Shape(r, Len(orgOf)), Sent(r, stored, orgOf),
           NEW k \in DOMAIN r.loops, NEW failed, ConsoleAssumption
    PROVE  LET w == NotYet(r, k, failed)
           IN  /\ Shape(w, Len(orgOf)) /\ Sent(w, stored, orgOf)
               /\ w.to = r.to /\ w.foreign = r.foreign /\ w.timer = r.timer
<1> DEFINE n == Len(orgOf)
           w == NotYet(r, k, failed)
<1>1. n \in Nat /\ r.loops \in Seq(Loops(n)) /\ r \in Tabs(n) /\ Runs(r)
    BY DEF TabTyped, Shape, Tabs
<1>2. k = 1 /\ Len(r.loops) = 1 /\ r.started /\ r.page = "success" /\ r.loops[k] \in Loops(n)
    <2>1. Len(r.loops) <= 1 /\ Len(r.loops) \in Nat /\ k \in 1 .. Len(r.loops)
        BY <1>1 DEF Runs
    <2>2. r.loops # << >>
        BY <2>1
    <2>3. r.loops[k] \in Loops(n)
        BY <1>1
    <2>4. k = 1 /\ Len(r.loops) = 1
        <3> DEFINE l == Len(r.loops)
        <3>1. l <= 1 /\ l \in Nat /\ k \in 1 .. l
            BY <2>1
        <3> HIDE DEF l
        <3>2. k = 1 /\ l = 1
            BY <3>1
        <3> QED
            BY <3>2 DEF l
    <2> QED
        BY <1>1, <2>2, <2>3, <2>4 DEF Runs
<1>3. CASE r.loops[k].left = 0
    <2>1. RemoveAt(r.loops, k) = << >>
        BY <1>1, <1>2 DEF RemoveAt
    <2>2. w = [r EXCEPT !.slow = TRUE, !.loops = << >>]
        BY <1>1, <1>3, <2>1 DEF NotYet, Tabs
    <2>3. << >> \in Seq(Loops(n)) /\ TRUE \in BOOLEAN
        OBVIOUS
    <2>4. [r EXCEPT !.slow = TRUE, !.loops = << >>] \in Tabs(n)
        BY Zenon, <1>1, <2>3, Polls
    <2> HIDE DEF w
    <2>5. w \in Tabs(n)
        BY <2>2, <2>4
    <2>6. /\ w.page = r.page /\ w.me = r.me
          /\ w.timer = r.timer /\ w.foreign = r.foreign /\ w.to = r.to
          /\ w.read = r.read /\ w.loops = << >> /\ w.call = r.call
          /\ w.slow /\ w.started = r.started
        BY <1>1, <2>2 DEF Tabs
    <2>7. Shape(w, n)
        BY <1>2, <2>5, <2>6 DEF Shape, Addressed, Runs, Placed
    <2>8. Sent(w, stored, orgOf)
        BY <2>6 DEF Sent
    <2> QED
        BY <2>6, <2>7, <2>8 DEF w
<1>4. CASE r.loops[k].left # 0
    <2> DEFINE run == [r.loops[k] EXCEPT !.pc = "sleep", !.left = @ - 1]
    <2>1. w = With(r, k, run)
        BY <1>4 DEF NotYet
    <2>2. run \in Loops(n) /\ run.with = r.loops[k].with
        <3>1. r.loops[k].left - 1 \in 0 .. MaxPolls /\ "sleep" \in {"sync", "read", "sleep"}
            BY <1>2, <1>4, ConsoleAssumption DEF Loops, ConsoleAssumption
        <3> DEFINE left == r.loops[k].left - 1
        <3>2. run = [r.loops[k] EXCEPT !.pc = "sleep", !.left = left]
            OBVIOUS
        <3> HIDE DEF left
        <3> QED
            BY <1>2, <3>1, <3>2 DEF Loops, left
    <2> HIDE DEF run, w
    <2>3. /\ Shape(w, n) /\ Sent(w, stored, orgOf)
          /\ w.to = r.to /\ w.foreign = r.foreign /\ w.timer = r.timer
        BY <2>1, <2>2, WithShape
    <2> QED
        BY <2>3 DEF w
<1> QED
    BY <1>3, <1>4

LEMMA PollNotYetKeeps ==
    ASSUME Inv, ConsoleAssumption, PollNotYet
    PROVE  Inv'
<1> DEFINE n == Len(orgOf)
<1>1. PICK k \in DOMAIN tab.loops :
          \/ /\ Valid(tab.loops[k].with)
             /\ TabBecomes(NotYet([tab EXCEPT !.me = MeOf(tab.loops[k].with)], k, FALSE), stored)
          \/ TabBecomes(NotYet(tab, k, TRUE), stored)
          \/ Unauthorized(NotYet(tab, k, TRUE))
    BY DEF PollNotYet
<1>2. TabKept
    BY DEF PollNotYet, TabKept
<1>3. TabTyped /\ Shape(tab, n) /\ Sent(tab, stored, orgOf)
    BY DEF Inv, Own
<1> DEFINE m == [tab EXCEPT !.me = MeOf(tab.loops[k].with)]
           a == NotYet(m, k, FALSE)
           w == NotYet(tab, k, TRUE)
<1>4. /\ Shape(w, n) /\ Sent(w, stored, orgOf)
      /\ w.to = tab.to /\ w.foreign = tab.foreign /\ w.timer = tab.timer
    BY <1>3, NotYetShape
<1>5. CASE TabBecomes(w, stored) \/ Unauthorized(w)
    <2> HIDE DEF w
    <2> QED
        BY <1>2, <1>4, <1>5, BecomesInv, UnauthorizedInv
<1>6. CASE Valid(tab.loops[k].with) /\ TabBecomes(a, stored)
    <2>1. TRUE \in BOOLEAN
        OBVIOUS
    <2>2. /\ Shape(m, n) /\ Sent(m, stored, orgOf)
          /\ m.to = tab.to /\ m.foreign = tab.foreign /\ m.timer = tab.timer
          /\ m.loops = tab.loops /\ k \in DOMAIN m.loops
        BY <1>6, <2>1, PolledShape
    <2> HIDE DEF m
    <2>3. /\ Shape(a, n) /\ Sent(a, stored, orgOf)
          /\ a.to = m.to /\ a.foreign = m.foreign /\ a.timer = m.timer
        BY <1>3, <2>2, NotYetShape
    <2> HIDE DEF a
    <2> QED
        BY <1>2, <1>6, <2>2, <2>3, BecomesInv
<1> QED
    BY <1>1, <1>5, <1>6

LEMMA WakeKeeps ==
    ASSUME Inv, Wake
    PROVE  Inv'
<1> DEFINE n == Len(orgOf)
<1>1. TabTyped /\ Shape(tab, n) /\ Sent(tab, stored, orgOf) /\ n \in Nat /\ stored \in 0 .. n
    BY DEF Inv, Own, TabTyped
<1>2. PICK k \in DOMAIN tab.loops :
          tab' = [tab EXCEPT !.loops[k].pc = "read", !.loops[k].with = stored]
    BY DEF Wake
<1> DEFINE run == [tab.loops[k] EXCEPT !.pc = "read", !.with = stored]
           w == With(tab, k, run)
<1>3. tab.loops \in Seq(Loops(n)) /\ tab.loops[k] \in Loops(n)
    BY <1>1 DEF Shape, Tabs
<1>4. run \in Loops(n) /\ run.with = stored
    BY <1>1, <1>3 DEF Loops
<1>5. tab' = w
    BY <1>1, <1>2, <1>3 DEF With, Shape, Tabs, Loops
<1>6. /\ Shape(w, n) /\ Sent(w, stored, orgOf)
      /\ w.to = tab.to /\ w.foreign = tab.foreign /\ w.timer = tab.timer
      /\ w.page = tab.page /\ w.me = tab.me /\ w.err = tab.err
    <2>1. run.with \in {stored, tab.loops[k].with}
        BY <1>4
    <2> HIDE DEF run
    <2>2. Shape(w, n) /\ Sent(w, stored, orgOf)
        BY <1>1, <1>4, <2>1, WithShape
    <2>3. /\ w.to = tab.to /\ w.foreign = tab.foreign /\ w.timer = tab.timer
          /\ w.page = tab.page /\ w.me = tab.me /\ w.err = tab.err
        BY <1>1 DEF With, Shape, Tabs
    <2> QED
        BY <2>2, <2>3
<1> HIDE DEF w
<1>7. Screen(w) = Screen(tab)
    BY <1>6 DEF Screen
<1>8. Own(w, stored, orgOf)
    BY <1>6, <1>7 DEF Inv, Own, Timed
<1>9. TabKept /\ stored' = stored
    BY DEF Wake, TabKept
<1> QED
    BY <1>1, <1>5, <1>6, <1>8, <1>9, Onward

-----------------------------------------------------------------------------
(* Time, Stripe and the other tabs.                                        *)

LEMMA OutsideKeeps ==
    ASSUME Inv, ConsoleAssumption,
           Expire \/ ElsewhereCleared \/ \E o \in Orgs : Pays(o) \/ ElsewhereStored(o)
    PROVE  Inv'
<1> DEFINE n == Len(orgOf)
<1>1. n \in Nat /\ n + 1 \in Nat /\ n + 1 \in 0 .. n + 1 /\ stored \in 0 .. n
    BY DEF Inv, TabTyped
<1>2. CASE Expire \/ \E o \in Orgs : Pays(o)
    <2>1. TabTyped'
        BY <1>1, <1>2 DEF Expire, Pays, Inv, TabTyped, Entitlements
    <2>2. orgOf' = orgOf /\ stored' = stored /\ tab' = tab
        BY <1>2 DEF Expire, Pays
    <2> QED
        BY <2>1, <2>2
           DEF Inv, Shape, Own, Tabs, Calls, Loops, Addressed, Runs, Placed, Sent, Timed
<1>3. CASE ElsewhereCleared
    <2>1. stored' = 0 /\ tab' = [tab EXCEPT !.foreign = TRUE] /\ TabKept /\ 0 \in 0 .. n
        BY <1>1, <1>3 DEF ElsewhereCleared, TabKept
    <2>2. /\ tab' \in Tabs(n) /\ tab'.foreign /\ tab'.call = tab.call
          /\ tab'.loops = tab.loops /\ tab'.slow = tab.slow
          /\ tab'.started = tab.started /\ tab'.page = tab.page
        BY <2>1 DEF Inv, Shape, Tabs
    <2>3. Shape(tab', n) /\ Own(tab', 0, orgOf)
        BY <2>2, NothingStored DEF Inv, Shape, Addressed, Runs, Placed
    <2> QED
        BY <2>1, <2>3, Onward
<1>4. CASE \E o \in Orgs : ElsewhereStored(o)
    <2>1. PICK o \in Orgs : ElsewhereStored(o)
        BY <1>4
    <2>2. orgOf' \in Seq(Orgs) /\ Len(orgOf') = n + 1
        BY <2>1 DEF ElsewhereStored, Inv, TabTyped
    <2>3. TabTyped'
        BY <1>1, <2>1, <2>2, ConsoleAssumption
           DEF ConsoleAssumption, ElsewhereStored, Inv, TabTyped
    <2>4. tab \in Tabs(n + 1) /\ tab' = [tab EXCEPT !.foreign = TRUE]
        BY <1>1, <2>1, TabsGrow DEF ElsewhereStored, Inv, Shape
    <2>5. /\ tab' \in Tabs(n + 1) /\ tab'.foreign /\ tab'.call = tab.call
          /\ tab'.loops = tab.loops /\ tab'.slow = tab.slow
          /\ tab'.started = tab.started /\ tab'.page = tab.page
        BY <2>4 DEF Tabs
    <2>6. Shape(tab', n + 1) /\ Own(tab', stored', orgOf')
        BY <2>5 DEF Inv, Shape, Addressed, Runs, Placed, Own, Sent, Timed
    <2> QED
        BY <2>2, <2>3, <2>6
           DEF Inv, Shape, Own, Tabs, Calls, Loops, Addressed, Runs, Placed, Sent, Timed
<1> QED
    BY <1>2, <1>3, <1>4

LEMMA InitInv ==
    ASSUME ConsoleAssumption, ConsoleInit
    PROVE  Inv
<1>1. Len(orgOf) = 0 /\ stored = 0
    BY DEF ConsoleInit
<1>2. TabTyped
    BY ConsoleAssumption DEF ConsoleAssumption, ConsoleInit, TabTyped
<1>3. Shape(tab, 0) /\ Own(tab, 0, orgOf)
    BY BlankShape, NothingStored DEF ConsoleInit, Blank
<1> QED
    BY <1>1, <1>2, <1>3 DEF Inv

LEMMA NextInv ==
    ASSUME ConsoleAssumption, Inv, [ConsoleNext]_consoleVars
    PROVE  Inv'
<1>1. CASE UNCHANGED consoleVars
    BY <1>1 DEF consoleVars, Inv, TabTyped, Shape, Own, Tabs, Calls, Loops, Addressed, Runs, Placed, Sent,
                Timed
<1>2. CASE \/ \E page \in Addresses : Visit(page) \/ Link(page)
           \/ Reload \/ Load \/ SignedInElsewhere \/ Logout \/ TimerFires
    <2>1. Addresses \subseteq Pages /\ "gate" \in Pages
        BY DEF Pages, Addresses
    <2> QED
        BY <1>2, <2>1, AskedKeeps, LinkKeeps, LoadKeeps, SignedInElsewhereKeeps, LogoutKeeps,
           TimerFiresKeeps
<1>3. CASE Refetch \/ MeAnswered \/ MeLost
    BY <1>3, RefetchKeeps, MeAnsweredKeeps
<1>4. CASE \E kind \in Kinds : Submit(kind)
    BY <1>4, SubmitKeeps
<1>5. CASE SignedIn \/ Accepted \/ SignedUp \/ Switched \/ Created
    BY <1>5, TokenComes
<1>6. CASE PasswordReset \/ ToStripe \/ PageAnswered \/ DismissModal \/ CallRefused \/ CallFails
    BY <1>6, CallEnds, ToStripeKeeps, PageAnsweredKeeps, DismissModalKeeps
<1>7. CASE SuccessStep \/ Retry
    BY <1>7, RunStarts, SyncedKeeps, PollActiveKeeps, PollNotYetKeeps, WakeKeeps
       DEF SuccessStep
<1>8. CASE Expire \/ ElsewhereCleared \/ \E o \in Orgs : Pays(o) \/ ElsewhereStored(o)
    BY <1>8, OutsideKeeps
<1> QED
    BY <1>1, <1>2, <1>3, <1>4, <1>5, <1>6, <1>7, <1>8 DEF ConsoleNext, TabNext

LEMMA AlwaysInv ==
    ASSUME ConsoleAssumption
    PROVE  ConsoleSpec => []Inv
<1>1. ConsoleInit => Inv
    BY InitInv
<1>2. Inv /\ [ConsoleNext]_consoleVars => Inv'
    BY NextInv
<1> QED
    BY <1>1, <1>2, PTL DEF ConsoleSpec

\* The tokens, the plans and what a tab holds have only values the code can
\* give them (apps/dashboard/src/lib/auth.ts, lib/api.ts).
THEOREM ConsoleTyped ==
    ASSUME ConsoleAssumption
    PROVE  ConsoleSpec => []ConsoleTypeOK
<1>1. Inv => ConsoleTypeOK
    <2> SUFFICES ASSUME Inv PROVE ConsoleTypeOK
        OBVIOUS
    <2> DEFINE n == Len(orgOf)
    <2>1. tab \in Tabs(n) /\ TabTyped
        BY DEF Inv, Shape
    <2>2. /\ tab.page \in Pages /\ tab.to \in Pages \cup {"none"} /\ tab.timer \in 0 .. n
          /\ tab.me \in [org : Orgs, ent : Entitlements] \cup {NoMe}
          /\ tab.read \in NoRead .. n
        BY <2>1 DEF Tabs
    <2>3. tab.call.kind \in Kinds /\ tab.call.with \in 0 .. n
        BY <2>1 DEF Tabs, Calls
    <2>4. \A k \in DOMAIN tab.loops : tab.loops[k].left \in 0 .. MaxPolls
        <3>1. tab.loops \in Seq(Loops(n))
            BY <2>1 DEF Tabs
        <3>2. \A k \in DOMAIN tab.loops : tab.loops[k] \in Loops(n)
            BY <3>1
        <3> QED
            BY <3>2 DEF Loops
    <2> QED
        BY <2>1, <2>2, <2>3, <2>4 DEF TabTyped, ConsoleTypeOK
<1> QED
    BY <1>1, AlwaysInv, PTL

\* The return from Checkout polls once at a time, and the slow screen with its
\* button is only there when nothing polls any more
\* (BillingSuccessPage.tsx:33-78).
THEOREM PollsOnce ==
    ASSUME ConsoleAssumption
    PROVE  ConsoleSpec => []OneRun
<1>1. Inv => OneRun
    BY DEF Inv, Shape, Runs, OneRun
<1> QED
    BY <1>1, AlwaysInv, PTL

\* The timer that logs a dashboard out is that of the token stored, and the
\* user it shows is one of the organization of that token, until another tab, or
\* the late answer to a page that was left, changes the token stored
\* (lib/auth.ts:117-119, SubscriptionGate.tsx:18-30).
THEOREM OwnSession ==
    ASSUME ConsoleAssumption
    PROVE  ConsoleSpec => []TabIsOfItsSession
<1>1. Inv => TabIsOfItsSession
    BY DEF Inv, Own, Sent, Timed, TabIsOfItsSession, OwnTimer, MeIsMine, Here, Staying
<1> QED
    BY <1>1, AlwaysInv, PTL

=============================================================================
