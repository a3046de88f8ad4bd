------------------------------ MODULE Analytics ------------------------------
(***************************************************************************)
(* Watch time, from the video element to the charts.                       *)
(*                                                                         *)
(* PlayerAnalytics (dashboard lib/analytics.ts) turns the events of a      *)
(* video element into batches; the API folds each batch into one upsert on *)
(* playback_sessions (services/analytics.ts); the worker deletes what is   *)
(* old; the reports are queries on the table.                              *)
(*                                                                         *)
(* Time passes in ticks of half a second; a position is a number of ticks. *)
(* Posts may be lost and may overtake each other.  Variables that begin    *)
(* with g are history: where each tick of watch time has gone.             *)
(***************************************************************************)
EXTENDS Integers, Sequences, FiniteSets, SequencesExt, FiniteSetsExt

CONSTANTS
    Heartbeat,    \* HEARTBEAT_INTERVAL
    FlushEvery,   \* BATCH_FLUSH_INTERVAL
    BatchMax,     \* BATCH_MAX_SIZE
    SessionIdle,  \* SESSION_IDLE_MS
    WatchedMax,   \* MAX_WATCHED_MS_PER_EVENT
    CacheTtl,     \* PLAYBACK_CACHE_TTL_MS
    Retention,    \* retentionDays
    Bucket,       \* the width of a bucket of the time series
    Period,       \* the report's period
    Duration,     \* of the video
    MaxTime, MaxInputs, MaxLost  \* bounds: ticks, inputs of the viewer, lost posts

VARIABLES
    now,
    video,     \* the media element and its tab
    client,    \* the PlayerAnalytics instance
    net,       \* posts on their way
    ready,     \* the asset's status is ready
    cache,     \* the API's entry for the playback id
    row,       \* playback_sessions
    g,         \* history
    inputs, lost

vars == <<now, video, client, net, ready, cache, row, g, inputs, lost>>

Sessions == 1 .. 2       \* session ids: the first, and the next after a long pause
Started  == 1            \* view_start is sent past this position
NoPos    == -1

Event == [watched : Nat, pos : NoPos .. Duration]
Video == [paused : BOOLEAN, ended : BOOLEAN, stalled : BOOLEAN, hidden : BOOLEAN, pos : 0 .. Duration]
Client == [alive : BOOLEAN, owner : BOOLEAN, session : Sessions, started : BOOLEAN,
           clock : BOOLEAN, pending : Nat, queue : Seq(Event), beat : Int, flush : Nat,
           buffering : BOOLEAN, touched : Nat]
Post == [session : Sessions, owner : BOOLEAN, events : Seq(Event)]
Row  == [there : BOOLEAN, watched : Nat, pos : Nat, completed : BOOLEAN, start : Nat]
NoRow == [there |-> FALSE, watched |-> 0, pos |-> 0, completed |-> FALSE, start |-> 0]
Off == -1                \* no heartbeat timer

TypeOK ==
    /\ now \in 0 .. MaxTime
    /\ video \in Video
    /\ client \in Client /\ Len(client.queue) < BatchMax
    /\ \A i \in DOMAIN net : net[i] \in Post /\ net[i].events # << >>
    /\ ready \in BOOLEAN
    /\ cache \in [state : {"none", "hit", "miss"}, until : Nat]
    /\ row \in [Sessions -> Row]
    /\ inputs \in 0 .. MaxInputs /\ lost \in 0 .. MaxLost

Blank == [alive |-> TRUE, owner |-> FALSE, session |-> 1, started |-> FALSE, clock |-> FALSE,
          pending |-> 0, queue |-> << >>, beat |-> Off, flush |-> 0, buffering |-> FALSE,
          touched |-> 0]

Init ==
    /\ now = 0
    /\ video = [paused |-> TRUE, ended |-> FALSE, stalled |-> FALSE, hidden |-> FALSE, pos |-> 0]
    /\ client \in {[Blank EXCEPT !.owner = o] : o \in BOOLEAN}
    /\ net = << >>
    /\ ready = TRUE
    /\ cache = [state |-> "none", until |-> 0]
    /\ row = [s \in Sessions |-> NoRow]
    /\ g = [clocked |-> 0, unpaused |-> 0, lost |-> 0, owner |-> 0, clamped |-> 0, dropped |-> 0,
            refused |-> 0, folded |-> 0, purged |-> 0, posts |-> 0, unready |-> 0]
    /\ inputs = 0 /\ lost = 0

-----------------------------------------------------------------------------
(* The client's methods, on the record c that it is.                        *)

Watched(events) == FoldSeq(LAMBDA e, sum : sum + e.watched, 0, events)

(* Mistake: what was taken stays pending.                                   *)
EmptiedLate(c) == c
Emptied(c) == [c EXCEPT !.pending = 0]

Evt(w) == [watched |-> w, pos |-> video.pos]
Owned(c, events) == [session |-> c.session, owner |-> c.owner, events |-> events]

(* Mistake: a full queue waits for the flush timer.                         *)
EnqueueOnly(c, e) == <<[c EXCEPT !.queue = Append(@, e)], << >>>>
(* enqueue: a full queue is flushed.  A pair of the client and its posts.   *)
Enqueue(c, e) ==
    LET q == Append(c.queue, e) IN
    IF Len(q) >= BatchMax THEN <<[c EXCEPT !.queue = << >>], <<Owned(c, q)>>>>
    ELSE <<[c EXCEPT !.queue = q], << >>>>

Flush(c) == IF c.queue = << >> THEN <<c, << >>>>
            ELSE <<[c EXCEPT !.queue = << >>], <<Owned(c, c.queue)>>>>

(* flushBeacon: the watch time that is left goes with it, once view_start   *)
(* was sent; what was clocked before that is forgotten.                     *)
Beacon(c) ==
    LET w == c.pending
        tail == IF c.started /\ (w > 0 \/ c.queue # << >>) THEN <<Evt(w)>> ELSE << >>
        q == c.queue \o tail
        e == Emptied([c EXCEPT !.clock = FALSE])
    IN IF q = << >> THEN <<e, << >>>> ELSE <<[e EXCEPT !.queue = << >>], <<Owned(c, q)>>>>

Forgotten(c) == IF c.started THEN 0 ELSE c.pending

(* A handler leaves the client and what it posts.                           *)
Does(result) == client' = result[1] /\ net' = net \o result[2]

Beats(c) == [c EXCEPT !.beat = Heartbeat]
Quiet(c) == [c EXCEPT !.beat = Off, !.clock = FALSE]

Input == inputs < MaxInputs /\ inputs' = inputs + 1
Server == <<ready, cache, row>>

-----------------------------------------------------------------------------
(* The events of the video element and of the page.                         *)

(* 'playing': a rebuffering is over, the clock runs, the heartbeat timer is *)
(* set anew.                                                                *)
OnPlaying(c) ==
    LET r == IF c.buffering THEN Enqueue([c EXCEPT !.buffering = FALSE], Evt(0)) ELSE <<c, << >>>>
    IN <<Beats([r[1] EXCEPT !.clock = TRUE]), r[2]>>

Play ==
    /\ Input /\ client.alive /\ video.paused
    /\ video' = [video EXCEPT !.paused = FALSE, !.ended = FALSE, !.stalled = FALSE,
                              !.pos = IF video.ended THEN 0 ELSE @]
    /\ Does(OnPlaying(client))
    /\ UNCHANGED <<now, Server, g, lost>>

Resume ==
    /\ client.alive /\ ~video.paused /\ video.stalled
    /\ video' = [video EXCEPT !.stalled = FALSE]
    /\ Does(OnPlaying(client))
    /\ UNCHANGED <<now, Server, g, inputs, lost>>

(* Mistake: the clock goes on while the video is paused.                    *)
PauseClocked ==
    /\ Input /\ client.alive /\ ~video.paused
    /\ video' = [video EXCEPT !.paused = TRUE]
    /\ Does(Enqueue([client EXCEPT !.beat = Off], Evt(0)))
    /\ UNCHANGED <<now, Server, g, lost>>

Pause ==
    /\ Input /\ client.alive /\ ~video.paused
    /\ video' = [video EXCEPT !.paused = TRUE]
    /\ Does(Enqueue(Quiet(client), Evt(0)))
    /\ UNCHANGED <<now, Server, g, lost>>

Waiting ==
    /\ Input /\ client.alive /\ ~video.paused /\ ~video.stalled
    /\ video' = [video EXCEPT !.stalled = TRUE]
    /\ LET c == [client EXCEPT !.clock = FALSE] IN
         IF c.started /\ ~c.buffering THEN Does(Enqueue([c EXCEPT !.buffering = TRUE], Evt(0)))
         ELSE Does(<<c, << >>>>)
    /\ UNCHANGED <<now, Server, g, lost>>

Seeked(pos) ==
    /\ Input /\ client.alive
    /\ video' = [video EXCEPT !.pos = pos, !.ended = FALSE]
    /\ Does(Enqueue(client, [watched |-> 0, pos |-> pos]))
    /\ UNCHANGED <<now, Server, g, lost>>

(* 'timeupdate', the first time past one second.                            *)
ViewStart ==
    /\ client.alive /\ ~client.started /\ video.pos > Started
    /\ Does(<<[client EXCEPT !.started = TRUE], <<Owned(client, <<Evt(0)>>)>>>>)
    /\ UNCHANGED <<now, video, Server, g, inputs, lost>>

(* 'ended': the watch time goes with view_end and the queue is flushed.     *)
Ended ==
    /\ client.alive /\ ~video.paused /\ ~video.stalled /\ video.pos = Duration
    /\ video' = [video EXCEPT !.paused = TRUE, !.ended = TRUE]
    /\ LET c == Quiet(client)
           r == Enqueue(Emptied(c), Evt(c.pending))
           f == Flush(r[1]) IN Does(<<f[1], r[2] \o f[2]>>)
    /\ UNCHANGED <<now, Server, g, inputs, lost>>

Hide ==
    /\ Input /\ ~video.hidden
    /\ video' = [video EXCEPT !.hidden = TRUE]
    /\ IF client.alive THEN /\ Does(Beacon([client EXCEPT !.beat = Off]))
                            /\ g' = [g EXCEPT !.dropped = @ + Forgotten(client)]
       ELSE UNCHANGED <<client, net, g>>
    /\ UNCHANGED <<now, Server, lost>>

Show ==
    /\ Input /\ video.hidden
    /\ video' = [video EXCEPT !.hidden = FALSE]
    /\ client' = IF client.alive /\ ~video.paused THEN Beats([client EXCEPT !.clock = TRUE]) ELSE client
    /\ UNCHANGED <<now, net, Server, g, lost>>

(* 'pagehide' and 'beforeunload': the page may go, or come back.            *)
PageHide ==
    /\ Input /\ client.alive
    /\ Does(Beacon(client))
    /\ g' = [g EXCEPT !.dropped = @ + Forgotten(client)]
    /\ UNCHANGED <<now, video, Server, lost>>

(* destroy(): the player is unmounted, or wired again after a retry.        *)
Destroy ==
    /\ Input /\ client.alive
    /\ LET r == Beacon([client EXCEPT !.beat = Off]) IN Does(<<[r[1] EXCEPT !.alive = FALSE], r[2]>>)
    /\ g' = [g EXCEPT !.dropped = @ + Forgotten(client)]
    /\ UNCHANGED <<now, video, Server, lost>>

(* A new instance on the same tab: getSessionId takes the session up again  *)
(* unless it was idle for long (there is a second id here, no third); a     *)
(* video that plays starts the clock.                                       *)
SessionId == IF now - client.touched < SessionIdle THEN client.session ELSE 2

Mount(owner) ==
    /\ Input /\ ~client.alive
    /\ LET c == [Blank EXCEPT !.owner = owner, !.session = SessionId, !.touched = now] IN
         client' = IF ~video.paused THEN Beats([c EXCEPT !.clock = TRUE]) ELSE c
    /\ UNCHANGED <<now, video, net, Server, g, lost>>

-----------------------------------------------------------------------------
(* Time.  The heartbeat timer fires only in a visible tab that plays; the   *)
(* flush timer always.                                                      *)

Live(c) == ~video.paused /\ ~video.hidden /\ c.started

Timers(c) ==
    LET beat == c.beat = 1
        r == IF beat /\ Live(c)
               THEN Enqueue(Emptied([c EXCEPT !.touched = now + 1]), Evt(c.pending)) ELSE <<c, << >>>>
        d == [r[1] EXCEPT !.beat = IF beat THEN Heartbeat ELSE IF @ = Off THEN Off ELSE @ - 1]
        f == IF d.flush + 1 = FlushEvery THEN Flush(d) ELSE <<d, << >>>>
    IN <<[f[1] EXCEPT !.flush = (@ + 1) % FlushEvery], r[2] \o f[2]>>

Tick ==
    /\ now < MaxTime
    /\ now' = now + 1
    /\ video' = IF ~video.paused /\ ~video.stalled /\ video.pos < Duration
                  THEN [video EXCEPT !.pos = @ + 1] ELSE video
    /\ LET ran == IF client.clock THEN 1 ELSE 0 IN
         /\ IF client.alive THEN Does(Timers([client EXCEPT !.pending = @ + ran]))
            ELSE UNCHANGED <<client, net>>
         /\ g' = [g EXCEPT !.clocked = @ + ran, !.unpaused = @ + IF video.paused THEN 0 ELSE 1,
                           !.unready = IF ready THEN @ ELSE now + 1]
    /\ UNCHANGED <<ready, cache, row, inputs, lost>>

-----------------------------------------------------------------------------
(* POST /v1/analytics/events.                                               *)

Without(i) == SubSeq(net, 1, i - 1) \o SubSeq(net, i + 1, Len(net))

Lose(i) ==
    /\ lost < MaxLost
    /\ lost' = lost + 1
    /\ net' = Without(i)
    /\ g' = [g EXCEPT !.lost = @ + Watched(net[i].events)]
    /\ UNCHANGED <<now, video, client, Server, inputs>>

(* Owner previews are dropped before anything else.                         *)
DropPreview(i) ==
    /\ net[i].owner
    /\ net' = Without(i)
    /\ g' = [g EXCEPT !.owner = @ + Watched(net[i].events)]
    /\ UNCHANGED <<now, video, client, Server, inputs, lost>>

(* resolvePlayback: the cache, or the asset if it is ready.  A miss is      *)
(* remembered too.                                                          *)
(* Mistake: what was remembered never expires.                              *)
CachedForever == cache.state # "none"
Cached  == cache.state # "none" /\ cache.until > now
Target  == IF Cached THEN cache.state ELSE IF ready THEN "hit" ELSE "miss"
Resolve == cache' = IF Cached THEN cache ELSE [state |-> Target, until |-> now + CacheTtl]

(* History: a refusal that no unready asset explains.                       *)
Unexplained == now - g.unready > CacheTtl

Reject(i) ==
    /\ ~net[i].owner /\ Target = "miss"
    /\ Resolve
    /\ net' = Without(i)
    /\ g' = [g EXCEPT !.refused = @ + Watched(net[i].events),
                      !.unready = IF ~ready THEN now ELSE IF Unexplained THEN -1 ELSE @]
    /\ UNCHANGED <<now, video, client, ready, row, inputs, lost>>

(* The fold of a batch, and the upsert.                                     *)
Clamp(e)  == Min({e.watched, WatchedMax})
Folded(events) == FoldSeq(LAMBDA e, sum : sum + Clamp(e), 0, events)
Reached(events) == Min({Max({e.pos : e \in Range(events)} \cup {0}), Duration})
Seconds(w) == (w + 1) \div 2       \* Math.round(watchedMs / 1000)
Far(pos) == 10 * pos >= 9 * Duration

Upsert(r, events) ==
    LET pos == Max({r.pos, Reached(events)}) IN
    [there |-> TRUE, watched |-> r.watched + Seconds(Folded(events)), pos |-> pos,
     completed |-> r.completed \/ Far(pos), start |-> IF r.there THEN r.start ELSE now]

Ingest(i) ==
    /\ ~net[i].owner /\ Target = "hit"
    /\ Resolve
    /\ net' = Without(i)
    /\ row' = [row EXCEPT ![net[i].session] = Upsert(@, net[i].events)]
    /\ g' = [g EXCEPT !.folded = @ + Folded(net[i].events), !.posts = @ + 1,
                      !.clamped = @ + Watched(net[i].events) - Folded(net[i].events)]
    /\ UNCHANGED <<now, video, client, ready, inputs, lost>>

(* The asset is processed again.                                            *)
SetReady(status) ==
    /\ Input /\ ready # status
    /\ ready' = status
    /\ g' = [g EXCEPT !.unready = now]
    /\ UNCHANGED <<now, video, client, net, cache, row, lost>>

(* cleanupOldSessions.                                                      *)
Cleanup ==
    LET old == {s \in Sessions : row[s].there /\ now - row[s].start > Retention} IN
    /\ old # {}
    /\ row' = [s \in Sessions |-> IF s \in old THEN NoRow ELSE row[s]]
    /\ g' = [g EXCEPT !.purged = @ + FoldSet(LAMBDA s, sum : sum + row[s].watched, 0, old)]
    /\ UNCHANGED <<now, video, client, net, ready, cache, inputs, lost>>

-----------------------------------------------------------------------------
(* The reports: what their queries answer at time "at" on one state of the  *)
(* table.  (The code runs them beside each other, so that an answer may mix *)
(* two states; then its parts need not agree.)                              *)

InPeriod(s, at) == row[s].there /\ row[s].start >= at - Period
IsView(s) == row[s].watched >= 1 \/ row[s].pos >= 2
Views(at) == {s \in Sessions : InPeriod(s, at) /\ IsView(s)}

(* fillBuckets: from the bucket in which the period begins to the one of    *)
(* the report.                                                              *)
Floor(t) == (t \div Bucket) * Bucket
From(at) == Max({0, at - Period})
(* Mistake: the loop stops before the last bucket.                          *)
BucketsShort(at) == {b \in Floor(From(at)) .. Floor(at) - 1 : b % Bucket = 0}
Buckets(at) == {b \in Floor(From(at)) .. at : b % Bucket = 0}
Series(at) == Cardinality({s \in Views(at) : Floor(row[s].start) \in Buckets(at)})

(* The share of the views that got as far as each decile.                   *)
Curve(at) == [d \in 1 .. 10 |-> Cardinality({s \in Views(at) : 10 * row[s].pos >= d * Duration})]

-----------------------------------------------------------------------------
Viewer == \/ Play \/ Resume \/ Pause \/ Waiting \/ ViewStart \/ Ended \/ Hide \/ Show
          \/ PageHide \/ Destroy
          \/ \E pos \in 0 .. Duration : Seeked(pos)
          \/ \E owner \in BOOLEAN : Mount(owner)
Api    == \/ \E i \in DOMAIN net : Lose(i) \/ DropPreview(i) \/ Reject(i) \/ Ingest(i)
          \/ \E status \in BOOLEAN : SetReady(status)

Next == Viewer \/ Api \/ Cleanup \/ Tick

Spec == Init /\ [][Next]_vars

-----------------------------------------------------------------------------
(* Every tick the client's clock has run is in exactly one place: not sent  *)
(* yet, on its way, in the table, or lost for a reason the code gives (the  *)
(* network, a preview, a clamp, an asset that is not ready, retention, a    *)
(* page that went before the view began).  The clock never runs while the   *)
(* video is paused, and the rounding of a batch to seconds is off by half a *)
(* second at most.                                                          *)
OnItsWay == FoldSeq(LAMBDA p, sum : sum + Watched(p.events), 0, net)
Stored   == FoldSet(LAMBDA s, sum : sum + row[s].watched, 0, Sessions)
WatchAccounted ==
    /\ g.clocked = client.pending + Watched(client.queue) + OnItsWay
                     + g.lost + g.owner + g.refused + g.clamped + g.dropped + g.folded
    /\ g.clocked <= g.unpaused
    /\ 2 * (Stored + g.purged) - g.folded \in 0 .. g.posts

(* A post of a viewer is refused only while the asset is not ready, or for  *)
(* one lifetime of the cached miss after that.                              *)
RefusalsFade == g.unready # -1

(* The parts of a report agree with each other: the time series adds up to  *)
(* the number of views, whatever the moment and the age of the sessions,    *)
(* and no decile keeps more viewers than the one before it.                 *)
ReportAgrees ==
    /\ Series(now) = Cardinality(Views(now))
    /\ Curve(now)[1] <= Cardinality(Views(now))
    /\ \A d \in 1 .. 9 : Curve(now)[d + 1] <= Curve(now)[d]

(* Not kept by the code (README, section on disagreements): time in a       *)
(* hidden tab is not clocked; only a video that was played is a view.       *)
HiddenNotClocked == client.clock => ~video.hidden
ViewWasPlayed == \A s \in Sessions : row[s].there /\ IsView(s) => g.unpaused > 0
=============================================================================
