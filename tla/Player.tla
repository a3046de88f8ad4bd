------------------------------- MODULE Player -------------------------------
(***************************************************************************)
(* The video player of the dashboard, the watch page and the embed         *)
(* (components/Player.tsx): the hls.js instance behind the video element,  *)
(* its recovery from fatal errors, autoplay, the controls and the surface  *)
(* that is tapped, and the quality menu.                                   *)
(*                                                                         *)
(* The element's events reach the page through a task queue: between       *)
(* a call on the element and its event anything else may happen.  React's  *)
(* state changes of one handler and the effects they trigger are one step. *)
(* The element and hls.js are modelled by what the player uses of them:    *)
(* loading a source anew, which detaching hls.js does, pauses the element  *)
(* without an event, rejects pending play() promises and drops the events  *)
(* still in the queue.                                                     *)
(***************************************************************************)
EXTENDS Integers, Sequences

CONSTANTS
    Videos,            \* 1 .. n: the video v has v renditions
    NetworkRetryMax, MediaRetryMax,
    Autoplay,          \* the autoplay prop
    MaxInputs,         \* bound: what the viewer does
    MaxEvents          \* bound: events in the element's queue

ASSUME PlayerAssumption ==
    /\ Videos \subseteq Nat \ {0} /\ Autoplay \in BOOLEAN
    /\ {NetworkRetryMax, MediaRetryMax, MaxInputs, MaxEvents} \subseteq Nat

VARIABLES
    video,     \* the url prop
    browser,   \* what the browser supports and which play() it allows
    stream,    \* the hls.js instance (or the native source) of this run of the effect
    el,        \* the video element
    plays,     \* promises of attemptAutoplay, of which run, and whether the browser blocked them
    events,    \* the element's queue
    ui,        \* React state about the source
    panel,     \* React state and refs about the controls
    tap,       \* the touch under way
    inputs     \* inputs so far

playerVars == <<video, browser, stream, el, plays, events, ui, panel, tap, inputs>>

AutoLevel == -1
NoLevel   == -2
LevelsOf(v) == 0 .. v - 1

-----------------------------------------------------------------------------
(* The element.                                                            *)

Room(n) == Len(events) + n <= MaxEvents
Allowed(m) == browser.allows = "all" \/ (browser.allows = "muted" /\ m)

\* play() of the element e, the queue being q: what both become.
Played(e) == IF Allowed(e.muted) THEN [e EXCEPT !.paused = FALSE, !.end = FALSE] ELSE e
PlayEvent(e, q) == IF e.paused /\ Allowed(e.muted) THEN Append(q, "play") ELSE q

\* The source is dropped: removeAttribute('src') and load().
Unloaded(e) == [e EXCEPT !.paused = TRUE, !.end = FALSE]
Rejected(ps) == {[p EXCEPT !.rejected = TRUE] : p \in ps}

\* Mistake: the cleanup does not set cancelled.
StaleKept(ps) == Rejected(ps)
Stale(ps)     == {[p EXCEPT !.cancelled = TRUE] : p \in Rejected(ps)}

-----------------------------------------------------------------------------
(* The controls hide three seconds after the last sign of the viewer.      *)

\* Mistake: the controls are shown, the timer is not set again.
ResetHideTimerShown(p) == [p EXCEPT !.controls = TRUE]

\* resetHideTimer
ResetHideTimer(p) == [p EXCEPT !.controls = TRUE, !.hide = TRUE]

\* The effect on playing, of a panel in which it may have changed.
OnPlaying(was, p) ==
    CASE p.playing = was      -> p
      [] p.playing /\ ~was    -> ResetHideTimer([p EXCEPT !.hide = FALSE])
      [] ~p.playing /\ was    -> [p EXCEPT !.controls = TRUE, !.hide = FALSE]

-----------------------------------------------------------------------------
(* The effect that starts a stream and its cleanup.                        *)

NewStream(n) == [run |-> n, live |-> TRUE, parsed |-> FALSE, loading |-> "manifest",
                 net |-> 0, media |-> 0, timer |-> "none", manual |-> AutoLevel]
Nothing(n) == [NewStream(n) EXCEPT !.live = FALSE, !.loading = "none"]
Begun(n) == IF browser.engine = "none" THEN Nothing(n) ELSE NewStream(n)

\* The state the reset effect gives a new video.
Clean == [ready |-> FALSE, error |-> FALSE, recovering |-> FALSE, levels |-> {},
          current |-> AutoLevel, pending |-> NoLevel]

\* Mistake: a level that is still pending is kept.
ResetStateKept(u) == [Clean EXCEPT !.pending = u.pending]
ResetState(u) == Clean

\* The cleanup of one run of the effect and the next run: cancelled is set
\* for the old promises, the retry timer is cleared, hls.js is destroyed.
StartStream ==
    /\ stream' = Begun(stream.run + 1)
    /\ el' = Unloaded(el) /\ plays' = Stale(plays) /\ events' = <<>>

ResetPanel(p) == OnPlaying(p.playing, [p EXCEPT !.playing = FALSE, !.ended = FALSE])

PlayerInit ==
    /\ video \in Videos
    /\ browser \in [engine : {"hls", "native", "none"}, allows : {"all", "muted"}]
    /\ stream = Begun(0)
    /\ el = [paused |-> TRUE, muted |-> FALSE, end |-> FALSE]
    /\ plays = {} /\ events = <<>>
    /\ ui = [Clean EXCEPT !.error = (browser.engine = "none")]
    /\ panel = [playing |-> FALSE, ended |-> FALSE, muted |-> el.muted, controls |-> TRUE,
                hide |-> FALSE, suppress |-> FALSE]
    /\ tap = "none" /\ inputs = 0

Input == inputs < MaxInputs /\ inputs' = inputs + 1

\* Another video is opened in the same page.
Navigate(v) ==
    /\ Input /\ v # video
    /\ video' = v
    /\ StartStream
    /\ ui' = [ResetState(ui) EXCEPT !.error = (browser.engine = "none")]
    /\ panel' = ResetPanel(panel)
    /\ UNCHANGED <<browser, tap>>

\* Retry of the error overlay: no reset effect, the url is the same.
Retry ==
    /\ Input /\ ui.error     \* its button is on the error overlay
    /\ StartStream
    /\ ui' = [ui EXCEPT !.error = (browser.engine = "none"), !.recovering = FALSE]
    /\ UNCHANGED <<video, browser, panel, tap>>

-----------------------------------------------------------------------------
(* What hls.js (or the native element) tells the player.                   *)

\* attemptAutoplay
TryPlay ==
    IF Autoplay
    THEN /\ plays' = plays \cup {[run |-> stream.run, cancelled |-> FALSE,
                                   blocked |-> ~Allowed(el.muted), rejected |-> ~Allowed(el.muted)]}
         /\ el' = Played(el) /\ events' = PlayEvent(el, events)
    ELSE UNCHANGED <<plays, el, events>>

\* MANIFEST_PARSED, or loadedmetadata of the native element.
Parsed ==
    /\ stream.live /\ stream.loading = "manifest" /\ Room(1)
    /\ stream' = [stream EXCEPT !.parsed = TRUE, !.loading = "fragments"]
    /\ ui' = IF browser.engine = "native" THEN [ui EXCEPT !.ready = TRUE]
             ELSE [ui EXCEPT !.ready = TRUE, !.levels = LevelsOf(video), !.current = AutoLevel]
    /\ TryPlay
    /\ UNCHANGED <<video, browser, panel, tap, inputs>>

FragLoaded ==
    /\ browser.engine = "hls" /\ stream.live /\ stream.loading = "fragments"
    /\ stream' = [stream EXCEPT !.net = 0]
    /\ ui' = [ui EXCEPT !.recovering = FALSE, !.error = FALSE]
    /\ UNCHANGED <<video, browser, el, plays, events, panel, tap, inputs>>

\* LEVEL_SWITCHED to l: the level asked for, or any in automatic mode.
LevelSwitched(l) ==
    /\ browser.engine = "hls" /\ stream.live /\ stream.parsed /\ l \in LevelsOf(video)
    /\ stream.manual \in {AutoLevel, l}
    /\ ui' = [ui EXCEPT !.current = IF stream.manual = AutoLevel THEN AutoLevel ELSE l,
                        !.pending = NoLevel]
    /\ UNCHANGED <<video, browser, stream, el, plays, events, panel, tap, inputs>>

\* Mistake: the attempt is not counted.
CountedNever(s) == s.net

\* networkRetries once a fatal network error is answered.
Counted(s) == s.net + 1

\* Mistake: one attempt too many.
RetriesLeftOneMore(s) == s.net <= NetworkRetryMax
RetriesLeft(s) == s.net < NetworkRetryMax

\* A fatal network error: hls.js stops loading, a timer will resume it.
NetworkError ==
    /\ browser.engine = "hls" /\ stream.live /\ stream.loading # "none"
    /\ RetriesLeft(stream)
    /\ stream' = [stream EXCEPT !.net = Counted(stream), !.loading = "none", !.timer = stream.loading]
    /\ ui' = [ui EXCEPT !.recovering = TRUE]
    /\ UNCHANGED <<video, browser, el, plays, events, panel, tap, inputs>>

\* The delay is over: the manifest is asked for again, or loading resumes.
\* The closure does not know whether its instance was destroyed.
RetryTimer ==
    /\ stream.timer # "none"
    /\ stream' = [stream EXCEPT !.timer = "none", !.loading = IF stream.live THEN stream.timer ELSE @]
    /\ UNCHANGED <<video, browser, el, plays, events, ui, panel, tap, inputs>>

\* recoverMediaError detaches the element and attaches it again.
MediaError ==
    /\ browser.engine = "hls" /\ stream.live /\ stream.parsed
    /\ stream.media < MediaRetryMax
    /\ stream' = [stream EXCEPT !.media = @ + 1]
    /\ ui' = [ui EXCEPT !.recovering = TRUE]
    /\ \/ UNCHANGED <<el, plays, events>>
       \/ el' = [el EXCEPT !.paused = TRUE] /\ plays' = Rejected(plays) /\ events' = <<>>
    /\ UNCHANGED <<video, browser, panel, tap, inputs>>

\* Mistake: the recovery is not taken back.
GivenUpKept(u) == [u EXCEPT !.error = TRUE]
GivenUp(u) == [u EXCEPT !.recovering = FALSE, !.error = TRUE]

\* The instance is destroyed.  Neither is the retry timer cleared nor
\* cancelled set.
Destroyed ==
    /\ browser.engine = "hls" /\ stream.live
    /\ stream' = [stream EXCEPT !.live = FALSE, !.loading = "none"]
    /\ el' = Unloaded(el) /\ plays' = Rejected(plays) /\ events' = <<>>
    /\ ui' = GivenUp(ui)
    /\ UNCHANGED <<video, browser, panel, tap, inputs>>

\* An error of the network or of the media once its retries are used up.
Unrecoverable ==
    /\ \/ stream.loading # "none" /\ ~RetriesLeft(stream)
       \/ stream.parsed /\ stream.media = MediaRetryMax
    /\ Destroyed

\* A fatal error of another type, of the demuxer or of a key, is not retried.
OtherError == Destroyed

NativeError ==
    /\ browser.engine = "native" /\ stream.live
    /\ stream' = [stream EXCEPT !.live = FALSE, !.loading = "none"]
    /\ ui' = [ui EXCEPT !.error = TRUE]
    /\ UNCHANGED <<video, browser, el, plays, events, panel, tap, inputs>>

-----------------------------------------------------------------------------
(* The promises of autoplay.                                               *)

\* Playback begins: the promise is fulfilled.
Started(p) ==
    /\ p \in plays /\ ~p.rejected /\ plays' = plays \ {p}
    /\ UNCHANGED <<video, browser, stream, el, events, ui, panel, tap, inputs>>

Heard(p) == ~p.cancelled

\* Refused for whatever reason: once more, muted.
Refused(p) ==
    /\ p \in plays /\ p.rejected /\ plays' = plays \ {p}
    /\ IF Heard(p)
       THEN LET quiet == [el EXCEPT !.muted = TRUE]
                q     == IF el.muted THEN events ELSE Append(events, "volume")
            IN  /\ Room(2)
                /\ el' = Played(quiet) /\ events' = PlayEvent(quiet, q)
                /\ panel' = [panel EXCEPT !.muted = TRUE]
       ELSE UNCHANGED <<el, events, panel>>
    /\ UNCHANGED <<video, browser, stream, ui, tap, inputs>>

-----------------------------------------------------------------------------
(* The element's events.                                                   *)

\* Three seconds after the last sign of the viewer.
HideTimer ==
    /\ panel.hide /\ panel' = [panel EXCEPT !.hide = FALSE, !.controls = FALSE]
    /\ UNCHANGED <<video, browser, stream, el, plays, events, ui, tap, inputs>>

\* The listeners on the element.
Listen(e) ==
    CASE e = "play"    -> OnPlaying(panel.playing, [panel EXCEPT !.playing = TRUE, !.ended = FALSE])
      [] e = "pause"   -> OnPlaying(panel.playing, [panel EXCEPT !.playing = FALSE])
      [] e = "ended"   -> [panel EXCEPT !.ended = TRUE]
      [] e = "seeking" -> IF el.end THEN panel ELSE [panel EXCEPT !.ended = FALSE]
      [] e = "volume"  -> [panel EXCEPT !.muted = el.muted]

Deliver ==
    /\ events # <<>> /\ events' = Tail(events) /\ panel' = Listen(Head(events))
    /\ UNCHANGED <<video, browser, stream, el, plays, ui, tap, inputs>>

\* The element reaches its end: it is paused, and says so first.
Ends ==
    /\ ~el.paused /\ ~el.end /\ stream.live /\ stream.parsed /\ Room(2)
    /\ el' = [el EXCEPT !.end = TRUE, !.paused = TRUE]
    /\ events' = events \o <<"pause", "ended">>
    /\ UNCHANGED <<video, browser, stream, plays, ui, panel, tap, inputs>>

-----------------------------------------------------------------------------
(* The viewer: what the view shows and what it calls.                      *)

ControlsVisible == panel.controls \/ ~panel.playing
EndScreen       == panel.ended
QualityMenu     == ui.levels # {} /\ \E l \in ui.levels : l > 0
Selected        == IF ui.pending # NoLevel THEN ui.pending ELSE ui.current
Reconnecting    == ui.recovering /\ ~ui.error
ErrorOverlay    == ui.error

\* togglePlay: pause() rejects a play() that is still pending.
TogglePlay ==
    IF el.paused
    THEN el' = Played(el) /\ events' = PlayEvent(el, events) /\ UNCHANGED plays
    ELSE el' = [el EXCEPT !.paused = TRUE] /\ events' = Append(events, "pause")
         /\ plays' = Rejected(plays)

\* The play button of the controls and the keys of the focused player, which
\* also bring the controls back.
PlayKey ==
    /\ Input /\ Room(1) /\ TogglePlay /\ panel' = ResetHideTimer(panel)
    /\ UNCHANGED <<video, browser, stream, ui, tap>>

\* replay
Replay ==
    /\ Input /\ EndScreen /\ ~ErrorOverlay /\ Room(1)
    /\ el' = Played([el EXCEPT !.end = FALSE]) /\ events' = PlayEvent(el, events)
    /\ panel' = [panel EXCEPT !.ended = FALSE]
    /\ UNCHANGED <<video, browser, stream, plays, ui, tap>>

\* seek and seekBy, to the end or not; they need a duration.
Seek(end) ==
    /\ ui.ready /\ Room(1)
    /\ el' = [el EXCEPT !.end = end] /\ events' = Append(events, "seeking")

\* The keys of the player and of the slider.
SeekKey(end) ==
    /\ Input /\ Seek(end) /\ panel' = ResetHideTimer(panel)
    /\ UNCHANGED <<video, browser, stream, plays, ui, tap>>

\* The pointer pressed on the progress bar or moved along it.
Scrub(end) ==
    /\ Input /\ ControlsVisible /\ Seek(end)
    /\ UNCHANGED <<video, browser, stream, plays, ui, panel, tap>>

\* toggleMute, and changeVolume: up unmutes, down to nothing mutes.
Volume(m) ==
    /\ Input /\ Room(1)
    /\ el' = [el EXCEPT !.muted = m] /\ panel' = ResetHideTimer(panel)
    /\ events' = IF el.muted = m THEN events ELSE Append(events, "volume")
    /\ UNCHANGED <<video, browser, stream, plays, ui, tap>>

\* switchQuality, from the menu.
SwitchQuality(l) ==
    /\ Input /\ QualityMenu /\ ControlsVisible /\ l \in ui.levels \cup {AutoLevel}
    /\ IF stream.live
       THEN /\ stream' = [stream EXCEPT !.manual = l]
            /\ ui' = [ui EXCEPT !.pending = l, !.current = IF l = AutoLevel THEN AutoLevel ELSE @]
       ELSE UNCHANGED <<stream, ui>>
    /\ UNCHANGED <<video, browser, el, plays, events, panel, tap>>

-----------------------------------------------------------------------------
(* Touch: the first tap reveals the controls, the next toggles.            *)

\* Mistake: a tap does not start clean.
CleanTapNot(p) == p
CleanTap(p) == [p EXCEPT !.suppress = FALSE]

TouchStart ==
    /\ Input /\ tap = "none" /\ ~ErrorOverlay
    /\ panel' = CleanTap(panel) /\ tap' = "down"
    /\ UNCHANGED <<video, browser, stream, el, plays, events, ui>>

\* onSurfaceTouchEnd
TouchEnd ==
    /\ tap = "down"
    /\ LET hidden == panel.playing /\ ~panel.controls IN
       /\ panel' = ResetHideTimer([panel EXCEPT !.suppress = @ \/ hidden])
       /\ tap' = IF hidden THEN "reveal" ELSE "toggle"
    /\ UNCHANGED <<video, browser, stream, el, plays, events, ui, inputs>>

\* onSurfaceClick
SurfaceClick ==
    /\ Room(1)
    /\ IF panel.suppress
       THEN panel' = [panel EXCEPT !.suppress = FALSE] /\ UNCHANGED <<el, events, plays>>
       ELSE TogglePlay /\ UNCHANGED panel
    /\ UNCHANGED <<video, browser, stream, ui>>

\* The click that the browser makes of a tap, and one of a mouse.
Click ==
    /\ tap \in {"reveal", "toggle"} /\ tap' = "none"
    /\ SurfaceClick /\ UNCHANGED inputs
MouseClick ==
    /\ Input /\ tap = "none" /\ ~ErrorOverlay
    /\ SurfaceClick /\ UNCHANGED tap

\* A scroll or a long press: no click follows.
NoClick ==
    /\ tap \in {"reveal", "toggle"} /\ tap' = "none"
    /\ UNCHANGED <<video, browser, stream, el, plays, events, ui, panel, inputs>>

MouseMove ==
    /\ Input /\ panel' = ResetHideTimer(panel)
    /\ UNCHANGED <<video, browser, stream, el, plays, events, ui, tap>>

-----------------------------------------------------------------------------
Answer == Parsed \/ FragLoaded \/ NetworkError \/ Unrecoverable

Engine ==
    \/ Answer \/ RetryTimer \/ MediaError \/ OtherError \/ NativeError \/ Ends \/ Deliver \/ HideTimer
    \/ \E l \in UNION {LevelsOf(v) : v \in Videos} : LevelSwitched(l)
    \/ \E p \in plays : Started(p) \/ Refused(p)

Viewer ==
    \/ \E v \in Videos : Navigate(v)
    \/ Retry \/ PlayKey \/ Replay \/ MouseMove
    \/ \E b \in BOOLEAN : SeekKey(b) \/ Scrub(b) \/ Volume(b)
    \/ \E l \in ui.levels \cup {AutoLevel} : SwitchQuality(l)
    \/ TouchStart \/ TouchEnd \/ Click \/ NoClick \/ MouseClick

PlayerNext == Engine \/ Viewer
PlayerSpec == PlayerInit /\ [][PlayerNext]_playerVars

\* What hls.js loads ends one way or the other, and timers fire.
FairPlayerSpec == PlayerSpec /\ WF_playerVars(Answer) /\ WF_playerVars(RetryTimer)

-----------------------------------------------------------------------------
PlayerTypeOK ==
    /\ video \in Videos
    /\ stream \in [run : Nat, live : BOOLEAN, parsed : BOOLEAN, loading : {"none", "manifest", "fragments"},
                   net : 0 .. NetworkRetryMax, media : 0 .. MediaRetryMax,
                   timer : {"none", "manifest", "fragments"}, manual : {AutoLevel} \cup UNION {LevelsOf(v) : v \in Videos}]
    /\ plays \subseteq [run : Nat, cancelled : BOOLEAN, blocked : BOOLEAN, rejected : BOOLEAN]
    /\ Len(events) <= MaxEvents

\* "Reconnecting" is only said while something is under way that can end it,
\* and the error overlay only once the instance is gone: the viewer's Retry
\* never runs beside a recovery (Player.tsx:278-312, 608-612).
RecoveryUnderWay ==
    browser.engine = "hls" =>
        /\ Reconnecting => stream.live /\ (stream.loading # "none" \/ stream.timer # "none")
        /\ ui.error => ~stream.live /\ ~ui.recovering

\* A recovery ends: in a fragment, in the error overlay, or because the
\* viewer went elsewhere; a network that fails for ever is given up
\* (NETWORK_RETRY_MAX, Player.tsx:55, 281).
RecoveryEnds == ui.recovering ~> ~ui.recovering

\* The level that the quality button names is one of the video on screen,
\* whatever was chosen, pending or playing in the video before (176-189, 789).
LabelOfThisVideo == Selected = AutoLevel \/ Selected \in LevelsOf(video)

\* A tap that found the controls hidden toggles nothing, every other tap
\* toggles, whatever taps, swipes and timers came before (614-637).
TapTogglesOnce ==
    [][Click => IF tap = "reveal" THEN el' = el
                ELSE el'.paused # el.paused \/ ~Allowed(el.muted)]_playerVars

\* While the video plays, controls that are shown will be hidden again.
ControlsHideAgain == panel.playing /\ panel.controls => panel.hide

\* What the player waits for will come: no state ends only with a timer or a
\* load that is not there, and what it names is of this video.
NothingLeftHanging == RecoveryUnderWay /\ ControlsHideAgain /\ LabelOfThisVideo

\* Autoplay that is refused mutes the element, or plays it, for the stream on
\* screen only, whenever the answer comes: not for a stream that the viewer left
\* for another video or by Retry, which its cleanup cancels (205-217, 317-323).
OnlyOwnAutoplay ==
    [][\A p \in plays : Refused(p) /\ <<el, events, panel>>' # <<el, events, panel>>
                          => p.run = stream.run]_playerVars

\* Not kept by the code.  The player mutes itself where autoplay with sound was
\* blocked (the comment at 211), not where the viewer paused it, or a media
\* recovery or the end of the instance rejected it.
MutedWhenBlocked ==
    [][\A p \in plays : Refused(p) /\ el'.muted /\ ~el.muted => p.blocked]_playerVars

\* Not kept by the code.  "A previous suppressed tap that never produced a click
\* must not leak" (617-619): a click of the mouse toggles.
MouseClickToggles ==
    [][MouseClick => el'.paused # el.paused \/ ~Allowed(el.muted)]_playerVars
=============================================================================
