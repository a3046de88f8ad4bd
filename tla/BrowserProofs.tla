---------------------------- MODULE BrowserProofs ----------------------------
(***************************************************************************)
(* What the two components that move a video through a browser promise.    *)
(*                                                                         *)
(* Player, for any videos and ladders, any number of retries, inputs and   *)
(* events in the queue, with and without autoplay:                         *)
(*                                                                         *)
(*   PlayerTyped      the type invariant                                   *)
(*   NothingHangs     the player waits only for what will come, by Loads,  *)
(*                    Hides and Labelled                                   *)
(*   TapsToggleOnce   a tap toggles, or reveals the controls, once, by     *)
(*                    Tapped                                               *)
(*   OwnAutoplay      the answer to autoplay acts on the stream it was     *)
(*                    for, by Owned                                        *)
(*                                                                         *)
(* Each invariant is about variables of its own and is shown by a lemma    *)
(* that goes through the actions that write them.                          *)
(*                                                                         *)
(* Upload, for any files, parts, attempts and workers, any number of runs, *)
(* choices and lost answers:                                               *)
(*                                                                         *)
(*   UploadTyped      the type invariant                                   *)
(*   UploadWhole      what is stored is one file from end to end, and what *)
(*                    a retry will not send again is there, by Sessions    *)
(*   UploadNotStuck   a spinner has a run behind it, by Busy               *)
(*                                                                         *)
(* Every run and every stored session hold an upload id, a file and parts  *)
(* (Held).  Stands says what is true of each of them about the upload, and *)
(* Agree that two of them with one upload have one file; both are read     *)
(* when a part is stored or an upload assembled, whoever began it.         *)
(***************************************************************************)
EXTENDS Player, Upload, FiniteSetTheorems, SequenceTheorems, WellFoundedInduction,
        NaturalsInduction, TLAPS

(*******************************  The player  ******************************)

Levels == UNION {LevelsOf(v) : v \in Videos}

Stream == [run : Nat, live : BOOLEAN, parsed : BOOLEAN, loading : {"none", "manifest", "fragments"},
           net : 0 .. NetworkRetryMax, media : 0 .. MediaRetryMax,
           timer : {"none", "manifest", "fragments"}, manual : {AutoLevel} \cup Levels]

Element == [paused : BOOLEAN, muted : BOOLEAN, end : BOOLEAN]
Promise == [run : Nat, cancelled : BOOLEAN, blocked : BOOLEAN, rejected : BOOLEAN]
Event   == {"play", "pause", "ended", "seeking", "volume"}
Source  == [ready : BOOLEAN, error : BOOLEAN, recovering : BOOLEAN, levels : SUBSET Int,
            current : Int, pending : Int]
Panel   == [playing : BOOLEAN, ended : BOOLEAN, muted : BOOLEAN, controls : BOOLEAN,
            hide : BOOLEAN, suppress : BOOLEAN]

(* What is live is loading or will be, by a timer; an error overlay is only *)
(* there when nothing is live.                                              *)
Loads ==
    /\ stream.live => stream.loading # "none" \/ stream.timer # "none"
    /\ browser.engine = "hls" =>
           /\ Reconnecting => stream.live
           /\ ui.error => ~stream.live /\ ~ui.recovering

(* All the levels on screen are of the video on screen.                     *)
Labelled ==
    /\ ui.levels \subseteq LevelsOf(video)
    /\ ui.current \in {AutoLevel} \cup LevelsOf(video)
    /\ ui.pending \in {NoLevel, AutoLevel} \cup LevelsOf(video)

Hides == panel.playing /\ panel.controls => panel.hide

(* A click is suppressed exactly when the touch before it has revealed the  *)
(* controls, from the start of that touch to the click.                     *)
Tapped ==
    /\ tap \in {"none", "down", "reveal", "toggle"}
    /\ tap \in {"down", "toggle"} => ~panel.suppress
    /\ tap = "reveal" => panel.suppress

(* Whatever cancels a promise rejects it.                                   *)
Promises == \A p \in plays : p.cancelled => p.rejected

(* A promise of a stream that is gone is cancelled.                         *)
Owned == \A p \in plays : p.cancelled \/ p.run = stream.run

Queue == events \in Seq(Event) /\ Len(events) <= MaxEvents

Sourced ==
    /\ video \in Videos /\ browser.engine \in {"hls", "native", "none"}
    /\ stream \in Stream /\ ui \in Source /\ Loads /\ Labelled

Controls == panel \in Panel /\ Hides /\ Tapped

Playback == el \in Element /\ plays \subseteq Promise /\ Promises /\ Queue

Inv == Sourced /\ Controls /\ Playback /\ Owned

-----------------------------------------------------------------------------
(* What is loaded and what is said about it.                               *)

LEMMA LevelsAreNumbers ==
    ASSUME PlayerAssumption, NEW v \in Videos
    PROVE  LevelsOf(v) \subseteq Levels /\ LevelsOf(v) \subseteq Int /\ v \in Nat
<1>1. v \in Nat
    BY PlayerAssumption DEF PlayerAssumption
<1> QED
    BY <1>1 DEF LevelsOf, Levels

LEMMA Streams ==
    ASSUME PlayerAssumption, NEW n \in Nat
    PROVE  /\ NewStream(n) \in Stream /\ NewStream(n).live /\ NewStream(n).loading = "manifest"
           /\ Nothing(n) \in Stream /\ ~Nothing(n).live
           /\ Clean \in Source /\ ~Clean.recovering /\ ~Clean.error
           /\ Clean.levels = {} /\ Clean.current = AutoLevel /\ Clean.pending = NoLevel
<1>1. 0 \in 0 .. NetworkRetryMax /\ 0 \in 0 .. MediaRetryMax
    BY PlayerAssumption DEF PlayerAssumption
<1>2. NewStream(n) \in Stream /\ NewStream(n).live /\ NewStream(n).loading = "manifest"
    BY <1>1 DEF NewStream, Stream
<1>3. Nothing(n) \in Stream /\ ~Nothing(n).live
    BY <1>1 DEF Nothing, NewStream, Stream
<1>4. AutoLevel \in Int /\ NoLevel \in Int
    BY DEF AutoLevel, NoLevel
<1> QED
    BY <1>2, <1>3, <1>4 DEF Clean, Source

\* A stream starts: with it, or without an engine with an error, nothing is
\* recovering.
LEMMA StartKeeps ==
    ASSUME PlayerAssumption, Inv, (\E v \in Videos : Navigate(v)) \/ Retry
    PROVE  Sourced'
<1>1. /\ video' \in Videos /\ browser' = browser
      /\ stream.run + 1 \in Nat
      /\ stream' = IF browser.engine = "none" THEN Nothing(stream.run + 1)
                   ELSE NewStream(stream.run + 1)
    BY DEF Navigate, Retry, StartStream, Begun, Inv, Sourced, Stream
<1>2. /\ stream' \in Stream /\ (stream'.live => stream'.loading = "manifest")
      /\ browser.engine = "none" => ~stream'.live
    BY <1>1, Streams
<1>3. /\ ui' \in Source /\ ui'.error = (browser.engine = "none") /\ ~ui'.recovering
      /\ Labelled'
    <2>1. CASE Retry
        <3>1. video' = video
              /\ ui' = [ui EXCEPT !.error = (browser.engine = "none"), !.recovering = FALSE]
            BY <2>1 DEF Retry
        <3>2. /\ ui' \in Source /\ ui'.error = (browser.engine = "none") /\ ~ui'.recovering
              /\ ui'.levels = ui.levels /\ ui'.current = ui.current /\ ui'.pending = ui.pending
            BY <3>1 DEF Inv, Sourced, Source
        <3> QED
            BY <3>1, <3>2 DEF Labelled, Inv, Sourced
    <2>2. CASE \E v \in Videos : Navigate(v)
        <3>1. ui' = [Clean EXCEPT !.error = (browser.engine = "none")]
            BY <2>2 DEF Navigate, ResetState
        <3>2. /\ ui' \in Source /\ ui'.error = (browser.engine = "none") /\ ~ui'.recovering
              /\ ui'.levels = {} /\ ui'.current = AutoLevel /\ ui'.pending = NoLevel
            BY <3>1, <1>1, Streams DEF Source
        <3> QED
            BY <3>2 DEF Labelled
    <2> QED
        BY <2>1, <2>2
<1>4. Loads'
    BY <1>1, <1>2, <1>3 DEF Loads, Reconnecting
<1> QED
    BY <1>1, <1>2, <1>3, <1>4 DEF Sourced, Inv

LEMMA ParsedKeeps ==
    ASSUME PlayerAssumption, Inv, Parsed
    PROVE  Sourced'
<1>1. /\ video' = video /\ browser' = browser /\ stream.live
      /\ stream' = [stream EXCEPT !.parsed = TRUE, !.loading = "fragments"]
    BY DEF Parsed
<1>2. /\ stream' \in Stream /\ stream'.loading = "fragments" /\ stream'.live = stream.live
    BY <1>1 DEF Inv, Sourced, Stream
<1>3. LevelsOf(video) \subseteq Int /\ AutoLevel \in Int
    BY LevelsAreNumbers DEF Inv, Sourced, AutoLevel
<1>4. /\ ui' \in Source /\ ui'.error = ui.error /\ ui'.recovering = ui.recovering
      /\ \/ ui'.levels = ui.levels /\ ui'.current = ui.current
         \/ ui'.levels = LevelsOf(video) /\ ui'.current = AutoLevel
      /\ ui'.pending = ui.pending
    BY <1>3 DEF Parsed, Inv, Sourced, Source
<1>5. Labelled'
    BY <1>1, <1>4 DEF Labelled, Inv, Sourced
<1>6. Loads'
    BY <1>1, <1>2, <1>4 DEF Loads, Reconnecting, Inv, Sourced
<1> QED
    BY <1>1, <1>2, <1>4, <1>5, <1>6 DEF Sourced, Inv

\* A fatal error that is answered with another attempt: something is left
\* that loads, or the timer that will.
LEMMA RecoveryKeeps ==
    ASSUME PlayerAssumption, Inv, FragLoaded \/ NetworkError \/ MediaError \/ RetryTimer
    PROVE  Sourced'
<1>1. video' = video /\ browser' = browser /\ stream \in Stream /\ ui \in Source
    BY DEF FragLoaded, NetworkError, MediaError, RetryTimer, Inv, Sourced
<1>2. stream' \in Stream /\ stream'.live = stream.live
    <2>1. CASE FragLoaded
        <3>1. 0 \in 0 .. NetworkRetryMax
            BY PlayerAssumption DEF PlayerAssumption
        <3> QED
            BY <1>1, <2>1, <3>1 DEF FragLoaded, Stream
    <2>2. CASE NetworkError
        <3>1. stream.net + 1 \in 0 .. NetworkRetryMax
            BY <1>1, <2>2, PlayerAssumption DEF NetworkError, RetriesLeft, Stream, PlayerAssumption
        <3> DEFINE net == stream.net + 1
        <3>2. stream' = [stream EXCEPT !.net = net, !.loading = "none", !.timer = stream.loading]
            BY <2>2 DEF NetworkError, Counted
        <3> HIDE DEF net
        <3> QED
            BY <1>1, <3>1, <3>2 DEF Stream, net
    <2>3. CASE MediaError
        <3>1. stream.media + 1 \in 0 .. MediaRetryMax
            BY <1>1, <2>3, PlayerAssumption DEF MediaError, Stream, PlayerAssumption
        <3> DEFINE media == stream.media + 1
        <3>2. stream' = [stream EXCEPT !.media = media]
            BY <1>1, <2>3 DEF MediaError, Stream
        <3> HIDE DEF media
        <3> QED
            BY <1>1, <3>1, <3>2 DEF Stream, media
    <2>4. CASE RetryTimer
        BY <1>1, <2>4 DEF RetryTimer, Stream
    <2> QED
        BY <2>1, <2>2, <2>3, <2>4
<1>3. stream'.live => stream'.loading # "none" \/ stream'.timer # "none"
    BY <1>1 DEF FragLoaded, NetworkError, MediaError, RetryTimer, Stream, Inv, Sourced, Loads
<1>4. /\ ui' \in Source /\ ui'.levels = ui.levels
      /\ ui'.current = ui.current /\ ui'.pending = ui.pending
    BY <1>1 DEF FragLoaded, NetworkError, MediaError, RetryTimer, Source
<1>5. \/ ~ui'.recovering /\ ~ui'.error
      \/ ui'.recovering /\ ui'.error = ui.error /\ stream.live
      \/ ui' = ui
    BY <1>1 DEF FragLoaded, NetworkError, MediaError, RetryTimer, Source
<1>6. Loads'
    BY <1>1, <1>2, <1>3, <1>5 DEF Loads, Reconnecting, Inv, Sourced
<1>7. Labelled'
    BY <1>1, <1>4 DEF Labelled, Inv, Sourced
<1> QED
    BY <1>1, <1>2, <1>4, <1>6, <1>7 DEF Sourced, Inv

LEMMA ErrorKeeps ==
    ASSUME Inv, Unrecoverable \/ OtherError \/ NativeError
    PROVE  Sourced'
<1>1. /\ video' = video /\ browser' = browser /\ stream \in Stream /\ ui \in Source
      /\ stream' = [stream EXCEPT !.live = FALSE, !.loading = "none"]
      /\ \/ browser.engine # "hls" /\ ui' = [ui EXCEPT !.error = TRUE]
         \/ ui' = [ui EXCEPT !.recovering = FALSE, !.error = TRUE]
    BY DEF Unrecoverable, OtherError, Destroyed, NativeError, GivenUp, Inv, Sourced
<1>2. stream' \in Stream /\ ~stream'.live
    BY <1>1 DEF Stream
<1>3. /\ ui' \in Source /\ ui'.levels = ui.levels /\ ui'.error
      /\ ui'.current = ui.current /\ ui'.pending = ui.pending
      /\ browser.engine # "hls" \/ ~ui'.recovering
    BY <1>1 DEF Source
<1>4. Loads' /\ Labelled'
    BY <1>1, <1>2, <1>3 DEF Loads, Labelled, Reconnecting, Inv, Sourced
<1> QED
    BY <1>1, <1>2, <1>3, <1>4 DEF Sourced, Inv

LEMMA LevelKeeps ==
    ASSUME PlayerAssumption, Inv, NEW l, LevelSwitched(l) \/ SwitchQuality(l)
    PROVE  Sourced'
<1>1. /\ video' = video /\ browser' = browser /\ stream \in Stream /\ ui \in Source
      /\ video \in Videos
    BY DEF LevelSwitched, SwitchQuality, Inv, Sourced
<1>2. LevelsOf(video) \subseteq Int /\ LevelsOf(video) \subseteq Levels
      /\ AutoLevel \in Int /\ NoLevel \in Int
    BY <1>1, LevelsAreNumbers DEF AutoLevel, NoLevel
<1>3. l \in {AutoLevel} \cup LevelsOf(video)
    BY DEF LevelSwitched, SwitchQuality, Inv, Sourced, Labelled
<1>4. CASE LevelSwitched(l)
    <2>1. /\ ui' \in Source /\ ui'.levels = ui.levels
          /\ ui'.current \in {AutoLevel, l} /\ ui'.pending = NoLevel
          /\ ui'.error = ui.error /\ ui'.recovering = ui.recovering /\ stream' = stream
        BY <1>1, <1>2, <1>3, <1>4 DEF LevelSwitched, Source
    <2>2. Labelled' /\ Loads'
        BY <1>1, <1>3, <2>1 DEF Labelled, Loads, Reconnecting, Inv, Sourced
    <2> QED
        BY <1>1, <2>1, <2>2 DEF Sourced, Inv
<1>5. CASE SwitchQuality(l) /\ stream.live
    <2>1. /\ stream' = [stream EXCEPT !.manual = l]
          /\ ui' = [ui EXCEPT !.pending = l, !.current = IF l = AutoLevel THEN AutoLevel ELSE @]
        BY <1>5 DEF SwitchQuality
    <2>2. /\ stream' \in Stream /\ stream'.live = stream.live
          /\ stream'.loading = stream.loading /\ stream'.timer = stream.timer
        BY <1>1, <1>2, <1>3, <2>1 DEF Stream
    <2>3. /\ ui' \in Source /\ ui'.levels = ui.levels
          /\ ui'.current \in {AutoLevel, ui.current} /\ ui'.pending = l
          /\ ui'.error = ui.error /\ ui'.recovering = ui.recovering
        BY <1>1, <1>2, <1>3, <2>1 DEF Source
    <2>4. Labelled' /\ Loads'
        BY <1>1, <1>3, <2>2, <2>3 DEF Labelled, Loads, Reconnecting, Inv, Sourced
    <2> QED
        BY <1>1, <2>2, <2>3, <2>4 DEF Sourced, Inv
<1>6. CASE SwitchQuality(l) /\ ~stream.live
    BY <1>1, <1>6 DEF SwitchQuality, Sourced, Inv, Labelled, Loads, Reconnecting
<1> QED
    BY <1>4, <1>5, <1>6

LEMMA SourcedKept ==
    ASSUME PlayerAssumption, Inv, [PlayerNext]_playerVars
    PROVE  Sourced'
<1>1. CASE \/ (\E v \in Videos : Navigate(v)) \/ Retry \/ Parsed
           \/ FragLoaded \/ NetworkError \/ MediaError \/ RetryTimer
           \/ Unrecoverable \/ OtherError \/ NativeError
           \/ \E l \in Levels : LevelSwitched(l)
           \/ \E l \in ui.levels \cup {AutoLevel} : SwitchQuality(l)
    BY <1>1, StartKeeps, ParsedKeeps, RecoveryKeeps, ErrorKeeps, LevelKeeps
<1>2. CASE \/ Ends \/ Deliver \/ HideTimer \/ \E p \in plays : Started(p) \/ Refused(p)
           \/ PlayKey \/ Replay \/ MouseMove
           \/ \E b \in BOOLEAN : SeekKey(b) \/ Scrub(b) \/ Volume(b)
           \/ TouchStart \/ TouchEnd \/ Click \/ NoClick \/ MouseClick \/ UNCHANGED playerVars
    <2>1. UNCHANGED <<video, browser, stream, ui>>
        BY <1>2 DEF Ends, Deliver, HideTimer, Started, Refused, PlayKey, Replay, MouseMove, SeekKey,
                    Scrub, Volume, TouchStart, TouchEnd, Click, NoClick, MouseClick, SurfaceClick,
                    playerVars
    <2> QED
        BY <2>1 DEF Inv, Sourced, Loads, Labelled, Reconnecting
<1> QED
    BY <1>1, <1>2 DEF PlayerNext, Engine, Viewer, Answer, Levels

-----------------------------------------------------------------------------
(* The controls.                                                           *)

\* The two ways the controls come back: both set the timer while it plays.
LEMMA Shown ==
    ASSUME NEW p \in Panel
    PROVE  /\ ResetHideTimer(p) \in Panel /\ ResetHideTimer(p).hide
           /\ ResetHideTimer(p).suppress = p.suppress
BY DEF ResetHideTimer, Panel

LEMMA Played2 ==
    ASSUME NEW p \in Panel, NEW was \in BOOLEAN,
           p.playing = was /\ p.playing /\ p.controls => p.hide
    PROVE  /\ OnPlaying(was, p) \in Panel
           /\ OnPlaying(was, p).playing /\ OnPlaying(was, p).controls => OnPlaying(was, p).hide
           /\ OnPlaying(was, p).suppress = p.suppress
<1>1. CASE p.playing = was
    BY <1>1 DEF OnPlaying
<1>2. CASE p.playing # was /\ p.playing
    BY <1>2 DEF OnPlaying, ResetHideTimer, Panel
<1>3. CASE p.playing # was /\ ~p.playing
    BY <1>3 DEF OnPlaying, Panel
<1> QED
    BY <1>1, <1>2, <1>3

LEMMA Listened ==
    ASSUME Inv, NEW e \in Event
    PROVE  /\ Listen(e) \in Panel /\ Listen(e).suppress = panel.suppress
           /\ Listen(e).playing /\ Listen(e).controls => Listen(e).hide
<1>1. panel \in Panel /\ Hides /\ panel.playing \in BOOLEAN
    BY DEF Inv, Controls, Panel
<1>2. CASE e = "play"
    <2> DEFINE p == [panel EXCEPT !.playing = TRUE, !.ended = FALSE]
    <2>1. /\ p \in Panel /\ p.suppress = panel.suppress /\ p.playing
          /\ p.controls = panel.controls /\ p.hide = panel.hide
        BY <1>1 DEF Panel
    <2>2. Listen(e) = OnPlaying(panel.playing, p)
        BY <1>2 DEF Listen
    <2> HIDE DEF p
    <2> QED
        BY <1>1, <2>1, <2>2, Played2 DEF Hides
<1>3. CASE e = "pause"
    <2> DEFINE p == [panel EXCEPT !.playing = FALSE]
    <2>1. p \in Panel /\ p.suppress = panel.suppress /\ ~p.playing
        BY <1>1 DEF Panel
    <2>2. Listen(e) = OnPlaying(panel.playing, p)
        BY <1>3 DEF Listen
    <2> HIDE DEF p
    <2> QED
        BY <1>1, <2>1, <2>2, Played2
<1>4. CASE e \in {"ended", "seeking", "volume"}
    <2>1. \E b \in BOOLEAN : \/ Listen(e) = panel
                             \/ Listen(e) = [panel EXCEPT !.ended = b]
                             \/ Listen(e) = [panel EXCEPT !.muted = b]
        BY <1>4 DEF Listen, Inv, Playback, Element
    <2> QED
        BY <1>1, <2>1 DEF Panel, Hides
<1> QED
    BY <1>2, <1>3, <1>4 DEF Event

LEMMA ControlsKept ==
    ASSUME Inv, [PlayerNext]_playerVars
    PROVE  Controls'
<1>1. panel \in Panel /\ Hides /\ Tapped /\ panel.playing \in BOOLEAN
    BY DEF Inv, Controls, Panel
<1>2. CASE \/ Parsed \/ FragLoaded \/ NetworkError \/ Unrecoverable \/ RetryTimer \/ MediaError
           \/ OtherError \/ NativeError \/ Ends \/ Retry \/ UNCHANGED playerVars
           \/ \E l \in Levels : LevelSwitched(l)
           \/ \E p \in plays : Started(p)
           \/ \E b \in BOOLEAN : Scrub(b)
           \/ \E l \in ui.levels \cup {AutoLevel} : SwitchQuality(l)
    <2>1. panel' = panel /\ tap' = tap
        BY <1>2 DEF Parsed, FragLoaded, NetworkError, Unrecoverable, RetryTimer, MediaError,
                    OtherError, Destroyed, NativeError, Ends, Retry, LevelSwitched, Started, Scrub,
                    SwitchQuality, playerVars
    <2> QED
        BY <1>1, <2>1 DEF Controls, Hides, Tapped
<1>3. CASE PlayKey \/ MouseMove \/ \E b \in BOOLEAN : SeekKey(b) \/ Volume(b)
    <2>1. panel' = ResetHideTimer(panel) /\ tap' = tap
        BY <1>3 DEF PlayKey, MouseMove, SeekKey, Volume
    <2> QED
        BY <1>1, <2>1, Shown DEF Controls, Hides, Tapped
<1>4. CASE Replay \/ HideTimer \/ \E p \in plays : Refused(p)
    <2>1. /\ \/ panel' = panel
             \/ panel' = [panel EXCEPT !.ended = FALSE]
             \/ panel' = [panel EXCEPT !.hide = FALSE, !.controls = FALSE]
             \/ panel' = [panel EXCEPT !.muted = TRUE]
          /\ tap' = tap
        BY <1>4 DEF Replay, HideTimer, Refused
    <2>2. panel' \in Panel /\ panel'.suppress = panel.suppress /\ Hides'
        BY <1>1, <2>1 DEF Panel, Hides
    <2> QED
        BY <1>1, <2>1, <2>2 DEF Controls, Tapped
<1>5. CASE Deliver
    <2>1. Head(events) \in Event
        BY <1>5 DEF Deliver, Inv, Playback, Queue
    <2>2. panel' = Listen(Head(events)) /\ tap' = tap
        BY <1>5 DEF Deliver
    <2> QED
        BY <1>1, <2>1, <2>2, Listened DEF Controls, Hides, Tapped
<1>6. CASE \E v \in Videos : Navigate(v)
    <2> DEFINE p == [panel EXCEPT !.playing = FALSE, !.ended = FALSE]
    <2>1. p \in Panel /\ ~p.playing /\ p.suppress = panel.suppress
        BY <1>1 DEF Panel
    <2>2. panel' = OnPlaying(panel.playing, p) /\ tap' = tap
        BY <1>6 DEF Navigate, ResetPanel
    <2> HIDE DEF p
    <2> QED
        BY <1>1, <2>1, <2>2, Played2 DEF Controls, Hides, Tapped
<1>7. CASE TouchStart
    <2>1. panel' = [panel EXCEPT !.suppress = FALSE] /\ tap' = "down"
        BY <1>7 DEF TouchStart, CleanTap
    <2>2. panel' \in Panel /\ ~panel'.suppress /\ Hides'
        BY <1>1, <2>1 DEF Panel, Hides
    <2> QED
        BY <2>1, <2>2 DEF Controls, Tapped
<1>8. CASE TouchEnd
    <2> DEFINE hidden == panel.playing /\ ~panel.controls
               p == [panel EXCEPT !.suppress = hidden]
    <2>1. ~panel.suppress /\ tap' = IF hidden THEN "reveal" ELSE "toggle"
        BY <1>1, <1>8 DEF TouchEnd, Tapped
    <2>2. panel' = ResetHideTimer([panel EXCEPT !.suppress = @ \/ hidden])
        BY <1>8 DEF TouchEnd
    <2>3. [panel EXCEPT !.suppress = @ \/ hidden] \in Panel
          /\ [panel EXCEPT !.suppress = @ \/ hidden].suppress = hidden
        BY <1>1, <2>1 DEF Panel
    <2>4. panel' \in Panel /\ panel'.hide /\ panel'.suppress = hidden
        BY <2>2, <2>3, Shown
    <2> QED
        BY <2>1, <2>4 DEF Controls, Hides, Tapped
<1>9. CASE Click \/ NoClick \/ MouseClick
    <2>1. tap' = "none" /\ (panel' = panel \/ panel' = [panel EXCEPT !.suppress = FALSE])
        BY <1>9 DEF Click, NoClick, MouseClick, SurfaceClick
    <2>2. panel' \in Panel /\ Hides'
        BY <1>1, <2>1 DEF Panel, Hides
    <2> QED
        BY <2>1, <2>2 DEF Controls, Tapped
<1> QED
    BY <1>2, <1>3, <1>4, <1>5, <1>6, <1>7, <1>8, <1>9 DEF PlayerNext, Engine, Viewer, Answer, Levels

-----------------------------------------------------------------------------
(* The element, its queue and the promises of autoplay.                    *)

LEMMA Rejections ==
    ASSUME Inv
    PROVE  /\ Rejected(plays) \subseteq Promise /\ Stale(plays) \subseteq Promise
           /\ \A p \in Rejected(plays) : p.rejected
           /\ \A p \in Stale(plays) : p.rejected
           /\ \A p \in plays : p.cancelled => p \in Rejected(plays) /\ p \in Stale(plays)
<1>1. plays \subseteq Promise /\ Promises
    BY DEF Inv, Playback
<1>2. Rejected(plays) \subseteq Promise /\ \A p \in Rejected(plays) : p.rejected
    BY <1>1 DEF Rejected, Promise
<1>3. Stale(plays) \subseteq Promise /\ \A p \in Stale(plays) : p.rejected
    BY <1>2 DEF Stale, Promise
<1>4. ASSUME NEW p \in plays, p.cancelled
      PROVE  p \in Rejected(plays) /\ p \in Stale(plays)
    <2>1. p = [p EXCEPT !.rejected = TRUE] /\ p = [p EXCEPT !.cancelled = TRUE]
        BY <1>1, <1>4 DEF Promises, Promise
    <2>2. p \in Rejected(plays)
        BY <2>1 DEF Rejected
    <2> QED
        BY <2>1, <2>2 DEF Stale
<1> QED
    BY <1>2, <1>3, <1>4

\* play() of an element: at most one event joins the queue.
LEMMA PlaysOn ==
    ASSUME NEW e \in Element, NEW q \in Seq(Event)
    PROVE  /\ Played(e) \in Element /\ PlayEvent(e, q) \in Seq(Event)
           /\ Len(PlayEvent(e, q)) <= Len(q) + 1
<1>1. Played(e) \in Element
    BY DEF Played, Element
<1>2. "play" \in Event
    BY DEF Event
<1> QED
    BY <1>1, <1>2 DEF PlayEvent

LEMMA PlaybackKept ==
    ASSUME PlayerAssumption, Inv, [PlayerNext]_playerVars
    PROVE  Playback'
<1>1. /\ el \in Element /\ plays \subseteq Promise /\ Promises /\ events \in Seq(Event)
      /\ Len(events) <= MaxEvents /\ Len(events) \in Nat /\ MaxEvents \in Nat
    BY PlayerAssumption DEF Inv, Playback, Queue, PlayerAssumption
<1>2. CASE \/ FragLoaded \/ NetworkError \/ RetryTimer \/ NativeError \/ HideTimer
           \/ MouseMove \/ TouchStart \/ TouchEnd \/ NoClick \/ UNCHANGED playerVars
           \/ \E l \in Levels : LevelSwitched(l)
           \/ \E l \in ui.levels \cup {AutoLevel} : SwitchQuality(l)
    <2>1. UNCHANGED <<el, plays, events>>
        BY <1>2 DEF FragLoaded, NetworkError, RetryTimer, NativeError, HideTimer, MouseMove,
                    TouchStart, TouchEnd, NoClick, LevelSwitched, SwitchQuality, playerVars
    <2> QED
        BY <1>1, <2>1 DEF Playback, Promises, Queue
<1>3. CASE (\E v \in Videos : Navigate(v)) \/ Retry \/ MediaError \/ Unrecoverable \/ OtherError
    <2>1. /\ \/ el' = el \/ el' = [el EXCEPT !.paused = TRUE]
             \/ el' = [el EXCEPT !.paused = TRUE, !.end = FALSE]
          /\ plays' \in {plays, Rejected(plays), Stale(plays)}
          /\ events' \in {events, << >>}
        BY <1>3 DEF Navigate, Retry, StartStream, MediaError, Unrecoverable, OtherError, Destroyed,
                    Unloaded
    <2>2. el' \in Element
        BY <1>1, <2>1 DEF Element
    <2>3. plays' \subseteq Promise /\ Promises'
        BY <1>1, <2>1, Rejections DEF Promises
    <2>4. Queue'
        <3>1. CASE events' = events
            BY <1>1, <3>1 DEF Queue
        <3>2. CASE events' = << >>
            <4>1. << >> \in Seq(Event) /\ Len(<< >>) = 0
                OBVIOUS
            <4> QED
                BY <1>1, <3>2, <4>1 DEF Queue
        <3> QED
            BY <2>1, <3>1, <3>2
    <2> QED
        BY <2>2, <2>3, <2>4 DEF Playback
<1>4. CASE Parsed
    <2> DEFINE no  == ~Allowed(el.muted)
               new == [run |-> stream.run, cancelled |-> FALSE, blocked |-> no, rejected |-> no]
    <2>0. stream.run \in Nat
        BY DEF Inv, Sourced, Stream
    <2>1. new \in Promise /\ ~new.cancelled
        BY <2>0 DEF Promise
    <2>2. plays' \subseteq plays \cup {new}
        BY <1>4 DEF Parsed, TryPlay
    <2>3. plays' \subseteq Promise /\ Promises'
        <3> HIDE DEF new
        <3> QED
            BY <1>1, <2>1, <2>2 DEF Promises
    <2>4. \/ el' = el /\ events' = events
          \/ el' = Played(el) /\ events' = PlayEvent(el, events)
        BY <1>4 DEF Parsed, TryPlay
    <2>5. Len(events) + 1 <= MaxEvents
        BY <1>4 DEF Parsed, Room
    <2>6. el' \in Element /\ Queue'
        BY <1>1, <2>4, <2>5, PlaysOn DEF Queue
    <2> QED
        BY <2>3, <2>6 DEF Playback
<1>5. CASE \E p \in plays : Started(p)
    <2>1. el' = el /\ events' = events /\ plays' \subseteq plays
        BY <1>5 DEF Started
    <2> QED
        BY <1>1, <2>1 DEF Playback, Promises, Queue
<1>6. CASE \E p \in plays : Refused(p)
    <2>1. PICK p \in plays : Refused(p)
        BY <1>6
    <2>2. plays' \subseteq plays
        BY <2>1 DEF Refused
    <2>3. CASE ~Heard(p)
        BY <1>1, <2>1, <2>2, <2>3 DEF Refused, Playback, Promises, Queue
    <2>4. CASE Heard(p)
        <3> DEFINE quiet == [el EXCEPT !.muted = TRUE]
                   q == IF el.muted THEN events ELSE Append(events, "volume")
        <3>1. /\ Len(events) + 2 <= MaxEvents
              /\ el' = Played(quiet) /\ events' = PlayEvent(quiet, q)
            BY <2>1, <2>4 DEF Refused, Room
        <3>2. quiet \in Element /\ "volume" \in Event
            BY <1>1 DEF Element, Event
        <3>3. q \in Seq(Event) /\ Len(q) <= Len(events) + 1 /\ Len(q) \in Nat
            BY <1>1, <3>2
        <3> HIDE DEF quiet, q
        <3>4. el' \in Element /\ events' \in Seq(Event) /\ Len(events') <= Len(q) + 1
            BY <3>1, <3>2, <3>3, PlaysOn
        <3>5. Queue'
            BY <1>1, <3>1, <3>3, <3>4 DEF Queue
        <3> QED
            BY <1>1, <2>2, <3>4, <3>5 DEF Playback, Promises
    <2> QED
        BY <2>3, <2>4
<1>7. CASE Deliver
    <2>1. el' = el /\ plays' = plays /\ events # << >> /\ events' = Tail(events)
        BY <1>7 DEF Deliver
    <2>2. Tail(events) \in Seq(Event) /\ Len(Tail(events)) = Len(events) - 1
        BY <1>1, <2>1, HeadTailProperties
    <2>3. Queue'
        BY <1>1, <2>1, <2>2 DEF Queue
    <2> QED
        BY <1>1, <2>1, <2>3 DEF Playback, Promises
<1>8. CASE Ends
    <2>1. /\ Len(events) + 2 <= MaxEvents
          /\ el' = [el EXCEPT !.end = TRUE, !.paused = TRUE]
          /\ plays' = plays /\ events' = events \o <<"pause", "ended">>
        BY <1>8 DEF Ends, Room
    <2>2. el' \in Element
        BY <1>1, <2>1 DEF Element
    <2>3. <<"pause", "ended">> \in Seq(Event) /\ Len(<<"pause", "ended">>) = 2
        BY DEF Event
    <2> DEFINE both == <<"pause", "ended">>
    <2>4. both \in Seq(Event) /\ Len(both) = 2 /\ events' = events \o both
        BY <2>1, <2>3
    <2> HIDE DEF both
    <2>5. Queue'
        BY <1>1, <2>1, <2>4 DEF Queue
    <2> QED
        BY <1>1, <2>1, <2>2, <2>5 DEF Playback, Promises
<1>9. CASE PlayKey \/ Click \/ MouseClick
    <2>1. Len(events) + 1 <= MaxEvents
        BY <1>9 DEF PlayKey, Click, MouseClick, SurfaceClick, Room
    <2>2. \/ UNCHANGED <<el, plays, events>>
          \/ el' = Played(el) /\ events' = PlayEvent(el, events) /\ plays' = plays
          \/ /\ el' = [el EXCEPT !.paused = TRUE] /\ events' = Append(events, "pause")
             /\ plays' = Rejected(plays)
        BY <1>9 DEF PlayKey, Click, MouseClick, SurfaceClick, TogglePlay
    <2>3. plays' \subseteq Promise /\ Promises'
        BY <1>1, <2>2, Rejections DEF Promises
    <2>4. el' \in Element
        <3>1. [el EXCEPT !.paused = TRUE] \in Element
            BY <1>1 DEF Element
        <3> QED
            BY <1>1, <2>2, <3>1, PlaysOn
    <2>5. Queue'
        <3>1. /\ Append(events, "pause") \in Seq(Event)
              /\ Len(Append(events, "pause")) = Len(events) + 1
            BY <1>1 DEF Event
        <3>2. /\ PlayEvent(el, events) \in Seq(Event)
              /\ Len(PlayEvent(el, events)) <= Len(events) + 1
            BY <1>1, PlaysOn
        <3>3. /\ Len(PlayEvent(el, events)) \in Nat
            BY <3>2
        <3>4. CASE events' = events
            BY <1>1, <3>4 DEF Queue
        <3>5. CASE events' = PlayEvent(el, events)
            BY <1>1, <2>1, <3>2, <3>3, <3>5 DEF Queue
        <3>6. CASE events' = Append(events, "pause")
            BY <1>1, <2>1, <3>1, <3>6 DEF Queue
        <3> QED
            BY <2>2, <3>4, <3>5, <3>6
    <2> QED
        BY <2>3, <2>4, <2>5 DEF Playback
<1>10. CASE Replay
    <2> DEFINE e == [el EXCEPT !.end = FALSE]
    <2>1. /\ Len(events) + 1 <= MaxEvents /\ plays' = plays
          /\ el' = Played(e) /\ events' = PlayEvent(el, events)
        BY <1>10 DEF Replay, Room
    <2>2. e \in Element
        BY <1>1 DEF Element
    <2> HIDE DEF e
    <2>3. el' \in Element /\ events' \in Seq(Event) /\ Len(events') <= Len(events) + 1
        BY <1>1, <2>1, <2>2, PlaysOn
    <2>4. Queue'
        BY <1>1, <2>1, <2>3 DEF Queue
    <2> QED
        BY <1>1, <2>1, <2>3, <2>4 DEF Playback, Promises
<1>11. CASE \E b \in BOOLEAN : SeekKey(b) \/ Scrub(b) \/ Volume(b)
    <2>1. PICK b \in BOOLEAN :
              /\ Len(events) + 1 <= MaxEvents /\ plays' = plays
              /\ el' = [el EXCEPT !.end = b] \/ el' = [el EXCEPT !.muted = b]
              /\ \/ events' = events \/ events' = Append(events, "seeking")
                 \/ events' = Append(events, "volume")
        BY <1>11 DEF SeekKey, Scrub, Seek, Volume, Room
    <2>2. el' \in Element /\ "seeking" \in Event /\ "volume" \in Event
        BY <1>1, <2>1 DEF Element, Event
    <2>3. \A e \in Event : /\ Append(events, e) \in Seq(Event)
                           /\ Len(Append(events, e)) = Len(events) + 1
        BY <1>1
    <2>4. events' \in Seq(Event) /\ (Len(events') = Len(events) \/ Len(events') = Len(events) + 1)
        BY <1>1, <2>1, <2>2, <2>3
    <2>5. Queue'
        BY <1>1, <2>1, <2>4 DEF Queue
    <2> QED
        BY <1>1, <2>1, <2>2, <2>5 DEF Playback, Promises
<1> QED
    BY <1>2, <1>3, <1>4, <1>5, <1>6, <1>7, <1>8, <1>9, <1>10, <1>11
       DEF PlayerNext, Engine, Viewer, Answer, Levels

\* What starts a stream cancels the promises there are; a new promise is of the
\* stream that is there.
LEMMA OwnedKept ==
    ASSUME Inv, [PlayerNext]_playerVars
    PROVE  Owned'
<1>1. plays \subseteq Promise /\ Owned /\ stream \in Stream
    BY DEF Inv, Playback, Sourced
<1>2. CASE (\E v \in Videos : Navigate(v)) \/ Retry
    <2>1. plays' = Stale(plays)
        BY <1>2 DEF Navigate, Retry, StartStream
    <2>2. \A p \in Promise : [[p EXCEPT !.rejected = TRUE] EXCEPT !.cancelled = TRUE].cancelled
        BY DEF Promise
    <2> QED
        BY <1>1, <2>1, <2>2 DEF Stale, Rejected, Owned
<1>3. CASE Parsed
    <2>1. \A p \in plays' : p \in plays \/ p.run = stream.run
        BY <1>3 DEF Parsed, TryPlay
    <2>2. stream'.run = stream.run
        BY <1>1, <1>3 DEF Parsed, Stream
    <2> QED
        BY <1>1, <2>1, <2>2 DEF Owned
<1>4. ASSUME ~((\E v \in Videos : Navigate(v)) \/ Retry), ~Parsed
      PROVE  stream'.run = stream.run /\ (plays' \subseteq plays \/ plays' = Rejected(plays))
    <2>1. CASE Engine
        <3>1. stream'.run = stream.run
            BY <1>1, <1>4, <2>1
               DEF Engine, Answer, FragLoaded, NetworkError, Unrecoverable, OtherError, Destroyed,
                   RetryTimer, MediaError, NativeError, Ends, Deliver, HideTimer, LevelSwitched,
                   Started, Refused, Stream
        <3>2. plays' \subseteq plays \/ plays' = Rejected(plays)
            BY <1>4, <2>1
               DEF Engine, Answer, FragLoaded, NetworkError, Unrecoverable, OtherError, Destroyed,
                   RetryTimer, MediaError, NativeError, Ends, Deliver, HideTimer, LevelSwitched,
                   Started, Refused
        <3> QED
            BY <3>1, <3>2
    <2>2. CASE Viewer
        <3>1. stream'.run = stream.run
            BY <1>1, <1>4, <2>2
               DEF Viewer, PlayKey, Replay, MouseMove, SeekKey, Scrub, Volume, SwitchQuality,
                   TouchStart, TouchEnd, Click, NoClick, MouseClick, SurfaceClick, Stream
        <3>2. plays' \subseteq plays \/ plays' = Rejected(plays)
            BY <1>4, <2>2
               DEF Viewer, PlayKey, TogglePlay, Replay, MouseMove, SeekKey, Scrub, Volume,
                   SwitchQuality, TouchStart, TouchEnd, Click, NoClick, MouseClick, SurfaceClick
        <3> QED
            BY <3>1, <3>2
    <2>3. CASE UNCHANGED playerVars
        BY <2>3 DEF playerVars
    <2> QED
        BY <2>1, <2>2, <2>3 DEF PlayerNext
<1>5. ASSUME stream'.run = stream.run, plays' = Rejected(plays)
      PROVE  Owned'
    <2>1. \A p \in Promise : /\ [p EXCEPT !.rejected = TRUE].cancelled = p.cancelled
                             /\ [p EXCEPT !.rejected = TRUE].run = p.run
        BY DEF Promise
    <2> QED
        BY <1>1, <1>5, <2>1 DEF Rejected, Owned
<1>6. ASSUME stream'.run = stream.run, plays' \subseteq plays
      PROVE  Owned'
    BY <1>1, <1>6 DEF Owned
<1> QED
    BY <1>2, <1>3, <1>4, <1>5, <1>6

-----------------------------------------------------------------------------
(* The theorems.                                                           *)

LEMMA InitInv ==
    ASSUME PlayerAssumption, PlayerInit
    PROVE  Inv
<1>1. Sourced
    <2>1. /\ video \in Videos /\ browser.engine \in {"hls", "native", "none"}
          /\ stream = IF browser.engine = "none" THEN Nothing(0) ELSE NewStream(0)
          /\ ui = [Clean EXCEPT !.error = (browser.engine = "none")]
        BY DEF PlayerInit, Begun
    <2>2. /\ ui \in Source /\ ui.error = (browser.engine = "none") /\ ~ui.recovering
          /\ ui.levels = {} /\ ui.current = AutoLevel /\ ui.pending = NoLevel
        BY <2>1, Streams DEF Source
    <2> QED
        BY <2>1, <2>2, Streams DEF Sourced, Loads, Labelled, Reconnecting
<1>2. el \in Element /\ plays = {} /\ events = << >> /\ tap = "none"
      /\ panel = [playing |-> FALSE, ended |-> FALSE, muted |-> el.muted, controls |-> TRUE,
                  hide |-> FALSE, suppress |-> FALSE]
    BY DEF PlayerInit, Element
<1>3. el.muted \in BOOLEAN
    BY <1>2 DEF Element
<1>4. Controls
    BY <1>2, <1>3 DEF Controls, Panel, Hides, Tapped
<1>5. Queue
    BY <1>2, PlayerAssumption DEF Queue, PlayerAssumption
<1> QED
    BY <1>1, <1>2, <1>4, <1>5 DEF Inv, Playback, Promises, Owned

LEMMA AlwaysInv ==
    ASSUME PlayerAssumption
    PROVE  PlayerSpec => []Inv
<1>1. PlayerInit => Inv
    BY InitInv
<1>2. Inv /\ [PlayerNext]_playerVars => Inv'
    BY SourcedKept, ControlsKept, PlaybackKept, OwnedKept DEF Inv
<1> QED
    BY <1>1, <1>2, PTL DEF PlayerSpec

\* The stream with its retries and levels, the promises and the queue have only
\* values the player can give them (components/Player.tsx).
THEOREM PlayerTyped ==
    ASSUME PlayerAssumption
    PROVE  PlayerSpec => []PlayerTypeOK
<1>1. Inv => PlayerTypeOK
    BY DEF Inv, Sourced, Playback, Queue, Stream, Promise, Levels, PlayerTypeOK
<1> QED
    BY <1>1, AlwaysInv, PTL

\* "Reconnecting" is only said while something loads or a timer will make it;
\* controls that are shown over a playing video will be hidden; and the level
\* that is named is one of the video on screen (Player.tsx:176-189, 278-312).
THEOREM NothingHangs ==
    ASSUME PlayerAssumption
    PROVE  PlayerSpec => []NothingLeftHanging
<1>1. Inv => NothingLeftHanging
    <2> SUFFICES ASSUME Inv PROVE NothingLeftHanging
        OBVIOUS
    <2>1. RecoveryUnderWay
        BY DEF Inv, Sourced, Loads, RecoveryUnderWay, Reconnecting
    <2>2. ControlsHideAgain
        BY DEF Inv, Controls, Hides, ControlsHideAgain
    <2>3. LabelOfThisVideo
        BY DEF Inv, Sourced, Labelled, LabelOfThisVideo, Selected
    <2> QED
        BY <2>1, <2>2, <2>3 DEF NothingLeftHanging
<1> QED
    BY <1>1, AlwaysInv, PTL

\* A tap that found the controls hidden toggles nothing, every other tap
\* toggles once, whatever taps, swipes and timers came before
\* (Player.tsx:614-637).
THEOREM TapsToggleOnce ==
    ASSUME PlayerAssumption
    PROVE  PlayerSpec => TapTogglesOnce
<1>1. ASSUME Inv, Click
      PROVE  IF tap = "reveal" THEN el' = el
             ELSE el'.paused # el.paused \/ ~Allowed(el.muted)
    <2>1. tap \in {"reveal", "toggle"} /\ (panel.suppress <=> tap = "reveal")
          /\ el \in Element
        BY <1>1 DEF Click, Inv, Controls, Tapped, Playback
    <2>2. CASE tap = "reveal"
        BY <1>1, <2>1, <2>2 DEF Click, SurfaceClick
    <2>3. CASE tap = "toggle"
        <3>1. \/ el.paused /\ el' = Played(el)
              \/ ~el.paused /\ el' = [el EXCEPT !.paused = TRUE]
            BY <1>1, <2>1, <2>3 DEF Click, SurfaceClick, TogglePlay
        <3> QED
            BY <2>1, <2>3, <3>1 DEF Played, Element
    <2> QED
        BY <2>1, <2>2, <2>3
<1>2. Inv /\ [PlayerNext]_playerVars =>
          [Click => IF tap = "reveal" THEN el' = el
                    ELSE el'.paused # el.paused \/ ~Allowed(el.muted)]_playerVars
    BY <1>1
<1> QED
    BY <1>2, AlwaysInv, PTL DEF PlayerSpec, TapTogglesOnce

\* Autoplay that is refused mutes or plays the element for the stream on screen
\* only: a stream that was left has its promises cancelled, however late they
\* are answered (Player.tsx:205-217, 317-323).
THEOREM OwnAutoplay ==
    ASSUME PlayerAssumption
    PROVE  PlayerSpec => OnlyOwnAutoplay
<1>1. ASSUME Inv, NEW p \in plays, Refused(p), <<el, events, panel>>' # <<el, events, panel>>
      PROVE  p.run = stream.run
    <2>1. Heard(p)
        BY <1>1 DEF Refused
    <2> QED
        BY <1>1, <2>1 DEF Heard, Inv, Owned
<1>2. Inv /\ [PlayerNext]_playerVars =>
          [\A p \in plays : Refused(p) /\ <<el, events, panel>>' # <<el, events, panel>>
                                => p.run = stream.run]_playerVars
    BY <1>1
<1> QED
    BY <1>2, AlwaysInv, PTL DEF PlayerSpec, OnlyOwnAutoplay

(*******************************  The upload  ******************************)

(* A worker in one of these has a part.                                     *)
Staff == {"throw", "url", "put", "stored", "wait"}
Rested == {"rest", "return"}

WorkerType == [pc : {"rest", "return", "throw", "url", "put", "stored", "wait"},
               part : {0} \cup Parts, tries : 0 .. Attempts]
MultipartType == [state : {"open", "done", "dropped"}, parts : [Parts -> Content]]
AssetType == [status : {"created", "uploaded", "queued"}, url : BOOLEAN, object : [Parts -> Content]]
SessionType == [id : Nat, file : Content, parts : [Parts -> Content]]
PageType == [phase : Phases, tab : {"upload", "import"}, file : Content, asset : Nat, abort : Nat]

(* Where a run may be, with the asset, the upload and the file it has.      *)
Placed(rr, A) ==
    /\ rr.asset <= Len(A)
    /\ rr.pc \notin {"create", "over"} \/ rr.id # 0 => rr.asset # 0
    /\ rr.pc \in {"create", "open"} => rr.id = 0
    /\ rr.pc \in {"parts", "complete", "assembled"} => rr.id # 0
    /\ rr.pc \in {"presign", "send", "confirm", "open"} \/ rr.id # 0 => rr.tab = "upload"
    /\ rr.tab = "upload" => rr.file # NoFile
    /\ rr.pc = "complete" => \A p \in Parts : rr.etags[p] # NoFile
    /\ rr.pc = "confirm" => A[rr.asset].object # Empty

(* A part is with one worker or in the queue, and only a multipart upload   *)
(* has workers, while it sends or after it has failed.                      *)
Staffed(rr) ==
    /\ \A w \in Pool :
        /\ rr.pool[w].pc \in Staff =>
               /\ rr.pool[w].part # 0 /\ rr.pool[w].tries # 0
               /\ rr.pc \in {"parts", "over"} /\ rr.id # 0
        /\ rr.pool[w].pc \in Rested => rr.pool[w].part = 0
        /\ rr.pool[w].pc = "wait" => rr.pool[w].tries < Attempts
        /\ rr.pool[w].part \notin rr.queue
    /\ \A v, w \in Pool : v # w /\ rr.pool[v].part # 0 => rr.pool[v].part # rr.pool[w].part

(* What a worker has heard is stored is there, while the upload is open.    *)
Arrived(rr, U) ==
    \A w \in Pool : rr.pool[w].pc = "stored" /\ U[rr.id].state = "open"
        => U[rr.id].parts[rr.pool[w].part] # NoFile

Fit(rr, A, U) == Placed(rr, A) /\ Staffed(rr) /\ Arrived(rr, U)

Runs(R, A, U) ==
    /\ R \in Seq(RunType) /\ Len(R) <= MaxRuns
    /\ \A r \in 1 .. Len(R) : Fit(R[r], A, U)

(* Each run creates one asset and opens one upload at most.                 *)
AtPc(R, S) == {r \in 1 .. Len(R) : R[r].pc \in S}
OnceEach(R, A, U) ==
    /\ Len(A) + Cardinality(AtPc(R, {"create"})) <= Len(R)
    /\ Len(U) + Cardinality(AtPc(R, {"create", "open"})) <= Len(R)

(* An upload id with its file and the parts that need not be sent: what     *)
(* every run and every stored session holds.                                *)
Holds(rr) == <<rr.id, rr.file, rr.etags>>
Keeps(s) == <<s.id, s.file, s.parts>>
Held(R, S) == {Holds(R[r]) : r \in 1 .. Len(R)} \cup {Keeps(S[a]) : a \in RunIds}

(* The parts of an upload are of one file, the file of whoever holds it,    *)
(* and those that need not be sent are there while it is open.              *)
Stands(h, U) ==
    /\ h[1] \in 0 .. Len(U) /\ h[2] \in Content /\ h[3] \in [Parts -> Content]
    /\ h[1] = 0 => h[3] = Empty
    /\ \A p \in Parts : h[3][p] \in {NoFile, h[2]}
    /\ h[1] # 0 => h[2] # NoFile /\ \A p \in Parts : U[h[1]].parts[p] \in {NoFile, h[2]}
    /\ h[1] # 0 /\ U[h[1]].state = "open" =>
           \A p \in Parts : h[3][p] # NoFile => U[h[1]].parts[p] # NoFile

Agree(h, k) == h[1] = k[1] /\ h[1] # 0 => h[2] = k[2]
Sessions(H, U) == (\A h \in H : Stands(h, U)) /\ (\A h, k \in H : Agree(h, k))

(* The source object of every asset.                                        *)
Sound(o) ==
    /\ o.object \in {Empty} \cup {Whole(f) : f \in Files}
    /\ o.status # "created" => o.url \/ o.object # Empty
Objects(A) == A \in Seq(AssetType) /\ \A a \in 1 .. Len(A) : Sound(A[a])

Busy(phase, R) == phase \in Working => \E r \in 1 .. Len(R) : R[r].pc # "over"
Viewed(pg, R, A) ==
    /\ pg \in PageType /\ pg.asset <= Len(A) /\ pg.abort <= Len(R)
    /\ Busy(pg.phase, R)

UploadInv ==
    /\ Viewed(page, run, asset)
    /\ Runs(run, asset, upload) /\ OnceEach(run, asset, upload)
    /\ saved \in [RunIds -> SessionType] /\ Sessions(Held(run, saved), upload)
    /\ upload \in Seq(MultipartType) /\ aborting \subseteq 1 .. Len(upload)
    /\ Objects(asset)
    /\ faults \in 0 .. MaxFaults /\ picks \in 0 .. MaxPicks /\ early \in BOOLEAN

-----------------------------------------------------------------------------
(* Least and greatest members, and ranks.                                   *)

LEMMA Numbers ==
    ASSUME UploadAssumption
    PROVE  /\ PartCount \in Nat \ {0} /\ Attempts \in Nat \ {0} /\ Concurrency \in Nat \ {0}
           /\ MaxRuns \in Nat \ {0} /\ MaxFaults \in Nat /\ MaxPicks \in Nat
           /\ NoFile \notin Files /\ Parts \subseteq Nat \ {0} /\ Parts # {} /\ IsFiniteSet(Parts)
           /\ 1 \in Pool /\ Pool \subseteq Nat \ {0}
<1>1. /\ PartCount \in Nat \ {0} /\ Attempts \in Nat \ {0} /\ Concurrency \in Nat \ {0}
      /\ MaxRuns \in Nat \ {0} /\ MaxFaults \in Nat /\ MaxPicks \in Nat /\ NoFile \notin Files
    BY DEF UploadAssumption, NoFile
<1>2. Parts \subseteq Nat \ {0} /\ 1 \in Parts /\ 1 \in Pool /\ Pool \subseteq Nat \ {0}
    BY <1>1 DEF Parts, Pool
<1>3. IsFiniteSet(Parts)
    BY <1>1, FS_Interval DEF Parts
<1> QED
    BY <1>1, <1>2, <1>3

LEMMA Least ==
    ASSUME NEW S \in SUBSET Nat, S # {}
    PROVE  \E x \in S : \A y \in S : x <= y
<1> DEFINE Less == {p \in Nat \X Nat : p[1] < p[2]}
<1>1. IsWellFoundedOn(Less, Nat)
    BY NatLessThanWellFounded, Zenon DEF OpToRel
<1> HIDE DEF Less
<1>2. PICK x \in S : \A y \in S : <<y, x>> \notin Less
    BY <1>1, WFMin
<1>3. ASSUME NEW y \in S
      PROVE  x <= y
    <2>1. <<y, x>> \notin Less /\ x \in Nat /\ y \in Nat
        BY <1>2
    <2> QED
        BY <2>1 DEF Less
<1> QED
    BY <1>2, <1>3

LEMMA MinIs ==
    ASSUME NEW S \in SUBSET Nat, S # {}
    PROVE  Min(S) \in S /\ \A y \in S : Min(S) <= y
<1>1. \E x \in S : \A y \in S : x =< y
    BY Least
<1> QED
    BY <1>1 DEF Min

LEMMA Greatest ==
    ASSUME NEW S \in SUBSET Nat, S # {}, NEW n \in Nat, \A s \in S : s <= n
    PROVE  \E x \in S : \A y \in S : y <= x
<1> DEFINE U == {m \in Nat : \A s \in S : s <= m}
<1>1. U \in SUBSET Nat /\ U # {}
    OBVIOUS
<1>2. PICK u \in U : \A m \in U : u <= m
    <2> HIDE DEF U
    <2> QED
        BY <1>1, Least
<1>3. u \in S
    <2> SUFFICES ASSUME u \notin S
                 PROVE  FALSE
        OBVIOUS
    <2>1. u \in Nat /\ \A s \in S : s \in Nat /\ s < u
        BY <1>2
    <2>2. PICK t \in S : TRUE
        OBVIOUS
    <2>3. t \in Nat /\ t < u
        BY <2>1, <2>2
    <2>4. u - 1 \in Nat /\ \A s \in S : s <= u - 1
        BY <2>1, <2>3
    <2>5. u - 1 \in U
        BY <2>4
    <2> QED
        BY <1>2, <2>1, <2>5
<1> QED
    BY <1>2, <1>3

(* The place of p among the numbers of S.                                   *)
RankIn(S, p) == Cardinality({q \in S : q <= p})

LEMMA RankIs ==
    ASSUME NEW S \in SUBSET Nat, IsFiniteSet(S), NEW p \in S
    PROVE  /\ RankIn(S, p) \in 1 .. Cardinality(S)
           /\ \A r \in S : r < p => RankIn(S, r) < RankIn(S, p)
<1>1. \A r \in S : /\ IsFiniteSet({q \in S : q <= r}) /\ RankIn(S, r) \in Nat
                   /\ RankIn(S, r) <= Cardinality(S)
    BY FS_Subset, FS_CardinalityType DEF RankIn
<1>2. Cardinality({q \in S : q <= p}) # 0
    BY <1>1, FS_EmptySet
<1>3. ASSUME NEW r \in S, r < p
      PROVE  RankIn(S, r) < RankIn(S, p)
    <2> DEFINE A == {q \in S : q <= r}
               B == {q \in S : q <= p}
    <2>1. A \in SUBSET B /\ p \in B \ A
        <3>1. r \in Nat /\ p \in Nat /\ \A q \in S : q \in Nat
            OBVIOUS
        <3>2. ASSUME NEW q \in S, q <= r
              PROVE  q <= p
            BY <1>3, <3>1, <3>2
        <3>3. p \in B /\ p \notin A
            BY <1>3, <3>1
        <3> QED
            BY <3>2, <3>3
    <2>2. Cardinality(A) <= Cardinality(B) /\ Cardinality(A) # Cardinality(B)
        BY <1>1, <2>1, FS_Subset
    <2>3. Cardinality(A) \in Nat /\ Cardinality(B) \in Nat
        BY <1>1 DEF RankIn
    <2> QED
        BY <2>2, <2>3 DEF RankIn
<1> QED
    BY <1>1, <1>2, <1>3 DEF RankIn

LEMMA RankTaken ==
    ASSUME NEW S \in SUBSET Nat, IsFiniteSet(S), NEW n \in Nat, \A s \in S : s <= n,
           NEW k \in 1 .. Cardinality(S)
    PROVE  \E p \in S : RankIn(S, p) = k
<1>0. Cardinality(S) \in Nat /\ S # {}
    BY FS_CardinalityType, FS_EmptySet
<1> DEFINE T == {p \in S : RankIn(S, p) >= k}
<1>1. T # {}
    <2>1. PICK x \in S : \A y \in S : y <= x
        BY <1>0, Greatest
    <2>2. {q \in S : q <= x} = S
        BY <2>1
    <2>3. RankIn(S, x) = Cardinality(S)
        BY <2>2 DEF RankIn
    <2> QED
        BY <1>0, <2>3
<1>2. PICK p \in T : \A y \in T : p <= y
    <2>1. T \in SUBSET Nat
        OBVIOUS
    <2> HIDE DEF T
    <2> QED
        BY <1>1, <2>1, Least
<1>3. p \in S /\ RankIn(S, p) >= k /\ RankIn(S, p) \in Nat
    BY <1>2, RankIs, <1>0
<1>4. RankIn(S, p) = k
    <2> SUFFICES ASSUME RankIn(S, p) > k
                 PROVE  FALSE
        BY <1>0, <1>3
    <2> DEFINE A == {q \in S : q <= p}
               B == {q \in S : q < p}
    <2>0. p \in Nat /\ \A q \in S : q \in Nat
        BY <1>3
    <2>1. IsFiniteSet(A) /\ p \in A /\ B = A \ {p}
        <3>1. p \in A /\ A \in SUBSET S
            BY <1>3, <2>0
        <3>2. IsFiniteSet(A)
            <4> HIDE DEF A
            <4> QED
                BY <3>1, FS_Subset
        <3>3. ASSUME NEW q \in S
              PROVE  q < p <=> q <= p /\ q # p
            BY <2>0
        <3>4. B = A \ {p}
            BY <3>3
        <3> QED
            BY <3>1, <3>2, <3>4
    <2>2. Cardinality(B) = RankIn(S, p) - 1
        BY <2>1, FS_RemoveElement DEF RankIn
    <2>3. Cardinality(B) >= k /\ IsFiniteSet(B)
        <3>1. Cardinality(B) >= k
            BY <1>0, <1>3, <2>2
        <3>2. IsFiniteSet(B)
            <4> HIDE DEF A, B
            <4> QED
                BY <2>1, FS_RemoveElement
        <3> QED
            BY <3>1, <3>2
    <2>4. B # {}
        BY <1>0, <2>3, FS_EmptySet
    <2>5. PICK x \in B : \A y \in B : y <= x
        <3>1. B \in SUBSET Nat /\ \A s \in B : s <= n
            OBVIOUS
        <3> HIDE DEF B
        <3> QED
            BY <2>4, <3>1, Greatest
    <2>6. {q \in S : q <= x} = B
        <3>1. x \in S /\ x < p
            BY <2>5
        <3>2. ASSUME NEW q \in S
              PROVE  q <= x <=> q < p
            <4>1. CASE q < p
                BY <2>5, <4>1
            <4>2. CASE ~(q < p)
                BY <2>0, <3>1, <4>2
            <4> QED
                BY <4>1, <4>2
        <3> QED
            BY <3>2
    <2>7. x \in T
        BY <2>3, <2>5, <2>6 DEF RankIn
    <2> QED
        BY <1>2, <1>3, <2>5, <2>7
<1> QED
    BY <1>3, <1>4

-----------------------------------------------------------------------------
(* What a run makes of itself between two awaits.                           *)

LEMMA RunFields ==
    ASSUME NEW rr \in RunType
    PROVE  /\ rr.pc \in Calls \cup {"parts", "assembled", "queued", "over"} /\ rr.file \in Content
           /\ rr.tab \in {"upload", "import"} /\ rr.asset \in 0 .. MaxRuns /\ rr.id \in 0 .. MaxRuns
           /\ rr.etags \in [Parts -> Content] /\ rr.queue \in SUBSET Parts /\ rr.aborted \in BOOLEAN
           /\ rr.pool \in [Pool -> WorkerType]
BY DEF RunType, WorkerType

LEMMA RunChanges ==
    ASSUME NEW rr \in RunType
    PROVE  /\ \A x \in Calls \cup {"parts", "assembled", "queued", "over"} : [rr EXCEPT !.pc = x] \in RunType
           /\ \A x \in 0 .. MaxRuns : [rr EXCEPT !.asset = x] \in RunType
           /\ \A x \in 0 .. MaxRuns : [rr EXCEPT !.id = x] \in RunType
           /\ \A x \in [Parts -> Content] : [rr EXCEPT !.etags = x] \in RunType
           /\ \A x \in SUBSET Parts : [rr EXCEPT !.queue = x] \in RunType
           /\ \A x \in BOOLEAN : [rr EXCEPT !.aborted = x] \in RunType
           /\ \A x \in [Pool -> WorkerType] : [rr EXCEPT !.pool = x] \in RunType
           /\ \A w \in Pool : \A x \in WorkerType : [rr EXCEPT !.pool[w] = x] \in RunType
BY DEF RunType, WorkerType

LEMMA WorkerSet ==
    ASSUME UploadAssumption, NEW rr \in RunType, NEW A, NEW U, Fit(rr, A, U),
           NEW w \in Pool, NEW x \in WorkerType,
           x.pc \in Staff => /\ x.part # 0 /\ x.tries # 0 /\ rr.pc \in {"parts", "over"} /\ rr.id # 0
                             /\ x.part \notin rr.queue
                             /\ \A v \in Pool : v # w => rr.pool[v].part # x.part,
           x.pc \in Rested => x.part = 0,
           x.pc = "wait" => x.tries < Attempts,
           x.pc = "stored" /\ U[rr.id].state = "open" => U[rr.id].parts[x.part] # NoFile
    PROVE  /\ [rr EXCEPT !.pool[w] = x] \in RunType
           /\ Fit([rr EXCEPT !.pool[w] = x], A, U)
           /\ [rr EXCEPT !.pool[w] = x].pc = rr.pc
           /\ Holds([rr EXCEPT !.pool[w] = x]) = Holds(rr)
<1> DEFINE nn == [rr EXCEPT !.pool[w] = x]
<1>1. nn \in RunType
    BY RunChanges
<1>2. /\ nn.pc = rr.pc /\ nn.file = rr.file /\ nn.tab = rr.tab /\ nn.asset = rr.asset /\ nn.id = rr.id
      /\ nn.etags = rr.etags /\ nn.queue = rr.queue
      /\ \A v \in Pool : nn.pool[v] = IF v = w THEN x ELSE rr.pool[v]
    BY DEF RunType
<1> HIDE DEF nn
<1>3. Placed(nn, A)
    BY <1>2 DEF Fit, Placed
<1>4. x.pc \in Staff \/ x.pc \in Rested
    BY DEF WorkerType, Staff, Rested
<1>5. 0 \notin rr.queue
    BY RunFields, Numbers
<1>6. Staffed(nn)
    <2>1. \A v \in Pool : v # w => (rr.pool[v].part # 0 => rr.pool[v].part # x.part)
        BY <1>4
    <2> QED
        BY <1>2, <1>4, <1>5, <2>1 DEF Fit, Staffed
<1>7. Arrived(nn, U)
    BY <1>2 DEF Fit, Arrived
<1> QED
    BY <1>1, <1>2, <1>3, <1>6, <1>7 DEF nn, Fit, Holds

LEMMA RestIs == ASSUME UploadAssumption
                PROVE  Rest \in WorkerType /\ Rest.pc = "rest" /\ Rest.part = 0
BY Numbers DEF Rest, WorkerType

LEMMA FreshIs ==
    ASSUME UploadAssumption, NEW f \in Content, NEW tab \in {"upload", "import"}
    PROVE  /\ Fresh(f, tab) \in RunType /\ Fresh(f, tab).pc = "create" /\ Fresh(f, tab).file = f
           /\ Fresh(f, tab).tab = tab /\ Fresh(f, tab).asset = 0 /\ Fresh(f, tab).id = 0
           /\ Fresh(f, tab).etags = Empty /\ Fresh(f, tab).queue = {}
           /\ \A w \in Pool : Fresh(f, tab).pool[w] = Rest
<1>1. [w \in Pool |-> Rest] \in [Pool -> WorkerType]
    BY RestIs
<1>2. 0 \in 0 .. MaxRuns /\ Empty \in [Parts -> Content]
    BY Numbers DEF Empty, Content
<1> QED
    BY <1>1, <1>2 DEF Fresh, RunType, WorkerType, Calls

(* A run with nobody at work.                                               *)
LEMMA QuietFits ==
    ASSUME UploadAssumption, NEW rr \in RunType, NEW U,
           \A w \in Pool : rr.pool[w].pc \in Rested /\ rr.pool[w].part = 0
    PROVE  Staffed(rr) /\ Arrived(rr, U)
<1>1. 0 \notin rr.queue
    BY RunFields, Numbers
<1> QED
    BY <1>1 DEF Staffed, Arrived, Staff, Rested

LEMMA OverFits ==
    ASSUME UploadAssumption, NEW rr \in RunType, NEW A, NEW U, Fit(rr, A, U)
    PROVE  /\ Over(rr) \in RunType /\ Over(rr).pc = "over" /\ Fit(Over(rr), A, U)
           /\ Over(rr).tab = rr.tab /\ Over(rr).file = rr.file /\ Over(rr).asset = rr.asset
           /\ Holds(Over(rr)) \in {Holds(rr), <<0, rr.file, Empty>>}
<1>1. CASE \A w \in Pool : rr.pool[w].pc \in {"rest", "return"}
    <2> DEFINE ff == Fresh(rr.file, rr.tab)
               nn == [ff EXCEPT !.pc = "over", !.asset = rr.asset]
    <2>1. Over(rr) = nn
        BY <1>1 DEF Over
    <2>2. ff \in RunType /\ ff.file = rr.file /\ ff.tab = rr.tab /\ ff.id = 0 /\ ff.etags = Empty
          /\ \A w \in Pool : ff.pool[w] = Rest
        <3>1. rr.file \in Content /\ rr.tab \in {"upload", "import"}
            BY RunFields
        <3> QED
            BY <3>1, FreshIs
    <2> HIDE DEF ff
    <2>3. nn \in RunType
        <3>1. rr.asset \in 0 .. MaxRuns
            BY RunFields
        <3> QED
            BY <2>2, <3>1 DEF RunType
    <2>4. /\ nn.pc = "over" /\ nn.file = rr.file /\ nn.tab = rr.tab /\ nn.asset = rr.asset /\ nn.id = 0
          /\ nn.etags = Empty /\ \A w \in Pool : nn.pool[w] = Rest
        BY <2>2 DEF RunType
    <2> HIDE DEF nn
    <2>5. Placed(nn, A)
        BY <2>4 DEF Placed, Fit
    <2>6. Staffed(nn) /\ Arrived(nn, U)
        BY <2>3, <2>4, QuietFits, RestIs DEF Rested
    <2> QED
        BY <2>1, <2>3, <2>4, <2>5, <2>6 DEF Fit, Holds
<1>2. CASE ~\A w \in Pool : rr.pool[w].pc \in {"rest", "return"}
    <2> DEFINE nn == [rr EXCEPT !.pc = "over"]
    <2>1. Over(rr) = nn
        BY <1>2 DEF Over
    <2>2. nn \in RunType
        BY RunChanges
    <2>3. /\ nn.pc = "over" /\ nn.file = rr.file /\ nn.tab = rr.tab /\ nn.asset = rr.asset
          /\ nn.id = rr.id /\ nn.etags = rr.etags /\ nn.pool = rr.pool /\ nn.queue = rr.queue
        BY DEF RunType
    <2> HIDE DEF nn
    <2>4. Placed(nn, A)
        BY <2>3 DEF Placed, Fit
    <2>5. Staffed(nn) /\ Arrived(nn, U)
        BY <2>3 DEF Staffed, Arrived, Fit
    <2> QED
        BY <2>1, <2>2, <2>3, <2>4, <2>5 DEF Fit, Holds
<1> QED
    BY <1>1, <1>2

LEMMA TakeFits ==
    ASSUME UploadAssumption, NEW rr \in RunType, NEW A, NEW U, Fit(rr, A, U),
           NEW w \in Pool, rr.pc \in {"parts", "over"}, rr.id # 0
    PROVE  /\ Take(rr, w) \in RunType /\ Fit(Take(rr, w), A, U)
           /\ Take(rr, w).pc = rr.pc /\ Holds(Take(rr, w)) = Holds(rr)
<1>1. CASE rr.queue = {}
    <2> DEFINE x == [Rest EXCEPT !.pc = "return"]
    <2>1. x \in WorkerType /\ x.pc = "return" /\ x.part = 0
        BY Numbers DEF Rest, WorkerType
    <2>2. Take(rr, w) = [rr EXCEPT !.pool[w] = x]
        BY <1>1 DEF Take
    <2> HIDE DEF x
    <2>3. x.pc \notin Staff /\ x.pc # "wait" /\ x.pc # "stored"
        BY <2>1 DEF Staff
    <2> QED
        BY <2>1, <2>2, <2>3, WorkerSet
<1>2. CASE rr.queue # {}
    <2> DEFINE m == Min(rr.queue)
               x == [pc |-> IF rr.aborted THEN "throw" ELSE "url", part |-> m, tries |-> 1]
               left == rr.queue \ {m}
               nn == [rr EXCEPT !.queue = left]
    <2>1. m \in rr.queue
        BY <1>2, RunFields, Numbers, MinIs
    <2>2. m \in Parts /\ m # 0 /\ 1 \in 0 .. Attempts
        BY <2>1, RunFields, Numbers
    <2>3. Take(rr, w) = [nn EXCEPT !.pool[w] = x]
        BY <1>2 DEF Take, RunType
    <2> HIDE DEF m
    <2>4. x \in WorkerType /\ x.part = m /\ x.tries = 1 /\ x.pc \in {"throw", "url"}
        BY <2>2 DEF WorkerType
    <2> HIDE DEF x
    <2>5. left \in SUBSET Parts /\ left \subseteq rr.queue /\ m \notin left
        BY RunFields
    <2> HIDE DEF left
    <2>6. nn \in RunType
        BY <2>5, RunChanges
    <2>7. /\ nn.pc = rr.pc /\ nn.file = rr.file /\ nn.tab = rr.tab /\ nn.asset = rr.asset
          /\ nn.id = rr.id /\ nn.etags = rr.etags /\ nn.pool = rr.pool /\ nn.queue = left
        BY DEF RunType
    <2> HIDE DEF nn
    <2>8. Fit(nn, A, U)
        <3>1. Placed(nn, A)
            BY <2>7 DEF Placed, Fit
        <3>2. Staffed(nn)
            BY <2>5, <2>7 DEF Staffed, Fit
        <3>3. Arrived(nn, U)
            BY <2>7 DEF Arrived, Fit
        <3> QED
            BY <3>1, <3>2, <3>3 DEF Fit
    <2>9. \A v \in Pool : nn.pool[v].part # m
        BY <2>1, <2>7 DEF Fit, Staffed
    <2>10. x.pc \notin Rested /\ x.pc # "wait" /\ x.pc # "stored"
        BY <2>4 DEF Rested
    <2>11. x.part # 0 /\ x.tries # 0 /\ nn.pc \in {"parts", "over"} /\ nn.id # 0 /\ x.part \notin nn.queue
        BY <2>2, <2>4, <2>5, <2>7
    <2>12. /\ [nn EXCEPT !.pool[w] = x] \in RunType /\ Fit([nn EXCEPT !.pool[w] = x], A, U)
           /\ [nn EXCEPT !.pool[w] = x].pc = nn.pc /\ Holds([nn EXCEPT !.pool[w] = x]) = Holds(nn)
        BY <2>4, <2>6, <2>8, <2>9, <2>10, <2>11, WorkerSet
    <2> QED
        BY <2>3, <2>7, <2>12 DEF Holds
<1> QED
    BY <1>1, <1>2

LEMMA SpawnFits ==
    ASSUME UploadAssumption, NEW rr \in RunType, NEW A, NEW U, rr.asset # 0, rr.asset <= Len(A),
           rr.id # 0, rr.tab = "upload", rr.file # NoFile
    PROVE  /\ Spawn(rr) \in RunType /\ Spawn(rr).pc = "parts" /\ Fit(Spawn(rr), A, U)
           /\ Holds(Spawn(rr)) = Holds(rr)
<1> DEFINE missing == {p \in Parts : rr.etags[p] = NoFile}
           First(w) == CHOOSE p \in missing : RankIn(missing, p) = w
           left == {p \in missing : RankIn(missing, p) > Concurrency}
           start == IF rr.aborted THEN "throw" ELSE "url"
           Job(w) == CASE w <= Cardinality(missing) -> [pc |-> start, part |-> First(w), tries |-> 1]
                       [] w > Cardinality(missing) /\ w = 1 -> [Rest EXCEPT !.pc = "return"]
                       [] OTHER -> Rest
           jobs == [w \in Pool |-> Job(w)]
           nn == [rr EXCEPT !.pc = "parts", !.queue = left, !.pool = jobs]
<1>1. Spawn(rr) = nn
    BY DEF Spawn, RankIn
<1>2. /\ missing \in SUBSET Nat /\ IsFiniteSet(missing) /\ PartCount \in Nat
      /\ \A p \in missing : p <= PartCount
      /\ missing \in SUBSET Parts
    <2>1. missing \in SUBSET Parts
        OBVIOUS
    <2> HIDE DEF missing
    <2>2. IsFiniteSet(missing)
        BY <2>1, Numbers, FS_Subset
    <2> QED
        BY <2>1, <2>2, Numbers DEF Parts
<1> HIDE DEF missing
<1>3. Cardinality(missing) \in Nat
    BY <1>2, FS_CardinalityType
<1>4. ASSUME NEW w \in Pool, w <= Cardinality(missing)
      PROVE  First(w) \in missing /\ RankIn(missing, First(w)) = w
    <2>1. w \in 1 .. Cardinality(missing)
        BY <1>3, <1>4, Numbers DEF Pool
    <2>2. \E p \in missing : RankIn(missing, p) = w
        BY <1>2, <2>1, RankTaken
    <2> QED
        BY <2>2
<1> HIDE DEF First
<1>5. /\ left \in SUBSET missing
      /\ \A p \in left : RankIn(missing, p) > Concurrency
    OBVIOUS
<1> HIDE DEF left
<1>6. \A w \in Pool : w \in Nat /\ w <= Concurrency /\ Concurrency \in Nat
    BY Numbers DEF Pool
<1>7. start \in {"throw", "url"}
    OBVIOUS
<1> HIDE DEF start
<1>8. 1 \in 0 .. Attempts /\ 0 \notin Parts
    BY Numbers
<1>9. ASSUME NEW w \in Pool
      PROVE  /\ Job(w) \in WorkerType
             /\ \/ /\ w <= Cardinality(missing) /\ Job(w).part = First(w)
                   /\ Job(w).pc = start /\ Job(w).tries = 1
                \/ Job(w).part = 0 /\ Job(w).pc \in {"rest", "return"}
    <2>1. CASE w <= Cardinality(missing)
        <3>1. Job(w) = [pc |-> start, part |-> First(w), tries |-> 1]
            BY <2>1, <1>3, <1>6
        <3>2. First(w) \in Parts
            BY <1>2, <1>4, <2>1
        <3> QED
            BY <1>7, <1>8, <2>1, <3>1, <3>2 DEF WorkerType
    <2>2. CASE ~(w <= Cardinality(missing))
        <3>1. Job(w) = Rest \/ Job(w) = [Rest EXCEPT !.pc = "return"]
            BY <2>2, <1>3, <1>6
        <3>2. Rest \in WorkerType /\ [Rest EXCEPT !.pc = "return"] \in WorkerType
              /\ [Rest EXCEPT !.pc = "return"].part = 0 /\ [Rest EXCEPT !.pc = "return"].pc = "return"
            BY Numbers DEF Rest, WorkerType
        <3> QED
            BY <3>1, <3>2, RestIs
    <2> QED
        BY <2>1, <2>2
<1> HIDE DEF Job
<1>10. jobs \in [Pool -> WorkerType] /\ \A w \in Pool : jobs[w] = Job(w)
    BY <1>9
<1> HIDE DEF jobs
<1>11. nn \in RunType
    <2>1. left \in SUBSET Parts
        BY <1>2, <1>5
    <2> QED
        BY <1>10, <2>1 DEF RunType, WorkerType
<1>12. /\ nn.pc = "parts" /\ nn.file = rr.file /\ nn.tab = rr.tab /\ nn.asset = rr.asset
       /\ nn.id = rr.id /\ nn.etags = rr.etags /\ nn.pool = jobs /\ nn.queue = left
    BY DEF RunType
<1> HIDE DEF nn
<1>13. Placed(nn, A)
    BY <1>12 DEF Placed
<1>14. \A w \in Pool : nn.pool[w] = Job(w)
    BY <1>10, <1>12
<1>15. Arrived(nn, U)
    BY <1>7, <1>9, <1>14 DEF Arrived
<1>16. Staffed(nn)
    <2>1. ASSUME NEW w \in Pool
          PROVE  Job(w).part \notin left
        <3>1. CASE Job(w).part = 0
            BY <1>2, <1>5, <1>8, <3>1
        <3>2. CASE w <= Cardinality(missing) /\ Job(w).part = First(w)
            <4>1. First(w) \in left => w > Concurrency
                BY <1>4, <1>5, <3>2
            <4> QED
                BY <1>6, <3>2, <4>1
        <3> QED
            BY <1>9, <3>1, <3>2
    <2>2. ASSUME NEW v \in Pool, NEW w \in Pool, v # w, Job(v).part # 0
          PROVE  Job(v).part # Job(w).part
        <3>1. v <= Cardinality(missing) /\ Job(v).part = First(v) /\ RankIn(missing, First(v)) = v
            BY <1>4, <1>9, <2>2
        <3>2. CASE Job(w).part = 0
            BY <2>2, <3>2
        <3>3. CASE w <= Cardinality(missing) /\ Job(w).part = First(w)
            BY <1>4, <2>2, <3>1, <3>3
        <3> QED
            BY <1>9, <3>2, <3>3
    <2>3. ASSUME NEW w \in Pool, Job(w).pc \in Staff
          PROVE  Job(w).part # 0 /\ Job(w).tries # 0
        <3>1. w <= Cardinality(missing) /\ Job(w).part = First(w) /\ Job(w).tries = 1
            BY <1>9, <2>3 DEF Staff
        <3>2. First(w) \in Parts
            BY <1>2, <1>4, <3>1
        <3> QED
            BY <1>8, <3>1, <3>2
    <2>4. ASSUME NEW w \in Pool, Job(w).pc \in Rested
          PROVE  Job(w).part = 0
        BY <1>7, <1>9, <2>4 DEF Rested
    <2>5. \A w \in Pool : Job(w).pc # "wait"
        BY <1>7, <1>9
    <2> QED
        BY <1>12, <1>14, <2>1, <2>2, <2>3, <2>4, <2>5 DEF Staffed
<1> QED
    BY <1>1, <1>11, <1>12, <1>13, <1>15, <1>16 DEF Fit, Holds

LEMMA Step2Fits ==
    ASSUME UploadAssumption, NEW rr \in RunType, NEW A, NEW U,
           rr.id = 0, rr.etags = Empty,
           \A w \in Pool : rr.pool[w].pc \in Rested /\ rr.pool[w].part = 0,
           rr.asset \in RunIds, rr.asset <= Len(A), rr.tab = "upload" => rr.file # NoFile,
           saved \in [RunIds -> SessionType], saved[rr.asset].id <= MaxRuns
    PROVE  /\ Step2(rr) \in RunType /\ Fit(Step2(rr), A, U)
           /\ Step2(rr).pc \notin {"create", "over"}
           /\ Holds(Step2(rr)) \in {<<0, rr.file, Empty>>, Keeps(saved[rr.asset])}
           /\ Dropped(rr) \in [RunIds -> SessionType]
           /\ \A a \in RunIds : Keeps(Dropped(rr)[a]) \in {<<0, NoFile, Empty>>, Keeps(saved[a])}
<1>1. rr.asset # 0 /\ rr.asset \in Nat
    BY Numbers DEF RunIds
<1>2. NoSession \in SessionType /\ Keeps(NoSession) = <<0, NoFile, Empty>>
    BY DEF NoSession, SessionType, Keeps, Content, Empty
<1>3. /\ Dropped(rr) \in [RunIds -> SessionType]
      /\ \A a \in RunIds : Keeps(Dropped(rr)[a]) \in {<<0, NoFile, Empty>>, Keeps(saved[a])}
    BY <1>2 DEF Dropped
<1>4. ASSUME NEW pc \in {"import", "presign", "open"}, pc \in {"presign", "open"} => rr.tab = "upload"
      PROVE  /\ [rr EXCEPT !.pc = pc] \in RunType /\ Fit([rr EXCEPT !.pc = pc], A, U)
             /\ [rr EXCEPT !.pc = pc].pc \notin {"create", "over"}
             /\ Holds([rr EXCEPT !.pc = pc]) = <<0, rr.file, Empty>>
    <2> DEFINE nn == [rr EXCEPT !.pc = pc]
    <2>1. nn \in RunType
        BY RunChanges DEF Calls
    <2>2. /\ nn.pc = pc /\ nn.file = rr.file /\ nn.tab = rr.tab /\ nn.asset = rr.asset
          /\ nn.id = 0 /\ nn.etags = Empty /\ nn.pool = rr.pool
        BY DEF RunType
    <2> HIDE DEF nn
    <2>3. Placed(nn, A)
        BY <1>1, <1>4, <2>2 DEF Placed
    <2>4. Staffed(nn) /\ Arrived(nn, U)
        BY <2>1, <2>2, QuietFits
    <2> QED
        BY <2>1, <2>2, <2>3, <2>4 DEF Fit, Holds, nn
<1>5. CASE Step2(rr) = Spawn([rr EXCEPT !.id = saved[rr.asset].id, !.etags = saved[rr.asset].parts])
           /\ rr.tab = "upload" /\ Resumable(rr.asset, rr.file)
    <2> DEFINE s == saved[rr.asset]
               nn == [rr EXCEPT !.id = s.id, !.etags = s.parts]
    <2>1. s \in SessionType
        OBVIOUS
    <2>2. s.id # 0 /\ s.file = rr.file /\ s.id \in 0 .. MaxRuns /\ s.parts \in [Parts -> Content]
        BY <1>5, <2>1, Numbers DEF Resumable, SessionType
    <2> HIDE DEF s
    <2>3. nn \in RunType
        BY <2>2 DEF RunType
    <2>4. /\ nn.file = rr.file /\ nn.tab = rr.tab /\ nn.asset = rr.asset
          /\ nn.id = s.id /\ nn.etags = s.parts
        BY DEF RunType
    <2>5. Step2(rr) = Spawn(nn)
        BY <1>5 DEF s
    <2> HIDE DEF nn
    <2>6. /\ Spawn(nn) \in RunType /\ Spawn(nn).pc = "parts" /\ Fit(Spawn(nn), A, U)
          /\ Holds(Spawn(nn)) = Holds(nn)
        BY <1>1, <1>5, <2>2, <2>3, <2>4, SpawnFits
    <2>7. Holds(nn) = Keeps(s)
        BY <2>2, <2>4 DEF Holds, Keeps
    <2> QED
        BY <1>3, <2>5, <2>6, <2>7 DEF s
<1>6. CASE \E pc \in {"import", "presign", "open"} :
               Step2(rr) = [rr EXCEPT !.pc = pc] /\ (pc \in {"presign", "open"} => rr.tab = "upload")
    BY <1>3, <1>4, <1>6
<1> QED
    <2>1. rr.tab \in {"upload", "import"}
        BY RunFields
    <2>2. CASE rr.tab = "import"
        <3>1. Step2(rr) = [rr EXCEPT !.pc = "import"]
            BY <2>2 DEF Step2
        <3> QED
            BY <1>6, <3>1
    <2>3. CASE rr.tab = "upload" /\ rr.file \in Small
        <3>1. rr.tab # "import"
            BY <2>3
        <3>2. Step2(rr) = [rr EXCEPT !.pc = "presign"]
            BY <2>3, <3>1 DEF Step2
        <3> QED
            BY <1>6, <2>3, <3>2
    <2>4. CASE rr.tab = "upload" /\ rr.file \notin Small /\ Resumable(rr.asset, rr.file)
        <3>1. Step2(rr) = Spawn([rr EXCEPT !.id = saved[rr.asset].id, !.etags = saved[rr.asset].parts])
            BY <2>4 DEF Step2
        <3> QED
            BY <1>5, <2>4, <3>1
    <2>5. CASE rr.tab = "upload" /\ rr.file \notin Small /\ ~Resumable(rr.asset, rr.file)
        <3>1. Step2(rr) = [rr EXCEPT !.pc = "open"]
            BY <2>5 DEF Step2
        <3> QED
            BY <1>6, <2>5, <3>1
    <2> QED
        BY <2>1, <2>2, <2>3, <2>4, <2>5

-----------------------------------------------------------------------------
(* What is left of the invariant when a run, an asset or an upload changes. *)

(* Objects are not emptied; what is still open has lost no part.            *)
Later(A, B) ==
    /\ Len(A) <= Len(B)
    /\ \A a \in 1 .. Len(A) : A[a].object # Empty => B[a].object # Empty
After(U, V) ==
    /\ Len(U) <= Len(V)
    /\ \A u \in 1 .. Len(U) : V[u].state = "open" =>
           /\ U[u].state = "open"
           /\ \A p \in Parts : U[u].parts[p] # NoFile => V[u].parts[p] # NoFile
Shrunk(U, V) ==
    /\ Len(V) = Len(U)
    /\ \A u \in 1 .. Len(U) :
           /\ V[u].state = "open" => V[u] = U[u]
           /\ \A p \in Parts : V[u].parts[p] \in {NoFile, U[u].parts[p]}

LEMMA FitLater ==
    ASSUME NEW rr \in RunType, NEW A, NEW U, NEW B, NEW V, Fit(rr, A, U), rr.id <= Len(U),
           Len(A) \in Nat, Len(B) \in Nat, Len(U) \in Nat, Later(A, B), After(U, V)
    PROVE  Fit(rr, B, V)
<1>1. rr.asset \in Nat /\ rr.id \in Nat
    BY RunFields
<1>2. Placed(rr, B)
    <2>1. rr.asset <= Len(B)
        BY <1>1 DEF Fit, Placed, Later
    <2>2. rr.pc = "confirm" => B[rr.asset].object # Empty
        BY <1>1 DEF Fit, Placed, Later
    <2> QED
        BY <2>1, <2>2 DEF Fit, Placed
<1>3. Arrived(rr, V)
    <2> SUFFICES ASSUME NEW w \in Pool, rr.pool[w].pc = "stored", V[rr.id].state = "open"
                 PROVE  V[rr.id].parts[rr.pool[w].part] # NoFile
        BY DEF Arrived
    <2>1. rr.id # 0 /\ rr.pool[w].part # 0
        BY DEF Fit, Staffed, Staff
    <2>2. rr.id \in 1 .. Len(U)
        BY <1>1, <2>1
    <2>3. rr.pool[w].part \in Parts
        BY <2>1, RunFields DEF WorkerType
    <2> QED
        BY <2>2, <2>3 DEF Fit, Arrived, After
<1> QED
    BY <1>2, <1>3 DEF Fit

LEMMA ShrunkIsAfter ==
    ASSUME NEW U, NEW V, Len(U) \in Nat, Shrunk(U, V)
    PROVE  After(U, V)
BY DEF Shrunk, After

Blank == {<<0, f, Empty>> : f \in Content}

LEMMA BlankIs == \A f \in Content : <<0, f, Empty>> \in Blank
BY DEF Blank

LEMMA SessionsShrink ==
    ASSUME NEW H, NEW G, NEW U, NEW V, Len(U) \in Nat, Sessions(H, U), Shrunk(U, V), G \subseteq H \cup Blank
    PROVE  Sessions(G, V)
<1>1. ASSUME NEW h \in H
      PROVE  Stands(h, V)
    <2>1. Stands(h, U) /\ Len(V) = Len(U)
        BY DEF Sessions, Shrunk
    <2>2. CASE h[1] = 0
        BY <2>1, <2>2 DEF Stands
    <2>3. CASE h[1] # 0
        <3>1. h[1] \in 1 .. Len(U)
            BY <2>1, <2>3 DEF Stands
        <3>2. /\ V[h[1]].state = "open" => V[h[1]] = U[h[1]]
              /\ \A p \in Parts : V[h[1]].parts[p] \in {NoFile, U[h[1]].parts[p]}
            BY <3>1 DEF Shrunk
        <3>3. h[2] # NoFile /\ \A p \in Parts : V[h[1]].parts[p] \in {NoFile, h[2]}
            BY <2>1, <2>3, <3>2 DEF Stands
        <3>4. V[h[1]].state = "open" =>
                  \A p \in Parts : h[3][p] # NoFile => V[h[1]].parts[p] # NoFile
            BY <2>1, <2>3, <3>2 DEF Stands
        <3> QED
            BY <2>1, <2>3, <3>3, <3>4 DEF Stands
    <2> QED
        BY <2>2, <2>3
<1>2. ASSUME NEW h \in Blank
      PROVE  Stands(h, V) /\ h[1] = 0
    <2>1. PICK f \in Content : h = <<0, f, Empty>>
        BY DEF Blank
    <2>2. Empty \in [Parts -> Content] /\ \A p \in Parts : Empty[p] = NoFile
        BY DEF Empty, Content
    <2>3. 0 \in 0 .. Len(V)
        BY DEF Shrunk
    <2> QED
        BY <2>1, <2>2, <2>3 DEF Stands
<1>3. \A h, k \in H \cup Blank : Agree(h, k)
    BY <1>2 DEF Sessions, Agree
<1> QED
    BY <1>1, <1>2, <1>3 DEF Sessions
\* One run becomes x.
LEMMA RunReplaced ==
    ASSUME NEW R \in Seq(RunType), NEW r \in 1 .. Len(R), NEW x \in RunType
    PROVE  LET Q == [R EXCEPT ![r] = x]
           IN  /\ Q \in Seq(RunType) /\ Len(Q) = Len(R)
               /\ \A q \in 1 .. Len(R) : Q[q] = IF q = r THEN x ELSE R[q]
               /\ \A T : /\ (x.pc \in T => R[r].pc \in T) => AtPc(Q, T) \subseteq AtPc(R, T)
                         /\ x.pc \notin T => AtPc(Q, T) \subseteq AtPc(R, T) \ {r}
<1> DEFINE Q == [R EXCEPT ![r] = x]
<1>1. Q \in Seq(RunType) /\ Len(Q) = Len(R)
    BY ExceptSeq
<1>2. \A q \in 1 .. Len(R) : Q[q] = IF q = r THEN x ELSE R[q]
    BY ExceptSeq
<1> HIDE DEF Q
<1>3. ASSUME NEW T
      PROVE  /\ (x.pc \in T => R[r].pc \in T) => AtPc(Q, T) \subseteq AtPc(R, T)
             /\ x.pc \notin T => AtPc(Q, T) \subseteq AtPc(R, T) \ {r}
    BY <1>1, <1>2 DEF AtPc
<1> QED
    BY <1>1, <1>2, <1>3 DEF Q

LEMMA AtPcFinite ==
    ASSUME NEW R \in Seq(RunType), NEW T
    PROVE  /\ AtPc(R, T) \in SUBSET (1 .. Len(R)) /\ IsFiniteSet(AtPc(R, T))
           /\ Cardinality(AtPc(R, T)) \in Nat
<1>1. AtPc(R, T) \in SUBSET (1 .. Len(R)) /\ IsFiniteSet(1 .. Len(R))
    BY FS_Interval DEF AtPc
<1> QED
    BY <1>1, FS_Subset, FS_CardinalityType

LEMMA FewerAtPc ==
    ASSUME NEW R \in Seq(RunType), NEW r \in 1 .. Len(R), NEW x \in RunType, NEW T
    PROVE  LET Q == [R EXCEPT ![r] = x]
           IN  /\ (x.pc \in T => R[r].pc \in T) => Cardinality(AtPc(Q, T)) <= Cardinality(AtPc(R, T))
               /\ x.pc \notin T /\ R[r].pc \in T =>
                      Cardinality(AtPc(Q, T)) + 1 <= Cardinality(AtPc(R, T))
<1> DEFINE Q == [R EXCEPT ![r] = x]
           O == AtPc(R, T)
           N == AtPc(Q, T)
<1>1. /\ (x.pc \in T => R[r].pc \in T) => N \subseteq O
      /\ x.pc \notin T => N \subseteq O \ {r}
      /\ Q \in Seq(RunType)
    BY RunReplaced
<1>2. IsFiniteSet(O) /\ Cardinality(O) \in Nat
    BY AtPcFinite
<1>3. R[r].pc \in T => r \in O
    BY DEF AtPc
<1>4. Cardinality(N) \in Nat
    BY <1>1, AtPcFinite
<1> HIDE DEF O, N
<1>5. ASSUME x.pc \in T => R[r].pc \in T
      PROVE  Cardinality(N) <= Cardinality(O)
    BY <1>1, <1>2, <1>5, FS_Subset
<1>6. ASSUME x.pc \notin T, R[r].pc \in T
      PROVE  Cardinality(N) + 1 <= Cardinality(O)
    <2>1. IsFiniteSet(O \ {r}) /\ Cardinality(O \ {r}) = Cardinality(O) - 1
        BY <1>2, <1>3, <1>6, FS_RemoveElement
    <2>2. Cardinality(N) <= Cardinality(O \ {r})
        BY <1>1, <1>6, <2>1, FS_Subset
    <2> QED
        BY <1>2, <1>4, <2>1, <2>2
<1> QED
    BY <1>5, <1>6 DEF O, N

LEMMA Lengths ==
    ASSUME UploadAssumption, UploadInv
    PROVE  /\ Len(run) \in Nat /\ Len(asset) \in Nat /\ Len(upload) \in Nat
           /\ Len(run) <= MaxRuns /\ Len(asset) <= MaxRuns /\ Len(upload) <= MaxRuns
           /\ \A r \in 1 .. Len(run) :
                  /\ run[r].pc = "create" => Len(asset) < MaxRuns
                  /\ run[r].pc \in {"create", "open"} => Len(upload) < MaxRuns
<1>1. /\ run \in Seq(RunType) /\ asset \in Seq(AssetType) /\ upload \in Seq(MultipartType)
      /\ Len(run) <= MaxRuns
    BY DEF UploadInv, Runs, Objects
<1>2. Len(run) \in Nat /\ Len(asset) \in Nat /\ Len(upload) \in Nat /\ MaxRuns \in Nat
    BY <1>1, Numbers
<1> DEFINE C == AtPc(run, {"create"})
           O == AtPc(run, {"create", "open"})
<1>3. /\ IsFiniteSet(C) /\ Cardinality(C) \in Nat
      /\ IsFiniteSet(O) /\ Cardinality(O) \in Nat
    BY <1>1, AtPcFinite
<1>4. \A r \in 1 .. Len(run) : /\ run[r].pc = "create" => C # {}
                               /\ run[r].pc \in {"create", "open"} => O # {}
    BY DEF AtPc
<1>5. Len(asset) + Cardinality(C) <= Len(run) /\ Len(upload) + Cardinality(O) <= Len(run)
    BY DEF UploadInv, OnceEach
<1> HIDE DEF C, O
<1>6. (C # {} => Cardinality(C) # 0) /\ (O # {} => Cardinality(O) # 0)
    BY <1>3, FS_EmptySet
<1> QED
    BY <1>1, <1>2, <1>3, <1>4, <1>5, <1>6

LEMMA RunsMove ==
    ASSUME UploadAssumption, UploadInv, NEW r \in 1 .. Len(run), NEW x \in RunType,
           run' = [run EXCEPT ![r] = x], Fit(x, asset', upload'),
           x.pc = "create" => run[r].pc = "create",
           x.pc = "open" => run[r].pc \in {"create", "open"},
           asset' \in Seq(AssetType), Later(asset, asset'),
           \/ Len(asset') = Len(asset)
           \/ Len(asset') = Len(asset) + 1 /\ run[r].pc = "create" /\ x.pc # "create",
           upload' \in Seq(MultipartType), After(upload, upload'),
           \/ Len(upload') = Len(upload)
           \/ Len(upload') = Len(upload) + 1 /\ run[r].pc = "open" /\ x.pc \notin {"create", "open"}
    PROVE  /\ Runs(run', asset', upload') /\ OnceEach(run', asset', upload')
           /\ Len(run') = Len(run)
           /\ \A S : Held(run', S) \subseteq Held(run, S) \cup {Holds(x)}
           /\ \A phase : x.pc # "over" => Busy(phase, run')
           /\ \A phase : Busy(phase, run) /\ (x.pc = "over" => run[r].pc = "over") => Busy(phase, run')
<1>1. /\ run \in Seq(RunType) /\ asset \in Seq(AssetType) /\ upload \in Seq(MultipartType)
      /\ Len(run) \in Nat /\ Len(asset) \in Nat /\ Len(upload) \in Nat
    BY Lengths DEF UploadInv, Runs, Objects
<1>2. /\ run' \in Seq(RunType) /\ Len(run') = Len(run)
      /\ \A q \in 1 .. Len(run) : run'[q] = IF q = r THEN x ELSE run[q]
    BY <1>1, ExceptSeq
<1>3. Runs(run', asset', upload')
    <2>1. ASSUME NEW q \in 1 .. Len(run), q # r
          PROVE  Fit(run[q], asset', upload')
        <3>1. run[q] \in RunType /\ Fit(run[q], asset, upload)
            BY <1>1 DEF UploadInv, Runs
        <3>2. Stands(Holds(run[q]), upload)
            BY DEF UploadInv, Sessions, Held
        <3>3. run[q].id <= Len(upload)
            BY <1>1, <3>2 DEF Stands, Holds
        <3>4. Len(asset') \in Nat
            BY <1>1
        <3> QED
            BY <1>1, <3>1, <3>3, <3>4, FitLater
    <2>2. Len(run') <= MaxRuns
        BY <1>2 DEF UploadInv, Runs
    <2> QED
        BY <1>2, <2>1, <2>2 DEF Runs
<1>4. OnceEach(run', asset', upload')
    <2> DEFINE C(R) == Cardinality(AtPc(R, {"create"}))
               O(R) == Cardinality(AtPc(R, {"create", "open"}))
    <2>1. /\ C(run') <= C(run) /\ O(run') <= O(run)
          /\ run[r].pc = "create" /\ x.pc # "create" => C(run') + 1 <= C(run)
          /\ run[r].pc = "open" /\ x.pc \notin {"create", "open"} => O(run') + 1 <= O(run)
        BY <1>1, FewerAtPc
    <2>2. C(run) \in Nat /\ O(run) \in Nat /\ C(run') \in Nat /\ O(run') \in Nat
        BY <1>1, <1>2, AtPcFinite
    <2>3. Len(asset) + C(run) <= Len(run) /\ Len(upload) + O(run) <= Len(run)
        BY DEF UploadInv, OnceEach
    <2> HIDE DEF C, O
    <2>4. Len(upload') + O(run') <= Len(run')
        <3>1. CASE Len(upload') = Len(upload)
            BY <1>1, <1>2, <2>1, <2>2, <2>3, <3>1
        <3>2. CASE Len(upload') = Len(upload) + 1 /\ run[r].pc = "open" /\ x.pc \notin {"create", "open"}
            <4>1. O(run') + 1 <= O(run)
                BY <2>1, <3>2
            <4>2. Len(upload') = Len(upload) + 1 /\ Len(run') = Len(run)
                BY <1>2, <3>2
            <4>3. /\ O(run) \in Nat /\ O(run') \in Nat /\ Len(run) \in Nat /\ Len(upload) \in Nat
                  /\ Len(upload) + O(run) <= Len(run)
                BY <1>1, <2>2, <2>3
            <4> QED
                BY <4>1, <4>2, <4>3
        <3> QED
            BY <3>1, <3>2
    <2>5. Len(asset') + C(run') <= Len(run')
        <3>1. CASE Len(asset') = Len(asset)
            BY <1>1, <1>2, <2>1, <2>2, <2>3, <3>1
        <3>2. CASE Len(asset') = Len(asset) + 1 /\ run[r].pc = "create" /\ x.pc # "create"
            <4>1. C(run') + 1 <= C(run)
                BY <2>1, <3>2
            <4>2. Len(asset') = Len(asset) + 1 /\ Len(run') = Len(run)
                BY <1>2, <3>2
            <4>3. /\ C(run) \in Nat /\ C(run') \in Nat /\ Len(run) \in Nat /\ Len(asset) \in Nat
                  /\ Len(asset) + C(run) <= Len(run)
                BY <1>1, <2>2, <2>3
            <4> QED
                BY <4>1, <4>2, <4>3
        <3> QED
            BY <3>1, <3>2
    <2> QED
        BY <2>4, <2>5 DEF OnceEach, C, O
<1>5. \A S : Held(run', S) \subseteq Held(run, S) \cup {Holds(x)}
    BY <1>2 DEF Held
<1>6. \A phase : x.pc # "over" => Busy(phase, run')
    BY <1>2 DEF Busy
<1>7. \A phase : Busy(phase, run) /\ (x.pc = "over" => run[r].pc = "over") => Busy(phase, run')
    BY <1>2 DEF Busy
<1> QED
    BY <1>2, <1>3, <1>4, <1>5, <1>6, <1>7

(* What a run may hold next: what somebody holds already, or nothing.       *)
Known(h) == h \in Held(run, saved) \/ h \in Blank

LEMMA RunMoves ==
    ASSUME UploadAssumption, UploadInv, NEW r \in 1 .. Len(run), NEW x \in RunType,
           run' = [run EXCEPT ![r] = x], Fit(x, asset', upload'), Known(Holds(x)),
           x.pc = "create" => run[r].pc = "create",
           x.pc = "open" => run[r].pc \in {"create", "open"},
           asset' \in Seq(AssetType), Later(asset, asset'),
           \/ Len(asset') = Len(asset)
           \/ Len(asset') = Len(asset) + 1 /\ run[r].pc = "create" /\ x.pc # "create",
           upload' \in Seq(MultipartType), Shrunk(upload, upload'),
           \A a \in RunIds : Known(Keeps(saved'[a]))
    PROVE  /\ Runs(run', asset', upload') /\ OnceEach(run', asset', upload')
           /\ Sessions(Held(run', saved'), upload') /\ Len(run') = Len(run)
           /\ \A phase : x.pc # "over" => Busy(phase, run')
           /\ \A phase : Busy(phase, run) /\ (x.pc = "over" => run[r].pc = "over") => Busy(phase, run')
<1>1. Len(upload) \in Nat /\ After(upload, upload') /\ Len(upload') = Len(upload)
    BY Lengths, ShrunkIsAfter DEF Shrunk
<1>2. /\ Runs(run', asset', upload') /\ OnceEach(run', asset', upload')
      /\ Len(run') = Len(run)
      /\ \A S : Held(run', S) \subseteq Held(run, S) \cup {Holds(x)}
      /\ \A phase : x.pc # "over" => Busy(phase, run')
      /\ \A phase : Busy(phase, run) /\ (x.pc = "over" => run[r].pc = "over") => Busy(phase, run')
    BY <1>1, RunsMove
<1>3. Sessions(Held(run', saved'), upload')
    <2>1. Held(run, saved') \subseteq Held(run, saved) \cup Blank
        BY DEF Held, Known
    <2>2. Held(run', saved') \subseteq Held(run, saved) \cup Blank
        BY <1>2, <2>1 DEF Known
    <2>3. Sessions(Held(run, saved), upload)
        BY DEF UploadInv
    <2> QED
        BY <1>1, <2>2, <2>3, SessionsShrink
<1> QED
    BY <1>2, <1>3

LEMMA AtRun ==
    ASSUME UploadAssumption, UploadInv, NEW r \in 1 .. Len(run)
    PROVE  /\ run[r] \in RunType /\ Fit(run[r], asset, upload) /\ Known(Holds(run[r]))
           /\ run[r].id \in 0 .. Len(upload) /\ run[r].asset \in 0 .. Len(asset)
           /\ \A a \in RunIds : Known(Keeps(saved[a]))
<1>1. run[r] \in RunType /\ Fit(run[r], asset, upload)
    BY DEF UploadInv, Runs
<1>2. Known(Holds(run[r])) /\ \A a \in RunIds : Known(Keeps(saved[a]))
    BY DEF Known, Held
<1>3. Stands(Holds(run[r]), upload)
    BY DEF UploadInv, Sessions, Held
<1>4. run[r].id \in 0 .. Len(upload)
    BY <1>3 DEF Stands, Holds
<1>5. run[r].asset \in Nat /\ run[r].asset <= Len(asset) /\ Len(asset) \in Nat
    BY <1>1, RunFields, Lengths DEF Fit, Placed
<1> QED
    BY <1>1, <1>2, <1>4, <1>5

LEMMA ShowIs ==
    ASSUME page \in PageType, NEW phase \in Phases
    PROVE  /\ Show(phase) \in PageType /\ Show(phase).phase \in {phase, "gone"}
           /\ Show(phase).asset = page.asset /\ Show(phase).abort = page.abort
BY DEF Show, PageType

LEMMA CaughtIs ==
    ASSUME page \in PageType, NEW how
    PROVE  /\ Caught(how) \in PageType /\ Caught(how).phase \notin Working
           /\ Caught(how).asset = page.asset /\ Caught(how).abort = 0
<1> DEFINE p == Show(IF how = "abort" THEN "idle" ELSE "error")
<1>1. p \in PageType /\ p.phase \in {"idle", "error", "gone"} /\ p.asset = page.asset
    <2>1. (IF how = "abort" THEN "idle" ELSE "error") \in {"idle", "error"} /\ {"idle", "error"} \subseteq Phases
        BY DEF Phases
    <2> QED
        BY <2>1, ShowIs
<1>2. Caught(how) = [p EXCEPT !.abort = 0]
    BY DEF Caught
<1> HIDE DEF p
<1> QED
    BY <1>1, <1>2 DEF PageType, Working

LEMMA Unchanging ==
    /\ \A A : (\A a \in 1 .. Len(A) : A[a].object # Empty => A[a].object # Empty)
    /\ Len(asset) \in Nat => Later(asset, asset)
    /\ Len(upload) \in Nat => Shrunk(upload, upload)
BY DEF Later, Shrunk

LEMMA ThrowKeeps ==
    ASSUME UploadAssumption, UploadInv, NEW r \in 1 .. Len(run), NEW how, Throw(r, how),
           UNCHANGED <<saved, upload, aborting, asset, picks>>,
           faults' \in 0 .. MaxFaults, early' \in BOOLEAN
    PROVE  UploadInv'
<1> DEFINE x == Over(run[r])
<1>1. /\ run[r] \in RunType /\ Fit(run[r], asset, upload) /\ Known(Holds(run[r]))
      /\ \A a \in RunIds : Known(Keeps(saved[a]))
    BY AtRun
<1>2. /\ x \in RunType /\ x.pc = "over" /\ Fit(x, asset, upload)
      /\ Holds(x) \in {Holds(run[r]), <<0, run[r].file, Empty>>}
    BY <1>1, OverFits
<1>3. Known(Holds(x))
    BY <1>1, <1>2, RunFields DEF Known, Blank
<1>4. run' = [run EXCEPT ![r] = x] /\ page' = Caught(how)
    BY DEF Throw
<1> HIDE DEF x
<1>5. Later(asset, asset') /\ Shrunk(upload, upload')
      /\ asset' \in Seq(AssetType) /\ upload' \in Seq(MultipartType)
    BY Lengths, Unchanging DEF UploadInv, Objects
<1>6. /\ Runs(run', asset', upload') /\ OnceEach(run', asset', upload')
      /\ Sessions(Held(run', saved'), upload') /\ Len(run') = Len(run)
    BY <1>1, <1>2, <1>3, <1>4, <1>5, RunMoves
<1>7. Viewed(page', run', asset')
    <2>1. page \in PageType /\ page.asset <= Len(asset)
        BY DEF UploadInv, Viewed
    <2>2. Caught(how) \in PageType /\ Caught(how).phase \notin Working
          /\ Caught(how).asset = page.asset /\ Caught(how).abort = 0
        BY <2>1, CaughtIs
    <2> QED
        BY <1>4, <1>6, <2>1, <2>2, Lengths DEF Viewed, Busy
<1> QED
    BY <1>6, <1>7 DEF UploadInv

-----------------------------------------------------------------------------
(* A run fails, or ends well.                                               *)

Fails(r) ==
    \/ CallFails(r) \/ SendAborted(r) \/ CompleteRefused(r) \/ ProcessRefused(r) \/ AnswerLost(r)
    \/ Joined(r) /\ Throw(r, "error")

LEMMA FailsKeep ==
    ASSUME UploadAssumption, UploadInv, NEW r \in 1 .. Len(run), Fails(r)
    PROVE  UploadInv'
<1>1. faults \in 0 .. MaxFaults /\ MaxFaults \in Nat /\ early \in BOOLEAN
    BY Numbers DEF UploadInv
<1>2. \/ faults' = faults
      \/ faults < MaxFaults /\ faults' = faults + 1
    BY DEF Fails, CallFails, SendAborted, CompleteRefused, ProcessRefused, AnswerLost, Joined, Fault
<1>3. faults' \in 0 .. MaxFaults
    BY <1>1, <1>2
<1>4. UNCHANGED <<saved, upload, aborting, asset, picks, early>>
    BY DEF Fails, CallFails, SendAborted, CompleteRefused, ProcessRefused, AnswerLost, Joined
<1>5. \E how \in {"error", "abort"} : Throw(r, how)
    BY DEF Fails, CallFails, SendAborted, CompleteRefused, ProcessRefused, AnswerLost
<1> QED
    BY <1>1, <1>3, <1>4, <1>5, ThrowKeeps

LEMMA ProcessAnsweredKeeps ==
    ASSUME UploadAssumption, UploadInv, NEW r \in 1 .. Len(run), ProcessAnswered(r)
    PROVE  UploadInv'
<1> DEFINE x == Over(run[r])
<1>1. /\ run[r] \in RunType /\ Fit(run[r], asset, upload) /\ Known(Holds(run[r]))
      /\ \A a \in RunIds : Known(Keeps(saved[a]))
    BY AtRun
<1>2. /\ x \in RunType /\ x.pc = "over" /\ Fit(x, asset, upload)
      /\ Holds(x) \in {Holds(run[r]), <<0, run[r].file, Empty>>}
    BY <1>1, OverFits
<1>3. Known(Holds(x))
    BY <1>1, <1>2, RunFields DEF Known, Blank
<1>4. /\ run' = [run EXCEPT ![r] = x] /\ page' = [Show("done") EXCEPT !.abort = 0]
      /\ UNCHANGED <<saved, upload, aborting, asset, faults, picks, early>>
    BY DEF ProcessAnswered
<1> HIDE DEF x
<1>5. Later(asset, asset') /\ Shrunk(upload, upload')
      /\ asset' \in Seq(AssetType) /\ upload' \in Seq(MultipartType)
    BY <1>4, Lengths, Unchanging DEF UploadInv, Objects
<1>6. /\ Runs(run', asset', upload') /\ OnceEach(run', asset', upload')
      /\ Sessions(Held(run', saved'), upload') /\ Len(run') = Len(run)
    BY <1>1, <1>2, <1>3, <1>4, <1>5, RunMoves
<1>7. Viewed(page', run', asset')
    <2>1. page \in PageType /\ page.asset <= Len(asset) /\ "done" \in Phases
        BY DEF UploadInv, Viewed, Phases
    <2> DEFINE s == Show("done")
    <2>2. s \in PageType /\ s.phase \in {"done", "gone"} /\ s.asset = page.asset
        BY <2>1, ShowIs
    <2>3. page' = [s EXCEPT !.abort = 0]
        BY <1>4
    <2> HIDE DEF s
    <2>4. page' \in PageType /\ page'.phase = s.phase /\ page'.asset = s.asset /\ page'.abort = 0
        BY <2>2, <2>3 DEF PageType
    <2> QED
        BY <1>4, <1>6, <2>1, <2>2, <2>4, Lengths DEF Viewed, Busy, Working
<1> QED
    BY <1>4, <1>6, <1>7 DEF UploadInv

-----------------------------------------------------------------------------
(* A run goes on to its next call.                                          *)

AllPcs == Calls \cup {"parts", "assembled", "queued", "over"}

\* A run whose workers rest.
LEMMA NextCall ==
    ASSUME UploadAssumption, NEW rr \in RunType, NEW A, NEW B, NEW U, NEW V,
           Fit(rr, A, U),
           NEW to \in AllPcs, Placed([rr EXCEPT !.pc = to], B), \A w \in Pool : rr.pool[w].pc \in Rested
    PROVE  /\ [rr EXCEPT !.pc = to] \in RunType /\ Fit([rr EXCEPT !.pc = to], B, V)
           /\ [rr EXCEPT !.pc = to].pc = to /\ Holds([rr EXCEPT !.pc = to]) = Holds(rr)
<1> DEFINE nn == [rr EXCEPT !.pc = to]
<1>1. nn \in RunType
    BY RunChanges DEF AllPcs
<1>2. /\ nn.pc = to /\ nn.file = rr.file /\ nn.id = rr.id /\ nn.etags = rr.etags
      /\ nn.pool = rr.pool /\ nn.queue = rr.queue
    BY DEF RunType
<1> HIDE DEF nn
<1>3. Staffed(nn)
    <2>1. \A w \in Pool : rr.pool[w].pc \notin Staff /\ rr.pool[w].pc # "wait"
        BY DEF Staff, Rested
    <2> QED
        BY <1>2, <2>1 DEF Fit, Staffed
<1>4. Arrived(nn, V)
    BY <1>2 DEF Arrived, Rested
<1> QED
    BY <1>1, <1>2, <1>3, <1>4 DEF Fit, Holds, nn

LEMMA GoesOn ==
    ASSUME UploadAssumption, UploadInv, NEW r \in 1 .. Len(run),
           NEW to \in AllPcs \ {"over", "create", "open"},
           run' = [run EXCEPT ![r].pc = to], \A w \in Pool : run[r].pool[w].pc \in Rested,
           Placed([run[r] EXCEPT !.pc = to], asset'),
           Objects(asset'), Later(asset, asset'), Len(asset') = Len(asset),
           upload' \in Seq(MultipartType), Shrunk(upload, upload'),
           saved' \in [RunIds -> SessionType], \A a \in RunIds : Known(Keeps(saved'[a])),
           page' = page \/ page' = Show("processing"),
           UNCHANGED <<aborting, faults, picks, early>>
    PROVE  UploadInv'
<1> DEFINE x == [run[r] EXCEPT !.pc = to]
<1>1. run[r] \in RunType /\ Fit(run[r], asset, upload) /\ Known(Holds(run[r]))
    BY AtRun
<1>2. x \in RunType /\ Fit(x, asset', upload') /\ x.pc = to /\ Holds(x) = Holds(run[r])
    BY <1>1, NextCall
<1>3. run' = [run EXCEPT ![r] = x]
    OBVIOUS
<1> HIDE DEF x
<1>4. asset' \in Seq(AssetType)
    BY DEF Objects
<1>5. /\ Runs(run', asset', upload') /\ OnceEach(run', asset', upload')
      /\ Sessions(Held(run', saved'), upload') /\ Len(run') = Len(run)
      /\ \A phase : x.pc # "over" => Busy(phase, run')
    BY <1>1, <1>2, <1>3, <1>4, RunMoves
<1>6. Viewed(page', run', asset')
    <2>1. page \in PageType /\ page.asset <= Len(asset) /\ page.abort <= Len(run)
          /\ "processing" \in Phases
        BY DEF UploadInv, Viewed, Phases
    <2>2. page' \in PageType /\ page'.asset = page.asset /\ page'.abort = page.abort
        BY <2>1, ShowIs
    <2>3. Busy(page'.phase, run')
        BY <1>2, <1>5
    <2> QED
        BY <1>5, <2>1, <2>2, <2>3 DEF Viewed
<1>7. aborting' \subseteq 1 .. Len(upload')
    BY DEF UploadInv, Shrunk
<1> QED
    BY <1>5, <1>6, <1>7 DEF UploadInv

\* An asset's row or object is written.
LEMMA AssetWritten ==
    ASSUME UploadAssumption, Objects(asset), NEW a \in 1 .. Len(asset), NEW y \in AssetType,
           Sound(y), asset[a].object # Empty => y.object # Empty,
           asset' = [asset EXCEPT ![a] = y]
    PROVE  /\ Objects(asset') /\ Len(asset') = Len(asset) /\ Later(asset, asset')
           /\ \A b \in 1 .. Len(asset) : asset'[b] = IF b = a THEN y ELSE asset[b]
<1>1. asset \in Seq(AssetType) /\ Len(asset) \in Nat
    BY DEF Objects
<1>2. /\ asset' \in Seq(AssetType) /\ Len(asset') = Len(asset)
      /\ \A b \in 1 .. Len(asset) : asset'[b] = IF b = a THEN y ELSE asset[b]
    BY <1>1, ExceptSeq
<1>3. Objects(asset')
    BY <1>2 DEF Objects
<1>4. Later(asset, asset')
    BY <1>1, <1>2 DEF Later
<1> QED
    BY <1>2, <1>3, <1>4

\* A run that is neither sending parts nor over has nobody at work.
LEMMA Resting ==
    ASSUME UploadAssumption, NEW rr \in RunType, NEW A, NEW U, Fit(rr, A, U),
           rr.pc \notin {"parts", "over"}
    PROVE  \A w \in Pool : rr.pool[w].pc \in Rested
<1>1. \A w \in Pool : rr.pool[w].pc \in Rested \/ rr.pool[w].pc \in Staff
    BY RunFields DEF WorkerType, Rested, Staff
<1> QED
    BY <1>1 DEF Fit, Staffed

LEMMA PcSet ==
    ASSUME NEW rr \in RunType, NEW to
    PROVE  LET nn == [rr EXCEPT !.pc = to]
           IN  /\ nn.pc = to /\ nn.file = rr.file /\ nn.tab = rr.tab /\ nn.asset = rr.asset
               /\ nn.id = rr.id /\ nn.etags = rr.etags
BY DEF RunType

LEMMA WholeIs ==
    ASSUME UploadAssumption, NEW f \in Files
    PROVE  Whole(f) \in [Parts -> Content] /\ Whole(f) # Empty
<1>1. \E p \in Parts : Whole(f)[p] = f /\ Empty[p] = NoFile /\ f # NoFile
    BY Numbers DEF Whole, Empty
<1> QED
    BY <1>1 DEF Whole, Content

LEMMA CallsKeep ==
    ASSUME UploadAssumption, UploadInv, NEW r \in 1 .. Len(run),
           \/ Presigned(r) \/ Sent(r) \/ Confirmed(r) \/ Imported(r) \/ Queued(r)
           \/ CompleteAnswered(r)
           \/ Joined(r) /\ Goto(r, "parts", "complete") /\ UNCHANGED page
    PROVE  UploadInv'
<1>1. /\ run[r] \in RunType /\ Fit(run[r], asset, upload)
      /\ \A a \in RunIds : Known(Keeps(saved[a]))
      /\ run[r].asset \in 0 .. Len(asset) /\ run[r].file \in Content
    BY AtRun, RunFields
<1>2. /\ Objects(asset) /\ asset \in Seq(AssetType) /\ upload \in Seq(MultipartType)
      /\ Shrunk(upload, upload) /\ Later(asset, asset)
      /\ saved \in [RunIds -> SessionType]
    BY Lengths, Unchanging DEF UploadInv, Objects
<1> DEFINE rr == run[r]
           a == rr.asset
<1>3. ASSUME a # 0
      PROVE  a \in 1 .. Len(asset) /\ asset[a] \in AssetType /\ Sound(asset[a])
    <2>1. a \in 1 .. Len(asset)
        BY <1>1, <1>3, Lengths
    <2> QED
        BY <1>2, <2>1 DEF Objects
<1>4. rr.pc \notin {"parts", "over"} => \A w \in Pool : rr.pool[w].pc \in Rested
    BY <1>1, Resting
<1>5. Placed(rr, asset)
    BY <1>1 DEF Fit
<1>6. CASE Presigned(r)
    <2>1. rr.pc = "presign" /\ run' = [run EXCEPT ![r].pc = "send"]
          /\ UNCHANGED <<page, saved, upload, aborting, asset, faults, picks, early>>
        BY <1>6 DEF Presigned, Goto
    <2>2. Placed([rr EXCEPT !.pc = "send"], asset)
        BY <1>1, <1>5, <2>1, PcSet DEF Placed
    <2>3. "send" \in AllPcs \ {"over", "create", "open"}
        BY DEF AllPcs, Calls
    <2> QED
        BY <1>1, <1>2, <1>4, <2>1, <2>2, <2>3, GoesOn
<1>7. CASE Sent(r)
    <2>1. rr.pc = "send" /\ run' = [run EXCEPT ![r].pc = "confirm"]
          /\ asset' = [asset EXCEPT ![a].object = Whole(rr.file)]
          /\ UNCHANGED <<page, saved, upload, aborting, faults, picks, early>>
        BY <1>7 DEF Sent, Goto
    <2>2. a # 0 /\ rr.file \in Files
        BY <1>1, <1>5, <2>1 DEF Placed, Content
    <2> DEFINE y == [asset[a] EXCEPT !.object = Whole(rr.file)]
    <2>3. asset' = [asset EXCEPT ![a] = y]
        BY <2>1
    <2>4. Whole(rr.file) \in [Parts -> Content] /\ Whole(rr.file) # Empty
        BY <2>2, WholeIs
    <2>5. y \in AssetType /\ y.object = Whole(rr.file) /\ y.status = asset[a].status
        BY <1>3, <2>2, <2>4 DEF AssetType
    <2> HIDE DEF y
    <2>6. Sound(y) /\ y.object # Empty
        BY <2>2, <2>4, <2>5 DEF Sound
    <2>7. Objects(asset') /\ Len(asset') = Len(asset) /\ Later(asset, asset')
        BY <1>2, <1>3, <2>2, <2>3, <2>5, <2>6, AssetWritten
    <2>8. Placed([rr EXCEPT !.pc = "confirm"], asset')
        <3>1. a \in 1 .. Len(asset)
            BY <1>3, <2>2
        <3>2. asset'[a] = y
            BY <1>2, <2>3, <2>5, <3>1, ExceptSeq
        <3>3. asset'[rr.asset].object # Empty
            BY <2>6, <3>2
        <3> HIDE DEF a
        <3> DEFINE nn == [rr EXCEPT !.pc = "confirm"]
        <3>4. /\ nn.pc = "confirm" /\ nn.tab = rr.tab /\ nn.file = rr.file
              /\ nn.asset = rr.asset /\ nn.id = rr.id /\ nn.etags = rr.etags
            BY <1>1, PcSet
        <3> HIDE DEF nn
        <3>5. nn.asset <= Len(asset')
            BY <1>5, <2>7, <3>4 DEF Placed
        <3>6. asset'[nn.asset].object # Empty
            BY <3>3, <3>4
        <3>7. Placed(nn, asset')
            BY <1>5, <2>1, <3>4, <3>5, <3>6 DEF Placed
        <3> QED
            BY <3>7 DEF nn
    <2>9. "confirm" \in AllPcs \ {"over", "create", "open"}
        BY DEF AllPcs, Calls
    <2> QED
        BY <1>1, <1>2, <1>4, <2>1, <2>7, <2>8, <2>9, GoesOn
<1>8. CASE Confirmed(r) \/ Imported(r)
    <2>1. /\ rr.pc \in {"confirm", "import"} /\ run' = [run EXCEPT ![r].pc = "process"]
          /\ page' = Show("processing")
          /\ UNCHANGED <<saved, upload, aborting, faults, picks, early>>
        BY <1>8 DEF Confirmed, Imported, Goto
    <2>2. a # 0
        BY <1>5, <2>1 DEF Placed
    <2> DEFINE y == IF rr.pc = "confirm"
                    THEN [asset[a] EXCEPT !.status = IF @ = "created" THEN "uploaded" ELSE @]
                    ELSE [asset[a] EXCEPT !.status = "uploaded", !.url = TRUE]
    <2>3. asset' = [asset EXCEPT ![a] = y]
        BY <1>2, <1>3, <1>8, <2>2 DEF Confirmed, Imported, Goto, Promoted
    <2>4. /\ y \in AssetType /\ y.object = asset[a].object
          /\ y.url \/ (y.url = asset[a].url /\ rr.pc = "confirm")
        BY <1>3, <2>1, <2>2 DEF AssetType
    <2>5. rr.pc = "confirm" => asset[a].object # Empty
        BY <1>5 DEF Placed
    <2> HIDE DEF y
    <2>6. Sound(y)
        BY <1>3, <2>2, <2>4, <2>5 DEF Sound
    <2>7. Objects(asset') /\ Len(asset') = Len(asset) /\ Later(asset, asset')
        BY <1>2, <1>3, <2>2, <2>3, <2>4, <2>6, AssetWritten
    <2>8. Placed([rr EXCEPT !.pc = "process"], asset')
        BY <1>1, <1>5, <2>1, <2>7, PcSet DEF Placed
    <2>9. "process" \in AllPcs \ {"over", "create", "open"}
        BY DEF AllPcs, Calls
    <2> QED
        BY <1>1, <1>2, <1>4, <2>1, <2>7, <2>8, <2>9, GoesOn
<1>9. CASE Queued(r)
    <2>1. /\ rr.pc = "process" /\ run' = [run EXCEPT ![r].pc = "queued"]
          /\ asset[a].status = "uploaded" /\ asset' = [asset EXCEPT ![a].status = "queued"]
          /\ UNCHANGED <<page, saved, upload, aborting, faults, picks, early>>
        BY <1>9 DEF Queued
    <2>2. a # 0
        BY <1>5, <2>1 DEF Placed
    <2> DEFINE y == [asset[a] EXCEPT !.status = "queued"]
    <2>3. asset' = [asset EXCEPT ![a] = y]
        BY <2>1
    <2>4. y \in AssetType /\ y.object = asset[a].object /\ y.url = asset[a].url
        BY <1>3, <2>2 DEF AssetType
    <2> HIDE DEF y
    <2>5. Sound(y)
        BY <1>3, <2>1, <2>2, <2>4 DEF Sound
    <2>6. Objects(asset') /\ Len(asset') = Len(asset) /\ Later(asset, asset')
        BY <1>2, <1>3, <2>2, <2>3, <2>4, <2>5, AssetWritten
    <2>7. Placed([rr EXCEPT !.pc = "queued"], asset')
        BY <1>1, <1>5, <2>1, <2>6, PcSet DEF Placed
    <2>8. "queued" \in AllPcs \ {"over", "create", "open"}
        BY DEF AllPcs, Calls
    <2> QED
        BY <1>1, <1>2, <1>4, <2>1, <2>6, <2>7, <2>8, GoesOn
<1>10. CASE CompleteAnswered(r)
    <2>1. /\ rr.pc = "assembled" /\ run' = [run EXCEPT ![r].pc = "process"]
          /\ saved' = [saved EXCEPT ![a] = NoSession] /\ page' = Show("processing")
          /\ UNCHANGED <<upload, aborting, asset, faults, picks, early>>
        BY <1>10 DEF CompleteAnswered, Goto
    <2>2. NoSession \in SessionType /\ Known(Keeps(NoSession))
        BY DEF NoSession, SessionType, Keeps, Content, Empty, Known, Blank
    <2>3. saved' \in [RunIds -> SessionType] /\ \A b \in RunIds : Known(Keeps(saved'[b]))
        BY <1>1, <1>2, <2>1, <2>2
    <2>4. Placed([rr EXCEPT !.pc = "process"], asset)
        BY <1>1, <1>5, <2>1, PcSet DEF Placed
    <2>5. "process" \in AllPcs \ {"over", "create", "open"}
        BY DEF AllPcs, Calls
    <2> QED
        BY <1>1, <1>2, <1>4, <2>1, <2>3, <2>4, <2>5, GoesOn
<1>11. CASE Joined(r) /\ Goto(r, "parts", "complete") /\ UNCHANGED page
    <2>1. /\ rr.pc = "parts" /\ run' = [run EXCEPT ![r].pc = "complete"]
          /\ \A w \in Pool : rr.pool[w].pc \in Rested
          /\ UNCHANGED <<page, saved, upload, aborting, asset, faults, picks, early>>
        BY <1>11 DEF Joined, Goto, Worker, Rested
    <2>2. \A p \in Parts : rr.etags[p] # NoFile
        <3>1. Throw(r, "error") => run'[r].pc = "over"
            BY <1>1, <1>2, OverFits DEF Throw, UploadInv, Runs
        <3>2. run'[r].pc = "complete"
            BY <1>1, <2>1, PcSet DEF UploadInv, Runs
        <3> QED
            BY <1>11, <3>1, <3>2 DEF Joined
    <2>3. Placed([rr EXCEPT !.pc = "complete"], asset)
        BY <1>1, <1>5, <2>1, <2>2, PcSet DEF Placed
    <2>4. "complete" \in AllPcs \ {"over", "create", "open"}
        BY DEF AllPcs, Calls
    <2> QED
        BY <1>1, <1>2, <2>1, <2>3, <2>4, GoesOn
<1> QED
    BY <1>6, <1>7, <1>8, <1>9, <1>10, <1>11

LEMMA AssembledKeeps ==
    ASSUME UploadAssumption, UploadInv, NEW r \in 1 .. Len(run), Assembled(r)
    PROVE  UploadInv'
<1> DEFINE rr == run[r]
           a == rr.asset
           id == rr.id
<1>1. /\ rr \in RunType /\ Fit(rr, asset, upload) /\ rr.etags \in [Parts -> Content]
      /\ \A b \in RunIds : Known(Keeps(saved[b]))
      /\ a \in 0 .. Len(asset) /\ id \in 0 .. Len(upload)
    BY AtRun, RunFields
<1>2. /\ Objects(asset) /\ asset \in Seq(AssetType) /\ upload \in Seq(MultipartType)
      /\ saved \in [RunIds -> SessionType] /\ Len(asset) \in Nat /\ Len(upload) \in Nat
    BY Lengths DEF UploadInv, Objects
<1>3. /\ rr.pc = "complete" /\ upload[id].state = "open" /\ upload[id].parts = rr.etags
      /\ upload' = [upload EXCEPT ![id].state = "done"]
      /\ asset' = [Promoted(a) EXCEPT ![a].object = upload[id].parts]
      /\ run' = [run EXCEPT ![r].pc = "assembled"]
      /\ UNCHANGED <<page, saved, aborting, faults, picks, early>>
    BY DEF Assembled
<1>4. a \in 1 .. Len(asset) /\ id \in 1 .. Len(upload) /\ \A p \in Parts : rr.etags[p] # NoFile
    BY <1>1, <1>2, <1>3 DEF Fit, Placed
<1>5. rr.etags = Whole(rr.file) /\ rr.file \in Files
    <2>1. Stands(Holds(rr), upload)
        BY DEF UploadInv, Sessions, Held
    <2>2. \A p \in Parts : rr.etags[p] \in {NoFile, rr.file}
        BY <2>1 DEF Stands, Holds
    <2>3. \A p \in Parts : rr.etags[p] = rr.file
        BY <1>4, <2>2
    <2>4. rr.etags = Whole(rr.file)
        BY <1>1, <2>3 DEF Whole
    <2>5. rr.file # NoFile /\ rr.file \in Content
        BY <1>4, <2>1 DEF Stands, Holds
    <2> QED
        BY <2>4, <2>5 DEF Content
<1>6. Whole(rr.file) \in [Parts -> Content] /\ Whole(rr.file) # Empty
    BY <1>5, WholeIs
<1>7. asset[a] \in AssetType /\ Sound(asset[a]) /\ upload[id] \in MultipartType
    BY <1>2, <1>4 DEF Objects
<1> DEFINE s == IF asset[a].status = "created" THEN "uploaded" ELSE asset[a].status
           y == [asset[a] EXCEPT !.status = s, !.object = Whole(rr.file)]
           m == [upload[id] EXCEPT !.state = "done"]
<1>8. asset' = [asset EXCEPT ![a] = y]
    BY <1>2, <1>3, <1>4, <1>5 DEF Promoted
<1>9. y \in AssetType /\ y.object = Whole(rr.file)
    BY <1>6, <1>7 DEF AssetType
<1> HIDE DEF y
<1>10. Sound(y) /\ y.object # Empty
    BY <1>5, <1>6, <1>9 DEF Sound
<1>11. Objects(asset') /\ Len(asset') = Len(asset) /\ Later(asset, asset')
    BY <1>2, <1>4, <1>8, <1>9, <1>10, AssetWritten
<1>12. m \in MultipartType /\ m.state = "done" /\ m.parts = upload[id].parts
    BY <1>7 DEF MultipartType
<1>13. upload' = [upload EXCEPT ![id] = m]
    BY <1>3
<1> HIDE DEF m
<1>14. /\ upload' \in Seq(MultipartType) /\ Len(upload') = Len(upload)
       /\ \A u \in 1 .. Len(upload) : upload'[u] = IF u = id THEN m ELSE upload[u]
    BY <1>2, <1>4, <1>12, <1>13, ExceptSeq
<1>15. Shrunk(upload, upload')
    BY <1>12, <1>14 DEF Shrunk
<1>16. Placed([rr EXCEPT !.pc = "assembled"], asset')
    BY <1>1, <1>3, <1>11, PcSet DEF Fit, Placed
<1>17. "assembled" \in AllPcs \ {"over", "create", "open"}
    BY DEF AllPcs
<1>18. \A w \in Pool : rr.pool[w].pc \in Rested
    BY <1>1, <1>3, Resting
<1> QED
    BY <1>1, <1>2, <1>3, <1>11, <1>14, <1>15, <1>16, <1>17, <1>18, GoesOn

LEMMA SavedFits ==
    ASSUME UploadAssumption, UploadInv, NEW a \in RunIds
    PROVE  saved[a] \in SessionType /\ saved[a].id \in 0 .. Len(upload) /\ saved[a].id <= MaxRuns
<1>1. saved[a] \in SessionType
    BY DEF UploadInv
<1>2. Stands(Keeps(saved[a]), upload)
    BY DEF UploadInv, Sessions, Held
<1>3. saved[a].id \in 0 .. Len(upload)
    BY <1>2 DEF Stands, Keeps
<1> QED
    BY <1>1, <1>3, Lengths, Numbers

LEMMA CreatedKeeps ==
    ASSUME UploadAssumption, UploadInv, NEW r \in 1 .. Len(run), Created(r)
    PROVE  UploadInv'
<1> DEFINE a == Len(asset) + 1
           rr == [run[r] EXCEPT !.asset = a]
           y == [status |-> "created", url |-> FALSE, object |-> Empty]
<1>1. /\ run[r].pc = "create" /\ asset' = Append(asset, y)
      /\ run' = [run EXCEPT ![r] = Step2(rr)]
      /\ page' = [Show(Step2Phase(rr)) EXCEPT !.asset = a] /\ saved' = Dropped(rr)
      /\ UNCHANGED <<upload, aborting, faults, picks, early>>
    BY DEF Created
<1>2. /\ run[r] \in RunType /\ Fit(run[r], asset, upload)
      /\ \A b \in RunIds : Known(Keeps(saved[b]))
      /\ Stands(Holds(run[r]), upload)
    BY AtRun DEF UploadInv, Sessions, Held
<1>3. /\ asset \in Seq(AssetType) /\ upload \in Seq(MultipartType) /\ Len(asset) \in Nat
      /\ Len(upload) \in Nat /\ MaxRuns \in Nat /\ a <= MaxRuns /\ a \in Nat
    <2>1. Len(asset) < MaxRuns /\ Len(asset) \in Nat /\ MaxRuns \in Nat /\ Len(upload) \in Nat
        BY <1>1, Lengths, Numbers
    <2> QED
        BY <2>1 DEF UploadInv, Objects
<1>4. a \in RunIds /\ a \in 0 .. MaxRuns /\ a # 0
    BY <1>3 DEF RunIds
<1>5. y \in AssetType /\ Sound(y)
    BY DEF AssetType, Sound, Empty, Content
<1> HIDE DEF y
<1>6. /\ asset' \in Seq(AssetType) /\ Len(asset') = a /\ asset'[a] = y
      /\ \A b \in 1 .. Len(asset) : asset'[b] = asset[b]
    BY <1>1, <1>3, <1>5, AppendProperties
<1>7. Objects(asset') /\ Later(asset, asset')
    <2>1. \A b \in 1 .. Len(asset) : Sound(asset[b])
        BY DEF UploadInv, Objects
    <2>2. \A b \in 1 .. a : b \in 1 .. Len(asset) \/ b = a
        BY <1>3
    <2>3. Len(asset) <= Len(asset')
        BY <1>3, <1>6
    <2> HIDE DEF a
    <2> QED
        BY <1>5, <1>6, <2>1, <2>2, <2>3 DEF Objects, Later
<1> HIDE DEF a
<1>8. /\ rr \in RunType /\ rr.asset = a /\ rr.id = 0 /\ rr.etags = Empty /\ rr.file = run[r].file
      /\ rr.tab = run[r].tab /\ rr.pool = run[r].pool
    <2>1. rr \in RunType
        BY <1>2, <1>4, RunChanges
    <2>2. run[r].id = 0 /\ run[r].etags = Empty
        BY <1>1, <1>2 DEF Fit, Placed, Stands, Holds
    <2> QED
        BY <1>2, <2>1, <2>2 DEF RunType
<1>9. \A w \in Pool : rr.pool[w].pc \in Rested /\ rr.pool[w].part = 0
    <2>1. \A w \in Pool : run[r].pool[w].pc \in Rested
        BY <1>1, <1>2, Resting
    <2> QED
        BY <1>2, <1>8, <2>1 DEF Fit, Staffed
<1>10. rr.tab = "upload" => rr.file # NoFile
    BY <1>2, <1>8 DEF Fit, Placed
<1> HIDE DEF rr
<1>11. saved \in [RunIds -> SessionType] /\ saved[rr.asset].id <= MaxRuns
    BY <1>4, <1>8, SavedFits DEF UploadInv
<1> DEFINE x == Step2(rr)
<1>12. /\ x \in RunType /\ Fit(x, asset', upload) /\ x.pc \notin {"create", "over"}
       /\ Holds(x) \in {<<0, rr.file, Empty>>, Keeps(saved[rr.asset])}
       /\ Dropped(rr) \in [RunIds -> SessionType]
       /\ \A b \in RunIds : Keeps(Dropped(rr)[b]) \in {<<0, NoFile, Empty>>, Keeps(saved[b])}
    <2>1. rr.asset \in RunIds /\ rr.asset <= Len(asset')
        BY <1>3, <1>4, <1>6, <1>8
    <2> QED
        BY <1>8, <1>9, <1>10, <1>11, <2>1, Step2Fits
<1>13. Known(Holds(x)) /\ \A b \in RunIds : Known(Keeps(saved'[b]))
    <2>1. rr.file \in Content /\ NoFile \in Content
        BY <1>8, RunFields DEF Content
    <2> QED
        BY <1>1, <1>2, <1>4, <1>8, <1>12, <2>1 DEF Known, Blank
<1>14. run' = [run EXCEPT ![r] = x]
    BY <1>1
<1> HIDE DEF x
<1>15. upload' \in Seq(MultipartType) /\ Shrunk(upload, upload') /\ upload' = upload
    BY <1>1, <1>3, Unchanging
<1>16. Len(asset') = Len(asset) + 1
    BY <1>6 DEF a
<1>17. /\ Runs(run', asset', upload') /\ OnceEach(run', asset', upload')
       /\ Sessions(Held(run', saved'), upload') /\ Len(run') = Len(run)
       /\ \A phase : x.pc # "over" => Busy(phase, run')
    <2>1. Fit(x, asset', upload') /\ x \in RunType /\ x.pc # "create"
        BY <1>12, <1>15
    <2>2. run[r].pc \in {"create", "open"} /\ run[r].pc = "create"
        BY <1>1
    <2>3. asset' \in Seq(AssetType)
        BY <1>6
    <2> QED
        BY <1>7, <1>13, <1>14, <1>15, <1>16, <2>1, <2>2, <2>3, RunMoves
<1>18. Viewed(page', run', asset')
    <2>1. page \in PageType /\ page.asset <= Len(asset) /\ page.abort <= Len(run)
          /\ Step2Phase(rr) \in Phases
        BY DEF UploadInv, Viewed, Phases, Step2Phase
    <2> DEFINE s == Show(Step2Phase(rr))
    <2>2. s \in PageType /\ s.abort = page.abort
        BY <2>1, ShowIs
    <2>3. page' = [s EXCEPT !.asset = a]
        BY <1>1
    <2> HIDE DEF s
    <2>4. page' \in PageType /\ page'.asset = a /\ page'.abort = s.abort
        BY <1>3, <2>2, <2>3 DEF PageType
    <2>5. Busy(page'.phase, run')
        BY <1>12, <1>17
    <2> QED
        BY <1>3, <1>6, <1>17, <2>1, <2>2, <2>4, <2>5 DEF Viewed
<1> QED
    BY <1>1, <1>7, <1>12, <1>15, <1>17, <1>18 DEF UploadInv
\* A new session, or one that has another part: whoever holds its upload has
\* its file.
LEMMA SessionsJoin ==
    ASSUME NEW H, NEW h, NEW G, NEW U, Sessions(H, U), Stands(h, U), G \subseteq H \cup {h},
           \A k \in H : Agree(k, h)
    PROVE  Sessions(G, U)
<1>1. \A k \in H : Agree(h, k)
    BY DEF Agree
<1>2. Agree(h, h)
    BY DEF Agree
<1> QED
    BY <1>1, <1>2 DEF Sessions

LEMMA OpenedKeeps ==
    ASSUME UploadAssumption, UploadInv, NEW r \in 1 .. Len(run), Opened(r)
    PROVE  UploadInv'
<1> DEFINE id == Len(upload) + 1
           a == run[r].asset
           m == [state |-> "open", parts |-> Empty]
           s == [id |-> id, file |-> run[r].file, parts |-> Empty]
           nn == [run[r] EXCEPT !.id = id]
           x == Spawn(nn)
<1>1. /\ run[r].pc = "open" /\ upload' = Append(upload, m) /\ saved' = [saved EXCEPT ![a] = s]
      /\ run' = [run EXCEPT ![r] = x]
      /\ UNCHANGED <<page, aborting, asset, faults, picks, early>>
    BY DEF Opened
<1>2. /\ run[r] \in RunType /\ Fit(run[r], asset, upload) /\ run[r].file \in Content
      /\ run[r].asset \in 0 .. Len(asset)
      /\ Stands(Holds(run[r]), upload)
    BY AtRun, RunFields DEF UploadInv, Sessions, Held
<1>3. /\ asset \in Seq(AssetType) /\ upload \in Seq(MultipartType) /\ Len(asset) \in Nat
      /\ Len(upload) \in Nat /\ MaxRuns \in Nat /\ id \in 0 .. MaxRuns /\ id # 0
      /\ Len(asset) <= MaxRuns
    <2>1. Len(upload) < MaxRuns /\ Len(asset) \in Nat /\ MaxRuns \in Nat /\ Len(upload) \in Nat
          /\ Len(asset) <= MaxRuns
        BY <1>1, Lengths, Numbers
    <2> QED
        BY <2>1 DEF UploadInv, Objects
<1>4. a # 0 /\ a \in RunIds /\ a <= Len(asset) /\ run[r].tab = "upload" /\ run[r].file # NoFile
      /\ run[r].id = 0 /\ run[r].etags = Empty
    <2>1. a # 0 /\ run[r].tab = "upload" /\ run[r].file # NoFile /\ run[r].id = 0
        BY <1>1, <1>2 DEF Fit, Placed
    <2>2. run[r].etags = Empty
        BY <1>2, <2>1 DEF Stands, Holds
    <2>3. a \in RunIds /\ a <= Len(asset)
        BY <1>2, <1>3, <2>1 DEF RunIds
    <2> QED
        BY <2>1, <2>2, <2>3
<1>5. m \in MultipartType /\ s \in SessionType
    BY <1>2, <1>3 DEF MultipartType, SessionType, Empty, Content
<1>6. /\ upload' \in Seq(MultipartType) /\ Len(upload') = id /\ upload'[id] = m
      /\ \A u \in 1 .. Len(upload) : upload'[u] = upload[u]
    BY <1>1, <1>3, <1>5, AppendProperties
<1>7. /\ nn \in RunType /\ nn.id = id /\ nn.file = run[r].file /\ nn.etags = Empty /\ nn.asset = a
      /\ nn.tab = "upload"
    <2>1. nn \in RunType
        BY <1>2, <1>3, RunChanges
    <2> HIDE DEF id
    <2> QED
        BY <1>2, <1>4, <2>1 DEF RunType
<1>8. After(upload, upload') /\ Later(asset, asset')
    <2>1. Len(upload) <= Len(upload')
        BY <1>3, <1>6
    <2> QED
        BY <1>1, <1>3, <1>6, <2>1, Unchanging DEF After
<1>9. Len(upload') = Len(upload) + 1
    BY <1>6
<1> HIDE DEF id, nn
<1>10. /\ x \in RunType /\ x.pc = "parts" /\ Fit(x, asset', upload')
       /\ Holds(x) = <<id, run[r].file, Empty>>
    <2>1. /\ Spawn(nn) \in RunType /\ Spawn(nn).pc = "parts" /\ Fit(Spawn(nn), asset', upload')
          /\ Holds(Spawn(nn)) = Holds(nn)
        BY <1>1, <1>3, <1>4, <1>7, SpawnFits
    <2> QED
        BY <1>7, <2>1 DEF Holds
<1> HIDE DEF x
<1>11. /\ Runs(run', asset', upload') /\ OnceEach(run', asset', upload')
       /\ Len(run') = Len(run)
       /\ \A S : Held(run', S) \subseteq Held(run, S) \cup {Holds(x)}
       /\ \A phase : x.pc # "over" => Busy(phase, run')
    <2>1. asset' \in Seq(AssetType) /\ Len(asset') = Len(asset)
        BY <1>1, <1>3
    <2> QED
        BY <1>1, <1>6, <1>8, <1>9, <1>10, <2>1, RunsMove
<1> DEFINE h == <<id, run[r].file, Empty>>
<1>12. saved' \in [RunIds -> SessionType] /\ \A b \in RunIds : Keeps(saved'[b]) \in {Keeps(saved[b]), h}
    <2>1. saved \in [RunIds -> SessionType]
        BY DEF UploadInv
    <2>2. Keeps(s) = h
        BY DEF Keeps
    <2> HIDE DEF h, s
    <2> QED
        BY <1>1, <1>5, <2>1, <2>2
<1>13. Held(run', saved') \subseteq Held(run, saved) \cup {h}
    <2>1. Held(run, saved') \subseteq Held(run, saved) \cup {h}
        BY <1>12 DEF Held
    <2> QED
        BY <1>10, <1>11, <2>1
<1>14. Sessions(Held(run, saved), upload)
    BY DEF UploadInv
<1>15. \A k \in Held(run, saved) : Stands(k, upload') /\ k[1] # id
    <2> TAKE k \in Held(run, saved)
    <2>1. Stands(k, upload)
        BY <1>14 DEF Sessions
    <2>2. k[1] \in 0 .. Len(upload) /\ k[1] \in 0 .. Len(upload') /\ k[1] # id
        BY <1>3, <1>9, <2>1 DEF Stands, id
    <2>3. k[1] # 0 => upload'[k[1]] = upload[k[1]]
        BY <1>3, <1>6, <2>2
    <2> QED
        BY <2>1, <2>2, <2>3 DEF Stands
<1>16. Sessions(Held(run, saved), upload')
    BY <1>14, <1>15 DEF Sessions
<1>17. Stands(h, upload')
    <2>1. Empty \in [Parts -> Content] /\ \A p \in Parts : Empty[p] = NoFile
        BY DEF Empty, Content
    <2>2. id \in 0 .. Len(upload') /\ upload'[id].parts = Empty
        BY <1>3, <1>6
    <2> QED
        BY <1>2, <1>3, <1>4, <2>1, <2>2 DEF Stands
<1>18. \A k \in Held(run, saved) : Agree(k, h)
    BY <1>15 DEF Agree
<1> HIDE DEF h
<1>19. Sessions(Held(run', saved'), upload')
    BY <1>13, <1>16, <1>17, <1>18, SessionsJoin
<1>20. Viewed(page', run', asset')
    BY <1>1, <1>10, <1>11 DEF UploadInv, Viewed
<1>21. aborting' \subseteq 1 .. Len(upload')
    <2>1. aborting' \subseteq 1 .. Len(upload)
        BY <1>1 DEF UploadInv
    <2> QED
        BY <1>3, <1>9, <2>1
<1> QED
    BY <1>1, <1>6, <1>11, <1>12, <1>19, <1>20, <1>21 DEF UploadInv

-----------------------------------------------------------------------------
(* The workers.                                                             *)

LEMMA AtWorker ==
    ASSUME UploadAssumption, UploadInv, NEW r \in 1 .. Len(run), NEW w \in Pool,
           run[r].pool[w].pc \in Staff
    PROVE  /\ run[r].pool[w] \in WorkerType /\ run[r].pool[w].part \in Parts
           /\ run[r].pool[w].part # 0 /\ run[r].pool[w].tries \in 1 .. Attempts
           /\ run[r].pool[w].part \notin run[r].queue
           /\ \A v \in Pool : v # w => run[r].pool[v].part # run[r].pool[w].part
           /\ run[r].pc \in {"parts", "over"} /\ run[r].id \in 1 .. Len(upload)
           /\ run[r].asset \in 1 .. Len(asset) /\ run[r].file \in Files
<1>1. /\ run[r] \in RunType /\ Placed(run[r], asset) /\ Staffed(run[r])
      /\ run[r].id \in 0 .. Len(upload) /\ run[r].asset \in 0 .. Len(asset)
    BY AtRun DEF Fit
<1>2. run[r].pool[w] \in WorkerType /\ run[r].file \in Content
    BY <1>1, RunFields
<1>3. /\ run[r].pool[w].part # 0 /\ run[r].pool[w].tries # 0 /\ run[r].pc \in {"parts", "over"}
      /\ run[r].id # 0 /\ run[r].pool[w].part \notin run[r].queue
      /\ \A v \in Pool : v # w => run[r].pool[v].part # run[r].pool[w].part
    BY <1>1 DEF Staffed
<1>4. run[r].asset # 0 /\ run[r].file # NoFile
    BY <1>1, <1>3 DEF Placed
<1>5. run[r].pool[w].part \in Parts /\ run[r].pool[w].tries \in 1 .. Attempts
    BY <1>2, <1>3, Numbers DEF WorkerType
<1>6. run[r].id \in 1 .. Len(upload) /\ run[r].asset \in 1 .. Len(asset)
    BY <1>1, <1>3, <1>4, Lengths
<1> QED
    BY <1>2, <1>3, <1>4, <1>5, <1>6 DEF Content

LEMMA LaidOff ==
    ASSUME UploadAssumption, NEW rr \in RunType, NEW A, NEW U, Fit(rr, A, U), NEW w \in Pool
    PROVE  /\ [rr EXCEPT !.pool[w] = Rest] \in RunType /\ Fit([rr EXCEPT !.pool[w] = Rest], A, U)
           /\ Holds([rr EXCEPT !.pool[w] = Rest]) = Holds(rr)
<1>1. /\ Rest \in WorkerType /\ Rest.part = 0 /\ Rest.pc \notin Staff
      /\ Rest.pc # "wait" /\ Rest.pc # "stored"
    BY RestIs DEF Staff
<1> QED
    BY <1>1, WorkerSet

LEMMA WorkerThrowsKeeps ==
    ASSUME UploadAssumption, UploadInv, NEW r \in 1 .. Len(run), NEW w \in Pool, NEW how,
           run[r].pool[w].pc \in Staff, WorkerThrows(r, w, how),
           UNCHANGED <<saved, upload, aborting, asset, picks>>,
           faults' \in 0 .. MaxFaults, early' \in BOOLEAN
    PROVE  UploadInv'
<1> DEFINE nn == [run[r] EXCEPT !.pool[w] = Rest]
           x == Over(nn)
<1>1. /\ run[r] \in RunType /\ Fit(run[r], asset, upload) /\ Known(Holds(run[r]))
      /\ run[r].file \in Content /\ \A a \in RunIds : Known(Keeps(saved[a]))
    BY AtRun, RunFields
<1>2. run[r].pc \in {"parts", "over"}
    BY AtWorker
<1>3. /\ nn \in RunType /\ Fit(nn, asset, upload) /\ Holds(nn) = Holds(run[r]) /\ nn.file = run[r].file
    <2>1. nn \in RunType /\ Fit(nn, asset, upload) /\ Holds(nn) = Holds(run[r])
        BY <1>1, LaidOff
    <2> QED
        BY <1>1, <2>1 DEF Holds
<1>4. run' = [run EXCEPT ![r] = x]
      /\ (page' = Caught(how) \/ (page' = page /\ run[r].pc = "over"))
    BY <1>2 DEF WorkerThrows
<1> HIDE DEF nn
<1>5. /\ x \in RunType /\ x.pc = "over" /\ Fit(x, asset, upload)
      /\ Holds(x) \in {Holds(nn), <<0, nn.file, Empty>>}
    BY <1>3, OverFits
<1> HIDE DEF x
<1>6. Known(Holds(x))
    <2>1. <<0, run[r].file, Empty>> \in Blank
        BY <1>1, BlankIs
    <2> QED
        BY <1>1, <1>3, <1>5, <2>1 DEF Known
<1>7. Later(asset, asset') /\ Shrunk(upload, upload')
      /\ asset' \in Seq(AssetType) /\ upload' \in Seq(MultipartType)
    BY Lengths, Unchanging DEF UploadInv, Objects
<1>8. /\ Runs(run', asset', upload') /\ OnceEach(run', asset', upload')
      /\ Sessions(Held(run', saved'), upload') /\ Len(run') = Len(run)
      /\ \A phase : Busy(phase, run) /\ (x.pc = "over" => run[r].pc = "over") => Busy(phase, run')
    BY <1>1, <1>4, <1>5, <1>6, <1>7, RunMoves
<1>9. Viewed(page', run', asset')
    <2>1. page \in PageType /\ page.asset <= Len(asset)
        BY DEF UploadInv, Viewed
    <2>2. Caught(how) \in PageType /\ Caught(how).phase \notin Working
          /\ Caught(how).asset = page.asset /\ Caught(how).abort = 0
        BY <2>1, CaughtIs
    <2>3. CASE page' = Caught(how)
        BY <1>8, <2>1, <2>2, <2>3, Lengths DEF Viewed, Busy
    <2>4. CASE page' = page /\ run[r].pc = "over"
        BY <1>8, <2>4 DEF UploadInv, Viewed
    <2> QED
        BY <1>4, <2>3, <2>4
<1> QED
    BY <1>8, <1>9 DEF UploadInv

LEMMA WorkerGoesOn ==
    ASSUME UploadAssumption, UploadInv, NEW r \in 1 .. Len(run), NEW w \in Pool,
           run[r].pool[w].pc \in Staff, NEW y \in WorkerType,
           run' = [run EXCEPT ![r].pool[w] = y], y.pc \in Staff \ {"stored"},
           y.part = run[r].pool[w].part, y.tries # 0, y.pc = "wait" => y.tries < Attempts,
           UNCHANGED <<page, saved, upload, aborting, asset, picks>>,
           faults' \in 0 .. MaxFaults, early' \in BOOLEAN
    PROVE  UploadInv'
<1> DEFINE x == [run[r] EXCEPT !.pool[w] = y]
<1>1. /\ run[r] \in RunType /\ Fit(run[r], asset, upload) /\ Known(Holds(run[r]))
      /\ \A a \in RunIds : Known(Keeps(saved[a]))
    BY AtRun
<1>2. run[r].pc \in {"parts", "over"} /\ run[r].id # 0 /\ y.part # 0 /\ y.part \notin run[r].queue
      /\ \A v \in Pool : v # w => run[r].pool[v].part # y.part
    BY AtWorker
<1>3. y.pc \notin Rested /\ y.pc # "stored"
    BY DEF Staff, Rested
<1>4. x \in RunType /\ Fit(x, asset, upload) /\ x.pc = run[r].pc /\ Holds(x) = Holds(run[r])
    BY <1>1, <1>2, <1>3, WorkerSet
<1>5. run' = [run EXCEPT ![r] = x]
    OBVIOUS
<1> HIDE DEF x
<1>6. Later(asset, asset') /\ Shrunk(upload, upload')
      /\ asset' \in Seq(AssetType) /\ upload' \in Seq(MultipartType)
    BY Lengths, Unchanging DEF UploadInv, Objects
<1>7. /\ Runs(run', asset', upload') /\ OnceEach(run', asset', upload')
      /\ Sessions(Held(run', saved'), upload') /\ Len(run') = Len(run)
      /\ \A phase : Busy(phase, run) /\ (x.pc = "over" => run[r].pc = "over") => Busy(phase, run')
    BY <1>1, <1>4, <1>5, <1>6, RunMoves
<1>8. Viewed(page', run', asset')
    BY <1>4, <1>7 DEF UploadInv, Viewed
<1> QED
    BY <1>7, <1>8 DEF UploadInv

LEMMA AttemptKeeps ==
    ASSUME UploadAssumption, UploadInv, NEW r \in 1 .. Len(run), NEW w \in Pool,
           run[r].pool[w].pc \in Staff, Attempt(r, w),
           UNCHANGED <<saved, upload, aborting, asset, picks>>,
           faults' \in 0 .. MaxFaults, early' \in BOOLEAN
    PROVE  UploadInv'
<1>1. CASE run[r].pool[w].tries < Attempts
    <2> DEFINE y == [run[r].pool[w] EXCEPT !.pc = "wait"]
    <2>1. run' = [run EXCEPT ![r].pool[w] = y] /\ UNCHANGED page
        BY <1>1 DEF Attempt, Becomes, Worker
    <2>2. run[r].pool[w] \in WorkerType /\ run[r].pool[w].tries \in 1 .. Attempts
        BY AtWorker
    <2>3. y \in WorkerType /\ y.pc = "wait" /\ y.part = run[r].pool[w].part
          /\ y.tries = run[r].pool[w].tries
        BY <2>2 DEF WorkerType
    <2> HIDE DEF y
    <2>4. y.tries # 0 /\ y.tries < Attempts /\ y.pc \in Staff \ {"stored"}
        BY <1>1, <2>2, <2>3, Numbers DEF Staff
    <2> QED
        BY <2>1, <2>3, <2>4, WorkerGoesOn
<1>2. CASE ~(run[r].pool[w].tries < Attempts)
    <2>1. WorkerThrows(r, w, "error")
        BY <1>2 DEF Attempt, Worker
    <2> QED
        BY <2>1, WorkerThrowsKeeps
<1> QED
    BY <1>1, <1>2

LEMMA WorkersKeep ==
    ASSUME UploadAssumption, UploadInv, NEW r \in 1 .. Len(run), NEW w \in Pool,
           \/ Threw(r, w) \/ PartUrl(r, w) \/ PartUrlFails(r, w)
           \/ PartRefused(r, w) \/ PartLost(r, w) \/ Waited(r, w) \/ Interrupted(r, w)
    PROVE  UploadInv'
<1>1. faults \in 0 .. MaxFaults /\ MaxFaults \in Nat /\ early \in BOOLEAN
    BY Numbers DEF UploadInv
<1>2. /\ \/ faults' = faults
         \/ faults < MaxFaults /\ faults' = faults + 1
      /\ UNCHANGED <<saved, upload, aborting, asset, picks>>
    BY DEF Threw, PartUrl, PartUrlFails, PartRefused, PartLost, Waited, Interrupted, Fault
<1>3. faults' \in 0 .. MaxFaults
    BY <1>1, <1>2
<1>4. early' \in BOOLEAN
    BY <1>1 DEF Threw, PartUrl, PartUrlFails, PartRefused, PartLost, Waited, Interrupted
<1>5. run[r].pool[w].pc \in Staff
    BY DEF Threw, PartUrl, PartUrlFails, PartRefused, PartLost, Waited, Interrupted, At, Worker, Staff
<1>6. CASE WorkerThrows(r, w, "abort") \/ Attempt(r, w)
    BY <1>2, <1>3, <1>4, <1>5, <1>6, WorkerThrowsKeeps, AttemptKeeps
<1>7. CASE PartUrl(r, w) /\ Becomes(r, w, "put") /\ UNCHANGED page
    <2> DEFINE y == [run[r].pool[w] EXCEPT !.pc = "put"]
    <2>1. run' = [run EXCEPT ![r].pool[w] = y]
        BY <1>7 DEF Becomes
    <2>2. run[r].pool[w] \in WorkerType /\ run[r].pool[w].tries \in 1 .. Attempts
        BY <1>5, AtWorker
    <2>3. y \in WorkerType /\ y.pc = "put" /\ y.part = run[r].pool[w].part
          /\ y.tries = run[r].pool[w].tries
        BY <2>2 DEF WorkerType
    <2> HIDE DEF y
    <2>4. y.tries # 0 /\ y.pc # "wait" /\ y.pc \in Staff \ {"stored"}
        BY <2>2, <2>3 DEF Staff
    <2> QED
        BY <1>2, <1>3, <1>4, <1>5, <1>7, <2>1, <2>3, <2>4, WorkerGoesOn
<1>8. CASE Waited(r, w)
    <2> DEFINE t == run[r].pool[w].tries + 1
               y == [pc |-> "url", part |-> run[r].pool[w].part, tries |-> t]
    <2>1. run[r].pool[w].pc = "wait" /\ UNCHANGED page
        BY <1>8 DEF Waited, At, Worker
    <2>2. run[r].pool[w] \in WorkerType /\ run[r].pool[w].tries \in 1 .. Attempts
        BY <1>5, AtWorker
    <2>3. run[r].pool[w].tries < Attempts
        BY <2>1, AtRun DEF Fit, Staffed
    <2>4. t \in 0 .. Attempts /\ t # 0
        <3>1. \A n \in 1 .. Attempts : n < Attempts => n + 1 \in 0 .. Attempts /\ n + 1 # 0
            BY Numbers
        <3> QED
            BY <2>2, <2>3, <3>1
    <2>7. run' = [run EXCEPT ![r].pool[w] = y]
        BY <1>8 DEF Waited, Worker
    <2> HIDE DEF t
    <2>5. y \in WorkerType /\ y.pc = "url" /\ y.part = run[r].pool[w].part /\ y.tries = t
        BY <2>2, <2>4 DEF WorkerType
    <2> HIDE DEF y
    <2>6. y.tries # 0 /\ y.pc # "wait" /\ y.pc \in Staff \ {"stored"}
        BY <2>4, <2>5 DEF Staff
    <2> QED
        BY <1>2, <1>3, <1>4, <1>5, <2>1, <2>5, <2>6, <2>7, WorkerGoesOn
<1> QED
    BY <1>6, <1>7, <1>8 DEF Threw, PartUrl, PartUrlFails, PartRefused, PartLost, Interrupted

LEMMA StoredFits ==
    ASSUME UploadAssumption, NEW rr \in RunType, NEW A, NEW V, Fit(rr, A, V), NEW w \in Pool,
           rr.pool[w].pc = "put", V[rr.id].parts[rr.pool[w].part] # NoFile
    PROVE  LET x == [rr EXCEPT !.pool[w] = [rr.pool[w] EXCEPT !.pc = "stored"]]
           IN  x \in RunType /\ Fit(x, A, V) /\ x.pc = rr.pc /\ Holds(x) = Holds(rr)
<1> DEFINE y == [rr.pool[w] EXCEPT !.pc = "stored"]
<1>1. rr.pool[w] \in WorkerType
    BY RunFields
<1>2. y \in WorkerType /\ y.pc = "stored" /\ y.part = rr.pool[w].part /\ y.tries = rr.pool[w].tries
    BY <1>1 DEF WorkerType
<1> HIDE DEF y
<1>3. /\ y.part # 0 /\ y.tries # 0 /\ rr.pc \in {"parts", "over"} /\ rr.id # 0
      /\ y.part \notin rr.queue
      /\ \A v \in Pool : v # w => rr.pool[v].part # y.part
    BY <1>2 DEF Fit, Staffed, Staff
<1>4. y.pc \notin Rested /\ y.pc # "wait"
    BY <1>2 DEF Rested
<1>5. V[rr.id].parts[y.part] # NoFile
    BY <1>2
<1>6. /\ [rr EXCEPT !.pool[w] = y] \in RunType /\ Fit([rr EXCEPT !.pool[w] = y], A, V)
      /\ [rr EXCEPT !.pool[w] = y].pc = rr.pc
      /\ Holds([rr EXCEPT !.pool[w] = y]) = Holds(rr)
    BY <1>2, <1>3, <1>4, <1>5, WorkerSet
<1> QED
    BY <1>6 DEF y

LEMMA PartStoredKeeps ==
    ASSUME UploadAssumption, UploadInv, NEW r \in 1 .. Len(run), NEW w \in Pool, PartStored(r, w)
    PROVE  UploadInv'
<1> DEFINE rr == run[r]
           id == rr.id
           p == rr.pool[w].part
           f == rr.file
           ps == [upload[id].parts EXCEPT ![p] = f]
           m == [upload[id] EXCEPT !.parts = ps]
           y == [rr.pool[w] EXCEPT !.pc = "stored"]
           x == [rr EXCEPT !.pool[w] = y]
           H == Held(run, saved)
<1>1. /\ rr.pool[w].pc = "put" /\ upload[id].state = "open"
      /\ upload' = [upload EXCEPT ![id].parts[p] = f]
      /\ run' = [run EXCEPT ![r].pool[w].pc = "stored"]
      /\ UNCHANGED <<page, saved, aborting, asset, faults, picks, early>>
    BY DEF PartStored, At, Worker, Becomes
<1>2. /\ rr \in RunType /\ Fit(rr, asset, upload)
    BY AtRun
<1>3. /\ rr.pool[w] \in WorkerType /\ p \in Parts /\ p # 0 /\ rr.pool[w].tries \in 1 .. Attempts
      /\ p \notin rr.queue /\ (\A v \in Pool : v # w => rr.pool[v].part # p)
      /\ rr.pc \in {"parts", "over"} /\ id \in 1 .. Len(upload) /\ f \in Files
    <2>1. rr.pool[w].pc \in Staff
        BY <1>1 DEF Staff
    <2> QED
        BY <2>1, AtWorker
<1>4. /\ upload \in Seq(MultipartType) /\ Len(upload) \in Nat /\ Len(asset) \in Nat
      /\ asset \in Seq(AssetType) /\ Later(asset, asset) /\ upload[id] \in MultipartType
    BY <1>3, Lengths, Unchanging DEF UploadInv, Objects
<1>5. f # NoFile /\ f \in Content
    BY <1>3, Numbers DEF Content
<1>6. /\ ps \in [Parts -> Content] /\ ps[p] = f
      /\ \A q \in Parts : q # p => ps[q] = upload[id].parts[q]
    BY <1>3, <1>4, <1>5 DEF MultipartType
<1>7. upload' = [upload EXCEPT ![id] = m]
    BY <1>1
<1> HIDE DEF ps
<1>8. m \in MultipartType /\ m.parts = ps /\ m.state = "open"
    BY <1>1, <1>4, <1>6 DEF MultipartType
<1> HIDE DEF m
<1>9. /\ upload' \in Seq(MultipartType) /\ Len(upload') = Len(upload)
      /\ \A u \in 1 .. Len(upload) : upload'[u] = IF u = id THEN m ELSE upload[u]
    BY <1>3, <1>4, <1>7, <1>8, ExceptSeq
<1>10. After(upload, upload')
    <2>1. \A u \in 1 .. Len(upload) : upload'[u].state = "open" =>
              /\ upload[u].state = "open"
              /\ \A q \in Parts : upload[u].parts[q] # NoFile => upload'[u].parts[q] # NoFile
        <3> SUFFICES ASSUME NEW u \in 1 .. Len(upload), upload'[u].state = "open"
                     PROVE  /\ upload[u].state = "open"
                            /\ \A q \in Parts : upload[u].parts[q] # NoFile =>
                                                 upload'[u].parts[q] # NoFile
            OBVIOUS
        <3>1. CASE u = id
            <4>1. upload'[u] = m /\ upload[u] = upload[id]
                BY <1>9, <3>1
            <4>2. upload[u].state = "open"
                BY <1>1, <4>1
            <4>3. \A q \in Parts : upload[id].parts[q] # NoFile => ps[q] # NoFile
                BY <1>5, <1>6
            <4> QED
                BY <1>8, <4>1, <4>2, <4>3
        <3>2. CASE u # id
            BY <1>9, <3>2
        <3> QED
            BY <3>1, <3>2
    <2>2. Len(upload) <= Len(upload')
        BY <1>4, <1>9
    <2> QED
        BY <2>1, <2>2 DEF After
<1>11. Fit(rr, asset, upload')
    <2>1. rr.id <= Len(upload) /\ Len(upload') \in Nat
        BY <1>3, <1>4, <1>9
    <2> QED
        BY <1>2, <1>4, <1>10, <2>1, FitLater
<1>12. upload'[id].parts[p] # NoFile
    BY <1>3, <1>5, <1>6, <1>8, <1>9
<1>14. run' = [run EXCEPT ![r] = x]
    BY <1>1
<1>15. x \in RunType /\ Fit(x, asset, upload') /\ x.pc = rr.pc /\ Holds(x) = Holds(rr)
    <2>1. rr.pool[w].pc = "put" /\ upload'[rr.id].parts[rr.pool[w].part] # NoFile
        BY <1>1, <1>12
    <2>2. UploadAssumption /\ rr \in RunType /\ Fit(rr, asset, upload')
        BY <1>2, <1>11
    <2> HIDE DEF rr
    <2> QED
        BY <2>1, <2>2, StoredFits
<1> HIDE DEF x
<1>16. /\ Runs(run', asset', upload') /\ OnceEach(run', asset', upload')
       /\ Len(run') = Len(run)
       /\ \A S : Held(run', S) \subseteq Held(run, S) \cup {Holds(x)}
       /\ \A phase : Busy(phase, run) /\ (x.pc = "over" => run[r].pc = "over") => Busy(phase, run')
    <2>1. asset' = asset /\ x.pc # "create" /\ x.pc # "open"
        BY <1>1, <1>3, <1>15
    <2> QED
        BY <1>4, <1>9, <1>10, <1>14, <1>15, <2>1, RunsMove
<1>17. Sessions(H, upload) /\ Holds(rr) \in H
    BY DEF UploadInv, Held
<1>18. ASSUME NEW h \in H
       PROVE  Stands(h, upload')
    <2>1. Stands(h, upload) /\ Agree(h, Holds(rr))
        BY <1>17 DEF Sessions
    <2>2. CASE h[1] = 0
        BY <1>9, <2>1, <2>2 DEF Stands
    <2>3. CASE h[1] # 0
        <3>1. h[1] \in 1 .. Len(upload)
            BY <1>4, <2>1, <2>3 DEF Stands
        <3>2. CASE h[1] = id
            <4>1. h[2] = f
                BY <2>1, <2>3, <3>2 DEF Agree, Holds
            <4>2. upload'[h[1]] = m
                BY <1>9, <3>1, <3>2
            <4>3. \A q \in Parts : ps[q] \in {NoFile, f}
                BY <1>6, <2>1, <2>3, <3>2, <4>1 DEF Stands
            <4>4. \A q \in Parts : h[3][q] # NoFile => ps[q] # NoFile
                BY <1>1, <1>5, <1>6, <2>1, <2>3, <3>2 DEF Stands
            <4> QED
                BY <1>8, <1>9, <2>1, <2>3, <4>1, <4>2, <4>3, <4>4 DEF Stands
        <3>3. CASE h[1] # id
            <4>1. upload'[h[1]] = upload[h[1]]
                BY <1>9, <3>1, <3>3
            <4> QED
                BY <1>9, <2>1, <4>1 DEF Stands
        <3> QED
            BY <3>2, <3>3
    <2> QED
        BY <2>2, <2>3
<1>19. Sessions(Held(run', saved'), upload')
    <2>1. Held(run', saved') \subseteq H
        BY <1>1, <1>15, <1>16, <1>17
    <2> QED
        BY <1>17, <1>18, <2>1 DEF Sessions
<1>20. Viewed(page', run', asset')
    BY <1>1, <1>15, <1>16 DEF UploadInv, Viewed
<1>21. aborting' \subseteq 1 .. Len(upload')
    BY <1>1, <1>9 DEF UploadInv
<1> QED
    BY <1>1, <1>9, <1>16, <1>19, <1>20, <1>21 DEF UploadInv

LEMMA PartDoneKeeps ==
    ASSUME UploadAssumption, UploadInv, NEW r \in 1 .. Len(run), NEW w \in Pool, PartDone(r, w)
    PROVE  UploadInv'
<1> DEFINE oo == run[r]
           p == oo.pool[w].part
           f == oo.file
           es == [oo.etags EXCEPT ![p] = f]
           rr == [oo EXCEPT !.etags = es]
           x == Take(rr, w)
           H == Held(run, saved)
           h == <<oo.id, f, es>>
           s == [id |-> oo.id, file |-> f, parts |-> es]
<1>1. /\ oo.pool[w].pc = "stored"
      /\ saved' = Persisted([oo EXCEPT !.etags[p] = f])
      /\ run' = [run EXCEPT ![r] = Take([oo EXCEPT !.etags[p] = f], w)]
      /\ UNCHANGED <<page, upload, aborting, asset, faults, picks, early>>
    BY DEF PartDone, At, Worker
<1>2. rr = [oo EXCEPT !.etags[p] = f]
    OBVIOUS
<1>3. /\ oo \in RunType /\ Fit(oo, asset, upload) /\ oo.etags \in [Parts -> Content]
    BY AtRun, RunFields
<1>4. /\ p \in Parts /\ oo.pc \in {"parts", "over"} /\ oo.id \in 1 .. Len(upload) /\ f \in Files
      /\ oo.asset \in 1 .. Len(asset)
    <2>1. oo.pool[w].pc \in Staff
        BY <1>1 DEF Staff
    <2> QED
        BY <2>1, AtWorker
<1>5. /\ upload \in Seq(MultipartType) /\ Len(upload) \in Nat /\ Len(asset) \in Nat
      /\ asset \in Seq(AssetType) /\ Later(asset, asset) /\ After(upload, upload)
      /\ saved \in [RunIds -> SessionType] /\ Len(asset) <= MaxRuns /\ MaxRuns \in Nat
    BY Lengths, Numbers, Unchanging, ShrunkIsAfter DEF UploadInv, Objects
<1>6. f # NoFile /\ f \in Content
    BY <1>4, Numbers DEF Content
<1>7. es \in [Parts -> Content] /\ es[p] = f /\ \A q \in Parts : q # p => es[q] = oo.etags[q]
    BY <1>3, <1>4, <1>6
<1> HIDE DEF es
<1>8. rr \in RunType
    BY <1>3, <1>7, RunChanges
<1>9. /\ rr.pc = oo.pc /\ rr.file = f /\ rr.tab = oo.tab /\ rr.asset = oo.asset /\ rr.id = oo.id
      /\ rr.etags = es /\ rr.pool = oo.pool /\ rr.queue = oo.queue
    BY <1>3 DEF RunType
<1>10. saved' = [saved EXCEPT ![oo.asset] = s]
    <2>1. saved' = Persisted(rr)
        BY <1>1, <1>2
    <2> HIDE DEF rr
    <2> QED
        BY <1>9, <2>1 DEF Persisted
<1>11. run' = [run EXCEPT ![r] = x]
    BY <1>1, <1>2
<1> HIDE DEF rr
<1>12. Fit(rr, asset, upload)
    <2>1. Placed(rr, asset)
        BY <1>3, <1>4, <1>9 DEF Fit, Placed
    <2>2. Staffed(rr)
        BY <1>3, <1>9 DEF Fit, Staffed
    <2>3. Arrived(rr, upload)
        BY <1>3, <1>9 DEF Fit, Arrived
    <2> QED
        BY <2>1, <2>2, <2>3 DEF Fit
<1>13. x \in RunType /\ Fit(x, asset, upload) /\ x.pc = oo.pc /\ Holds(x) = h
    <2>1. x \in RunType /\ Fit(x, asset, upload) /\ x.pc = rr.pc /\ Holds(x) = Holds(rr)
        <3>1. rr.pc \in {"parts", "over"} /\ rr.id # 0
            BY <1>4, <1>9
        <3> QED
            BY <1>8, <1>12, <3>1, TakeFits
    <2> QED
        BY <1>9, <2>1 DEF Holds
<1> HIDE DEF x
<1>14. /\ Runs(run', asset', upload') /\ OnceEach(run', asset', upload')
       /\ Len(run') = Len(run)
       /\ \A S : Held(run', S) \subseteq Held(run, S) \cup {Holds(x)}
       /\ \A phase : Busy(phase, run) /\ (x.pc = "over" => run[r].pc = "over") => Busy(phase, run')
    <2>1. asset' = asset /\ upload' = upload /\ x.pc # "create" /\ x.pc # "open"
        BY <1>1, <1>4, <1>13
    <2> QED
        BY <1>5, <1>11, <1>13, <2>1, RunsMove
<1>15. Sessions(H, upload) /\ Holds(oo) \in H /\ Stands(Holds(oo), upload)
    BY DEF UploadInv, Held, Sessions
<1>16. Stands(h, upload)
    <2>1. /\ \A q \in Parts : es[q] \in {NoFile, f}
        BY <1>7, <1>15 DEF Stands, Holds
    <2>2. \A q \in Parts : upload[oo.id].parts[q] \in {NoFile, f}
        BY <1>4, <1>15 DEF Stands, Holds
    <2>3. ASSUME upload[oo.id].state = "open", NEW q \in Parts, es[q] # NoFile
          PROVE  upload[oo.id].parts[q] # NoFile
        <3>1. CASE q = p
            BY <1>1, <1>3, <2>3, <3>1 DEF Fit, Arrived
        <3>2. CASE q # p
            BY <1>4, <1>7, <1>15, <2>3, <3>2 DEF Stands, Holds
        <3> QED
            BY <3>1, <3>2
    <2>4. oo.id \in 0 .. Len(upload) /\ oo.id # 0
        BY <1>4
    <2> QED
        BY <1>6, <1>7, <2>1, <2>2, <2>3, <2>4 DEF Stands
<1>17. \A k \in H : Agree(k, h)
    BY <1>15 DEF Sessions, Agree, Holds
<1>18. s \in SessionType /\ Keeps(s) = h
    <2>1. oo.id \in Nat
        BY <1>4
    <2> QED
        BY <1>6, <1>7, <2>1 DEF SessionType, Keeps
<1> HIDE DEF s
<1>19. saved' \in [RunIds -> SessionType] /\ \A b \in RunIds : Keeps(saved'[b]) \in {Keeps(saved[b]), h}
    BY <1>5, <1>10, <1>18
<1>20. Held(run', saved') \subseteq H \cup {h}
    <2>1. Held(run, saved') \subseteq H \cup {h}
        BY <1>19 DEF Held
    <2> QED
        BY <1>13, <1>14, <2>1
<1> HIDE DEF h, H
<1>21. Sessions(Held(run', saved'), upload')
    <2>1. Sessions(Held(run', saved'), upload)
        BY <1>15, <1>16, <1>17, <1>20, SessionsJoin
    <2> QED
        BY <1>1, <2>1
<1>22. Viewed(page', run', asset')
    BY <1>1, <1>13, <1>14 DEF UploadInv, Viewed
<1> QED
    BY <1>1, <1>14, <1>19, <1>21, <1>22 DEF UploadInv

-----------------------------------------------------------------------------
(* The user, and the abort requests.                                        *)

LEMMA RunsStay ==
    ASSUME UploadAssumption, UploadInv, run' = run, asset' = asset,
           upload' \in Seq(MultipartType), Shrunk(upload, upload'),
           \A a \in RunIds : Known(Keeps(saved'[a]))
    PROVE  /\ Runs(run', asset', upload') /\ OnceEach(run', asset', upload')
           /\ Sessions(Held(run', saved'), upload')
<1>1. /\ Len(upload) \in Nat /\ Len(asset) \in Nat /\ After(upload, upload')
      /\ Len(upload') = Len(upload) /\ Later(asset, asset)
    BY Lengths, ShrunkIsAfter, Unchanging DEF Shrunk
<1>2. ASSUME NEW r \in 1 .. Len(run)
      PROVE  Fit(run[r], asset, upload')
    <2>1. run[r] \in RunType /\ Fit(run[r], asset, upload) /\ run[r].id <= Len(upload)
        BY <1>1, AtRun
    <2> QED
        BY <1>1, <2>1, FitLater
<1>3. Runs(run', asset', upload') /\ OnceEach(run', asset', upload')
    BY <1>1, <1>2 DEF UploadInv, Runs, OnceEach
<1>4. Sessions(Held(run', saved'), upload')
    <2>1. Held(run', saved') \subseteq Held(run, saved) \cup Blank
        BY DEF Held, Known
    <2>2. Sessions(Held(run, saved), upload)
        BY DEF UploadInv
    <2> QED
        BY <1>1, <2>1, <2>2, SessionsShrink
<1> QED
    BY <1>3, <1>4

LEMMA AbandonIs ==
    ASSUME UploadAssumption, UploadInv, NEW a \in RunIds, Abandon(a)
    PROVE  /\ saved' \in [RunIds -> SessionType] /\ \A b \in RunIds : Known(Keeps(saved'[b]))
           /\ aborting' \subseteq 1 .. Len(upload)
<1>1. saved \in [RunIds -> SessionType] /\ aborting \subseteq 1 .. Len(upload)
    BY DEF UploadInv
<1>2. NoSession \in SessionType /\ Known(Keeps(NoSession))
    BY DEF NoSession, SessionType, Keeps, Content, Empty, Known, Blank
<1>3. \A b \in RunIds : Known(Keeps(saved[b]))
    BY DEF Known, Held
<1>4. saved' = [saved EXCEPT ![a] = NoSession] /\ aborting' = aborting \cup ({saved[a].id} \ {0})
    BY DEF Abandon
<1>5. saved[a].id \in 0 .. Len(upload) /\ Len(upload) \in Nat
    BY SavedFits, Lengths
<1>6. saved' \in [RunIds -> SessionType] /\ \A b \in RunIds : Known(Keeps(saved'[b]))
    BY <1>1, <1>2, <1>3, <1>4
<1>7. aborting' \subseteq 1 .. Len(upload)
    <2>1. saved[a].id # 0 => saved[a].id \in 1 .. Len(upload)
        BY <1>5
    <2>2. \A i \in aborting' : i \in aborting \/ (i = saved[a].id /\ i # 0)
        BY <1>4
    <2> QED
        BY <1>1, <2>1, <2>2
<1> QED
    BY <1>6, <1>7

LEMMA PageAsset ==
    ASSUME UploadAssumption, UploadInv
    PROVE  /\ page \in PageType /\ page.asset \in 0 .. Len(asset) /\ page.abort \in 0 .. Len(run)
           /\ page.asset # 0 => page.asset \in RunIds
<1>1. page \in PageType /\ page.asset <= Len(asset) /\ page.abort <= Len(run)
    BY DEF UploadInv, Viewed
<1>2. page.asset \in Nat /\ page.abort \in Nat
    BY <1>1 DEF PageType
<1> QED
    BY <1>1, <1>2, Lengths, Numbers DEF RunIds

\* A run that is aborted knows it at its next step.
LEMMA AbortRefKeeps ==
    ASSUME UploadAssumption, UploadInv, run' = AbortRef, UNCHANGED <<asset, upload>>,
           \A a \in RunIds : Known(Keeps(saved'[a]))
    PROVE  /\ Runs(run', asset', upload') /\ OnceEach(run', asset', upload')
           /\ Sessions(Held(run', saved'), upload') /\ Len(run') = Len(run)
           /\ \A phase : Busy(phase, run) => Busy(phase, run')
<1>1. /\ upload' \in Seq(MultipartType) /\ Shrunk(upload, upload')
      /\ asset' \in Seq(AssetType) /\ Later(asset, asset') /\ Len(asset') = Len(asset)
    BY Lengths, Unchanging DEF UploadInv, Objects
<1>2. CASE page.abort = 0
    <2>1. run' = run
        BY <1>2 DEF AbortRef
    <2> QED
        BY <1>1, <2>1, RunsStay
<1>3. CASE page.abort # 0
    <2> DEFINE r == page.abort
               x == [run[r] EXCEPT !.aborted = TRUE]
    <2>1. r \in 1 .. Len(run)
        BY <1>3, PageAsset, Lengths
    <2>2. run' = [run EXCEPT ![r] = x]
        BY <1>3 DEF AbortRef
    <2>3. run[r] \in RunType /\ Fit(run[r], asset, upload) /\ Known(Holds(run[r]))
        BY <2>1, AtRun
    <2>4. x \in RunType
        BY <2>3, RunChanges
    <2>5. /\ x.pc = run[r].pc /\ x.file = run[r].file /\ x.tab = run[r].tab
          /\ x.asset = run[r].asset /\ x.id = run[r].id /\ x.etags = run[r].etags
          /\ x.pool = run[r].pool /\ x.queue = run[r].queue
        BY <2>3 DEF RunType
    <2> HIDE DEF x
    <2>6. Fit(x, asset', upload')
        <3>1. Placed(x, asset)
            BY <2>3, <2>5 DEF Fit, Placed
        <3>2. Staffed(x)
            BY <2>3, <2>5 DEF Fit, Staffed
        <3>3. Arrived(x, upload)
            BY <2>3, <2>5 DEF Fit, Arrived
        <3> QED
            BY <3>1, <3>2, <3>3 DEF Fit
    <2>7. Known(Holds(x))
        BY <2>3, <2>5 DEF Holds
    <2>8. /\ x.pc = "create" => run[r].pc = "create"
          /\ x.pc = "open" => run[r].pc \in {"create", "open"}
          /\ x.pc = "over" => run[r].pc = "over"
        BY <2>5
    <2> HIDE DEF r
    <2>9. /\ Runs(run', asset', upload') /\ OnceEach(run', asset', upload')
          /\ Sessions(Held(run', saved'), upload') /\ Len(run') = Len(run)
          /\ \A phase : Busy(phase, run) /\ (x.pc = "over" => run[r].pc = "over") => Busy(phase, run')
        BY <1>1, <2>1, <2>2, <2>4, <2>6, <2>7, <2>8, RunMoves
    <2> QED
        BY <2>8, <2>9
<1> QED
    BY <1>2, <1>3

LEMMA UserKeeps ==
    ASSUME UploadAssumption, UploadInv,
           \/ \E tab \in {"upload", "import"} : PickTab(tab)
           \/ \E f \in Files : Select(f)
           \/ Cancel \/ Leave
    PROVE  UploadInv'
<1>1. /\ page \in PageType /\ page.asset \in 0 .. Len(asset) /\ page.abort \in 0 .. Len(run)
      /\ (page.asset # 0 => page.asset \in RunIds)
    BY PageAsset
<1>2. /\ saved \in [RunIds -> SessionType] /\ aborting \subseteq 1 .. Len(upload)
      /\ picks \in 0 .. MaxPicks /\ MaxPicks \in Nat
      /\ upload \in Seq(MultipartType) /\ Shrunk(upload, upload)
      /\ Len(run) \in Nat /\ Len(asset) \in Nat
    BY Lengths, Numbers, Unchanging DEF UploadInv
<1>3. \A b \in RunIds : Known(Keeps(saved[b]))
    BY DEF Known, Held
<1>4. CASE \E tab \in {"upload", "import"} : PickTab(tab)
    <2>1. PICK tab \in {"upload", "import"} : PickTab(tab)
        BY <1>4
    <2>2. /\ page' = [page EXCEPT !.tab = tab] /\ picks < MaxPicks /\ picks' = picks + 1
          /\ UNCHANGED <<run, saved, upload, aborting, asset, faults, early>>
        BY <2>1 DEF PickTab, Picked
    <2>3. /\ page' \in PageType /\ page'.phase = page.phase /\ page'.asset = page.asset
          /\ page'.abort = page.abort
        BY <1>1, <2>2 DEF PageType
    <2>4. picks' \in 0 .. MaxPicks
        BY <1>2, <2>2
    <2>5. Viewed(page', run', asset')
        BY <2>2, <2>3 DEF UploadInv, Viewed
    <2> QED
        BY <2>2, <2>4, <2>5 DEF UploadInv
<1>5. CASE \E f \in Files : Select(f)
    <2>1. PICK f \in Files : Select(f)
        BY <1>5
    <2>2. /\ page' = [page EXCEPT !.file = f, !.asset = 0, !.phase = "idle"]
          /\ picks < MaxPicks /\ picks' = picks + 1
          /\ IF page.asset # 0 THEN Abandon(page.asset) ELSE UNCHANGED <<saved, aborting>>
          /\ UNCHANGED <<run, upload, asset, faults, early>>
        BY <2>1 DEF Select, Picked
    <2>3. f \in Content /\ "idle" \in Phases
        BY DEF Content, Phases
    <2>4. page' \in PageType /\ page'.phase = "idle" /\ page'.asset = 0 /\ page'.abort = page.abort
        BY <1>1, <2>2, <2>3 DEF PageType
    <2>5. picks' \in 0 .. MaxPicks
        BY <1>2, <2>2
    <2>6. Viewed(page', run', asset')
        BY <1>1, <1>2, <2>2, <2>4 DEF Viewed, Busy, Working
    <2>7. /\ saved' \in [RunIds -> SessionType] /\ (\A b \in RunIds : Known(Keeps(saved'[b])))
          /\ aborting' \subseteq 1 .. Len(upload)
        BY <1>1, <1>2, <1>3, <2>2, AbandonIs
    <2>8. /\ Runs(run', asset', upload') /\ OnceEach(run', asset', upload')
          /\ Sessions(Held(run', saved'), upload')
        BY <1>2, <2>2, <2>7, RunsStay
    <2> QED
        BY <2>2, <2>5, <2>6, <2>7, <2>8 DEF UploadInv
<1>6. CASE Cancel
    <2>1. /\ run' = AbortRef
          /\ IF page.asset # 0 THEN Abandon(page.asset) ELSE UNCHANGED <<saved, aborting>>
          /\ UNCHANGED <<page, upload, asset, faults, picks, early>>
        BY <1>6 DEF Cancel
    <2>2. /\ saved' \in [RunIds -> SessionType] /\ (\A b \in RunIds : Known(Keeps(saved'[b])))
          /\ aborting' \subseteq 1 .. Len(upload)
        BY <1>1, <1>2, <1>3, <2>1, AbandonIs
    <2>3. /\ Runs(run', asset', upload') /\ OnceEach(run', asset', upload')
          /\ Sessions(Held(run', saved'), upload') /\ Len(run') = Len(run)
          /\ \A phase : Busy(phase, run) => Busy(phase, run')
        BY <2>1, <2>2, AbortRefKeeps
    <2>4. Viewed(page', run', asset')
        BY <2>1, <2>3 DEF UploadInv, Viewed
    <2> QED
        BY <2>1, <2>2, <2>3, <2>4 DEF UploadInv
<1>7. CASE Leave
    <2>1. /\ run' = AbortRef /\ page' = [page EXCEPT !.phase = "gone"]
          /\ UNCHANGED <<saved, upload, aborting, asset, faults, picks, early>>
        BY <1>7 DEF Leave
    <2>2. /\ Runs(run', asset', upload') /\ OnceEach(run', asset', upload')
          /\ Sessions(Held(run', saved'), upload') /\ Len(run') = Len(run)
        BY <1>3, <2>1, AbortRefKeeps
    <2>3. page' \in PageType /\ page'.phase = "gone" /\ page'.asset = page.asset
          /\ page'.abort = page.abort
        BY <1>1, <2>1 DEF PageType, Phases
    <2>4. Viewed(page', run', asset')
        BY <1>1, <2>1, <2>2, <2>3 DEF Viewed, Busy, Working
    <2> QED
        BY <2>1, <2>2, <2>4 DEF UploadInv
<1> QED
    BY <1>4, <1>5, <1>6, <1>7

LEMMA RunAppended ==
    ASSUME UploadAssumption, UploadInv, NEW x \in RunType, run' = Append(run, x), Len(run) < MaxRuns,
           Fit(x, asset, upload), Known(Holds(x)), x.pc # "over", UNCHANGED <<asset, upload>>,
           \A a \in RunIds : Known(Keeps(saved'[a]))
    PROVE  /\ Runs(run', asset', upload') /\ OnceEach(run', asset', upload')
           /\ Sessions(Held(run', saved'), upload') /\ Len(run') = Len(run) + 1
           /\ \A phase : Busy(phase, run')
<1> DEFINE n == Len(run) + 1
<1>1. /\ run \in Seq(RunType) /\ Len(run) \in Nat /\ Len(asset) \in Nat /\ Len(upload) \in Nat
      /\ MaxRuns \in Nat /\ n <= MaxRuns /\ n \in Nat
    <2>1. run \in Seq(RunType) /\ Len(run) \in Nat /\ Len(asset) \in Nat /\ Len(upload) \in Nat
          /\ MaxRuns \in Nat
        BY Lengths, Numbers DEF UploadInv, Runs
    <2> QED
        BY <2>1
<1>2. /\ run' \in Seq(RunType) /\ Len(run') = n /\ run'[n] = x
      /\ \A r \in 1 .. Len(run) : run'[r] = run[r]
    BY <1>1, AppendProperties
<1>3. \A r \in 1 .. n : r \in 1 .. Len(run) \/ r = n
    BY <1>1
<1>4. n \in 1 .. n
    BY <1>1
<1> HIDE DEF n
<1>5. Runs(run', asset', upload')
    <2>1. \A r \in 1 .. Len(run) : Fit(run[r], asset, upload)
        BY DEF UploadInv, Runs
    <2> QED
        BY <1>1, <1>2, <1>3, <2>1 DEF Runs
<1>6. ASSUME NEW T
      PROVE  Cardinality(AtPc(run', T)) <= Cardinality(AtPc(run, T)) + 1
    <2> DEFINE O == AtPc(run, T)
               N == AtPc(run', T)
    <2>1. IsFiniteSet(O) /\ Cardinality(O) \in Nat /\ Cardinality(N) \in Nat
        BY <1>1, <1>2, AtPcFinite
    <2>2. N \subseteq O \cup {n}
        BY <1>2, <1>3 DEF AtPc
    <2> HIDE DEF O, N
    <2>3. IsFiniteSet(O \cup {n}) /\ Cardinality(O \cup {n}) \in {Cardinality(O), Cardinality(O) + 1}
        BY <2>1, FS_AddElement
    <2>4. Cardinality(N) <= Cardinality(O \cup {n})
        BY <2>2, <2>3, FS_Subset
    <2> QED
        BY <2>1, <2>3, <2>4 DEF O, N
<1>7. OnceEach(run', asset', upload')
    <2> DEFINE c == Cardinality(AtPc(run, {"create"}))
               d == Cardinality(AtPc(run', {"create"}))
               o == Cardinality(AtPc(run, {"create", "open"}))
               e == Cardinality(AtPc(run', {"create", "open"}))
    <2>1. c \in Nat /\ d \in Nat /\ o \in Nat /\ e \in Nat
        BY <1>1, <1>2, AtPcFinite
    <2>2. d <= c + 1 /\ e <= o + 1
        BY <1>6
    <2>3. Len(asset) + c <= Len(run) /\ Len(upload) + o <= Len(run)
        BY DEF UploadInv, OnceEach
    <2>4. Len(run') = Len(run) + 1 /\ asset' = asset /\ upload' = upload
        BY <1>2 DEF n
    <2> HIDE DEF c, d, o, e
    <2>5. Len(asset') + d <= Len(run') /\ Len(upload') + e <= Len(run')
        BY <1>1, <2>1, <2>2, <2>3, <2>4
    <2> QED
        BY <2>5 DEF OnceEach, d, e
<1>8. Sessions(Held(run', saved'), upload')
    <2>1. Held(run', saved') \subseteq Held(run, saved) \cup Blank
        BY <1>2, <1>3 DEF Held, Known
    <2>2. Sessions(Held(run, saved), upload) /\ Shrunk(upload, upload') /\ Len(upload) \in Nat
        BY <1>1, Unchanging DEF UploadInv
    <2> QED
        BY <2>1, <2>2, SessionsShrink
<1>9. \A phase : Busy(phase, run')
    BY <1>2, <1>4 DEF Busy
<1> QED
    BY <1>2, <1>5, <1>7, <1>8, <1>9 DEF n

LEMMA StartRunKeeps ==
    ASSUME UploadAssumption, UploadInv, Start
    PROVE  UploadInv'
<1> DEFINE ff == Fresh(page.file, page.tab)
           rr == [ff EXCEPT !.asset = page.asset]
           n == Len(run) + 1
<1>1. /\ Len(run) < MaxRuns /\ (page.tab = "upload" => page.file # NoFile)
      /\ \/ /\ page.asset = 0 /\ run' = Append(run, rr) /\ saved' = saved
            /\ page' = [page EXCEPT !.phase = "creating", !.abort = n]
         \/ /\ page.asset # 0 /\ run' = Append(run, Step2(rr)) /\ saved' = Dropped(rr)
            /\ page' = [page EXCEPT !.phase = Step2Phase(rr), !.abort = n]
      /\ UNCHANGED <<upload, aborting, asset, faults, picks, early>>
    BY DEF Start
<1>2. /\ page \in PageType /\ page.asset \in 0 .. Len(asset)
      /\ (page.asset # 0 => page.asset \in RunIds)
      /\ page.file \in Content /\ page.tab \in {"upload", "import"}
    BY PageAsset DEF PageType
<1>3. Len(run) \in Nat /\ Len(asset) \in Nat /\ MaxRuns \in Nat /\ Len(asset) <= MaxRuns
    BY Lengths, Numbers
<1>4. /\ ff \in RunType /\ ff.pc = "create" /\ ff.file = page.file
      /\ ff.tab = page.tab /\ ff.asset = 0 /\ ff.id = 0
      /\ ff.etags = Empty /\ ff.queue = {} /\ \A w \in Pool : ff.pool[w] = Rest
    BY <1>2, FreshIs
<1> HIDE DEF ff
<1>5. rr \in RunType
    <2>1. page.asset \in 0 .. MaxRuns
        BY <1>2, <1>3
    <2> QED
        BY <1>4, <2>1, RunChanges
<1>6. /\ rr.pc = "create" /\ rr.file = page.file /\ rr.tab = page.tab /\ rr.asset = page.asset
      /\ rr.id = 0 /\ rr.etags = Empty /\ \A w \in Pool : rr.pool[w] = Rest
    BY <1>4 DEF RunType
<1> HIDE DEF rr
<1>7. \A w \in Pool : rr.pool[w].pc \in Rested /\ rr.pool[w].part = 0
    BY <1>6, RestIs DEF Rested
<1>8. \A a \in RunIds : Known(Keeps(saved[a]))
    BY DEF Known, Held
<1>9. <<0, rr.file, Empty>> \in Blank /\ <<0, NoFile, Empty>> \in Blank
    <2>1. rr.file \in Content /\ NoFile \in Content
        BY <1>2, <1>6 DEF Content
    <2> QED
        BY <2>1, BlankIs
<1>10. PICK x \in RunType : /\ run' = Append(run, x) /\ Fit(x, asset, upload) /\ x.pc # "over"
                            /\ Known(Holds(x))
                            /\ saved' \in [RunIds -> SessionType]
                            /\ \A a \in RunIds : Known(Keeps(saved'[a]))
    <2>1. CASE page.asset = 0
        <3>1. Placed(rr, asset)
            BY <1>1, <1>2, <1>3, <1>6, <2>1 DEF Placed
        <3>2. Fit(rr, asset, upload)
            BY <1>5, <1>7, <3>1, QuietFits DEF Fit
        <3>3. Known(Holds(rr))
            BY <1>6, <1>9 DEF Known, Holds
        <3>4. saved' \in [RunIds -> SessionType] /\ run' = Append(run, rr) /\ saved' = saved
            BY <1>1, <2>1 DEF UploadInv
        <3> QED
            BY <1>5, <1>6, <1>8, <3>2, <3>3, <3>4
    <2>2. CASE page.asset # 0
        <3>1. rr.asset \in RunIds /\ rr.asset <= Len(asset) /\ saved[rr.asset].id <= MaxRuns
            BY <1>2, <1>3, <1>6, <2>2, SavedFits
        <3>2. saved \in [RunIds -> SessionType] /\ (rr.tab = "upload" => rr.file # NoFile)
            BY <1>1, <1>6 DEF UploadInv
        <3>3. /\ Step2(rr) \in RunType /\ Fit(Step2(rr), asset, upload)
              /\ Step2(rr).pc \notin {"create", "over"}
              /\ Holds(Step2(rr)) \in {<<0, rr.file, Empty>>, Keeps(saved[rr.asset])}
              /\ Dropped(rr) \in [RunIds -> SessionType]
              /\ \A a \in RunIds : Keeps(Dropped(rr)[a]) \in {<<0, NoFile, Empty>>, Keeps(saved[a])}
            BY <1>5, <1>6, <1>7, <3>1, <3>2, Step2Fits
        <3>4. Known(Holds(Step2(rr))) /\ \A a \in RunIds : Known(Keeps(Dropped(rr)[a]))
            BY <1>8, <1>9, <3>1, <3>3 DEF Known
        <3>5. run' = Append(run, Step2(rr)) /\ saved' = Dropped(rr)
            BY <1>1, <2>2
        <3> QED
            BY <3>3, <3>4, <3>5
    <2> QED
        BY <2>1, <2>2
<1>11. /\ Runs(run', asset', upload') /\ OnceEach(run', asset', upload')
       /\ Sessions(Held(run', saved'), upload') /\ Len(run') = n
       /\ \A phase : Busy(phase, run')
    BY <1>1, <1>10, RunAppended
<1>12. Viewed(page', run', asset')
    <2>1. n \in Nat
        BY <1>3
    <2>2. \E phase \in Phases : page' = [page EXCEPT !.phase = phase, !.abort = n]
        BY <1>1 DEF Phases, Step2Phase
    <2> HIDE DEF n
    <2>3. page' \in PageType /\ page'.asset = page.asset /\ page'.abort = n
        BY <1>2, <2>1, <2>2 DEF PageType
    <2>4. page'.asset <= Len(asset) /\ page'.abort <= Len(run')
        BY <1>2, <1>3, <1>11, <2>1, <2>3
    <2> QED
        BY <1>1, <1>11, <2>3, <2>4 DEF Viewed
<1> QED
    BY <1>1, <1>10, <1>11, <1>12 DEF UploadInv

LEMMA AbortsKeep ==
    ASSUME UploadAssumption, UploadInv, NEW id \in aborting, AbortArrives(id) \/ AbortLost(id)
    PROVE  UploadInv'
<1>1. /\ upload \in Seq(MultipartType) /\ Shrunk(upload, upload) /\ id \in 1 .. Len(upload)
      /\ faults \in 0 .. MaxFaults /\ MaxFaults \in Nat
    BY Lengths, Numbers, Unchanging DEF UploadInv
<1>2. \A a \in RunIds : Known(Keeps(saved[a]))
    BY DEF Known, Held
<1>3. aborting' = aborting \ {id} /\ UNCHANGED <<page, run, saved, asset, picks, early>>
    BY DEF AbortArrives, AbortLost
<1>4. faults' \in 0 .. MaxFaults
    BY <1>1 DEF AbortArrives, AbortLost, Fault
<1>5. upload' \in Seq(MultipartType) /\ Shrunk(upload, upload')
    <2>1. CASE upload' = upload
        BY <1>1, <2>1
    <2>2. CASE upload' = [upload EXCEPT ![id] = [state |-> "dropped", parts |-> Empty]]
        <3> DEFINE m == [state |-> "dropped", parts |-> Empty]
        <3>1. m \in MultipartType /\ m.state # "open" /\ \A p \in Parts : m.parts[p] = NoFile
            BY DEF MultipartType, Empty, Content
        <3>2. upload' = [upload EXCEPT ![id] = m]
            BY <2>2
        <3> HIDE DEF m
        <3>3. /\ upload' \in Seq(MultipartType) /\ Len(upload') = Len(upload)
              /\ \A u \in 1 .. Len(upload) : upload'[u] = IF u = id THEN m ELSE upload[u]
            BY <1>1, <3>1, <3>2, ExceptSeq
        <3> QED
            BY <3>1, <3>3 DEF Shrunk
    <2> QED
        BY <2>1, <2>2 DEF AbortArrives, AbortLost
<1>6. /\ Runs(run', asset', upload') /\ OnceEach(run', asset', upload')
      /\ Sessions(Held(run', saved'), upload')
    BY <1>2, <1>3, <1>5, RunsStay
<1>7. aborting' \subseteq 1 .. Len(upload')
    BY <1>3, <1>5 DEF UploadInv, Shrunk
<1> QED
    BY <1>3, <1>4, <1>5, <1>6, <1>7 DEF UploadInv

-----------------------------------------------------------------------------
(* The invariant, and what follows from it.                                 *)

LEMMA InitHolds ==
    ASSUME UploadAssumption, Init
    PROVE  UploadInv
<1>1. /\ page = [phase |-> "idle", tab |-> "upload", file |-> NoFile, asset |-> 0, abort |-> 0]
      /\ run = <<>> /\ saved = [a \in RunIds |-> NoSession]
      /\ upload = <<>> /\ aborting = {} /\ asset = <<>>
      /\ faults = 0 /\ picks = 0 /\ early = FALSE
    BY DEF Init
<1>2. MaxRuns \in Nat /\ MaxFaults \in Nat /\ MaxPicks \in Nat
    BY Numbers
<1>3. /\ run \in Seq(RunType) /\ asset \in Seq(AssetType) /\ upload \in Seq(MultipartType)
      /\ Len(run) = 0 /\ Len(asset) = 0 /\ Len(upload) = 0
    BY <1>1
<1>4. \A i \in 1 .. 0 : FALSE
    OBVIOUS
<1>5. Viewed(page, run, asset)
    <2>1. page \in PageType /\ page.asset = 0 /\ page.abort = 0 /\ page.phase = "idle"
        BY <1>1 DEF PageType, Phases, Content
    <2> QED
        BY <1>3, <2>1 DEF Viewed, Busy, Working
<1>6. Runs(run, asset, upload) /\ Objects(asset)
    BY <1>2, <1>3, <1>4 DEF Runs, Objects
<1>7. OnceEach(run, asset, upload)
    <2>1. \A T : AtPc(run, T) = {}
        BY <1>3, <1>4 DEF AtPc
    <2>2. Cardinality({}) = 0
        BY FS_EmptySet
    <2>3. \A T : Len(asset) + Cardinality(AtPc(run, T)) <= Len(run)
                 /\ Len(upload) + Cardinality(AtPc(run, T)) <= Len(run)
        <3>1. 0 + 0 <= 0
            OBVIOUS
        <3> QED
            BY <1>3, <2>1, <2>2, <3>1
    <2> QED
        BY <2>3 DEF OnceEach
<1>8. saved \in [RunIds -> SessionType] /\ \A a \in RunIds : Keeps(saved[a]) = <<0, NoFile, Empty>>
    <2>1. NoSession \in SessionType /\ Keeps(NoSession) = <<0, NoFile, Empty>>
        BY DEF NoSession, SessionType, Keeps, Content, Empty
    <2> QED
        BY <1>1, <2>1
<1>9. Sessions(Held(run, saved), upload)
    <2>1. \A h \in Held(run, saved) : h = <<0, NoFile, Empty>>
        BY <1>3, <1>4, <1>8 DEF Held
    <2>2. Empty \in [Parts -> Content] /\ (\A p \in Parts : Empty[p] = NoFile) /\ NoFile \in Content
        BY DEF Empty, Content
    <2>3. Stands(<<0, NoFile, Empty>>, upload)
        BY <1>3, <2>2 DEF Stands
    <2>4. Agree(<<0, NoFile, Empty>>, <<0, NoFile, Empty>>)
        BY DEF Agree
    <2> QED
        BY <2>1, <2>3, <2>4 DEF Sessions
<1>10. /\ faults \in 0 .. MaxFaults /\ picks \in 0 .. MaxPicks /\ early \in BOOLEAN
       /\ aborting \subseteq 1 .. Len(upload)
    <2>1. faults \in 0 .. MaxFaults /\ picks \in 0 .. MaxPicks
        BY <1>1, <1>2
    <2>2. early \in BOOLEAN /\ aborting = {}
        BY <1>1
    <2> QED
        BY <2>1, <2>2
<1> QED
    BY <1>3, <1>5, <1>6, <1>7, <1>8, <1>9, <1>10 DEF UploadInv

LEMMA RunStepKeeps ==
    ASSUME UploadAssumption, UploadInv, NEW r \in 1 .. Len(run), RunStep(r)
    PROVE  UploadInv'
<1>1. CASE Created(r)
    BY <1>1, CreatedKeeps
<1>2. CASE Fails(r)
    BY <1>2, FailsKeep
<1>3. CASE Presigned(r) \/ Sent(r) \/ Confirmed(r) \/ Imported(r) \/ Queued(r) \/ CompleteAnswered(r)
    BY <1>3, CallsKeep
<1>4. CASE Joined(r)
    <2>1. (Joined(r) /\ Goto(r, "parts", "complete") /\ UNCHANGED page) \/ Fails(r)
        BY <1>4 DEF Joined, Fails
    <2> QED
        BY <2>1, CallsKeep, FailsKeep
<1>5. CASE Opened(r)
    BY <1>5, OpenedKeeps
<1>6. CASE Assembled(r)
    BY <1>6, AssembledKeeps
<1>7. CASE ProcessAnswered(r)
    BY <1>7, ProcessAnsweredKeeps
<1>8. CASE \E w \in Pool : WorkerStep(r, w)
    <2>1. PICK w \in Pool : WorkerStep(r, w)
        BY <1>8
    <2> QED
        BY <2>1, WorkersKeep, PartStoredKeeps, PartDoneKeeps DEF WorkerStep
<1> QED
    BY <1>1, <1>2, <1>3, <1>4, <1>5, <1>6, <1>7, <1>8 DEF RunStep, Fails

LEMMA StutterKeeps ==
    ASSUME UploadInv, UNCHANGED vars
    PROVE  UploadInv'
BY DEF UploadInv, vars

LEMMA NextKeeps ==
    ASSUME UploadAssumption, UploadInv, [Next]_vars
    PROVE  UploadInv'
<1>1. CASE UserStep
    BY <1>1, UserKeeps, StartRunKeeps DEF UserStep
<1>2. CASE \E r \in 1 .. Len(run) : RunStep(r)
    BY <1>2, RunStepKeeps
<1>3. CASE \E id \in aborting : AbortArrives(id) \/ AbortLost(id)
    BY <1>3, AbortsKeep
<1>4. CASE UNCHANGED vars
    BY <1>4, StutterKeeps
<1> QED
    BY <1>1, <1>2, <1>3, <1>4 DEF Next

LEMMA InvHolds ==
    ASSUME UploadAssumption
    PROVE  Spec => []UploadInv
<1>1. Init => UploadInv
    BY InitHolds
<1>2. UploadInv /\ [Next]_vars => UploadInv'
    BY NextKeeps
<1> QED
    BY <1>1, <1>2, PTL DEF Spec

LEMMA TypedByInv ==
    ASSUME UploadAssumption, UploadInv
    PROVE  TypeOK
<1>1. /\ page \in PageType /\ page.asset \in 0 .. Len(asset) /\ page.abort \in 0 .. Len(run)
    BY PageAsset
<1>2. page \in [phase : Phases, tab : {"upload", "import"}, file : Content,
                asset : 0 .. Len(asset), abort : 0 .. Len(run)]
    BY <1>1 DEF PageType
<1>3. \A r \in 1 .. Len(run) : run[r] \in RunType
    BY AtRun
<1>4. ASSUME NEW a \in RunIds
      PROVE  saved[a] \in [id : 0 .. Len(upload), file : Content, parts : [Parts -> Content]]
    <2>1. saved[a] \in SessionType /\ saved[a].id \in 0 .. Len(upload)
        BY SavedFits
    <2> QED
        BY <2>1 DEF SessionType
<1>5. \A u \in 1 .. Len(upload) : upload[u] \in MultipartType
    BY DEF UploadInv
<1>6. \A a \in 1 .. Len(asset) : asset[a] \in AssetType
    BY DEF UploadInv, Objects
<1>7. /\ faults \in 0 .. MaxFaults /\ picks \in 0 .. MaxPicks /\ early \in BOOLEAN
      /\ aborting \subseteq 1 .. Len(upload)
    BY DEF UploadInv
<1>8. \A r \in 1 .. Len(run) : \A v, w \in Pool :
            v # w /\ Worker(r, v).part # 0 => Worker(r, v).part # Worker(r, w).part
    BY DEF UploadInv, Runs, Fit, Staffed, Worker
<1> QED
    BY <1>2, <1>3, <1>4, <1>5, <1>6, <1>7, <1>8 DEF TypeOK, MultipartType, AssetType

\* Every variable has its type whatever is chosen, cancelled or lost: in
\* particular no part is tried more often than PART_ATTEMPTS, the workers of a
\* run never have the same part, and there are never more assets or uploads
\* than runs of handleStart.
THEOREM UploadTyped == UploadAssumption => (Spec => []TypeOK)
<1> SUFFICES ASSUME UploadAssumption
             PROVE  Spec => []TypeOK
    OBVIOUS
<1>1. UploadInv => TypeOK
    BY TypedByInv
<1> QED
    BY <1>1, InvHolds, PTL

\* An upload that was broken off and resumed, over any number of runs, of
\* workers and of lost answers, and whoever of two runs wrote the session
\* last, yields a source object that is one file from end to end; an asset
\* that is uploaded or queued has one; and a part that the stored session
\* lists as done is in storage while its upload is open.
THEOREM UploadWhole == UploadAssumption => (Spec => []StoredWhole)
<1> SUFFICES ASSUME UploadAssumption
             PROVE  Spec => []StoredWhole
    OBVIOUS
<1>1. UploadInv => StoredWhole
    <2> SUFFICES ASSUME UploadInv
                 PROVE  StoredWhole
        OBVIOUS
    <2>1. WholeFile
        BY DEF WholeFile, UploadInv, Objects, Sound
    <2>2. ASSUME NEW a \in RunIds, saved[a].id # 0, upload[saved[a].id].state = "open",
                 NEW p \in Parts, saved[a].parts[p] # NoFile
          PROVE  saved[a].parts[p] = saved[a].file /\ upload[saved[a].id].parts[p] = saved[a].file
        <3>1. Stands(Keeps(saved[a]), upload)
            BY DEF UploadInv, Sessions, Held
        <3>2. /\ saved[a].parts[p] \in {NoFile, saved[a].file}
              /\ upload[saved[a].id].parts[p] \in {NoFile, saved[a].file}
              /\ upload[saved[a].id].parts[p] # NoFile
            BY <2>2, <3>1 DEF Stands, Keeps
        <3> QED
            BY <2>2, <3>2
    <2>3. ResumeSkipsOnlyStored
        BY <2>2 DEF ResumeSkipsOnlyStored
    <2> QED
        BY <2>1, <2>3 DEF StoredWhole
<1> QED
    BY <1>1, InvHolds, PTL

\* While the page shows a spinner some call of handleStart has yet to report,
\* however many runs a file chosen from the keyboard has set going.
THEOREM UploadNotStuck == UploadAssumption => (Spec => []SomeoneAtWork)
<1> SUFFICES ASSUME UploadAssumption
             PROVE  Spec => []SomeoneAtWork
    OBVIOUS
<1>1. UploadInv => SomeoneAtWork
    BY DEF UploadInv, Viewed, Busy, SomeoneAtWork
<1> QED
    BY <1>1, InvHolds, PTL
=============================================================================
