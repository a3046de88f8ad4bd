-------------------------------- MODULE Tabs --------------------------------
(***************************************************************************)
(* Browser tabs, for model checking: one on the pages of VideoPages, or    *)
(* one that plays a video and reports what was watched (Analytics).  They  *)
(* share no state, so that a behaviour takes the steps of one.             *)
(***************************************************************************)
EXTENDS VideoPages

CONSTANTS
    Heartbeat, FlushEvery, BatchMax, SessionIdle, WatchedMax, CacheTtl,
    Retention, Bucket, Period, Duration, MaxTime, MaxLost,
    MaxMoves            \* bound: inputs of a viewer of Analytics

VARIABLES now, video, client, net, ready, cache, sessions, g, moves, lost, tab

A == INSTANCE Analytics WITH MaxInputs <- MaxMoves, inputs <- moves, row <- sessions

ASSUME AnalyticsAssumption ==
    /\ {Heartbeat, FlushEvery, BatchMax, SessionIdle, WatchedMax, CacheTtl, Bucket, Duration}
         \subseteq Nat \ {0}
    /\ {Retention, Period, MaxTime, MaxMoves, MaxLost} \subseteq Nat

watching == <<now, video, client, net, ready, cache, sessions, g, moves, lost>>

\* The tab that is not there stands still, in one of its initial states.
TabsInit ==
    /\ tab \in {"pages", "player"} /\ Init /\ A!Init
    /\ tab = "pages" => ~client.owner
    /\ tab = "player" => page.admin

PagesNext  == tab = "pages" /\ Next /\ UNCHANGED watching
PlayerNext == tab = "player" /\ A!Next /\ UNCHANGED vars
TabsNext == (PagesNext \/ PlayerNext) /\ UNCHANGED tab

TabsSpec == TabsInit /\ [][TabsNext]_<<vars, watching, tab>>

-----------------------------------------------------------------------------
(* The properties of Analytics, of this instance of it.                    *)


\* What was watched is counted once, refused for no longer than a cache's
\* lifetime, and reported in figures that agree with each other.
WatchReported == A!WatchAccounted /\ A!RefusalsFade /\ A!ReportAgrees
=============================================================================
