---------------------------- MODULE EncodeProofs ----------------------------
(***************************************************************************)
(* Three facts about Encode, for sources of any size and length, any       *)
(* number of attempts and of uploads at once:                              *)
(*                                                                         *)
(*   EncodeTyped  every variable has its type                              *)
(*   Published    what a ready asset plays is in storage whole, by         *)
(*                Tracked, Made and Stored                                 *)
(*   SpriteHolds  a sprite has room for its tiles, by arithmetic           *)
(***************************************************************************)
EXTENDS Encode, FiniteSetTheorems, TLAPS

-----------------------------------------------------------------------------
(* The ladder.                                                              *)

LEMMA Rungs ==
    /\ DOMAIN TRANSCODING_LADDER = 1 .. 7
    /\ TRANSCODING_LADDER[1].quality = "360p" /\ TRANSCODING_LADDER[2].quality = "480p"
    /\ TRANSCODING_LADDER[3].quality = "720p" /\ TRANSCODING_LADDER[4].quality = "1080p"
    /\ TRANSCODING_LADDER[5].quality = "1440p" /\ TRANSCODING_LADDER[6].quality = "2160p"
    /\ TRANSCODING_LADDER[7].quality = "4320p"
BY DEF TRANSCODING_LADDER

(* The first rungs of the ladder, one at least.                             *)
LEMMA LadderIs ==
    ASSUME NEW s \in Source
    PROVE  \E n \in 1 .. 7 : filterLadder(s) = SubSeq(TRANSCODING_LADDER, 1, n)
<1> DEFINE fits == {k \in DOMAIN TRANSCODING_LADDER : TRANSCODING_LADDER[k].height <= ShortSide(s)}
           some == {1} \cup fits
<1>1. some \subseteq 1 .. 7 /\ 1 \in some
    BY DEF TRANSCODING_LADDER
<1> HIDE DEF some, fits
<1>2. \E m \in some : \A k \in some : m >= k
    <2>1. \/ 7 \in some \/ (6 \in some /\ some \subseteq 1 .. 6)
          \/ (5 \in some /\ some \subseteq 1 .. 5)
          \/ (4 \in some /\ some \subseteq 1 .. 4) \/ (3 \in some /\ some \subseteq 1 .. 3)
          \/ (2 \in some /\ some \subseteq 1 .. 2) \/ some \subseteq 1 .. 1
        BY <1>1
    <2> QED
        BY <1>1, <2>1
<1>3. Max(some) \in some
    BY <1>2 DEF Max
<1>4. filterLadder(s) = SubSeq(TRANSCODING_LADDER, 1, Max(some))
    BY DEF filterLadder, some, fits
<1> QED
    BY <1>1, <1>3, <1>4

(* Every rung has a file of its own, which is no other file of the job.     *)
LEMMA LadderFiles ==
    ASSUME NEW s \in Source
    PROVE  /\ Len(filterLadder(s)) \in 1 .. 7
           /\ DOMAIN filterLadder(s) = 1 .. Len(filterLadder(s))
           /\ \A k \in 1 .. Len(filterLadder(s)) :
                /\ filterLadder(s)[k].quality \in Qualities
                /\ \A l \in 1 .. Len(filterLadder(s)) :
                     filterLadder(s)[k].quality = filterLadder(s)[l].quality => k = l
<1>1. PICK n \in 1 .. 7 : filterLadder(s) = SubSeq(TRANSCODING_LADDER, 1, n)
    BY LadderIs
<1>2. /\ \E Entry : TRANSCODING_LADDER \in Seq(Entry)
      /\ Len(TRANSCODING_LADDER) = 7 /\ DOMAIN TRANSCODING_LADDER = 1 .. 7
    <2> DEFINE Entries == {TRANSCODING_LADDER[k] : k \in 1 .. 7}
    <2>1. \A k \in 1 .. 7 : TRANSCODING_LADDER[k] \in Entries
        OBVIOUS
    <2> HIDE DEF Entries
    <2>2. TRANSCODING_LADDER \in Seq(Entries)
        BY <2>1 DEF TRANSCODING_LADDER
    <2>3. Len(TRANSCODING_LADDER) = 7
        BY DEF TRANSCODING_LADDER
    <2> QED
        BY <2>2, <2>3, Rungs
<1>3. /\ Len(filterLadder(s)) = n /\ DOMAIN filterLadder(s) = 1 .. n
      /\ \A k \in 1 .. n : filterLadder(s)[k] = TRANSCODING_LADDER[k]
    BY <1>1, <1>2
<1>4. \A k \in 1 .. 7 : TRANSCODING_LADDER[k].quality \in Qualities
    BY <1>2 DEF Qualities
<1>5. \A k, l \in 1 .. 7 : TRANSCODING_LADDER[k].quality = TRANSCODING_LADDER[l].quality => k = l
    <2> TAKE k, l \in 1 .. 7
    <2>1. /\ k = 1 \/ k = 2 \/ k = 3 \/ k = 4 \/ k = 5 \/ k = 6 \/ k = 7
          /\ l = 1 \/ l = 2 \/ l = 3 \/ l = 4 \/ l = 5 \/ l = 6 \/ l = 7
        OBVIOUS
    <2> QED
        BY <2>1, Rungs
<1>6. ASSUME NEW k \in 1 .. n, NEW l \in 1 .. n
      PROVE  /\ filterLadder(s)[k].quality \in Qualities
             /\ filterLadder(s)[k].quality = filterLadder(s)[l].quality => k = l
    <2>1. k \in 1 .. 7 /\ l \in 1 .. 7
        OBVIOUS
    <2>2. filterLadder(s)[k] = TRANSCODING_LADDER[k] /\ filterLadder(s)[l] = TRANSCODING_LADDER[l]
        BY <1>3
    <2> QED
        BY <1>4, <1>5, <2>1, <2>2
<1> QED
    BY <1>3, <1>6

LEMMA FileNames ==
    /\ Qualities = {"360p", "480p", "720p", "1080p", "1440p", "2160p", "4320p"}
    /\ Qualities \subseteq Files
    /\ {"download", "sprite", "vtt", "poster", "master"} \subseteq Files
    /\ {"download", "sprite", "vtt", "poster", "master", "none"} \cap Qualities = {}
    /\ "none" \notin Files
<1>1. Qualities = {"360p", "480p", "720p", "1080p", "1440p", "2160p", "4320p"}
    <2>1. Qualities = {TRANSCODING_LADDER[k].quality : k \in 1 .. 7}
        BY Rungs DEF Qualities
    <2>2. 1 .. 7 = {1, 2, 3, 4, 5, 6, 7}
        OBVIOUS
    <2> QED
        BY <2>1, <2>2, Rungs
<1> QED
    BY <1>1 DEF Files

-----------------------------------------------------------------------------
(* The sprite.                                                              *)

LEMMA Product ==
    ASSUME NEW a \in Nat, NEW b \in Nat, NEW n \in Nat
    PROVE  /\ a * n \in Nat
           /\ a <= b => a * n <= b * n
           /\ a * n < b * n => a < b
           /\ (a + 1) * n = a * n + n
OBVIOUS

LEMMA Division ==
    ASSUME NEW a \in Nat, NEW b \in Nat \ {0}
    PROVE  a \div b \in Nat /\ (a \div b) * b <= a /\ a < (a \div b) * b + b
OBVIOUS

(* The least multiple of b that is a or more.                               *)
LEMMA Ceiling ==
    ASSUME NEW a \in Nat, NEW b \in Nat \ {0}
    PROVE  /\ CeilDiv(a, b) \in Nat /\ a <= CeilDiv(a, b) * b
           /\ \A n \in Nat : a <= n * b => CeilDiv(a, b) <= n
<1> DEFINE q == CeilDiv(a, b)
<1>1. q \in Nat /\ q * b <= a + b - 1 /\ a + b - 1 < q * b + b
    BY Division, a + b - 1 \in Nat DEF CeilDiv
<1> HIDE DEF q
<1>2. a <= q * b /\ q * b < a + b
    BY <1>1
<1>3. ASSUME NEW n \in Nat, a <= n * b PROVE q <= n
    <2>1. n * b \in Nat /\ q * b < n * b + b
        BY <1>1, <1>2, <1>3
    <2>2. q * b < (n + 1) * b
        BY <2>1, Product
    <2>3. q < n + 1
        BY <1>1, <2>2, Product, n + 1 \in Nat
    <2> QED
        BY <1>1, <2>3
<1> QED
    BY <1>1, <1>2, <1>3 DEF q

LEMMA HeightIs ==
    ASSUME NEW s \in Source
    PROVE  ThumbHeight(s) \in Nat \ {0}
<1> DEFINE round == (2 * ThumbWidth * s.h + s.w) \div (2 * s.w)
<1>1. s.w \in Nat \ {0} /\ s.h \in Nat
    BY DEF Source
<1>2. 2 * ThumbWidth * s.h + s.w \in Nat /\ 2 * s.w \in Nat \ {0}
    BY <1>1 DEF ThumbWidth
<1>3. round \in Nat
    BY <1>2, Division
<1>4. ThumbHeight(s) = IF round + (round % 2) = 0 THEN 90 ELSE round + (round % 2)
    BY DEF ThumbHeight
<1> HIDE DEF round
<1> QED
    BY <1>3, <1>4

(* As many tiles as rows of five fit into the height of a JPEG.             *)
LEMMA TilesFit ==
    ASSUME NEW h \in Nat \ {0}, h <= MaxSpriteDimension
    PROVE  /\ TilesThatFit(h) \in Nat \ {0}
           /\ \E rows \in Nat : TilesThatFit(h) <= rows * 5 /\ rows * h <= MaxSpriteDimension
<1> DEFINE rows == MaxSpriteDimension \div h
<1>1. rows \in Nat /\ rows * h <= MaxSpriteDimension /\ MaxSpriteDimension < rows * h + h
    BY Division, MaxSpriteDimension \in Nat DEF MaxSpriteDimension
<1>2. TilesThatFit(h) = IF AtLeast(rows, 1) * 5 < 400 THEN AtLeast(rows, 1) * 5 ELSE 400
    BY DEF TilesThatFit, Cols, MaxTiles
<1> HIDE DEF rows
<1>3. rows >= 1
    <2>1. rows = 0 => rows * h = 0
        OBVIOUS
    <2> QED
        BY <1>1, <2>1 DEF MaxSpriteDimension
<1>4. AtLeast(rows, 1) = rows
    BY <1>1, <1>3 DEF AtLeast
<1> QED
    BY <1>1, <1>2, <1>3, <1>4

(* The tiles of a sprite: each of them lasts, together they last as long as *)
(* the film, and there is room for them.                                    *)
LEMMA LayoutIs ==
    ASSUME NEW s \in Source, ThumbHeight(s) <= MaxSpriteDimension
    PROVE  LET l == computeSpriteLayout(s)
           IN  /\ l.interval \in Nat \ {0} /\ l.count \in Nat \ {0} /\ l.height \in Nat \ {0}
               /\ s.dur <= l.count * l.interval
               /\ l.rows \in Nat /\ l.count <= l.rows * 5
               /\ l.rows * l.height <= MaxSpriteDimension
<1> DEFINE h     == ThumbHeight(s)
           most  == TilesThatFit(h)
           tiles == AtLeast(CeilDiv(s.dur, BaseInterval), 1)
           step  == IF tiles > most THEN CeilDiv(s.dur, most) ELSE BaseInterval
           count == AtLeast(CeilDiv(s.dur, step), 1)
<1>1. h \in Nat \ {0} /\ s.dur \in Nat
    BY HeightIs DEF Source
<1>2. computeSpriteLayout(s) =
        [interval |-> step, count |-> count, rows |-> CeilDiv(count, 5), height |-> h]
    BY DEF computeSpriteLayout, Cols
<1>3. h <= MaxSpriteDimension
    OBVIOUS
<1>4. most \in Nat \ {0}
    BY <1>1, <1>3, TilesFit
<1>5. PICK fit \in Nat : most <= fit * 5 /\ fit * h <= MaxSpriteDimension
    BY <1>1, <1>3, TilesFit
<1> HIDE DEF h, most
<1>6. step \in Nat \ {0} /\ count \in Nat \ {0} /\ count <= most /\ s.dur <= count * step
    <2>1. CeilDiv(s.dur, 5) \in Nat /\ s.dur <= CeilDiv(s.dur, 5) * 5
        BY <1>1, Ceiling
    <2>2. CeilDiv(s.dur, most) \in Nat /\ s.dur <= CeilDiv(s.dur, most) * most
        BY <1>1, <1>4, Ceiling
    <2>3. step \in Nat \ {0} /\ (CeilDiv(s.dur, step) <= most)
        <3>1. CASE tiles > most
            <4>1. step = CeilDiv(s.dur, most)
                BY <3>1
            <4>2. s.dur > 0
                <5>1. s.dur = 0 => CeilDiv(s.dur, 5) <= 0
                    BY <1>1, Ceiling, 0 <= 0 * 5
                <5> QED
                    BY <1>1, <1>4, <2>1, <3>1, <5>1 DEF AtLeast, BaseInterval
            <4>3. step # 0
                <5>1. CeilDiv(s.dur, most) = 0 => CeilDiv(s.dur, most) * most = 0
                    BY <1>4
                <5> QED
                    BY <1>1, <2>2, <4>1, <4>2, <5>1
            <4>4. s.dur <= most * step
                <5>1. CeilDiv(s.dur, most) * most = most * CeilDiv(s.dur, most)
                    BY <1>4, <2>2
                <5> QED
                    BY <2>2, <4>1, <5>1
            <4> HIDE DEF step
            <4>5. step \in Nat \ {0}
                BY <2>2, <4>1, <4>3
            <4> QED
                BY <1>1, <1>4, <4>4, <4>5, Ceiling
        <3>2. CASE ~ (tiles > most)
            BY <1>4, <2>1, <3>2 DEF AtLeast, BaseInterval
        <3> QED
            BY <3>1, <3>2
    <2> HIDE DEF step
    <2>4. CeilDiv(s.dur, step) \in Nat /\ s.dur <= CeilDiv(s.dur, step) * step
        BY <1>1, <2>3, Ceiling
    <2>5. count \in Nat \ {0} /\ count <= most /\ CeilDiv(s.dur, step) <= count
        BY <1>4, <2>3, <2>4 DEF AtLeast
    <2> HIDE DEF count
    <2>6. CeilDiv(s.dur, step) * step <= count * step
        BY <2>3, <2>4, <2>5, Product
    <2>7. CeilDiv(s.dur, step) * step \in Nat /\ count * step \in Nat
        BY <2>3, <2>4, <2>5, Product
    <2> QED
        BY <1>1, <2>3, <2>4, <2>5, <2>6, <2>7
<1> HIDE DEF step, count
<1>7. CeilDiv(count, 5) \in Nat /\ count <= CeilDiv(count, 5) * 5 /\ CeilDiv(count, 5) <= fit
    BY <1>4, <1>5, <1>6, Ceiling
<1>8. CeilDiv(count, 5) * h <= MaxSpriteDimension
    <2>1. CeilDiv(count, 5) * h <= fit * h
        BY <1>1, <1>5, <1>7, Product
    <2>2. CeilDiv(count, 5) * h \in Nat /\ fit * h \in Nat
        BY <1>1, <1>5, <1>7, Product
    <2> QED
        BY <1>5, <2>1, <2>2 DEF MaxSpriteDimension
<1> QED
    BY <1>1, <1>2, <1>6, <1>7, <1>8

(* What SpriteFits says of a source that generateThumbnails accepts.        *)
LEMMA SpriteRoom ==
    ASSUME src \in Source, ThumbHeight(src) <= MaxSpriteDimension
    PROVE  LET l == computeSpriteLayout(src)
               cues == Cues(src, l)
           IN  /\ l.rows * l.height <= MaxSpriteDimension
               /\ \A c \in cues : c.y + l.height <= l.rows * l.height
               /\ \A c \in cues : c.to = src.dur \/ \E d \in cues : d.from = c.to
               /\ src.dur > 0 => \E c \in cues : c.from = 0
<1> DEFINE l == computeSpriteLayout(src)
           shown == {k \in 0 .. l.count - 1 : k * l.interval < src.dur}
           Cue(i) == [from |-> i * l.interval,
                      to   |-> IF (i + 1) * l.interval < src.dur
                                 THEN (i + 1) * l.interval ELSE src.dur,
                      x    |-> (i % Cols) * ThumbWidth,
                      y    |-> (i \div Cols) * l.height]
<1>1. /\ l.interval \in Nat \ {0} /\ l.count \in Nat \ {0} /\ l.height \in Nat \ {0}
      /\ src.dur <= l.count * l.interval
      /\ l.rows \in Nat /\ l.count <= l.rows * 5
      /\ l.rows * l.height <= MaxSpriteDimension
    BY LayoutIs
<1>2. src.dur \in Nat
    BY DEF Source
<1>3. Cues(src, l) = {Cue(i) : i \in shown}
    BY DEF Cues
<1> HIDE DEF l
<1>4. ASSUME NEW i \in shown
      PROVE  Cue(i).y + l.height <= l.rows * l.height
    <2>1. i \in Nat /\ i + 1 <= l.count
        BY <1>1
    <2>2. i \div 5 \in Nat /\ (i \div 5) * 5 <= i
        BY <2>1, Division
    <2>3. (i \div 5) + 1 <= l.rows
        BY <1>1, <2>1, <2>2
    <2>4. /\ ((i \div 5) + 1) * l.height <= l.rows * l.height
          /\ ((i \div 5) + 1) * l.height = (i \div 5) * l.height + l.height
        BY <1>1, <2>2, <2>3, Product, (i \div 5) + 1 \in Nat
    <2> QED
        BY <2>4 DEF Cols
<1>5. ASSUME NEW i \in shown, Cue(i).to # src.dur
      PROVE  \E k \in shown : Cue(k).from = Cue(i).to
    <2>1. i \in Nat /\ i + 1 \in Nat /\ i + 1 <= l.count
        BY <1>1
    <2>2. (i + 1) * l.interval < src.dur /\ Cue(i).to = (i + 1) * l.interval
        BY <1>5
    <2>3. (i + 1) * l.interval < l.count * l.interval
        BY <1>1, <1>2, <2>1, <2>2, Product
    <2>4. i + 1 < l.count
        BY <1>1, <2>1, <2>3, Product
    <2>5. i + 1 \in shown
        BY <1>1, <2>1, <2>2, <2>4
    <2> QED
        BY <2>2, <2>5
<1>6. ASSUME src.dur > 0
      PROVE  0 \in shown /\ Cue(0).from = 0
    BY <1>1, <1>2, <1>6
<1>7. \A c \in Cues(src, l) : c.y + l.height <= l.rows * l.height
    BY <1>3, <1>4
<1>8. \A c \in Cues(src, l) : c.to = src.dur \/ \E d \in Cues(src, l) : d.from = c.to
    <2> HIDE DEF Cue, shown
    <2> QED
        BY <1>3, <1>5
<1>9. src.dur > 0 => \E c \in Cues(src, l) : c.from = 0
    <2> HIDE DEF Cue, shown
    <2> QED
        BY <1>3, <1>6
<1> QED
    BY <1>1, <1>7, <1>8, <1>9 DEF l

-----------------------------------------------------------------------------
(* The invariants.                                                          *)

Job == [pc : Pcs, attempt : 0 .. MaxAttempts, hop : 0 .. MaxRedirects, rung : 1 .. 7,
        left : SUBSET Files, fly : SUBSET Files, outcome : {"none", "retry", "failed", "ready"}]

(* An attempt is counted from one; a job that will run again has attempts   *)
(* left; an outcome is known from the catch block on.                       *)
JobTracked ==
    /\ job \in Job /\ job.rung <= Len(Ladder)
    /\ job.pc \in AttemptPcs => job.attempt >= 1
    /\ (job.pc \in {"waiting", "down"} \/ job.outcome = "retry") => job.attempt < MaxAttempts
    /\ job.outcome # "none" => job.pc \in {"cleanup", "over"}
    /\ job.pc # "upload" => job.left = {} /\ job.fly = {}

Tracked == TypeOK /\ JobTracked

Rung(k) == Ladder[k].quality
Tidied == {"download", "sprite", "vtt"}
(* Those of the files that are tidied up that no failed removal has left.   *)
Tidy == Tidied \ kept
Needed == {Rung(k) : k \in 1 .. Len(Ladder)} \cup {"master"}

(* The file of the ffmpeg that a step of the job waits for.                 *)
Output ==
    CASE job.pc = "rung" -> Rung(job.rung)
      [] job.pc = "download" -> "download"
      [] job.pc = "sprite" -> "sprite"
      [] OTHER -> "poster"

(* The rungs whose file is whole: those before the one being made.          *)
RungsMade ==
    /\ job.pc \in {"resolve", "probe", "quota"} => job.rung = 1
    /\ \A k \in 1 .. Len(Ladder) :
         \/ job.pc = "rung" /\ k < job.rung
         \/ job.pc = "measure" /\ k <= job.rung
         \/ job.pc \in {"download", "sprite", "vtt", "poster", "poster at 0", "playlist", "upload"}
         => files[Rung(k)] = "whole"

(* The processes and the directory of the attempt: an ffmpeg left behind    *)
(* has nothing open that will be published, except the poster and what      *)
(* could not be removed, which is of those that are tidied up.              *)
Made ==
    /\ proc # "none" => job.pc \in FfmpegPcs /\ proc = Output
    /\ (proc = "sprite" \/ job.pc = "vtt") => ThumbHeight(src) <= MaxSpriteDimension
    /\ \A p \in strays : p.linked => \/ p.file \in {"poster"} \cup kept
                                     \/ p.file \in Qualities /\ job.pc = "cleanup"
    /\ kept \subseteq Tidied
    /\ \A f \in Tidy : files[f] = "partial" => proc = f
    /\ job.pc = "upload" => files["master"] = "whole"
    /\ RungsMade

(* Storage: what is needed is being uploaded until it is there whole, and   *)
(* an upload that lands late does no harm.                                  *)
Stored ==
    /\ \A f \in Tidy : bucket[f] # "partial"
    /\ \A put \in late : /\ put[1] \in Needed => put[2] = "whole"
                         /\ put[1] \in Tidy => put[2] # "partial"
    /\ \A f \in Needed :
         /\ job.pc = "upload" => f \in job.left \cup job.fly \/ bucket[f] = "whole"
         /\ (job.pc = "finish" \/ job.outcome = "ready") => bucket[f] = "whole"

Inv == Tracked /\ Made /\ Stored

Busy == AttemptPcs \ {"cleanup"}

-----------------------------------------------------------------------------
(* What the steps share.                                                    *)

LEMMA SourceStays == [Next]_vars => src' = src
BY DEF Next, vars, Start, Resolve, Redirected, SourceBlocked, ResolveFails, Probe, ProbeFails,
       WithinQuota, QuotaExceeded, transcodeRendition, createDownloadableMp4, generateThumbnails,
       extractPosterThumbnail, runFfmpeg, SpawnFails, Succeeds, Breaks, TimesOut, StrayWrites,
       StrayEnds, ForceKill, Measure, MeasureFails, WriteVtt, VttFails, WritePlaylist,
       PlaylistFails, NextBatch, PutDone, PutGivenUp, LateLands, Uploaded, Finish, FinishFails,
       Cleanup, Crash, Boot, Fails

(* What a failed removal has left is never forgotten.                       *)
LEMMA TidyShrinks ==
    ASSUME kept \subseteq kept'
    PROVE  Tidy' \subseteq Tidy /\ Tidied' = Tidied
BY DEF Tidy, Tidied

LEMMA KeptGrows == [Next]_vars => kept \subseteq kept'
<1>1. ASSUME NEW fs, NEW others, rm(fs, others) PROVE kept \subseteq kept'
    BY <1>1 DEF rm
<1>2. ASSUME NEW others, Rejected(files, others) PROVE kept \subseteq kept'
    BY <1>1, <1>2 DEF Rejected
<1>3. SpawnFails \/ Breaks \/ TimesOut \/ VttFails => kept \subseteq kept'
    BY <1>1, <1>2 DEF SpawnFails, Breaks, TimesOut, VttFails
<1>4. [Next]_vars => kept' = kept \/ SpawnFails \/ Breaks \/ TimesOut \/ VttFails
    BY DEF Next, vars, Start, Resolve, Redirected, SourceBlocked, ResolveFails, Probe,
       ProbeFails, WithinQuota, QuotaExceeded, transcodeRendition, createDownloadableMp4,
       generateThumbnails, extractPosterThumbnail, runFfmpeg, Succeeds, StrayWrites, StrayEnds,
       ForceKill, Measure, MeasureFails, WriteVtt, WritePlaylist, PlaylistFails, NextBatch,
       PutDone, PutGivenUp, LateLands, Uploaded, Finish, FinishFails, Cleanup, Crash, Boot, Fails
<1> QED
    BY <1>3, <1>4

(* The ladder of the source, and the names of the files of its rungs.       *)
LEMMA RungFiles ==
    ASSUME src \in Sources
    PROVE  /\ Len(Ladder) \in 1 .. 7
           /\ \A k \in 1 .. Len(Ladder) :
                /\ Rung(k) \in Qualities /\ Rung(k) \in Files
                /\ Rung(k) \notin Tidied \cup Tidy \cup {"poster", "master", "none"}
                /\ \A l \in 1 .. Len(Ladder) : Rung(k) = Rung(l) => k = l
           /\ Needed \cap Tidied = {} /\ "poster" \notin Needed /\ Needed \subseteq Files
           /\ Tidied \subseteq Files /\ Tidy \subseteq Tidied
<1>1. src \in Source
    BY EncodeAssumption
<1>2. /\ Len(Ladder) \in 1 .. 7
      /\ \A k \in 1 .. Len(Ladder) :
           /\ Rung(k) \in Qualities
           /\ \A l \in 1 .. Len(Ladder) : Rung(k) = Rung(l) => k = l
    BY <1>1, LadderFiles DEF Ladder, Rung
<1> HIDE DEF Rung
<1>3. \A k \in 1 .. Len(Ladder) :
        /\ Rung(k) \in Files
        /\ Rung(k) \notin Tidied \cup Tidy \cup {"poster", "master", "none"}
    BY <1>2, FileNames DEF Tidied, Tidy
<1> QED
    BY <1>2, <1>3, FileNames DEF Needed, Tidied, Tidy

LEMMA Lengths ==
    ASSUME src \in Sources
    PROVE  Len(Ladder) \in Nat /\ 1 <= Len(Ladder) /\ Len(Ladder) <= 7
<1> DEFINE n == Len(Ladder)
<1>1. n \in 1 .. 7
    BY RungFiles
<1> HIDE DEF n
<1>2. n \in Nat /\ 1 <= n /\ n <= 7
    BY <1>1
<1> QED
    BY <1>2 DEF n

LEMMA Limits ==
    /\ MaxAttempts \in Nat \ {0} /\ UploadBatch \in Nat \ {0} /\ MaxRuns \in Nat \ {0}
    /\ MaxRedirects \in Nat /\ MaxKept \in Nat
BY EncodeAssumption

LEMMA LadderStays ==
    ASSUME src' = src
    PROVE  /\ Ladder' = Ladder /\ Needed' = Needed
           /\ \A k : Rung(k)' = Rung(k)
BY DEF Ladder, Needed, Rung

(* The next files of a listing are files of it: a finite set has a part of  *)
(* every smaller size.                                                      *)
LEMMA NextIsOfListing ==
    ASSUME NEW listing, IsFiniteSet(listing)
    PROVE  NextOf(listing) \subseteq listing
<1>1. Cardinality(listing) \in Nat /\ ExistsBijection(1 .. Cardinality(listing), listing)
    BY FS_CardinalityType
<1>2. CASE Cardinality(listing) < UploadBatch
    <2>1. \E batch \in SUBSET listing : Cardinality(batch) = Cardinality(listing)
        OBVIOUS
    <2> QED
        BY <1>2, <2>1 DEF NextOf
<1>3. CASE ~ (Cardinality(listing) < UploadBatch)
    <2>1. PICK order \in [1 .. Cardinality(listing) -> listing] :
            \A i, k \in 1 .. Cardinality(listing) : order[i] = order[k] => i = k
        BY <1>1 DEF ExistsBijection, Bijection, Injection, IsInjective
    <2> DEFINE batch == {order[i] : i \in 1 .. UploadBatch}
               first == [i \in 1 .. UploadBatch |-> order[i]]
    <2>2. 1 .. UploadBatch \subseteq 1 .. Cardinality(listing) /\ UploadBatch \in Nat
        BY <1>1, <1>3, EncodeAssumption
    <2>3. batch \in SUBSET listing
        BY <2>1, <2>2
    <2>4. first \in Bijection(1 .. UploadBatch, batch)
        BY <2>1, <2>2 DEF Bijection, Injection, Surjection, IsInjective
    <2>5. Cardinality(batch) = UploadBatch
        BY <2>2, <2>4, FS_CountingElements DEF ExistsBijection
    <2> QED
        BY <1>3, <2>3, <2>5 DEF NextOf
<1> QED
    BY <1>2, <1>3

LEMMA FilesFinite == ASSUME NEW part \in SUBSET Files PROVE IsFiniteSet(part)
<1>1. Files = {"360p", "480p", "720p", "1080p", "1440p", "2160p", "4320p",
               "download", "sprite", "vtt", "poster", "master"}
    BY FileNames DEF Files
<1> DEFINE order == <<"360p", "480p", "720p", "1080p", "1440p", "2160p", "4320p",
                      "download", "sprite", "vtt", "poster", "master">>
<1>2. order \in Surjection(1 .. 12, Files)
    BY <1>1 DEF Surjection
<1>3. IsFiniteSet(Files)
    BY <1>2, FS_NatSurjection, 12 \in Nat DEF ExistsSurjection
<1> QED
    BY <1>3, FS_Subset

-----------------------------------------------------------------------------
(* The job.                                                                 *)

LEMMA GotoTracked ==
    ASSUME JobTracked, src' = src, NEW pc \in Busy, Goto(pc), job.pc \in Busy,
           job.left = {}, job.fly = {}
    PROVE  JobTracked' /\ job'.pc = pc /\ job'.outcome = "none" /\ job'.rung = job.rung
<1>1. /\ job' = [job EXCEPT !.pc = pc] /\ pc \in Pcs /\ job \in Job
      /\ job.outcome = "none" /\ job.attempt >= 1
    BY DEF Goto, Busy, Pcs, JobTracked, AttemptPcs, FfmpegPcs
<1>2. /\ job' \in Job /\ job'.pc = pc /\ job'.attempt = job.attempt /\ job'.rung = job.rung
      /\ job'.left = {} /\ job'.fly = {} /\ job'.outcome = "none"
    BY <1>1 DEF Job
<1>3. /\ Ladder' = Ladder /\ job.rung <= Len(Ladder)
      /\ pc \notin {"waiting", "down", "cleanup", "over"}
    BY LadderStays DEF Busy, AttemptPcs, FfmpegPcs, JobTracked
<1> QED
    BY <1>1, <1>2, <1>3 DEF JobTracked

LEMMA CaughtTracked ==
    ASSUME JobTracked, src' = src, job.pc \in AttemptPcs, NEW kind, Caught(kind)
    PROVE  JobTracked' /\ job'.pc = "cleanup" /\ job'.outcome \in {"retry", "failed"}
<1> DEFINE new == IF kind = "error" /\ job.attempt < MaxAttempts THEN "retry" ELSE "failed"
<1>1. /\ job' = [job EXCEPT !.pc = "cleanup", !.fly = {}, !.left = {}, !.outcome = new]
      /\ job \in Job /\ job.attempt >= 1
    BY DEF Caught, JobTracked
<1>2. new \in {"retry", "failed"} /\ (new = "retry" => job.attempt < MaxAttempts)
    OBVIOUS
<1> HIDE DEF new
<1>3. /\ job' \in Job /\ job'.pc = "cleanup" /\ job'.attempt = job.attempt
      /\ job'.rung = job.rung /\ job'.left = {} /\ job'.fly = {} /\ job'.outcome = new
    BY <1>1, <1>2 DEF Job, Pcs, AttemptPcs
<1>4. Ladder' = Ladder /\ job.rung <= Len(Ladder)
    BY LadderStays DEF JobTracked
<1> QED
    BY <1>1, <1>2, <1>3, <1>4 DEF JobTracked

LEMMA WaitingTracked ==
    ASSUME JobTracked, src' = src, src \in Sources, NEW n \in 0 .. MaxAttempts,
           NEW pc \in {"waiting", "down", "resolve"},
           IF pc = "resolve" THEN n >= 1 ELSE n < MaxAttempts,
           job' = [Waiting(n) EXCEPT !.pc = pc]
    PROVE  JobTracked' /\ job'.pc = pc /\ job'.outcome = "none" /\ job'.rung = 1
<1>1. /\ job' \in Job /\ job'.pc = pc /\ job'.attempt = n /\ job'.rung = 1
      /\ job'.left = {} /\ job'.fly = {} /\ job'.outcome = "none"
    <2>1. Waiting(n) \in Job
        BY Limits DEF Waiting, Job, Pcs
    <2> QED
        BY <2>1 DEF Waiting, Job, Pcs, AttemptPcs, FfmpegPcs
<1>2. Ladder' = Ladder /\ 1 <= Len(Ladder)
    BY LadderStays, Lengths
<1> QED
    BY <1>1, <1>2 DEF JobTracked, AttemptPcs, FfmpegPcs

(* Where the job is when an ffmpeg ends, and where it goes.                 *)
LEMMA FollowingIs ==
    ASSUME job.pc \in FfmpegPcs, NEW ok \in BOOLEAN
    PROVE  /\ job.pc \in Busy /\ Following(ok) \in Busy
           /\ Following(ok) \in {"measure", "sprite", "vtt", "poster", "playlist", "poster at 0"}
           /\ Following(ok) = "measure" => job.pc = "rung"
           /\ Following(ok) = "vtt" => job.pc = "sprite" /\ ok
BY DEF FfmpegPcs, Following, Busy, AttemptPcs

LEMMA JobStep ==
    ASSUME Inv, [Next]_vars
    PROVE  JobTracked'
<1>1. /\ src' = src /\ TypeOK /\ JobTracked /\ src \in Sources /\ job \in Job
      /\ proc # "none" => job.pc \in FfmpegPcs
    BY SourceStays DEF Inv, Tracked, TypeOK, JobTracked, Made
<1>2. job.pc \in Busy => job.pc \in AttemptPcs /\ job.outcome = "none"
    BY <1>1 DEF Busy, JobTracked, AttemptPcs, FfmpegPcs
<1>3. job.pc \in FfmpegPcs => job.pc \in Busy /\ job.left = {} /\ job.fly = {}
    BY <1>1 DEF Busy, AttemptPcs, FfmpegPcs, JobTracked
<1>4. CASE job' = job
    BY <1>1, <1>4, LadderStays DEF JobTracked
<1>5. CASE Start
    <2>1. job.pc = "waiting" /\ job' = [Waiting(job.attempt + 1) EXCEPT !.pc = "resolve"]
        BY <1>5 DEF Start
    <2>2. job.attempt + 1 \in 0 .. MaxAttempts /\ job.attempt + 1 >= 1
        BY <1>1, <2>1, Limits DEF JobTracked, Job
    <2> QED
        BY <1>1, <2>1, <2>2, WaitingTracked
<1>6. ASSUME NEW pcs, NEW kinds, Fails(pcs, kinds), pcs \subseteq Busy PROVE JobTracked'
    BY <1>1, <1>2, <1>6, CaughtTracked DEF Fails
<1>7. CASE SourceBlocked \/ ResolveFails \/ ProbeFails \/ QuotaExceeded \/ MeasureFails
           \/ PlaylistFails \/ FinishFails
    BY <1>6, <1>7 DEF SourceBlocked, ResolveFails, ProbeFails, QuotaExceeded, MeasureFails,
                      PlaylistFails, FinishFails, Busy, AttemptPcs
<1>8. CASE Resolve
    <2>1. job.pc = "resolve" /\ job' = [job EXCEPT !.pc = "probe", !.hop = 0]
        BY <1>8 DEF Resolve
    <2>2. 0 \in 0 .. MaxRedirects
        BY Limits
    <2>3. /\ job' \in Job /\ job'.pc = "probe" /\ job'.attempt = job.attempt
          /\ job'.rung = job.rung /\ job'.left = job.left /\ job'.fly = job.fly
          /\ job'.outcome = job.outcome
        BY <1>1, <2>1, <2>2 DEF Job, Pcs, AttemptPcs
    <2> QED
        BY <1>1, <2>1, <2>3, LadderStays DEF JobTracked, AttemptPcs
<1>9. CASE Redirected
    <2>1. job.pc = "resolve" /\ job.hop < MaxRedirects /\ job' = [job EXCEPT !.hop = @ + 1]
        BY <1>9 DEF Redirected
    <2>2. job.hop + 1 \in 0 .. MaxRedirects
        BY <1>1, <2>1, Limits DEF Job
    <2>3. /\ job' \in Job /\ job'.pc = "resolve" /\ job'.attempt = job.attempt
          /\ job'.rung = job.rung /\ job'.left = job.left /\ job'.fly = job.fly
          /\ job'.outcome = job.outcome
        BY <1>1, <2>1, <2>2 DEF Job
    <2> QED
        BY <1>1, <2>1, <2>3, LadderStays DEF JobTracked, AttemptPcs
<1>10. ASSUME NEW from \in Busy, NEW pc \in Busy, from # "upload", job.pc = from, Goto(pc)
       PROVE  JobTracked'
    BY <1>1, <1>10, GotoTracked DEF JobTracked
<1>11. CASE Probe \/ WithinQuota \/ WriteVtt \/ VttFails
    BY <1>10, <1>11 DEF Probe, WithinQuota, WriteVtt, VttFails, Busy, AttemptPcs, FfmpegPcs
<1>12. CASE Uploaded
    <2>1. job.pc \in Busy /\ job.left = {} /\ job.fly = {} /\ Goto("finish") /\ "finish" \in Busy
        BY <1>12 DEF Uploaded, Busy, AttemptPcs
    <2> QED
        BY <1>1, <2>1, GotoTracked
<1>13. ASSUME job.pc \in FfmpegPcs, NEW ok \in BOOLEAN, Goto(Following(ok))
       PROVE  JobTracked'
    BY <1>1, <1>3, <1>13, FollowingIs, GotoTracked
<1>14. ASSUME NEW fs, NEW others, job.pc \in FfmpegPcs, Rejected(fs, others) PROVE JobTracked'
    <2>1. CASE job.pc = "rung"
        BY <1>1, <1>2, <1>3, <1>14, <2>1, CaughtTracked DEF Rejected
    <2>2. CASE job.pc # "rung"
        BY <1>13, <1>14, <2>2 DEF Rejected
    <2> QED
        BY <2>1, <2>2
<1>15. CASE SpawnFails \/ Breaks \/ TimesOut
    BY <1>1, <1>14, <1>15 DEF SpawnFails, Breaks, TimesOut
<1>16. CASE Succeeds
    BY <1>1, <1>13, <1>16 DEF Succeeds
<1>17. CASE Measure
    <2>1. CASE job.rung < Len(Ladder)
        <3>1. job.pc = "measure" /\ job' = [job EXCEPT !.pc = "rung", !.rung = @ + 1]
            BY <1>17, <2>1 DEF Measure
        <3>2. job.rung + 1 \in 1 .. 7 /\ job.rung + 1 <= Len(Ladder)
            BY <1>1, <2>1, Lengths DEF Job
        <3>3. /\ job' \in Job /\ job'.pc = "rung" /\ job'.attempt = job.attempt
              /\ job'.rung = job.rung + 1 /\ job'.left = job.left /\ job'.fly = job.fly
              /\ job'.outcome = job.outcome
            BY <1>1, <3>1, <3>2 DEF Job, Pcs, AttemptPcs, FfmpegPcs
        <3> QED
            BY <1>1, <3>1, <3>2, <3>3, LadderStays DEF JobTracked, AttemptPcs
    <2>2. CASE ~ (job.rung < Len(Ladder))
        BY <1>10, <1>17, <2>2 DEF Measure, Busy, AttemptPcs, FfmpegPcs
    <2> QED
        BY <2>1, <2>2
<1>18. CASE WritePlaylist
    <2>1. /\ job.pc = "playlist"
          /\ job' = [job EXCEPT !.pc = "upload", !.left = There \cup {"master"}]
        BY <1>18 DEF WritePlaylist
    <2>2. There \cup {"master"} \subseteq Files
        BY FileNames DEF There
    <2>3. /\ job' \in Job /\ job'.pc = "upload" /\ job'.attempt = job.attempt
          /\ job'.rung = job.rung /\ job'.outcome = job.outcome
        BY <1>1, <2>1, <2>2 DEF Job, Pcs, AttemptPcs
    <2> QED
        BY <1>1, <2>1, <2>3, LadderStays DEF JobTracked, AttemptPcs
<1>19. CASE NextBatch
    <2>1. /\ job.pc = "upload"
          /\ job' = [job EXCEPT !.left = @ \ NextOf(@), !.fly = NextOf(job.left)]
        BY <1>19 DEF NextBatch
    <2>2. NextOf(job.left) \subseteq Files /\ job.left \ NextOf(job.left) \subseteq Files
        BY <1>1, FilesFinite, NextIsOfListing DEF Job
    <2>3. /\ job' \in Job /\ job'.pc = "upload" /\ job'.attempt = job.attempt
          /\ job'.rung = job.rung /\ job'.outcome = job.outcome
        BY <1>1, <2>1, <2>2 DEF Job
    <2> QED
        BY <1>1, <2>1, <2>3, LadderStays DEF JobTracked
<1>20. CASE PutDone
    <2>1. PICK f \in job.fly : job' = [job EXCEPT !.fly = @ \ {f}]
        BY <1>20 DEF PutDone
    <2>2. job.pc = "upload"
        BY <1>1, <2>1 DEF JobTracked
    <2>3. /\ job' \in Job /\ job'.pc = "upload" /\ job'.attempt = job.attempt
          /\ job'.rung = job.rung /\ job'.outcome = job.outcome
        BY <1>1, <2>1, <2>2 DEF Job
    <2> QED
        BY <1>1, <2>2, <2>3, LadderStays DEF JobTracked
<1>21. CASE PutGivenUp
    <2>1. job.pc = "upload" /\ Caught("error")
        BY <1>1, <1>21 DEF PutGivenUp, JobTracked
    <2> QED
        BY <1>1, <2>1, CaughtTracked DEF AttemptPcs
<1>22. CASE Finish
    <2>1. job.pc = "finish" /\ job' = [job EXCEPT !.pc = "cleanup", !.outcome = "ready"]
        BY <1>22 DEF Finish
    <2>2. /\ job' \in Job /\ job'.pc = "cleanup" /\ job'.attempt = job.attempt
          /\ job'.rung = job.rung /\ job'.left = job.left /\ job'.fly = job.fly
          /\ job'.outcome = "ready"
        BY <1>1, <2>1 DEF Job, Pcs, AttemptPcs
    <2> QED
        BY <1>1, <2>1, <2>2, LadderStays DEF JobTracked, AttemptPcs
<1>23. ASSUME job' = [job EXCEPT !.pc = "over"], job.pc # "upload" PROVE JobTracked'
    <2>1. /\ job' \in Job /\ job'.pc = "over" /\ job'.attempt = job.attempt
          /\ job'.rung = job.rung /\ job'.left = job.left /\ job'.fly = job.fly
          /\ job'.outcome = job.outcome
        BY <1>1, <1>23 DEF Job, Pcs
    <2> QED
        BY <1>1, <1>23, <2>1, LadderStays DEF JobTracked, AttemptPcs, FfmpegPcs
<1>24. CASE Cleanup
    <2>1. CASE job.outcome = "retry"
        <3>1. job' = [Waiting(job.attempt) EXCEPT !.pc = "waiting"]
            <4>1. job' = Waiting(job.attempt)
                BY <1>24, <2>1 DEF Cleanup
            <4>2. Waiting(job.attempt) = [Waiting(job.attempt) EXCEPT !.pc = "waiting"]
                BY DEF Waiting
            <4> QED
                BY <4>1, <4>2
        <3>2. job.attempt \in 0 .. MaxAttempts /\ job.attempt < MaxAttempts
            BY <1>1, <2>1 DEF JobTracked, Job
        <3> QED
            BY <1>1, <3>1, <3>2, WaitingTracked
    <2>2. CASE job.outcome # "retry"
        BY <1>23, <1>24, <2>2 DEF Cleanup
    <2> QED
        BY <2>1, <2>2
<1>25. CASE Crash
    <2>1. job.pc \in AttemptPcs /\ job.attempt \in 0 .. MaxAttempts /\ job.attempt >= 1
        BY <1>1, <1>25 DEF Crash, JobTracked, Job
    <2>2. CASE job.outcome \in {"ready", "failed"}
        <3>1. job' = [job EXCEPT !.pc = "over"]
            BY <1>25, <2>2 DEF Crash
        <3>2. job.pc # "upload"
            BY <1>1, <2>2 DEF JobTracked
        <3> QED
            BY <1>23, <3>1, <3>2
    <2>3. CASE job.outcome = "retry"
        <3>1. job' = [Waiting(job.attempt) EXCEPT !.pc = "down"]
            BY <1>25, <2>3 DEF Crash
        <3>2. job.attempt < MaxAttempts
            BY <1>1, <2>3 DEF JobTracked
        <3> QED
            BY <1>1, <2>1, <3>1, <3>2, WaitingTracked
    <2>4. CASE job.outcome = "none"
        <3>1. job' = [Waiting(job.attempt - 1) EXCEPT !.pc = "down"]
            BY <1>25, <2>4 DEF Crash
        <3>2. job.attempt - 1 \in 0 .. MaxAttempts /\ job.attempt - 1 < MaxAttempts
            BY <2>1, Limits
        <3> QED
            BY <1>1, <3>1, <3>2, WaitingTracked
    <2>5. job.outcome \in {"none", "retry", "failed", "ready"}
        BY <1>1 DEF Job
    <2> QED
        BY <2>2, <2>3, <2>4, <2>5
<1>26. CASE Boot
    <2>1. job.pc = "down" /\ job' = [job EXCEPT !.pc = "waiting"]
        BY <1>26 DEF Boot, Goto
    <2>2. /\ job' \in Job /\ job'.pc = "waiting" /\ job'.attempt = job.attempt
          /\ job'.rung = job.rung /\ job'.left = job.left /\ job'.fly = job.fly
          /\ job'.outcome = job.outcome
        BY <1>1, <2>1 DEF Job, Pcs
    <2> QED
        BY <1>1, <2>1, <2>2, LadderStays DEF JobTracked, AttemptPcs, FfmpegPcs
<1>27. CASE \/ transcodeRendition \/ createDownloadableMp4 \/ generateThumbnails
            \/ extractPosterThumbnail \/ StrayWrites \/ StrayEnds \/ ForceKill \/ LateLands
            \/ UNCHANGED vars
    BY <1>4, <1>27 DEF transcodeRendition, createDownloadableMp4, generateThumbnails,
         extractPosterThumbnail, runFfmpeg, StrayWrites, StrayEnds, ForceKill, LateLands, vars
<1> QED
    BY <1>5, <1>7, <1>8, <1>9, <1>11, <1>12, <1>15, <1>16, <1>17, <1>18, <1>19, <1>20, <1>21,
       <1>22, <1>24, <1>25, <1>26, <1>27 DEF Next

-----------------------------------------------------------------------------
(* The types of the other variables.                                        *)

LEMMA FilesStep ==
    ASSUME Inv, [Next]_vars
    PROVE  files' \in [Files -> Contents] /\ bucket' \in [Files -> Contents]
<1>1. /\ files \in [Files -> Contents] /\ bucket \in [Files -> Contents]
      /\ NoFiles \in [Files -> Contents]
    BY DEF Inv, Tracked, TypeOK, NoFiles, Contents
<1>2. \A f, c : c \in Contents => [files EXCEPT ![f] = c] \in [Files -> Contents]
    BY <1>1
<1>3. \A f, c : c \in Contents => [bucket EXCEPT ![f] = c] \in [Files -> Contents]
    BY <1>1
<1>4. \A fs \in [Files -> Contents] : \A gone : Without(fs, gone) \in [Files -> Contents]
    BY DEF Without, Contents
<1>5. {"none", "partial", "whole"} \subseteq Contents
    BY DEF Contents
<1>6. files' \in [Files -> Contents]
    <2>1. ASSUME NEW output, runFfmpeg(output) PROVE files' \in [Files -> Contents]
        BY <1>2, <1>5, <2>1 DEF runFfmpeg
    <2>2. CASE transcodeRendition \/ createDownloadableMp4 \/ generateThumbnails
               \/ extractPosterThumbnail
        BY <2>1, <2>2 DEF transcodeRendition, createDownloadableMp4, generateThumbnails,
                          extractPosterThumbnail
    <2>3. CASE Succeeds \/ StrayWrites \/ WriteVtt \/ WritePlaylist
        <3>1. \E f, c : c \in Contents /\ files' = [files EXCEPT ![f] = c]
            BY <1>5, <2>3, Zenon DEF Succeeds, StrayWrites, WriteVtt, WritePlaylist
        <3> QED
            BY <1>2, <3>1
    <2>4. CASE SpawnFails \/ Breaks \/ TimesOut \/ VttFails
        <3>1. ASSUME NEW fs \in [Files -> Contents], NEW others, rm(fs, others)
              PROVE  files' \in [Files -> Contents]
            BY <1>4, <3>1 DEF rm
        <3>2. ASSUME NEW others, Rejected(files, others) PROVE files' \in [Files -> Contents]
            BY <1>1, <3>1, <3>2 DEF Rejected
        <3>3. VttFails => files' \in [Files -> Contents]
            BY <1>2, <1>5, <3>1 DEF VttFails
        <3> QED
            BY <2>4, <3>2, <3>3 DEF SpawnFails, Breaks, TimesOut
    <2>5. CASE Cleanup \/ Crash
        BY <1>1, <2>5 DEF Cleanup, Crash
    <2>6. CASE ~ (\/ transcodeRendition \/ createDownloadableMp4 \/ generateThumbnails
                  \/ extractPosterThumbnail \/ Succeeds \/ StrayWrites \/ WriteVtt
                  \/ WritePlaylist \/ SpawnFails \/ Breaks \/ TimesOut \/ VttFails
                  \/ Cleanup \/ Crash)
        BY <1>1, <2>6 DEF Next, vars, Start, Resolve, Redirected, SourceBlocked, ResolveFails,
             Probe, ProbeFails, WithinQuota, QuotaExceeded, StrayEnds, ForceKill, Measure,
             MeasureFails, PlaylistFails, NextBatch, PutDone, PutGivenUp, LateLands, Uploaded,
             Finish, FinishFails, Boot, Fails
    <2> QED
        BY <2>2, <2>3, <2>4, <2>5, <2>6
<1>7. bucket' \in [Files -> Contents]
    <2>1. CASE PutDone
        <3>1. PICK f \in job.fly : bucket' = [bucket EXCEPT ![f] = files[f]]
            BY <2>1 DEF PutDone
        <3>2. files[f] \in Contents
            BY <1>1, <3>1 DEF Inv, Tracked, TypeOK
        <3> QED
            BY <1>3, <3>1, <3>2
    <2>2. CASE LateLands
        <3>1. PICK put \in late : bucket' = [bucket EXCEPT ![put[1]] = put[2]]
            BY <2>2 DEF LateLands
        <3>2. put[2] \in Contents
            BY <3>1 DEF Inv, Tracked, TypeOK
        <3> QED
            BY <1>3, <3>1, <3>2
    <2>3. CASE ~ (PutDone \/ LateLands)
        BY <1>1, <2>3 DEF Next, vars, Start, Resolve, Redirected, SourceBlocked, ResolveFails,
             Probe, ProbeFails, WithinQuota, QuotaExceeded, transcodeRendition,
             createDownloadableMp4, generateThumbnails, extractPosterThumbnail, runFfmpeg,
             SpawnFails, Succeeds, Breaks, TimesOut, StrayWrites, StrayEnds, ForceKill, Measure,
             MeasureFails, WriteVtt, VttFails, WritePlaylist, PlaylistFails, NextBatch,
             PutGivenUp, Uploaded, Finish, FinishFails, Cleanup, Crash, Boot, Fails
    <2> QED
        BY <2>1, <2>2, <2>3
<1> QED
    BY <1>6, <1>7

LEMMA ProcessStep ==
    ASSUME Inv, [Next]_vars
    PROVE  proc' \in Files \cup {"none"} /\ strays' \subseteq [file : Files, linked : BOOLEAN]
<1> DEFINE Stray == [file : Files, linked : BOOLEAN]
<1>1. proc \in Files \cup {"none"} /\ strays \subseteq Stray /\ src \in Sources
      /\ job.rung \in 1 .. Len(Ladder)
    BY DEF Inv, Tracked, TypeOK
<1>2. proc' \in Files \cup {"none"}
    <2>1. CASE transcodeRendition
        BY <1>1, <2>1, RungFiles DEF transcodeRendition, runFfmpeg, Rung
    <2>2. CASE createDownloadableMp4 \/ generateThumbnails \/ extractPosterThumbnail
        BY <2>2, FileNames DEF createDownloadableMp4, generateThumbnails,
                               extractPosterThumbnail, runFfmpeg
    <2>3. CASE ~ (\/ transcodeRendition \/ createDownloadableMp4 \/ generateThumbnails
                  \/ extractPosterThumbnail)
        BY <1>1, <2>3 DEF Next, vars, Start, Resolve, Redirected, SourceBlocked, ResolveFails,
             Probe, ProbeFails, WithinQuota, QuotaExceeded,
             SpawnFails, Succeeds, Breaks, TimesOut, StrayWrites, StrayEnds, ForceKill, Measure,
             MeasureFails, WriteVtt, VttFails, WritePlaylist, PlaylistFails, NextBatch, PutDone,
             PutGivenUp, LateLands, Uploaded, Finish, FinishFails, Cleanup, Crash, Boot, Fails
    <2> QED
        BY <2>1, <2>2, <2>3
<1>3. \A p \in Stray : [p EXCEPT !.linked = FALSE] \in Stray
    OBVIOUS
<1>4. strays' \subseteq Stray
    <2>1. ASSUME NEW others \in SUBSET Stray, Rejected(files, others)
          PROVE  strays' \subseteq Stray
        <3> HIDE DEF Stray
        <3>1. CASE job.pc = "rung"
            BY <2>1, <3>1 DEF Rejected
        <3>2. CASE job.pc # "rung"
            <4>1. \E gone : strays' = Unlinked(others, gone)
                BY <2>1, <3>2 DEF Rejected, rm
            <4> QED
                BY <1>3, <4>1 DEF Unlinked
        <3> QED
            BY <3>1, <3>2
    <2>2. CASE SpawnFails \/ Breaks
        BY <1>1, <2>1, <2>2 DEF SpawnFails, Breaks
    <2>3. CASE TimesOut
        <3>1. {[file |-> proc, linked |-> TRUE]} \subseteq Stray
            BY <1>1, <2>3 DEF TimesOut
        <3> QED
            BY <2>1, <2>3, <3>1 DEF TimesOut
    <2>4. CASE VttFails \/ Cleanup
        <3> HIDE DEF Stray
        <3>1. CASE VttFails
            <4>1. \E gone : strays' = Unlinked(strays, gone)
                BY <3>1 DEF VttFails, rm
            <4> QED
                BY <1>1, <1>3, <4>1 DEF Unlinked
        <3>2. CASE Cleanup
            BY <1>1, <1>3, <3>2 DEF Cleanup
        <3> QED
            BY <2>4, <3>1, <3>2
    <2>5. CASE StrayEnds \/ ForceKill \/ Crash
        BY <1>1, <2>5 DEF StrayEnds, ForceKill, Kill, Crash
    <2>6. CASE ~ (SpawnFails \/ Breaks \/ TimesOut \/ VttFails \/ Cleanup \/ StrayEnds
                  \/ ForceKill \/ Crash)
        BY <1>1, <2>6 DEF Next, vars, Start, Resolve, Redirected, SourceBlocked, ResolveFails,
             Probe, ProbeFails, WithinQuota, QuotaExceeded, transcodeRendition,
             createDownloadableMp4, generateThumbnails, extractPosterThumbnail, runFfmpeg,
             Succeeds, StrayWrites, Measure, MeasureFails, WriteVtt, WritePlaylist,
             PlaylistFails, NextBatch, PutDone, PutGivenUp, LateLands, Uploaded, Finish,
             FinishFails, Boot, Fails
    <2> QED
        BY <2>2, <2>3, <2>4, <2>5, <2>6
<1> QED
    BY <1>2, <1>4

LEMMA CountStep ==
    ASSUME Inv, [Next]_vars
    PROVE  /\ late' \subseteq Files \X Contents
           /\ crashes' \in 0 .. MaxRuns /\ leftover' \in 0 .. crashes'
<1>1. /\ late \subseteq Files \X Contents /\ crashes \in 0 .. MaxRuns /\ leftover \in 0 .. crashes
      /\ files \in [Files -> Contents] /\ job.fly \subseteq Files /\ job.attempt \in Nat
    BY DEF Inv, Tracked, TypeOK
<1>2. CASE PutGivenUp
    BY <1>1, <1>2 DEF PutGivenUp
<1>3. CASE LateLands
    BY <1>1, <1>3 DEF LateLands
<1>4. CASE Crash
    <2>1. job.attempt + crashes < MaxRuns /\ crashes' = crashes + 1 /\ leftover' = leftover + 1
          /\ late' = {}
        BY <1>4 DEF Crash
    <2> QED
        BY <1>1, <2>1, Limits
<1>5. CASE Boot
    BY <1>1, <1>5 DEF Boot
<1>6. CASE ~ (PutGivenUp \/ LateLands \/ Crash \/ Boot)
    BY <1>1, <1>6 DEF Next, vars, Start, Resolve, Redirected, SourceBlocked, ResolveFails,
         Probe, ProbeFails, WithinQuota, QuotaExceeded, transcodeRendition,
         createDownloadableMp4, generateThumbnails, extractPosterThumbnail, runFfmpeg,
         SpawnFails, Succeeds, Breaks, TimesOut, StrayWrites, StrayEnds, ForceKill, Measure,
         MeasureFails, WriteVtt, VttFails, WritePlaylist, PlaylistFails, NextBatch, PutDone,
         Uploaded, Finish, FinishFails, Cleanup, Fails
<1> QED
    BY <1>2, <1>3, <1>4, <1>5, <1>6

(* Only what is tidied up can be left.                                      *)
LEMMA RemovedTidied == Removed \subseteq Tidied /\ Tidied \subseteq Files
BY FileNames DEF Removed, Tidied

LEMMA KeptStep ==
    ASSUME Inv, [Next]_vars
    PROVE  kept' \subseteq Tidied /\ kept' \subseteq Files
<1>1. kept \subseteq Tidied
    BY DEF Inv, Made
<1>2. ASSUME NEW fs, NEW others, rm(fs, others) PROVE kept' \subseteq Tidied
    BY <1>1, <1>2, RemovedTidied DEF rm
<1>3. ASSUME NEW others, Rejected(files, others) PROVE kept' \subseteq Tidied
    BY <1>1, <1>2, <1>3 DEF Rejected
<1>4. CASE SpawnFails \/ Breaks \/ TimesOut \/ VttFails
    BY <1>2, <1>3, <1>4, RemovedTidied DEF SpawnFails, Breaks, TimesOut, VttFails
<1>5. CASE ~ (SpawnFails \/ Breaks \/ TimesOut \/ VttFails)
    <2>1. kept' = kept
        BY <1>5 DEF Next, vars, Start, Resolve, Redirected, SourceBlocked, ResolveFails, Probe,
           ProbeFails, WithinQuota, QuotaExceeded, transcodeRendition, createDownloadableMp4,
           generateThumbnails, extractPosterThumbnail, runFfmpeg, Succeeds, StrayWrites,
           StrayEnds, ForceKill, Measure, MeasureFails, WriteVtt, WritePlaylist, PlaylistFails,
           NextBatch, PutDone, PutGivenUp, LateLands, Uploaded, Finish, FinishFails, Cleanup,
           Crash, Boot, Fails
    <2> QED
        BY <1>1, <2>1, RemovedTidied
<1> QED
    BY <1>4, <1>5, RemovedTidied

LEMMA TrackedStep ==
    ASSUME Inv, [Next]_vars
    PROVE  Tracked'
<1>1. JobTracked' /\ src' = src /\ src \in Sources
    BY JobStep, SourceStays DEF Inv, Tracked, TypeOK
<1>2. job'.pc \in Pcs /\ job'.attempt \in 0 .. MaxAttempts /\ job'.hop \in 0 .. MaxRedirects
      /\ job'.left \subseteq Files /\ job'.fly \subseteq Files
      /\ job'.outcome \in {"none", "retry", "failed", "ready"}
      /\ job'.rung \in 1 .. 7 /\ job'.rung <= Len(Ladder')
    BY <1>1 DEF JobTracked, Job
<1>3. job'.rung \in 1 .. Len(Ladder')
    BY <1>1, <1>2, Lengths, LadderStays
<1> QED
    BY <1>1, <1>2, <1>3, FilesStep, ProcessStep, CountStep, KeptStep DEF Tracked, TypeOK

-----------------------------------------------------------------------------
(* The processes and the directory.                                         *)

LEMMA MovesTo ==
    ASSUME job \in Job, NEW pc \in Pcs, Goto(pc)
    PROVE  /\ job'.pc = pc /\ job'.rung = job.rung /\ job'.left = job.left
           /\ job'.fly = job.fly /\ job'.outcome = job.outcome
BY DEF Goto, Job

(* A step that touches neither a process nor the directory.                 *)
LEMMA QuietMade ==
    ASSUME Made, src' = src, UNCHANGED <<proc, files, strays, kept>>, proc = "none",
           job.pc # "cleanup", job'.pc # "vtt", job'.pc = "upload" => job.pc = "upload",
           RungsMade'
    PROVE  Made'
BY TidyShrinks DEF Made

(* A step after which no ffmpeg runs and no cues are about to be written.   *)
LEMMA IdleMade ==
    ASSUME proc' = "none", job'.pc # "vtt", kept' \subseteq Tidied, RungsMade',
           \A p \in strays' : p.linked => \/ p.file \in {"poster"} \cup kept'
                                          \/ p.file \in Qualities /\ job'.pc = "cleanup",
           \A f \in Tidied \ kept' : files'[f] # "partial",
           job'.pc = "upload" => files'["master"] = "whole"
    PROVE  Made'
<1>1. Tidied' = Tidied /\ Tidy' = Tidied \ kept'
    BY DEF Tidied, Tidy
<1> QED
    BY <1>1 DEF Made

LEMMA NoRungs ==
    ASSUME job'.pc \in {"cleanup", "finish", "waiting", "down", "over"}
    PROVE  RungsMade'
BY DEF RungsMade

LEMMA RunMade ==
    ASSUME Inv, src' = src, NEW output, runFfmpeg(output), output = Output,
           job.pc \in FfmpegPcs,
           output = "sprite" => ThumbHeight(src) <= MaxSpriteDimension
    PROVE  Made'
<1>1. /\ proc = "none" /\ proc' = output /\ job' = job /\ strays' = strays /\ kept' = kept
      /\ files' = [files EXCEPT ![output] = "partial"]
      /\ files \in [Files -> Contents] /\ src \in Sources /\ job.rung \in 1 .. Len(Ladder)
    BY DEF runFfmpeg, Inv, Tracked, TypeOK
<1>2. Output' = Output
    BY <1>1, LadderStays DEF Output
<1>3. proc' # "none" => job'.pc \in FfmpegPcs /\ proc' = Output'
    BY <1>1, <1>2
<1>4. (proc' = "sprite" \/ job'.pc = "vtt") => ThumbHeight(src') <= MaxSpriteDimension
    BY <1>1 DEF FfmpegPcs
<1>5. \A p \in strays' : p.linked => \/ p.file \in {"poster"} \cup kept'
                                     \/ p.file \in Qualities /\ job'.pc = "cleanup"
    <2>1. strays' = strays /\ kept' = kept /\ job' = job
        BY <1>1
    <2> QED
        BY <2>1, Zenon DEF Inv, Made
<1>9. kept' \subseteq Tidied' /\ Tidy' \subseteq Tidy
    <2>1. kept' = kept /\ kept \subseteq Tidied
        BY <1>1 DEF Inv, Made
    <2> QED
        BY <2>1, TidyShrinks
<1>6. \A f \in Tidy : files'[f] = "partial" => proc' = f
    <2>1. \A f \in Tidy : files[f] # "partial"
        BY <1>1, RungFiles, "none" \notin Tidied DEF Inv, Made, Tidied
    <2> QED
        BY <1>1, <2>1, RungFiles
<1>7. job'.pc # "upload" /\ job'.pc \notin {"resolve", "probe", "quota", "measure"}
    BY <1>1 DEF FfmpegPcs
<1>8. RungsMade'
    <2>1. ASSUME NEW k \in 1 .. Len(Ladder), job.pc = "rung" => k < job.rung
          PROVE  files'[Rung(k)] = "whole"
        <3>1. files[Rung(k)] = "whole" /\ Rung(k) \in Files
            BY <1>1, <2>1, RungFiles DEF Inv, Made, RungsMade, FfmpegPcs
        <3>2. Rung(k) # output
            <4>1. CASE job.pc = "rung"
                <5>1. output = Rung(job.rung) /\ k # job.rung
                    BY <1>1, <2>1, <4>1 DEF Output
                <5> QED
                    BY <1>1, <5>1, RungFiles
            <4>2. CASE job.pc # "rung"
                BY <1>1, <4>2, RungFiles DEF Output, FfmpegPcs, Tidied
            <4> QED
                BY <4>1, <4>2
        <3> QED
            BY <1>1, <3>1, <3>2
    <2> QED
        BY <1>1, <1>7, <2>1, LadderStays DEF RungsMade, FfmpegPcs
<1> QED
    BY <1>3, <1>4, <1>5, <1>6, <1>7, <1>8, <1>9, <1>1 DEF Made

LEMMA SucceedsMade ==
    ASSUME Inv, src' = src, Succeeds
    PROVE  Made'
<1>1. /\ proc # "none" /\ proc' = "none" /\ strays' = strays /\ Goto(Following(TRUE))
      /\ kept' = kept
      /\ files' = [files EXCEPT ![proc] = "whole"]
      /\ files \in [Files -> Contents] /\ src \in Sources /\ job.rung \in 1 .. Len(Ladder)
      /\ job \in Job
    BY DEF Succeeds, Inv, Tracked, TypeOK, JobTracked
<1>2. job.pc \in FfmpegPcs /\ proc = Output
    BY <1>1 DEF Inv, Made
<1>3. /\ Following(TRUE) \in Busy
      /\ Following(TRUE) \in {"measure", "sprite", "vtt", "poster", "playlist", "poster at 0"}
      /\ Following(TRUE) = "measure" <=> job.pc = "rung"
      /\ Following(TRUE) = "vtt" => job.pc = "sprite"
    BY <1>2, FollowingIs DEF Following
<1>4. job'.pc = Following(TRUE) /\ job'.rung = job.rung
    BY <1>1, <1>3, MovesTo DEF Busy, Pcs
<1>5. (proc' = "sprite" \/ job'.pc = "vtt") => ThumbHeight(src') <= MaxSpriteDimension
    <2>1. job.pc = "sprite" => proc = "sprite"
        BY <1>2 DEF Output
    <2> QED
        BY <1>1, <1>3, <1>4, <2>1 DEF Inv, Made
<1>6. /\ \A p \in strays' : p.linked => \/ p.file \in {"poster"} \cup kept'
                                        \/ p.file \in Qualities /\ job'.pc = "cleanup"
      /\ kept' \subseteq Tidied' /\ Tidy' \subseteq Tidy
    BY <1>1, <1>2, TidyShrinks DEF Inv, Made, FfmpegPcs
<1>7. \A f \in Tidy : files'[f] # "partial"
    BY <1>1, RungFiles DEF Inv, Made
<1>8. RungsMade'
    <2>1. ASSUME NEW k \in 1 .. Len(Ladder), job.pc = "rung" => k <= job.rung
          PROVE  files'[Rung(k)] = "whole"
        <3>1. Rung(k) \in Files
            BY <1>1, RungFiles
        <3>2. files[Rung(k)] = "whole" \/ Rung(k) = proc
            <4>1. CASE job.pc = "rung" /\ k = job.rung
                BY <1>2, <4>1 DEF Output
            <4>2. CASE job.pc # "rung" \/ k < job.rung
                BY <1>2, <4>2 DEF Inv, Made, RungsMade, FfmpegPcs
            <4> QED
                BY <1>1, <2>1, <4>1, <4>2
        <3> QED
            BY <1>1, <3>1, <3>2
    <2> QED
        BY <1>3, <1>4, <2>1, LadderStays DEF RungsMade
<1> QED
    BY <1>1, <1>3, <1>4, <1>5, <1>6, <1>7, <1>8 DEF Made

LEMMA RejectedMade ==
    ASSUME Inv, src' = src, job.pc \in FfmpegPcs, proc' = "none",
           NEW others \in SUBSET [file : Files, linked : BOOLEAN], Rejected(files, others),
           \A p \in others : p.linked => p.file \in {"poster", Output} \cup kept
    PROVE  Made'
<1>1. /\ files \in [Files -> Contents] /\ src \in Sources /\ job.rung \in 1 .. Len(Ladder)
      /\ job \in Job /\ JobTracked /\ kept \subseteq Tidied
    BY DEF Inv, Tracked, TypeOK, JobTracked, Made
<1>2. \A f \in Tidy : files[f] = "partial" => f = Output
    BY DEF Inv, Made, Tidied, Tidy
<1>3. CASE job.pc = "rung"
    <2>1. Caught("error") /\ files' = files /\ strays' = others /\ kept' = kept
        BY <1>3 DEF Rejected
    <2>2. job'.pc = "cleanup"
        BY <1>1, <1>3, <2>1, CaughtTracked DEF AttemptPcs, FfmpegPcs
    <2>3. Output \in Qualities /\ Output \notin Tidied /\ Tidy \subseteq Tidied
        <3>1. Output = Rung(job.rung)
            BY <1>3 DEF Output
        <3> QED
            BY <1>1, <3>1, RungFiles
    <2>4. RungsMade'
        BY <2>2, NoRungs
    <2>5. Tidy' \subseteq Tidy /\ Tidied' = Tidied
        BY <2>1, TidyShrinks
    <2> QED
        BY <1>1, <1>2, <2>1, <2>2, <2>3, <2>4, <2>5 DEF Made
<1>4. CASE job.pc # "rung"
    <2> PICK stay \in SUBSET {f \in Removed : files[f] # "none"} :
            /\ files' = Without(files, Removed \ stay)
            /\ strays' = Unlinked(others, Removed \ stay)
            /\ kept' = kept \cup stay
        BY <1>4 DEF Rejected, rm
    <2>1. Goto(Following(FALSE)) /\ stay \subseteq Removed
        BY <1>4 DEF Rejected
    <2>2. Following(FALSE) \in {"sprite", "poster", "playlist", "poster at 0"}
        BY <1>4, FollowingIs DEF Following, FfmpegPcs
    <2>3. job'.pc = Following(FALSE) /\ job'.rung = job.rung
        BY <1>1, <2>1, <2>2, MovesTo DEF Pcs, AttemptPcs, FfmpegPcs
    <2>4. /\ Removed \subseteq Tidied /\ (Output \in Removed \/ Output = "poster")
          /\ kept' \subseteq Tidied /\ kept \subseteq kept' /\ Tidied \subseteq Files
        BY <1>1, <1>4, <2>1, RemovedTidied DEF Removed, Output, FfmpegPcs
    <2>5. \A p \in strays' : p.linked => p.file \in {"poster"} \cup kept'
        <3>1. ASSUME NEW p \in others
              PROVE  LET q == IF p.file \in Removed \ stay THEN [p EXCEPT !.linked = FALSE] ELSE p
                     IN  q.linked => q.file \in {"poster"} \cup kept'
            <4>1. CASE p.file \in Removed \ stay
                <5>1. [p EXCEPT !.linked = FALSE].linked = FALSE
                    BY p \in [file : Files, linked : BOOLEAN]
                <5> QED
                    BY <4>1, <5>1
            <4>2. CASE p.file \notin Removed \ stay
                BY <2>4, <4>2, p.linked => p.file \in {"poster", Output} \cup kept
            <4> QED
                BY <4>1, <4>2
        <3> QED
            BY <3>1 DEF Unlinked
    <2>6. Tidy' \subseteq Tidied /\ Tidied' = Tidied /\ \A f \in Tidy' : files'[f] # "partial"
        <3>1. ASSUME NEW f \in Tidy'
              PROVE  f \in Tidied /\ f \in Tidy /\ files'[f] # "partial"
            <4>1. f \in Tidied /\ f \in Tidy /\ f \notin stay /\ f \in Files
                BY <2>4 DEF Tidy, Tidied
            <4>2. files'[f] = IF f \in Removed \ stay THEN "none" ELSE files[f]
                BY <4>1 DEF Without
            <4>3. f = Output => f \in Removed
                BY <2>4, <4>1 DEF Tidied
            <4> QED
                BY <1>2, <4>1, <4>2, <4>3
        <3> QED
            BY <3>1 DEF Tidied
    <2>7. RungsMade'
        <3>1. ASSUME NEW k \in 1 .. Len(Ladder) PROVE files'[Rung(k)] = "whole"
            <4>1. files[Rung(k)] = "whole"
                BY <1>4 DEF Inv, Made, RungsMade, FfmpegPcs
            <4>2. Rung(k) \in Files /\ Rung(k) \notin Removed
                BY <1>1, <2>4, RungFiles
            <4> QED
                BY <4>1, <4>2 DEF Without
        <3> QED
            BY <2>2, <2>3, <3>1, LadderStays DEF RungsMade
    <2>8. \A f \in Tidied \ kept' : files'[f] # "partial"
        BY <2>6 DEF Tidy
    <2> QED
        BY <2>2, <2>3, <2>4, <2>5, <2>7, <2>8, IdleMade
<1> QED
    BY <1>3, <1>4

LEMMA MadeStep ==
    ASSUME Inv, [Next]_vars
    PROVE  Made'
<1>1. /\ files \in [Files -> Contents] /\ strays \subseteq [file : Files, linked : BOOLEAN]
      /\ src \in Sources /\ job.rung \in 1 .. Len(Ladder) /\ proc \in Files \cup {"none"}
      /\ job \in Job /\ JobTracked /\ Made /\ src' = src /\ kept \subseteq Tidied
      /\ kept \subseteq kept' /\ Tidy' \subseteq Tidy /\ Tidied' = Tidied
    BY SourceStays, KeptGrows, TidyShrinks DEF Inv, Tracked, TypeOK, JobTracked, Made
<1>2. job.pc \notin FfmpegPcs => proc = "none"
    BY <1>1 DEF Made
<1>3. CASE Start
    <2>1. /\ job.pc = "waiting" /\ UNCHANGED <<proc, files, strays, kept>>
          /\ job'.pc = "resolve" /\ job'.rung = 1
        BY <1>3 DEF Start, Waiting
    <2>2. RungsMade'
        BY <2>1 DEF RungsMade
    <2> QED
        BY <1>1, <1>2, <2>1, <2>2, QuietMade DEF FfmpegPcs
<1>4. ASSUME NEW pcs, NEW kinds, Fails(pcs, kinds),
             pcs \subseteq AttemptPcs \ (FfmpegPcs \cup {"cleanup"})
      PROVE  Made'
    <2>1. job'.pc = "cleanup" /\ UNCHANGED <<proc, files, strays, kept>> /\ job.pc \in pcs
        BY <1>1, <1>4, CaughtTracked DEF Fails
    <2> QED
        BY <1>1, <1>2, <1>4, <2>1, NoRungs, QuietMade
<1>5. CASE SourceBlocked \/ ResolveFails \/ ProbeFails \/ QuotaExceeded \/ MeasureFails
           \/ PlaylistFails \/ FinishFails
    BY <1>4, <1>5 DEF SourceBlocked, ResolveFails, ProbeFails, QuotaExceeded, MeasureFails,
                      PlaylistFails, FinishFails, AttemptPcs, FfmpegPcs
<1>6. CASE Resolve \/ Redirected \/ Probe
    <2>1. /\ job.pc \in {"resolve", "probe"} /\ UNCHANGED <<proc, files, strays, kept>>
          /\ job'.pc \in {"resolve", "probe", "quota"} /\ job'.rung = job.rung
        BY <1>1, <1>6 DEF Resolve, Redirected, Probe, Goto, Job
    <2>2. RungsMade'
        BY <1>1, <2>1 DEF Made, RungsMade
    <2> QED
        BY <1>1, <1>2, <2>1, <2>2, QuietMade DEF FfmpegPcs
<1>7. CASE WithinQuota
    <2>1. /\ job.pc = "quota" /\ UNCHANGED <<proc, files, strays, kept>>
          /\ job'.pc = "rung" /\ job'.rung = 1
        BY <1>1, <1>7 DEF WithinQuota, Goto, Job, Made, RungsMade
    <2>2. RungsMade'
        BY <2>1 DEF RungsMade
    <2> QED
        BY <1>1, <1>2, <2>1, <2>2, QuietMade DEF FfmpegPcs
<1>8. CASE Measure
    <2>1. /\ job.pc = "measure" /\ UNCHANGED <<proc, files, strays, kept>>
          /\ \/ job'.pc = "rung" /\ job'.rung = job.rung + 1
             \/ job'.pc = "download" /\ ~ (job.rung < Len(Ladder))
        BY <1>1, <1>8 DEF Measure, Goto, Job
    <2>2. RungsMade'
        <3>1. \A k \in 1 .. Len(Ladder) : k <= job.rung => files'[Rung(k)] = "whole"
            BY <1>1, <2>1 DEF Made, RungsMade
        <3>2. ASSUME NEW k \in 1 .. Len(Ladder), job'.pc = "rung" => k < job'.rung
              PROVE  files'[Rung(k)] = "whole"
            <4>1. k <= job.rung
                BY <1>1, <2>1, <3>2, Lengths
            <4> QED
                BY <3>1, <4>1
        <3> QED
            BY <1>1, <2>1, <3>2, LadderStays DEF RungsMade
    <2> QED
        BY <1>1, <1>2, <2>1, <2>2, QuietMade DEF FfmpegPcs
<1>9. CASE NextBatch \/ PutDone
    <2>1. job.pc = "upload" /\ UNCHANGED <<proc, files, strays, kept>>
        BY <1>1, <1>9 DEF NextBatch, PutDone, JobTracked
    <2>2. job'.pc = "upload"
        BY <1>1, <1>9, <2>1 DEF NextBatch, PutDone, Job
    <2>3. RungsMade'
        BY <1>1, <2>1, <2>2, LadderStays DEF Made, RungsMade
    <2> QED
        BY <1>1, <1>2, <2>1, <2>2, <2>3, QuietMade DEF FfmpegPcs
<1>10. CASE PutGivenUp
    <2>1. job.pc = "upload" /\ UNCHANGED <<proc, files, strays, kept>> /\ Caught("error")
        BY <1>1, <1>10 DEF PutGivenUp, JobTracked
    <2>2. job'.pc = "cleanup"
        BY <1>1, <2>1, CaughtTracked DEF AttemptPcs
    <2> QED
        BY <1>1, <1>2, <2>1, <2>2, NoRungs, QuietMade DEF FfmpegPcs
<1>11. CASE Uploaded \/ Finish \/ Boot
    <2>1. /\ job.pc \in {"upload", "finish", "down"} /\ UNCHANGED <<proc, files, strays, kept>>
          /\ job'.pc \in {"finish", "cleanup", "waiting"}
        BY <1>1, <1>11 DEF Uploaded, Finish, Boot, Goto, Job
    <2> QED
        BY <1>1, <1>2, <2>1, NoRungs, QuietMade DEF FfmpegPcs
<1>12. CASE transcodeRendition
    <2>1. job.pc = "rung" /\ runFfmpeg(Rung(job.rung))
        BY <1>12 DEF transcodeRendition, Rung
    <2>2. Output = Rung(job.rung) /\ Rung(job.rung) # "sprite"
        BY <1>1, <2>1, RungFiles DEF Output, Tidied
    <2> QED
        BY <1>1, <2>1, <2>2, RunMade DEF FfmpegPcs
<1>13. CASE createDownloadableMp4 \/ extractPosterThumbnail
    BY <1>1, <1>13, RunMade DEF createDownloadableMp4, extractPosterThumbnail, Output, FfmpegPcs
<1>14. CASE generateThumbnails
    <2>1. ThumbHeight(src) <= MaxSpriteDimension
        <3>1. ThumbHeight(src) \in Nat
            BY <1>1, EncodeAssumption, HeightIs
        <3> QED
            BY <1>14, <3>1 DEF generateThumbnails, TooTall, MaxSpriteDimension
    <2> QED
        BY <1>1, <1>14, <2>1, RunMade DEF generateThumbnails, Output, FfmpegPcs
<1>15. CASE Succeeds
    BY <1>1, <1>15, SucceedsMade
<1>16. CASE SpawnFails \/ Breaks
    <2>1. job.pc \in FfmpegPcs /\ proc' = "none" /\ Rejected(files, strays)
        BY <1>1, <1>16 DEF SpawnFails, Breaks, Made
    <2>2. \A p \in strays : p.linked => p.file \in {"poster", Output} \cup kept
        BY <1>1, <2>1 DEF Made, FfmpegPcs
    <2> QED
        BY <1>1, <2>1, <2>2, RejectedMade
<1>17. CASE TimesOut
    <2> DEFINE others == {[file |-> proc, linked |-> TRUE]}
    <2>1. /\ job.pc \in FfmpegPcs /\ proc' = "none" /\ Rejected(files, others)
          /\ proc = Output /\ proc \in Files
        BY <1>1, <1>17 DEF TimesOut, Made
    <2>2. /\ others \in SUBSET [file : Files, linked : BOOLEAN]
          /\ \A p \in others : p.linked => p.file \in {"poster", Output} \cup kept
        BY <2>1
    <2> HIDE DEF others
    <2> QED
        BY <1>1, <2>1, <2>2, RejectedMade
<1>18. CASE StrayWrites
    <2>1. PICK p \in strays :
            p.linked /\ files[p.file] = "whole" /\ files' = [files EXCEPT ![p.file] = "partial"]
        BY <1>18 DEF StrayWrites
    <2>2. job' = job /\ proc' = proc /\ strays' = strays /\ kept' = kept
        BY <1>18 DEF StrayWrites
    <2>3. /\ p.file \in {"poster"} \cup kept \/ (p.file \in Qualities /\ job.pc = "cleanup")
          /\ p.file \notin Tidy /\ p.file # "master"
        BY <1>1, <2>1, FileNames DEF Made, Tidy, Tidied
    <2>4. \A f \in Files : f # p.file => files'[f] = files[f]
        BY <1>1, <2>1
    <2>5. \A f \in Tidy : files'[f] = files[f]
        BY <1>1, <2>3, <2>4, RungFiles
    <2>6. job.pc = "upload" => files'["master"] = "whole"
        BY <1>1, <2>3, <2>4, FileNames DEF Made
    <2>7. RungsMade'
        <3>1. CASE p.file \in {"poster"} \cup kept
            <4>1. \A k \in 1 .. Len(Ladder) : files'[Rung(k)] = files[Rung(k)]
                BY <1>1, <2>4, <3>1, RungFiles
            <4> QED
                BY <1>1, <2>2, <4>1, LadderStays DEF Made, RungsMade
        <3>2. CASE job.pc = "cleanup"
            BY <2>2, <3>2, NoRungs
        <3> QED
            BY <2>3, <3>1, <3>2
    <2>8. Output' = Output
        BY <1>1, <2>2, LadderStays DEF Output
    <2> QED
        BY <1>1, <2>2, <2>5, <2>6, <2>7, <2>8 DEF Made
<1>19. ASSUME UNCHANGED <<job, proc, files, kept>>, strays' \subseteq strays PROVE Made'
    <2>1. Output' = Output /\ (RungsMade => RungsMade')
        BY <1>1, <1>19, LadderStays DEF Output, RungsMade
    <2> QED
        BY <1>1, <1>19, <2>1 DEF Made
<1>20. CASE StrayEnds \/ ForceKill \/ LateLands \/ UNCHANGED vars
    BY <1>19, <1>20 DEF StrayEnds, ForceKill, Kill, LateLands, vars
<1>21. CASE WriteVtt \/ VttFails
    <2>1. job.pc = "vtt" /\ Goto("poster") /\ proc' = proc /\ proc = "none"
        BY <1>2, <1>21 DEF WriteVtt, VttFails, FfmpegPcs
    <2>2. job'.pc = "poster"
        BY <1>1, <2>1, MovesTo DEF Pcs, AttemptPcs, FfmpegPcs
    <2>3. \A f \in Files : \/ files'[f] = files[f]
                           \/ f \in Tidied /\ (f \in kept' \/ files'[f] # "partial")
        <3>1. CASE WriteVtt
            BY <1>1, <3>1 DEF WriteVtt, Tidied
        <3>2. CASE VttFails
            <4>1. Removed = {"sprite", "vtt"}
                BY <2>1 DEF Removed
            <4>2. PICK part \in {"none", "partial"} : rm([files EXCEPT !["vtt"] = part], strays)
                BY <3>2 DEF VttFails
            <4> DEFINE fs == [files EXCEPT !["vtt"] = part]
            <4>3. PICK stay \in SUBSET Removed :
                    files' = Without(fs, Removed \ stay) /\ kept' = kept \cup stay
                BY <4>2 DEF rm
            <4>4. \A f \in Files : files'[f] = IF f \in Removed \ stay THEN "none" ELSE fs[f]
                BY <4>3 DEF Without
            <4>5. \A f \in Files : f # "vtt" => fs[f] = files[f]
                BY <1>1
            <4> HIDE DEF fs
            <4> QED
                BY <4>1, <4>3, <4>4, <4>5 DEF Tidied
        <3> QED
            BY <1>21, <3>1, <3>2
    <2>4. \A p \in strays' : p.linked => p.file \in {"poster"} \cup kept'
        <3>1. \A p \in strays : p.linked => p.file \in {"poster"} \cup kept
            BY <1>1, <2>1 DEF Made
        <3>2. CASE WriteVtt
            BY <3>1, <3>2 DEF WriteVtt
        <3>3. CASE VttFails
            <4>1. \E gone : strays' = {IF p.file \in gone THEN [p EXCEPT !.linked = FALSE] ELSE p :
                                        p \in strays}
                BY <3>3 DEF VttFails, rm, Unlinked
            <4>2. \A p \in strays : [p EXCEPT !.linked = FALSE].linked = FALSE
                BY <1>1
            <4> QED
                BY <1>1, <3>1, <4>1, <4>2
        <3> QED
            BY <1>21, <3>2, <3>3
    <2>5. RungsMade'
        <3>1. \A k \in 1 .. Len(Ladder) : files'[Rung(k)] = "whole"
            BY <1>1, <2>1, <2>3, RungFiles DEF Made, RungsMade
        <3> QED
            BY <1>1, <2>2, <3>1, LadderStays DEF RungsMade
    <2>6. \A f \in Tidy' : files'[f] # "partial"
        <3>1. \A f \in Tidy' : f \in Tidy /\ f \notin kept' /\ f \in Files /\ f # "none"
            BY <1>1, RungFiles, FileNames DEF Tidy
        <3> QED
            BY <1>1, <2>1, <2>3, <3>1 DEF Made
    <2>7. kept' \subseteq Tidied'
        BY <1>1, KeptStep
    <2> QED
        BY <1>1, <2>1, <2>2, <2>4, <2>5, <2>6, <2>7 DEF Made
<1>22. CASE WritePlaylist
    <2>1. /\ job.pc = "playlist" /\ proc = "none" /\ proc' = "none" /\ strays' = strays
          /\ files' = [files EXCEPT !["master"] = "whole"] /\ job'.pc = "upload"
        BY <1>1, <1>2, <1>22 DEF WritePlaylist, FfmpegPcs, Job
    <2>2. \A f \in Files : files'[f] = IF f = "master" THEN "whole" ELSE files[f]
        BY <1>1, <2>1
    <2>3. RungsMade'
        <3>1. \A k \in 1 .. Len(Ladder) : files'[Rung(k)] = "whole"
            BY <1>1, <2>1, <2>2, RungFiles DEF Made, RungsMade
        <3> QED
            BY <1>1, <2>1, <3>1, LadderStays DEF RungsMade
    <2>4. /\ files'["master"] = "whole" /\ kept' = kept
          /\ \A f \in Tidied \ kept : files'[f] # "partial"
        BY <1>1, <1>22, <2>1, <2>2, RungFiles, FileNames DEF Made, Tidy, Tidied, WritePlaylist
    <2>5. kept' \subseteq Tidied
        BY KeptStep
    <2>6. \A p \in strays' : p.linked => p.file \in {"poster"} \cup kept'
        BY <1>1, <2>1, <2>4 DEF Made
    <2> QED
        BY <2>1, <2>3, <2>4, <2>5, <2>6, IdleMade
<1>23. CASE Cleanup
    <2>1. /\ job.pc = "cleanup" /\ proc' = "none" /\ files' = NoFiles
          /\ strays' = {[p EXCEPT !.linked = FALSE] : p \in strays}
        BY <1>2, <1>23 DEF Cleanup, FfmpegPcs
    <2>2. job'.pc \in {"waiting", "over"}
        BY <1>1, <1>23 DEF Cleanup, Waiting, Job
    <2>3. \A p \in strays' : ~p.linked
        <3>1. \A p \in strays : [p EXCEPT !.linked = FALSE].linked = FALSE
            BY <1>1
        <3> QED
            BY <2>1, <3>1
    <2>4. kept' \subseteq Tidied /\ \A f \in Tidied \ kept' : files'[f] # "partial"
        BY <2>1, KeptStep, RemovedTidied DEF NoFiles
    <2> QED
        BY <2>1, <2>2, <2>3, <2>4, NoRungs, IdleMade
<1>24. CASE Crash
    <2>1. proc' = "none" /\ files' = NoFiles /\ strays' = {}
        BY <1>24 DEF Crash
    <2>2. job'.pc \in {"down", "over"}
        BY <1>1, <1>24 DEF Crash, Waiting, Job
    <2>3. kept' \subseteq Tidied /\ \A f \in Tidied \ kept' : files'[f] # "partial"
        BY <2>1, KeptStep, RemovedTidied DEF NoFiles
    <2> QED
        BY <2>1, <2>2, <2>3, NoRungs, IdleMade
<1> QED
    BY <1>3, <1>5, <1>6, <1>7, <1>8, <1>9, <1>10, <1>11, <1>12, <1>13, <1>14, <1>15, <1>16,
       <1>17, <1>18, <1>20, <1>21, <1>22, <1>23, <1>24 DEF Next

-----------------------------------------------------------------------------
(* Storage.                                                                 *)

(* A step that touches no upload.                                           *)
LEMMA QuietStored ==
    ASSUME Stored, src' = src, UNCHANGED <<bucket, late>>, kept \subseteq kept',
           job'.pc = "upload" => /\ job.pc = "upload"
                                 /\ job.left \cup job.fly \subseteq job'.left \cup job'.fly,
           job'.pc = "finish" => job.pc = "finish",
           job'.outcome = "ready" => job.outcome = "ready" \/ job.pc = "finish"
    PROVE  Stored'
BY LadderStays, TidyShrinks DEF Stored

LEMMA StoredStep ==
    ASSUME Inv, [Next]_vars
    PROVE  Stored'
<1>1. /\ files \in [Files -> Contents] /\ bucket \in [Files -> Contents]
      /\ late \subseteq Files \X Contents
      /\ src \in Sources /\ job.rung \in 1 .. Len(Ladder) /\ proc \in Files \cup {"none"}
      /\ job \in Job /\ JobTracked /\ Made /\ Stored /\ src' = src
      /\ kept \subseteq kept' /\ Tidy' \subseteq Tidy
    BY SourceStays, KeptGrows, TidyShrinks DEF Inv, Tracked, TypeOK, JobTracked
(* What an upload carries: all that is needed is whole by then.             *)
<1>2. ASSUME job.pc = "upload"
      PROVE  /\ proc = "none" /\ \A f \in Needed : files[f] = "whole"
             /\ \A f \in Tidy : files[f] # "partial"
    <2>1. proc = "none" /\ files["master"] = "whole"
        BY <1>1, <1>2 DEF Made, FfmpegPcs
    <2>2. \A k \in 1 .. Len(Ladder) : files[Rung(k)] = "whole"
        BY <1>1, <1>2 DEF Made, RungsMade
    <2>3. \A f \in Tidy : files[f] # "partial"
        BY <1>1, <2>1, FileNames DEF Made, Tidy, Tidied
    <2> QED
        BY <2>1, <2>2, <2>3 DEF Needed
<1>3. ASSUME NEW kind, Caught(kind), UNCHANGED <<bucket, late>>, job.pc \in AttemptPcs
      PROVE  Stored'
    BY <1>1, <1>3, CaughtTracked, QuietStored
<1>4. ASSUME NEW pcs, NEW kinds, Fails(pcs, kinds), pcs \subseteq AttemptPcs PROVE Stored'
    BY <1>3, <1>4 DEF Fails
<1>5. CASE SourceBlocked \/ ResolveFails \/ ProbeFails \/ QuotaExceeded \/ MeasureFails
           \/ PlaylistFails \/ FinishFails
    BY <1>4, <1>5 DEF SourceBlocked, ResolveFails, ProbeFails, QuotaExceeded, MeasureFails,
                      PlaylistFails, FinishFails, AttemptPcs, FfmpegPcs
<1>6. ASSUME NEW pc \in Pcs \ {"upload", "finish"}, Goto(pc), UNCHANGED <<bucket, late>>
      PROVE  Stored'
    BY <1>1, <1>6, MovesTo, QuietStored
<1>7. CASE Probe \/ WithinQuota \/ WriteVtt \/ VttFails \/ Boot
    BY <1>6, <1>7 DEF Probe, WithinQuota, WriteVtt, VttFails, Boot, Pcs, AttemptPcs, FfmpegPcs
<1>8. CASE Start \/ Resolve \/ Redirected \/ Measure \/ Cleanup
    <2>1. UNCHANGED <<bucket, late>> /\ job'.pc \notin {"upload", "finish"}
          /\ (job'.outcome = "ready" => job.outcome = "ready")
        <3>1. CASE Start
            BY <3>1 DEF Start, Waiting
        <3>2. CASE Resolve \/ Redirected \/ Measure
            BY <1>1, <3>2 DEF Resolve, Redirected, Measure, Goto, Job
        <3>3. CASE Cleanup
            BY <1>1, <3>3 DEF Cleanup, Waiting, Job
        <3> QED
            BY <1>8, <3>1, <3>2, <3>3
    <2> QED
        BY <1>1, <2>1, QuietStored
<1>9. ASSUME NEW fs, NEW others, job.pc \in FfmpegPcs, Rejected(fs, others),
             UNCHANGED <<bucket, late>>
      PROVE  Stored'
    <2>1. CASE job.pc = "rung"
        BY <1>3, <1>9, <2>1 DEF Rejected, AttemptPcs
    <2>2. CASE job.pc # "rung"
        BY <1>6, <1>9, <2>2, FollowingIs DEF Rejected, Pcs, AttemptPcs, FfmpegPcs
    <2> QED
        BY <2>1, <2>2
<1>10. CASE SpawnFails \/ Breaks \/ TimesOut
    BY <1>1, <1>9, <1>10 DEF SpawnFails, Breaks, TimesOut, Made
<1>11. CASE Succeeds
    BY <1>1, <1>6, <1>11, FollowingIs DEF Succeeds, Made, Pcs, AttemptPcs, FfmpegPcs
<1>12. CASE \/ transcodeRendition \/ createDownloadableMp4 \/ generateThumbnails
            \/ extractPosterThumbnail \/ StrayWrites \/ StrayEnds \/ ForceKill \/ UNCHANGED vars
    <2>1. UNCHANGED <<job, bucket, late>>
        BY <1>12 DEF transcodeRendition, createDownloadableMp4, generateThumbnails,
             extractPosterThumbnail, runFfmpeg, StrayWrites, StrayEnds, ForceKill, vars
    <2> QED
        BY <1>1, <2>1, QuietStored
<1>13. CASE WritePlaylist
    <2>1. /\ job.pc = "playlist" /\ UNCHANGED <<bucket, late>>
          /\ job'.pc = "upload" /\ job'.left = There \cup {"master"}
          /\ job'.outcome = job.outcome /\ job.outcome = "none"
        BY <1>1, <1>13 DEF WritePlaylist, Job, JobTracked
    <2>2. \A f \in Needed : f \in There \cup {"master"}
        <3>1. \A k \in 1 .. Len(Ladder) : Rung(k) \in There
            BY <1>1, <2>1, RungFiles DEF Made, RungsMade, There
        <3> QED
            BY <3>1 DEF Needed
    <2> QED
        BY <1>1, <2>1, <2>2, LadderStays DEF Stored
<1>14. CASE NextBatch
    <2>1. /\ job.pc = "upload" /\ job.fly = {} /\ UNCHANGED <<bucket, late>>
          /\ job'.pc = "upload" /\ job'.outcome = job.outcome
          /\ job'.left = job.left \ NextOf(job.left) /\ job'.fly = NextOf(job.left)
        BY <1>1, <1>14 DEF NextBatch, Job
    <2> QED
        BY <1>1, <2>1, QuietStored
<1>15. CASE PutDone
    <2>1. PICK f \in job.fly : /\ bucket' = [bucket EXCEPT ![f] = files[f]]
                               /\ job' = [job EXCEPT !.fly = @ \ {f}]
        BY <1>15 DEF PutDone
    <2>2. /\ job.pc = "upload" /\ late' = late /\ job.outcome = "none" /\ f \in Files
        BY <1>1, <1>15, <2>1 DEF PutDone, JobTracked, Job
    <2>3. /\ job'.pc = "upload" /\ job'.left = job.left /\ job'.fly = job.fly \ {f}
          /\ job'.outcome = "none"
        BY <1>1, <2>1, <2>2 DEF Job
    <2>4. \A g \in Files : bucket'[g] = IF g = f THEN files[f] ELSE bucket[g]
        BY <1>1, <2>1
    <2>5. \A g \in Tidy : bucket'[g] # "partial"
        BY <1>1, <1>2, <2>2, <2>4, RungFiles DEF Stored
    <2>6. \A g \in Needed : g \in job'.left \cup job'.fly \/ bucket'[g] = "whole"
        BY <1>1, <1>2, <2>2, <2>3, <2>4, RungFiles DEF Stored
    <2> QED
        BY <1>1, <2>2, <2>3, <2>5, <2>6, LadderStays DEF Stored
<1>16. CASE PutGivenUp
    <2>1. PICK f \in job.fly :
            Caught("error") /\ late' = late \cup {<<g, files[g]>> : g \in job.fly \ {f}}
        BY <1>16 DEF PutGivenUp
    <2>2. job.pc = "upload" /\ bucket' = bucket
        BY <1>1, <1>16, <2>1 DEF PutGivenUp, JobTracked
    <2>3. job'.pc = "cleanup" /\ job'.outcome \in {"retry", "failed"}
        BY <1>1, <2>1, <2>2, CaughtTracked DEF AttemptPcs
    <2>4. ASSUME NEW put \in late'
          PROVE  (put[1] \in Needed => put[2] = "whole") /\ (put[1] \in Tidy => put[2] # "partial")
        <3>1. CASE put \in late
            BY <1>1, <3>1 DEF Stored
        <3>2. CASE put \notin late
            <4>1. PICK g \in job.fly : put = <<g, files[g]>>
                BY <2>1, <2>4, <3>2
            <4> QED
                BY <1>2, <2>2, <4>1
        <3> QED
            BY <3>1, <3>2
    <2> QED
        BY <1>1, <2>2, <2>3, <2>4, LadderStays DEF Stored
<1>17. CASE LateLands
    <2>1. PICK put \in late : bucket' = [bucket EXCEPT ![put[1]] = put[2]] /\ late' = late \ {put}
        BY <1>17 DEF LateLands
    <2>2. job' = job /\ put[1] \in Files
        BY <1>1, <1>17 DEF LateLands
    <2>3. \A g \in Files : bucket'[g] = IF g = put[1] THEN put[2] ELSE bucket[g]
        BY <1>1, <2>1
    <2>4. /\ put[1] \in Needed => put[2] = "whole"
          /\ put[1] \in Tidy => put[2] # "partial"
        BY <1>1 DEF Stored
    <2>5. \A g \in Tidy : bucket'[g] # "partial"
        BY <1>1, <2>3, <2>4, RungFiles DEF Stored
    <2>6. \A g \in Needed : bucket'[g] = "whole" \/ bucket'[g] = bucket[g]
        BY <1>1, <2>3, <2>4, RungFiles
    <2> QED
        BY <1>1, <2>1, <2>2, <2>5, <2>6, LadderStays DEF Stored
<1>18. CASE Uploaded
    <2>1. /\ job.pc = "upload" /\ job.fly = {} /\ job.left = {} /\ UNCHANGED <<bucket, late>>
          /\ job'.pc = "finish"
        BY <1>1, <1>18 DEF Uploaded, Goto, Job
    <2> QED
        BY <1>1, <2>1, LadderStays DEF Stored
<1>19. CASE Finish
    <2>1. /\ job.pc = "finish" /\ UNCHANGED <<bucket, late>> /\ job'.pc = "cleanup"
        BY <1>1, <1>19 DEF Finish, Job
    <2> QED
        BY <1>1, <2>1, QuietStored
<1>20. CASE Crash
    <2>1. late' = {} /\ bucket' = bucket
        BY <1>20 DEF Crash
    <2>2. /\ job'.pc \in {"down", "over"}
          /\ job'.outcome = "ready" => job.outcome = "ready"
        BY <1>1, <1>20 DEF Crash, Waiting, Job
    <2> QED
        BY <1>1, <2>1, <2>2, LadderStays DEF Stored
<1> QED
    BY <1>5, <1>7, <1>8, <1>10, <1>11, <1>12, <1>13, <1>14, <1>15, <1>16, <1>17, <1>18, <1>19,
       <1>20 DEF Next

-----------------------------------------------------------------------------
(* The theorems.                                                            *)

LEMMA InvInit == Init => Inv
<1> SUFFICES ASSUME Init PROVE Inv
    OBVIOUS
<1>1. /\ src \in Sources /\ job = Waiting(0) /\ proc = "none" /\ files = NoFiles
      /\ bucket = NoFiles /\ strays = {} /\ kept = {} /\ late = {} /\ leftover = 0 /\ crashes = 0
    BY DEF Init
<1>2. NoFiles \in [Files -> Contents] /\ \A f \in Files : NoFiles[f] = "none"
    BY DEF NoFiles, Contents
<1>3. 0 \in 0 .. MaxAttempts /\ 0 \in 0 .. MaxRedirects /\ 0 < MaxAttempts /\ 0 \in 0 .. MaxRuns
    BY Limits
<1>4. /\ job \in Job /\ job.pc = "waiting" /\ job.attempt = 0 /\ job.hop = 0 /\ job.rung = 1
      /\ job.left = {} /\ job.fly = {} /\ job.outcome = "none"
    BY <1>1, <1>3 DEF Waiting, Job, Pcs
<1>5. 1 <= Len(Ladder) /\ 1 \in 1 .. Len(Ladder)
    BY <1>1, Lengths
<1>6. Tracked
    <2>1. JobTracked
        BY <1>3, <1>4, <1>5 DEF JobTracked, AttemptPcs, FfmpegPcs
    <2>2. TypeOK
        BY <1>1, <1>2, <1>3, <1>4, <1>5 DEF TypeOK, Pcs
    <2> QED
        BY <2>1, <2>2 DEF Tracked
<1>7. Made
    BY <1>1, <1>2, <1>4, RungFiles DEF Made, RungsMade
<1>8. Stored
    BY <1>1, <1>2, <1>4, RungFiles DEF Stored
<1> QED
    BY <1>6, <1>7, <1>8 DEF Inv

LEMMA InvHolds == Spec => []Inv
<1>1. Inv /\ [Next]_vars => Inv'
    BY TrackedStep, MadeStep, StoredStep DEF Inv
<1> QED
    BY InvInit, <1>1, PTL DEF Spec

(* The job, its files, the ffmpegs left behind, the late uploads and what   *)
(* is in storage have only values the code can produce.                     *)
THEOREM EncodeTyped == Spec => []TypeOK
<1>1. Inv => TypeOK
    BY DEF Inv, Tracked
<1> QED
    BY InvHolds, <1>1, PTL

(* A ready asset has every rung and the master playlist in storage whole,   *)
(* and no half-written download or sprite that could be removed             *)
(* (worker/src/index.ts:635-648).                                           *)
THEOREM Published == Spec => []PublishedWhole
<1>1. Inv => PublishedWhole
    <2> SUFFICES ASSUME Inv, job.outcome = "ready" PROVE PublishedWhole
        BY DEF PublishedWhole
    <2>1. src \in Source
        BY EncodeAssumption DEF Inv, Tracked, TypeOK
    <2>2. DOMAIN Ladder = 1 .. Len(Ladder)
        BY <2>1, LadderFiles DEF Ladder
    <2>3. \A f \in Needed : bucket[f] = "whole"
        BY DEF Inv, Stored
    <2>4. \A k \in 1 .. Len(Ladder) : bucket[Ladder[k].quality] = "whole"
        BY <2>3 DEF Needed, Rung
    <2>5. bucket["master"] = "whole" /\ \A f \in Tidy : bucket[f] # "partial"
        BY <2>3 DEF Needed, Inv, Stored
    <2> QED
        BY <2>2, <2>4, <2>5 DEF PublishedWhole, Tidy, Tidied
<1> QED
    BY InvHolds, <1>1, PTL

(* The sprite of a source of any width, height and duration is a JPEG that  *)
(* can exist, with a tile for every cue, and the cues cover the film        *)
(* (thumbnails.ts:37-56 and 95-106).                                        *)
THEOREM SpriteHolds == Spec => []SpriteFits
<1>1. Inv => SpriteFits
    <2> SUFFICES ASSUME Inv, job.pc = "vtt" PROVE SpriteFits
        BY DEF SpriteFits
    <2>1. src \in Source /\ ThumbHeight(src) <= MaxSpriteDimension
        BY EncodeAssumption DEF Inv, Tracked, TypeOK, Made
    <2> QED
        BY <2>1, SpriteRoom DEF SpriteFits
<1> QED
    BY InvHolds, <1>1, PTL
=============================================================================
