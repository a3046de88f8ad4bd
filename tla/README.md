# Hovod, modelled and checked

Hovod is a self-hosted (and hosted) video platform: an API that takes videos
in, workers that transcode them to HLS and enrich them with AI, a player, and,
in cloud mode, subscriptions. This directory holds TLA+ modules of the parts in
which several processes share state, the TLC configurations that check them, and
TLAPS proofs about them. Paths below are relative to the repository.

## 1. The system

| Part | State it keeps | Operations | Where |
|---|---|---|---|
| Asset API | `assets`, `jobs` rows; upload volume; S3 sources | create, presigned / multipart / direct upload, import, process, delete | `apps/api/src/routes/assets.ts`, `queue.ts` |
| Queue (BullMQ on Redis) | one job per asset, id `transcode-<assetId>`; lock, attempts, stall count | add, remove, take, renew, complete, fail, back-off, stalled check, retention | external, used by API and workers |
| Transcode worker | `assets`, `jobs`, `renditions` rows; scratch files; S3 output | take a job, load, claim, resolve, encode, upload, mark, archive, retry, fail; listeners; reconciliation at boot | `apps/worker/src/index.ts`, `s3.ts` |
| AI enrichment | `ai_jobs` rows: status and three step columns; outputs | one run after each successful transcode; reconciliation | `apps/worker/src/ai/process.ts`, `index.ts` |
| Billing | `organizations` (mirror of Stripe), `stripe_events`, entitlement cache | Checkout, webhook, return, nightly reconcile, guard | `apps/api/src/services/billing*.ts`, `entitlements.ts`, `routes/billing.ts` |
| Usage and quotas | `usage_monthly`, `storage_bytes` | pre-check, check, increment | `services/usage.ts`, worker `index.ts` |
| Membership | `organizations`, `org_members`, `org_invitations`, `api_keys` | create, invite, accept, remove, roles, keys | `routes/orgs.ts`, `invitations.ts` |
| Accounts and sessions | `users.token_version`, `password_resets`, a 60 s cache | sign in, refresh, reset, sign out everywhere | `routes/auth.ts`, `middleware/auth.ts` |
| Migrations | `_migrations`, the schema | run at boot of every process | `packages/db/src/migrations.ts` |
| Upload client | parts in memory and in local storage | upload, retry, resume, abort, complete | `apps/dashboard/src/lib/upload.ts` |
| Playback analytics | `playback_sessions` and rollups | batches from players, merge, retention | `services/analytics.ts`, `dashboard/src/lib/analytics.ts` |
| Encoding | scratch directories, child processes, the files of an attempt | probe, encode, sprite, poster, publish, clean up | worker `ffmpeg.ts`, `transcoding.ts`, `thumbnails.ts`, `scratch.ts`, `s3.ts` |
| Player | an hls.js instance, the video element, timers, menus | load, recover, autoplay, tap, hide controls, choose a quality | `dashboard/src/components/Player.tsx` |
| Pages of a video | drafts, dialogs, a query cache; `comments`, tracks, thumbnails behind them | comment, edit, save, upload a thumbnail, poll | `WatchPage.tsx`, `VideoDetailPage.tsx`, `VideosPage.tsx`, `routes/playback.ts`, `comments.ts` |
| Settings | `settings` row, logos; the page's drafts | save, logo, rename, reset | `SettingsPage.tsx`, `settings-context.tsx`, `routes/settings.ts` |
| Console | one token in `localStorage` for all tabs; per tab a timer, the cached account, calls | sign in, switch, expire, return from Checkout | `App.tsx`, `lib/auth.ts`, `lib/api.ts`, `SubscriptionGate.tsx` |
| Webhooks, e-mail, URL guard, AI providers, API shell, image | | | not modelled, listed in `PROJECT.json` |

How they interact. The API and the workers never call each other: they share
the database, the queue, the bucket and the upload volume, and nothing holds a
lock over two of these. A `/process` call reads the asset, looks for a pending
`jobs` row, looks at the queue job, inserts a row, sets the asset to `queued`
and adds a queue job, with an `await` between any two of these. A worker takes
the job under a BullMQ lock, reads the asset once and works from what it read
for up to hours. A worker that boots sweeps what dead workers left.
Stripe tells the API of every change by events that may come twice, late or in
any order; the API then reads the subscription and mirrors what it read.

In the browser, every tab has state of its own and shares only the token. A
page's calls may be lost, or answered after the page has changed; polls, timers
and events of the video element fall between them.

What is hard about it, and hard to test, is listed line by line under
`hazards` in `PROJECT.json`: interleavings at the awaits, state read before an
await and used after it, the failure of one of several statements, crashes of a
worker or of the API between two statements, redelivered jobs and events, a
count of attempts kept on two sides, caches.

What makes each part correct:

- **pipeline**: one job in flight per asset (which overlapping calls break); one worker on it; `ready` means
  every rendition row and the whole output; a video that may be processed has a
  source; nothing stays `queued` or `processing` for ever; a client that polls
  sees only the documented order of statuses;
- **enrichment**: a settled run shows no step in progress; a run that is being
  executed is left alone; a run whose worker died is settled;
- **billing**: an event is forgotten unhandled in three known ways only; grace is granted once; in the
  end an organization may change things if and only if Stripe says it pays;
- **accounts**: one owner; an invitation makes one membership; a plan's limits
  are passed only by what overlaps; keys go with their author; a password in force is what every session
  rests on; a revoked token fades within a cache lifetime;
- **migrations**: what is recorded is applied; no two replicas apply a statement;
  a boot nobody kills succeeds;
- **encoding**: what is published is whole; a hung child process ends;
- **upload**: a stored file is one file, whole; no spinner without a run;
- **pages, settings, console**: nothing typed is lost; a page settles on what is
  stored and on its own session; a named picture exists;
- **player and analytics**: recovery ends, nothing waits for what will not come;
  every second watched is counted once, or its loss has a known cause.

## 2. The modules

| Module | Models | Composes |
|---|---|---|
| `AssetPipeline` | the shared state of one asset: rows, queue job, volume, bucket, and what each request and worker remembers | |
| `AssetRoutes` | the handlers of `routes/assets.ts` that move the pipeline | extends `AssetPipeline` |
| `TranscodeWorker` | `processTranscodeJob`, listeners, boot, BullMQ's own steps | extends `AssetPipeline` |
| `Transcode` | API and workers together; fairness; the properties | extends both |
| `AssetLifecycle` | what a polling client is promised (abstract specification) | instantiated by `Transcode` |
| `TranscodeProofs` | theorems and proofs of the pipeline, with any clients and with one | extends `Transcode`, `TLAPS` |
| `MCTranscode` | symmetry for TLC | extends `Transcode` |
| `Enrichment`, `EnrichmentProofs` | AI runs of several assets | |
| `Encode`, `MCEncode`, `EncodeProofs` | the files and child processes of one transcode job | |
| `Billing` | the subscription of one organization | |
| `Sessions` | tokens, passwords and reset links of one account, over several API processes | |
| `Membership` | members, invitations, keys of one organization; what the pages offer | |
| `Usage` | monthly minutes and stored bytes of one organization on a plan | |
| `Accounts`, `AccountsProofs` | sessions, members or usage; theorems about the three | extends `Membership`, instantiates `Sessions` and `Usage` |
| `Migrations`, `MigrationsProofs` | replicas that boot on one database | |
| `Upload`, `MCUpload` | the upload page, its library, S3 multipart, the endpoints; symmetry for TLC | |
| `VideoApi` | one video as its pages use it: rows, objects, handlers | |
| `WatchPage`, `DetailPage`, `SettingsPage` | the public page, the dashboard's pages of a video, the settings | extend or share `VideoApi` |
| `VideoPages`, `PagesProofs` | the three pages against the API | extends the pages |
| `Analytics` | a viewer's clock, batches, ingest, retention, reports | |
| `Tabs` | a tab with a page, or one that plays | extends `VideoPages`, instantiates `Analytics` |
| `Player` | the player around hls.js | |
| `Console` | the session of one browser | |
| `SubscriptionProofs` | theorems about the subscription and the session | extends `Billing`, `Console`, `TLAPS` |
| `BrowserProofs` | theorems about the player and the upload client | extends `Player`, `Upload`, `TLAPS` |

How they correspond to the code:

- A handler is cut at its awaits: one action per statement, queue call, S3 call
  or operation on the shared volume, in source order. The program counter
  (`req[r].pc`, `wkr[w].pc`, `hnd[h].pc`, `jobs[s].pc`, ...) is the await at which
  it is; the other fields are the locals it still uses: `seen` is `asset.status` as
  `/process` read it, `key` and `url` are the worker's copy of the asset, `attempt`
  is `attemptsMade + 1`, `snap` is the subscription that a billing handler retrieved.
- In the browser one event handler with the effects React runs after it is one
  action; what comes back later (an answer, a timer, an event of the video
  element) is another.
- An `UPDATE ... WHERE` is one step whose condition is evaluated in it; a
  row that is gone is not written (`SetStatus`, `SetRow`); `ON DELETE CASCADE`
  and the unique index on renditions are part of `DeleteRow`, `RowRefused` and `InsertRow`.
- `gone` and `deleted` stand for rows that no longer exist.
- `asset.granted` is no column: it says that a presigned URL or a multipart
  upload was handed out, which stay valid when `source_key` is set to NULL.
- `bull` is external. `Added` is BullMQ's rule that an id in use makes `add` a
  no-op; `HoldsLock` its rule that only the owner of the lock may complete or
  fail a job; `StalledCheck` gives a job whose lock expired back or, above
  `maxStalledCount`, fails it without a `failed` event. S3, Stripe, hls.js, the
  video element, ffmpeg and the browser's storage are modelled by what the code
  uses of them.
- One asset is enough for the transcode pipeline, since every id, key and statement is keyed by
  it. `Enrichment` needs several, because the reconciliation looks at all of
  them, and has one step for a whole transcode. `Usage` has several, of one
  organization, with one step for an encoding: what matters there is what happens
  between the check of the minutes and their increment.
- One organization is enough for `Billing`: every subscription it creates
  carries its id in its metadata. `active` stands also for `trialing`,
  `canceled` also for the other statuses that end in read-only.
- A text, a title, a look or a file is the number of the input that made it. A
  tick of `Analytics` is half a second; a password is the number of the change
  that set it; a token the version it was signed with.
- Variables and fields for history (`joined`, `spent`, `spared`, `typed`, `mine`, `meta`, `applied`,
  `doubled`, `unwritten`, `kept`, `foreign`, those of `Analytics` that begin with `g`) are read by properties
  only, but for the caps on inputs, faults and deliveries that the bounds name.
- `Accounts` and `Tabs` put components beside each other that share no state that
  changes; as their steps commute, a behaviour follows one of them. This lets one
  run check them, and costs no behaviour.
- Definitions under a comment that begins "Mistake" are never used: they are plausible errors
  in the definition that follows, against which the properties are tested
  (`mutants` in `PROJECT.json`).

## 3. The runs

Bounds are constants of each `.cfg`: `Jobs` bounds the calls of `/process`,
`Runs` the AI runs, `MaxChanges` the changes at Stripe, `FaultBudget` and
`Faults` the number and the kinds of fault; a name that begins with `Max` says in
the module what it bounds. Deadlock is not checked: a system in
which nobody calls may stop.

| Run | Bounds | Shows |
|---|---|---|
| `one_client` | 1 request, 2 workers, 2 jobs, 2 rungs, 2 attempts, any 2 of 8 faults; 147 000 states | types; `ExclusiveTranscode`; `AssetBacked`; the pipeline implements `AssetLifecycle` |
| `live` | 1 request, 1 worker, 2 jobs, any 2 of 4 faults; 37 000 states | `QueueDrains`, `NothingStaysInFlight` |
| `contention` | 2 requests, 1 worker, 2 jobs, 1 of 14 faults; 3 000 000 states | `CompletedIsPublished`, `VerdictsAgree` |
| `enrichment` | 2 assets, 1 worker, 2 runs, any 2 of 5 faults; 461 000 states | `NoSpinnerOnSettledRun`, `RunSettles` |
| `encode` | 2 kinds of source, 2 attempts, 1 redirect, batches of 2, one file at a time that cannot be removed; 590 000 states | `PublishedWhole`, `SpriteFits`, `HungFfmpegEnds` |
| `billing` | 1 subscription with 3 changes, 2 handlers, one error (with its release failing or not) or crash; 743 000 states | `EventsAccounted`, `GraceNotRenewed`, `EntitledAsPaid` |
| `accounts` | 3 people, 2 requests at a time, 4 in all, limits of 2 members and 1 key; or 2 processes, 3 requests, 1 reset link; or 2 videos, 2 slots, 2 deliveries, 2 months; 834 000 states | `OneOwner`, `InvitationJoinsOnce`, `PlanLimitsHold`, `KeysGoWithAuthor`, `PasswordsGuarded`, `RevokedFades` |
| `migrations` | 2 replicas, 2 crashes, an empty, a current and a legacy database; 23 000 states | `RecordedIsApplied`, `AppliedOnce`, `BootsUnlessKilled` |
| `upload` | 3 files, 2 of them interchangeable, 2 parts, 2 attempts a part, 2 workers, 2 runs, 1 lost answer; 2 177 000 states | `StoredWhole`, `SomeoneAtWork` |
| `tabs` | 3 inputs, 3 settings, 3 moves of a viewer, 4 ticks, 1 fault; 1 895 000 states | `WritingNeverLost`, `PagesShowStored`, `OwnChangesShown`, `PicturesThere`, `WatchReported` |
| `player` | 2 videos, 2 inputs, 2 network and 1 media retries, 2 events queued; 315 000 states | `NothingLeftHanging`, `RecoveryEnds`, `TapTogglesOnce`, `OnlyOwnAutoplay` |
| `console` | 2 organizations, 2 tokens, 1 poll; 941 000 states | `TabIsOfItsSession`, `OneRun`, `SuccessSettles` |

What the composed properties say. `AssetBacked` is `ReadyHasRenditions` and
`SourceAvailable`; `NothingStaysInFlight` is that assets and jobs rows leave
`queued` and `processing`; `EntitledAsPaid` that payment ends in access and its
end in refusal; `PlanLimitsHold` bounds members, keys and monthly minutes, each by
the limit and what overlaps; `PasswordsGuarded` that a session rests on the
password in force and that a link resets once; `WritingNeverLost` is about
comment drafts, names and dismissed reactions; `RunSettles` that a run is settled unless its
worker dies or the database refuses the very statement that settles it (`unwritten`); `WatchReported` accounts for watched time,
for refusals, and for the parts of a report agreeing; `EventsAccounted` that every event is at
Stripe, in progress or on record, or was lost in one of three ways: answered as a duplicate of a
delivery that then failed, claimed before a crash, or claimed for good because the removal of the claim
failed; `KeysGoWithAuthor` that a key outlives its author's membership only if its insert had been let in
before the removal, or the removal died half way; `OwnChangesShown` that a page shows what it changed and heard of,
metadata but for one read that had begun before; `GraceNotRenewed` is about a
subscription that has been past due ever since its grace ran out (`over`); `StoredWhole` is that the object is
one file's parts and that a resume skips only stored ones.

Why these bounds are enough for what they are to show: two job ids are two
submissions, of which the second is a re-processing or a race with the first;
two attempts are the code's own `attempts: 2`, so the second is the last one;
one stall is BullMQ's default; with two faults a job can be redelivered twice,
which passes both limits; two rungs give a state in which a transcode is half
done; two requests are a race; three changes at Stripe are created, paid and failed (or paid,
failed and paid again after an earlier one is missed), which two overlapping handlers can
write in the wrong order. Two replicas are a race for the lock and two crashes
let each die once, or one twice at different statements. Two upload runs are an old one
still working and a new one; two parts and two attempts give a part stored and
one refused for good. Two slots and two deliveries let a job be counted while
two others are between check and increment. In the browser the bounds allow a
change, a second one while its answer is out, and a late or lost answer; an input is what
a person does, answers and timers are not counted. `one_client` names the faults
the code is written to survive: the others falsify one of its properties, and
sections 5 and 6 say how.

**Fairness.** A handler goes on (`WF` of its next step: Node runs what is ready,
and every call ends or times out). A worker goes on, and boots again once down:
the image supervises it, compose restarts it. BullMQ promotes delayed jobs and
checks for stalled ones every minute while a worker is up. Listeners run. In
`Enrichment` and `Billing` likewise, and Stripe repeats what was not answered
with 2xx, the reconcile ticks every day, caches expire, grace ends. `Deliver`,
`Reconcile` and `GraceExpires` need strong fairness because handlers that are
busy disable them again and again. In `Encode` an attempt goes on, a time limit runs
out and a kill arrives; in `Player` a pending load is answered and a retry timer
fires; in `Console` the return page's reads are answered and its timers fire; in
`Migrations` a booting replica goes on and, by strong fairness, gets the lock
some time, as its wait is bounded and its supervisor starts it again. Nothing assumes that a client calls,
that anybody pays or plays, that a fault occurs, or that a finished job is retired.

**The abstract specification.** `AssetLifecycle` has two variables, the status a
client polls and whether an output can be played, and the moves between statuses
that the documentation describes, with retry, refusal and interruption. The
mapping is `status <- asset.status`, `published <- playback = "complete"`;
`one_client` checks that every step of the pipeline is a move or a stutter.
`Succeed` is the promise with substance: ready is reached only with a published output.

## 4. What is proved

The proofs are in the modules named `...Proofs`, each beside the module it is
about. A theorem holds for all values of the constants that satisfy the
module's `ASSUME`, where a run has one set of small values. Each invariant
follows one argument: it is conjoined with what it needs to be inductive, it holds initially,
every action preserves it (one step per action, and under it one for each part
that the action can disturb), and it implies the property. The strengthened
invariants were checked by TLC on the bounds of section 3 before they were proved.

**`TranscodeProofs`**, under `ConstantsAssumption` (at least one rung and one attempt,
sets of any size, any kinds of fault in any number, any clients):

- `TypeCorrect`: `Spec => []TypeOK`. One lemma per group of actions
  (client calls, handlers, worker, listeners, boot).
- `CompletedPublished`: `Spec => []CompletedIsPublished`. Not inductive by
  itself: a worker past its upload is about to write `ready`, and a `/process`
  call that has to be undone writes back the `ready` it read. `PublishedInv` adds
  that, as long as no output was ever published, no worker is at a statement
  after the upload or at the skip of a ready asset, and no request remembers `ready`.
- `Exclusive`: `Spec => []ExclusiveTranscode`. `LockInv` says that without the
  `stall` fault a working worker holds the lock, which has one owner.
- `Verdicts`: `Spec => []VerdictsAgree`. `LockInv` also says that a worker which
  holds the lock still has the right attempt number, `attemptsMade + 1`, and that
  it writes a retry or a failure according to that number and the kind of error.

Two more are about a client that has the asset to itself. Their hypothesis
`OneClient` is that of the run `one_client` without its sizes: one request at a time, by
direct upload, presigned URL and `/process`, and the faults the handlers are written to
survive. Workers, job ids, rungs, attempts, stalls and faults may be any number.
Without the hypothesis the theorems are false; section 5 says by what.

- `Backed`: `Spec => []AssetBacked`. `Served` says what each actor may rest on at
  each await: while a request is past its look at the queue no job is live
  (`Rightful`), hence no worker works, by `LockInv`; from its claim to its verdict a worker finds the
  status its own or an error, the renditions rows those of its turns of the loop, and its
  local source on the volume until it is in the bucket (`Grounded`); and a
  job is live only while the asset is past `uploaded`.
- `LifecycleKept`: `Spec => ImplementsLifecycle`. The initial state maps to the
  initial state; the steps of a request map to `Supply`, `Submit`, `Refuse` or a
  stutter, those of a worker to `Start`, `Upload`, `Succeed`, `Retry`, `Fail` or a
  stutter, those of listeners and boot to `Fail` or a stutter. `Succeed` needs of
  `Grounded` that a worker about to write `ready` has the whole output published.

**`SubscriptionProofs`**, about `Billing` under `BillingAssumption` (any subscriptions, handlers and changes):

- `BillingTyped`: `Spec => []TypeOK`.
- `EventsKept`: `Spec => []EventsAccounted`. `EventInv` says that a handler about to
  write has read the subscription after the change its event reports (`Progress`), that one handler at
  most has an event, and that a claim is of an event on record, or in progress, or outlived a crash or its removal.
- `GraceGranted`: `Spec => GraceNotRenewed`, an action property. `GraceInv` says that
  once the grace of a subscription on record is over and it is past due at
  Stripe, whoever is about to write its row has read it past due and has seen the period over.

and about `Console` under `ConsoleAssumption` (any organizations, tokens and polls):

- `ConsoleTyped`: `ConsoleSpec => []ConsoleTypeOK`.
- `PollsOnce`: `ConsoleSpec => []OneRun`. `Runs` says that a tab has one loop at most, that the slow screen
  comes after it, and that both go with the page on which the return has begun.
- `OwnSession`: `ConsoleSpec => []TabIsOfItsSession`. What is on screen is put there by answers, so `Own`
  speaks of what is in flight: until the token is changed from outside, a read, a loop and a timer carry the
  token stored now, what was read is of its organization, and a call that brings a token
  names the organization it is for (`Addressed`); `Placed` says which page each belongs to, the sign-in of a guard among them.

**`AccountsProofs`**, under `MembershipAssumption`, `SessionsAssumption` and
`UsageAssumption` (any people, rows, invitations, keys, requests, processes, links, slots, videos,
lifetimes and limits; a cache lifetime of one at least, a link is not called "none", there is a slot):

- `MembersTyped`: `Spec => []TypeOK` of `Membership`, and what the id of a request names.
- `OwnerUnique`: `Spec => []OneOwner`. `OwnerInv` says that the first row is the
  owner's, that no other row, invitation or request in progress could make an
  owner or is about the owner, and that no write of a role and no
  removal is about to hit the first row. That the routes check the role before
  they write is not enough: they check a row read earlier.
- `JoinedOnce`: `Spec => []InvitationJoinsOnce`, as an accepted invitation has
  at most one member and one that is not accepted none (`JoinsOnce`), and no two live rows are of one
  person (`Distinct`, the unique index).
- `KeysFollow`: `Spec => []KeysGoWithAuthor`. `Followed` says that a removal which has taken the row
  has the person whose keys it is to take, whatever other requests do to that person meanwhile.
- `LimitsKept`: members, invitations and keys exceed the plan by no more than the requests
  that are between their count and their insert (`SeatInv`, `KeyInv`); `WithinPlan` rests on it.
- `PasswordsKept`: `AccountsSpec => []PasswordsGuarded`. `LoginInv` says that a token a
  login signed, or is about to sign, names a version no newer than the account's, and if it is the
  account's then it proves the password in force; `LinkInv` that one request at most
  holds a claim on a link, and before it is spent. Both rest on `Counted`: the version of the tokens can only be raised by requests
  that have not done so yet.
- `RevokedTokensFade`: `AccountsSpec => RevokedFades`. `RevokeInv` says that a version read or
  cached by a process was in force when the request that read it began, or within
  the latency after, and that a cache entry ends a cache lifetime after that.
- `WithinPlan`: `AccountsSpec => []PlanLimitsHold`. `UsageInv` says that the minutes of a
  month, with the video of the last slot admitted and the longest video for each of the
  other busy ones, are within what the limit and the overlap allow; a product of a
  cardinality and a length stands for the sum.

**`EnrichmentProofs`**, under `EnrichmentAssumption` and `OneWorker`, one worker process,
the default installation; videos, runs and faults may be any number:

- `EnrichmentTyped`: `Spec => []TypeOK`.
- `SpinnersStop`: `Spec => []NoSpinnerOnSettledRun`. `RunsKept` says that the run a worker
  executes is in the table and in flight, and that the only step in progress is
  the one the worker is at. With two workers it is false: a booting worker settles a run
  that another is about to give its next step.

**`MigrationsProofs`**, under `MigrationsAssumption` (any replicas, none of them called
"free", any number of deaths; the files are the repository's):

- `MigrationsTyped`: `Spec => []TypeOK`.
- `RecordedApplied`: `Spec => []RecordedIsApplied`. `LockInv` says that only the holder of
  `GET_LOCK` is past it; `RecordInv` that the rows on record are the first n
  files, that what these leave is there, and how far the holder has come in the next one.
- `Once`: `Spec => []AppliedOnce`. `Exact` says that, unless a replica died, the objects are
  exactly those before the statement its holder is at, and that no statement from that one on
  has been executed.

**`EncodeProofs`**, under `EncodeAssumption` (sources of any size and length, any
attempts, redirects, runs and batches):

- `EncodeTyped`: `Spec => []TypeOK`; that the batch `NextOf` chooses is part of the
  listing needs that a finite set has a part of every smaller size.
- `Published`: `Spec => []PublishedWhole`. `Tracked` says where an attempt and an outcome may be;
  `Made` that the rungs before the one in progress are whole, that a half-written download or
  sprite has its ffmpeg, and that an ffmpeg left behind has nothing open but a
  poster once its attempt goes on; `Stored` that at the upload what a player needs is still to be uploaded or is
  there whole, and of the rest only what could not be removed is not, and that a late upload carries only whole files of those.
- `SpriteHolds`: `Spec => []SpriteFits`, from the same invariant, which says that `vtt` is
  reached only with a height that fits, and arithmetic: `LayoutIs` bounds the rows of the sprite
  by the division that chose them, `SpriteRoom` finds a tile for every cue and a successor for every
  cue before the end.

**`BrowserProofs`**, under `PlayerAssumption` (any videos and ladders, retries, inputs and
events in the queue, with and without autoplay):

- `PlayerTyped`: `PlayerSpec => []PlayerTypeOK`.
- `NothingHangs`: `PlayerSpec => []NothingLeftHanging`. `Loads` says that what is live loads or has a
  timer, and that an overlay that says it reconnects has something live under it; `Hides` and `Labelled` say
  which timer hides the controls and that a level shown is one of the video on screen.
- `TapsToggleOnce`: `PlayerSpec => TapTogglesOnce`, an action property: by `Tapped` a click is suppressed
  exactly from a touch that has revealed the controls to its own click.
- `OwnAutoplay`: `PlayerSpec => OnlyOwnAutoplay`: by `Owned` a promise of `play()` is cancelled or of
  the stream on screen, since each cleanup cancels what the stream before it had asked for; an
  instance that is destroyed by an error cancels nothing, and is still on screen.

and under `UploadAssumption` (any files, parts, workers and attempts, runs, choices and lost
answers):

- `UploadTyped`: `Spec => []TypeOK`. That there are never more assets and uploads than runs needs
  `OnceEach`: each run may create one asset and open one upload, and those that have not done so yet are counted. That
  `Spawn` gives each worker a part of its own needs that the n-th missing part exists
  and is one (`RankTaken`, `RankIs`, by least members of sets of numbers).
- `UploadWhole`: `Spec => []StoredWhole`. `Sessions` says of every run, over or not, and of every
  stored session that holds an upload id: it has the file of whoever else holds it, its parts and those at S3
  are of that file, and those it counts as sent are there while the upload is open; `Arrived` says this of
  a worker that is about to record a part. A worker of a failed run and one of its retry may
  then write in either order. When S3 assembles an upload, every part is there and of one file.
- `UploadNotStuck`: `Spec => []SomeoneAtWork`. `Busy`, with the part of each run's end that
  resets the page: a run that is over cannot be the last under a spinner.

**`PagesProofs`**, under `VideoPagesAssumption` (any people, chapters, segments, logo formats,
removals, metadata, inputs and faults). The assumption is about the model's own names: a request for a
title, a text or a removal is told from the other requests, as in the code they have
routes of their own; "none" is no value; and there is a logo format, as `settings.ts` lists them.
The invariant has seven parts:

- `TypedInv`: the types; what a request carries and an answer brings is what its kind calls for;
  one page at a time is open.
- `SettingInv`: one flow at a time writes the logo, unless a write was left in doubt; one flow
  reads, and what it has read is stored now or another write will read again; a name on its way
  stays in its editor.
- `ThumbInv`: an upload of a thumbnail has a key of its own, which neither the row nor another
  handler names, and its object is there from its PUT on.
- `WritingInv`: every text has a number of its own, whatever is sent of it carries that number, and
  a number that was dismissed is neither sent nor in a box.
- `EditInv`: for titles and for texts, while a read is on its way the page has nothing to edit, and
  what it brings is what is stored; then one edit is on its way, unless two overlapped, and what is stored is
  what the page shows or what that edit brought.
- `ChangeInv`: a version that the page will accept is no newer than the row; an answer about the
  row that was asked for before a change of one's own is not accepted after it.
- `MetaInv`: the same for metadata, which the page puts into the cache itself: what it has heard of was stored, and
  what it reads and shows is not older, unless a read was under way at that time.

The first two are needed by all; each step is taken once for a part of the API, the public page, the
dashboard, or the settings page. From these:

- `PagesPictures`: `Spec => []PicturesThere`, by `ThumbInv` and `SettingInv`.
- `PagesWriting`: `Spec => []WritingNeverLost`, by `WritingInv` and `SettingInv`.
- `PagesStored`: `Spec => []PagesShowStored`, by `EditInv` and `SettingInv`: with nothing on its way,
  what was read last was read after the last write.
- `PagesOwnChanges`: `Spec => []OwnChangesShown`, by `ChangeInv` and `MetaInv`.

They are about `Spec` of `VideoPages`; `TabsSpec` adds a viewer that shares nothing with it.

Only model-checked: liveness, and with it `ENABLED`, as the installed provers do not
reason about fairness: `QueueDrains`, `NothingStaysInFlight`, `RunSettles`, `EntitledAsPaid`,
`HungFfmpegEnds`, `BootsUnlessKilled`, `RecoveryEnds`, `SuccessSettles`; and `WatchReported`, which
compares sums over the batches sent, lost and stored: that such a sum grows by what is
appended needs induction over data, which the installed provers cannot instantiate. No module
with a theorem uses a recursive definition.

## 5. Where the code disagrees with itself

Met while modelling. Where a definition states what the code does not keep, it
stands in its module under "Not kept by the code", and TLC finds the
counterexample when it is put into a configuration.

**Pipeline.** (1) Two `/process` calls insert two rows, against "One in-flight transcode
per asset" (`assets.ts:433`): `OneInFlight` with two requests; the loser's row stays
pending and later refuses every call with 409. One client gets there too, after three crashes: a
booting worker fails the row of a job that is still live, a call passes the look at the rows, the worker
claims the row and dies, the stalled check fails the job, and the call inserts a second row. (2) A swallowed `remove()` makes
the `add` a no-op, against "Never leave the asset queued without a queue job
behind it" (`assets.ts:451`, `474`): `QuiescentSettled`. (3) A failure one
statement after `ready` takes a published video back to `queued`, against "the
job is complete from here on" (`index.ts:670-672`): `ReadyIsKept`. (4) A worker
uploads after DELETE purged the bucket (`assets.ts:514`): `DeletedLeavesNothing`.
(5) A failed archive is followed by the removal of the local source
(`index.ts:526-539`); two direct uploads share a directory that the first to fail
removes; an API that dies between the insert of the row and the status leaves a row that no
reconciliation sees; a direct upload that is cut off forgets the key of a
multipart upload under way, which then completes to an asset without a source
(`assets.ts:360`, `287`): `AssetBacked` under these faults and endpoints.

**Enrichment.** A worker that boots fails an AI run that another executes, as
runs follow `ready` (`index.ts:299-318`): `LiveRunSpared`. A worker killed in the AI
run of the only video in flight leaves its row at `processing`, as the boot returns
early (`index.ts:268`): `NoOrphanAtRest`; so does one whose settling statement fails, as
`process.ts:142` swallows that: `RunSettles` excepts it. The row says completed before its
outputs are uploaded (`ai/process.ts:126`).

**Billing.** An event is claimed before it is handled (`routes/billing.ts:145`). A delivery that comes
while the first is in progress is answered 200 as a duplicate, and Stripe stops; when the first
then fails, its claim is released, but its 500 is for a delivery that Stripe no longer repeats, against
"forget the event so the retry is processed" (`148`): `NoEventLost`, with two handlers and one
error. A release that fails is swallowed (`services/billing.ts:407`), and the retry is then a
duplicate. `EventsAccounted` names these two losses and the crash. With two subscriptions one after the other, a late event of the old
one replaces the paid one on record, and the reconcile never looks at the paid
one again (`billing.ts:298-300`, `451-455`): `EntitledAsPaid` with two
subscriptions. A webhook claimed before a crash, for an organization with no subscription on
record, is lost for good (`billing-reconcile.ts:51`). A write of what was read
before a cancellation can set the row back to past due with a grace period, or put an expired period
back, until the next event or the nightly reconcile. Two handlers that both see
`activatedAt` NULL send two welcome e-mails (`billing.ts:321`). A job queued
before a subscription ends is encoded without a limit, as there is no plan to read (`index.ts:149`).

**Accounts.** Changing a password keeps the other sessions that sign in at the same time
(`auth.ts:303-305`): `OnlyThisDevice`. A key whose request had passed its role check (`orgs.ts:258`) is inserted after the
removal of its author has deleted member and keys (`485-492`), and a removal that dies between its two
statements leaves the keys; either outlives the membership, against `README.md:123` ("revoked
automatically when their creator leaves") and `docs/api-reference.md:274`: `KeysLeaveWithMember`.
The key page offers creation and revocation to every member (`ApiKeysPage.tsx:134`, `241`), the API refuses
them to those who are not admins (`orgs.ts:258`, `324`): `OffersHonoured`. An admin may make admins by changing a role
(`orgs.ts:459`), though only owners may invite them (`orgs.ts:372`). Switching, signing out
everywhere and changing the password sign a token for the organization of the request without asking
whether its bearer is still a member. A reset link is spent before the
password is written (`auth.ts:365`): a process that dies between loses the link. Two
raises of the token version at once may end in one (`auth.ts:396-410`).

**Migrations.** A process that dies in `db.ts` between the user and the
organization (`73`), between the organization and its owner's row (`78-86`; later boots take the
organization for done, without an owner), inside a file (`migrations.ts:343`), or after the migrations
table and before the legacy repair (`306`) leaves a database that later boots refuse or
misjudge. `SessionsAdopted` (old rows of `0002_playback_sessions.sql` get an organization) fails
after a crash between the two updates of `db.ts:99`.

**Encoding.** The poster is not tidied up, so a half-written one may be published
(`index.ts:649-658`), also by an ffmpeg that was told to stop. Nor is a file
whose removal fails as well (`index.ts:636`, `647`): it is published with the rest. `ffprobe` has no time
limit (`ffmpeg.ts:174`, `269`). A late PUT of a failed attempt may overwrite the next
one's object. Jobs check for free space each on its own (`scratch.ts:22-33`). The
sweep removes what is older than a day, a live job of another worker on a shared directory
included. A crash leaves its ffmpeg running. `formatVttTime` can print 1000 ms (`thumbnails.ts:24-30`).

**Upload.** The time limit of `lib/api.ts:80` rejects with an AbortError that `upload.ts:143`
and `261` take for a cancellation. When `complete` took effect and its answer was lost, every
retry fails and the session is kept (`assets.ts:300`). The `finally` of an old run clears
the abort handle of a newer one (`NewVideoPage.tsx:150`): `PartsRetried` and a cancel that does nothing.
An S3 multipart upload that is never aborted stays.

**Player.** A pause while autoplay is pending rejects the promise of `play()`, and the handler, which does
not look at the error, takes it for a refusal and starts the player again, muted
(`208-211`): `MutedWhenBlocked`. A tap that reveals the controls and gives no click leaves its
suppression to the next click of a mouse, against the comment at `617`: `MouseClickToggles`. Retry and media
recovery leave `playing` on a paused element (comment at `873`); a fatal error does not clear the
retry timer (`307-311`); a quality spinner and the end screen outlive a Retry; thumbnails of the
previous video may arrive late (`327-333`).

**Analytics.** A tab that was hidden before it played clocks while hidden
(`lib/analytics.ts:10-12`): `HiddenNotClocked`. A seek can make a view of a video that never
played (`services/analytics.ts:350`): `ViewWasPlayed`.

**Pages.** Overlapping inline edits lose one (`WatchPage.tsx:198-212`); a comment is shown twice or
missing when the list is read while it is posted (`CommentSection.tsx:63`), and
stored twice when its answer is lost (`comments.ts:50`); the reaction toggle checks, then
inserts, without a unique index (`comments.ts:138`); subtitles differ from the transcript after
overlapping or failed saves (`assets.ts:680-690`); a poll in flight reverts a metadata key
(`VideoDetailPage.tsx:126`), the one exception in `OwnChangesShown`; the settings dialog compares its draft with the polled asset
and reverts another editor's change (`VideoSettingsModal.tsx:59`); a thumbnail is deleted before the
row stops naming it (`assets.ts:588-592`); data of the previous video survives a change of
`playbackId` (`WatchPage.tsx:157-179`).

**Settings.** A handler goes on when the page has given up its call
(`lib/api.ts:80`): what it writes then, the page has shown as failed. A late read resets unsaved drafts (`SettingsPage.tsx:84-89`), edits typed during
a save are lost; after a failed read a save writes defaults over what is stored
(`settings-context.tsx:89`); overlapping logo calls leave a dangling `logoKey`
(`settings.ts:123-153`); two first reads may insert two rows (`settings.ts:27-43`).

**Console.** An expiry timer or a late 401 of an old token clears a newer one
(`lib/auth.ts:134`, `lib/api.ts:93`); a tab that was opened after another signed out, or reloaded on
the paywall, has no timer; after a switch in one tab the writes of the other go to the
new organization under the old one's name; a late answer signs in again after a sign-out;
a page on which another tab signed out, and then somebody of another organization signs
in, still shows the subscription read for the former (`TabIsOfItsSession` excepts what happens
after a change from outside, by `foreign`); the clamp to `MAX_TIMEOUT_MS` signs out early when tokens live longer than 24.8 days.

## 6. What is not modelled

Within the modelled parts. Pipeline: objects left by an upload to S3 that failed half way
(they are not told from those of the run before); a PUT to a presigned URL after
DELETE; outgoing webhooks and e-mail; ids of before 0.x; the moment between the stalled event and the listener's read of
the job data; a finished job is retired only when its listeners have run, a day
being longer than that. Billing: prices, the customer record and the portal; two Checkout
sessions open at a time; a second return from one session; one cache per replica; an entitlement
read that overlaps a write (it is as stale as one cached just before, for the same 30 s).
Usage: a change of plan, and storage except as a reason to refuse. Accounts: hashing, rate limits, a
second organization. Pages: reactions beyond sending them, rich text, share and download
dialogs; that `setQueryData` also clears an error the query had before. Player: captions, fullscreen, scrubbing previews. Analytics: referrers, countries, devices,
charts. Console: self-host mode, forgotten passwords.
A retry of a call to the database or to S3 below the level of a statement (`withRetry`) is
part of the call. Bounded by assumption: one fault at most in `Billing`, besides a release that fails after an error; `stall`
is excluded from `ExclusiveTranscode`, since BullMQ makes no promise there.

Parts not modelled at all are in `PROJECT.json`, each with its reason: they are
calls nothing reads the outcome of, pure functions over strings, generated or static
text (translations, styles), and start-up.

## 7. What is left

Proofs. The account of watched time in `Analytics`, which needs a theory of sums, and liveness, which
needs provers for fairness.

Models. The share, captions and reaction dialogs of the public page, the members' page beyond
what it offers, and outgoing webhooks are the parts of which most is left out.
