# Orchdio in TLA+

Orchdio converts tracks and playlists between streaming platforms (Spotify,
Deezer, Apple Music, Tidal, YouTube Music). It is one Go process: a fiber HTTP
server and an asynq task server in the same `main`, over Postgres (apps, users,
tasks, follows), Redis (asynq's queues, track caches, OAuth verifiers) and Svix
(webhook events to the developers who use the API). Several instances may share
one Postgres and one Redis.

This directory holds TLA+ models of its core, the TLC runs that check them and
TLAPS proofs about them: what happens to a playlist conversion, from the request to
the last retry; the tracks that conversions cache for each other; how users connect
their accounts to a developer's app and how their tokens are refreshed; how
developers sign up, and how their apps are created, changed and used. Paths below are
relative to the repository's root.

## 1. Inventory

| Component | State | Operations | Hard behaviour |
|---|---|---|---|
| **Conversion task**: `controllers/platforms/base.go`, `queue/queue.go`, `controllers/conversion/conversion.go`, `db/db.go` | a task in asynq's queue; a row in `tasks` (status, result) | `ConvertPlaylist` queues the task, *then* inserts its row; `PlaylistHandler` converts and writes the row; `GetPlaylistTask`, `DeletePlaylistTask` | delivery before the row exists; status and result in two updates; retries and conversions by the error handler; crash between steps; conversions of error bodies |
| **Queue server and life cycle**: `main.go` | the pause flag of the shared queue; phase of each process | start workers, look at the queues, unpause them, serve; pause, then stop listening on a signal; the asynq `ErrorHandler`; fiber's `ErrorHandler`, which kills a queue server | pause outlives the process; several instances; error handler runs conversions itself and dies of their success; workers run before and after the HTTP server does |
| **asynq** (library) | scheduled, pending, active, retry, completed and archived tasks; leases | forward, dequeue, retry or archive, recover | at-least-once delivery, lost leases, handlers that ignore their timeout |
| **Conversion pipeline**: `internal/service/service.go` | tracks in flight on a channel, results, a WaitGroup | caller, producer (reads the source platform), consumer (searches the target, sends events) | three goroutines, an unbuffered channel, panics that end the process, events that get lost |
| **Platform services**: `services/*`, `internal/platform/platform.go` | cached tracks in Redis | metadata, pages of tracks, search, libraries | paging, partial failure, cache keys that differ between writer and reader |
| **Webhook events**: `webhooks/svix/svix.go` | Svix apps and endpoints | send an event; manage apps | events may be refused; nothing is sent again |
| **Track conversion**: `internal/service/service.go`, `universal/universal.go`, `util/util.go` | cached tracks in Redis, a source track that is shared by reference | `ConvertTrack` to one or all platforms; `CacheTrackByID`, `CacheTrackByArtistTitle` | requests and playlists that share the cache, keys each platform builds its own way, one target of several failing, expiry between two reads |
| **Authorization**: `controllers/auth/auth.go`, `services/user_app.go` | verifier per app in Redis; rows of `users` and `user_apps` | `/connect`, `/callback`, the refresh of Tidal's tokens | sign-ins of one app that cross; lookup, insert and two updates without a transaction; a refresh beside a sign-in |
| **Follow**: `services/follow/follow.go`, `services/services.go` | `follows` rows, snapshots in Redis | subscribe, sweep, notify | stale snapshots, overlapping sweeps (the cron job that sweeps is commented out, `main.go:539`) |
| **Organizations and accounts**: `controllers/account` | users, organizations, reset tokens | `CreateOrg`, `LoginUserToOrg`, `DeleteOrg`, `ResetPassword`, `ChangePassword`, waitlist | up to five queries without a transaction; retries of sign-ups that failed half-way; tokens that are replaced or expire |
| **Developer apps**: `controllers/developer`, `db/developer.go`, `middleware/auth.go` | rows of `apps` with keys and credentials; applications and endpoints on Svix | `CreateApp`, `UpdateApp`, deletion of credentials, `DeleteApp`, `DisableApp`, `EnableApp`, `RevokeAppKeys`; the middleware's lookup of a key | several steps over two systems, none rolled back; read, merge and write; two lookups of one key |
| **Email tasks**: `queue/queue.go` | the email queue | `SendEmail`, `SendEmailHandler` | retries |

What makes the core correct:

* *Conversion task.* One run at a time per task; the row's status and result
  belong together whenever the row says the task is done; a client that polls
  sees the task go unknown, pending, reported, and never back; a deleted task
  stays deleted; what asynq keeps as completed has a verdict in the row.
* *Life cycle.* An instance that was not told to stop does not serve with its queue paused; each queued
  task reaches the end of its life in the queue, whatever fails.
* *asynq.* Its last word on a task stands.
* *Pipeline.* Events come in the playlist's order with the metadata first and the
  done event last; every track that was handed over ends up in exactly one of
  converted and omitted; the three goroutines never wait for each other for ever.
* *Track conversion.* Whatever conversion wrote a cache entry, it is what its key
  says, or Deezer's blank track; a conversion answers with its own source track and with tracks of the
  platforms it was asked for; a hit is the song that was wanted.
* *Authorization.* The tokens of a row were granted to the row's user on its platform,
  and to its app unless they were refreshed; an account gets a second row only by
  sign-ins that are stored at the same time; only a later sign-in to the same app
  makes Tidal refuse a verifier.
* *Developer apps.* A webhook id is that of an application on Svix; an app whose request
  succeeded gets its events; a request alone with its app leaves one URL and touches
  only the fields that were passed; a revoked key lets nothing through.
* *Accounts.* An organization belongs to the user it was created for, and a user has two
  only if their sign-ups overlapped; whoever is told of a new organization can log in
  to it; a password is reset with the last token; a sign-up that is tried again settles.

PROJECT.json lists the hazards line by line, also those of the parts that are not
modelled.

## 2. Modules

```
TaskBoard                     what a client may rely on when it polls a task
   ^ implements
ConversionTask                request, queue, handler, error handler, life cycle
   ^                ^
MCConversionTask    ConversionTaskProofs, ConversionTaskBoardProofs
SequentialConversion          the conversion of a playlist as one loop
   ^ implements
PlaylistConversion            one run of AsynqConvertPlaylist
   ^                ^
MCPlaylistConversion  PlaylistConversionProofs
IndependentConversions        conversions of tracks that share nothing
   ^ implements
TrackConversion               the track cache and the searches that share it
   ^                ^
MCTrackConversion   TrackConversionProofs  <-  TrackConversionApartProofs
AppAuth                       sign-ins on platforms, the refresh of tokens
   ^                ^
MCAppAuth           AppAuthProofs
DeveloperApps                 apps over Postgres and Svix, and their keys
   ^                ^
MCDeveloperApps     DeveloperAppsProofs
Accounts                      organizations, logins, password resets
   ^
AccountsProofs
```

`ConversionTask` treats a conversion as one step, `Convert`, whose outcomes are
success, two kinds of error, a panic, or the end of the process (`Crash`).
`PlaylistConversion` is the inside of that step. Its `returned`, `failed`,
`panicked` and `~alive` are these outcomes; the second error kind collapses in
it because the code itself formats one error into the other.
`TrackConversion` is the inside of a search of `PlaylistConversion` and of
`ConvertTrack`: what the searches of all conversions, which meet in one Redis, leave
for each other. `AppAuth`, `DeveloperApps` and `Accounts` share no state with these but
what they are given: a conversion finds the credentials of an app or does not
(`known`), whoever wrote them.

### ConversionTask

| State | In the code |
|---|---|
| `req`, `server` | how far `ConvertPlaylist` has come for a task (idle, queued, answered with 201 or an error, cut off by the end of its process), and in which process |
| `queue`, `retried`, `paused` | asynq's keys in Redis for the conversion queue |
| `status`, `result` | the row in `tasks`; an absent row is `"absent"` |
| `worker`, `holder`, `lease` | asynq's worker of each attempt: waiting for the handler, in the error handler, about to retry; the process it runs in; whether Redis still has its lease |
| `pc`, `cause` | where a run of `PlaylistHandler` is between two database calls, and why its conversion failed. A run is the handler of an attempt, or the conversion of its error handler (`"rescue"`) |
| `life` | down, booting (workers run, queues not looked at yet), unpausing, serving, leaving (the queue is paused, requests are still answered), stopping (no new connections, the open requests are) |

The steps of a run are the calls that change or read shared state, in the code's
order: `Fetch`, `Convert`, then `MarkFailed`, `StoreError` (status first) or
`StoreConversion`, `MarkCompleted` (result first). Every store call may fail when
`StoresMayFail`, before or after it took effect. Points where the model follows
what the code does and not what it seems to say:

* `CheckForOrphanedTasksMiddleware` asks `asynq.NotFound`, which is the library's
  "no such handler" function and always returns an error, so every handler error
  becomes `EnoResult`. `ErrorHandler` asks the same question, so it always takes
  the orphan branch (`main.go:232`) and converts the playlist itself. An error of that
  conversion is only logged. After a success it falls through to `main.go:251`, where
  `task.ResultWriter()` is nil: asynq builds the task it hands an `ErrorHandler` anew
  from type and payload. That panics in the worker's own goroutine, and the process
  dies (`OrphanRunReturns`). Whatever came of it, asynq retries or archives the task, in
  this process (`RetryOrArchive`) or, once the lease ran out, in the next (`Recover`).
* A paused queue makes the error handler unpause it and return (`ErrorHandler`,
  second disjunct), also while the process that paused it is shutting down.
* `ConvertPlaylist` is handed the error of the metadata's lookup formatted with
  `%v` (`service.go:257`); `ReportedError` is that loss.
* `PlaylistTaskHandler` ignores its context: `Abandon` lets the worker go on
  while the run stays where it is. `Return` of a run nobody awaits ends in
  `"idle"`.
* A panic in the handler's goroutine is recovered by asynq (an error); in the
  error handler, or in a goroutine of the conversion, nothing recovers it
  (`Crash`).
* On a signal `main` first pauses the queue (`PauseQueue`) and then, whether that
  failed or not, shuts fiber down (`StopListening`); in between it serves with its queue
  paused. asynq's server is not shut down, so `Dequeue` needs only a process that is up.
* `UnpauseQueue` fails on a queue that is not paused; when another instance was
  faster, `main` returns (`Terminate`).
* The task's payload always decodes (the same program wrote it), and marshalling
  a conversion never fails; `playlist == nil` without an error does not happen
  (`universal.ConvertPlaylist` returns one or the other). Email tasks use other
  queues and are left out.
* Deezer answers some errors with status 200, and `MakeRequest` reads such a body as a
  playlist without URL and tracks (`services/deezer/base.go:418-448`). Its conversion is
  stored as completed: `Conversions` has `"blank"` beside `"conversion"`.
* `GetPlaylistTask` is `TaskView`: a completed row whose result has no playlist URL,
  because the result is not there or is blank, is shown as pending (`conversion.go:118`,
  `ShownPending`), a failed one as failed whether its payload is there yet or not.

External actions (asynq): `Forward`, `Abandon`, `LeaseExpires`, `Recover`,
`FailTask`, `RetryOrArchive` and `Release`. Tasks are kept for 24 hours and task
ids are fresh UUIDs, so neither expiry nor the uniqueness lock is modelled.

### TaskBoard

Six actions (`Accept`, `Report`, `ReportBlank`, `Forget`, `Close`, `Drop`) over what
polling answers, which pending tasks were last reported on as blank, and whether the
queue still works on the task. It has no queue, attempts or processes in it.
`ConversionTask!Board` maps `view` to `TaskView`, `blank` to the tasks that are
`ShownPending` and `outcome` to `QueueOutcome`. A report may change while the task is open (a completed task
may be converted again and fail), and a task may be dropped without a report;
both are what the code does.

### PlaylistConversion

`main`, `producer` and `consumer` are the three goroutines; `sent` counts the
tracks handed over on the unbuffered channel (`Receive` is the rendezvous),
`closed` and `wg` are the channel and the WaitGroup; `src`, `tgt`, `omitted` and
`platforms` are the result, `feed` the events Svix accepted. A track is its
position in the playlist. The platforms differ as their code does:

* Deezer reads one page; Spotify reads all pages before it sends the first track,
  and a page it cannot read is `log.Fatal`; Tidal reads page after page and sends
  nothing (it ranges over a variable nothing fills); Apple Music and YouTube
  Music are not implemented, but YouTube Music's metadata is nil without an error,
  so its conversion goes as far as the done event and fails after it.
* A search that finds nothing is `EnoResult` on Spotify, Deezer and Apple Music.
  Tidal then asks for the track with an empty id and returns that call's error.
  Every error that is not `EnoResult` comes with a nil track, which the consumer
  dereferences: the process dies (`Die`). So it does when the app has no
  credentials of the target (`known`).
* The cached branches of Spotify's, Deezer's and Tidal's fetches read keys
  nothing writes and are left out (`FetchEnds` covers their failures).

### SequentialConversion

What the handler that calls `AsynqConvertPlaylist` and the subscriber of its events may
take it for: one loop that reads tracks (`Read`), converts or omits the next one with its
event (`Convert`, `Omit`), tells that it is done (`Finish`) and returns (`Return`). It has
no goroutines, channel, WaitGroup or pages in it. Where a failure can strike is part of
the promise: an error comes before the first event or after the last (`Stop`), anything in
between ends the process (`Perish`). On a platform that loses what it reads (`lossy`,
Tidal) the loop has nothing to convert, however many tracks were read.
`PlaylistConversion!Loop` maps `read` to `fetched`, `handled` to the number of tracks on
the source's side, `converted` to `tgt` and the answer to the two platforms of the result;
within one platform the answer keeps the converted tracks only.

### TrackConversion

| State | In the code |
|---|---|
| `cache` | the tracks in Redis, by key; an entry expires or does not |
| `at`, `request` | where a conversion is between two calls to Redis or to a platform: `lookup`, `get`, `fetch` its source track; `item`, a playlist's track that arrives at the consumer; `panic`, about to end its process; `search` in the cache and `ask` the platform, for the target at the head of `todo` |
| `source` | the source track. The search data point to the artists of this very struct, so what a search does to them is seen in the answer |
| `todo`, `found` | the targets left and the tracks found on the others |

A job is a client's `ConvertTrack` (`kind = "track"`) or a track of a playlist on
its way through the consumer (`"item"`), which is cached under its platform, and
whose found counterpart is cached under the target. Each platform has one action
for `SearchTrackWithID` and one for `SearchTrackWithTitle`, whose disjuncts are the
separate calls. The keys are modelled by their parts, since this is where the
platforms differ:

| | looks for | reads | keeps a search under |
|---|---|---|---|
| Spotify | platform, normalized artist, title (nothing writes it) | the same | its id, for ever |
| Deezer | `title-artist`, normalized artist | the same | nothing; the consumer keeps Deezer's own spelling |
| Apple Music | the artist as written, no title | the normalized artist | the normalized artist |
| Tidal | a `title-artist` key of a whole `PlainKey` (nothing writes it) | the same | nothing |
| YouTube Music | as Spotify's (nothing writes it) | the same | hashed keys nobody reads |

Points where the model follows the code:

* Spotify's search strips the artist *in place* (`services/spotify/base.go`), so a
  later target of the same request searches for the stripped artist and the
  answer's source track shows it. `SourceAnsweredAsRead` says exactly how far this
  goes.
* Spotify's `SearchTrackWithID` takes the artists of the album, Tidal's the id of
  the album (`AsSource`). The entry is kept by the id that was asked for.
* Deezer looks whether the key exists and reads it in a second call; the entry may
  have expired in between. Apple Music reads the cache and fetches anyway.
* Deezer's `fetchSingleTrack` does not look for an error in a body with status 200, as
  other requests of the same file do (`services/deezer/base.go:367`, `432`). What it reads
  then is a track without artists, `Blank`; it is kept for a day under the id that was
  asked for, and the search on the first target panics on its first artist (`Sourced`,
  label `panic`). A conversion of the same track that finds the entry does the same. Unless
  a target has no service, in which case the conversion fails before.
* Apple Music's entries are keyed by the artist alone: a hit ignores the title. No
  property claims that it is the song, and `DeezerHitsTheSong` is about Deezer,
  whose hits are.
* The middleware admits a link only if the app has credentials of its platform; the
  targets are looked at by `ConvertTrack`, after the source track was read and
  cached (`Sourced`).
* A dereferenced nil and an unrecovered panic are `Crash`, which is always enabled
  while a conversion runs.

Of a track only the id, the first artist and the title are kept: further artists,
durations and previews play no part in keys. Two spellings of an artist are related
by `Normalized` (`util.NormalizeString`) and `Extracted` (Spotify's
`extractArtiste`), which are constants: any function, the first one idempotent.
The platforms' answers are any track of their `Catalog`.

### IndependentConversions

Conversions without a cache: each request gets its source track as its platform gives it,
then, target after target, a track of that platform (`Find`), or nothing (`Miss`). Only a
request to a single platform fails with its target (`Fail`). That Spotify's search strips
the source's artist is part of it (`Strip`), and so is its place: after the source was
read, before that target is answered. A conversion that is about to panic on a blank track
is one that still waits for its source. `TrackConversion!Apart` hides `cache` and the
difference between a search in the cache and one on the platform (`Phase`). The source
track is hidden until the searches begin; a request's targets, readings and whether it
stands alone are functions of the request.

### AppAuth

| State | In the code |
|---|---|
| `verifier` | `<app>-verifier-raw` in Redis |
| `users`, `rows` | the tables `users` and `user_apps`; a row's tokens, scopes and expiry, and whether it has been refreshed |
| `at`, `account` | where a sign-in is between `/connect` and the answer of its `/callback`; the user, app and platform it is for |
| `raw`, `mine` | what its callback has read: the verifier, the uuid of the row it found or inserted |
| `serving`, `whose`, `todo`, `fresh` | a request to `/account`: its user, the refreshes it has yet to make, the tokens the last one brought |
| `beside` | history: which sign-ins to the same account were stored at the same time |

A code verifier and a pair of tokens are named by the sign-in they belong to, so that
the properties can say whose they are. Points where the model follows the code:

* `/connect` overwrites the verifier of the app before it looks at the platform's
  credentials, and for platforms that use none. Spotify's `FetchAuthURL` and
  `CompleteUserAuth` ignore challenge and verifier; only Tidal compares them
  (`CompleteTidalAuth`).
* Deezer's state is a static one of the app and needs no lookup. A callback of Deezer
  or Apple Music stores the empty string for `expires_in`, which the column's type
  refuses, so an account's first sign-in there ends with the insert (`CreateUserApp`);
  only rows from before that column exists can be updated, and these are
  `LegacyRows`. Apple Music's branch then runs the last query with six of its eight
  arguments (`UpdateAppleMusicUser`).
* A callback may fail between any two of its calls (`Fail`); what it stored stays.
* `FetchUserInfoByIdentifier` refreshes expired Tidal tokens twice for a row, and
  `UpdateOAuthTokens` writes the new ones to every row of the user on the platform,
  those of other apps included.

### DeveloperApps

| State | In the code |
|---|---|
| `rows` | the table `apps`: authorized, has a webhook id, URL, the credentials per platform |
| `svix` | applications on Svix by their uid, with the URL of the one endpoint (`None` before there is one) |
| `at`, `app`, `platform`, `passed`, `url`, `merged` | a request between two calls, with what it was passed, what it read, and what it will write |
| `key` | the kind of key a request presented, while that key is the app's |
| `alone` | history: no other request has touched the app since this one began |

Points where the model follows the code:

* Uids on Svix are derived from the app's uuid, so Svix refuses to create an
  application or an endpoint twice. `CreateApp` asks for the portal's address after
  the application was made, and fails if that does; nothing is taken back
  (`CreateSvixApp`, second disjunct). The error of its last query is ignored
  (`UpdateIntegrationCredentials`), and the answer is a success.
* `UpdateApp` reads the row, merges what was passed into the credentials it read and
  writes all of them back. Whether the endpoint is created or updated is decided by
  the webhook id in the row; a missing endpoint is told by the text of the error.
* YouTube Music has no column for credentials; what is passed for it is lost.
* `main.go:492-494` registers `DeleteApp`, `DisableApp` and `EnableApp` on routes that
  name no app, so that the handlers refuse every call. They are modelled as what the
  handlers do with an app's id, the stronger case for the properties.
* The endpoint that is created filters the types of its events, and the missing track's is
  not among them (`webhooks/svix/svix.go:146`): the endpoint `AnsweredAppGetsEvents` speaks
  of gets the others. The feed of `PlaylistConversion` is what Svix accepted, before
  this filter.
* Of the middleware's two queries only the first asks whether the app is authorized
  (`FetchAppByKey`).
* `RevokeAppKeys` replaces one key. (Its answer for a public key leaves the new key
  out; an answer's contents are not modelled.)

### Accounts

| State | In the code |
|---|---|
| `users`, `orgs` | the tables `users` (uuid, password, reset token and whether its time is over) and `organizations` (owner) |
| `at`, `email`, `found` | where a request is between two queries, the email it is for, the uuid it goes on with |
| `shown`, `stale` | the reset token a change of password presents; history: that it was not the last one, or out of date |
| `beside` | history: the sign-ups for the same email that were ever served at the same time |
| `failures` | how many queries of sign-ups have failed, up to `MaxFailures` |

A request names what it brings: the uuid of the user or organization it inserts, its
password and the token it saves. Points where the model follows the code:

* `CreateNewOrgUser` inserts with `ON CONFLICT`; on a conflict it changes nothing, and the
  request goes on with a uuid that is nobody's. The foreign key of the organization's
  owner is what refuses it then (`CreateOrg`).
* `CreateOrg` signs the login token after the organization was inserted: the request can
  fail with everything done, and a retry finds it.
* Signing in on a platform creates a user without a password (`CreateUser`). Such a user
  may ask for a reset token, but the query that looks it up fails to scan the NULL
  password (`FindUserByResetToken`); only a sign-up sets the password.
* A reset token is not cleared when it has been used, only replaced or out of date. Tokens
  of different requests are different in the model, which the code's random strings
  (`util/util.go:341-361`) only make likely.

## 3. Runs

| Run | Instance | Shows |
|---|---|---|
| `task_two_instances` | 1 task, 2 instances, 1 retry, stores may fail, fair; 329,638 states | `TypeOK`, `OneRunAtATime`, `CompletedHasConversion`, `ImplementsTaskBoard`, `EveryTaskSettles` |
| `task_abandoned` | 1 task, 1 instance, 1 retry, lost leases and abandoned handlers; 674,836 states | `QueueNeverReopens`, `UnpausedUntilTold`, and `QueueDoneMeansRecorded` in the form that survives abandoned handlers |
| `playlist_feed` | every pair of platforms, up to 5 tracks in pages of 2, events may be refused, fair; 251,440 states | `TypeOK`, `FeedInOrder`, `DoneTellsAll`, `ResultPartitionsSource`, `ConversionEnds`, `NearsItsEnd`, `ImplementsSequentialConversion` |
| `track_to_deezer` | 2 conversions at once, Deezer and Spotify links and playlists, to Deezer (and to Tidal, of which there are no credentials); the jobs are symmetric, 1.3 million states | `AnswersAreThePlatformsOwn`, `DeezerHitsTheSong`, `ImplementsIndependentConversions` |
| `track_to_all` | 1 conversion after the other, links of four platforms to all others, Redis may fail; 2.3 million states | `TypeOK`, `CachedAsRead`, `SourceAnsweredAsRead`, `OnlyTwoSearchesHit` |
| `auth_two_sign_ins` | 2 sign-ins and 1 request to `/account`, of 2 users and 2 apps on 4 platforms, 2 rows from before; 591,576 states | `TypeOK`, `TokensOfOwnUser`, `ForeignTokensAreRefreshed`, `DuplicatesOnlyByOverlap`, `ScopesFitTokens`, `RefusedOnlyIfOverwritten` |
| `developer_two_requests` | 2 requests at a time, 1 app that may be an old one, Tidal and YouTube Music, 2 URLs, any call may fail; 619,101 states | `TypeOK`, `WebhookAppExists`, `AnsweredAppGetsEvents`, `OneUrlAfterwards`, `OnlyPassedFieldsChange`, `LetThroughByValidKey` |
| `accounts_requests` | 3 requests, 2 emails, 1 failure, fair; 692,666 states | `TypeOK`, `OrgsOfTheirUsers`, `TwoOrgsOnlyByOverlap`, `ResetsUseLastToken`, `CreatedCanLogIn`, `SignUpsSettle` |

Four runs are expected to find a violation: each states what a comment of the
repository says and the code does not do.

| Run | Property | The comment | The code |
|---|---|---|---|
| `task_orphan_settles` | `OrphanSuccessSettlesTask` | `queue/queue.go:286`: a success marks the task as done in the queue, only an error retries it | the error handler that converted with success panics at `main.go:251`, and the next process retries the task |
| `auth_refresh_crosses_apps` | `RefreshTokenForThisApp` | `db/migration/000001_configure_tables_and_columns.up.sql:170`: the refresh token for this user for this app | a refresh writes to all of the user's rows on the platform, whichever app they are of |
| `developer_half_created` | `EmptyMeansNotOnSvix` | `controllers/developer/dev_app.go:203`: an empty webhook id means that there is no application on Svix | a creation that fails after Svix made the application leaves the id empty |
| `accounts_two_orgs` | `OneOrgForEachUser` | `db/db.go:547`: one organization for each user | two sign-ups that both look before either inserts both insert |

**Bounds.** Tasks share nothing but the pause flag, and each of them can meet every
value of it through the life cycle alone, so one task shows what a task can meet;
the proofs cover any number. Two instances are enough for one to shut down,
crash or boot while the other serves or works, which is all the code's sharing of
Redis and Postgres allows two of them to do to each other. One retry is what the
code asks for (`base.go:146`) and gives two attempts, so an old attempt can meet
a newer one. Five tracks with pages of two give a first, a full and a partial last
page; the tracks' order needs two tracks and a page's end between them.
Conversions of tracks meet in the cache one
entry at a time, so two at once show what one does to another; a single one that
runs again and again meets what earlier ones left. Nothing distinguishes two jobs and
`track_to_deezer` checks no liveness, which makes their symmetry sound. Every platform has two tracks,
whose artist is written in two ways and normalized to a spelling that is also
somebody's own, the case in which keys of different spellings can collide; `Links`
and `Aims` choose the platforms of a run, and between them the runs have all five.
Sign-ins meet in one row or one verifier at a time, so two sign-ins and one refresh
beside them meet in every order; the accounts they are for are any, chosen in `Init`.
Requests of a developer begin again when they have been answered, so two of them make
histories of any length on one app. A request of `Accounts` is used once: three are the
fewest for a sign-up, a reset token and a change of password, or for two sign-ups and a
login; a failure in any place is one. With two failures the safety properties of
`accounts_requests` hold as well, and the proofs allow any number.

**Deadlock** is checked in the runs of `ConversionTask`, `TrackConversion` and `AppAuth`. A
playlist's conversion ends, the requests of `Accounts` are used up, and in
`DeveloperApps` uuids are (an application that was deleted stays on Svix), so these runs
switch it off; `ConversionEnds` and `SignUpsSettle` say instead what has to go on.

**Fairness.** `ConversionTask` assumes weak fairness of asynq's forwarder,
recoverer and dequeue, which are polling loops of every process, of each worker
and of each run: a goroutine that is not blocked goes on, and the calls it makes
return. It assumes nothing of requests, signals, crashes or boots; instead
`EveryTaskSettles` says what follows *if* some instance keeps serving and the
queue stays unpaused. That premise is needed: a process may crash for ever, and a
departing instance may pause the shared queue behind the back of one that serves.
`PlaylistConversion` assumes weak fairness of the three goroutines: the HTTP
clients of the platforms return at last, and the scheduler runs what can run.
`Accounts` assumes that a handler goes on to its next query and that a client whose
sign-up failed tries again; it assumes nothing of the other requests. The other modules
have no liveness property and assume none.

**Limits of what holds**, found with the models and stated in the properties:

* `OneRunAtATime`, `CompletedHasConversion` and `ImplementsTaskBoard` need workers
  that do not abandon running handlers; `UnpausedUntilTold` holds for an instance
  alone, not for two that are deployed one after the other. `EveryTaskSettles` is
  checked for workers that do not abandon handlers.
* A task that was converted from an error body of Deezer's is shown as pending for ever,
  although the queue is done with it. `TaskBoard` keeps such tasks apart (`blank`) and
  lets the queue close no other pending task as done.
* Between the pause of the queue and the end of its process an instance accepts tasks
  that wait for the next start; `UnpausedUntilTold` is about instances not told to stop.
* Deezer's blank tracks are in the cache, under ids only and for their day; `CachedAsRead`
  says so, and `SourceAnsweredAsRead` that none is ever answered.
* `DoneTellsAll` is about feeds of which Svix refused no event: nothing is sent again. A
  conversion may be completed with a part of the playlist, since the producer's error
  is only logged; a Tidal playlist is converted to an empty one, since its producer
  ranges over a variable nothing fills (`services/tidal/base.go:435`).
* The handler does not create the task's row, although `controllers/platforms/base.go:137`
  says so: a handler that is faster than the request fails. What kind of error a
  conversion failed with is lost on the way (`queue/queue.go:173`).
* Spotify's search looks for a key nothing writes, so that it never hits
  (`services/spotify/base.go:123`); neither do Tidal's and YouTube Music's.
  `OnlyTwoSearchesHit` names the two that do.
* Tokens of another app come into a row by a refresh, second rows of an account and
  scopes that do not fit by sign-ins that cross, second organizations by sign-ups that
  do. The properties name these as the only ways.

## 4. Proofs

TLAPS checks the following for every value of the constants that the named assumptions
of the modules allow: sets of tasks, instances, requests, sign-ins, users, apps,
conversions and names of any size, any number of retries, tracks and failures.
Each `...Proofs` module shows `Init => IInv` and `IInv /\ [Next]_vars => IInv'` for the
inductive invariant `IInv` of its component, a conjunction of named parts in the
component's module; TLC has checked each `IInv` on the instances above. Action properties
follow from `IInv` and the step.

| Module | Theorems (each `Spec => []...`, or `Spec =>` an action property or the refinement) |
|---|---|
| `ConversionTaskProofs` | `TypeCorrect`, `OneRun_AtATime`, `Completed_HasConversion`, `QueueDone_MeansRecorded`, `Queue_NeverReopens`, `Unpaused_UntilTold` |
| `ConversionTaskBoardProofs` | `Implements_TaskBoard`: `~MayAbandon` implies `Spec => ImplementsTaskBoard` |
| `PlaylistConversionProofs` | `TypeCorrect`, `Feed_InOrder`, `Done_TellsAll`, `Result_PartitionsSource`, `Nears_ItsEnd`, `Implements_SequentialConversion` |
| `TrackConversionProofs` | `TypeCorrect`, `Cached_AsRead`, `Source_AnsweredAsRead`, `Answers_ArePlatformsOwn`, `Deezer_HitsTheSong`, `OnlyTwo_SearchesHit` |
| `TrackConversionApartProofs` | `Implements_IndependentConversions` |
| `AppAuthProofs` | `TypeCorrect`, `Tokens_OfOwnUser`, `ForeignTokens_AreRefreshed`, `Duplicates_OnlyByOverlap`, `Scopes_FitTokens`, `Refused_OnlyIfOverwritten` |
| `DeveloperAppsProofs` | `TypeCorrect`, `Webhook_AppExists`, `AnsweredApp_GetsEvents`, `OneUrl_Afterwards`, `OnlyPassed_FieldsChange`, `LetThrough_ByValidKey` |
| `AccountsProofs` | `TypeCorrect`, `Orgs_OfTheirUsers`, `TwoOrgs_OnlyByOverlap`, `Resets_UseLastToken`, `Created_CanLogIn` |

**ConversionTask**, from `MaxRetryAssumption`, `NoInstanceAssumption` and
`FailureAssumption`:

* `Owned`: a worker under a lease has its task, active and at this very attempt.
  This is what makes a late worker harmless: without the lease it leaves the
  queue alone, with the lease nobody else can have taken the task.
* `Leased`: when workers never abandon handlers, every busy worker has its lease
  (a crash takes worker and lease together).
* `Attended`: every run is awaited by its worker, which waits for the handler or
  in the error handler, never both. `Owned`, `Leased` and `Attended` together
  give `OneRunAtATime`: two runs of one task would be two attempts of the same
  number.
* `Verdicts`: a run past `Fetch` found the row, so the request is over and the row
  is not inserted after it; a run that wrote a verdict leaves no pending row.
* `Recorded`: what the row holds at each point of a run. A write of another run
  could break it, which is why it rests on `OneRunAtATime`. It gives
  `CompletedHasConversion` and, at `Done`, `QueueDoneMeansRecorded`.

`Owned` and `Verdicts` hold with abandoned handlers too, and give
`Queue_NeverReopens` and the weaker form of `QueueDoneMeansRecorded`. The
refinement maps each action to a board action or a stutter:
`CreateOrUpdateTask` to `Accept`, the writes of a run to `Report`, or to `ReportBlank` if
its conversion is blank, `DeleteTask` to `Forget`, `Done` to `Close`, `FailTask` to
`Drop`; `Recorded` shows that the intermediate states of the two updates are not visible
as a step back to pending, and that what `Done` closes was reported on.

**PlaylistConversion**, from `MaxTracksAssumption`, `PageSizeAssumption` and
`WebhooksAssumption`:

* `Phases`: which of the three goroutines runs while the others are where. It makes
  the WaitGroup's counter follow from their places, so that it is never negative.
* `Reading`: what the producer has read and sent, page by page.
* `Collected`: the tracks the consumer is through with are exactly those in the result, each
  on one side of the target; the one in its hands is not among them yet. Without this
  part `ResultPartitionsSource` says nothing of a conversion that is not over.
* `Reported`: the feed is the events of these tracks in their order, without what was
  refused, and the metadata stands before them.
* `Built`: a result that was returned holds what was collected.

That a conversion ends has two halves, which are `Nears_ItsEnd`. `NotAll_Wait`: the three goroutines never wait for
each other all at once, because the consumer leaves only after the channel was closed and
the WaitGroup counts who has not left (`Phases`). `EveryStep_Counts`: `StepsLeft`, three
steps for each track not handed over, one for each page not read and the goroutines' own,
is a natural number that every step lowers (`StepsFall`), so that no run is endless. A
goroutine that waits for no other has a step to take in the model, so under the fairness
above the two amount to `ConversionEnds` for playlists of every length; this last, temporal
step is not proved.

`Implements_SequentialConversion` maps each step of the three goroutines to a step of the
loop or a stutter (`LoopStep`): metadata to `Begin`, the producer's pages to `Read`, the
consumer's collecting to `Convert` or `Omit`, the WaitGroup's end to `Finish`. It rests on
`Collected` (the track in hand is the next one) and on `Reading` at the end of the
WaitGroup: by then all that was read has been handed over, unless the platform is Tidal,
of which nothing ever is.

**TrackConversion**, from all of its assumptions but `RedisAssumption`, of which only
`NormalizedAssumption` is more than a type: the normal form of a normal form is itself.

* `CachedAsRead` is inductive beside the types: every platform's writes are followed to
  the key and the track they are made from (`KeysFit`), whichever platform made them. A
  blank track fits Deezer's ids alone, and only an entry that expires holds one
  (`EntriesType`); a hit that is blank stops the conversion (`BlankSteps`).
* `InTurn` and `FoundInTurn` tie the targets that are left and the tracks that were found to
  the request's targets, `Searched(j)` of which are done.
* `SourceAsRead`: the source track is as its platform gave it until Spotify's search looks
  into the cache, and stripped from then on (`SpotifyBegan`). That it is stripped only
  once rests on the targets being pairwise different (`TargetsType`): stripping twice is
  not stripping once, of an arbitrary `Extracted`.

The proof takes every action of a platform to one of six kinds of steps of a conversion
(`JobStep`: it goes on, stops, begins, looks, answers or omits), and shows once that these
keep what is known of a conversion and that the others stay as they are. With the kind
goes what it needs: only a conversion to one platform stops in its searches (`MayStop`),
and only Deezer's and Apple Music's searches end in the cache (`Decides`), since no entry
fits the keys of the others (`HitsFit`). The latter gives `OnlyTwo_SearchesHit`.

`Implements_IndependentConversions` takes the six kinds to the steps of
`IndependentConversions`. What makes the cache invisible is the invariant: an entry that is
taken for a source track is what the platform answers (`CachedAsRead`) or ends the process, one that is taken
for a target's track is in the target's catalog, and a search of Spotify's that ends
has stripped the artist first, because it cannot end in the cache.

**AppAuth**, from `LegacyAssumption` and `NoneAssumption`:

* `Verified`: verifiers are kept under the app they were generated for, and one that was
  overwritten does not come back. It gives `RefusedOnlyIfOverwritten`.
* `Placed`: a row stays with the account it was inserted for, and a sign-in updates a row
  of its own account.
* `Refreshing`: a request refreshes only tokens of the user it asks for, on Tidal. The
  type of the state itself needs it, since a refresh writes what a request carries.
* `Overlapping`: sign-ins stored at the same time know of each other, so that a sign-in
  about to insert knows whose rows it did not find, and one about to update for the last
  time whose scopes it will meet. It gives `DuplicatesOnlyByOverlap` and
  `ScopesFitTokens`.

**DeveloperApps**, from `OldAppsAssumption`, `PlatformsAssumption` and `NoneAssumption`:

* `Holding` and `OnSvix`: what a request carries where it is, and what is on Svix by then.
  `OnSvix` holds whoever runs beside: applications are never taken away, and an
  endpoint that is there stays.
* `WebhookAppExists` itself.
* `Undisturbed`: what a request knows of its app as long as it is alone with it (`Known`);
  the part `Sole` of it makes that symmetric: whoever begins to write ends the privacy of
  the other. It gives `OneUrlAfterwards` and `OnlyPassedFieldsChange`.

**Accounts**, from `MaxFailuresAssumption` and `NoneAssumption`:

* `UsersOwn` and `Holding`: the uuids, passwords and tokens in a user's row come from
  requests for that user, and so does what a request has found; the one exception, a uuid
  that is nobody's after a conflict, stays nobody's.
* `Overlapping`: sign-ups for one email know of each other, and who is about to insert an
  organization knows of those it did not see.
* `PasswordsSet`: between its query and the organization's insert, a sign-up that was alone
  finds its own password in the row or that of a reset.
* `OrgsBegan`: the uuid of an organization is never free.

**Only model-checked**: the liveness properties `EveryTaskSettles`, `ConversionEnds` and
`SignUpsSettle`, since fairness is beyond the prover. (Of `ConversionEnds` the two halves
without fairness are proved, see above.) Every other property that a passing
run checks is also a theorem.

## 5. Not modelled

* **Follow.** Its queries do not fit the migrated schema (`follows` has no column for an app,
  the table of notifications does not exist), and the cron job that would sweep the follows
  is commented out (`main.go:539`). No reachable state has a follow in it.
* **User webhooks** (`controllers/account/webhook.go`). Their routes are not registered and
  no migration creates their table.
* **Email tasks.** The handler makes one call and keeps no state; its life in the queue is
  that of `ConversionTask`.
* **Playlists added to a user's account, libraries and history.** Requests that read or
  write on a platform and keep nothing here. What a failure between the two calls of
  `AddPlaylistToAccount` leaves, it leaves on the platform.
* **The composition of a task with its feeds**, a task that is retried after its feed has
  ended: `ConversionTask` and `PlaylistConversion` share only the outcomes of `Convert`, and
  the product of both state spaces is out of TLC's reach with the bounds either needs.
* **The rest of the modelled controllers**: `UpdateOrg` and `AddToWaitlist`, single queries
  nothing else depends on; requests that only read; the row and the status code of a
  converted track; names and descriptions of apps.
* **The rest of the middleware**, which takes a request apart and keeps no state, and the
  **pure helpers** (links, titles, durations, normalization), string functions of which
  `TrackConversion` takes those that decide a key as constants.
* **The Tidal v2 client, routes and configuration, logging, data types, migrations and test
  helpers**, which keep no state or only move data.
