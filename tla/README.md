# TLA+ models of Monochroma

Monochroma is a music server (a fork of Navidrome, in Go) that scans folders of
music into an SQLite database, serves them through the Subsonic API and a REST
API, runs WebAssembly plugins, reports plays to external services and, as its
own addition, mixes search results of Tidal into the library. Its client is a
version of Feishin (TypeScript, React and Electron, under `feishin/`), which
keeps the play queue, plays the audio, reports plays and can be controlled from
other devices. This directory holds TLA+ specifications of the parts of both
whose correctness depends on the order in which things happen, the TLC models
that check them, and TLAPS proofs.
Paths below are relative to `src/`.

Contents: [1 the system](#1-the-system) · [2 modules and code](#2-modules-and-the-code-they-model) ·
[3 runs](#3-what-the-runs-check) · [4 proofs](#4-what-is-proved) ·
[5 disagreements](#5-where-the-code-disagrees-with-its-documentation-and-other-observations) ·
[6 limits](#6-what-is-not-modelled) · [7 plan](#7-plan) · [8 running](#8-running-it)

## 1 The system

| Component | State | Operations | What makes it correct |
|---|---|---|---|
| Plugin task queue `plugins/host_taskqueue.go` | table `tasks` of the plugin, `queueState` per queue, worker goroutines, timers | CreateQueue, Enqueue, Cancel, ClearQueue, worker loop, retry, clean-up, Close, reload | one worker per running row; attempts counted; every task ends; terminal rows stay; concurrency budget |
| Buffered scrobbler `core/scrobbler/buffered_scrobbler.go` | table `scrobble_buffer`, one goroutine, wake channel and retry timer per service | Scrobble, run, processUserQueue, Stop | no play lost, per-user order, buffer drains, duplicates only after a fault |
| Play tracker `core/scrobbler/play_tracker.go` | map of scrobblers, now-playing cache and queue | Submit, NowPlaying, refreshPluginScrobblers | as above; a scrobbler that left the map is stopped |
| Library scan `scanner/scanner.go`, `phase_*.go`, `folder_entry.go`, `walk_dir_tree.go` | tables `library`, `folder`, `media_file`, `album`; `scanState`, `scanJob`, pipeline entries in memory | prepare, walk, process, persist, finalize, refresh albums, GC, statistics, ScanEnd | database agrees with disk; no stale album; interrupted and full scans are completed |
| Scan controller and watcher `scanner/controller.go`, `watcher.go` | lock, progress, debounced targets | ScanAll, ScanFolders, Watch, trigger | one scan at a time, no change forgotten |
| Tidal JIT sync `core/tidal/sync.go`, `server/nativeapi/tidal_jit.go`, `server/subsonic/searching.go` | rows, participants, library links, artist statistics, two throttles | middleware, searchAll, getAlbum, SyncSearch, SyncAlbum, RefreshStats | credits complete, results in the same response, statistics current, foreign keys |
| Tidal streaming `core/tidal/client.go`, `dash.go`, `ranged_reader.go` | HTTP client, base URL rotation, byte position | Search, Stream, Seek | a reader returns the bytes of the file |
| Plugin manager `plugins/manager*.go` | map of loaded plugins, file hashes | load, unload, sync, watch | services closed exactly once, in order |
| Plugin scheduler, key-value store, other host services `plugins/host_*.go` | timers by ID; table `kvstore`; sockets, cache | schedule, cancel; Set, Delete | one schedule per ID; storage limit |
| Jukebox `core/playback` | queue, active track, device | set, start, skip, remove, track switcher | active track is the queue's current one |
| File cache, artwork, cache warmer `utils/cache`, `core/artwork` | files on disk, buffer of IDs | Get, PreCache, haunter | cache within its limit, nothing warmed twice |
| Server-sent events `server/events` | set of clients, message ids | subscribe, SendMessage | slow clients never block the others |
| Streaming and transcoding `core/stream`, `core/ffmpeg` | processes, cache streams | decide, stream | decision fits the client's profile |
| External metadata and agents `core/external`, `core/agents`, `adapters/*` | cached info with expiry | lookups | best effort |
| APIs, persistence, startup `server`, `persistence`, `cmd` | SQL tables, routes, properties | requests, queries, runInitialScan | the statements and decisions the components rely on |
| Player store `feishin/src/renderer/store/player.store.ts` | songs, `queue.default`, `queue.shuffled`, index, deck number, repeat, shuffle, status | add, remove, move, shuffle, next, previous, end of track | the current song stays current; a lap plays all; the deck that takes over has the right song |
| Web player `features/player/audio-player/web-player.tsx`, `engine/web-player-engine.tsx` | two audio elements, transition and local status (React state), fade interval, retry timers | progress, ended, seek, status, error handlers | one deck sounds outside a transition; playing means sound; fades leave no trace |
| Scrobble hook `features/player/hooks/use-scrobble.ts` | listening time, last sample, submitted flag, song-change timeout | progress, seek, song change, status, repeat, manual buttons | a play is submitted once, after enough of it was heard; the server shows what plays |
| Remote control `main/features/core/remote/index.ts`, `remote/store/index.ts`, `features/remote/hooks/use-remote.tsx` | `currentState`, sockets with ping and login flags; `info` of every page | reports, commands, connect, login, heartbeat, reconnect | pages, main process and player come to agree; dead sockets go; no feedback loop |
| Favourites and ratings `features/shared/mutations` | optimistic values, query cache snapshots | mutate, success, error | what is shown is what the server has |
| mpv player, radio `mpv-player.tsx`, `features/radio` | external process, station store | load, pause, seek | as the web player |
| API controllers `feishin/src/renderer/api` | – | one request per call | answers normalised |
| Lists, settings, authentication, lyrics, Discord, rendering | caches, one field per setting | – | display |
| Admin UI and transferer `ui`, `transferer` | – | – | separate programs |

How they interact:

* **Shared database.** All goroutines write to one SQLite file. Outside
  `WithTx`, every statement commits on its own. Scan, Tidal sync and scrobbler
  meet only there; the scan's GC deletes rows the Tidal sync has just written.
* **Plugin lifetime.** The manager takes a plugin out of its map, closes its
  services and its compiled module; task workers and scrobbler goroutines
  notice at their next call, in whatever state they are.
* **Wake-ups in memory.** Task queue and scrobbler persist the work but keep
  the reason to look at it (a channel of capacity one, a timer) in memory.
* **Marks for recovery.** The scan survives restarts through
  `last_scan_started_at`, `full_scan_in_progress`, `imported_at`, `updated_at`
  and the PID properties; a restart reads them in `cmd/root.go`.
* **Player store and its subscribers.** Every change of the client's player
  store calls its subscribers inside the change: the web player, the scrobble
  hook and the remote's reports. They see the store as it is now and their own
  React state as it was last committed.
* **Remote channels.** Renderer and main process exchange IPC messages, main
  process and pages WebSocket messages; each direction is in order, and nothing
  orders one against the other.
* **Throttles.** Tidal requests of the last seconds are remembered in memory so
  that parallel requests for one search cause one sync.

What is hard here, and where it bites, is listed as `hazards` in
[PROJECT.json](PROJECT.json): restarts between a statement and the next, calls
that return after a time-out, values looked up before and used after the thing
they describe is replaced, statements of two requests that interleave, one
failure half way through a pipeline, handlers that run with a state React has not
committed, two ends that set one value at once, and things that must eventually happen
although their wake-up was lost.

## 2 Modules and the code they model

`map` in PROJECT.json gives the source lines of every definition. In all
modules an SQL statement that commits on its own is one step, a transaction is
one step, and a failing statement is an alternative of the same step, limited by
a bound. Payloads, names, messages and logging are left out. Definitions that
begin with a comment `mutant:` are altered versions of the definition below
them; they are not part of a specification and show that a property is
sensitive to the code.

### TaskBackoff, TaskQueue

`TaskBackoff` is the arithmetic of `handleTaskFailure`: a signed shift of
`Width` bits and its repair. `TaskQueue` is one plugin's service.

| Model | Code |
|---|---|
| `status, attempt, maxRetries, nextRun, createdAt, queueOf` | columns of table `tasks` |
| `conc, retries, signal, wakeAt` | `queueState`: config, `workCh`, `time.AfterFunc` timers |
| `pc, held, att` per slot `<<queue, i>>` | worker goroutines with their locals |
| `phase` | `up`; `unloading` (out of the manager's map, not yet closed); `closing` (context cancelled, waiting for workers); `reset` (rows put back); `down` (database closed) |
| `fails, resets` | history only |

A worker's pass is `DrainCheck`, `Dequeue` (one `UPDATE ... RETURNING`),
`LimiterWait`, `InvokeCallback`, `CallbackReturns`, then one of `completeTask`,
`FailForGood`, `Reschedule`, `revertTaskToPending`. Under a cancelled context a
statement may run, fail, or run and have its answer replaced by the error
(`DequeueAnswerLost`). `CloseResets` may happen while workers still hold rows:
that is `shutdownTimeout`. The clock moves only when a row or timer waits for it
(`Tick`), so delays are compared exactly without counting milliseconds.

### ScrobbleBuffer

One external service. `buf` is the set of its rows, `enqueued` the order of all
inserts, which is the order of the rowids; `run[r]` is the
goroutine of `bufferedScrobbler` number `r` (identities are used once, so that an
old goroutine and its successor can be told apart). `Load` and the send are two
steps, as in `processUserQueue`, and a plugin may be unloaded or reloaded
between them. The service may accept (`Accept`), refuse for good (`Reject`), ask
to be called later (`RetryLater`), or the call itself may break (`Broken`). With
`Builtin` the service is there from the start, otherwise `refreshPluginScrobblers`
creates and stops it when somebody plays a track. `PlayTime` comes from the
player: a later submission may carry an earlier time.

### LibraryScan

One library of flat folders with one album each. A folder's files are a version
number; version 0 is an absent folder and the versions in `Silent` have no audio
file. Time stamps appear as the comparison the code makes with them:
`row[f].fresh` is `updated_at >= last_scan_started_at`, `touched` is
`imported_at > last_scan_at`. `hash` pairs the version the walk saw with the one
whose file times are read at persist time, since `folderEntry.hash` mixes both.

| Model | Code |
|---|---|
| `lib` | `last_scan_started_at # 0`, `full_scan_in_progress` |
| `pidKey`, `conf`, `boot` | PID properties, `conf.Server.PID`, decision of `runInitialScan` |
| `scan` | `scanState` with its phase, and `scanJob.lastUpdates` |
| `entry` | the `folderEntry`s between the stages of phase 1 |
| `owed, unread, quiet, used, unswept, stale` | history: what a full scan must still read, unreadable folders, unedited folders, bounds used, pending maintenance, albums behind their tracks |

The walk, `processFolder` and `persistChanges` interleave per folder, as the
stages of `go-pipeline` (external) do. After a failing stage the pipeline drains
without persisting. `Crash` stands for the end of the process and for a
cancelled context; the next start may have another PID configuration. `Edit`
may happen between any two steps. A library whose root cannot be reached gets
no job, as `createPhaseFolders` does it.

### TidalSync

Requests, each with the search hits its sync still has to store, every hit a list
of items (an album or a track comes after the artists it is credited to), one SQL
statement per step:

| Item | Code | Statements |
|---|---|---|
| `artist` | `EnsureTidalArtist` | exists, update, insert, link to the library |
| `full` | `ensureTidalAlbumFull` | update, insert, delete participants, insert participants |
| `ref` | `EnsureTidalAlbumFromRef` | exists, update, insert |
| `track` | `TrackToMediaFile`, `MediaFile.Put` | update, insert, delete participants, insert participants |

An insert that loses the race fails the UNIQUE constraint and leaves the rest of
the item to the winner. Rows are identified by the Tidal IDs they are derived
from. A throttle entry may have passed its TTL at any check (`Throttled`). Each
of the three parallel searches may fail (`what`). `Cancel` is the client that
goes away, the 6 seconds of the Subsonic sync, or no answer from Tidal: every
later statement fails, and only a refresh in the background still runs.
`RefreshStats` is select, update, clean-up; the Tidal library is never scanned,
so every artist counts as touched. `GC` is the one transaction at the end of a
scan that changed something, with its cascading foreign keys. `torn` and `cut`
are history: items half written by a cut sync or bereft of an artist by the GC,
and cut syncs no refresh followed.

### PlayerQueue, WebPlayback

`PlayerQueue` is the store. A queued song is its unique id; `player.index` counts
in `queue.shuffled` while shuffle is on and in `queue.default` otherwise, as in
the source. Array accesses outside an array and the NaN they lead to are kept
(`At`, `NumAt`, `Plus`). Every order a shuffle can produce is a choice. Actions
carry the names of the store's operations. `Keep` is `Array.prototype.filter`, by
rank (`Ranked`): at place i is the kept element that i - 1 kept ones precede.
`lap` iterates the end of a track. `Aligned`, which several properties
assume, says that `queue.shuffled` is a permutation of the queue; section 5 lists
the operations that break it.

`WebPlayback` EXTENDS `PlayerQueue` with the component on top of it:

| Model | Code |
|---|---|
| `web.deck[d]` | audio element `d`: its song, whether it can play, plays, and is near its end |
| `web.trans`, `web.local` | `isTransitioning`, `localPlayerStatus` as set |
| `seen` | the same two as last committed: what closures and effects see |
| `web.full`, `web.fade` | deck at the user's volume; the interval of `fadeAndSetStatus` |
| `web.retry`, `web.timer` | network retry counts, pending retry timers |

A command changes the store, runs the subscribers (`Notified`) and commits the
store's part of the props in one step, as zustand and `useSyncExternalStore` do;
what the component itself has set is committed by a later `Render`. `UpdateDeck`
is what react-player does with a changed url or `playing` prop. `Commanding` is
everything a user or the queue does to the store; `Overtaking`, `StrayRetry`,
`OtherActs` and `LatePlay` name the steps that break one deck sounding, or sound
while playing, in the code (section 5).

### ClientScrobble, PlayReport

`pos` is the playhead, `clock` the timestamp store. `Poll` copies one to the
other; seeks, song changes and commands write `clock` themselves, and every
write runs the hook's progress handler before anything else does. `refs` are
three of the hook's refs; `own` and `orphan` its pending two-second timeout and
that of the hook unmounted before it. `late` is a position the mpv player was
asked for before a command moved the playhead (`Overtakes`); its answer is
written to the store whenever it comes (`LatePoll`). `told` is what the server shows as playing,
for the three kinds of server the controllers distinguish. `credit` and `sent`
are history: the seconds heard of the play-through plus the forward jumps of at
most `MaxDelta` that the hook takes for hearing, and its submissions.

`PlayReport` is the promise to whoever counts plays: at most one submission per
play-through, only after enough was heard or jumped over in short steps. `ClientScrobble` implements it
(`SubmitsPlays`, with `INSTANCE PlayReport`, `credit` and `sent` mapped to
themselves).

### RemoteControl

The player (renderer), the main process and the pages, with four kinds of FIFO
channels. `sock[s]` is a connection with the state of both ends, `alive` and
`auth` of the server, and what is on the way in both directions. `clients` is
`wsServer.clients`; a socket may be open and no longer be in it. Status, volume,
song and favourite stand for all facts: repeat, shuffle and position travel as
the status, the rating as the favourite. `enabled` is the setting, `reporting`
its value when the renderer was loaded: the event handlers of `use-remote.tsx`
are created once and keep it, so `Report` does nothing in a renderer loaded with
the remote off. The program starts with the remote on or off; the switch asks the
main process (`SetRemoteEnabled`, `Answer`) and changes the setting with the
answer (`RemoteSwitched`), which also brings or removes the request listeners
(`Unheard`) and sends the song the first time (`introduced`).

`missed`, `unsaid`, `doubtful` and `leaky` are history: facts a page was not
sent; facts the player has not reported (since it was loaded, because it does not
report, or a volume asked for while nobody listened); songs with two unanswered
favourite requests at once or whose favourite was set without a report; pages
with two open sockets.

The type invariants of `ScrobbleBuffer`, `WebPlayback` and `RemoteControl` and
`AttemptBound` of `TaskQueue` document the variables or serve the proofs
(`BufferTypes`, `AttemptsAccounted`); they are not properties of a run.

## 3 What the runs check

| Run | Bounds | Checks |
|---|---|---|
| `taskqueue` | 1 task, 2 queues (one with a rate limit), budget 2, 1 retry, 2 loads, 1 failing statement, crashes; integers of 6 bits | `TypeOK`, `WorkerOwnsRow`, `NoDoubleExecution`, `AttemptLedger`, `NoStrandedTask`, `TerminalIsFinal`, `BackoffIsExponential`, `EveryTaskEnds` |
| `scrobble_builtin` | 3 plays of 2 users, 1 failing statement, 1 busy answer, 1 crash | `NothingLost`, `InOrder`, `BufferDrains` |
| `scrobble_plugin` | 2 plays, 2 loads of the plugin, 1 failing statement | `DuplicatesExplained` |
| `scan_converges` | 2 folders, 3 versions (one silent), one each of request of any kind, failing transaction, unreadable file, unreachable root, restart | `TypeOK`, `LibraryMatchesDisk`, `AlbumsRefreshed` |
| `scan_full` | 2 folders, 2 requests (quick or full), 1 failing transaction, 1 restart | `FullScanFinishes`, `MaintenanceDone`, `ScanResumed` |
| `tidal_sync` | 2 requests at a time for one track of two artists and its album, 1 scan, 1 cut | `TypeOK` with foreign keys, `CreditsComplete`, `StatsCurrent`, `SameResponse` |
| `player_queue` | 3 unique ids, up to 2 added at a time, every shuffle | `TypeOK`, `LapPlaysAll`, `AddingKeepsPlaying`, `ShuffleSwitchKeepsPlaying`, `EditingKeepsPlaying`, `HandOver` |
| `web_playback` | 2 songs, crossfade with and without fades, gapless; 1 error, at most 1 retry | `OnlyActive`, `PlaysWhenLoaded`, `FullVolume` |
| `client_scrobble` | 2 songs of 3 s, thresholds scaled to 1, 2 and 1 s, at most 3 s of credit per play-through, a reporting server and Jellyfin | `TypeOK`, `OnlyShortJumpsCount`, `CountedIsSubmitted`, `ServerKnows`, `SubmitsPlays` (refinement) |
| `scrobble_stop` | 2 songs of 4 s, a plain Subsonic server | `StopEndsSong`: **violated** |
| `scrobble_jump` | the same | `JumpsUncounted`: **violated** |
| `remote_control` | 1 page, 2 sockets, 1 song, 2 volumes, 2 inputs by users, network or settings, started with the remote on or off | `PagesInSync`, `PlayerAgrees`, `FeedbackEnds`, `DeadDropped` |

**Why these bounds are enough for the question.** The task queue's tasks
interact only through the order of the dequeue and the concurrency budget; one
task with two workers reaches every conflict over a row, two queues every split
of the budget, two loads every recovery, and the theorems of section 4 cover the
rest. Six bits are enough for an overflowing shift to give negative, zero and
positive results, at and beyond the width. Two users and two plays of
one of them let plays overtake and users be served in either order; two runners
are an old and a new goroutine. Two folders are the one inside and the one
outside a selective scan, or the one before and the one after a failure; three
versions allow an edit before, during and after the scan. Two requests on one
track are the smallest conflict on a row, and two artists the smallest track
with a featured artist. Three songs are the smallest queue with a song before, at
and after the current one, and the smallest whose shuffles are not all rotations.
Two decks need two songs; one error reaches a retry, its exhaustion (with no
retries) and a skip. The three seconds of a song lie on both sides of the scaled
thresholds and of the largest gap that counts. Two inputs let the two ends of the
remote control set one value at once, or a reload, a lost connection or a new
password meet a change, or the remote be switched on or off before it. Two sockets are the old and the new connection of a page.

The theorems of section 4 remove the bounds of every safety property.

**Fairness.** `taskqueue` assumes weak fairness of each worker, of timers
and of the clock: the Go scheduler runs every goroutine, timers fire, and extism
stops a callback at its time-out. Nothing is assumed of the plugin, of crashes or
of reloads. `scrobble_builtin` assumes the same of the goroutine and its timer;
that the service answers at all follows from the HTTP client's time-out.
`scan_full` assumes it of the scan's goroutines and of the start-up routine.
`remote_control` assumes weak fairness of every delivery (IPC, WebSocket), of the
music server's answers and of the heartbeat interval, but not of users, of `Pong`
or of a page that reconnects. No strong fairness is used.

**Deadlock** is not checked: a server with nothing to do, whose bounds are used
up, may stop in all models. What must not stop is stated as liveness.

What the less obvious properties say:

* `NoStrandedTask` – with no failed statement, a running row always has a
  worker, also after a crash: rows are recovered by `CreateQueue` of the same
  name, before any worker of that queue exists.
* `AttemptLedger` – `attempt` is exactly retried failures, plus attempts a
  restart threw away, plus the current one; a late worker of a timed-out `Close`
  cannot decrement a row that was reset meanwhile.
* `EveryTaskEnds` – a task of a created queue ends unless the service stops, also
  when a failed statement lost its wake-up; the exception is a running row whose
  outcome a failing statement did not record, which waits for the next load.
* `InOrder` – while an older play of a user waits for a retry, no newer one has
  been sent.
* `LibraryMatchesDisk` – after phase 1, every folder the scan looked at that was
  not edited since it began agrees with the disk, whatever interrupted or raced
  with earlier scans. The delicate case is an edit between reading tags and
  storing the hash.
* `AlbumsRefreshed` – album totals are only behind while the library is marked
  as being scanned, so the next scan of any kind finds them.
* `CreditsComplete` – losing the race for a row never leaves a track without one
  of its artists, unless the winner is cut half way.
* `FullScanFinishes` – the run requests scans of the whole library of one PID
  configuration; otherwise it does not hold (section 5), and the theorem says
  exactly what it needs (`Undisturbed`).
* `AddingKeepsPlaying`, `ShuffleSwitchKeepsPlaying`, `EditingKeepsPlaying` – the
  operation leaves the current song current although positions, the playback
  order and what the index counts in have all changed.
* `HandOver` – the deck `mediaAutoNext` switches to is one that had the next song
  loaded before: five functions compute deck and song and have to agree.
* `OnlyActive`, `PlaysWhenLoaded` – the engine's effect, react-player's props and
  the handlers' own calls agree on who sounds. Both are about steps: from a state
  where one deck sounds (a playing player sounds), every step leads to such a state
  again, except those that do not in the code and that the property names. For
  `OnlyActive` these are a command that comes before the commit of a transition
  just started (`Overtaking`) and a retry for a deck that is not to be heard
  (`StrayRetry`); for `PlaysWhenLoaded` the end or the retry of the inactive deck
  (`OtherActs`) and play pressed while the pause of an already silent deck is not
  committed or still fades (`LatePlay`). Both hold initially, so that behaviours
  without those steps have them throughout. Each exception is necessary: TLC
  finds a violation without it.
* `OnlyShortJumpsCount` – whatever the order of polls, late answers, seeks and
  commands, the hook counts at most what was heard and the forward jumps of at
  most `MaxDelta`. It does not say that jumps do not count: the short ones do
  (`JumpsUncounted`, section 5).
* `PagesInSync` – reading what is on its way, a page arrives at what the main
  process knows, except for facts it was never sent. It is about the sockets of
  the current `wsServer`: pages left on one that was replaced go stale, as do the
  favourites of `doubtful` songs.
* `PlayerAgrees` – when nothing is under way, player and main process hold the
  same values, whichever end changed them last, of all facts the player has
  reported. Of a renderer loaded with the remote off it says little more than that
  the song sent when the remote is switched on is the right one.
* `FeedbackEnds`, `DeadDropped` – users stop after a bounded number of inputs; the
  sockets of a replaced `wsServer` are not its clients and nobody pings them.
* `StatsCurrent` – refreshes that read early and write late do not leave wrong
  counts once all are over.

## 4 What is proved

TLAPS proves the following for every value of the constants that satisfies the
named assumptions (any number of tasks, queues, workers, folders, edits,
failures and restarts). Each inductive invariant was checked by TLC before it was
proved. The names in parentheses are the properties of section 3 a theorem states.

`TaskQueueProofs`, from `WidthAssumption`, `MaxBackoffAssumption`,
`QueuesAssumption`, `NoTaskAssumption`, `ConcurrencyAssumption`,
`RetryAssumption`, `BoundsAssumption`, `DelayedAssumption`, `BackoffMsAssumption`:

* `TypeCorrect`, `WorkersOwnRows` (`WorkerOwnsRow`), `ExclusiveExecution` (`NoDoubleExecution`),
  `AttemptsAccounted` (`AttemptLedger`, `AttemptBound`), `NothingStranded`
  (`NoStrandedTask`), `TerminalStays` (`TerminalIsFinal`).
* The inductive invariant `IInv` adds four facts. `WorkersHaveQueues`: without it
  `CreateQueue` could reset a row that a worker of the same queue holds.
  `HeldRowsExist` and `FreshRows`: an id that has no row carries no history, so
  `Enqueue` starts a correct ledger. `RetriesCounted`: only `maxRetries` failures
  are answered by a retry, which turns the ledger into the bound. Ownership
  carries the rest: since a running row is in one worker's hand until `Close`
  resets it, the updates by id of `completeTask` and `handleTaskFailure` hit a row
  in the attempt the worker knows.
* `DelaysDouble` (`BackoffIsExponential`), for every width, cap and number of
  attempts. `Pow2` doubles with its argument, and a smaller power of two divides a
  larger one (both by induction, as a least counterexample). So what an overflowing
  shift leaves is a multiple of 2^k, and 2^k is above the cap when the base times
  the cap does not overflow: the test after the shift never takes it for a delay.

`LibraryScanProofs`, from `RequestsAssumption` and `ScanBoundsAssumption`:

* `ScanTypeCorrect`, `NoAlbumLeftStale` (`AlbumsRefreshed`), `ScanSeesDisk`
  (`LibraryMatchesDisk`), `MaintenanceNotSkipped` (`MaintenanceDone`), and
  `FullScanCompletes` (`FullScanFinishes`) for behaviours that are `Undisturbed`:
  a scan begun under the mark of a full scan walks all folders, and the PID
  configuration stays while the mark is set. Section 5 says what happens otherwise.
* `ScanIInv` consists of `StaleIsTouched` (a stale album is one the next phase 3
  asks for, and phase 3 leaves none) and `DiskIInv`. The latter follows a folder
  through phase 1: not reached by the walk, it is as `newScanJob` found it
  (`NotReached`); in the pipeline it carries what its files hold unless they were
  edited since (`EntriesCurrent`); behind it, it agrees with the disk or waits to
  be marked missing (`BehindPipeline`, `LeftIsGone`). Between scans `HashSound`
  takes over: a stored hash that still describes the files vouches for the
  tracks, which needs that edits draw new versions (`VersionsDrawn`) and that
  tracks have a row the next scan loads (`TracksHaveRow`).
* `ChangesRecorded` stands behind `MaintenanceDone`: until a scan is cut short, a
  change the GC has not seen is in `changesDetected` or shows as an album phase 3
  will find; the second half is needed because `finalize` marks tracks missing
  without recording a change. `OwedIsAhead` stands behind `FullScanFinishes`:
  what a full scan has yet to read lies under a row older than the scan, and
  before the walk, in the pipeline, or among the folders to be marked missing.

`ClientScrobbleProofs`, from `ScrobbleAssumption` (`Begin <= RestartMin`, as 5 and
10 s in the code, and thresholds in Nat) and `ThresholdAssumption` (the settings
ask for some listening):

* `HookTypes`, `NeverOvercounts` (`OnlyShortJumpsCount`), `NothingLeftBehind`
  (`CountedIsSubmitted`), for any songs, lengths and thresholds, and
  `ImplementsReport`: every step is a step of `PlayReport` or a stutter, and the
  initial states map to its initial state (`SubmitsPlays`).
* The inductive invariant `HookInv` adds `SamplesCurrent` (a sample is the
  position the store has now; without a sample nothing is counted or sent) and
  `SentIsFlagged` (a submission has set the flag). The first makes the gap the
  progress handler counts equal to the change of the store, which `credit`
  follows; its second half is needed because a restart clears the sample, and
  the next event then counts from the store's previous position. The second
  carries "at most once". `OnlyShortJumpsCount` includes what the next poll will
  add: without it `Poll` would not preserve the bound.
* `ServerIsTold` (`ServerKnows`), from `KnowsInv`: the hook's pending timeout is
  about the current song, no timeout of an unmounted hook outlives it, and with
  none pending the server shows the song.

`ScrobbleBufferProofs`, from `EntriesAssumption`, `PlayTimeAssumption` and
`BufferBoundsAssumption`, for any plays, users, goroutines and failures:

* `BufferTypes`; `SentInOrder` (`InOrder`); `BuiltinLosesNothing` (`NothingLost`)
  for a built-in service, the case its run checks too (for a plugin section 5 tells
  how a play is lost); `DuplicatesArePaidFor`
  (`DuplicatesExplained`).
* Order rests on `HandFirst`: the table never holds a play that should go before
  one in some goroutine's hand, since a play enters after those already there and
  a goroutine takes the first of a user. `AnsweredFirst` (a row is about to be
  deleted only on an answer) carries the losses. For duplicates the ledger `Paid`
  counts a report already made, and one for each stopped goroutine that still has
  the play in its hand (`Lingering`), against failures, crashes and stops: the bound
  itself is not inductive, because a stopped goroutine sends only later.

`TidalSyncProofs`, from `CatalogueAssumption`, for any catalogue of finitely many
tracks, any requests side by side, scans and cuts:

* `TidalTypes` (`TypeOK`, which holds the foreign keys), `FoundIsServed`
  (`SameResponse`), `CreditsEndComplete` (`CreditsComplete`), and `StatsEndCurrent`
  (`StatsCurrent`) for catalogues in which every album has a track
  (`AlbumsHaveTracks`; section 5).
* `WorkInv` says of every request (`HandInv`) that the tracks it promised are
  stored or in its list (`HandStored`), and that the artists of an item are stored
  or come before it in its hit (`ArtistsReady`); the latter holds only for items
  the GC has not torn, which is why the list keeps hits apart. `StatsOwed` adds
  that wrong statistics are owed a refresh: one that will still select, one that
  will still write the artist, or a sync that has a track to store (`WillOwe`).

`WebPlaybackProofs`, from `WebPlaybackAssumption`, for any queue and settings
(gapless without fades too) and any number of errors and retries:

* `OneDeckSounds` (`OnlyActive`), `LoadedDeckSounds` (`PlaysWhenLoaded`),
  `VolumeRestored` (`FullVolume`).
* Of the store only the deck number and the status matter: songs, indices and
  orders stay opaque. `WebIInv` adds that the component's local status is the
  store's or a fade leads to it (`Followed`), and that a deck holds the song the
  store wants on it or none (`SongsLoaded`). `OneSounds` and `Sounding` are not
  invariant, since the named steps end them; each step is shown to keep them or to
  be one of those (`OneKept`, `SoundKept`), with the claims split by who is
  responsible (`OtherSilent`, `PausedSilent`, `ActiveSounds`).

`RemoteControlProofs`, from `SongsAssumption` and `ClientsAssumption` (the names the
model gives to unused and finished sockets are no page's), for any pages, sockets,
songs, volumes and inputs:

* `BothEndsAgree` (`PlayerAgrees`). `PlayerAgrees` speaks of empty channels;
  `RemoteIInv` says what holds while something is under way. For each fact
  (`Agrees`): the last report on its way is the player's value, and with no report
  the main process has it, or has a volume that the last request on its way to the
  player asks for. That exception is what makes both ends setting the volume at
  once end in agreement, also when the player already has the requested value and
  reports nothing. The favourite (`FavouriteAgrees`) is decided by the last report
  of the song or of its favourite; it needs that the song is settled before, and
  that the only unanswered request of a song is what the player shows
  (`MarksCurrent`), or that the song is `doubtful` because the player does not
  report. What pages send may be anything, so their side needs no
  invariant.
* `PagesFollow` (`PagesInSync`). `PagesInv` has three parts. `InSync` is the property
  itself with the fields of what a page shows; a broadcast takes page and main process
  through the same change (`MessageMatches`), reading a message leaves what the page
  shows in the end (`ReadTail`), and sending one applies it to that (`ReadAppend`).
  `Wires` says that a page that is not leaky holds one socket only, so that no other
  socket writes to the same store, and that only a close the page asked for finds the
  socket already given up. `Story` is needed for one line of the code: a song reported
  again is not broadcast, so it must not bring a new favourite. It says that every
  report of a song on its way carries the favourite told last before it (`Told`,
  `Consistent`), for songs that are not `doubtful`: a player that does not report
  sends its song with favourites nobody was told of. It needs in turn that
  `favorite` messages name a song.

`PlayerQueueProofs`, from `PlayerQueueAssumption`, for any ids, queues of any
length, any number of songs added at once and every order a shuffle can draw:

* `QueueTypes` (`TypeOK`), `DeckHasNextSong` (`HandOver`), `SwitchKeepsCurrent`
  (`ShuffleSwitchKeepsPlaying`), `EditingKeepsCurrent` (`EditingKeepsPlaying`),
  `AddingKeepsCurrent` (`AddingKeepsPlaying`), `LapIsComplete` (`LapPlaysAll`).
* The inductive invariant `StoreInv` is `TypeOK` with more about the queue: it lists
  no song twice (so that searching a song finds its only place) and only songs with
  an entry (so that the filter of `getQueueOrder` lets all pass). It says nothing of
  `queue.shuffled` but that it holds numbers, since section 5 lists operations that
  leave it out of step; the five other theorems assume `Aligned` or no shuffle where
  the operation starts, as their properties do.
* Below them are lemmas about the array operations the code is built from: `Keep`
  (filter), `Find`, slices and concatenation, insertion, and how the inserted range
  and the shifted rest of `queue.shuffled` fit together (`AdjustRange`,
  `AddIndexesFacts`). `Points` names what an aligned store has, and `Place` the
  position of the current song; each action is shown to keep `Place` or to move it
  with the song. For a lap, the position after k ends of tracks is the first plus k,
  modulo the length.

Induction over numbers is done without the library's induction theorems: a set of
natural numbers has a least element (`LeastNumber`, `LeastPosition`), so a least
counterexample has a predecessor that is none (`UpTo`, `StepByStep`, `OneByOne`). The
same argument shows that the recursive functions `Pow2`, `lap` and `Read` exist.

Only model-checked is liveness (`EveryTaskEnds`, `BufferDrains`, `ScanResumed`,
`FeedbackEnds`, `DeadDropped`), which is out of the prover's reach.

## 5 Where the code disagrees with its documentation, and other observations

**`scrobble_stop`.** The header of `use-scrobble.ts` says that a song change
"sends 'stop' for the previous track; sends 'start' when the new track is
playing". For a server without playback reports, which this repository's own is,
the Subsonic controller drops the event and sends `scrobble` with
`submission=false`, which the server takes for "now playing"
(`server/subsonic/media_annotation.go`). The timeout sends 'start' first and
'stop' second: the server shows the song that is over. TLC's trace is the
explanation.

**`scrobble_jump`.** The same header says "Seeks and other timeline jumps
re-baseline the next sample without counting the jump as listen time". The seeks
and skips of the store write the timestamp before they announce the seek
(`player.store.ts`), so the progress handler compares the target with the old
sample first: a jump forward of at most `MAX_LISTEN_DELTA_SEC`, such as the
default skip of five seconds, counts as listening. TLC needs one seek.

The following were met while modelling. They have no run; the modules contain
the behaviour, and where a property would fail because of one it says what it
exempts.

Server:

* `unloadPlugin` takes the plugin out of the map before the task service's
  context is cancelled. A worker that dequeues in between gets "plugin not
  loaded" and counts it as a failed attempt; a task with no retries left is
  failed without a call, though `plugins/host/task.go` calls `MaxRetries` "the
  number of times to retry a failed task".
* When a scrobbler plugin is reloaded between the lookup and the call, the call
  fails on the closed module, `mapScrobblerError` makes that
  `ErrUnrecoverable`, and the play is deleted; `plugins/README.md` says this is
  for a "Permanent failure".
* A selective scan of a library whose full scan was interrupted is full for its
  own folders only, and its `ScanEnd` clears the mark for all. So does a full scan
  that found the root unreachable.
* When the PID configuration changes while a full scan is interrupted, the
  resumed scan does not read the folders stored before the restart again, but the
  new configuration is recorded as applied (`FullScanFinishes` exempts it).
* `SyncAlbum` of an album without tracks links its artists with empty statistics
  and, as nothing was imported, starts no refresh, also when tracks of theirs are
  stored (`StatsEndCurrent` assumes `AlbumsHaveTracks`).
* If a library's root cannot be reached, nothing is scanned, yet
  `runUpdateLibraries` records a new PID configuration as applied.
* The GC takes an artist for empty when no album is credited to it. Artists of
  searched Tidal tracks are credited on tracks only, so a library scan that saw
  a change deletes them.
* `MaintenanceDone` exempts interrupted scans. A full scan forced by
  `full_scan_in_progress` starts with `changesDetected` false and may skip GC and
  statistics that the interrupted scan owed.
* A full scan that resumes an interrupted *quick* scan keeps its start time, and
  skips the folders that scan had already stored.
* Without a GC, too, a link can go: a track credited between the update
  and the clean-up of `RefreshStats` loses its artist's link. Artists found by a
  search without tracks are linked with empty statistics and removed by the next
  clean-up.
* A second, throttled REST request is answered before the first one's sync has
  finished; a failed sync stays marked until its TTL has passed.
* After `shutdownTimeout`, `Close` puts a running row back without taking back its
  attempt, while a worker that notices the cancellation itself does.

Player store (`PlayerQueue`):

* With shuffle on, the four moves store the song's position in `queue.default`
  and leave `queue.shuffled` alone, `shuffle` and `shuffleAll` regenerate it and
  keep the index: another song becomes current. `shuffleSelected` does the same
  when the current song is selected. The editing properties are about an
  unshuffled queue.
* `setShuffle(TRACK)` while shuffle is on takes a shuffled position for a queue
  position. `setQueue` leaves `queue.shuffled` as it was.
* Adding next with shuffle on and nothing current puts NaN into
  `queue.shuffled`; adding last to an empty queue leaves it empty. A drop onto an
  empty queue with index 0 moves the index past the end.

Web player (`WebPlayback`; what the properties except, and what they do not ask):

* A pause during a crossfade with fades on lets the next deck play until the
  fade is over. A command between `setIsTransitioning` and its commit may leave
  both decks playing (`Overtaking`).
* A network error while the next song is preloading starts the inactive deck two
  seconds later and pauses the other; a retry also fires while paused
  (`StrayRetry`, `OtherActs`).
* A play within the fade of a pause at the end of the queue does not start the
  element again (`LatePlay`). When the inactive deck ends first, its handler
  pauses the active one: the player says playing and is silent (`OtherActs`); so it
  is after a decode error under repeat one.
* Skipping during a crossfade can leave a deck below full volume, which is why
  `FullVolume` is about gapless playback.

Scrobble hook (`ClientScrobble`):

* Next on the last song and previous on the first set the store to 0 under a
  running playhead, and the next poll counts up to five seconds again. A position
  the mpv player answers after a seek or a song change is taken for the new one.
* A seek to the start or a stop while paused does not start a new play-through;
  next on the last song and previous on the first do.
* A→B→C within two seconds: A gets no 'stop', B a 'stop' without a 'start'.
  After the same track queued twice, 'start' and then 'stop' name one track.
* Private mode switched on within two seconds of a song change still sends both
  reports. Unmounting and mounting allows a second submission of the same play.
* The settings allow a duration of 0, which `ThresholdAssumption` excludes.
* To Jellyfin a submission is a stop: the song is not shown until the next report.

Remote control (`RemoteControl`):

* An update broadcast between a ping and its pong, or before login, is not sent
  again. An `update-song` with the id already known is not broadcast.
* A reload of the renderer calls `enableServer` again: pages stay connected to
  the old server object and get no updates, and a second heartbeat interval runs.
  The reloaded status is reported at its next change only.
* The handlers that report keep `isRemoteEnabled` as it was when the renderer was
  loaded (`usePlayerEvents` with deps `[]`). With the remote enabled later, the
  player sends its song once and reports nothing after: no status, volume, song or
  favourite. With the remote disabled later it goes on reporting.
* A volume a remote asked for while the remote is being switched off is kept by the
  main process and not heard by the player.
* Two reconnects in a row leave two open sockets; when the forgotten one closes
  it clears the page.
* Two favourite requests answered out of order leave the earlier value shown. A
  failed request reports the opposite value, not the previous one.

## 6 What is not modelled

Within the modelled components: payloads, messages and `Get` of the task queue;
play counts, the now-playing cache and events of the play tracker; several
libraries, nested folders, moved tracks (phase 2), playlists (phase 4) and the
migration flag of the scan; the creation of the Tidal library, single failing
statements of a Tidal sync that goes on, the removal of Tidal items and the
length of the throttle windows; the value of the volume, mute, speed, replay gain
and the web audio graph of the web player; the positions reports carry and the
notification of the scrobble hook; file serving and the image proxy of the remote
server, and its MPRIS listeners. Also: callbacks that outlive the `Close` of their
task service, beside the service loaded next (`ForgetService`); a failing insert
into the scrobble buffer, and a scrobbler stopped between its authorization check
and the insert (`Scrobble`); files replaced by ones with older times, and
directories that cannot be read (`Edit`, `walkFolder`); a `play()` that waits for
its element to load (`PlayElement`). SQLite, `go-pipeline`, extism, React,
react-player, WebSockets and remote services are taken as they are used.

Known to be delicate and not modelled: the watcher forgets its targets before the
scan it starts has the controller's lock (`scanner/watcher.go`); the migration
flag is deleted before the scan has marked the library (`cmd/root.go`); a Tidal
query is marked before its sync has run, and the virtual library may be created
twice (`searching.go`, `core/tidal/sync.go`); the jukebox's track switcher replaces
the active track without a lock (`core/playback/device.go`); a schedule cancelled
and made again while its callback runs (`plugins/host_scheduler.go`); two writes
that pass the storage limit together (`plugins/host_kvstore.go`); the snapshots of
overlapping optimistic updates restore each other's values
(`features/shared/mutations`).

Most of the repository's TypeScript is not modelled at all: React rendering, forms
and settings pages, styles, routes, generated or hand-written API types, and
controllers that translate one request and normalise one answer. They hold no state that a
sequence of steps could spoil; a model would repeat the code line by line. The
other components are listed in PROJECT.json with the reason.

## 7 Plan

Done, in this order: task queue and its proofs, buffered scrobbler, library scan
and its proofs, Tidal sync; the client's player store, web player, scrobble hook
with its refinement and proofs, and remote control; proofs about the scrobbler, the
Tidal sync, the web player, the remote control and the player store. Next:

1. `MpvPlayback`: the other player behind the same store, with the radio.
2. `ScanTrigger`: controller lock, watcher debounce and targets, refused scans.
3. `LibraryScan` for several libraries with phase 2 and the migration flag.
4. The query cache of optimistic updates, and the page cache of the infinite
   loader.
5. `Jukebox`, `PluginScheduler`, the plugin manager's load and unload order.
6. An abstract at-least-once queue that `TaskQueue` and `ScrobbleBuffer` implement.

## 8 Running it

    tlc -workers 2 -config TaskQueue.cfg MCTaskQueue
    tlc -workers 2 -config ScanConverges.cfg MCLibraryScan
    tlc -workers 2 -config ClientScrobble.cfg MCClientScrobble
    tlapm TaskQueueProofs.tla

and `tlapm` likewise for `LibraryScanProofs`, `ClientScrobbleProofs`,
`ScrobbleBufferProofs`, `TidalSyncProofs`, `WebPlaybackProofs`,
`PlayerQueueProofs` and `RemoteControlProofs`; each takes from half a minute to a few minutes.

PROJECT.json lists the module and configuration of every run. The largest
(`scan_converges`, `tidal_sync`, `scrobble_plugin`, `client_scrobble`) have one to
four million states; each run takes from half a minute to three minutes.
