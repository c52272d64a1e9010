# Verification of muzaiten

muzaiten is a desktop music player in C++/Qt: a queue with gapless playback through GStreamer,
scrobbling with a permanent local listen history, a library scanner, a search index, audio
features and a recommender.  This directory holds TLA+ models of its concurrent core, the TLC
configurations that check them, and TLAPS proofs.  Paths below are relative to `src/src/`, the
program's sources (`docs/` is beside them); line numbers of every definition are in
`PROJECT.json` under `map`.

## 1. The system and its parts

| part | state | operations | talks to | hard because |
|---|---|---|---|---|
| `player/PlayerCore` | queue rows, current row, play-next region, shuffle sets and trail, prepared next row, stop-after timer, pending takeover prompt | transport, queue edits, modes, timers | backend (calls, signals), scrobblers and UI (signals) | the backend moves on by itself while the queue is edited; one edit must keep six pieces of row-number state in step |
| `playback/GStreamerPlaybackBackend` | current, playing and prepared uri, pending hand-off and its generation, transport state | play, pause, seek, stop, prepare, bus messages; about-to-finish and a sink probe on the streaming thread | PlayerCore, playbin | two threads, `m_mutex` taken several times per handler, queued calls, messages of an earlier source |
| `playback/` outputs, DSD, direct device | profile, endpoint, waiting flag | device loss and return | backend, PipeWire | resuming exactly once |
| `scrobble/ListenBrainzScrobbler`, `LastFmScrobbler`, `ListenBrainzHub` | configuration, submission in flight, failure count, retry timer | configure, uploadBacklog, playing-now, replies | GUI thread (queued calls both ways), history store, web services | lost answers, rate limits, edits crossing replies, crashes |
| `scrobble/ListenHistoryStore` | listens and one delivery row per listen and destination (SQLite) | record, unsent, markSent, clearPending, markOwed | scrobblers, history panel | shared by the GUI and the workers |
| `scrobble/LastFmScrobbler` sign-in | token, poll timer, attempts | start, poll, cancel | browser, service | replies carry no attempt id |
| `scrobble/ListenTracker`, `PlayEventRecorder` | accumulated playing time | started, paused, seek, finished | PlayerCore, history | repeats, pauses, restored sessions |
| `scrobble/ScrobbleBackfill` | page cursor | import, resume, cancel | services | partial failure |
| `search/SearchWorker`, `IndexCache`, `ui/SearchView` | index, staged index, generation, snapshot, cache file, narrowing cache; text, query id, timers | build, stream, query, write cache, free when idle | databases, UI | builds, queries and swaps cross; a cache writer that outlives its build |
| `scanner/ScanPipeline` | bounded queues, fingerprints of the rows, batches | enumerate, add placeholders, read, mark missing, background fill, cancel | database, GUI thread (posted batches) | files change while they are read; what a batch says is old when it is stored |
| `scanner/RatingTagSyncWorker`, `ui/RatingSyncController` | user ratings, pending tag writes | rate, clear, write, confirm, fail, sync again | files, database, queue | a write that ends after a newer edit, a scan across a write |
| `fs/FilePublish` | temporary file, target | publish exclusively | file system | several writers, crashes |
| `indexer/` analysis pools | counter, result queue, decode gate, staging buffer | claim, park, stage, decode, push, deliver | files, the refresh | three kinds of threads on one condition variable, a byte budget, stops |
| `indexer/FeaturesMain`, `FeaturesPack`, `features/` | feature store (SQLite), store lock | refresh in stages, group, fill, export, import | library database, files, app | resumed after stops and crashes; regrouping only what changed |
| `reco/` | session, learnt weights | refill, feedback | PlayerCore | exclusion of what was heard |
| `app/AppCore`, `ui/MainWindow` | the wiring | restore, replace and synchronise the queue, configure scrobblers | everything | order of startup and edits |
| `ui/QueueSnapshotStore`, `QueueStore` | saved queue | save, load | file system | crash between two writes |
| `ipc/`, `mpris/`, `cli/` | connections | commands | PlayerCore | framing, single instance |
| `playlist/`, `mpd/`, `db/`, views, tag reading | data | import, match, query, draw | | text, SQL, parsing |

Which of these are modelled is listed with reasons under `components` in `PROJECT.json`.

What makes the first four correct, in short: the row shown is the row heard; the next row is the one
the queue says, at the moment it starts; what was asked to stop stops; a shuffled session can be
walked back and forth; every listen is owed exactly to the destinations enabled when it happened,
reaches them once, in order, and a failure delays but never loses it.  Of the library: a rating the
user gave is pending until the file has it, a row that looks fresh is true, only what was gone is
missing, and every placeholder is read.  Of the features: an analysis is of the file it is filed
under, a group is a connected component of like audio whatever was interrupted, rows follow their
group, and the pool that does the work returns with everything it analysed.  Of search: the cache is
what its signature says, an index comes from one snapshot, and the view ends up showing what the
index has for the text typed.

## 2. Modules

| module | models | composed with |
|---|---|---|
| `GaplessHandoff` | the hand-off protocol between `PlayerCore`, the backend's public functions, its streaming-thread callbacks, and playbin | both halves of the protocol are in the one module, at the grain of critical sections |
| `NowPlaying` | what a listener may expect of the display: the abstract specification | implemented by `GaplessHandoff` (`Display == INSTANCE NowPlaying WITH ...`) |
| `GaplessHandoff_proofs` | TLAPS proofs about both | EXTENDS `GaplessHandoff` |
| `PlayerCore` | the queue and everything that decides what plays next, at the grain of GUI handlers | the backend is abstracted to "armed", "started" and its reports, which is the interface `GaplessHandoff` details |
| `PlayerCore_proofs` | TLAPS proofs about it | EXTENDS `PlayerCore` |
| `ScrobbleDelivery` | listen history, destinations, scrobblers, services, crashes | GUI thread, one worker per destination, and the services |
| `ScrobbleDelivery_proofs` | TLAPS proofs about it | EXTENDS `ScrobbleDelivery` |
| `Library` | files, their rows, the scan, the background fill, ratings and their way into the files | GUI thread, two pipelines, rating writer, other programs: they share disk and database |
| `Library_proofs` | TLAPS proofs about it | EXTENDS `Library` |
| `SearchIndexing` | building, caching, asking and freeing the search index | worker, cache writer, view, and the library that changes |
| `SearchIndexing_proofs` | TLAPS proofs about it | EXTENDS `SearchIndexing` |
| `WorkPool` | what the caller of an analysis pool may rely on: the abstract specification | implemented by `AnalysisPool` (`Pool == INSTANCE WorkPool WITH ...`) |
| `AnalysisPool` | the workers, readers and calling thread of the feature indexer's two pools | decode gate, staging buffer and result queue, at the grain of critical sections |
| `AnalysisPool_proofs` | TLAPS proofs about it, the refinement included | EXTENDS `AnalysisPool` |
| `FeatureRefresh` | the feature store across refreshes, stops, crashes, packs and new versions | refresh, library scan, other programs; its `Decode` is what `AnalysisPool` details |
| `FeatureRefresh_proofs` | TLAPS proofs about it | EXTENDS `FeatureRefresh` |
| `MCGaplessHandoff`, `MCPlayerCore`, `MCScrobbleDelivery`, `MCLibrary`, `MCSearchIndexing`, `MCAnalysisPool`, `MCFeatureRefresh` | constants for TLC | |

### GaplessHandoff

The variables are the backend's fields of the same names (`currentUri` is `m_currentUri` and so
on), PlayerCore's `current`, `preparedNext` and stop-after count, playbin's own state (`decoding`,
`atSink`, `drained`, `queuedUri`, `audible`), the bus, and the queue of posted commits.  A GUI
handler that takes `m_mutex` several times is several steps: `pc` is its place, `ret` where it goes
after a nested commit.  `AboutToFinish` and `SinkStart` run on the streaming thread between any two
of these steps.  What PlayerCore decides is any row or none (`Decide`), so the module's results do
not depend on the queue's policy; a track stands for its row, uri and stream.

Two races the code leaves open are not assumed away but recorded in `excuses` until the next load:
`window` (about-to-finish between stabilising and publishing arms the previous choice) and `short`
(a stream drained before it reached the sink).  A third mark, `stale`, is an end-of-stream message
of an earlier source on the bus.  The promises are stated for behaviours without the marks, and the
first race is shown by a run of its own.

`NowPlaying` says the same without threads, uris or generations: what is `heard`, what is `shown`,
whether the display is `due`, and whether a race was met (`raced`).  Its sound may move on only
after the display has followed.  The mapping reads `heard` from what is audible, `shown` from
`current`, `due` from the pending advance; `DisplayFollowsSound` is its safety part and
`DisplayCatchesUp` the whole with `Follows`, the display catches up.

### PlayerCore

A handler is one step, including its trailing `stabilizeGaplessHandoff()`, `resetShuffleState()`
and `prepareNext()`.  The loop of `skipCurrentTrack()` is one step per round (`SkipRound`), because
it is bounded by a guard worth checking, and the answer to the DSD takeover prompt is a step of its
own since it arrives later.  A row is a track and `asked`, whether `playTracksNext()` put it there,
which the program does not keep: it is what the play-next badge claims.  `silent` marks a source
loaded without announcing it.  Random choices (`pickShuffleIndex`, library and radio pulls) are
nondeterministic.  Removal and moves take any set of rows.

### ScrobbleDelivery

`mail` is the queue of calls to a scrobbler's thread, `notices` the queue of its
`disabledAfterFailures` signals back, `request` the submission in flight with its captured ids and
token.  A service may accept, refuse the token, limit the rate, reject the submission, fail, or
accept and lose the answer.  `Crash` loses all that is not in the database or the settings.
`accepted`, `unanswered`, `dropped`, `refused` and `faults` are history variables of the model.  The
unacceptable rows and the batch are those of `uploadBacklog()`: pages of the oldest rows, up to the
first page with a row that can be sent.

### Library

`disk` is the files, each with a `stamp` for its mtime, which the program keeps in whole seconds, and
its size.  A `Write` gives a file the next stamp or, within the second of an earlier write and with
the same size, one it had; `past` remembers the newest, and whether the last write was such a one
(`alike`).  `row`, `user`, `pending` and `waiting` are the tables, `queued` what the queue rows show,
which is also what a sync of the current track writes.  `pipe["scan"]` and `pipe["fill"]` are the two
pipelines: fingerprints and what was enumerated, files being read (`OpenFile` takes the stamp,
`ReadFile` the tags, and the file may change in between), the batch that grows, and what is posted
to the GUI thread in `mail`.  `Enumerate`, `Partition`, `OpenFile`, `ReadFile` and `EndPipe` run on
their threads, the handlers of `mail` on the GUI thread, one at a time.  A rating edit is two
statements (`BeginEdit`, `EndEdit`).  There is no transaction about them, and nobody looks at the
result of the second: a crash may come between them and the second may fail.  The rating writer
(`sync`) is a step per statement and per access to the file: read what is pending, write the tag, read
it back, update the row, take the rating off the list or record the failure, which may follow a save
that did change the file, or fail itself.  `SyncFromMenu` is the four syncs a user can ask for: of the
pending writes, of all saved ratings, of an artist, of the current track.  `Retag` and `Move` are
other programs.  `gone`, `written`, `torn`, `past` and `used` are history variables; `torn` are files
whose last edit ended after its first statement.

### SearchIndexing

The worker's event queue is `calls`; a build is one call per batch (`ReadChunk` posts the next), so
queries, newer builds, `ClearIndex` and the cache writer's `HandleWritten` come in between and the
generation sorts them out.  `TakeQuery` and `RunQuery` are apart because the newest query id is read
again while the matching runs.  A library content is named by its revision, and a record is a batch
of it: an index is the beginning of a content, `snapshot` the one being streamed.  `Prepare` is the
cache-writing thread.  `narrow` is the cache of the previous matches, and `posts` the worker's
signals on their way to the view with its debounce and re-run timers and its idle release.

### AnalysisPool

One module for `analyzePending()` and `analyzeFeatureRepresentatives()`.  Which call it is, `Init`
chooses among `Calls`: how many candidates it is given, whether it stages (only the first does),
whether its queue is bounded (that of the second has room for as many results as there are workers),
and how many spurious wakeups it meets.  A worker is at one of the places of its loop (`pc`); what
it does between two accesses to shared state is one step.  The mutex is held across a step only by a
thread that found its condition false and has not slept yet (`Doze`, then `Sleep`): in that window
the stop flag, the counter and the gate's target may change, and a notification that comes before
the sleep is missed. `asleep` are the threads a notification wakes.  The staging buffer has a mutex
and condition of its own, and its condition reads nothing else, so a wait for it is a guard;
`waitFor()` polls, so it is one too.  `WorkPool` says what is left when threads, queues and bytes
are taken away: candidates are taken in order, each analysis is delivered once, and the call returns
with all of them delivered.

### FeatureRefresh

`db` is the store as the refresh sees it and `durable` as a crash leaves it: they differ only inside
the transaction of the analysis, which is committed now and then (`Commit`).  A refresh is `run.at`:
`scan` (decode and store what the library has otherwise), `group`, `fill` (rows of scalars copied or
decoded, `backfill` between the two statements of a decoded one).  Audio stands for the hash, the
fingerprint and the scalars of a decode; `Alike` are the pairs whose fingerprints match, and need not
be transitive, so that a group is a connected component.  `AssignIds` is the assignment of stable ids
in its three passes.  `Change`, `ScanLibrary`, `Upgrade` and `Import` are the others; `Bounds` are the
bounds on changes, new versions, failed decodes and interruptions, of which `Init` chooses one.  `torn`
records that a decode failed of a file that took part in the grouping, in this refresh (`"here"`) or
in one that broke off before its grouping (`"lost"`, section 6).

## 3. What TLC checks

| run | instance | what it shows |
|---|---|---|
| `gapless_safety` | three rows, a sink with a probe, stop-after up to 2, three hand-off generations | `CommitLandsOnArmedRow`, `StopForbidsHandoff`, `FinishedIsHeard`, the refinement `DisplayFollowsSound`, and the liveness property `StartedIsSettled` |
| `gapless_no_probe` | the same without a probe, one short row, stop-after 1 | `DisplayCatchesUp`: with the position-polling fallback alone the display of `NowPlaying` is still implemented, its liveness included |
| `gapless_row_race` | three rows, a probe | violated: a commit may land on another row than the one playing (see 6) |
| `core_linear` | queue up to 3 rows, three repeat modes, both timers | `PreparedIsNextRow`, `CurrentIsSource`, `NoSpuriousBadge`, `LastCountedNeverHandsOver`, `HeardIsAnnounced`: edits, hand-offs and timers keep prepared row, current row, badge and announcements in step |
| `core_shuffle` | three tracks, library shuffle, a history of one row | `TypeOK`, `TrailIsRetraced`, `PickIsUnheard`: row numbers stay valid, the trail is retraced, a pick is unheard |
| `core_skip` | one unresolvable and one DSD track, radio on and off | `LinearSkipFindsRow`: skipping stops only when nothing ahead can play |
| `scrobble_safety` | a ListenBrainz destination and Last.fm, two listens (one unacceptable), two faults among failures, lost answers, rejections and crashes, clearing and re-queueing | `SentMeansDelivered` |
| `scrobble_edits` | one destination, a good and a bad token, three listens, one fault (a failure, a lost answer, a rate limit or a crash) | `OnlyUnansweredRepeated`, `ConfigurationSettles`, `DeliveredInOrder`, and the liveness property `EventuallyDelivered` |
| `library_changes` | one file, two ratings, two steps among edits and scans (at most one scan), one change from outside, three stamps, one fault and one crash | `UnwrittenIsPending`, `PendingIsUsers`, `FreshRowIsTrue`, the action properties `EditStaysShown` and `MissingWasGone`, and the liveness properties `EditIsAttempted` and `PlaceholderIsRead` |
| `search_index` | two texts of which one narrows the other, one batch, one change of the library, one text typed or one event (a build asked for, hiding, a failure) | `NarrowingIsExact`, `ShownIsCurrent`, `CacheIsTruthful`, `IndexIsOneSnapshot`, and the liveness property `BuildIsFresh` |
| `pool_calls` | two calls: two files staged by two readers for two workers, one of them larger than the budget; four files, two workers and the bounded queue, with a spurious wakeup | `StagedWithinBudget`, `NotStarved`, the refinement `DeliversOnce`, and the liveness property `PoolReturns` |
| `refresh_store` | three files, audio in a chain of likenesses, a failed decode, a stop or crash, and two changes of files or one change and a new version | `AnalysisIsOfFile`, `GroupsAreComponents`, `RowFollowsFiles`, `RefreshCompletes` |

Of the type invariants only that of `PlayerCore` is a property of a run (its row numbers are what an
edit may break); the others are proved (section 4).

Bounds.  `MaxGeneration` 3 is two hand-offs overtaken by a third, which is as far as a posted call
can be behind (a call is dropped as soon as its generation is not the newest).  Three rows are what
a wrong commit needs: the one heard, the one armed, the one chosen instead.  A queue of three rows
has rows before, at and after every removal, and an insertion in the middle.  `MaxTrail` 1 is a history
of one row, so that a way forward is one row long: enough for a step off the trail to lose it; longer
trails are covered by the proof (`TrailKept`).  In `ScrobbleDelivery`, two listens of which one is
unacceptable and batches of one make the skipping loop go round; three listens are needed for an
order; two queued calls make an edit overtake a signal; `accepted` is counted to two since more
repetition adds nothing.  `faults` bounds failures and crashes together, since an unbounded run of
failures would excuse every liveness property.  In `Library`, two edits and two ratings are what a late
failure needs to revive a replaced rating, and an edit beside a scan is what a stale batch needs
(`MaxTogether` bounds scans and edits together); three stamps are those of the file at first, of a
change and of the rating writer's own write, so that the writer's second reading may meet either order
of the two, or a write that leaves the stamp as it was.  At first the file has
the lower rating in its tags (`Tagged`; the two ratings are interchangeable, and a change from outside
takes it away).  A fault is a failed statement, a directory that
cannot be read, or a tag saved and not found again.  In `SearchIndexing` one narrowing pair is one more
keystroke; events (builds asked for, hiding, failures) are bounded together because each supersedes a
build in the same way.  In `AnalysisPool`, two workers are the least of which one can be parked, a file
larger than the budget is the one case in which it is overrun, and a window of one decode makes the
gate move at every decode.  In `FeatureRefresh`, a chain of three is the least that can split when one
file changes and merge when another does.

Not covered by the bounds: queues longer than three rows, two different play-next batches together
with a move across both, longer trails, more than one crash together with edits, two scans, an index of
several batches, the idle release crossing keystrokes, and more than two workers.  The safety
properties of all of these are proved without the bounds (section 4).

`CHECK_DEADLOCK FALSE` is set where the bounds on failures, edits or changes let the system come to
rest: a library or a search with nothing left to do, a player past its last generation.

Fairness.  `GaplessHandoff`: weak fairness of the handler being run (the GUI thread finishes what
it began), strong fairness of the delivery of posted calls (the Qt event queue is first in, first
out, so a call cannot be overtaken for ever by user actions) and of the 250 ms poll.
`ScrobbleDelivery`: weak fairness of each worker's event loop and of the GUI's handling of the
disabled signal, of the retry timer while it runs, of the answer (transfers time out after 30 s)
and of the end of a rate-limit window.  `Library`: weak fairness of the GUI thread's event loop
(`GuiStep`), of the rating writer (`SyncStep`) and of each pipeline (`PipeStep`): threads that run to
their end.  `SearchIndexing`: weak fairness of the worker's event loop, the cache writer, the view's
event loop and its debounce and re-run timers, and none of the idle timer, which showing the view
stops.  `AnalysisPool`: weak fairness of each thread (threads run, decodes end: a decoder that hangs is
killed after ten minutes).  `PlayerCore` and `FeatureRefresh` state no liveness and no fairness.  No
fairness is assumed of users, other programs, failures, crashes or tracks ending.

## 4. What is proved

`GaplessHandoff_proofs` proves, for every set of rows, every bound and either kind of sink:

* `TypeCorrect`: `Spec => []TypeOK`.
* `CommitIsArmedRow`, `ShownIsHeard`, `StopIsGapFree`: the invariants of the same content, and
  `AdvanceFollowsSound`: the action property `AdvanceIsHeard`.
* `FinishIsOfHeardRow`: under `HasProbe`, the row finished at end of stream is the one that ended.

None of these is inductive: whether a commit lands on the right row depends on what PlayerCore
published, what playbin was given, and where the GUI thread is.  `IInv` is the conjunction of six
named parts.  `ArmedInv`: while a hand-off is pending the armed uri is the prepared row's and the
GUI thread is at no place where it would choose another.  `PreparedInv`: what may be armed next is
the prepared row, except while it is being replaced, and a successor kept over a reload is too.
`PipelineInv`: how the uris of the backend follow the streams of playbin.  `StopInv`: with one
completion left the stop flag, the empty prepared uri and the absence of a hand-off stand together.
`EosInv`: an end of stream belongs to what was heard last.  Each part has a lemma saying that a step
preserves it, with one step of the proof per action; `StepInv` puts them together and `Invariance`
is the temporal conclusion.  `DisplayRefined` proves `DisplayFollowsSound`: the initial states map
to `Display!Init`, and every step to a step of the display or to a stutter.  It needs one more
invariant, `HeardInv` (a pending advance is of something heard), and is written along the disjuncts
of `Next`, each with the display's step it maps to.  The proofs assume `HandoffAssumption` only: the
empty uri is not a track, short tracks are tracks, the bounds are natural numbers.

`ScrobbleDelivery_proofs` proves, for any destinations, listens, batch size, failure limit and
bounds:

* `TypeCorrect`.  The failure counter keeps its range only because a scrobbler that has used up its
  failures is disabled and has nothing in flight until it is configured anew (`FailuresInv`).
* `SentDelivered`: the invariant `SentMeansDelivered`, by way of `AnswerInv`: a submission answered
  "ok" was taken whole.
* `ConfigurationSettled`: the invariant `ConfigurationSettles`.  `ConfigInv` says what the queue will
  do: the last configuring call in it carries the saved settings, or there is none and either the
  scrobbler has them already or a disabled signal is still on its way.
* `RepeatedOnlyIfUnanswered` and `InOrder`, the second an action property, both under `~MayQueue`
  (a user who clears and re-queues rows can ask for a repetition and for another order).  `OnceInv`
  says that what is owed or in flight was not taken before, unless its answer was lost; `OrderInv`
  that a submission leaves out no older listen that is still owed.  That a batch has the second
  property when it is built (`BatchInOrder`) rests on the pages of `unsent()` being monotonic in the
  order of the listens.
* `OutageDisablesNothing`, under the assumption that no service rejects a submission as such.

These proofs never expand `uploadBacklog()` where it is called: `UploadEffect` says once what it may
do to rows and submission (`Uploading`), and `PokeEffect`, `AnswerEffect` and `ServiceEffect` say
what queued calls, answers and services do in those terms.  They assume `DeliveryAssumption` only.

`Library_proofs` proves, for any files, ratings, batch size and bounds, from `LibraryAssumption`:

* `TypeCorrect`: `Spec => []TypeOK`.
* `NoRatingIsLost` and `NoStaleWrite`: the invariants `UnwrittenIsPending` and `PendingIsUsers`, by
  way of `RatingInv`, which says for each place of the rating writer how what it holds relates to
  the list: what it confirms it wrote itself, and what it fails it may only mark, not put back.
  Both except the files in `torn`, which the code does leave with a rating and an older pending write,
  or none: whether it was a crash or an ignored failure that ended the edit after its first statement.
  They say that nothing else does, and that the next whole edit mends it.
* `FreshRows`: the invariant `FreshRowIsTrue`, by way of `FreshInv`: everything on its way to a row
  (an opened file, a batch that grows, a posted batch, the writer's second reading) has a rating that
  is the file's if its stamp is still the file's, unless the last write left a stamp that the file
  had before (`alike`), and a stamp no newer than the newest in any case.  This holds because the stamp
  is taken before the tags are read.
* `PendingStaysShown`: the action property `EditStaysShown`, along the steps that change a queue row.
* `OnlyGoneAreMissing`: the action property `MissingWasGone`, by way of `MissingInv`, which is
  `MailInv` (what is posted as missing was gone) and `GoneInv` (what a complete enumeration did not
  find was gone).

`SearchIndexing_proofs` proves, for any queries, matches, number of batches and bounds, from
`SearchAssumption`:

* `TypeCorrect`; that a stream reads no batch past the last is part of it.
* `CacheTruth` and `OneSnapshot`: the invariants `CacheIsTruthful` and `IndexIsOneSnapshot`, by way of
  `IndexInv`: the live or the staged index is the part of the snapshot read so far, a cache write that
  waits belongs to the index's signature, and what the cache writer was given is of its signature.
* `NarrowExact`: `NarrowingIsExact`, by way of `NarrowInv`: the narrowing cache is never of a later
  index, and every change of the index makes it of an earlier one.
* `ShownCurrent`: `ShownIsCurrent`, by way of `SettleInv`, which says that a view that does not show
  what it should has something coming: a timer, a query, an answer, or a batch.  Its proof sorts the
  steps by what they do to these (`Quiet`, `GuiEffect`, `TakeEffect`, `RunEffect`) before it looks at
  the invariant, so that `StepSettle` is a case for each kind and not for each action.

`PlayerCore_proofs` proves, for any tracks, lists, modes and bounds, from `CoreAssumption`:

* `TypeCorrect`.  Row numbers of the trail stay inside the queue only because every edit that shifts
  rows drops the trail; that `moveRows()` and `removeRows()` keep the current row inside the queue
  rests on lemmas about positions (`BeforeGrows`, `BeforeComplement`, `Picked`, `Splicing`), proved
  from the cardinalities of intervals.
* `PreparedRow`, `LastCounted`: the invariants `PreparedIsNextRow` and `LastCountedNeverHandsOver`;
  `DsdBoundary`: `NoPreloadAcrossDsd`, which is in no run, since it says little more than the guard of
  one choice.
* `Heard`: `HeardIsAnnounced`, by way of `HeardInv` (what is loaded was announced, or is staged on a
  pause) and `StagedInv` (what is staged is what is loaded, and was not loaded silently).
* `CurrentRow`: `CurrentIsSource` when there is no DSD track.  With one it does not hold: section 6
  has the abandoned takeover prompt.  What holds then is `ShownInv`.
* `RegionIsAsked`: `NoSpuriousBadge` when every row can be played.  The skipping loop moves the
  current row and keeps the region, so with a row to skip it does not hold.
* `TrailKept`: the action property `TrailIsRetraced`, by way of `AheadInv`: only a queue with a current
  row has a trail (`TrailPlaced`), and with a way forward remembered the row that is prepared is its
  last (`TrailAhead`), so that a commit minutes later takes the trail's own next row.  That the trail,
  read from its far past to its far end, is the same sequence after a step along it is a fact about
  sequences (`TrailOf`, `StepForward`, `StepBack`).  The property exempts a row staged again under
  Repeat One (`Restages`, section 6).
* `PickKept`: the action property `PickIsUnheard`, by way of `FreshAhead` (without a way forward the
  prepared row is none that was heard), assuming `~MayRadio`: no radio session is switched on or off.
  Switching one off keeps the row prepared for it (section 6).
* `SkipIsComplete`: the action property `LinearSkipFindsRow`, for any queue and any rows that cannot be
  played; the property itself is of skipping without shuffle while no radio session is on.  `Tried` relates the rounds left in `skipCurrentTrack()`'s loop to
  the rows: as many rounds are left as there are rows ahead, and with Repeat All, where the loop comes
  round to where it began, each row it has passed cannot be played.

Two classifications of the steps carry this.  The actions are many and the invariants relate few
variables, so the proof goes by kinds of steps. `EveryStep` says of each action, whatever mode or
edit it is, that it keeps the types and is of one of eight kinds: a row begins to play or the
prompt's track does (`RowBegun`, `Resolved`), rows are skipped, everything halts, the next row is
chosen anew under the loaded one (`Redecided`), the hand-off or the timer lands on a row (`Landed`),
the backend goes on by itself (`Carried`), or a paused row is resumed (`Resumed`).  The invariant is
then proved kind by kind.  `EveryDecides` says of each action that what is to come was decided anew
for the queue as the action leaves it, or that nothing the decision reads has changed, or that
nothing is loaded (`Renewed`), that a trail has a current row (`Placed`), and that the skipping loop
begins with more rounds than there are rows (`Begins`); the action properties need nothing else
about the actions that are not theirs.

`AnalysisPool_proofs` proves, for any number of candidates, workers and readers, any sizes, budget and
calls, from `PoolAssumption`:

* `TypeCorrect`.
* `WithinBudget` and `NobodyStarved`: the invariants `StagedWithinBudget` and `NotStarved`.
* `PoolImplemented`: `DeliversOnce`, the refinement of `WorkPool`: the initial states map to
  `Pool!Init`, taking a candidate to `Pool!Claim`, a finished analysis to `Pool!Analyse`, a delivery, a
  stop and the return to theirs, and every other step to a stutter.

The inductive invariant has a part for each kind of thread and for what they share.  `ReaderInv`: each
reader has a candidate of its own, read when its ticket is served.  `WorkerInv`: so has each worker, it
holds the bytes exactly where it decodes them, and a candidate taken is with a worker until it is
analysed or the worker left for a stop.  `BytesInv`: what the buffer granted is the sum of what is held,
and over the budget only if one file holds all of it.  `QueueInv`: an analysis not delivered is in one
place, once.  `EndInv`: the caller goes on when the workers have left nothing behind.  Who holds the
mutex, who sleeps and what the gate's target is are in none of these: what is delivered depends on them
in no way, only whether the call returns, which stays with `PoolReturns`.  The sum of bytes is a
recursive function; that it exists and what changing one term does to it is proved by the least
number for which it would fail (`Least`, `SumsExist`), which takes the place of an induction.

`FeatureRefresh_proofs` proves, for any number of files, any audio, any symmetric likeness of
fingerprints and any bounds, from `RefreshAssumption`:

* `TypeCorrect`.
* `AnalysisTrue`: the invariant `AnalysisIsOfFile`, by way of `StampInv` (no stamp is ahead of the
  file's) and `ContentInv` (what is stored, or decoded and about to be, under a file's present stamp is
  of what the file holds).
* `GroupsTrue`: the invariant `GroupsAreComponents`, by way of `GroupsInv`.  `IncrementalIsFull` is the
  heart of it: comparing only pairs with an affected file finds the components that comparing all
  pairs finds, provided the groups not affected are connected and apart (`Intact`), which a clean store
  is and which every stored analysis and every interruption keeps, but for the exception of `torn`.
* `RowsFollow`: the action property `RowFollowsFiles`.  That `AssignIds` gives every component an id,
  no two the same, an old one only to a component with a file of it, and otherwise one above all
  that the store has, is proved in `ReusedDef`, `FreshIds` and `IdsAreStable`.
* `RefreshIsComplete`: the action property `RefreshCompletes`, by way of `DoneInv`, which says what a
  refresh has done at each of its stages.

Besides these parts the invariant has `SoundStore` of the store as seen and as a crash leaves it (every
row grouped has a group, every group a row).  `StepCases` sorts the steps into what they do to the
store, and each part has one lemma along those cases.

The inductive invariants were checked with TLC before they were proved.

Only model-checked: the liveness properties `StartedIsSettled`, `DisplayCatchesUp`,
`EventuallyDelivered`, `EditIsAttempted`, `PlaceholderIsRead`, `BuildIsFresh` and `PoolReturns`
(liveness under fairness is beyond the prover).  Every other property of a passing run is a theorem,
under the hypotheses named above where there are any.

## 5. Plan

1. done: `GaplessHandoff` and its proofs; `PlayerCore`; `ScrobbleDelivery` and its proofs.
2. done: `NowPlaying`, the abstract display, implemented by `GaplessHandoff`; the refinement proved.
3. done: `Library` (rating edits against tag writes, `docs/data-safety.md`, with the scan pipeline,
   since the two meet in the same files and rows) and its proofs.
4. done: `SearchIndexing` (generations, staged index, cache, view) and its proofs.
5. done: proofs about `PlayerCore`, its three action properties included.
6. done: `AnalysisPool` (decode gate, staging buffer, both pools) with `WorkPool`, and
   `FeatureRefresh`; their proofs, the refinement of `WorkPool` included.
7. left: an abstract specification of the feature store that `FeatureRefresh` implements, and
   `FilePublish` (exclusive publication, with crashes).
8. `LastFmAuth`, `ListenTracking`, `QueueSession`.

## 6. Where the code and its words differ

`gapless_row_race` is a run that TLC finds violated, quoted in `PROJECT.json` under `findings`:
between `stabilizeGaplessHandoff()` and the end of `prepareNext()` the backend can still arm the uri
of the previous choice, and the commit lands on the new row.

Met in `FeatureRefresh`, without a run of their own:

* A refresh compares only what changed, unless successfully analysed rows were left ungrouped by an
  earlier one.  A file whose decode fails loses its group as well, and if that refresh is stopped before
  it groups, nothing tells the next one that the file's old group may have come apart.  The model
  records this in `torn`, and `GroupsAreComponents` exempts it.
* When a new version makes the scalars stale, the fill decodes the file as it is now and stores its
  scalars beside the hash of an earlier scan; an export then says of that hash what is true of other
  audio (`indexer/FeaturesMain.cpp:2286` against the comment at `indexer/FeaturesPack.cpp:255`).

Stated as definitions and false of the models, but without a run of their own:

* `NoGapInHistory` (`PlayerCore`): removing the current row while paused loads its successor
  unannounced; resuming never announces it, so the listen history has a gap.
* `AbandonedTakeoverNeverStarts` (`PlayerCore`): removing or clearing the queue leaves a takeover
  prompt open, and accepting it starts a track the queue no longer has.
* `NeverDoubleSubmitted` (`ScrobbleDelivery`): rows are marked sent when the answer arrives, so an
  accepted submission whose answer is lost is sent again.
* `FoundIsReported` (`Library`): the fingerprints a scan compares with include the rows marked
  missing (`db/Database.cpp:1287-1317`), so a file that comes back unchanged is skipped and its row
  stays missing until the file changes or a scan is forced.
* `ShownIsRebuilt` (`SearchIndexing`): `ui/SearchView.h:102-103` says an index freed while idle is
  rebuilt on the next show, but a signal that the index was loaded, on its way when it was freed,
  makes the view take it for loaded (`ui/SearchView.cpp:390`, `:538`, `:553`).

Two more came out of the proofs about `PlayerCore`.  When a stop-after timer counts its last completion
under Repeat One, the same row is staged again, and `recordForwardStep()`
(`player/PlayerCore.cpp:1212`) takes this for a move that leaves the trail: the way forward is dropped
and the row enters the history behind itself.  And `setRadioActive(false)` keeps the row prepared
for the radio session, the next in the queue; under shuffle it is committed without a new draw, so it
may be one that was heard in this cycle.

Met while modelling and left to the models' comments or their abstraction: skipping an unplayable
row past the end under Repeat All does not collapse the play-next region (the reason `core_linear`
has no such row); under shuffle the skip loop may draw the same unplayable rows until its guard ends
it (`LinearSkipFindsRow` is stated without shuffle); `previous()` without a history leaves the forward
trail, which may then lead back to the row that is playing; an end-of-stream message of an earlier
source is handled as the current one's (the `stale` mark); a listen recorded inside a rate-limit
window is uploaded at once; a rejection of a token already replaced disables the destination; a
library pull drawn by `prepareNext()` is drawn again when the row ends, as documented.  In the
library: a rating edit is two statements without a transaction, and the result of the second is
ignored (`ui/RatingSyncController.cpp:39`, `:41`; `app/AppCore.cpp:3258`, `:3263`), so a crash between
them or a failure of the second loses the write that `docs/data-safety.md:28-30` promises, or leaves
an older one pending (`torn`); the result of `recordRatingWriteFailure()` is ignored as well, and the
write then stays pending, not failed; the mtime is kept in whole seconds
(`scanner/TagReader.cpp:173`, `scanner/DirectoryWalker.cpp:151`), so a write that comes within the
second of another, with the same size, is not read again by any scan but a forced one (`alike`), and
the rating writer writes in place; a scan's batch read before a tag write may
be stored after it, and the row is then stale until the next scan; `patchTracksFromMetadata()`
(`player/PlayerCore.cpp:748`) lets a metadata update overwrite the user's rating a queue row shows; a
sync of saved ratings asked for from the menu writes the ratings of the moment it was asked for
(`scanner/RatingTagSyncWorker.cpp:49-51`), so one cleared since is written still; ratings given over
the control socket (`app/AppCore.cpp:3241-3280`) become pending but no sync is scheduled for them.
In the feature indexer: `indexer/FeaturesMain.cpp:2659` says that identity scans leave every
successful file grouped, but one with nothing pending returns before it groups rows an earlier stop
left ungrouped (a later refresh of the other stages groups them).

## 7. Not modelled

In `PlayerCore`: metadata patches, missing marks, ratings, volume, relative seeks, the shuffle
percentages and the delayed seek to a DSD resume position.  A load is taken to reach `Playing` at
once, where it ends the suppression of further takeover prompts (`player/PlayerCore.cpp:20-26`), and
no handler comes into another, so that the generation guard of `prepareNext()` (`:869-934`) never
bites.  When `syncQueue()` drops the announcement of a staged row (`:852-856`), the row counts as
loaded silently from there on, which excuses it from `HeardIsAnnounced`.  In the backend: waiting for
an output, DSD output, buffering, position restore, and the watchdog that reloads after a seek that
never ends (`playback/GStreamerPlaybackBackend.cpp:980-994`; the reloads of `seek()` and of cancelled hand-offs are modelled).  In
`GaplessHandoff` the last counted row is followed by the prepared one or none; under Repeat One the
code stages the current row (`player/PlayerCore.cpp:1367-1370`), which `PlayerCore` has.  In the scrobblers: the throttling of playing-now updates
(any may be sent at any time), token tests, adding and removing destinations, sign-in; a rate limit
is assumed to come with the header that says how long it lasts.  In the library: a library of MPD's, which
the fill leaves alone (`ui/ScanController.cpp:340`), source directories that are disabled,
whose placeholders the fill passes over (`db/Database.cpp:1256`), album ratings, the queue of roots
(a scan is of all of them), the adaptive gate on the number of readers, the limit of the results
queue, tags other than the rating.  In search: exclusion rules, ranking, what makes a text match, and
the empty text (the re-run timer is not started for it, `ui/SearchView.cpp:544`); and
`muzaitenctl search`, which replaces or deletes the same cache file from another process
(`cli/SearchCli.cpp:31`, `:99`, `:161`): what it writes is of one transaction.
In the feature indexer: the limit on the number of candidates, the migration of older stores, files
that leave the library, the semantic provider, an exception thrown while a result is handled
(`indexer/FeaturesMain.cpp:1251`), and the lock file itself (that one command runs at a
time is assumed).  `FeatureRefresh` takes the library's scan as one step over all files, and assumes
that a change leaves a file another mtime in whole seconds, or another size; `Library` has both in
detail.
Numerical code and matching, SQL queries, parsing and presentation are outside
what these models abstract.

Some hazards of the code are not in `PROJECT.json` since its list is kept to those closest to the
models: library and radio pulls exclude the tracks of the queue at the moment they are drawn, not at
the moment they are appended (`player/PlayerCore.cpp:1088`); the seek to a pending DSD resume
position runs 250 ms late, guarded by the path alone (`player/PlayerCore.cpp:156`); the replies of
the Last.fm sign-in carry no attempt id (`scrobble/LastFmScrobbler.cpp:347`).  File publication,
sign-in, listen tracking and queue persistence are state machines that could be modelled as the
others are, and are next in the plan; the remaining parts are listed with their reasons under
`components`.
