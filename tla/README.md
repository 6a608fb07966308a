# A verification project for lPicto

lPicto is a self-hosted photo and video library: a Go server scans media
folders on a NAS, records assets in PostgreSQL, renders thumbnails, previews,
posters and storyboards through a Redis job queue, sends items to a local AI
service, and serves it all to a React client. This directory holds TLA+ models
of the parts where the program's own concurrency lies, the TLC configurations
that check them and theorems that TLAPS proves. `PROJECT.json` lists
components, runs, source lines, hazards and theorems.

Paths below are relative to `src/backend/`; `jobs.go` is
`internal/jobs/jobs.go`, `scanner.go` is `internal/scanner/scanner.go`, and so
on.

## The system: components, state, operations

| Component | State | Operations | What makes it correct |
| --- | --- | --- | --- |
| Job manager (`jobs.go`, `resource.go`) | one Redis list per task type, the dedupe set, workers, delayed retries in memory, AI retry generation, priority signals | Enqueue, promote, pop, run, preempt, requeue, retry, clear, cancel, restart | an item is in flight at most once; the dedupe set says exactly what is in flight; urgent first; all work leaves |
| Thumbnail processor (`thumb.go`) | temporary and final files under `/cache`, status columns | Handle, processAsset, setReady | what is served is complete; a ready row has its file |
| Work status (`db/assets.go`, `db/task_work.go`) | `cache_key`, `thumb_status`, ... per asset | SetAssetWorkStatus, PendingWork, RequeueProcessingWork, ContinueWorkForRoots, updateAssetRecord | no row is left unfinished for ever |
| Supervisor and start-up (`cmd/server/main.go`) | none of its own | runWorker, superviseAutomaticTasks, enqueuePendingWork, AI backfill | finds every lost item again |
| Scanner command loop (`scanner.go` 273-524) | pending starts, active start, progress status | Start, Stop, done, pause | one run at a time; no accepted place is lost; the status settles |
| Scan run (`scanner.go` 677-1970) | seen paths, deferred work, media-scan priority | walk, writeAsset, enqueueDeferredWork, finishPaused | new versions get their work |
| Remote controller (`scanner/remote.go`) | scan status in Redis with a revision | enqueue a scan request, publish status | accepted requests stay queued; status never goes back |
| Watchers (`scanner/watcher.go`, `api/nas_watcher.go`, `nas-watcher/`) | batched paths | debounce, flush | every event leads to a scan of its path |
| Task operations (`api/task_operations.go`) | system task rows | run, stop, continue, retry | a stop loses no item for good |
| Debug settings (`api/debug_settings.go`, `debugcontrol`) | two pause flags | pause, resume | nothing starts during a pause, everything resumes |
| AI pipeline (`internal/ai`, `ai/app.py`) | result rows, staging rows and directories, node slots, the service's PAUSED flag | stage, analyse, interrupt, retry, backfill, stop, reanalyse, reindex | a result belongs to its input; what is in processing has a worker; every wanted item ends |
| Cache policy (`internal/cachepolicy`) | registry, pins | register, touch, evict, clear, sweep | pinned files stay; the limit is passed by a bounded amount |
| Video segments (`api/video_hls.go`) | segment runtimes, sessions, slot queue | request, prewarm, warm all, run, finish, stop session, purge | one transcode per segment; a joined segment is not cancelled; the queue moves |
| Video proxy (`api/video_proxy.go`) | runtimes by start position, leases, temporary and finished MP4 | ensure, stream, heartbeat, idle stop, finish, sweep | a finished proxy is whole; a busy runtime has its goroutine |
| Audio proxy, previews (`api/audio_proxy.go`, `image_preview.go`) | a goroutine and its output; one call shared by the requests | start, cancel, join, publish | what is published is whole |
| Source cache and I/O scheduler (`api/media_source_cache.go`, `media_io_scheduler.go`) | chunks, originals, waiting readers | read, copy, wait, give up | one read of the source at a time, never lost; files are whole |
| Source health (`storage/source_health.go`) | cached verdict per root, shared marks | probe, mark, recover | an outage hides no file |
| System tasks (`api/system_tasks.go`, `task_operations.go`, `db/system_tasks.go`) | records of runs, the cleanup, the checks, the duplicate scan | start, stop, finish, retry | a record tells of its own run |
| Library reset, deletion (`api/media_library_reset.go`, `asset_delete.go`, `batch.go`) | whole database and cache; plan and files of a deletion | stop, clear, empty; plan, confirm, delete, purge | the tables are emptied in quiet; a deletion takes what was named and shown |
| Lists, collections, folders (`db/assets.go`, `collections.go`, `folders.go`) | asset and folder rows | list, locate, anchors, neighbours, refresh, propose duplicates | all ways to a place lead to the same row; a copy is kept |
| Albums, tags, search, metadata parsers, web client, deployment | database rows, none | queries, parsing | not concurrent above the database |

How they interact. API handlers, watchers, the recovery probe and the
supervisor call `Manager.Enqueue`. Control workers pop scan tasks and turn them
into commands of the scanner's loop (`main.go` 659-712); media workers pop
items and call the thumbnail or AI handler. A scan run raises the media-scan
priority, playback and page views raise the foreground priority; a monitor
goroutine per task cancels running media work when a priority rises, and the
cancelled task is enqueued again. Handlers and scanner share the asset rows
with no lock between them. A user stop clears lists and dedupe keys, cancels
running contexts and puts rows back to pending. A restart deletes the media
lists and the dedupe set and enqueues all unfinished rows. The API's video,
audio, preview and source readers share the cache directory and its one
manager; their goroutines find their runtimes by key in maps under a mutex. The
reset of the library and deletions take rows and files away under all of them.

What is hard. Every Redis and database call is a point where others act;
statuses are written by asset id while the row's version changes; cancellation
has a first cause that stays; lost tasks are repaired only by a sweep that
looks when everything is idle; several pairs of mechanisms work against each
other (sweep and stop, sweep and delayed retry, preemption and stop); runtimes
are looked up by key, so a goroutine may act on its successor; outages and
deletions look alike from a directory listing; and what a user confirmed is
carried out later on a disk that has moved on. `PROJECT.json` lists the hazards
line by line with the properties that cover them, and those that have none with
the reason.

## The modules

`JobQueue`, `ThumbPipeline`, `ScanCommand`, `AIPipeline`, `VideoSegments`,
`VideoProxy` and `LibraryScan` stand for a component each. `WorkPromise` and
`ScanPromise` are the abstract specifications that `JobQueue` and `ScanCommand`
implement. `MediaCache` extends
`CachePolicy` with the writers and readers of the cache. `Maintenance` composes
`SystemTasks`, `AssetDeletion` and `Browse` by INSTANCE. Each `MC...` module
gives the constants of the runs, and the `..._proof` modules hold the theorems
of a component (`Scanner_proof` those of `ScanCommand` and `LibraryScan`). Type
invariants (`TypeOK`, `CacheTypeOK`, `BrowseTypeOK`) document the state of
every module; those of `JobQueue`, `ScanCommand`, `ThumbPipeline`, `LibraryScan`
and `Maintenance` are proved, and the others are covered by the type parts of
the inductive invariants.

### WorkPromise, JobQueue - the job manager

`WorkPromise` states what the manager promises about a piece of media work,
without lists, retries or priorities. A piece that is asked for is taken, or
joins the one that was taken before; a taken piece is done by one worker at a
time, who does no other; when an attempt that was cut short ends, the piece is
asked for again in the same step. Only Redis, by refusing it, and a crash lose
work. `JobQueue` is the manager itself. In the refinement `asked` is
what a call is about to claim, what waits for a retry timer and what a worker
has just let go unfinished (`Asked`), `taken` the dedupe set, `doing` the entries
in the workers' hands from the pop to the release (`Doing`), and `short` those
whose handler has returned with a preemption, a pause or a failure within the
limit (`Short`).

One action per Redis call and per step of the worker goroutine. `queue` and
`queued` are the Redis lists and the dedupe set; `wpc`, `wtask`, `cause` and
`result` are the worker's position in `redisWorker`/`runTask`, its entry, the
first cause of its cancelled context and what the handler returned; `callStep`
and `callTask` hold an `Enqueue` call between its claim (SADD) and its push or
promotion; `delayed` holds retries that wait for their timers; `aiGen` is
`aiRetryGeneration`; `stop` is a stop in progress. A worker's own requeue uses
the same Enqueue steps, so it interleaves with callers.

Abstractions: an entry is its type, subject, priority, attempt and generation.
The four preemption causes are one, because `requeueAfterResult` treats them
alike. The resource limiter is its capacity and its blocking signals; load
and memory readings only delay. A Redis error on SADD drops the request
(`claimRedisDedupe` answers false), which leaves what a push leaves that fails
right after its claim (`PushFails`).
The Lua scripts are one step each, as Redis runs them.

### ThumbPipeline - the life of a thumbnail

`row` is the asset row (cache key as the version the scanner saw, status);
`thumb` and `tmp` are the final and the temporary file per key, where a worker
as value means "what this worker is still writing"; `queue` and `claimed` are
the abstract queue of this type. The handler is followed call by call: read the
row (Load), mark processing, start the command, end or failure of the command,
rename (Publish), setReady. The environment modifies the file, loses and
recovers the storage, scans, requests a missing file, stops and continues, and
restarts the process. `raced` is a history variable: the row's key was changed
while a job of the old key was running. Claiming, pushing and clearing are
single steps here; JobQueue has them apart.

### ScanPromise, ScanCommand - the scanner's command loop

`ScanPromise` states what callers may rely on: one run at a time, and accepted
work stays owed until a run that covers it starts, unless a stop drops it or a
manual start takes its place. `ScanCommand` is the loop itself, with the
command channel (`inbox`), `pendingStarts`, `activeStart`, the run's context
(`cancelled`), the progress state and the debug pause. `Covers` is what `run()`
visits for a request. The refinement maps `owed` to the union of what the
pending requests cover and `covering` to what the active run covers. The
channel never stays full, because the loop never blocks, so the two-second
timeouts of `submitCommand` are not modelled; the replies to callers are left
out.

### LibraryScan - what a run does to the rows

The run of `scanner.go` on one root, with the health check before it, the
listing of the directories, the workers that examine and write one file after
the other, `failedRoots`, the marking of what was not seen, the deferred work
and its enqueueing, stops and errors on the way; path and nested runs, the
rebuild and the count. `row` follows the UNIQUE path of `file_instance` and the
view that hides missing rows; `ver` is what the row knows of the file. `mark`
and `entry` are the shared and the cached verdict on a root. Both watchers are
there: the process's own (`gone`) and the one on the NAS with its candidates,
outbound events and recovery scans, which may be lost. `lapse` records which
files were ever absent, unreadable or unwritable, `lost` the rows whose work a
stop or a failed rebuild dropped.

### AIPipeline - analysis of media

Rows of `asset_ai_result` and `asset_ai_stage`, the staging directories, the
tasks, each worker's position in `Processor.Handle` call by call (load,
recheck, stage, wait for a node, analyse, save or fail, or give way), the nodes
with their PAUSED flag, and the backfill loop that prepares items from a batch
it read earlier. The user starts, stops, reanalyses, reindexes and retries; the
process restarts. `basis` records from which version's frames a result was
computed, `lost` that a failure could not be reported because its context was
already cancelled.

### VideoSegments and VideoProxy - playback

`VideoSegments` follows `video_hls.go`: a runtime per segment with sessions,
owner and priority, the goroutine behind it (start, poll for the head of the
queue, claim a slot, transcode, finish), the requests that wait for it, the
warming of a whole video, the stop of a session, the debug pause, the deletion
of the asset, the purge and the sweeper. `VideoProxy` does the same for the
growing MP4 of `video_proxy.go`: viewers stream the temporary file while it
grows, heartbeats renew leases, an idle canceller stops what nobody watches. A
goroutine is told apart from its successor by a number; it finds "its" runtime
by key, as the code does. `undercut` records the runtimes whose entry or files
were taken away under their goroutine by a deletion, a purge or a late sweep:
the properties are stated for the others (see Observations).

### CachePolicy and MediaCache - the cache and who uses it

`CachePolicy` is the manager of one root: `disk` says what each path holds,
`order` is the order of last use, `pinned` counts pins, and sizes are any
positive numbers; reserve with eviction, clear and sweep are single steps, as
they hold the manager's mutex. `MediaCache`
adds readers of chunks and originals with the media I/O scheduler (`ioActive`,
`waiters`), the preview shared by its requests, the audio proxy with its
cancellation, and a writer of thumbnails.

### SystemTasks, AssetDeletion, Browse, Maintenance

`SystemTasks` has the records of the system tasks and the goroutines behind
them: one item of work per kind, the duplicate scan with its automatic tries,
the cleanup, the two kinds of storage check, and the reset of the library with
its waiting. `AssetDeletion` has files, folders and rows: the plan shown to the
user, its confirmation, the removal of files and directories one by one, the
marking, the purge, batches, and the refresh of the folder rows. They share the
storage, the scanner that adds assets, restarts, and the reset that empties the
rows of both; `Maintenance` joins these shared steps. `Browse` holds the lists:
ordering, pages, positions, anchors and neighbours as the SQL computes them,
against the plain list as a reference, and the hashing of duplicates. A list is
the rows by their numbers (`Numbered`, as `ROW_NUMBER() OVER (ORDER BY key)`
has them), its key a tuple of numbers. It reads
the rows only and shares no step with the rest, so `Maintenance` starts each
behaviour with a `focus` instead of multiplying the state spaces: the work of
each kind, the duplicate scan (both with the cleanup, the storage checks and
the reset), the deletion (with a scan, the cleanup of all assets and the
reset), or the lists. Media work and the duplicate scan meet only in the reset
and in the idleness the automatic scan waits for, so a behaviour has one of
them.

## Runs, bounds and what they show

| Run | Checks | What it shows |
| --- | --- | --- |
| `jobqueue_steady` | HeldOnce, ClaimedIffHeld, UrgentFirst, KeepsWork | nothing is worked twice, the dedupe set matches what is in flight, urgent entries lead; the refinement of WorkPromise |
| `jobqueue_gates` | SomeoneMoves, Drains | the workers' gates and slots never close in a circle; retries end |
| `thumb_steady` | ServedThumbIsWhole, ReadyHasThumbUnlessRaced | what can be served is whole; ready means there |
| `thumb_settles` | Settles | no row stays unfinished after outages, aborted scans and stops |
| `scan_promise` | NoLostWakeUp, KeepsPromise, PendingMoves | the refinement of ScanPromise; nothing waits without a wake-up, and waiting requests move on |
| `library_scan` | HiddenWasAbsent, OnlyStopsDropWork, CleanRunFindsAll | outages hide nothing, a clean run finds all, only stops drop work |
| `ai_pipeline` | ProcessingIsHeld, ReadyMatchesInput, OnlyStopHaltsOthers | two handlers of one asset through two versions and two commands |
| `ai_settles` | Settles, Rests | every wanted item ends; after a stop everything rests |
| `video_segments` | DoneIsClosedOnce, OneWriter, WantedIsNotDoomed, QueueMoves | shared runtimes, their ends and their queue |
| `video_proxy` | BusyHasRun, ProxyIsWhole, DoneClosesOnce | runtimes against idle stops, sweepers and restarts |
| `media_cache` | OneSourceRead, FinalIsWhole, OvershootIsBounded, PinnedFileStays | cache files under concurrent writers, eviction and sweep |
| `maintenance` | RunningIsRecorded, ResetIsQuiet, DeletesOnlyShown, OnlyNamedMediaGoes, PurgedWasGone, FoldersStay, NeighboursFollowList, PlacesAgree, SelectionKeepsOne | task records and the reset; deletions on a moving disk; lists and duplicates |

All runs pass. Every property also has a mutated definition in `PROJECT.json`,
the kind of slip the code could have had, under which TLC finds it violated.

Bounds, and why they are enough:

- `MaxAutomaticRetries` is 1 instead of 3: the limit is compared and counted,
  and one retry has all three of first, last and refused.
- `jobqueue_steady`: two image workers, one caller, a normal request for one
  asset and an urgent one for another, three requests, one restart, playback
  and debug pause. Two workers and a caller are what it takes for a claim, a
  release and a requeue of one item to meet; three requests allow a duplicate,
  a promotion and a request after release. Retries and the caller share one
  goroutine, which only reduces the orders of two independent Enqueue calls.
  The theorems hold without these bounds.
- `jobqueue_gates`: one worker of each of three levels (image, storyboard,
  AI), two requests, one stop of the AI type: every gate of
  `Manager.Start` (lines 253-277) is there, so a circle of waiting would show.
- `thumb_steady`: one asset (assets share nothing but the queue), two versions,
  two scans, two workers, one missing-file request, one restart.
  `thumb_settles`: one worker, an outage, a scan and a stop.
- `scan_promise`: two roots with two places each; a path request per root, a
  nested recovery scan, a full recovery scan and a manual scan of one root, so
  that merging meets all/some roots, paths/none and nested/full; three
  requests, one stop, one pause, a channel of two.
- `library_scan`: one root with a file directly in it and one below it, so that
  nested and path runs leave something out; two versions, two runs of any kind,
  a change on disk, and two mishaps out of an outage, a single failing call, a
  restart, a stop, a lost event and a purge. A path request may have been left
  from before the start. Two runs are what it takes for a wrong mark to be made
  or repaired by a later one.
- `ai_pipeline`: one asset, two workers and two nodes, two versions, two
  failed attempts at most, two commands out of stop and reanalyse; delayed
  retries are left to the other run. `ai_settles`: one worker and node, one
  version, one retry, any one command or restart, one outage, preemption or
  eviction. Assets share only nodes and the budget.
- `video_segments`: two segments and one slot, so that there is a queue; two
  viewers, one of whom may warm the video; two goroutines per segment; two
  requests, one trouble (pause, deletion or purge), one sweep.
- `video_proxy`: one start position and one slot, two viewers, two goroutines,
  one sweep, one trouble (pause, deletion or restart). Start positions share
  only the slots and the asset's status; the theorems hold for any number.
- `media_cache`: up to three readers of one chunk and one original, or fewer
  beside two viewers of the preview, the audio proxy and a thumbnail, at two
  priorities; a limit of one unit, a disk that may lack one. `Casts` names the
  sets of goroutines that show up together.
- `maintenance`: two kinds of work, one of them waited for; four files (a
  media file, its subtitle, another media file in the same place, a new one),
  three folders, three requests, changes, scans or failing calls in every
  focus; a plan is not asked for while a deletion is under way. Lists: five
  rows on two initial shelves (ties, missing values, hidden rows, two folders),
  pages and neighbours of two, three anchors at most, six kinds of list in all
  orders and groups, one change. Five rows give a list of two full pages and a
  rest. Three names begin with digits ("1", "01", "02", which a natural order
  compares as numbers) and two are the same.

Deadlock is checked in the JobQueue runs. The other instances stop when their
bounded environment (versions, scans, requests) is used up, so their
configurations switch it off.

Properties with a condition. `HeldOnce`, `ClaimedIffHeld`, `KeepsWork` and
`ServedThumbIsWhole` are stated for instances without user stops: `ClearQueues`
removes the keys of running items by design (jobs.go 317: "Active work is
allowed to finish"), and a key claimed between its SMEMBERS and its DEL stays
behind. `undercut`, `raced`, `lapse`, `lost` and `tainted` are history variables
that name the events after which the code gives no guarantee; each of these
events is listed under Observations or is one the program cannot prevent.

## Fairness

- JobQueue: goroutines go on, Redis answers, handlers return, timers fire
  (weak fairness per step). A handler is strongly fair to return something
  else than "preempted" when it may run undisturbed: the AI handler gives
  itself up only when it sees a priority (`internal/ai/processor.go`), and
  an endless row of these is a priority that stays. Nothing is assumed of
  callers, signals, stops and restarts.
- ThumbPipeline: workers, the preemption monitor, the sweep, retries and the
  steps of a stop that has begun are weakly fair, and a scan run ends (its
  walk is finite and its commands have timeouts). `Settles` assumes that
  storage and scans become calm and that the command eventually stops
  failing; without the latter the sweep starts the item over and over.
- ScanCommand: the loop is weakly fair; `Done` is strongly fair because Go's
  `select` picks at random among ready channels; runs end; the debug handler
  finishes its calls.
- AIPipeline: each worker's steps, the preemption monitor, the backfill loop's
  ticker, retries and a stop that has begun are weakly fair. Extraction, the
  answer of a node and the end of a backfill preparation are strongly fair:
  each may be interrupted, but commands and HTTP requests have timeouts, so
  those that are begun again and again are not interrupted for ever once the
  machine is calm, which both properties assume.
- The other modules state safety only. `QueueMoves` says without fairness that
  while a slot is free the head of the segment queue can take it.

## What is proved

For every value of the constants that satisfies the module's assumption (any
types, workers, callers, subjects, tables and bounds):

`JobQueue_proof`

- `TypeCorrect`: `Spec => []TypeOK`. TypeOK is inductive as it stands; it says
  among others that a list holds only entries of its own type, that a worker
  has an entry exactly from its pop to its requeue, and that no attempt
  passes the limit. The lemmas `InsertAtEntries` and `RemoveAtEntries` give the
  entries of the community module's operators, on which the two scripts rest.
- `UrgentEntriesLead`: `Spec => []UrgentFirst`. By itself UrgentFirst is not
  inductive: a promoted entry goes to the head whatever its priority. The
  invariant `UrgentInv` adds that only urgent entries are being promoted
  (`enqueueRedis`, jobs.go 608-633) and states the order per list;
  `PriorityInsertOrdered` and its neighbours show that each script keeps a
  list ordered.

- `HeldInOnePlace`: `NoStops` implies `Spec => []HeldOnce`, and
- `DedupeSetIsExact`: `NoStops` and media types only imply
  `Spec => []ClaimedIffHeld`. Neither is inductive by itself: that a claim is
  safe follows from the exactness of the dedupe set, and that a release is exact
  from the uniqueness of the holder. The invariant `HeldInv` joins them, key by
  key (`Once(k)`, `Exact(k)`), with type correctness, with the fact that no
  clear is under way, and with `BusyMakesNoCall`: a worker enqueues only when it
  has let its entry go, without which a requeue could overwrite a push in
  flight. `InsertHolds`, `PromoteHolds` and `TailHolds` say what the scripts and
  the pop do to the entries of a key. `NoStops` is needed because a clear takes
  keys away from running work. Control tasks are outside the second theorem,
  since the promote script may replace a control entry by one of another
  subject.
- `WorkIsKept`: `NoStops` implies `Spec => KeepsWork`, the refinement of
  WorkPromise. `InitPromise` maps the initial state; one lemma per kind of step
  maps it to a step of the promise or to a stutter: `ClaimPromise` to `Take` or
  `Join`, `PushPromise` to `Drop` when Redis refuses, `PopPromise` to `Begin`,
  `FinishedPromise` to `CutShort`, `ReleasePromise` to `End`, `CallerPromise` to
  `Ask`, and the restart to `Crash`; `RequeuePromise` shows that the requeue
  hands an unfinished item to a call or a timer without a gap in between.
  `PromiseInv` is what this needs of the reachable states: `HeldInv` (a popped
  item was taken and nobody does it; a refused one is in no other hands), and
  `DelayedFresh`, that no timer holds a retry of an old generation, which would
  be dropped when it fires. Control tasks are outside: some have no key.
- `WorkersNeverAllWait`: `Spec => []SomeoneMoves`, with stops too. Of the types
  that have entries, `LowestBacklog` picks one on which no other waits; its
  workers' gates are open once nobody runs anything, and a worker that waits for
  a slot waits for one who runs. `PoolsAssumption` says of the pools what
  `Manager.Start` makes of them: `Level` orders the types, each pool waits only
  for types of lower level, every type has a worker, and the AI workers serve
  nothing else.

`ThumbPipeline_proof`

- `TypeCorrect`: `Spec => []TypeOK`, through `Typed`, which adds the counters
  and that a busy worker has a real job, from Load on with a real key.
- `ReadyRowsHaveThumbs`: `Spec => []ReadyHasThumbUnlessRaced`. `ReadyInv` says
  why: as long as the row is not raced, a job that has read its row works for
  the row's present key (`KeyInv`), and one that is about to write "ready" has
  seen or renamed the file (`FileInv`). `FilesStayAtWork` and `KeysStayAtWork`
  show that no worker's step takes either away; only WriteAsset does, and it
  makes the row pending and raced.
- `ServedThumbsAreWhole`: `MaxStops = 0` implies `Spec => []ServedThumbIsWhole`.
  `StopFree` is the argument: the dedupe set covers the queue and the workers,
  so at most one worker holds an asset (`HoldersInv`, `QueueInv`); a temporary
  file belongs to the worker that renders or renames for that very asset and key
  (`TmpInv`), which has finished writing before it renames (`RenderedInv`).
  A worker between its release and its requeue holds nothing. With stops the
  first step of the argument fails, since a stop clears the dedupe set under
  running work (`ClearQueues`, see the bounds above).

`Scanner_proof`, the command loop

- `CommandsTypeCorrect`: `LoopSpec => []LoopTypeOK` (the loop's `TypeOK`; the
  names of its module carry `Loop` here because the scan run has its own),
  inductive as it stands: the channel keeps to its capacity, `active` is set
  exactly while there is a run, and the status is not idle during one.
- `LoopKeepsPromise`: `LoopSpec => KeepsPromise`, the refinement of ScanPromise.
  `InitPromises` maps the initial state, `StepPromises` maps every step (`Ask`
  stutters; sends are `Post`; `Join` and `Wait` are `Accept`; `Done` is
  `BeginOwed` or `Settle`). LoopTypeOK is all it needs of the reachable states.
  The weight lies in four lemmas: `MergeCovers` (merging never narrows what is
  covered), `EnqueuedCovers` (nor does putting a request into the list),
  `SameCovers` (equal requests visit the same places) and `CoveredByHeadTail`
  (starting the head leaves the rest owed). `PostedInbox` and `TakenInbox`
  carry the channel over to the promise. The promise counts a run that is
  being cancelled as covering; see Observations for what that leaves open.
- `NobodyIsForgotten`: `LoopSpec => []NoLostWakeUp`, inductive with LoopTypeOK.
  The loop takes up what waits only when a run ends or a start comes in. `Done`
  leaves requests waiting only during a pause, and the end of a pause owes a
  start until it is in the channel (`PostedStarts`: what is sent later does not
  displace it), where it stays until the loop takes it: then a run begins, or
  the next pause has begun. `PendingMoves` adds with fairness that it is taken.

`Scanner_proof`, the scan run

- `TypeCorrect`: `Spec => []TypeOK`.
- `HiddenRowsWereAbsent`: `Spec => []HiddenWasAbsent`. The row is hidden at the
  end of a run that began when the file was there, so the argument follows
  every file through the run: `SeenInv` says that a file of the run's snapshot
  that was never absent is still to be listed, examined or written, or has been
  seen. `AbsentInv` ties what the watchers report and what a failed write
  condemns to `lapse`, and `PhaseInv` says that marking starts when all work has
  drained (`MissingLapsed` joins the three).
- `WorkIsEnqueued`: `Spec => []OnlyStopsDropWork`, from `OwedInv`: what is owed
  stands in the run's deferred work or was dropped by a stop or a failed rebuild.
- `CleanRunsFind`: `Spec => CleanRunFindsAll`, an action property about the step
  that ends a run. `SteadyInv` (what is written of a file that stays as it is is
  its version) and `FoundInv` (in a run without error a steady file is still on
  its way, or its row is right) give it at the last step.

`VideoSegments_proof`

- `SegmentHasOneWriter`: `Spec => []OneWriter`,
- `DoneClosesOnce`: `Spec => []DoneIsClosedOnce`,
- `WaitersKeepTheirSegment`: `Spec => []WantedIsNotDoomed`, and
- `QueueNeverStuck`: `Spec => []QueueMoves`, all from `Invariant`,
  `Spec => []IInv`. The goroutine finds its runtime by key only, so
  nothing in the code ties the two together; `OwnedInv` and `BornInv` do: unless
  the entry was removed under it, the one goroutine at work is the one whose
  number the entry carries, and the entry is queued, transcoding or has its file,
  for which `ensure` starts no second one. `BusyInv` and `CachedInv` give the
  converse; `AskedInv` and `WantedInv` tie a waiting request to its session's
  entry, which a stop of another session leaves alone. Steps that leave the
  goroutines alone go through the lemma `EntriesMove`, steps of one goroutine
  through `RunMoves`, and those that make nobody wait through `AskedKeeps` and
  `WantedKeeps`. The queue needs `QueueInv`: who waits for a slot has a queued
  entry that only itself has claimed (`TurnInv`), slots belong to who transcodes
  or is about to give the slot back (`SlotsInv`), and the queued segments stand
  in one line (`LineInv`). From these `QueueHasHead` finds the head.

`VideoProxy_proof`

- `BusyRuntimesRun`: `Spec => []BusyHasRun`,
- `FinishedProxiesAreWhole`: `Spec => []ProxyIsWhole`, and
- `DoneIsClosedOnce`: `Spec => []DoneClosesOnce`. The proxies share the pattern
  of the segments (`OwnedInv`, `BusyInv`), with one temporary path for all
  attempts at a key: `TmpInv` says that it is empty or the worker's own from the
  moment the old file is removed. `StatusInv` ties the status of the asset, which
  all start positions share, to a goroutine between its two updates.
  The proof required that `undercut` outlives a restart for a key whose file is
  in the cache: a torn file made before the restart is served after it.

`AIPipeline_proof`

- `WorkIsHeld`: `Spec => []ProcessingIsHeld`. The row and the staged input of an
  asset are in processing because of different workers at different moments:
  `RowHeld` and `StageHeld` name who reports on each, `IdleInv` says that a
  worker that waits holds neither. `Handled(x)` states once what a step of
  worker x may do to rows, stages and tasks, and each step is shown to be one.
- `ResultsMatchInput`: `Spec => []ReadyMatchesInput`, which is inductive with the
  types: a result is saved only if the row still carries the key the frames
  were made for, in one statement (`SaveResultHandled`).
- `AnalysisHaltedByOwner`: `Spec => OnlyStopHaltsOthers`, an action property,
  from `SlotInv`: between acquiring and releasing, a node belongs to one
  handler, so the pause it sends on giving way reaches its own analysis.

`MediaCache_proof`

- `SourceReadsTakeTurns`: `Spec => []OneSourceRead`. `LineInv` has the whole
  protocol of the scheduler: one holder, who needs it, the others waiting each
  once, and nobody waiting while it is free. `RemoveAtDistinct` and
  `AppendDistinct` carry it over the waiting list, from whose middle a reader
  may leave.
- `FinishedFilesAreWhole`: `Spec => []FinalIsWhole`. Partial outputs have fixed
  names, so `FilesInv` gives each one writer, who is at work: a reader because
  of `LineInv`, the leader of a preview because its call runs (`CallInv`), the
  audio proxy because it starts again only after its goroutine ended
  (`AudioInv`).
- `PinsHold`: `Spec => PinnedFileStays`, an action property.
- `CacheStaysNearLimit`: `Spec => []OvershootIsBounded`. A reservation looks at
  what is on the disk and not at what others have reserved, so the invariant
  `RoomInv` counts: what is used and what the reader, the preview and the audio
  proxy at work may still add stays below the limit plus the sizes of two of
  them, for the last to reserve found room for itself (`RoomReserved`). A step
  frees room, keeps it, spends what was reserved for it, or reserves, and
  `RoomKept` is shown for every step. In working it out the bound was found to
  depend on equal sizes: the preview and the audio proxy are not always the two
  that go beyond, so `Overshoots` names the pairs of classes. The bytes of a
  set of paths are a fold, which is defined by recursion over finite sets; the
  lemmas on sums (`SumSplit`, `SumLoses`, ...) are proved by looking at a
  smallest set without the property, since the provers cannot use the
  library's induction theorems.

`Maintenance_proof`, over the composed module

- `TypeCorrect`: `Spec => []TypeOK`, and with it the properties of the three
  parts, from `IInv == TasksInv /\ DeletionInv /\ ListsInv`. Each part has its
  steps (`WorkSteps`, ..., `DeleteSteps`, `ListSteps`), and a step of one part
  leaves the others alone or shares what `RootStays` and `SharedSteps` name: the
  storage, a restart, the scan, the emptying of tables.
- `RecordsTellTheTruth`: `Spec => []RunningIsRecorded`. `RecordsInv` and
  `CleanupInv` say where between its two writes each goroutine is.
- `ResetFindsQuiet`: `Spec => []ResetIsQuiet`. `CutInv` follows what the reset
  found at work: it is at work still or has been struck off.
- `OnlyShownFilesGo`, `OtherMediaStay`: `Spec => []DeletesOnlyShown` and
  `Spec => []OnlyNamedMediaGoes`. `ChoiceInv` states both of what is still to be
  removed as well; `PlanFacts` is the reason: a whole folder is taken only when
  no other medium is in or below it, else the files that share the name.
- `PurgeFollowsAbsence`: `Spec => []PurgedWasGone`. Rows are purged by id:
  `IdInv` says that ids are unique and below the next one, `AbsentInv` that a
  deletion has noted what was absent since it began, `PurgeInv` that the ids it
  will purge belong to those.
- `RefreshKeepsFolders`: `Spec => []FoldersStay`. `FoldersInv` adds what the
  refresh has yet to drop and the scan has yet to add.
- `ACopyIsKept`: `Spec => []SelectionKeepsOne`. `HashInv` says that a stored hash
  is that of the file unless the row changed meanwhile; `Oldest` finds the copy
  that is kept, by a least pair of time and id.

- `SwipingFollowsList`: `Spec => []NeighboursFollowList`. The statement is about
  each shelf of rows and each view by itself, so beside types no step matters;
  the work is in the orders. All keys of one list have the same length and end
  with the id, so they compare as a total order without ties (`KeyOrder`), and
  the sequence by row numbers is the one that increases (`OrderedList`,
  `OneList`). The part of a list behind a row, and the part before it read
  backwards, are the lists of the rows beyond it (`ListAfter`, `ListBefore`);
  `KeysetFollows` shows that the conditions on columns in the SQL say exactly
  "later in that order", and "earlier" with all comparisons turned round.
- `EveryWayLeadsThere`: `Spec => []PlacesAgree`. `PageIs` says what a page
  holds, although one row more than a page is fetched and cut off; `RowOnPage`
  is the position, `PagesCover` the reading to the end, shown at the smallest
  page where it could go wrong. Groups: rows between two rows whose keys begin
  alike begin alike (`LessBetween`, `Together`); `SizeLabels` shows that the
  labels made in Go tell the groups made in SQL apart, whatever the thresholds;
  `ScaleFacts` gives the rounding of the uniform scale at both ends.

  Both rest on `ListsAssumption`: finitely many rows and thresholds, pages of
  at least one row, a scale of at least two anchors, and names whose first
  letters follow the order of the names unless they are digits.

All safety invariants the runs check are stated by these theorems.

Only model-checked:

- Liveness: `Drains`, both `Settles`, `Rests`, `PendingMoves`.
  Fairness and ENABLED are outside the prover's reach.
- What the recursive definitions elsewhere compute, where no lemma says so.

## Observations

Places where, following the code, a model reaches a state that a reader of the
code may not expect. The properties above are stated so that they hold of the
code as it is; these notes say what they leave open.

Queue, thumbnails, scanner commands

- The promote script matches type and asset id, and control tasks have none
  (jobs.go:76): with scans of A and B queued, asking urgently for B again
  removes A's entry and leaves A's dedupe key behind.
- The first cancel cause wins, and preempted work is enqueued again without a
  look at the generation that a stop has moved (jobs.go:940).
- `setReady` writes by asset id (thumb.go:750, db/assets.go:1137): when a scan
  re-keyed the row meanwhile, the new version is marked ready and nothing will
  render it until a request misses the file.
- The supervisor's sweep starts stopped work again within ten seconds
  (main.go:227), and starts a failing image over with attempt 0 before its
  delayed retry fires, so an image that always fails never rests.
- A start that equals a run being stopped is joined to it and never runs
  (scanner.go:362).

Scan runs and storage

- A file that was removed and comes back stays hidden: its missing row is not
  in the view the scanner looks up, and UNIQUE refuses the insert
  (assets.go:249).
- A failing stat or folder write, an unmounted root that looks like an empty
  directory, and a removal event of the NAS watcher each mark existing files as
  missing, the first two even in a run that recorded errors. `HiddenWasAbsent`
  counts such files as lapsed.
- A paused media scan drops its deferred work; a count stores a partial result
  when a root fails; one unreadable sampled file keeps its root unavailable.

AI

- `fail` with a cancelled context leaves the row in processing until the next
  start. A debug pause during backfill preparation marks the item failed. A key
  that went stale in the backfill batch can reset a newer ready row.
- Failed attempts may pass `AIMaxAttempts` through backfill failures; a
  cancellation while waiting for a healthy node drops the task.

Video, audio, cache

- Deleting an asset, removing a library's caches and a late sweep take runtimes
  and files away under running goroutines; these then find a successor by key
  and may close its Done a second time, or rename a file of another run
  (`undercut`).
- The audio proxy stays "ready" when the cache policy has evicted its file and
  is not started again (audio_proxy.go:122-128).
- Between the unpin at the end of a copy and the pin of its reader a chunk can
  be evicted; the reader then fails. Originals and previews are not pinned
  while they are written. A slow client of an original holds the scheduler.
- Requests that join a preview receive the cancellation of its first caller.
- A live reader of a video proxy may miss the tail of the file; a debug pause
  turns a running transcode into an error.

Tasks, deletion, lists

- Emptying the tables restarts the ids, so a deletion or refresh in flight can
  hit a new row; work enqueued between the wait and the truncation survives;
  storyboards, video and audio work are not waited for.
- A batch deletion purges the records of files on a root that is briefly
  unavailable. An unmount in mid-delete counts as success.
- Clearing the library marks rows deleted and missing and never purges them;
  adding the library again meets the UNIQUE constraint.
- A storage check whose client disconnects leaves its record running, and after
  a crash the cleanup shows running until its next run.
- The fast neighbour query (assets.go:1461) has no filter on hidden rows and is
  used in spite of tag nodes (1428): swiping in a list that is sorted by size
  reaches rows the list does not show. `NeighboursFollowList` is stated against
  what that query searches.
- The anchors of the duplicates collection follow the plain order while its list
  has an order of its own. A hash is stored by id whatever became of the row
  since it was read (`tainted`). Pages by OFFSET shift when rows change.
- Names are compared with digits as numbers (migration 026, collation
  `lpicto_natural_numeric`), but the label of an anchor is the first digit
  (filename_sort.go:335). In a list by name without groups the rows of one
  label may be parted (1, 2, 10), and the scroll bar then offers only the first
  of them (assets.go:631). `PlacesAgree` leaves these labels out (`Numerals`).

## Not modelled

The in-memory mode of the job manager (tests only), counters and health
statistics, poster and storyboard handlers as items of their own, the
extraction and parsing of metadata, AI prefetching, the order of nodes and
their unhealthy minute, tag editing, the AI node monitor, byte ranges and
ffmpeg's arguments, progress and estimates, the scan status store in Redis,
and the components marked `not_modelled` in `PROJECT.json` with their reasons.
Pins are those of one process. Time is abstract everywhere: a delay, a lease or
an age is an action or a choice that may happen at any later moment.
