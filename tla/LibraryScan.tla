----------------------------- MODULE LibraryScan -----------------------------
(***************************************************************************)
(* What a scan run does to the library (Scanner.run and what it calls in   *)
(* scanner.go, the asset rows of db/assets.go), the storage health it asks *)
(* first (storage/source_health.go) and the two watchers that feed it:     *)
(* the process's own (scanner/watcher.go) and the one on the NAS           *)
(* (nas-watcher/main.go, received by api/nas_watcher.go).                  *)
(*                                                                         *)
(* A path has at most one file_instance row: UNIQUE(library_id, rel_path). *)
(* Every lookup goes through the view assets, which leaves out a row with  *)
(* missing = true, whatever became of its media_asset row.                 *)
(*                                                                         *)
(* A file's version stands for its size and modification time.  The        *)
(* directories under a root are read in one step; the names found there    *)
(* are examined later, one by one, by the workers.                         *)
(***************************************************************************)
EXTENDS Naturals, FiniteSets

CONSTANTS
    Root,           \* scan roots
    Path,           \* media files that may exist
    RootOf,         \* the root of a path
    Direct,         \* files that lie directly in their root
    MaxVersion,     \* bound: versions of a file
    MaxChanges,     \* bound: changes on disk
    MaxRuns,        \* bound: scan runs
    MaxMishaps      \* bound: outages of a root; single reads, writes or calls that
                    \* fail; restarts, stops, purges and lost file events

ASSUME ScanAssumption ==
    /\ RootOf \in [Path -> Root]
    /\ Direct \subseteq Path
    /\ MaxVersion \in Nat \ {0}
    /\ MaxChanges \in Nat /\ MaxRuns \in Nat /\ MaxMishaps \in Nat

VARIABLES
    disk,       \* version of each file, 0 when it does not exist
    up,         \* roots that can be read
    entry,      \* SourceHealth.entries: what the process found less than a TTL ago
    mark,       \* roots with an unavailable mark in Redis
    row,        \* none, live, missing or deleted
    ver,        \* size_bytes and file_mtime of the row
    run,        \* the run in progress and its scanState
    owed,       \* rows added or updated whose work was not enqueued
    asked,      \* requests waiting for a run: roots, nested roots, paths
    cand,       \* nas-watcher: files that must stay unchanged for a while
    outbound,   \* nas-watcher: event waiting for each path
    recover,    \* nas-watcher: roots whose recovery scan is wanted
    gone,       \* removals the process's own watcher has still to handle
    lapse,      \* history: files that were once absent or could not be read or written
    lost,       \* history: rows whose work a stopped run or failed rebuild dropped
    left        \* what the bounds leave

source == <<disk, up>>
health == <<entry, mark>>
rows == <<row, ver>>
watch == <<cand, outbound, recover, gone>>
vars == <<source, health, rows, run, owed, asked, watch, lapse, lost, left>>

NoRun == [kind |-> "none", roots |-> {}, phase |-> "idle", todo |-> {}, entries |-> {},
          condemned |-> {}, writes |-> {}, seen |-> {}, before |-> {}, failed |-> {},
          errs |-> FALSE, deferred |-> {}, steady |-> {}]

Files(R) == {p \in Path : RootOf[p] \in R}
Live == {p \in Path : row[p] = "live"}
Present == {p \in Path : disk[p] # 0}
Readable == {p \in Present : RootOf[p] \in up}
Running == run # NoRun
Spend(what) == left[what] > 0 /\ left' = [left EXCEPT ![what] = @ - 1]
Unless(free, what) == IF free THEN UNCHANGED left ELSE Spend(what)

TypeOK ==
    /\ disk \in [Path -> 0..MaxVersion] /\ up \subseteq Root
    /\ entry \in [Root -> {"none", "up", "down"}] /\ mark \subseteq Root
    /\ row \in [Path -> {"none", "live", "missing", "deleted"}]
    /\ ver \in [Path -> 0..MaxVersion]
    /\ run.kind \in {"none", "media", "metadata", "nested", "paths", "reconcile"}
    /\ run.phase \in {"idle", "walk", "mark", "finish"}
    /\ run.todo \subseteq Root \cup Path /\ run.roots \cup run.failed \subseteq Root
    /\ run.entries \cup run.condemned \cup run.seen \cup run.before \subseteq Path
    /\ run.writes \subseteq Path \X (1..MaxVersion) /\ run.errs \in BOOLEAN
    /\ asked \in [roots : SUBSET Root, nested : SUBSET Root, paths : SUBSET Path]
    /\ outbound \in [Path -> {"none", "upsert", "remove"}] /\ recover \subseteq Root
    /\ cand \cup gone \cup owed \cup lapse \cup lost \subseteq Path
    /\ left \in [changes : 0..MaxChanges, runs : 0..MaxRuns, mishaps : 0..MaxMishaps]

\* A request for paths may be older than the process; its files have gone again.
Init ==
    /\ disk \in [Path -> {0, 1}] /\ up = Root
    /\ entry = [r \in Root |-> "none"] /\ mark = {}
    /\ row = [p \in Path |-> IF disk[p] = 0 THEN "none" ELSE "live"] /\ ver = disk
    /\ run = NoRun /\ owed = {}
    /\ asked \in [roots : {{}}, nested : {{}}, paths : {{}, Path \ Present}]
    /\ cand = {} /\ outbound = [p \in Path |-> "none"] /\ recover = {} /\ gone = {}
    /\ lapse = Path \ Present /\ lost = {}
    /\ left = [changes |-> MaxChanges, runs |-> MaxRuns, mishaps |-> MaxMishaps]

(***************************************************************************)
(* Storage health.                                                         *)
(***************************************************************************)
\* AvailableRoot: the mark in Redis first, then an entry that has not expired,
\* then a probe of the directory, and of a file that lately failed: a probe may
\* fail although the directory can be read.
Looked(r, flaky) ==
    IF r \in mark THEN "down"
    ELSE IF entry[r] # "none" THEN entry[r]
    ELSE IF r \in up /\ ~flaky THEN "up" ELSE "down"

\* MarkUnavailableForRel, RecordSourceError: the entry and the mark in Redis.
MarkDown(r) ==
    /\ entry' = [entry EXCEPT ![r] = "down"]
    /\ mark' = mark \cup {r}

\* A thumbnail worker, the AI processor or a request for the original cannot
\* read a file of an unreachable root (RecordSourceError,
\* AssetReadErrorIsSourceUnavailable, ProbeAsset).
ReadFails(r) ==
    /\ r \notin up /\ Files({r}) \cap Live # {} /\ r \notin mark
    /\ MarkDown(r)
    /\ UNCHANGED <<source, rows, run, owed, asked, watch, lapse, lost, left>>

\* Fifteen seconds pass for the entry, forty-five for the mark.
Expire(r) ==
    /\ \/ entry[r] # "none" /\ entry' = [entry EXCEPT ![r] = "none"] /\ UNCHANGED mark
       \/ r \in mark /\ mark' = mark \ {r} /\ UNCHANGED entry
    /\ UNCHANGED <<source, rows, run, owed, asked, watch, lapse, lost, left>>

(***************************************************************************)
(* The disk and the storage, outside the program.                          *)
(***************************************************************************)
\* What the watchers make of an event.  The NAS watcher (handleEvent) ignores
\* files directly in the root, lets a file that appears or changes wait until
\* it is stable and queues a removal at once; an event lost to an overflow makes
\* it ask for a recovery scan of every root.  The process's own watcher, if it
\* runs, asks for a scan of the path or keeps the removal to handle.
Notice(p, heard, local) ==
    /\ IF ~heard THEN recover' = Root /\ UNCHANGED <<cand, outbound>>
       ELSE IF p \in Direct THEN UNCHANGED <<cand, outbound, recover>>
       ELSE /\ cand' = IF disk'[p] = 0 THEN cand \ {p} ELSE cand \cup {p}
            /\ outbound' = IF disk'[p] = 0 THEN [outbound EXCEPT ![p] = "remove"] ELSE outbound
            /\ UNCHANGED recover
    /\ gone' = IF local /\ disk'[p] = 0 THEN gone \cup {p} ELSE gone
    /\ asked' = IF local /\ disk'[p] # 0 THEN [asked EXCEPT !.paths = @ \cup {p}] ELSE asked

\* A run's steady files are those that could be read, unchanged, since it began.
Unsteady(P) == run' = [run EXCEPT !.steady = @ \ P]

DiskChanges(p) ==
    /\ left.changes > 0
    /\ \E v \in {0, MaxVersion, disk[p] + 1} \cap (0..MaxVersion) :
        v # disk[p] /\ disk' = [disk EXCEPT ![p] = v]
    /\ \E heard, local \in BOOLEAN :
        /\ heard \/ left.mishaps > 0
        /\ Notice(p, heard, local)
        /\ left' = [left EXCEPT !.changes = @ - 1, !.mishaps = IF heard THEN @ ELSE @ - 1]
    /\ Unsteady({p})
    /\ lapse' = IF disk'[p] = 0 THEN lapse \cup {p} ELSE lapse
    /\ UNCHANGED <<up, health, rows, owed, lost>>

Outage(r) ==
    /\ r \in up /\ Spend("mishaps") /\ up' = up \ {r} /\ Unsteady(Files({r}))
    /\ UNCHANGED <<disk, health, rows, owed, asked, watch, lapse, lost>>

Returns(r) ==
    /\ r \notin up /\ up' = up \cup {r}
    /\ UNCHANGED <<disk, health, rows, run, owed, asked, watch, lapse, lost, left>>

(***************************************************************************)
(* The scan run.  One runs at a time (ScanCommand).                        *)
(***************************************************************************)
\* Visits whole roots, rather than given paths or the rows there are.
Walks == run.kind \in {"media", "metadata", "nested"}
\* task == media_scan: work is enqueued when the run has finished.
Defers == run.kind \in {"media", "nested"}

\* run up to the dispatch: a root the health check reports unavailable ends it
\* as "skipped"; otherwise dispatched says what becomes of it.
Begin(R, dispatched) ==
    /\ ~Running
    /\ \E flaky \in BOOLEAN :
        LET look == [r \in Root |-> IF r \in R THEN Looked(r, flaky) ELSE entry[r]] IN
        /\ left.runs > 0 /\ (flaky => left.mishaps > 0)
        /\ entry' = look
        /\ left' = [left EXCEPT !.runs = @ - 1, !.mishaps = IF flaky THEN @ - 1 ELSE @]
        /\ run' = IF \E r \in R : look[r] = "down" THEN NoRun ELSE dispatched

\* A run that visits; activeBefore is read before any directory.
BeginVisit(kind, R, todo) ==
    /\ Begin(R, [NoRun EXCEPT !.kind = kind, !.roots = R, !.phase = "walk", !.todo = todo,
                              !.before = Live \cap Files(R), !.steady = Readable \cap Files(R)])
    /\ UNCHANGED <<source, mark, rows, owed, watch, lapse, lost>>

\* A user, a schedule or a count that differed asks for whole roots.
BeginWholeRun ==
    \E R \in SUBSET Root \ {{}} :
        /\ \/ BeginVisit("reconcile", R, Live \cap Files(R))
           \/ \E kind \in {"media", "metadata"} : BeginVisit(kind, R, R)
        /\ UNCHANGED asked

\* The queue's merged automatic requests.
BeginAskedRun ==
    \/ /\ asked.nested # {} /\ BeginVisit("nested", asked.nested, asked.nested)
       /\ asked' = [asked EXCEPT !.nested = {}]
    \/ /\ asked.roots # {} /\ BeginVisit("media", asked.roots, asked.roots)
       /\ asked' = [asked EXCEPT !.roots = {}]
    \/ /\ asked.paths # {} /\ BeginVisit("paths", {RootOf[p] : p \in asked.paths}, asked.paths)
       /\ asked' = [asked EXCEPT !.paths = {}]

\* runCount: the number of files found is stored even when a root failed; one
\* that differs from the last asks for a media scan.
CountRun ==
    \E R \in SUBSET Root \ {{}} :
        /\ Begin(R, NoRun)
        /\ asked' \in {asked, [asked EXCEPT !.roots = @ \cup R]}
        /\ asked' # asked => \A r \in R : entry'[r] = "up"
        /\ UNCHANGED <<source, mark, rows, owed, watch, lapse, lost>>

\* runThumbnailRebuild and runThumbnailContinue: the work of the roots' rows is
\* reset (or not), then enqueued; the second may fail.
RebuildRun ==
    \E R \in SUBSET Root \ {{}} :
        /\ Begin(R, NoRun)
        /\ LET work == Live \cap Files(R) IN
           \/ owed' = owed \ work /\ UNCHANGED lost
           \/ left.mishaps > 0 /\ owed' = owed \cup work /\ lost' = lost \cup work
        /\ owed' # owed => \A r \in R : entry'[r] = "up"
        /\ UNCHANGED <<source, mark, rows, asked, watch, lapse>>

\* walkRoot and walkNestedRoot of one root: the names found, all of them or,
\* after a read error, some.  An error gives the root up and marks it
\* unavailable.
WalkRoot(r) ==
    /\ run.phase = "walk" /\ Walks /\ r \in run.todo
    /\ LET there == {p \in Present \cap Files({r}) : run.kind = "nested" => p \notin Direct} IN
       \/ /\ r \in up /\ UNCHANGED <<health, left>>
          /\ run' = [run EXCEPT !.todo = @ \ {r}, !.entries = @ \cup there]
       \/ /\ Unless(r \notin up, "mishaps") /\ MarkDown(r)
          /\ \E some \in SUBSET there :
              run' = [run EXCEPT !.todo = @ \ {r}, !.entries = @ \cup some,
                                 !.failed = @ \cup {r}, !.errs = TRUE]
    /\ UNCHANGED <<source, rows, owed, asked, watch, lapse, lost>>

\* submitRelPath: an absent file is about to be marked deleted, an unreadable
\* one is an error, the others are examined.
SubmitPath(p) ==
    /\ run.phase = "walk" /\ run.kind = "paths" /\ p \in run.todo
    /\ run' = LET rest == [run EXCEPT !.todo = @ \ {p}] IN
              IF RootOf[p] \notin up THEN [rest EXCEPT !.errs = TRUE]
              ELSE IF disk[p] = 0 THEN [rest EXCEPT !.condemned = @ \cup {p}]
              ELSE [rest EXCEPT !.entries = @ \cup {p}]
    /\ UNCHANGED <<source, health, rows, owed, asked, watch, lapse, lost, left>>

\* MarkDeletedWithCache and the removal of the row's cached files.
DeleteAbsent(p) ==
    /\ p \in run.condemned
    /\ run' = [run EXCEPT !.condemned = @ \ {p}, !.steady = @ \ {p}]
    /\ row' = IF row[p] = "live" THEN [row EXCEPT ![p] = "deleted"] ELSE row
    /\ UNCHANGED <<source, health, ver, owed, asked, watch, lapse, lost, left>>

\* A read or a write that fails leaves an error and the file unseen.
FailsOn(p, rest) ==
    /\ run' = [rest EXCEPT !.errs = TRUE, !.steady = @ \ {p}]
    /\ lapse' = lapse \cup {p}

\* os.IsNotExist of the worker's own stat.
Vanished(p) == disk[p] = 0

\* The walker's entry.Info and the worker's processFile, up to the writer's
\* channel.  A file that vanished is dropped, one that cannot be read is an
\* error; neither is seen.  An unchanged row is seen at once and, unless the
\* run defers its work, unfinished work is enqueued.  Otherwise the metadata
\* is extracted (a failure to is recorded in the row) and the row written.
Examine(p) ==
    /\ p \in run.entries
    /\ LET rest == [run EXCEPT !.entries = @ \ {p}] IN
       \/ Unless(RootOf[p] \notin up, "mishaps") /\ FailsOn(p, rest) /\ UNCHANGED owed
       \/ /\ RootOf[p] \in up /\ UNCHANGED <<lapse, left>>
          /\ IF Vanished(p)
             THEN run' \in {rest, [rest EXCEPT !.errs = TRUE]} /\ UNCHANGED owed
             ELSE IF row[p] = "live" /\ ver[p] = disk[p] /\ run.kind # "paths"
             THEN /\ run' = [rest EXCEPT !.seen = @ \cup {p}]
                  /\ owed' = IF Defers THEN owed ELSE owed \ {p}
             ELSE run' = [rest EXCEPT !.writes = @ \cup {<<p, disk[p]>>}] /\ UNCHANGED owed
    /\ UNCHANGED <<source, health, rows, asked, watch, lost>>

\* writeAsset by the one writer, and UpsertAssetDetailed.  A path without a
\* visible row is inserted, which the unique constraint refuses while a hidden
\* row has the path.  A failure before markSeen leaves the file unseen, one in
\* the upsert does not.
Write(p, v) ==
    /\ <<p, v>> \in run.writes
    /\ LET rest == [run EXCEPT !.writes = @ \ {<<p, v>>}]
           saw == [rest EXCEPT !.seen = @ \cup {p}]
           changed == row[p] = "none" \/ (row[p] = "live" /\ ver[p] # v)
       IN
       \/ Spend("mishaps") /\ (FailsOn(p, rest) \/ FailsOn(p, saw)) /\ UNCHANGED <<rows, owed>>
       \/ /\ row[p] \in {"missing", "deleted"}
          /\ run' = [saw EXCEPT !.errs = TRUE]
          /\ UNCHANGED <<rows, owed, lapse, left>>
       \/ /\ row[p] \in {"none", "live"}
          /\ row' = [row EXCEPT ![p] = "live"] /\ ver' = [ver EXCEPT ![p] = v]
          /\ run' = IF changed /\ Defers THEN [saw EXCEPT !.deferred = @ \cup {p}] ELSE saw
          /\ owed' = IF ~Defers THEN owed \ {p} ELSE IF changed THEN owed \cup {p} ELSE owed
          /\ UNCHANGED <<lapse, left>>
    /\ UNCHANGED <<source, health, asked, watch, lost>>

\* runReconcile looks at every live row's file; a read error other than "does
\* not exist" ends the run without marking anything.
LookUp(p) ==
    /\ run.phase = "walk" /\ run.kind = "reconcile" /\ p \in run.todo
    /\ \/ /\ RootOf[p] \in up /\ UNCHANGED <<health, left>>
          /\ run' = [run EXCEPT !.todo = @ \ {p}, !.seen = IF disk[p] = 0 THEN @ ELSE @ \cup {p}]
       \/ Unless(RootOf[p] \notin up, "mishaps") /\ run' = NoRun /\ MarkDown(RootOf[p])
    /\ UNCHANGED <<source, rows, owed, asked, watch, lapse, lost>>

\* Mutant: the workers' channel is closed but nobody waits for the writer.
Submitted == run.todo = {} /\ run.entries = {} /\ run.condemned = {}
\* state.finish returns when the workers and the writer are done.
Drained == run.todo = {} /\ run.entries = {} /\ run.condemned = {} /\ run.writes = {}

DrainRun ==
    /\ run.phase = "walk" /\ Drained
    /\ run' = [run EXCEPT !.phase = IF run.kind = "paths" THEN "finish" ELSE "mark"]
    /\ UNCHANGED <<source, health, rows, owed, asked, watch, lapse, lost, left>>

\* Mutant: the files of a root whose walk failed count as missing.
UnseenPaths == run.before \ run.seen
\* The rows of the snapshot that the run did not see, but for those under a
\* root it gave up and, in a nested run, files directly in a root.
MissingPaths ==
    {p \in run.before \ run.seen : /\ RootOf[p] \notin run.failed
                                   /\ run.kind = "nested" => p \notin Direct}

\* Rows that are visible become hidden; nothing looks at the disk
\* (MarkMissingRelPaths, MarkMissingUnder, MarkDeletedUnder).
Hidden(P, state) == [p \in Path |-> IF p \in P /\ row[p] = "live" THEN state ELSE row[p]]

MarkMissing ==
    /\ run.phase = "mark"
    /\ \/ /\ row' = Hidden(MissingPaths, "missing")
          /\ run' = [run EXCEPT !.phase = "finish"] /\ UNCHANGED left
       \/ /\ MissingPaths # {} /\ Spend("mishaps")
          /\ run' = [run EXCEPT !.phase = "finish", !.errs = TRUE] /\ UNCHANGED row
    /\ UNCHANGED <<source, health, ver, owed, asked, watch, lapse, lost>>

\* Mutant: the deferred work is forgotten.
FinishesOnly ==
    /\ run.phase = "finish" /\ run' = NoRun
    /\ UNCHANGED <<source, health, rows, owed, asked, watch, lapse, lost, left>>
\* FinishScanRun, then the deferred work.
FinishRun ==
    /\ run.phase = "finish" /\ run' = NoRun /\ owed' = owed \ run.deferred
    /\ UNCHANGED <<source, health, rows, asked, watch, lapse, lost, left>>

\* The run's context is cancelled (finishPaused) or the process restarts
\* (MarkInterruptedScanRuns): what was not written is dropped, and so is the
\* deferred work.
StopRun ==
    /\ Running /\ Spend("mishaps") /\ run' = NoRun /\ lost' = lost \cup run.deferred
    /\ UNCHANGED <<source, health, rows, owed, asked, watch, lapse>>

\* The task supervisor enqueues the unfinished work it finds.
Supervise ==
    /\ owed # {} /\ ~Running /\ owed' = {} /\ lost' = {}
    /\ UNCHANGED <<source, health, rows, run, asked, watch, lapse, left>>

(***************************************************************************)
(* The watchers' events and the user.                                      *)
(***************************************************************************)
\* handleRemovedPath of the process's own watcher, if the root is available; the
\* count it then asks for is a CountRun.
LocalRemoved(p) ==
    /\ p \in gone /\ gone' = gone \ {p}
    /\ LET look == Looked(RootOf[p], FALSE) IN
       /\ entry' = [entry EXCEPT ![RootOf[p]] = look]
       /\ row' = IF look = "down" THEN row ELSE Hidden({p}, "deleted")
    /\ Unsteady({p})
    /\ UNCHANGED <<source, mark, ver, owed, asked, cand, outbound, recover, lapse, lost, left>>

\* promoteStableFiles: the file has not changed for STABLE_SECONDS.
Promote(p) ==
    /\ p \in cand /\ cand' = cand \ {p}
    /\ outbound' = [outbound EXCEPT ![p] = IF disk[p] = 0 THEN "remove" ELSE "upsert"]
    /\ UNCHANGED <<source, health, rows, run, owed, asked, recover, gone, lapse, lost, left>>

\* flush, and nasWatcherEvents on the other side: removals first, then the
\* recovery scans and the exact paths are asked of the scanner.  Events leave
\* the queue when the answer is 2xx; after an error or a lost answer all of them
\* are sent again.
Flush ==
    LET Queued(op) == {p \in Path : outbound[p] = op}
        nested == [asked EXCEPT !.nested = @ \cup recover]
        all == [nested EXCEPT !.paths = @ \cup Queued("upsert")]
    IN  /\ Queued("remove") \cup Queued("upsert") \cup recover # {}
        /\ row' = Hidden(Queued("remove"), "missing") /\ Unsteady(Queued("remove"))
        /\ \/ /\ asked' = all /\ outbound' = [p \in Path |-> "none"] /\ recover' = {}
              /\ UNCHANGED left
           \/ Spend("mishaps") /\ asked' \in {asked, nested, all} /\ UNCHANGED <<outbound, recover>>
        /\ UNCHANGED <<source, health, ver, owed, cand, gone, lapse, lost>>

\* The NAS container restarts: installInitialWatches asks for every root.
WatcherRestarts ==
    /\ Spend("mishaps")
    /\ cand' = {} /\ outbound' = [p \in Path |-> "none"] /\ recover' = Root
    /\ UNCHANGED <<source, health, rows, run, owed, asked, gone, lapse, lost>>

\* deleteAssetRecord: the row goes, the file stays.
Purge(p) ==
    /\ row[p] # "none" /\ Spend("mishaps")
    /\ row' = [row EXCEPT ![p] = "none"] /\ ver' = [ver EXCEPT ![p] = 0]
    /\ owed' = owed \ {p} /\ Unsteady({p})
    /\ UNCHANGED <<source, health, asked, watch, lapse, lost>>

Visits ==
    \/ \E r \in Root : WalkRoot(r)
    \/ \E p \in Path : SubmitPath(p) \/ DeleteAbsent(p) \/ Examine(p) \/ LookUp(p)
    \/ \E p \in Path, v \in 1..MaxVersion : Write(p, v)
    \/ DrainRun \/ MarkMissing \/ FinishRun \/ StopRun

Next ==
    \/ \E r \in Root : ReadFails(r) \/ Expire(r) \/ Outage(r) \/ Returns(r)
    \/ \E p \in Path : DiskChanges(p) \/ LocalRemoved(p) \/ Promote(p) \/ Purge(p)
    \/ BeginWholeRun \/ BeginAskedRun \/ CountRun \/ RebuildRun \/ Visits
    \/ Supervise \/ Flush \/ WatcherRestarts

Spec == Init /\ [][Next]_vars

(***************************************************************************)
(* Properties.                                                             *)
(***************************************************************************)
\* No scan, watcher event or outage of a storage root hides the row of a file
\* that was there all along and whose own read and write never failed
\* (scanner.go 677-867, failedRoots; runReconcile; nas_watcher.go 180-196).
HiddenWasAbsent == \A p \in Path : row[p] \in {"missing", "deleted"} => p \in lapse

\* When no run is in progress, the thumbnail, preview, storyboard and AI work of
\* every row a scan added or changed has been enqueued, except what a stopped
\* run or a failed rebuild dropped (scanner.go 1948-1973, 855-863).
OnlyStopsDropWork == ~Running => owed \subseteq lost

\* A file the run has reason to find: it could be read, unchanged, while the run
\* was in progress, and nobody took its row away.
Expected == {p \in run.steady : /\ run.kind = "nested" => p \notin Direct
                                /\ run.kind = "paths" => p \in run.seen}
Finds == \A p \in Expected : row[p] = "live" /\ ver[p] = disk[p]
Finishes == run.phase = "finish" /\ FinishRun /\ run.kind # "reconcile"

\* A run that finishes without error leaves a visible row of the right version
\* for every file it had reason to find (scanner.go 805-867).
CleanRunFindsAll == [][Finishes /\ ~run.errs => Finds]_vars

===============================================================================
