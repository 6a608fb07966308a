----------------------------- MODULE SystemTasks -----------------------------
(***************************************************************************)
(* The system tasks an administrator sees and runs (api/task_operations.go,*)
(* api/system_tasks.go): work of each media kind, the AI analysis, the     *)
(* duplicate scan, the cache cleanup, the storage check and the reset of   *)
(* the media library (api/media_library_reset.go), with the records they   *)
(* leave in system_task_state (db/system_tasks.go).                        *)
(*                                                                         *)
(* The queue and its workers are those of JobQueue and ThumbPipeline: here *)
(* every kind has one item, and of the queue only what Stats() tells.  The *)
(* scanner is reduced to idle, running and stopping (see ScanCommand).     *)
(***************************************************************************)
EXTENDS Naturals

CONSTANTS
    Kind,                   \* kinds of queued media work, "ai_analyze" among them
    Waited,                 \* those the reset of the library waits for
    MaxAutomaticRetries,    \* jobs.MaxAutomaticRetries
    Budget                  \* bound: requests, changes, failing calls, restarts

VARIABLES
    root,       \* the storage: up, gone (not mounted) or failing (every call fails)
    work,       \* the item of each kind: its row, whether it is queued and worked on
    scan,       \* idle, runs or stopping
    rec,        \* status in system_task_state
    ai,         \* the settings AutoAnalyze and ManualRun
    dup,        \* the duplicate scan
    sched,      \* the goroutine that starts duplicate scans by itself
    unhashed,   \* some file of a size that occurs twice has no hash
    clean,      \* the cleanup that holds cleanupStatus.Running
    check,      \* the storage checks: of a request and of the clock's goroutine
    reset,      \* the reset of the library
    cut,        \* history: what was at work when the reset stopped everything
    crashed,    \* history: the process was restarted
    left        \* what the bound leaves

memory == <<scan, dup, sched, clean, check, reset>>
past == <<cut, crashed>>

MediaKind == Kind \ {"ai_analyze"}
Tasks == Kind \cup {"duplicate_scan", "cache_cleanup", "storage_health_check"}
Spend == left > 0 /\ left' = left - 1

IdleDup == [pc |-> "idle", auto |-> FALSE, stop |-> FALSE, seen |-> FALSE, failed |-> FALSE, tries |-> 0]
NoCleanup == [kind |-> "none", pc |-> "idle", stop |-> FALSE]
NoCheck == [pc |-> "idle", prev |-> "none", bad |-> FALSE, left |-> FALSE]
NoReset == [pc |-> "idle", auto |-> FALSE]

WorkItem == [db : {"none", "pending", "processing", "failed", "ready"},
             queued : BOOLEAN, active : {"no", "runs", "cancelled"}]

TasksTypeOK ==
    /\ root \in {"up", "gone", "failing"}
    /\ work \in [Kind -> WorkItem]
    /\ scan \in {"idle", "runs", "stopping"}
    /\ rec \in [Tasks -> {"none", "running", "success", "warning", "failed", "stopped"}]
    /\ rec["storage_health_check"] \in {"none", "running", "success", "failed"}
    /\ ai \in [auto : BOOLEAN, manual : BOOLEAN]
    /\ dup \in [pc : {"idle", "flagged", "loop", "recorded"}, auto : BOOLEAN, stop : BOOLEAN,
                seen : BOOLEAN, failed : BOOLEAN, tries : Nat]
    /\ sched \in {"idle", "begin", "count"}
    /\ clean \in [kind : {"none", "orphan", "scheduled", "all"},
                  pc : {"idle", "begin", "work", "clear"}, stop : BOOLEAN]
    /\ check \in [{"request", "clock"} -> [pc : {"idle", "probe", "act", "finish", "recover"},
                                           prev : {"none", "running", "success", "failed"},
                                           bad : BOOLEAN, left : BOOLEAN]]
    /\ reset \in [pc : {"idle", "stop", "wait", "clear", "truncate", "restore"}, auto : BOOLEAN]
    /\ unhashed \in BOOLEAN /\ crashed \in BOOLEAN /\ cut \subseteq Kind \cup {"scan", "cleanup"}
    /\ left \in 0..Budget

TasksInit ==
    /\ root = "up" /\ scan = "idle" /\ cut = {} /\ crashed = FALSE /\ left = Budget
    /\ work = [k \in Kind |-> [db |-> IF k = "ai_analyze" THEN "failed" ELSE "pending",
                               queued |-> FALSE, active |-> "no"]]
    /\ rec = [t \in Tasks |-> "none"] /\ ai = [auto |-> TRUE, manual |-> FALSE]
    /\ dup = IdleDup /\ sched = "idle" /\ unhashed = TRUE
    /\ clean = NoCleanup /\ check = [c \in {"request", "clock"} |-> NoCheck] /\ reset = NoReset

(***************************************************************************)
(* The work of each kind, its workers and the scanner.                     *)
(***************************************************************************)
Busy(k) == work[k].queued \/ work[k].active # "no"
Stop(s) == IF s = "runs" THEN "stopping" ELSE s
Rebuilt(row) == IF row = "none" THEN "none" ELSE "pending"
Retried(row) == IF row = "failed" THEN "pending" ELSE row
Requeued(row) == IF row = "processing" THEN "pending" ELSE row
Cleared(w) == [w EXCEPT !.queued = FALSE]
Cancelled(w) == [w EXCEPT !.active = IF @ = "runs" THEN "cancelled" ELSE @]
Halted(w) == Cancelled(Cleared(w))
Stopped(k) == [Halted(work[k]) EXCEPT !.db = IF k \in MediaKind THEN Requeued(@) ELSE @]

\* Scan runs, backfill and the AI producer, which needs a setting that asks for it.
Supply(k) ==
    /\ work[k].db = "pending" /\ ~work[k].queued /\ work[k].active = "no"
    /\ k = "ai_analyze" => ai.auto \/ ai.manual
    /\ work' = [work EXCEPT ![k].queued = TRUE]
    /\ UNCHANGED <<root, memory, rec, ai, unhashed, past, left>>

Take(k) ==
    /\ work[k].queued /\ work[k].active = "no"
    /\ work' = [work EXCEPT ![k] = [db |-> IF @.db = "none" THEN "none" ELSE "processing",
                                    queued |-> FALSE, active |-> "runs"]]
    /\ UNCHANGED <<root, memory, rec, ai, unhashed, past, left>>

\* A cancelled item goes back to pending; one whose storage is known to be
\* unavailable stays as it was; one whose asset is gone has no row.
WorkEnds(k) ==
    /\ work[k].active # "no"
    /\ \E row \in IF work[k].db = "none" THEN {"none"}
                  ELSE IF work[k].active = "cancelled" THEN {"pending"}
                  ELSE IF root = "up" THEN {"ready"} ELSE {"failed", "pending"} :
           work' = [work EXCEPT ![k].db = row, ![k].active = "no"]
    /\ cut' = cut \ {k}
    /\ UNCHANGED <<root, memory, rec, ai, unhashed, crashed, left>>

ScanStarts ==
    /\ Spend /\ scan = "idle" /\ scan' = "runs"
    /\ UNCHANGED <<root, work, rec, ai, dup, sched, clean, check, reset, unhashed, past>>

\* A run that finds the asset again makes its work pending.
ScanEnds ==
    /\ scan # "idle" /\ scan' = "idle" /\ cut' = cut \ {"scan"}
    /\ work' = IF root = "up" THEN [k \in Kind |-> [work[k] EXCEPT !.db = IF @ = "none" THEN "pending" ELSE @]]
               ELSE work
    /\ UNCHANGED <<root, rec, ai, dup, sched, clean, check, reset, unhashed, crashed, left>>

(***************************************************************************)
(* What the administrator asks of a kind.                                  *)
(***************************************************************************)
\* runSystemTask: a probe of the storage, then 409 while the task is running;
\* neither holds for a retry.
Admitted(k, action) == action = "retry_failed" \/ (root = "up" /\ ~Busy(k))

\* runQueuedMediaTask: a retry queues only what it put back, and only if the
\* task is running.
RunMediaTask(k, action) ==
    /\ Spend /\ Admitted(k, action)
    /\ LET w == work[k]
           row == IF action = "rebuild" THEN Rebuilt(w.db) ELSE Retried(w.db)
           wanted == IF action = "retry_failed" THEN Busy(k) /\ w.db = "failed"
                     ELSE row \in {"pending", "processing"}
       IN work' = [work EXCEPT ![k].db = row, ![k].queued = @ \/ wanted]
    /\ rec' = IF action = "retry_failed" THEN rec ELSE [rec EXCEPT ![k] = "running"]
    /\ UNCHANGED <<root, memory, ai, unhashed, past>>

\* runAIAnalysisTask: nothing is queued here, the producer does that.
RunAITask(action) ==
    /\ Spend /\ Admitted("ai_analyze", action)
    /\ work' = [work EXCEPT !["ai_analyze"].db =
                   IF action = "rebuild" THEN Rebuilt(@)
                   ELSE IF action = "continue" THEN Requeued(Retried(@)) ELSE Retried(@)]
    /\ IF action = "retry_failed"
       THEN /\ rec' = IF Busy("ai_analyze") /\ work["ai_analyze"].db = "failed"
                      THEN [rec EXCEPT !["ai_analyze"] = "running"] ELSE rec
            /\ UNCHANGED ai
       ELSE rec' = [rec EXCEPT !["ai_analyze"] = "running"] /\ ai' = [ai EXCEPT !.manual = TRUE]
    /\ UNCHANGED <<root, memory, unhashed, past>>

StopTask(k) ==
    /\ Spend
    /\ work' = [work EXCEPT ![k] = Stopped(k)]
    /\ ai' = IF k = "ai_analyze" THEN [auto |-> FALSE, manual |-> FALSE] ELSE ai
    /\ rec' = [rec EXCEPT ![k] = "stopped"]
    /\ UNCHANGED <<root, memory, unhashed, past>>

ToggleAI ==
    /\ Spend /\ ai' = [ai EXCEPT !.auto = ~@]
    /\ UNCHANGED <<root, work, memory, rec, unhashed, past>>

(***************************************************************************)
(* The duplicate scan.                                                     *)
(***************************************************************************)
\* startDuplicateScan: the cancel function first, then the record; the
\* goroutine starts after both.
Flag(auto) == [dup EXCEPT !.pc = "flagged", !.auto = auto, !.stop = FALSE, !.seen = FALSE, !.failed = FALSE]

AskDuplicates ==
    /\ Spend /\ root = "up" /\ dup.pc = "idle" /\ dup' = Flag(FALSE)
    /\ UNCHANGED <<root, work, scan, rec, ai, sched, unhashed, clean, check, reset, past>>

\* tryStartAutomaticDuplicateScan.
MayTry == dup.pc = "idle" /\ dup.tries < MaxAutomaticRetries + 1
TryDuplicates ==
    /\ sched = "idle" /\ MayTry /\ unhashed
    /\ scan = "idle" /\ \A k \in Kind : ~Busy(k)
    /\ dup' = Flag(TRUE) /\ sched' = "begin"
    /\ UNCHANGED <<root, work, scan, rec, ai, unhashed, clean, check, reset, past, left>>

BeginDuplicates ==
    /\ dup.pc = "flagged" /\ dup' = [dup EXCEPT !.pc = "loop"]
    /\ rec' = [rec EXCEPT !["duplicate_scan"] = "running"]
    /\ sched' = IF dup.auto THEN "count" ELSE sched
    /\ UNCHANGED <<root, work, scan, ai, unhashed, clean, check, reset, past, left>>

\* The try is counted when startDuplicateScan has returned: the scan may
\* already be over.
CountTry ==
    /\ sched = "count" /\ sched' = "idle" /\ dup' = [dup EXCEPT !.tries = @ + 1]
    /\ UNCHANGED <<root, work, scan, rec, ai, unhashed, clean, check, reset, past, left>>

\* One candidate after the other; a file that cannot be read counts as failed.
HashOne ==
    /\ dup.pc = "loop" /\ ~dup.stop /\ ~dup.seen /\ unhashed
    /\ \E ok \in BOOLEAN :
          /\ IF ok THEN root = "up" /\ UNCHANGED left ELSE IF root = "up" THEN Spend ELSE UNCHANGED left
          /\ dup' = [dup EXCEPT !.seen = TRUE, !.failed = ~ok] /\ unhashed' = ~ok
    /\ UNCHANGED <<root, work, scan, rec, ai, sched, clean, check, reset, past>>

StopDuplicates ==
    /\ Spend /\ dup.pc # "idle" /\ dup' = [dup EXCEPT !.stop = TRUE]
    /\ UNCHANGED <<root, work, scan, rec, ai, sched, unhashed, clean, check, reset, past>>

\* FinishSystemTask, while the cancel function is still there.
RecordDuplicates ==
    /\ dup.pc = "loop"
    /\ \E result \in {"stopped", "warning", "success", "failed"} :
          /\ CASE result = "stopped" -> dup.stop
               [] result = "failed" -> ~dup.stop
               [] OTHER -> ~dup.stop /\ (dup.seen \/ ~unhashed) /\ dup.failed = (result = "warning")
          /\ IF result = "failed" THEN Spend ELSE UNCHANGED left
          /\ rec' = [rec EXCEPT !["duplicate_scan"] = result]
    /\ dup' = [dup EXCEPT !.pc = "recorded"]
    /\ UNCHANGED <<root, work, scan, ai, sched, unhashed, clean, check, reset, past>>

\* The deferred function: a scan without failures forgets the tries.
EndDuplicates ==
    /\ dup.pc = "recorded"
    /\ dup' = [dup EXCEPT !.pc = "idle", !.stop = FALSE, !.seen = FALSE, !.auto = FALSE,
                          !.tries = IF dup.failed THEN @ ELSE 0]
    /\ UNCHANGED <<root, work, scan, rec, ai, sched, unhashed, clean, check, reset, cut, crashed, left>>

(***************************************************************************)
(* The cache cleanup: on request, at 03:00, or of every asset when the last *)
(* library is removed.  All three hold cleanupStatus.Running; the third has *)
(* no cancel function and leaves no record.                                 *)
(***************************************************************************)
StartCleanup(kind) ==
    /\ Spend /\ clean.kind = "none"
    /\ clean' = [NoCleanup EXCEPT !.kind = kind, !.pc = IF kind = "all" THEN "work" ELSE "begin"]
    /\ UNCHANGED <<root, work, scan, rec, ai, dup, sched, unhashed, check, reset, past>>

\* BeginSystemTask uses the context that a stop cancels.
BeginCleanup ==
    /\ clean.pc = "begin" /\ clean' = [clean EXCEPT !.pc = "work"]
    /\ rec' = IF clean.stop THEN rec ELSE [rec EXCEPT !["cache_cleanup"] = "running"]
    /\ UNCHANGED <<root, work, scan, ai, dup, sched, unhashed, check, reset, past, left>>

StopCleanup ==
    /\ Spend /\ clean.kind \in {"orphan", "scheduled"} /\ clean' = [clean EXCEPT !.stop = TRUE]
    /\ UNCHANGED <<root, work, scan, rec, ai, dup, sched, unhashed, check, reset, past>>

\* FinishSystemTask uses a context of its own.
RecordCleanup ==
    /\ clean.pc = "work" /\ clean.kind # "all" /\ clean' = [clean EXCEPT !.pc = "clear"]
    /\ \E result \in {"success", "failed"} \cup {s \in {"stopped"} : clean.stop} :
          /\ rec' = [rec EXCEPT !["cache_cleanup"] = result]
          /\ IF result = "failed" THEN Spend ELSE UNCHANGED left
    /\ UNCHANGED <<root, work, scan, ai, dup, sched, unhashed, check, reset, past>>

\* startClearAllAssetsCleanup marks every asset deleted.
ClearAllAssets ==
    /\ clean.pc = "work" /\ clean.kind = "all" /\ clean' = [clean EXCEPT !.pc = "clear"]
    /\ UNCHANGED <<root, work, scan, rec, ai, dup, sched, unhashed, check, reset, past, left>>

EndCleanup ==
    /\ clean.pc = "clear" /\ clean' = NoCleanup /\ cut' = cut \ {"cleanup"}
    /\ UNCHANGED <<root, work, scan, rec, ai, dup, sched, unhashed, check, reset, crashed, left>>

(***************************************************************************)
(* The storage check.                                                      *)
(***************************************************************************)
StorageChanges ==
    /\ Spend /\ root' \in {"up", "gone", "failing"} \ {root}
    /\ UNCHANGED <<work, memory, rec, ai, unhashed, past>>

At(c, pc) == check[c].pc = pc
Record(status) == [rec EXCEPT !["storage_health_check"] = status]
CanBeRead(k) == root = "up" /\ work[k].db = "failed"
AIReturns(w) == [w EXCEPT !["ai_analyze"].db = IF CanBeRead("ai_analyze") THEN Retried(@) ELSE @]

\* checkStorageHealth: the previous state, then the record of the new check.
BeginCheck(c) ==
    /\ Spend /\ At(c, "idle")
    /\ check' = [check EXCEPT ![c] = [NoCheck EXCEPT !.pc = "probe", !.prev = rec["storage_health_check"]]]
    /\ rec' = Record("running")
    /\ UNCHANGED <<root, work, scan, ai, dup, sched, unhashed, clean, reset, past>>

ProbeStorage(c) ==
    /\ At(c, "probe") /\ check' = [check EXCEPT ![c].pc = "act", ![c].bad = root # "up"]
    /\ UNCHANGED <<root, work, scan, rec, ai, dup, sched, unhashed, clean, reset, past, left>>

\* The client of a request is gone: its context fails every later query.
ClientLeaves ==
    /\ Spend /\ ~At("request", "idle") /\ check' = [check EXCEPT !["request"].left = TRUE]
    /\ UNCHANGED <<root, work, scan, rec, ai, dup, sched, unhashed, clean, reset, past>>

\* Work is stopped when a root is unavailable.  After a check that failed, the
\* AI failures whose files can be read again return to pending.
ActOnCheck(c) ==
    LET me == check[c] IN
    /\ At(c, "act") /\ check' = [check EXCEPT ![c].pc = "finish"]
    /\ scan' = IF me.bad THEN Stop(scan) ELSE scan
    /\ work' = IF me.bad
               THEN [k \in Kind |-> IF me.left THEN Cancelled(work[k]) ELSE Stopped(k)]
               ELSE IF me.prev = "failed" /\ ~me.left THEN AIReturns(work) ELSE work
    /\ UNCHANGED <<root, rec, ai, dup, sched, unhashed, clean, reset, past, left>>

\* The daily check of the clock goes on with a reconcile scan.
FinishCheck(c) ==
    LET me == check[c] IN
    /\ At(c, "finish") /\ check' = [check EXCEPT ![c] = NoCheck]
    /\ rec' = IF me.left THEN rec ELSE Record(IF me.bad THEN "failed" ELSE "success")
    /\ scan' = IF c = "clock" /\ ~me.bad /\ scan = "idle" THEN "runs" ELSE scan
    /\ UNCHANGED <<root, work, ai, dup, sched, unhashed, clean, reset, past, left>>

\* retryFailedStorageHealth, every minute: only a record "failed" is looked at.
RetryStorage ==
    /\ At("clock", "idle") /\ rec["storage_health_check"] = "failed" /\ root = "up"
    /\ check' = [check EXCEPT !["clock"].pc = "recover"]
    /\ UNCHANGED <<root, work, scan, rec, ai, dup, sched, unhashed, clean, reset, past, left>>

StorageRecovers ==
    /\ At("clock", "recover") /\ check' = [check EXCEPT !["clock"] = NoCheck]
    /\ work' = AIReturns(work) /\ rec' = Record("success")
    /\ scan' = IF scan = "idle" THEN "runs" ELSE scan
    /\ UNCHANGED <<root, ai, dup, sched, unhashed, clean, reset, past, left>>

(***************************************************************************)
(* The reset of the media library.                                         *)
(***************************************************************************)
Resets(pc) == reset' = [reset EXCEPT !.pc = pc]

BeginReset ==
    /\ Spend /\ reset.pc = "idle" /\ reset' = [pc |-> "stop", auto |-> ai.auto]
    /\ ai' = [auto |-> FALSE, manual |-> FALSE]
    /\ UNCHANGED <<root, work, scan, rec, dup, sched, unhashed, clean, check, past>>

\* The scanner and the cleanup are asked to stop; the queues are emptied, and
\* what is being worked on may finish.
AtWork == {k \in Kind : work[k].active # "no"} \cup {s \in {"scan"} : scan # "idle"}
          \cup {c \in {"cleanup"} : clean.kind # "none"}
StopEverything ==
    /\ reset.pc = "stop"
    /\ scan' = Stop(scan) /\ clean' = [clean EXCEPT !.stop = clean.kind \in {"orphan", "scheduled"}]
    /\ \/ Resets("wait") /\ work' = [k \in Kind |-> Cleared(work[k])] /\ cut' = AtWork /\ UNCHANGED left
       \/ Spend /\ Resets("restore") /\ UNCHANGED <<work, cut>>
    /\ UNCHANGED <<root, rec, ai, dup, sched, unhashed, check, crashed>>

\* waitForMediaWorkToStop, for at most ten seconds.
QuietButCleaning == scan = "idle" /\ \A k \in Waited : work[k].active = "no"
Quiet == scan = "idle" /\ clean.kind = "none" /\ \A k \in Waited : work[k].active = "no"
WaitForQuiet ==
    /\ reset.pc = "wait" /\ Resets(IF Quiet THEN "clear" ELSE "restore")
    /\ UNCHANGED <<root, work, scan, rec, ai, dup, sched, unhashed, clean, check, past, left>>

ClearAgain ==
    /\ reset.pc = "clear" /\ Resets("truncate") /\ work' = [k \in Kind |-> Cleared(work[k])]
    /\ UNCHANGED <<root, scan, rec, ai, dup, sched, unhashed, clean, check, past, left>>

\* ResetMediaLibrary: the asset rows and the task records go in one transaction.
Truncate ==
    /\ reset.pc = "truncate" /\ Resets("restore")
    /\ work' = [k \in Kind |-> [work[k] EXCEPT !.db = "none"]]
    /\ rec' = [t \in Tasks |-> "none"] /\ unhashed' = FALSE
    /\ UNCHANGED <<root, scan, ai, dup, sched, clean, check, past, left>>

TruncateFails ==
    /\ Spend /\ reset.pc = "truncate" /\ Resets("restore")
    /\ UNCHANGED <<root, work, scan, rec, ai, dup, sched, unhashed, clean, check, past>>

\* The deferred functions, the emptied cache directory behind them.
EndReset ==
    /\ reset.pc = "restore" /\ reset' = NoReset /\ cut' = {}
    /\ ai' = IF reset.auto THEN [ai EXCEPT !.auto = TRUE] ELSE ai
    /\ UNCHANGED <<root, work, scan, rec, dup, sched, unhashed, clean, check, crashed, left>>

\* The process ends; the next one puts the rows left in processing back.
Restart ==
    /\ Spend /\ scan' = "idle" /\ dup' = IdleDup /\ sched' = "idle" /\ clean' = NoCleanup
    /\ check' = [c \in {"request", "clock"} |-> NoCheck] /\ reset' = NoReset
    /\ work' = [k \in Kind |-> [work[k] EXCEPT !.queued = FALSE, !.active = "no", !.db = Requeued(@)]]
    /\ cut' = {} /\ crashed' = TRUE
    /\ UNCHANGED <<root, rec, ai, unhashed>>

(***************************************************************************)
(* What the list of tasks shows (systemTasks).                             *)
(***************************************************************************)
\* storedSystemTask; duplicateScanSystemTask corrects a record that outlived
\* its process.
AsStored(t) == rec[t]
ShownRecord(t) ==
    IF t = "duplicate_scan"
    THEN IF dup.pc # "idle" THEN "running"
         ELSE IF rec[t] = "running" THEN "stopped" ELSE rec[t]
    ELSE rec[t]

WorkNext ==
    \/ \E k \in Kind : Supply(k) \/ Take(k) \/ WorkEnds(k) \/ StopTask(k)
    \/ \E k \in MediaKind, action \in {"continue", "rebuild", "retry_failed"} : RunMediaTask(k, action)
    \/ \E action \in {"continue", "rebuild", "retry_failed"} : RunAITask(action)
    \/ ToggleAI \/ ScanStarts \/ ScanEnds
DuplicateNext ==
    \/ AskDuplicates \/ TryDuplicates \/ BeginDuplicates \/ CountTry \/ HashOne
    \/ StopDuplicates \/ RecordDuplicates \/ EndDuplicates
CleanupNext ==
    \/ \E kind \in {"orphan", "scheduled"} : StartCleanup(kind)
    \/ BeginCleanup \/ StopCleanup \/ RecordCleanup \/ EndCleanup
CheckNext ==
    \/ \E c \in {"request", "clock"} : BeginCheck(c) \/ ProbeStorage(c) \/ ActOnCheck(c) \/ FinishCheck(c)
    \/ ClientLeaves \/ RetryStorage \/ StorageRecovers
ResetNext == BeginReset \/ StopEverything \/ WaitForQuiet \/ ClearAgain \/ TruncateFails \/ EndReset

(***************************************************************************)
(* Properties.                                                             *)
(***************************************************************************)
\* A record says "running" while its goroutine is at work and not when it is
\* gone: the end of an older run never tells a new one finished.  A record may
\* outlive its process, which the list corrects for the duplicate scan only; a
\* reset empties the records of what it does not wait for.
RunningIsRecorded ==
    /\ dup.pc = "loop" /\ ~crashed => rec["duplicate_scan"] \in {"running", "none"}
    /\ ShownRecord("duplicate_scan") = "running" => dup.pc # "idle"
    /\ clean.pc = "work" /\ clean.kind # "all" /\ ~clean.stop => rec["cache_cleanup"] \in {"running", "none"}
    /\ ShownRecord("cache_cleanup") = "running" => clean.kind \in {"orphan", "scheduled"} \/ crashed

\* The tables are emptied only when nothing of what was at work when the reset
\* stopped everything is still at work, the work it does not wait for aside.
ResetIsQuiet ==
    reset.pc = "truncate" => cut \cap (Waited \cup {"scan", "cleanup"}) = {}
=============================================================================
