----------------------------- MODULE ThumbPipeline -----------------------------
(***************************************************************************)
(* How an image gets its thumbnail: the scanner that records a new file    *)
(* version (internal/scanner/scanner.go), the thumb handler that renders   *)
(* it (internal/thumb/thumb.go), the status columns of the asset row       *)
(* (internal/db/assets.go, task_work.go), the supervisor that enqueues     *)
(* what was left behind (cmd/server/main.go), the HTTP handler that heals  *)
(* a missing file (internal/api/server.go) and the user's stop and         *)
(* continue (internal/api/task_operations.go).                             *)
(*                                                                         *)
(* The queue is the abstract one of this asset type: a set of entries and  *)
(* the dedupe set; JobQueue models its steps.                              *)
(***************************************************************************)
EXTENDS Integers, FiniteSets

CONSTANTS
    Asset, Worker,
    MaxVersion,          \* bound: versions a file goes through
    MaxAutomaticRetries, \* 3 in the code
    MaxScans, MaxFetches, MaxStops, MaxRestarts, MaxOutages  \* bounds on the environment

Version == 1..MaxVersion
Attempt == 0..MaxAutomaticRetries
NoJob == [asset |-> "none", attempt |-> 0, key |-> 0]

ASSUME ConstantsAssumption ==
    /\ Asset \cap {"none"} = {}
    /\ Worker \cap {"none", "whole", "torn"} = {}
    /\ MaxVersion \in Nat \ {0}
    /\ {MaxAutomaticRetries, MaxScans, MaxFetches, MaxStops, MaxRestarts, MaxOutages}
          \subseteq Nat

VARIABLES
    file,      \* asset -> version of the source file on the NAS
    mounted,   \* the storage source is reachable
    row,       \* asset -> cache_key (the version the scanner saw) and thumb_status
    thumb,     \* asset -> version -> the file under /cache/thumbs: "none", "whole",
               \*   "torn", or the worker that still writes it
    tmp,       \* asset -> version -> whose output lies at dest.tmp.webp
    rendered,  \* worker -> its vipsthumbnail has written everything
    queue,     \* entries <<asset, attempt>>
    claimed,   \* dedupe set
    delayed,   \* retries that wait for their timer
    wpc, job, cause, result,   \* per worker
    scan,      \* a scan run holds the media scan priority
    toEnqueue, \* assets the scan run still has to enqueue
    sweep,     \* assets the supervisor (or a continue) still has to enqueue
    fetching,  \* <<asset, key>> whose thumbnail a request found missing
    stop,      \* the user's stop: "no", its steps, "stopped"
    raced,     \* history: the row changed its key under a running job
    spent      \* bounds used up

jobVars == <<wpc, job, cause, result>>
queueVars == <<queue, claimed>>
vars == <<file, mounted, row, thumb, tmp, rendered, queueVars, delayed, jobVars,
          scan, toEnqueue, sweep, fetching, stop, raced, spent>>

Init ==
    /\ file = [a \in Asset |-> 1]
    /\ mounted = TRUE
    /\ row = [a \in Asset |-> [key |-> 1, status |-> "pending"]]
    /\ thumb = [a \in Asset |-> [v \in Version |-> "none"]]
    /\ tmp = [a \in Asset |-> [v \in Version |-> "none"]]
    /\ rendered = [w \in Worker |-> FALSE]
    /\ queue = {} /\ claimed = {} /\ delayed = {}
    /\ wpc = [w \in Worker |-> "idle"]
    /\ job = [w \in Worker |-> NoJob]
    /\ cause = [w \in Worker |-> "none"]
    /\ result = [w \in Worker |-> "none"]
    /\ scan = FALSE /\ toEnqueue = {} /\ sweep = {} /\ fetching = {}
    /\ stop = "no"
    /\ raced = [a \in Asset |-> FALSE]
    /\ spent = [scans |-> 0, fetches |-> 0, stops |-> 0, restarts |-> 0, outages |-> 0]

Spend(what) == spent' = [spent EXCEPT ![what] = @ + 1]
SetStatus(a, status) == row' = [row EXCEPT ![a].status = status]
Unfinished(a) == row[a].status \in {"pending", "processing"}

\* Mutated Enqueue: the dedupe set is not consulted.
EnqueueUnclaimed(a, attempt) ==
    /\ queue' = queue \cup {<<a, attempt>>}
    /\ claimed' = claimed \cup {a}

Enqueue(a, attempt) ==
    IF a \in claimed THEN UNCHANGED queueVars
    ELSE /\ queue' = queue \cup {<<a, attempt>>}
         /\ claimed' = claimed \cup {a}

-----------------------------------------------------------------------------
(* The file, the storage and the scanner *)

Modify(a) ==
    /\ file[a] < MaxVersion
    /\ file' = [file EXCEPT ![a] = @ + 1]
    /\ UNCHANGED <<mounted, row, thumb, tmp, rendered, queueVars, delayed, jobVars, scan,
                   toEnqueue, sweep, fetching, stop, raced, spent>>

Unmount ==
    /\ mounted /\ spent.outages < MaxOutages
    /\ mounted' = FALSE
    /\ Spend("outages")
    /\ UNCHANGED <<file, row, thumb, tmp, rendered, queueVars, delayed, jobVars, scan,
                   toEnqueue, sweep, fetching, stop, raced>>

Remount ==
    /\ ~mounted
    /\ mounted' = TRUE
    /\ UNCHANGED <<file, row, thumb, tmp, rendered, queueVars, delayed, jobVars, scan,
                   toEnqueue, sweep, fetching, stop, raced, spent>>

BeginScan ==
    /\ ~scan /\ mounted /\ spent.scans < MaxScans
    /\ scan' = TRUE
    /\ Spend("scans")
    /\ UNCHANGED <<file, mounted, row, thumb, tmp, rendered, queueVars, delayed, jobVars,
                   toEnqueue, sweep, fetching, stop, raced>>

\* The job of w has read its row: it works for the key it found there.
Bound(w, a) ==
    job[w].asset = a /\ wpc[w] \in {"marking", "starting", "rendering", "publishing", "readying"}

\* Mutated WriteAsset: the status of a changed file is left as it is.
WriteAssetKeepStatus(a) ==
    /\ scan /\ row[a].key # file[a]
    /\ row' = [row EXCEPT ![a].key = file[a]]
    /\ thumb' = [thumb EXCEPT ![a][row[a].key] = "none"]
    /\ toEnqueue' = toEnqueue \cup {a}
    /\ raced' = [raced EXCEPT ![a] = \E w \in Worker : Bound(w, a)]
    /\ UNCHANGED <<file, mounted, tmp, rendered, queueVars, delayed, jobVars, scan, sweep,
                   fetching, stop, spent>>

\* writeAsset for a changed file: the row takes the new cache key and becomes
\* pending, the files of the old key go, the asset is to be enqueued.
WriteAsset(a) ==
    /\ scan /\ row[a].key # file[a]
    /\ row' = [row EXCEPT ![a] = [key |-> file[a], status |-> "pending"]]
    /\ thumb' = [thumb EXCEPT ![a][row[a].key] = "none"]
    /\ toEnqueue' = toEnqueue \cup {a}
    /\ raced' = [raced EXCEPT ![a] = \E w \in Worker : Bound(w, a)]
    /\ UNCHANGED <<file, mounted, tmp, rendered, queueVars, delayed, jobVars, scan, sweep,
                   fetching, stop, spent>>

\* At once, or at the end of a media scan (deferredWork).
ScanEnqueues(a) ==
    /\ a \in toEnqueue
    /\ toEnqueue' = toEnqueue \ {a}
    /\ Enqueue(a, 0)
    /\ UNCHANGED <<file, mounted, row, thumb, tmp, rendered, delayed, jobVars, scan, sweep,
                   fetching, stop, raced, spent>>

EndScan ==
    /\ scan /\ toEnqueue = {}
    /\ scan' = FALSE
    /\ UNCHANGED <<file, mounted, row, thumb, tmp, rendered, queueVars, delayed, jobVars,
                   toEnqueue, sweep, fetching, stop, raced, spent>>

\* A stopped run never reaches enqueueDeferredWork.
AbortScan ==
    /\ scan /\ toEnqueue # {}
    /\ scan' = FALSE /\ toEnqueue' = {}
    /\ UNCHANGED <<file, mounted, row, thumb, tmp, rendered, queueVars, delayed, jobVars,
                   sweep, fetching, stop, raced, spent>>

-----------------------------------------------------------------------------
(* The worker and the thumb handler *)

Goto(w, pc) == wpc' = [wpc EXCEPT ![w] = pc]
Return(w, r) == Goto(w, "finished") /\ result' = [result EXCEPT ![w] = r]
Cancelled(w) == cause[w] # "none"

Pop(w) ==
    /\ wpc[w] = "idle"
    /\ \E e \in queue :
          /\ queue' = queue \ {e}
          /\ job' = [job EXCEPT ![w] = [asset |-> e[1], attempt |-> e[2], key |-> 0]]
    /\ Goto(w, "popped")
    /\ UNCHANGED <<file, mounted, row, thumb, tmp, rendered, claimed, delayed, cause, result,
                   scan, toEnqueue, sweep, fetching, stop, raced, spent>>

\* Resource slot: none is given while a scan holds the priority.
Start(w) ==
    /\ wpc[w] = "popped"
    /\ \/ /\ ~scan
          /\ Goto(w, "loading")
          /\ UNCHANGED result
       \/ /\ Cancelled(w)
          /\ Return(w, cause[w])
    /\ UNCHANGED <<file, mounted, row, thumb, tmp, rendered, queueVars, delayed, job, cause,
                   scan, toEnqueue, sweep, fetching, stop, raced, spent>>

\* process and the head of processAsset: the row is read, an unreachable source
\* ends the job without a result, a present file only needs its status. A
\* database call under a cancelled context fails and the task is dropped.
Load(w) ==
    /\ wpc[w] = "loading"
    /\ LET a == job[w].asset
           key == row[a].key
       IN \/ /\ Cancelled(w)
             /\ Return(w, "dropped") /\ UNCHANGED job
          \/ /\ ~Cancelled(w) /\ ~mounted
             /\ Return(w, "ok") /\ UNCHANGED job
          \/ /\ ~Cancelled(w) /\ mounted
             /\ job' = [job EXCEPT ![w].key = key]
             /\ Goto(w, IF thumb[a][key] = "none" THEN "marking" ELSE "readying")
             /\ UNCHANGED result
    /\ UNCHANGED <<file, mounted, row, thumb, tmp, rendered, queueVars, delayed, cause,
                   scan, toEnqueue, sweep, fetching, stop, raced, spent>>

MarkProcessing(w) ==
    /\ wpc[w] = "marking"
    /\ \/ /\ Cancelled(w)
          /\ Return(w, "dropped") /\ UNCHANGED row
       \/ /\ ~Cancelled(w)
          /\ SetStatus(job[w].asset, "processing")
          /\ Goto(w, "starting") /\ UNCHANGED result
    /\ UNCHANGED <<file, mounted, thumb, tmp, rendered, queueVars, delayed, job, cause, scan,
                   toEnqueue, sweep, fetching, stop, raced, spent>>

\* The temporary file of the key is removed and the command creates it again.
StartRender(w) ==
    /\ wpc[w] = "starting"
    /\ tmp' = [tmp EXCEPT ![job[w].asset][job[w].key] = w]
    /\ rendered' = [rendered EXCEPT ![w] = FALSE]
    /\ Goto(w, "rendering")
    /\ UNCHANGED <<file, mounted, row, thumb, queueVars, delayed, job, cause, result, scan,
                   toEnqueue, sweep, fetching, stop, raced, spent>>

\* The command ends well; what another job renamed while it was being written is
\* whole from now on.
EndRender(w) ==
    /\ wpc[w] = "rendering"
    /\ rendered' = [rendered EXCEPT ![w] = TRUE]
    /\ thumb' = [thumb EXCEPT ![job[w].asset][job[w].key] = IF @ = w THEN "whole" ELSE @]
    /\ Goto(w, "publishing")
    /\ UNCHANGED <<file, mounted, row, tmp, queueVars, delayed, job, cause, result, scan,
                   toEnqueue, sweep, fetching, stop, raced, spent>>

\* What the row shows after a failed attempt: Handle puts it back to pending
\* while an automatic retry is left.
FailedStatus(w) == IF job[w].attempt < MaxAutomaticRetries THEN "pending" ELSE "error"

\* The command is killed, fails, or fails because the storage went away, which
\* ends the job without a result; the temporary file of the key is removed.
RenderFails(w) ==
    /\ wpc[w] = "rendering"
    /\ \/ /\ Cancelled(w)
          /\ SetStatus(job[w].asset, "pending")
          /\ Return(w, cause[w])
       \/ /\ ~Cancelled(w)
          /\ SetStatus(job[w].asset, FailedStatus(w))
          /\ Return(w, "failed")
       \/ /\ ~Cancelled(w) /\ ~mounted
          /\ Return(w, "ok")
          /\ UNCHANGED row
    /\ tmp' = [tmp EXCEPT ![job[w].asset][job[w].key] = "none"]
    /\ thumb' = [thumb EXCEPT ![job[w].asset][job[w].key] = IF @ = w THEN "torn" ELSE @]
    /\ UNCHANGED <<file, mounted, rendered, queueVars, delayed, job, cause, scan, toEnqueue,
                   sweep, fetching, stop, raced, spent>>

\* Rename: whatever lies at the temporary path becomes the served file.
Publish(w) ==
    /\ wpc[w] = "publishing"
    /\ LET a == job[w].asset
           key == job[w].key
           owner == tmp[a][key]
       IN /\ tmp' = [tmp EXCEPT ![a][key] = "none"]
          /\ \/ /\ Cancelled(w)
                /\ Return(w, "dropped")
                /\ UNCHANGED <<row, thumb>>
             \/ /\ ~Cancelled(w) /\ owner = "none"
                /\ SetStatus(a, FailedStatus(w))
                /\ Return(w, "failed")
                /\ UNCHANGED thumb
             \/ /\ ~Cancelled(w) /\ owner # "none"
                /\ thumb' = [thumb EXCEPT ![a][key] =
                                IF rendered[owner] THEN "whole" ELSE owner]
                /\ Goto(w, "readying")
                /\ UNCHANGED <<row, result>>
    /\ UNCHANGED <<file, mounted, rendered, queueVars, delayed, job, cause, scan, toEnqueue,
                   sweep, fetching, stop, raced, spent>>

\* setReady writes by asset id: the row may have another key by now.
SetReady(w) ==
    /\ wpc[w] = "readying"
    /\ \/ /\ Cancelled(w)
          /\ Return(w, "dropped") /\ UNCHANGED row
       \/ /\ ~Cancelled(w)
          /\ SetStatus(job[w].asset, "ready")
          /\ Return(w, "ok")
    /\ UNCHANGED <<file, mounted, thumb, tmp, rendered, queueVars, delayed, job, cause, scan,
                   toEnqueue, sweep, fetching, stop, raced, spent>>

Release(w) ==
    /\ wpc[w] = "finished"
    /\ claimed' = claimed \ {job[w].asset}
    /\ Goto(w, "released")
    /\ cause' = [cause EXCEPT ![w] = "none"]
    /\ UNCHANGED <<file, mounted, row, thumb, tmp, rendered, queue, delayed, job, result, scan,
                   toEnqueue, sweep, fetching, stop, raced, spent>>

Retry(w) ==
    /\ result[w] = "failed" /\ job[w].attempt < MaxAutomaticRetries
    /\ delayed' = delayed \cup {<<job[w].asset, job[w].attempt + 1>>}

Requeue(w) ==
    /\ wpc[w] = "released"
    /\ \/ /\ result[w] = "preempted"
          /\ Enqueue(job[w].asset, job[w].attempt)
          /\ UNCHANGED delayed
       \/ /\ Retry(w)
          /\ UNCHANGED queueVars
       \/ /\ result[w] = "failed" => job[w].attempt = MaxAutomaticRetries
          /\ result[w] # "preempted"
          /\ UNCHANGED <<queueVars, delayed>>
    /\ Goto(w, "idle")
    /\ job' = [job EXCEPT ![w] = NoJob]
    /\ result' = [result EXCEPT ![w] = "none"]
    /\ rendered' = [rendered EXCEPT ![w] = FALSE]
    /\ UNCHANGED <<file, mounted, row, thumb, tmp, cause, scan, toEnqueue, sweep, fetching,
                   stop, raced, spent>>

RetryFires ==
    /\ \E e \in delayed : delayed' = delayed \ {e} /\ Enqueue(e[1], e[2])
    /\ UNCHANGED <<file, mounted, row, thumb, tmp, rendered, jobVars, scan, toEnqueue, sweep,
                   fetching, stop, raced, spent>>

Active == {w \in Worker : wpc[w] \in {"loading", "marking", "starting", "rendering",
                                      "publishing", "readying"}}
Cancellable(w) == cause[w] = "none" /\ (w \in Active \/ wpc[w] = "popped")

Preempt(w) ==
    /\ scan /\ Cancellable(w)
    /\ cause' = [cause EXCEPT ![w] = "preempted"]
    /\ UNCHANGED <<file, mounted, row, thumb, tmp, rendered, queueVars, delayed, wpc, job,
                   result, scan, toEnqueue, sweep, fetching, stop, raced, spent>>

-----------------------------------------------------------------------------
(* Supervisor, requests, user, restart *)

\* Mutated PendingWork: rows left in processing are not listed.
PendingOnly == {a \in Asset : row[a].status = "pending"}

PendingWork == {a \in Asset : Unfinished(a)}

\* superviseAutomaticTasks: only when nothing is queued and nothing runs.
Supervise ==
    /\ sweep = {} /\ queue = {} /\ Active = {}
    /\ PendingWork # {}
    /\ sweep' = PendingWork
    /\ UNCHANGED <<file, mounted, row, thumb, tmp, rendered, queueVars, delayed, jobVars, scan,
                   toEnqueue, fetching, stop, raced, spent>>

SweepEnqueues(a) ==
    /\ a \in sweep
    /\ sweep' = sweep \ {a}
    /\ Enqueue(a, 0)
    /\ UNCHANGED <<file, mounted, row, thumb, tmp, rendered, delayed, jobVars, scan, toEnqueue,
                   fetching, stop, raced, spent>>

\* cacheThumb for the current key finds no file ...
FetchMisses(a) ==
    LET key == row[a].key IN
    /\ thumb[a][key] = "none" /\ <<a, key>> \notin fetching /\ spent.fetches < MaxFetches
    /\ fetching' = fetching \cup {<<a, key>>}
    /\ Spend("fetches")
    /\ UNCHANGED <<file, mounted, row, thumb, tmp, rendered, queueVars, delayed, jobVars, scan,
                   toEnqueue, sweep, stop, raced>>

\* ... and recoverMissingThumbCache orders a new one, if the asset still has the
\* key and its source is there.
FetchRecovers(a) ==
    /\ \E f \in fetching :
          /\ f[1] = a
          /\ fetching' = fetching \ {f}
          /\ IF mounted /\ row[a].key = f[2] THEN SetStatus(a, "pending") /\ Enqueue(a, 0)
                                             ELSE UNCHANGED <<row, queueVars>>
    /\ UNCHANGED <<file, mounted, thumb, tmp, rendered, delayed, jobVars, scan, toEnqueue,
                   sweep, stop, raced, spent>>

\* stopSystemTask("thumbnail_creation"), one call after the other.
StopClears ==
    /\ stop = "no" /\ spent.stops < MaxStops
    /\ queue' = {} /\ claimed' = {}
    /\ stop' = "cancel"
    /\ Spend("stops")
    /\ UNCHANGED <<file, mounted, row, thumb, tmp, rendered, delayed, jobVars, scan, toEnqueue,
                   sweep, fetching, raced>>

\* A worker that has popped but not yet registered its cancel function is missed.
StopCancels ==
    /\ stop = "cancel"
    /\ \E missed \in SUBSET {w \in Worker : wpc[w] = "popped"} :
          cause' = [w \in Worker |-> IF Cancellable(w) /\ w \notin missed
                                     THEN "stopped" ELSE cause[w]]
    /\ stop' = "requeue"
    /\ UNCHANGED <<file, mounted, row, thumb, tmp, rendered, queueVars, delayed, wpc, job,
                   result, scan, toEnqueue, sweep, fetching, raced, spent>>

StopRequeues ==
    /\ stop = "requeue"
    /\ row' = [a \in Asset |-> IF row[a].status = "processing"
                               THEN [row[a] EXCEPT !.status = "pending"] ELSE row[a]]
    /\ stop' = "stopped"
    /\ UNCHANGED <<file, mounted, thumb, tmp, rendered, queueVars, delayed, jobVars, scan,
                   toEnqueue, sweep, fetching, raced, spent>>

\* ContinueWorkForRoots: failed rows become pending, all unfinished are enqueued.
Continue ==
    /\ stop = "stopped" /\ queue = {} /\ Active = {}
    /\ row' = [a \in Asset |-> IF row[a].status = "error"
                               THEN [row[a] EXCEPT !.status = "pending"] ELSE row[a]]
    /\ sweep' = sweep \cup {a \in Asset : row[a].status # "ready"}
    /\ stop' = "no"
    /\ UNCHANGED <<file, mounted, thumb, tmp, rendered, queueVars, delayed, jobVars, scan,
                   toEnqueue, fetching, raced, spent>>

\* The process starts again: memory, media queue and dedupe set are gone, rows
\* and cache files stay; enqueuePendingWork lists what is unfinished.
Restart ==
    /\ spent.restarts < MaxRestarts
    /\ queue' = {} /\ claimed' = {} /\ delayed' = {}
    /\ wpc' = [w \in Worker |-> "idle"]
    /\ job' = [w \in Worker |-> NoJob]
    /\ cause' = [w \in Worker |-> "none"]
    /\ result' = [w \in Worker |-> "none"]
    /\ rendered' = [w \in Worker |-> FALSE]
    /\ thumb' = [a \in Asset |-> [v \in Version |->
                    IF thumb[a][v] \in Worker THEN "torn" ELSE thumb[a][v]]]
    /\ tmp' = [a \in Asset |-> [v \in Version |-> "none"]]
    /\ scan' = FALSE /\ toEnqueue' = {} /\ fetching' = {}
    /\ sweep' = PendingWork
    /\ stop' = IF stop = "stopped" THEN "stopped" ELSE "no"
    /\ Spend("restarts")
    /\ UNCHANGED <<file, mounted, row, raced>>

-----------------------------------------------------------------------------
WorkerStep(w) ==
    \/ Pop(w) \/ Start(w) \/ Load(w) \/ MarkProcessing(w) \/ StartRender(w) \/ EndRender(w)
    \/ RenderFails(w) \/ Publish(w) \/ SetReady(w) \/ Release(w) \/ Requeue(w)

AssetStep(a) ==
    \/ Modify(a) \/ WriteAsset(a) \/ ScanEnqueues(a) \/ SweepEnqueues(a)
    \/ FetchMisses(a) \/ FetchRecovers(a)

Next ==
    \/ \E w \in Worker : WorkerStep(w) \/ Preempt(w)
    \/ \E a \in Asset : AssetStep(a)
    \/ Unmount \/ Remount \/ BeginScan \/ EndScan \/ AbortScan
    \/ RetryFires \/ Supervise
    \/ StopClears \/ StopCancels \/ StopRequeues \/ Continue
    \/ Restart

Spec == Init /\ [][Next]_vars

\* The goroutines run and commands end (they have a timeout). Files, storage,
\* scans, requests, stops and restarts come as they like, but a scan run ends.
Fairness ==
    /\ \A w \in Worker : WF_vars(WorkerStep(w)) /\ WF_vars(Preempt(w))
    /\ \A a \in Asset : WF_vars(ScanEnqueues(a)) /\ WF_vars(SweepEnqueues(a))
                        /\ WF_vars(FetchRecovers(a))
    /\ WF_vars(EndScan \/ AbortScan) /\ WF_vars(RetryFires) /\ WF_vars(Supervise)
    /\ WF_vars(StopCancels) /\ WF_vars(StopRequeues)

FairSpec == Spec /\ Fairness

-----------------------------------------------------------------------------
(* Properties *)

\* Type correctness of rows, files, entries and jobs.
TypeOK ==
    /\ file \in [Asset -> Version]
    /\ mounted \in BOOLEAN
    /\ row \in [Asset -> [key: Version, status: {"pending", "processing", "ready", "error"}]]
    /\ thumb \in [Asset -> [Version -> {"none", "whole", "torn"} \cup Worker]]
    /\ tmp \in [Asset -> [Version -> {"none"} \cup Worker]]
    /\ rendered \in [Worker -> BOOLEAN]
    /\ queue \subseteq Asset \X Attempt
    /\ claimed \subseteq Asset
    /\ delayed \subseteq Asset \X Attempt
    /\ wpc \in [Worker -> {"idle", "popped", "loading", "marking", "starting", "rendering",
                           "publishing", "readying", "finished", "released"}]
    /\ job \in [Worker -> [asset: Asset, attempt: Attempt, key: Version \cup {0}] \cup {NoJob}]
    /\ cause \in [Worker -> {"none", "preempted", "stopped"}]
    /\ result \in [Worker -> {"none", "ok", "failed", "dropped", "preempted", "stopped"}]
    /\ scan \in BOOLEAN
    /\ toEnqueue \subseteq Asset /\ sweep \subseteq Asset
    /\ fetching \subseteq Asset \X Version
    /\ stop \in {"no", "cancel", "requeue", "stopped"}
    /\ raced \in [Asset -> BOOLEAN]

\* Without a user stop, a thumbnail that can be served under the current key is
\* complete: no two jobs write the temporary file of one key, whatever the order
\* of scans, preemptions, retries, requests and restarts (thumb.go 708-734). It
\* is served as immutable for a year, so a torn one would stay.
ServedThumbIsWhole ==
    \A a \in Asset : thumb[a][row[a].key] \in {"none", "whole"}

\* A row is ready only when its thumbnail is there, unless its key changed while a
\* job of the old key was running.
ReadyHasThumbUnlessRaced ==
    \A a \in Asset : row[a].status = "ready" /\ ~raced[a] => thumb[a][row[a].key] # "none"

Calm == mounted /\ ~scan
BreaksNoMore == [][\A w \in Worker : ~Cancelled(w) => ~RenderFails(w)]_vars

\* No thumbnail is left unfinished for ever: after dropped tasks, lost deferred
\* work, stops and restarts the supervisor finds the row again, and once the
\* command no longer breaks the row becomes ready (or stays failed).
Settles == \A a \in Asset : (<>[]Calm /\ <>BreaksNoMore) => []<>(~Unfinished(a))

=============================================================================
