---------------------------- MODULE AIPipeline ----------------------------
(***************************************************************************)
(* Analysis of media by the AI service: result rows, staged input frames,  *)
(* the handler of ai_analyze tasks, the backfill loop, and the user's      *)
(* start, stop, reanalyse, reindex and retry.                              *)
(*                                                                         *)
(* An asset's cache key is the version the scanner last saw.  The handler  *)
(* and the backfill loop read rows at one moment and write at another; all *)
(* database statements are single steps, as they are in the code.          *)
(***************************************************************************)
EXTENDS Integers, FiniteSets

CONSTANTS Assets, Workers, Nodes,
          None,          \* no worker, no task
          MaxKey,        \* versions of an asset
          AIMaxAttempts, \* db.AIMaxAttempts
          MaxRetries,    \* jobs.MaxAutomaticRetries
          Menu,          \* bound: which user requests and restarts are made
          MaxTriggers,   \* bound: how many of them
          MaxTrouble     \* bound: preemptions, outages, evictions

ASSUME ConstantsAssumption ==
    /\ MaxKey \in Nat \ {0} /\ AIMaxAttempts \in Nat \ {0}
    /\ MaxRetries \in Nat /\ MaxTriggers \in Nat /\ MaxTrouble \in Nat
    /\ None \notin Workers
    /\ Menu \subseteq {"start", "stop", "reanalyze", "reindex", "retry", "restart"}

VARIABLES
    key,        \* media_asset.cache_key
    row,        \* asset_ai_result
    stage,      \* asset_ai_stage; key 0 means there is no row
    dir,        \* ai-staging directory of an asset and key
    auto, manual,               \* settings
    queue, claimed, delayed,    \* tasks of type ai_analyze
    w,          \* what each worker is doing
    slot,       \* worker that holds a compute node
    halted,     \* nodes whose service is PAUSED
    up, source, priority,       \* node health, storage, playback or media work
    batch, fill,                \* backfill: its items, and what it prepares
    stopAt, doomed,             \* a stop in progress and the stages it listed
    triggers, trouble,
    lost,       \* history: a failure report that was never written
    basis       \* history: key of the frames behind a saved result

data == <<key, row, stage, dir, basis, lost>>
jobs == <<queue, claimed, delayed>>
env  == <<up, source, priority, trouble>>
loop == <<batch, fill>>
user == <<auto, manual, stopAt, doomed, triggers>>
vars == <<data, jobs, w, slot, halted, env, loop, user>>

Keys  == 1 .. MaxKey
\* Attempts are only compared with AIMaxAttempts; above it they are not told apart.
AttemptCap == AIMaxAttempts + 1
Task  == [asset : Assets, urgent : BOOLEAN, attempt : 0 .. MaxRetries]
Item  == [asset : Assets, key : Keys]
Phases == {"node", "health", "recheck", "prepare", "extract",
           "adopt", "analyse", "save", "return"}
Outcomes == {"", "done", "kept", "retry", "preempted"}

Enabled == auto \/ manual
Idle(x) == w[x].at = "idle"
Resting == [at |-> "idle", task |-> None, key |-> 1, node |-> None,
            tried |-> {}, cause |-> "", out |-> "", staged |-> FALSE, stale |-> FALSE]

TypeOK ==
    /\ key \in [Assets -> Keys]
    /\ row \in [Assets -> [key : Keys, attempts : 0 .. AttemptCap,
                           status : {"none", "pending", "processing", "failed", "ready"}]]
    /\ stage \in [Assets -> [key : 0 .. MaxKey, state : {"ready", "processing"}]]
    /\ dir \in [Assets \X Keys -> {"none", "partial", "whole"}]
    /\ auto \in BOOLEAN /\ manual \in BOOLEAN
    /\ queue \subseteq Task /\ delayed \subseteq Task /\ claimed \subseteq Assets
    /\ w \in [Workers -> [at : Phases \cup {"idle"}, task : Task \cup {None}, key : Keys,
                          node : Nodes \cup {None}, tried : SUBSET Nodes,
                          cause : {"", "priority", "stopped"}, out : Outcomes,
                          staged : BOOLEAN, stale : BOOLEAN]]
    /\ slot \in [Nodes -> Workers \cup {None}]
    /\ halted \subseteq Nodes /\ up \subseteq Nodes
    /\ source \in BOOLEAN /\ priority \in BOOLEAN
    /\ batch \subseteq Item
    /\ fill \in [at : {"idle", "extract", "result", "finish"}, asset : Assets, key : Keys, old : Keys]
    /\ stopAt \in {"", "clear", "cancel", "pause", "list", "remove"}
    /\ doomed \subseteq Item
    /\ triggers \in 0 .. MaxTriggers /\ trouble \in 0 .. MaxTrouble
    /\ lost \subseteq Assets
    /\ basis \in [Assets -> 0 .. MaxKey]

Init ==
    /\ key = [a \in Assets |-> 1]
    /\ row = [a \in Assets |-> [key |-> 1, attempts |-> 0, status |-> "none"]]
    /\ stage = [a \in Assets |-> [key |-> 0, state |-> "ready"]]
    /\ dir = [d \in Assets \X Keys |-> "none"]
    /\ auto \in BOOLEAN /\ manual = FALSE
    /\ queue = {} /\ claimed = {} /\ delayed = {}
    /\ w = [x \in Workers |-> Resting]
    /\ slot = [n \in Nodes |-> None]
    /\ halted = {} /\ up = Nodes /\ source = TRUE /\ priority = FALSE
    /\ batch = {}
    /\ fill = [at |-> "idle", asset |-> CHOOSE a \in Assets : TRUE, key |-> 1, old |-> 1]
    /\ stopAt = "" /\ doomed = {}
    /\ triggers = 0 /\ trouble = 0
    /\ lost = {} /\ basis = [a \in Assets |-> 0]

-----------------------------------------------------------------------------
(* Result rows.  EnsureAIQueued without force leaves a row of the same key *)
(* alone; with force it starts the row over.                               *)

Pending(k) == [key |-> k, attempts |-> 0, status |-> "pending"]
EnsureQueued(r, k) == IF r.status = "none" \/ r.key # k THEN Pending(k) ELSE r

\* Mutant: another version's row counts.
ProcessingAnyKey(a, k) == row[a].status = "processing"
Processing(a, k) == row[a].key = k /\ row[a].status = "processing"
Processed(r) == [r EXCEPT !.status = "processing", !.attempts = IF @ = AttemptCap THEN @ ELSE @ + 1]

\* Mutant: interrupted work leaves its row as it is.
RequeueNothing(a, k) == UNCHANGED row
RequeueInterrupted(a, k) ==
    row' = IF Processing(a, k)
             THEN [row EXCEPT ![a].status = "pending",
                              ![a].attempts = IF @ = 0 THEN 0 ELSE @ - 1]
             ELSE row

\* Mutant: rows that were put back are overlooked.
UnfinishedNewOnly == {i \in Item : i.key = key[i.asset] /\ row[i.asset].status = "none"}
\* AIBackfillBatch: nothing yet, another version, or pending.
Unfinished == {i \in Item : /\ i.key = key[i.asset]
                            /\ \/ row[i.asset].status \in {"none", "pending"}
                               \/ row[i.asset].key # i.key}

-----------------------------------------------------------------------------
(* Staged input.  Stager.Prepare holds a lock per key and pins the         *)
(* directory; the pin ends when Prepare returns.                           *)

Staged(a, k) == stage[a].key = k
Reusable(a, k) == Staged(a, k) /\ stage[a].state = "ready" /\ dir[<<a, k>>] = "whole"
Extracting(a, k) ==
    \/ \E x \in Workers : w[x].at = "extract" /\ w[x].task.asset = a /\ w[x].key = k
    \/ fill.at = "extract" /\ fill.asset = a /\ fill.key = k
Holds(x, a, k) == w[x].staged /\ w[x].task.asset = a /\ w[x].key = k
Pinned(a, k) == Extracting(a, k) \/ \E x \in Workers : Holds(x, a, k)

NoStage(a) == [stage EXCEPT ![a] = [key |-> 0, state |-> "ready"]]

RestoreStage(a, k) == IF Staged(a, k) THEN [stage EXCEPT ![a].state = "ready"] ELSE stage

\* Stager.Remove deletes the directory and whatever row the asset has.
RemoveStage(a, k) == dir' = [dir EXCEPT ![<<a, k>>] = "none"] /\ stage' = NoStage(a)

\* A ready row whose directory is not valid is removed first.
BeginExtract(a, k) ==
    /\ dir' = [dir EXCEPT ![<<a, k>>] = "partial"]
    /\ stage' = IF Staged(a, k) /\ stage[a].state = "ready" THEN NoStage(a) ELSE stage

EndExtract(a, k) ==
    /\ dir[<<a, k>>] = "partial"
    /\ dir' = [dir EXCEPT ![<<a, k>>] = "whole"]
    /\ stage' = [stage EXCEPT ![a] = [key |-> k, state |-> "ready"]]

FailExtract(a, k) == dir' = [dir EXCEPT ![<<a, k>>] = "none"] /\ UNCHANGED stage

-----------------------------------------------------------------------------
(* The queue: Manager.Enqueue and the requeue after a result, in one step. *)

Enqueue(t) ==
    IF t.asset \notin claimed
      THEN queue' = queue \cup {t} /\ claimed' = claimed \cup {t.asset}
      ELSE /\ queue' = IF t.urgent /\ \E q \in queue : q.asset = t.asset
                         THEN {q \in queue : q.asset # t.asset} \cup {t} ELSE queue
           /\ UNCHANGED claimed

\* requeueAfterResult: urgent work and work of an older generation is not retried.
MayRetry(x) == w[x].out = "retry" /\ ~w[x].task.urgent /\ ~w[x].stale /\ w[x].task.attempt < MaxRetries

RetryFires(t) ==
    /\ t \in delayed /\ delayed' = delayed \ {t}
    /\ Enqueue(t)
    /\ UNCHANGED <<data, w, slot, halted, env, loop, user>>

-----------------------------------------------------------------------------
(* Processor.Handle, one action per call that others can come between.     *)

Go(x, at) == w' = [w EXCEPT ![x].at = at]
Leave(x, out) == w' = [w EXCEPT ![x].at = "return", ![x].out = out]
Asset(x) == w[x].task.asset
Cancelled(x) == w[x].cause # ""
KeepsJobs == UNCHANGED <<jobs, env, loop, user>>

\* A worker takes a task.  A task that may not run any more, or whose storage
\* is away, ends at once; its key is not claimed any longer.
Begin(x) ==
    /\ Idle(x)
    /\ \E t \in queue :
        /\ queue' = queue \ {t}
        /\ IF (~t.urgent /\ ~Enabled) \/ ~source
             THEN claimed' = claimed \ {t.asset} /\ UNCHANGED w
             ELSE /\ w' = [w EXCEPT ![x] = [Resting EXCEPT !.at = "node", !.task = t,
                                                          !.key = key[t.asset]]]
                  /\ UNCHANGED claimed
    /\ UNCHANGED <<data, delayed, slot, halted, env, loop, user>>

\* Mutant: a node takes any number of requests.
AnyNode(n) == TRUE
FreeNode(n) == slot[n] = None

\* acquireNode; acquireHealthyNode then tells the service to resume.
TakeNode(x, n) ==
    /\ w[x].at = "node" /\ FreeNode(n) /\ n \notin w[x].tried
    /\ slot' = [slot EXCEPT ![n] = x]
    /\ halted' = halted \ IF n \in up THEN {n} ELSE {}
    /\ w' = [w EXCEPT ![x].at = "health", ![x].node = n]
    /\ UNCHANGED data /\ KeepsJobs

\* acquireNode looks for a free slot before it looks at the context.
NoNode(x) ==
    /\ w[x].at = "node" /\ Cancelled(x)
    /\ \A n \in Nodes \ w[x].tried : slot[n] # None
    /\ Leave(x, IF w[x].cause = "priority" THEN "preempted" ELSE "done")
    /\ UNCHANGED <<data, slot, halted>> /\ KeepsJobs

\* The next node is tried; after the last one the task is retried, or
\* dropped when waiting for health ended with the context.
Unhealthy(x) ==
    LET n == w[x].node IN
    /\ w[x].at = "health" /\ (n \notin up \/ Cancelled(x))
    /\ slot' = [slot EXCEPT ![n] = None]
    /\ w' = [w EXCEPT ![x].node = None, ![x].tried = @ \cup {n},
                      ![x].at = IF Nodes = w[x].tried \cup {n} THEN "return" ELSE "node",
                      ![x].out = IF Cancelled(x) THEN "done" ELSE "retry"]
    /\ UNCHANGED <<data, halted>> /\ KeepsJobs

\* A healthy node is kept; EnsureAIQueued, then MarkAIProcessing, which
\* refuses rows that are ready or that another handler has.
MarkProcessing(x) ==
    LET a == Asset(x)  r == EnsureQueued(row[a], w[x].key) IN
    /\ w[x].at = "health" /\ w[x].node \in up /\ ~Cancelled(x)
    /\ IF r.status \in {"pending", "failed"}
         THEN row' = [row EXCEPT ![a] = Processed(r)] /\ Go(x, "recheck")
         ELSE UNCHANGED row /\ Leave(x, "done")
    /\ UNCHANGED <<key, stage, dir, basis, lost, slot, halted>> /\ KeepsJobs

\* interrupt: pause the service when the work gives way to other work or is
\* stopped, put the row back, keep the stage.
Interrupt(x, out, pausesNode) ==
    /\ halted' = halted \cup IF pausesNode /\ w[x].node \in up THEN {w[x].node} ELSE {}
    /\ RequeueInterrupted(Asset(x), w[x].key)
    /\ Leave(x, out)

GiveWay(x) == Interrupt(x, IF w[x].cause = "priority" THEN "preempted" ELSE "kept", TRUE)

\* fail: the report is written with the task's own context, and when that has
\* been cancelled the row stays in processing.
Fail(x, retryable) ==
    LET a == Asset(x)  reported == Processing(a, w[x].key) IN
    IF Cancelled(x)
      THEN /\ lost' = IF reported THEN lost \cup {a} ELSE lost
           /\ UNCHANGED row /\ Leave(x, "kept")
      ELSE /\ row' = IF reported THEN [row EXCEPT ![a].status = "failed"] ELSE row
           /\ UNCHANGED lost
           /\ Leave(x, IF retryable /\ reported /\ row[a].attempts < AIMaxAttempts
                        THEN "retry" ELSE "done")

Recheck(x) ==
    /\ w[x].at = "recheck"
    /\ \/ ~w[x].task.urgent /\ ~Enabled /\ Interrupt(x, "kept", FALSE) /\ UNCHANGED lost
       \/ (w[x].task.urgent \/ Enabled) /\ Cancelled(x) /\ Fail(x, TRUE) /\ UNCHANGED halted
       \/ (w[x].task.urgent \/ Enabled) /\ ~Cancelled(x) /\ Go(x, "prepare")
          /\ UNCHANGED <<row, lost, halted>>
    /\ UNCHANGED <<key, stage, dir, basis, slot>> /\ KeepsJobs

Prepare(x) ==
    LET a == Asset(x)  k == w[x].key IN
    /\ w[x].at = "prepare" /\ ~Extracting(a, k)
    /\ IF Reusable(a, k)
         THEN Go(x, "adopt") /\ UNCHANGED <<stage, dir>>
         ELSE Go(x, "extract") /\ BeginExtract(a, k)
    /\ UNCHANGED <<key, row, basis, lost, slot, halted>> /\ KeepsJobs

Extracted(x) ==
    /\ w[x].at = "extract" /\ source /\ ~Cancelled(x)
    /\ EndExtract(Asset(x), w[x].key) /\ Go(x, "adopt")
    /\ UNCHANGED <<key, row, basis, lost, slot, halted>> /\ KeepsJobs

ExtractFails(x) ==
    /\ w[x].at = "extract"
    /\ FailExtract(Asset(x), w[x].key)
    /\ \/ Cancelled(x) /\ GiveWay(x) /\ UNCHANGED lost
       \/ ~Cancelled(x) /\ ~source /\ Interrupt(x, "kept", FALSE) /\ UNCHANGED lost
       \/ ~Cancelled(x) /\ source /\ Fail(x, TRUE) /\ UNCHANGED halted
    /\ UNCHANGED <<key, basis, slot>> /\ KeepsJobs

\* MarkAIStageProcessing and Pin.  The row may be gone by now.
Adopt(x) ==
    /\ w[x].at = "adopt"
    /\ stage' = IF Staged(Asset(x), w[x].key)
                  THEN [stage EXCEPT ![Asset(x)].state = "processing"] ELSE stage
    /\ w' = [w EXCEPT ![x].at = "analyse", ![x].staged = TRUE]
    /\ UNCHANGED <<key, row, dir, basis, lost, slot, halted>> /\ KeepsJobs

\* The answer of the service to /analyze.
Analysed(x) ==
    /\ w[x].at = "analyse" /\ ~Cancelled(x)
    /\ w[x].node \in up \ halted /\ dir[<<Asset(x), w[x].key>>] = "whole"
    /\ Go(x, "save")
    /\ UNCHANGED <<data, slot, halted>> /\ KeepsJobs

AnalysisFails(x) ==
    /\ w[x].at = "analyse"
    /\ \/ Cancelled(x) /\ GiveWay(x) /\ UNCHANGED lost
       \/ Cancelled(x) /\ Fail(x, TRUE) /\ UNCHANGED halted  \* answer cut off
       \/ /\ ~Cancelled(x) /\ w[x].node \in halted
          /\ Interrupt(x, "preempted", TRUE) /\ UNCHANGED lost
       \/ /\ ~Cancelled(x) /\ w[x].node \notin up         \* requeueNodeFailure
          /\ Interrupt(x, "retry", FALSE) /\ UNCHANGED lost
       \/ \E retryable \in BOOLEAN :                       \* transient, or the media
          /\ ~Cancelled(x) /\ w[x].node \in up \ halted
          /\ dir[<<Asset(x), w[x].key>>] # "whole" => ~retryable
          /\ Fail(x, retryable) /\ UNCHANGED halted
    /\ UNCHANGED <<key, stage, dir, basis, slot>> /\ KeepsJobs

SaveResult(x) ==
    LET a == Asset(x)  k == w[x].key IN
    /\ w[x].at = "save"
    /\ IF Cancelled(x)
         THEN GiveWay(x) /\ UNCHANGED basis
         ELSE /\ IF Processing(a, k)
                   THEN /\ row' = [row EXCEPT ![a].status = "ready"]
                        /\ basis' = [basis EXCEPT ![a] = k]
                   ELSE UNCHANGED <<row, basis>>
              /\ Leave(x, "done") /\ UNCHANGED halted
    /\ UNCHANGED <<key, stage, dir, lost, slot>> /\ KeepsJobs

\* Deferred calls of Handle: the stage is kept for another attempt or removed,
\* pin and slot are given back.  requeueAfterResult: preempted work goes back
\* to the queue, retryable work waits.
Return(x) ==
    LET a == Asset(x)  k == w[x].key  t == w[x].task IN
    /\ w[x].at = "return"
    /\ IF w[x].staged /\ w[x].out = "done" THEN RemoveStage(a, k)
       ELSE /\ stage' = IF w[x].staged THEN RestoreStage(a, k) ELSE stage
            /\ UNCHANGED dir
    /\ slot' = [n \in Nodes |-> IF slot[n] = x THEN None ELSE slot[n]]
    /\ w' = [w EXCEPT ![x] = Resting]
    /\ IF w[x].out = "preempted"
         THEN /\ claimed' = claimed \cup {a}
              /\ queue' = IF \E q \in queue : q.asset = a THEN queue ELSE queue \cup {t}
         ELSE claimed' = claimed \ {a} /\ UNCHANGED queue
    /\ delayed' = IF MayRetry(x) THEN delayed \cup {[t EXCEPT !.attempt = @ + 1]} ELSE delayed
    /\ UNCHANGED <<key, row, basis, lost, halted, env, loop, user>>

\* cancelForHigherPriorityWork: the first cause stays.
Preempt(x) ==
    /\ ~Idle(x) /\ priority /\ ~Cancelled(x) /\ w[x].at # "return"
    /\ w' = [w EXCEPT ![x].cause = "priority"]
    /\ UNCHANGED <<data, slot, halted>> /\ KeepsJobs

WorkerStep(x) ==
    \/ Begin(x) \/ NoNode(x) \/ Unhealthy(x)
    \/ (\E n \in Nodes : TakeNode(x, n))
    \/ MarkProcessing(x) \/ Recheck(x) \/ Prepare(x) \/ Extracted(x) \/ ExtractFails(x)
    \/ Adopt(x) \/ Analysed(x) \/ AnalysisFails(x) \/ SaveResult(x) \/ Return(x)

-----------------------------------------------------------------------------
(* enqueueAIBackfill: it works through items it read in one query, prepares *)
(* input for those that have none and enqueues the others.                  *)

Filling(at, a, k, old) == fill' = [at |-> at, asset |-> a, key |-> k, old |-> old]
FillRests == fill' = [fill EXCEPT !.at = "idle"]
FillKeeps == UNCHANGED <<w, slot, halted, env, delayed>>

\* Mutant: the loop does not ask whether analysis is enabled.
BackfillWhenCalm == ~priority
BackfillOpen == Enabled /\ ~priority

\* A manual run without items is over; the settings are those read before.
BackfillScan ==
    /\ fill.at = "idle" /\ batch = {} /\ BackfillOpen
    /\ IF Unfinished # {} THEN batch' = Unfinished /\ UNCHANGED fill
       ELSE /\ manual /\ fill' = [fill EXCEPT !.at = "finish"] /\ UNCHANGED batch
    /\ UNCHANGED <<data, queue, claimed, user>> /\ FillKeeps

FinishManualRun ==
    /\ fill.at = "finish" /\ FillRests
    /\ manual' = FALSE
    /\ UNCHANGED <<data, queue, claimed, batch, auto, stopAt, doomed, triggers>> /\ FillKeeps

EnqueueStage(a, k) ==
    /\ row' = [row EXCEPT ![a] = EnsureQueued(@, k)]
    /\ Enqueue([asset |-> a, urgent |-> FALSE, attempt |-> 0])

\* An item with a ready stage is enqueued; otherwise its input is prepared,
\* for the key the asset has by now.
FillItem(i) ==
    LET a == i.asset  k == key[a] IN
    /\ fill.at = "idle" /\ i \in batch
    /\ IF Staged(a, i.key) /\ stage[a].state = "ready"
         THEN /\ EnqueueStage(a, i.key) /\ batch' = batch \ {i}
              /\ UNCHANGED <<fill, stage, dir>>
         ELSE /\ ~Extracting(a, k) /\ UNCHANGED <<row, queue, claimed>>
              /\ IF ~source \/ priority \/ ~Enabled
                   THEN batch' = {} /\ UNCHANGED <<fill, stage, dir>>
                   ELSE IF Reusable(a, k)
                   THEN Filling("result", a, k, i.key) /\ UNCHANGED <<batch, stage, dir>>
                   ELSE Filling("extract", a, k, i.key) /\ BeginExtract(a, k) /\ UNCHANGED batch
    /\ UNCHANGED <<key, basis, lost, user>> /\ FillKeeps

Filled ==
    /\ fill.at = "extract" /\ source /\ Enabled
    /\ EndExtract(fill.asset, fill.key) /\ fill' = [fill EXCEPT !.at = "result"]
    /\ UNCHANGED <<key, row, basis, lost, queue, claimed, batch, user>> /\ FillKeeps

\* Stopped, preempted or without storage: the batch ends.
FillCancelled ==
    /\ fill.at = "extract" /\ (~Enabled \/ priority \/ ~source)
    /\ FailExtract(fill.asset, fill.key) /\ FillRests /\ batch' = {}
    /\ UNCHANGED <<key, row, basis, lost, queue, claimed, user>> /\ FillKeeps

\* Any other error, a debug pause among them, fails the item.
FillFails ==
    LET a == fill.asset  r == EnsureQueued(row[a], fill.old) IN
    /\ fill.at = "extract" /\ source
    /\ FailExtract(a, fill.key) /\ FillRests
    /\ batch' = {i \in batch : i.asset # a}
    /\ row' = [row EXCEPT ![a] =
                 IF r.status \in {"pending", "failed"} THEN [Processed(r) EXCEPT !.status = "failed"]
                 ELSE IF r.status = "processing" THEN [r EXCEPT !.status = "failed"] ELSE r]
    /\ UNCHANGED <<key, basis, lost, queue, claimed, user>> /\ FillKeeps

FillResult ==
    /\ fill.at = "result" /\ FillRests
    /\ IF Enabled
         THEN /\ EnqueueStage(fill.asset, fill.old) /\ UNCHANGED <<stage, dir>>
              /\ batch' = {i \in batch : i.asset # fill.asset}
         ELSE /\ RemoveStage(fill.asset, fill.key) /\ batch' = {}
              /\ UNCHANGED <<row, queue, claimed>>
    /\ UNCHANGED <<key, basis, lost, user>> /\ FillKeeps

Backfill ==
    \/ BackfillScan \/ FinishManualRun \/ (\E i \in Item : FillItem(i))
    \/ Filled \/ FillCancelled \/ FillFails \/ FillResult

-----------------------------------------------------------------------------
(* What users do.                                                          *)

Trigger(kind) == kind \in Menu /\ triggers < MaxTriggers /\ triggers' = triggers + 1
UserKeeps == UNCHANGED <<slot, env, loop>>

\* enqueueAIBackfillNow makes sure of the rows; the loop enqueues them.
EnsureAll == row' = [a \in Assets |-> EnsureQueued(row[a], key[a])]

Start ==
    /\ Trigger("start")
    /\ \/ auto' = TRUE /\ manual' = FALSE
       \/ manual' = TRUE /\ UNCHANGED auto
    /\ EnsureAll
    /\ UNCHANGED <<key, stage, dir, basis, lost, jobs, w, halted, stopAt, doomed>> /\ UserKeeps

\* Reindexing starts every row over, those that are being worked on too.
Reindex ==
    /\ Trigger("reindex") /\ manual' = TRUE
    /\ row' = [a \in Assets |-> Pending(key[a])]
    /\ UNCHANGED <<key, stage, dir, basis, lost, jobs, w, halted, auto, stopAt, doomed>> /\ UserKeeps

Reanalyze(a) ==
    /\ Trigger("reanalyze") /\ row' = [row EXCEPT ![a] = Pending(key[a])]
    /\ Enqueue([asset |-> a, urgent |-> TRUE, attempt |-> 0])
    /\ UNCHANGED <<key, stage, dir, basis, lost, delayed, w, halted, auto, manual, stopAt, doomed>>
    /\ UserKeeps

RetryFailed ==
    /\ Trigger("retry")
    /\ \E a \in Assets : row[a].status = "failed"
    /\ row' = [a \in Assets |-> IF row[a].status = "failed" /\ row[a].key = key[a]
                                 THEN Pending(key[a]) ELSE row[a]]
    /\ UNCHANGED <<key, stage, dir, basis, lost, jobs, w, halted, auto, manual, stopAt, doomed>> /\ UserKeeps

\* The stop handler: settings, queue, running work, services, ready stages.
Stop ==
    /\ stopAt = "" /\ Trigger("stop") /\ auto' = FALSE /\ manual' = FALSE /\ stopAt' = "clear"
    /\ UNCHANGED <<data, jobs, w, halted, doomed>> /\ UserKeeps

StopStep ==
    /\ \/ /\ stopAt = "clear" /\ stopAt' = "cancel"
          /\ queue' = {} /\ claimed' = {} /\ delayed' = {}
          /\ w' = [x \in Workers |-> IF Idle(x) THEN w[x] ELSE [w[x] EXCEPT !.stale = TRUE]]
          /\ UNCHANGED <<data, halted, doomed>>
       \/ /\ stopAt = "cancel" /\ stopAt' = "pause"
          /\ w' = [x \in Workers |-> IF Idle(x) \/ Cancelled(x) \/ w[x].at = "return" THEN w[x]
                                     ELSE [w[x] EXCEPT !.cause = "stopped"]]
          /\ UNCHANGED <<data, jobs, halted, doomed>>
       \/ /\ stopAt = "pause" /\ stopAt' = "list" /\ halted' = halted \cup up
          /\ UNCHANGED <<data, jobs, w, doomed>>
       \/ /\ stopAt = "list" /\ stopAt' = "remove"
          /\ doomed' = {i \in Item : Staged(i.asset, i.key) /\ stage[i.asset].state = "ready"}
          /\ UNCHANGED <<data, jobs, w, halted>>
       \/ /\ stopAt = "remove" /\ doomed # {} /\ UNCHANGED stopAt
          /\ \E i \in doomed : doomed' = doomed \ {i} /\ RemoveStage(i.asset, i.key)
          /\ UNCHANGED <<key, row, basis, lost, jobs, w, halted>>
       \/ /\ stopAt = "remove" /\ doomed = {} /\ stopAt' = ""
          /\ UNCHANGED <<data, jobs, w, halted, doomed>>
    /\ UNCHANGED <<auto, manual, triggers>> /\ UserKeeps

-----------------------------------------------------------------------------
(* The environment.                                                        *)

\* A scan records a new version of the file.
Rescan(a) ==
    /\ key[a] < MaxKey /\ key' = [key EXCEPT ![a] = @ + 1]
    /\ UNCHANGED <<row, stage, dir, basis, lost, jobs, w, slot, halted, env, loop, user>>

Trouble == trouble < MaxTrouble /\ trouble' = trouble + 1
RaisePriority == ~priority /\ Trouble /\ priority' = TRUE /\ UNCHANGED <<up, source>>
LowerPriority == priority /\ priority' = FALSE /\ UNCHANGED <<up, source, trouble>>
StorageFails  == source /\ Trouble /\ source' = FALSE /\ UNCHANGED <<up, priority>>
StorageReturns == ~source /\ source' = TRUE /\ UNCHANGED <<up, priority, trouble>>
NodeFails(n) == n \in up /\ Trouble /\ up' = up \ {n} /\ UNCHANGED <<source, priority>>
NodeReturns(n) == n \notin up /\ up' = up \cup {n} /\ UNCHANGED <<source, priority, trouble>>

Signals ==
    /\ \/ RaisePriority \/ LowerPriority \/ StorageFails \/ StorageReturns
       \/ \E n \in Nodes : NodeFails(n) \/ NodeReturns(n)
    /\ UNCHANGED <<data, jobs, w, slot, halted, loop, user>>

\* Manager.EnsureCapacity takes an unpinned stage directory and its rows.
Evict(a, k) ==
    /\ dir[<<a, k>>] # "none" /\ ~Pinned(a, k) /\ Trouble
    /\ dir' = [dir EXCEPT ![<<a, k>>] = "none"]
    /\ stage' = IF Staged(a, k) THEN NoStage(a) ELSE stage
    /\ UNCHANGED <<key, row, basis, lost, jobs, w, slot, halted, up, source, priority, loop, user>>

\* Stager.CleanupAbandoned: rows without a valid directory unless they are in
\* use, and old directories without a row.  Pins are not asked for.
CleanupAbandoned(a, k) ==
    /\ ~Extracting(a, k)
    /\ \/ Staged(a, k) /\ stage[a].state = "ready" /\ dir[<<a, k>>] # "whole"
       \/ ~Staged(a, k) /\ dir[<<a, k>>] # "none"
    /\ dir' = [dir EXCEPT ![<<a, k>>] = "none"]
    /\ stage' = IF Staged(a, k) THEN NoStage(a) ELSE stage
    /\ UNCHANGED <<key, row, basis, lost, jobs, w, slot, halted, env, loop, user>>

\* A crash and the next start: CleanupInterrupted, ClearAIQueue,
\* ResetAIProcessing, before any worker runs.
Restart ==
    LET keeps(a) == stage[a].key # 0 /\ stage[a].state = "ready" /\ Enabled IN
    /\ Trigger("restart")
    /\ stage' = [a \in Assets |-> IF keeps(a) THEN stage[a] ELSE [key |-> 0, state |-> "ready"]]
    /\ dir' = [d \in Assets \X Keys |-> IF keeps(d[1]) /\ stage[d[1]].key = d[2]
                                           THEN dir[d] ELSE "none"]
    /\ row' = [a \in Assets |-> IF row[a].status = "processing"
                                 THEN [row[a] EXCEPT !.status = "pending"] ELSE row[a]]
    /\ queue' = {} /\ claimed' = {} /\ delayed' = {}
    /\ w' = [x \in Workers |-> Resting] /\ slot' = [n \in Nodes |-> None]
    /\ batch' = {} /\ FillRests /\ stopAt' = "" /\ doomed' = {} /\ lost' = {}
    /\ UNCHANGED <<key, basis, halted, auto, manual, env>>

Next ==
    \/ \E x \in Workers : WorkerStep(x) \/ Preempt(x)
    \/ \E t \in delayed : RetryFires(t)
    \/ Backfill \/ StopStep \/ Signals \/ Restart
    \/ Start \/ Reindex \/ RetryFailed \/ Stop
    \/ \E a \in Assets : Reanalyze(a) \/ Rescan(a)
    \/ \E a \in Assets, k \in Keys : Evict(a, k) \/ CleanupAbandoned(a, k)

Fairness ==
    /\ \A x \in Workers : WF_vars(WorkerStep(x)) /\ SF_vars(Extracted(x)) /\ SF_vars(Analysed(x))
    /\ \A x \in Workers : WF_vars(Preempt(x))
    /\ WF_vars(Backfill) /\ SF_vars(Filled) /\ WF_vars(StopStep)
    /\ WF_vars(\E t \in delayed : RetryFires(t))

Spec == Init /\ [][Next]_vars /\ Fairness

-----------------------------------------------------------------------------
(* What is in processing belongs to a handler: a row to one that will      *)
(* report on it, unless a report was lost to a cancelled context           *)
(* (Processor.fail), and a stage to one that uses it.  Nothing else picks  *)
(* such a row up before the next start, and neither the clean-up nor the   *)
(* backfill loop would ever free such a stage.                             *)
Reporting == {"recheck", "prepare", "extract", "adopt", "analyse", "save"}
ProcessingIsHeld ==
    \A a \in Assets :
        /\ row[a].status = "processing" =>
             \/ a \in lost
             \/ \E x \in Workers : /\ w[x].at \in Reporting
                                    /\ w[x].task.asset = a /\ w[x].key = row[a].key
        /\ stage[a].key # 0 /\ stage[a].state = "processing" =>
             \E x \in Workers : Holds(x, a, stage[a].key)

(* A result was computed from frames of the version it is recorded for,    *)
(* whatever scans, stops, reindexing and second handlers came in between.  *)
ReadyMatchesInput ==
    \A a \in Assets : row[a].status = "ready" => basis[a] = row[a].key

(* An analysis in progress is halted at its node by nobody but its own     *)
(* handler or a user's stop: a handler that gives way pauses a node that   *)
(* no other handler is using.                                              *)
OnlyStopHaltsOthers ==
    [][\A x \in Workers :
         /\ w[x].at = "analyse" /\ w'[x].at = "analyse"
         /\ w[x].node \notin halted /\ w[x].node \in halted'
         => stopAt = "pause"]_vars

(* While analysis is enabled and the machine is calm, every item ends with *)
(* a result or a failure of its current version, but for lost reports.     *)
Calm == ~priority /\ source /\ up = Nodes
Settled(a) == row[a].key = key[a] /\ row[a].status \in {"ready", "failed"}
Settles ==
    <>[](Calm /\ Enabled /\ stopAt = "") => <>[](\A a \in Assets : Settled(a) \/ a \in lost)

(* After a stop everything comes to rest, requeued and urgent work too.    *)
Rests ==
    <>[](~priority /\ ~Enabled /\ stopAt = "") =>
        <>[](queue = {} /\ delayed = {} /\ fill.at = "idle" /\ \A x \in Workers : Idle(x))

=============================================================================
