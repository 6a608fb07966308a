------------------------------- MODULE JobQueue -------------------------------
(***************************************************************************)
(* The job manager of src/backend/internal/jobs/jobs.go in its Redis mode: *)
(* one Redis list per task type, the shared dedupe set, the workers that   *)
(* block on the lists, the priority monitor that preempts running media    *)
(* work, the requeue and delayed-retry paths, the user's stop (clear the   *)
(* lists, cancel what runs), the debug pause and a restart of the process. *)
(*                                                                         *)
(* Every Redis call is a step of its own: claiming the dedupe key, pushing *)
(* the entry, promoting an entry, reading the dedupe set before a clear.   *)
(***************************************************************************)
EXTENDS Integers, Sequences, FiniteSets, SequencesExt

CONSTANTS
    TaskType,            \* the task types of the instance
    Subject,             \* asset ids of media tasks, root lists of control tasks
    Worker, Caller,      \* worker goroutines; other goroutines that call Enqueue
    Serves,              \* worker -> its queues in BLPOP order
    BlockedBy,           \* worker -> the queues whose backlog keeps it waiting
    Request,             \* what the rest of the program may ask: [type, subject, prio]
    Signals,             \* the priority signals that may be raised in this instance
    StopGroups,          \* the sets of types that one user stop clears and cancels
    Capacity,            \* slots of the resource limiter
    MaxAutomaticRetries, \* 3 in the code
    MaxSubmits,          \* bound: Enqueue calls by the rest of the program
    MaxStops,            \* bound: user stops
    MaxRestarts,         \* bound: restarts of the process
    NoTask

MediaType == {"thumb", "preview", "video_poster", "storyboard", "ai_analyze"}
KeyedControlType == {"scan_count", "scan_reconcile", "scan_media", "scan_metadata",
                     "scan_metadata_paths", "thumb_continue", "thumb_rebuild"}
PlainControlType == {"scan", "scan_roots", "scan_rebuild", "scan_stop"}
ControlType == KeyedControlType \cup PlainControlType

Urgent(prio) == 0 < prio /\ prio < 100

Task == [type: TaskType, subject: Subject, prio: Nat,
         attempt: 0..MaxAutomaticRetries, gen: Nat]
Proc == Worker \cup Caller

ASSUME ConstantsAssumption ==
    /\ TaskType \subseteq MediaType \cup ControlType
    /\ Worker \cap Caller = {}
    /\ Serves \in [Worker -> Seq(TaskType)]
    /\ BlockedBy \in [Worker -> SUBSET TaskType]
    /\ Request \subseteq [type: TaskType, subject: Subject, prio: Nat]
    /\ Signals \subseteq {"scan", "playback", "pause"}
    /\ StopGroups \subseteq SUBSET TaskType
    /\ Capacity \in Nat \ {0}
    /\ {MaxAutomaticRetries, MaxSubmits, MaxStops, MaxRestarts} \subseteq Nat
    /\ NoTask \notin Task

\* The pools of Manager.Start: each pool waits for the types of the pools before
\* it, every type has a worker (startRedisWorkers starts at least one), and the AI
\* workers do nothing else.
Level(type) ==
    CASE type \in ControlType -> 0
      [] type \in {"thumb", "preview"} -> 1
      [] type = "video_poster" -> 2
      [] type = "storyboard" -> 3
      [] type = "ai_analyze" -> 4
Served(w) == {Serves[w][n] : n \in DOMAIN Serves[w]}
ASSUME PoolsAssumption ==
    /\ \A type \in TaskType : \E w \in Worker : type \in Served(w)
    /\ \A w \in Worker : \A blocker \in BlockedBy[w], type \in Served(w) : Level(blocker) < Level(type)
    /\ \A w \in Worker : "ai_analyze" \in Served(w) => Served(w) = {"ai_analyze"}

VARIABLES
    queue,    \* Redis: task type -> list of entries
    queued,   \* Redis: the dedupe set
    wpc,      \* worker -> where its loop stands
    wtask,    \* worker -> the entry it popped
    cause,    \* worker -> why its task context was cancelled; the first cause stays
    result,   \* worker -> what runTask returned
    callStep, \* goroutine -> where its Enqueue call stands
    callTask, \* goroutine -> the entry it is enqueueing
    delayed,  \* automatic retries that wait for their timer, in memory only
    aiGen,    \* aiRetryGeneration
    signals,  \* the priority signals now raised
    stop,     \* the stop request in progress
    spent     \* bounds used up: submits, stops, restarts

workerVars == <<wpc, wtask, cause, result>>
callVars == <<callStep, callTask>>
vars == <<queue, queued, workerVars, callVars, delayed, aiGen, signals, stop, spent>>

-----------------------------------------------------------------------------
(* Entries and keys *)

Keyed(type) == type \in MediaType \cup KeyedControlType
Key(t) == <<t.type, t.subject>>

\* What the promote script compares: the type and the asset id, which control
\* tasks do not have.
AssetOf(t) == IF t.type \in MediaType THEN t.subject ELSE NoTask
SameForPromote(t, u) == t.type = u.type /\ AssetOf(t) = AssetOf(u)

StoryboardActive ==
    /\ "storyboard" \in TaskType
    /\ \/ queue["storyboard"] # <<>>
       \/ \E w \in Worker : wpc[w] = "running" /\ wtask[w].type = "storyboard"

MediaCacheBacklog ==
    \E type \in (MediaType \ {"ai_analyze"}) \cap TaskType : queue[type] # <<>>

Blocking == signals \cap {"scan", "playback"}

Init ==
    /\ queue = [type \in TaskType |-> <<>>]
    /\ queued = {}
    /\ wpc = [w \in Worker |-> "idle"]
    /\ wtask = [w \in Worker |-> NoTask]
    /\ cause = [w \in Worker |-> "none"]
    /\ result = [w \in Worker |-> "none"]
    /\ callStep = [p \in Proc |-> "none"]
    /\ callTask = [p \in Proc |-> NoTask]
    /\ delayed = {}
    /\ aiGen = 2
    /\ signals = {}
    /\ stop = [step |-> "idle", types |-> {}, members |-> {}]
    /\ spent = [submits |-> 0, stops |-> 0, restarts |-> 0]

-----------------------------------------------------------------------------
(* Enqueue: claim the dedupe key, then push; or promote what is queued.    *)

BeginCall(p, t) ==
    /\ callStep' = [callStep EXCEPT ![p] = "claim"]
    /\ callTask' = [callTask EXCEPT ![p] = t]

EndCall(p) ==
    /\ callStep' = [callStep EXCEPT ![p] = "none"]
    /\ callTask' = [callTask EXCEPT ![p] = NoTask]

Submit(c) ==
    /\ callStep[c] = "none"
    /\ spent.submits < MaxSubmits
    /\ \E r \in Request :
          BeginCall(c, [type |-> r.type, subject |-> r.subject, prio |-> r.prio,
                        attempt |-> 0, gen |-> IF r.type = "ai_analyze" THEN aiGen ELSE 0])
    /\ spent' = [spent EXCEPT !.submits = @ + 1]
    /\ UNCHANGED <<queue, queued, workerVars, delayed, aiGen, signals, stop>>

\* Mutated Claim: the answer of SADD is ignored.
ClaimUnchecked(p) ==
    /\ callStep[p] = "claim"
    /\ queued' = IF Keyed(callTask[p].type) THEN queued \cup {Key(callTask[p])} ELSE queued
    /\ callStep' = [callStep EXCEPT ![p] = "push"]
    /\ UNCHANGED <<queue, workerVars, callTask, delayed, aiGen, signals, stop, spent>>

Claim(p) ==
    /\ callStep[p] = "claim"
    /\ LET t == callTask[p] IN
         \/ /\ ~Keyed(t.type) \/ Key(t) \notin queued
            /\ queued' = IF Keyed(t.type) THEN queued \cup {Key(t)} ELSE queued
            /\ callStep' = [callStep EXCEPT ![p] = "push"]
            /\ UNCHANGED callTask
         \/ /\ Keyed(t.type) /\ Key(t) \in queued /\ Urgent(t.prio)
            /\ callStep' = [callStep EXCEPT ![p] = "promote"]
            /\ UNCHANGED <<queued, callTask>>
         \/ /\ Keyed(t.type) /\ Key(t) \in queued /\ ~Urgent(t.prio)
            /\ EndCall(p)
            /\ UNCHANGED queued
    /\ UNCHANGED <<queue, workerVars, delayed, aiGen, signals, stop, spent>>

\* Where redisPriorityEnqueueScript inserts: before the first entry that is
\* not urgent, at the tail when there is none.
InsertPosition(q, i) ==
    /\ i \in 1..(Len(q) + 1)
    /\ \A j \in 1..(i - 1) : Urgent(q[j].prio)
    /\ i <= Len(q) => ~Urgent(q[i].prio)

\* Mutated Push: the priority is ignored, every entry goes to the tail.
PushAtTail(p) ==
    /\ callStep[p] = "push"
    /\ queue' = [queue EXCEPT ![callTask[p].type] = Append(@, callTask[p])]
    /\ EndCall(p)
    /\ UNCHANGED <<queued, workerVars, delayed, aiGen, signals, stop, spent>>

Push(p) ==
    /\ callStep[p] = "push"
    /\ LET t == callTask[p]
           q == queue[t.type]
       IN \E i \in 1..(Len(q) + 1) :
            /\ IF Urgent(t.prio) THEN InsertPosition(q, i) ELSE i = Len(q) + 1
            /\ queue' = [queue EXCEPT ![t.type] = InsertAt(q, i, t)]
    /\ EndCall(p)
    /\ UNCHANGED <<queued, workerVars, delayed, aiGen, signals, stop, spent>>

\* Redis refuses the push: the key is given back and the request is dropped.
PushFails(p) ==
    /\ callStep[p] = "push"
    /\ queued' = queued \ {Key(callTask[p])}
    /\ EndCall(p)
    /\ UNCHANGED <<queue, workerVars, delayed, aiGen, signals, stop, spent>>

\* redisPromoteTaskScript: the first match leaves the list and the new entry
\* goes to the head; nothing happens when there is no match.
Promote(p) ==
    /\ callStep[p] = "promote"
    /\ LET t == callTask[p]
           q == queue[t.type]
           Match == {i \in DOMAIN q : SameForPromote(q[i], t)}
       IN \/ /\ Match = {}
             /\ UNCHANGED queue
          \/ \E i \in Match :
                /\ \A j \in Match : i <= j
                /\ queue' = [queue EXCEPT ![t.type] = <<t>> \o RemoveAt(q, i)]
    /\ EndCall(p)
    /\ UNCHANGED <<queued, workerVars, delayed, aiGen, signals, stop, spent>>

-----------------------------------------------------------------------------
(* The worker loop *)

MediaWorker(w) == Served(w) \cap MediaType # {}
AIWorker(w) == "ai_analyze" \in Served(w)

\* Mutated GatesOpen: every media worker waits for the storyboards, also their own.
GatesWithStoryboards(w) ==
    /\ "pause" \notin signals
    /\ MediaWorker(w) => Blocking = {} /\ ~StoryboardActive
    /\ \A type \in BlockedBy[w] : queue[type] = <<>>

\* The gates before BLPOP. A worker that has passed them is not stopped by a
\* signal that is raised while it blocks.
GatesOpen(w) ==
    /\ "pause" \notin signals
    /\ MediaWorker(w) => Blocking = {}
    /\ AIWorker(w) => ~StoryboardActive
    /\ \A type \in BlockedBy[w] : queue[type] = <<>>

BeginPoll(w) ==
    /\ wpc[w] = "idle" /\ callStep[w] = "none"
    /\ GatesOpen(w)
    /\ wpc' = [wpc EXCEPT ![w] = "polling"]
    /\ UNCHANGED <<queue, queued, wtask, cause, result, callVars, delayed, aiGen,
                   signals, stop, spent>>

PollTimesOut(w) ==
    /\ wpc[w] = "polling"
    /\ \A n \in DOMAIN Serves[w] : queue[Serves[w][n]] = <<>>
    /\ wpc' = [wpc EXCEPT ![w] = "idle"]
    /\ UNCHANGED <<queue, queued, wtask, cause, result, callVars, delayed, aiGen,
                   signals, stop, spent>>

Pop(w) ==
    /\ wpc[w] = "polling"
    /\ \E n \in DOMAIN Serves[w] :
          LET type == Serves[w][n] IN
            /\ queue[type] # <<>>
            /\ \A m \in 1..(n - 1) : queue[Serves[w][m]] = <<>>
            /\ wtask' = [wtask EXCEPT ![w] = Head(queue[type])]
            /\ queue' = [queue EXCEPT ![type] = Tail(@)]
    /\ wpc' = [wpc EXCEPT ![w] = "popped"]
    /\ UNCHANGED <<queued, cause, result, callVars, delayed, aiGen, signals, stop, spent>>

\* The head of runTask: a paused process runs nothing but scan_stop; media work
\* registers its cancel function and waits for a resource slot.
EnterTask(w) ==
    /\ wpc[w] = "popped"
    /\ \/ /\ "pause" \in signals /\ wtask[w].type # "scan_stop"
          /\ wpc' = [wpc EXCEPT ![w] = "finished"]
          /\ result' = [result EXCEPT ![w] = "paused"]
       \/ /\ "pause" \notin signals \/ wtask[w].type = "scan_stop"
          /\ wpc' = [wpc EXCEPT ![w] = IF wtask[w].type \in MediaType THEN "acquiring"
                                                                     ELSE "running"]
          /\ UNCHANGED result
    /\ UNCHANGED <<queue, queued, wtask, cause, callVars, delayed, aiGen, signals,
                   stop, spent>>

SlotHolders == {w \in Worker : wpc[w] = "running" /\ wtask[w].type \in MediaType}
SlotFree == Cardinality(SlotHolders) < Capacity

Acquire(w) ==
    /\ wpc[w] = "acquiring"
    /\ Blocking = {}
    /\ SlotFree
    /\ wpc' = [wpc EXCEPT ![w] = "running"]
    /\ UNCHANGED <<queue, queued, wtask, cause, result, callVars, delayed, aiGen,
                   signals, stop, spent>>

AcquireCancelled(w) ==
    /\ wpc[w] = "acquiring" /\ cause[w] # "none"
    /\ wpc' = [wpc EXCEPT ![w] = "finished"]
    /\ result' = [result EXCEPT ![w] = cause[w]]
    /\ UNCHANGED <<queue, queued, wtask, cause, callVars, delayed, aiGen, signals,
                   stop, spent>>

Cancellable(w) ==
    /\ wpc[w] \in {"acquiring", "running"}
    /\ wtask[w].type \in MediaType
    /\ cause[w] = "none"

\* cancelForHigherPriorityWork. Its four causes are one: requeueAfterResult
\* treats them alike.
Preempt(w) ==
    /\ Cancellable(w)
    /\ \/ Blocking # {}
       \/ wtask[w].type = "ai_analyze" /\ (MediaCacheBacklog \/ StoryboardActive)
    /\ cause' = [cause EXCEPT ![w] = "preempted"]
    /\ UNCHANGED <<queue, queued, wpc, wtask, result, callVars, delayed, aiGen,
                   signals, stop, spent>>

\* What a handler may return: the scan handler hands the request over and
\* returns nil; a media handler may fail, return the cause of its cancelled
\* context, or finish in spite of it. The AI handler also yields by itself.
Outcome(t, why) ==
    IF t.type \in ControlType THEN {"ok"}
    ELSE {"ok", "failed", "retryable"}
           \cup (IF why = "none" THEN {} ELSE {why})
           \cup (IF t.type = "ai_analyze" THEN {"preempted"} ELSE {})

Finish(w) ==
    /\ wpc[w] = "running"
    /\ \E r \in Outcome(wtask[w], cause[w]) : result' = [result EXCEPT ![w] = r]
    /\ wpc' = [wpc EXCEPT ![w] = "finished"]
    /\ UNCHANGED <<queue, queued, wtask, cause, callVars, delayed, aiGen, signals,
                   stop, spent>>

\* Mutated ReleaseKey: a task that will be enqueued again keeps its key.
ReleaseUnlessRequeued(w) ==
    /\ wpc[w] = "finished"
    /\ queued' = IF result[w] \in {"preempted", "paused"} THEN queued
                                                         ELSE queued \ {Key(wtask[w])}
    /\ wpc' = [wpc EXCEPT ![w] = "ended"]
    /\ cause' = [cause EXCEPT ![w] = "none"]
    /\ UNCHANGED <<queue, wtask, result, callVars, delayed, aiGen, signals, stop, spent>>

ReleaseKey(w) ==
    /\ wpc[w] = "finished"
    /\ queued' = queued \ {Key(wtask[w])}
    /\ wpc' = [wpc EXCEPT ![w] = "ended"]
    /\ cause' = [cause EXCEPT ![w] = "none"]
    /\ UNCHANGED <<queue, wtask, result, callVars, delayed, aiGen, signals, stop, spent>>

RetryDue(t, r) ==
    /\ r \in {"failed", "retryable"}
    /\ t.type = "ai_analyze" => r = "retryable" /\ t.prio # 1 /\ t.gen = aiGen
    /\ t.attempt < MaxAutomaticRetries

\* Mutated NextAttempt: the attempt is not counted.
SameAttempt(t) == t

NextAttempt(t) == [t EXCEPT !.attempt = @ + 1]

\* Mutated Requeue: what was preempted is left to the next sweep.
RequeueFailures(w) ==
    /\ wpc[w] = "ended"
    /\ delayed' = IF RetryDue(wtask[w], result[w]) THEN delayed \cup {NextAttempt(wtask[w])} ELSE delayed
    /\ wpc' = [wpc EXCEPT ![w] = "idle"]
    /\ wtask' = [wtask EXCEPT ![w] = NoTask]
    /\ result' = [result EXCEPT ![w] = "none"]
    /\ UNCHANGED <<queue, queued, cause, callVars, aiGen, signals, stop, spent>>

\* requeueAfterResult: preempted or paused work is enqueued again at once, a
\* failure within the limit waits for its timer, everything else is dropped.
Requeue(w) ==
    /\ wpc[w] = "ended"
    /\ \/ /\ result[w] \in {"preempted", "paused"}
          /\ BeginCall(w, wtask[w])
          /\ UNCHANGED delayed
       \/ /\ RetryDue(wtask[w], result[w])
          /\ delayed' = delayed \cup {NextAttempt(wtask[w])}
          /\ UNCHANGED callVars
       \/ /\ result[w] \notin {"preempted", "paused"}
          /\ ~RetryDue(wtask[w], result[w])
          /\ UNCHANGED <<delayed, callVars>>
    /\ wpc' = [wpc EXCEPT ![w] = "idle"]
    /\ wtask' = [wtask EXCEPT ![w] = NoTask]
    /\ result' = [result EXCEPT ![w] = "none"]
    /\ UNCHANGED <<queue, queued, cause, aiGen, signals, stop, spent>>

Stale(t) == t.type = "ai_analyze" /\ t.gen # aiGen

RetryEnqueues(c) ==
    /\ callStep[c] = "none"
    /\ \E t \in delayed :
          /\ ~Stale(t)
          /\ delayed' = delayed \ {t}
          /\ BeginCall(c, t)
    /\ UNCHANGED <<queue, queued, workerVars, aiGen, signals, stop, spent>>

RetryExpires ==
    /\ \E t \in delayed : Stale(t) /\ delayed' = delayed \ {t}
    /\ UNCHANGED <<queue, queued, workerVars, callVars, aiGen, signals, stop, spent>>

-----------------------------------------------------------------------------
(* Stops, signals, restart *)

\* ClearQueues and ClearAIQueue read the dedupe set first; the latter has
\* already moved the retry generation.
BeginStop(group) ==
    /\ stop.step = "idle"
    /\ spent.stops < MaxStops
    /\ aiGen' = IF "ai_analyze" \in group THEN aiGen + 1 ELSE aiGen
    /\ stop' = [step |-> "clear", types |-> group,
                members |-> {k \in queued : k[1] \in group}]
    /\ spent' = [spent EXCEPT !.stops = @ + 1]
    /\ UNCHANGED <<queue, queued, workerVars, callVars, delayed, signals>>

ClearQueues ==
    /\ stop.step = "clear"
    /\ queue' = [type \in TaskType |-> IF type \in stop.types THEN <<>> ELSE queue[type]]
    /\ queued' = queued \ stop.members
    /\ stop' = [stop EXCEPT !.step = "cancel", !.members = {}]
    /\ UNCHANGED <<workerVars, callVars, delayed, aiGen, signals, spent>>

CancelActive ==
    /\ stop.step = "cancel"
    /\ cause' = [w \in Worker |-> IF Cancellable(w) /\ wtask[w].type \in stop.types
                                  THEN "stopped" ELSE cause[w]]
    /\ stop' = [step |-> "idle", types |-> {}, members |-> {}]
    /\ UNCHANGED <<queue, queued, wpc, wtask, result, callVars, delayed, aiGen,
                   signals, spent>>

RaiseSignal(s) ==
    /\ s \in {"scan", "playback"} \ signals
    /\ signals' = signals \cup {s}
    /\ UNCHANGED <<queue, queued, workerVars, callVars, delayed, aiGen, stop, spent>>

LowerSignal(s) ==
    /\ s \in signals
    /\ signals' = signals \ {s}
    /\ UNCHANGED <<queue, queued, workerVars, callVars, delayed, aiGen, stop, spent>>

\* updateDebugSettings: the pause is visible before the active media work is cancelled.
PauseBackground ==
    /\ "pause" \in Signals \ signals
    /\ stop.step = "idle"
    /\ signals' = signals \cup {"pause"}
    /\ stop' = [step |-> "cancel", types |-> MediaType \cap TaskType, members |-> {}]
    /\ UNCHANGED <<queue, queued, workerVars, callVars, delayed, aiGen, spent>>

\* The process dies and starts again: what it held in memory is gone, the
\* dedupe set and the media lists are deleted, the control lists stay.
Restart ==
    /\ spent.restarts < MaxRestarts
    /\ queue' = [type \in TaskType |-> IF type \in MediaType THEN <<>> ELSE queue[type]]
    /\ queued' = {}
    /\ wpc' = [w \in Worker |-> "idle"]
    /\ wtask' = [w \in Worker |-> NoTask]
    /\ cause' = [w \in Worker |-> "none"]
    /\ result' = [w \in Worker |-> "none"]
    /\ callStep' = [p \in Proc |-> "none"]
    /\ callTask' = [p \in Proc |-> NoTask]
    /\ delayed' = {}
    /\ aiGen' = 2
    /\ signals' = signals \ {"scan"}
    /\ stop' = [step |-> "idle", types |-> {}, members |-> {}]
    /\ spent' = [spent EXCEPT !.restarts = @ + 1]

-----------------------------------------------------------------------------
EnqueueStep(p) == Claim(p) \/ Push(p) \/ PushFails(p) \/ Promote(p)
WorkerStep(w) ==
    \/ BeginPoll(w) \/ PollTimesOut(w) \/ Pop(w) \/ EnterTask(w)
    \/ Acquire(w) \/ AcquireCancelled(w) \/ Preempt(w)
    \/ Finish(w) \/ ReleaseKey(w) \/ Requeue(w)
CallerStep(c) == Submit(c) \/ RetryEnqueues(c)
StopStep == (\E g \in StopGroups : BeginStop(g)) \/ ClearQueues \/ CancelActive
SignalStep ==
    \/ \E s \in Signals : RaiseSignal(s) \/ LowerSignal(s)
    \/ PauseBackground

Next ==
    \/ \E p \in Proc : EnqueueStep(p)
    \/ \E w \in Worker : WorkerStep(w)
    \/ \E c \in Caller : CallerStep(c)
    \/ RetryExpires
    \/ StopStep
    \/ SignalStep
    \/ Restart

Spec == Init /\ [][Next]_vars

\* The goroutines run, Redis answers, handlers return, timers fire. Nothing is
\* assumed of the callers, of the signals, of stops or of restarts.
Fairness ==
    /\ \A p \in Proc : WF_vars(Claim(p)) /\ WF_vars(Push(p)) /\ WF_vars(Promote(p))
    /\ \A w \in Worker :
          /\ WF_vars(BeginPoll(w)) /\ WF_vars(Pop(w)) /\ WF_vars(EnterTask(w))
          /\ WF_vars(Acquire(w) \/ AcquireCancelled(w)) /\ WF_vars(Preempt(w))
          /\ WF_vars(Finish(w)) /\ WF_vars(ReleaseKey(w)) /\ WF_vars(Requeue(w))
          /\ SF_vars(Finish(w) /\ result'[w] # "preempted")
    /\ WF_vars(\E c \in Caller : RetryEnqueues(c)) /\ WF_vars(RetryExpires)
    /\ WF_vars(ClearQueues) /\ WF_vars(CancelActive)

FairSpec == Spec /\ Fairness
-----------------------------------------------------------------------------
(* Properties *)

ListsOK ==
    /\ queue \in [TaskType -> Seq(Task)]
    /\ \A type \in TaskType : \A i \in DOMAIN queue[type] : queue[type][i].type = type

WorkersOK ==
    /\ wpc \in [Worker -> {"idle", "polling", "popped", "acquiring", "running",
                           "finished", "ended"}]
    /\ wtask \in [Worker -> Task \cup {NoTask}]
    /\ \A w \in Worker : wpc[w] \in {"idle", "polling"} <=> wtask[w] = NoTask
    /\ cause \in [Worker -> {"none", "preempted", "stopped"}]
    /\ result \in [Worker -> {"none", "ok", "failed", "retryable", "paused",
                              "preempted", "stopped"}]

CallsOK ==
    /\ callStep \in [Proc -> {"none", "claim", "push", "promote"}]
    /\ callTask \in [Proc -> Task \cup {NoTask}]
    /\ \A p \in Proc : callStep[p] = "none" <=> callTask[p] = NoTask

ControlOK ==
    /\ queued \subseteq TaskType \X Subject
    /\ delayed \subseteq Task
    /\ aiGen \in Nat
    /\ signals \subseteq {"scan", "playback", "pause"}
    /\ stop \in [step: {"idle", "clear", "cancel"}, types: SUBSET TaskType,
                 members: SUBSET (TaskType \X Subject)]
    /\ spent \in [submits: Nat, stops: Nat, restarts: Nat]

\* Type correctness of the manager's memory and of what it keeps in Redis: the
\* lists hold entries of their own type, a worker has an entry exactly from its
\* pop to its requeue, an Enqueue call has one while it lasts.
TypeOK == ListsOK /\ WorkersOK /\ CallsOK /\ ControlOK

\* The places that hold a piece of work between its claim and its release.
QueuedAt(k) == {i \in DOMAIN queue[k[1]] : Key(queue[k[1]][i]) = k}
PushingTo(k) == {p \in Proc : callStep[p] = "push" /\ Key(callTask[p]) = k}
Working == {"popped", "acquiring", "running", "finished"}
WorkedBy(k) == {w \in Worker : wpc[w] \in Working /\ Key(wtask[w]) = k}
Held(k) == QueuedAt(k) # {} \/ PushingTo(k) # {} \/ WorkedBy(k) # {}

AtMostOne(S) == \A x, y \in S : x = y

MediaKeys == (MediaType \cap TaskType) \X Subject

\* As long as nobody clears a queue, a media item is in at most one place:
\* one list entry, one push in flight or one worker. Two workers never run the
\* same item, and a preempted item that is enqueued again beside a request of a
\* caller does not double (the dedupe set, jobs.go 601-631 and 727-731).
HeldOnce ==
    \A k \in MediaKeys :
        /\ AtMostOne(QueuedAt(k)) /\ AtMostOne(PushingTo(k)) /\ AtMostOne(WorkedBy(k))
        /\ QueuedAt(k) = {} \/ PushingTo(k) = {}
        /\ QueuedAt(k) = {} \/ WorkedBy(k) = {}
        /\ PushingTo(k) = {} \/ WorkedBy(k) = {}

\* The dedupe set is exact: no media item is in flight without its key, so a
\* second request cannot slip past it, and no key outlives its work, for such a
\* key would refuse every later request of the item.
ClaimedIffHeld ==
    /\ \A k \in MediaKeys : Held(k) => k \in queued
    /\ \A k \in queued : Held(k)

\* Urgent entries stand before all others in every list, whatever mix of
\* pushes, promotions, requeues and clears produced it.
UrgentFirst ==
    \A type \in TaskType : \A i, j \in DOMAIN queue[type] :
        i < j /\ Urgent(queue[type][j].prio) => Urgent(queue[type][i].prio)

\* An attempt that was cut short or may be tried again.
Unfinished(w) == result[w] \in {"preempted", "paused"} \/ RetryDue(wtask[w], result[w])

\* Media items about to be claimed: by a call, a timer or the worker that let them go.
Asked == MediaKeys \cap
            {Key(t) : t \in {callTask[p] : p \in {q \in Proc : callStep[q] = "claim"}}
                            \cup delayed
                            \cup {wtask[w] : w \in {v \in Worker : wpc[v] = "ended" /\ Unfinished(v)}}}
MediaWorking == {w \in Worker : wpc[w] \in Working /\ wtask[w].type \in MediaType}
Doing == {<<Key(wtask[w]), w>> : w \in MediaWorking}
CutOff == {w \in MediaWorking : wpc[w] = "finished" /\ Unfinished(w)}
Short == {<<Key(wtask[w]), w>> : w \in CutOff}

Work == INSTANCE WorkPromise WITH
    Piece <- MediaKeys, Doer <- Worker,
    asked <- Asked, taken <- MediaKeys \cap queued, doing <- Doing, short <- Short

\* As long as nobody clears a queue, the manager keeps the promise for media
\* work: through duplicates, promotions, preemptions, pauses, automatic retries
\* and restarts, an item is done by one worker at a time and only if it was
\* taken, and an attempt that was cut short is asked for again until the item is
\* taken anew (jobs.go 601-631, 727-731, requeueAfterResult 940-991).
KeepsWork == Work!Spec

HasWork(w) == \E type \in Served(w) : queue[type] # <<>>

\* What a worker can do without waiting for another one.
Moves(w) ==
    \/ wpc[w] \in {"popped", "running", "finished", "ended"}
    \/ wpc[w] = "acquiring" /\ SlotFree
    \/ wpc[w] = "polling" /\ HasWork(w)
    \/ wpc[w] = "idle" /\ GatesOpen(w) /\ HasWork(w)
    \/ callStep[w] # "none"

Rest ==
    /\ \A type \in TaskType : queue[type] = <<>>
    /\ \A w \in Worker : wpc[w] \in {"idle", "polling"}

\* Workers never all wait for one another: without priority signals, as long as
\* entries are queued or worked on, some worker can get on, whatever the
\* gates and the slots have made of the rest (Manager.Start 253-262,
\* redisWorker 657-706).
SomeoneMoves == signals = {} /\ ~Rest => \E w \in Worker : Moves(w)

Drained ==
    /\ Rest
    /\ \A p \in Proc : callStep[p] = "none"
    /\ delayed = {}

\* Once the priority signals stay low, all work leaves the manager: the gates
\* that make one worker wait for another's queue never close in a circle, and
\* retries end.
Drains == <>[](signals = {}) => <>[]Drained

=============================================================================
