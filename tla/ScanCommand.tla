------------------------------ MODULE ScanCommand ------------------------------
(***************************************************************************)
(* The command loop of the scanner (internal/scanner/scanner.go): requests *)
(* from the API, the watchers, the recovery probe and the job queue become *)
(* commands of one channel; one goroutine handles them, keeps at most one  *)
(* scan run, coalesces automatic requests, lets a manual start take over   *)
(* and obeys stops. The debug pause (internal/api/debug_settings.go) stops *)
(* the loop from starting anything and sends a stop, its end sends a scan. *)
(***************************************************************************)
EXTENDS Naturals, Sequences, FiniteSets

CONSTANTS
    MediaRoot,     \* media roots
    Request,       \* the requests callers may make
    ResumeRequest, \* what the end of a debug pause asks for
    MaxRequests, MaxStops, MaxPauses,  \* bounds on the callers
    Depth,         \* capacity of the command channel (128 in the code)
    NoRequest

ScanTask == {"metadata", "media_scan", "reconcile", "count", "thumb_continue", "thumb_rebuild"}

\* A place is where a file lies: directly under its root or below a folder.
Spot == MediaRoot \X {"top", "nested"}
Unit == ScanTask \X Spot

\* auto: isAutomaticScanRequest(reason); override = FALSE means all roots.
ScanRequest == [task: ScanTask, auto: BOOLEAN, override: BOOLEAN, roots: SUBSET MediaRoot,
                nested: BOOLEAN, paths: SUBSET Spot]

ASSUME ConstantsAssumption ==
    /\ Request \subseteq ScanRequest
    /\ ResumeRequest \in ScanRequest /\ ~ResumeRequest.auto
    /\ {MaxRequests, MaxStops, MaxPauses} \subseteq Nat
    /\ Depth \in Nat \ {0}
    /\ NoRequest \notin ScanRequest

VARIABLES
    asking,    \* requests that have passed the pause check of requestStart
    inbox,     \* the command channel
    pending,   \* pendingStarts
    active,    \* activeStart
    cancelled, \* the context of the run was cancelled
    activeRun, \* "none", "running", "ended" (its done signal is not yet read)
    state,     \* the progress state callers see
    paused,    \* debugcontrol.BackgroundProcessingPaused
    owesCall,  \* the command updateDebugSettings has still to send
    spent      \* bounds used up

callerVars == <<asking, paused, owesCall, spent>>
runVars == <<active, cancelled, activeRun>>
loopVars == <<inbox, pending, runVars, state, callerVars>>

LoopInit ==
    /\ asking = {} /\ inbox = <<>> /\ pending = <<>>
    /\ active = NoRequest /\ cancelled = FALSE /\ activeRun = "none" /\ state = "idle"
    /\ paused = FALSE /\ owesCall = "none"
    /\ spent = [requests |-> 0, stops |-> 0, pauses |-> 0]

Spends(what) == spent' = [spent EXCEPT ![what] = @ + 1]

-----------------------------------------------------------------------------
(* Requests: equality, coverage, merging *)

Same(a, b) == \A field \in {"task", "override", "nested", "roots", "paths"} : a[field] = b[field]

\* What run() visits for a request.
Covers(r) ==
    {r.task} \X {s \in Spot : /\ r.override => s[1] \in r.roots
                              /\ r.nested => s[2] = "nested"
                              /\ r.paths # {} => s \in r.paths}

CoveredBy(q) == UNION {Covers(q[i]) : i \in DOMAIN q}
Owed == CoveredBy(pending)

\* Mutated Merge: the incoming roots are forgotten.
MergeKeepsRoots(a, b) == [a EXCEPT !.nested = @ /\ b.nested,
                                   !.override = @ /\ b.override,
                                   !.paths = IF @ = {} \/ b.paths = {} THEN {} ELSE @ \cup b.paths]

Merge(a, b) ==
    LET override == a.override /\ b.override IN
    [a EXCEPT !.nested = @ /\ b.nested,
              !.override = override,
              !.roots = IF override THEN @ \cup b.roots ELSE {},
              !.paths = IF @ = {} \/ b.paths = {} THEN {} ELSE @ \cup b.paths]

\* enqueueScanRequest: an automatic request joins the first entry of its task.
Enqueued(q, r) ==
    LET Mergeable == {i \in DOMAIN q : r.auto /\ q[i].task = r.task}
        first == CHOOSE i \in Mergeable : \A j \in Mergeable : i <= j
    IN IF Mergeable = {} THEN Append(q, r) ELSE [q EXCEPT ![first] = Merge(@, r)]

-----------------------------------------------------------------------------
(* Callers *)

\* requestStart looks at the pause, submitCommand sends. The loop never blocks, so
\* the channel is not full for the two seconds after which a sender gives up.
Ask(r) ==
    /\ ~paused /\ spent.requests < MaxRequests /\ r \notin asking
    /\ asking' = asking \cup {r}
    /\ Spends("requests")
    /\ UNCHANGED <<inbox, pending, runVars, state, paused, owesCall>>

Post(kind, r) ==
    /\ Len(inbox) < Depth
    /\ inbox' = Append(inbox, [kind |-> kind, req |-> r])

Send(r) ==
    /\ r \in asking
    /\ asking' = asking \ {r}
    /\ Post("start", r)
    /\ UNCHANGED <<pending, runVars, state, paused, owesCall, spent>>

RequestStop ==
    /\ spent.stops < MaxStops
    /\ Post("stop", NoRequest)
    /\ Spends("stops")
    /\ UNCHANGED <<asking, pending, runVars, state, paused, owesCall>>

\* updateDebugSettings applies the setting before it calls the scanner.
SetPause ==
    /\ owesCall = "none"
    /\ paused \/ spent.pauses < MaxPauses
    /\ paused' = ~paused
    /\ owesCall' = IF paused THEN "start" ELSE "stop"
    /\ spent' = IF paused THEN spent ELSE [spent EXCEPT !.pauses = @ + 1]
    /\ UNCHANGED <<asking, inbox, pending, runVars, state>>

PauseCalls ==
    /\ owesCall # "none"
    /\ Post(owesCall, IF owesCall = "start" THEN ResumeRequest ELSE NoRequest)
    /\ owesCall' = "none"
    /\ UNCHANGED <<asking, pending, runVars, state, paused, spent>>

-----------------------------------------------------------------------------
(* The loop *)

StartRun(r) ==
    /\ activeRun' = "running" /\ active' = r /\ cancelled' = FALSE
    /\ state' = "running"

Stopping == state' = IF state = "idle" THEN "idle" ELSE "stopping"

Take(kind) ==
    /\ inbox # <<>> /\ Head(inbox).kind = kind
    /\ inbox' = Tail(inbox)

Refuse ==
    /\ Take("start") /\ paused
    /\ UNCHANGED <<pending, runVars, state, callerVars>>

\* No run: the request starts, or what a pause has left behind starts first.
StartIdle ==
    /\ Take("start") /\ ~paused /\ activeRun = "none"
    /\ LET q == IF pending = <<>> THEN <<Head(inbox).req>>
                                  ELSE Enqueued(pending, Head(inbox).req)
       IN StartRun(Head(q)) /\ pending' = Tail(q)
    /\ UNCHANGED callerVars

\* The active or a pending request is the same: nothing is to be done.
Join ==
    /\ Take("start") /\ ~paused /\ activeRun # "none"
    /\ LET r == Head(inbox).req IN
          Same(active, r) \/ \E i \in DOMAIN pending : Same(pending[i], r)
    /\ UNCHANGED <<pending, runVars, state, callerVars>>

NewWhileBusy ==
    /\ Take("start") /\ ~paused /\ activeRun # "none"
    /\ LET r == Head(inbox).req IN
          ~Same(active, r) /\ \A i \in DOMAIN pending : ~Same(pending[i], r)

\* An automatic request waits its turn.
Wait ==
    /\ NewWhileBusy /\ Head(inbox).req.auto
    /\ pending' = Enqueued(pending, Head(inbox).req)
    /\ UNCHANGED <<runVars, state, callerVars>>

\* A manual request replaces all that waits and cancels the run.
TakeOver ==
    /\ NewWhileBusy /\ ~Head(inbox).req.auto
    /\ pending' = <<Head(inbox).req>>
    /\ cancelled' = TRUE
    /\ Stopping
    /\ UNCHANGED <<active, activeRun, callerVars>>

\* Mutated Stop: without a run the status is left alone.
StopSilently ==
    /\ Take("stop")
    /\ pending' = <<>>
    /\ IF activeRun = "none" THEN UNCHANGED <<state, cancelled>>
                       ELSE cancelled' = TRUE /\ Stopping
    /\ UNCHANGED <<active, activeRun, callerVars>>

Stop ==
    /\ Take("stop")
    /\ pending' = <<>>
    /\ IF activeRun = "none" THEN state' = "idle" /\ UNCHANGED cancelled
                       ELSE cancelled' = TRUE /\ Stopping
    /\ UNCHANGED <<active, activeRun, callerVars>>

RunEnds ==
    /\ activeRun = "running"
    /\ activeRun' = "ended"
    /\ UNCHANGED <<inbox, pending, active, cancelled, state, callerVars>>

\* Mutated Done: what waits stays where it is.
DoneOnly ==
    /\ activeRun = "ended"
    /\ activeRun' = "none" /\ active' = NoRequest /\ cancelled' = FALSE
    /\ UNCHANGED <<inbox, pending, state, callerVars>>

\* The done signal: the next pending request starts, unless the pause forbids it.
Done ==
    /\ activeRun = "ended"
    /\ \/ /\ pending # <<>> /\ ~paused
          /\ StartRun(Head(pending)) /\ pending' = Tail(pending)
       \/ /\ pending = <<>> \/ paused
          /\ activeRun' = "none" /\ active' = NoRequest /\ cancelled' = FALSE
          /\ state' = IF pending = <<>> THEN "idle" ELSE state
          /\ UNCHANGED pending
    /\ UNCHANGED <<inbox, callerVars>>

-----------------------------------------------------------------------------
Loop == Refuse \/ StartIdle \/ Join \/ Wait \/ TakeOver \/ Stop \/ Done

LoopNext ==
    \/ \E r \in Request : Ask(r) \/ Send(r)
    \/ RequestStop \/ SetPause \/ PauseCalls
    \/ Loop \/ RunEnds

LoopSpec == LoopInit /\ [][LoopNext]_loopVars

\* The loop's goroutine, the handler of the debug settings and the scan runs
\* proceed; of two ready channels the loop's select takes each again and again.
Fairness == WF_loopVars(Loop) /\ SF_loopVars(Done) /\ WF_loopVars(PauseCalls) /\ WF_loopVars(RunEnds)

FairSpec == LoopSpec /\ Fairness

-----------------------------------------------------------------------------
(* Properties *)

CallersOK ==
    /\ asking \subseteq Request
    /\ paused \in BOOLEAN
    /\ owesCall \in {"none", "start", "stop"}
    /\ spent \in [requests: Nat, stops: Nat, pauses: Nat]

InboxOK ==
    /\ inbox \in Seq([kind: {"start", "stop"}, req: ScanRequest \cup {NoRequest}])
    /\ Len(inbox) <= Depth
    /\ \A i \in DOMAIN inbox : inbox[i].kind = "start" <=> inbox[i].req # NoRequest

RunOK ==
    /\ pending \in Seq(ScanRequest)
    /\ active \in ScanRequest \cup {NoRequest}
    /\ cancelled \in BOOLEAN
    /\ activeRun \in {"none", "running", "ended"}
    /\ activeRun = "none" <=> active = NoRequest
    /\ state \in {"idle", "running", "stopping"}
    /\ activeRun # "none" => state # "idle"

\* Type correctness; the channel stays within its capacity, the loop knows the
\* request of its run, and the status is not idle while there is a run.
LoopTypeOK == CallersOK /\ InboxOK /\ RunOK

Offered(cmd) ==
    [kind |-> cmd.kind,
     units |-> IF cmd.kind = "start" THEN Covers(cmd.req) ELSE {},
     auto |-> cmd.kind = "start" /\ cmd.req.auto]

OfferedAll(q) == [i \in DOMAIN q |-> Offered(q[i])]

Promise == INSTANCE ScanPromise WITH
    inbox <- OfferedAll(inbox),
    owed <- Owed,
    covering <- IF activeRun = "none" THEN {} ELSE Covers(active),
    running <- activeRun = "running",
    closed <- paused

\* The loop keeps the promise: one run at a time and none begun during a pause;
\* every place a taken request asks for is covered by the present run or by what
\* waits, coalescing included; only a stop or a manual start drops what waits
\* (scanner.go 418-447, enqueueScanRequest and mergeScanRequests).
KeepsPromise == Promise!Spec

\* Waiting requests do not wait for ever: a run starts or they are dropped, also
\* when a debug pause comes between the end of a run and the next start.
PendingMoves == pending # <<>> ~> activeRun = "running" \/ pending = <<>>

\* No wake-up is lost. With no run, requests wait only because a debug pause lasts
\* or because the start that will take them is under way, and the status that
\* callers poll says idle exactly when nothing waits. Nothing but a start wakes the
\* loop: a request left behind otherwise would stay, and callers would see work
\* that nobody does (scanner.go 418-447, debug_settings.go).
StartUnderWay == owesCall = "start" \/ \E i \in DOMAIN inbox : inbox[i].kind = "start"
NoLostWakeUp ==
    activeRun = "none" =>
        /\ state # "idle" <=> pending # <<>>
        /\ pending # <<>> => paused \/ StartUnderWay

=============================================================================
