--------------------------- MODULE VideoSegments ---------------------------
(***************************************************************************)
(* HLS playback of a video that browsers cannot play: segments are made on *)
(* request, one goroutine per segment, behind a queue that a fixed number  *)
(* of slots serves.  Requests, prewarming and full warming of the same     *)
(* video share the runtimes; sessions join and leave them.                 *)
(*                                                                         *)
(* The map of runtimes is read and written under one mutex, so every step  *)
(* here is one critical section.  A runtime object is told apart from the  *)
(* one that replaced it by the number of the goroutine started with it;    *)
(* goroutines find "their" runtime by key, as the code does.               *)
(***************************************************************************)
EXTENDS Integers, FiniteSets

CONSTANTS Count,      \* segments of the video
          Sessions,   \* viewers
          Warmers,    \* the viewers that may ask for the whole video
          Slots,      \* capacity of videoProxySlots
          MaxRuns,    \* bound: goroutines per segment
          MaxRequests,\* bound: requests and warm jobs
          MaxTrouble, \* bound: debug pauses, asset deletions, library removals
          MaxSweeps   \* bound: files and states that go away

ASSUME ConstantsAssumption ==
    /\ Count \in Nat \ {0} /\ Slots \in Nat \ {0} /\ MaxRuns \in Nat \ {0}
    /\ MaxRequests \in Nat /\ MaxTrouble \in Nat /\ MaxSweeps \in Nat
    /\ Warmers \subseteq Sessions

Segments == 1 .. Count
Gens     == 1 .. MaxRuns
Jobs     == Segments \X Gens
Callers  == (Sessions \X {"player"}) \cup (Warmers \X {"warm"})

Balanced == 1
FullWarm == 2
Playback == 3

VARIABLES
    seg,       \* videoSegmentStates
    line,      \* QueueOrder: pairs of segments, the first queued before the second
    run,       \* where each goroutine is
    cancelled, \* goroutines whose context has been cancelled
    slots,     \* goroutines that hold a slot
    closed,    \* how often a runtime's Done has been closed
    file,      \* segments that are finished
    req,       \* requests and warm jobs
    paused,    \* debug pause of external file access
    purge,     \* removeVideoSegmentCaches in progress
    requests, trouble, sweeps,
    undercut   \* history: segments whose entry went away under a goroutine

vars == <<seg, line, run, cancelled, slots, closed, file, req,
          paused, purge, requests, trouble, sweeps, undercut>>

NoEntry == [gen |-> -1]
Entry == [gen : 0 .. MaxRuns, sessions : SUBSET Sessions, owner : Sessions \cup {""},
          queued : BOOLEAN, claiming : BOOLEAN, transcoding : BOOLEAN,
          priority : 0 .. Playback, doomed : BOOLEAN, cancel : BOOLEAN]
Phases == {"none", "start", "poll", "claim", "transcode", "finish", "ended"}

TypeOK ==
    /\ seg \in [Segments -> Entry \cup {NoEntry}]
    /\ line \subseteq Segments \X Segments
    /\ run \in [Jobs -> [at : Phases, took : 0 .. MaxRuns]]
    /\ cancelled \subseteq Jobs
    /\ slots \subseteq Jobs /\ Cardinality(slots) <= Slots
    /\ closed \in [Jobs -> 0 .. 2]
    /\ file \subseteq Segments
    /\ req \in [Callers -> [at : {"idle", "ensure", "blocked", "wait", "stop"},
                            segment : Segments, gen : 0 .. MaxRuns,
                            priority : 1 .. Playback, left : BOOLEAN]]
    /\ paused \in BOOLEAN
    /\ purge \in [at : {"idle", "wait"}, jobs : SUBSET Jobs]
    /\ requests \in 0 .. MaxRequests /\ trouble \in 0 .. MaxTrouble /\ sweeps \in 0 .. MaxSweeps
    /\ undercut \subseteq Segments

Unasked == [at |-> "idle", segment |-> 1, gen |-> 0, priority |-> Balanced, left |-> FALSE]

Init ==
    /\ seg = [k \in Segments |-> NoEntry] /\ line = {}
    /\ run = [j \in Jobs |-> [at |-> "none", took |-> 0]]
    /\ cancelled = {} /\ slots = {}
    /\ closed = [j \in Jobs |-> 0]
    /\ file = {}
    /\ req = [c \in Callers |-> Unasked]
    /\ paused = FALSE /\ purge = [at |-> "idle", jobs |-> {}]
    /\ requests = 0 /\ trouble = 0 /\ sweeps = 0 /\ undercut = {}

-----------------------------------------------------------------------------
Present(k) == seg[k] # NoEntry
\* Mutant: what is being transcoded is taken for idle.
RunningIfQueued(k) == Present(k) /\ seg[k].queued
Running(k) == Present(k) /\ (seg[k].queued \/ seg[k].claiming \/ seg[k].transcoding)
Alive(j) == run[j].at \notin {"none", "ended"}
Undercut(ks) == undercut' = undercut \cup {k \in ks : \E g \in Gens : Alive(<<k, g>>)}

\* A segment that is given the next number stands behind all that are queued.
Queued == {k \in Segments : Present(k) /\ seg[k].queued}
Without(k) == {p \in line : k \notin {p[1], p[2]}}
ToEnd(k) == Without(k) \cup ((Queued \ {k}) \X {k})
Ahead(k, l) == <<k, l>> \in line

\* videoSegmentQueueHeadLocked: the highest priority, sessions without a
\* segment in work first, then the order of arrival.
Waiting == {k \in Queued : ~seg[k].claiming /\ seg[k].cancel}
Head1(ks) == {k \in ks : \A l \in ks : l # k => Ahead(k, l)}
QueueHead ==
    LET top == {k \in Waiting : \A l \in Waiting : seg[l].priority <= seg[k].priority}
        busy == {seg[k].owner : k \in {l \in Segments : Present(l) /\ (seg[l].transcoding \/ seg[l].claiming)}}
        calm == {k \in top : seg[k].owner \notin busy \ {""}}
    IN  IF calm # {} THEN Head1(calm) ELSE Head1(top)

-----------------------------------------------------------------------------
(* ensureVideoSegmentRuntime and its callers.                              *)

Join(k, s) == seg[k].sessions \cup {s}

Move(c, at, gen) == req' = [req EXCEPT ![c].at = at, ![c].gen = gen]
KeepsRuns == UNCHANGED <<run, cancelled, closed, slots>>

\* A player takes the file or the error; warming goes on to the next segment.
AfterWait(c) ==
    IF c[2] = "player" THEN Unasked
    ELSE IF req[c].segment = Count \/ req[c].left THEN [req[c] EXCEPT !.at = "stop", !.gen = 0]
    ELSE [req[c] EXCEPT !.at = "ensure", !.gen = 0, !.segment = @ + 1]

\* The runtime is being cancelled: wait for its end, then ask again.
EnsureBlocked(c) ==
    LET k == req[c].segment IN
    /\ Present(k) /\ seg[k].doomed
    /\ Move(c, "blocked", seg[k].gen)
    /\ UNCHANGED <<seg, line>> /\ KeepsRuns

EnsureCached(c) ==
    LET k == req[c].segment IN
    /\ Present(k) => ~seg[k].doomed
    /\ k \in file
    /\ seg' = [seg EXCEPT ![k] =
          IF Present(k) THEN [@ EXCEPT !.sessions = Join(k, c[1]), !.queued = FALSE, !.transcoding = FALSE]
          ELSE [gen |-> 0, sessions |-> {c[1]}, owner |-> "", queued |-> FALSE, claiming |-> FALSE,
                transcoding |-> FALSE, priority |-> 0, doomed |-> FALSE, cancel |-> FALSE]]
    /\ req' = [req EXCEPT ![c] = AfterWait(c)]
    /\ UNCHANGED line /\ KeepsRuns

\* A more urgent request takes the place in the queue over.
EnsureJoins(c) ==
    LET k == req[c].segment  more == req[c].priority > seg[k].priority IN
    /\ Running(k) /\ ~seg[k].doomed /\ k \notin file
    /\ seg' = [seg EXCEPT ![k].sessions = Join(k, c[1]),
                          ![k].priority = IF more THEN req[c].priority ELSE @,
                          ![k].owner = IF more \/ @ = "" THEN c[1] ELSE @]
    /\ line' = IF more THEN ToEnd(k) ELSE line
    /\ Move(c, "wait", seg[k].gen)
    /\ KeepsRuns

\* A new runtime for this session alone, and its goroutine.
EnsureStarts(c, g) ==
    LET k == req[c].segment IN
    /\ ~Running(k) /\ (Present(k) => ~seg[k].doomed) /\ k \notin file
    /\ \A h \in Gens : run[<<k, h>>].at = "none" <=> h >= g
    /\ run[<<k, g>>].at = "none"
    /\ seg' = [seg EXCEPT ![k] =
          [gen |-> g, sessions |-> {c[1]}, owner |-> c[1], queued |-> TRUE, claiming |-> FALSE,
           transcoding |-> FALSE, priority |-> req[c].priority, doomed |-> FALSE, cancel |-> TRUE]]
    /\ line' = ToEnd(k)
    /\ run' = [run EXCEPT ![<<k, g>>].at = "start"]
    /\ Move(c, "wait", g)
    /\ UNCHANGED <<cancelled, closed, slots>>

Ensure(c) ==
    /\ req[c].at = "ensure"
    /\ \/ EnsureBlocked(c) \/ EnsureCached(c) \/ EnsureJoins(c)
       \/ \E g \in Gens : EnsureStarts(c, g)
    /\ UNCHANGED <<file, paused, purge, requests, trouble, sweeps, undercut>>

ReqOnly == UNCHANGED <<seg, line, run, cancelled, slots, closed, file,
                       paused, purge, trouble, sweeps, undercut>>
Asked == requests < MaxRequests /\ requests' = requests + 1

\* A request for a segment, by the player or by prewarming.
Request(c, k, p) ==
    /\ c[2] = "player" /\ req[c].at = "idle" /\ ~paused /\ Asked
    /\ \E g \in Gens : run[<<k, g>>].at = "none"   \* bound
    /\ req' = [req EXCEPT ![c] = [at |-> "ensure", segment |-> k, gen |-> 0,
                                  priority |-> p, left |-> FALSE]]
    /\ ReqOnly

\* Full warming goes through all segments; the last thing it does is to stop
\* its session.
WarmStarts(c) ==
    /\ c[2] = "warm" /\ req[c].at = "idle" /\ ~paused /\ Asked
    /\ \A k \in Segments : run[<<k, MaxRuns>>].at = "none"   \* bound
    /\ req' = [req EXCEPT ![c] = [at |-> "ensure", segment |-> 1, gen |-> 0,
                                  priority |-> FullWarm, left |-> FALSE]]
    /\ ReqOnly

\* waitVideoSegment, and the wait for a cancelled runtime, which ends after
\* five seconds.
Wakes(c) ==
    LET j == <<req[c].segment, req[c].gen>> IN
    /\ req[c].at \in {"wait", "blocked"} /\ closed[j] > 0
    /\ req' = [req EXCEPT ![c] = IF req[c].at = "blocked" THEN [@ EXCEPT !.at = "ensure", !.gen = 0]
                                 ELSE AfterWait(c)]
    /\ ReqOnly /\ UNCHANGED requests

BlockedTimesOut(c) ==
    /\ req[c].at = "blocked" /\ req' = [req EXCEPT ![c] = AfterWait(c)]
    /\ ReqOnly /\ UNCHANGED requests

\* The request's own context ends; warming ends when it was cancelled.
Abandons(c) ==
    /\ req[c].at \in {"ensure", "wait"} /\ (c[2] = "warm" => req[c].left)
    /\ req' = [req EXCEPT ![c] = AfterWait(c)]
    /\ ReqOnly /\ UNCHANGED requests

-----------------------------------------------------------------------------
(* stopVideoSegmentSession: the last session of a runtime takes it along.  *)

\* Mutant: every session's stop cancels the runtime.
AnyLeaving(s) == {k \in Segments : Present(k) /\ s \in seg[k].sessions}
LastLeaving(s) == {k \in Segments : Present(k) /\ seg[k].sessions = {s}}

StopSession(s) ==
    LET leaves == {k \in Segments : Present(k) /\ s \in seg[k].sessions}
        last == LastLeaving(s)
    IN /\ \E heir \in [leaves -> Sessions \cup {""}] :
            /\ \A k \in leaves :
                 LET rest == seg[k].sessions \ {s} IN
                 heir[k] \in IF seg[k].owner # s THEN {seg[k].owner}
                             ELSE IF rest = {} THEN {""} ELSE rest
            /\ seg' = [k \in Segments |->
                 IF k \notin leaves THEN seg[k]
                 ELSE IF k \in last /\ ~Running(k) THEN NoEntry
                 ELSE [seg[k] EXCEPT !.sessions = @ \ {s}, !.owner = heir[k],
                                     !.doomed = @ \/ k \in last]]
       /\ cancelled' = cancelled \cup {<<k, seg[k].gen>> : k \in {l \in last : Running(l) /\ seg[l].cancel}}
       /\ Undercut({k \in last : ~Running(k)})

\* The viewer closes the player: the warm job is cancelled, the session left.
SessionStop(s) ==
    /\ \E c \in Callers : c[1] = s /\ req[c].at # "idle" /\ ~req[c].left
    /\ StopSession(s)
    /\ req' = [c \in Callers |-> IF c[1] = s /\ req[c].at # "idle" THEN [req[c] EXCEPT !.left = TRUE] ELSE req[c]]
    /\ UNCHANGED <<line, run, slots, closed, file, paused, purge, requests, trouble, sweeps>>

WarmEnds(c) ==
    /\ req[c].at = "stop" /\ StopSession(c[1])
    /\ req' = [d \in Callers |-> IF d = c THEN Unasked
                                 ELSE IF d[1] = c[1] /\ req[d].at # "idle" THEN [req[d] EXCEPT !.left = TRUE]
                                 ELSE req[d]]
    /\ UNCHANGED <<line, run, slots, closed, file, paused, purge, requests, trouble, sweeps>>

-----------------------------------------------------------------------------
(* runVideoSegmentTranscode.                                               *)

To(j, at) == run' = [run EXCEPT ![j] = [at |-> at, took |-> 0]]
RunKeeps == UNCHANGED <<req, paused, purge, requests, trouble, sweeps, undercut>>
QueueKeeps == UNCHANGED <<line, cancelled>>

StartRun(j) ==
    /\ run[j].at = "start"
    /\ To(j, IF paused THEN "finish" ELSE "poll")
    /\ UNCHANGED <<seg, slots, closed, file>> /\ QueueKeeps /\ RunKeeps

\* acquireScheduledVideoSegmentSlot claims the head of the queue by its key.
ClaimHead(j) ==
    /\ run[j].at = "poll" /\ j[1] \in QueueHead
    /\ seg' = [seg EXCEPT ![j[1]].claiming = TRUE]
    /\ run' = [run EXCEPT ![j].at = "claim", ![j].took = seg[j[1]].gen]
    /\ UNCHANGED <<slots, closed, file>> /\ QueueKeeps /\ RunKeeps

GivesUp(j) ==
    /\ run[j].at = "poll" /\ (~Present(j[1]) \/ (j \in cancelled /\ j[1] \notin QueueHead))
    /\ To(j, "finish")
    /\ UNCHANGED <<seg, slots, closed, file>> /\ QueueKeeps /\ RunKeeps

SlotFree == Cardinality(slots) < Slots

TakesSlot(j) ==
    LET k == j[1] IN
    /\ run[j].at = "claim" /\ j \notin cancelled /\ SlotFree
    /\ slots' = slots \cup {j}
    /\ seg' = IF Present(k) THEN [seg EXCEPT ![k].queued = FALSE, ![k].claiming = FALSE, ![k].transcoding = TRUE]
              ELSE seg
    /\ To(j, "transcode")
    /\ UNCHANGED <<closed, file>> /\ QueueKeeps /\ RunKeeps

ClaimCancelled(j) ==
    LET k == j[1] IN
    /\ run[j].at = "claim" /\ j \in cancelled
    /\ seg' = IF Present(k) /\ seg[k].gen = run[j].took THEN [seg EXCEPT ![k].claiming = FALSE] ELSE seg
    /\ To(j, "finish")
    /\ UNCHANGED <<slots, closed, file>> /\ QueueKeeps /\ RunKeeps

\* Validated output is renamed into place; a cancelled context fails the run.
TranscodeEnds(j) ==
    /\ run[j].at = "transcode" /\ To(j, "finish")
    /\ file' \in {file} \cup IF j \in cancelled THEN {} ELSE {file \cup {j[1]}}
    /\ UNCHANGED <<seg, slots, closed>> /\ QueueKeeps /\ RunKeeps

\* Mutant: a runtime that is to be deleted is deleted before Done is closed.
ReportsOnlyKept(k) == Present(k) /\ ~seg[k].doomed
ReportsTo(k) == Present(k)

\* Mutant: an error path keeps the slot.
SlotKept(j) == slots
SlotReleased(j) == slots \ {j}

\* finishVideoSegmentTranscode, under the lock: the result goes to the
\* runtime the map has for the key now.  What is only displayed afterwards,
\* priority and owner, is dropped.
Finish(j) ==
    LET k == j[1]  mine == <<k, seg[k].gen>> IN
    /\ run[j].at = "finish"
    /\ seg' = IF ~Present(k) THEN seg
              ELSE [seg EXCEPT ![k] = IF @.doomed THEN NoEntry
                      ELSE [@ EXCEPT !.queued = FALSE, !.claiming = FALSE, !.transcoding = FALSE,
                                     !.cancel = FALSE, !.priority = 0, !.owner = ""]]
    /\ closed' = IF ReportsTo(k) /\ mine \in Jobs
                    THEN [closed EXCEPT ![mine] = IF @ = 2 THEN 2 ELSE @ + 1] ELSE closed
    /\ slots' = SlotReleased(j) /\ cancelled' = cancelled \ {j}
    /\ line' = Without(k)
    /\ To(j, "ended")
    /\ UNCHANGED file /\ RunKeeps

RunStep(j) ==
    \/ StartRun(j) \/ ClaimHead(j) \/ GivesUp(j) \/ TakesSlot(j)
    \/ ClaimCancelled(j) \/ TranscodeEnds(j) \/ Finish(j)

-----------------------------------------------------------------------------
(* What comes from other parts of the program.                             *)

Trouble == trouble < MaxTrouble /\ trouble' = trouble + 1
Cancellable == {<<k, seg[k].gen>> : k \in {l \in Segments : Present(l) /\ seg[l].cancel}}
EnvKeeps == UNCHANGED <<line, run, slots, closed, requests>>

\* cancelExternalMediaWork and the end of the pause.
SetPause ==
    /\ IF paused THEN UNCHANGED <<cancelled, req, trouble>>
       ELSE /\ Trouble /\ cancelled' = cancelled \cup Cancellable
            /\ req' = [c \in Callers |-> IF c[2] = "warm" /\ req[c].at # "idle"
                                           THEN [req[c] EXCEPT !.left = TRUE] ELSE req[c]]
    /\ paused' = ~paused
    /\ UNCHANGED <<seg, file, purge, sweeps, undercut>> /\ EnvKeeps

\* stopAssetVideoWork: the asset is deleted, the entries go at once.
AssetDeleted ==
    /\ Trouble /\ cancelled' = cancelled \cup Cancellable
    /\ seg' = [k \in Segments |-> NoEntry] /\ Undercut(Segments)
    /\ UNCHANGED <<file, req, paused, purge, sweeps>> /\ EnvKeeps

\* removeVideoSegmentCaches after a library was removed: cancel what runs,
\* wait for it, then drop the entries and the files.
PurgeBegins ==
    /\ purge.at = "idle" /\ Trouble
    /\ purge' = [at |-> "wait",
                 jobs |-> {<<k, seg[k].gen>> : k \in {l \in Segments : Present(l) /\ (seg[l].queued \/ seg[l].transcoding)}}]
    /\ cancelled' = cancelled \cup (purge'.jobs \cap Cancellable)
    /\ req' = [c \in Callers |-> IF c[2] = "warm" /\ req[c].at # "idle"
                                   THEN [req[c] EXCEPT !.left = TRUE] ELSE req[c]]
    /\ UNCHANGED <<seg, file, paused, sweeps, undercut>> /\ EnvKeeps

PurgeEnds ==
    /\ purge.at = "wait" /\ purge' = [at |-> "idle", jobs |-> {}]
    /\ IF \A j \in purge.jobs : closed[j] > 0
         THEN /\ seg' = [k \in Segments |-> NoEntry] /\ Undercut(Segments)
              /\ file' = {}
         ELSE UNCHANGED <<seg, file, undercut>>   \* five seconds are over
    /\ UNCHANGED <<cancelled, req, paused, trouble, sweeps>> /\ EnvKeeps

\* The sweeper forgets states of old segments, and removes files with their
\* states; the cache policy removes files that nobody has pinned.
Idle(k) == Present(k) => ~seg[k].queued /\ ~seg[k].transcoding
Sweep(k) ==
    /\ sweeps < MaxSweeps /\ sweeps' = sweeps + 1
    /\ \/ /\ Present(k) /\ Idle(k)
          /\ seg' = [seg EXCEPT ![k] = NoEntry] /\ Undercut({k})
          /\ file' \in {file, file \ {k}}
       \/ /\ k \in file /\ \A g \in Gens : ~Alive(<<k, g>>)
          /\ file' = file \ {k}
          /\ UNCHANGED <<seg, undercut>>
    /\ UNCHANGED <<cancelled, req, paused, purge, trouble>> /\ EnvKeeps

CallerStep(c) == Ensure(c) \/ Wakes(c) \/ WarmEnds(c)

Next ==
    \/ \E j \in Jobs : RunStep(j)
    \/ \E c \in Callers : CallerStep(c) \/ BlockedTimesOut(c) \/ Abandons(c) \/ WarmStarts(c)
    \/ \E c \in Callers, k \in Segments, p \in {Balanced, Playback} : Request(c, k, p)
    \/ \E s \in Sessions : SessionStop(s)
    \/ SetPause \/ AssetDeleted \/ PurgeBegins \/ PurgeEnds
    \/ \E k \in Segments : Sweep(k)

Spec == Init /\ [][Next]_vars

-----------------------------------------------------------------------------
(* A goroutine that has ended has closed the Done of its runtime, once: no *)
(* request waits for nothing and no second close brings the server down.   *)
(* Entries that are removed under their goroutine break this.              *)
DoneIsClosedOnce ==
    \A j \in Jobs : j[1] \notin undercut =>
        closed[j] = IF run[j].at = "ended" THEN 1 ELSE 0

(* All attempts at a segment remove, write and rename one temporary path,  *)
(* and the result is served as immutable: no two are under way at a time.  *)
OneWriter ==
    \A k \in Segments : k \notin undercut => Cardinality({g \in Gens : Alive(<<k, g>>)}) <= 1

(* Nobody's stop takes away a segment that another viewer waits for.       *)
WantedIsNotDoomed ==
    \A c \in Callers :
        LET k == req[c].segment IN
        req[c].at = "wait" /\ ~req[c].left /\ Present(k) /\ seg[k].gen = req[c].gen
            => ~seg[k].doomed

(* While a segment waits for its turn something else is in work or its own *)
(* turn has come: the queue is never stuck on a segment nobody works on.   *)
QueueMoves ==
    (\E j \in Jobs : run[j].at \in {"poll", "claim"}) /\ undercut = {} =>
        \E j \in Jobs : \/ run[j].at \in {"start", "transcode", "finish"}
                        \/ run[j].at = "poll" /\ (j[1] \in QueueHead \/ j \in cancelled)
                        \/ run[j].at = "claim" /\ (SlotFree \/ j \in cancelled)

=============================================================================
