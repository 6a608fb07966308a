---------------------------- MODULE VideoProxy ----------------------------
(***************************************************************************)
(* Playback of a video through one growing MP4: a runtime per asset, start *)
(* position and accelerator, a goroutine per runtime that transcodes into  *)
(* a temporary file and renames it, viewers that stream the temporary file *)
(* while it grows or the finished one, leases that keep a transcode alive, *)
(* and a sweeper that removes what nobody uses.                            *)
(*                                                                         *)
(* Every step is one critical section of videoProxyMu or one group of file *)
(* operations between two of them.  Goroutines find their runtime by key,  *)
(* so a goroutine whose runtime was removed acts on the one that came      *)
(* after it.  A lease that runs out and a state that has expired are       *)
(* choices: the clock is not modelled.                                     *)
(***************************************************************************)
EXTENDS Integers, FiniteSets

CONSTANTS Keys,        \* runtime keys of one asset
          Viewers,     \* sessions
          Slots,       \* capacity of videoProxySlots
          MaxRuns,     \* bound: goroutines
          MaxSweeps,   \* bound: removals by the sweepers
          MaxTrouble   \* bound: debug pauses, asset deletions, restarts

ASSUME ConstantsAssumption ==
    /\ Slots \in Nat \ {0} /\ MaxRuns \in Nat \ {0}
    /\ MaxSweeps \in Nat /\ MaxTrouble \in Nat

Gens == 1 .. MaxRuns
Jobs == Keys \X Gens

VARIABLES
    proxy,     \* videoProxyStates
    run,       \* where each goroutine is
    stopped,   \* goroutines whose context has been cancelled
    idle,      \* goroutines whose canceller has found no lease
    slots,     \* goroutines that hold a slot
    tmp,       \* whose output the temporary file is, 0: there is none
    dest,      \* the finished file
    status,    \* video_proxy_status of the asset
    viewer,    \* what each viewer's request does
    condemned, \* files the sweeper is about to remove
    paused,    \* debug pause of external file access
    sweeps, trouble,
    crashed,   \* a Done was closed twice, which ends the process
    undercut   \* history: keys whose runtime or files went away under their goroutine

vars == <<proxy, run, stopped, idle, slots, tmp, dest, status, viewer,
          condemned, paused, sweeps, trouble, crashed, undercut>>

NoEntry == [gen |-> -1]
\* "gen" is the goroutine the entry's Done was made for, "cancel" the one its
\* Cancel belongs to.
Entry == [gen : 0 .. MaxRuns, queued : BOOLEAN, transcoding : BOOLEAN, cancel : 0 .. MaxRuns,
          streams : 0 .. Cardinality(Viewers), leases : SUBSET Viewers, shut : BOOLEAN]
Phases == {"none", "start", "listing", "slot", "started", "transcode", "good", "bad", "idled", "report", "ended"}

Away == [at |-> "away"]

TypeOK ==
    /\ proxy \in [Keys -> Entry \cup {NoEntry}]
    /\ run \in [Jobs -> Phases]
    /\ stopped \subseteq Jobs /\ idle \subseteq Jobs
    /\ slots \subseteq Jobs /\ Cardinality(slots) <= Slots
    /\ tmp \in [Keys -> 0 .. MaxRuns]
    /\ dest \in [Keys -> {"none", "whole", "part"}]
    /\ status \in {"not_required", "processing", "ready", "error"}
    /\ viewer \in [Viewers -> {Away} \cup [at : {"coming", "opening", "live", "cached"}, key : Keys]]
    /\ condemned \subseteq Keys
    /\ paused \in BOOLEAN /\ crashed \in BOOLEAN /\ undercut \subseteq Keys
    /\ sweeps \in 0 .. MaxSweeps /\ trouble \in 0 .. MaxTrouble

Init ==
    /\ proxy = [k \in Keys |-> NoEntry]
    /\ run = [j \in Jobs |-> "none"]
    /\ stopped = {} /\ idle = {} /\ slots = {}
    /\ tmp = [k \in Keys |-> 0] /\ dest = [k \in Keys |-> "none"]
    /\ status = "not_required"
    /\ viewer = [v \in Viewers |-> Away]
    /\ condemned = {} /\ paused = FALSE
    /\ sweeps = 0 /\ trouble = 0 /\ crashed = FALSE /\ undercut = {}

-----------------------------------------------------------------------------
Present(k) == proxy[k] # NoEntry
Alive(j) == run[j] \notin {"none", "ended"}

\* Mutant: a runtime that waits for its slot is taken for idle.
TranscodingOnly(e) == e.transcoding
Busy(e) == e.queued \/ e.transcoding

InUse(k) == Present(k) /\ (Busy(proxy[k]) \/ proxy[k].streams > 0 \/ proxy[k].leases # {})

NewEntry == [gen |-> 0, queued |-> FALSE, transcoding |-> FALSE, cancel |-> 0,
             streams |-> 0, leases |-> {}, shut |-> FALSE]
Touched(k) == IF Present(k) THEN proxy[k] ELSE NewEntry

\* What ensureVideoProxyRuntime makes of the entry: a finished file is used, a
\* goroutine that is at it is joined, otherwise one is started.
Cached(k) == dest[k] # "none"
Joins(k, e) == ~Cached(k) /\ Busy(e)
Starts(k, e, g) ==
    /\ ~Cached(k) /\ ~Busy(e)
    /\ run[<<k, g>>] = "none" /\ \A h \in Gens : h < g => run[<<k, h>>] # "none"
    /\ Cardinality({j \in Jobs : run[j] # "none"}) < MaxRuns   \* bound

Ensured(k, e) ==
    \/ /\ Cached(k) /\ proxy' = [proxy EXCEPT ![k] = [e EXCEPT !.transcoding = FALSE]]
       /\ UNCHANGED run
    \/ /\ Joins(k, e) /\ proxy' = [proxy EXCEPT ![k] = e]
       /\ UNCHANGED run
    \/ \E g \in Gens :
         /\ Starts(k, e, g)
         /\ proxy' = [proxy EXCEPT ![k] = [e EXCEPT !.queued = TRUE, !.transcoding = FALSE,
                                                    !.gen = g, !.shut = FALSE]]
         /\ run' = [run EXCEPT ![<<k, g>>] = "start"]

FilesKeep == UNCHANGED <<tmp, dest, status, condemned>>
WorldKeeps == UNCHANGED <<paused, sweeps, trouble, crashed, undercut>>
RunsKeep == UNCHANGED <<stopped, idle, slots>>

-----------------------------------------------------------------------------
(* Viewers: videoProxy, its two ways to serve, and keepalive.              *)

Play(v, k) ==
    /\ viewer[v].at = "away" /\ ~paused
    /\ Ensured(k, Touched(k))
    /\ viewer' = [viewer EXCEPT ![v] = [at |-> IF Cached(k) THEN "coming" ELSE "opening", key |-> k]]
    /\ RunsKeep /\ FilesKeep /\ WorldKeeps

Streaming(v, k) ==
    proxy' = IF Present(k) THEN [proxy EXCEPT ![k].streams = @ + 1, ![k].leases = @ \cup {v}] ELSE proxy

\* serveLiveVideoProxy marks the stream before it looks for a file.
JoinStream(v) ==
    /\ viewer[v].at = "opening"
    /\ viewer' = [viewer EXCEPT ![v].at = "live"]
    /\ Streaming(v, viewer[v].key)
    /\ UNCHANGED run /\ RunsKeep /\ FilesKeep /\ WorldKeeps

\* serveCachedVideoProxy opens the file first; it may be gone.
OpenCached(v) ==
    /\ viewer[v].at = "coming"
    /\ IF Cached(viewer[v].key)
         THEN viewer' = [viewer EXCEPT ![v].at = "cached"] /\ Streaming(v, viewer[v].key)
         ELSE viewer' = [viewer EXCEPT ![v] = Away] /\ UNCHANGED proxy
    /\ UNCHANGED run /\ RunsKeep /\ FilesKeep /\ WorldKeeps

\* The stream ends: nothing was there to open, the transcode is over, or the
\* viewer has gone.
LeaveStream(v) ==
    /\ viewer[v].at \in {"live", "cached"}
    /\ viewer' = [viewer EXCEPT ![v] = Away]
    /\ LET k == viewer[v].key IN
       proxy' = IF Present(k) /\ proxy[k].streams > 0 THEN [proxy EXCEPT ![k].streams = @ - 1] ELSE proxy
    /\ UNCHANGED run /\ RunsKeep /\ FilesKeep /\ WorldKeeps

\* touchVideoProxyRuntime with a heartbeat, a critical section of its own ...
Heartbeat(v, k, wants) ==
    /\ proxy' = [proxy EXCEPT ![k] = [Touched(k) EXCEPT !.leases = IF wants THEN @ \cup {v} ELSE @ \ {v}]]
    /\ UNCHANGED <<run, viewer>> /\ RunsKeep /\ FilesKeep /\ WorldKeeps

\* ... before the runtime is ensured.
KeepaliveEnsures(k) ==
    /\ Present(k) /\ Ensured(k, proxy[k])
    /\ UNCHANGED viewer /\ RunsKeep /\ FilesKeep /\ WorldKeeps

LeaseEnds(v, k) ==
    /\ Present(k) /\ v \in proxy[k].leases
    /\ proxy' = [proxy EXCEPT ![k].leases = @ \ {v}]
    /\ UNCHANGED <<run, viewer>> /\ RunsKeep /\ FilesKeep /\ WorldKeeps

-----------------------------------------------------------------------------
(* runVideoProxyTranscode.                                                 *)

To(j, at) == run' = [run EXCEPT ![j] = at]

StartRun(j) ==
    /\ run[j] = "start"
    /\ IF paused THEN To(j, "bad") /\ UNCHANGED <<tmp, status>>
                 ELSE To(j, "listing") /\ tmp' = [tmp EXCEPT ![j[1]] = 0] /\ status' = "processing"
    /\ UNCHANGED <<proxy, viewer, dest, condemned>> /\ RunsKeep /\ WorldKeeps

ListCancel(j) ==
    LET k == j[1] IN
    /\ run[j] = "listing" /\ To(j, "slot")
    /\ proxy' = IF Present(k) THEN [proxy EXCEPT ![k].cancel = j[2]] ELSE proxy
    /\ UNCHANGED viewer /\ RunsKeep /\ FilesKeep /\ WorldKeeps

\* cancelVideoProxyTranscodeWhenIdle asks by key and cancels afterwards.
FindsIdle(j) ==
    LET k == j[1] IN
    /\ run[j] \in {"slot", "started", "transcode"} /\ j \notin stopped \cup idle
    /\ Present(k) /\ Busy(proxy[k]) /\ proxy[k].leases = {}
    /\ idle' = idle \cup {j}
    /\ UNCHANGED <<proxy, run, stopped, slots, viewer>> /\ FilesKeep /\ WorldKeeps

CancelsIdle(j) ==
    /\ j \in idle \ stopped /\ Alive(j) /\ stopped' = stopped \cup {j}
    /\ UNCHANGED <<proxy, run, idle, slots, viewer>> /\ FilesKeep /\ WorldKeeps

FreeSlot == Cardinality(slots) < Slots

TakeSlot(j) ==
    /\ run[j] = "slot" /\ FreeSlot
    /\ slots' = slots \cup {j} /\ To(j, "started")
    /\ UNCHANGED <<proxy, stopped, idle, viewer>> /\ FilesKeep /\ WorldKeeps

AfterGivingUp == "idled"
GiveUp(j) ==
    /\ run[j] = "slot" /\ j \in stopped /\ To(j, AfterGivingUp)
    /\ UNCHANGED <<proxy, viewer>> /\ RunsKeep /\ FilesKeep /\ WorldKeeps

Transcode(j) ==
    LET k == j[1] IN
    /\ run[j] = "started" /\ To(j, "transcode")
    /\ proxy' = IF Present(k) THEN [proxy EXCEPT ![k].queued = FALSE, ![k].transcoding = TRUE] ELSE proxy
    /\ tmp' = [tmp EXCEPT ![k] = j[2]]
    /\ UNCHANGED <<viewer, dest, status, condemned>> /\ RunsKeep /\ WorldKeeps

\* A cancelled ffmpeg is killed; whose idea it was decides the result.
TranscodeEnds(j) ==
    /\ run[j] = "transcode"
    /\ IF j \in idle THEN To(j, "idled")
       ELSE IF j \in stopped THEN To(j, "bad")
       ELSE To(j, "good") \/ To(j, "bad")
    /\ UNCHANGED <<proxy, viewer>> /\ RunsKeep /\ FilesKeep /\ WorldKeeps

\* finishVideoProxyTranscode: the files and the status, then the runtime.
\* Mutant: the output of a failed run is renamed as well.
AnyOutcome == {"good", "bad"}
GoodOutcome == {"good"}
Whole(k) == run[<<k, tmp[k]>>] \in {"good", "report", "ended"}

FinishFiles(j) ==
    LET k == j[1]  renamed == run[j] \in GoodOutcome /\ tmp[k] # 0 IN
    /\ run[j] \in {"good", "bad", "idled"} /\ To(j, "report")
    /\ tmp' = [tmp EXCEPT ![k] = 0]
    /\ dest' = IF renamed THEN [dest EXCEPT ![k] = IF Whole(k) THEN "whole" ELSE "part"] ELSE dest
    /\ status' = IF run[j] = "idled" THEN "not_required" ELSE IF renamed THEN "ready" ELSE "error"
    /\ UNCHANGED <<proxy, viewer, condemned>> /\ RunsKeep /\ WorldKeeps

\* Mutant: a failed start leaves the runtime as it is.
ReportOpen(e) == [e EXCEPT !.cancel = 0, !.shut = TRUE]
Reported(e) == [e EXCEPT !.queued = FALSE, !.transcoding = FALSE, !.cancel = 0, !.shut = TRUE]

Report(j) ==
    LET k == j[1] IN
    /\ run[j] = "report" /\ To(j, "ended")
    /\ proxy' = IF Present(k) THEN [proxy EXCEPT ![k] = Reported(@)] ELSE proxy
    /\ crashed' = (crashed \/ (Present(k) /\ proxy[k].shut))
    /\ slots' = slots \ {j} /\ stopped' = stopped \ {j} /\ idle' = idle \ {j}
    /\ UNCHANGED <<viewer, paused, sweeps, trouble, undercut>> /\ FilesKeep

RunStep(j) ==
    \/ StartRun(j) \/ ListCancel(j) \/ FindsIdle(j) \/ CancelsIdle(j) \/ TakeSlot(j)
    \/ GiveUp(j) \/ Transcode(j) \/ TranscodeEnds(j) \/ FinishFiles(j) \/ Report(j)

-----------------------------------------------------------------------------
(* The sweepers.                                                           *)

Swept == sweeps < MaxSweeps /\ sweeps' = sweeps + 1
SweepKeeps == UNCHANGED <<run, viewer, paused, trouble, crashed>> /\ RunsKeep
Dropped(ks) == undercut' = undercut \cup {k \in ks : \E g \in Gens : Alive(<<k, g>>)}

\* An expired state, or a file over the limits: the state goes under the lock,
\* the files afterwards.
Condemn(k) ==
    /\ ~InUse(k) /\ (Present(k) \/ Cached(k)) /\ k \notin condemned /\ Swept
    /\ proxy' = [proxy EXCEPT ![k] = NoEntry] /\ Dropped({k})
    /\ condemned' = condemned \cup {k}
    /\ UNCHANGED <<tmp, dest, status>> /\ SweepKeeps

RemoveCondemned(k) ==
    /\ k \in condemned /\ condemned' = condemned \ {k}
    /\ tmp' = [tmp EXCEPT ![k] = 0] /\ dest' = [dest EXCEPT ![k] = "none"]
    /\ status' = "not_required" /\ Dropped({k})
    /\ UNCHANGED <<proxy, sweeps>> /\ SweepKeeps

\* The common cache policy takes finished files that nobody has pinned.
Evict(k) ==
    /\ Cached(k) /\ Swept
    /\ \A g \in Gens : ~Alive(<<k, g>>)
    /\ ~\E v \in Viewers : viewer[v].at \in {"live", "cached"} /\ viewer[v].key = k
    /\ dest' = [dest EXCEPT ![k] = "none"]
    /\ UNCHANGED <<proxy, tmp, status, condemned, undercut>> /\ SweepKeeps

-----------------------------------------------------------------------------
(* Other parts of the program.                                             *)

Trouble == trouble < MaxTrouble /\ trouble' = trouble + 1
Cancellable == {<<k, proxy[k].cancel>> : k \in {l \in Keys : Present(l) /\ proxy[l].cancel # 0}}

\* cancelExternalMediaWork, and the end of the pause.
SetPause ==
    /\ IF paused THEN UNCHANGED <<stopped, trouble>>
                 ELSE Trouble /\ stopped' = stopped \cup Cancellable
    /\ paused' = ~paused
    /\ UNCHANGED <<proxy, run, idle, slots, viewer, sweeps, crashed, undercut>> /\ FilesKeep

\* stopAssetVideoWork; the files follow when the goroutines are done or five
\* seconds are over.
DeleteAsset ==
    /\ Trouble /\ stopped' = stopped \cup Cancellable
    /\ proxy' = [k \in Keys |-> NoEntry] /\ Dropped(Keys)
    /\ condemned' = Keys
    /\ UNCHANGED <<run, idle, slots, tmp, dest, status, viewer, paused, sweeps, crashed>>

\* The process ends; ResetBackgroundVideoProxyWork runs before the server does.
\* The files stay, the temporary ones too.
Restart ==
    /\ Trouble
    /\ proxy' = [k \in Keys |-> NoEntry]
    /\ run' = [j \in Jobs |-> IF Alive(j) THEN "ended" ELSE run[j]]
    /\ stopped' = {} /\ idle' = {} /\ slots' = {} /\ condemned' = {}
    /\ status' = IF status \in {"processing", "error"} THEN "not_required" ELSE status
    /\ viewer' = [v \in Viewers |-> Away]
    /\ crashed' = FALSE /\ undercut' = {k \in undercut : Cached(k)}
    /\ UNCHANGED <<tmp, dest, paused, sweeps>>

ViewerStep(v, k) ==
    \/ Play(v, k) \/ LeaseEnds(v, k)
    \/ \E wants \in BOOLEAN : Heartbeat(v, k, wants)

Next ==
    \/ \E v \in Viewers, k \in Keys : ViewerStep(v, k)
    \/ \E v \in Viewers : JoinStream(v) \/ OpenCached(v) \/ LeaveStream(v)
    \/ \E j \in Jobs : RunStep(j)
    \/ \E k \in Keys : KeepaliveEnsures(k) \/ Condemn(k) \/ RemoveCondemned(k) \/ Evict(k)
    \/ SetPause \/ DeleteAsset \/ Restart

Spec == Init /\ [][Next]_vars

-----------------------------------------------------------------------------
(* A runtime shown as queued or transcoding has a goroutine at it: viewers *)
(* join such a runtime instead of starting it, so one without a goroutine  *)
(* would never play again.  The library too shows a video as being         *)
(* transcoded only while a goroutine works for it, whichever of the        *)
(* asset's keys it was last written for.                                   *)
BusyHasRun ==
    /\ \A k \in Keys : Present(k) /\ Busy(proxy[k]) => \E g \in Gens : Alive(<<k, g>>)
    /\ status = "processing" => \E j \in Jobs : Alive(j)

(* A finished proxy, served under its key as an ETag, is the whole output  *)
(* of a transcode that succeeded.  Goroutines of one key share one         *)
(* temporary path, so it takes that there is only one of them; a runtime   *)
(* removed under its goroutine (asset deletion), or files that a late      *)
(* sweep takes from it, break this.                                        *)
ProxyIsWhole == \A k \in Keys : dest[k] = "part" => k \in undercut

(* No Done is closed a second time, which would end the server, unless a   *)
(* runtime or its files were removed under its goroutine.                  *)
DoneClosesOnce == crashed => undercut # {}
=============================================================================
