---------------------------- MODULE MediaCache ----------------------------
(***************************************************************************)
(* The writers and readers of the unified cache in the API process:        *)
(*   - requests that read a chunk of a media file, or a whole original     *)
(*     image, copying it from the source first, one copy at a time behind  *)
(*     the media I/O scheduler;                                            *)
(*   - the viewer preview, made once for all the requests that want it;    *)
(*   - the audio proxy, made by a goroutine that a request for other media *)
(*     may cancel;                                                         *)
(* and the sweeper, the capacity checks and the user's clear under them.   *)
(***************************************************************************)
EXTENDS CachePolicy

CONSTANTS Chunks,    \* chunk files, pinned while they are written
          Originals, \* original images, not pinned while they are written
          Audio,     \* the audio proxy
          Preview,   \* the viewer preview
          Thumb,     \* a thumbnail: of a kind that is kept
          Readers, Viewers,
          Casts,     \* bound: the writers that show up together
          Priorities,\* media I/O priorities, higher ones first
          Shortages  \* what the free space of the disk may lack

ASSUME MediaAssumption ==
    /\ Chunks \cup Originals \cup {Audio, Preview, Thumb} \subseteq Dests
    /\ Audio \notin Chunks \cup Originals /\ Preview \notin Chunks \cup Originals
    /\ Thumb \notin Chunks \cup Originals \cup {Audio, Preview} /\ Audio # Preview
    /\ Writers = Readers \cup Viewers \cup {"audio", "thumb"}
    /\ Readers \cap Viewers = {} /\ "audio" \notin Readers \cup Viewers
    /\ Casts \subseteq SUBSET Writers
    /\ Priorities \subseteq Nat /\ Shortages \subseteq Nat

VARIABLES
    cast,     \* the writers of this behaviour
    ioActive, \* mediaIOScheduler.active
    waiters,  \* mediaIOScheduler.waiters, in order of arrival
    holding,  \* readers that have been granted the scheduler
    req,      \* what each reader is doing
    viewer,   \* what each request for the preview is doing
    call,     \* previewCalls of the asset
    audio     \* the audio proxy's runtime and its goroutine

vars == <<cast, cache, ioActive, waiters, holding, req, viewer, call, audio>>
io   == <<ioActive, waiters, holding>>

Results == {"ok", "failed", "cancelled"}

TypeOK ==
    /\ CacheTypeOK /\ cast \in Casts
    /\ ioActive \in BOOLEAN /\ holding \subseteq Readers
    /\ waiters \in Seq(Readers) /\ IsInjective(waiters)
    /\ req \in [Readers -> [at : {"idle", "wait", "make", "copy", "found", "gap", "open"},
                            want : Chunks \cup Originals, priority : Priorities]]
    /\ viewer \in [Viewers -> {"idle", "join", "slot", "make"}]
    /\ call \in Results \cup {"none", "running"}
    /\ audio \in [status : {"none", "idle", "queued", "processing", "ready", "error"},
                  priority : {"preload", "current"}, cancelled : BOOLEAN,
                  at : {"off", "queued", "reserve", "encode"}]

Unasked == [at |-> "idle", want |-> CHOOSE c \in Chunks : TRUE, priority |-> Max(Priorities)]

Init ==
    /\ CacheInit /\ cast \in Casts
    /\ ioActive = FALSE /\ waiters = <<>> /\ holding = {}
    /\ req = [r \in Readers |-> Unasked]
    /\ viewer = [v \in Viewers |-> "idle"] /\ call = "none"
    /\ audio = [status |-> "none", priority |-> "current", cancelled |-> FALSE, at |-> "off"]

At(r, place)  == req[r].at = place
Goes(r, place) == req' = [req EXCEPT ![r].at = place]
Want(r)   == req[r].want
IsChunk(r) == Want(r) \in Chunks
ChunkPin(r) == IF IsChunk(r) THEN {Final(Want(r))} ELSE {}
Others    == <<viewer, call, audio>>

(***************************************************************************)
(* mediaIOScheduler: one holder; the waiter with the highest priority that *)
(* came first is next, and one that gives up is taken out of the queue.    *)
(***************************************************************************)
AcquiresAnyway == TRUE
Free == ~ioActive

NextInLine(i) == \A k \in 1 .. Len(waiters) :
    \/ req[waiters[k]].priority < req[waiters[i]].priority
    \/ req[waiters[k]].priority = req[waiters[i]].priority /\ i <= k

Acquire(r) ==
    IF Free THEN ioActive' = TRUE /\ holding' = holding \cup {r} /\ UNCHANGED waiters
    ELSE waiters' = Append(waiters, r) /\ UNCHANGED <<ioActive, holding>>

Release(r) ==
    IF waiters = <<>> THEN ioActive' = FALSE /\ holding' = holding \ {r} /\ UNCHANGED waiters
    ELSE \E i \in 1 .. Len(waiters) :
            /\ NextInLine(i)
            /\ waiters' = RemoveAt(waiters, i)
            /\ holding' = (holding \ {r}) \cup {waiters[i]}
            /\ UNCHANGED ioActive

StayQueued(r) == waiters
LeftQueue(r) == RemoveAt(waiters, CHOOSE i \in 1 .. Len(waiters) : waiters[i] = r)

(***************************************************************************)
(* A request for a chunk or an original: look, and when it is not there    *)
(* wait for the scheduler, look again, make room, copy, rename, register;  *)
(* then open what is there.  ensureChunk pins the chunk until it returns;  *)
(* the reader pins it again to open it.                                    *)
(***************************************************************************)
\* The chunk's pin goes and the scheduler is given back.
Leave(r, place, drop) ==
    /\ req' = [req EXCEPT ![r] = IF place = "idle" THEN Unasked ELSE [@ EXCEPT !.at = place]]
    /\ pinned' = Pins(pinned, {}, drop)
    /\ IF r \in holding THEN Release(r) ELSE UNCHANGED io

Look(r, d, priority) ==
    /\ At(r, "idle")
    /\ LET hit == Exists(Final(d))
           pin == IF d \in Chunks THEN {Final(d)} ELSE {}
       IN /\ req' = [req EXCEPT ![r] = [at |-> IF hit THEN "found" ELSE "wait",
                                        want |-> d, priority |-> priority]]
          /\ pinned' = Pins(pinned, pin, {})
          /\ IF hit THEN Touched(Final(d)) /\ UNCHANGED io
             ELSE Acquire(r) /\ UNCHANGED order
    /\ UNCHANGED <<disk, Others>>

\* The client went away, or its warm job was cancelled.
GivesUp(r) ==
    /\ At(r, "wait") /\ r \notin holding
    /\ waiters' = LeftQueue(r)
    /\ req' = [req EXCEPT ![r] = Unasked] /\ pinned' = Pins(pinned, {}, ChunkPin(r))
    /\ UNCHANGED <<disk, order, ioActive, holding, Others>>

MissedBefore(d) == TRUE
Missing(d) == ~Exists(Final(d))

Recheck(r) ==
    /\ At(r, "wait") /\ r \in holding /\ ~Missing(Want(r))
    /\ Goes(r, "found")
    /\ IF IsChunk(r) THEN UNCHANGED order ELSE Touched(Final(Want(r)))
    /\ UNCHANGED <<disk, pinned, io, Others>>

\* os.Remove of what a chunk's path still holds, and EnsureCapacity.
Reserve(r, short) ==
    /\ At(r, "wait") /\ r \in holding /\ Missing(Want(r))
    /\ LET own  == IF IsChunk(r) THEN {Final(Want(r))} ELSE {}
           size == Size[Want(r)]
       IN /\ Deleted(own \cup Evicted(size, short))
          /\ IF EnoughWhenEvicted(size, short) THEN Goes(r, "make") /\ UNCHANGED <<pinned, io>>
             ELSE Leave(r, "idle", ChunkPin(r))
    /\ UNCHANGED Others

Make(r) ==
    /\ At(r, "make")
    /\ Created(Partial(Want(r)), r)
    /\ Goes(r, "copy")
    /\ UNCHANGED <<pinned, io, Others>>

\* The source cannot be opened, or the external access is paused.
MakeFails(r) ==
    /\ At(r, "make")
    /\ Leave(r, "idle", ChunkPin(r))
    /\ UNCHANGED <<disk, order, Others>>

\* A read error, a short read, a full disk: the partial output is removed.
CopyFails(r) ==
    /\ At(r, "copy")
    /\ Deleted({Partial(Want(r))})
    /\ Leave(r, "idle", ChunkPin(r))
    /\ UNCHANGED Others

\* The copy is complete, in the file that it was written to, and the partial
\* output is renamed, if there is one.
Completed(w, d) ==
    LET done == [p \in Paths |-> IF disk[p].by = w THEN [disk[p] EXCEPT !.by = "", !.whole = TRUE]
                                ELSE disk[p]]
    IN IF Exists(Partial(d)) THEN Renamed(d, done) ELSE disk' = done /\ UNCHANGED order

Copied(r) ==
    /\ At(r, "copy")
    /\ Completed(r, Want(r))
    /\ IF Exists(Partial(Want(r))) THEN Goes(r, "found") /\ UNCHANGED <<pinned, io>>
       ELSE Leave(r, "idle", ChunkPin(r))
    /\ UNCHANGED Others

\* ensureChunk returns; serveCachedOriginalImage keeps the scheduler while it serves.
Found(r) ==
    /\ At(r, "found")
    /\ IF IsChunk(r) THEN Leave(r, "gap", ChunkPin(r)) ELSE Goes(r, "gap") /\ UNCHANGED <<pinned, io>>
    /\ UNCHANGED <<disk, order, Others>>

Open(r) ==
    /\ At(r, "gap")
    /\ IF Exists(Final(Want(r)))
       THEN Goes(r, "open") /\ pinned' = Pins(pinned, {Final(Want(r))}, {}) /\ UNCHANGED io
       ELSE Leave(r, "idle", {})
    /\ UNCHANGED <<disk, order, Others>>

Close(r) ==
    /\ At(r, "open")
    /\ Leave(r, "idle", {Final(Want(r))})
    /\ UNCHANGED <<disk, order, Others>>

(***************************************************************************)
(* ensureViewerPreview: the first request makes the preview, the others    *)
(* wait for its result.  The entry of the call goes a moment after its     *)
(* result is known.  Nothing is pinned.                                    *)
(***************************************************************************)
ViewerGoes(v, place) == viewer' = [viewer EXCEPT ![v] = place]

PreviewAsked(v) ==
    /\ viewer[v] = "idle" /\ ~Exists(Final(Preview))
    /\ IF call = "none" THEN ViewerGoes(v, "slot") /\ call' = "running"
       ELSE call = "running" /\ ViewerGoes(v, "join") /\ UNCHANGED call
    /\ UNCHANGED <<cache, io, req, audio>>

\* The result wakes every request that waits for the call.
Told(v, result) ==
    /\ call' = result
    /\ viewer' = [w \in Viewers |-> IF w = v \/ viewer[w] = "join" THEN "idle" ELSE viewer[w]]

PreviewForgotten ==
    /\ call \in Results /\ call' = "none"
    /\ UNCHANGED <<cache, io, req, viewer, audio>>

JoinerGone(v) ==
    /\ viewer[v] = "join" /\ ViewerGoes(v, "idle")
    /\ UNCHANGED <<cache, io, req, call, audio>>

\* It has its slot: the preview was made meanwhile, or there is no room, or the
\* tool starts to write it.
PreviewReserve(v, short) ==
    /\ viewer[v] = "slot"
    /\ IF Exists(Final(Preview)) THEN Told(v, "ok") /\ UNCHANGED cache
       ELSE IF EnoughWhenEvicted(Size[Preview], short)
            THEN /\ Reserved({}, Partial(Preview), v, short)
                 /\ ViewerGoes(v, "make") /\ UNCHANGED <<call, pinned>>
            ELSE EnsureCapacity(Size[Preview], short) /\ Told(v, "failed")
    /\ UNCHANGED <<io, req, audio>>

\* The tool failed, the slot was not free in time, or the leader's client went away.
PreviewFails(v) ==
    /\ viewer[v] \in {"slot", "make"}
    /\ \E result \in {"failed", "cancelled"} : Told(v, result)
    /\ Deleted({Partial(Preview)})
    /\ UNCHANGED <<pinned, io, req, audio>>

PreviewMade(v) ==
    /\ viewer[v] = "make"
    /\ Completed(v, Preview)
    /\ Told(v, IF Exists(Partial(Preview)) THEN "ok" ELSE "failed")
    /\ UNCHANGED <<pinned, io, req, audio>>

(***************************************************************************)
(* The audio proxy.  A request starts its goroutine unless one is under    *)
(* way or has finished; a current request for other media cancels one that *)
(* was only preloading.                                                    *)
(***************************************************************************)
AudioPins == {Final(Audio), Partial(Audio)}
Restarts == audio.status \in {"none", "idle", "error"}

StartAudio(priority) ==
    /\ ~Exists(Final(Audio))
    /\ audio' = IF Restarts
                THEN [status |-> "queued", priority |-> priority, cancelled |-> FALSE, at |-> "queued"]
                ELSE IF priority = "current" THEN [audio EXCEPT !.priority = "current"] ELSE audio
    /\ UNCHANGED <<cache, io, req, viewer, call>>

CurrentElsewhere ==
    /\ audio.priority = "preload" /\ audio.status \in {"queued", "processing"}
    /\ audio' = [audio EXCEPT !.cancelled = TRUE]
    /\ UNCHANGED <<cache, io, req, viewer, call>>

AudioEnds(status) == audio' = [status |-> status, priority |-> "current", cancelled |-> FALSE, at |-> "off"]

\* It waits for the slot of audio proxies.
AudioSlot ==
    /\ audio.at = "queued"
    /\ \/ audio.cancelled /\ AudioEnds("idle")
       \/ audio' = [audio EXCEPT !.status = "processing", !.at = "reserve"]
    /\ UNCHANGED <<cache, io, req, viewer, call>>

AudioReserve(short) ==
    /\ audio.at = "reserve"
    /\ LET gone == Evicted(Size[Audio], short)
       IN IF EnoughWhenEvicted(Size[Audio], short)
          THEN /\ audio' = [audio EXCEPT !.at = "encode"]
               /\ pinned' = Pins(pinned, AudioPins, {})
               /\ Reserved({Partial(Audio)}, Partial(Audio), "audio", short)
          ELSE AudioEnds("error") /\ UNCHANGED pinned /\ Deleted(gone)
    /\ UNCHANGED <<io, req, viewer, call>>

\* The source is not there, or ffmpeg fails or is killed.
AudioFails ==
    /\ audio.at \in {"reserve", "encode"}
    /\ AudioEnds(IF audio.cancelled /\ audio.at = "encode" THEN "idle" ELSE "error")
    /\ IF audio.at = "encode" THEN Deleted({Partial(Audio)}) /\ pinned' = Pins(pinned, {}, AudioPins)
       ELSE UNCHANGED cache
    /\ UNCHANGED <<io, req, viewer, call>>

AudioFinish ==
    /\ audio.at = "encode"
    /\ pinned' = Pins(pinned, {}, AudioPins)
    /\ IF audio.cancelled THEN Deleted({Partial(Audio)}) /\ AudioEnds("idle")
       ELSE Completed("audio", Audio) /\ AudioEnds("ready")
    /\ UNCHANGED <<io, req, viewer, call>>

(***************************************************************************)
(* Reclaiming: the sweeper's two steps every minute, and the user's clear. *)
(***************************************************************************)
\* The thumbnail processor asks for no room.
ThumbWritten ==
    /\ ~Exists(Final(Thumb))
    /\ disk' = [disk EXCEPT ![Final(Thumb)] = [by |-> "", whole |-> TRUE, fresh |-> FALSE]]
    /\ order' = Append(order, Final(Thumb))
    /\ UNCHANGED <<pinned, io, req, Others>>

Reclaim ==
    /\ \/ CleanupAbandoned
       \/ \E short \in Shortages : EnsureCapacity(0, short)
       \/ Clear
       \/ \E p \in Paths : GoesStale(p)
    /\ UNCHANGED <<io, req, Others>>

ReaderStep(r) ==
    \/ \E d \in Chunks \cup Originals, q \in Priorities : Look(r, d, q)
       \/ GivesUp(r) \/ Recheck(r)
    \/ \E short \in Shortages : Reserve(r, short)
    \/ Make(r) \/ MakeFails(r) \/ Copied(r) \/ CopyFails(r)
    \/ Found(r) \/ Open(r) \/ Close(r)

ViewerStep(v) ==
    \/ PreviewAsked(v) \/ JoinerGone(v)
    \/ \E short \in Shortages : PreviewReserve(v, short)
    \/ PreviewMade(v) \/ PreviewFails(v)

AudioStep ==
    \/ \E q \in {"preload", "current"} : StartAudio(q)
    \/ CurrentElsewhere \/ AudioSlot
    \/ \E short \in Shortages : AudioReserve(short)
    \/ AudioFails \/ AudioFinish

Next ==
    /\ \/ \E r \in Readers \cap cast : ReaderStep(r)
       \/ \E v \in Viewers \cap cast : ViewerStep(v)
       \/ PreviewForgotten
       \/ "audio" \in cast /\ AudioStep
       \/ "thumb" \in cast /\ ThumbWritten
       \/ Reclaim
    /\ UNCHANGED cast

Spec == Init /\ [][Next]_vars

(***************************************************************************)
(* Properties.                                                             *)
(***************************************************************************)

\* The scheduler is never lost: it is active exactly while one reader that
\* still needs it holds it, and nobody waits for an inactive one.
OneSourceRead ==
    /\ ioActive <=> holding # {}
    /\ Cardinality(holding) <= 1
    /\ waiters # <<>> => ioActive
    /\ \A r \in holding : ~At(r, "idle")

\* A finished cache file is complete, although partial outputs have fixed
\* names, are swept by age and are written by whoever came first.
FinalIsWhole == \A d \in Dests : Exists(Final(d)) => disk[Final(d)].whole

\* Concurrent writers reserve room one by one, so what they write together
\* may pass the limit, but by no more than what the writers of two of the
\* three independent classes (source copies, preview, audio) have reserved,
\* next to the kept files, which take no part in the limit.
Overshoots == {Size[Preview] + Size[Audio]}
         \cup {Size[d] + Size[e] : d \in Chunks \cup Originals, e \in {Preview, Audio}}
OvershootIsBounded ==
    LET kept == IF Exists(Final(Thumb)) THEN Size[Thumb] ELSE 0
    IN \E over \in Overshoots : Total - kept <= MaxBytes + over

\* A finished file that somebody has pinned is never taken away, by any of
\* the reclaiming steps or by another writer of the same file.
PinnedFileStays == [][\A d \in Dests :
    Exists(Final(d)) /\ PathPinned(Final(d)) => disk'[Final(d)] # Nothing]_vars
=============================================================================
